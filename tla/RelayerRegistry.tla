--------------------------- MODULE RelayerRegistry ---------------------------
(***************************************************************************)
(* The relayer registry contract, contracts/relayer_registry/src/lib.rs.   *)
(* As in MixerPool a call is atomic and a failed one changes nothing but   *)
(* the answer.  Only calls whose signature (require_auth) is good are      *)
(* considered; `lastCall' records who signed.  The variants that no action *)
(* uses are faults the properties would show.                              *)
(***************************************************************************)
EXTENDS Integers, Sequences, FiniteSets

CONSTANTS Address,     \* those who may call
          Endpoint,    \* endpoint strings
          EmptyString, \* the endpoint of length 0
          FeeBps,      \* fee rates and caps, u32
          NoAdmin      \* Admin before initialize

ASSUME RegistryAssumption ==
  /\ FeeBps \subseteq Nat
  /\ EmptyString \in Endpoint
  /\ NoAdmin \notin Address

VARIABLES initialized,   \* Initialized
          admin,         \* Admin
          maxFeeBps,     \* MaxFeeBps
          relayerCount,  \* RelayerCount
          relayers,      \* Relayer(address), a partial function
          relayerIndex,  \* RelayerIndex(i), a partial function
          lastCall       \* who called what, and the answer

registryVars == <<initialized, admin, maxFeeBps, relayerCount, relayers, relayerIndex>>
vars == <<registryVars, lastCall>>

RelayerInfo == [endpoint : Endpoint \ {EmptyString}, feeBps : FeeBps, active : BOOLEAN]

Op == {"none", "initialize", "register", "deactivate", "reactivate", "set_max_fee"}

Outcome == {"Ok", "Panic", "AlreadyInitialized", "FeeTooHigh", "InvalidEndpoint",
            "RelayerNotFound", "Unauthorized"}

\* f with the value v at x, whether x was in its domain or not.
Put(f, x, v) == [y \in DOMAIN f \cup {x} |-> IF y = x THEN v ELSE f[y]]

Registered == DOMAIN relayers

SkipsFirst ==
  LET list[i \in 0 .. relayerCount] ==
        IF i < 2 THEN <<>>
        ELSE IF relayers[relayerIndex[i - 1]].active
             THEN Append(list[i - 1], relayerIndex[i - 1])
             ELSE list[i - 1]
  IN  list[relayerCount]

\* get_active_relayers walks the indices in order and keeps the active ones.
GetActiveRelayers ==
  LET list[i \in 0 .. relayerCount] ==
        IF i = 0 THEN <<>>
        ELSE IF relayers[relayerIndex[i - 1]].active
             THEN Append(list[i - 1], relayerIndex[i - 1])
             ELSE list[i - 1]
  IN  list[relayerCount]
-----------------------------------------------------------------------------
Init ==
  /\ initialized = FALSE
  /\ admin = NoAdmin
  /\ maxFeeBps = 0
  /\ relayerCount = 0
  /\ relayers = [r \in {} |-> NoAdmin]
  /\ relayerIndex = [i \in {} |-> NoAdmin]
  /\ lastCall = [op |-> "none", caller |-> NoAdmin, outcome |-> "Ok"]

Answer(op, caller, outcome) ==
  lastCall' = [op |-> op, caller |-> caller, outcome |-> outcome]

Fail(op, caller, outcome) ==
  outcome # "Ok" /\ Answer(op, caller, outcome) /\ UNCHANGED registryVars

InitializeOk(caller, maxFee) ==
  /\ ~initialized
  /\ Answer("initialize", caller, "Ok")
  /\ initialized' = TRUE
  /\ admin' = caller
  /\ maxFeeBps' = maxFee
  /\ relayerCount' = 0
  /\ UNCHANGED <<relayers, relayerIndex>>

Initialize(caller, maxFee) ==
  \/ initialized /\ Fail("initialize", caller, "AlreadyInitialized")
  \/ InitializeOk(caller, maxFee)

EmptyAllowed(endpoint, feeBps) ==
  IF ~initialized THEN "Panic" ELSE IF feeBps > maxFeeBps THEN "FeeTooHigh" ELSE "Ok"

RegisterOutcome(endpoint, feeBps) ==
  IF ~initialized THEN "Panic"
  ELSE IF feeBps > maxFeeBps THEN "FeeTooHigh"
  ELSE IF endpoint = EmptyString THEN "InvalidEndpoint"
  ELSE "Ok"

AppendAlways(relayer) ==
  /\ relayerIndex' = Put(relayerIndex, relayerCount, relayer)
  /\ relayerCount' = relayerCount + 1

AppendIfNew(relayer) ==
  IF relayer \in Registered
  THEN UNCHANGED <<relayerIndex, relayerCount>>
  ELSE /\ relayerIndex' = Put(relayerIndex, relayerCount, relayer)
       /\ relayerCount' = relayerCount + 1

\* A relayer that is known already only replaces its entry, and is active again.
RegisterOk(relayer, endpoint, feeBps) ==
  /\ RegisterOutcome(endpoint, feeBps) = "Ok"
  /\ Answer("register", relayer, "Ok")
  /\ relayers' = Put(relayers, relayer,
                     [endpoint |-> endpoint, feeBps |-> feeBps, active |-> TRUE])
  /\ AppendIfNew(relayer)
  /\ UNCHANGED <<initialized, admin, maxFeeBps>>

Register(relayer, endpoint, feeBps) ==
  \/ Fail("register", relayer, RegisterOutcome(endpoint, feeBps))
  \/ RegisterOk(relayer, endpoint, feeBps)

AnyoneDeactivates(caller, relayer) ==
  IF ~initialized THEN "Panic"
  ELSE IF relayer \notin Registered THEN "RelayerNotFound" ELSE "Ok"

DeactivateOutcome(caller, relayer) ==
  IF ~initialized THEN "Panic"
  ELSE IF caller # relayer /\ caller # admin THEN "Unauthorized"
  ELSE IF relayer \notin Registered THEN "RelayerNotFound"
  ELSE "Ok"

DeactivateOk(caller, relayer) ==
  /\ DeactivateOutcome(caller, relayer) = "Ok"
  /\ Answer("deactivate", caller, "Ok")
  /\ relayers' = [relayers EXCEPT ![relayer].active = FALSE]
  /\ UNCHANGED <<initialized, admin, maxFeeBps, relayerCount, relayerIndex>>

Deactivate(caller, relayer) ==
  \/ Fail("deactivate", caller, DeactivateOutcome(caller, relayer))
  \/ DeactivateOk(caller, relayer)

ReactivateOk(relayer) ==
  /\ relayer \in Registered
  /\ Answer("reactivate", relayer, "Ok")
  /\ relayers' = [relayers EXCEPT ![relayer].active = TRUE]
  /\ UNCHANGED <<initialized, admin, maxFeeBps, relayerCount, relayerIndex>>

Reactivate(relayer) ==
  \/ relayer \notin Registered /\ Fail("reactivate", relayer, "RelayerNotFound")
  \/ ReactivateOk(relayer)

SetMaxFeeOutcome(caller) ==
  IF ~initialized THEN "Panic" ELSE IF caller # admin THEN "Unauthorized" ELSE "Ok"

SetMaxFeeOk(caller, maxFee) ==
  /\ SetMaxFeeOutcome(caller) = "Ok"
  /\ Answer("set_max_fee", caller, "Ok")
  /\ maxFeeBps' = maxFee
  /\ UNCHANGED <<initialized, admin, relayerCount, relayers, relayerIndex>>

SetMaxFee(caller, maxFee) ==
  \/ Fail("set_max_fee", caller, SetMaxFeeOutcome(caller))
  \/ SetMaxFeeOk(caller, maxFee)

Next ==
  \E caller \in Address :
    \/ \E maxFee \in FeeBps : Initialize(caller, maxFee) \/ SetMaxFee(caller, maxFee)
    \/ \E endpoint \in Endpoint, feeBps \in FeeBps : Register(caller, endpoint, feeBps)
    \/ \E relayer \in Address : Deactivate(caller, relayer)
    \/ Reactivate(caller)

Spec == Init /\ [][Next]_vars
-----------------------------------------------------------------------------
(***************************************************************************)
(* Properties.                                                             *)
(***************************************************************************)

\* The type invariant.
TypeOK ==
  /\ initialized \in BOOLEAN
  /\ admin \in Address \cup {NoAdmin}
  /\ maxFeeBps \in Nat
  /\ relayerCount \in Nat
  /\ Registered \subseteq Address
  /\ relayers \in [Registered -> RelayerInfo]
  /\ relayerIndex \in [DOMAIN relayerIndex -> Address]
  /\ lastCall \in [op : Op, caller : Address \cup {NoAdmin}, outcome : Outcome]

\* The enumeration and the directory agree: the indices in use are 0 to count-1,
\* and they name every registered relayer once, whatever the order of
\* registrations, updates and deactivations.
EnumerationExact ==
  /\ DOMAIN relayerIndex = 0 .. relayerCount - 1
  /\ {relayerIndex[i] : i \in DOMAIN relayerIndex} = Registered
  /\ \A i, j \in DOMAIN relayerIndex : relayerIndex[i] = relayerIndex[j] => i = j

\* get_active_relayers returns each active relayer exactly once, and no other.
ActiveListExact ==
  LET list == GetActiveRelayers
  IN  /\ {list[k] : k \in DOMAIN list} = {r \in Registered : relayers[r].active}
      /\ Len(list) = Cardinality({r \in Registered : relayers[r].active})

\* Nobody's entry changes behind their back: an entry is made, replaced or
\* reactivated by its relayer only, and all the admin can do is turn it off.
OnlyOwnEntry ==
  [][\A r \in Address :
       LET before == r \in Registered
           after == r \in Registered'
           by == lastCall'.caller
       IN  /\ before => after
           /\ ~before /\ after => by = r
           /\ before /\ after /\ relayers'[r] # relayers[r] =>
                \/ by = r
                \/ by = admin /\ relayers'[r] = [relayers[r] EXCEPT !.active = FALSE]]_vars
=============================================================================
