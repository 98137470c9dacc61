------------------------ MODULE RelayerRegistryProofs ------------------------
(***************************************************************************)
(* Theorems about RelayerRegistry, for any number of callers.              *)
(***************************************************************************)
EXTENDS RelayerRegistry, FiniteSetTheorems, WellFoundedInduction, TLAPS

\* register appends the next index, so it matters that initialize, which sets
\* the count to 0, finds nobody registered.
CountStartsAtZero == ~initialized => relayerCount = 0

IInv == TypeOK /\ EnumerationExact /\ CountStartsAtZero

\* A call is one that fails and changes nothing, or one of five that succeed.
LEMMA StepCases ==
  ASSUME Next
  PROVE  \/ UNCHANGED registryVars
         \/ \E caller \in Address : \E maxFee \in FeeBps : InitializeOk(caller, maxFee)
         \/ \E caller \in Address : \E maxFee \in FeeBps : SetMaxFeeOk(caller, maxFee)
         \/ \E caller \in Address : \E endpoint \in Endpoint, feeBps \in FeeBps :
              RegisterOk(caller, endpoint, feeBps)
         \/ \E caller, relayer \in Address : DeactivateOk(caller, relayer)
         \/ \E caller \in Address : ReactivateOk(caller)
  BY DEF Next, Initialize, SetMaxFee, Register, Deactivate, Reactivate, Fail

\* Everything is empty before initialize.
LEMMA IInvInit == Init => IInv
<1> SUFFICES ASSUME Init PROVE IInv
  OBVIOUS
<1>1. TypeOK
  BY RegistryAssumption DEF Init, TypeOK, Registered, RelayerInfo, Op, Outcome
<1>2. EnumerationExact
  BY DEF Init, EnumerationExact, Registered
<1> QED
  BY <1>1, <1>2 DEF Init, IInv, CountStartsAtZero

\* Every call that is made is recorded with its caller and a known outcome.
LEMMA CallTyped ==
  ASSUME Next
  PROVE  lastCall' \in [op : Op, caller : Address \cup {NoAdmin}, outcome : Outcome]
<1> USE DEF Op, Outcome, Fail, Answer
<1>1. ASSUME NEW caller \in Address, NEW maxFee \in FeeBps,
             Initialize(caller, maxFee) \/ SetMaxFee(caller, maxFee)
      PROVE  lastCall' \in [op : Op, caller : Address \cup {NoAdmin}, outcome : Outcome]
  BY <1>1 DEF Initialize, InitializeOk, SetMaxFee, SetMaxFeeOk, SetMaxFeeOutcome
<1>2. ASSUME NEW caller \in Address, NEW endpoint \in Endpoint, NEW feeBps \in FeeBps,
             Register(caller, endpoint, feeBps)
      PROVE  lastCall' \in [op : Op, caller : Address \cup {NoAdmin}, outcome : Outcome]
  BY <1>2 DEF Register, RegisterOk, RegisterOutcome
<1>3. ASSUME NEW caller \in Address, NEW relayer \in Address, Deactivate(caller, relayer)
      PROVE  lastCall' \in [op : Op, caller : Address \cup {NoAdmin}, outcome : Outcome]
  BY <1>3 DEF Deactivate, DeactivateOk, DeactivateOutcome
<1>4. ASSUME NEW caller \in Address, Reactivate(caller)
      PROVE  lastCall' \in [op : Op, caller : Address \cup {NoAdmin}, outcome : Outcome]
  BY <1>4 DEF Reactivate, ReactivateOk
<1> QED
  BY <1>1, <1>2, <1>3, <1>4 DEF Next

\* A successful registration keeps the enumeration exact: a newcomer takes the
\* next index, a relayer known already keeps the one it has.
LEMMA RegisterKeeps ==
  ASSUME IInv, NEW relayer \in Address, NEW endpoint \in Endpoint, NEW feeBps \in FeeBps,
         RegisterOk(relayer, endpoint, feeBps)
  PROVE  /\ Registered' = Registered \cup {relayer}
         /\ relayers' \in [Registered' -> RelayerInfo]
         /\ relayerCount' \in Nat
         /\ relayerIndex' \in [DOMAIN relayerIndex' -> Address]
         /\ EnumerationExact'
<1> USE DEF IInv, TypeOK
<1>1. endpoint # EmptyString
  BY DEF RegisterOk, RegisterOutcome
<1>2. relayers' = Put(relayers, relayer,
                      [endpoint |-> endpoint, feeBps |-> feeBps, active |-> TRUE])
  BY DEF RegisterOk
<1>3. Registered' = Registered \cup {relayer}
  BY <1>2 DEF Put, Registered
<1>4. relayers' \in [Registered' -> RelayerInfo]
  BY <1>1, <1>2, <1>3 DEF Put, Registered, RelayerInfo
<1>5. CASE relayer \in Registered
  <2>1. UNCHANGED <<relayerIndex, relayerCount>>
    BY <1>5 DEF RegisterOk, AppendIfNew
  <2> QED
    BY <1>3, <1>4, <1>5, <2>1 DEF EnumerationExact
<1>6. CASE relayer \notin Registered
  <2>1. /\ relayerIndex' = Put(relayerIndex, relayerCount, relayer)
        /\ relayerCount' = relayerCount + 1
    BY <1>6 DEF RegisterOk, AppendIfNew
  <2>2. DOMAIN relayerIndex' = 0 .. relayerCount' - 1
    <3>1. DOMAIN relayerIndex' = DOMAIN relayerIndex \cup {relayerCount}
      BY <2>1 DEF Put
    <3> QED
      BY <2>1, <3>1 DEF EnumerationExact
  <2>3. /\ relayerIndex'[relayerCount] = relayer
        /\ \A i \in 0 .. relayerCount - 1 : relayerIndex'[i] = relayerIndex[i]
    BY <2>1 DEF Put, EnumerationExact
  <2>4. \A i \in 0 .. relayerCount - 1 : relayerIndex[i] \in Registered
    BY DEF EnumerationExact
  <2>5. relayerIndex' \in [DOMAIN relayerIndex' -> Address]
    BY <2>1 DEF Put
  <2>6. {relayerIndex'[i] : i \in DOMAIN relayerIndex'} = Registered'
    BY <1>3, <2>1, <2>2, <2>3 DEF EnumerationExact
  <2>7. \A i, j \in DOMAIN relayerIndex' : relayerIndex'[i] = relayerIndex'[j] => i = j
    BY <1>6, <2>1, <2>2, <2>3, <2>4 DEF EnumerationExact
  <2> QED
    BY <1>3, <1>4, <2>1, <2>2, <2>5, <2>6, <2>7 DEF EnumerationExact
<1> QED
  BY <1>3, <1>4, <1>5, <1>6

\* Every step preserves the inductive invariant.
LEMMA IInvStep == IInv /\ [Next]_vars => IInv'
<1> SUFFICES ASSUME IInv, [Next]_vars PROVE IInv'
  OBVIOUS
<1> USE DEF IInv
<1>1. CASE UNCHANGED vars
  BY <1>1 DEF vars, registryVars, TypeOK, EnumerationExact, CountStartsAtZero, Registered
<1>2. CASE Next
  <2>1. lastCall' \in [op : Op, caller : Address \cup {NoAdmin}, outcome : Outcome]
    BY <1>2, CallTyped
  <2>2. CASE UNCHANGED registryVars
    BY <2>1, <2>2
       DEF registryVars, TypeOK, EnumerationExact, CountStartsAtZero, Registered
  <2>3. ASSUME NEW caller \in Address, NEW maxFee \in FeeBps, InitializeOk(caller, maxFee)
        PROVE  IInv'
    <3>1. relayerCount' = relayerCount
      BY <2>3 DEF InitializeOk, CountStartsAtZero
    <3> QED
      BY <2>1, <2>3, <3>1, RegistryAssumption
         DEF InitializeOk, TypeOK, EnumerationExact, CountStartsAtZero, Registered
  <2>4. ASSUME NEW caller \in Address, NEW maxFee \in FeeBps, SetMaxFeeOk(caller, maxFee)
        PROVE  IInv'
    BY <2>1, <2>4, RegistryAssumption
       DEF SetMaxFeeOk, TypeOK, EnumerationExact, CountStartsAtZero, Registered
  <2>5. ASSUME NEW caller \in Address, NEW endpoint \in Endpoint, NEW feeBps \in FeeBps,
               RegisterOk(caller, endpoint, feeBps)
        PROVE  IInv'
    <3>1. initialized
      BY <2>5 DEF RegisterOk, RegisterOutcome
    <3>2. UNCHANGED <<initialized, admin, maxFeeBps>>
      BY <2>5 DEF RegisterOk
    <3> QED
      BY <2>1, <2>5, <3>1, <3>2, RegisterKeeps DEF TypeOK, CountStartsAtZero
  <2>6. ASSUME NEW relayer \in Registered, NEW flag \in BOOLEAN,
               relayers' = [relayers EXCEPT ![relayer].active = flag],
               UNCHANGED <<initialized, admin, maxFeeBps, relayerCount, relayerIndex>>
        PROVE  IInv'
    <3>1. Registered' = Registered
      BY <2>6 DEF Registered
    <3>2. relayers' \in [Registered -> RelayerInfo]
      BY <2>6 DEF TypeOK, RelayerInfo
    <3> QED
      BY <2>1, <2>6, <3>1, <3>2 DEF TypeOK, EnumerationExact, CountStartsAtZero
  <2>7. ASSUME NEW caller \in Address, NEW relayer \in Address, DeactivateOk(caller, relayer)
        PROVE  IInv'
    BY <2>6, <2>7 DEF DeactivateOk, DeactivateOutcome
  <2>8. ASSUME NEW caller \in Address, ReactivateOk(caller)
        PROVE  IInv'
    BY <2>6, <2>8 DEF ReactivateOk
  <2> QED
    BY <1>2, <2>2, <2>3, <2>4, <2>5, <2>7, <2>8, StepCases
<1> QED
  BY <1>1, <1>2
-----------------------------------------------------------------------------
\* The inductive invariant holds of every execution.
THEOREM Invariance == Spec => []IInv
  BY IInvInit, IInvStep, PTL DEF Spec

\* The storage keys of the registry keep their types.
THEOREM TypeCorrect == Spec => []TypeOK
  BY Invariance, PTL DEF IInv

\* register, deactivate and reactivate keep RelayerIndex(0..count-1) a list of the
\* registered relayers without repetitions, for any number of relayers and calls.
THEOREM Enumerated == Spec => []EnumerationExact
  BY Invariance, PTL DEF IInv

\* No entry is made, replaced or reactivated but by its relayer, and the admin can
\* only turn it off, whatever the order of calls.
THEOREM EntriesOwned == Spec => OnlyOwnEntry
<1> DEFINE Owned ==
      \A r \in Address :
        LET before == r \in Registered
            after == r \in Registered'
            by == lastCall'.caller
        IN  /\ before => after
            /\ ~before /\ after => by = r
            /\ before /\ after /\ relayers'[r] # relayers[r] =>
                 \/ by = r
                 \/ by = admin /\ relayers'[r] = [relayers[r] EXCEPT !.active = FALSE]
<1>1. IInv /\ [Next]_vars => [Owned]_vars
  <2> SUFFICES ASSUME IInv, Next PROVE Owned
    OBVIOUS
  <2>1. CASE UNCHANGED relayers
    BY <2>1 DEF Registered
  <2>2. ASSUME NEW caller \in Address, NEW endpoint \in Endpoint, NEW feeBps \in FeeBps,
               RegisterOk(caller, endpoint, feeBps)
        PROVE  Owned
    <3>1. lastCall'.caller = caller
      BY <2>2 DEF RegisterOk, Answer
    <3>2. \A r \in Registered : r # caller => relayers'[r] = relayers[r]
      BY <2>2 DEF RegisterOk, Put, Registered
    <3> QED
      BY <2>2, <3>1, <3>2, RegisterKeeps
  <2>3. ASSUME NEW caller \in Address, NEW relayer \in Address, DeactivateOk(caller, relayer)
        PROVE  Owned
    <3>1. lastCall'.caller = caller
      BY <2>3 DEF DeactivateOk, Answer
    <3>2. /\ relayer \in Registered
          /\ caller = relayer \/ caller = admin
          /\ relayers' = [relayers EXCEPT ![relayer].active = FALSE]
      BY <2>3 DEF DeactivateOk, DeactivateOutcome
    <3>3. Registered' = Registered
      BY <3>2 DEF Registered
    <3>4. \A r \in Registered : r # relayer => relayers'[r] = relayers[r]
      BY <3>2 DEF Registered
    <3>5. relayers'[relayer] = [relayers[relayer] EXCEPT !.active = FALSE]
      BY <3>2 DEF Registered
    <3> QED
      BY <3>1, <3>2, <3>3, <3>4, <3>5
  <2>4. ASSUME NEW caller \in Address, ReactivateOk(caller)
        PROVE  Owned
    <3>1. lastCall'.caller = caller
      BY <2>4 DEF ReactivateOk, Answer
    <3>2. Registered' = Registered
      BY <2>4 DEF ReactivateOk, Registered
    <3>3. \A r \in Registered : r # caller => relayers'[r] = relayers[r]
      BY <2>4 DEF ReactivateOk, Registered
    <3> QED
      BY <3>1, <3>2, <3>3
  <2> QED
    BY <2>1, <2>2, <2>3, <2>4, StepCases
       DEF registryVars, InitializeOk, SetMaxFeeOk
<1> QED
  BY <1>1, Invariance, PTL DEF Spec, OnlyOwnEntry
-----------------------------------------------------------------------------
(***************************************************************************)
(* The list get_active_relayers returns, by induction over its loop.       *)
(***************************************************************************)

\* A set of natural numbers that is not empty has a least element.
LEMMA LeastElement ==
  ASSUME NEW T \in SUBSET Nat, T # {}
  PROVE  \E x \in T : \A y \in T : x <= y
<1>1. IsWellFoundedOn(OpToRel(<, Nat), Nat)
  BY NatLessThanWellFounded
<1>2. PICK x \in T : \A y \in T : ~ (<<y, x>> \in OpToRel(<, Nat))
  BY <1>1, WFMin, Zenon
<1>3. ASSUME NEW y \in T
      PROVE  ~(y < x)
  <2>1. y \in Nat /\ x \in Nat
    OBVIOUS
  <2>2. y < x => <<y, x>> \in OpToRel(<, Nat)
    BY <2>1, Zenon DEF OpToRel
  <2> QED
    BY <1>2, <2>2, Zenon
<1> QED
  BY <1>3

\* Induction, for a property given as the set of the numbers that have it.
LEMMA InductionOnNat ==
  ASSUME NEW S \in SUBSET Nat, 0 \in S, \A n \in S : n + 1 \in S
  PROVE  S = Nat
<1> SUFFICES ASSUME Nat \ S # {} PROVE FALSE
  OBVIOUS
<1>1. PICK x \in Nat \ S : \A y \in Nat \ S : x <= y
  BY LeastElement
<1>2. x # 0 /\ x - 1 \in Nat
  OBVIOUS
<1>3. x - 1 \in S
  BY <1>1, <1>2
<1> QED
  BY <1>3

\* The loop's list after its round i.
Round(list, i) ==
  IF i = 0 THEN <<>>
  ELSE IF relayers[relayerIndex[i - 1]].active
       THEN Append(list[i - 1], relayerIndex[i - 1])
       ELSE list[i - 1]

\* The lists after the rounds up to n.
ScanTable(list, n) == list = [i \in 0 .. n |-> Round(list, i)]

\* The loop has a result.
LEMMA ScanRuns ==
  ASSUME relayerCount \in Nat
  PROVE  \E list : ScanTable(list, relayerCount) /\ GetActiveRelayers = list[relayerCount]
<1> DEFINE S == {n \in Nat : \E list : ScanTable(list, n)}
<1>1. 0 \in S
  <2>1. PICK list : list = [i \in 0 .. 0 |-> <<>>]
    OBVIOUS
  <2>2. ScanTable(list, 0)
    BY <2>1 DEF ScanTable, Round
  <2> QED
    BY <2>2
<1>2. ASSUME NEW n \in S
      PROVE  n + 1 \in S
  <2>1. n \in Nat /\ \E list : ScanTable(list, n)
    OBVIOUS
  <2>2. PICK list : ScanTable(list, n)
    BY <2>1
  <2>3. PICK next : next = [i \in 0 .. n + 1 |->
                              IF i = n + 1 THEN Round(list, i) ELSE list[i]]
    OBVIOUS
  <2>4. \A i \in 0 .. n : next[i] = list[i]
    BY <2>1, <2>3
  <2>5. ASSUME NEW i \in 0 .. n + 1
        PROVE  Round(next, i) = Round(list, i)
    BY <2>1, <2>4 DEF Round
  <2>6. ASSUME NEW i \in 0 .. n
        PROVE  list[i] = Round(list, i)
    BY <2>2, Zenon DEF ScanTable
  <2>7. next = [i \in 0 .. n + 1 |-> Round(next, i)]
    <3> HIDE DEF S
    <3>1. ASSUME NEW i \in 0 .. n + 1
          PROVE  next[i] = Round(next, i)
      <4>1. CASE i = n + 1
        BY <4>1, <2>3, <2>5
      <4>2. CASE i # n + 1
        <5>1. i \in 0 .. n
          BY <4>2, <2>1
        <5> QED
          BY <4>2, <2>4, <2>5, <2>6, <5>1
      <4> QED
        BY <4>1, <4>2
    <3> QED
      BY <2>3, <3>1
  <2>8. ScanTable(next, n + 1)
    BY <2>7, Zenon DEF ScanTable
  <2> QED
    BY <2>1, <2>8
<1> HIDE DEF S
<1>3. S = Nat
  <2>1. S \in SUBSET Nat
    BY DEF S
  <2> QED
    BY <1>1, <1>2, <2>1, InductionOnNat, Zenon
<1>4. \E list : ScanTable(list, relayerCount)
  BY <1>3 DEF S
<1> QED
  BY <1>4, Zenon DEF ScanTable, Round, GetActiveRelayers

\* The active ones among the first m relayers.
ActiveAmong(m) ==
  {relayerIndex[i] : i \in {j \in 0 .. m - 1 : relayers[relayerIndex[j]].active}}

\* A list that holds the active ones of the first m relayers, each once.
ListsExactly(list, m) ==
  /\ list \in Seq(Address)
  /\ {list[k] : k \in DOMAIN list} = ActiveAmong(m)
  /\ IsFiniteSet(ActiveAmong(m)) /\ Cardinality(ActiveAmong(m)) = Len(list)

\* A round of the loop keeps the list exact.
LEMMA RoundExact ==
  ASSUME TypeOK, EnumerationExact, NEW m \in Nat, m + 1 <= relayerCount,
         NEW list, ListsExactly(list[m], m)
  PROVE  ListsExactly(Round(list, m + 1), m + 1)
<1> DEFINE r == relayerIndex[m]
           before == list[m]
           after == Append(before, r)
<1>0. relayerCount \in Nat /\ DOMAIN relayerIndex = 0 .. relayerCount - 1
  BY DEF TypeOK, EnumerationExact
<1>1. m \in DOMAIN relayerIndex /\ r \in Address
  BY <1>0 DEF TypeOK
<1>2. /\ before \in Seq(Address)
      /\ {before[k] : k \in DOMAIN before} = ActiveAmong(m)
      /\ IsFiniteSet(ActiveAmong(m)) /\ Cardinality(ActiveAmong(m)) = Len(before)
  BY DEF ListsExactly
<1>3. Round(list, m + 1) = IF relayers[r].active THEN after ELSE before
  BY DEF Round
<1>4. CASE relayers[r].active
  <2>1. ActiveAmong(m + 1) = ActiveAmong(m) \cup {r}
    BY <1>4 DEF ActiveAmong
  <2>2. r \notin ActiveAmong(m)
    <3> SUFFICES ASSUME NEW i \in 0 .. m - 1, relayerIndex[i] = r
                 PROVE  FALSE
      BY DEF ActiveAmong
    <3>1. i \in DOMAIN relayerIndex /\ i # m
      BY <1>0
    <3> QED
      BY <1>1, <3>1 DEF EnumerationExact
  <2>3. IsFiniteSet(ActiveAmong(m + 1)) /\ Cardinality(ActiveAmong(m + 1)) = Len(before) + 1
    BY <1>2, <2>1, <2>2, FS_AddElement
  <2> HIDE DEF r, before
  <2>4. /\ after \in Seq(Address) /\ Len(after) = Len(before) + 1
        /\ \A k \in 1 .. Len(before) : after[k] = before[k]
        /\ after[Len(before) + 1] = r
    BY <1>1, <1>2
  <2>5. DOMAIN after = 1 .. Len(before) + 1 /\ DOMAIN before = 1 .. Len(before)
        /\ Len(before) \in Nat
    BY <1>1, <1>2, <2>4
  <2> HIDE DEF after
  <2>6. {after[k] : k \in DOMAIN after} = {before[k] : k \in DOMAIN before} \cup {r}
    <3>1. \A k \in DOMAIN after : k \in DOMAIN before \/ k = Len(before) + 1
      BY <2>5
    <3>2. Len(before) + 1 \in DOMAIN after /\ \A k \in DOMAIN before : k \in DOMAIN after
      BY <2>5
    <3>3. \A k \in DOMAIN before : after[k] = before[k]
      BY <2>4, <2>5
    <3> QED
      BY <2>4, <3>1, <3>2, <3>3
  <2> QED
    BY <1>2, <1>3, <1>4, <2>1, <2>3, <2>4, <2>6 DEF ListsExactly
<1>5. CASE ~relayers[r].active
  <2>1. ActiveAmong(m + 1) = ActiveAmong(m)
    BY <1>5 DEF ActiveAmong
  <2> QED
    BY <1>2, <1>3, <1>5, <2>1 DEF ListsExactly
<1> QED
  BY <1>4, <1>5

\* The list the loop ends with is exact.
LEMMA ScanExact ==
  ASSUME TypeOK, EnumerationExact
  PROVE  ListsExactly(GetActiveRelayers, relayerCount)
<1>0. relayerCount \in Nat
  BY DEF TypeOK
<1>1. PICK list : ScanTable(list, relayerCount) /\ GetActiveRelayers = list[relayerCount]
  BY <1>0, ScanRuns
<1>2. \A i \in 0 .. relayerCount : list[i] = Round(list, i)
  BY <1>1, Zenon DEF ScanTable
<1> DEFINE S == {m \in Nat : m <= relayerCount => ListsExactly(list[m], m)}
<1>3. 0 \in S
  <2>1. list[0] = <<>>
    BY <1>0, <1>2 DEF Round
  <2>2. ActiveAmong(0) = {}
    BY DEF ActiveAmong
  <2>3. IsFiniteSet(ActiveAmong(0)) /\ Cardinality(ActiveAmong(0)) = 0
    BY <2>2, FS_EmptySet
  <2>4. ListsExactly(list[0], 0)
    BY <2>1, <2>2, <2>3 DEF ListsExactly
  <2> QED
    BY <2>4
<1>4. ASSUME NEW m \in S
      PROVE  m + 1 \in S
  <2>1. m \in Nat /\ (m <= relayerCount => ListsExactly(list[m], m))
    OBVIOUS
  <2>2. ASSUME m + 1 <= relayerCount
        PROVE  ListsExactly(list[m + 1], m + 1)
    <3>1. m <= relayerCount /\ m + 1 \in 0 .. relayerCount
      BY <1>0, <2>1, <2>2
    <3>2. ListsExactly(Round(list, m + 1), m + 1)
      BY <2>1, <2>2, <3>1, RoundExact
    <3> QED
      BY <1>2, <3>1, <3>2
  <2> QED
    BY <2>1, <2>2
<1> HIDE DEF S
<1>5. S = Nat
  <2>1. S \in SUBSET Nat
    BY DEF S
  <2> QED
    BY <1>3, <1>4, <2>1, InductionOnNat, Zenon
<1>6. relayerCount \in S /\ relayerCount <= relayerCount
  BY <1>0, <1>5
<1> QED
  BY <1>1, <1>6 DEF S

\* get_active_relayers lists the relayers on offer, each once and nobody else, for
\* any number of relayers and after any sequence of calls.
THEOREM ActiveListed == Spec => []ActiveListExact
<1>1. ASSUME IInv
      PROVE  ActiveListExact
  <2>1. /\ TypeOK /\ EnumerationExact
        /\ DOMAIN relayerIndex = 0 .. relayerCount - 1
        /\ {relayerIndex[i] : i \in DOMAIN relayerIndex} = Registered
    BY <1>1 DEF IInv, TypeOK, EnumerationExact
  <2>2. ActiveAmong(relayerCount) = {r \in Registered : relayers[r].active}
    BY <2>1 DEF ActiveAmong
  <2>3. ListsExactly(GetActiveRelayers, relayerCount)
    BY <2>1, ScanExact
  <2> QED
    BY <2>2, <2>3 DEF ActiveListExact, ListsExactly
<1> QED
  BY <1>1, Invariance, PTL
=============================================================================
