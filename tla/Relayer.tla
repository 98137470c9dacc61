------------------------------- MODULE Relayer -------------------------------
(***************************************************************************)
(* The relay server, relayer/src/relay.rs.  Every HTTP request runs in a   *)
(* task of its own; tasks interleave wherever the handler awaits (a lock,  *)
(* the RPC node), so that each stretch between two awaits is one action.   *)
(* A client that hangs up has its task dropped at the await it is at.      *)
(*                                                                         *)
(* A nullifier hash is the string the client sent: the set compares        *)
(* strings, and two spellings of one hash are two keys.  The variants that *)
(* no action uses are faults the properties would show.                    *)
(***************************************************************************)
EXTENDS Integers, FiniteSets

CONSTANTS Request,       \* POST /relay requests
          StatusRequest, \* GET /status requests
          Key,           \* nullifier_hash_hex strings
          FeeStroops,    \* fees requested, as u64 (0 if it does not parse)
          MaxPending,    \* config.max_pending
          StatModulus,   \* 2^64, where u64 wraps, lowered for model checking
          SubmitAnswers  \* the values of SubmitResult.success

ASSUME RelayerAssumption ==
  /\ MaxPending \in Nat
  /\ StatModulus \in Nat \ {0}
  /\ FeeStroops \subseteq 0 .. StatModulus - 1
  /\ SubmitAnswers \subseteq BOOLEAN

VARIABLES phase,         \* where each relay request's task is
          request,       \* what each request asks for
          success,       \* the submission's result, once there is one
          pending,       \* pending_nullifiers
          totalRelayed,  \* total_relayed
          totalEarned,   \* total_earned
          statusPhase,   \* where each status request's task is
          status         \* what it has read so far

relayVars == <<phase, request, success, pending, totalRelayed, totalEarned>>
statusVars == <<statusPhase, status>>
vars == <<relayVars, statusVars>>

\* A relay task awaits the lock it reads under ("received"), the lock it inserts
\* under ("checked"), the RPC node ("submitting"), the lock it removes under
\* ("submitted"), and the locks of the two statistics.
Active == {"received", "checked", "submitting", "submitted", "relayed", "earning"}

Gone == {"dropped", "abandoned"}

\* The answers, by status code.
Answers == {"ok200", "invalid400", "conflict409", "busy429", "failed500"}

RelayRequest == [key : Key, valid : BOOLEAN, fee : FeeStroops]

NoReaders == {}

\* Tasks of GET /status that hold the read lock on pending_nullifiers: the guard
\* lives until the handler returns.
Readers == {s \in StatusRequest : statusPhase[s] \in {"counting", "summing"}}

Init ==
  /\ phase = [r \in Request |-> "new"]
  /\ request \in [Request -> RelayRequest]
  /\ success = [r \in Request |-> FALSE]
  /\ pending = {}
  /\ totalRelayed = 0
  /\ totalEarned = 0
  /\ statusPhase = [s \in StatusRequest |-> "new"]
  /\ status = [s \in StatusRequest |-> [pending |-> 0, relayed |-> 0, earned |-> 0]]
-----------------------------------------------------------------------------
(***************************************************************************)
(* handle_relay                                                            *)
(***************************************************************************)
Goto(r, next) == phase' = [phase EXCEPT ![r] = next]

Arrive(r) ==
  /\ phase[r] = "new"
  /\ Goto(r, "received")
  /\ UNCHANGED <<request, success, pending, totalRelayed, totalEarned>>

\* Capacity and duplicates are checked under the read lock, which is released
\* before the fields are validated.
CheckRequest(r) ==
  /\ phase[r] = "received"
  /\ Goto(r, IF Cardinality(pending) >= MaxPending THEN "busy429"
             ELSE IF request[r].key \in pending THEN "conflict409"
             ELSE IF ~request[r].valid THEN "invalid400"
             ELSE "checked")
  /\ UNCHANGED <<request, success, pending, totalRelayed, totalEarned>>

InsertPending(r) ==
  /\ phase[r] = "checked"
  /\ Readers = {}
  /\ Goto(r, "submitting")
  /\ pending' = pending \cup {request[r].key}
  /\ UNCHANGED <<request, success, totalRelayed, totalEarned>>

SubmitWithdrawal(r) ==
  /\ phase[r] = "submitting"
  /\ Goto(r, "submitted")
  /\ \E answer \in SubmitAnswers : success' = [success EXCEPT ![r] = answer]
  /\ UNCHANGED <<request, pending, totalRelayed, totalEarned>>

RemoveIfRelayed(r) ==
  /\ phase[r] = "submitted"
  /\ Readers = {}
  /\ Goto(r, IF success[r] THEN "relayed" ELSE "failed500")
  /\ pending' = IF success[r] THEN pending \ {request[r].key} ELSE pending
  /\ UNCHANGED <<request, success, totalRelayed, totalEarned>>


RemovePending(r) ==
  /\ phase[r] = "submitted"
  /\ Readers = {}
  /\ Goto(r, IF success[r] THEN "relayed" ELSE "failed500")
  /\ pending' = pending \ {request[r].key}
  /\ UNCHANGED <<request, success, totalRelayed, totalEarned>>

CountOnly(r) ==
  /\ phase[r] = "relayed"
  /\ Goto(r, "ok200")
  /\ totalRelayed' = (totalRelayed + 1) % StatModulus
  /\ UNCHANGED <<request, success, pending, totalEarned>>

CountRelayed(r) ==
  /\ phase[r] = "relayed"
  /\ Goto(r, "earning")
  /\ totalRelayed' = (totalRelayed + 1) % StatModulus
  /\ UNCHANGED <<request, success, pending, totalEarned>>

EarnedUnwrapped(r) ==
  /\ phase[r] = "earning"
  /\ Goto(r, "ok200")
  /\ totalEarned' = totalEarned + request[r].fee
  /\ UNCHANGED <<request, success, pending, totalRelayed>>

CountEarned(r) ==
  /\ phase[r] = "earning"
  /\ Goto(r, "ok200")
  /\ totalEarned' = (totalEarned + request[r].fee) % StatModulus
  /\ UNCHANGED <<request, success, pending, totalRelayed>>

\* Dropping the task runs none of what follows: in the midst of a submission, the
\* entry it made stays.
HangUp(r) ==
  /\ phase[r] \in Active
  /\ Goto(r, IF phase[r] \in {"submitting", "submitted"} THEN "abandoned" ELSE "dropped")
  /\ UNCHANGED <<request, success, pending, totalRelayed, totalEarned>>

Step(r) ==
  \/ CheckRequest(r)
  \/ InsertPending(r)
  \/ RemovePending(r)
  \/ CountRelayed(r)
  \/ CountEarned(r)
-----------------------------------------------------------------------------
(***************************************************************************)
(* handle_status                                                           *)
(***************************************************************************)
StatusGoto(s, next) == statusPhase' = [statusPhase EXCEPT ![s] = next]

\* Nothing writes pending_nullifiers while the guard lives: its size is the same
\* now as when the answer is built.
ReadPending(s) ==
  /\ statusPhase[s] = "new"
  /\ StatusGoto(s, "counting")
  /\ status' = [status EXCEPT ![s].pending = Cardinality(pending)]

ReadRelayed(s) ==
  /\ statusPhase[s] = "counting"
  /\ StatusGoto(s, "summing")
  /\ status' = [status EXCEPT ![s].relayed = totalRelayed]

ReadEarned(s) ==
  /\ statusPhase[s] = "summing"
  /\ StatusGoto(s, "ok200")
  /\ status' = [status EXCEPT ![s].earned = totalEarned]

StatusHangUp(s) ==
  /\ s \in Readers
  /\ StatusGoto(s, "dropped")
  /\ UNCHANGED status

StatusStep(s) == ReadRelayed(s) \/ ReadEarned(s)
-----------------------------------------------------------------------------
\* Nothing is left to do once every request of the model has been served.
AllServed ==
  /\ \A r \in Request : phase[r] \in Answers \cup Gone
  /\ \A s \in StatusRequest : statusPhase[s] \in {"ok200", "dropped"}
  /\ UNCHANGED vars

Next ==
  \/ \E r \in Request :
       /\ Arrive(r) \/ Step(r) \/ SubmitWithdrawal(r) \/ HangUp(r)
       /\ UNCHANGED statusVars
  \/ \E s \in StatusRequest :
       /\ ReadPending(s) \/ StatusStep(s) \/ StatusHangUp(s)
       /\ UNCHANGED relayVars
  \/ AllServed

Spec == Init /\ [][Next]_vars
-----------------------------------------------------------------------------
(***************************************************************************)
(* Properties.                                                             *)
(***************************************************************************)

\* The type invariant.
TypeOK ==
  /\ phase \in [Request -> {"new"} \cup Gone \cup Active \cup Answers]
  /\ request \in [Request -> RelayRequest]
  /\ success \in [Request -> BOOLEAN]
  /\ pending \subseteq Key
  /\ totalRelayed \in 0 .. StatModulus - 1
  /\ totalEarned \in 0 .. StatModulus - 1
  /\ statusPhase \in [StatusRequest -> {"new", "counting", "summing", "ok200", "dropped"}]
  /\ status \in [StatusRequest -> [pending : Nat, relayed : Nat, earned : Nat]]

\* A nullifier that is refused as "already being processed" is one some task is
\* submitting, or was submitting when its client hung up: success, failure and
\* the refusals of handle_relay leave no entry behind.
NoStrayPending ==
  \A k \in pending : \E r \in Request :
    /\ request[r].key = k
    /\ phase[r] \in {"submitting", "submitted", "abandoned"}

\* What a relayed withdrawal earned, stroop by stroop.
Stroops(r) == {r} \X (1 .. request[r].fee)

Relayed == {r \in Request : phase[r] = "ok200"}
Halfway == {r \in Request : phase[r] = "earning"}

\* The statistics, each behind a lock of its own, end up counting every relayed
\* withdrawal and its fee once (modulo the width of the counters), whatever the
\* order in which the tasks update them; a client that hangs up at that point
\* takes its share with it.
StatsExact ==
  (\A r \in Request : phase[r] \notin Gone) =>
    /\ totalRelayed = Cardinality(Relayed \cup Halfway) % StatModulus
    /\ totalEarned = Cardinality(UNION {Stroops(r) : r \in Relayed}) % StatModulus

\* GET /status counts no request as pending and relayed at once, although it
\* reads three cells one after the other while requests are being served: the
\* guard on the pending set keeps those it counted from being finished.
StatusCountsOnce ==
  \A s \in StatusRequest :
    statusPhase[s] = "ok200" =>
      status[s].pending + status[s].relayed <=
        Cardinality({r \in Request :
                       phase[r] \notin {"new", "received", "checked", "busy429",
                                        "conflict409", "invalid400"}})


\* "Set of nullifier hashes currently being processed (prevents duplicate
\* submissions)" (relay.rs:80): no two tasks submit one nullifier at a time.
NoDuplicateSubmission ==
  \A q, r \in Request :
    phase[q] = "submitting" /\ phase[r] = "submitting" /\ q # r =>
      request[q].key # request[r].key

\* "Set of nullifier hashes currently being processed" (relay.rs:80): what is in
\* the set is being processed.
PendingIsBeingProcessed ==
  \A k \in pending : \E r \in Request :
    request[r].key = k /\ phase[r] \in {"submitting", "submitted"}
=============================================================================
