---------------------------- MODULE RelayerProofs ----------------------------
(***************************************************************************)
(* Theorems about Relayer, for any number of requests and any capacity.    *)
(***************************************************************************)
EXTENDS Relayer, FiniteSetTheorems, TLAPS

IInv == TypeOK /\ NoStrayPending /\ IsFiniteSet(pending)

\* No task has begun, and nothing is pending.
LEMMA IInvInit == Init => IInv
BY RelayerAssumption, FS_EmptySet DEF Init, IInv, TypeOK, NoStrayPending

\* A step of a relay task changes its own phase only, and no request.
LEMMA RelayMoves ==
  ASSUME TypeOK, NEW r \in Request,
         Arrive(r) \/ Step(r) \/ SubmitWithdrawal(r) \/ HangUp(r)
  PROVE  /\ UNCHANGED request
         /\ \E p \in {"new"} \cup Gone \cup Active \cup Answers :
              phase' = [phase EXCEPT ![r] = p]
BY DEF TypeOK, Gone, Active, Answers, Goto, Step, Arrive, CheckRequest, InsertPending,
       SubmitWithdrawal, RemovePending, CountRelayed, CountEarned, HangUp

\* Every step of a relay task keeps the types.
LEMMA RelayTyped ==
  ASSUME TypeOK, NEW r \in Request,
         Arrive(r) \/ Step(r) \/ SubmitWithdrawal(r) \/ HangUp(r),
         UNCHANGED statusVars
  PROVE  TypeOK'
<1>1. /\ UNCHANGED request
      /\ phase' \in [Request -> {"new"} \cup Gone \cup Active \cup Answers]
  BY RelayMoves DEF TypeOK
<1>2. success' \in [Request -> BOOLEAN]
  BY RelayerAssumption
     DEF TypeOK, Step, Arrive, CheckRequest, InsertPending, SubmitWithdrawal,
         RemovePending, CountRelayed, CountEarned, HangUp
<1>3. pending' \subseteq Key
  BY DEF TypeOK, RelayRequest, Step, Arrive, CheckRequest, InsertPending,
         SubmitWithdrawal, RemovePending, CountRelayed, CountEarned, HangUp
<1>4. totalRelayed' = totalRelayed \/ totalRelayed' = (totalRelayed + 1) % StatModulus
  BY DEF Step, Arrive, CheckRequest, InsertPending, SubmitWithdrawal,
         RemovePending, CountRelayed, CountEarned, HangUp
<1>5. \/ totalEarned' = totalEarned
      \/ totalEarned' = (totalEarned + request[r].fee) % StatModulus
  BY DEF Step, Arrive, CheckRequest, InsertPending, SubmitWithdrawal,
         RemovePending, CountRelayed, CountEarned, HangUp
<1>6. totalRelayed + 1 \in Nat /\ totalEarned + request[r].fee \in Nat
  <2>1. request[r].fee \in FeeStroops
    BY DEF TypeOK, RelayRequest
  <2>2. request[r].fee \in Nat
    <3>1. FeeStroops \subseteq Nat
      BY RelayerAssumption
    <3> QED
      BY <2>1, <3>1
  <2>3. totalRelayed \in Nat /\ totalEarned \in Nat
    BY RelayerAssumption DEF TypeOK
  <2> QED
    BY <2>2, <2>3
<1>7. totalRelayed' \in 0 .. StatModulus - 1 /\ totalEarned' \in 0 .. StatModulus - 1
  BY <1>4, <1>5, <1>6, RelayerAssumption DEF TypeOK
<1> QED
  BY <1>1, <1>2, <1>3, <1>7 DEF TypeOK, statusVars

\* An entry goes in with a task that will take it out, and comes out when that
\* task does, or stays behind when the task is dropped in between.
LEMMA RelayAccounts ==
  ASSUME TypeOK, NoStrayPending, NEW r \in Request,
         Arrive(r) \/ Step(r) \/ SubmitWithdrawal(r) \/ HangUp(r)
  PROVE  NoStrayPending'
<1> DEFINE Held(q) == phase[q] \in {"submitting", "submitted", "abandoned"}
<1>1. UNCHANGED request /\ \A q \in Request : q # r => phase'[q] = phase[q]
  BY RelayMoves DEF TypeOK
<1>2. ASSUME pending' \subseteq pending, Held(r) => Held(r)'
      PROVE  NoStrayPending'
  BY <1>1, <1>2 DEF NoStrayPending
<1>3. CASE InsertPending(r)
  <2>1. pending' = pending \cup {request[r].key} /\ phase'[r] = "submitting"
    BY <1>3 DEF InsertPending, Goto, TypeOK
  <2> QED
    BY <1>1, <2>1 DEF NoStrayPending
<1>4. CASE RemovePending(r)
  <2>1. pending' = pending \ {request[r].key}
    BY <1>4 DEF RemovePending
  <2> QED
    BY <1>1, <2>1 DEF NoStrayPending
<1>5. CASE Arrive(r) \/ CheckRequest(r) \/ CountRelayed(r) \/ CountEarned(r)
  <2>1. pending' = pending /\ ~Held(r)
    BY <1>5 DEF Arrive, CheckRequest, CountRelayed, CountEarned
  <2> QED
    BY <1>2, <2>1
<1>6. CASE SubmitWithdrawal(r)
  <2>1. pending' = pending /\ phase'[r] = "submitted"
    BY <1>6 DEF SubmitWithdrawal, Goto, TypeOK
  <2> QED
    BY <1>2, <2>1
<1>7. CASE HangUp(r)
  <2>1. /\ pending' = pending
        /\ phase[r] \in Active
        /\ phase'[r] = IF phase[r] \in {"submitting", "submitted"}
                       THEN "abandoned" ELSE "dropped"
    BY <1>7 DEF HangUp, Goto, TypeOK
  <2>2. Held(r) => Held(r)'
    BY <2>1 DEF Active
  <2> QED
    BY <1>2, <2>1, <2>2
<1> QED
  BY <1>3, <1>4, <1>5, <1>6, <1>7 DEF Step

\* Every step preserves the inductive invariant.
LEMMA IInvStep == IInv /\ [Next]_vars => IInv'
<1> SUFFICES ASSUME IInv, [Next]_vars PROVE IInv'
  OBVIOUS
<1> USE DEF IInv
<1>1. CASE UNCHANGED vars
  BY <1>1 DEF vars, relayVars, statusVars, TypeOK, NoStrayPending
<1>2. ASSUME NEW r \in Request,
             Arrive(r) \/ Step(r) \/ SubmitWithdrawal(r) \/ HangUp(r),
             UNCHANGED statusVars
      PROVE  IInv'
  <2>1. UNCHANGED pending \/ pending' = pending \cup {request[r].key}
                          \/ pending' = pending \ {request[r].key}
    BY <1>2 DEF Arrive, Step, CheckRequest, InsertPending, SubmitWithdrawal,
                RemovePending, CountRelayed, CountEarned, HangUp
  <2>2. IsFiniteSet(pending)'
    BY <2>1, FS_AddElement, FS_RemoveElement
  <2> QED
    BY <1>2, <2>2, RelayTyped, RelayAccounts
<1>3. ASSUME NEW s \in StatusRequest,
             ReadPending(s) \/ StatusStep(s) \/ StatusHangUp(s),
             UNCHANGED relayVars
      PROVE  IInv'
  <2>1. NoStrayPending'
    BY <1>3 DEF relayVars, NoStrayPending
  <2>2. /\ statusPhase' \in
             [StatusRequest -> {"new", "counting", "summing", "ok200", "dropped"}]
        /\ UNCHANGED relayVars
    BY <1>3 DEF TypeOK, ReadPending, StatusStep, ReadRelayed, ReadEarned, StatusHangUp,
                StatusGoto
  <2>3. totalRelayed \in Nat /\ totalEarned \in Nat
    BY RelayerAssumption DEF TypeOK
  <2>4. Cardinality(pending) \in Nat
    BY FS_CardinalityType
  <2>5. status' \in [StatusRequest -> [pending : Nat, relayed : Nat, earned : Nat]]
    BY <1>3, <2>3, <2>4
       DEF TypeOK, ReadPending, StatusStep, ReadRelayed, ReadEarned, StatusHangUp
  <2> QED
    BY <2>1, <2>2, <2>5 DEF TypeOK, relayVars
<1> QED
  BY <1>1, <1>2, <1>3 DEF Next, AllServed
-----------------------------------------------------------------------------
\* The inductive invariant holds of every execution.
THEOREM Invariance == Spec => []IInv
  BY IInvInit, IInvStep, PTL DEF Spec

\* The relayer's shared state keeps its types.
THEOREM TypeCorrect == Spec => []TypeOK
  BY Invariance, PTL DEF IInv

\* Whatever the interleaving of any number of tasks, an entry of
\* pending_nullifiers has a task that is submitting it, or one that was dropped
\* while it did: no answer, of success or failure, leaves an entry behind.
THEOREM EntriesAccounted == Spec => []NoStrayPending
  BY Invariance, PTL DEF IInv
-----------------------------------------------------------------------------
(***************************************************************************)
(* GET /status.  The requests that were counted as pending, and those      *)
(* counted as relayed, are all among the requests that were ever inserted. *)
(***************************************************************************)
HoldingPhases == {"submitting", "submitted", "abandoned"}
CountedPhases == {"earning", "ok200", "dropped"}
BeyondPhases == HoldingPhases \cup CountedPhases \cup {"relayed", "failed500"}

Holding == {r \in Request : phase[r] \in HoldingPhases}
Counted == {r \in Request : phase[r] \in CountedPhases}
Beyond == {r \in Request : phase[r] \in BeyondPhases}

\* Requests come one at a time: at any time finitely many have come.
FewArrived == IsFiniteSet({r \in Request : phase[r] # "new"})

\* A reader of the pending set keeps what it counted from being removed.
StatusBounds ==
  /\ totalRelayed <= Cardinality(Counted)
  /\ \A s \in StatusRequest :
       /\ statusPhase[s] = "counting" => status[s].pending <= Cardinality(Holding)
       /\ statusPhase[s] \in {"summing", "ok200"} =>
            status[s].pending + status[s].relayed <= Cardinality(Beyond)

SInv == IInv /\ FewArrived /\ StatusBounds

\* Where a step of a relay task may lead.
LEMMA PhaseMoves ==
  ASSUME TypeOK, NEW r \in Request,
         Arrive(r) \/ Step(r) \/ SubmitWithdrawal(r) \/ HangUp(r)
  PROVE  /\ \A q \in Request : q # r => phase'[q] = phase[q]
         /\ phase[r] \in BeyondPhases => phase'[r] \in BeyondPhases
         /\ phase[r] \in CountedPhases => phase'[r] \in CountedPhases
         /\ Readers # {} /\ phase[r] \in HoldingPhases => phase'[r] \in HoldingPhases
         /\ \/ totalRelayed' = totalRelayed
            \/ /\ totalRelayed' = (totalRelayed + 1) % StatModulus
               /\ phase[r] = "relayed" /\ phase'[r] = "earning"
<1> USE DEF BeyondPhases, HoldingPhases, CountedPhases, Goto, TypeOK
<1>1. CASE Arrive(r) \/ CheckRequest(r)
  BY <1>1 DEF Arrive, CheckRequest
<1>2. CASE InsertPending(r) \/ SubmitWithdrawal(r)
  BY <1>2 DEF InsertPending, SubmitWithdrawal
<1>3. CASE RemovePending(r)
  BY <1>3 DEF RemovePending
<1>4. CASE CountRelayed(r) \/ CountEarned(r)
  BY <1>4 DEF CountRelayed, CountEarned
<1>5. CASE HangUp(r)
  BY <1>5 DEF HangUp, Active
<1> QED
  BY <1>1, <1>2, <1>3, <1>4, <1>5 DEF Step

\* The three sets are finite, and the first two are disjoint parts of the third.
LEMMA PhaseSets ==
  ASSUME FewArrived
  PROVE  /\ IsFiniteSet(Holding) /\ IsFiniteSet(Counted) /\ IsFiniteSet(Beyond)
         /\ Cardinality(Holding) \in Nat /\ Cardinality(Counted) \in Nat
         /\ Cardinality(Beyond) \in Nat
         /\ Cardinality(Holding) + Cardinality(Counted) <= Cardinality(Beyond)
<1> DEFINE arrived == {r \in Request : phase[r] # "new"}
<1>1. /\ Holding \in SUBSET arrived /\ Counted \in SUBSET arrived
      /\ Beyond \in SUBSET arrived
      /\ Holding \cup Counted \in SUBSET Beyond /\ Holding \cap Counted = {}
  BY DEF Holding, Counted, Beyond, HoldingPhases, CountedPhases, BeyondPhases
<1>2. IsFiniteSet(Holding) /\ IsFiniteSet(Counted) /\ IsFiniteSet(Beyond)
  BY <1>1, FS_Subset DEF FewArrived
<1>3. /\ Cardinality(Holding) \in Nat /\ Cardinality(Counted) \in Nat
      /\ Cardinality(Beyond) \in Nat
  BY <1>2, FS_CardinalityType
<1>4. Cardinality(Holding \cup Counted) = Cardinality(Holding) + Cardinality(Counted)
  <2>1. Cardinality(Holding \cap Counted) = 0
    BY <1>1, FS_EmptySet
  <2>2. Cardinality(Holding \cup Counted) =
          Cardinality(Holding) + Cardinality(Counted) - Cardinality(Holding \cap Counted)
    BY <1>2, FS_Union
  <2> QED
    BY <1>3, <2>1, <2>2
<1>5. Cardinality(Holding \cup Counted) <= Cardinality(Beyond)
  BY <1>1, <1>2, FS_Subset
<1> QED
  BY <1>2, <1>3, <1>4, <1>5

\* Every entry has a request of its own that holds it.
LEMMA PendingCovered ==
  ASSUME TypeOK, NoStrayPending, FewArrived
  PROVE  Cardinality(pending) <= Cardinality(Holding)
<1> DEFINE f == [r \in Holding |-> IF request[r].key \in pending THEN request[r].key
                                   ELSE CHOOSE k \in pending : TRUE]
<1>1. IsFiniteSet(Holding) /\ Cardinality(Holding) \in Nat
  BY PhaseSets
<1>2. CASE pending = {}
  BY <1>1, <1>2, FS_EmptySet
<1>3. CASE pending # {}
  <2>1. f \in [Holding -> pending]
    BY <1>3
  <2>2. ASSUME NEW k \in pending
        PROVE  \E r \in Holding : f[r] = k
    <3>1. PICK r \in Request : request[r].key = k /\ phase[r] \in HoldingPhases
      BY DEF NoStrayPending, HoldingPhases
    <3>2. r \in Holding
      BY <3>1 DEF Holding
    <3> QED
      BY <3>1, <3>2
  <2> HIDE DEF f
  <2>3. f \in Surjection(Holding, pending)
    BY <2>1, <2>2 DEF Surjection
  <2> QED
    BY <1>1, <2>3, FS_Surjection
<1> QED
  BY <1>2, <1>3

\* A relay task's step keeps the bounds.
LEMMA RelayBounds ==
  ASSUME SInv, FewArrived', TypeOK', NEW r \in Request,
         Arrive(r) \/ Step(r) \/ SubmitWithdrawal(r) \/ HangUp(r),
         UNCHANGED statusVars
  PROVE  StatusBounds'
<1>1. /\ TypeOK /\ FewArrived /\ StatusBounds /\ totalRelayed \in Nat
      /\ totalRelayed' \in Nat
      /\ UNCHANGED <<statusPhase, status>>
      /\ status \in [StatusRequest -> [pending : Nat, relayed : Nat, earned : Nat]]
  <2>1. TypeOK
    BY DEF SInv, IInv
  <2>2. totalRelayed \in Nat /\ totalRelayed' \in Nat
    BY <2>1, RelayerAssumption DEF TypeOK
  <2> QED
    BY <2>1, <2>2 DEF SInv, TypeOK, statusVars
<1>2. /\ Counted \in SUBSET Counted' /\ Beyond \in SUBSET Beyond'
      /\ Readers # {} => Holding \in SUBSET Holding'
  BY <1>1, PhaseMoves DEF Counted, Beyond, Holding
<1>3. /\ IsFiniteSet(Counted') /\ IsFiniteSet(Beyond') /\ IsFiniteSet(Holding')
      /\ Cardinality(Counted') \in Nat /\ Cardinality(Beyond') \in Nat
      /\ Cardinality(Holding') \in Nat
      /\ Cardinality(Counted) \in Nat /\ Cardinality(Beyond) \in Nat
      /\ Cardinality(Holding) \in Nat
      /\ IsFiniteSet(Counted)
  <2>1. IsFiniteSet(Counted') /\ IsFiniteSet(Beyond') /\ IsFiniteSet(Holding')
    <3> DEFINE arrived == {q \in Request : phase[q] # "new"}
    <3>1. IsFiniteSet(arrived')
      BY DEF FewArrived
    <3>2. /\ Counted' \in SUBSET arrived' /\ Beyond' \in SUBSET arrived'
          /\ Holding' \in SUBSET arrived'
      BY DEF Counted, Beyond, Holding, CountedPhases, BeyondPhases, HoldingPhases
    <3> HIDE DEF arrived
    <3> QED
      BY <3>1, <3>2, FS_Subset
  <2> QED
    BY <1>1, <2>1, PhaseSets, FS_CardinalityType
<1>4. /\ Cardinality(Counted) <= Cardinality(Counted')
      /\ Cardinality(Beyond) <= Cardinality(Beyond')
      /\ Readers # {} => Cardinality(Holding) <= Cardinality(Holding')
  BY <1>2, <1>3, FS_Subset
<1>5. totalRelayed' <= Cardinality(Counted')
  <2>1. CASE totalRelayed' = totalRelayed
    BY <1>1, <1>3, <1>4, <2>1 DEF StatusBounds
  <2>2. CASE totalRelayed' # totalRelayed
    <3>1. /\ totalRelayed' = (totalRelayed + 1) % StatModulus
          /\ phase[r] = "relayed" /\ phase'[r] = "earning"
      BY <1>1, <2>2, PhaseMoves
    <3>2. r \notin Counted /\ Counted \cup {r} \in SUBSET Counted'
      BY <1>2, <3>1 DEF Counted, CountedPhases
    <3>3. Cardinality(Counted \cup {r}) = Cardinality(Counted) + 1
      BY <1>3, <3>2, FS_AddElement
    <3>4. Cardinality(Counted \cup {r}) <= Cardinality(Counted')
      BY <1>3, <3>2, FS_Subset
    <3>5. (totalRelayed + 1) % StatModulus <= totalRelayed + 1
      <4>1. StatModulus \in Nat \ {0} /\ totalRelayed \in 0 .. StatModulus - 1
        BY <1>1, RelayerAssumption DEF TypeOK
      <4>2. CASE totalRelayed + 1 < StatModulus
        BY <4>1, <4>2
      <4>3. CASE totalRelayed + 1 = StatModulus
        BY <4>1, <4>3
      <4> QED
        BY <4>1, <4>2, <4>3
    <3> QED
      BY <1>1, <1>3, <3>1, <3>3, <3>4, <3>5 DEF StatusBounds
  <2> QED
    BY <2>1, <2>2
<1>6. ASSUME NEW s \in StatusRequest
      PROVE  /\ statusPhase[s] = "counting" => status[s].pending <= Cardinality(Holding')
             /\ statusPhase[s] \in {"summing", "ok200"} =>
                  status[s].pending + status[s].relayed <= Cardinality(Beyond')
  <2>1. status[s].pending \in Nat /\ status[s].relayed \in Nat
    BY <1>1
  <2>2. statusPhase[s] = "counting" => Readers # {}
    BY DEF Readers
  <2> QED
    BY <1>1, <1>3, <1>4, <2>1, <2>2 DEF StatusBounds
<1> QED
  BY <1>1, <1>5, <1>6 DEF StatusBounds

\* A status task's step keeps the bounds.
LEMMA StatusStepBounds ==
  ASSUME SInv, NEW s \in StatusRequest,
         ReadPending(s) \/ StatusStep(s) \/ StatusHangUp(s),
         UNCHANGED relayVars
  PROVE  StatusBounds'
<1>1. /\ TypeOK /\ NoStrayPending /\ FewArrived /\ StatusBounds
      /\ Cardinality(pending) \in Nat
      /\ totalRelayed \in Nat
  BY RelayerAssumption, FS_CardinalityType DEF SInv, IInv, TypeOK
<1>2. /\ Holding' = Holding /\ Counted' = Counted /\ Beyond' = Beyond
      /\ totalRelayed' = totalRelayed
  BY DEF relayVars, Holding, Counted, Beyond
<1>3. /\ Cardinality(pending) <= Cardinality(Holding)
      /\ Cardinality(Holding) \in Nat /\ Cardinality(Counted) \in Nat
      /\ Cardinality(Beyond) \in Nat
      /\ Cardinality(Holding) + Cardinality(Counted) <= Cardinality(Beyond)
  BY <1>1, PendingCovered, PhaseSets
<1>4. /\ \A t \in StatusRequest : t # s => /\ statusPhase'[t] = statusPhase[t]
                                           /\ status'[t] = status[t]
      /\ \/ statusPhase'[s] = "counting" /\ status'[s].pending = Cardinality(pending)
         \/ /\ statusPhase[s] = "counting" /\ statusPhase'[s] = "summing"
            /\ status'[s].pending = status[s].pending
            /\ status'[s].relayed = totalRelayed
         \/ /\ statusPhase[s] = "summing" /\ statusPhase'[s] = "ok200"
            /\ status'[s].pending = status[s].pending
            /\ status'[s].relayed = status[s].relayed
         \/ statusPhase'[s] = "dropped"
  BY <1>1 DEF ReadPending, StatusStep, ReadRelayed, ReadEarned, StatusHangUp,
              StatusGoto, TypeOK
<1>5. status[s].pending \in Nat /\ status[s].relayed \in Nat
  BY <1>1 DEF TypeOK
<1>6. /\ statusPhase'[s] = "counting" => status'[s].pending <= Cardinality(Holding)
      /\ statusPhase'[s] \in {"summing", "ok200"} =>
           status'[s].pending + status'[s].relayed <= Cardinality(Beyond)
  BY <1>1, <1>3, <1>4, <1>5 DEF StatusBounds
<1> QED
  BY <1>1, <1>2, <1>4, <1>6 DEF StatusBounds

\* No request has come, nothing is counted.
LEMMA SInvInit == Init => SInv
<1> SUFFICES ASSUME Init PROVE SInv
  OBVIOUS
<1>1. {r \in Request : phase[r] # "new"} = {} /\ Counted = {}
  BY DEF Init, Counted, CountedPhases
<1>2. FewArrived /\ Cardinality(Counted) = 0
  BY <1>1, FS_EmptySet DEF FewArrived
<1>3. StatusBounds
  BY <1>2 DEF Init, StatusBounds
<1> QED
  BY <1>2, <1>3, IInvInit DEF SInv

\* Every step keeps the bounds.
LEMMA SInvStep == SInv /\ [Next]_vars => SInv'
<1> SUFFICES ASSUME SInv, [Next]_vars PROVE SInv'
  OBVIOUS
<1>1. IInv' /\ TypeOK'
  <2>1. IInv'
    BY IInvStep DEF SInv
  <2> QED
    BY <2>1 DEF IInv
<1>2. TypeOK
  BY DEF SInv, IInv
<1>3. CASE UNCHANGED vars
  <2>1. FewArrived' /\ StatusBounds'
    BY <1>3 DEF SInv, vars, relayVars, statusVars, FewArrived, StatusBounds, Holding,
                Counted, Beyond
  <2> QED
    BY <1>1, <2>1 DEF SInv
<1>4. ASSUME NEW r \in Request,
             Arrive(r) \/ Step(r) \/ SubmitWithdrawal(r) \/ HangUp(r),
             UNCHANGED statusVars
      PROVE  SInv'
  <2> DEFINE arrived == {q \in Request : phase[q] # "new"}
  <2>1. arrived' \in SUBSET (arrived \cup {r})
    BY <1>2, <1>4, PhaseMoves
  <2>2. IsFiniteSet(arrived \cup {r})
    BY FS_AddElement DEF SInv, FewArrived
  <2>3. FewArrived'
    BY <2>1, <2>2, FS_Subset DEF FewArrived
  <2>4. StatusBounds'
    BY <1>1, <1>4, <2>3, RelayBounds
  <2> QED
    BY <1>1, <2>3, <2>4 DEF SInv
<1>5. ASSUME NEW s \in StatusRequest,
             ReadPending(s) \/ StatusStep(s) \/ StatusHangUp(s),
             UNCHANGED relayVars
      PROVE  SInv'
  <2>1. FewArrived'
    BY <1>5 DEF SInv, FewArrived, relayVars
  <2> QED
    BY <1>1, <1>5, <2>1, StatusStepBounds DEF SInv
<1> QED
  BY <1>3, <1>4, <1>5 DEF Next, AllServed

\* The bounds hold of every execution.
THEOREM StatusInvariance == Spec => []SInv
  BY SInvInit, SInvStep, PTL DEF Spec

\* For any number of requests of both kinds GET /status counts none as pending and
\* relayed at once: it reads three cells one after the other, but holds on to the
\* first while it does (relay.rs:266-276).
THEOREM StatusConsistent == Spec => []StatusCountsOnce
<1>1. SInv => StatusCountsOnce
  <2> SUFFICES ASSUME SInv, NEW s \in StatusRequest, statusPhase[s] = "ok200"
               PROVE  status[s].pending + status[s].relayed <=
                        Cardinality({r \in Request :
                          phase[r] \notin {"new", "received", "checked", "busy429",
                                           "conflict409", "invalid400"}})
    BY DEF StatusCountsOnce
  <2>1. {r \in Request : phase[r] \notin {"new", "received", "checked", "busy429",
                                          "conflict409", "invalid400"}} = Beyond
    BY DEF SInv, IInv, TypeOK, Beyond, BeyondPhases, HoldingPhases, CountedPhases,
           Active, Gone, Answers
  <2>2. status[s].pending + status[s].relayed <= Cardinality(Beyond)
    BY DEF SInv, StatusBounds
  <2> QED
    BY <2>1, <2>2
<1> QED
  BY <1>1, StatusInvariance, PTL
-----------------------------------------------------------------------------
(***************************************************************************)
(* The statistics: counting modulo the width of the counters.              *)
(***************************************************************************)

\* Division with remainder.
LEMMA Divided ==
  ASSUME NEW a \in Nat, NEW m \in Nat \ {0}
  PROVE  \E q \in Nat, r \in 0 .. m - 1 : a = m * q + r /\ a % m = r
<1>1. a = m * (a \div m) + (a % m) /\ a % m \in 0 .. m - 1 /\ a \div m \in Nat
  OBVIOUS
<1> QED
  BY <1>1, Zenon

\* The remainder is unique.
LEMMA OneRemainder ==
  ASSUME NEW m \in Nat \ {0}, NEW p \in Int, NEW q \in Int,
         NEW r \in 0 .. m - 1, NEW s \in 0 .. m - 1, m * p + r = m * q + s
  PROVE  r = s
<1>1. m * (p - q) = s - r
  OBVIOUS
<1>2. CASE p = q
  BY <1>2
<1>3. CASE p > q
  <2>1. m * (p - q) >= m
    BY <1>3
  <2> QED
    BY <1>1, <2>1
<1>4. CASE p < q
  <2>1. m * (q - p) >= m
    BY <1>4
  <2>2. m * (q - p) = r - s
    OBVIOUS
  <2> QED
    BY <2>1, <2>2
<1> QED
  BY <1>2, <1>3, <1>4

\* Adding to a remainder and reducing again is reducing the sum.
LEMMA AddReduced ==
  ASSUME NEW m \in Nat \ {0}, NEW a \in Nat, NEW b \in Nat
  PROVE  ((a % m) + b) % m = (a + b) % m
<1>1. PICK q \in Nat, r \in 0 .. m - 1 : a = m * q + r /\ a % m = r
  BY Divided
<1>2. r + b \in Nat /\ a + b \in Nat
  OBVIOUS
<1>3. PICK p \in Nat, s \in 0 .. m - 1 : r + b = m * p + s /\ (r + b) % m = s
  BY <1>2, Divided
<1>4. PICK k \in Nat, t \in 0 .. m - 1 : a + b = m * k + t /\ (a + b) % m = t
  BY <1>2, Divided
<1>5. m * (q + p) + s = m * k + t
  <2>1. m * (q + p) = m * q + m * p
    OBVIOUS
  <2> QED
    BY <1>1, <1>3, <1>4, <2>1
<1>6. q + p \in Int
  OBVIOUS
<1>7. s = t
  BY <1>5, <1>6, OneRemainder
<1> QED
  BY <1>1, <1>3, <1>4, <1>7

\* The relayer's statistics are exact, and finitely many requests have come.
CInv == SInv /\ StatsExact

\* The stroops of one request are as many as its fee.
LEMMA FeeStroopsCounted ==
  ASSUME TypeOK, NEW r \in Request
  PROVE  /\ request[r].fee \in Nat
         /\ IsFiniteSet(Stroops(r)) /\ Cardinality(Stroops(r)) = request[r].fee
<1>1. PICK n \in Nat : n = request[r].fee
  <2>1. request[r].fee \in FeeStroops
    BY DEF TypeOK, RelayRequest
  <2>2. FeeStroops \subseteq Nat
    BY RelayerAssumption
  <2> QED
    BY <2>1, <2>2
<1>2. IsFiniteSet(1 .. n) /\ Cardinality(1 .. n) = n
  <2>1. IsFiniteSet(1 .. n) /\ Cardinality(1 .. n) = IF 1 > n THEN 0 ELSE n - 1 + 1
    BY FS_Interval
  <2> QED
    BY <2>1
<1>3. IsFiniteSet({r}) /\ Cardinality({r}) = 1
  BY FS_Singleton
<1>4. /\ IsFiniteSet({r} \X (1 .. n))
      /\ Cardinality({r} \X (1 .. n)) = Cardinality({r}) * Cardinality(1 .. n)
  BY <1>2, <1>3, FS_Product
<1> QED
  BY <1>1, <1>2, <1>3, <1>4 DEF Stroops

\* The stroops of finitely many requests are finitely many.
LEMMA EarningsFinite ==
  ASSUME TypeOK, NEW R \in SUBSET Request, IsFiniteSet(R)
  PROVE  IsFiniteSet(UNION {Stroops(r) : r \in R})
<1> DEFINE all == R \X (1 .. StatModulus)
<1>1. IsFiniteSet(1 .. StatModulus)
  BY RelayerAssumption, FS_Interval
<1>2. IsFiniteSet(all)
  BY <1>1, FS_Product
<1>3. ASSUME NEW r \in R
      PROVE  Stroops(r) \in SUBSET all
  <2>1. request[r].fee \in 0 .. StatModulus - 1
    BY RelayerAssumption DEF TypeOK, RelayRequest
  <2>2. 1 .. request[r].fee \in SUBSET (1 .. StatModulus)
    BY <2>1, RelayerAssumption
  <2> QED
    BY <2>2 DEF Stroops
<1>4. UNION {Stroops(r) : r \in R} \in SUBSET all
  BY <1>3
<1> HIDE DEF all
<1> QED
  BY <1>2, <1>4, FS_Subset

\* A request more brings its fee.
LEMMA EarningsGrow ==
  ASSUME TypeOK, NEW R \in SUBSET Request, IsFiniteSet(R), NEW r \in Request \ R
  PROVE  /\ Cardinality(UNION {Stroops(q) : q \in R}) \in Nat
         /\ Cardinality(UNION {Stroops(q) : q \in R \cup {r}})
              = Cardinality(UNION {Stroops(q) : q \in R}) + request[r].fee
<1> DEFINE before == UNION {Stroops(q) : q \in R}
           after == UNION {Stroops(q) : q \in R \cup {r}}
<1>1. IsFiniteSet(before)
  BY EarningsFinite
<1>2. /\ request[r].fee \in Nat
      /\ IsFiniteSet(Stroops(r)) /\ Cardinality(Stroops(r)) = request[r].fee
  BY FeeStroopsCounted
<1>3. after = before \cup Stroops(r)
  OBVIOUS
<1>4. before \cap Stroops(r) = {}
  BY DEF Stroops
<1> HIDE DEF before, after
<1>5. Cardinality(before \cap Stroops(r)) = 0
  BY <1>4, FS_EmptySet
<1>6. Cardinality(before) \in Nat
  BY <1>1, FS_CardinalityType
<1>7. Cardinality(before \cup Stroops(r)) =
        Cardinality(before) + Cardinality(Stroops(r)) - Cardinality(before \cap Stroops(r))
  BY <1>1, <1>2, FS_Union
<1>8. Cardinality(after) = Cardinality(before) + request[r].fee
  BY <1>2, <1>3, <1>5, <1>6, <1>7
<1> QED
  BY <1>6, <1>8 DEF before, after

\* Where a step of a relay task leads, as the statistics see it.
LEMMA StatMoves ==
  ASSUME TypeOK, NEW r \in Request,
         Arrive(r) \/ Step(r) \/ SubmitWithdrawal(r) \/ HangUp(r)
  PROVE  /\ request' = request
         /\ \A q \in Request : q # r => phase'[q] = phase[q]
         /\ phase[r] \in Gone => phase'[r] \in Gone
         /\ \/ /\ totalRelayed' = totalRelayed /\ totalEarned' = totalEarned
               /\ phase[r] \notin {"earning", "ok200"}
               /\ phase'[r] \notin {"earning", "ok200"}
            \/ phase'[r] \in Gone
            \/ /\ totalRelayed' = (totalRelayed + 1) % StatModulus
               /\ totalEarned' = totalEarned
               /\ phase[r] = "relayed" /\ phase'[r] = "earning"
            \/ /\ totalRelayed' = totalRelayed
               /\ totalEarned' = (totalEarned + request[r].fee) % StatModulus
               /\ phase[r] = "earning" /\ phase'[r] = "ok200"
<1> USE DEF Goto, TypeOK, Gone
<1>1. CASE Arrive(r) \/ CheckRequest(r)
  BY <1>1 DEF Arrive, CheckRequest
<1>2. CASE InsertPending(r) \/ SubmitWithdrawal(r)
  BY <1>2 DEF InsertPending, SubmitWithdrawal
<1>3. CASE RemovePending(r)
  BY <1>3 DEF RemovePending
<1>4. CASE CountRelayed(r) \/ CountEarned(r)
  BY <1>4 DEF CountRelayed, CountEarned
<1>5. CASE HangUp(r)
  BY <1>5 DEF HangUp, Active
<1> QED
  BY <1>1, <1>2, <1>3, <1>4, <1>5 DEF Step

\* A step of a relay task counts what it relayed, once.
LEMMA RelayCounts ==
  ASSUME CInv, TypeOK', NEW r \in Request,
         Arrive(r) \/ Step(r) \/ SubmitWithdrawal(r) \/ HangUp(r)
  PROVE  StatsExact'
<1> SUFFICES ASSUME \A q \in Request : phase'[q] \notin Gone
             PROVE  /\ totalRelayed' = Cardinality(Relayed' \cup Halfway') % StatModulus
                    /\ totalEarned' = Cardinality(UNION {Stroops(q)' : q \in Relayed'})
                                        % StatModulus
  BY DEF StatsExact
<1>1. TypeOK /\ FewArrived /\ StatsExact /\ StatModulus \in Nat \ {0}
  BY RelayerAssumption DEF CInv, SInv, IInv
<1>2. /\ request' = request
      /\ \A q \in Request : q # r => phase'[q] = phase[q]
      /\ \/ /\ totalRelayed' = totalRelayed /\ totalEarned' = totalEarned
            /\ phase[r] \notin {"earning", "ok200"}
            /\ phase'[r] \notin {"earning", "ok200"}
         \/ /\ totalRelayed' = (totalRelayed + 1) % StatModulus
            /\ totalEarned' = totalEarned
            /\ phase[r] = "relayed" /\ phase'[r] = "earning"
         \/ /\ totalRelayed' = totalRelayed
            /\ totalEarned' = (totalEarned + request[r].fee) % StatModulus
            /\ phase[r] = "earning" /\ phase'[r] = "ok200"
  BY <1>1, StatMoves
<1>3. \A q \in Request : phase[q] \notin Gone
  BY <1>1, <1>2, StatMoves
<1>4. /\ totalRelayed = Cardinality(Relayed \cup Halfway) % StatModulus
      /\ totalEarned = Cardinality(UNION {Stroops(q) : q \in Relayed}) % StatModulus
  BY <1>1, <1>3 DEF StatsExact
<1>5. /\ Relayed \in SUBSET Request
      /\ IsFiniteSet(Relayed) /\ IsFiniteSet(Relayed \cup Halfway)
      /\ Cardinality(Relayed \cup Halfway) \in Nat
  <2> DEFINE arrived == {q \in Request : phase[q] # "new"}
  <2>1. /\ Relayed \in SUBSET arrived /\ Relayed \cup Halfway \in SUBSET arrived
        /\ Relayed \in SUBSET Request
    BY DEF Relayed, Halfway
  <2>2. IsFiniteSet(arrived)
    BY <1>1 DEF FewArrived
  <2> HIDE DEF arrived
  <2>3. IsFiniteSet(Relayed) /\ IsFiniteSet(Relayed \cup Halfway)
    BY <2>1, <2>2, FS_Subset
  <2> QED
    BY <2>1, <2>3, FS_CardinalityType
<1>6. \A R : UNION {Stroops(q)' : q \in R} = UNION {Stroops(q) : q \in R}
  BY <1>2 DEF Stroops
<1>7. CASE /\ totalRelayed' = totalRelayed /\ totalEarned' = totalEarned
           /\ phase[r] \notin {"earning", "ok200"}
           /\ phase'[r] \notin {"earning", "ok200"}
  <2>1. Relayed' = Relayed /\ Halfway' = Halfway
    BY <1>2, <1>7 DEF Relayed, Halfway
  <2> QED
    BY <1>4, <1>6, <1>7, <2>1
<1>8. CASE /\ totalRelayed' = (totalRelayed + 1) % StatModulus
           /\ totalEarned' = totalEarned
           /\ phase[r] = "relayed" /\ phase'[r] = "earning"
  <2>1. Relayed' = Relayed /\ Halfway' = Halfway \cup {r} /\ r \notin Relayed \cup Halfway
    BY <1>2, <1>8 DEF Relayed, Halfway
  <2>2. Relayed' \cup Halfway' = (Relayed \cup Halfway) \cup {r}
    BY <2>1
  <2>3. Cardinality(Relayed' \cup Halfway') = Cardinality(Relayed \cup Halfway) + 1
    BY <1>5, <2>1, <2>2, FS_AddElement
  <2>4. PICK c \in Nat : c = Cardinality(Relayed \cup Halfway)
    BY <1>5
  <2>5. ((c % StatModulus) + 1) % StatModulus = (c + 1) % StatModulus
    BY <1>1, AddReduced
  <2>6. totalRelayed' = (c + 1) % StatModulus
    BY <1>4, <1>8, <2>4, <2>5
  <2> QED
    BY <1>4, <1>6, <1>8, <2>1, <2>3, <2>4, <2>6
<1>9. CASE /\ totalRelayed' = totalRelayed
           /\ totalEarned' = (totalEarned + request[r].fee) % StatModulus
           /\ phase[r] = "earning" /\ phase'[r] = "ok200"
  <2>1. /\ Relayed' = Relayed \cup {r} /\ Halfway' = Halfway \ {r}
        /\ r \in Halfway /\ r \notin Relayed
    BY <1>2, <1>9 DEF Relayed, Halfway
  <2>2. Relayed' \cup Halfway' = Relayed \cup Halfway
    BY <2>1
  <2>3. /\ Cardinality(UNION {Stroops(q) : q \in Relayed}) \in Nat
        /\ Cardinality(UNION {Stroops(q) : q \in Relayed \cup {r}})
             = Cardinality(UNION {Stroops(q) : q \in Relayed}) + request[r].fee
    BY <1>1, <1>5, <2>1, EarningsGrow
  <2>4. PICK e \in Nat : e = Cardinality(UNION {Stroops(q) : q \in Relayed})
    BY <2>3
  <2>5. PICK fee \in Nat : fee = request[r].fee
    BY <1>1, FeeStroopsCounted
  <2>6. ((e % StatModulus) + fee) % StatModulus = (e + fee) % StatModulus
    BY <1>1, AddReduced
  <2>7. totalEarned' = (e + fee) % StatModulus
    BY <1>4, <1>9, <2>4, <2>5, <2>6
  <2>8. Cardinality(UNION {Stroops(q)' : q \in Relayed'}) = e + fee
    BY <1>6, <2>1, <2>3, <2>4, <2>5
  <2> QED
    BY <1>4, <1>9, <2>2, <2>7, <2>8
<1> QED
  BY <1>2, <1>7, <1>8, <1>9

\* The statistics of the relayer count every withdrawal it relayed, and its fee,
\* once, for any number of requests and whatever the order in which they update
\* the two cells, unless a client hung up in between.
THEOREM StatisticsExact == Spec => []StatsExact
<1>1. Init => CInv
  <2> SUFFICES ASSUME Init PROVE CInv
    OBVIOUS
  <2>1. Relayed = {} /\ Halfway = {}
    BY DEF Init, Relayed, Halfway
  <2>2. Cardinality(Relayed \cup Halfway) = 0
    BY <2>1, FS_EmptySet
  <2>3. Cardinality(UNION {Stroops(r) : r \in Relayed}) = 0
    <3>1. UNION {Stroops(r) : r \in Relayed} = {}
      BY <2>1
    <3> QED
      BY <3>1, FS_EmptySet
  <2>4. totalRelayed = 0 /\ totalEarned = 0 /\ 0 % StatModulus = 0
    BY RelayerAssumption DEF Init
  <2>5. StatsExact
    BY <2>2, <2>3, <2>4 DEF StatsExact
  <2> QED
    BY <2>5, SInvInit DEF CInv
<1>2. CInv /\ [Next]_vars => CInv'
  <2> SUFFICES ASSUME CInv, [Next]_vars PROVE CInv'
    OBVIOUS
  <2>1. SInv'
    BY SInvStep DEF CInv
  <2>2. TypeOK'
    BY <2>1 DEF SInv, IInv
  <2>3. ASSUME UNCHANGED relayVars
        PROVE  StatsExact'
    BY <2>3 DEF CInv, StatsExact, relayVars, Relayed, Halfway, Stroops
  <2>4. StatsExact'
    <3>1. CASE UNCHANGED vars
      BY <2>3, <3>1 DEF vars
    <3>2. CASE \E s \in StatusRequest :
                 /\ ReadPending(s) \/ StatusStep(s) \/ StatusHangUp(s)
                 /\ UNCHANGED relayVars
      BY <2>3, <3>2
    <3>3. CASE \E r \in Request :
                 /\ Arrive(r) \/ Step(r) \/ SubmitWithdrawal(r) \/ HangUp(r)
                 /\ UNCHANGED statusVars
      BY <2>2, <3>3, RelayCounts
    <3> QED
      BY <3>1, <3>2, <3>3 DEF Next, AllServed
  <2> QED
    BY <2>1, <2>4 DEF CInv
<1>3. CInv => StatsExact
  BY DEF CInv
<1> QED
  BY <1>1, <1>2, <1>3, PTL DEF Spec
=============================================================================
