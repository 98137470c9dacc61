-------------------------- MODULE WorkerProverProofs --------------------------
(***************************************************************************)
(* Theorems about WorkerProver, for any number of requests.                *)
(***************************************************************************)
EXTENDS WorkerProver, TLAPS

\* An id that is in the map stands for one request, in the worker and in every
\* answer on its way.
IdsAgree ==
  /\ \A j \in jobs :
       j.id \in DOMAIN pendingRequests => pendingRequests[j.id] = j.request
  /\ \A p \in replies :
       p.id \in DOMAIN pendingRequests /\ p.proof # NoProof
         => pendingRequests[p.id] = p.proof

IInv == TypeOK /\ Coherent /\ RightProof /\ IdsAgree

\* Nothing is asked, nothing is pending.
LEMMA IInvInit == Init => IInv
<1> SUFFICES ASSUME Init PROVE IInv
  OBVIOUS
<1>1. DOMAIN pendingRequests = {} /\ Pending = {}
  BY DEF Init, NoEntries, Pending
<1>2. TypeOK
  BY <1>1 DEF Init, TypeOK
<1>3. Coherent
  BY <1>1 DEF Init, Coherent
<1> QED
  BY <1>1, <1>2, <1>3 DEF Init, IInv, RightProof, IdsAgree

\* An id given is new: no entry, job or answer has it.
LEMMA GenerateStep ==
  ASSUME IInv, NEW r \in Request, Generate(r)
  PROVE  IInv'
<1> DEFINE id == requestCounter + 1
<1>1. /\ requestCounter' = id
      /\ id \notin DOMAIN pendingRequests
      /\ DOMAIN pendingRequests' = DOMAIN pendingRequests \cup {id}
      /\ pendingRequests'[id] = r
      /\ \A i \in DOMAIN pendingRequests : pendingRequests'[i] = pendingRequests[i]
  BY DEF IInv, TypeOK, Generate, NextId
<1>2. Pending' = Pending \cup {r}
  BY <1>1 DEF Pending
<1>3. r \notin Pending
  BY DEF Generate, IInv, Coherent
<1>4. TypeOK'
  <2>1. jobs' \subseteq [id : 1 .. requestCounter', request : Request]
    BY DEF IInv, TypeOK, Generate, NextId, Entry
  <2>2. timers' \subseteq [id : 1 .. requestCounter', request : Request]
    BY DEF IInv, TypeOK, Generate, NextId, Entry
  <2>3. replies' \subseteq [id : 1 .. requestCounter', proof : Request \cup {NoProof}]
    BY DEF IInv, TypeOK, Generate, NextId
  <2> QED
    BY <1>1, <1>2, <2>1, <2>2, <2>3 DEF IInv, TypeOK, Generate
<1>5. Coherent'
  <2>1. Pending' = {q \in Request : promise'[q] = "unsettled"}
    BY <1>2 DEF IInv, TypeOK, Coherent, Generate
  <2>2. \A i, j \in DOMAIN pendingRequests' :
          pendingRequests'[i] = pendingRequests'[j] => i = j
    BY <1>1, <1>3 DEF IInv, Coherent, Pending
  <2>3. timers' = {Entry(i, pendingRequests'[i]) : i \in DOMAIN pendingRequests'}
    <3>1. timers' = timers \cup {Entry(id, r)}
      BY DEF Generate, NextId
    <3>2. timers = {Entry(i, pendingRequests[i]) : i \in DOMAIN pendingRequests}
      BY DEF IInv, Coherent
    <3>3. timers = {Entry(i, pendingRequests'[i]) : i \in DOMAIN pendingRequests}
      BY <1>1, <3>2
    <3> QED
      BY <1>1, <3>1, <3>3
  <2>4. \A q \in Request :
          calls'[q] = IF promise'[q] \in {"resolved", "rejected"} THEN 1 ELSE 0
    BY DEF IInv, TypeOK, Coherent, Generate
  <2> QED
    BY <2>1, <2>2, <2>3, <2>4 DEF Coherent
<1>6. RightProof'
  BY DEF IInv, TypeOK, RightProof, Generate
<1>7. IdsAgree'
  <2>1. \A j \in jobs : j.id # id
    BY DEF IInv, TypeOK
  <2>2. \A p \in replies : p.id # id
    BY DEF IInv, TypeOK
  <2> QED
    BY <1>1, <2>1, <2>2 DEF IInv, IdsAgree, Generate, NextId, Entry
<1> QED
  BY <1>4, <1>5, <1>6, <1>7 DEF IInv

\* Counting a first call.
LEMMA CountOne ==
  ASSUME NEW f \in [Request -> Nat], NEW r \in Request, f[r] = 0
  PROVE  [q \in Request |-> IF q \in {r} THEN f[q] + 1 ELSE f[q]] = [f EXCEPT ![r] = 1]
<1> DEFINE g == [q \in Request |-> IF q \in {r} THEN f[q] + 1 ELSE f[q]]
<1>1. g[r] = 1 /\ \A q \in Request : q # r => g[q] = f[q]
  OBVIOUS
<1>2. g \in [Request -> Nat]
  OBVIOUS
<1> HIDE DEF g
<1>3. g = [f EXCEPT ![r] = 1]
  BY <1>1, <1>2
<1> QED
  BY <1>3 DEF g

\* A request settled with its entry removed: what is left is as it was.
LEMMA SettleOne ==
  ASSUME IInv, NEW id \in DOMAIN pendingRequests,
         NEW state \in {"resolved", "rejected"},
         Delete(id), ClearTimers({pendingRequests[id]}),
         Settle({pendingRequests[id]}, state)
  PROVE  /\ Coherent'
         /\ pendingRequests[id] \in Request
         /\ promise' = [promise EXCEPT ![pendingRequests[id]] = state]
         /\ calls' \in [Request -> Nat]
         /\ DOMAIN pendingRequests' = DOMAIN pendingRequests \ {id}
         /\ \A i \in DOMAIN pendingRequests' : pendingRequests'[i] = pendingRequests[i]
<1> DEFINE r == pendingRequests[id]
<1>1. /\ DOMAIN pendingRequests' = DOMAIN pendingRequests \ {id}
      /\ \A i \in DOMAIN pendingRequests' : pendingRequests'[i] = pendingRequests[i]
  BY DEF Delete
<1>2. r \in Request /\ promise[r] = "unsettled" /\ calls[r] = 0
  <2>1. r \in Pending
    BY DEF Pending
  <2> QED
    BY <2>1 DEF IInv, Coherent
<1>3. promise' = [promise EXCEPT ![r] = state]
  BY <1>2 DEF Settle, IInv, TypeOK
<1>4. calls' = [calls EXCEPT ![r] = 1]
  <2>1. calls \in [Request -> Nat]
    BY DEF IInv, TypeOK
  <2>2. calls' = [q \in Request |-> IF q \in {r} THEN calls[q] + 1 ELSE calls[q]]
    BY DEF Settle
  <2> QED
    BY <1>2, <2>1, <2>2, CountOne
<1>5. Pending' = Pending \ {r}
  BY <1>1 DEF Pending, IInv, Coherent
<1>6. Pending' = {q \in Request : promise'[q] = "unsettled"}
  BY <1>2, <1>3, <1>5 DEF IInv, TypeOK, Coherent
<1>7. \A i, j \in DOMAIN pendingRequests' :
        pendingRequests'[i] = pendingRequests'[j] => i = j
  BY <1>1 DEF IInv, Coherent
<1>8. timers' = {Entry(i, pendingRequests'[i]) : i \in DOMAIN pendingRequests'}
  <2>1. \A t \in timers : t.request # r <=> t.id # id
    BY DEF IInv, Coherent, Entry
  <2> QED
    BY <1>1, <2>1 DEF ClearTimers, IInv, Coherent, Entry
<1>9. \A q \in Request :
        calls'[q] = IF promise'[q] \in {"resolved", "rejected"} THEN 1 ELSE 0
  BY <1>3, <1>4 DEF IInv, TypeOK, Coherent
<1>10. calls' \in [Request -> Nat]
  BY <1>4 DEF IInv, TypeOK
<1> QED
  BY <1>1, <1>2, <1>3, <1>6, <1>7, <1>8, <1>9, <1>10 DEF Coherent


\* An answer finds its own request's entry, or none.
LEMMA OnMessageStep ==
  ASSUME IInv, NEW reply \in replies, OnMessage(reply)
  PROVE  IInv'
<1>1. CASE reply.id \notin DOMAIN pendingRequests
  <2>1. /\ UNCHANGED <<requestCounter, pendingRequests, timers, worker, jobs, promise,
                       proofOf, calls>>
        /\ replies' \subseteq replies
    BY <1>1 DEF OnMessage
  <2> QED
    BY <2>1 DEF IInv, TypeOK, Coherent, Pending, RightProof, IdsAgree
<1>2. CASE reply.id \in DOMAIN pendingRequests
  <2> DEFINE r == pendingRequests[reply.id]
             state == IF reply.proof = NoProof THEN "rejected" ELSE "resolved"
  <2>1. /\ Delete(reply.id) /\ ClearTimers({r}) /\ Settle({r}, state)
        /\ state \in {"resolved", "rejected"}
        /\ proofOf' = [proofOf EXCEPT ![r] = reply.proof]
        /\ UNCHANGED <<requestCounter, worker, jobs>>
        /\ replies' \subseteq replies
        /\ timers' \subseteq timers
    BY <1>2 DEF OnMessage, ClearTimers
  <2>2. /\ Coherent'
        /\ r \in Request
        /\ promise' = [promise EXCEPT ![r] = state]
        /\ calls' \in [Request -> Nat]
        /\ DOMAIN pendingRequests' = DOMAIN pendingRequests \ {reply.id}
        /\ \A i \in DOMAIN pendingRequests' : pendingRequests'[i] = pendingRequests[i]
    BY <1>2, <2>1, SettleOne
  <2>3. reply.proof \in Request \cup {NoProof}
    BY DEF IInv, TypeOK
  <2>4. TypeOK'
    BY <2>1, <2>2, <2>3 DEF IInv, TypeOK, Pending
  <2>5. reply.proof = NoProof \/ reply.proof = r
    BY <1>2, NoProofAssumption DEF IInv, IdsAgree
  <2>6. RightProof'
    BY <2>1, <2>2, <2>3, <2>5 DEF IInv, TypeOK, RightProof
  <2>7. IdsAgree'
    BY <2>1, <2>2 DEF IInv, IdsAgree
  <2> QED
    BY <2>2, <2>4, <2>6, <2>7 DEF IInv
<1> QED
  BY <1>1, <1>2

\* A timer that fires belongs to an entry.
LEMMA TimeoutStep ==
  ASSUME IInv, NEW t \in timers, Timeout(t)
  PROVE  IInv'
<1>1. t.id \in DOMAIN pendingRequests /\ t.request = pendingRequests[t.id]
  BY DEF IInv, Coherent, Entry
<1>2. \A u \in timers : u.request = t.request => u = t
  BY <1>1 DEF IInv, Coherent, Entry
<1>3. ClearTimers({t.request})
  BY <1>2 DEF Timeout, ClearTimers
<1>4. /\ Coherent'
      /\ t.request \in Request
      /\ promise' = [promise EXCEPT ![t.request] = "rejected"]
      /\ calls' \in [Request -> Nat]
      /\ DOMAIN pendingRequests' = DOMAIN pendingRequests \ {t.id}
      /\ \A i \in DOMAIN pendingRequests' : pendingRequests'[i] = pendingRequests[i]
  BY <1>1, <1>3, SettleOne DEF Timeout
<1>5. timers' \subseteq timers /\ UNCHANGED <<requestCounter, worker, jobs, replies, proofOf>>
  BY DEF Timeout
<1>6. TypeOK'
  BY <1>4, <1>5 DEF IInv, TypeOK, Pending
<1>7. RightProof'
  BY <1>4, <1>5 DEF IInv, TypeOK, RightProof
<1>8. IdsAgree'
  BY <1>4, <1>5 DEF IInv, IdsAgree
<1> QED
  BY <1>4, <1>6, <1>7, <1>8 DEF IInv

\* An error of the worker, and terminate, reject whoever waits.
LEMMA RejectAllStep ==
  ASSUME IInv, RejectAll, jobs' \in {jobs, {}}, worker' \in BOOLEAN,
         UNCHANGED <<requestCounter, replies, proofOf>>
  PROVE  IInv'
<1>1. DOMAIN pendingRequests' = {} /\ Pending' = {}
  BY DEF RejectAll, ClearEntries, NoEntries, Pending
<1>2. promise' = [r \in Request |-> IF promise[r] = "unsettled" THEN "rejected"
                                                              ELSE promise[r]]
  BY DEF RejectAll, Settle, IInv, Coherent
<1>3. calls' = [r \in Request |-> IF promise[r] = "unsettled" THEN calls[r] + 1
                                                            ELSE calls[r]]
  BY DEF RejectAll, Settle, IInv, Coherent
<1>4. timers' = {}
  BY DEF RejectAll, ClearTimers, IInv, Coherent, Pending, Entry
<1>5. TypeOK'
  BY <1>1, <1>2, <1>3, <1>4 DEF IInv, TypeOK
<1>6. Coherent'
  <2>1. Pending' = {r \in Request : promise'[r] = "unsettled"}
    BY <1>1, <1>2
  <2>2. \A r \in Request :
          calls'[r] = IF promise'[r] \in {"resolved", "rejected"} THEN 1 ELSE 0
    BY <1>2, <1>3 DEF IInv, TypeOK, Coherent
  <2> QED
    BY <1>1, <1>4, <2>1, <2>2 DEF Coherent
<1>7. RightProof' /\ IdsAgree'
  BY <1>1, <1>2 DEF IInv, RightProof, IdsAgree
<1> QED
  BY <1>5, <1>6, <1>7 DEF IInv

\* Every step preserves the inductive invariant.
LEMMA IInvStep == IInv /\ [Next]_vars => IInv'
<1> SUFFICES ASSUME IInv, [Next]_vars PROVE IInv'
  OBVIOUS
<1>1. CASE UNCHANGED vars
  BY <1>1 DEF vars, IInv, TypeOK, Coherent, Pending, RightProof, IdsAgree
<1>2. ASSUME NEW r \in Request, Generate(r) PROVE IInv'
  BY <1>2, GenerateStep
<1>3. ASSUME NEW r \in Request, WorkerRefused(r) PROVE IInv'
  <2>1. /\ promise[r] = "none" /\ calls[r] = 0
        /\ promise' = [promise EXCEPT ![r] = "rejected"]
        /\ calls' = [calls EXCEPT ![r] = @ + 1]
        /\ requestCounter' = requestCounter + 1
        /\ UNCHANGED <<pendingRequests, timers, worker, jobs, replies, proofOf>>
    BY <1>3 DEF WorkerRefused, NextId, IInv, Coherent
  <2>2. TypeOK'
    BY <2>1 DEF IInv, TypeOK, Pending
  <2>3. Coherent'
    BY <2>1 DEF IInv, TypeOK, Coherent, Pending
  <2> QED
    BY <2>1, <2>2, <2>3 DEF IInv, TypeOK, RightProof, IdsAgree
<1>4. ASSUME NEW r \in Request, TimeoutOf(r) PROVE IInv'
  BY <1>4, TimeoutStep DEF TimeoutOf
<1>5. ASSUME NEW job \in jobs, NEW proof \in Request \cup {NoProof}, Answer(job, proof)
      PROVE  IInv'
  <2>1. /\ job \in [id : 1 .. requestCounter, request : Request]
        /\ proof \in {job.request, NoProof}
        /\ jobs' \subseteq jobs
        /\ replies' = replies \cup {Reply(job.id, proof)}
        /\ UNCHANGED <<requestCounter, pendingRequests, timers, worker, promise,
                       proofOf, calls>>
    BY <1>5 DEF Answer, IInv, TypeOK
  <2>2. TypeOK'
    BY <2>1 DEF IInv, TypeOK, Pending, Reply
  <2>3. Coherent' /\ RightProof'
    BY <2>1 DEF IInv, Coherent, Pending, RightProof
  <2>4. IdsAgree'
    BY <2>1 DEF IInv, IdsAgree, Reply
  <2> QED
    BY <2>2, <2>3, <2>4 DEF IInv
<1>6. ASSUME NEW reply \in replies, OnMessage(reply) PROVE IInv'
  BY <1>6, OnMessageStep
<1>7. CASE OnError
  BY <1>7, RejectAllStep DEF OnError, IInv, TypeOK
<1>8. CASE Terminate
  BY <1>8, RejectAllStep DEF Terminate
<1> QED
  BY <1>1, <1>2, <1>3, <1>4, <1>5, <1>6, <1>7, <1>8 DEF Next

LEMMA Invariance == Spec => []IInv
BY IInvInit, IInvStep, PTL DEF Spec

\* Ids, entries, timers, jobs and answers keep their types, and no id in use is
\* beyond the counter.
THEOREM TypeCorrect == Spec => []TypeOK
<1>1. IInv => TypeOK
  BY DEF IInv
<1> QED
  BY <1>1, Invariance, PTL

\* For any number of requests: entries, timers and waiting callers are the same,
\* and no promise is settled twice (worker-prover.ts:80-154).
THEOREM NothingLeftBehind == Spec => []Coherent
<1>1. IInv => Coherent
  BY DEF IInv
<1> QED
  BY <1>1, Invariance, PTL

\* For any number of requests a caller that gets a proof gets its own.
THEOREM OwnProof == Spec => []RightProof
<1>1. IInv => RightProof
  BY DEF IInv
<1> QED
  BY <1>1, Invariance, PTL
=============================================================================
