---------------------------- MODULE WorkerProver ----------------------------
(***************************************************************************)
(* The worker prover of the client: worker-prover.ts on the main thread,   *)
(* worker-thread.ts in the Web Worker.                                     *)
(*                                                                         *)
(* JavaScript runs a call, a message handler or a timer to its end, so     *)
(* each is one action.  What comes in which order is open: the worker's    *)
(* handler awaits, so answers come in any order, late, or (when its script *)
(* failed, which the prover does not notice) never.                        *)
(*                                                                         *)
(* The variants that no action uses are faults the properties would show.  *)
(***************************************************************************)
EXTENDS Integers, FiniteSets

CONSTANTS
  Request,   \* the calls of generateProof, each with an input of its own
  NoProof

ASSUME NoProofAssumption == NoProof \notin Request

VARIABLES
  requestCounter,   \* the last id given
  pendingRequests,  \* id -> the request whose resolve and reject it holds
  timers,           \* the timers set and not cleared, [id, request]
  worker,           \* this.worker is not null
  jobs,             \* posted to the worker and not answered, [id, request]
  replies,          \* posted by a worker and not handled, [id, proof]
  promise,          \* the promise given for each request
  proofOf,          \* what it was resolved with: the request that is proved
  calls             \* history: how often it was resolved or rejected

vars == <<requestCounter, pendingRequests, timers, worker, jobs, replies,
          promise, proofOf, calls>>
-----------------------------------------------------------------------------
SizeAsId == Cardinality(DOMAIN pendingRequests) + 1
NextId == requestCounter + 1

Entry(id, r) == [id |-> id, request |-> r]
Reply(id, proof) == [id |-> id, proof |-> proof]

\* The requests of the map's entries.
Pending == {pendingRequests[id] : id \in DOMAIN pendingRequests}

\* resolve and reject of the requests rs; a second call has no effect.
Settle(rs, state) ==
  /\ promise' = [r \in Request |->
       IF r \in rs /\ promise[r] = "unsettled" THEN state ELSE promise[r]]
  /\ calls' = [r \in Request |-> IF r \in rs THEN calls[r] + 1 ELSE calls[r]]

LeaveTimers(rs) == UNCHANGED timers

\* The resolve and reject kept in the map clear the request's timer first.
ClearTimers(rs) == timers' = {t \in timers : t.request \notin rs}

NoEntries == [id \in {} |-> NoProof]
Delete(id) ==
  pendingRequests' = [i \in DOMAIN pendingRequests \ {id} |-> pendingRequests[i]]

KeepEntries == UNCHANGED pendingRequests

\* Map.clear, after reject was called for every entry.
ClearEntries == pendingRequests' = NoEntries
-----------------------------------------------------------------------------
Init ==
  /\ requestCounter = 0
  /\ pendingRequests = NoEntries
  /\ timers = {}
  /\ worker = FALSE
  /\ jobs = {}
  /\ replies = {}
  /\ promise = [r \in Request |-> "none"]
  /\ proofOf = [r \in Request |-> NoProof]
  /\ calls = [r \in Request |-> 0]

\* generateInWorker, with ensureWorker.
Generate(r) ==
  /\ promise[r] = "none"
  /\ requestCounter' = NextId
  /\ worker' = TRUE
  /\ timers' = timers \cup {Entry(NextId, r)}
  /\ pendingRequests' = [id \in DOMAIN pendingRequests \cup {NextId} |->
                           IF id = NextId THEN r ELSE pendingRequests[id]]
  /\ jobs' = jobs \cup {Entry(NextId, r)}
  /\ promise' = [promise EXCEPT ![r] = "unsettled"]
  /\ UNCHANGED <<replies, proofOf, calls>>

\* The constructor of Worker throws: the promise's executor fails, with an id
\* taken and nothing else done.
WorkerRefused(r) ==
  /\ promise[r] = "none"
  /\ ~worker
  /\ requestCounter' = NextId
  /\ promise' = [promise EXCEPT ![r] = "rejected"]
  /\ calls' = [calls EXCEPT ![r] = @ + 1]
  /\ UNCHANGED <<pendingRequests, timers, worker, jobs, replies, proofOf>>

\* worker-thread.ts: a proof of the input it was sent, or an error.
Answer(job, proof) ==
  /\ job \in jobs
  /\ proof \in {job.request, NoProof}
  /\ jobs' = jobs \ {job}
  /\ replies' = replies \cup {Reply(job.id, proof)}
  /\ UNCHANGED <<requestCounter, pendingRequests, timers, worker, promise,
                 proofOf, calls>>

\* worker.onmessage: an id that is not in the map is ignored.
OnMessage(reply) ==
  /\ reply \in replies
  /\ replies' = replies \ {reply}
  /\ \/ /\ reply.id \notin DOMAIN pendingRequests
        /\ UNCHANGED <<pendingRequests, timers, promise, proofOf, calls>>
     \/ /\ reply.id \in DOMAIN pendingRequests
        /\ Delete(reply.id)
        /\ LET r == pendingRequests[reply.id]
           IN  /\ ClearTimers({r})
               /\ Settle({r}, IF reply.proof = NoProof THEN "rejected" ELSE "resolved")
               /\ proofOf' = [proofOf EXCEPT ![r] = reply.proof]
  /\ UNCHANGED <<requestCounter, worker, jobs>>

RejectAll ==
  /\ ClearTimers(Pending)
  /\ Settle(Pending, "rejected")
  /\ ClearEntries

\* worker.onerror; the prover keeps the worker, alive or not.
OnError ==
  /\ worker
  /\ RejectAll
  /\ UNCHANGED <<requestCounter, worker, jobs, replies, proofOf>>

\* A worker's answers that were on their way when it was terminated may arrive.
Terminate ==
  /\ worker' = FALSE
  /\ jobs' = {}
  /\ RejectAll
  /\ UNCHANGED <<requestCounter, replies, proofOf>>

TimeoutForgets(t) ==
  /\ t \in timers
  /\ timers' = timers \ {t}
  /\ Delete(t.id)
  /\ UNCHANGED <<requestCounter, worker, jobs, replies, promise, proofOf, calls>>

Timeout(t) ==
  /\ t \in timers
  /\ timers' = timers \ {t}
  /\ Delete(t.id)
  /\ Settle({t.request}, "rejected")
  /\ UNCHANGED <<requestCounter, worker, jobs, replies, proofOf>>

TimeoutOf(r) == \E t \in timers : t.request = r /\ Timeout(t)

Next ==
  \/ \E r \in Request : Generate(r) \/ WorkerRefused(r) \/ TimeoutOf(r)
  \/ \E job \in jobs, proof \in Request \cup {NoProof} : Answer(job, proof)
  \/ \E reply \in replies : OnMessage(reply)
  \/ OnError
  \/ Terminate

\* setTimeout fires in the end.  Nothing is assumed of the worker.
Fairness == \A r \in Request : WF_vars(TimeoutOf(r))

Spec == Init /\ [][Next]_vars /\ Fairness
-----------------------------------------------------------------------------
(***************************************************************************)
(* Properties.                                                             *)
(***************************************************************************)
\* The type invariant.
TypeOK ==
  /\ requestCounter \in Nat
  /\ DOMAIN pendingRequests \subseteq 1 .. requestCounter
  /\ Pending \subseteq Request
  /\ timers \subseteq [id : 1 .. requestCounter, request : Request]
  /\ worker \in BOOLEAN
  /\ jobs \subseteq [id : 1 .. requestCounter, request : Request]
  /\ replies \subseteq [id : 1 .. requestCounter, proof : Request \cup {NoProof}]
  /\ promise \in [Request -> {"none", "unsettled", "resolved", "rejected"}]
  /\ proofOf \in [Request -> Request \cup {NoProof}]
  /\ calls \in [Request -> Nat]

\* Whatever of answer, error, timeout and terminate comes first, the others find
\* nothing left: the requests with an entry are those with a timer running and
\* those whose caller still waits, each has one entry and one timer, and nothing
\* is resolved or rejected twice, though a second call would show nowhere.
Coherent ==
  /\ Pending = {r \in Request : promise[r] = "unsettled"}
  /\ \A i, j \in DOMAIN pendingRequests :
       pendingRequests[i] = pendingRequests[j] => i = j
  /\ timers = {Entry(id, pendingRequests[id]) : id \in DOMAIN pendingRequests}
  /\ \A r \in Request :
       calls[r] = IF promise[r] \in {"resolved", "rejected"} THEN 1 ELSE 0

\* A caller gets the proof of the input it gave, though many are under way, come
\* in any order, and late ones meet requests made after an error or a terminate.
RightProof == \A r \in Request : promise[r] = "resolved" => proofOf[r] = r

\* Every caller gets a proof or an error, even from a worker that died.
EveryRequestSettles ==
  \A r \in Request :
    promise[r] = "unsettled" ~> promise[r] \in {"resolved", "rejected"}
=============================================================================
