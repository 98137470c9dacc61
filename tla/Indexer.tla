------------------------------- MODULE Indexer -------------------------------
(***************************************************************************)
(* The indexer: listener.rs polls the pool's events and keeps a copy of    *)
(* its tree in memory (state.rs); with a database (db.rs) what is inserted *)
(* is also written there, by tasks of their own, and read back at the next *)
(* start (main.rs).                                                        *)
(*                                                                         *)
(* The chain is external: ledgers close, each with the pool's events in    *)
(* it.  The pool never takes one commitment twice (MixerPool,              *)
(* EventsReplay), so a commitment is named by the place of its event.      *)
(*                                                                         *)
(* The variants that no action uses are faults the properties would show.  *)
(***************************************************************************)
EXTENDS Integers, Sequences, FiniteSets

CONSTANTS
  Limit,        \* events in one answer (1000)
  Lookback,     \* ledgers to go back without a cursor (1000)
  Forms,        \* how the RPC node may write the topics and value of an event
  Persistent,   \* built with "postgres" and given a DATABASE_URL
  MaxEvents, MaxLedger, MaxBoots    \* bounds

ASSUME IndexerAssumption ==
  /\ Limit \in Nat \ {0}
  /\ Lookback \in Nat
  /\ Forms \subseteq {"hex", "bytes", "xdr", "xdr_tuple", "unreadable", "encoded"}
  /\ Persistent \in BOOLEAN
  /\ MaxEvents \in Nat /\ MaxLedger \in Nat /\ MaxBoots \in Nat

VARIABLES
  chain,         \* the pool's events, [ledger, topic], oldest first
  latest,        \* the last ledger closed
  phase,         \* where the listener is, "down" while the process is
  start,         \* startLedger of the poll under way, 0 when there is none
  answer,        \* its answer: the events next..last are still to be handled
  tree,          \* state.tree, its leaves
  lastLedger,    \* state.last_ledger, the cursor
  roots,         \* state.roots, the deposit_index of each entry
  database,      \* state.database is Some
  rows,          \* table commitments: leaf_index -> commitment
  storedLedger,  \* table indexer_state, 0 if there is no row
  writes,        \* the database writes spawned and not yet carried out
  boots,         \* how often the process was started
  restored,      \* history: how many leaves the process started with
  since,         \* history: the first ledger this process asked for
  missed         \* history: deposits this process's cursor passed over

chainVars == <<chain, latest>>
memory == <<tree, lastLedger, roots, database>>
storage == <<rows, storedLedger>>
history == <<boots, restored, since, missed>>
vars == <<chainVars, phase, start, answer, memory, storage, writes, history>>
-----------------------------------------------------------------------------
Events == 1 .. Len(chain)
IsDeposit(i) == chain[i].topic = "deposit"
Deposits == {i \in Events : IsDeposit(i)}

\* is_deposit_event looks for "deposit" in topics that are strings: in base64, as
\* in an object, it does not find it.
IsDepositEvent(form, i) == IsDeposit(i) /\ form # "encoded"

NoAnswer == [next |-> 1, last |-> 0, upTo |-> 0, form |-> "hex"]

RowWrite(i, word) == [kind |-> "row", index |-> i, word |-> word]
CursorWrite(ledger) == [kind |-> "cursor", ledger |-> ledger]

\* set_last_ledger and insert_commitment are spawned if there is a database.
Spawn(write) == writes' = IF database THEN writes \cup {write} ELSE writes

\* What extract_commitment makes of the value of event i: of the XDR of the tuple
\* (commitment, leaf_index) the bytes 8..40 are three headers and the first 20
\* bytes of the commitment, a word of their own.
Garbled(i) == -i
None == 0

ExtractCommitment(form, i) ==
  CASE form \in {"hex", "bytes", "xdr"} -> i
    [] form = "xdr_tuple" -> Garbled(i)
    [] form \in {"unreadable", "encoded"} -> None

Underflowing(a, b) == a - b
SaturatingSub(a, b) == IF a < b THEN 0 ELSE a - b

\* The k-th row by leaf_index.
RowAt(k) ==
  rows[CHOOSE i \in DOMAIN rows : Cardinality({j \in DOMAIN rows : j < i}) = k - 1]

GetAllCommitments == [k \in 1 .. Cardinality(DOMAIN rows) |-> RowAt(k)]
-----------------------------------------------------------------------------
Init ==
  /\ chain = <<>>
  /\ latest = 1
  /\ phase = "down"
  /\ start = 0
  /\ answer = NoAnswer
  /\ tree = <<>>
  /\ lastLedger = 0
  /\ roots = <<0>>
  /\ database = FALSE
  /\ rows = [i \in {} |-> None]
  /\ storedLedger = 0
  /\ writes = {}
  /\ boots = 0
  /\ restored = 0
  /\ since = 0
  /\ missed = {}
-----------------------------------------------------------------------------
(***************************************************************************)
(* The chain.  The pool publishes an event per deposit and withdrawal, no  *)
(* more withdrawals than deposits; nodes show a ledger once it is closed.  *)
(***************************************************************************)
Publish(topic) ==
  /\ Len(chain) < MaxEvents /\ latest < MaxLedger
  /\ topic = "withdrawal" => 2 * Cardinality(Deposits) > Len(chain)
  /\ chain' = Append(chain, [ledger |-> latest + 1, topic |-> topic])
  /\ UNCHANGED latest

CloseLedger ==
  /\ latest < MaxLedger
  /\ latest' = latest + 1
  /\ UNCHANGED chain
-----------------------------------------------------------------------------
(***************************************************************************)
(* The process starts: state.rs AppState::new, main.rs.  Without a         *)
(* connection it runs in memory; each of the two reads may fail by itself. *)
(***************************************************************************)
Boot(connected, commitmentsRead, cursorRead) ==
  /\ phase = "down" /\ boots < MaxBoots
  /\ connected => Persistent
  /\ phase' = "idle"
  /\ boots' = boots + 1
  /\ database' = connected
  /\ tree' = IF connected /\ commitmentsRead THEN GetAllCommitments ELSE <<>>
  /\ lastLedger' = IF connected /\ cursorRead THEN storedLedger ELSE 0
  /\ roots' = <<0>>
  /\ restored' = Len(tree')
  /\ since' = lastLedger' + 1
  /\ missed' = {}
  /\ UNCHANGED <<start, answer, storage, writes>>

\* Everything in memory is gone, the writes not carried out among it.
Crash ==
  /\ phase # "down" /\ boots < MaxBoots
  /\ phase' = "down"
  /\ start' = 0
  /\ answer' = NoAnswer
  /\ tree' = <<>>
  /\ lastLedger' = 0
  /\ roots' = <<0>>
  /\ database' = FALSE
  /\ writes' = {}
  /\ restored' = 0
  /\ since' = 0
  /\ missed' = {}
  /\ UNCHANGED <<boots, storage>>
-----------------------------------------------------------------------------
(***************************************************************************)
(* poll_events.  The state is read before the two requests, and written    *)
(* under the lock after them.                                              *)
(***************************************************************************)
FromCursor ==
  /\ phase = "idle"
  /\ IF lastLedger = 0
     THEN phase' = "latest" /\ UNCHANGED start
     ELSE phase' = "events" /\ start' = lastLedger
  /\ UNCHANGED <<answer, memory, storage, writes, history>>

BeginPoll ==
  /\ phase = "idle"
  /\ IF lastLedger = 0
     THEN phase' = "latest" /\ UNCHANGED start
     ELSE phase' = "events" /\ start' = lastLedger + 1
  /\ UNCHANGED <<answer, memory, storage, writes, history>>

\* getLatestLedger; an answer without a sequence number counts as 1.
LatestLedger(ledger) ==
  /\ phase = "latest"
  /\ phase' = "events"
  /\ start' = SaturatingSub(ledger, Lookback)
  /\ UNCHANGED <<answer, memory, storage, writes, history>>

\* No connection, no JSON, an RPC error (as when startLedger is not closed yet),
\* or no result.
PollFails ==
  /\ phase \in {"latest", "events"}
  /\ phase' = "idle"
  /\ start' = 0
  /\ UNCHANGED <<answer, memory, storage, writes, history>>

\* getEvents: the node, which may lag behind, has seen the ledgers up to upTo,
\* and sends the first Limit events from start on.
GetEvents(upTo, form) ==
  LET first == Cardinality({i \in Events : chain[i].ledger < start}) + 1
      seen == Cardinality({i \in Events : chain[i].ledger <= upTo})
  IN  /\ phase = "events"
      /\ start <= upTo
      /\ phase' = "answered"
      /\ answer' = [next |-> first, upTo |-> upTo, form |-> form,
                    last |-> IF seen < first + Limit THEN seen ELSE first + Limit - 1]
      /\ UNCHANGED <<start, memory, storage, writes, history>>

LedgerBefore(upTo) == upTo - 1
CursorAfter(upTo) == upTo

\* Under the write lock: the cursor moves first, past whatever was not sent.
UpdateLastLedger ==
  /\ phase = "answered"
  /\ phase' = "applying"
  /\ lastLedger' = CursorAfter(answer.upTo)
  /\ Spawn(CursorWrite(lastLedger'))
  /\ since' = IF lastLedger = 0 THEN start ELSE since
  /\ missed' = missed \cup
       {i \in Deposits : chain[i].ledger <= answer.upTo /\ answer.last < i}
  /\ UNCHANGED <<start, answer, tree, roots, database, storage, boots, restored>>

InsertCommitment(word) ==
  /\ tree' = Append(tree, word)
  /\ roots' = Append(roots, Len(tree) + 1)
  /\ Spawn(RowWrite(Len(tree), word))

HandleEvent ==
  /\ phase = "applying" /\ answer.next <= answer.last
  /\ answer' = [answer EXCEPT !.next = @ + 1]
  /\ LET i == answer.next
         word == ExtractCommitment(answer.form, i)
     IN  IF IsDepositEvent(answer.form, i) /\ word # None
         THEN InsertCommitment(word) /\ UNCHANGED missed
         ELSE /\ missed' = IF IsDeposit(i) THEN missed \cup {i} ELSE missed
              /\ UNCHANGED <<tree, roots, writes>>
  /\ UNCHANGED <<phase, start, lastLedger, database, storage, boots, restored, since>>

EndPoll ==
  /\ phase = "applying" /\ answer.last < answer.next
  /\ phase' = "idle"
  /\ start' = 0
  /\ answer' = NoAnswer
  /\ UNCHANGED <<memory, storage, writes, history>>
-----------------------------------------------------------------------------
(***************************************************************************)
(* The spawned writes: in any order, and each may fail (it is logged).     *)
(* The roots, written to a table that nothing reads, are left out.         *)
(***************************************************************************)
\* ON CONFLICT DO NOTHING, for the primary key and for the unique column.
Conflict(w) ==
  w.index \in DOMAIN rows \/ \E i \in DOMAIN rows : rows[i] = w.word

Persist(w) ==
  /\ w \in writes
  /\ writes' = writes \ {w}
  /\ \/ /\ w.kind = "row"
        /\ rows' = IF Conflict(w) THEN rows
                   ELSE [i \in DOMAIN rows \cup {w.index} |->
                           IF i = w.index THEN w.word ELSE rows[i]]
        /\ UNCHANGED storedLedger
     \/ /\ w.kind = "cursor"
        /\ storedLedger' = w.ledger
        /\ UNCHANGED rows
  /\ UNCHANGED <<phase, start, answer, memory, history>>

PersistFails(w) ==
  /\ w \in writes
  /\ writes' = writes \ {w}
  /\ UNCHANGED <<phase, start, answer, memory, storage, history>>
-----------------------------------------------------------------------------
Listen ==
  \/ BeginPoll
  \/ \E ledger \in 1 .. latest : LatestLedger(ledger)
  \/ PollFails
  \/ \E upTo \in 1 .. latest, form \in Forms : GetEvents(upTo, form)
  \/ UpdateLastLedger
  \/ HandleEvent
  \/ EndPoll

Next ==
  \/ (CloseLedger \/ \E topic \in {"deposit", "withdrawal"} : Publish(topic))
       /\ UNCHANGED <<phase, start, answer, memory, storage, writes, history>>
  \/ /\ \/ Listen
        \/ Crash
        \/ \E connected, commitmentsRead, cursorRead \in BOOLEAN :
             Boot(connected, commitmentsRead, cursorRead)
        \/ \E w \in writes : Persist(w) \/ PersistFails(w)
     /\ UNCHANGED chainVars

\* The interval ticks, and the listener's task is polled when it can go on.
\* Nothing makes the node answer, nor a supervisor restart the process.
Fairness ==
  WF_vars((BeginPoll \/ UpdateLastLedger \/ HandleEvent \/ EndPoll)
            /\ UNCHANGED chainVars)

Spec == Init /\ [][Next]_vars /\ Fairness
-----------------------------------------------------------------------------
(***************************************************************************)
(* Properties.                                                             *)
(***************************************************************************)
\* The state between two polls, which is when the API's readers get the lock.
Readable == phase \notin {"down", "applying"}

Fresh == restored + 1 .. Len(tree)

\* The deposit a leaf was made from, rightly or from the wrong bytes.
DepositOf(k) == IF tree[k] < 0 THEN -tree[k] ELSE tree[k]

DepositsUpTo(ledger) == {i \in Deposits : chain[i].ledger <= ledger}

\* The leaf index the contract gave a deposit.
LeafIndex(i) == Cardinality({j \in Deposits : j < i})

\* The first n leaves are the contract's after the given ledger: the commitments
\* deposited, each at its index.
Mirrors(n, ledger) ==
  /\ n = Cardinality(DepositsUpTo(ledger))
  /\ \A k \in 1 .. n : tree[k] \in DepositsUpTo(ledger) /\ LeafIndex(tree[k]) = k - 1

\* The type invariant.
TypeOK ==
  /\ chain \in Seq([ledger : Nat, topic : {"deposit", "withdrawal"}])
  /\ latest \in Nat
  /\ phase \in {"down", "idle", "latest", "events", "answered", "applying"}
  /\ start \in Nat /\ lastLedger \in Nat /\ storedLedger \in Nat
  /\ answer \in [next : Nat, last : Nat, upTo : Nat, form : Forms \cup {"hex"}]
  /\ tree \in Seq(Int) /\ roots \in Seq(Nat)
  /\ database \in BOOLEAN
  /\ rows \in [DOMAIN rows -> Int] /\ DOMAIN rows \subseteq Nat
  /\ \A w \in writes : \/ w.kind = "row" /\ w.index \in Nat /\ w.word \in Int
                       \/ w.kind = "cursor" /\ w.ledger \in Nat
  /\ boots \in Nat /\ restored \in 0 .. Len(tree) /\ since \in Nat
  /\ missed \subseteq Deposits

\* The cursor keeps its promise: of the deposits in the ledgers a process has
\* passed, from its first poll to its cursor, each is a leaf exactly once and in
\* the order of the chain, but for those an answer left out or nobody could read;
\* and each such leaf has left its root.  However polls fail, nodes lag and ledgers
\* close during a poll, none is taken twice and none in between is dropped.
CursorExact ==
  Readable =>
    /\ \A j, k \in Fresh : j < k => DepositOf(j) < DepositOf(k)
    /\ {DepositOf(k) : k \in Fresh} =
         {i \in Deposits : since <= chain[i].ledger /\ chain[i].ledger <= lastLedger}
           \ missed
    /\ roots = <<0>> \o [k \in 1 .. Len(tree) - restored |-> restored + k]

\* "Mirrors the on-chain tree exactly so that Merkle proofs generated here are valid"
\* (merkle.rs:3-4): if what was restored is the contract's tree up to the cursor, and
\* no deposit was missed since, the tree the API serves is the contract's.
ServesContractTree ==
  Readable /\ missed = {} /\ Mirrors(restored, since - 1)
    => Mirrors(Len(tree), lastLedger)

\* No commitment was taken from the wrong bytes of an event's value.
NothingGarbled == \A k \in Fresh : tree[k] > 0

\* The tree the API serves is the contract's, leaf for leaf, under one condition
\* more: the node writes the values of events in a form that is read right.
MirrorExact == NothingGarbled => ServesContractTree

\* Every deposit is passed by the cursor in the end, provided that the process
\* stays up and the node, while there is something new, answers now and then.
NodeAnswers ==
  []<>(phase = "answered" \/ (Readable /\ lastLedger = latest))

EveryDepositReached ==
  <>[](phase # "down") /\ NodeAnswers =>
    \A i \in 1 .. MaxEvents :
      (i \in Events /\ chain[i].ledger <= latest)
        ~> (i \in Events /\ Readable /\ chain[i].ledger <= lastLedger)

\* "persisted to PostgreSQL for durability across restarts" (state.rs:7): a
\* process resumes behind its stored cursor with every deposit up to there.
DurableAcrossRestarts ==
  database /\ phase = "idle" /\ lastLedger > 0 /\ Len(tree) = restored =>
    \A i \in Deposits : chain[i].ledger < since => \E k \in DOMAIN tree : tree[k] = i
=============================================================================
