---------------------------- MODULE IndexerProofs ----------------------------
(***************************************************************************)
(* Proofs about the indexer, for any chain, any limit on an answer, any    *)
(* number of polls, crashes and restarts.                                  *)
(***************************************************************************)
EXTENDS Indexer, FiniteSetTheorems, TLAPS

(***************************************************************************)
(* The inductive invariant.                                                *)
(***************************************************************************)

\* Ledgers are closed one after the other, and their events numbered so.
ChainInv ==
  /\ latest >= 1
  /\ \A i, j \in Events : i <= j => chain[i].ledger <= chain[j].ledger
  /\ \A i \in Events : 1 <= chain[i].ledger /\ chain[i].ledger <= latest + 1

\* No cursor, in memory, on its way or stored, is ahead of the chain.
CursorsBehind ==
  /\ lastLedger <= latest /\ storedLedger <= latest
  /\ \A w \in writes : w.kind = "cursor" => w.ledger <= latest
  /\ since <= lastLedger + 1
  /\ IsFiniteSet(DOMAIN rows)

\* What the listener knows of the answer it was sent: it begins where it was asked
\* to, and ends within what the node has seen;
Received ==
  /\ answer.next >= 1 /\ answer.next <= answer.last + 1 /\ answer.last <= Len(chain)
  /\ \A i \in Events : i <= answer.last => chain[i].ledger <= answer.upTo

Answered ==
  /\ start <= answer.upTo /\ answer.upTo <= latest
  /\ \A i \in Events : i < answer.next <=> chain[i].ledger < start

\* and, while it is applied, what lies behind its end is already missed.
Applying ==
  /\ lastLedger = answer.upTo /\ since <= start /\ start <= lastLedger
  /\ \A i \in Events : answer.next <= i => start <= chain[i].ledger
  /\ \A i \in Deposits : chain[i].ledger <= lastLedger /\ answer.last < i => i \in missed
  /\ \A i \in missed : i < answer.next \/ answer.last < i

PollInv ==
  /\ phase = "latest" => lastLedger = 0
  /\ phase \in {"events", "answered"} /\ lastLedger # 0 => start = lastLedger + 1
  /\ phase \in {"answered", "applying"} => Received
  /\ phase = "answered" => Answered
  /\ phase = "applying" => Applying

\* The deposits this process has dealt with.
Done(i) ==
  /\ since <= chain[i].ledger /\ chain[i].ledger <= lastLedger
  /\ phase = "applying" => i < answer.next

\* The leaves this process has inserted are the deposits it dealt with, but for
\* those it missed, in the order of the chain, and each has left its root.
FreshInv ==
  /\ \A i \in missed : chain[i].ledger <= lastLedger
  /\ \A k \in Fresh : DepositOf(k) \in Deposits /\ Done(DepositOf(k)) /\ DepositOf(k) \notin missed
  /\ \A i \in Deposits : Done(i) /\ i \notin missed => \E k \in Fresh : DepositOf(k) = i
  /\ \A j, k \in Fresh : j < k => DepositOf(j) < DepositOf(k)

RootsInv ==
  /\ Len(roots) = Len(tree) - restored + 1
  /\ \A k \in 1 .. Len(roots) : roots[k] = IF k = 1 THEN 0 ELSE restored + k - 1

IInv == TypeOK /\ ChainInv /\ CursorsBehind /\ PollInv /\ FreshInv /\ RootsInv
-----------------------------------------------------------------------------
(***************************************************************************)
(* Counting.                                                               *)
(***************************************************************************)

\* The chain is a row of events, each with its ledger.
LEMMA ChainTyped ==
  ASSUME TypeOK
  PROVE  /\ Len(chain) \in Nat /\ Events = 1 .. Len(chain)
         /\ \A i \in Events : chain[i].ledger \in Nat
<1> DEFINE Event == [ledger : Nat, topic : {"deposit", "withdrawal"}]
<1>1. chain \in Seq(Event)
  BY DEF TypeOK
<1>2. \A e \in Event : e.ledger \in Nat
  OBVIOUS
<1> HIDE DEF Event
<1>3. Len(chain) \in Nat /\ \A i \in 1 .. Len(chain) : chain[i] \in Event
  BY <1>1
<1> QED
  BY <1>2, <1>3 DEF Events

\* The events before a ledger are the first so many of the chain.
LEMMA Prefix ==
  ASSUME TypeOK, ChainInv, NEW x \in Nat
  PROVE  LET S == {i \in Events : chain[i].ledger < x}
         IN  /\ Cardinality(S) \in Nat /\ Cardinality(S) <= Len(chain)
             /\ S = 1 .. Cardinality(S)
<1> DEFINE S == {i \in Events : chain[i].ledger < x}
           c == Cardinality(S)
<1>1. /\ Len(chain) \in Nat /\ Events = 1 .. Len(chain)
      /\ \A i \in Events : chain[i].ledger \in Nat
  BY ChainTyped
<1>2. /\ IsFiniteSet(1 .. Len(chain)) /\ Cardinality(1 .. Len(chain)) = Len(chain)
  <2>1. /\ IsFiniteSet(1 .. Len(chain))
        /\ Cardinality(1 .. Len(chain)) = IF 1 > Len(chain) THEN 0 ELSE Len(chain) - 1 + 1
    BY <1>1, FS_Interval
  <2> QED
    BY <1>1, <2>1
<1>3. IsFiniteSet(S) /\ c \in Nat /\ c <= Len(chain)
  <2>1. S \in SUBSET (1 .. Len(chain))
    BY <1>1
  <2> QED
    BY <1>2, <2>1, FS_Subset, FS_CardinalityType
<1>4. ASSUME NEW i \in S
      PROVE  i \in 1 .. c
  <2>1. i \in Nat /\ i >= 1 /\ i \in Events
    BY <1>1
  <2>2. 1 .. i \in SUBSET S
    BY <1>1, <2>1 DEF ChainInv
  <2>3. Cardinality(1 .. i) = i
    <3>1. Cardinality(1 .. i) = IF 1 > i THEN 0 ELSE i - 1 + 1
      BY <2>1, FS_Interval
    <3> QED
      BY <2>1, <3>1
  <2>4. Cardinality(1 .. i) <= c
    BY <1>3, <2>2, FS_Subset
  <2> HIDE DEF c, S
  <2> QED
    BY <1>3, <2>1, <2>3, <2>4
<1>5. IsFiniteSet(1 .. c) /\ Cardinality(1 .. c) = c
  <2> HIDE DEF c
  <2>1. /\ IsFiniteSet(1 .. c)
        /\ Cardinality(1 .. c) = IF 1 > c THEN 0 ELSE c - 1 + 1
    BY <1>3, FS_Interval
  <2> QED
    BY <1>3, <2>1
<1>6. S = 1 .. c
  <2>1. S \in SUBSET (1 .. c)
    BY <1>4
  <2> HIDE DEF S
  <2> QED
    BY <1>5, <2>1, FS_Subset
<1> QED
  BY <1>3, <1>6

\* In a finite set of naturals some element has k - 1 others below it, for every
\* k up to its size.
LEMMA Ranks ==
  ASSUME NEW D \in SUBSET Nat, IsFiniteSet(D), NEW k \in 1 .. Cardinality(D)
  PROVE  \E i \in D : Cardinality({j \in D : j < i}) = k - 1
<1> DEFINE below(i) == {j \in D : j < i}
           T == 0 .. Cardinality(D) - 1
           rank == [i \in D |-> Cardinality(below(i))]
<1>1. Cardinality(D) \in Nat
  BY FS_CardinalityType
<1>2. ASSUME NEW i \in D
      PROVE  /\ IsFiniteSet(below(i)) /\ Cardinality(below(i)) \in Nat
             /\ Cardinality(below(i)) < Cardinality(D)
  <2>1. below(i) \in SUBSET D /\ i \notin below(i)
    OBVIOUS
  <2>2. /\ IsFiniteSet(below(i)) /\ Cardinality(below(i)) <= Cardinality(D)
        /\ Cardinality(D) = Cardinality(below(i)) => D = below(i)
    BY <2>1, FS_Subset
  <2>3. Cardinality(below(i)) \in Nat
    BY <2>2, FS_CardinalityType
  <2> HIDE DEF below
  <2> QED
    BY <1>1, <2>1, <2>2, <2>3
<1>3. rank \in [D -> T]
  BY <1>1, <1>2
<1>4. ASSUME NEW i \in D, NEW j \in D, i < j
      PROVE  rank[i] # rank[j]
  <2>1. below(i) \in SUBSET below(j) /\ i \in below(j) /\ i \notin below(i)
    <3>1. ASSUME NEW l \in D, l < i
          PROVE  l < j
      BY <1>4, <3>1
    <3>2. ~(i < i)
      OBVIOUS
    <3> HIDE DEF rank, T
    <3> QED
      BY <1>4, <3>1, <3>2
  <2>2. Cardinality(below(i)) # Cardinality(below(j))
    <3> HIDE DEF below
    <3> QED
      BY <1>2, <2>1, FS_Subset
  <2> QED
    BY <2>2
<1>5. rank \in Injection(D, T)
  <2>1. ASSUME NEW i \in D, NEW j \in D, rank[i] = rank[j]
        PROVE  i = j
    <3>1. i \in Nat /\ j \in Nat
      OBVIOUS
    <3> HIDE DEF rank
    <3> QED
      BY <1>4, <2>1, <3>1
  <2> HIDE DEF rank, T
  <2> QED
    BY <1>3, <2>1 DEF Injection, IsInjective
<1>6. IsFiniteSet(T) /\ Cardinality(T) = Cardinality(D)
  <2>1. /\ IsFiniteSet(T)
        /\ Cardinality(T) = IF 0 > Cardinality(D) - 1 THEN 0
                            ELSE (Cardinality(D) - 1) - 0 + 1
    <3>1. 0 \in Int /\ Cardinality(D) - 1 \in Int
      BY <1>1
    <3> QED
      BY <3>1, FS_Interval
  <2> HIDE DEF T
  <2> QED
    BY <1>1, <2>1
<1>7. rank \in Surjection(D, T)
  <2> HIDE DEF rank, T
  <2> QED
    BY <1>5, <1>6, FS_Injection
<1>8. k - 1 \in T
  BY <1>1
<1>9. PICK i \in D : rank[i] = k - 1
  <2> HIDE DEF rank, T
  <2> QED
    BY <1>7, <1>8 DEF Surjection
<1> QED
  BY <1>9

\* What is read back from the table is a sequence of its words.
LEMMA ReadBack ==
  ASSUME TypeOK, IsFiniteSet(DOMAIN rows)
  PROVE  GetAllCommitments \in Seq(Int)
<1> DEFINE n == Cardinality(DOMAIN rows)
<1>1. n \in Nat
  BY FS_CardinalityType
<1>2. ASSUME NEW k \in 1 .. n
      PROVE  RowAt(k) \in Int
  <2>1. DOMAIN rows \in SUBSET Nat
    BY DEF TypeOK
  <2>2. \E i \in DOMAIN rows : Cardinality({j \in DOMAIN rows : j < i}) = k - 1
    BY <2>1, Ranks
  <2>3. (CHOOSE i \in DOMAIN rows : Cardinality({j \in DOMAIN rows : j < i}) = k - 1)
          \in DOMAIN rows
    BY <2>2
  <2> QED
    BY <2>3 DEF RowAt, TypeOK
<1>3. GetAllCommitments = [k \in 1 .. n |-> RowAt(k)]
  BY DEF GetAllCommitments
<1> HIDE DEF n
<1> QED
  BY <1>1, <1>2, <1>3
-----------------------------------------------------------------------------
(***************************************************************************)
(* The chain.                                                              *)
(***************************************************************************)

\* What has happened to leaves, roots and the deposits dealt with stays, as long
\* as neither they nor the cursor change.
LEMMA MemoryFrame ==
  ASSUME FreshInv, RootsInv, UNCHANGED <<chain, memory, restored, since, missed>>,
         phase # "applying", phase' # "applying"
  PROVE  FreshInv' /\ RootsInv'
BY DEF FreshInv, RootsInv, memory, Fresh, DepositOf, Deposits, IsDeposit, Events, Done

\* A new event is in a ledger no cursor has reached.
LEMMA PublishStep ==
  ASSUME IInv, NEW topic \in {"deposit", "withdrawal"}, Publish(topic),
         UNCHANGED <<phase, start, answer, memory, storage, writes, history>>
  PROVE  IInv'
<1> DEFINE n == Len(chain)
           event == [ledger |-> latest + 1, topic |-> topic]
<1>1. /\ TypeOK /\ ChainInv /\ CursorsBehind /\ PollInv /\ FreshInv /\ RootsInv
      /\ latest \in Nat /\ lastLedger \in Nat /\ start \in Nat
      /\ answer.upTo \in Nat /\ answer.next \in Nat /\ answer.last \in Nat
  <2>1. TypeOK
    BY DEF IInv
  <2>2. latest \in Nat /\ lastLedger \in Nat /\ start \in Nat
    BY <2>1 DEF TypeOK
  <2>3. answer \in [next : Nat, last : Nat, upTo : Nat, form : Forms \cup {"hex"}]
    BY <2>1 DEF TypeOK
  <2> QED
    BY <2>1, <2>2, <2>3 DEF IInv
<1>2. /\ n \in Nat /\ Events = 1 .. n /\ \A i \in Events : chain[i].ledger \in Nat
  BY <1>1, ChainTyped
<1>3. /\ chain' = Append(chain, event) /\ latest' = latest
      /\ chain \in Seq([ledger : Nat, topic : {"deposit", "withdrawal"}])
  BY <1>1 DEF Publish, TypeOK
<1>4. event \in [ledger : Nat, topic : {"deposit", "withdrawal"}]
  BY <1>1
<1>5. /\ chain' \in Seq([ledger : Nat, topic : {"deposit", "withdrawal"}])
      /\ Len(chain') = n + 1
      /\ \A i \in 1 .. n : chain'[i] = chain[i]
      /\ chain'[n + 1] = event
  <2> HIDE DEF event
  <2> QED
    BY <1>3, <1>4
<1>6. /\ Events' = Events \cup {n + 1} /\ n + 1 \notin Events
      /\ \A i \in Events : chain'[i] = chain[i]
      /\ chain'[n + 1].ledger = latest + 1
  BY <1>2, <1>5 DEF Events
<1>7. Deposits \subseteq Deposits' /\ \A i \in Deposits' : i \in Deposits \/ i = n + 1
  BY <1>6 DEF Deposits, IsDeposit
<1>8. /\ UNCHANGED <<phase, start, answer, tree, lastLedger, roots, database, rows,
                     storedLedger, writes, boots, restored, since, missed>>
  BY DEF memory, storage, history
<1> HIDE DEF event, n
<1>9. TypeOK'
  BY <1>1, <1>3, <1>5, <1>7, <1>8 DEF TypeOK
<1>10. ChainInv'
  <2>1. \A i \in Events : i <= n
    BY <1>2
  <2>2. \A i, j \in Events' : i <= j => chain'[i].ledger <= chain'[j].ledger
    BY <1>1, <1>2, <1>6, <2>1 DEF ChainInv
  <2>3. \A i \in Events' : 1 <= chain'[i].ledger /\ chain'[i].ledger <= latest + 1
    BY <1>1, <1>6 DEF ChainInv
  <2> QED
    BY <1>1, <1>3, <2>2, <2>3 DEF ChainInv
<1>11. CursorsBehind'
  BY <1>1, <1>3, <1>8 DEF CursorsBehind
<1>12. PollInv'
  <2>1. ASSUME Received
        PROVE  Received'
    <3>1. answer.last <= n /\ n <= Len(chain')
      BY <1>1, <1>2, <1>5, <2>1 DEF Received, n
    <3>2. answer.last <= Len(chain') /\ answer.last < n + 1
      BY <1>1, <1>2, <1>5, <3>1
    <3>3. \A i \in Events' : i <= answer.last => chain'[i].ledger <= answer.upTo
      BY <1>1, <1>2, <1>6, <2>1, <3>2 DEF Received
    <3> QED
      BY <1>8, <2>1, <3>2, <3>3 DEF Received
  <2>2. ASSUME Received, Answered
        PROVE  Answered'
    <3>1. answer.next <= n + 1 /\ start < latest + 1
      BY <1>1, <1>2, <2>2 DEF Received, Answered, n
    <3>2. \A i \in Events' : i < answer.next <=> chain'[i].ledger < start
      BY <1>1, <1>2, <1>6, <2>2, <3>1 DEF Answered
    <3> QED
      BY <1>3, <1>8, <2>2, <3>2 DEF Answered
  <2>3. ASSUME Applying
        PROVE  Applying'
    <3>1. start < latest + 1 /\ lastLedger < latest + 1
      BY <1>1, <2>3 DEF Applying, CursorsBehind
    <3>2. \A i \in Events' : answer.next <= i => start <= chain'[i].ledger
      BY <1>1, <1>2, <1>6, <2>3, <3>1 DEF Applying
    <3>3. \A i \in Deposits' :
            chain'[i].ledger <= lastLedger /\ answer.last < i => i \in missed
      BY <1>1, <1>2, <1>6, <1>7, <2>3, <3>1 DEF Applying, Deposits
    <3> QED
      BY <1>8, <2>3, <3>2, <3>3 DEF Applying
  <2> QED
    BY <1>1, <1>8, <2>1, <2>2, <2>3 DEF PollInv
<1>13. FreshInv'
  <2>1. /\ \A k : Fresh' = Fresh /\ DepositOf(k)' = DepositOf(k)
        /\ \A i \in Events : Done(i)' = Done(i)
        /\ ~(chain'[n + 1].ledger <= lastLedger')
    BY <1>1, <1>6, <1>8 DEF Fresh, DepositOf, Done, CursorsBehind
  <2>2. \A i \in missed : i \in Events
    BY <1>1 DEF TypeOK, Deposits
  <2> QED
    BY <1>1, <1>6, <1>7, <1>8, <2>1, <2>2 DEF FreshInv, Done, Deposits
<1>14. RootsInv'
  BY <1>1, <1>8 DEF RootsInv
<1> QED
  BY <1>9, <1>10, <1>11, <1>12, <1>13, <1>14 DEF IInv

\* A ledger closes.
LEMMA CloseLedgerStep ==
  ASSUME IInv, CloseLedger,
         UNCHANGED <<phase, start, answer, memory, storage, writes, history>>
  PROVE  IInv'
<1>1. /\ TypeOK /\ ChainInv /\ CursorsBehind /\ PollInv /\ FreshInv /\ RootsInv
  BY DEF IInv
<1>2. /\ latest \in Nat /\ lastLedger \in Nat /\ storedLedger \in Nat
      /\ answer \in [next : Nat, last : Nat, upTo : Nat, form : Forms \cup {"hex"}]
  BY <1>1 DEF TypeOK
<1>3. /\ latest' = latest + 1 /\ chain' = chain
      /\ UNCHANGED <<phase, start, answer, tree, lastLedger, roots, database, rows,
                     storedLedger, writes, boots, restored, since, missed>>
  BY DEF CloseLedger, memory, storage, history
<1>4. Events' = Events /\ Deposits' = Deposits
  BY <1>3 DEF Events, Deposits, IsDeposit
<1>5. TypeOK'
  BY <1>1, <1>2, <1>3, <1>4 DEF TypeOK
<1>6. ChainInv'
  <2>1. \A i \in Events : chain[i].ledger \in Nat
    BY <1>1, ChainTyped
  <2> QED
    BY <1>1, <1>2, <1>3, <1>4, <2>1 DEF ChainInv
<1>7. CursorsBehind'
  <2>1. \A w \in writes : w.kind = "cursor" => w.ledger \in Nat
    BY <1>1 DEF TypeOK
  <2> QED
    BY <1>1, <1>2, <1>3, <2>1 DEF CursorsBehind
<1>8. PollInv'
  BY <1>1, <1>2, <1>3, <1>4 DEF PollInv, Received, Answered, Applying
<1>9. FreshInv' /\ RootsInv'
  BY <1>1, <1>3, <1>4 DEF FreshInv, RootsInv, Fresh, DepositOf, Done
<1> QED
  BY <1>5, <1>6, <1>7, <1>8, <1>9 DEF IInv
-----------------------------------------------------------------------------
(***************************************************************************)
(* The listener, up to its answer.                                         *)
(***************************************************************************)

\* A step that leaves chain, memory and storage alone leaves what is said of them.
LEMMA QuietStep ==
  ASSUME IInv, UNCHANGED <<chainVars, memory, storage, writes, history>>,
         phase # "applying",
         phase' \in {"idle", "latest", "events", "answered"},
         start' \in Nat,
         answer' \in [next : Nat, last : Nat, upTo : Nat, form : Forms \cup {"hex"}],
         PollInv'
  PROVE  IInv'
<1>1. /\ TypeOK /\ ChainInv /\ CursorsBehind /\ FreshInv /\ RootsInv
      /\ UNCHANGED <<chain, latest, tree, lastLedger, roots, database, rows,
                     storedLedger, writes, boots, restored, since, missed>>
  BY DEF IInv, chainVars, memory, storage, history
<1>2. Events' = Events /\ Deposits' = Deposits
  BY <1>1 DEF Events, Deposits, IsDeposit
<1>3. TypeOK'
  BY <1>1, <1>2 DEF TypeOK
<1>4. ChainInv' /\ CursorsBehind'
  BY <1>1, <1>2 DEF ChainInv, CursorsBehind
<1>5. FreshInv' /\ RootsInv'
  BY <1>1, MemoryFrame DEF history
<1> QED
  BY <1>3, <1>4, <1>5 DEF IInv

\* A poll begins after the cursor.
LEMMA BeginPollStep ==
  ASSUME IInv, BeginPoll, UNCHANGED chainVars
  PROVE  IInv'
<1>1. TypeOK /\ PollInv
  BY DEF IInv
<1>2. /\ lastLedger \in Nat /\ start \in Nat
      /\ answer \in [next : Nat, last : Nat, upTo : Nat, form : Forms \cup {"hex"}]
  BY <1>1 DEF TypeOK
<1>3. /\ phase = "idle" /\ UNCHANGED <<answer, memory, storage, writes, history>>
      /\ lastLedger' = lastLedger
      /\ \/ lastLedger = 0 /\ phase' = "latest" /\ start' = start
         \/ phase' = "events" /\ start' = lastLedger + 1
  BY DEF BeginPoll, memory
<1>4. PollInv'
  BY <1>3 DEF PollInv
<1> QED
  BY <1>2, <1>3, <1>4, QuietStep

\* Without a cursor it begins some ledgers before the latest.
LEMMA LatestLedgerStep ==
  ASSUME IInv, NEW ledger \in 1 .. latest, LatestLedger(ledger), UNCHANGED chainVars
  PROVE  IInv'
<1>1. TypeOK /\ PollInv
  BY DEF IInv
<1>2. /\ latest \in Nat
      /\ answer \in [next : Nat, last : Nat, upTo : Nat, form : Forms \cup {"hex"}]
  BY <1>1 DEF TypeOK
<1>3. /\ phase = "latest" /\ phase' = "events"
      /\ UNCHANGED <<answer, memory, storage, writes, history>>
      /\ lastLedger' = lastLedger
      /\ start' = SaturatingSub(ledger, Lookback)
  BY DEF LatestLedger, memory
<1>4. start' \in Nat
  BY <1>2, <1>3, IndexerAssumption DEF SaturatingSub
<1>5. PollInv'
  BY <1>1, <1>3 DEF PollInv
<1> QED
  BY <1>2, <1>3, <1>4, <1>5, QuietStep

\* A poll that fails leaves no trace.
LEMMA PollFailsStep ==
  ASSUME IInv, PollFails, UNCHANGED chainVars
  PROVE  IInv'
<1>1. answer \in [next : Nat, last : Nat, upTo : Nat, form : Forms \cup {"hex"}]
  BY DEF IInv, TypeOK
<1>2. /\ phase # "applying" /\ phase' = "idle" /\ start' = 0
      /\ UNCHANGED <<answer, memory, storage, writes, history>>
  BY DEF PollFails
<1>3. PollInv'
  BY <1>2 DEF PollInv
<1> QED
  BY <1>1, <1>2, <1>3, QuietStep

\* The answer begins with the first event of the ledger asked for and ends within
\* what the node has seen.
LEMMA GetEventsStep ==
  ASSUME IInv, NEW upTo \in 1 .. latest, NEW form \in Forms, GetEvents(upTo, form),
         UNCHANGED chainVars
  PROVE  IInv'
<1> DEFINE before == Cardinality({i \in Events : chain[i].ledger < start})
           seen == Cardinality({i \in Events : chain[i].ledger <= upTo})
           last == IF seen < before + 1 + Limit THEN seen ELSE before + 1 + Limit - 1
<1>1. TypeOK /\ ChainInv /\ PollInv
  BY DEF IInv
<1>2. latest \in Nat /\ start \in Nat /\ lastLedger \in Nat
  BY <1>1 DEF TypeOK
<1>3. /\ phase = "events" /\ phase' = "answered" /\ start <= upTo
      /\ UNCHANGED <<start, memory, storage, writes, history, chain, latest>>
      /\ answer' = [next |-> before + 1, upTo |-> upTo, form |-> form, last |-> last]
      /\ lastLedger' = lastLedger /\ Events' = Events
  BY DEF GetEvents, memory, chainVars, Events
<1>4. /\ before \in Nat /\ before <= Len(chain)
      /\ {i \in Events : chain[i].ledger < start} = 1 .. before
  BY <1>1, <1>2, Prefix
<1>5. /\ seen \in Nat /\ seen <= Len(chain)
      /\ {i \in Events : chain[i].ledger <= upTo} = 1 .. seen
  <2>1. upTo + 1 \in Nat
    BY <1>2
  <2>2. \A i \in Events : chain[i].ledger <= upTo <=> chain[i].ledger < upTo + 1
    BY <1>1, <1>2, ChainTyped
  <2>3. {i \in Events : chain[i].ledger <= upTo} = {i \in Events : chain[i].ledger < upTo + 1}
    BY <2>2
  <2> QED
    BY <1>1, <2>1, <2>3, Prefix
<1>6. \A i \in Events : i \in Nat /\ i >= 1 /\ chain[i].ledger \in Nat
  BY <1>1, ChainTyped
<1>7. \A i \in Events : i < before + 1 <=> chain[i].ledger < start
  <2> HIDE DEF before
  <2>1. \A i \in Events : i \in 1 .. before <=> i < before + 1
    BY <1>4, <1>6
  <2> QED
    BY <1>4, <2>1
<1>8. before <= seen
  <2> HIDE DEF before, seen
  <2>1. CASE before = 0
    BY <1>5, <2>1
  <2>2. CASE before # 0
    <3>1. before \in 1 .. before
      BY <1>4, <2>2
    <3>2. before \in Events /\ chain[before].ledger < start
      BY <1>4, <3>1
    <3>3. chain[before].ledger <= upTo
      BY <1>2, <1>3, <1>6, <3>2
    <3>4. before \in 1 .. seen
      BY <1>5, <3>2, <3>3
    <3> QED
      BY <1>5, <3>4
  <2> QED
    BY <2>1, <2>2
<1>9. Limit \in Nat /\ Limit >= 1
  BY IndexerAssumption
<1> HIDE DEF before, seen
<1>10. last \in Nat /\ last <= seen /\ before + 1 <= last + 1
  BY <1>4, <1>5, <1>8, <1>9
<1>11. \A i \in Events : i <= last => chain[i].ledger <= upTo
  <2>1. ASSUME NEW i \in Events, i <= last
        PROVE  i \in 1 .. seen
    BY <1>5, <1>6, <1>10, <2>1
  <2> QED
    BY <1>5, <2>1
<1>12. /\ answer'.next = before + 1 /\ answer'.upTo = upTo /\ answer'.last = last
       /\ answer' \in [next : Nat, last : Nat, upTo : Nat, form : Forms \cup {"hex"}]
  <2> HIDE DEF last
  <2> QED
    BY <1>2, <1>3, <1>4, <1>10
<1> HIDE DEF last
<1>13. Received'
  <2>1. Len(chain) \in Nat
    BY <1>1, ChainTyped
  <2> QED
    BY <1>3, <1>4, <1>5, <1>10, <1>11, <1>12, <2>1 DEF Received
<1>14. Answered'
  BY <1>2, <1>3, <1>7, <1>12 DEF Answered
<1>15. PollInv'
  BY <1>1, <1>3, <1>13, <1>14 DEF PollInv
<1> QED
  BY <1>2, <1>3, <1>12, <1>15, QuietStep DEF chainVars
-----------------------------------------------------------------------------
(***************************************************************************)
(* The answer is applied.                                                  *)
(***************************************************************************)

\* The types of what the steps below compare.
LEMMA Typed ==
  ASSUME TypeOK
  PROVE  /\ latest \in Nat /\ start \in Nat /\ lastLedger \in Nat /\ storedLedger \in Nat
         /\ since \in Nat /\ answer.next \in Nat /\ answer.last \in Nat
         /\ answer.upTo \in Nat /\ answer.form \in Forms \cup {"hex"}
         /\ Len(chain) \in Nat /\ Events = 1 .. Len(chain)
         /\ \A i \in Events : i \in Nat /\ chain[i].ledger \in Nat
         /\ Len(tree) \in Nat /\ restored \in Nat /\ restored <= Len(tree)
         /\ \A i \in Deposits : i \in Events
<1>1. answer \in [next : Nat, last : Nat, upTo : Nat, form : Forms \cup {"hex"}]
  BY DEF TypeOK
<1>2. tree \in Seq(Int) /\ restored \in 0 .. Len(tree)
  BY DEF TypeOK
<1>3. Len(tree) \in Nat /\ restored \in Nat /\ restored <= Len(tree)
  BY <1>2
<1>4. /\ Len(chain) \in Nat /\ Events = 1 .. Len(chain)
      /\ \A i \in Events : i \in Nat /\ chain[i].ledger \in Nat
  BY ChainTyped
<1> QED
  BY <1>1, <1>3, <1>4 DEF TypeOK, Deposits

\* The cursor moves: what the answer leaves out is missed from now on, and nothing
\* of what it holds was dealt with before.
LEMMA UpdateLastLedgerStep ==
  ASSUME IInv, UpdateLastLedger, UNCHANGED chainVars
  PROVE  IInv'
<1> DEFINE passed == {i \in Deposits : chain[i].ledger <= answer.upTo /\ answer.last < i}
<1>1. /\ TypeOK /\ ChainInv /\ CursorsBehind /\ PollInv /\ FreshInv /\ RootsInv
  BY DEF IInv
<1>2. /\ phase = "answered" /\ phase' = "applying" /\ lastLedger' = answer.upTo
      /\ writes' = writes \cup {CursorWrite(lastLedger')} \/ writes' = writes
      /\ since' = IF lastLedger = 0 THEN start ELSE since
      /\ missed' = missed \cup passed
      /\ UNCHANGED <<chain, latest, start, answer, tree, roots, database, rows,
                     storedLedger, boots, restored>>
  BY DEF UpdateLastLedger, Spawn, chainVars, storage, CursorAfter
<1>3. /\ latest \in Nat /\ start \in Nat /\ lastLedger \in Nat /\ storedLedger \in Nat
      /\ since \in Nat /\ answer.next \in Nat /\ answer.last \in Nat
      /\ answer.upTo \in Nat
      /\ \A i \in Events : i \in Nat /\ chain[i].ledger \in Nat
      /\ \A i \in Deposits : i \in Events
  BY <1>1, Typed
<1>4. /\ Events' = Events /\ Deposits' = Deposits /\ Fresh' = Fresh
      /\ \A k : DepositOf(k)' = DepositOf(k)
  BY <1>2 DEF Events, Deposits, IsDeposit, Fresh, DepositOf
<1>5. Received /\ Answered /\ (lastLedger # 0 => start = lastLedger + 1)
  BY <1>1, <1>2 DEF PollInv
<1>6. /\ start <= answer.upTo /\ answer.upTo <= latest
      /\ answer.next <= answer.last + 1
      /\ \A i \in Events : i < answer.next <=> chain[i].ledger < start
      /\ \A i \in Events : 1 <= chain[i].ledger
      /\ since <= lastLedger + 1
  BY <1>1, <1>5 DEF Received, Answered, ChainInv, CursorsBehind
<1>7. lastLedger <= lastLedger' /\ since' <= start
  BY <1>2, <1>3, <1>5, <1>6
<1>8. \A i \in missed : i \in Deposits /\ i \in Events /\ chain[i].ledger <= lastLedger
  BY <1>1, <1>3 DEF TypeOK, FreshInv
<1>9. \A i \in Events : chain[i].ledger <= lastLedger
        => lastLedger # 0 /\ since' = since /\ chain[i].ledger < start /\ i < answer.next
  BY <1>2, <1>3, <1>5, <1>6
<1>10. TypeOK'
  <2>1. missed' \subseteq Deposits'
    BY <1>2, <1>4, <1>8
  <2>2. \A w \in writes' : \/ w.kind = "row" /\ w.index \in Nat /\ w.word \in Int
                           \/ w.kind = "cursor" /\ w.ledger \in Nat
    BY <1>1, <1>2, <1>3 DEF TypeOK, CursorWrite
  <2>3. since' \in Nat /\ lastLedger' \in Nat
    BY <1>2, <1>3
  <2> QED
    BY <1>1, <1>2, <2>1, <2>2, <2>3 DEF TypeOK
<1>11. ChainInv'
  BY <1>1, <1>2, <1>4 DEF ChainInv
<1>12. CursorsBehind'
  <2>1. \A w \in writes' : w.kind = "cursor" => w.ledger <= latest
    BY <1>1, <1>2, <1>6 DEF CursorsBehind, CursorWrite
  <2>2. since' <= lastLedger' + 1
    BY <1>2, <1>3, <1>6, <1>7
  <2> QED
    BY <1>1, <1>2, <1>6, <2>1, <2>2 DEF CursorsBehind
<1>13. PollInv'
  <2>1. Received'
    BY <1>2, <1>4, <1>5 DEF Received
  <2>2. \A i \in Events : answer.next <= i => start <= chain[i].ledger
    BY <1>3, <1>6
  <2>3. \A i \in missed' : i < answer.next \/ answer.last < i
    BY <1>2, <1>8, <1>9
  <2>4. Applying'
    BY <1>2, <1>4, <1>6, <1>7, <2>2, <2>3 DEF Applying
  <2> QED
    BY <1>2, <2>1, <2>4 DEF PollInv
<1>14. FreshInv'
  <2>1. \A i \in missed' : chain'[i].ledger <= lastLedger'
    BY <1>2, <1>3, <1>7, <1>8
  <2>2. ASSUME NEW i \in Events
        PROVE  Done(i)' <=> Done(i)
    <3>1. ASSUME Done(i)
          PROVE  Done(i)'
      BY <1>2, <1>3, <1>7, <1>9, <3>1 DEF Done
    <3>2. ASSUME Done(i)'
          PROVE  Done(i)
      <4>1. since' <= chain[i].ledger /\ i < answer.next
        BY <1>2, <3>2 DEF Done
      <4>2. chain[i].ledger < start
        BY <1>6, <4>1
      <4>3. lastLedger # 0
        BY <1>2, <1>3, <4>1, <4>2
      <4> QED
        BY <1>2, <1>3, <1>5, <4>1, <4>2, <4>3 DEF Done
    <3> QED
      BY <3>1, <3>2
  <2>3. \A i \in Events : Done(i) => i \notin passed
    BY <1>3, <1>6, <1>9 DEF Done
  <2> HIDE DEF passed
  <2>4. /\ \A k \in Fresh : DepositOf(k) \in Deposits /\ Done(DepositOf(k))
                              /\ DepositOf(k) \notin missed
        /\ \A i \in Deposits : Done(i) /\ i \notin missed => \E k \in Fresh : DepositOf(k) = i
        /\ \A j, k \in Fresh : j < k => DepositOf(j) < DepositOf(k)
    BY <1>1 DEF FreshInv
  <2>5. \A k \in Fresh' : DepositOf(k)' \in Deposits' /\ Done(DepositOf(k))'
                            /\ DepositOf(k)' \notin missed'
    <3>1. ASSUME NEW k \in Fresh
          PROVE  /\ DepositOf(k)' = DepositOf(k) /\ DepositOf(k) \in Deposits
                 /\ DepositOf(k) \notin missed' /\ Done(DepositOf(k))'
      <4>1. DepositOf(k)' = DepositOf(k) /\ DepositOf(k) \in Deposits
        BY <1>4, <2>4
      <4>2. DepositOf(k) \in Events /\ Done(DepositOf(k)) /\ DepositOf(k) \notin missed
        BY <1>3, <2>4
      <4>3. DepositOf(k) \notin missed'
        BY <1>2, <2>3, <4>2
      <4>4. \A i \in Events : Done(i) =>
              since' <= chain[i].ledger /\ chain[i].ledger <= lastLedger' /\ i < answer.next
        BY <1>2, <1>3, <1>7, <1>9 DEF Done
      <4> QED
        BY <1>2, <4>1, <4>2, <4>3, <4>4 DEF Done
    <3> QED
      BY <1>4, <3>1
  <2>6. \A i \in Deposits' : Done(i)' /\ i \notin missed' => \E k \in Fresh' : DepositOf(k)' = i
    BY <1>2, <1>3, <1>4, <2>2, <2>4
  <2>7. \A j, k \in Fresh' : j < k => DepositOf(j)' < DepositOf(k)'
    BY <1>4, <2>4
  <2> QED
    BY <2>1, <2>5, <2>6, <2>7 DEF FreshInv
<1>15. RootsInv'
  BY <1>1, <1>2 DEF RootsInv
<1> QED
  BY <1>10, <1>11, <1>12, <1>13, <1>14, <1>15 DEF IInv

\* An event is handled: it is the next leaf, or missed, or no deposit at all.
LEMMA HandleEventStep ==
  ASSUME IInv, HandleEvent, UNCHANGED chainVars
  PROVE  IInv'
<1> DEFINE e == answer.next
           word == ExtractCommitment(answer.form, e)
           n == Len(tree)
<1>1. /\ TypeOK /\ ChainInv /\ CursorsBehind /\ PollInv /\ FreshInv /\ RootsInv
  BY DEF IInv
<1>2. /\ phase = "applying" /\ e <= answer.last
      /\ answer' = [answer EXCEPT !.next = @ + 1]
      /\ \/ IsDeposit(e) /\ word # None /\ InsertCommitment(word) /\ missed' = missed
         \/ /\ missed' = IF IsDeposit(e) THEN missed \cup {e} ELSE missed
            /\ UNCHANGED <<tree, roots, writes>>
      /\ UNCHANGED <<chain, latest, phase, start, lastLedger, database, rows,
                     storedLedger, boots, restored, since>>
  BY DEF HandleEvent, IsDepositEvent, chainVars, storage
<1>3. /\ latest \in Nat /\ start \in Nat /\ lastLedger \in Nat /\ storedLedger \in Nat
      /\ since \in Nat /\ e \in Nat /\ answer.last \in Nat /\ answer.upTo \in Nat
      /\ answer.form \in Forms \cup {"hex"}
      /\ Len(chain) \in Nat /\ Events = 1 .. Len(chain)
      /\ \A i \in Events : i \in Nat /\ chain[i].ledger \in Nat
      /\ n \in Nat /\ restored \in Nat /\ restored <= n
      /\ \A i \in Deposits : i \in Events
  BY <1>1, Typed
<1>4. Received /\ Applying
  BY <1>1, <1>2 DEF PollInv
<1>5. /\ e >= 1 /\ e \in Events
      /\ start <= chain[e].ledger /\ since <= chain[e].ledger /\ chain[e].ledger <= lastLedger
      /\ e \notin missed
  <2>1. e >= 1 /\ e \in Events
    BY <1>2, <1>3, <1>4 DEF Received
  <2>2. chain[e].ledger <= lastLedger /\ start <= chain[e].ledger /\ since <= start
    BY <1>2, <1>3, <1>4, <2>1 DEF Received, Applying
  <2>3. \A i \in missed : i \in Events /\ (i < e \/ answer.last < i)
    BY <1>1, <1>3, <1>4 DEF TypeOK, Applying
  <2>4. e \notin missed
    BY <1>2, <1>3, <2>3
  <2> QED
    BY <1>3, <2>1, <2>2, <2>4
<1>6. /\ answer' \in [next : Nat, last : Nat, upTo : Nat, form : Forms \cup {"hex"}]
      /\ answer'.next = e + 1 /\ answer'.last = answer.last /\ answer'.upTo = answer.upTo
  <2>1. answer \in [next : Nat, last : Nat, upTo : Nat, form : Forms \cup {"hex"}]
    BY <1>1 DEF TypeOK
  <2> QED
    BY <1>2, <2>1
<1>7. Events' = Events /\ Deposits' = Deposits
  BY <1>2 DEF Events, Deposits, IsDeposit
<1>8. /\ missed' \subseteq Deposits
      /\ \A i \in missed' : i \in missed \/ (i = e /\ IsDeposit(e) /\ tree' = tree)
      /\ missed \subseteq missed'
  BY <1>1, <1>2, <1>5 DEF TypeOK, Deposits
<1>9. IsDeposit(e) /\ tree' = tree => e \in missed'
  <2>1. ASSUME InsertCommitment(word)
        PROVE  tree' # tree
    <3>1. tree \in Seq(Int) /\ word \in Int
      BY <1>1, <1>3, IndexerAssumption
         DEF TypeOK, ExtractCommitment, Garbled, None
    <3>2. tree' = Append(tree, word)
      BY <2>1 DEF InsertCommitment
    <3>3. Len(Append(tree, word)) = n + 1
      <4> HIDE DEF word
      <4> QED
        BY <3>1
    <3> QED
      BY <1>3, <3>2, <3>3
  <2> QED
    BY <1>2, <2>1
<1>10. ASSUME InsertCommitment(word), word # None
       PROVE  /\ tree' \in Seq(Int) /\ Len(tree') = n + 1
              /\ \A k \in 1 .. n : tree'[k] = tree[k]
              /\ tree'[n + 1] = word /\ word \in {e, -e}
              /\ roots' = Append(roots, n + 1)
              /\ writes' = writes \cup {RowWrite(n, word)} \/ writes' = writes
  <2>1. tree \in Seq(Int) /\ word \in {e, -e} /\ word \in Int
    BY <1>1, <1>3, <1>10, IndexerAssumption
       DEF TypeOK, ExtractCommitment, Garbled, None
  <2>2. /\ tree' = Append(tree, word) /\ roots' = Append(roots, n + 1)
        /\ writes' = writes \cup {RowWrite(n, word)} \/ writes' = writes
    BY <1>10 DEF InsertCommitment, Spawn
  <2> HIDE DEF word
  <2> QED
    BY <2>1, <2>2
<1> HIDE DEF e, word, n
<1>11. TypeOK'
  <2>1. CASE UNCHANGED <<tree, roots, writes>>
    BY <1>1, <1>2, <1>6, <1>7, <1>8, <2>1 DEF TypeOK
  <2>2. CASE InsertCommitment(word) /\ word # None /\ missed' = missed
    <3>1. restored \in 0 .. Len(tree')
      BY <1>3, <1>10, <2>2
    <3>2. roots' \in Seq(Nat)
      <4>1. roots \in Seq(Nat) /\ n + 1 \in Nat
        BY <1>1, <1>3 DEF TypeOK
      <4>2. roots' = Append(roots, n + 1)
        BY <1>10, <2>2
      <4> QED
        BY <4>1, <4>2
    <3>3. \A w \in writes' : \/ w.kind = "row" /\ w.index \in Nat /\ w.word \in Int
                             \/ w.kind = "cursor" /\ w.ledger \in Nat
      <4>1. PICK row : row = RowWrite(n, word)
        OBVIOUS
      <4>2. row.kind = "row" /\ row.index = n /\ row.word = word
        BY <4>1 DEF RowWrite
      <4>3. n \in Nat /\ word \in Int
        BY <1>3, <1>10, <2>2
      <4>4. writes' = writes \cup {row} \/ writes' = writes
        BY <1>10, <2>2, <4>1
      <4>5. \A w \in writes :
              \/ w.kind = "row" /\ w.index \in Nat /\ w.word \in Int
              \/ w.kind = "cursor" /\ w.ledger \in Nat
        BY <1>1 DEF TypeOK
      <4> QED
        BY <4>2, <4>3, <4>4, <4>5
    <3> QED
      BY <1>1, <1>2, <1>6, <1>7, <1>8, <1>10, <2>2, <3>1, <3>2, <3>3 DEF TypeOK
  <2> QED
    BY <1>2, <2>1, <2>2
<1>12. ChainInv'
  BY <1>1, <1>2, <1>7 DEF ChainInv
<1>13. CursorsBehind'
  <2>1. \A w \in writes' : w.kind = "cursor" => w.ledger <= latest
    BY <1>1, <1>2, <1>10 DEF CursorsBehind, RowWrite
  <2> QED
    BY <1>1, <1>2, <2>1 DEF CursorsBehind
<1>14. PollInv'
  <2>1. Received'
    BY <1>2, <1>3, <1>4, <1>5, <1>6, <1>7 DEF Received
  <2>2. \A i \in Events : e + 1 <= i => e <= i
    BY <1>3
  <2>3. \A i \in Events : e + 1 <= i => start <= chain[i].ledger
    BY <1>4, <2>2 DEF Applying, e
  <2>4. \A i \in Deposits : chain[i].ledger <= lastLedger /\ answer.last < i => i \in missed'
    BY <1>4, <1>8 DEF Applying
  <2>5. \A i \in missed' : i < e + 1 \/ answer.last < i
    <3>1. \A i \in missed : i \in Events /\ (i < e \/ answer.last < i)
      BY <1>1, <1>3, <1>4 DEF TypeOK, Applying, e
    <3> QED
      BY <1>3, <1>8, <3>1
  <2>6. Applying'
    BY <1>2, <1>4, <1>6, <1>7, <2>3, <2>4, <2>5 DEF Applying
  <2> QED
    BY <1>2, <2>1, <2>6 DEF PollInv
<1>15. \A i \in Events : Done(i)' <=> Done(i) \/ i = e
  <2>1. \A i \in Events : Done(i) <=> since <= chain[i].ledger /\ chain[i].ledger <= lastLedger /\ i < e
    BY <1>2 DEF Done, e
  <2>2. \A i \in Events : Done(i)' <=>
          since <= chain[i].ledger /\ chain[i].ledger <= lastLedger /\ i < e + 1
    BY <1>2, <1>6 DEF Done
  <2>3. \A i \in Events : i < e + 1 <=> i < e \/ i = e
    BY <1>3
  <2> QED
    BY <1>5, <2>1, <2>2, <2>3
<1>16. \A i \in Events : Done(i) => i < e
  BY <1>2 DEF Done, e
<1>17. /\ \A i \in missed : chain[i].ledger <= lastLedger
       /\ \A k \in Fresh : DepositOf(k) \in Deposits /\ Done(DepositOf(k))
                             /\ DepositOf(k) \notin missed
       /\ \A i \in Deposits : Done(i) /\ i \notin missed => \E k \in Fresh : DepositOf(k) = i
       /\ \A j, k \in Fresh : j < k => DepositOf(j) < DepositOf(k)
  BY <1>1 DEF FreshInv
<1>18. \A k \in Fresh : k \in 1 .. n
  BY <1>3 DEF Fresh, n
<1>19. \A i \in missed' : chain'[i].ledger <= lastLedger'
  BY <1>2, <1>5, <1>8, <1>17
<1>20. FreshInv'
  <2>1. CASE tree' = tree
    <3>1. Fresh' = Fresh /\ \A k : DepositOf(k)' = DepositOf(k)
      BY <1>2, <2>1 DEF Fresh, DepositOf
    <3>2. \A k \in Fresh : DepositOf(k) \in Events /\ DepositOf(k) # e
      <4>1. \A k \in Fresh : DepositOf(k) \in Events /\ DepositOf(k) < e
        BY <1>3, <1>16, <1>17
      <4> QED
        BY <1>3, <4>1
    <3>3. \A k \in Fresh' : DepositOf(k)' \in Deposits' /\ Done(DepositOf(k))'
                              /\ DepositOf(k)' \notin missed'
      <4>1. ASSUME NEW k \in Fresh
            PROVE  DepositOf(k) \in Deposits /\ DepositOf(k) \notin missed'
                     /\ Done(DepositOf(k))'
        <5>1. DepositOf(k) \in Events /\ Done(DepositOf(k))
          BY <1>17, <3>2
        <5>2. DepositOf(k)' = DepositOf(k)
          BY <3>1
        <5>3. \A i \in Events : Done(i) => /\ since' <= chain'[i].ledger
                                           /\ chain'[i].ledger <= lastLedger'
                                           /\ phase' = "applying" => i < answer'.next
          BY <1>15 DEF Done
        <5> QED
          BY <1>8, <1>17, <3>2, <5>1, <5>2, <5>3 DEF Done
      <4> QED
        BY <1>7, <3>1, <4>1
    <3>4. \A i \in Deposits' : Done(i)' /\ i \notin missed' => \E k \in Fresh' : DepositOf(k)' = i
      <4>1. ASSUME NEW i \in Deposits, Done(i)', i \notin missed'
            PROVE  \E k \in Fresh : DepositOf(k) = i
        <5>1. i # e
          BY <1>9, <2>1, <4>1 DEF Deposits
        <5> QED
          BY <1>3, <1>8, <1>15, <1>17, <4>1, <5>1
      <4> QED
        BY <1>7, <3>1, <4>1
    <3>5. \A j, k \in Fresh' : j < k => DepositOf(j)' < DepositOf(k)'
      BY <1>17, <3>1
    <3> QED
      BY <1>19, <3>3, <3>4, <3>5 DEF FreshInv
  <2>2. CASE InsertCommitment(word) /\ word # None /\ IsDeposit(e) /\ missed' = missed
    <3>0. PICK m \in Nat : m = n + 1
      BY <1>3
    <3>1. /\ Fresh' = Fresh \cup {m} /\ m \notin Fresh
          /\ \A k \in Fresh : DepositOf(k)' = DepositOf(k)
          /\ DepositOf(m)' = e
      <4>1. Fresh = restored + 1 .. n /\ Fresh' = restored + 1 .. n + 1
        BY <1>2, <1>10, <2>2 DEF Fresh, n
      <4>2. Fresh' = Fresh \cup {m} /\ m \notin Fresh
        BY <1>3, <3>0, <4>1
      <4>3. \A k \in Fresh : DepositOf(k)' = DepositOf(k)
        BY <1>10, <1>18, <2>2 DEF DepositOf
      <4>4. DepositOf(m)' = e
        <5>1. tree'[m] \in {e, -e}
          BY <1>10, <2>2, <3>0
        <5> QED
          BY <1>3, <1>5, <5>1 DEF DepositOf
      <4> QED
        BY <4>2, <4>3, <4>4
    <3>2. \A k \in Fresh : DepositOf(k) \in Events /\ DepositOf(k) < e
      BY <1>3, <1>16, <1>17
    <3>3. e \in Deposits /\ e \notin missed'
      BY <1>5, <2>2 DEF Deposits
    <3>4. \A i \in Events : Done(i) \/ i = e => /\ since' <= chain'[i].ledger
                                                /\ chain'[i].ledger <= lastLedger'
                                                /\ phase' = "applying" => i < answer'.next
      BY <1>15 DEF Done
    <3>5. \A k \in Fresh' : DepositOf(k)' \in Deposits' /\ Done(DepositOf(k))'
                              /\ DepositOf(k)' \notin missed'
      <4>1. ASSUME NEW k \in Fresh
            PROVE  DepositOf(k)' \in Deposits /\ DepositOf(k)' \notin missed'
                     /\ Done(DepositOf(k))'
        <5>1. DepositOf(k)' = DepositOf(k) /\ DepositOf(k) \in Events
                /\ Done(DepositOf(k)) /\ DepositOf(k) \in Deposits /\ DepositOf(k) \notin missed
          BY <1>17, <3>1, <3>2
        <5> QED
          BY <2>2, <3>4, <5>1 DEF Done
      <4>2. DepositOf(m)' \in Deposits /\ DepositOf(m)' \notin missed'
                     /\ Done(DepositOf(m))'
        <5>1. DepositOf(m)' = e
          BY <3>1
        <5> QED
          BY <1>5, <3>3, <3>4, <5>1 DEF Done
      <4> QED
        BY <1>7, <3>1, <4>1, <4>2
    <3>6. \A i \in Deposits' : Done(i)' /\ i \notin missed' => \E k \in Fresh' : DepositOf(k)' = i
      <4>1. ASSUME NEW i \in Deposits, Done(i)', i \notin missed'
            PROVE  \E k \in Fresh' : DepositOf(k)' = i
        <5>1. CASE i = e
          BY <3>1, <5>1
        <5>2. CASE i # e
          BY <1>3, <1>8, <1>15, <1>17, <3>1, <4>1, <5>2
        <5> QED
          BY <5>1, <5>2
      <4> QED
        BY <1>7, <4>1
    <3>7. \A j, k \in Fresh' : j < k => DepositOf(j)' < DepositOf(k)'
      <4>1. \A k \in Fresh : ~(m < k)
        BY <1>3, <1>18, <3>0
      <4>2. ~(m < m)
        BY <1>3, <3>0
      <4> QED
        BY <1>17, <3>1, <3>2, <4>1, <4>2
    <3> QED
      BY <1>19, <3>5, <3>6, <3>7 DEF FreshInv
  <2> QED
    BY <1>2, <2>1, <2>2
<1>21. RootsInv'
  <2>1. CASE UNCHANGED <<tree, roots, writes>>
    BY <1>1, <1>2, <2>1 DEF RootsInv
  <2>2. CASE InsertCommitment(word) /\ word # None
    <3>1. roots \in Seq(Nat) /\ Len(roots) = n - restored + 1
      BY <1>1 DEF TypeOK, RootsInv, n
    <3>2. /\ roots' = Append(roots, n + 1) /\ Len(tree') = n + 1
          /\ Len(roots) \in Nat
      BY <1>10, <2>2, <3>1
    <3>3. /\ Len(roots') = Len(roots) + 1
          /\ \A k \in 1 .. Len(roots) : roots'[k] = roots[k]
          /\ roots'[Len(roots) + 1] = n + 1
      BY <1>3, <3>1, <3>2
    <3>4. \A k \in 1 .. Len(roots) : roots[k] = IF k = 1 THEN 0 ELSE restored + k - 1
      BY <1>1 DEF RootsInv
    <3>5. Len(roots') = Len(tree') - restored' + 1
      BY <1>2, <1>3, <3>1, <3>2, <3>3
    <3>6. \A k \in 1 .. Len(roots') : k \in 1 .. Len(roots) \/ k = Len(roots) + 1
      BY <3>2, <3>3
    <3>7. /\ Len(roots) + 1 # 1
          /\ n + 1 = restored + (Len(roots) + 1) - 1
      BY <1>3, <3>1, <3>2
    <3>8. \A k \in 1 .. Len(roots') :
            roots'[k] = IF k = 1 THEN 0 ELSE restored' + k - 1
      BY <1>2, <3>3, <3>4, <3>6, <3>7
    <3> QED
      BY <3>5, <3>8 DEF RootsInv
  <2> QED
    BY <1>2, <2>1, <2>2
<1> QED
  BY <1>11, <1>12, <1>13, <1>14, <1>20, <1>21 DEF IInv

\* A poll ends: all of its answer is dealt with.
LEMMA EndPollStep ==
  ASSUME IInv, EndPoll, UNCHANGED chainVars
  PROVE  IInv'
<1>1. /\ TypeOK /\ ChainInv /\ CursorsBehind /\ PollInv /\ FreshInv /\ RootsInv
  BY DEF IInv
<1>2. /\ phase = "applying" /\ answer.last < answer.next
      /\ phase' = "idle" /\ start' = 0 /\ answer' = NoAnswer
      /\ UNCHANGED <<chain, latest, tree, lastLedger, roots, database, rows,
                     storedLedger, writes, boots, restored, since, missed>>
  BY DEF EndPoll, chainVars, memory, storage, history
<1>3. /\ answer.next \in Nat /\ answer.last \in Nat
      /\ \A i \in Events : i \in Nat
      /\ \A i \in Deposits : i \in Events
  BY <1>1, Typed
<1>4. Events' = Events /\ Deposits' = Deposits
  BY <1>2 DEF Events, Deposits, IsDeposit
<1>5. TypeOK'
  BY <1>1, <1>2, <1>4 DEF TypeOK, NoAnswer
<1>6. ChainInv' /\ CursorsBehind' /\ PollInv' /\ RootsInv'
  BY <1>1, <1>2, <1>4 DEF ChainInv, CursorsBehind, PollInv, RootsInv
<1>7. FreshInv'
  <2>1. Fresh' = Fresh /\ \A k : DepositOf(k)' = DepositOf(k)
    BY <1>2 DEF Fresh, DepositOf
  <2>2. \A i \in Deposits : i \notin missed /\ chain[i].ledger <= lastLedger => i < answer.next
    <3>1. \A i \in Deposits : i < answer.next \/ answer.last < i
      BY <1>2, <1>3
    <3>2. Applying
      BY <1>1, <1>2 DEF PollInv
    <3> QED
      BY <3>1, <3>2 DEF Applying
  <2>3. \A i \in Deposits : Done(i)' /\ i \notin missed => Done(i)
    BY <1>2, <2>2 DEF Done
  <2>4. \A i \in Deposits : Done(i) => /\ since' <= chain'[i].ledger
                                       /\ chain'[i].ledger <= lastLedger'
    BY <1>2 DEF Done
  <2>5. \A k \in Fresh' : DepositOf(k)' \in Deposits' /\ Done(DepositOf(k))'
                            /\ DepositOf(k)' \notin missed'
    <3>1. ASSUME NEW k \in Fresh
          PROVE  DepositOf(k)' \in Deposits' /\ Done(DepositOf(k))' /\ DepositOf(k)' \notin missed'
      <4>1. /\ DepositOf(k)' = DepositOf(k) /\ DepositOf(k) \in Deposits
            /\ Done(DepositOf(k)) /\ DepositOf(k) \notin missed
        BY <1>1, <2>1 DEF FreshInv
      <4> QED
        BY <1>2, <1>4, <2>4, <4>1 DEF Done
    <3> QED
      BY <2>1, <3>1
  <2> QED
    BY <1>1, <1>2, <1>4, <2>1, <2>3, <2>5 DEF FreshInv
<1> QED
  BY <1>5, <1>6, <1>7 DEF IInv
-----------------------------------------------------------------------------
(***************************************************************************)
(* The process and the database.                                           *)
(***************************************************************************)

\* A process that has inserted nothing and passed no ledger owes nothing.
LEMMA NothingFresh ==
  ASSUME TypeOK, ChainInv, UNCHANGED <<chain, latest>>,
         phase' \in {"down", "idle"}, missed' = {},
         Len(roots') = 1, roots'[1] = 0,
         Len(tree') \in Nat, restored' = Len(tree'), lastLedger' \in Nat,
         since' = lastLedger' + 1 \/ lastLedger' = 0
  PROVE  FreshInv' /\ RootsInv' /\ PollInv'
<1>1. Events' = Events /\ Deposits' = Deposits
  BY DEF Events, Deposits, IsDeposit
<1>2. \A i \in Deposits : i \in Events /\ chain[i].ledger \in Nat /\ 1 <= chain[i].ledger
  BY Typed DEF ChainInv
<1>3. Fresh' = {}
  BY DEF Fresh
<1>4. \A i \in Deposits : ~(since' <= chain'[i].ledger /\ chain'[i].ledger <= lastLedger')
  BY <1>2
<1>5. FreshInv'
  BY <1>1, <1>3, <1>4 DEF FreshInv, Done
<1>6. RootsInv'
  BY DEF RootsInv
<1>7. PollInv'
  BY DEF PollInv
<1> QED
  BY <1>5, <1>6, <1>7

\* A process starts with what the database gives it, or with nothing.
LEMMA BootStep ==
  ASSUME IInv, NEW connected \in BOOLEAN, NEW commitmentsRead \in BOOLEAN,
         NEW cursorRead \in BOOLEAN, Boot(connected, commitmentsRead, cursorRead),
         UNCHANGED chainVars
  PROVE  IInv'
<1>1. /\ TypeOK /\ ChainInv /\ CursorsBehind
  BY DEF IInv
<1>2. /\ phase' = "idle" /\ boots' = boots + 1 /\ database' = connected
      /\ tree' = IF connected /\ commitmentsRead THEN GetAllCommitments ELSE <<>>
      /\ lastLedger' = IF connected /\ cursorRead THEN storedLedger ELSE 0
      /\ roots' = <<0>> /\ restored' = Len(tree') /\ since' = lastLedger' + 1
      /\ missed' = {}
      /\ UNCHANGED <<chain, latest, start, answer, rows, storedLedger, writes>>
  BY DEF Boot, chainVars, storage
<1>3. tree' \in Seq(Int) /\ Len(tree') \in Nat
  <2>1. GetAllCommitments \in Seq(Int)
    BY <1>1, ReadBack DEF CursorsBehind
  <2>2. tree' \in Seq(Int)
    BY <1>2, <2>1
  <2> QED
    BY <2>2
<1>4. lastLedger' \in Nat /\ since' \in Nat /\ lastLedger' <= latest /\ boots' \in Nat
  BY <1>1, <1>2 DEF TypeOK, CursorsBehind, ChainInv
<1>5. Events' = Events /\ Deposits' = Deposits
  BY <1>2 DEF Events, Deposits, IsDeposit
<1>6. TypeOK'
  <2>1. restored' \in 0 .. Len(tree')
    BY <1>2, <1>3
  <2>2. roots' \in Seq(Nat) /\ missed' \subseteq Deposits'
    BY <1>2
  <2> QED
    BY <1>1, <1>2, <1>3, <1>4, <2>1, <2>2 DEF TypeOK
<1>7. ChainInv' /\ CursorsBehind'
  BY <1>1, <1>2, <1>4, <1>5 DEF ChainInv, CursorsBehind
<1>8. FreshInv' /\ RootsInv' /\ PollInv'
  BY <1>1, <1>2, <1>3, <1>4, NothingFresh
<1> QED
  BY <1>6, <1>7, <1>8 DEF IInv

\* A crash takes the memory with it.
LEMMA CrashStep ==
  ASSUME IInv, Crash, UNCHANGED chainVars
  PROVE  IInv'
<1>1. /\ TypeOK /\ ChainInv /\ CursorsBehind
  BY DEF IInv
<1>2. /\ phase' = "down" /\ start' = 0 /\ answer' = NoAnswer /\ tree' = <<>>
      /\ lastLedger' = 0 /\ roots' = <<0>> /\ database' = FALSE /\ writes' = {}
      /\ restored' = 0 /\ since' = 0 /\ missed' = {}
      /\ UNCHANGED <<chain, latest, boots, rows, storedLedger>>
  BY DEF Crash, chainVars, storage
<1>3. Events' = Events /\ Deposits' = Deposits /\ Len(tree') = 0 /\ tree' \in Seq(Int)
  BY <1>2 DEF Events, Deposits, IsDeposit
<1>4. TypeOK'
  <2>1. restored' \in 0 .. Len(tree') /\ roots' \in Seq(Nat)
    BY <1>2, <1>3
  <2>2. answer' \in [next : Nat, last : Nat, upTo : Nat, form : Forms \cup {"hex"}]
    BY <1>2 DEF NoAnswer
  <2>3. missed' \subseteq Deposits' /\ \A w \in writes' : FALSE
    BY <1>2
  <2> QED
    BY <1>1, <1>2, <1>3, <2>1, <2>2, <2>3 DEF TypeOK
<1>5. ChainInv' /\ CursorsBehind'
  BY <1>1, <1>2, <1>3 DEF ChainInv, CursorsBehind, TypeOK
<1>6. FreshInv' /\ RootsInv' /\ PollInv'
  BY <1>1, <1>2, <1>3, NothingFresh
<1> QED
  BY <1>4, <1>5, <1>6 DEF IInv

\* A write reaches the database or fails; the memory does not know.
LEMMA WriteStep ==
  ASSUME IInv, NEW w \in writes, Persist(w) \/ PersistFails(w), UNCHANGED chainVars
  PROVE  IInv'
<1>1. /\ TypeOK /\ ChainInv /\ CursorsBehind /\ PollInv /\ FreshInv /\ RootsInv
  BY DEF IInv
<1>2. /\ writes' \subseteq writes
      /\ UNCHANGED <<chain, latest, phase, start, answer, tree, lastLedger, roots,
                     database, boots, restored, since, missed>>
  BY DEF Persist, PersistFails, chainVars, memory, history
<1>3. \/ /\ w.kind = "row" /\ storedLedger' = storedLedger
         /\ \/ rows' = rows
            \/ rows' = [i \in DOMAIN rows \cup {w.index} |->
                          IF i = w.index THEN w.word ELSE rows[i]]
      \/ w.kind = "cursor" /\ storedLedger' = w.ledger /\ rows' = rows
      \/ storedLedger' = storedLedger /\ rows' = rows
  BY DEF Persist, PersistFails, storage
<1>4. /\ w.kind = "row" => w.index \in Nat /\ w.word \in Int
      /\ w.kind = "cursor" => w.ledger \in Nat /\ w.ledger <= latest
  BY <1>1 DEF TypeOK, CursorsBehind
<1>5. Events' = Events /\ Deposits' = Deposits
  BY <1>2 DEF Events, Deposits, IsDeposit
<1>6. rows' \in [DOMAIN rows' -> Int] /\ DOMAIN rows' \subseteq Nat
  BY <1>1, <1>3, <1>4 DEF TypeOK
<1>7. IsFiniteSet(DOMAIN rows')
  <2>1. IsFiniteSet(DOMAIN rows) /\ IsFiniteSet(DOMAIN rows \cup {w.index})
    BY <1>1, FS_AddElement DEF CursorsBehind
  <2>2. DOMAIN rows' = DOMAIN rows \/ DOMAIN rows' = DOMAIN rows \cup {w.index}
    BY <1>3
  <2> QED
    BY <2>1, <2>2
<1>8. storedLedger' \in Nat /\ storedLedger' <= latest
  BY <1>1, <1>3, <1>4 DEF TypeOK, CursorsBehind
<1>9. TypeOK'
  BY <1>1, <1>2, <1>5, <1>6, <1>8 DEF TypeOK
<1>10. ChainInv' /\ CursorsBehind'
  BY <1>1, <1>2, <1>5, <1>7, <1>8 DEF ChainInv, CursorsBehind
<1>11. PollInv'
  BY <1>1, <1>2, <1>5 DEF PollInv, Received, Answered, Applying
<1>12. FreshInv' /\ RootsInv'
  BY <1>1, <1>2, <1>5 DEF FreshInv, RootsInv, Fresh, DepositOf, Done
<1> QED
  BY <1>9, <1>10, <1>11, <1>12 DEF IInv
-----------------------------------------------------------------------------
LEMMA IInvInit == Init => IInv
<1> SUFFICES ASSUME Init PROVE IInv
  OBVIOUS
<1>1. Events = {} /\ Deposits = {} /\ Fresh = {} /\ DOMAIN rows = {}
  BY DEF Init, Events, Deposits, Fresh
<1>2. TypeOK
  <2>1. /\ chain \in Seq([ledger : Nat, topic : {"deposit", "withdrawal"}])
        /\ tree \in Seq(Int) /\ roots \in Seq(Nat) /\ restored \in 0 .. Len(tree)
    BY DEF Init
  <2>2. rows \in [DOMAIN rows -> Int]
    BY <1>1 DEF Init
  <2> QED
    BY <1>1, <2>1, <2>2 DEF TypeOK, Init, NoAnswer
<1>3. ChainInv
  BY <1>1 DEF Init, ChainInv
<1>4. CursorsBehind
  BY <1>1, FS_EmptySet DEF Init, CursorsBehind
<1>5. PollInv /\ FreshInv /\ RootsInv
  BY <1>1 DEF Init, PollInv, FreshInv, RootsInv
<1> QED
  BY <1>2, <1>3, <1>4, <1>5 DEF IInv

LEMMA IInvStutter == IInv /\ UNCHANGED vars => IInv'
<1> SUFFICES ASSUME IInv, UNCHANGED vars PROVE IInv'
  OBVIOUS
<1>1. /\ TypeOK /\ ChainInv /\ CursorsBehind /\ PollInv /\ FreshInv /\ RootsInv
      /\ UNCHANGED <<chain, latest, phase, start, answer, tree, lastLedger, roots,
                     database, rows, storedLedger, writes, boots, restored, since, missed>>
  BY DEF IInv, vars, chainVars, memory, storage, history
<1>2. Events' = Events /\ Deposits' = Deposits
  BY <1>1 DEF Events, Deposits, IsDeposit
<1>3. TypeOK' /\ ChainInv' /\ CursorsBehind'
  BY <1>1, <1>2 DEF TypeOK, ChainInv, CursorsBehind
<1>4. PollInv'
  BY <1>1, <1>2 DEF PollInv, Received, Answered, Applying
<1>5. FreshInv' /\ RootsInv'
  BY <1>1, <1>2 DEF FreshInv, RootsInv, Fresh, DepositOf, Done
<1> QED
  BY <1>3, <1>4, <1>5 DEF IInv

LEMMA IInvStep == IInv /\ [Next]_vars => IInv'
<1> SUFFICES ASSUME IInv, [Next]_vars PROVE IInv'
  OBVIOUS
<1>1. CASE UNCHANGED vars
  BY <1>1, IInvStutter
<1>2. CASE (CloseLedger \/ \E topic \in {"deposit", "withdrawal"} : Publish(topic))
             /\ UNCHANGED <<phase, start, answer, memory, storage, writes, history>>
  BY <1>2, CloseLedgerStep, PublishStep
<1>3. CASE Listen /\ UNCHANGED chainVars
  BY <1>3, BeginPollStep, LatestLedgerStep, PollFailsStep, GetEventsStep,
     UpdateLastLedgerStep, HandleEventStep, EndPollStep DEF Listen
<1>4. CASE Crash /\ UNCHANGED chainVars
  BY <1>4, CrashStep
<1>5. CASE /\ \E connected, commitmentsRead, cursorRead \in BOOLEAN :
                Boot(connected, commitmentsRead, cursorRead)
           /\ UNCHANGED chainVars
  BY <1>5, BootStep
<1>6. CASE (\E w \in writes : Persist(w) \/ PersistFails(w)) /\ UNCHANGED chainVars
  BY <1>6, WriteStep
<1> QED
  BY <1>1, <1>2, <1>3, <1>4, <1>5, <1>6 DEF Next

\* The invariant holds of every behaviour of the indexer.
THEOREM Invariance == Spec => []IInv
<1>1. Init => IInv
  BY IInvInit
<1>2. IInv /\ [Next]_vars => IInv'
  BY IInvStep
<1> QED
  BY <1>1, <1>2, PTL DEF Spec

\* The indexer's state keeps its types.
THEOREM TypeCorrect == Spec => []TypeOK
<1>1. IInv => TypeOK
  BY DEF IInv
<1> QED
  BY <1>1, Invariance, PTL

\* Between two polls the leaves of this process are the deposits of the ledgers its
\* cursor has passed, each once and in the order of the chain, but for those an
\* answer left out or nobody could read; and each has left its root.
THEOREM CursorKept == Spec => []CursorExact
<1>1. ASSUME IInv, Readable
      PROVE  /\ \A j, k \in Fresh : j < k => DepositOf(j) < DepositOf(k)
             /\ {DepositOf(k) : k \in Fresh} =
                  {i \in Deposits : since <= chain[i].ledger /\ chain[i].ledger <= lastLedger}
                    \ missed
             /\ roots = <<0>> \o [k \in 1 .. Len(tree) - restored |-> restored + k]
  <2>1. TypeOK /\ FreshInv /\ RootsInv /\ phase # "applying"
    BY <1>1 DEF IInv, Readable
  <2>2. \A i : Done(i) <=> since <= chain[i].ledger /\ chain[i].ledger <= lastLedger
    BY <2>1 DEF Done
  <2>3. {DepositOf(k) : k \in Fresh} =
          {i \in Deposits : since <= chain[i].ledger /\ chain[i].ledger <= lastLedger} \ missed
    BY <2>1, <2>2 DEF FreshInv
  <2>4. roots = <<0>> \o [k \in 1 .. Len(tree) - restored |-> restored + k]
    <3> DEFINE m == Len(tree) - restored
               s == [k \in 1 .. m |-> restored + k]
    <3>1. m \in Nat /\ restored \in Nat
      BY <2>1, Typed
    <3>2. /\ roots \in Seq(Nat) /\ Len(roots) = m + 1
          /\ \A k \in 1 .. m + 1 : roots[k] = IF k = 1 THEN 0 ELSE restored + k - 1
      BY <2>1 DEF TypeOK, RootsInv
    <3> HIDE DEF m
    <3>3. s \in Seq(Nat) /\ Len(s) = m /\ \A k \in 1 .. m : s[k] = restored + k
      BY <3>1
    <3> HIDE DEF s
    <3>4. /\ <<0>> \o s \in Seq(Nat) /\ Len(<<0>> \o s) = m + 1
          /\ \A k \in 1 .. m + 1 : (<<0>> \o s)[k] = IF k = 1 THEN 0 ELSE restored + k - 1
      BY <3>1, <3>3
    <3>5. roots = <<0>> \o s
      BY <3>1, <3>2, <3>4
    <3> QED
      BY <3>5 DEF s, m
  <2> QED
    BY <2>1, <2>3, <2>4 DEF FreshInv
<1>2. IInv => CursorExact
  BY <1>1 DEF CursorExact
<1> QED
  BY <1>2, Invariance, PTL
-----------------------------------------------------------------------------
(***************************************************************************)
(* Counting leaves and deposits.                                           *)
(***************************************************************************)

\* What the counting needs of the invariant.
LEMMA Counted ==
  ASSUME IInv, Readable, missed = {}
  PROVE  /\ Len(tree) \in Nat /\ restored \in 0 .. Len(tree) /\ Fresh = restored + 1 .. Len(tree)
         /\ since \in Nat /\ lastLedger \in Nat /\ since <= lastLedger + 1
         /\ \A i \in Deposits : i \in Nat /\ chain[i].ledger \in Nat
         /\ \A i, j \in Deposits : i <= j => chain[i].ledger <= chain[j].ledger
         /\ \A k \in Fresh : /\ DepositOf(k) \in Deposits
                             /\ since <= chain[DepositOf(k)].ledger
                             /\ chain[DepositOf(k)].ledger <= lastLedger
         /\ \A i \in Deposits : since <= chain[i].ledger /\ chain[i].ledger <= lastLedger
                                  => \E k \in Fresh : DepositOf(k) = i
         /\ \A j, k \in Fresh : j < k => DepositOf(j) < DepositOf(k)
         /\ IsFiniteSet(Deposits)
<1>1. TypeOK /\ ChainInv /\ CursorsBehind /\ FreshInv /\ phase # "applying"
  BY DEF IInv, Readable
<1>2. /\ Len(chain) \in Nat /\ Events = 1 .. Len(chain)
      /\ \A i \in Events : chain[i].ledger \in Nat
  BY <1>1, ChainTyped
<1>3. Deposits \subseteq Events
  BY DEF Deposits
<1>4. IsFiniteSet(Deposits)
  <2>1. IsFiniteSet(1 .. Len(chain))
    BY <1>2, FS_Interval
  <2> QED
    BY <1>2, <1>3, <2>1, FS_Subset
<1>5. \A i : Done(i) <=> since <= chain[i].ledger /\ chain[i].ledger <= lastLedger
  BY <1>1 DEF Done
<1>6. tree \in Seq(Int) /\ restored \in 0 .. Len(tree) /\ since \in Nat /\ lastLedger \in Nat
  BY <1>1 DEF TypeOK
<1>7. Len(tree) \in Nat /\ Fresh = restored + 1 .. Len(tree)
  BY <1>6 DEF Fresh
<1>8. \A i, j \in Deposits : i <= j => chain[i].ledger <= chain[j].ledger
  BY <1>1, <1>3 DEF ChainInv
<1> QED
  BY <1>1, <1>2, <1>3, <1>4, <1>5, <1>6, <1>7, <1>8 DEF FreshInv, CursorsBehind

\* The deposits before this process's first poll, and those its leaves up to the
\* m-th were made from, are as many as the leaves up to there, if what was restored
\* is one leaf for each of the former.
LEMMA LeavesCounted ==
  ASSUME IInv, Readable, missed = {}, restored = Cardinality(DepositsUpTo(since - 1)),
         NEW m \in restored .. Len(tree)
  PROVE  Cardinality(DepositsUpTo(since - 1) \cup {DepositOf(k) : k \in restored + 1 .. m}) = m
<1> DEFINE B == DepositsUpTo(since - 1)
           E == {DepositOf(k) : k \in restored + 1 .. m}
           f == [k \in restored + 1 .. m |-> DepositOf(k)]
<1>1. /\ Len(tree) \in Nat /\ restored \in Nat /\ m \in Nat /\ restored <= m /\ m <= Len(tree)
      /\ since \in Nat
      /\ \A i \in Deposits : i \in Nat /\ chain[i].ledger \in Nat
      /\ \A k \in Fresh : DepositOf(k) \in Deposits /\ since <= chain[DepositOf(k)].ledger
      /\ \A j, k \in Fresh : j < k => DepositOf(j) < DepositOf(k)
      /\ IsFiniteSet(Deposits)
  BY Counted
<1>2. \A k \in restored + 1 .. m : k \in Fresh /\ k \in Nat
  BY <1>1 DEF Fresh
<1>3. B \in SUBSET Deposits /\ IsFiniteSet(B)
  <2>1. B \in SUBSET Deposits
    BY DEF DepositsUpTo
  <2> QED
    BY <1>1, <2>1, FS_Subset
<1>4. f \in Bijection(restored + 1 .. m, E)
  <2>1. f \in Surjection(restored + 1 .. m, E)
    BY DEF Surjection
  <2>2. ASSUME NEW j \in restored + 1 .. m, NEW k \in restored + 1 .. m, f[j] = f[k]
        PROVE  j = k
    <3>1. DepositOf(j) = DepositOf(k) /\ DepositOf(j) \in Nat /\ DepositOf(k) \in Nat
      BY <1>1, <1>2, <2>2
    <3>2. ~(j < k) /\ ~(k < j)
      BY <1>1, <1>2, <3>1
    <3> QED
      BY <1>2, <3>2
  <2> HIDE DEF f, E
  <2> QED
    BY <2>1, <2>2 DEF Bijection, Injection, IsInjective, Surjection
<1>5. IsFiniteSet(E) /\ Cardinality(E) = m - restored
  <2>1. /\ IsFiniteSet(restored + 1 .. m)
        /\ Cardinality(restored + 1 .. m) = IF restored + 1 > m THEN 0 ELSE m - (restored + 1) + 1
    <3>1. restored + 1 \in Int /\ m \in Int
      BY <1>1
    <3> QED
      BY <3>1, FS_Interval
  <2>2. Cardinality(restored + 1 .. m) = m - restored
    BY <1>1, <2>1
  <2> HIDE DEF f, E
  <2>3. ExistsBijection(restored + 1 .. m, E)
    BY <1>4 DEF ExistsBijection
  <2> QED
    BY <2>1, <2>2, <2>3, FS_Bijection
<1>6. B \cap E = {}
  <2>1. \A i \in B : i \in Deposits /\ chain[i].ledger <= since - 1
    BY DEF DepositsUpTo
  <2>2. \A i \in E : since <= chain[i].ledger
    BY <1>1, <1>2
  <2> HIDE DEF B, E
  <2> QED
    BY <1>1, <2>1, <2>2
<1>7. Cardinality(B \cup E) = Cardinality(B) + (m - restored)
  <2> HIDE DEF B, E
  <2>1. Cardinality(B \cap E) = 0
    BY <1>6, FS_EmptySet
  <2>2. Cardinality(B) \in Nat
    BY <1>3, FS_CardinalityType
  <2>3. Cardinality(B \cup E) = Cardinality(B) + Cardinality(E) - Cardinality(B \cap E)
    BY <1>3, <1>5, FS_Union
  <2> QED
    BY <1>1, <1>5, <2>1, <2>2, <2>3
<1> HIDE DEF E
<1>8. Cardinality(B \cup E) = m
  BY <1>1, <1>7
<1> QED
  BY <1>8 DEF B, E

\* The API serves the contract's tree: if no value was read wrongly, what was restored
\* is the contract's tree up to the cursor, and nothing was missed since, then every
\* leaf is the commitment deposited at its index, and none is wanting.
THEOREM MirrorServed == Spec => []MirrorExact
<1>1. ASSUME IInv, NothingGarbled, Readable, missed = {}, Mirrors(restored, since - 1)
      PROVE  Mirrors(Len(tree), lastLedger)
  <2> DEFINE B == DepositsUpTo(since - 1)
             E(m) == {DepositOf(k) : k \in restored + 1 .. m}
  <2>1. /\ Len(tree) \in Nat /\ restored \in 0 .. Len(tree)
        /\ Fresh = restored + 1 .. Len(tree)
        /\ since \in Nat /\ lastLedger \in Nat /\ since <= lastLedger + 1
        /\ \A i \in Deposits : i \in Nat /\ chain[i].ledger \in Nat
        /\ \A i, j \in Deposits : i <= j => chain[i].ledger <= chain[j].ledger
        /\ \A k \in Fresh : /\ DepositOf(k) \in Deposits
                            /\ since <= chain[DepositOf(k)].ledger
                            /\ chain[DepositOf(k)].ledger <= lastLedger
        /\ \A i \in Deposits : since <= chain[i].ledger /\ chain[i].ledger <= lastLedger
                                 => \E k \in Fresh : DepositOf(k) = i
        /\ \A j, k \in Fresh : j < k => DepositOf(j) < DepositOf(k)
    BY <1>1, Counted
  <2>2. /\ restored = Cardinality(B)
        /\ \A k \in 1 .. restored : DepositOf(k) \in B /\ LeafIndex(DepositOf(k)) = k - 1
    <3>1. /\ restored = Cardinality(B)
          /\ \A k \in 1 .. restored : tree[k] \in B /\ LeafIndex(tree[k]) = k - 1
      BY <1>1 DEF Mirrors
    <3>2. \A k \in 1 .. restored : tree[k] \in Nat
      BY <2>1, <3>1 DEF DepositsUpTo
    <3>3. \A k \in 1 .. restored : DepositOf(k) = tree[k]
      BY <3>2 DEF DepositOf
    <3> QED
      BY <3>1, <3>3
  <2>3. \A m \in restored .. Len(tree) : Cardinality(B \cup E(m)) = m
    BY <1>1, <2>2, LeavesCounted
  <2>4. \A i : i \in B <=> i \in Deposits /\ chain[i].ledger < since
    BY <2>1 DEF DepositsUpTo
  <2>5. \A i : i \in DepositsUpTo(lastLedger) <=> i \in Deposits /\ chain[i].ledger <= lastLedger
    BY DEF DepositsUpTo
  <2>6. \A i \in Deposits : (chain[i].ledger < since \/ since <= chain[i].ledger)
    BY <2>1
  <2>7. DepositsUpTo(lastLedger) = B \cup E(Len(tree))
    <3>1. \A i \in DepositsUpTo(lastLedger) : i \in B \cup E(Len(tree))
      BY <2>1, <2>4, <2>5, <2>6
    <3>2. \A i \in B : i \in DepositsUpTo(lastLedger)
      BY <2>1, <2>4, <2>5
    <3>3. \A i \in E(Len(tree)) : i \in DepositsUpTo(lastLedger)
      BY <2>1, <2>5
    <3> HIDE DEF B, E
    <3> QED
      BY <3>1, <3>2, <3>3
  <2>8. Len(tree) = Cardinality(DepositsUpTo(lastLedger))
    <3>1. Len(tree) \in restored .. Len(tree)
      BY <2>1
    <3> QED
      BY <2>3, <2>7, <3>1
  <2>9. ASSUME NEW k \in 1 .. Len(tree)
        PROVE  DepositOf(k) \in DepositsUpTo(lastLedger) /\ LeafIndex(DepositOf(k)) = k - 1
    <3>1. CASE k <= restored
      <4>1. k \in 1 .. restored
        BY <2>1, <3>1
      <4> QED
        BY <2>1, <2>2, <2>4, <2>5, <4>1
    <3>2. CASE restored < k
      <4>1. k \in Fresh /\ k - 1 \in restored .. Len(tree)
        BY <2>1, <3>2
      <4>2. \A l \in restored + 1 .. k - 1 : l \in Fresh /\ l < k
        BY <2>1, <3>2
      <4>3. \A l \in Fresh : l < k <=> l \in restored + 1 .. k - 1
        BY <2>1, <3>2
      <4> DEFINE d == DepositOf(k)
                 below == {j \in Deposits : j < d}
      <4>4. d \in Deposits /\ d \in DepositsUpTo(lastLedger)
        BY <2>1, <2>5, <4>1
      <4>5. ASSUME NEW j \in below
            PROVE  j \in B \cup E(k - 1)
        <5>1. j \in Deposits /\ j < d /\ j \in Nat /\ d \in Nat
          BY <2>1, <4>4
        <5>2. CASE chain[j].ledger < since
          BY <2>4, <5>1, <5>2
        <5>3. CASE since <= chain[j].ledger
          <6>1. chain[j].ledger <= lastLedger
            <7>1. chain[j].ledger <= chain[d].ledger /\ chain[d].ledger <= lastLedger
              BY <2>1, <4>1, <4>4, <5>1
            <7> QED
              BY <2>1, <4>4, <5>1, <7>1
          <6>2. PICK l \in Fresh : DepositOf(l) = j
            BY <2>1, <5>1, <5>3, <6>1
          <6>3. l < k
            <7>1. l \in Nat /\ k \in Nat
              BY <2>1
            <7>2. ~(k < l) /\ l # k
              BY <2>1, <4>1, <5>1, <6>2
            <7> QED
              BY <7>1, <7>2
          <6> QED
            BY <4>3, <6>2, <6>3
        <5> QED
          BY <2>6, <5>1, <5>2, <5>3
      <4>6. ASSUME NEW j \in B
            PROVE  j \in below
        <5>1. j \in Deposits /\ chain[j].ledger < since /\ since <= chain[d].ledger
          BY <2>1, <2>4, <4>1
        <5>2. j \in Nat /\ d \in Nat /\ chain[j].ledger \in Nat /\ chain[d].ledger \in Nat
          BY <2>1, <4>4, <5>1
        <5>3. ~(d <= j)
          BY <2>1, <4>4, <5>1, <5>2
        <5> QED
          BY <5>1, <5>2, <5>3
      <4>7. ASSUME NEW j \in E(k - 1)
            PROVE  j \in below
        <5>1. PICK l \in restored + 1 .. k - 1 : j = DepositOf(l)
          OBVIOUS
        <5>2. l \in Fresh /\ l < k
          BY <4>2
        <5> QED
          BY <2>1, <4>1, <5>1, <5>2
      <4>8. below = B \cup E(k - 1)
        <5>1. \A j \in below : j \in B \cup E(k - 1)
          BY <4>5
        <5>2. \A j \in B : j \in below
          BY <4>6
        <5>3. \A j \in E(k - 1) : j \in below
          BY <4>7
        <5> HIDE DEF below, B, E
        <5> QED
          BY <5>1, <5>2, <5>3
      <4>9. Cardinality(below) = k - 1
        BY <2>3, <4>1, <4>8
      <4> QED
        BY <4>4, <4>9 DEF LeafIndex
    <3> QED
      BY <2>1, <3>1, <3>2
  <2>10. ASSUME NEW k \in 1 .. Len(tree)
         PROVE  DepositOf(k) = tree[k]
    <3>1. tree[k] \in Int
      <4>1. tree \in Seq(Int)
        BY <1>1 DEF IInv, TypeOK
      <4> QED
        BY <4>1
    <3>2. CASE k <= restored
      <4>1. tree[k] \in B /\ k \in 1 .. restored
        BY <1>1, <2>1, <3>2 DEF Mirrors
      <4>2. tree[k] \in Nat
        BY <2>1, <4>1 DEF DepositsUpTo
      <4> QED
        BY <4>2 DEF DepositOf
    <3>3. CASE restored < k
      <4>1. k \in Fresh
        BY <2>1, <3>3
      <4>2. tree[k] > 0
        BY <1>1, <4>1 DEF NothingGarbled
      <4> QED
        BY <3>1, <4>2 DEF DepositOf
    <3> QED
      BY <2>1, <3>2, <3>3
  <2>11. \A k \in 1 .. Len(tree) :
           tree[k] \in DepositsUpTo(lastLedger) /\ LeafIndex(tree[k]) = k - 1
    <3> HIDE DEF B, E
    <3> QED
      BY <2>9, <2>10
  <2> QED
    BY <2>8, <2>11 DEF Mirrors
<1>2. IInv => MirrorExact
  BY <1>1 DEF MirrorExact, ServesContractTree
<1> QED
  BY <1>2, Invariance, PTL
=============================================================================
