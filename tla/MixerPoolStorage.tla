--------------------------- MODULE MixerPoolStorage ---------------------------
(***************************************************************************)
(* The mixer pool contract with its Merkle tree as merkle.rs stores it:    *)
(* nodes by (level, index), a leaf counter of its own, and a history of    *)
(* root hashes.  Everything else is as in MixerPool, which this module     *)
(* implements: a root hash stands for the row of leaves it commits to.     *)
(* The circuit folds a path of its own depth, whatever the tree's is.      *)
(***************************************************************************)
EXTENDS MerkleTree, FiniteSets

CONSTANTS
  Address, Pool, Note, NullifierHash, CommitmentOf, NullifierHashOf,
  AddressToField, VkLoaded, CircuitDepth, WordBits, InitialBalance,
  Denominations, MaxFees, Depths, HistorySizes, Fees

\* What MixerPool assumes of them, as far as the tree depends on it; the circuit
\* has at least one level.
ASSUME StorageAssumption ==
  /\ WordBits \in Nat
  /\ CircuitDepth \in Nat \ {0}
  /\ Depths \subseteq Nat
  /\ HistorySizes \subseteq Nat
  /\ CommitmentOf \in [Note -> Fr]

VARIABLES
  initialized, config, rootHistoryIndex, commitmentInserted, nullifierSpent,
  balance, events, result,
  merkleNode,      \* MerkleNode(level, index)
  nextLeafIndex,   \* NextLeafIndex
  rootHashes       \* RootHistoryEntry(position)

\* The leaves, read off level 0.
leavesBar ==
  [i \in 1 .. nextLeafIndex |-> merkleNode[<<0, i - 1>>]]

\* The history, each hash replaced by the row it commits to.
rootHistoryBar ==
  [p \in DOMAIN rootHashes |-> RowOf(rootHashes[p], config.treeDepth)]

\* The one path by which a root can be reached from index i, read off the root.
PathTo(root, i) ==
  [level \in 0 .. CircuitDepth - 1 |->
     LET bit == Above(i, level) % 2
     IN  [element |-> Descend(root, i, CircuitDepth)[level + 1][2 - bit], bit |-> bit]]

\* The circuit's fold from the note's commitment to the root.
OpensRoot(n, root) ==
  \E i \in 0 .. Pow2[CircuitDepth] - 1 :
    FoldPath(CommitmentOf[n], PathTo(root, i), CircuitDepth) = root

\* The root of a row, and what a note opens in it: MixerPool's Opens.
RowRoot(row) ==
  LET depth == CHOOSE d \in 0 .. WordBits : DOMAIN row = 0 .. Pow2[d] - 1
  IN  MirrorRoot(Rebuild([i \in 1 .. Pow2[depth] |-> row[i - 1]], depth), depth)

OpensRow(n, row) == OpensRoot(n, RowRoot(row))

Promise == INSTANCE MixerPool
             WITH leaves <- leavesBar, rootHistory <- rootHistoryBar,
                  Opens <- OpensRow

vars == <<initialized, config, rootHistoryIndex, commitmentInserted,
          nullifierSpent, balance, events, result,
          merkleNode, nextLeafIndex, rootHashes>>

contractVars == <<initialized, config, rootHistoryIndex, commitmentInserted,
                  nullifierSpent, balance, events,
                  merkleNode, nextLeafIndex, rootHashes>>
-----------------------------------------------------------------------------
Init ==
  /\ initialized = FALSE
  /\ config = Promise!Unset
  /\ merkleNode = [p \in {} |-> ZeroLeaf]
  /\ nextLeafIndex = 0
  /\ rootHashes = [p \in {} |-> ZeroLeaf]
  /\ rootHistoryIndex = 0
  /\ commitmentInserted = {}
  /\ nullifierSpent = {}
  /\ balance = InitialBalance
  /\ events = <<>>
  /\ result = [op |-> "none", outcome |-> "Ok"]

Answer(op, outcome) == result' = [op |-> op, outcome |-> outcome]

Fail(op, outcome) == outcome # "Ok" /\ Answer(op, outcome) /\ UNCHANGED contractVars

TokenRefuses(op, outcome) ==
  outcome = "Ok" /\ Answer(op, "Refused") /\ UNCHANGED contractVars

PushRootHistory(root, size) ==
  /\ rootHashes' = [p \in DOMAIN rootHashes \cup {rootHistoryIndex} |->
                      IF p = rootHistoryIndex THEN root ELSE rootHashes[p]]
  /\ rootHistoryIndex' = (rootHistoryIndex + 1) % size

IsCurrentRoot(root) == root = GetCurrentRoot(merkleNode, config.treeDepth)

\* The scan stops at the first match; a missing entry is skipped.
IsKnownRoot(root) ==
  \E p \in 0 .. config.rootHistorySize - 1 :
    p \in DOMAIN rootHashes /\ rootHashes[p] = root

InitializeOutcome(denomination, depth, size) ==
  IF initialized THEN "AlreadyInitialized"
  ELSE IF denomination <= 0 THEN "InvalidDenomination"
  ELSE IF depth = 0 \/ depth > WordBits THEN "InvalidTreeDepth"
  ELSE IF size = 0 THEN "InvalidRootHistorySize"
  ELSE "Ok"

InitializeOk(denomination, maxFee, depth, size) ==
  /\ InitializeOutcome(denomination, depth, size) = "Ok"
  /\ Answer("initialize", "Ok")
  /\ initialized' = TRUE
  /\ config' = [denomination |-> denomination, maxFee |-> maxFee,
                treeDepth |-> depth, rootHistorySize |-> size]
  /\ nextLeafIndex' = 0
  /\ PushRootHistory(GetCurrentRoot(merkleNode, depth), size)
  /\ UNCHANGED <<merkleNode, commitmentInserted, nullifierSpent, balance, events>>

DepositOutcome(depositor, c) ==
  IF c \in commitmentInserted THEN "DuplicateCommitment"
  ELSE IF ~initialized THEN "Panic"
  ELSE IF nextLeafIndex >= Promise!MaxLeaves(config.treeDepth) THEN "TreeFull"
  ELSE IF ~Promise!CanTransfer(balance, depositor, config.denomination) THEN "Panic"
  ELSE "Ok"

DepositOk(depositor, c) ==
  /\ DepositOutcome(depositor, c) = "Ok"
  /\ Answer("deposit", "Ok")
  /\ balance' = Promise!Transfer(balance, depositor, Pool, config.denomination)
  /\ commitmentInserted' = commitmentInserted \cup {c}
  /\ merkleNode' = InsertLeaf(merkleNode, c, nextLeafIndex, config.treeDepth)
  /\ nextLeafIndex' = nextLeafIndex + 1
  /\ PushRootHistory(GetCurrentRoot(merkleNode', config.treeDepth), config.rootHistorySize)
  /\ events' = Append(events, Promise!DepositEvent(c, nextLeafIndex))
  /\ UNCHANGED <<initialized, config, nullifierSpent>>

PublicInputs(root, nh, recipient, relayer, fee) ==
  [root |-> root, nullifierHash |-> BytesToFr[nh],
   recipient |-> AddressToField[recipient],
   relayer |-> AddressToField[relayer], fee |-> fee]

Circuit(statement) ==
  \E n \in Note :
    NullifierHashOf[n] = statement.nullifierHash /\ OpensRoot(n, statement.root)

ProofsAgainst(inputs) ==
  {Promise!Proof(d, inputs) : d \in {b \in BOOLEAN : b => Circuit(inputs)}}

WithdrawOutcome(proof, root, nh, recipient, relayer, fee) ==
  IF ~initialized THEN "Panic"
  ELSE IF ~IsKnownRoot(root) THEN "InvalidRoot"
  ELSE IF Promise!IsNullifierSpent(nh) THEN "NullifierSpent"
  ELSE IF ~Promise!FeeAllowed(fee) THEN "FeeTooHigh"
  ELSE IF ~Promise!VerifyProof(proof, PublicInputs(root, nh, recipient, relayer, fee))
       THEN "InvalidProof"
  ELSE IF ~Promise!Payable(recipient, fee) THEN "Panic"
  ELSE "Ok"

WithdrawOk(proof, root, nh, recipient, relayer, fee) ==
  /\ WithdrawOutcome(proof, root, nh, recipient, relayer, fee) = "Ok"
  /\ Answer("withdraw", "Ok")
  /\ nullifierSpent' = nullifierSpent \cup {nh}
  /\ balance' = Promise!Transfer(Promise!AfterPayout(recipient, fee), Pool, relayer, fee)
  /\ events' = Append(events, Promise!WithdrawalEvent(nh))
  /\ UNCHANGED <<initialized, config, merkleNode, nextLeafIndex, rootHashes,
                 rootHistoryIndex, commitmentInserted>>

TokenTransfer(from, to, amount) ==
  /\ Promise!CanTransfer(balance, from, amount)
  /\ balance' = Promise!Transfer(balance, from, to, amount)
  /\ Answer("token", "Ok")
  /\ UNCHANGED <<initialized, config, merkleNode, nextLeafIndex, rootHashes,
                 rootHistoryIndex, commitmentInserted, nullifierSpent, events>>

\* The roots a caller has seen: those of a mirror of the tree at every length.
SeenRoots ==
  {MirrorRoot(Rebuild(SubSeq(leavesBar, 1, k), config.treeDepth), config.treeDepth) :
     k \in 0 .. nextLeafIndex}

Next ==
  \/ \E denomination \in Denominations, maxFee \in MaxFees,
        depth \in Depths, size \in HistorySizes :
       \/ Fail("initialize", InitializeOutcome(denomination, depth, size))
       \/ InitializeOk(denomination, maxFee, depth, size)
  \/ \E depositor \in Promise!Users, c \in Commitment :
       \/ Fail("deposit", DepositOutcome(depositor, c))
       \/ TokenRefuses("deposit", DepositOutcome(depositor, c))
       \/ DepositOk(depositor, c)
  \/ \E root \in SeenRoots, nh \in NullifierHash,
        recipient, relayer \in Address, fee \in Fees :
       \E proof \in ProofsAgainst(PublicInputs(root, nh, recipient, relayer, fee)) :
         \/ Fail("withdraw", WithdrawOutcome(proof, root, nh, recipient, relayer, fee))
         \/ TokenRefuses("withdraw", WithdrawOutcome(proof, root, nh, recipient, relayer, fee))
         \/ WithdrawOk(proof, root, nh, recipient, relayer, fee)
  \/ \E from \in Promise!Users, to \in Address :
       \E amount \in 1 .. balance[from] : TokenTransfer(from, to, amount)

Spec == Init /\ [][Next]_vars
-----------------------------------------------------------------------------
(***************************************************************************)
(* Properties.                                                             *)
(***************************************************************************)

\* The node map and the counter have their types: level 0 holds the words
\* deposited so far, and no node lies outside the tree.
TypeOK ==
  /\ nextLeafIndex \in Nat
  /\ \A i \in 0 .. nextLeafIndex - 1 : merkleNode[<<0, i>>] \in Commitment
  /\ \A p \in DOMAIN merkleNode :
       p[1] \in 0 .. config.treeDepth /\ p[2] \in 0 .. Pow2[config.treeDepth - p[1]] - 1
  /\ DOMAIN rootHashes \subseteq Nat

\* The contract keeps MixerPool's promise: what it does to its node map and its
\* history of hashes is what MixerPool does to the leaves and their rows, call
\* by call, with the same answers.
ImplementsMixerPool == Promise!Spec

\* The hash in the newest entry of the history, the hash get_root reads from
\* the node map, and the root of a mirror rebuilt from the deposit events are
\* one: a client that replays events can prove against the contract's root.
NewestRootIsCurrent ==
  LET deposits == {i \in DOMAIN events : events[i].topic = "deposit"}
      Numbered(k) == CHOOSE i \in deposits : events[i].index = k - 1
      replayed == [k \in 1 .. Cardinality(deposits) |-> events[Numbered(k)].commitment]
      newest == (rootHistoryIndex + config.rootHistorySize - 1) % config.rootHistorySize
  IN  initialized =>
        /\ rootHashes[newest] = GetCurrentRoot(merkleNode, config.treeDepth)
        /\ rootHashes[newest] =
             MirrorRoot(Rebuild(replayed, config.treeDepth), config.treeDepth)
=============================================================================
