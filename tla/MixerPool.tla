------------------------------ MODULE MixerPool ------------------------------
(***************************************************************************)
(* The mixer pool contract, contracts/mixer_pool/src/lib.rs.               *)
(*                                                                         *)
(* A contract call is atomic: a call that returns an error, or panics,     *)
(* leaves no trace in the ledger.  So each operation is one action, and a  *)
(* call that fails changes nothing but `result', what the caller is told.  *)
(*                                                                         *)
(* Hashes are ideal.  A Merkle root stands for the row of leaves it        *)
(* commits to, from leaf 0 to leaf 2^depth - 1, the unoccupied ones        *)
(* included: two roots are equal exactly when their rows are.  Module      *)
(* MixerPoolStorage keeps the tree node by node, as merkle.rs does, and    *)
(* implements this one.  A proof stands for the statement (the public      *)
(* inputs) it proves.  What a note opens in a tree whose depth is not the  *)
(* circuit's is left open, for inner nodes and commitments are made by one *)
(* hash; and nothing says that a nullifier is always written in one way.   *)
(*                                                                         *)
(* Next to some definitions stands a variant that no action uses: a fault  *)
(* that could be made there, and that a property below would show.         *)
(***************************************************************************)
EXTENDS PowersOfTwo, Sequences, FiniteSets

CONSTANTS
  Address, Pool,       \* token holders; Pool is the contract's own address
  Note,                \* pairs (secret, nullifier) held by users
  Commitment,          \* 32-byte words submitted to deposit
  NullifierHash,       \* 32-byte words submitted to withdraw
  Fr,                  \* the scalar field of BN254
  BytesToFr,           \* word -> field element: big-endian, modulo the order
  CommitmentOf,        \* note -> Poseidon(secret, nullifier)
  NullifierHashOf,     \* note -> Poseidon(nullifier)
  AddressToField,      \* address -> SHA-256 of its strkey, as a field element
  ZeroLeaf,            \* Poseidon(0), the value of an unoccupied leaf
  VkLoaded,            \* TRUE iff built with the feature "vk"
  CircuitDepth,        \* the depth the circuit was compiled for (20)
  Opens(_, _),         \* a note and the row of a root some path leads it to
  WordBits,            \* width of u32 (32), lowered for model checking
  InitialBalance,      \* token holdings when the contract is deployed
  Denominations, MaxFees, Depths, HistorySizes,   \* arguments of initialize
  Fees                                            \* arguments of withdraw

ASSUME AddressAssumption ==
  /\ Pool \in Address
  /\ InitialBalance \in [Address -> Nat]
  /\ InitialBalance[Pool] = 0

ASSUME NumberAssumption ==
  /\ WordBits \in Nat \ {0}
  /\ CircuitDepth \in Nat
  /\ VkLoaded \in BOOLEAN
  /\ Denominations \subseteq Int
  /\ MaxFees \subseteq Int
  /\ Fees \subseteq Int
  /\ Depths \subseteq Nat
  /\ HistorySizes \subseteq 0 .. Pow2[WordBits] - 1

ASSUME HashAssumption ==
  /\ BytesToFr \in [Commitment \cup NullifierHash -> Fr]
  /\ CommitmentOf \in [Note -> Fr \ {ZeroLeaf}]
  /\ NullifierHashOf \in [Note -> Fr]
  /\ AddressToField \in [Address -> Fr]
  /\ ZeroLeaf \in Fr
  \* Poseidon does not collide: notes with one commitment are one note.
  /\ \A m, n \in Note : CommitmentOf[m] = CommitmentOf[n] => m = n

\* The rows of leaves a tree of some depth can have.
Rows(depth) ==
  [0 .. Pow2[depth] - 1 -> {BytesToFr[c] : c \in Commitment} \cup {ZeroLeaf}]

\* In a tree of the circuit's depth every path leads from a leaf.
ASSUME CircuitAssumption ==
  \A n \in Note, row \in Rows(CircuitDepth) :
    Opens(n, row) <=> \E i \in DOMAIN row : row[i] = CommitmentOf[n]

VARIABLES
  initialized,         \* DataKey::Initialized
  config,              \* Denomination, MaxFee, TreeDepth, RootHistorySize
  leaves,              \* MerkleNode(0, i), for every i < NextLeafIndex
  rootHistory,         \* RootHistoryEntry, the circular buffer
  rootHistoryIndex,    \* RootHistoryIndex, where the next root goes
  commitmentInserted,  \* CommitmentInserted
  nullifierSpent,      \* NullifierSpent
  balance,             \* the token contract's balances
  events,              \* the events published, oldest first
  result               \* what the last call answered

poolVars == <<initialized, config, leaves, rootHistory, rootHistoryIndex,
              commitmentInserted, nullifierSpent, balance, events>>
vars == <<poolVars, result>>
-----------------------------------------------------------------------------
Users == Address \ {Pool}

Config == [denomination : Int, maxFee : Int,
           treeDepth : Nat, rootHistorySize : Nat]

Unset == [denomination |-> 0, maxFee |-> 0,
          treeDepth |-> 0, rootHistorySize |-> 0]

Op == {"none", "initialize", "deposit", "withdraw", "token"}

Outcome ==
  {"Ok", "Panic", "AlreadyInitialized", "InvalidDenomination",
   "InvalidTreeDepth", "InvalidRootHistorySize", "DuplicateCommitment",
   "TreeFull", "InvalidRoot", "NullifierSpent", "FeeTooHigh", "InvalidProof",
   "Refused"}

Event ==
  [topic : {"deposit"}, commitment : Commitment, index : Nat]
    \cup [topic : {"withdrawal"}, nullifierHash : NullifierHash]

NumberedFromOne(c, i) == [topic |-> "deposit", commitment |-> c, index |-> i + 1]

DepositEvent(c, i) == [topic |-> "deposit", commitment |-> c, index |-> i]
WithdrawalEvent(nh) == [topic |-> "withdrawal", nullifierHash |-> nh]

NextLeafIndex == Len(leaves)

EverySlot(depth) == Pow2[depth]

\* 1u32.checked_shl(depth).unwrap_or(u32::MAX)
MaxLeaves(depth) == IF depth < WordBits THEN Pow2[depth] ELSE Pow2[WordBits] - 1

\* The root after the first k insertions of the sequence ls.
RootOf(ls, k, depth) ==
  [i \in 0 .. Pow2[depth] - 1 |-> IF i < k THEN BytesToFr[ls[i + 1]] ELSE ZeroLeaf]

RootAfter(k) == RootOf(leaves, k, config.treeDepth)
CurrentRoot == RootAfter(NextLeafIndex)

ScannedFromOne ==
  {rootHistory[i] : i \in (1 .. config.rootHistorySize - 1) \cap DOMAIN rootHistory}

\* is_known_root scans the entries present at 0..size-1.
KnownRoots ==
  {rootHistory[i] : i \in (0 .. config.rootHistorySize - 1) \cap DOMAIN rootHistory}

PushRootLateWrap(root, size) ==
  /\ rootHistory' = [i \in DOMAIN rootHistory \cup {rootHistoryIndex} |->
                       IF i = rootHistoryIndex THEN root ELSE rootHistory[i]]
  /\ rootHistoryIndex' = (rootHistoryIndex + 1) % (size + 1)

PushRoot(root, size) ==
  /\ rootHistory' = [i \in DOMAIN rootHistory \cup {rootHistoryIndex} |->
                       IF i = rootHistoryIndex THEN root ELSE rootHistory[i]]
  /\ rootHistoryIndex' = (rootHistoryIndex + 1) % size
-----------------------------------------------------------------------------
(***************************************************************************)
(* The token contract: a transfer needs a non-negative amount and funds.   *)
(***************************************************************************)
Overdraft(b, from, amount) == 0 <= amount

CanTransfer(b, from, amount) == 0 <= amount /\ amount <= b[from]

Transfer(b, from, to, amount) ==
  [[b EXCEPT ![from] = @ - amount] EXCEPT ![to] = @ + amount]
-----------------------------------------------------------------------------
(***************************************************************************)
(* The proof system.  Circuit is the relation Withdraw(CircuitDepth)       *)
(* constrains: the prover knows a note whose nullifier hash is the public  *)
(* one, and a path from its commitment to the root.  Recipient, relayer    *)
(* and fee are free, but part of the statement.                            *)
(***************************************************************************)
PublicInputs(root, nh, recipient, relayer, fee) ==
  [root |-> root, nullifierHash |-> BytesToFr[nh],
   recipient |-> AddressToField[recipient],
   relayer |-> AddressToField[relayer], fee |-> fee]

AnyNullifier(statement) == \E n \in Note : Opens(n, statement.root)

Circuit(statement) ==
  \E n \in Note :
    NullifierHashOf[n] = statement.nullifierHash /\ Opens(n, statement.root)

\* A proof: whether its bytes decode to curve points, and what it proves.
Proof(decodes, statement) == [decodes |-> decodes, statement |-> statement]

AnyProof(proof, inputs) == VkLoaded

VerifyProof(proof, inputs) ==
  proof.decodes /\ VkLoaded /\ proof.statement = inputs

\* Groth16 is sound and complete: what there is to submit against `inputs'
\* is a proof of exactly these inputs, if they satisfy the circuit, or
\* bytes that fail, as a proof of any other statement does.
ProofsAgainst(inputs) ==
  {Proof(d, inputs) : d \in {b \in BOOLEAN : b => Circuit(inputs)}}
-----------------------------------------------------------------------------
Init ==
  /\ initialized = FALSE
  /\ config = Unset
  /\ leaves = <<>>
  /\ rootHistory = [i \in {} |-> {}]
  /\ rootHistoryIndex = 0
  /\ commitmentInserted = {}
  /\ nullifierSpent = {}
  /\ balance = InitialBalance
  /\ events = <<>>
  /\ result = [op |-> "none", outcome |-> "Ok"]

Answer(op, outcome) == result' = [op |-> op, outcome |-> outcome]

Fail(op, outcome) == outcome # "Ok" /\ Answer(op, outcome) /\ UNCHANGED poolVars

\* A transfer may also fail for reasons of the token's own: an account that does
\* not exist, has no trustline or is frozen.  The call is then undone.
TokenRefuses(op, outcome) ==
  outcome = "Ok" /\ Answer(op, "Refused") /\ UNCHANGED poolVars

InitializeOutcome(denomination, depth, size) ==
  IF initialized THEN "AlreadyInitialized"
  ELSE IF denomination <= 0 THEN "InvalidDenomination"
  ELSE IF depth = 0 \/ depth > WordBits THEN "InvalidTreeDepth"
  ELSE IF size = 0 THEN "InvalidRootHistorySize"
  ELSE "Ok"

InitializeOk(denomination, maxFee, depth, size) ==
  /\ InitializeOutcome(denomination, depth, size) = "Ok"
  /\ Answer("initialize", "Ok")
  /\ initialized' = TRUE
  /\ config' = [denomination |-> denomination, maxFee |-> maxFee,
                treeDepth |-> depth, rootHistorySize |-> size]
  /\ PushRoot(RootOf(leaves, 0, depth), size)
  /\ UNCHANGED <<leaves, commitmentInserted, nullifierSpent, balance, events>>

Initialize(denomination, maxFee, depth, size) ==
  \/ Fail("initialize", InitializeOutcome(denomination, depth, size))
  \/ InitializeOk(denomination, maxFee, depth, size)

\* Before initialize the unwrap of an unset key panics.
DepositOutcome(depositor, c) ==
  IF c \in commitmentInserted THEN "DuplicateCommitment"
  ELSE IF ~initialized THEN "Panic"
  ELSE IF NextLeafIndex >= MaxLeaves(config.treeDepth) THEN "TreeFull"
  ELSE IF ~CanTransfer(balance, depositor, config.denomination) THEN "Panic"
  ELSE "Ok"

DepositOk(depositor, c) ==
  /\ DepositOutcome(depositor, c) = "Ok"
  /\ Answer("deposit", "Ok")
  /\ balance' = Transfer(balance, depositor, Pool, config.denomination)
  /\ commitmentInserted' = commitmentInserted \cup {c}
  /\ leaves' = Append(leaves, c)
  /\ PushRoot(RootOf(leaves', NextLeafIndex + 1, config.treeDepth),
              config.rootHistorySize)
  /\ events' = Append(events, DepositEvent(c, NextLeafIndex))
  /\ UNCHANGED <<initialized, config, nullifierSpent>>

Deposit(depositor, c) ==
  \/ Fail("deposit", DepositOutcome(depositor, c))
  \/ TokenRefuses("deposit", DepositOutcome(depositor, c))
  \/ DepositOk(depositor, c)

NeverSpent(nh) == FALSE
IsNullifierSpent(nh) == nh \in nullifierSpent

FeeAllowed(fee) == fee >= 0 /\ fee <= config.maxFee

FeeOnTop(recipient, fee) == Transfer(balance, Pool, recipient, config.denomination)
AfterPayout(recipient, fee) ==
  Transfer(balance, Pool, recipient, config.denomination - fee)

Payable(recipient, fee) ==
  /\ CanTransfer(balance, Pool, config.denomination - fee)
  /\ CanTransfer(AfterPayout(recipient, fee), Pool, fee)

WithdrawOutcome(proof, root, nh, recipient, relayer, fee) ==
  IF ~initialized THEN "Panic"
  ELSE IF root \notin KnownRoots THEN "InvalidRoot"
  ELSE IF IsNullifierSpent(nh) THEN "NullifierSpent"
  ELSE IF ~FeeAllowed(fee) THEN "FeeTooHigh"
  ELSE IF ~VerifyProof(proof, PublicInputs(root, nh, recipient, relayer, fee))
       THEN "InvalidProof"
  ELSE IF ~Payable(recipient, fee) THEN "Panic"
  ELSE "Ok"

WithdrawOk(proof, root, nh, recipient, relayer, fee) ==
  /\ WithdrawOutcome(proof, root, nh, recipient, relayer, fee) = "Ok"
  /\ Answer("withdraw", "Ok")
  /\ nullifierSpent' = nullifierSpent \cup {nh}
  /\ balance' = Transfer(AfterPayout(recipient, fee), Pool, relayer, fee)
  /\ events' = Append(events, WithdrawalEvent(nh))
  /\ UNCHANGED <<initialized, config, leaves, rootHistory,
                 rootHistoryIndex, commitmentInserted>>

Withdraw(proof, root, nh, recipient, relayer, fee) ==
  \/ Fail("withdraw", WithdrawOutcome(proof, root, nh, recipient, relayer, fee))
  \/ TokenRefuses("withdraw", WithdrawOutcome(proof, root, nh, recipient, relayer, fee))
  \/ WithdrawOk(proof, root, nh, recipient, relayer, fee)

\* Any other use of the token by its holders; only the pool's own calls
\* spend the pool's holdings.
TokenTransfer(from, to, amount) ==
  /\ CanTransfer(balance, from, amount)
  /\ balance' = Transfer(balance, from, to, amount)
  /\ Answer("token", "Ok")
  /\ UNCHANGED <<initialized, config, leaves, rootHistory, rootHistoryIndex,
                 commitmentInserted, nullifierSpent, events>>

\* The roots a caller has seen: those of every length the tree has had.
SeenRoots == {RootAfter(k) : k \in 0 .. NextLeafIndex}

Next ==
  \/ \E denomination \in Denominations, maxFee \in MaxFees,
        depth \in Depths, size \in HistorySizes :
       Initialize(denomination, maxFee, depth, size)
  \/ \E depositor \in Users, c \in Commitment : Deposit(depositor, c)
  \/ \E root \in SeenRoots, nh \in NullifierHash,
        recipient, relayer \in Address, fee \in Fees :
       \E proof \in ProofsAgainst(PublicInputs(root, nh, recipient, relayer, fee)) :
         Withdraw(proof, root, nh, recipient, relayer, fee)
  \/ \E from \in Users, to \in Address :
       \E amount \in 1 .. balance[from] : TokenTransfer(from, to, amount)

Spec == Init /\ [][Next]_vars
-----------------------------------------------------------------------------
(***************************************************************************)
(* Properties.                                                             *)
(***************************************************************************)

\* The pool was deployed with the circuit's depth; initialize takes any.
CircuitFits == initialized => config.treeDepth = CircuitDepth

\* The nullifiers spent: withdraw marks words, verify_proof reduces them.
SpentElements == {BytesToFr[nh] : nh \in nullifierSpent}

\* No nullifier has been spent under two words, as the client, which writes it
\* canonically, never does.
SpentOnce == \A v, w \in nullifierSpent : BytesToFr[v] = BytesToFr[w] => v = w

\* The type invariant.  The ring buffer's entries and index are pinned by
\* RootWindow, the events by NoWordTwice and EventsReplay.
TypeOK ==
  /\ initialized \in BOOLEAN
  /\ config \in Config
  /\ leaves \in Seq(Commitment)
  /\ rootHistoryIndex \in Nat
  /\ DOMAIN rootHistory \subseteq Nat
  /\ commitmentInserted \subseteq Commitment
  /\ nullifierSpent \subseteq NullifierHash
  /\ balance \in [Address -> Nat]
  /\ events \in Seq(Event)
  /\ result \in [op : Op, outcome : Outcome]

\* What withdraw says of itself (lib.rs:114-116): the nullifier of every withdrawal
\* is that of a note whose commitment is a leaf of the pool's tree.
WithdrawnWasDeposited ==
  \A nh \in nullifierSpent :
    \E n \in Note, i \in 1 .. NextLeafIndex :
      /\ NullifierHashOf[n] = BytesToFr[nh]
      /\ BytesToFr[leaves[i]] = CommitmentOf[n]

\* In a pool deployed with the circuit's depth a nullifier is spent only by
\* somebody who can open a deposited commitment with that nullifier hash
\* (withdraw's proof check, lib.rs:156-165), whatever the root it was proved
\* against.  In any other pool this is not so: see WithdrawnWasDeposited.
SpentBacked == CircuitFits => WithdrawnWasDeposited

\* The pool holds one denomination for every deposit beyond its withdrawals, in
\* spite of expired roots, fees, tokens sent to the pool by others, withdrawals to
\* the pool itself, trees of any depth and nullifiers written in several ways; and
\* the nullifiers spent are never more than the deposits, even when notes share
\* one, if the depth fits.  What the pool can come to lack is therefore exactly
\* what was paid for a nullifier written in a second way.
Solvent ==
  /\ balance[Pool] >=
       config.denomination * (NextLeafIndex - Cardinality(nullifierSpent))
  /\ CircuitFits => Cardinality(SpentElements) <= NextLeafIndex

\* The ring buffer (push_root_history, is_known_root) always holds the last
\* rootHistorySize roots and no older one, before and after it wraps around.
RootWindow ==
  initialized =>
    KnownRoots = {RootAfter(k) : k \in {j \in 0 .. NextLeafIndex :
                                          j > NextLeafIndex - config.rootHistorySize}}

\* Over the whole life of the pool no word is taken as a nullifier twice, so that
\* a transaction that is submitted again, or a second proof of a note by a client
\* that writes nullifiers canonically, is never paid.
NoWordTwice ==
  \A i, j \in DOMAIN events :
    /\ events[i].topic = "withdrawal"
    /\ events[j].topic = "withdrawal"
    /\ events[i].nullifierHash = events[j].nullifierHash
    => i = j

\* What withdraw promises (lib.rs:121): a nullifier is spent once, that is, no two
\* withdrawal events carry the same field element.  The code keeps NoWordTwice.
NoDoubleWithdrawal ==
  \A i, j \in DOMAIN events :
    /\ events[i].topic = "withdrawal"
    /\ events[j].topic = "withdrawal"
    /\ BytesToFr[events[i].nullifierHash] = BytesToFr[events[j].nullifierHash]
    => i = j

\* No deposit is locked in: as long as a note's nullifier is unspent, a proof
\* against any root of the window that covers its leaf, with any fee within
\* the cap, is accepted, and the pool can pay it, unless the token refuses.  The
\* pool must have been deployed with a verification key and the circuit's depth
\* (nothing in initialize sees to that), the fee must not exceed the
\* denomination, and no nullifier may have been spent under two words.
DepositRedeemable ==
  initialized /\ VkLoaded /\ CircuitFits /\ SpentOnce =>
    \A n \in Note, nh \in NullifierHash, fee \in Fees,
       recipient, relayer \in Address, i \in 1 .. NextLeafIndex :
      /\ BytesToFr[nh] \notin SpentElements
      /\ BytesToFr[leaves[i]] = CommitmentOf[n]
      /\ NullifierHashOf[n] = BytesToFr[nh]
      /\ 0 <= fee /\ fee <= config.maxFee /\ fee <= config.denomination
      => \A k \in i .. NextLeafIndex :
           k > NextLeafIndex - config.rootHistorySize =>
             \E proof \in ProofsAgainst(PublicInputs(RootAfter(k), nh,
                                                     recipient, relayer, fee)) :
               WithdrawOutcome(proof, RootAfter(k), nh, recipient, relayer, fee)
                 = "Ok"

\* No u32 overflows at the limits: the leaf counter of a full tree of maximal
\* depth, the buffer index before it is reduced; and every leaf has a slot.
IndicesFit ==
  initialized =>
    /\ NextLeafIndex <= Pow2[WordBits] - 1
    /\ NextLeafIndex <= Pow2[config.treeDepth]
    /\ rootHistoryIndex + 1 <= Pow2[WordBits] - 1

\* What the indexer relies on: the deposit events, in order, are exactly the
\* leaves in order, numbered from 0 without a gap and all different, and the
\* withdrawal events are exactly the spent nullifiers.
EventsReplay ==
  LET deposits == {i \in DOMAIN events : events[i].topic = "deposit"}
      withdrawals == {i \in DOMAIN events : events[i].topic = "withdrawal"}
      Number(i) == Cardinality({j \in deposits : j <= i})
  IN  /\ Cardinality(deposits) = NextLeafIndex
      /\ \A i \in deposits :
           events[i] = [topic |-> "deposit", commitment |-> leaves[Number(i)],
                        index |-> Number(i) - 1]
      /\ \A i, j \in 1 .. NextLeafIndex : leaves[i] = leaves[j] => i = j
      /\ {events[i].nullifierHash : i \in withdrawals} = nullifierSpent

\* The pool is a vault: a call either issues a ticket for exactly a denomination,
\* or takes one back for at most a denomination, or leaves the pool's holdings
\* alone, and nothing else ever lowers them; and no more tickets are taken back
\* than were issued while the depth fits and no nullifier was spent in two ways.
TheVault == INSTANCE Vault WITH
  open <- initialized, denomination <- config.denomination,
  issued <- NextLeafIndex, taken <- Cardinality(nullifierSpent),
  funds <- balance[Pool], genuine <- CircuitFits /\ SpentOnce

ImplementsVault == TheVault!Spec
=============================================================================
