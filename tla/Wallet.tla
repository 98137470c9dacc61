-------------------------------- MODULE Wallet --------------------------------
(***************************************************************************)
(* A user's wallet and the mixer pool: the SDK (sdk/mixer.ts) with its     *)
(* note store (wallet/notestore.ts), composed with the contract.  Module   *)
(* MixerPool is extended: its operations are the contract's side of every  *)
(* transaction below.                                                      *)
(*                                                                         *)
(* The SDK leaves submitting to its caller.  The caller here follows the   *)
(* steps in the comments of prepareDeposit and prepareWithdrawal; what it  *)
(* submits may be executed late, or be lost, and so may the answer.  A     *)
(* prepared withdrawal is handed to relayers, who may mix up a proof and   *)
(* the parties of another request, and may write the nullifier as another  *)
(* word than the client does.  The note store lives in memory, and         *)
(* backups do not.  leafIndex and the time of the deposit, which are       *)
(* stored and shown but never used, are left out.                          *)
(*                                                                         *)
(* The variants that no action uses are faults the properties would show.  *)
(***************************************************************************)
EXTENDS MixerPool

CONSTANTS
  Owner,                  \* the user's account
  Recipients,             \* note -> the addresses it may be withdrawn to
  Relayers,               \* the relayers the user chooses from
  MaxInFlight             \* bound on transactions under way

ASSUME WalletAssumption ==
  /\ Owner \in Users
  /\ Recipients \in [Note -> SUBSET Address]
  /\ Relayers \subseteq Address
  \* SHA-256 does not collide on the addresses, nor its residue in the field.
  /\ \A a, b \in Address : AddressToField[a] = AddressToField[b] => a = b
  /\ MaxInFlight \in Nat \ {0}

VARIABLES
  generated,   \* the notes generated so far
  notes,       \* noteStore.notes: note -> spent
  backups,     \* the notes exported
  prepared,    \* the withdrawals prepared
  inFlight,    \* transactions submitted and neither executed nor lost
  paid         \* history: the withdrawals paid, with the parties paid, oldest first

walletVars == <<generated, notes, backups, prepared, inFlight, paid>>
allVars == <<vars, walletVars>>
-----------------------------------------------------------------------------
NoNotes == [n \in {} |-> FALSE]

\* The result of prepareWithdrawal: the tree it was proved against, as its number
\* of leaves, and the public inputs, which the proof is a proof of.
Withdrawal ==
  [note : Note, leaves : Nat, recipient : Address, relayer : Relayers, fee : Fees]

\* The words read as the note's commitment and nullifier hash, of which
\* bigIntToBytes returns the canonical one.
CommitmentWords(n) == {c \in Commitment : BytesToFr[c] = CommitmentOf[n]}
NullifierWords(n) == {nh \in NullifierHash : BytesToFr[nh] = NullifierHashOf[n]}

\* The note's commitment is among the first k leaves.
CoveredBy(n, k) == \E i \in 1 .. k : leaves[i] \in CommitmentWords(n)

Deposited(n) == CoveredBy(n, NextLeafIndex)
Withdrawn(n) == \E nh \in NullifierWords(n) : nh \in nullifierSpent

\* A mirror of the pool's tree, which may lag behind, returns a path for a
\* commitment it holds.
PathsAtDeposit(n) == {k \in 1 .. NextLeafIndex : CoveredBy(n, k) /\ ~CoveredBy(n, k - 1)}
Paths(n) == {k \in 1 .. NextLeafIndex : CoveredBy(n, k)}

DepositTx(n) == [kind |-> "deposit", note |-> n]
WithdrawTx(w, parties) == [kind |-> "withdraw", proved |-> w, parties |-> parties]

\* The inputs of a prepared withdrawal.
InputsOf(w, nh) ==
  PublicInputs(RootAfter(w.leaves), nh, w.recipient, w.relayer, w.fee)
-----------------------------------------------------------------------------
WalletInit ==
  /\ Init
  /\ generated = {}
  /\ notes = NoNotes
  /\ backups = {}
  /\ prepared = {}
  /\ inFlight = {}
  /\ paid = <<>>

Store(n) == notes' = [m \in DOMAIN notes \cup {n} |-> IF m = n THEN FALSE ELSE notes[m]]

\* The note is stored before anything is submitted.
PrepareDeposit(n) ==
  /\ n \notin generated
  /\ generated' = generated \cup {n}
  /\ Store(n)
  /\ UNCHANGED <<vars, backups, prepared, inFlight, paid>>

ExportNote(n) ==
  /\ n \in DOMAIN notes
  /\ backups' = backups \cup {n}
  /\ UNCHANGED <<vars, generated, notes, prepared, inFlight, paid>>

\* importNote: the note is unspent again, whatever was known of it.
ImportNote(n) ==
  /\ n \in backups
  /\ Store(n)
  /\ UNCHANGED <<vars, generated, backups, prepared, inFlight, paid>>

\* The process ends; a new one has an empty store.
Crash ==
  /\ notes' = NoNotes
  /\ UNCHANGED <<vars, generated, backups, prepared, inFlight, paid>>

SubmitDeposit(n) ==
  /\ n \in DOMAIN notes
  /\ Cardinality(inFlight) < MaxInFlight
  /\ inFlight' = inFlight \cup {DepositTx(n)}
  /\ UNCHANGED <<vars, generated, notes, backups, prepared, paid>>

\* Whether the note is spent is not looked at; without a witness no proof is
\* generated.
PrepareWithdrawal(n, w) ==
  /\ n \in DOMAIN notes
  /\ w \in Withdrawal
  /\ w.note = n /\ w.leaves \in Paths(n)
  /\ \E nh \in NullifierWords(n) : Circuit(InputsOf(w, nh))
  /\ prepared' = prepared \cup {w}
  /\ UNCHANGED <<vars, generated, notes, backups, inFlight, paid>>

\* By the user or a relayer, who may take another request's parties.
SubmitWithdrawal(w, parties) ==
  /\ w \in prepared /\ parties \in prepared
  /\ Cardinality(inFlight) < MaxInFlight
  /\ inFlight' = inFlight \cup {WithdrawTx(w, parties)}
  /\ UNCHANGED <<vars, generated, notes, backups, prepared, paid>>

FinalizeUnseen(n) ==
  /\ n \in DOMAIN notes
  /\ notes' = [notes EXCEPT ![n] = TRUE]
  /\ UNCHANGED <<vars, generated, backups, prepared, inFlight, paid>>

\* finalizeWithdrawal, after successful on-chain withdrawal.
FinalizeWithdrawal(n) ==
  /\ n \in DOMAIN notes
  /\ Withdrawn(n)
  /\ notes' = [notes EXCEPT ![n] = TRUE]
  /\ UNCHANGED <<vars, generated, backups, prepared, inFlight, paid>>
-----------------------------------------------------------------------------
(***************************************************************************)
(* The network executes a transaction, or never does.                      *)
(***************************************************************************)
ExecuteDeposit(n) ==
  /\ \E c \in CommitmentWords(n) : Deposit(Owner, c)
  /\ UNCHANGED paid

\* What was proved, paid to these parties.
PaidTo(w, parties) ==
  [w EXCEPT !.recipient = parties.recipient, !.relayer = parties.relayer,
            !.fee = parties.fee]

ExecuteWithdraw(w, parties) ==
  \E nh \in NullifierWords(w.note) :
    /\ Withdraw(Proof(TRUE, InputsOf(w, nh)), RootAfter(w.leaves), nh,
                parties.recipient, parties.relayer, parties.fee)
    /\ paid' = IF result'.outcome = "Ok"
               THEN Append(paid, PaidTo(w, parties))
               ELSE paid

Execute(tx) ==
  /\ tx \in inFlight
  /\ inFlight' = inFlight \ {tx}
  /\ \/ tx.kind = "deposit" /\ ExecuteDeposit(tx.note)
     \/ tx.kind = "withdraw" /\ ExecuteWithdraw(tx.proved, tx.parties)
  /\ UNCHANGED <<generated, notes, backups, prepared>>

Lose(tx) ==
  /\ tx \in inFlight
  /\ inFlight' = inFlight \ {tx}
  /\ UNCHANGED <<vars, generated, notes, backups, prepared, paid>>

Deploy ==
  /\ \E denomination \in Denominations, maxFee \in MaxFees,
        depth \in Depths, size \in HistorySizes :
       InitializeOk(denomination, maxFee, depth, size)
  /\ UNCHANGED walletVars

WalletNext ==
  \/ Deploy
  \/ \E n \in Note :
       \/ PrepareDeposit(n) \/ ExportNote(n) \/ ImportNote(n)
       \/ SubmitDeposit(n) \/ FinalizeWithdrawal(n)
       \/ \E k \in Paths(n), recipient \in Recipients[n], relayer \in Relayers, fee \in Fees :
            PrepareWithdrawal(n, [note |-> n, leaves |-> k, recipient |-> recipient,
                                  relayer |-> relayer, fee |-> fee])
  \/ \E w, parties \in prepared : SubmitWithdrawal(w, parties)
  \/ \E tx \in inFlight : Execute(tx) \/ Lose(tx)
  \/ Crash

\* The user does not give up: what is lost is restored and tried again, with a
\* fresh path, and the network executes what is submitted again and again, and
\* does so now and then when the token does not refuse it.
Restore(n) == n \notin DOMAIN notes /\ ImportNote(n)

\* The contract takes the fee.
Accepted(fee) == FeeAllowed(fee) /\ fee <= config.denomination

Fresh(n) == {w \in prepared : w.note = n /\ w.leaves = NextLeafIndex /\ Accepted(w.fee)}

Refresh(n) ==
  /\ Fresh(n) = {}
  /\ \E recipient \in Recipients[n], relayer \in Relayers, fee \in Fees :
       /\ Accepted(fee)
       /\ PrepareWithdrawal(n, [note |-> n, leaves |-> NextLeafIndex,
                                recipient |-> recipient, relayer |-> relayer, fee |-> fee])

Fairness ==
  \A n \in Note :
    /\ SF_allVars(Restore(n))
    /\ SF_allVars(Refresh(n))
    /\ SF_allVars(\E w \in Fresh(n) : SubmitWithdrawal(w, w))
    /\ SF_allVars(\E w \in Fresh(n) :
                    Execute(WithdrawTx(w, w)) /\ result'.outcome # "Refused")
    /\ WF_allVars(\E tx \in inFlight : Lose(tx))

WalletSpec == WalletInit /\ [][WalletNext]_allVars /\ Fairness
-----------------------------------------------------------------------------
(***************************************************************************)
(* Properties.                                                             *)
(***************************************************************************)
\* The type invariant, and that nothing is shown as spent that is not.
WalletTypeOK ==
  /\ TypeOK
  /\ generated \subseteq Note
  /\ DOMAIN notes \subseteq generated /\ backups \subseteq generated
  /\ \A n \in DOMAIN notes : notes[n] \in BOOLEAN /\ (notes[n] => Withdrawn(n))
  /\ prepared \subseteq Withdrawal
  /\ \A w \in prepared : w.leaves \in Paths(w.note)
  /\ Cardinality(inFlight) <= MaxInFlight

\* The pool pays as the user has proved, whatever relayers mix up and however
\* often and late transactions are executed: every payment is made for a
\* proof to the recipient, relayer and fee it was prepared for; and no two payments are of one
\* note, although several may be prepared and each is submitted many times, as
\* long as nobody has had a nullifier spent under two words.
PaidAsProved ==
  /\ \A i \in DOMAIN paid : paid[i] \in prepared
  /\ SpentOnce => \A i, j \in DOMAIN paid : paid[i].note = paid[j].note => i = j

\* A deposit whose note was backed up comes back: through lost and repeated
\* transactions, roots that expire under a prepared proof, crashes of the wallet
\* and backups that show a spent note as unspent, a user who keeps trying to
\* withdraw it somewhere is paid, unless a nullifier is spent under two words.
Usable == initialized /\ VkLoaded /\ config.treeDepth = CircuitDepth

EveryDepositRedeemed ==
  []SpentOnce => \A n \in Note :
    (/\ Usable /\ n \in backups /\ Deposited(n)
     /\ Recipients[n] # {} /\ (\E fee \in Fees : Accepted(fee)))
      ~> Withdrawn(n)
=============================================================================
