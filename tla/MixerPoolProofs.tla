--------------------------- MODULE MixerPoolProofs ---------------------------
(***************************************************************************)
(* Proofs about the mixer pool, and about the wallet around it, for every  *)
(* value of their constants.  First the pool by itself, then the vault it  *)
(* implements, then the wallet.                                            *)
(***************************************************************************)
EXTENDS Wallet, FiniteSetTheorems, WellFoundedInduction, TLAPS

(***************************************************************************)
(* Powers of two, by induction.                                            *)
(***************************************************************************)
\* A set of natural numbers that is not empty has a least element.
LEMMA LeastElement ==
  ASSUME NEW T \in SUBSET Nat, T # {}
  PROVE  \E x \in T : \A y \in T : x <= y
<1>1. IsWellFoundedOn(OpToRel(<, Nat), Nat)
  BY NatLessThanWellFounded
<1>2. PICK x \in T : \A y \in T : ~ (<<y, x>> \in OpToRel(<, Nat))
  BY <1>1, WFMin, Zenon
<1>3. ASSUME NEW y \in T
      PROVE  ~(y < x)
  <2>1. y \in Nat /\ x \in Nat
    OBVIOUS
  <2>2. y < x => <<y, x>> \in OpToRel(<, Nat)
    BY <2>1, Zenon DEF OpToRel
  <2> QED
    BY <1>2, <2>2, Zenon
<1> QED
  BY <1>3

\* Induction, for a property given as the set of the numbers that have it.
LEMMA InductionOnNat ==
  ASSUME NEW S \in SUBSET Nat, 0 \in S, \A n \in S : n + 1 \in S
  PROVE  S = Nat
<1> SUFFICES ASSUME Nat \ S # {} PROVE FALSE
  OBVIOUS
<1>1. PICK x \in Nat \ S : \A y \in Nat \ S : x <= y
  BY LeastElement
<1>2. x # 0 /\ x - 1 \in Nat
  OBVIOUS
<1>3. x - 1 \in S
  BY <1>1, <1>2
<1> QED
  BY <1>3

\* g is a table of powers of two from 0 to n.
PowerTable(g, n) == g = [i \in 0 .. n |-> IF i = 0 THEN 1 ELSE 2 * g[i - 1]]

\* The recursion that defines the powers of two has a solution.
LEMMA Pow2Recursion == Pow2 = [n \in Nat |-> IF n = 0 THEN 1 ELSE 2 * Pow2[n - 1]]
<1>1. ASSUME NEW n \in Nat
      PROVE  \E g : PowerTable(g, n)
  <2> DEFINE S == {m \in Nat : \E g : PowerTable(g, m)}
  <2>1. 0 \in S
    <3> DEFINE g == [i \in 0 .. 0 |-> 1]
    <3>1. g = [i \in 0 .. 0 |-> IF i = 0 THEN 1 ELSE 2 * g[i - 1]]
      OBVIOUS
    <3> HIDE DEF g
    <3> QED
      BY <3>1 DEF PowerTable
  <2>2. ASSUME NEW m \in S
        PROVE  m + 1 \in S
    <3>1. PICK g : g = [i \in 0 .. m |-> IF i = 0 THEN 1 ELSE 2 * g[i - 1]]
      BY DEF PowerTable
    <3> DEFINE h == [i \in 0 .. m + 1 |-> IF i = m + 1 THEN 2 * g[m] ELSE g[i]]
    <3>2. h = [i \in 0 .. m + 1 |-> IF i = 0 THEN 1 ELSE 2 * h[i - 1]]
      BY <3>1
    <3> HIDE DEF h
    <3> QED
      BY <3>2 DEF PowerTable
  <2> HIDE DEF S
  <2>3. S = Nat
    BY <2>1, <2>2, InductionOnNat DEF S
  <2> QED
    BY <2>3 DEF S
<1>2. ASSUME NEW m \in Nat, NEW n \in Nat, NEW g, NEW h,
             PowerTable(g, m), PowerTable(h, n), NEW i \in Nat, i <= m, i <= n
      PROVE  g[i] = h[i]
  <2> DEFINE S == {j \in Nat : j <= m /\ j <= n => g[j] = h[j]}
  <2>1. 0 \in S
    BY <1>2 DEF PowerTable
  <2>2. ASSUME NEW j \in S
        PROVE  j + 1 \in S
    BY <1>2 DEF PowerTable
  <2> HIDE DEF S
  <2>3. S = Nat
    BY <2>1, <2>2, InductionOnNat DEF S
  <2> QED
    BY <1>2, <2>3 DEF S
<1> DEFINE t == [n \in Nat |-> CHOOSE g : PowerTable(g, n)]
           f == [n \in Nat |-> t[n][n]]
<1>3. ASSUME NEW n \in Nat
      PROVE  PowerTable(t[n], n)
  BY <1>1
<1>4. ASSUME NEW n \in Nat
      PROVE  f[n] = IF n = 0 THEN 1 ELSE 2 * f[n - 1]
  <2>1. f[n] = IF n = 0 THEN 1 ELSE 2 * t[n][n - 1]
    <3>1. f[n] = t[n][n]
      OBVIOUS
    <3>2. PowerTable(t[n], n)
      BY <1>3
    <3> HIDE DEF t, f
    <3> QED
      BY <3>1, <3>2 DEF PowerTable
  <2>2. n # 0 => t[n][n - 1] = f[n - 1]
    <3> SUFFICES ASSUME n # 0 PROVE t[n][n - 1] = f[n - 1]
      OBVIOUS
    <3>1. n - 1 \in Nat /\ n - 1 <= n /\ n - 1 <= n - 1
      OBVIOUS
    <3>2. f[n - 1] = t[n - 1][n - 1]
      BY <3>1
    <3> HIDE DEF t, f
    <3> QED
      BY <1>2, <1>3, <3>1, <3>2
  <2> QED
    BY <2>1, <2>2
<1>5. f = [n \in Nat |-> IF n = 0 THEN 1 ELSE 2 * f[n - 1]]
  <2>1. f = [n \in Nat |-> f[n]]
    OBVIOUS
  <2> HIDE DEF f
  <2> QED
    BY <1>4, <2>1
<1> HIDE DEF f
<1> QED
  BY <1>5 DEF Pow2

\* Powers of two are positive and double.
LEMMA Pow2Step ==
  /\ Pow2[0] = 1
  /\ \A n \in Nat : Pow2[n] \in Nat \ {0} /\ Pow2[n + 1] = 2 * Pow2[n]
<1>1. Pow2[0] = 1 /\ \A n \in Nat : Pow2[n + 1] = 2 * Pow2[n]
  <2>1. \A n \in Nat : Pow2[n] = IF n = 0 THEN 1 ELSE 2 * Pow2[n - 1]
    BY Pow2Recursion, Zenon
  <2>2. ASSUME NEW n \in Nat
        PROVE  Pow2[n + 1] = 2 * Pow2[n]
    <3>1. n + 1 \in Nat /\ n + 1 # 0 /\ (n + 1) - 1 = n
      OBVIOUS
    <3>2. Pow2[n + 1] = 2 * Pow2[(n + 1) - 1]
      BY <2>1, <3>1, Zenon
    <3> QED
      BY <3>1, <3>2
  <2> QED
    BY <2>1, <2>2
<1> DEFINE S == {n \in Nat : Pow2[n] \in Nat \ {0}}
<1>2. 0 \in S /\ \A n \in S : n + 1 \in S
  BY <1>1
<1> HIDE DEF S
<1>3. S = Nat
  BY <1>2, InductionOnNat DEF S
<1> QED
  BY <1>1, <1>3 DEF S

\* They grow.
LEMMA Pow2Grows ==
  ASSUME NEW m \in Nat, NEW n \in Nat, m < n
  PROVE  Pow2[m] < Pow2[n]
<1> DEFINE S == {k \in Nat : Pow2[m] < Pow2[m + 1 + k]}
<1>1. 0 \in S
  BY Pow2Step
<1>2. ASSUME NEW k \in S
      PROVE  k + 1 \in S
  <2>1. m + 1 + k \in Nat /\ m + 1 + (k + 1) = (m + 1 + k) + 1
    OBVIOUS
  <2>2. Pow2[m + 1 + (k + 1)] = 2 * Pow2[m + 1 + k] /\ Pow2[m + 1 + k] \in Nat \ {0}
    BY <2>1, Pow2Step
  <2> QED
    BY <2>2, Pow2Step
<1> HIDE DEF S
<1>3. S = Nat
  BY <1>1, <1>2, InductionOnNat DEF S
<1>4. n - m - 1 \in S /\ m + 1 + (n - m - 1) = n
  BY <1>3
<1> QED
  BY <1>4 DEF S
-----------------------------------------------------------------------------
(***************************************************************************)
(* A step is a successful call, a use of the token, or leaves the pool     *)
(* alone.                                                                  *)
(***************************************************************************)
Quiet ==
  /\ UNCHANGED poolVars
  /\ \/ UNCHANGED result
     \/ \E op \in Op, outcome \in Outcome : Answer(op, outcome)

\* Each failing branch of a call leaves the pool alone and answers an error;
\* the other branches are the four successful operations.
LEMMA StepCases ==
  ASSUME [Next]_vars
  PROVE  \/ Quiet
         \/ \E denomination \in Denominations, maxFee \in MaxFees,
               depth \in Depths, size \in HistorySizes :
              InitializeOk(denomination, maxFee, depth, size)
         \/ \E depositor \in Users, c \in Commitment : DepositOk(depositor, c)
         \/ \E root \in SeenRoots, nh \in NullifierHash,
               recipient, relayer \in Address, fee \in Fees :
              \E proof \in ProofsAgainst(PublicInputs(root, nh, recipient, relayer, fee)) :
                WithdrawOk(proof, root, nh, recipient, relayer, fee)
         \/ \E from \in Users, to \in Address :
              \E amount \in 1 .. balance[from] : TokenTransfer(from, to, amount)
<1>1. ASSUME NEW op \in Op, NEW outcome \in Outcome, Fail(op, outcome)
      PROVE  Quiet
  BY <1>1 DEF Fail, Quiet
<1>6. ASSUME NEW op \in Op, NEW outcome, TokenRefuses(op, outcome)
      PROVE  Quiet
  <2>1. "Refused" \in Outcome
    BY DEF Outcome
  <2> QED
    BY <1>6, <2>1 DEF TokenRefuses, Quiet
<1>2. CASE UNCHANGED vars
  BY <1>2 DEF vars, Quiet
<1>3. ASSUME NEW denomination \in Denominations, NEW maxFee \in MaxFees,
             NEW depth \in Depths, NEW size \in HistorySizes,
             Initialize(denomination, maxFee, depth, size)
      PROVE  Quiet \/ InitializeOk(denomination, maxFee, depth, size)
  <2>1. "initialize" \in Op /\ InitializeOutcome(denomination, depth, size) \in Outcome
    BY DEF Op, Outcome, InitializeOutcome
  <2> QED
    BY <1>1, <1>3, <2>1 DEF Initialize
<1>4. ASSUME NEW depositor \in Users, NEW c \in Commitment, Deposit(depositor, c)
      PROVE  Quiet \/ DepositOk(depositor, c)
  <2>1. "deposit" \in Op /\ DepositOutcome(depositor, c) \in Outcome
    BY DEF Op, Outcome, DepositOutcome
  <2> QED
    BY <1>1, <1>4, <1>6, <2>1 DEF Deposit
<1>5. ASSUME NEW proof, NEW root, NEW nh, NEW recipient, NEW relayer, NEW fee,
             Withdraw(proof, root, nh, recipient, relayer, fee)
      PROVE  Quiet \/ WithdrawOk(proof, root, nh, recipient, relayer, fee)
  <2>1. /\ "withdraw" \in Op
        /\ WithdrawOutcome(proof, root, nh, recipient, relayer, fee) \in Outcome
    BY DEF Op, Outcome, WithdrawOutcome
  <2> QED
    BY <1>1, <1>5, <1>6, <2>1 DEF Withdraw
<1> QED
  BY <1>2, <1>3, <1>4, <1>5 DEF Next
-----------------------------------------------------------------------------
(***************************************************************************)
(* The inductive invariant.                                                *)
(***************************************************************************)

\* What initialize has checked, and what holds before it is called.
Setup ==
  /\ initialized =>
       /\ config.denomination > 0
       /\ config.treeDepth \in 1 .. WordBits
       /\ config.rootHistorySize \in 1 .. Pow2[WordBits] - 1
  /\ ~initialized =>
       /\ config = Unset
       /\ leaves = <<>>
       /\ rootHistoryIndex = 0
       /\ DOMAIN rootHistory = {}

Capacity ==
  initialized =>
    NextLeafIndex = 0 \/ NextLeafIndex <= MaxLeaves(config.treeDepth)

\* The place in the buffer of the root that is j pushes old.
Slot(j) ==
  IF j < rootHistoryIndex THEN rootHistoryIndex - 1 - j
  ELSE rootHistoryIndex - 1 - j + config.rootHistorySize

Ages == {j \in 0 .. config.rootHistorySize - 1 : j <= NextLeafIndex}

\* The buffer read backwards from the index is the sequence of roots read
\* backwards from the current one, and it holds nothing else.
Ring ==
  initialized =>
    /\ rootHistoryIndex \in 0 .. config.rootHistorySize - 1
    /\ \A j \in Ages : /\ Slot(j) \in DOMAIN rootHistory
                       /\ rootHistory[Slot(j)] = RootAfter(NextLeafIndex - j)
    /\ \A i \in DOMAIN rootHistory : \E j \in Ages : i = Slot(j)

\* A withdrawal that has been announced has marked its nullifier.
WithdrawalsSpent ==
  \A i \in DOMAIN events :
    events[i].topic = "withdrawal" => events[i].nullifierHash \in nullifierSpent

\* The place of the deposit events, and how many there are up to the i-th event.
DepositsAt == {i \in DOMAIN events : events[i].topic = "deposit"}
NumberOf(i) == Cardinality({j \in DepositsAt : j <= i})

\* deposit's check for a duplicate knows every leaf.
LeavesInserted == \A i \in 1 .. NextLeafIndex : leaves[i] \in commitmentInserted

IInv ==
  /\ TypeOK
  /\ Setup
  /\ Capacity
  /\ Ring
  /\ SpentBacked
  /\ IsFiniteSet(nullifierSpent)
  /\ Solvent
  /\ WithdrawalsSpent
  /\ NoWordTwice
  /\ LeavesInserted
  /\ EventsReplay
\* The tree's capacity, a number of its slots that u32 can count.
LEMMA TreeSize ==
  ASSUME TypeOK
  PROVE  /\ MaxLeaves(config.treeDepth) \in Nat
         /\ Pow2[config.treeDepth] \in Nat /\ Pow2[WordBits] \in Nat
         /\ initialized /\ Setup =>
              /\ MaxLeaves(config.treeDepth) <= Pow2[config.treeDepth]
              /\ MaxLeaves(config.treeDepth) <= Pow2[WordBits] - 1
<1>1. config.treeDepth \in Nat /\ WordBits \in Nat
  BY NumberAssumption DEF TypeOK, Config
<1>2. Pow2[config.treeDepth] \in Nat \ {0} /\ Pow2[WordBits] \in Nat \ {0}
  BY <1>1, Pow2Step
<1>3. config.treeDepth < WordBits => Pow2[config.treeDepth] < Pow2[WordBits]
  BY <1>1, Pow2Grows
<1>4. initialized /\ Setup => config.treeDepth < WordBits \/ config.treeDepth = WordBits
  BY <1>1 DEF Setup
<1> QED
  BY <1>1, <1>2, <1>3, <1>4 DEF MaxLeaves
-----------------------------------------------------------------------------
(***************************************************************************)
(* The token.                                                              *)
(***************************************************************************)

\* A transfer that the token admits keeps balances natural and moves nothing
\* into or out of a third account.
LEMMA TransferLemma ==
  ASSUME NEW b \in [Address -> Nat], NEW from \in Address, NEW to \in Address,
         NEW amount \in Int, CanTransfer(b, from, amount)
  PROVE  /\ Transfer(b, from, to, amount) \in [Address -> Nat]
         /\ \A a \in Address \ {from} : Transfer(b, from, to, amount)[a] >= b[a]
         /\ Transfer(b, from, to, amount)[from] >= b[from] - amount
  BY DEF CanTransfer, Transfer

\* A call that withdraw pays costs the pool at most one denomination, and
\* leaves natural balances.
LEMMA PayoutLemma ==
  ASSUME TypeOK, NEW recipient \in Address, NEW relayer \in Address,
         NEW fee \in Int, fee >= 0, Payable(recipient, fee)
  PROVE  LET b == Transfer(AfterPayout(recipient, fee), Pool, relayer, fee)
         IN  /\ b \in [Address -> Nat]
             /\ b[Pool] >= balance[Pool] - config.denomination
<1> DEFINE mid == AfterPayout(recipient, fee)
           b == Transfer(mid, Pool, relayer, fee)
<1>1. /\ Pool \in Address
      /\ balance \in [Address -> Nat]
      /\ config.denomination \in Int
  BY AddressAssumption DEF TypeOK, Config
<1>2. /\ mid \in [Address -> Nat]
      /\ mid[Pool] >= balance[Pool] - (config.denomination - fee)
  BY <1>1, TransferLemma DEF Payable, AfterPayout
<1>3. /\ b \in [Address -> Nat]
      /\ b[Pool] >= mid[Pool] - fee
  <2> HIDE DEF mid
  <2>1. CanTransfer(mid, Pool, fee)
    BY DEF Payable, mid
  <2> QED
    BY <1>1, <1>2, <2>1, TransferLemma
<1>4. mid[Pool] \in Int /\ b[Pool] \in Int /\ balance[Pool] \in Int
  <2> HIDE DEF mid, b
  <2> QED
    BY <1>1, <1>2, <1>3
<1> HIDE DEF mid, b
<1>5. b[Pool] >= balance[Pool] - config.denomination
  BY <1>1, <1>2, <1>3, <1>4
<1> QED
  BY <1>3, <1>5 DEF mid, b

(***************************************************************************)
(* Type correctness.                                                       *)
(***************************************************************************)
LEMMA TypeInit == Init => TypeOK
<1> SUFFICES ASSUME Init PROVE TypeOK
  OBVIOUS
<1>1. Unset \in Config
  BY DEF Unset, Config
<1>2. [op |-> "none", outcome |-> "Ok"] \in [op : Op, outcome : Outcome]
  BY DEF Op, Outcome
<1>3. <<>> \in Seq(Commitment) /\ <<>> \in Seq(Event)
  OBVIOUS
<1>4. DOMAIN rootHistory = {}
  BY DEF Init
<1> QED
  BY <1>1, <1>2, <1>3, <1>4, AddressAssumption DEF Init, TypeOK

\* Pushing a root keeps the buffer's domain and index natural numbers.
LEMMA PushType ==
  ASSUME rootHistoryIndex \in Nat, DOMAIN rootHistory \subseteq Nat,
         NEW size \in Nat \ {0}, NEW root, PushRoot(root, size)
  PROVE  rootHistoryIndex' \in Nat /\ (DOMAIN rootHistory)' \subseteq Nat
<1>1. rootHistoryIndex' \in Nat
  BY DEF PushRoot
<1>2. DOMAIN (rootHistory') = DOMAIN rootHistory \cup {rootHistoryIndex}
  BY DEF PushRoot
<1> QED
  BY <1>1, <1>2

\* Every step keeps the types: no call drives a balance below zero.
LEMMA TypeStep ==
  ASSUME TypeOK, Setup, [Next]_vars
  PROVE  TypeOK'
<1> USE NumberAssumption, AddressAssumption
<1>1. CASE Quiet
  BY <1>1 DEF Quiet, poolVars, TypeOK, Answer
<1>2. ASSUME NEW denomination \in Denominations, NEW maxFee \in MaxFees,
             NEW depth \in Depths, NEW size \in HistorySizes,
             InitializeOk(denomination, maxFee, depth, size)
      PROVE  TypeOK'
  <2>1. size \in Nat \ {0} /\ depth \in Nat
    BY <1>2 DEF InitializeOk, InitializeOutcome
  <2>2. config' \in Config
    BY <1>2, <2>1 DEF InitializeOk, Config
  <2>3. result' \in [op : Op, outcome : Outcome]
    BY <1>2 DEF InitializeOk, Answer, Op, Outcome
  <2>4. rootHistoryIndex' \in Nat /\ (DOMAIN rootHistory)' \subseteq Nat
    BY <1>2, <2>1, PushType DEF InitializeOk, TypeOK
  <2> QED
    BY <1>2, <2>2, <2>3, <2>4 DEF InitializeOk, TypeOK
<1>3. ASSUME NEW depositor \in Users, NEW c \in Commitment, DepositOk(depositor, c)
      PROVE  TypeOK'
  <2>1. /\ initialized
        /\ CanTransfer(balance, depositor, config.denomination)
    BY <1>3 DEF DepositOk, DepositOutcome
  <2>2. config.denomination \in Int /\ config.rootHistorySize \in Nat \ {0}
    BY <2>1 DEF Setup, TypeOK, Config
  <2>3. balance' \in [Address -> Nat]
    BY <1>3, <2>1, <2>2, TransferLemma DEF DepositOk, TypeOK, Users
  <2>4. rootHistoryIndex' \in Nat /\ (DOMAIN rootHistory)' \subseteq Nat
    BY <1>3, <2>2, PushType DEF DepositOk, TypeOK
  <2>5. leaves' \in Seq(Commitment)
    BY <1>3 DEF DepositOk, TypeOK
  <2>6. events' \in Seq(Event)
    <3>1. DepositEvent(c, NextLeafIndex) \in Event
      BY DEF DepositEvent, Event, NextLeafIndex, TypeOK
    <3> QED
      BY <1>3, <3>1 DEF DepositOk, TypeOK
  <2>7. result' \in [op : Op, outcome : Outcome]
    BY <1>3 DEF DepositOk, Answer, Op, Outcome
  <2> QED
    BY <1>3, <2>3, <2>4, <2>5, <2>6, <2>7 DEF DepositOk, TypeOK
<1>4. ASSUME NEW nh \in NullifierHash, NEW recipient \in Address,
             NEW relayer \in Address, NEW fee \in Fees, NEW proof, NEW root,
             WithdrawOk(proof, root, nh, recipient, relayer, fee)
      PROVE  TypeOK'
  <2>1. fee \in Int /\ fee >= 0 /\ Payable(recipient, fee)
    BY <1>4 DEF WithdrawOk, WithdrawOutcome, IsNullifierSpent, FeeAllowed
  <2>2. balance' \in [Address -> Nat]
    BY <1>4, <2>1, PayoutLemma DEF WithdrawOk
  <2>3. events' \in Seq(Event)
    <3>1. WithdrawalEvent(nh) \in Event
      BY DEF WithdrawalEvent, Event
    <3> QED
      BY <1>4, <3>1 DEF WithdrawOk, TypeOK
  <2>4. result' \in [op : Op, outcome : Outcome]
    BY <1>4 DEF WithdrawOk, Answer, Op, Outcome
  <2> QED
    BY <1>4, <2>2, <2>3, <2>4 DEF WithdrawOk, TypeOK
<1>5. ASSUME NEW from \in Users, NEW to \in Address,
             NEW amount \in 1 .. balance[from], TokenTransfer(from, to, amount)
      PROVE  TypeOK'
  <2>1. balance' \in [Address -> Nat]
    <3>1. from \in Address /\ balance \in [Address -> Nat] /\ amount \in Int
      BY DEF Users, TypeOK
    <3> QED
      BY <1>5, <3>1, TransferLemma DEF TokenTransfer
  <2>2. result' \in [op : Op, outcome : Outcome]
    BY <1>5 DEF TokenTransfer, Answer, Op, Outcome
  <2> QED
    BY <1>5, <2>1, <2>2 DEF TokenTransfer, TypeOK
<1> QED
  BY <1>1, <1>2, <1>3, <1>4, <1>5, StepCases
-----------------------------------------------------------------------------
(***************************************************************************)
(* The conjuncts of IInv other than its type, one lemma each.              *)
(***************************************************************************)
LEMMA SetupStep ==
  ASSUME TypeOK, Setup, [Next]_vars
  PROVE  Setup'
<1> USE NumberAssumption DEF Setup
<1>1. CASE Quiet
  BY <1>1 DEF Quiet, poolVars
<1>2. ASSUME NEW denomination \in Denominations, NEW maxFee \in MaxFees,
             NEW depth \in Depths, NEW size \in HistorySizes,
             InitializeOk(denomination, maxFee, depth, size)
      PROVE  Setup'
  <2>1. /\ denomination > 0
        /\ depth \in 1 .. WordBits
        /\ size \in 1 .. Pow2[WordBits] - 1
    BY <1>2 DEF InitializeOk, InitializeOutcome
  <2> QED
    BY <1>2, <2>1 DEF InitializeOk
<1>3. ASSUME NEW depositor, NEW c, DepositOk(depositor, c)
      PROVE  Setup'
  BY <1>3 DEF DepositOk, DepositOutcome
<1>4. ASSUME NEW nh, NEW recipient, NEW relayer, NEW fee, NEW proof, NEW root,
             WithdrawOk(proof, root, nh, recipient, relayer, fee)
      PROVE  Setup'
  BY <1>4 DEF WithdrawOk
<1>5. ASSUME NEW from, NEW to, NEW amount, TokenTransfer(from, to, amount)
      PROVE  Setup'
  BY <1>5 DEF TokenTransfer
<1> QED
  BY <1>1, <1>2, <1>3, <1>4, <1>5, StepCases

\* A successful deposit finds the pool initialized, adds one leaf at the end
\* and moves none of the others.
LEMMA DepositLeaves ==
  ASSUME TypeOK, NEW depositor, NEW c \in Commitment, DepositOk(depositor, c)
  PROVE  /\ initialized /\ initialized'
         /\ NextLeafIndex \in Nat
         /\ NextLeafIndex < MaxLeaves(config.treeDepth)
         /\ NextLeafIndex' = NextLeafIndex + 1
         /\ \A i \in 1 .. NextLeafIndex : leaves'[i] = leaves[i]
         /\ leaves'[NextLeafIndex + 1] = c
<1>1. /\ initialized
      /\ ~(NextLeafIndex >= MaxLeaves(config.treeDepth))
  BY DEF DepositOk, DepositOutcome
<1>2. MaxLeaves(config.treeDepth) \in Int
  BY TreeSize
<1>3. leaves \in Seq(Commitment) /\ leaves' = Append(leaves, c)
  BY DEF DepositOk, TypeOK
<1>4. initialized' = initialized
  BY DEF DepositOk
<1> QED
  BY <1>1, <1>2, <1>3, <1>4 DEF NextLeafIndex

\* deposit never fills the tree beyond max_leaves.
LEMMA CapacityStep ==
  ASSUME TypeOK, Setup, Capacity, [Next]_vars
  PROVE  Capacity'
<1>1. CASE Quiet
  BY <1>1 DEF Quiet, poolVars, Capacity, NextLeafIndex
<1>2. ASSUME NEW denomination, NEW maxFee, NEW depth, NEW size,
             InitializeOk(denomination, maxFee, depth, size)
      PROVE  Capacity'
  <2>1. leaves' = <<>>
    BY <1>2 DEF InitializeOk, InitializeOutcome, Setup
  <2> QED
    BY <2>1 DEF Capacity, NextLeafIndex
<1>3. ASSUME NEW depositor, NEW c \in Commitment, DepositOk(depositor, c)
      PROVE  Capacity'
  <2>1. MaxLeaves(config.treeDepth) \in Int
    BY TreeSize
  <2>2. MaxLeaves(config.treeDepth)' = MaxLeaves(config.treeDepth)
    BY <1>3 DEF DepositOk
  <2> QED
    BY <1>3, <2>1, <2>2, DepositLeaves DEF Capacity
<1>4. ASSUME NEW nh, NEW recipient, NEW relayer, NEW fee, NEW proof, NEW root,
             WithdrawOk(proof, root, nh, recipient, relayer, fee)
      PROVE  Capacity'
  BY <1>4 DEF WithdrawOk, Capacity, NextLeafIndex
<1>5. ASSUME NEW from, NEW to, NEW amount, TokenTransfer(from, to, amount)
      PROVE  Capacity'
  BY <1>5 DEF TokenTransfer, Capacity, NextLeafIndex
<1> QED
  BY <1>1, <1>2, <1>3, <1>4, <1>5, StepCases

\* The root after k deposits never changes: later leaves do not reach back.
LEMMA RootStable ==
  ASSUME TypeOK, NEW depositor, NEW c \in Commitment, DepositOk(depositor, c),
         NEW k \in 0 .. NextLeafIndex
  PROVE  RootAfter(k)' = RootAfter(k)
<1>1. config' = config
  BY DEF DepositOk
<1>2. ASSUME NEW i \in 0 .. Pow2[config.treeDepth] - 1
      PROVE  (IF i < k THEN BytesToFr[leaves'[i + 1]] ELSE ZeroLeaf)
               = (IF i < k THEN BytesToFr[leaves[i + 1]] ELSE ZeroLeaf)
  BY <1>2, DepositLeaves
<1> QED
  BY <1>1, <1>2 DEF RootAfter, RootOf

\* push_root_history keeps the last roots in the slots their age gives them.
LEMMA RingStep ==
  ASSUME TypeOK, Setup, Ring, [Next]_vars
  PROVE  Ring'
<1>1. ASSUME UNCHANGED <<initialized, config, leaves, rootHistory, rootHistoryIndex>>
      PROVE  Ring'
  BY <1>1 DEF Ring, Slot, Ages, RootAfter, RootOf, NextLeafIndex
<1>2. CASE Quiet
  BY <1>1, <1>2 DEF Quiet, poolVars
<1>3. ASSUME NEW denomination, NEW maxFee, NEW depth \in Depths, NEW size \in HistorySizes,
             InitializeOk(denomination, maxFee, depth, size)
      PROVE  Ring'
  <2>1. /\ leaves' = <<>> /\ leaves = <<>>
        /\ rootHistoryIndex = 0
        /\ DOMAIN rootHistory = {}
        /\ size \in Nat \ {0}
    BY <1>3, NumberAssumption DEF InitializeOk, InitializeOutcome, Setup
  <2>2. config'.rootHistorySize = size /\ config'.treeDepth = depth
    BY <1>3 DEF InitializeOk
  <2>3. /\ DOMAIN (rootHistory') = {0}
        /\ rootHistory'[0] = RootOf(leaves, 0, depth)
        /\ rootHistoryIndex' = 1 % size
    BY <1>3, <2>1 DEF InitializeOk, PushRoot
  <2>4. rootHistoryIndex' = IF size = 1 THEN 0 ELSE 1
    BY <2>1, <2>3
  <2>5. Ages' = {0} /\ NextLeafIndex' = 0
    BY <2>1, <2>2 DEF Ages, NextLeafIndex
  <2>6. Slot(0)' = 0
    BY <2>1, <2>2, <2>4 DEF Slot
  <2>7. rootHistory'[0] = RootAfter(0)'
    BY <2>1, <2>2, <2>3 DEF RootAfter
  <2> QED
    BY <2>1, <2>2, <2>3, <2>4, <2>5, <2>6, <2>7 DEF Ring
<1>4. ASSUME NEW depositor, NEW c \in Commitment, DepositOk(depositor, c)
      PROVE  Ring'
  <2> DEFINE size == config.rootHistorySize
             n == NextLeafIndex
             idx == rootHistoryIndex
  <2>1. /\ initialized
        /\ n \in Nat
        /\ NextLeafIndex' = n + 1
    BY <1>4, DepositLeaves
  <2>2. size \in Nat \ {0} /\ config' = config
    BY <1>4, <2>1 DEF DepositOk, Setup, TypeOK, Config
  <2>3. idx \in 0 .. size - 1
    BY <2>1 DEF Ring
  <2>4. rootHistoryIndex' = IF idx + 1 = size THEN 0 ELSE idx + 1
    <3>1. rootHistoryIndex' = (idx + 1) % size
      BY <1>4 DEF DepositOk, PushRoot
    <3> QED
      BY <2>2, <2>3, <3>1
  <2>5. /\ DOMAIN (rootHistory') = DOMAIN rootHistory \cup {idx}
        /\ rootHistory'[idx] = RootAfter(NextLeafIndex)'
        /\ \A i \in DOMAIN rootHistory : i # idx => rootHistory'[i] = rootHistory[i]
    BY <1>4, <2>1, <2>2 DEF DepositOk, PushRoot, RootAfter
  <2>6. Slot(0)' = idx
    BY <2>2, <2>3, <2>4 DEF Slot
  <2>7. ASSUME NEW j \in 0 .. size - 2
        PROVE  Slot(j + 1)' = Slot(j) /\ Slot(j) # idx
    BY <2>2, <2>3, <2>4 DEF Slot
  <2>8. ASSUME NEW j \in Ages'
        PROVE  /\ Slot(j)' \in DOMAIN (rootHistory')
               /\ rootHistory'[Slot(j)'] = RootAfter(NextLeafIndex - j)'
    <3>1. CASE j = 0
      <4>1. NextLeafIndex' - j = NextLeafIndex'
        BY <2>1, <3>1
      <4>2. RootAfter(NextLeafIndex - j)' = RootAfter(NextLeafIndex)'
        BY <4>1 DEF RootAfter
      <4> QED
        BY <2>5, <2>6, <3>1, <4>2
    <3>2. CASE j # 0
      <4>1. j \in Nat /\ j - 1 \in 0 .. size - 2 /\ j - 1 \in Ages /\ j = (j - 1) + 1
        BY <2>1, <2>2, <3>2 DEF Ages
      <4>2. Slot(j)' = Slot(j - 1) /\ Slot(j - 1) # idx
        BY <4>1, <2>7
      <4>3. /\ Slot(j - 1) \in DOMAIN rootHistory
            /\ rootHistory[Slot(j - 1)] = RootAfter(n - (j - 1))
        BY <2>1, <4>1 DEF Ring
      <4>4. PICK k \in 0 .. n : k = n - (j - 1)
        BY <2>1, <4>1 DEF Ages
      <4>5. RootAfter(k)' = RootAfter(k)
        BY <1>4, RootStable
      <4>6. NextLeafIndex' - j = k
        BY <2>1, <4>1, <4>4
      <4>7. RootAfter(NextLeafIndex - j)' = RootAfter(k)'
        BY <4>6 DEF RootAfter
      <4> QED
        BY <2>5, <4>2, <4>3, <4>4, <4>5, <4>7
    <3> QED
      BY <3>1, <3>2
  <2>9. ASSUME NEW i \in DOMAIN (rootHistory')
        PROVE  \E j \in Ages' : i = Slot(j)'
    <3>1. CASE i = idx
      <4>1. 0 \in Ages'
        BY <2>1, <2>2 DEF Ages
      <4> QED
        BY <2>6, <3>1, <4>1
    <3>2. CASE i # idx
      <4>1. PICK j \in Ages : i = Slot(j)
        BY <2>1, <2>5, <3>2 DEF Ring
      <4>2. j # size - 1
        BY <2>2, <2>3, <3>2, <4>1 DEF Slot
      <4>3. j \in 0 .. size - 2 /\ j + 1 \in Ages'
        BY <2>1, <2>2, <4>2 DEF Ages
      <4> QED
        BY <2>7, <4>1, <4>3
    <3> QED
      BY <3>1, <3>2
  <2>10. rootHistoryIndex' \in 0 .. size - 1
    BY <2>2, <2>3, <2>4
  <2> QED
    BY <2>1, <2>2, <2>8, <2>9, <2>10 DEF Ring
<1>5. ASSUME NEW nh, NEW recipient, NEW relayer, NEW fee, NEW proof, NEW root,
             WithdrawOk(proof, root, nh, recipient, relayer, fee)
      PROVE  Ring'
  BY <1>1, <1>5 DEF WithdrawOk
<1>6. ASSUME NEW from, NEW to, NEW amount, TokenTransfer(from, to, amount)
      PROVE  Ring'
  BY <1>1, <1>6 DEF TokenTransfer
<1> QED
  BY <1>2, <1>3, <1>4, <1>5, <1>6, StepCases
-----------------------------------------------------------------------------
(***************************************************************************)
(* Withdrawals are backed by deposits.                                     *)
(***************************************************************************)

\* The root of every length of the tree is a row of the tree's depth.
LEMMA RootRow ==
  ASSUME TypeOK, NEW k \in 0 .. NextLeafIndex
  PROVE  RootAfter(k) \in Rows(config.treeDepth)
<1> DEFINE root == RootAfter(k)
           words == {BytesToFr[c] : c \in Commitment} \cup {ZeroLeaf}
<1>1. root = [i \in 0 .. Pow2[config.treeDepth] - 1 |->
                IF i < k THEN BytesToFr[leaves[i + 1]] ELSE ZeroLeaf]
  BY DEF RootAfter, RootOf
<1>2. NextLeafIndex \in Nat /\ Pow2[config.treeDepth] \in Nat
  BY TreeSize DEF TypeOK, NextLeafIndex
<1>3. ASSUME NEW i \in 0 .. Pow2[config.treeDepth] - 1
      PROVE  (IF i < k THEN BytesToFr[leaves[i + 1]] ELSE ZeroLeaf) \in words
  <2>1. CASE i < k
    <3>1. i + 1 \in 1 .. Len(leaves) /\ leaves \in Seq(Commitment)
      BY <1>2, <2>1 DEF TypeOK, NextLeafIndex
    <3>2. leaves[i + 1] \in Commitment
      BY <3>1
    <3> QED
      BY <2>1, <3>2
  <2> QED
    BY <2>1
<1> HIDE DEF words
<1>4. root \in [0 .. Pow2[config.treeDepth] - 1 -> words]
  BY <1>1, <1>3
<1> QED
  BY <1>4 DEF Rows, words

\* In a tree of the circuit's depth a note opens the root exactly if its
\* commitment is one of the leaves the root was computed from.
LEMMA OpenedLeaf ==
  ASSUME TypeOK, config.treeDepth = CircuitDepth,
         NEW k \in 0 .. NextLeafIndex, NEW n \in Note
  PROVE  /\ NextLeafIndex <= Pow2[config.treeDepth]
              /\ (\E i \in 1 .. k : BytesToFr[leaves[i]] = CommitmentOf[n])
            => Opens(n, RootAfter(k))
         /\ Opens(n, RootAfter(k)) =>
              \E i \in 1 .. k : BytesToFr[leaves[i]] = CommitmentOf[n]
<1> DEFINE root == RootAfter(k)
<1>1. root \in Rows(CircuitDepth)
  BY RootRow
<1>2. root = [i \in 0 .. Pow2[config.treeDepth] - 1 |->
                IF i < k THEN BytesToFr[leaves[i + 1]] ELSE ZeroLeaf]
  BY DEF RootAfter, RootOf
<1> HIDE DEF root
<1>3. Opens(n, root) <=> \E p \in DOMAIN root : root[p] = CommitmentOf[n]
  BY <1>1, CircuitAssumption, Zenon
<1>4. CommitmentOf[n] # ZeroLeaf
  BY HashAssumption
<1>5. NextLeafIndex \in Nat /\ Pow2[config.treeDepth] \in Nat
  BY TreeSize DEF TypeOK, NextLeafIndex
<1>6. ASSUME NEW p \in DOMAIN root, root[p] = CommitmentOf[n]
      PROVE  \E i \in 1 .. k : BytesToFr[leaves[i]] = CommitmentOf[n]
  <2>1. p \in Nat /\ p < k /\ root[p] = BytesToFr[leaves[p + 1]]
    BY <1>2, <1>4, <1>5, <1>6
  <2>2. p + 1 \in 1 .. k /\ BytesToFr[leaves[p + 1]] = CommitmentOf[n]
    BY <1>5, <1>6, <2>1
  <2> QED
    BY <2>2
<1>7. ASSUME NextLeafIndex <= Pow2[config.treeDepth],
             NEW i \in 1 .. k, BytesToFr[leaves[i]] = CommitmentOf[n]
      PROVE  \E p \in DOMAIN root : root[p] = CommitmentOf[n]
  <2>1. i - 1 \in 0 .. Pow2[config.treeDepth] - 1 /\ i - 1 < k /\ (i - 1) + 1 = i
    BY <1>5, <1>7
  <2>2. i - 1 \in DOMAIN root /\ root[i - 1] = BytesToFr[leaves[i]]
    BY <1>2, <2>1
  <2> QED
    BY <1>7, <2>2
<1>8. (\E p \in DOMAIN root : root[p] = CommitmentOf[n]) =>
        \E i \in 1 .. k : BytesToFr[leaves[i]] = CommitmentOf[n]
  BY <1>6, Zenon
<1>9. NextLeafIndex <= Pow2[config.treeDepth]
         /\ (\E i \in 1 .. k : BytesToFr[leaves[i]] = CommitmentOf[n])
      => \E p \in DOMAIN root : root[p] = CommitmentOf[n]
  BY <1>7, Zenon
<1> QED
  BY <1>3, <1>8, <1>9, Zenon DEF root

\* If the depth fits, a proof accepted against a root of the buffer opens a
\* deposited leaf.
LEMMA ProofBacked ==
  ASSUME TypeOK, Setup, Ring, initialized, CircuitFits,
         NEW root \in KnownRoots, NEW nh, NEW recipient, NEW relayer, NEW fee,
         NEW proof \in ProofsAgainst(PublicInputs(root, nh, recipient, relayer, fee)),
         VerifyProof(proof, PublicInputs(root, nh, recipient, relayer, fee))
  PROVE  \E n \in Note, i \in 1 .. NextLeafIndex :
           /\ NullifierHashOf[n] = BytesToFr[nh]
           /\ BytesToFr[leaves[i]] = CommitmentOf[n]
<1> DEFINE inputs == PublicInputs(root, nh, recipient, relayer, fee)
<1>1. Circuit(inputs)
  <2> HIDE DEF inputs
  <2>1. PICK b \in BOOLEAN : (b => Circuit(inputs)) /\ proof = Proof(b, inputs)
    BY Zenon DEF ProofsAgainst, inputs
  <2>2. proof.decodes
    BY Zenon DEF VerifyProof
  <2>3. proof.decodes = b
    BY <2>1, Zenon DEF Proof
  <2> QED
    BY <2>1, <2>2, <2>3, Zenon
<1>2. inputs.nullifierHash = BytesToFr[nh] /\ inputs.root = root
  BY DEF PublicInputs
<1>3. PICK n \in Note : NullifierHashOf[n] = BytesToFr[nh] /\ Opens(n, root)
  <2> HIDE DEF inputs
  <2> QED
    BY <1>1, <1>2, Zenon DEF Circuit
<1>4. PICK j \in Ages : root = RootAfter(NextLeafIndex - j)
  BY DEF KnownRoots, Ring
<1>5. NextLeafIndex \in Nat /\ NextLeafIndex - j \in 0 .. NextLeafIndex
  BY DEF NextLeafIndex, TypeOK, Ages
<1>6. config.treeDepth = CircuitDepth
  BY DEF CircuitFits
<1>7. PICK i \in 1 .. NextLeafIndex - j : BytesToFr[leaves[i]] = CommitmentOf[n]
  BY <1>3, <1>4, <1>5, <1>6, OpenedLeaf, Zenon
<1>8. i \in 1 .. NextLeafIndex
  BY <1>5
<1> QED
  BY <1>3, <1>7, <1>8, Zenon

\* A spent nullifier keeps the deposit behind it; a new one has one, by its proof.
LEMMA SpentBackedStep ==
  ASSUME TypeOK, Setup, Ring, SpentBacked, [Next]_vars
  PROVE  SpentBacked'
<1>1. ASSUME UNCHANGED <<initialized, config, leaves, nullifierSpent>>
      PROVE  SpentBacked'
  BY <1>1 DEF SpentBacked, CircuitFits, WithdrawnWasDeposited, NextLeafIndex
<1>2. CASE Quiet
  BY <1>1, <1>2 DEF Quiet, poolVars
<1>3. ASSUME NEW denomination, NEW maxFee, NEW depth, NEW size,
             InitializeOk(denomination, maxFee, depth, size)
      PROVE  SpentBacked'
  <2>1. ~initialized
    BY <1>3 DEF InitializeOk, InitializeOutcome
  <2>2. WithdrawnWasDeposited
    BY <2>1 DEF SpentBacked, CircuitFits
  <2>3. leaves' = leaves /\ nullifierSpent' = nullifierSpent
    BY <1>3 DEF InitializeOk
  <2> QED
    BY <2>2, <2>3 DEF SpentBacked, WithdrawnWasDeposited, NextLeafIndex
<1>4. ASSUME NEW depositor, NEW c \in Commitment, DepositOk(depositor, c)
      PROVE  SpentBacked'
  <2>1. /\ nullifierSpent' = nullifierSpent
        /\ CircuitFits' = CircuitFits
    BY <1>4 DEF DepositOk, CircuitFits
  <2>2. /\ NextLeafIndex \in Nat /\ NextLeafIndex' = NextLeafIndex + 1
        /\ \A i \in 1 .. NextLeafIndex : leaves'[i] = leaves[i]
    BY <1>4, DepositLeaves
  <2>3. \A i \in 1 .. NextLeafIndex : i \in 1 .. NextLeafIndex'
    BY <2>2
  <2> QED
    BY <2>1, <2>2, <2>3 DEF SpentBacked, WithdrawnWasDeposited
<1>5. ASSUME NEW nh, NEW recipient, NEW relayer, NEW fee, NEW root,
             NEW proof \in ProofsAgainst(PublicInputs(root, nh, recipient, relayer, fee)),
             WithdrawOk(proof, root, nh, recipient, relayer, fee)
      PROVE  SpentBacked'
  <2>1. /\ initialized
        /\ root \in KnownRoots
        /\ VerifyProof(proof, PublicInputs(root, nh, recipient, relayer, fee))
    BY <1>5 DEF WithdrawOk, WithdrawOutcome, IsNullifierSpent, FeeAllowed
  <2>2. CircuitFits =>
          \E n \in Note, i \in 1 .. NextLeafIndex :
            NullifierHashOf[n] = BytesToFr[nh] /\ BytesToFr[leaves[i]] = CommitmentOf[n]
    BY <2>1, ProofBacked
  <2>3. /\ nullifierSpent' = nullifierSpent \cup {nh} /\ leaves' = leaves
        /\ CircuitFits' = CircuitFits
    BY <1>5 DEF WithdrawOk, CircuitFits
  <2> QED
    BY <2>2, <2>3 DEF SpentBacked, WithdrawnWasDeposited, NextLeafIndex
<1>6. ASSUME NEW from, NEW to, NEW amount, TokenTransfer(from, to, amount)
      PROVE  SpentBacked'
  BY <1>1, <1>6 DEF TokenTransfer
<1> QED
  BY <1>2, <1>3, <1>4, <1>5, <1>6, StepCases

\* Counting: a set of field elements, each the nullifier hash of a note whose
\* commitment is among the leaves, is no larger than the number of leaves.  A leaf
\* stands for one note, and a note for one nullifier hash.
LEMMA Backing ==
  ASSUME NEW ls \in Seq(Commitment), NEW S,
         \A r \in S : \E n \in Note, i \in 1 .. Len(ls) :
           NullifierHashOf[n] = r /\ BytesToFr[ls[i]] = CommitmentOf[n]
  PROVE  /\ IsFiniteSet(S)
         /\ Cardinality(S) \in Nat
         /\ Cardinality(S) <= Len(ls)
<1>1. Len(ls) \in Nat
  OBVIOUS
<1>2. CASE S = {}
  BY <1>1, <1>2, FS_EmptySet
<1>3. CASE S # {}
  <2> DEFINE Matches(i, r) ==
               \E n \in Note : /\ NullifierHashOf[n] = r
                              /\ BytesToFr[ls[i]] = CommitmentOf[n]
             f == [i \in 1 .. Len(ls) |->
                     IF \E r \in S : Matches(i, r)
                     THEN CHOOSE r \in S : Matches(i, r)
                     ELSE CHOOSE r \in S : TRUE]
  <2>1. f \in [1 .. Len(ls) -> S]
    BY <1>3
  <2>2. ASSUME NEW i \in 1 .. Len(ls), NEW v \in S, NEW w \in S,
               Matches(i, v), Matches(i, w)
        PROVE  v = w
    <3>1. PICK m \in Note :
            NullifierHashOf[m] = v /\ BytesToFr[ls[i]] = CommitmentOf[m]
      BY <2>2
    <3>2. PICK n \in Note :
            NullifierHashOf[n] = w /\ BytesToFr[ls[i]] = CommitmentOf[n]
      BY <2>2
    <3>3. m = n
      <4>1. CommitmentOf[m] = CommitmentOf[n]
        BY <3>1, <3>2
      <4> HIDE DEF f, Matches
      <4> QED
        BY <4>1, HashAssumption
    <3> HIDE DEF f, Matches
    <3> QED
      BY <3>1, <3>2, <3>3
  <2>3. ASSUME NEW r \in S
        PROVE  \E i \in 1 .. Len(ls) : f[i] = r
    <3>1. PICK i \in 1 .. Len(ls) : Matches(i, r)
      OBVIOUS
    <3>2. f[i] \in S /\ Matches(i, f[i])
      <4>1. f[i] = CHOOSE v \in S : Matches(i, v)
        BY <3>1
      <4> HIDE DEF f, Matches
      <4> QED
        BY <3>1, <4>1
    <3> QED
      BY <2>2, <3>1, <3>2
  <2>4. f \in Surjection(1 .. Len(ls), S)
    <3> HIDE DEF f
    <3> QED
      BY <2>1, <2>3 DEF Surjection
  <2>5. IsFiniteSet(S) /\ Cardinality(S) <= Len(ls)
    <3>1. /\ IsFiniteSet(1 .. Len(ls))
          /\ Cardinality(1 .. Len(ls)) = Len(ls)
      <4>1. /\ IsFiniteSet(1 .. Len(ls))
            /\ Cardinality(1 .. Len(ls)) =
                  IF 1 > Len(ls) THEN 0 ELSE Len(ls) - 1 + 1
        BY <1>1, FS_Interval
      <4> QED
        BY <1>1, <4>1
    <3> HIDE DEF f
    <3> QED
      BY <2>4, <3>1, FS_Surjection
  <2> QED
    BY <2>5, FS_CardinalityType
<1> QED
  BY <1>2, <1>3

\* The field elements that a set of words are read as.
Residues(S) == {BytesToFr[nh] : nh \in S}

\* Words no two of which are read alike are as many as what they are read as.
LEMMA AsManyResidues ==
  ASSUME NEW S, IsFiniteSet(S),
         \A v, w \in S : BytesToFr[v] = BytesToFr[w] => v = w
  PROVE  Cardinality(Residues(S)) = Cardinality(S)
<1> DEFINE f == [nh \in S |-> BytesToFr[nh]]
<1>1. f \in Surjection(S, Residues(S))
  BY DEF Surjection, Residues
<1>2. f \in Injection(S, Residues(S))
  BY DEF Injection, IsInjective, Residues
<1> HIDE DEF f
<1> QED
  BY <1>1, <1>2, FS_Surjection

\* If the depth fits, no more nullifiers are spent than leaves inserted, and one
\* more that is backed by a deposit makes no difference.
LEMMA SpentCounted ==
  ASSUME TypeOK, WithdrawnWasDeposited, NEW T \in SUBSET NullifierHash,
         \A nh \in T : \E n \in Note, i \in 1 .. NextLeafIndex :
           NullifierHashOf[n] = BytesToFr[nh] /\ BytesToFr[leaves[i]] = CommitmentOf[n]
  PROVE  /\ Cardinality(Residues(nullifierSpent \cup T)) \in Nat
         /\ Cardinality(Residues(nullifierSpent \cup T)) <= NextLeafIndex
<1> DEFINE S == Residues(nullifierSpent \cup T)
<1>1. leaves \in Seq(Commitment)
  BY DEF TypeOK
<1>2. \A r \in S : \E n \in Note, i \in 1 .. Len(leaves) :
        NullifierHashOf[n] = r /\ BytesToFr[leaves[i]] = CommitmentOf[n]
  BY DEF WithdrawnWasDeposited, NextLeafIndex, Residues
<1> HIDE DEF S
<1>3. Cardinality(S) \in Nat /\ Cardinality(S) <= Len(leaves)
  BY <1>1, <1>2, Backing
<1> QED
  BY <1>3 DEF S, NextLeafIndex

\* What the pool owes: denomination * (deposits - withdrawals).
LEMMA DebtStep ==
  ASSUME NEW d \in Int, NEW n \in Int, NEW s \in Int
  PROVE  /\ d * (n + 1 - s) = d * (n - s) + d
         /\ d * (n - (s + 1)) = d * (n - s) - d
<1>1. n - s \in Int /\ n + 1 - s = (n - s) + 1 /\ n - (s + 1) = (n - s) - 1
  OBVIOUS
<1>2. ASSUME NEW k \in Int
      PROVE  d * (k + 1) = d * k + d /\ d * (k - 1) = d * k - d
  OBVIOUS
<1> QED
  BY <1>1, <1>2

\* Every call leaves the pool with what it owes, and marks one word at most.
LEMMA SolventStep ==
  ASSUME TypeOK, Setup, SpentBacked, IsFiniteSet(nullifierSpent), Solvent, [Next]_vars,
         SpentBacked', TypeOK'
  PROVE  Solvent' /\ IsFiniteSet(nullifierSpent')
<1> DEFINE spent == Cardinality(nullifierSpent)
           debt == config.denomination * (NextLeafIndex - spent)
           Goal == Solvent' /\ IsFiniteSet(nullifierSpent')
<1>1. /\ spent \in Nat
      /\ CircuitFits' => Cardinality(SpentElements)' <= NextLeafIndex'
  <2>1. leaves' \in Seq(Commitment)
    BY DEF TypeOK
  <2>2. ASSUME CircuitFits'
        PROVE  Cardinality(SpentElements)' <= NextLeafIndex'
    <3>1. \A r \in SpentElements' : \E n \in Note, i \in 1 .. Len(leaves') :
            NullifierHashOf[n] = r /\ BytesToFr[leaves'[i]] = CommitmentOf[n]
      BY <2>2 DEF SpentBacked, WithdrawnWasDeposited, SpentElements, NextLeafIndex
    <3> QED
      BY <2>1, <3>1, Backing DEF NextLeafIndex
  <2> QED
    BY <2>2, FS_CardinalityType
<1>2. /\ config.denomination \in Int /\ NextLeafIndex \in Nat
      /\ balance[Pool] \in Int /\ balance'[Pool] \in Int
      /\ Pool \in Address /\ balance \in [Address -> Nat]
  BY AddressAssumption DEF TypeOK, Config, NextLeafIndex
<1>3. debt \in Int /\ balance[Pool] >= debt
  BY <1>1, <1>2 DEF Solvent
<1>4. ASSUME UNCHANGED <<config, leaves, nullifierSpent>>, balance'[Pool] >= balance[Pool]
      PROVE  Goal
  <2>1. debt' = debt
    BY <1>4 DEF NextLeafIndex
  <2> HIDE DEF debt
  <2>2. balance'[Pool] >= debt'
    BY <1>2, <1>3, <1>4, <2>1
  <2> QED
    BY <1>1, <1>4, <2>2 DEF Solvent, debt
<1>5. CASE Quiet
  BY <1>2, <1>4, <1>5 DEF Quiet, poolVars
<1>6. ASSUME NEW denomination \in Denominations, NEW maxFee, NEW depth, NEW size,
             InitializeOk(denomination, maxFee, depth, size)
      PROVE  Goal
  <2>1. /\ leaves = <<>> /\ leaves' = leaves
        /\ nullifierSpent' = nullifierSpent
        /\ balance' = balance
        /\ config'.denomination = denomination
    BY <1>6 DEF InitializeOk, InitializeOutcome, Setup
  <2>2. NextLeafIndex = 0 /\ NextLeafIndex' = 0 /\ spent = 0 /\ spent' = 0
    <3>1. ~initialized
      BY <1>6 DEF InitializeOk, InitializeOutcome
    <3>2. nullifierSpent = {}
      BY <2>1, <3>1 DEF SpentBacked, CircuitFits, WithdrawnWasDeposited, NextLeafIndex
    <3> QED
      BY <2>1, <3>2, FS_EmptySet DEF NextLeafIndex
  <2>3. denomination \in Int
    BY NumberAssumption
  <2>4. debt' = 0
    BY <2>1, <2>2, <2>3
  <2>5. balance'[Pool] >= 0
    BY <1>2, <2>1
  <2> HIDE DEF debt
  <2>6. balance'[Pool] >= debt'
    BY <2>4, <2>5
  <2> QED
    BY <1>1, <2>1, <2>6 DEF Solvent, debt
<1>7. ASSUME NEW depositor \in Users, NEW c \in Commitment, DepositOk(depositor, c)
      PROVE  Goal
  <2>1. /\ NextLeafIndex' = NextLeafIndex + 1
        /\ config' = config /\ nullifierSpent' = nullifierSpent
    BY <1>7, DepositLeaves DEF DepositOk
  <2>2. balance'[Pool] = balance[Pool] + config.denomination
    <3>1. depositor \in Address /\ depositor # Pool
      BY DEF Users
    <3> QED
      BY <1>2, <1>7, <3>1 DEF DepositOk, Transfer
  <2>3. debt' = debt + config.denomination
    BY <1>1, <1>2, <2>1, DebtStep
  <2> HIDE DEF debt
  <2>4. balance'[Pool] >= debt'
    BY <1>2, <1>3, <2>2, <2>3
  <2> QED
    BY <1>1, <2>1, <2>4 DEF Solvent, debt
<1>8. ASSUME NEW nh \in NullifierHash, NEW recipient \in Address,
             NEW relayer \in Address, NEW fee \in Fees, NEW proof, NEW root,
             WithdrawOk(proof, root, nh, recipient, relayer, fee)
      PROVE  Goal
  <2>1. /\ nh \notin nullifierSpent
        /\ fee \in Int /\ fee >= 0
        /\ Payable(recipient, fee)
    BY <1>8, NumberAssumption DEF WithdrawOk, WithdrawOutcome, IsNullifierSpent, FeeAllowed
  <2>2. spent' = spent + 1
    BY <1>8, <2>1, FS_AddElement DEF WithdrawOk
  <2>3. NextLeafIndex' = NextLeafIndex /\ config' = config
    BY <1>8 DEF WithdrawOk, NextLeafIndex
  <2>4. debt' = debt - config.denomination
    BY <1>1, <1>2, <2>2, <2>3, DebtStep
  <2>5. balance'[Pool] >= balance[Pool] - config.denomination
    BY <1>8, <2>1, PayoutLemma DEF WithdrawOk
  <2> HIDE DEF debt
  <2>6. balance'[Pool] >= debt'
    BY <1>2, <1>3, <2>4, <2>5
  <2>7. IsFiniteSet(nullifierSpent')
    BY <1>8, FS_AddElement DEF WithdrawOk
  <2> QED
    BY <1>1, <2>6, <2>7 DEF Solvent, debt
<1>9. ASSUME NEW from \in Users, NEW to \in Address,
             NEW amount \in 1 .. balance[from], TokenTransfer(from, to, amount)
      PROVE  Goal
  <2>1. from \in Address /\ from # Pool /\ amount \in Int
    BY <1>2 DEF Users
  <2>2. balance'[Pool] >= balance[Pool]
    BY <1>2, <1>9, <2>1, TransferLemma DEF TokenTransfer
  <2> QED
    BY <1>4, <1>9, <2>2 DEF TokenTransfer
<1> QED
  BY <1>5, <1>6, <1>7, <1>8, <1>9, StepCases
\* While one more withdrawal is backed by a deposit, the pool can pay it, if no
\* nullifier has been spent under two words.
LEMMA Affordable ==
  ASSUME TypeOK, Setup, SpentBacked, IsFiniteSet(nullifierSpent), Solvent, initialized,
         CircuitFits, SpentOnce,
         NEW nh \in NullifierHash, BytesToFr[nh] \notin SpentElements,
         \E n \in Note, i \in 1 .. NextLeafIndex :
           NullifierHashOf[n] = BytesToFr[nh] /\ BytesToFr[leaves[i]] = CommitmentOf[n],
         NEW recipient \in Address, NEW fee \in Int,
         0 <= fee, fee <= config.denomination
  PROVE  Payable(recipient, fee)
<1> DEFINE spent == Cardinality(nullifierSpent)
           owing == NextLeafIndex - spent
           d == config.denomination
<1>1. /\ d \in Int /\ d > 0 /\ NextLeafIndex \in Nat
      /\ Pool \in Address /\ balance \in [Address -> Nat]
  BY AddressAssumption DEF TypeOK, Config, NextLeafIndex, Setup
<1>2. spent \in Nat
  BY FS_CardinalityType
<1>3. Cardinality(nullifierSpent \cup {nh}) <= NextLeafIndex
  <2>1. {nh} \in SUBSET NullifierHash /\ WithdrawnWasDeposited
    BY DEF SpentBacked
  <2>2. Cardinality(Residues(nullifierSpent \cup {nh})) <= NextLeafIndex
    BY <2>1, SpentCounted
  <2>3. IsFiniteSet(nullifierSpent \cup {nh})
    BY FS_AddElement
  <2>4. \A v, w \in nullifierSpent \cup {nh} : BytesToFr[v] = BytesToFr[w] => v = w
    BY DEF SpentOnce, SpentElements
  <2> QED
    BY <2>2, <2>3, <2>4, AsManyResidues
<1>4. owing \in Int /\ owing >= 1
  <2>1. nh \notin nullifierSpent
    BY DEF SpentElements
  <2>2. Cardinality(nullifierSpent \cup {nh}) = spent + 1
    BY <2>1, FS_AddElement
  <2> QED
    BY <1>1, <1>2, <1>3, <2>2
<1>5. balance[Pool] \in Int /\ balance[Pool] >= d * owing
  BY <1>1 DEF Solvent
<1> HIDE DEF owing, d
<1>6. d * owing >= d
  <2>1. owing - 1 \in Nat /\ owing = (owing - 1) + 1 /\ d \in Nat
    BY <1>1, <1>4
  <2>2. ASSUME NEW k \in Nat
        PROVE  d * (k + 1) = d * k + d /\ d * k >= 0
    BY <2>1
  <2> HIDE DEF owing
  <2>3. d * ((owing - 1) + 1) = d * (owing - 1) + d /\ d * (owing - 1) >= 0
    BY <2>1, <2>2
  <2>4. d * (owing - 1) \in Int
    BY <2>1
  <2> QED
    BY <2>1, <2>3, <2>4
<1>7. d * owing \in Int
  BY <1>1, <1>4
<1>8. balance[Pool] >= d
  BY <1>1, <1>5, <1>6, <1>7
<1>9. d - fee \in Int /\ CanTransfer(balance, Pool, d - fee)
  BY <1>1, <1>5, <1>8 DEF CanTransfer, d
<1>10. /\ AfterPayout(recipient, fee) \in [Address -> Nat]
       /\ AfterPayout(recipient, fee)[Pool] >= balance[Pool] - (d - fee)
  BY <1>1, <1>9, TransferLemma DEF AfterPayout, d
<1>11. CanTransfer(AfterPayout(recipient, fee), Pool, fee)
  <2>1. AfterPayout(recipient, fee)[Pool] \in Int
    BY <1>1, <1>10
  <2> QED
    BY <1>1, <1>5, <1>8, <1>10, <2>1 DEF CanTransfer
<1> QED
  BY <1>9, <1>11 DEF Payable, d

\* Withdrawal events carry spent nullifiers, each once.
LEMMA WithdrawalsStep ==
  ASSUME TypeOK, WithdrawalsSpent, NoWordTwice, [Next]_vars
  PROVE  WithdrawalsSpent' /\ NoWordTwice'
<1>1. ASSUME UNCHANGED <<nullifierSpent, events>>
      PROVE  WithdrawalsSpent' /\ NoWordTwice'
  BY <1>1 DEF WithdrawalsSpent, NoWordTwice
<1>2. CASE Quiet
  BY <1>1, <1>2 DEF Quiet, poolVars
<1>3. ASSUME NEW denomination, NEW maxFee, NEW depth, NEW size,
             InitializeOk(denomination, maxFee, depth, size)
      PROVE  WithdrawalsSpent' /\ NoWordTwice'
  BY <1>1, <1>3 DEF InitializeOk
<1>4. events \in Seq(Event)
  BY DEF TypeOK
<1>5. ASSUME NEW e, events' = Append(events, e)
      PROVE  /\ DOMAIN events = 1 .. Len(events)
             /\ DOMAIN (events') = 1 .. Len(events) + 1
             /\ \A i \in DOMAIN events : events'[i] = events[i]
             /\ events'[Len(events) + 1] = e
  BY <1>4, <1>5
<1>6. ASSUME NEW depositor, NEW c, DepositOk(depositor, c)
      PROVE  WithdrawalsSpent' /\ NoWordTwice'
  <2>1. /\ events' = Append(events, DepositEvent(c, NextLeafIndex))
        /\ nullifierSpent' = nullifierSpent
    BY <1>6 DEF DepositOk
  <2>2. DepositEvent(c, NextLeafIndex).topic # "withdrawal"
    BY DEF DepositEvent
  <2> QED
    BY <1>4, <1>5, <2>1, <2>2 DEF WithdrawalsSpent, NoWordTwice
<1>7. ASSUME NEW nh \in NullifierHash, NEW recipient, NEW relayer, NEW fee, NEW proof,
             NEW root, WithdrawOk(proof, root, nh, recipient, relayer, fee)
      PROVE  WithdrawalsSpent' /\ NoWordTwice'
  <2> DEFINE last == Len(events) + 1
  <2>1. /\ events' = Append(events, WithdrawalEvent(nh))
        /\ nullifierSpent' = nullifierSpent \cup {nh}
        /\ nh \notin nullifierSpent
    BY <1>7 DEF WithdrawOk, WithdrawOutcome, IsNullifierSpent, FeeAllowed
  <2>2. WithdrawalEvent(nh).nullifierHash = nh
    BY DEF WithdrawalEvent
  <2>3. /\ DOMAIN events = 1 .. Len(events)
        /\ DOMAIN (events') = 1 .. last
        /\ \A i \in DOMAIN events : events'[i] = events[i]
        /\ events'[last].nullifierHash = nh
    BY <1>5, <2>1, <2>2
  <2>4. WithdrawalsSpent'
    BY <1>4, <2>1, <2>3 DEF WithdrawalsSpent
  <2>5. ASSUME NEW i \in DOMAIN events, events'[i].topic = "withdrawal"
        PROVE  events'[i].nullifierHash # nh
    BY <2>1, <2>3, <2>5 DEF WithdrawalsSpent
  <2>6. ASSUME NEW i \in 1 .. last, NEW j \in 1 .. last,
               events'[i].topic = "withdrawal", events'[j].topic = "withdrawal",
               events'[i].nullifierHash = events'[j].nullifierHash
        PROVE  i = j
    <3>1. last \in Nat /\ (i \in DOMAIN events \/ i = last)
                       /\ (j \in DOMAIN events \/ j = last)
      BY <1>4, <2>3
    <3>2. CASE i \in DOMAIN events /\ j \in DOMAIN events
      <4>1. events'[i] = events[i] /\ events'[j] = events[j]
        BY <2>3, <3>2
      <4> QED
        BY <2>6, <3>2, <4>1 DEF NoWordTwice
    <3>3. CASE i = last /\ j \in DOMAIN events
      BY <2>3, <2>5, <2>6, <3>3
    <3>4. CASE i \in DOMAIN events /\ j = last
      BY <2>3, <2>5, <2>6, <3>4
    <3> QED
      BY <3>1, <3>2, <3>3, <3>4
  <2> QED
    BY <2>3, <2>4, <2>6 DEF NoWordTwice
<1>8. ASSUME NEW from, NEW to, NEW amount, TokenTransfer(from, to, amount)
      PROVE  WithdrawalsSpent' /\ NoWordTwice'
  BY <1>1, <1>8 DEF TokenTransfer
<1> QED
  BY <1>2, <1>3, <1>6, <1>7, <1>8, StepCases
\* No deposit is counted twice, and the count up to an event is that of a place in
\* the tree.
LEMMA NumberOfDeposit ==
  ASSUME TypeOK, Cardinality(DepositsAt) = NextLeafIndex
  PROVE  /\ IsFiniteSet(DepositsAt)
         /\ \A i \in DepositsAt : NumberOf(i) \in 1 .. NextLeafIndex
<1>1. NextLeafIndex \in Nat /\ DOMAIN events = 1 .. Len(events) /\ Len(events) \in Nat
  BY DEF TypeOK, NextLeafIndex
<1>2. IsFiniteSet(DepositsAt)
  <2>1. IsFiniteSet(1 .. Len(events)) /\ DepositsAt \subseteq 1 .. Len(events)
    BY <1>1, FS_Interval DEF DepositsAt
  <2> QED
    BY <2>1, FS_Subset
<1>3. ASSUME NEW i \in DepositsAt
      PROVE  NumberOf(i) \in 1 .. NextLeafIndex
  <2> DEFINE upTo == {j \in DepositsAt : j <= i}
  <2>1. upTo \subseteq DepositsAt /\ i \in upTo
    BY <1>1 DEF DepositsAt
  <2>2. IsFiniteSet(upTo) /\ Cardinality(upTo) <= NextLeafIndex
    BY <1>2, <2>1, FS_Subset
  <2>3. Cardinality(upTo) \in Nat /\ Cardinality(upTo) # 0
    BY <2>1, <2>2, FS_CardinalityType, FS_EmptySet
  <2> QED
    BY <1>1, <2>2, <2>3 DEF NumberOf
<1> QED
  BY <1>2, <1>3

\* What EventsReplay says, of the events and leaves a step leaves alone.
LEMMA ReplayForm ==
  EventsReplay <=>
    /\ Cardinality(DepositsAt) = NextLeafIndex
    /\ \A i \in DepositsAt :
         events[i] = [topic |-> "deposit", commitment |-> leaves[NumberOf(i)],
                      index |-> NumberOf(i) - 1]
    /\ \A i, j \in 1 .. NextLeafIndex : leaves[i] = leaves[j] => i = j
    /\ {events[i].nullifierHash :
          i \in {j \in DOMAIN events : events[j].topic = "withdrawal"}} = nullifierSpent
BY Zenon DEF EventsReplay, DepositsAt, NumberOf

\* The events of deposits are the leaves in order, and those of withdrawals the
\* spent nullifiers, after each call.
LEMMA ReplayStep ==
  ASSUME TypeOK, LeavesInserted, EventsReplay, [Next]_vars
  PROVE  LeavesInserted' /\ EventsReplay'
<1>1. ASSUME UNCHANGED <<leaves, commitmentInserted, nullifierSpent, events>>
      PROVE  LeavesInserted' /\ EventsReplay'
  BY <1>1 DEF LeavesInserted, EventsReplay, NextLeafIndex
<1>2. CASE Quiet
  BY <1>1, <1>2 DEF Quiet, poolVars
<1>3. ASSUME NEW denomination, NEW maxFee, NEW depth, NEW size,
             InitializeOk(denomination, maxFee, depth, size)
      PROVE  LeavesInserted' /\ EventsReplay'
  BY <1>1, <1>3 DEF InitializeOk
<1>4. /\ events \in Seq(Event) /\ Len(events) \in Nat /\ NextLeafIndex \in Nat
      /\ DOMAIN events = 1 .. Len(events)
  BY DEF TypeOK, NextLeafIndex
<1>5. ASSUME NEW e, events' = Append(events, e)
      PROVE  /\ DOMAIN (events') = 1 .. Len(events) + 1
             /\ \A i \in DOMAIN events : events'[i] = events[i]
             /\ events'[Len(events) + 1] = e
  BY <1>4, <1>5
<1>6. /\ Cardinality(DepositsAt) = NextLeafIndex
      /\ \A i \in DepositsAt :
           events[i] = [topic |-> "deposit", commitment |-> leaves[NumberOf(i)],
                        index |-> NumberOf(i) - 1]
      /\ \A i, j \in 1 .. NextLeafIndex : leaves[i] = leaves[j] => i = j
      /\ {events[i].nullifierHash :
            i \in {j \in DOMAIN events : events[j].topic = "withdrawal"}} = nullifierSpent
  BY ReplayForm
<1>7. /\ IsFiniteSet(DepositsAt)
      /\ \A i \in DepositsAt : NumberOf(i) \in 1 .. NextLeafIndex
  BY <1>6, NumberOfDeposit
<1>0. PICK last : last = Len(events) + 1
  OBVIOUS
<1>8. ASSUME NEW depositor, NEW c \in Commitment, DepositOk(depositor, c)
      PROVE  LeavesInserted' /\ EventsReplay'
  <2>1. /\ events' = Append(events, DepositEvent(c, NextLeafIndex))
        /\ commitmentInserted' = commitmentInserted \cup {c}
        /\ c \notin commitmentInserted
        /\ nullifierSpent' = nullifierSpent
    BY <1>8 DEF DepositOk, DepositOutcome
  <2>2. /\ NextLeafIndex' = NextLeafIndex + 1
        /\ \A i \in 1 .. NextLeafIndex : leaves'[i] = leaves[i]
        /\ leaves'[NextLeafIndex + 1] = c
    BY <1>8, DepositLeaves
  <2>3. /\ DOMAIN (events') = 1 .. last
        /\ \A i \in DOMAIN events : events'[i] = events[i]
        /\ events'[last] = [topic |-> "deposit", commitment |-> c, index |-> NextLeafIndex]
    BY <1>0, <1>5, <2>1 DEF DepositEvent
  <2>4. DepositsAt' = DepositsAt \cup {last} /\ last \notin DepositsAt
    BY <1>0, <1>4, <2>3 DEF DepositsAt
  <2>5. Cardinality(DepositsAt)' = NextLeafIndex'
    BY <1>6, <1>7, <2>2, <2>4, FS_AddElement
  <2>6. NumberOf(last)' = NextLeafIndex + 1
    <3>1. {j \in DepositsAt' : j <= last} = DepositsAt'
      BY <1>0, <1>4, <2>4 DEF DepositsAt
    <3> QED
      BY <2>2, <2>5, <3>1 DEF NumberOf
  <2>7. ASSUME NEW i \in DepositsAt
        PROVE  NumberOf(i)' = NumberOf(i)
    <3>1. {j \in DepositsAt' : j <= i} = {j \in DepositsAt : j <= i}
      BY <1>0, <1>4, <2>4 DEF DepositsAt
    <3> QED
      BY <3>1 DEF NumberOf
  <2>8. ASSUME NEW i \in DepositsAt'
        PROVE  events'[i] = [topic |-> "deposit", commitment |-> leaves'[NumberOf(i)'],
                             index |-> NumberOf(i)' - 1]
    <3>1. CASE i \in DepositsAt
      <4>1. events'[i] = events[i] /\ NumberOf(i)' = NumberOf(i)
        BY <2>3, <2>7, <3>1 DEF DepositsAt
      <4>2. leaves'[NumberOf(i)] = leaves[NumberOf(i)]
        BY <1>7, <2>2, <3>1
      <4> QED
        BY <1>6, <3>1, <4>1, <4>2
    <3>2. CASE i = last
      BY <1>0, <1>4, <2>2, <2>3, <2>6, <3>2
    <3> QED
      BY <2>4, <3>1, <3>2
  <2>9. /\ LeavesInserted'
        /\ \A i, j \in 1 .. NextLeafIndex' : leaves'[i] = leaves'[j] => i = j
    BY <1>0, <1>4, <1>6, <2>1, <2>2 DEF LeavesInserted
  <2>10. {events'[i].nullifierHash :
            i \in {j \in DOMAIN (events') : events'[j].topic = "withdrawal"}}
           = nullifierSpent'
    <3>1. {j \in DOMAIN (events') : events'[j].topic = "withdrawal"}
            = {j \in DOMAIN events : events[j].topic = "withdrawal"}
      BY <1>0, <1>4, <2>3
    <3>2. {events'[i].nullifierHash :
             i \in {j \in DOMAIN events : events[j].topic = "withdrawal"}}
            = {events[i].nullifierHash :
                 i \in {j \in DOMAIN events : events[j].topic = "withdrawal"}}
      BY <2>3
    <3> QED
      BY <1>6, <2>1, <3>1, <3>2
  <2> QED
    BY <2>5, <2>8, <2>9, <2>10 DEF EventsReplay, DepositsAt, NumberOf
<1>9. ASSUME NEW nh \in NullifierHash, NEW recipient, NEW relayer, NEW fee, NEW proof,
             NEW root, WithdrawOk(proof, root, nh, recipient, relayer, fee)
      PROVE  LeavesInserted' /\ EventsReplay'
  <2>1. /\ events' = Append(events, WithdrawalEvent(nh))
        /\ nullifierSpent' = nullifierSpent \cup {nh}
        /\ leaves' = leaves /\ commitmentInserted' = commitmentInserted
    BY <1>9 DEF WithdrawOk
  <2>2. /\ DOMAIN (events') = 1 .. last
        /\ \A i \in DOMAIN events : events'[i] = events[i]
        /\ events'[last] = [topic |-> "withdrawal", nullifierHash |-> nh]
    BY <1>0, <1>5, <2>1 DEF WithdrawalEvent
  <2>3. DepositsAt' = DepositsAt
    BY <1>0, <1>4, <2>2 DEF DepositsAt
  <2>4. \A i \in DepositsAt : NumberOf(i)' = NumberOf(i)
    BY <2>3 DEF NumberOf
  <2>5. \A i \in DepositsAt' :
          events'[i] = [topic |-> "deposit", commitment |-> leaves'[NumberOf(i)'],
                        index |-> NumberOf(i)' - 1]
    BY <1>6, <2>1, <2>2, <2>3, <2>4 DEF DepositsAt
  <2>6. {events'[i].nullifierHash :
           i \in {j \in DOMAIN (events') : events'[j].topic = "withdrawal"}}
          = nullifierSpent'
    <3>1. {j \in DOMAIN (events') : events'[j].topic = "withdrawal"}
            = {j \in DOMAIN events : events[j].topic = "withdrawal"} \cup {last}
      BY <1>0, <1>4, <2>2
    <3>2. events'[last].nullifierHash = nh
      BY <2>2
    <3> QED
      BY <1>6, <2>1, <2>2, <3>1, <3>2
  <2>7. Cardinality(DepositsAt)' = NextLeafIndex' /\ NextLeafIndex' = NextLeafIndex
    BY <1>6, <2>1, <2>3 DEF NextLeafIndex
  <2>8. LeavesInserted'
    BY <2>1, <2>7 DEF LeavesInserted
  <2> QED
    BY <1>6, <2>1, <2>5, <2>6, <2>7, <2>8 DEF EventsReplay, DepositsAt, NumberOf
<1>10. ASSUME NEW from, NEW to, NEW amount, TokenTransfer(from, to, amount)
      PROVE  LeavesInserted' /\ EventsReplay'
  BY <1>1, <1>10 DEF TokenTransfer
<1> QED
  BY <1>2, <1>3, <1>8, <1>9, <1>10, StepCases
-----------------------------------------------------------------------------
(***************************************************************************)
(* IInv is inductive.                                                      *)
(***************************************************************************)
LEMMA IInvInit == Init => IInv
<1> SUFFICES ASSUME Init PROVE IInv
  OBVIOUS
<1>1. TypeOK
  BY TypeInit
<1>2. Setup /\ Capacity /\ Ring
  BY DEF Init, Setup, Capacity, Ring
<1>3. SpentBacked /\ WithdrawalsSpent /\ NoWordTwice
  BY DEF Init, SpentBacked, WithdrawnWasDeposited, WithdrawalsSpent, NoWordTwice
<1>4. Solvent /\ IsFiniteSet(nullifierSpent)
  <2>1. /\ config.denomination = 0 /\ NextLeafIndex = 0
        /\ nullifierSpent = {} /\ balance[Pool] = 0
    BY AddressAssumption DEF Init, Unset, NextLeafIndex
  <2>2. SpentElements = {}
    BY <2>1 DEF SpentElements
  <2>3. /\ IsFiniteSet(nullifierSpent) /\ Cardinality(nullifierSpent) = 0
        /\ Cardinality(SpentElements) = 0
    BY <2>1, <2>2, FS_EmptySet
  <2> QED
    BY <2>1, <2>3 DEF Solvent
<1>5. LeavesInserted /\ EventsReplay
  <2>1. NextLeafIndex = 0 /\ DOMAIN events = {} /\ nullifierSpent = {}
    BY DEF Init, NextLeafIndex
  <2>2. DepositsAt = {} /\ Cardinality(DepositsAt) = 0
    BY <2>1, FS_EmptySet DEF DepositsAt
  <2> QED
    BY <2>1, <2>2 DEF LeavesInserted, EventsReplay, DepositsAt
<1> QED
  BY <1>1, <1>2, <1>3, <1>4, <1>5 DEF IInv

\* Every step preserves the inductive invariant.
LEMMA IInvStep == IInv /\ [Next]_vars => IInv'
<1> SUFFICES ASSUME IInv, [Next]_vars PROVE IInv'
  OBVIOUS
<1>1. /\ TypeOK /\ Setup /\ Capacity /\ Ring /\ SpentBacked
      /\ IsFiniteSet(nullifierSpent) /\ Solvent
      /\ WithdrawalsSpent /\ NoWordTwice
      /\ LeavesInserted /\ EventsReplay
  BY DEF IInv
<1>2. TypeOK' /\ Setup' /\ Capacity' /\ Ring'
  BY <1>1, TypeStep, SetupStep, CapacityStep, RingStep
<1>3. SpentBacked'
  BY <1>1, SpentBackedStep
<1>4. Solvent' /\ IsFiniteSet(nullifierSpent')
  BY <1>1, <1>2, <1>3, SolventStep
<1>5. WithdrawalsSpent' /\ NoWordTwice'
  BY <1>1, WithdrawalsStep
<1>6. LeavesInserted' /\ EventsReplay'
  BY <1>1, ReplayStep
<1> QED
  BY <1>2, <1>3, <1>4, <1>5, <1>6 DEF IInv

\* Every reachable state of the pool satisfies the inductive invariant.
THEOREM Invariance == Spec => []IInv
  BY IInvInit, IInvStep, PTL DEF Spec

\* The pool's variables keep their types, token balances natural among them.
THEOREM TypeCorrect == Spec => []TypeOK
<1>1. IInv => TypeOK
  BY DEF IInv
<1> QED
  BY <1>1, Invariance, PTL

\* In a pool of the circuit's depth every spent nullifier, whatever word it was
\* written as, is that of a note whose commitment was deposited.
THEOREM WithdrawalsBacked == Spec => []SpentBacked
<1>1. IInv => SpentBacked
  BY DEF IInv
<1> QED
  BY <1>1, Invariance, PTL

\* However many deposits, withdrawals, failed calls and token transfers there
\* have been, and whatever the depth and the words nullifiers are written as, the
\* pool holds a denomination for each deposit beyond its withdrawals; and in a pool
\* of the circuit's depth no more nullifiers are spent than leaves inserted.
THEOREM PoolSolvent == Spec => []Solvent
<1>1. IInv => Solvent
  BY DEF IInv
<1> QED
  BY <1>1, Invariance, PTL

\* No word is taken as a nullifier twice in the life of the pool.
THEOREM WithdrawnOnce == Spec => []NoWordTwice
<1>1. IInv => NoWordTwice
  BY DEF IInv
<1> QED
  BY <1>1, Invariance, PTL

\* The deposit events number the leaves from 0, in order and without a gap, no
\* commitment is taken twice, and the withdrawal events are the spent nullifiers:
\* the events are enough to rebuild the contract's tree.
THEOREM EventsRebuild == Spec => []EventsReplay
<1>1. IInv => EventsReplay
  BY DEF IInv
<1> QED
  BY <1>1, Invariance, PTL

\* The leaf counter and the buffer's index stay within u32, whatever the depth, and
\* there is a slot for every leaf.
THEOREM NoOverflow == Spec => []IndicesFit
<1>1. ASSUME IInv
      PROVE  IndicesFit
  <2>1. TypeOK /\ Setup /\ Capacity /\ Ring
    BY <1>1 DEF IInv
  <2> SUFFICES ASSUME initialized
               PROVE  /\ NextLeafIndex <= Pow2[WordBits] - 1
                      /\ NextLeafIndex <= Pow2[config.treeDepth]
                      /\ rootHistoryIndex + 1 <= Pow2[WordBits] - 1
    BY DEF IndicesFit
  <2>2. /\ NextLeafIndex \in Nat /\ WordBits \in Nat /\ config.rootHistorySize \in Nat
        /\ Pow2[WordBits] \in Nat /\ Pow2[WordBits] # 0
    <3>1. WordBits \in Nat
      BY NumberAssumption
    <3>2. Pow2[WordBits] \in Nat \ {0}
      BY <3>1, Pow2Step
    <3> QED
      BY <2>1, <3>1, <3>2 DEF TypeOK, NextLeafIndex, Config
  <2>3. rootHistoryIndex + 1 <= Pow2[WordBits] - 1
    BY <2>1, <2>2 DEF Setup, Ring
  <2> QED
    BY <2>1, <2>2, <2>3, TreeSize DEF Capacity
<1> QED
  BY <1>1, Invariance, PTL

\* The slots 0 .. size-1 together are the window of recent roots.
LEMMA RingIsWindow ==
  ASSUME TypeOK, Setup, Ring
  PROVE  RootWindow
<1> SUFFICES ASSUME initialized
             PROVE  KnownRoots = {RootAfter(k) : k \in {j \in 0 .. NextLeafIndex :
                                    j > NextLeafIndex - config.rootHistorySize}}
  BY DEF RootWindow
<1> DEFINE size == config.rootHistorySize
           window == {j \in 0 .. NextLeafIndex : j > NextLeafIndex - size}
<1>1. size \in Nat \ {0} /\ NextLeafIndex \in Nat
  BY DEF Setup, TypeOK, Config, NextLeafIndex
<1>2. ASSUME NEW i \in (0 .. size - 1) \cap DOMAIN rootHistory
      PROVE  \E k \in window : rootHistory[i] = RootAfter(k)
  <2>1. PICK j \in Ages : i = Slot(j) /\ rootHistory[i] = RootAfter(NextLeafIndex - j)
    BY <1>2 DEF Ring
  <2>2. NextLeafIndex - j \in window
    BY <1>1, <2>1 DEF Ages
  <2> QED
    BY <2>1, <2>2
<1>3. ASSUME NEW k \in window
      PROVE  \E i \in (0 .. size - 1) \cap DOMAIN rootHistory : rootHistory[i] = RootAfter(k)
  <2>1. NextLeafIndex - k \in Ages /\ NextLeafIndex - (NextLeafIndex - k) = k
    BY <1>1, <1>3 DEF Ages
  <2>2. /\ Slot(NextLeafIndex - k) \in DOMAIN rootHistory
        /\ rootHistory[Slot(NextLeafIndex - k)] = RootAfter(k)
    BY <2>1 DEF Ring
  <2>3. Slot(NextLeafIndex - k) \in 0 .. size - 1
    BY <1>1, <1>3, <2>1 DEF Slot, Ring, Ages
  <2> QED
    BY <2>2, <2>3
<1> QED
  BY <1>2, <1>3 DEF KnownRoots

\* The roots withdraw accepts are always the last rootHistorySize ones.
THEOREM WindowCorrect == Spec => []RootWindow
<1>1. IInv => RootWindow
  BY RingIsWindow DEF IInv
<1> QED
  BY <1>1, Invariance, PTL

\* In a state of the inductive invariant every unspent deposit can be withdrawn.
LEMMA Redeemable ==
  ASSUME IInv
  PROVE  DepositRedeemable
<1> SUFFICES ASSUME initialized, VkLoaded, CircuitFits, SpentOnce,
                    NEW n \in Note, NEW nh \in NullifierHash,
                    NEW fee \in Fees, NEW recipient \in Address, NEW relayer \in Address,
                    NEW i \in 1 .. NextLeafIndex, NEW k \in i .. NextLeafIndex,
                    BytesToFr[nh] \notin SpentElements,
                    BytesToFr[leaves[i]] = CommitmentOf[n],
                    NullifierHashOf[n] = BytesToFr[nh],
                    0 <= fee, fee <= config.maxFee, fee <= config.denomination,
                    k > NextLeafIndex - config.rootHistorySize
             PROVE  \E proof \in ProofsAgainst(PublicInputs(RootAfter(k), nh,
                                                            recipient, relayer, fee)) :
                      WithdrawOutcome(proof, RootAfter(k), nh, recipient, relayer, fee)
                        = "Ok"
  BY DEF DepositRedeemable
<1> DEFINE inputs == PublicInputs(RootAfter(k), nh, recipient, relayer, fee)
           proof == Proof(TRUE, inputs)
<1>1. /\ TypeOK /\ Setup /\ Capacity /\ Ring /\ SpentBacked
      /\ IsFiniteSet(nullifierSpent) /\ Solvent
      /\ NextLeafIndex \in Nat /\ config.treeDepth \in Nat
      /\ fee \in Int /\ config.maxFee \in Int
  BY NumberAssumption DEF IInv, TypeOK, Config, NextLeafIndex
<1>2. RootAfter(k) \in KnownRoots
  <2>1. RootWindow
    BY <1>1, RingIsWindow
  <2> QED
    BY <1>1, <2>1 DEF RootWindow
<1>3. NextLeafIndex <= Pow2[config.treeDepth]
  BY <1>1, TreeSize DEF Capacity
<1>4. Opens(n, RootAfter(k))
  <2>1. /\ k \in 0 .. NextLeafIndex /\ config.treeDepth = CircuitDepth
        /\ \E m \in 1 .. k : BytesToFr[leaves[m]] = CommitmentOf[n]
    BY <1>1 DEF CircuitFits
  <2> QED
    BY <1>1, <1>3, <2>1, OpenedLeaf, Zenon
<1>5. Circuit(inputs)
  <2>1. inputs.nullifierHash = BytesToFr[nh] /\ inputs.root = RootAfter(k)
    BY DEF PublicInputs
  <2> HIDE DEF inputs
  <2> QED
    BY <1>4, <2>1, Zenon DEF Circuit
<1>6. proof \in ProofsAgainst(inputs)
  <2> HIDE DEF inputs
  <2>1. TRUE \in {b \in BOOLEAN : b => Circuit(inputs)}
    BY <1>5, Zenon
  <2> QED
    BY <2>1, Zenon DEF ProofsAgainst, proof
<1>7. VerifyProof(proof, inputs)
  BY DEF VerifyProof, Proof
<1>8. Payable(recipient, fee)
  <2>1. NullifierHashOf[n] = BytesToFr[nh] /\ BytesToFr[leaves[i]] = CommitmentOf[n]
    OBVIOUS
  <2> QED
    BY <1>1, <2>1, Affordable
<1>9. WithdrawOutcome(proof, RootAfter(k), nh, recipient, relayer, fee) = "Ok"
  <2> HIDE DEF proof
  <2>1. ~(fee < 0 \/ fee > config.maxFee)
    BY <1>1
  <2> QED
    BY <1>2, <1>7, <1>8, <2>1 DEF WithdrawOutcome, IsNullifierSpent, FeeAllowed,
                                    SpentElements
<1> QED
  BY <1>6, <1>9

\* No deposit is ever locked in a pool deployed with a verification key and the
\* circuit's depth, while no nullifier has been spent under two words.
THEOREM DepositsRedeemable == Spec => []DepositRedeemable
<1>1. IInv => DepositRedeemable
  BY Redeemable
<1> QED
  BY <1>1, Invariance, PTL
-----------------------------------------------------------------------------
(***************************************************************************)
(* The pool implements the vault: initial states map to initial states,    *)
(* and under the inductive invariant every step maps to a step of the      *)
(* vault or to a stutter.                                                  *)
(***************************************************************************)

\* What the vault sees of the pool.
vaultVars == <<initialized, config.denomination, NextLeafIndex,
               Cardinality(nullifierSpent), balance[Pool], CircuitFits /\ SpentOnce>>

\* A contract just deployed is a closed and empty vault.
LEMMA VaultInit == Init => TheVault!Init
<1> SUFFICES ASSUME Init PROVE TheVault!Init
  OBVIOUS
<1>1. /\ config.denomination = 0 /\ NextLeafIndex = 0 /\ initialized = FALSE
      /\ nullifierSpent = {} /\ balance[Pool] = 0
  BY AddressAssumption DEF Init, Unset, NextLeafIndex
<1>2. Cardinality(nullifierSpent) = 0
  BY <1>1, FS_EmptySet
<1>3. (CircuitFits /\ SpentOnce) = TRUE
  BY <1>1 DEF CircuitFits, SpentOnce
<1> QED
  BY <1>1, <1>2, <1>3 DEF TheVault!Init

\* The pool's tokens leave it in a withdrawal only, and those a withdrawal pays
\* are at most the pool's.
LEMMA PayoutLowers ==
  ASSUME TypeOK, NEW recipient \in Address, NEW relayer \in Address,
         NEW fee \in Int, fee >= 0, Payable(recipient, fee)
  PROVE  Transfer(AfterPayout(recipient, fee), Pool, relayer, fee)[Pool] <= balance[Pool]
<1> DEFINE net == config.denomination - fee
<1>1. /\ Pool \in Address /\ balance \in [Address -> Nat] /\ net \in Int
      /\ net >= 0
  BY AddressAssumption DEF TypeOK, Config, Payable, CanTransfer
<1>2. ASSUME NEW b \in [Address -> Nat], NEW to \in Address, NEW amount \in Int,
             amount >= 0
      PROVE  Transfer(b, Pool, to, amount)[Pool] <= b[Pool]
  <2>1. b[Pool] \in Nat
    BY <1>1
  <2>2. CASE to = Pool
    <3>1. Transfer(b, Pool, to, amount)[Pool] = (b[Pool] - amount) + amount
      BY <1>1, <2>2 DEF Transfer
    <3> QED
      BY <2>1, <3>1
  <2>3. CASE to # Pool
    <3>1. Transfer(b, Pool, to, amount)[Pool] = b[Pool] - amount
      BY <1>1, <2>3 DEF Transfer
    <3> QED
      BY <1>2, <2>1, <3>1
  <2> QED
    BY <2>2, <2>3
<1> HIDE DEF net
<1>3. AfterPayout(recipient, fee) = Transfer(balance, Pool, recipient, net)
  BY DEF AfterPayout, net
<1>4. /\ AfterPayout(recipient, fee) \in [Address -> Nat]
      /\ AfterPayout(recipient, fee)[Pool] <= balance[Pool]
  <2>1. CanTransfer(balance, Pool, net)
    BY DEF Payable, net
  <2> QED
    BY <1>1, <1>2, <1>3, <2>1, TransferLemma
<1>5. Transfer(AfterPayout(recipient, fee), Pool, relayer, fee)[Pool]
        <= AfterPayout(recipient, fee)[Pool]
  BY <1>2, <1>4
<1>6. /\ AfterPayout(recipient, fee)[Pool] \in Int /\ balance[Pool] \in Int
      /\ Transfer(AfterPayout(recipient, fee), Pool, relayer, fee)[Pool] \in Int
  <2>1. Transfer(AfterPayout(recipient, fee), Pool, relayer, fee) \in [Address -> Nat]
    BY PayoutLemma
  <2> QED
    BY <1>1, <1>4, <2>1
<1> QED
  BY <1>4, <1>5, <1>6

\* Each call is a step of the vault, or one it does not see.
LEMMA VaultStep ==
  ASSUME IInv, IInv', [Next]_vars
  PROVE  TheVault!Next \/ UNCHANGED vaultVars
<1> DEFINE taken == Cardinality(nullifierSpent)
<1>1. /\ TypeOK /\ Setup /\ SpentBacked /\ Solvent /\ TypeOK' /\ Solvent'
      /\ NextLeafIndex \in Nat
      /\ config.denomination \in Int
      /\ Pool \in Address /\ balance \in [Address -> Nat] /\ balance' \in [Address -> Nat]
  <2>1. TypeOK /\ Setup /\ SpentBacked /\ Solvent
    BY DEF IInv
  <2>2. TypeOK' /\ Solvent'
    BY DEF IInv
  <2>3. balance' \in [Address -> Nat]
    BY <2>2 DEF TypeOK
  <2>4. /\ NextLeafIndex \in Nat /\ config.denomination \in Int
        /\ balance \in [Address -> Nat]
    BY <2>1 DEF TypeOK, NextLeafIndex, Config
  <2> QED
    BY <2>1, <2>2, <2>3, <2>4, AddressAssumption
<1>2. /\ IsFiniteSet(nullifierSpent) /\ taken \in Nat
      /\ CircuitFits' /\ SpentOnce' => taken' <= NextLeafIndex'
  <2>1. IsFiniteSet(nullifierSpent) /\ IsFiniteSet(nullifierSpent')
    BY DEF IInv
  <2>2. ASSUME CircuitFits', SpentOnce'
        PROVE  taken' <= NextLeafIndex'
    <3>1. Cardinality(Residues(nullifierSpent')) = Cardinality(nullifierSpent')
      BY <2>1, <2>2, AsManyResidues DEF SpentOnce
    <3>2. Residues(nullifierSpent') = SpentElements'
      BY DEF Residues, SpentElements
    <3> QED
      BY <1>1, <2>2, <3>1, <3>2 DEF Solvent
  <2> QED
    BY <2>1, <2>2, FS_CardinalityType
<1>3. CASE Quiet
  BY <1>3 DEF Quiet, poolVars, vaultVars, NextLeafIndex, CircuitFits, SpentOnce
<1>4. ASSUME NEW denomination \in Denominations, NEW maxFee, NEW depth, NEW size,
             InitializeOk(denomination, maxFee, depth, size)
      PROVE  TheVault!Open
  <2>1. ~initialized /\ initialized' = TRUE
    BY <1>4 DEF InitializeOk, InitializeOutcome
  <2>2. config'.denomination = denomination /\ ~(denomination <= 0)
    BY <1>4 DEF InitializeOk, InitializeOutcome
  <2>3. denomination \in Int
    BY NumberAssumption
  <2>4. leaves' = leaves /\ nullifierSpent' = nullifierSpent /\ balance' = balance
    BY <1>4 DEF InitializeOk
  <2> QED
    BY <2>1, <2>2, <2>3, <2>4 DEF TheVault!Open, NextLeafIndex
<1>5. ASSUME NEW depositor \in Users, NEW c \in Commitment, DepositOk(depositor, c)
      PROVE  TheVault!Issue
  <2>1. /\ NextLeafIndex' = NextLeafIndex + 1 /\ initialized
        /\ initialized' = initialized
        /\ config' = config /\ nullifierSpent' = nullifierSpent
        /\ (CircuitFits /\ SpentOnce)' = (CircuitFits /\ SpentOnce)
    BY <1>1, <1>5, DepositLeaves DEF DepositOk, CircuitFits, SpentOnce
  <2>2. balance'[Pool] = balance[Pool] + config.denomination
    <3>1. depositor \in Address /\ depositor # Pool
      BY DEF Users
    <3> QED
      BY <1>1, <1>5, <3>1 DEF DepositOk, Transfer
  <2> QED
    BY <2>1, <2>2 DEF TheVault!Issue
<1>6. ASSUME NEW nh \in NullifierHash, NEW recipient \in Address,
             NEW relayer \in Address, NEW fee \in Fees, NEW proof, NEW root,
             WithdrawOk(proof, root, nh, recipient, relayer, fee)
      PROVE  TheVault!Take
  <2>1. /\ initialized
        /\ nh \notin nullifierSpent
        /\ fee \in Int /\ fee >= 0
        /\ Payable(recipient, fee)
    BY <1>6, NumberAssumption DEF WithdrawOk, WithdrawOutcome, IsNullifierSpent, FeeAllowed
  <2>2. taken' = taken + 1
    BY <1>2, <1>6, <2>1, FS_AddElement DEF WithdrawOk
  <2>3. NextLeafIndex' = NextLeafIndex /\ config' = config /\ initialized' = initialized
    BY <1>6 DEF WithdrawOk, NextLeafIndex
  <2>4. CircuitFits' /\ SpentOnce' => CircuitFits /\ SpentOnce /\ taken < NextLeafIndex
    <3>1. CircuitFits' = CircuitFits /\ (SpentOnce' => SpentOnce)
      BY <1>6, <2>3 DEF WithdrawOk, CircuitFits, SpentOnce
    <3> HIDE DEF taken
    <3> QED
      BY <1>1, <1>2, <2>2, <2>3, <3>1
  <2>5. /\ balance'[Pool] >= balance[Pool] - config.denomination
        /\ balance'[Pool] <= balance[Pool]
    BY <1>1, <1>6, <2>1, PayoutLemma, PayoutLowers DEF WithdrawOk
  <2>6. balance[Pool] - config.denomination <= balance'[Pool] /\ 0 <= balance'[Pool]
    BY <1>1, <2>5
  <2>7. (CircuitFits /\ SpentOnce)'
          \in {FALSE, (CircuitFits /\ SpentOnce) /\ taken < NextLeafIndex}
    <3> HIDE DEF taken
    <3> QED
      BY <2>4, Zenon
  <2> QED
    BY <2>1, <2>2, <2>3, <2>5, <2>6, <2>7 DEF TheVault!Take
<1>7. ASSUME NEW from \in Users, NEW to \in Address,
             NEW amount \in 1 .. balance[from], TokenTransfer(from, to, amount)
      PROVE  TheVault!Gift \/ UNCHANGED vaultVars
  <2>1. from \in Address /\ from # Pool /\ amount \in Int
    BY <1>1 DEF Users
  <2>2. balance'[Pool] >= balance[Pool]
    BY <1>1, <1>7, <2>1, TransferLemma DEF TokenTransfer
  <2>3. balance'[Pool] > balance[Pool] \/ balance'[Pool] = balance[Pool]
    BY <1>1, <2>2
  <2>4. UNCHANGED <<initialized, config, leaves, nullifierSpent>>
    BY <1>7 DEF TokenTransfer
  <2> QED
    BY <2>3, <2>4 DEF TheVault!Gift, vaultVars, NextLeafIndex, CircuitFits, SpentOnce
<1> QED
  BY <1>3, <1>4, <1>5, <1>6, <1>7, StepCases DEF TheVault!Next

\* With the privacy left out the pool is a vault: each payment takes back a ticket,
\* one of those issued while the depth fits and no nullifier was spent in two ways,
\* costs at most a denomination, and nothing else ever takes tokens out of the pool.
THEOREM PoolIsVault == Spec => ImplementsVault
<1>1. IInv /\ IInv' /\ [Next]_vars => [TheVault!Next]_(TheVault!vars)
  BY VaultStep DEF vaultVars, TheVault!vars
<1> QED
  BY <1>1, VaultInit, Invariance, PTL DEF Spec, ImplementsVault, TheVault!Spec
-----------------------------------------------------------------------------
(***************************************************************************)
(* The wallet and the pool together.  What the wallet, its user and the    *)
(* relayers do is, to the pool, one of the calls the pool's own            *)
(* specification allows; so whatever is proved of the pool holds with the  *)
(* wallet.  That payments are as proved needs both.                        *)
(***************************************************************************)
\* To the circuit all the words of a note's nullifier are one.
LEMMA SameInputs ==
  ASSUME NEW w, NEW n, NEW u \in NullifierWords(n), NEW v \in NullifierWords(n)
  PROVE  InputsOf(w, u) = InputsOf(w, v)
BY DEF NullifierWords, InputsOf, PublicInputs

(***************************************************************************)
(* The inductive invariant, on top of the pool's.                          *)
(***************************************************************************)

\* A prepared withdrawal comes with a proof: its inputs satisfy the circuit, also
\* when the tree has grown.
PreparedProved ==
  \A w \in prepared :
    /\ w \in Withdrawal
    /\ w.leaves \in Paths(w.note)
    /\ \A nh \in NullifierWords(w.note) : Circuit(InputsOf(w, nh))

\* What is in flight was submitted.
Submitted ==
  \A tx \in inFlight :
    \/ \E n \in Note : tx = DepositTx(n)
    \/ \E w, parties \in prepared : tx = WithdrawTx(w, parties)

\* What was paid is spent.
PaidSpent ==
  /\ paid \in Seq(Withdrawal)
  /\ \A i \in DOMAIN paid : Withdrawn(paid[i].note)

Counted == IsFiniteSet(inFlight)

WInv ==
  /\ IInv
  /\ WalletTypeOK
  /\ PreparedProved
  /\ Submitted
  /\ Counted
  /\ PaidSpent
  /\ PaidAsProved
-----------------------------------------------------------------------------
(***************************************************************************)
(* The pool under the wallet.                                              *)
(***************************************************************************)

\* A relayer that submits a proof with the parties of another request submits, to
\* the contract, one more proof that does not verify.
LEMMA MixedUp ==
  ASSUME PreparedProved, NEW w \in prepared, NEW parties \in prepared,
         NEW nh \in NullifierWords(w.note), NextLeafIndex \in Nat,
         Withdraw(Proof(TRUE, InputsOf(w, nh)), RootAfter(w.leaves), nh,
                  parties.recipient, parties.relayer, parties.fee)
  PROVE  Next
<1> DEFINE root == RootAfter(w.leaves)
           recipient == parties.recipient
           relayer == parties.relayer
           fee == parties.fee
           inputs == PublicInputs(root, nh, recipient, relayer, fee)
           sent == Proof(TRUE, InputsOf(w, nh))
           same == InputsOf(w, nh) = inputs
           proof == Proof(same, inputs)
<1>1. /\ w \in Withdrawal /\ parties \in Withdrawal
      /\ w.leaves \in 1 .. NextLeafIndex
      /\ Circuit(InputsOf(w, nh))
  BY DEF PreparedProved, Paths
<1>2. /\ recipient \in Address /\ relayer \in Address /\ fee \in Fees
      /\ nh \in NullifierHash
      /\ root \in SeenRoots
  BY <1>1, WalletAssumption DEF Withdrawal, NullifierWords, SeenRoots
<1>3. proof \in ProofsAgainst(inputs)
  <2> HIDE DEF inputs
  <2> QED
    BY <1>1 DEF ProofsAgainst
<1>4. VerifyProof(sent, inputs) <=> VerifyProof(proof, inputs)
  <2> HIDE DEF inputs
  <2> QED
    BY DEF VerifyProof, Proof
<1>5. WithdrawOutcome(sent, root, nh, recipient, relayer, fee)
        = WithdrawOutcome(proof, root, nh, recipient, relayer, fee)
  <2> HIDE DEF sent, proof, root, recipient, relayer, fee
  <2> QED
    BY <1>4 DEF WithdrawOutcome, inputs
<1>6. Withdraw(proof, root, nh, recipient, relayer, fee)
  <2>1. Withdraw(sent, root, nh, recipient, relayer, fee)
    OBVIOUS
  <2> HIDE DEF sent, proof, root, recipient, relayer, fee
  <2> QED
    BY <1>5, <2>1 DEF Withdraw, WithdrawOk
<1> HIDE DEF sent, proof, root, recipient, relayer, fee
<1> QED
  BY <1>2, <1>3, <1>6 DEF Next, inputs

\* Every step of the wallet, its user, the relayers or the network is a step of
\* the pool, or leaves it alone.
LEMMA PoolStep ==
  ASSUME TypeOK, PreparedProved, Submitted, [WalletNext]_allVars
  PROVE  [Next]_vars
<1>1. CASE UNCHANGED allVars
  BY <1>1 DEF allVars
<1>2. CASE Deploy
  BY <1>2 DEF Deploy, Initialize, Next
<1>3. ASSUME NEW n \in Note,
             \/ PrepareDeposit(n) \/ ExportNote(n) \/ ImportNote(n)
             \/ SubmitDeposit(n) \/ FinalizeWithdrawal(n)
      PROVE  UNCHANGED vars
  BY <1>3 DEF PrepareDeposit, ExportNote, ImportNote, SubmitDeposit, FinalizeWithdrawal
<1>4. ASSUME NEW n \in Note, NEW w, PrepareWithdrawal(n, w)
      PROVE  UNCHANGED vars
  BY <1>4 DEF PrepareWithdrawal
<1>5. ASSUME NEW w, NEW parties, SubmitWithdrawal(w, parties)
      PROVE  UNCHANGED vars
  BY <1>5 DEF SubmitWithdrawal
<1>6. ASSUME NEW tx \in inFlight, Execute(tx)
      PROVE  Next
  <2>1. CASE tx.kind = "deposit" /\ ExecuteDeposit(tx.note)
    <3>1. PICK c \in Commitment : Deposit(Owner, c)
      BY <2>1 DEF ExecuteDeposit, CommitmentWords
    <3> QED
      BY <3>1, WalletAssumption DEF Next
  <2>2. CASE tx.kind = "withdraw" /\ ExecuteWithdraw(tx.proved, tx.parties)
    <3>1. PICK w \in prepared, parties \in prepared : tx = WithdrawTx(w, parties)
      BY <2>2 DEF Submitted, DepositTx
    <3>2. ExecuteWithdraw(w, parties)
      BY <2>2, <3>1 DEF WithdrawTx
    <3>3. NextLeafIndex \in Nat
      BY DEF NextLeafIndex, TypeOK
    <3> QED
      BY <3>2, <3>3, MixedUp DEF ExecuteWithdraw
  <2> QED
    BY <1>6, <2>1, <2>2 DEF Execute
<1>7. ASSUME NEW tx \in inFlight, Lose(tx)
      PROVE  UNCHANGED vars
  BY <1>7 DEF Lose
<1>8. CASE Crash
  BY <1>8 DEF Crash
<1> QED
  BY <1>1, <1>2, <1>3, <1>4, <1>5, <1>6, <1>7, <1>8 DEF WalletNext

\* The tree only grows, its old roots stay, and spent nullifiers stay spent.
LEMMA PoolGrows ==
  ASSUME IInv, [Next]_vars
  PROVE  /\ NextLeafIndex \in Nat /\ NextLeafIndex' \in Nat
         /\ NextLeafIndex <= NextLeafIndex'
         /\ nullifierSpent \subseteq nullifierSpent'
         /\ \A i \in 1 .. NextLeafIndex : leaves'[i] = leaves[i]
         /\ \A k \in 1 .. NextLeafIndex : RootAfter(k)' = RootAfter(k)
<1>1. TypeOK /\ Setup /\ NextLeafIndex \in Nat
  BY DEF IInv, TypeOK, NextLeafIndex
<1>2. ASSUME UNCHANGED <<leaves, config>>, nullifierSpent \subseteq nullifierSpent'
      PROVE  /\ NextLeafIndex' = NextLeafIndex
             /\ nullifierSpent \subseteq nullifierSpent'
             /\ \A i \in 1 .. NextLeafIndex : leaves'[i] = leaves[i]
             /\ \A k \in 1 .. NextLeafIndex : RootAfter(k)' = RootAfter(k)
  BY <1>2 DEF NextLeafIndex, RootAfter, RootOf
<1>3. CASE Quiet
  BY <1>1, <1>2, <1>3 DEF Quiet, poolVars
<1>4. ASSUME NEW denomination, NEW maxFee, NEW depth, NEW size,
             InitializeOk(denomination, maxFee, depth, size)
      PROVE  NextLeafIndex = 0 /\ leaves' = leaves /\ nullifierSpent' = nullifierSpent
  BY <1>1, <1>4 DEF InitializeOk, InitializeOutcome, Setup, NextLeafIndex
<1>5. ASSUME NEW depositor, NEW c \in Commitment, DepositOk(depositor, c)
      PROVE  /\ NextLeafIndex' = NextLeafIndex + 1
             /\ nullifierSpent' = nullifierSpent
             /\ \A i \in 1 .. NextLeafIndex : leaves'[i] = leaves[i]
             /\ \A k \in 1 .. NextLeafIndex : RootAfter(k)' = RootAfter(k)
  <2>1. ASSUME NEW k \in 1 .. NextLeafIndex
        PROVE  RootAfter(k)' = RootAfter(k)
    <3>1. k \in 0 .. NextLeafIndex
      BY <1>1
    <3> QED
      BY <1>1, <1>5, <3>1, RootStable
  <2> QED
    BY <1>1, <1>5, <2>1, DepositLeaves DEF DepositOk
<1>6. ASSUME NEW nh, NEW recipient, NEW relayer, NEW fee, NEW proof, NEW root,
             WithdrawOk(proof, root, nh, recipient, relayer, fee)
      PROVE  UNCHANGED <<leaves, config>> /\ nullifierSpent \subseteq nullifierSpent'
  BY <1>6 DEF WithdrawOk
<1>7. ASSUME NEW from, NEW to, NEW amount, TokenTransfer(from, to, amount)
      PROVE  UNCHANGED <<leaves, config, nullifierSpent>>
  BY <1>7 DEF TokenTransfer
<1>8. CASE \E denomination \in Denominations, maxFee \in MaxFees,
              depth \in Depths, size \in HistorySizes :
             InitializeOk(denomination, maxFee, depth, size)
  BY <1>4, <1>8 DEF NextLeafIndex
<1>9. CASE \E depositor \in Users, c \in Commitment : DepositOk(depositor, c)
  BY <1>1, <1>5, <1>9
<1>10. CASE \/ \E root \in SeenRoots, nh \in NullifierHash,
                  recipient, relayer \in Address, fee \in Fees :
                 \E proof \in ProofsAgainst(PublicInputs(root, nh, recipient, relayer, fee)) :
                   WithdrawOk(proof, root, nh, recipient, relayer, fee)
            \/ \E from \in Users, to \in Address :
                 \E amount \in 1 .. balance[from] : TokenTransfer(from, to, amount)
  <2>1. UNCHANGED <<leaves, config>> /\ nullifierSpent \subseteq nullifierSpent'
    BY <1>6, <1>7, <1>10
  <2> QED
    BY <1>1, <1>2, <2>1
<1> QED
  BY <1>3, <1>8, <1>9, <1>10, StepCases
-----------------------------------------------------------------------------
(***************************************************************************)
(* The conjuncts of WInv, one lemma each.                                  *)
(***************************************************************************)

\* What each step does to the wallet's own variables, apart from the store.
LEMMA WalletCases ==
  ASSUME [WalletNext]_allVars
  PROVE  /\ \/ prepared' = prepared
            \/ /\ UNCHANGED vars
               /\ \E n \in Note, w \in Withdrawal :
                    /\ prepared' = prepared \cup {w}
                    /\ w.note = n /\ w.leaves \in Paths(n)
                    /\ \E nh \in NullifierWords(n) : Circuit(InputsOf(w, nh))
         /\ \/ inFlight' \subseteq inFlight
            \/ /\ Cardinality(inFlight) < MaxInFlight
               /\ \/ \E n \in Note : inFlight' = inFlight \cup {DepositTx(n)}
                  \/ \E w, parties \in prepared :
                       inFlight' = inFlight \cup {WithdrawTx(w, parties)}
         /\ \/ paid' = paid
            \/ \E tx \in inFlight :
                 tx.kind = "withdraw" /\ ExecuteWithdraw(tx.proved, tx.parties)
<1>1. CASE UNCHANGED allVars
  BY <1>1 DEF allVars, walletVars
<1>2. CASE Deploy
  BY <1>2 DEF Deploy, walletVars
<1>3. ASSUME NEW n \in Note, PrepareDeposit(n) \/ ExportNote(n) \/ ImportNote(n)
                               \/ FinalizeWithdrawal(n)
      PROVE  UNCHANGED <<prepared, inFlight, paid>>
  BY <1>3 DEF PrepareDeposit, ExportNote, ImportNote, FinalizeWithdrawal
<1>4. ASSUME NEW n \in Note, SubmitDeposit(n)
      PROVE  /\ UNCHANGED <<prepared, paid>>
             /\ Cardinality(inFlight) < MaxInFlight
             /\ inFlight' = inFlight \cup {DepositTx(n)}
  BY <1>4 DEF SubmitDeposit
<1>5. ASSUME NEW n \in Note, NEW w, PrepareWithdrawal(n, w)
      PROVE  /\ UNCHANGED <<vars, inFlight, paid>>
             /\ w \in Withdrawal
             /\ prepared' = prepared \cup {w}
             /\ w.note = n /\ w.leaves \in Paths(n)
             /\ \E nh \in NullifierWords(n) : Circuit(InputsOf(w, nh))
  BY <1>5 DEF PrepareWithdrawal
<1>6. ASSUME NEW w \in prepared, NEW parties \in prepared, SubmitWithdrawal(w, parties)
      PROVE  /\ UNCHANGED <<prepared, paid>>
             /\ Cardinality(inFlight) < MaxInFlight
             /\ inFlight' = inFlight \cup {WithdrawTx(w, parties)}
  BY <1>6 DEF SubmitWithdrawal
<1>7. ASSUME NEW tx \in inFlight, Execute(tx)
      PROVE  /\ UNCHANGED prepared
             /\ inFlight' \subseteq inFlight
             /\ \/ paid' = paid
                \/ tx.kind = "withdraw" /\ ExecuteWithdraw(tx.proved, tx.parties)
  BY <1>7 DEF Execute, ExecuteDeposit
<1>8. ASSUME NEW tx \in inFlight, Lose(tx)
      PROVE  UNCHANGED <<prepared, paid>> /\ inFlight' \subseteq inFlight
  BY <1>8 DEF Lose
<1>9. CASE Crash
  BY <1>9 DEF Crash
<1> QED
  BY <1>1, <1>2, <1>3, <1>4, <1>5, <1>6, <1>7, <1>8, <1>9 DEF WalletNext

\* A prepared withdrawal stays proved while the tree grows.
LEMMA PreparedStep ==
  ASSUME IInv, PreparedProved, [Next]_vars, [WalletNext]_allVars
  PROVE  PreparedProved'
<1>1. ASSUME NEW w, w.leaves \in Paths(w.note),
             \A nh \in NullifierWords(w.note) : Circuit(InputsOf(w, nh))
      PROVE  /\ (w.leaves \in Paths(w.note))'
             /\ \A nh \in NullifierWords(w.note) : Circuit(InputsOf(w, nh)')
  <2> DEFINE k == w.leaves
  <2>1. k \in 1 .. NextLeafIndex /\ CoveredBy(w.note, k)
    BY <1>1 DEF Paths
  <2>2. /\ k \in 1 .. NextLeafIndex'
        /\ \A i \in 1 .. k : leaves'[i] = leaves[i]
        /\ RootAfter(k)' = RootAfter(k)
    BY <2>1, PoolGrows
  <2>3. CoveredBy(w.note, k)'
    BY <2>1, <2>2 DEF CoveredBy
  <2>4. ASSUME NEW nh PROVE InputsOf(w, nh)' = InputsOf(w, nh)
    BY <2>2 DEF InputsOf, PublicInputs
  <2> QED
    BY <1>1, <2>2, <2>3, <2>4 DEF Paths
<1>2. ASSUME NEW w \in prepared'
      PROVE  /\ w \in Withdrawal /\ w.leaves \in Paths(w.note)
             /\ \A nh \in NullifierWords(w.note) : Circuit(InputsOf(w, nh))
  <2>1. CASE w \in prepared
    BY <2>1 DEF PreparedProved
  <2>2. CASE w \notin prepared
    <3>1. PICK v \in NullifierWords(w.note) : Circuit(InputsOf(w, v))
      BY <1>2, <2>2, WalletCases
    <3>2. w \in Withdrawal /\ w.leaves \in Paths(w.note)
      BY <1>2, <2>2, WalletCases
    <3>3. \A nh \in NullifierWords(w.note) : InputsOf(w, nh) = InputsOf(w, v)
      BY SameInputs
    <3> QED
      BY <3>1, <3>2, <3>3
  <2> QED
    BY <2>1, <2>2
<1>3. ASSUME NEW w \in prepared'
      PROVE  /\ w \in Withdrawal
             /\ (w.leaves \in Paths(w.note))'
             /\ \A nh \in NullifierWords(w.note) : Circuit(InputsOf(w, nh)')
  BY <1>1, <1>2
<1> QED
  BY <1>3 DEF PreparedProved

\* What is in flight was submitted, for a note or for prepared withdrawals.
LEMMA SubmittedStep ==
  ASSUME Submitted, [WalletNext]_allVars
  PROVE  Submitted'
<1>1. prepared \subseteq prepared'
  BY WalletCases
<1>2. ASSUME NEW tx \in inFlight'
      PROVE  \/ \E n \in Note : tx = DepositTx(n)
             \/ \E w, parties \in prepared : tx = WithdrawTx(w, parties)
  BY <1>2, WalletCases DEF Submitted
<1> QED
  BY <1>1, <1>2 DEF Submitted

\* At most MaxInFlight transactions are under way.
LEMMA CountedStep ==
  ASSUME Counted, Cardinality(inFlight) <= MaxInFlight, [WalletNext]_allVars
  PROVE  Counted' /\ (Cardinality(inFlight) <= MaxInFlight)'
<1>1. Cardinality(inFlight) \in Nat /\ MaxInFlight \in Nat
  BY FS_CardinalityType, WalletAssumption DEF Counted
<1>2. CASE inFlight' \subseteq inFlight
  <2>1. /\ IsFiniteSet(inFlight')
        /\ Cardinality(inFlight') <= Cardinality(inFlight)
    BY <1>2, FS_Subset DEF Counted
  <2>2. Cardinality(inFlight') \in Nat
    BY <2>1, FS_CardinalityType
  <2> QED
    BY <1>1, <2>1, <2>2 DEF Counted
<1>3. ASSUME NEW tx, inFlight' = inFlight \cup {tx}, Cardinality(inFlight) < MaxInFlight
      PROVE  Counted' /\ (Cardinality(inFlight) <= MaxInFlight)'
  <2>1. /\ IsFiniteSet(inFlight \cup {tx})
        /\ \/ Cardinality(inFlight \cup {tx}) = Cardinality(inFlight)
           \/ Cardinality(inFlight \cup {tx}) = Cardinality(inFlight) + 1
    BY FS_AddElement DEF Counted
  <2> QED
    BY <1>1, <1>3, <2>1 DEF Counted
<1> QED
  BY <1>2, <1>3, WalletCases

\* A spent note stays spent.
LEMMA StaysWithdrawn ==
  ASSUME IInv, [Next]_vars, NEW n, Withdrawn(n)
  PROVE  Withdrawn(n)'
BY PoolGrows DEF Withdrawn, NullifierWords

\* The store holds generated notes, and shows none as spent that is not.
LEMMA StoreStep ==
  ASSUME IInv, WalletTypeOK, [Next]_vars, [WalletNext]_allVars
  PROVE  /\ generated' \subseteq Note
         /\ DOMAIN notes' \subseteq generated' /\ backups' \subseteq generated'
         /\ \A n \in DOMAIN notes' :
              notes'[n] \in BOOLEAN /\ (notes'[n] => Withdrawn(n)')
<1> DEFINE Kept == /\ generated' \subseteq Note
                   /\ DOMAIN notes' \subseteq generated' /\ backups' \subseteq generated'
                   /\ \A n \in DOMAIN notes' :
                        notes'[n] \in BOOLEAN /\ (notes'[n] => Withdrawn(n)')
<1> SUFFICES Kept
  OBVIOUS
<1> USE DEF WalletTypeOK
<1>1. ASSUME UNCHANGED <<generated, notes, backups>>
      PROVE  Kept
  BY <1>1, StaysWithdrawn
<1>2. ASSUME NEW n \in Note, Store(n), generated' = generated \cup {n}, backups' = backups
      PROVE  Kept
  <2>1. /\ DOMAIN notes' = DOMAIN notes \cup {n}
        /\ \A m \in DOMAIN notes' : notes'[m] = IF m = n THEN FALSE ELSE notes[m]
    BY <1>2 DEF Store
  <2> QED
    BY <1>2, <2>1, StaysWithdrawn
<1>3. ASSUME NEW n \in Note,
             PrepareDeposit(n) \/ ExportNote(n) \/ ImportNote(n) \/ SubmitDeposit(n)
      PROVE  Kept
  <2>1. CASE PrepareDeposit(n)
    BY <1>2, <2>1 DEF PrepareDeposit
  <2>2. CASE ImportNote(n)
    <3>1. generated' = generated \cup {n}
      BY <2>2 DEF ImportNote
    <3> QED
      BY <1>2, <2>2, <3>1 DEF ImportNote
  <2>3. CASE ExportNote(n)
    BY <2>3, StaysWithdrawn DEF ExportNote
  <2>4. CASE SubmitDeposit(n)
    BY <1>1, <2>4 DEF SubmitDeposit
  <2> QED
    BY <1>3, <2>1, <2>2, <2>3, <2>4
<1>4. ASSUME NEW n \in Note, FinalizeWithdrawal(n)
      PROVE  Kept
  <2>1. /\ DOMAIN notes' = DOMAIN notes
        /\ \A m \in DOMAIN notes : notes'[m] = IF m = n THEN TRUE ELSE notes[m]
        /\ Withdrawn(n)
        /\ UNCHANGED <<generated, backups>>
    BY <1>4 DEF FinalizeWithdrawal
  <2> QED
    BY <2>1, StaysWithdrawn
<1>5. ASSUME \/ \E w, parties \in prepared : SubmitWithdrawal(w, parties)
             \/ \E tx \in inFlight : Execute(tx) \/ Lose(tx)
      PROVE  Kept
  BY <1>1, <1>5 DEF SubmitWithdrawal, Execute, Lose
<1>6. CASE Crash
  <2>1. DOMAIN notes' = {} /\ UNCHANGED <<generated, backups>>
    BY <1>6 DEF Crash, NoNotes
  <2> QED
    BY <2>1
<1>7. CASE Deploy \/ UNCHANGED allVars
  BY <1>1, <1>7 DEF Deploy, allVars, walletVars
<1>8. ASSUME NEW n \in Note, NEW k, NEW recipient, NEW relayer, NEW fee,
             PrepareWithdrawal(n, [note |-> n, leaves |-> k, recipient |-> recipient,
                                   relayer |-> relayer, fee |-> fee])
      PROVE  Kept
  BY <1>1, <1>8 DEF PrepareWithdrawal
<1> HIDE DEF Kept, WalletTypeOK
<1> QED
  BY <1>3, <1>4, <1>5, <1>6, <1>7, <1>8 DEF WalletNext

\* A withdrawal that is paid is one its proof was made for, and its note was not
\* spent before, unless under another word.
LEMMA Paying ==
  ASSUME PreparedProved, NEW w \in prepared, NEW parties \in prepared,
         ExecuteWithdraw(w, parties), paid' # paid
  PROVE  /\ paid' = Append(paid, w)
         /\ w \in Withdrawal
         /\ Withdrawn(w.note)' /\ (SpentOnce' => ~Withdrawn(w.note))
<1>1. w \in Withdrawal /\ parties \in Withdrawal
  BY DEF PreparedProved
<1>2. PICK nh \in NullifierWords(w.note) :
        /\ Withdraw(Proof(TRUE, InputsOf(w, nh)), RootAfter(w.leaves), nh,
                    parties.recipient, parties.relayer, parties.fee)
        /\ result'.outcome = "Ok"
        /\ paid' = Append(paid, PaidTo(w, parties))
  BY DEF ExecuteWithdraw
<1>3. WithdrawOk(Proof(TRUE, InputsOf(w, nh)), RootAfter(w.leaves), nh,
                 parties.recipient, parties.relayer, parties.fee)
  <2> DEFINE outcome == WithdrawOutcome(Proof(TRUE, InputsOf(w, nh)), RootAfter(w.leaves),
                                        nh, parties.recipient, parties.relayer, parties.fee)
  <2>1. ~Fail("withdraw", outcome) /\ ~TokenRefuses("withdraw", outcome)
    <3> HIDE DEF outcome
    <3> QED
      BY <1>2 DEF Fail, TokenRefuses, Answer
  <2> QED
    BY <1>2, <2>1 DEF Withdraw
<1>4. /\ nh \notin nullifierSpent /\ nullifierSpent' = nullifierSpent \cup {nh}
      /\ VerifyProof(Proof(TRUE, InputsOf(w, nh)),
                     PublicInputs(RootAfter(w.leaves), nh, parties.recipient,
                                  parties.relayer, parties.fee))
  BY <1>3 DEF WithdrawOk, WithdrawOutcome, IsNullifierSpent, FeeAllowed
<1>5. InputsOf(w, nh) = PublicInputs(RootAfter(w.leaves), nh, parties.recipient,
                                     parties.relayer, parties.fee)
  BY <1>4 DEF VerifyProof, Proof
<1>6. /\ AddressToField[w.recipient] = AddressToField[parties.recipient]
      /\ AddressToField[w.relayer] = AddressToField[parties.relayer]
      /\ w.fee = parties.fee
  BY <1>5 DEF InputsOf, PublicInputs
<1>7. w.recipient = parties.recipient /\ w.relayer = parties.relayer
  BY <1>1, <1>6, WalletAssumption DEF Withdrawal
<1>8. Withdrawn(w.note)' /\ (SpentOnce' => ~Withdrawn(w.note))
  <2>1. Withdrawn(w.note)'
    BY <1>4 DEF Withdrawn, NullifierWords
  <2>2. ASSUME NEW v \in NullifierWords(w.note), v \in nullifierSpent, SpentOnce'
        PROVE  FALSE
    <3>1. BytesToFr[v] = BytesToFr[nh]
      BY DEF NullifierWords
    <3>2. v \in nullifierSpent' /\ nh \in nullifierSpent'
      BY <1>4, <2>2
    <3>3. v = nh
      BY <2>2, <3>1, <3>2 DEF SpentOnce
    <3> QED
      BY <1>4, <2>2, <3>3
  <2> QED
    BY <2>1, <2>2 DEF Withdrawn
<1>9. PaidTo(w, parties) = w
  BY <1>1, <1>6, <1>7 DEF PaidTo, Withdrawal
<1> QED
  BY <1>1, <1>2, <1>8, <1>9

\* Payments stay as proved, one for a note while no nullifier has two words.
LEMMA PaidStep ==
  ASSUME WInv, [Next]_vars, [WalletNext]_allVars
  PROVE  PaidSpent' /\ PaidAsProved'
<1>1. /\ IInv /\ PreparedProved /\ Submitted /\ PaidSpent /\ PaidAsProved
      /\ prepared \subseteq prepared'
  BY WalletCases DEF WInv
<1>2. ASSUME NEW n, NEW i \in DOMAIN paid, paid[i].note = n
      PROVE  Withdrawn(n)'
  <2>1. Withdrawn(n)
    BY <1>1, <1>2 DEF PaidSpent
  <2> QED
    BY <1>1, <2>1, StaysWithdrawn
<1>3. SpentOnce' => SpentOnce
  BY <1>1, PoolGrows DEF SpentOnce
<1>4. CASE paid' = paid
  BY <1>1, <1>2, <1>3, <1>4 DEF PaidSpent, PaidAsProved
<1>5. CASE paid' # paid
  <2>1. PICK w \in prepared, parties \in prepared : ExecuteWithdraw(w, parties)
    <3>1. PICK tx \in inFlight :
            tx.kind = "withdraw" /\ ExecuteWithdraw(tx.proved, tx.parties)
      BY <1>5, WalletCases
    <3>2. PICK w \in prepared, parties \in prepared : tx = WithdrawTx(w, parties)
      BY <1>1, <3>1 DEF Submitted, DepositTx
    <3> QED
      BY <3>1, <3>2 DEF WithdrawTx
  <2> DEFINE last == Len(paid) + 1
  <2>2. /\ paid' = Append(paid, w)
        /\ w \in Withdrawal
        /\ Withdrawn(w.note)' /\ (SpentOnce' => ~Withdrawn(w.note))
    BY <1>1, <1>5, <2>1, Paying
  <2>3. /\ paid' \in Seq(Withdrawal)
        /\ DOMAIN paid = 1 .. Len(paid) /\ Len(paid) \in Nat
        /\ DOMAIN paid' = 1 .. last
        /\ \A i \in DOMAIN paid : paid'[i] = paid[i]
        /\ paid'[last] = w
    BY <1>1, <2>2 DEF PaidSpent
  <2>4. \A i \in DOMAIN paid' : i \in DOMAIN paid \/ i = last
    BY <2>3
  <2> HIDE DEF last
  <2>5. PaidSpent'
    BY <1>2, <2>2, <2>3, <2>4 DEF PaidSpent
  <2>6. SpentOnce' => \A i \in DOMAIN paid : paid[i].note # w.note
    BY <1>1, <2>2 DEF PaidSpent
  <2>7. ASSUME SpentOnce', NEW i \in DOMAIN paid', NEW j \in DOMAIN paid',
               paid'[i].note = paid'[j].note
        PROVE  i = j
    <3>1. CASE i \in DOMAIN paid /\ j \in DOMAIN paid
      BY <1>1, <1>3, <2>3, <2>7, <3>1 DEF PaidAsProved
    <3>2. CASE i = last \/ j = last
      BY <2>3, <2>4, <2>6, <2>7, <3>2
    <3> QED
      BY <2>4, <3>1, <3>2
  <2>8. ASSUME NEW i \in DOMAIN paid'
        PROVE  paid'[i] \in prepared'
    BY <1>1, <2>3, <2>4 DEF PaidAsProved
  <2> QED
    BY <2>5, <2>7, <2>8 DEF PaidAsProved
<1> QED
  BY <1>4, <1>5
-----------------------------------------------------------------------------
(***************************************************************************)
(* WInv is inductive.                                                      *)
(***************************************************************************)
LEMMA WInvInit == WalletInit => WInv
<1> SUFFICES ASSUME WalletInit PROVE WInv
  OBVIOUS
<1>1. /\ Init /\ generated = {} /\ notes = NoNotes /\ backups = {}
      /\ prepared = {} /\ inFlight = {} /\ paid = <<>>
  BY DEF WalletInit
<1>2. IInv /\ TypeOK
  BY <1>1, IInvInit, TypeInit
<1>3. Counted /\ Cardinality(inFlight) = 0 /\ MaxInFlight \in Nat
  BY <1>1, FS_EmptySet, WalletAssumption DEF Counted
<1>4. DOMAIN notes = {}
  BY <1>1 DEF NoNotes
<1>5. WalletTypeOK
  BY <1>1, <1>2, <1>3, <1>4 DEF WalletTypeOK
<1>6. PreparedProved /\ Submitted /\ PaidSpent /\ PaidAsProved
  BY <1>1 DEF PreparedProved, Submitted, PaidSpent, PaidAsProved
<1> QED
  BY <1>2, <1>3, <1>5, <1>6 DEF WInv

\* Every step of the wallet is one of the pool, and preserves the invariant.
LEMMA WInvStep == WInv /\ [WalletNext]_allVars => [Next]_vars /\ WInv'
<1> SUFFICES ASSUME WInv, [WalletNext]_allVars PROVE [Next]_vars /\ WInv'
  OBVIOUS
<1>1. /\ IInv /\ WalletTypeOK /\ PreparedProved /\ Submitted /\ Counted
      /\ TypeOK /\ Cardinality(inFlight) <= MaxInFlight
  BY DEF WInv, WalletTypeOK
<1>2. [Next]_vars
  BY <1>1, PoolStep
<1>3. IInv' /\ TypeOK'
  <2>1. IInv'
    BY <1>1, <1>2, IInvStep
  <2> QED
    BY <2>1 DEF IInv
<1>4. PreparedProved' /\ Submitted'
  BY <1>1, <1>2, PreparedStep, SubmittedStep
<1>5. Counted' /\ (Cardinality(inFlight) <= MaxInFlight)'
  BY <1>1, CountedStep
<1>6. WalletTypeOK'
  BY <1>1, <1>2, <1>3, <1>4, <1>5, StoreStep DEF WalletTypeOK, PreparedProved
<1>7. PaidSpent' /\ PaidAsProved'
  BY <1>2, PaidStep
<1> QED
  BY <1>2, <1>3, <1>4, <1>5, <1>6, <1>7 DEF WInv

\* Every reachable state of wallet and pool satisfies the invariant.
THEOREM WalletInvariance == WalletSpec => []WInv
  BY WInvInit, WInvStep, PTL DEF WalletSpec

\* The wallet's variables keep their types, prepared withdrawals a path, and no
\* note is shown as spent that is not.
THEOREM WalletTypeCorrect == WalletSpec => []WalletTypeOK
<1>1. WInv => WalletTypeOK
  BY DEF WInv
<1> QED
  BY <1>1, WalletInvariance, PTL

\* However relayers mix up requests, and however often and late transactions are
\* executed, the pool pays what the user proved, once for a note unless a nullifier
\* is spent under two words.
THEOREM PaysAsProved == WalletSpec => []PaidAsProved
<1>1. WInv => PaidAsProved
  BY DEF WInv
<1> QED
  BY <1>1, WalletInvariance, PTL

\* The wallet, its user, the relayers and the network drive the pool only through
\* the calls of its specification: whatever is true of the pool is true here.
THEOREM WalletImplementsPool == WalletSpec => Spec
<1>1. WalletInit => Init
  BY DEF WalletInit
<1> QED
  BY <1>1, WInvInit, WInvStep, PTL DEF WalletSpec, Spec
=============================================================================
