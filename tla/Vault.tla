-------------------------------- MODULE Vault --------------------------------
(***************************************************************************)
(* What the mixer pool promises with the privacy left out: a vault that    *)
(* issues a ticket for every denomination put in, and pays out at most one *)
(* denomination for a ticket taken back.  Module MixerPool implements it:  *)
(* the tickets issued are its leaves, those taken back its spent           *)
(* nullifiers, although nobody can say which nullifier is of which leaf.   *)
(* The vault does not look at tickets itself: that no more are taken than  *)
(* were issued holds while none is forged, nor shown in two forms.         *)
(***************************************************************************)
EXTENDS Integers

VARIABLES
  open,           \* the vault is set up
  denomination,   \* what a ticket costs, and brings
  issued, taken,  \* how many tickets were issued, and taken back
  funds,          \* what the vault holds
  genuine         \* tickets cannot be forged, and none was shown in two forms

vars == <<open, denomination, issued, taken, funds, genuine>>
-----------------------------------------------------------------------------
Init ==
  /\ open = FALSE
  /\ denomination = 0
  /\ issued = 0 /\ taken = 0
  /\ funds = 0
  /\ genuine = TRUE

Open ==
  /\ ~open
  /\ open' = TRUE
  /\ denomination' > 0
  /\ genuine' \in BOOLEAN
  /\ UNCHANGED <<issued, taken, funds>>

Issue ==
  /\ open
  /\ issued' = issued + 1
  /\ funds' = funds + denomination
  /\ UNCHANGED <<open, denomination, taken, genuine>>

\* Part of what is paid may be paid to the vault itself.
Take ==
  /\ open
  /\ taken' = taken + 1
  /\ genuine' \in {FALSE, genuine /\ taken < issued}
  /\ funds - denomination <= funds' /\ funds' <= funds /\ 0 <= funds'
  /\ UNCHANGED <<open, denomination, issued>>

Gift ==
  /\ funds' > funds
  /\ UNCHANGED <<open, denomination, issued, taken, genuine>>

Next == Open \/ Issue \/ Take \/ Gift

Spec == Init /\ [][Next]_vars
=============================================================================
