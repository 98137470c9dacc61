-------------------------- MODULE MCRelayerRegistry --------------------------
(***************************************************************************)
(* Three callers, each of whom may become the admin, a relayer, or both.   *)
(***************************************************************************)
EXTENDS RelayerRegistry, TLC

CONSTANTS r1, r2, r3, url

MCAddress == {r1, r2, r3}
MCEndpoint == {EmptyString, url}

Symmetry == Permutations(MCAddress)
=============================================================================
