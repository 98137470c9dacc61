------------------------------ MODULE MCRelayer ------------------------------
(***************************************************************************)
(* Three relay requests with one or two nullifiers between them.           *)
(***************************************************************************)
EXTENDS Relayer

CONSTANTS q1, q2, q3, s1, k1, k2

MCRequest == {q1, q2, q3}
MCPair == {q1, q2}
MCStatusRequest == {s1}
MCKey == {k1, k2}
=============================================================================
