---------------------------- MODULE MCWorkerProver ----------------------------
(***************************************************************************)
(* The worker prover with a few calls.                                     *)
(***************************************************************************)
EXTENDS WorkerProver
=============================================================================
