------------------------------ MODULE MCIndexer ------------------------------
(***************************************************************************)
(* The indexer over a short chain; the constants are numbers and strings,  *)
(* given in the configurations.                                            *)
(***************************************************************************)
EXTENDS Indexer
=============================================================================
