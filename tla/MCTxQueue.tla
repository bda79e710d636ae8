------------------------------ MODULE MCTxQueue ------------------------------
(***************************************************************************)
(* TxQueue on small instances; callers and queue objects are               *)
(* interchangeable.                                                        *)
(***************************************************************************)
EXTENDS TxQueue, TLC

Symmetry == Permutations(Queues) \cup Permutations(Callers)
=============================================================================
