----------------------- MODULE MCTransactionGenerator -----------------------
(* Instances of TransactionGenerator for TLC. *)
EXTENDS TransactionGenerator

CONSTANTS w1, w2
=============================================================================
