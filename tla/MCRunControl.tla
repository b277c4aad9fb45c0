---------------------------- MODULE MCRunControl ----------------------------
(* A small instance of RunControl for TLC.                                 *)
EXTENDS RunControl, TLC

Symmetry ==
  Permutations(Callers) \cup Permutations(Digests) \cup Permutations(ReceiptIds)
=============================================================================
