-------------------------- MODULE MCPublicationSaga --------------------------
(* Small instances of PublicationSaga for TLC.                             *)
EXTENDS PublicationSaga, TLC

Symmetry == Permutations(Finalizers) \cup Permutations(Importers)
=============================================================================
