---------------------------- MODULE MCBundleExport ----------------------------
(* A small instance of BundleExport for TLC.                               *)
EXTENDS BundleExport
Symmetry == Permutations(Exporters) \cup Permutations(Bundles)
=============================================================================
