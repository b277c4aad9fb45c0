---------------------------- MODULE MCViewerDaemon ----------------------------
(* Small instances of ViewerDaemon for TLC.                                *)
EXTENDS ViewerDaemon, TLC
CONSTANTS p1, p2, old, new
Builds == (p1 :> old) @@ (p2 :> new)
=============================================================================
