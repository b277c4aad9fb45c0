------------------------------ MODULE MCRunStore ------------------------------
(* Small instances of RunStore for TLC.                                    *)
EXTENDS RunStore, TLC
CONSTANTS p1, p2, t1, t2
OneEach == (t1 :> p1) @@ (t2 :> p2)
Split ==
  (t1 :> {"stage", "publish", "append"}) @@
  (t2 :> {"put", "put_events", "get_result", "get_events", "current", "list"})
Symmetry == Permutations(Versions)
=============================================================================
