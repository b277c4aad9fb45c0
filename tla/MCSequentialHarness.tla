------------------------- MODULE MCSequentialHarness -------------------------
(* A small instance of SequentialHarness for TLC: two model values for the   *)
(* harness that is run again and for another one.                            *)
EXTENDS SequentialHarness

CONSTANTS h1, h2

Both == {h1, h2}
=============================================================================
