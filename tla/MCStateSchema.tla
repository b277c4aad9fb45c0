---------------------------- MODULE MCStateSchema ----------------------------
(***************************************************************************)
(* Two programs and one migrator at one root, with two artifacts, one of   *)
(* them removed again, and a database.                                     *)
(***************************************************************************)
EXTENDS StateSchema
=============================================================================
