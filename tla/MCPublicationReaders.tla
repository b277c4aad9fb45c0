------------------------- MODULE MCPublicationReaders -------------------------
(* Small instances of PublicationReaders for TLC.                          *)
EXTENDS PublicationReaders
=============================================================================
