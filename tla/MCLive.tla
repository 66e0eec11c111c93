------------------------------- MODULE MCLive -------------------------------
(* Small instances of Live for TLC.                                         *)
EXTENDS Live
=============================================================================
