----------------------------- MODULE MCRunWork ------------------------------
(* Small instances of RunWork for TLC.                                     *)
EXTENDS RunWork
=============================================================================
