------------------------------- MODULE MCHook -------------------------------
(* Small instances of Hook for TLC: names with dots, slashes and backslashes,  *)
(* and a script that writes enough for the buffer to be cut twice.             *)
EXTENDS Hook

MCScriptsDir == << <<"s">>, <<"h">> >>

MCNames == BoundedSeq({".", "/"}, 4) \cup BoundedSeq({"a", ".", "/", "\\"}, 2)
             \cup {<<".", ".", "/", "a">>, <<"a", "/", "a">>, <<"a", ".", "a">>}
=============================================================================
