---------------------------- MODULE MCCliConsole ----------------------------
(* A line buffer of two characters and a NUL, and enough keys to fill it,   *)
(* erase, finish a line and start another.                                  *)
EXTENDS CliConsole
=============================================================================
