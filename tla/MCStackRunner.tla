--------------------------- MODULE MCStackRunner ---------------------------
(* Two runs contend for one host; "red" has Compose services. *)
EXTENDS StackRunner

CONSTANTS red, blue
=============================================================================
