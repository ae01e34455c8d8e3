---------------------------- MODULE MCProcessGroup ----------------------------
(* Two processes; deaf takes every value in the initial states.              *)
EXTENDS ProcessGroup
=============================================================================
