------------------------------ MODULE MCDaemons ------------------------------
(* Two daemons of one home, one of them with an admin URL, and one of        *)
(* another home.                                                             *)
EXTENDS Daemons

CONSTANTS a1, a2, b1, a, b

MCHomeOf == [d \in Daemon |-> IF d = b1 THEN b ELSE a]
=============================================================================
