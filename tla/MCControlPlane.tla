--------------------------- MODULE MCControlPlane ---------------------------
(* Two handlers serve two sessions that contend for one host, "blue" with a *)
(* trailing dot in its configuration.                                       *)
EXTENDS ControlPlane

MCHostOf == [s \in Session |->
    [name |-> "app", dots |-> IF s = "blue" THEN MaxDots ELSE 0]]

=============================================================================
