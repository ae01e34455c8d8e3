--------------------------- MODULE MCDockerCaddy ---------------------------
(* Two callers use the route runtime for two sessions; "blue" asks for  *)
(* its host with a trailing dot, and a third session cannot be published.   *)
EXTENDS DockerCaddy

MCHostOf == [s \in Session |->
    CASE s = "red"  -> [name |-> "app", dots |-> 0]
      [] s = "blue" -> [name |-> "api", dots |-> 1]
      [] OTHER      -> [name |-> "app", dots |-> 1]]
=============================================================================
