---------------------------- MODULE ProjectConfig ----------------------------
(***************************************************************************)
(* zerobased.yaml: findProjectRoot, loadConfig and composeRequest in       *)
(* internal/up/runner.go.  A configuration is what the YAML decoder        *)
(* returns: "" and << >> stand for what the file leaves out, a version     *)
(* that is not the first key counts as 0, and an unknown key makes a file  *)
(* unreadable, which is version 0 too.                                     *)
(***************************************************************************)
EXTENDS ComposeBackend

CONSTANTS
    HasConfig,    \* the directories with a zerobased.yaml
    defaultHost   \* the base name of a directory, with ".localhost" added

\* What may stand in the file, as far as this module looks into it.
IsConfig(c) ==
    /\ c = [version |-> c.version, name |-> c.name, host |-> c.host, profile |-> c.profile,
            compose |-> c.compose, processes |-> c.processes, routes |-> c.routes]
    /\ c.compose = [files     |-> c.compose.files,
                    services  |-> c.compose.services,
                    ownership |-> c.compose.ownership]
    /\ c.routes \in Seq([path : Seq(STRING), process : STRING, port : Int])

\* The nearest ancestor of start with a zerobased.yaml; a directory is the
\* sequence of the names on the way to it.
Roots(start) == {d \in HasConfig : \E k \in 0..Len(start) : d = SubSeq(start, 1, k)}

findProjectRoot(start) ==
    CHOOSE d \in Roots(start) : \A e \in Roots(start) : Len(e) <= Len(d)

enabled(compose) ==
    compose.files # << >> \/ compose.services # {} \/ compose.ownership # ""

validProcess(process) == process.command /\ process.readiness = "file" /\ process.path

validRoute(route, processes) ==
    route.path # << >> /\ route.port > 0 /\ route.process \in DOMAIN processes

validOwnership(compose) == compose.ownership \in {"", "owned"}

\* The checks of loadConfig; each ends in ConfigInvalid.
validConfig(config) ==
    /\ config.version = 1
    /\ config.name # ""
    /\ enabled(config.compose) =>
           config.compose.files # << >> /\ validOwnership(config.compose)
    /\ DOMAIN config.processes # {}
    /\ config.routes # << >>
    /\ \A p \in DOMAIN config.processes : validProcess(config.processes[p])
    /\ \A i \in DOMAIN config.routes : validRoute(config.routes[i], config.processes)

Default(value, default) == IF value = "" THEN default ELSE value

\* Mutant of loadConfig: what the file leaves out stays out.
loadConfigAsIs(config, root) == config

\* What loadConfig fills in.
loadConfig(config, root) ==
    [config EXCEPT !.host = Default(@, defaultHost[root]),
                   !.profile = Default(@, "dev"),
                   !.compose.ownership =
                       IF enabled(config.compose) THEN Default(@, "owned") ELSE @]

composeRequest(config) ==
    [files     |-> config.compose.files,
     services  |-> config.compose.services,
     ownership |-> config.compose.ownership]
=============================================================================
