------------------------------ MODULE ProjectUp ------------------------------
(***************************************************************************)
(* What `zerobased up' makes of a project: from the zerobased.yaml and the *)
(* Compose files on disk to containers, claims and routes, and back to     *)
(* nothing.  `StackRunner' has the runs' interleavings, signals and late   *)
(* answers in detail and takes the configuration as given; here the        *)
(* configuration is what differs, calls are atomic, and the daemon and     *)
(* Docker outlive the runs.                                                *)
(***************************************************************************)
EXTENDS ProjectConfig, Caddyfile

CONSTANTS
    Run,       \* the invocations of `zerobased up'
    Finds,     \* where each is typed and what the zerobased.yaml says it finds
    Mishaps,   \* what goes wrong around them
    Requests,  \* paths that a browser asks for
    None       \* no configuration, no owner

MishapKinds == {"daemon",   \* nobody listens at the socket, or somebody else
                "up",       \* docker compose up fails half-way
                "down",     \* docker compose down fails
                "process",  \* a process fails to start or to become ready
                "caddy"}    \* Caddy cannot be reloaded

ASSUME UpAssumption ==
    /\ Mishaps \subseteq MishapKinds
    /\ None \notin Run \union HasConfig
    /\ DOMAIN Finds = Run
    /\ \A f \in UNION Range(Finds) : f.start \in Seq(STRING) /\ IsConfig(f.config)
    /\ \A q \in Requests : q \in Seq(STRING) /\ IsPrefix(Slash, q)

VARIABLES
    pc,        \* where Run is
    root,      \* the project it found, None before
    config,    \* what it read there, None before
    model,     \* the services of its loaded Compose project
    defers,    \* its pending defers, the innermost first
    err,       \* its error
    started,   \* its processes run
    running,   \* the Compose containers on the machine
    owner,     \* the run that holds each host's claim
    blocks     \* what Caddy serves for each host

runVars == <<pc, root, config, model, defers, err, started>>
vars == <<runVars, running, owner, blocks>>

\* The hosts that anybody may claim.
Hosts == {Default(f.config.host, defaultHost[findProjectRoot(f.start)]) :
             f \in {g \in UNION Range(Finds) : Roots(g.start) # {}}}

Label == {"start", "claim", "compose", "up", "processes", "publish", "foreground", "unwind", "ended"}

Defer == {"release", "stopCompose", "cleanupProcesses"}

project(r) == ProjectName(config[r].name, config[r].profile, root[r])

Init ==
    /\ pc = [r \in Run |-> "start"]
    /\ root = [r \in Run |-> None]
    /\ config = [r \in Run |-> None]
    /\ model = [r \in Run |-> {}]
    /\ defers = [r \in Run |-> << >>]
    /\ err = [r \in Run |-> Nil]
    /\ started = [r \in Run |-> FALSE]
    /\ running = {}
    /\ owner = [h \in Hosts |-> None]
    /\ blocks = [h \in Hosts |-> << >>]

-----------------------------------------------------------------------------
Orchestrator(code, cause) == New("stack_orchestrator", code, cause)

Goto(r, label) == pc' = [pc EXCEPT ![r] = label]

Push(r, d) == defers' = [defers EXCEPT ![r] = <<d>> \o @]

Return(r, e) == Goto(r, "unwind") /\ err' = [err EXCEPT ![r] = e]

\* The file may say something else every time it is read.
LoadConfig(r) ==
    /\ pc[r] = "start"
    /\ \E f \in Finds[r] :
        IF Roots(f.start) # {} /\ validConfig(f.config)
        THEN /\ root' = [root EXCEPT ![r] = findProjectRoot(f.start)]
             /\ config' = [config EXCEPT ![r] = loadConfig(f.config, findProjectRoot(f.start))]
             /\ Goto(r, "claim")
             /\ UNCHANGED err
        ELSE /\ Return(r, Orchestrator("ConfigInvalid", Nil))
             /\ UNCHANGED <<root, config>>
    /\ UNCHANGED <<model, defers, started, running, owner, blocks>>

Claimed(r) ==
    /\ pc[r] = "claim"
    /\ owner[config[r].host] = None
    /\ owner' = [owner EXCEPT ![config[r].host] = r]
    /\ Push(r, "release")
    /\ Goto(r, IF enabled(config[r].compose) THEN "compose" ELSE "processes")
    /\ UNCHANGED <<root, config, model, err, started, running, blocks>>

\* What the client makes of a refusal, of a failed connection and of an
\* answer that is not the daemon's.
ClientErrors(layer, code) ==
    {New(layer, code, Nil)} \union
    (IF "daemon" \in Mishaps
     THEN {New("control_plane_client", "ConnectionFailed", Nil),
           Critical("control_plane_client", Nil)}
     ELSE {})

ClaimFails(r) ==
    /\ pc[r] = "claim"
    /\ \E e \in ClientErrors("control_plane", "HostClaimConflict") :
        /\ e[1].code = "HostClaimConflict" => owner[config[r].host] # None
        /\ Return(r, Orchestrator("ClaimRejected", e))
    /\ UNCHANGED <<root, config, model, defers, started, running, owner, blocks>>

\* Mutant of mapComposeStartError: a rejected model counts as a failed start.
mapComposeStartErrorCoarsely(e) ==
    IF Is(e, "compose_backend", "IsolationRejected")
    THEN Orchestrator("PreflightRejected", e)
    ELSE IF Is(e, "compose_backend", "ModelInvalid") \/ Is(e, "compose_backend", "LifecycleFailed")
    THEN Orchestrator("DependencyStartFailed", e)
    ELSE Critical("stack_orchestrator", e)

mapComposeStartError(e) ==
    IF Is(e, "compose_backend", "ModelInvalid") \/ Is(e, "compose_backend", "IsolationRejected")
    THEN Orchestrator("PreflightRejected", e)
    ELSE IF Is(e, "compose_backend", "LifecycleFailed")
    THEN Orchestrator("DependencyStartFailed", e)
    ELSE Critical("stack_orchestrator", e)

\* Backend.Start loads the project and judges it ...
LoadCompose(r) ==
    /\ pc[r] = "compose"
    /\ LET loaded == Load(composeRequest(config[r]))
       IN  IF loaded.error = Nil
           THEN /\ model' = [model EXCEPT ![r] = loaded.services]
                /\ Goto(r, "up")
                /\ UNCHANGED err
           ELSE /\ Return(r, mapComposeStartError(loaded.error))
                /\ UNCHANGED model
    /\ UNCHANGED <<root, config, defers, started, running, owner, blocks>>

OfOthers(r) == {c \in running : c.project # project(r)}

\* ... and brings it up.  Up creates the containers of the project anew, with
\* the session's labels, and RemoveOrphans takes those of services not
\* selected.
Containers(r, services) ==
    OfOthers(r) \union {[project |-> project(r), service |-> s, run |-> r] : s \in services}

ComposeUp(r) ==
    /\ pc[r] = "up"
    /\ running' = Containers(r, model[r])
    /\ Push(r, "stopCompose")
    /\ Goto(r, "processes")
    /\ UNCHANGED <<root, config, model, err, started, owner, blocks>>

LifecycleFailed == New("compose_backend", "LifecycleFailed", Nil)

\* There is no docker to talk to; or Up fails, and the rollback takes down
\* what it left, or fails as well.
ComposeFails(r) ==
    /\ pc[r] = "up"
    /\ "up" \in Mishaps
    /\ \/ UNCHANGED running
       \/ running' = OfOthers(r)
       \/ /\ "down" \in Mishaps
          /\ \E S \in SUBSET model[r] : running' = Containers(r, S)
    /\ Return(r, mapComposeStartError(LifecycleFailed))
    /\ UNCHANGED <<root, config, model, defers, started, owner, blocks>>

StartProcesses(r) ==
    /\ pc[r] = "processes"
    /\ started' = [started EXCEPT ![r] = TRUE]
    /\ Push(r, "cleanupProcesses")
    /\ Goto(r, "publish")
    /\ UNCHANGED <<root, config, model, err, running, owner, blocks>>

ProcessesFail(r) ==
    /\ "process" \in Mishaps
    /\ pc[r] = "processes"
    /\ \/ /\ Return(r, Orchestrator("DependencyStartFailed", Nil))
          /\ UNCHANGED <<started, defers>>
       \/ /\ Return(r, Orchestrator("ReadinessFailed", Nil))
          /\ started' = [started EXCEPT ![r] = TRUE]
          /\ Push(r, "cleanupProcesses")
    /\ UNCHANGED <<root, config, model, running, owner, blocks>>

publishable(r) == validatePublication(config[r].host, config[r].routes)

\* Once published, the route goes before anything under it; the defer of the
\* claim, which would release it last, then does nothing.
Publish(r) ==
    /\ pc[r] = "publish"
    /\ publishable(r)
    /\ blocks' = [blocks EXCEPT ![config[r].host] = renderCaddyfile(config[r].routes)]
    /\ defers' = [defers EXCEPT ![r] = <<"release">> \o Front(@)]
    /\ Goto(r, "foreground")
    /\ UNCHANGED <<root, config, model, err, started, running, owner>>

\* The first time that anyone looks at the host and the routes.
PublishFails(r) ==
    /\ pc[r] = "publish"
    /\ \E e \in ClientErrors("control_plane", "PublicationRejected") :
        /\ e[1].code = "PublicationRejected" => ~publishable(r) \/ "caddy" \in Mishaps
        /\ Return(r, Orchestrator("GenerationCommitFailed", e))
    /\ UNCHANGED <<root, config, model, defers, started, running, owner, blocks>>

\* A signal, or the exit of a process.
ForegroundEnds(r) ==
    /\ pc[r] = "foreground"
    /\ \E e \in {Nil, Orchestrator("DependencyStartFailed", Nil)} : Return(r, e)
    /\ UNCHANGED <<root, config, model, defers, started, running, owner, blocks>>

-----------------------------------------------------------------------------
(* The defers.                                                             *)

Innermost(r, d) == pc[r] = "unwind" /\ defers[r] # << >> /\ Head(defers[r]) = d

Pop(r) == defers' = [defers EXCEPT ![r] = Tail(@)]

CleanupFailed(r, e) == err' = [err EXCEPT ![r] = Orchestrator("CleanupFailed", e)]

\* Mutant of StopCompose: the error of Down is swallowed.
StopComposeQuietly(r) ==
    /\ Innermost(r, "stopCompose")
    /\ Pop(r)
    /\ \/ running' = OfOthers(r)
       \/ "down" \in Mishaps /\ UNCHANGED running
    /\ UNCHANGED <<pc, root, config, model, err, started, owner, blocks>>

StopCompose(r) ==
    /\ Innermost(r, "stopCompose")
    /\ Pop(r)
    /\ \/ running' = OfOthers(r) /\ UNCHANGED err
       \/ "down" \in Mishaps /\ CleanupFailed(r, LifecycleFailed) /\ UNCHANGED running
    /\ UNCHANGED <<pc, root, config, model, started, owner, blocks>>

CleanupProcesses(r) ==
    /\ Innermost(r, "cleanupProcesses")
    /\ Pop(r)
    /\ started' = [started EXCEPT ![r] = FALSE]
    /\ UNCHANGED <<pc, root, config, model, err, running, owner, blocks>>

\* releaseClaim: the route goes, then the claim.
Release(r) ==
    /\ Innermost(r, "release")
    /\ Pop(r)
    /\ blocks' = [blocks EXCEPT ![config[r].host] = << >>]
    /\ owner' = [owner EXCEPT ![config[r].host] = None]
    /\ UNCHANGED <<pc, root, config, model, err, started, running>>

ReleaseFails(r) ==
    /\ Innermost(r, "release")
    /\ Pop(r)
    /\ \E e \in ClientErrors("control_plane", "PublicationRejected") :
        /\ e[1].code = "PublicationRejected" =>
               "caddy" \in Mishaps /\ blocks[config[r].host] # << >>
        /\ CleanupFailed(r, e)
    /\ UNCHANGED <<pc, root, config, model, started, running, owner, blocks>>

Exit(r) ==
    /\ pc[r] = "unwind"
    /\ defers[r] = << >>
    /\ Goto(r, "ended")
    /\ UNCHANGED <<root, config, model, defers, err, started, running, owner, blocks>>

RunStep(r) ==
    \/ LoadConfig(r) \/ Claimed(r) \/ ClaimFails(r)
    \/ LoadCompose(r) \/ ComposeUp(r) \/ ComposeFails(r)
    \/ StartProcesses(r) \/ ProcessesFail(r)
    \/ Publish(r) \/ PublishFails(r) \/ ForegroundEnds(r)
    \/ CleanupProcesses(r) \/ StopCompose(r) \/ Release(r) \/ ReleaseFails(r)
    \/ Exit(r)

Next == \E r \in Run : RunStep(r)

Spec == Init /\ [][Next]_vars

-----------------------------------------------------------------------------
(* What is promised to the projects.                                       *)

\* Every variable holds a value of the kind the code gives it.
UpTypeOK ==
    /\ pc \in [Run -> Label]
    /\ \A r \in Run :
        /\ root[r] # None =>
               root[r] \in HasConfig /\ validConfig(config[r]) /\ config[r].host \in Hosts
        /\ pc[r] \notin {"start", "unwind", "ended"} => root[r] # None
        /\ Range(defers[r]) \subseteq Defer
        /\ root[r] = None => defers[r] = << >>
        /\ model[r] \subseteq Service
    /\ started \in [Run -> BOOLEAN]
    /\ \A c \in running : c.service \in Service /\ c.run \in Run
    /\ owner \in [Hosts -> Run \union {None}]

\* Nothing that Compose runs for a stack reaches beyond it: no fixed container
\* name, port, host namespace or provider, and none of its networks and
\* volumes is external or named by hand, whichever of the files says so and
\* whether the service was asked for or came along as a dependency.  What an
\* included file says of networks and volumes is never looked at.
UpIsIsolated ==
    \A c \in running :
        LET files == config[c.run].compose.files
        IN  /\ Merged(files, c.service, "traits") = {}
            /\ \A n \in Merged(files, c.service, "uses") :
                   Declaring(files, n) \subseteq Range(files) =>
                       ~IsNamed(files, n) /\ ~IsExternal(files, n)

\* A run takes a step.
Steps(r) == pc'[r] # pc[r] \/ defers'[r] # defers[r]

holds(r) == owner[config[r].host] = r

\* The containers of a run are neither removed nor replaced by another one
\* while it holds its host: the name of the Compose project keeps the runs of
\* other projects away from them, the claim those of its own.  Two runs of one
\* project do meet when its file gives them different hosts, or when one has
\* released the host and has Compose still to stop.
StopSparesOthers ==
    [][\A c \in running \ running' :
        \/ Steps(c.run) \/ ~holds(c.run)
        \/ \E r \in Run \ {c.run} :
               /\ Steps(r)
               /\ root[r] = root[c.run]
               /\ \/ config[r].host # config[c.run].host
                  \/ pc[r] = "unwind" /\ ~holds(r)]_vars

\* An owned dependency is "started for one stack invocation and torn down with
\* that stack" (the RFC): while an invocation is in the foreground, only it
\* takes its containers down.
TornDownWithItsStack ==
    [][\A c \in running \ running' : pc[c.run] = "foreground" => Steps(c.run)]_vars

\* "Longest normalized path prefix wins" (the RFC): wherever the text of a
\* project's paths agrees with their segments, a request to its published host
\* is answered if it lies under any of the routes, and by a route that it lies
\* under and than which none that it lies under is more specific, whatever
\* order the file has them in.  Routes equally specific, which the RFC wants
\* rejected, get through; then it is one of them that answers.
MostSpecificRouteServes ==
    \A r \in Run : pc[r] = "foreground" =>
        LET routes == config[r].routes
            served == blocks[config[r].host]
            fits(q) == {i \in DOMAIN routes : Under(q, routes[i].path)}
            specific(i) == Len(Normal(routes[i].path))
        IN  \A q \in {p \in Requests : SegmentsDecide(p, routes)} :
                /\ fits(q) # {} => \E n \in DOMAIN served : Handles(served, n, q)
                /\ \A n \in DOMAIN served : Handles(served, n, q) =>
                       \E i \in fits(q) :
                           /\ served[n].route = routes[i]
                           /\ \A j \in fits(q) : specific(j) <= specific(i)

\* Whoever reads the error of a run learns the layer and the cause: every
\* error on the way is a declared one, a Critical names its layers, whatever is
\* wrong with the Compose files, that they cannot be loaded or that they are
\* not isolated, is a rejected preflight, and outermost is an error of the
\* runner, never a Critical one.
ErrorsExplained ==
    \A r \in Run : err[r] # Nil =>
        /\ \A i \in DOMAIN err[r] : WellFormed(err[r][i])
        /\ err[r][1].layer = "stack_orchestrator"
        /\ err[r][1].code # "Critical"
        /\ \A code \in {"ModelInvalid", "IsolationRejected"} :
               Is(err[r], "compose_backend", code)
                   => Is(err[r], "stack_orchestrator", "PreflightRejected")

\* However far a project got before it was found to be wrong, also if that is
\* at its publication with everything running, its run leaves no container,
\* process, claim or route, unless Compose or the release failed, and the
\* error says which.
EndedLeavesNothing ==
    \A r \in Run : pc[r] = "ended" =>
        \/ Is(err[r], "compose_backend", "LifecycleFailed")
        \/ Is(err[r], "stack_orchestrator", "CleanupFailed")
        \/ /\ ~started[r]
           /\ \A c \in running : c.run # r
           /\ \A h \in Hosts : owner[h] # r
           /\ \A h \in Hosts : owner[h] = None => blocks[h] = << >>
=============================================================================
