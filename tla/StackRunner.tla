---------------------------- MODULE StackRunner ----------------------------
(***************************************************************************)
(* `zerobased up': the stack runner, internal/up/runner.go.                *)
(*                                                                         *)
(* Every run claims its host, starts Compose and its processes, waits for  *)
(* their readiness files, publishes its routes and stays in the foreground *)
(* until a signal or the exit of a process; then the Go defers unwind what *)
(* was done, last first.  The runs here contend for one host.              *)
(*                                                                         *)
(* The daemon is what `HostClaims' promises of it for that host: it takes  *)
(* a request when it likes, also after the runner has hung up, and it may  *)
(* die and come back.  `ControlPlane' has the daemon in detail.            *)
(***************************************************************************)
EXTENDS Naturals

CONSTANTS
    Run,        \* the invocations of `zerobased up'
    NProc,      \* processes of a run
    Composed,   \* the runs whose configuration enables Compose
    Mishaps,    \* what goes wrong around the runners
    None        \* no owner

MishapKinds == {"stale",     \* readiness files of an earlier run lie around
                "compose",   \* docker compose up or down fails
                "exec",      \* a process cannot be started
                "reject",    \* the daemon cannot publish
                "withdraw",  \* the daemon cannot take the route down
                "slow",      \* the release takes longer than its timeout
                "daemon",    \* the daemon dies
                "kill"}      \* the runner dies by SIGKILL

Proc == 1..NProc

ASSUME RunnerAssumption ==
    /\ NProc \in Nat \ {0}
    /\ Composed \subseteq Run
    /\ Mishaps \subseteq MishapKinds
    /\ None \notin Run

VARIABLES
    pc,         \* where Run is
    defers,     \* the pending defers
    published,  \* Run's published
    err,        \* Run's err
    signalled,  \* ctx is cancelled: SIGINT or SIGTERM has come
    compose,    \* the Compose services of the run are up
    proc,       \* its processes
    ready,      \* their readiness files
    call,       \* its requests to the daemon
    owner,      \* the run that owns the host, as the daemon sees it
    route,      \* the run the host is routed to
    serving     \* the daemon runs

runVars == <<pc, defers, published, err, signalled>>
stackVars == <<compose, proc, ready>>
daemonVars == <<owner, route, serving>>
vars == <<runVars, stackVars, call, daemonVars>>

Op == {"claim", "publish", "release"}

\* The four defers of Run, in the order of the source: each is pushed at most
\* once and after those before it, so the pending ones are a set.
Defer == {"releaseUnlessPublished", "stopCompose", "cleanupProcesses", "release"}

\* Mutant of Later: the defer of the processes is pushed before that of Compose.
LaterSwapped(d) ==
    CASE d = "releaseUnlessPublished" -> {"stopCompose", "cleanupProcesses", "release"}
      [] d = "stopCompose"            -> {"release"}
      [] d = "cleanupProcesses"       -> {"stopCompose", "release"}
      [] OTHER                        -> {}

Later(d) ==
    CASE d = "releaseUnlessPublished" -> {"stopCompose", "cleanupProcesses", "release"}
      [] d = "stopCompose"            -> {"cleanupProcesses", "release"}
      [] d = "cleanupProcesses"       -> {"release"}
      [] OTHER                        -> {}

Code == {"nil", "ConfigInvalid", "ClaimRejected", "PreflightRejected",
         "DependencyStartFailed", "ReadinessFailed", "GenerationCommitFailed",
         "CleanupFailed"}

\* A process is "gone" when the runner has terminated its group, and has
\* "exited" when it ended by itself.
ProcState == {"none", "running", "exited", "gone"}

FileState == {"absent", "stale", "written"}

\* A request is "withdrawn" when the daemon has taken the route down and has
\* the claim still to delete, and "lost" when it was carried out and the
\* answer never came.
CallState == {"none", "sent", "withdrawn", "ok", "refused", "lost"}

Ended == {"returned", "killed"}

\* Every variable of the runners holds a value of the kind the code gives it.
RunnerTypeOK ==
    /\ pc \in [Run -> {"start", "claim", "compose", "processes", "readiness",
                       "watch", "publish", "foreground", "unwind", "release"} \union Ended]
    /\ defers \in [Run -> SUBSET Defer]
    /\ published \in [Run -> BOOLEAN]
    /\ err \in [Run -> Code]
    /\ signalled \in [Run -> BOOLEAN]
    /\ compose \in [Run -> BOOLEAN]
    /\ proc \in [Run -> [Proc -> ProcState]]
    /\ ready \in [Run -> [Proc -> FileState]]
    /\ call \in [Run -> [Op -> CallState]]
    /\ owner \in Run \union {None}
    /\ route \in Run \union {None}
    /\ serving \in BOOLEAN

Init ==
    /\ pc = [r \in Run |-> "start"]
    /\ defers = [r \in Run |-> {}]
    /\ published = [r \in Run |-> FALSE]
    /\ err = [r \in Run |-> "nil"]
    /\ signalled = [r \in Run |-> FALSE]
    /\ compose = [r \in Run |-> FALSE]
    /\ proc = [r \in Run |-> [p \in Proc |-> "none"]]
    /\ ready \in [Run -> [Proc -> IF "stale" \in Mishaps
                                  THEN {"absent", "stale"} ELSE {"absent"}]]
    /\ call = [r \in Run |-> [op \in Op |-> "none"]]
    /\ owner = None
    /\ route = None
    /\ serving = TRUE

-----------------------------------------------------------------------------
(* Requests to the daemon.                                                 *)

Send(r, op) == call' = [call EXCEPT ![r][op] = "sent"]

\* The runner stops waiting: claim and publish when ctx is cancelled, release
\* when its own timeout ends.  The request may be on its way, or carried out.
HangsUp(r, op) ==
    /\ call[r][op] \in {"sent", "withdrawn", "ok"}
    /\ IF op = "release" THEN "slow" \in Mishaps ELSE signalled[r]

Failed(r, op) == call[r][op] \in {"refused", "lost"} \/ HangsUp(r, op)

-----------------------------------------------------------------------------
(* Run, up to the foreground.                                              *)

Goto(r, label) == pc' = [pc EXCEPT ![r] = label]

Push(r, d) == defers' = [defers EXCEPT ![r] = @ \union {d}]

\* return: the error is set and the defers begin.
Return(r, e) ==
    /\ Goto(r, "unwind")
    /\ err' = [err EXCEPT ![r] = e]

\* Mutant of UnlessSignalled: ctx.Err() itself is returned.
ContextError(r, e) == IF signalled[r] THEN "Canceled" ELSE e

\* `if ctx.Err() != nil { return nil }' before an error is returned.
UnlessSignalled(r, e) == IF signalled[r] THEN "nil" ELSE e

LoadConfig(r) ==
    /\ pc[r] = "start"
    /\ \/ Goto(r, "claim") /\ Send(r, "claim") /\ UNCHANGED err
       \/ Return(r, "ConfigInvalid") /\ UNCHANGED call
    /\ UNCHANGED <<defers, published, signalled, stackVars, daemonVars>>

Claimed(r) ==
    /\ pc[r] = "claim"
    /\ call[r]["claim"] = "ok"
    /\ Goto(r, IF r \in Composed THEN "compose" ELSE "processes")
    /\ Push(r, "releaseUnlessPublished")
    /\ UNCHANGED <<published, err, signalled, stackVars, call, daemonVars>>

\* Mutant of ClaimFails: a claim hung up on is reported as a success.
ClaimFailsQuietly(r) ==
    /\ pc[r] = "claim"
    /\ Failed(r, "claim")
    /\ Return(r, UnlessSignalled(r, "ClaimRejected"))
    /\ UNCHANGED <<defers, published, signalled, stackVars, call, daemonVars>>

ClaimFails(r) ==
    /\ pc[r] = "claim"
    /\ Failed(r, "claim")
    /\ Return(r, "ClaimRejected")
    /\ UNCHANGED <<defers, published, signalled, stackVars, call, daemonVars>>

ComposeUp(r) ==
    /\ pc[r] = "compose"
    /\ compose' = [compose EXCEPT ![r] = TRUE]
    /\ Push(r, "stopCompose")
    /\ Goto(r, "processes")
    /\ UNCHANGED <<published, err, signalled, proc, ready, call, daemonVars>>

\* The Compose model is invalid or not isolated: nothing is started.
ComposeRejected(r) ==
    /\ pc[r] = "compose"
    /\ Return(r, "PreflightRejected")
    /\ UNCHANGED <<defers, published, signalled, stackVars, call, daemonVars>>

\* Up fails, also because ctx is cancelled, and is rolled back; when the
\* rollback fails too, services stay up.  No defer will stop them.
ComposeFails(r) ==
    /\ pc[r] = "compose"
    /\ "compose" \in Mishaps \/ signalled[r]
    /\ \/ UNCHANGED compose
       \/ "compose" \in Mishaps /\ compose' = [compose EXCEPT ![r] = TRUE]
    /\ Return(r, "DependencyStartFailed")
    /\ UNCHANGED <<defers, published, signalled, proc, ready, call, daemonVars>>

\* terminateProcesses: SIGTERM to every group, SIGKILL after 200 ms.
Terminated(r) == [proc EXCEPT ![r] =
    [p \in Proc |-> IF @[p] = "none" THEN "none" ELSE "gone"]]

\* startProcesses, one process after the other.
StartProcess(r) ==
    /\ pc[r] = "processes"
    /\ \E p \in Proc :
        /\ \A q \in Proc : (proc[r][q] = "none") <=> (q >= p)
        /\ proc' = [proc EXCEPT ![r][p] = "running"]
        /\ IF p = NProc THEN Goto(r, "readiness") /\ Push(r, "cleanupProcesses")
                        ELSE UNCHANGED <<pc, defers>>
    /\ UNCHANGED <<published, err, signalled, compose, ready, call, daemonVars>>

\* One does not start: those started before are terminated.
StartProcessFails(r) ==
    /\ "exec" \in Mishaps
    /\ pc[r] = "processes"
    /\ proc' = Terminated(r)
    /\ Return(r, UnlessSignalled(r, "DependencyStartFailed"))
    /\ UNCHANGED <<defers, published, signalled, compose, ready, call, daemonVars>>

\* waitForReadiness: first allReady, by the existence of the files ...
AllReady(r) ==
    /\ pc[r] = "readiness"
    /\ \A p \in Proc : ready[r][p] # "absent"
    /\ IF signalled[r]
       THEN Return(r, "nil") /\ UNCHANGED call
       ELSE Goto(r, "publish") /\ Send(r, "publish") /\ UNCHANGED err
    /\ UNCHANGED <<defers, published, signalled, stackVars, daemonVars>>

NotReady(r) ==
    /\ pc[r] = "readiness"
    /\ \E p \in Proc : ready[r][p] = "absent"
    /\ Goto(r, "watch")
    /\ UNCHANGED <<defers, published, err, signalled, stackVars, call, daemonVars>>

\* Mutant of ReadinessFails: there is no deadline.
ReadinessFailsLate(r) ==
    /\ pc[r] = "watch"
    /\ signalled[r] \/ \E p \in Proc : proc[r][p] = "exited"
    /\ Return(r, UnlessSignalled(r, "ReadinessFailed"))
    /\ UNCHANGED <<defers, published, signalled, stackVars, call, daemonVars>>

\* ... then whether a process has exited, ctx is done or the deadline over ...
ReadinessFails(r) ==
    /\ pc[r] = "watch"
    /\ Return(r, UnlessSignalled(r, "ReadinessFailed"))
    /\ UNCHANGED <<defers, published, signalled, stackVars, call, daemonVars>>

\* ... and once more after a tick.
Tick(r) ==
    /\ pc[r] = "watch"
    /\ Goto(r, "readiness")
    /\ UNCHANGED <<defers, published, err, signalled, stackVars, call, daemonVars>>

\* Mutant of Published: the claim's own defer is left to take the route down.
PublishedOneDefer(r) ==
    /\ pc[r] = "publish"
    /\ call[r]["publish"] = "ok"
    /\ Goto(r, "foreground")
    /\ UNCHANGED <<defers, published, err, signalled, stackVars, call, daemonVars>>

Published(r) ==
    /\ pc[r] = "publish"
    /\ call[r]["publish"] = "ok"
    /\ published' = [published EXCEPT ![r] = TRUE]
    /\ Push(r, "release")
    /\ Goto(r, "foreground")
    /\ UNCHANGED <<err, signalled, stackVars, call, daemonVars>>

PublishFails(r) ==
    /\ pc[r] = "publish"
    /\ Failed(r, "publish")
    /\ Return(r, "GenerationCommitFailed")
    /\ UNCHANGED <<defers, published, signalled, stackVars, call, daemonVars>>

\* Mutant of ForegroundEnds: only the exit of a process is waited for.
ForegroundIgnoresSignal(r) ==
    /\ pc[r] = "foreground"
    /\ \E p \in Proc : proc[r][p] = "exited"
    /\ Return(r, UnlessSignalled(r, "DependencyStartFailed"))
    /\ UNCHANGED <<defers, published, signalled, stackVars, call, daemonVars>>

\* waitForeground.
ForegroundEnds(r) ==
    /\ pc[r] = "foreground"
    /\ signalled[r] \/ \E p \in Proc : proc[r][p] = "exited"
    /\ Return(r, UnlessSignalled(r, "DependencyStartFailed"))
    /\ UNCHANGED <<defers, published, signalled, stackVars, call, daemonVars>>

-----------------------------------------------------------------------------
(* The defers.                                                             *)

\* d is the defer to run now.
Innermost(r, d) ==
    /\ pc[r] = "unwind"
    /\ d \in defers[r]
    /\ defers[r] \intersect Later(d) = {}

Pop(r, d) == defers' = [defers EXCEPT ![r] = @ \ {d}]

CleanupProcesses(r) ==
    /\ Innermost(r, "cleanupProcesses")
    /\ Pop(r, "cleanupProcesses")
    /\ proc' = Terminated(r)
    /\ UNCHANGED <<pc, published, err, signalled, compose, ready, call, daemonVars>>

StopCompose(r) ==
    /\ Innermost(r, "stopCompose")
    /\ Pop(r, "stopCompose")
    /\ \/ compose' = [compose EXCEPT ![r] = FALSE] /\ UNCHANGED err
       \/ /\ "compose" \in Mishaps
          /\ err' = [err EXCEPT ![r] = "CleanupFailed"]
          /\ UNCHANGED compose
    /\ UNCHANGED <<pc, published, signalled, proc, ready, call, daemonVars>>

\* releaseClaim: the route's own defer, or the claim's when none was published.
BeginRelease(r) ==
    /\ \E d \in {"release", "releaseUnlessPublished"} :
        /\ Innermost(r, d)
        /\ Pop(r, d)
        /\ (d = "releaseUnlessPublished") => ~published[r]
    /\ Goto(r, "release")
    /\ Send(r, "release")
    /\ UNCHANGED <<published, err, signalled, stackVars, daemonVars>>

SkipRelease(r) ==
    /\ Innermost(r, "releaseUnlessPublished")
    /\ published[r]
    /\ Pop(r, "releaseUnlessPublished")
    /\ UNCHANGED <<pc, published, err, signalled, stackVars, call, daemonVars>>

Released(r) ==
    /\ pc[r] = "release"
    /\ call[r]["release"] = "ok"
    /\ Goto(r, "unwind")
    /\ UNCHANGED <<defers, published, err, signalled, stackVars, call, daemonVars>>

\* Mutant of ReleaseFails: the primary error, or none, is kept.
ReleaseFailsQuietly(r) ==
    /\ pc[r] = "release"
    /\ Failed(r, "release")
    /\ Goto(r, "unwind")
    /\ UNCHANGED <<defers, published, err, signalled, stackVars, call, daemonVars>>

\* The error replaces whatever Run was about to return.
ReleaseFails(r) ==
    /\ pc[r] = "release"
    /\ Failed(r, "release")
    /\ Return(r, "CleanupFailed")
    /\ UNCHANGED <<defers, published, signalled, stackVars, call, daemonVars>>

Exit(r) ==
    /\ pc[r] = "unwind"
    /\ defers[r] = {}
    /\ Goto(r, "returned")
    /\ UNCHANGED <<defers, published, err, signalled, stackVars, call, daemonVars>>

-----------------------------------------------------------------------------
(* What happens to a run: signals, and the life of its processes.          *)

Signal(r) ==
    /\ pc[r] \notin Ended
    /\ ~signalled[r]
    /\ signalled' = [signalled EXCEPT ![r] = TRUE]
    /\ UNCHANGED <<pc, defers, published, err, stackVars, call, daemonVars>>

\* SIGKILL: no defer runs, and the processes, in groups of their own, live on.
Kill(r) ==
    /\ "kill" \in Mishaps
    /\ pc[r] \notin Ended
    /\ Goto(r, "killed")
    /\ UNCHANGED <<defers, published, err, signalled, stackVars, call, daemonVars>>

BecomesReady(r) ==
    /\ \E p \in Proc :
        /\ proc[r][p] = "running"
        /\ ready[r][p] # "written"
        /\ ready' = [ready EXCEPT ![r][p] = "written"]
    /\ UNCHANGED <<runVars, compose, proc, call, daemonVars>>

ProcessExits(r) ==
    /\ \E p \in Proc :
        /\ proc[r][p] = "running"
        /\ proc' = [proc EXCEPT ![r][p] = "exited"]
    /\ UNCHANGED <<runVars, compose, ready, call, daemonVars>>

-----------------------------------------------------------------------------
(* The daemon, for one host.                                               *)

Answer(r, op, status) == call' = [call EXCEPT ![r][op] = status]

\* Mutant of Grant: the host is not looked up before it is claimed.
GrantAlways(r) ==
    /\ call[r]["claim"] = "sent"
    /\ serving
    /\ owner' = r
    /\ Answer(r, "claim", "ok")
    /\ UNCHANGED <<runVars, stackVars, route, serving>>

Grant(r) ==
    /\ call[r]["claim"] = "sent"
    /\ serving /\ owner = None
    /\ owner' = r
    /\ Answer(r, "claim", "ok")
    /\ UNCHANGED <<runVars, stackVars, route, serving>>

\* Mutant of Serve: a claim in Releasing is published.
ServeWhileReleasing(r) ==
    /\ call[r]["publish"] = "sent"
    /\ serving /\ owner = r
    /\ route' = r
    /\ Answer(r, "publish", "ok")
    /\ UNCHANGED <<runVars, stackVars, owner, serving>>

\* No route changes while a release of its claim is under way.
Serve(r) ==
    /\ call[r]["publish"] = "sent"
    /\ serving /\ owner = r /\ call[r]["release"] # "withdrawn"
    /\ route' = r
    /\ Answer(r, "publish", "ok")
    /\ UNCHANGED <<runVars, stackVars, owner, serving>>

Withdraw(r) ==
    /\ call[r]["release"] = "sent"
    /\ serving /\ owner = r
    /\ route' = None
    /\ Answer(r, "release", "withdrawn")
    /\ UNCHANGED <<runVars, stackVars, owner, serving>>

Drop(r) ==
    /\ call[r]["release"] = "withdrawn"
    /\ owner' = None
    /\ Answer(r, "release", "ok")
    /\ UNCHANGED <<runVars, stackVars, route, serving>>

\* Refused by the daemon, or by the socket nobody listens on.
Refuse(r) ==
    /\ \E op \in Op :
        /\ call[r][op] = "sent"
        /\ \/ ~serving
           \/ op = "claim" /\ owner # None
           \/ op = "publish" /\ (owner # r \/ "reject" \in Mishaps
                                   \/ call[r]["release"] = "withdrawn")
           \/ op = "release" /\ (owner # r \/ "withdraw" \in Mishaps)
        /\ Answer(r, op, "refused")
    /\ UNCHANGED <<runVars, stackVars, daemonVars>>

\* The daemon dies and forgets; answers it had given may be lost.
DaemonDies ==
    /\ "daemon" \in Mishaps
    /\ serving
    /\ serving' = FALSE
    /\ owner' = None
    /\ \E lost \in SUBSET Run :
        call' = [r \in Run |-> [op \in Op |->
            IF call[r][op] \in {"sent", "withdrawn"} THEN "refused"
            ELSE IF call[r][op] = "ok" /\ r \in lost THEN "lost" ELSE call[r][op]]]
    /\ UNCHANGED <<runVars, stackVars, route>>

\* Bootstrap clears the routes before the socket is there.
DaemonStarts ==
    /\ ~serving
    /\ serving' = TRUE
    /\ route' = None
    /\ UNCHANGED <<runVars, stackVars, call, owner>>

-----------------------------------------------------------------------------
RunStep(r) ==
    \/ LoadConfig(r) \/ Claimed(r) \/ ClaimFails(r)
    \/ ComposeUp(r) \/ ComposeRejected(r) \/ ComposeFails(r)
    \/ StartProcess(r) \/ StartProcessFails(r)
    \/ AllReady(r) \/ NotReady(r) \/ Tick(r) \/ ReadinessFails(r)
    \/ Published(r) \/ PublishFails(r) \/ ForegroundEnds(r)
    \/ CleanupProcesses(r) \/ StopCompose(r)
    \/ BeginRelease(r) \/ SkipRelease(r) \/ Released(r) \/ ReleaseFails(r)
    \/ Exit(r)

DaemonStep(r) == Grant(r) \/ Serve(r) \/ Withdraw(r) \/ Drop(r) \/ Refuse(r)

Next ==
    \/ \E r \in Run :
        \/ RunStep(r) \/ DaemonStep(r)
        \/ Signal(r) \/ Kill(r) \/ BecomesReady(r) \/ ProcessExits(r)
    \/ DaemonDies
    \/ DaemonStarts

\* The runner's goroutine runs, docker compose is bounded or returns, the
\* readiness deadline passes, and a daemon that serves answers.
Fairness ==
    \A r \in Run :
        /\ WF_vars(RunStep(r))
        /\ SF_vars(ReadinessFails(r))
        /\ WF_vars(DaemonStep(r))

Spec == Init /\ [][Next]_vars

FairSpec == Spec /\ Fairness

-----------------------------------------------------------------------------
(* What a run promises.                                                    *)

\* The runner has torn down processes of r.
TornDown(r) == \E p \in Proc : proc[r][p] = "gone"

\* Nothing of the stack of r runs in the name of r.
StackDown(r) ==
    /\ ~compose[r]
    /\ \A p \in Proc : proc[r][p] \in {"none", "gone"}

\* Exit status 0 means that nothing is left: no claim, no route, no service,
\* no process, whenever the signal came.
CleanExit ==
    \A r \in Run : (pc[r] = "returned" /\ err[r] = "nil") =>
        owner # r /\ route # r /\ StackDown(r)

\* A run that returned holds its host only if it reported that the release
\* failed or the claim did, and is routed only if it reported the former.
LeftoversReported ==
    \A r \in Run : pc[r] = "returned" =>
        /\ owner = r => err[r] \in {"ClaimRejected", "CleanupFailed"}
        /\ route = r => err[r] = "CleanupFailed"

\* A route never outlives what it routes to unnoticed: when the runner tears
\* the stack down under a route, the publication or the release has failed.
RouteHasStack ==
    \A r \in Run : (route = r /\ TornDown(r)) =>
        err[r] \in {"GenerationCommitFailed", "CleanupFailed"}

\* "If startup fails, zerobased stops or rolls back owned resources before
\* releasing the claim": an unpublished run gives its host up when its
\* processes and services are down, or says that they are not; and processes
\* go before the services they depend on.
TeardownOrder ==
    [][\A r \in Run :
        /\ (owner = r /\ owner' # r /\ serving' /\ ~published[r]) =>
            /\ \A p \in Proc : proc[r][p] \in {"none", "gone"}
            /\ ~compose[r] \/ err[r] \in {"CleanupFailed", "DependencyStartFailed"}
        /\ (compose[r] /\ ~compose'[r]) =>
            \A p \in Proc : proc[r][p] \in {"none", "gone"}]_vars

\* Two runs are never in the foreground for one host at the same time, as
\* long as the daemon remembers who owns it.
ForegroundExclusive ==
    \A r, q \in Run : (pc[r] = "foreground" /\ pc[q] = "foreground") => r = q

\* For the runs the daemon is what `HostClaims' promises, whatever dies, hangs
\* up or is answered late: the host has one owner, who asked for it once; it
\* is routed to its owner, and given up when its route is gone.
HostClaim == INSTANCE HostClaims WITH
    Host <- {"host"}, Owner <- Run,
    owner <- [h \in {"host"} |-> owner],
    visible <- [h \in {"host"} |-> route],
    used <- {r \in Run : call[r]["claim"] \in {"ok", "lost"}}

ImplementsHostClaims == HostClaim!Spec

\* Startup ends: in the foreground or with an answer, never in between.
StartupEnds ==
    \A r \in Run : (pc[r] = "start") ~> (pc[r] \in Ended \union {"foreground"})

\* Ctrl-C ends a run, whatever it is doing and whatever fails on the way.
SignalReturns ==
    \A r \in Run : signalled[r] ~> (pc[r] \in Ended)

-----------------------------------------------------------------------------
(* What the documents say of a run, and the code does not keep.            *)

\* The RFC: "startup failure releases ownership cleanly"; a run that could not
\* release says so.
StartupFailureReleases ==
    \A r \in Run :
        (pc[r] = "returned" /\ ~published[r] /\ err[r] # "CleanupFailed") =>
            owner # r

\* The RFC: "route publication happens only after readiness", of the processes
\* of this run.
RoutedAfterReadiness ==
    \A r \in Run : route = r => \A p \in Proc : ready[r][p] = "written"
=============================================================================
