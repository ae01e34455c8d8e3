# A TLA+ model of zerobased

zerobased gives local web projects stable host names.  `zerobased start` runs a
daemon that owns hosts and a Caddy container that serves them; `zerobased up`
runs one project: it claims the project's host at the daemon, starts Compose
services and processes, waits for their readiness, publishes the routes, stays
in the foreground and takes everything down again.

This directory models that protocol: who owns a host, who is served, what is
started for a project, and what is left when something fails, is cancelled or
dies on the way.

## The system

| part | code | state | operations |
|---|---|---|---|
| daemon | `internal/daemon/start.go` | claims by host, generation, `server.mu` | `handleClaim`, `handleRoutes`, `handleRelease`, `Start`, `Close` |
| daemon lock and socket | `internal/daemon/start.go` | `daemon.lock`, `daemon.sock` and `health.json` of a `ZEROBASED_HOME` | `acquireDaemonLock`, `socketIsLive`, the start and the end of a daemon |
| route runtime | `internal/route_runtime/docker_caddy.go` | committed publications, Caddyfile, container, what Caddy serves, `runtime.mu` | `Bootstrap`, `Publish`, `Unpublish`, `Close` |
| stack runner | `internal/up/runner.go` | where `Run` is, its pending defers, `published`, `err`, its processes and services | `Run` and what it calls |
| Compose backend | `internal/composebackend` | services up or down; the loaded Compose model | `Load` with its isolation rules, `Start` with rollback, `Stop` |
| client | `internal/controlplane/client.go` | a request under way | `Claim`, `Publish`, `Release` |
| errors | `internal/zberr` | none | chains of causes, `Critical`, `Is`, the registry of codes |
| command line | `cmd/zerobased/main.go` | the signal context | `start`, `up` |
| admin-URL runtime, npm wrapper | `admin_url.go`, `npm/` | none | |

How they interact: every `up` is a process of its own and talks to the daemon by
HTTP over a unix socket, three requests in its life.  The daemon runs each
request in a goroutine.  `server.mu` guards the claims; a publication keeps it
through the call to the route runtime, a release gives it up for that call and
takes it again.  The route runtime serialises its calls with `runtime.mu` and
talks to Docker by commands.  The daemon keeps no state on disk but the
Caddyfile; the container outlives it, and has one name for all homes.

What is hard here:

* *Interleavings.*  Handlers of the same host between the two locks; two runs
  after one host; a release under way while a claim, a publication or another
  release of the same host arrives; two daemons of one home, or of two.
* *Lost answers.*  A signal cancels `ctx`, and with it the wait for an answer,
  while the daemon carries the request out.  `docker exec` can fail after Caddy
  took the configuration.
* *Partial failure.*  A reload fails after the file was written; the rollback of
  Compose fails; the release fails while the stack is being torn down; a
  project turns out to be wrong at its publication, with everything running.
* *Crash and restart.*  The daemon forgets every claim and counts generations
  from 1 again, Caddy serves on until the next `Bootstrap`, receipts of the old
  daemon are still around.
* *Order.*  Four Go defers unwind a run, two of them release the same claim.
* *Waiting.*  Processes ignore SIGTERM and fork; an exit is told once.

`PROJECT.json` lists these hazards line by line with the properties that watch
them, and the parts that are not modelled.

## The modules

    RouteTable     <- implemented by -  DockerCaddy
                                           ^ EXTENDS
    HostClaims     <- implemented by -  ControlPlane        one daemon, its requests
                                     -  StackRunner         runs of one host
                                        ProcessGroup        the processes of one run
                                        Daemons             the daemons of a machine

    Errors <- ComposeBackend <- ProjectConfig <- ProjectUp  from files to containers
                                    Caddyfile <-

Each module `X` has an `MCX` with values for its constants where it is run, and
its theorems in `XProofs`; the theorems about what Caddy serves are in
`ControlPlaneServedProofs`, and `ProjectUpLemmas` has what `ProjectUpProofs` needs
to know of the operators of `ProjectConfig`, `ComposeBackend` and `Caddyfile`.

**DockerCaddy** is one `Caller` per goroutine inside `Publish` or `Unpublish`.
`Stage` is the code from `runtime.mu.Lock()` to the end of the file write (it
cannot be interleaved with another call, and nobody but the runtime reads the
file); the reload is a step of its own, with its retries (`attempt`), its
failure, and its failure after success (`ReloadAppliedUnseen`); `Commit` and
`Restore` are the two ways out, with the unlock.  `configFile` is the file,
`live` what Caddy serves, `publications` the committed table.  `doubt` is
history: it remembers that the last write of the file failed, or that a reload
reported as failed has taken effect.  `stage` follows `Bootstrap`.  A
publication is reduced to its host, session and claim token: its routes follow
from the session, which sends the same ones with the claim and the publication.
Of a host the model keeps a name and the number of trailing dots, the one part
of `canonicalHost` that is not idempotent.

**ControlPlane** adds the daemon.  A handler goes from `lock` (waiting for
`server.mu`) through `runtime` (inside the route runtime) to `delete` or `undo`
(waiting for `server.mu` again, release only) and `reply`.  A stretch of code
under `server.mu` that cannot block is one action.  The clients are
unconstrained: any session may claim at any time and publish or release with
any receipt ever issued to it, so late, repeated and concurrent requests, and
requests across a restart, are all there.  `Disconnect` is a client that hangs
up, or `server.Close`; the handler goes on, as in Go.  `lastToken` and
`receipts` are history.

**StackRunner** is `Run` under signals and late answers.  `pc` is the phase,
`defers` the pending defers (a set: each is pushed once, in one order), and
`err` the named result.  `call` is the state of the three requests at the
daemon, which answers when it likes and also after the runner has hung up.  The
daemon itself is one host (`owner`, `route`), with refusals and restarts, and is
shown to implement `HostClaims` as well; an answer given but not yet read is
`lost` when the daemon dies.  `Mishaps` selects what may go wrong.

**ProcessGroup** opens the one step that `StackRunner` takes a process for:
every process is a group with a leader and a helper it may fork, any of which
may be `deaf` to SIGTERM.  The runner signals groups but waits for leaders,
through a channel (`done`) that a goroutine fills once and that the readiness
or foreground poll may already have emptied.  `terminateProcesses` is its two
loops: `SendTerm`, then `Reap` or `GraceEnds` (200 ms, SIGKILL) per process.

**ProjectUp** opens the configuration that `StackRunner` takes as given, and
takes calls as atomic in turn.  `ProjectConfig` has `findProjectRoot`, the
checks and defaults of `loadConfig`, and `composeRequest`; `ComposeBackend` has
what compose-go makes of the files (external), the raw policies that the
backend reads itself, the isolation rules and `ProjectName`; `Caddyfile` has
`validatePublication`, the stable sort of the routes (each route's `Place` is one
after those before it) and the matchers; which requests a matcher `Takes` and
which block Caddy lets answer are external.  One star at the end is a prefix;
any other star, which `validatePublication` allows, is a glob, and what it takes
is the constant `Globs`.  `Normal`, `Under` and `SegmentsDecide` are the RFC's
rules for routing (425-430), which the property compares the text with.
`Errors` has chains of causes and the registry.
`running` are the containers on the machine, `blocks` what is served for each
host, `defers` a sequence here, so that its order is the code's.

**Daemons** has what several `zerobased start` meet over: the lock, the socket
and the Caddyfile of each home, and the one container name.  `socket` says who
bound the path, `foreign` where somebody else listens, who may come and go at any
moment at the homes of `Contested`, `container` its label, whether it is up and
has routes.  Its `orphaned` is history, and so is `intruded`: the homes where the
other listener came when a daemon had already found nobody there, or listened
itself.  Probe, removal and
bind of the socket are three steps, as are inspect, run, start and reload of the
container.  A daemon's routes are some or none.

**RouteTable** and **HostClaims** say what a caller may rely on: an atomic
table per host; a host with at most one owner, claims never issued twice,
routes on behalf of the owner only, and a host given up only without its route.

## What the runs check

Passing runs:

| run | instance | shows |
|---|---|---|
| `docker_caddy` | 2 callers, 3 sessions (one cannot be published), 2 names, 1 token, 2 attempts, 2 starts; every fault | `NoLostUpdate`, `QuietMeansConsistent`, `CommitFollowsReload`, refinement of `RouteTable` |
| `control_plane` | 2 handlers, 2 sessions after one name (one with a trailing dot), 2 claims, 2 starts, 1 attempt; every fault but `lost_reload` | `CommittedRouteOwned`, `LiveRouteOwned`, `PublishedIsServed`, `ReleasingHasWorker`, `OneOwnerPerName`, `OnlyBearerChangesClaim`, `AnswersAreTrue`, refinement of `HostClaims` |
| `live_control_plane` | the same, 2 attempts, 1 start, one session cannot be published | `RequestsAnswered` |
| `stack_runner` | 2 runs after one host, one with Compose, one process each; every mishap but stale files and daemon crashes | `CleanExit`, `LeftoversReported`, `RouteHasStack`, `TeardownOrder`, `ForegroundExclusive`, refinement of `HostClaims` |
| `live_stack_runner` | 1 run, Compose, two processes, every mishap | `StartupEnds`, `SignalReturns` |
| `process_group` | 2 processes, each of the four members deaf or not | `NoLeaderSurvives`, `CulpritGroupDies`, `RunEnds` |
| `project_up` | 2 runs in two nested projects; one reads any of twenty configurations, one for each rule and default; every mishap | `UpIsIsolated`, `MostSpecificRouteServes`, `ErrorsExplained`, `EndedLeavesNothing`, `StopSparesOthers` |
| `daemons` | 3 daemons, 2 homes, one daemon with an admin URL; every fault, others who come to listen at one home, foreign containers | `ReachableAtHome`, `OneRouter`, `FreshTable`, `OrphansExplained`, `StartAnswers` |

Every run but the two `live_` ones also checks its module's type invariant.

Why these bounds.  The properties of the runtime relate a call to one other
call: two callers and two names show a lost update or a stale file.  A restart
needs two starts; a receipt that outlives its daemon, and a release that meets
the next claim on its host, need two tokens (three were tried: 3.0 million
states, no error).  One attempt is enough where retrying changes no outcome, two
where the loop itself is at stake.  In `stack_runner` two runs contend; the
start of a second process, and its failure, need two processes, which the
single-run instance has.  In `process_group` one of the two is the culprit and
the other is not, and each can be the first or the second of the loops.  In
`project_up` each configuration differs from a common one in one respect, since
the rules are independent; the second run meets the first in its project, in
the inner one, and with another host.  In `daemons` two daemons of a home race
for the lock and one of another home for the container name; each may start
again for ever.  Others listen at the home of the two only: at the other one they
would meet one daemon, as they do here when the second has not started.  The
routes of `project_up` come as a root with nested paths, as paths that end in a
slash, repeat or share a prefix, and with a star at the end and inside.

`CHECK_DEADLOCK FALSE` is set where the system may stop: the daemon after its
last start, a run when it has returned.

Runs that end in a violation, each on purpose; the trace is the explanation:

| run | violated | because |
|---|---|---|
| `ambiguous_reload` | `LiveRouteOwned` | a reload applied but reported as failed leaves a route nobody owns: `Publish` restores the file, the record stays unpublished, the release skips `Unpublish` |
| `lost_claim` | `StartupFailureReleases` | signal during `Claim`: the host stays claimed by a run that has ended |
| `stale_readiness` | `RoutedAfterReadiness` | readiness is the existence of a file, and files outlive runs |
| `handover` | `TornDownWithItsStack` | a published run releases its host before `docker compose down`; the next run of the project claims it, brings the same Compose project up, and loses its containers to the first one's `down` |

`LiveRouteOwned` thus holds exactly when a failed reload really failed: the
passing run leaves the fault `lost_reload` out and the violating run has it.  How
far each of the first three violations reaches is proved (below).  In the same
way `StopSparesOthers`, which holds, names the only two ways in which a
run loses its containers to another, and `handover` shows that one of them
happens to a run in the foreground.

Other differences between the code and its documents, met while modelling and
not run:

* `app` and `app..` are two claims and one served name, since each of
  `canonicalHost` (`start.go:401`) and its counterpart (`docker_caddy.go:146`)
  removes one dot; the RFC (135) has keys without a trailing dot.  The runs have
  at most one dot.  `NamesHaveOneOwner` is proved for any hosts and says that
  exactly two dots are the only way to it; the theorems that need the daemon's
  key and the runtime's to be one assume `HostsCanonical`.
* Paths match as text (`docker_caddy.go:285`), by path segment in the RFC
  (425-430).  A route `/api` gets `/api2` as well; a route `/api/` does not get
  `/api`; a route `/a*`, of which the RFC does not know, comes before `/a`; and
  routes that repeat each other, which the RFC rejects, are accepted, and one of
  them answers.  `MostSpecificRouteServes` therefore speaks only of requests
  of which the text says what the segments say (`SegmentsDecide`): there, the
  RFC's rule holds.
* Two windows in which a daemon takes the socket of somebody else, who knows
  nothing of the lock: it comes to listen between the probe and the removal of
  the path (`start.go:84`, `:88`), or it replaces the path of a daemon, whose
  listener unlinks it in `Close` (`start.go:146`).  `ReachableAtHome` says that
  there is no third, and that daemons never do it to each other.
* A signal during `Publish` stops the processes before the route goes
  (`runner.go:208`), and a failed release stops them under a route that stays
  (`runner.go:183`).  The first text of the shutdown-order ADR wanted the
  opposite; `tasks/todo.md:41` and a test want the code's way for the second.
  `RouteHasStack` says that there is no third way.
* Publishability is checked after everything has been started, not before (RFC,
  365).  `EndedLeavesNothing` says that the late failure leaves nothing.
* The raw policies are read from the files given, not from those they include
  (`backend.go:266`): `UpIsIsolated` says what is left of the promise.

## Fairness

`live_control_plane` assumes that a handler waiting for a mutex again and again
gets it (`SF` on the lock steps: Go's `sync.Mutex` hands itself to a waiter after
a millisecond), and that docker commands, unlocked code and replies proceed
(`WF`).  Nothing is assumed of clients, of the daemon's restart or of faults: a
reload may fail for ever.

`live_stack_runner` assumes `WF` of the runner's own steps (Compose calls end: the
rollback and stop have timeouts, up ends with `ctx`), `SF` of the end of the
readiness wait (its deadline fires, and `select` chooses among what is ready),
and `WF` of the daemon's answers.  Claim and publication have no timeout in the
code, so without an answering daemon only a signal ends them.  Processes need
never become ready or exit.

`process_group` assumes `WF` of the runner outside its two waits, of the end of
a wait once the context is cancelled, of the goroutine that collects an exit,
and of the poll, which looks at every channel each 20 ms.  No process need ever
end, listen to a signal or become ready, and the user need not press Ctrl-C.

`daemons` assumes `WF` of the steps of each daemon: the probe of the socket has
a timeout of 100 ms, `Bootstrap` one of two minutes, the removal of the
container one of 30 s.  No daemon need be signalled.

## What is proved

With TLAPS, for all values of the constants that satisfy the named `ASSUME`s of
the modules (their kinds; `None` is no caller, run, daemon or record):

* `DockerCaddyProofs`: type correctness, `NoLostUpdate`, `QuietMeansConsistent`,
  `CommitFollowsReload` and the refinement of `RouteTable`.  The inductive
  invariant says that the holder of `runtime.mu` is the only call past the lock,
  that the file is the table it staged and Caddy's configuration is the
  committed table (or the staged one once the reload succeeded), unless `doubt`
  says otherwise.  `OneAstray` is what is left when reloads that took effect are
  reported as failed: every reload installs the committed table but for the
  host of the call, so Caddy and the table differ about one host at most.
* `ControlPlaneProofs`: type correctness and `ReleasingHasWorker` for any hosts,
  and `CommittedRouteOwned` under `HostsCanonical` (hosts have at most one trailing
  dot; the two conjuncts of the invariant that need it are conditional on it).
  The properties are not inductive: the invariant adds where a handler's
  phase puts its call (`CallMatch`), that a publication in the runtime holds
  `server.mu` and an unreleased claim (`ServerLock`, `RoutesActive`), that a
  release at work has marked its record (`ReleaseMarked`), that a committed
  route is recorded as published (`PublishedRecorded`) and gone once a release
  has withdrawn it (`Withdrawn`).  The proofs about the runtime carry over,
  since every step of the daemon is a step of the runtime, one of `Close`, or
  leaves it alone.
* `ControlPlaneServedProofs`: for any hosts `OnlyBearerChangesClaim`, and that a
  name is published under two claims only if a session configures it with exactly
  two dots (`NamesHaveOneOwner`: claims are kept under hosts with one dot less,
  and the publications that `validatePublication` has accepted, `Validated`, have
  at most one dot there).  `OneOwnerPerName` follows where no session does.  Under
  `HostsCanonical` and `NoLostReload` (a reload reported as failed has failed)
  `PublishedIsServed`, `LiveRouteOwned`, `AnswersAreTrue` and the
  refinement of `HostClaims`.  Caddy then serves the committed table or the one
  a reload has just installed (`LiveCertain`), and nothing while there is no
  container (`Dark`); what is new in the invariant is the way back from a record
  to the table: a publication that took effect is in it (`Shown`), and so is
  that of a published claim until its release has withdrawn it (`Kept`).
  Three theorems do without `NoLostReload`: `ServedWhenCertain` (the next
  confirmed reload puts everything right), `OneHostMisled` (until then one host
  at most is not served as the claims say) and `AnswersTrueWhenPublished` (a
  positive answer to a publication is true, and to the release of a published
  claim: between its reload and its answer a handler is `Settled`, and other
  handlers in the runtime are about other hosts).
* `StackRunnerProofs`: type correctness, `CleanExit`, `LeftoversReported`,
  `RouteHasStack` and `TeardownOrder` for any number of runs and processes and any
  mishaps, and `ForegroundExclusive` for a daemon that does not die.  The
  invariant ties the phase of a run to its pending defers (`PhasesOK`), to the
  state of its requests (`RequestsOK`), and each thing the run may hold, the
  host, the route, the services, the processes, to the defer, request or error
  that answers for it (`OwnerHeld`, `RouteHeld`, `StackHeld`, `RouteKept`,
  `ReleaseLast`, `OwnerKnown`).  The refinement of `HostClaims` holds with every
  mishap (`RunnersSeeHostClaims`; `ClaimInv` says that a run asks for its host once
  and that the route is the owner's).  Two theorems bound the findings:
  `OnlyInterruptedStartupsHold` (a startup that failed keeps its host only after
  a signal) and `RoutedWhenReady` (without old files, routes follow readiness).
* `ProcessGroupProofs`: type correctness, `NoLeaderSurvives` and
  `CulpritGroupDies` for any number of processes.  The invariant follows the two
  loops: before the second only the culprit's exit has been taken (`Turns`), and
  what that loop has left behind it is empty or a group whose leader's exit it
  took itself (`Handled`).
* `ProjectUpProofs`: type correctness, `UpIsIsolated`, `MostSpecificRouteServes`,
  `ErrorsExplained`, `EndedLeavesNothing` and `StopSparesOthers` for any
  configurations, Compose files and runs.  Each phase has its possible stacks of
  defers (`Phase`); each container, process, claim and route has the pending
  defer that will take it down or the error that says why none will
  (`ContainerHeld`, `ProcessesHeld`, `HostHeld`, `RouteOwned`); the services of a
  run are those that were judged (`Judged`); what is served at the host of a run
  in the foreground is its routes, rendered.  `RoutesServe` is for any routes and
  any `Globs`, with the premise of its property.
* `ProjectUpLemmas`, on which these rest: `LoadSelectsTheLot` (what Compose runs is
  closed under dependencies), that the closure over includes and dependencies is
  the least one, that the nearest root is one and the nearest, and that
  `renderCaddyfile` has every route once, longer paths first, so that no shorter
  match is tried before a longer one (`RenderedServes`), and that among paths a
  request is under the longer text is the longer path (`LongerIsSpecific`).  The last is the
  correctness of the sort without an induction over the routes: `Before` is a
  strict total order on a finite set, whose elements the number of their
  predecessors tells apart, so `Place` is a bijection.
* `DaemonsProofs`: type correctness, `ReachableAtHome`, `OneRouter`, `FreshTable`
  and `OrphansExplained` for any number of daemons and homes.  The invariant has
  the holder of each lock (`HoldsLock`), what the holder has learnt of the socket, unless
  somebody came too late for it to learn (`Probed`, `intruded`), whose the container is from its creation on (`Docking`), that the
  Caddyfile is the table of the daemon that is up (`FileIsTable`), and that a
  container without a daemon is marked.

The assumptions on constants are the kinds of values, and in `ProjectUp` that a
configuration is what YAML can hold, that Compose files name finitely many
services, and that request paths begin with a slash, as HTTP has it.

Every invariant, action property and refinement of the runs is proved; what is
model-checked only is liveness under fairness (`RequestsAnswered`, `StartupEnds`,
`SignalReturns`, `RunEnds`, `StartAnswers`), which is out of the prover's reach.

## Abstractions

* Time is absent: timeouts are steps that may happen.
* The text of files, requests, messages and identifiers is left out, but for
  paths in `Caddyfile`.  A session's id, a claim's token and the hash in the name
  of a Compose project are taken as unique.
* A docker command of a daemon that died takes effect at once or never, and
  nobody removes the container by hand while a daemon is up.  The lock goes with
  its process.  A Caddyfile torn by a failed write is in `DockerCaddy`, not in
  `Daemons`.
* Paths are compared letter by letter: that Caddy ignores case and decodes
  escapes is left out.
* A group has one helper, which stands for any number of them.
* `ProjectUp` has no signal before the foreground and no daemon restart;
  `StackRunner` has both.

## Not modelled

* Compose profiles and environment files, and what Compose does beyond the
  selection of services.  The isolation rules look at every namespace option but
  `uts` and `userns`; the model has one trait for those they look at.
* The server behind an admin URL, whose routes survive the daemon: it is not in
  the repository.  The client is stateless.
* Requests that do not decode, `GET /health`, argument parsing, output, the text
  of errors and `ValidateDeclarations`: they change no state.
* Leases, recovery and the store, which the RFC describes and the code does not
  have (the registry declares their errors).
* The npm wrapper, which installs the binary.

## What could come next

`System`, with `ControlPlane` and the runners composed, a runner's request being a
handler's, shown to implement `StackRunner`.  Today the two meet in `HostClaims`,
which both are proved to implement, the one for all hosts and in the detail of
its locks, the other for the host its runs contend for.

The liveness properties have safety parts that could be proved: that in every
reachable state which has not ended some step of the code is possible, a
deadlock-freedom without ENABLED, stated through the guards.
