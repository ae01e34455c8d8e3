------------------------------- MODULE Daemons -------------------------------
(***************************************************************************)
(* Several `zerobased start' on one machine: Start and Close in            *)
(* internal/daemon/start.go with Bootstrap and Close of the route runtime. *)
(*                                                                         *)
(* `ControlPlane' follows one daemon through its requests; here are the    *)
(* things that daemons meet over: the lock file and the socket of their    *)
(* ZEROBASED_HOME, and the one container name that all homes share.  The   *)
(* routes of a daemon are some or none.                                    *)
(***************************************************************************)
CONSTANTS
    Daemon,    \* the invocations of `zerobased start'; each may be repeated
    Home,      \* values of ZEROBASED_HOME
    homeOf,    \* the one each daemon has
    Contested, \* the homes at whose socket others may listen as well
    Docker,    \* the daemons with Docker Caddy; the others use an admin URL
    Faults,    \* which failures the environment injects
    None,      \* no holder, no socket, no container
    Foreign    \* whoever else may listen at a socket or own a container

FaultKinds == {"write",   \* the Caddyfile or health.json cannot be written
               "docker",  \* a docker command fails
               "listen"}  \* the socket cannot be removed or bound

ASSUME DaemonsAssumption ==
    /\ homeOf \in [Daemon -> Home]
    /\ Contested \subseteq Home
    /\ Docker \subseteq Daemon
    /\ Faults \subseteq FaultKinds

ASSUME DaemonsNoneAssumption ==
    /\ None \notin Daemon \union Home \union {Foreign}
    /\ Foreign \notin Daemon \union Home

VARIABLES
    pc,         \* where each daemon is
    lock,       \* who holds the flock on daemon.lock of each home
    socket,     \* who bound the daemon.sock there is
    foreign,    \* the homes at whose socket somebody else listens
    intruded,   \* history: those where it came too late to be seen
    caddyfile,  \* the Caddyfile of each home has routes
    published,  \* the daemons with routes in their table
    container   \* the container named zerobased-route-runtime-caddy

vars == <<pc, lock, socket, foreign, intruded, caddyfile, published, container>>

\* home is a label; orphaned is history: a daemon died over it, or docker
\* failed half-way.
NoContainer == [home |-> None, up |-> FALSE, routes |-> FALSE, orphaned |-> FALSE]

Containers ==
    [home : Home \union {None, Foreign}, up : BOOLEAN, routes : BOOLEAN, orphaned : BOOLEAN]

Booting == {"config", "inspect", "run", "start", "reload"}

Listening == {"health", "up", "close"}

Ready == {"listen", "rm"} \union Listening

Holding == {"probe", "remove", "unlock"} \union Booting \union Ready

Label == {"off", "lock"} \union Holding

Init ==
    /\ pc = [d \in Daemon |-> "off"]
    /\ lock = [h \in Home |-> None]
    /\ foreign \in SUBSET Contested
    /\ intruded = {}
    /\ socket = [h \in Home |-> IF h \in foreign THEN Foreign ELSE None]
    /\ caddyfile = [h \in Home |-> FALSE]
    /\ published = {}
    /\ container \in {NoContainer, [NoContainer EXCEPT !.home = Foreign, !.up = TRUE]}

-----------------------------------------------------------------------------
(* Start.                                                                  *)

Goto(d, label) == pc' = [pc EXCEPT ![d] = label]

Start(d) ==
    /\ pc[d] = "off"
    /\ Goto(d, "lock")
    /\ UNCHANGED <<lock, socket, foreign, intruded, caddyfile, published, container>>

\* Mutant of AcquireLock: the flock is shared, not exclusive.
AcquireLockShared(d) ==
    /\ pc[d] = "lock"
    /\ lock' = [lock EXCEPT ![homeOf[d]] = d]
    /\ intruded' = intruded \ ({homeOf[d]} \ foreign)
    /\ Goto(d, "probe")
    /\ UNCHANGED <<socket, foreign, caddyfile, published, container>>

AcquireLock(d) ==
    /\ pc[d] = "lock"
    /\ lock[homeOf[d]] = None
    /\ lock' = [lock EXCEPT ![homeOf[d]] = d]
    /\ intruded' = intruded \ ({homeOf[d]} \ foreign)
    /\ Goto(d, "probe")
    /\ UNCHANGED <<socket, foreign, caddyfile, published, container>>

\* Mutant of LockHeld: without LOCK_NB the daemon waits for the lock.
LockHeldWaits(d) == FALSE /\ UNCHANGED vars

LockHeld(d) ==
    /\ pc[d] = "lock"
    /\ lock[homeOf[d]] # None
    /\ Goto(d, "off")
    /\ UNCHANGED <<lock, socket, foreign, intruded, caddyfile, published, container>>

socketIsLive(h) ==
    \/ socket[h] = Foreign /\ h \in foreign
    \/ \E d \in Daemon : socket[h] = d /\ pc[d] \in Listening

\* socketIsLive: a lock of ours does not keep others from listening.
ProbeSocket(d) ==
    /\ pc[d] = "probe"
    /\ Goto(d, IF socketIsLive(homeOf[d]) THEN "unlock" ELSE "remove")
    /\ UNCHANGED <<lock, socket, foreign, intruded, caddyfile, published, container>>

\* What is left of a daemon that died.
RemoveSocket(d) ==
    /\ pc[d] = "remove"
    /\ \/ /\ socket' = [socket EXCEPT ![homeOf[d]] = None]
          /\ Goto(d, IF d \in Docker THEN "config" ELSE "listen")
       \/ "listen" \in Faults /\ Goto(d, "unlock") /\ UNCHANGED socket
    /\ UNCHANGED <<lock, foreign, intruded, caddyfile, published, container>>

-----------------------------------------------------------------------------
(* Bootstrap.                                                              *)

\* Mutant of BootFails: Close removes the container, ready or not.
BootFailsAndRemoves(d) == Goto(d, "rm")

\* result.runtime is not set yet, so that Close leaves the container alone.
BootFails(d) == Goto(d, "unlock")

\* The table of a new DockerCaddy is empty.
WriteConfig(d) ==
    /\ pc[d] = "config"
    /\ \/ caddyfile' = [caddyfile EXCEPT ![homeOf[d]] = FALSE] /\ Goto(d, "inspect")
       \/ "write" \in Faults /\ BootFails(d) /\ UNCHANGED caddyfile
    /\ UNCHANGED <<lock, socket, foreign, intruded, published, container>>

Labelled(d) == container.home = homeOf[d]

\* Any error of docker inspect counts as "there is none".
Inspect(d) ==
    /\ pc[d] = "inspect"
    /\ \/ container = NoContainer /\ Goto(d, "run")
       \/ "docker" \in Faults /\ Goto(d, "run")
       \/ container # NoContainer /\ Labelled(d) /\ Goto(d, "start")
       \/ container # NoContainer /\ ~Labelled(d) /\ BootFails(d)
    /\ UNCHANGED <<lock, socket, foreign, intruded, caddyfile, published, container>>

\* Caddy reads the Caddyfile that is mounted in its container.
Mounted == container.home \in Home /\ caddyfile[container.home]

Started ==
    IF container.up THEN container ELSE [container EXCEPT !.up = TRUE, !.routes = Mounted]

Reloaded == [container EXCEPT !.routes = container.up /\ Mounted]

Created(d) ==
    [home |-> homeOf[d], up |-> TRUE, routes |-> caddyfile[homeOf[d]], orphaned |-> FALSE]

\* Mutant of DockerStart: a container that runs is not reloaded.
DockerStartWithoutReload(d) ==
    /\ pc[d] = "start"
    /\ container # NoContainer
    /\ container' = Started
    /\ Goto(d, "listen")
    /\ UNCHANGED <<lock, socket, foreign, intruded, caddyfile, published>>

DockerStart(d) ==
    /\ pc[d] = "start"
    /\ container # NoContainer
    /\ container' = Started
    /\ Goto(d, "reload")
    /\ UNCHANGED <<lock, socket, foreign, intruded, caddyfile, published>>

\* docker start, or each of the ten reloads.
DockerFails(d) ==
    /\ pc[d] \in {"start", "reload"}
    /\ "docker" \in Faults \/ ~container.up
    /\ BootFails(d)
    /\ UNCHANGED <<lock, socket, foreign, intruded, caddyfile, published, container>>

\* From here on the container is this daemon's to remove.
Reload(d) ==
    /\ pc[d] = "reload"
    /\ container.up
    /\ container' = [Reloaded EXCEPT !.orphaned = FALSE]
    /\ Goto(d, "listen")
    /\ UNCHANGED <<lock, socket, foreign, intruded, caddyfile, published>>

DockerRun(d) ==
    /\ pc[d] = "run"
    /\ container = NoContainer
    /\ container' = Created(d)
    /\ Goto(d, "listen")
    /\ UNCHANGED <<lock, socket, foreign, intruded, caddyfile, published>>

\* The name is taken; or the container is created and cannot start, since
\* somebody else has port 80.
DockerRunFails(d) ==
    /\ pc[d] = "run"
    /\ \/ container # NoContainer /\ UNCHANGED container
       \/ /\ "docker" \in Faults
          /\ container = NoContainer
          /\ container' \in {NoContainer,
                             [NoContainer EXCEPT !.home = homeOf[d], !.orphaned = TRUE]}
    /\ BootFails(d)
    /\ UNCHANGED <<lock, socket, foreign, intruded, caddyfile, published>>

-----------------------------------------------------------------------------
(* The rest of Start, a daemon at work, and Close.                         *)

\* Mutant of AfterListener: Close does not know the runtime.
AfterListenerUnlock(d) == "unlock"

AfterListener(d) == IF d \in Docker THEN "rm" ELSE "unlock"

Listen(d) ==
    /\ pc[d] = "listen"
    /\ \/ /\ socket[homeOf[d]] = None
          /\ socket' = [socket EXCEPT ![homeOf[d]] = d]
          /\ Goto(d, "health")
       \/ /\ "listen" \in Faults \/ socket[homeOf[d]] # None
          /\ Goto(d, AfterListener(d))
          /\ UNCHANGED socket
    /\ UNCHANGED <<lock, foreign, intruded, caddyfile, published, container>>

WriteHealth(d) ==
    /\ pc[d] = "health"
    /\ \/ Goto(d, "up")
       \/ "write" \in Faults /\ Goto(d, "close")
    /\ UNCHANGED <<lock, socket, foreign, intruded, caddyfile, published, container>>

\* Mutant of Publish: a daemon with an admin URL writes the Caddyfile as well.
PublishAnyway(d) ==
    /\ pc[d] = "up"
    /\ container.up
    /\ \/ published' = published \union {d}
       \/ published' = published \ {d}
    /\ caddyfile' = [caddyfile EXCEPT ![homeOf[d]] = d \in published']
    /\ container' = [container EXCEPT !.routes =
                        IF container.home \in Home THEN caddyfile'[container.home] ELSE @]
    /\ UNCHANGED <<pc, lock, socket, foreign, intruded>>

\* The table gets its first route, or loses its last one.
Publish(d) ==
    /\ pc[d] = "up"
    /\ d \in Docker
    /\ container.up
    /\ \/ published' = published \union {d}
       \/ published' = published \ {d}
    /\ caddyfile' = [caddyfile EXCEPT ![homeOf[d]] = d \in published']
    /\ container' = [container EXCEPT !.routes =
                        IF container.home \in Home THEN caddyfile'[container.home] ELSE @]
    /\ UNCHANGED <<pc, lock, socket, foreign, intruded>>

Signal(d) ==
    /\ pc[d] = "up"
    /\ Goto(d, "close")
    /\ UNCHANGED <<lock, socket, foreign, intruded, caddyfile, published, container>>

\* The listener unlinks the path, whoever's socket is there now.
CloseListener(d) ==
    /\ pc[d] = "close"
    /\ socket' = [socket EXCEPT ![homeOf[d]] = None]
    /\ Goto(d, AfterListener(d))
    /\ UNCHANGED <<lock, foreign, intruded, caddyfile, published, container>>

\* docker rm -f, which looks at no label.
RemoveContainer(d) ==
    /\ pc[d] = "rm"
    /\ \/ container' = NoContainer
       \/ "docker" \in Faults /\ container' = [container EXCEPT !.orphaned = TRUE]
    /\ Goto(d, "unlock")
    /\ UNCHANGED <<lock, socket, foreign, intruded, caddyfile, published>>

Gone(d) ==
    /\ lock' = [lock EXCEPT ![homeOf[d]] = IF @ = d THEN None ELSE @]
    /\ published' = published \ {d}
    /\ Goto(d, "off")

Unlock(d) ==
    /\ pc[d] = "unlock"
    /\ Gone(d)
    /\ UNCHANGED <<socket, foreign, intruded, caddyfile, container>>

\* The docker command that a daemon waits for is a process of its own.
Survives(d) ==
    {container} \union
    CASE pc[d] = "run" /\ container = NoContainer -> {Created(d)}
      [] pc[d] = "start" /\ container # NoContainer -> {Started}
      [] pc[d] = "reload" -> {Reloaded}
      [] pc[d] = "rm" -> {NoContainer}
      [] OTHER -> {}

\* SIGKILL; or a signal before Start has returned or after the first one,
\* which nobody handles.  A docker command takes effect at once or never.
Die(d) ==
    /\ pc[d] # "off"
    /\ Gone(d)
    /\ \E c \in Survives(d) :
           container' = IF c.home = homeOf[d] /\ d \in Docker
                        THEN [c EXCEPT !.orphaned = TRUE] ELSE c
    /\ UNCHANGED <<socket, foreign, intruded, caddyfile>>

\* A daemon that has seen nobody there, or listens itself.
Unguarded(h) ==
    \E d \in Daemon : homeOf[d] = h /\ pc[d] \in {"remove"} \union Listening

\* Somebody who knows nothing of the lock takes the path, whatever is there.
ForeignStarts(h) ==
    /\ h \in Contested \ foreign
    /\ foreign' = foreign \union {h}
    /\ socket' = [socket EXCEPT ![h] = Foreign]
    /\ intruded' = IF Unguarded(h) THEN intruded \union {h} ELSE intruded \ {h}
    /\ UNCHANGED <<pc, lock, caddyfile, published, container>>

\* The other listener ends, and may leave its socket behind.
ForeignEnds(h) ==
    /\ h \in foreign
    /\ foreign' = foreign \ {h}
    /\ \/ UNCHANGED socket
       \/ socket' = [socket EXCEPT ![h] = None]
    /\ UNCHANGED <<pc, lock, intruded, caddyfile, published, container>>

\* By hand, by a reboot, by Caddy.
ContainerStops ==
    /\ container.up
    /\ container' = [container EXCEPT !.up = FALSE, !.routes = FALSE]
    /\ UNCHANGED <<pc, lock, socket, foreign, intruded, caddyfile, published>>

\* What a daemon does without being asked to.
Step(d) ==
    \/ AcquireLock(d) \/ LockHeld(d) \/ ProbeSocket(d) \/ RemoveSocket(d)
    \/ WriteConfig(d) \/ Inspect(d) \/ DockerStart(d) \/ DockerFails(d)
    \/ Reload(d) \/ DockerRun(d) \/ DockerRunFails(d)
    \/ Listen(d) \/ WriteHealth(d)
    \/ CloseListener(d) \/ RemoveContainer(d) \/ Unlock(d)

Next ==
    \/ \E d \in Daemon : Start(d) \/ Step(d) \/ Publish(d) \/ Signal(d) \/ Die(d)
    \/ \E h \in Home : ForeignStarts(h) \/ ForeignEnds(h)
    \/ ContainerStops

Spec == Init /\ [][Next]_vars

\* Start and Close go on: the probe of the socket has a timeout of 100 ms,
\* Bootstrap one of two minutes, the removal one of 30 s.
FairSpec == Spec /\ \A d \in Daemon : WF_vars(Step(d))

-----------------------------------------------------------------------------
(* What daemons promise each other.                                        *)

\* Every variable holds a value of the kind the code gives it.
DaemonsTypeOK ==
    /\ pc \in [Daemon -> Label]
    /\ lock \in [Home -> Daemon \union {None}]
    /\ socket \in [Home -> Daemon \union {None, Foreign}]
    /\ foreign \subseteq Home
    /\ intruded \subseteq Home
    /\ caddyfile \in [Home -> BOOLEAN]
    /\ published \subseteq Docker
    /\ container \in Containers

\* A daemon that listens is found at the socket of its home, and so is somebody
\* else who listens there: in whatever order they start, end and die, daemons
\* never take each other's socket, and somebody else loses its socket to a
\* daemon in two cases only.  It came between the daemon's probe and the
\* removal of what was found dead, or it took the path of a daemon that
\* listens, whose listener unlinks the path when it closes.
ReachableAtHome ==
    /\ \A d \in Daemon : pc[d] \in Listening =>
           \/ socket[homeOf[d]] = d
           \/ homeOf[d] \in intruded /\ socket[homeOf[d]] \in {None, Foreign}
    /\ \A h \in foreign : socket[h] = Foreign \/ h \in intruded

\* A daemon that is ready has the container with its own home's label, until
\* it removes it: no other home gets the container name meanwhile, also if
\* both found it free, and no daemon that fails to start takes the container
\* of another one with it.
OneRouter ==
    \A d \in Docker : pc[d] \in Ready => container.home = homeOf[d]

\* A new daemon serves nothing that it has not published itself, although the
\* container and the Caddyfile of its home outlive daemons that die.
FreshTable ==
    \A d \in Docker : pc[d] \in Ready /\ container.routes => d \in published

\* A container without a daemon is explained: a daemon died over it, or
\* docker failed half-way.  A start that merely fails leaves none, nor does
\* one that is signalled.
OrphansExplained ==
    container.home \in Home /\ ~container.orphaned =>
        \E d \in Docker : pc[d] \in Ready /\ homeOf[d] = container.home

\* `zerobased start' is ready or has failed in the end, and ends once told to:
\* it waits for no other daemon.
StartAnswers ==
    \A d \in Daemon : pc[d] \notin {"off", "up"} ~> pc[d] \in {"off", "up"}
=============================================================================
