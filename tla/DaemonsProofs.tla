---------------------------- MODULE DaemonsProofs ----------------------------
(***************************************************************************)
(* For any number of daemons and homes and under all of the faults: what   *)
(* daemons promise each other.                                             *)
(*                                                                         *)
(* The argument: whoever is past AcquireLock holds the lock of its home,   *)
(* so that two such daemons of one home are the same.  The container goes  *)
(* from one home to another through NoContainer only, and only a ready     *)
(* daemon of its home takes it there.                                      *)
(***************************************************************************)
EXTENDS Daemons, TLAPS

\* A daemon at work holds the lock of its home.
HoldsLock == \A d \in Daemon : pc[d] \in Holding => lock[homeOf[d]] = d

\* Where a daemon has seen nobody, nobody else listens, or came too late to
\* be seen.
Probed ==
    \A d \in Daemon :
        pc[d] = "remove" => homeOf[d] \notin foreign \/ homeOf[d] \in intruded

\* Only daemons with Docker Caddy talk to docker; and those that saw their
\* label on the container see it there until they are ready.
Docking ==
    \A d \in Daemon :
        /\ pc[d] \in Booting \union {"rm"} => d \in Docker
        /\ pc[d] \in {"start", "reload"} => container.home = homeOf[d]

\* A Caddyfile with routes is the table of the daemon that wrote it.
FileIsTable ==
    \A d \in Docker :
        /\ pc[d] \in (Booting \ {"config"}) \union Ready
        /\ caddyfile[homeOf[d]]
        => d \in published

Sockets == HoldsLock /\ Probed /\ ReachableAtHome

Router == Docking /\ OneRouter

Routing == FileIsTable /\ FreshTable

IInv == DaemonsTypeOK /\ Sockets /\ Router /\ Routing /\ OrphansExplained

-----------------------------------------------------------------------------
\* What the containers that appear in the actions are.
LEMMA NoContainerFacts ==
  /\ NoContainer \in Containers
  /\ NoContainer.home = None /\ NoContainer.routes = FALSE
  BY DEF NoContainer, Containers

LEMMA HomesAreSome == \A d \in Daemon : homeOf[d] \in Home /\ homeOf[d] # None
  BY DaemonsAssumption, DaemonsNoneAssumption

LEMMA OrphanFacts ==
  ASSUME NEW c \in Containers
  PROVE  /\ [c EXCEPT !.orphaned = TRUE] \in Containers
         /\ [c EXCEPT !.orphaned = TRUE].home = c.home
         /\ [c EXCEPT !.orphaned = TRUE].routes = c.routes
         /\ [c EXCEPT !.orphaned = TRUE].orphaned = TRUE
  BY DEF Containers

LEMMA CreatedFacts ==
  ASSUME NEW d \in Daemon, DaemonsTypeOK
  PROVE  /\ Created(d) \in Containers
         /\ Created(d).home = homeOf[d]
         /\ Created(d).routes = caddyfile[homeOf[d]]
         /\ Created(d).orphaned = FALSE
  BY DaemonsAssumption DEF Created, Containers, DaemonsTypeOK

LEMMA StartedFacts ==
  ASSUME DaemonsTypeOK
  PROVE  /\ Started \in Containers
         /\ Started.home = container.home
         /\ Started.orphaned = container.orphaned
  <1>1. Mounted \in BOOLEAN
    BY DEF Mounted, DaemonsTypeOK, Containers
  <1>2. QED BY <1>1 DEF Started, Containers, DaemonsTypeOK

LEMMA ReloadedFacts ==
  ASSUME DaemonsTypeOK
  PROVE  /\ Reloaded \in Containers
         /\ Reloaded.home = container.home
         /\ Reloaded.routes = (container.up /\ Mounted)
         /\ Reloaded.orphaned = container.orphaned
  <1>1. (container.up /\ Mounted) \in BOOLEAN
    OBVIOUS
  <1>2. QED BY <1>1 DEF Reloaded, Containers, DaemonsTypeOK

LEMMA InitEstablishes == Init => IInv
  <1> SUFFICES ASSUME Init PROVE IInv
    OBVIOUS
  <1> USE DaemonsAssumption, DaemonsNoneAssumption DEF Init, Label, Holding, Ready,
        Listening, Booting, NoContainer
  <1>1. container \in Containers
    <2>1. CASE container = NoContainer
      BY <2>1, NoContainerFacts
    <2>2. CASE container = [NoContainer EXCEPT !.home = Foreign, !.up = TRUE]
      BY <2>2 DEF Containers
    <2>3. QED BY <2>1, <2>2
  <1>2. DaemonsTypeOK
    <2>1. socket \in [Home -> Daemon \union {None, Foreign}]
      OBVIOUS
    <2>2. QED BY <1>1, <2>1 DEF DaemonsTypeOK
  <1>3. Sockets
    BY DEF Sockets, HoldsLock, Probed, ReachableAtHome
  <1>4. Router
    BY DEF Router, Docking, OneRouter
  <1>5. Routing
    BY DEF Routing, FileIsTable, FreshTable
  <1>6. OrphansExplained
    <2>1. container.home \in {None, Foreign}
      <3>1. CASE container = NoContainer
        BY <3>1, NoContainerFacts
      <3>2. CASE container = [NoContainer EXCEPT !.home = Foreign, !.up = TRUE]
        BY <3>2
      <3>3. QED BY <3>1, <3>2
    <2>2. QED BY <2>1 DEF OrphansExplained
  <1>7. QED BY <1>2, <1>3, <1>4, <1>5, <1>6 DEF IInv

\* Daemons of one home that are past AcquireLock are the same.
LEMMA OneHolder ==
  ASSUME HoldsLock, NEW d \in Daemon, NEW e \in Daemon,
         pc[d] \in Holding, pc[e] \in Holding, homeOf[d] = homeOf[e]
  PROVE  d = e
  BY DEF HoldsLock

LEMMA StartKeeps == ASSUME IInv, NEW d \in Daemon, Start(d) PROVE IInv'
  <1> USE DaemonsAssumption, DaemonsNoneAssumption, OneHolder DEF IInv, Start, Goto,
        DaemonsTypeOK, Label, Holding, Ready, Listening, Booting, NoContainer
  <1>1. DaemonsTypeOK'
    BY DEF Containers
  <1>2. Sockets'
    BY DEF Sockets, HoldsLock, Probed, ReachableAtHome
  <1>3. Router'
    BY DEF Sockets, HoldsLock, Router, Docking, OneRouter, Containers
  <1>4. Routing'
    BY DEF Sockets, HoldsLock, Router, Docking, OneRouter, Routing, FileIsTable, FreshTable, Containers
  <1>5. OrphansExplained'
    BY DEF Sockets, HoldsLock, Router, Docking, OneRouter, OrphansExplained, Containers
  <1>6. QED BY <1>1, <1>2, <1>3, <1>4, <1>5

LEMMA AcquireLockKeeps == ASSUME IInv, NEW d \in Daemon, AcquireLock(d) PROVE IInv'
  <1> USE DaemonsAssumption, DaemonsNoneAssumption, OneHolder DEF IInv, AcquireLock, Goto,
        DaemonsTypeOK, Label, Holding, Ready, Listening, Booting, NoContainer
  <1>1. DaemonsTypeOK'
    BY DEF Containers
  <1>2. Sockets'
    <2>1. HoldsLock'
      <3> SUFFICES ASSUME NEW e \in Daemon, pc'[e] \in Holding PROVE lock'[homeOf[e]] = e
        BY DEF HoldsLock
      <3>1. CASE e = d
        BY <3>1
      <3>2. CASE e # d
        <4>1. pc[e] \in Holding
          BY <3>2
        <4>2. lock[homeOf[e]] = e
          BY <4>1 DEF Sockets, HoldsLock
        <4>3. homeOf[e] # homeOf[d]
          BY <4>2
        <4>4. QED BY <4>2, <4>3
      <3>3. QED BY <3>1, <3>2
    <2>2. ASSUME NEW e \in Daemon, pc'[e] \in {"remove"} \union Listening, homeOf[e] \in intruded
          PROVE  homeOf[e] \in intruded'
      <3>1. pc[e] \in Holding /\ pc'[e] = pc[e]
        BY <2>2
      <3>2. lock[homeOf[e]] = e
        BY <3>1 DEF Sockets, HoldsLock
      <3>3. homeOf[e] # homeOf[d]
        BY <3>2
      <3>4. QED BY <2>2, <3>3
    <2>3. \A h \in foreign : h \in intruded => h \in intruded'
      OBVIOUS
    <2>4. Probed'
      BY <2>2 DEF Sockets, Probed
    <2>5. ReachableAtHome'
      BY <2>2, <2>3 DEF Sockets, ReachableAtHome
    <2>6. QED BY <2>1, <2>4, <2>5 DEF Sockets
  <1>3. Router'
    BY DEF Sockets, HoldsLock, Router, Docking, OneRouter, Containers
  <1>4. Routing'
    BY DEF Sockets, HoldsLock, Router, Docking, OneRouter, Routing, FileIsTable, FreshTable, Containers
  <1>5. OrphansExplained'
    BY DEF Sockets, HoldsLock, Router, Docking, OneRouter, OrphansExplained, Containers
  <1>6. QED BY <1>1, <1>2, <1>3, <1>4, <1>5

LEMMA LockHeldKeeps == ASSUME IInv, NEW d \in Daemon, LockHeld(d) PROVE IInv'
  <1> USE DaemonsAssumption, DaemonsNoneAssumption, OneHolder DEF IInv, LockHeld, Goto,
        DaemonsTypeOK, Label, Holding, Ready, Listening, Booting, NoContainer
  <1>1. DaemonsTypeOK'
    BY DEF Containers
  <1>2. Sockets'
    BY DEF Sockets, HoldsLock, Probed, ReachableAtHome
  <1>3. Router'
    BY DEF Sockets, HoldsLock, Router, Docking, OneRouter, Containers
  <1>4. Routing'
    BY DEF Sockets, HoldsLock, Router, Docking, OneRouter, Routing, FileIsTable, FreshTable, Containers
  <1>5. OrphansExplained'
    BY DEF Sockets, HoldsLock, Router, Docking, OneRouter, OrphansExplained, Containers
  <1>6. QED BY <1>1, <1>2, <1>3, <1>4, <1>5

LEMMA ProbeSocketKeeps == ASSUME IInv, NEW d \in Daemon, ProbeSocket(d) PROVE IInv'
  <1> USE DaemonsAssumption, DaemonsNoneAssumption, OneHolder DEF IInv, ProbeSocket, Goto, socketIsLive,
        DaemonsTypeOK, Label, Holding, Ready, Listening, Booting, NoContainer
  <1>1. DaemonsTypeOK'
    BY DEF Containers
  <1>2. Sockets'
    BY DEF Sockets, HoldsLock, Probed, ReachableAtHome
  <1>3. Router'
    BY DEF Sockets, HoldsLock, Router, Docking, OneRouter, Containers
  <1>4. Routing'
    BY DEF Sockets, HoldsLock, Router, Docking, OneRouter, Routing, FileIsTable, FreshTable, Containers
  <1>5. OrphansExplained'
    BY DEF Sockets, HoldsLock, Router, Docking, OneRouter, OrphansExplained, Containers
  <1>6. QED BY <1>1, <1>2, <1>3, <1>4, <1>5

LEMMA RemoveSocketKeeps == ASSUME IInv, NEW d \in Daemon, RemoveSocket(d) PROVE IInv'
  <1> USE DaemonsAssumption, DaemonsNoneAssumption, OneHolder DEF IInv, RemoveSocket, Goto,
        DaemonsTypeOK, Label, Holding, Ready, Listening, Booting, NoContainer
  <1>1. DaemonsTypeOK'
    BY DEF Containers
  <1>2. Sockets'
    BY DEF Sockets, HoldsLock, Probed, ReachableAtHome
  <1>3. Router'
    BY DEF Sockets, HoldsLock, Router, Docking, OneRouter, Containers
  <1>4. Routing'
    BY DEF Sockets, HoldsLock, Router, Docking, OneRouter, Routing, FileIsTable, FreshTable, Containers
  <1>5. OrphansExplained'
    BY DEF Sockets, HoldsLock, Router, Docking, OneRouter, OrphansExplained, Containers
  <1>6. QED BY <1>1, <1>2, <1>3, <1>4, <1>5

LEMMA WriteConfigKeeps == ASSUME IInv, NEW d \in Daemon, WriteConfig(d) PROVE IInv'
  <1> USE DaemonsAssumption, DaemonsNoneAssumption, OneHolder DEF IInv, WriteConfig, Goto, BootFails,
        DaemonsTypeOK, Label, Holding, Ready, Listening, Booting, NoContainer
  <1>1. DaemonsTypeOK'
    <2>1. caddyfile' \in [Home -> BOOLEAN]
      OBVIOUS
    <2>2. pc' \in [Daemon -> Label]
      OBVIOUS
    <2>3. QED BY <2>1, <2>2
  <1>2. Sockets'
    BY DEF Sockets, HoldsLock, Probed, ReachableAtHome
  <1>3. Router'
    BY DEF Sockets, HoldsLock, Router, Docking, OneRouter, Containers
  <1>4. Routing'
    BY DEF Sockets, HoldsLock, Router, Docking, OneRouter, Routing, FileIsTable, FreshTable, Containers
  <1>5. OrphansExplained'
    BY DEF Sockets, HoldsLock, Router, Docking, OneRouter, OrphansExplained, Containers
  <1>6. QED BY <1>1, <1>2, <1>3, <1>4, <1>5

LEMMA InspectKeeps == ASSUME IInv, NEW d \in Daemon, Inspect(d) PROVE IInv'
  <1> USE DaemonsAssumption, DaemonsNoneAssumption, OneHolder DEF IInv, Inspect, Goto, BootFails, Labelled,
        DaemonsTypeOK, Label, Holding, Ready, Listening, Booting, NoContainer
  <1>1. DaemonsTypeOK'
    BY DEF Containers
  <1>2. Sockets'
    BY DEF Sockets, HoldsLock, Probed, ReachableAtHome
  <1>3. Router'
    BY DEF Sockets, HoldsLock, Router, Docking, OneRouter, Containers
  <1>4. Routing'
    BY DEF Sockets, HoldsLock, Router, Docking, OneRouter, Routing, FileIsTable, FreshTable, Containers
  <1>5. OrphansExplained'
    BY DEF Sockets, HoldsLock, Router, Docking, OneRouter, OrphansExplained, Containers
  <1>6. QED BY <1>1, <1>2, <1>3, <1>4, <1>5

LEMMA DockerStartKeeps == ASSUME IInv, NEW d \in Daemon, DockerStart(d) PROVE IInv'
  <1> USE DaemonsAssumption, DaemonsNoneAssumption, OneHolder DEF IInv, DockerStart, Goto, Started, Mounted,
        DaemonsTypeOK, Label, Holding, Ready, Listening, Booting, NoContainer
  <1>1. DaemonsTypeOK'
    BY DEF Containers
  <1>2. Sockets'
    BY DEF Sockets, HoldsLock, Probed, ReachableAtHome
  <1>3. Router'
    BY DEF Sockets, HoldsLock, Router, Docking, OneRouter, Containers
  <1>4. Routing'
    BY DEF Sockets, HoldsLock, Router, Docking, OneRouter, Routing, FileIsTable, FreshTable, Containers
  <1>5. OrphansExplained'
    BY DEF Sockets, HoldsLock, Router, Docking, OneRouter, OrphansExplained, Containers
  <1>6. QED BY <1>1, <1>2, <1>3, <1>4, <1>5

LEMMA DockerFailsKeeps == ASSUME IInv, NEW d \in Daemon, DockerFails(d) PROVE IInv'
  <1> USE DaemonsAssumption, DaemonsNoneAssumption, OneHolder DEF IInv, DockerFails, Goto, BootFails,
        DaemonsTypeOK, Label, Holding, Ready, Listening, Booting, NoContainer
  <1>1. DaemonsTypeOK'
    BY DEF Containers
  <1>2. Sockets'
    BY DEF Sockets, HoldsLock, Probed, ReachableAtHome
  <1>3. Router'
    BY DEF Sockets, HoldsLock, Router, Docking, OneRouter, Containers
  <1>4. Routing'
    BY DEF Sockets, HoldsLock, Router, Docking, OneRouter, Routing, FileIsTable, FreshTable, Containers
  <1>5. OrphansExplained'
    BY DEF Sockets, HoldsLock, Router, Docking, OneRouter, OrphansExplained, Containers
  <1>6. QED BY <1>1, <1>2, <1>3, <1>4, <1>5

LEMMA ReloadKeeps == ASSUME IInv, NEW d \in Daemon, Reload(d) PROVE IInv'
  <1> USE DaemonsAssumption, DaemonsNoneAssumption, OneHolder DEF IInv, Reload, Goto, Reloaded, Mounted,
        DaemonsTypeOK, Label, Holding, Ready, Listening, Booting, NoContainer
  <1>1. DaemonsTypeOK'
    BY DEF Containers
  <1>2. Sockets'
    BY DEF Sockets, HoldsLock, Probed, ReachableAtHome
  <1>3. Router'
    BY DEF Sockets, HoldsLock, Router, Docking, OneRouter, Containers
  <1>4. Routing'
    <2>1. /\ container' \in Containers
          /\ container'.home = container.home
          /\ container'.routes = (container.up /\ Mounted)
      BY ReloadedFacts DEF Containers
    <2>2. FileIsTable'
      BY DEF Routing, FileIsTable
    <2>3. container.home = homeOf[d] /\ d \in Docker
      BY DEF Router, Docking
    <2>4. ASSUME NEW e \in Docker, pc'[e] \in Ready, container'.routes PROVE e \in published
      <3>1. CASE e = d
        BY <3>1, <2>1, <2>3, <2>4 DEF Mounted, Routing, FileIsTable
      <3>2. CASE e # d
        BY <3>2, <2>3, <2>4 DEF Sockets, Router, OneRouter
      <3>3. QED BY <3>1, <3>2
    <2>5. QED BY <2>2, <2>4 DEF Routing, FreshTable
  <1>5. OrphansExplained'
    BY DEF Sockets, HoldsLock, Router, Docking, OneRouter, OrphansExplained, Containers
  <1>6. QED BY <1>1, <1>2, <1>3, <1>4, <1>5

LEMMA DockerRunKeeps == ASSUME IInv, NEW d \in Daemon, DockerRun(d) PROVE IInv'
  <1> USE DaemonsAssumption, DaemonsNoneAssumption, OneHolder DEF IInv, DockerRun, Goto, Created,
        DaemonsTypeOK, Label, Holding, Ready, Listening, Booting, NoContainer
  <1>1. DaemonsTypeOK'
    BY DEF Containers
  <1>2. Sockets'
    BY DEF Sockets, HoldsLock, Probed, ReachableAtHome
  <1>3. Router'
    <2>1. /\ container'.home = homeOf[d]
          /\ container'.routes = caddyfile[homeOf[d]]
      BY CreatedFacts
    <2>2. container.home = None
      BY NoContainerFacts
    <2>3. ASSUME NEW e \in Docker, pc'[e] \in Ready PROVE container'.home = homeOf[e]
      BY <2>1, <2>2, <2>3, HomesAreSome DEF Router, OneRouter
    <2>4. Docking'
      BY <2>1, <2>2, HomesAreSome DEF Router, Docking
    <2>5. QED BY <2>3, <2>4 DEF Router, OneRouter
  <1>4. Routing'
    <2>1. /\ container'.home = homeOf[d]
          /\ container'.routes = caddyfile[homeOf[d]]
      BY CreatedFacts
    <2>2. container.home = None
      BY NoContainerFacts
    <2>3. FileIsTable'
      BY DEF Routing, FileIsTable
    <2>4. ASSUME NEW e \in Docker, pc'[e] \in Ready, container'.routes PROVE e \in published
      <3>1. CASE e = d
        BY <3>1, <2>1, <2>4 DEF Routing, FileIsTable
      <3>2. CASE e # d
        BY <3>2, <2>2, <2>4, HomesAreSome DEF Router, OneRouter
      <3>3. QED BY <3>1, <3>2
    <2>5. QED BY <2>3, <2>4 DEF Routing, FreshTable
  <1>5. OrphansExplained'
    BY DEF Sockets, HoldsLock, Router, Docking, OneRouter, OrphansExplained, Containers
  <1>6. QED BY <1>1, <1>2, <1>3, <1>4, <1>5

LEMMA DockerRunFailsKeeps == ASSUME IInv, NEW d \in Daemon, DockerRunFails(d) PROVE IInv'
  <1> USE DaemonsAssumption, DaemonsNoneAssumption, OneHolder DEF IInv, DockerRunFails, Goto, BootFails,
        DaemonsTypeOK, Label, Holding, Ready, Listening, Booting, NoContainer
  <1>1. DaemonsTypeOK'
    <2>1. pc' \in [Daemon -> Label]
      OBVIOUS
    <2>2. [NoContainer EXCEPT !.home = homeOf[d], !.orphaned = TRUE] \in Containers
      BY HomesAreSome DEF Containers
    <2>3. container' \in Containers
      BY <2>2, NoContainerFacts
    <2>4. QED BY <2>1, <2>3
  <1>2. Sockets'
    BY DEF Sockets, HoldsLock, Probed, ReachableAtHome
  <1>3. Router'
    <2>1. CASE UNCHANGED container
      BY <2>1 DEF Router, Docking, OneRouter
    <2>2. CASE container = NoContainer
      <3>1. container.home = None
        BY <2>2, NoContainerFacts
      <3>2. \A e \in Daemon : pc[e] \notin {"start", "reload"}
        BY <3>1, HomesAreSome DEF Router, Docking
      <3>3. \A e \in Docker : pc[e] \notin Ready
        BY <3>1, HomesAreSome DEF Router, OneRouter
      <3>4. QED BY <3>2, <3>3 DEF Router, Docking, OneRouter
    <2>3. QED BY <2>1, <2>2
  <1>4. Routing'
    BY DEF Sockets, HoldsLock, Router, Docking, OneRouter, Routing, FileIsTable, FreshTable, Containers
  <1>5. OrphansExplained'
    BY DEF Sockets, HoldsLock, Router, Docking, OneRouter, OrphansExplained, Containers
  <1>6. QED BY <1>1, <1>2, <1>3, <1>4, <1>5

LEMMA ListenKeeps == ASSUME IInv, NEW d \in Daemon, Listen(d) PROVE IInv'
  <1> USE DaemonsAssumption, DaemonsNoneAssumption, OneHolder DEF IInv, Listen, Goto, AfterListener,
        DaemonsTypeOK, Label, Holding, Ready, Listening, Booting, NoContainer
  <1>1. DaemonsTypeOK'
    BY DEF Containers
  <1>2. Sockets'
    BY DEF Sockets, HoldsLock, Probed, ReachableAtHome
  <1>3. Router'
    BY DEF Sockets, HoldsLock, Router, Docking, OneRouter, Containers
  <1>4. Routing'
    BY DEF Sockets, HoldsLock, Router, Docking, OneRouter, Routing, FileIsTable, FreshTable, Containers
  <1>5. OrphansExplained'
    BY DEF Sockets, HoldsLock, Router, Docking, OneRouter, OrphansExplained, Containers
  <1>6. QED BY <1>1, <1>2, <1>3, <1>4, <1>5

LEMMA WriteHealthKeeps == ASSUME IInv, NEW d \in Daemon, WriteHealth(d) PROVE IInv'
  <1> USE DaemonsAssumption, DaemonsNoneAssumption, OneHolder DEF IInv, WriteHealth, Goto,
        DaemonsTypeOK, Label, Holding, Ready, Listening, Booting, NoContainer
  <1>1. DaemonsTypeOK'
    BY DEF Containers
  <1>2. Sockets'
    BY DEF Sockets, HoldsLock, Probed, ReachableAtHome
  <1>3. Router'
    BY DEF Sockets, HoldsLock, Router, Docking, OneRouter, Containers
  <1>4. Routing'
    BY DEF Sockets, HoldsLock, Router, Docking, OneRouter, Routing, FileIsTable, FreshTable, Containers
  <1>5. OrphansExplained'
    BY DEF Sockets, HoldsLock, Router, Docking, OneRouter, OrphansExplained, Containers
  <1>6. QED BY <1>1, <1>2, <1>3, <1>4, <1>5

LEMMA PublishKeeps == ASSUME IInv, NEW d \in Daemon, Publish(d) PROVE IInv'
  <1> USE DaemonsAssumption, DaemonsNoneAssumption, OneHolder DEF IInv, Publish,
        DaemonsTypeOK, Label, Holding, Ready, Listening, Booting, NoContainer
  <1>1. DaemonsTypeOK'
    <2>1. published' \subseteq Docker
      OBVIOUS
    <2>2. (d \in published') \in BOOLEAN
      OBVIOUS
    <2>3. caddyfile' \in [Home -> BOOLEAN]
      BY <2>2
    <2>4. container' \in Containers
      BY <2>3 DEF Containers
    <2>5. QED BY <2>1, <2>3, <2>4
  <1>2. Sockets'
    BY DEF Sockets, HoldsLock, Probed, ReachableAtHome
  <1>3. Router'
    BY DEF Sockets, HoldsLock, Router, Docking, OneRouter, Containers
  <1>4. Routing'
    <2>1. FileIsTable'
      BY DEF Sockets, HoldsLock, Routing, FileIsTable
    <2>2. container'.home = container.home
      BY DEF Containers
    <2>3. ASSUME NEW e \in Docker, pc'[e] \in Ready, container'.routes PROVE e \in published'
      <3>1. container.home = homeOf[e]
        BY <2>3 DEF Router, OneRouter
      <3>2. container'.routes = caddyfile'[homeOf[e]]
        BY <3>1 DEF Containers
      <3>3. QED BY <2>1, <2>3, <3>2 DEF FileIsTable
    <2>4. QED BY <2>1, <2>3 DEF Routing, FreshTable
  <1>5. OrphansExplained'
    BY DEF Sockets, HoldsLock, Router, Docking, OneRouter, OrphansExplained, Containers
  <1>6. QED BY <1>1, <1>2, <1>3, <1>4, <1>5

LEMMA SignalKeeps == ASSUME IInv, NEW d \in Daemon, Signal(d) PROVE IInv'
  <1> USE DaemonsAssumption, DaemonsNoneAssumption, OneHolder DEF IInv, Signal, Goto,
        DaemonsTypeOK, Label, Holding, Ready, Listening, Booting, NoContainer
  <1>1. DaemonsTypeOK'
    BY DEF Containers
  <1>2. Sockets'
    BY DEF Sockets, HoldsLock, Probed, ReachableAtHome
  <1>3. Router'
    BY DEF Sockets, HoldsLock, Router, Docking, OneRouter, Containers
  <1>4. Routing'
    BY DEF Sockets, HoldsLock, Router, Docking, OneRouter, Routing, FileIsTable, FreshTable, Containers
  <1>5. OrphansExplained'
    BY DEF Sockets, HoldsLock, Router, Docking, OneRouter, OrphansExplained, Containers
  <1>6. QED BY <1>1, <1>2, <1>3, <1>4, <1>5

LEMMA CloseListenerKeeps == ASSUME IInv, NEW d \in Daemon, CloseListener(d) PROVE IInv'
  <1> USE DaemonsAssumption, DaemonsNoneAssumption, OneHolder DEF IInv, CloseListener, Goto, AfterListener,
        DaemonsTypeOK, Label, Holding, Ready, Listening, Booting, NoContainer
  <1>1. DaemonsTypeOK'
    BY DEF Containers
  <1>2. Sockets'
    BY DEF Sockets, HoldsLock, Probed, ReachableAtHome
  <1>3. Router'
    BY DEF Sockets, HoldsLock, Router, Docking, OneRouter, Containers
  <1>4. Routing'
    BY DEF Sockets, HoldsLock, Router, Docking, OneRouter, Routing, FileIsTable, FreshTable, Containers
  <1>5. OrphansExplained'
    BY DEF Sockets, HoldsLock, Router, Docking, OneRouter, OrphansExplained, Containers
  <1>6. QED BY <1>1, <1>2, <1>3, <1>4, <1>5

LEMMA RemoveContainerKeeps == ASSUME IInv, NEW d \in Daemon, RemoveContainer(d) PROVE IInv'
  <1> USE DaemonsAssumption, DaemonsNoneAssumption, OneHolder DEF IInv, RemoveContainer, Goto,
        DaemonsTypeOK, Label, Holding, Ready, Listening, Booting, NoContainer
  <1>1. DaemonsTypeOK'
    <2>1. container' \in Containers
      BY NoContainerFacts, OrphanFacts
    <2>2. pc' \in [Daemon -> Label]
      OBVIOUS
    <2>3. QED BY <2>1, <2>2
  <1>2. Sockets'
    BY DEF Sockets, HoldsLock, Probed, ReachableAtHome
  <1>3. Router'
    BY DEF Sockets, HoldsLock, Router, Docking, OneRouter, Containers
  <1>4. Routing'
    BY DEF Sockets, HoldsLock, Router, Docking, OneRouter, Routing, FileIsTable, FreshTable, Containers
  <1>5. OrphansExplained'
    BY DEF Sockets, HoldsLock, Router, Docking, OneRouter, OrphansExplained, Containers
  <1>6. QED BY <1>1, <1>2, <1>3, <1>4, <1>5

LEMMA UnlockKeeps == ASSUME IInv, NEW d \in Daemon, Unlock(d) PROVE IInv'
  <1> USE DaemonsAssumption, DaemonsNoneAssumption, OneHolder DEF IInv, Unlock, Goto, Gone,
        DaemonsTypeOK, Label, Holding, Ready, Listening, Booting, NoContainer
  <1>1. DaemonsTypeOK'
    BY DEF Containers
  <1>2. Sockets'
    BY DEF Sockets, HoldsLock, Probed, ReachableAtHome
  <1>3. Router'
    BY DEF Sockets, HoldsLock, Router, Docking, OneRouter, Containers
  <1>4. Routing'
    BY DEF Sockets, HoldsLock, Router, Docking, OneRouter, Routing, FileIsTable, FreshTable, Containers
  <1>5. OrphansExplained'
    BY DEF Sockets, HoldsLock, Router, Docking, OneRouter, OrphansExplained, Containers
  <1>6. QED BY <1>1, <1>2, <1>3, <1>4, <1>5

LEMMA DieKeeps == ASSUME IInv, NEW d \in Daemon, Die(d) PROVE IInv'
  <1> USE DaemonsAssumption, DaemonsNoneAssumption, OneHolder DEF IInv, Die, Gone, Goto,
        DaemonsTypeOK, Label, Holding, Ready, Listening, Booting
  <1>1. PICK c \in Survives(d) :
            container' = IF c.home = homeOf[d] /\ d \in Docker
                         THEN [c EXCEPT !.orphaned = TRUE] ELSE c
    OBVIOUS
  \* What is left of it is as before, or of its home, or gone.
  <1>2. c \in Containers
    BY NoContainerFacts, CreatedFacts, StartedFacts, ReloadedFacts DEF Survives
  <1>3. \/ c = container
        \/ /\ d \in Docker /\ c.home = homeOf[d]
           /\ container.home \in {None, homeOf[d]}
           /\ pc[d] \in {"run", "start", "reload"}
        \/ /\ d \in Docker /\ c = NoContainer /\ pc[d] = "rm" /\ container.home = homeOf[d]
    BY NoContainerFacts, CreatedFacts, StartedFacts, ReloadedFacts
       DEF Survives, Router, Docking, OneRouter
  <1>4. /\ container' \in Containers
        /\ container'.home = c.home
        /\ container'.routes = c.routes
        /\ container'.orphaned = (c.orphaned \/ (c.home = homeOf[d] /\ d \in Docker))
    <2>1. CASE c.home = homeOf[d] /\ d \in Docker
      BY <1>1, <1>2, <2>1, OrphanFacts
    <2>2. CASE ~(c.home = homeOf[d] /\ d \in Docker)
      BY <1>1, <1>2, <2>2 DEF Containers
    <2>3. QED BY <2>1, <2>2
  \* Nobody else is ready at its home, or waits for its container.
  <1>5. \A e \in Daemon : pc[e] \in Holding /\ homeOf[e] = homeOf[d] /\ pc[d] \in Holding => e = d
    BY DEF Sockets, HoldsLock
  <1>6. DaemonsTypeOK'
    <2>1. pc' \in [Daemon -> Label] /\ published' \subseteq Docker
      OBVIOUS
    <2>2. lock' \in [Home -> Daemon \union {None}]
      OBVIOUS
    <2>3. QED BY <1>4, <2>1, <2>2
  <1>7. Sockets'
    BY DEF Sockets, HoldsLock, Probed, ReachableAtHome
  <1>8. ASSUME NEW e \in Docker, pc'[e] \in Ready
        PROVE  /\ pc[e] \in Ready /\ e # d
               /\ c = container
               /\ container'.home = homeOf[e]
    <2>1. pc[e] \in Ready /\ e # d
      BY <1>8
    <2>2. container.home = homeOf[e]
      BY <2>1 DEF Router, OneRouter
    <2>3. c = container
      BY <1>3, <1>5, <2>1, <2>2, HomesAreSome
    <2>4. QED BY <1>4, <2>1, <2>2, <2>3
  <1>9. Router'
    <2>1. ASSUME NEW e \in Daemon, pc'[e] \in {"start", "reload"}
          PROVE  container'.home = homeOf[e]
      <3>1. pc[e] \in {"start", "reload"} /\ e # d
        BY <2>1
      <3>2. container.home = homeOf[e]
        BY <3>1 DEF Router, Docking
      <3>3. c = container
        BY <1>3, <1>5, <3>1, <3>2, HomesAreSome
      <3>4. QED BY <1>4, <3>2, <3>3
    <2>2. \A e \in Daemon : pc'[e] \in Booting \union {"rm"} => e \in Docker
      BY DEF Router, Docking
    <2>3. QED BY <1>8, <2>1, <2>2 DEF Router, Docking, OneRouter
  <1>10. Routing'
    <2>1. FileIsTable'
      BY DEF Routing, FileIsTable
    <2>2. QED BY <1>4, <1>8, <2>1 DEF Routing, FreshTable
  <1>11. OrphansExplained'
    <2> SUFFICES ASSUME container'.home \in Home, ~container'.orphaned
                 PROVE  \E e \in Docker : pc'[e] \in Ready /\ homeOf[e] = container'.home
      BY DEF OrphansExplained
    <2>1. c = container /\ ~(c.home = homeOf[d] /\ d \in Docker)
      BY <1>3, <1>4, NoContainerFacts
    <2>2. PICK e \in Docker : pc[e] \in Ready /\ homeOf[e] = container.home
      BY <1>4, <2>1 DEF OrphansExplained
    <2>3. e # d
      BY <2>1, <2>2
    <2>4. QED BY <1>4, <2>1, <2>2, <2>3
  <1>12. QED BY <1>6, <1>7, <1>9, <1>10, <1>11

LEMMA ForeignStartsKeeps == ASSUME IInv, NEW h \in Home, ForeignStarts(h) PROVE IInv'
  <1> USE DaemonsAssumption, DaemonsNoneAssumption, OneHolder DEF IInv, ForeignStarts, Unguarded,
        DaemonsTypeOK, Label, Holding, Ready, Listening, Booting, NoContainer
  <1>1. DaemonsTypeOK'
    BY DEF Containers
  <1>2. Sockets'
    BY DEF Sockets, HoldsLock, Probed, ReachableAtHome
  <1>3. Router'
    BY DEF Sockets, HoldsLock, Router, Docking, OneRouter, Containers
  <1>4. Routing'
    BY DEF Sockets, HoldsLock, Router, Docking, OneRouter, Routing, FileIsTable, FreshTable, Containers
  <1>5. OrphansExplained'
    BY DEF Sockets, HoldsLock, Router, Docking, OneRouter, OrphansExplained, Containers
  <1>6. QED BY <1>1, <1>2, <1>3, <1>4, <1>5

LEMMA ForeignEndsKeeps == ASSUME IInv, NEW h \in Home, ForeignEnds(h) PROVE IInv'
  <1> USE DaemonsAssumption, DaemonsNoneAssumption, OneHolder DEF IInv, ForeignEnds,
        DaemonsTypeOK, Label, Holding, Ready, Listening, Booting, NoContainer
  <1>1. DaemonsTypeOK'
    BY DEF Containers
  <1>2. Sockets'
    BY DEF Sockets, HoldsLock, Probed, ReachableAtHome
  <1>3. Router'
    BY DEF Sockets, HoldsLock, Router, Docking, OneRouter, Containers
  <1>4. Routing'
    BY DEF Sockets, HoldsLock, Router, Docking, OneRouter, Routing, FileIsTable, FreshTable, Containers
  <1>5. OrphansExplained'
    BY DEF Sockets, HoldsLock, Router, Docking, OneRouter, OrphansExplained, Containers
  <1>6. QED BY <1>1, <1>2, <1>3, <1>4, <1>5

LEMMA ContainerStopsKeeps == ASSUME IInv, ContainerStops PROVE IInv'
  <1> USE DaemonsAssumption, DaemonsNoneAssumption, OneHolder DEF IInv, ContainerStops,
        DaemonsTypeOK, Label, Holding, Ready, Listening, Booting, NoContainer
  <1>1. DaemonsTypeOK'
    BY DEF Containers
  <1>2. Sockets'
    BY DEF Sockets, HoldsLock, Probed, ReachableAtHome
  <1>3. Router'
    BY DEF Sockets, HoldsLock, Router, Docking, OneRouter, Containers
  <1>4. Routing'
    BY DEF Sockets, HoldsLock, Router, Docking, OneRouter, Routing, FileIsTable, FreshTable, Containers
  <1>5. OrphansExplained'
    BY DEF Sockets, HoldsLock, Router, Docking, OneRouter, OrphansExplained, Containers
  <1>6. QED BY <1>1, <1>2, <1>3, <1>4, <1>5

LEMMA StutterKeeps == IInv /\ UNCHANGED vars => IInv'
  BY DEF IInv, vars, DaemonsTypeOK, Sockets, HoldsLock, Probed, ReachableAtHome, Router, Docking,
         OneRouter, Routing, FileIsTable, FreshTable, OrphansExplained

LEMMA NextPreserves == IInv /\ [Next]_vars => IInv'
  <1> SUFFICES ASSUME IInv, [Next]_vars PROVE IInv'
    OBVIOUS
  <1>1. ASSUME NEW d \in Daemon, Step(d) PROVE IInv'
    BY <1>1, AcquireLockKeeps, LockHeldKeeps, ProbeSocketKeeps, RemoveSocketKeeps,
       WriteConfigKeeps, InspectKeeps, DockerStartKeeps, DockerFailsKeeps, ReloadKeeps,
       DockerRunKeeps, DockerRunFailsKeeps, ListenKeeps, WriteHealthKeeps,
       CloseListenerKeeps, RemoveContainerKeeps, UnlockKeeps DEF Step
  <1>2. QED BY <1>1, StartKeeps, PublishKeeps, SignalKeeps, DieKeeps, ForeignStartsKeeps,
               ForeignEndsKeeps, ContainerStopsKeeps, StutterKeeps DEF Next

LEMMA Invariance == Spec => []IInv
  BY InitEstablishes, NextPreserves, PTL DEF Spec

-----------------------------------------------------------------------------
\* Every variable of the daemons keeps its type.
THEOREM DaemonsTypeCorrect == Spec => []DaemonsTypeOK
  <1>1. IInv => DaemonsTypeOK
    BY DEF IInv
  <1>2. QED BY <1>1, Invariance, PTL

\* However many daemons start, end and die, and whenever somebody else comes to
\* listen at one of their sockets: a listening daemon is found at the socket of
\* its home, and so is the other listener, unless it came after the daemon's
\* probe or over its socket (AcquireLock, socketIsLive, os.Remove, Close).
THEOREM ListenersReachable == Spec => []ReachableAtHome
  <1>1. IInv => ReachableAtHome
    BY DEF IInv, Sockets
  <1>2. QED BY <1>1, Invariance, PTL

\* However many homes there are, a ready daemon's container is its own.
THEOREM RouterIsOwn == Spec => []OneRouter
  <1>1. IInv => OneRouter
    BY DEF IInv, Router
  <1>2. QED BY <1>1, Invariance, PTL

\* No route of a daemon that died is served again by the next one (Bootstrap).
THEOREM TablesStartFresh == Spec => []FreshTable
  <1>1. IInv => FreshTable
    BY DEF IInv, Routing
  <1>2. QED BY <1>1, Invariance, PTL

\* Only the death of a daemon or a failure of docker leaves a container behind
\* (Close of the route runtime).
THEOREM NoOrphanUnexplained == Spec => []OrphansExplained
  <1>1. IInv => OrphansExplained
    BY DEF IInv
  <1>2. QED BY <1>1, Invariance, PTL
=============================================================================
