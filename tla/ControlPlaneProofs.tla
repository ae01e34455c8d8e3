------------------------- MODULE ControlPlaneProofs -------------------------
(***************************************************************************)
(* Proofs about the daemon.  The inductive invariant IInv joins the        *)
(* runtime's (`DockerCaddyProofs') with what ties the claims, the handlers *)
(* and the runtime's calls and table together.  What it says of the table  *)
(* needs hosts that one pass makes canonical, since the daemon and the     *)
(* runtime make one pass each; the rest holds for any hosts.               *)
(***************************************************************************)
EXTENDS ControlPlane, DockerCaddyProofs

ServerTypeOK ==
    /\ daemon \in {"down", "up", "closing"}
    /\ claims \in [Host -> ClaimRecord \union {None}]
    /\ generation \in 0..MaxToken
    /\ mu \in Handler \union {None}
    /\ handler \in [Handler -> HandlerState]
    /\ lastToken \in 0..MaxToken
    /\ receipts \subseteq Receipt

\* Handlers, claims and locks live in a process that serves.
Placed ==
    /\ daemon # "down" => stage = "ready"
    /\ daemon = "up" => container = TRUE
    /\ daemon = "down" =>
           /\ claims = NoClaims /\ mu = None /\ publications = NoRoutes
           /\ \A h \in Handler : handler[h].pc = "idle"
           /\ stage = "ready" => container = TRUE

\* What each phase of a handler is about.
Phases ==
    \A h \in Handler :
        /\ handler[h].pc # "idle" => handler[h].req \in Request
        /\ handler[h].pc = "lock" => handler[h].op # "none"
        /\ (handler[h].pc = "lock" /\ handler[h].op # "claim") =>
               handler[h].req \in Receipt
        /\ handler[h].pc = "runtime" => handler[h].op \in {"routes", "release"}
        /\ handler[h].pc \in {"delete", "undo"} => handler[h].op = "release"
        /\ handler[h].pc \in {"runtime", "delete", "undo"} =>
               handler[h].req \in Receipt

\* server.mu is held by the handler that publishes.
ServerLock ==
    \A h \in Handler :
        (mu = h) <=> (handler[h].pc = "runtime" /\ handler[h].op = "routes")

\* The runtime's calls are those of the handlers.
CallMatch ==
    \A h \in Handler :
        /\ (call[h].pc # "idle") <=> (handler[h].pc = "runtime")
        /\ handler[h].pc = "runtime" =>
               /\ call[h].pub = StoredPublication(h)
               /\ call[h].kind = IF handler[h].op = "routes"
                                 THEN "publish" ELSE "unpublish"

\* The claim a publication was checked against is still there and active.
RoutesActive == \A h \in Handler : mu = h => Active(h)

\* The claim a release has marked is still there, marked, and its own.
ReleaseMarked ==
    \A h \in Handler : Releasing(h) =>
        /\ recordMatches(claims[ClaimedHost(h)], handler[h].req)
        /\ claims[ClaimedHost(h)].releasing = TRUE
        /\ \A g \in Handler \ {h} :
               Releasing(g) => ClaimedHost(g) # ClaimedHost(h)

\* A marked claim has its release.
WorkerExists ==
    \A k \in Host : (claims[k] # None /\ claims[k].releasing = TRUE) =>
        \E h \in Handler : Releasing(h) /\ ClaimedHost(h) = k

\* A runtime call that has taken effect.
Effective(h) == call[h].pc = "done" /\ call[h].ok = TRUE

\* A committed route belongs to the claim of its host, and the claim says so,
\* or is about to.
PublishedRecorded ==
    HostsCanonical => \A k \in Host : publications[k] # None =>
        /\ claims[k] # None
        /\ claims[k].token = publications[k].token
        /\ \/ claims[k].published = TRUE
           \/ \E h \in Handler : mu = h /\ ClaimedHost(h) = k /\ Effective(h)

\* When the claim is about to be deleted, its route is gone.
Withdrawn ==
    HostsCanonical => \A h \in Handler :
        (Releasing(h) /\ (handler[h].pc = "delete" \/ Effective(h))) =>
            publications[ClaimedHost(h)] = None

ServerInv ==
    /\ ServerTypeOK /\ Placed /\ Phases /\ ServerLock /\ CallMatch
    /\ RoutesActive /\ ReleaseMarked /\ WorkerExists
    /\ PublishedRecorded /\ Withdrawn

IInv == RuntimeInv /\ ServerInv

-----------------------------------------------------------------------------
LEMMA InitIInv == Init => IInv
<1> SUFFICES ASSUME Init PROVE IInv
  OBVIOUS
<1>1. RuntimeInv
  BY InitRuntimeInv DEF Init
<1>2. \A h \in Handler : handler[h].pc = "idle" /\ call[h].pc = "idle"
  BY NoCallType DEF Init, RuntimeInit, Idle, Handler
<1>3. ServerTypeOK
  BY ConstantAssumption, SMT DEF Init, ServerTypeOK, NoClaims, Handler, Idle, HandlerState
<1>4. Placed /\ Phases
  BY <1>2 DEF Init, RuntimeInit, Placed, Phases
<1>5. ServerLock /\ CallMatch /\ RoutesActive
  BY <1>2, NoneAssumption DEF Init, ServerLock, CallMatch, RoutesActive, Handler
<1>6. ReleaseMarked /\ WorkerExists /\ PublishedRecorded /\ Withdrawn
  BY <1>2 DEF Init, RuntimeInit, ReleaseMarked, WorkerExists, PublishedRecorded,
     Withdrawn, Releasing, NoClaims, NoRoutes
<1> QED
  BY <1>1, <1>3, <1>4, <1>5, <1>6 DEF IInv, ServerInv

-----------------------------------------------------------------------------
(* The process.                                                            *)

\* The server's part only depends on these.
serverState == <<serverVars, handler, historyVars, publications, call>>

LEMMA SameServer ==
  ASSUME ServerInv, UNCHANGED serverState, Placed',
         daemon' \in {"down", "up", "closing"}
  PROVE  ServerInv'
<1> USE DEF ServerInv, serverState, serverVars, historyVars
<1>1. ServerTypeOK' /\ Phases' /\ ServerLock'
  BY DEF ServerTypeOK, Phases, ServerLock
<1>2. CallMatch'
  BY DEF CallMatch, StoredPublication, ClaimedHost
<1>3. RoutesActive' /\ ReleaseMarked' /\ WorkerExists'
  BY DEF RoutesActive, ReleaseMarked, WorkerExists, Active, recordMatches,
     ClaimedHost, Releasing
<1>4. PublishedRecorded' /\ Withdrawn'
  BY DEF PublishedRecorded, Withdrawn, ClaimedHost, Releasing, Effective
<1> QED
  BY <1>1, <1>2, <1>3, <1>4

LEMMA VanishKeepsInv ==
  ASSUME IInv, Vanish, live' \in {live, NoRoutes}, container' \in BOOLEAN
  PROVE  IInv'
<1> USE DEF IInv, ServerInv, Vanish
<1>1. RuntimeInv'
  BY EndKeepsInv
<1>2. \A h \in Handler : handler'[h].pc = "idle" /\ call'[h].pc = "idle"
  BY NoCallType DEF ProcessEnds, Idle, Handler
<1>3. ServerTypeOK'
  BY ConstantAssumption, SMT DEF ServerTypeOK, NoClaims, Handler, Idle, HandlerState,
     historyVars
<1>4. Placed' /\ Phases'
  BY <1>2 DEF ProcessEnds, Placed, Phases
<1>5. ServerLock' /\ CallMatch' /\ RoutesActive'
  BY <1>2, NoneAssumption DEF ServerLock, CallMatch, RoutesActive, Handler
<1>6. ReleaseMarked' /\ WorkerExists' /\ PublishedRecorded' /\ Withdrawn'
  BY <1>2 DEF ProcessEnds, ReleaseMarked, WorkerExists, PublishedRecorded,
     Withdrawn, Releasing, NoClaims, NoRoutes
<1> QED
  BY <1>1, <1>3, <1>4, <1>5, <1>6

LEMMA ProcessKeepsInv == IInv /\ Process => IInv'
<1> SUFFICES ASSUME IInv, Process PROVE IInv'
  OBVIOUS
<1> USE DEF IInv
<1>t. /\ ctxDone \in [Caller -> BOOLEAN] /\ container \in BOOLEAN
      /\ daemon \in {"down", "up", "closing"}
  BY DEF RuntimeInv, RuntimeTypeOK, ServerInv, ServerTypeOK
<1>1. CASE StartWrite
  <2>1. RuntimeInv'
    BY <1>1, BootKeepsInv DEF StartWrite
  <2>2. Placed'
    BY <1>1 DEF StartWrite, ServerInv, Placed, BootWrite, BootWriteFails,
       BootContainer, BootFails, serverVars, historyVars, callVars
  <2>3. UNCHANGED serverState /\ UNCHANGED daemon
    BY <1>1 DEF StartWrite, serverState, BootWrite, BootWriteFails, BootContainer,
       BootFails, callVars
  <2> QED
    BY <1>t, <2>1, <2>2, <2>3, SameServer
<1>2. CASE Serve \/ BeginClose
  <2>1. RuntimeInv'
    BY <1>t, <1>2, ContextKeepsInv DEF Serve, BeginClose, rtVars, callVars
  <2>2. Placed' /\ daemon' \in {"down", "up", "closing"}
    BY <1>2 DEF Serve, BeginClose, ServerInv, Placed, rtVars, bootVars
  <2>3. UNCHANGED serverState
    BY <1>2 DEF Serve, BeginClose, serverState, rtVars, routeVars, callVars
  <2> QED
    BY <2>1, <2>2, <2>3, SameServer
<1>3. CASE CloseRuntime
  <2>1. RuntimeInv'
    BY <1>3, RemoveKeepsInv DEF CloseRuntime
  <2>2. Placed'
    BY <1>3 DEF CloseRuntime, ServerInv, Placed
  <2>3. UNCHANGED serverState /\ UNCHANGED daemon
    BY <1>3 DEF CloseRuntime, serverState, callVars
  <2> QED
    BY <1>t, <2>1, <2>2, <2>3, SameServer
<1>4. CASE ServeFails \/ Exit \/ Die
  <2>1. Vanish /\ live' \in {live, NoRoutes} /\ container' \in BOOLEAN
    BY <1>t, <1>4 DEF ServeFails, Exit, Die, RemoveContainer
  <2> QED
    BY <2>1, VanishKeepsInv
<1> QED
  BY <1>1, <1>2, <1>3, <1>4 DEF Process

-----------------------------------------------------------------------------
(* Handlers.                                                               *)

LEMMA ClaimedHostType ==
  ASSUME NEW h \in Handler, handler[h].req \in Request
  PROVE  ClaimedHost(h) \in Host
<1>1. handler[h].req.session \in Session
  BY DEF Request, Receipt, Fresh
<1> QED
  BY <1>1, CanonicalType, ConstantAssumption DEF ClaimedHost

\* The daemon does not move while a handler works.
LEMMA SamePlace ==
  ASSUME ServerInv, UNCHANGED <<daemon, stage, container>>,
         daemon # "down"
  PROVE  Placed'
  BY DEF ServerInv, Placed

LEMMA HandlerNeedsDaemon ==
  ASSUME ServerInv, NEW h \in Handler, handler[h].pc # "idle"
  PROVE  daemon # "down"
  BY DEF ServerInv, Placed

LEMMA ContextStepKeepsInv == \A h \in Handler : IInv /\ Disconnect(h) => IInv'
<1> SUFFICES ASSUME NEW h \in Handler, IInv, Disconnect(h) PROVE IInv'
  OBVIOUS
<1> USE DEF IInv
<1>1. ctxDone' \in [Caller -> BOOLEAN]
  BY DEF Disconnect, RuntimeInv, RuntimeTypeOK
<1>2. RuntimeInv'
  BY <1>1, ContextKeepsInv DEF Disconnect
<1>3. Placed'
  BY SamePlace, HandlerNeedsDaemon DEF Disconnect, bootVars
<1>4. UNCHANGED serverState /\ daemon' \in {"down", "up", "closing"}
  BY DEF Disconnect, serverState, routeVars, ServerInv, ServerTypeOK
<1> QED
  BY <1>2, <1>3, <1>4, SameServer

\* A handler changes its phase and nothing else: an answer without a change,
\* the end of a goroutine, a new request.
LEMMA PhaseKeepsInv ==
  ASSUME IInv, NEW h \in Handler, NEW new \in HandlerState,
         handler' = [handler EXCEPT ![h] = new],
         handler[h].pc \in {"idle", "lock", "reply"},
         new.pc \in {"idle", "lock", "reply"},
         new.pc # "idle" => new.req \in Request,
         new.pc = "lock" => new.op # "none",
         (new.pc = "lock" /\ new.op # "claim") => new.req \in Receipt,
         UNCHANGED <<routeVars, bootVars, rtmu, call, daemon, serverVars, historyVars>>,
         ctxDone' \in [Caller -> BOOLEAN],
         daemon # "down"
  PROVE  IInv'
<1> USE DEF IInv, serverVars, historyVars
<1>1. RuntimeInv'
  BY ContextKeepsInv
<1>2. ServerTypeOK'
  BY DEF ServerInv, ServerTypeOK
<1>3. Placed'
  BY SamePlace DEF bootVars
<1>4. handler'[h] = new /\ \A g \in Handler \ {h} : handler'[g] = handler[g]
  BY DEF ServerInv, ServerTypeOK
<1>5. Phases' /\ ServerLock'
  BY <1>4 DEF ServerInv, Phases, ServerLock
<1>6. \A g \in Handler \ {h} : /\ ClaimedHost(g)' = ClaimedHost(g)
                               /\ StoredPublication(g)' = StoredPublication(g)
                               /\ Releasing(g)' <=> Releasing(g)
  BY <1>4 DEF ClaimedHost, StoredPublication, Releasing
<1>7. ~Releasing(h) /\ ~Releasing(h)' /\ mu # h
  BY <1>4 DEF Releasing, ServerInv, ServerLock
<1>8. CallMatch'
  BY <1>4, <1>6 DEF ServerInv, CallMatch
<1>9. RoutesActive' /\ ReleaseMarked' /\ WorkerExists'
  BY <1>4, <1>6, <1>7 DEF ServerInv, RoutesActive, ReleaseMarked, WorkerExists, Active,
     recordMatches
<1>10. PublishedRecorded' /\ Withdrawn'
  BY <1>4, <1>6, <1>7 DEF ServerInv, PublishedRecorded, Withdrawn, Effective, routeVars
<1> QED
  BY <1>1, <1>2, <1>3, <1>5, <1>8, <1>9, <1>10 DEF ServerInv

LEMMA AnswerKeepsInv ==
  ASSUME IInv, NEW h \in Handler, ClaimAgain(h) \/ ClaimConflict(h) \/ Stale(h)
  PROVE  IInv'
<1>1. PICK status \in {"ok", "conflict", "stale"} : Respond(h, status)
  BY DEF ClaimAgain, ClaimConflict, Stale
<1> DEFINE new == [handler[h] EXCEPT !.pc = "reply", !.status = status]
<1>2. handler[h] \in HandlerState /\ handler[h].pc = "lock"
  BY DEF IInv, ServerInv, ServerTypeOK, ClaimAgain, ClaimConflict, Stale, AtLock
<1>3. handler' = [handler EXCEPT ![h] = new]
  BY <1>1 DEF Respond, IInv, ServerInv, ServerTypeOK
<1>4. new \in HandlerState /\ new.pc = "reply" /\ new.req = handler[h].req
  BY <1>2 DEF HandlerState
<1>5. new.req \in Request /\ daemon # "down"
  BY <1>2, <1>4, HandlerNeedsDaemon DEF IInv, ServerInv, Phases
<1> HIDE DEF new
<1>6. UNCHANGED <<routeVars, bootVars, rtmu, call, daemon, serverVars, historyVars>>
      /\ ctxDone' \in [Caller -> BOOLEAN]
  BY DEF ClaimAgain, ClaimConflict, Stale, rtVars, callVars, IInv, RuntimeInv,
     RuntimeTypeOK
<1> QED
  BY <1>2, <1>3, <1>4, <1>5, <1>6, PhaseKeepsInv

LEMMA ReplyKeepsInv ==
  ASSUME IInv, NEW h \in Handler, Reply(h)
  PROVE  IInv'
<1>1. Idle \in HandlerState /\ Idle.pc = "idle"
  BY DEF Idle, HandlerState
<1>2. daemon # "down" /\ ctxDone' \in [Caller -> BOOLEAN]
  BY HandlerNeedsDaemon DEF Reply, IInv, RuntimeInv, RuntimeTypeOK
<1> QED
  BY <1>1, <1>2, PhaseKeepsInv DEF Reply

LEMMA ReceiveKeepsInv ==
  ASSUME IInv, NEW h \in Handler, NEW op \in {"claim", "routes", "release"},
         NEW req \in Request, op # "claim" => req \in Receipt, Receive(h, op, req)
  PROVE  IInv'
<1> DEFINE new == [pc |-> "lock", op |-> op, req |-> req, status |-> "none"]
<1>1. /\ new \in HandlerState /\ new.pc = "lock" /\ new.op # "none"
      /\ new.req = req /\ new.op = op
  BY DEF HandlerState
<1>2. daemon # "down" /\ handler[h].pc = "idle" /\ handler' = [handler EXCEPT ![h] = new]
  BY DEF Receive
<1> HIDE DEF new
<1>3. UNCHANGED <<routeVars, bootVars, rtmu, call, daemon, serverVars, historyVars>>
      /\ ctxDone' \in [Caller -> BOOLEAN]
  BY DEF Receive, rtVars, callVars, IInv, RuntimeInv, RuntimeTypeOK
<1> QED
  BY <1>1, <1>2, <1>3, PhaseKeepsInv

LEMMA AskKeepsInv ==
  ASSUME IInv, NEW h \in Handler, Ask(h)
  PROVE  IInv'
<1>1. receipts \subseteq Receipt
  BY DEF IInv, ServerInv, ServerTypeOK
<1>2. Receipt \subseteq Request /\ \A s \in Session : Fresh(s) \in Request
  BY DEF Request
<1> QED
  BY <1>1, <1>2, ReceiveKeepsInv DEF Ask

-----------------------------------------------------------------------------
(* A step of one handler's runtime call.                                   *)

LEMMA CallFacts ==
  ASSUME IInv, NEW h \in Handler, CallStep(h)
  PROVE  /\ call[h].pc # "idle" /\ call'[h].pc # "idle"
         /\ call'[h].pub = call[h].pub /\ call'[h].kind = call[h].kind
         /\ \A g \in Handler \ {h} : call'[g] = call[g]
         /\ call[h].pc # "done"
         /\ \/ publications' = publications /\ ~Effective(h)'
            \/ /\ publications' = NextTable(h) /\ call'[h].pc = "done"
               /\ call'[h].ok = TRUE
         /\ UNCHANGED <<bootVars>>
<1> USE DEF Handler, bootVars
<1>t. call \in [Caller -> Call]
  BY DEF IInv, RuntimeInv, RuntimeTypeOK
<1>1. CASE Reject(h) \/ StageFails(h)
  BY <1>t, <1>1 DEF Reject, StageFails, Finish, Effective, Call, routeVars
<1>2. CASE Stage(h)
  BY <1>t, <1>2 DEF Stage, Effective, Call
<1>3. CASE ReloadSucceeds(h)
  BY <1>t, <1>3 DEF ReloadSucceeds, Effective, Call
<1>4. CASE ReloadFails(h) \/ ReloadAppliedUnseen(h)
  BY <1>t, <1>4 DEF ReloadFails, ReloadAppliedUnseen, AttemptFailed, Effective, Call,
     routeVars
<1>5. CASE Commit(h)
  BY <1>t, <1>5 DEF Commit, Finish, Call, IInv, RuntimeInv, FileStaged
<1>6. CASE Restore(h)
  BY <1>t, <1>6 DEF Restore, Finish, Effective, Call
<1> QED
  BY <1>1, <1>2, <1>3, <1>4, <1>5, <1>6 DEF CallStep

\* The runtime's key is the claimed host, if one pass makes hosts canonical.
LEMMA KeyIsClaimedHost ==
  ASSUME IInv, NEW h \in Handler, handler[h].pc = "runtime"
  PROVE  ClaimedHost(h) \in Host /\ (HostsCanonical => Key(h) = ClaimedHost(h))
<1>1. handler[h].req.session \in Session /\ handler[h].req \in Request
  BY DEF IInv, ServerInv, Phases, Receipt
<1>2. call[h].pub = StoredPublication(h)
  BY DEF IInv, ServerInv, CallMatch
<1>3. StoredPublication(h).host = ClaimedHost(h)
  BY DEF StoredPublication
<1>4. HostsCanonical => canonicalHost(ClaimedHost(h)) = ClaimedHost(h)
  BY <1>1 DEF ClaimedHost, HostsCanonical
<1> QED
  BY <1>1, <1>2, <1>3, <1>4, ClaimedHostType DEF Key

LEMMA RuntimeStepKeepsInv ==
  ASSUME IInv, NEW h \in Handler, RuntimeStep(h)
  PROVE  IInv'
<1> USE DEF IInv, serverVars, historyVars
<1>0. /\ CallStep(h) /\ UNCHANGED <<daemon, claims, generation, mu, handler,
                                    lastToken, receipts>>
  BY DEF RuntimeStep
<1>1. RuntimeInv'
  BY <1>0, CallStepKeepsInv DEF Handler
<1>2. /\ handler[h].pc = "runtime" /\ ClaimedHost(h) \in Host
      /\ HostsCanonical => Key(h) = ClaimedHost(h)
  BY <1>0, CallFacts, KeyIsClaimedHost DEF ServerInv, CallMatch
<1>3. ServerTypeOK' /\ Phases' /\ ServerLock'
  BY <1>0 DEF ServerInv, ServerTypeOK, Phases, ServerLock
<1>4. Placed'
  BY <1>0, <1>2, CallFacts, HandlerNeedsDaemon, SamePlace DEF bootVars
<1>5. \A g \in Handler : /\ ClaimedHost(g)' = ClaimedHost(g)
                         /\ StoredPublication(g)' = StoredPublication(g)
                         /\ Releasing(g)' <=> Releasing(g)
  BY <1>0 DEF ClaimedHost, StoredPublication, Releasing
<1>6. CallMatch'
  <2>1. /\ call[h].pc # "idle" /\ call'[h].pc # "idle"
        /\ call'[h].pub = call[h].pub /\ call'[h].kind = call[h].kind
        /\ \A g \in Handler \ {h} : call'[g] = call[g]
    BY <1>0, CallFacts
  <2> QED
    BY <1>0, <1>5, <2>1 DEF ServerInv, CallMatch
<1>7. RoutesActive' /\ ReleaseMarked' /\ WorkerExists'
  BY <1>0, <1>5 DEF ServerInv, RoutesActive, ReleaseMarked, WorkerExists, Active,
     recordMatches
<1>8. \A g \in Handler \ {h} : Effective(g)' <=> Effective(g)
  BY <1>0, CallFacts DEF Effective
<1>9. ~Effective(h)
  BY <1>0, CallFacts DEF Effective
<1>10. CASE publications' = publications /\ ~Effective(h)'
  <2>1. PublishedRecorded'
    BY <1>0, <1>5, <1>8, <1>9, <1>10 DEF ServerInv, PublishedRecorded
  <2>2. Withdrawn'
    BY <1>0, <1>5, <1>8, <1>9, <1>10 DEF ServerInv, Withdrawn
  <2> QED
    BY <1>1, <1>3, <1>4, <1>6, <1>7, <2>1, <2>2 DEF ServerInv
<1>11. CASE /\ HostsCanonical
            /\ publications' = NextTable(h) /\ call'[h].pc = "done" /\ call'[h].ok = TRUE
  <2> DEFINE k == ClaimedHost(h)
  <2>1. Effective(h)' /\ publications \in Table
    BY <1>11 DEF Effective, RuntimeInv, RuntimeTypeOK
  <2>2. \A j \in Host \ {k} : publications'[j] = publications[j]
    BY <1>2, <1>11, <2>1 DEF NextTable, Table
  <2>3. CASE handler[h].op = "routes"
    <3>1. mu = h /\ Active(h) /\ ~Releasing(h)
      BY <1>2, <2>3 DEF ServerInv, ServerLock, RoutesActive, Releasing
    <3>2. /\ call[h].kind = "publish" /\ call[h].pub = StoredPublication(h)
      BY <1>2, <2>3 DEF ServerInv, CallMatch
    <3>3. publications'[k] # None /\ publications'[k].token = handler[h].req.token
      <4>1. call[h].pub \in Publication
        BY <1>0, CallFacts DEF RuntimeInv, CallsPlaced, Handler
      <4>2. publications'[k] = [call[h].pub EXCEPT !.host = Key(h)]
        BY <1>2, <1>11, <2>1, <3>2 DEF NextTable, Table
      <4>3. [call[h].pub EXCEPT !.host = Key(h)] \in Publication
        BY <1>2, <1>11, <4>1 DEF Publication
      <4> QED
        BY <3>2, <4>1, <4>2, <4>3, NoneAssumption DEF StoredPublication, Publication
    <3>4. PublishedRecorded'
      BY <1>0, <1>5, <1>8, <1>9, <2>1, <2>2, <3>1, <3>3
      DEF ServerInv, PublishedRecorded, Active, recordMatches
    <3>5. \A g \in Handler : Releasing(g) => ClaimedHost(g) # k
      BY <3>1 DEF ServerInv, ReleaseMarked, Active
    <3>6. \A g \in Handler : Releasing(g) => ClaimedHost(g) \in Host
      BY ClaimedHostType DEF ServerInv, Phases, Releasing
    <3>7. Withdrawn'
      BY <1>0, <1>5, <1>8, <2>2, <3>1, <3>5, <3>6 DEF ServerInv, Withdrawn
    <3> QED
      BY <1>1, <1>3, <1>4, <1>6, <1>7, <3>4, <3>7 DEF ServerInv
  <2>4. CASE handler[h].op = "release"
    <3>1. Releasing(h) /\ mu # h /\ call[h].kind = "unpublish"
      BY <1>2, <2>4 DEF ServerInv, ServerLock, CallMatch, Releasing
    <3>2. publications'[k] = None
      BY <1>2, <1>11, <2>1, <3>1 DEF NextTable, Table
    <3>3. PublishedRecorded'
      BY <1>0, <1>5, <1>8, <1>9, <2>2, <3>1, <3>2 DEF ServerInv, PublishedRecorded
    <3>4. Withdrawn'
      <4> SUFFICES ASSUME NEW g \in Handler, Releasing(g),
                          handler[g].pc = "delete" \/ Effective(g)'
                   PROVE  publications'[ClaimedHost(g)] = None
        BY <1>0, <1>5 DEF Withdrawn
      <4>1. CASE g = h
        BY <3>2, <4>1
      <4>2. CASE g # h
        <5>1. ClaimedHost(g) \in Host \ {k}
          BY <3>1, <4>2, ClaimedHostType DEF ServerInv, Phases, Releasing, ReleaseMarked
        <5> QED
          BY <1>8, <1>11, <2>2, <4>2, <5>1 DEF ServerInv, Withdrawn
      <4> QED
        BY <4>1, <4>2
    <3> QED
      BY <1>1, <1>3, <1>4, <1>6, <1>7, <3>3, <3>4 DEF ServerInv
  <2> QED
    BY <1>2, <2>3, <2>4 DEF ServerInv, Phases
<1>12. CASE ~HostsCanonical
  BY <1>1, <1>3, <1>4, <1>6, <1>7, <1>12 DEF ServerInv, PublishedRecorded, Withdrawn
<1> QED
  BY <1>0, <1>10, <1>11, <1>12, CallFacts

-----------------------------------------------------------------------------
(* The handlers' own steps.                                                *)

\* What a handler's step leaves alone in the other handlers.
LEMMA OthersUnchanged ==
  ASSUME NEW h \in Handler, \A g \in Handler \ {h} : handler'[g] = handler[g]
  PROVE  \A g \in Handler \ {h} : /\ ClaimedHost(g)' = ClaimedHost(g)
                                  /\ StoredPublication(g)' = StoredPublication(g)
                                  /\ Releasing(g)' <=> Releasing(g)
  BY DEF ClaimedHost, StoredPublication, Releasing

LEMMA SameClaim ==
  ASSUME NEW h \in Handler, handler'[h].req = handler[h].req
  PROVE  ClaimedHost(h)' = ClaimedHost(h) /\ StoredPublication(h)' = StoredPublication(h)
  BY DEF ClaimedHost, StoredPublication

\* Two releases are never at work on one host, and neither is a publication.
LEMMA ReleasingElsewhere ==
  ASSUME ServerInv, NEW h \in Handler, handler[h].pc # "idle",
         ~Releasing(h) => claims[ClaimedHost(h)] = None \/ Active(h)
  PROVE  \A g \in Handler \ {h} : Releasing(g) =>
            ClaimedHost(g) \in Host \ {ClaimedHost(h)}
<1> SUFFICES ASSUME NEW g \in Handler \ {h}, Releasing(g)
             PROVE  ClaimedHost(g) \in Host /\ ClaimedHost(g) # ClaimedHost(h)
  OBVIOUS
<1>1. ClaimedHost(g) \in Host
  BY ClaimedHostType DEF ServerInv, Phases, Releasing
<1> QED
  BY <1>1 DEF ServerInv, ReleaseMarked, recordMatches, Active

LEMMA ClaimNewKeepsInv ==
  ASSUME IInv, NEW h \in Handler, ClaimNew(h)
  PROVE  IInv'
<1> USE DEF IInv
<1> DEFINE k == ClaimedHost(h)
           s == handler[h].req.session
           record == [session |-> s, token |-> lastToken', generation |-> generation',
                      published |-> FALSE, releasing |-> FALSE]
           new == [handler[h] EXCEPT !.pc = "reply", !.status = "ok"]
<1>1. /\ handler[h] \in HandlerState /\ handler[h].pc = "lock" /\ mu = None
      /\ handler[h].op = "claim" /\ claims[k] = None
      /\ claims' = [claims EXCEPT ![k] = record] /\ handler' = [handler EXCEPT ![h] = new]
      /\ UNCHANGED <<routeVars, bootVars, rtmu, call, ctxDone, daemon, mu>>
  BY DEF ClaimNew, AtLock, Respond, ServerInv, ServerTypeOK, rtVars, callVars
<1>2. new \in HandlerState /\ new.pc = "reply" /\ new.req = handler[h].req
  BY <1>1 DEF HandlerState
<1>3. handler[h].req \in Request /\ k \in Host /\ s \in Session
  BY <1>1, ClaimedHostType DEF ServerInv, Phases, Request, Receipt, Fresh
<1>4. lastToken' \in Token /\ generation' \in Token
      /\ lastToken' \in 0..MaxToken /\ generation' \in 0..MaxToken
  BY ConstantAssumption, SMT DEF ClaimNew, Token, ServerInv, ServerTypeOK
<1>5. record \in ClaimRecord /\ record # None /\ record.releasing = FALSE
  <2>1. record \in ClaimRecord
    BY <1>3, <1>4 DEF ClaimRecord
  <2> QED
    BY <2>1, NoneIsNoRecord
<1>6. receipts' \subseteq Receipt
  BY <1>3, <1>4 DEF ClaimNew, Receipt, ServerInv, ServerTypeOK
<1> HIDE DEF new, record
<1>7. /\ handler'[h] = new /\ \A g \in Handler \ {h} : handler'[g] = handler[g]
      /\ claims'[k] = record /\ \A j \in Host \ {k} : claims'[j] = claims[j]
  BY <1>1, <1>3 DEF ServerInv, ServerTypeOK
<1>8. RuntimeInv'
  BY <1>1, ContextKeepsInv DEF RuntimeInv, RuntimeTypeOK
<1>9. ServerTypeOK'
  BY <1>1, <1>2, <1>4, <1>5, <1>6 DEF ServerInv, ServerTypeOK
<1>10. Placed'
  BY <1>1, HandlerNeedsDaemon, SamePlace DEF bootVars
<1>11. Phases' /\ ServerLock'
  BY <1>1, <1>2, <1>3, <1>7 DEF ServerInv, Phases, ServerLock
<1>12. ~Releasing(h) /\ ~Releasing(h)'
  BY <1>1, <1>2, <1>7 DEF Releasing
<1>13. \A g \in Handler \ {h} : Releasing(g) => ClaimedHost(g) \in Host \ {k}
  BY <1>1, ReleasingElsewhere
<1>14. CallMatch'
  BY <1>1, <1>2, <1>7, OthersUnchanged DEF ServerInv, CallMatch
<1>15. RoutesActive'
  BY <1>1, NoneAssumption DEF RoutesActive, Handler
<1>16. ReleaseMarked'
  BY <1>7, <1>12, <1>13, OthersUnchanged DEF ServerInv, ReleaseMarked, recordMatches
<1>17. WorkerExists'
  BY <1>5, <1>7, <1>12, OthersUnchanged DEF ServerInv, WorkerExists
<1>18. PublishedRecorded'
  BY <1>1, <1>7, NoneAssumption DEF ServerInv, PublishedRecorded, routeVars, Handler
<1>19. Withdrawn'
  BY <1>1, <1>7, <1>12, OthersUnchanged DEF ServerInv, Withdrawn, Effective, routeVars
<1> QED
  BY <1>8, <1>9, <1>10, <1>11, <1>14, <1>15, <1>16, <1>17, <1>18, <1>19 DEF ServerInv

LEMMA StoredPublicationType ==
  ASSUME NEW h \in Handler, handler[h].req \in Receipt
  PROVE  StoredPublication(h) \in Publication
  BY ClaimedHostType DEF StoredPublication, Publication, Request, Receipt

LEMMA RoutesBeginKeepsInv ==
  ASSUME IInv, NEW h \in Handler, RoutesBegin(h)
  PROVE  IInv'
<1> USE DEF IInv
<1> DEFINE new == [handler[h] EXCEPT !.pc = "runtime"]
<1>1. /\ handler[h] \in HandlerState /\ handler[h].pc = "lock" /\ mu = None /\ mu' = h
      /\ handler[h].op = "routes" /\ Active(h)
      /\ handler' = [handler EXCEPT ![h] = new]
      /\ BeginCall(h, "publish", StoredPublication(h))
      /\ UNCHANGED <<routeVars, bootVars, rtmu, ctxDone, daemon, claims, generation,
                     historyVars>>
  BY DEF RoutesBegin, AtLock, ServerInv, ServerTypeOK
<1>2. /\ new \in HandlerState /\ new.pc = "runtime" /\ new.op = "routes"
      /\ new.req = handler[h].req
  BY <1>1 DEF HandlerState
<1> HIDE DEF new
<1>3. handler'[h] = new /\ \A g \in Handler \ {h} : handler'[g] = handler[g]
  BY <1>1 DEF ServerInv, ServerTypeOK
<1>4. handler[h].req \in Receipt /\ handler[h].req \in Request
  BY <1>1 DEF ServerInv, Phases, Request
<1>5. daemon # "down" /\ stage = "ready"
  BY <1>1, HandlerNeedsDaemon DEF ServerInv, Placed
<1>6. RuntimeInv'
  <2>1. StoredPublication(h) \in Publication
    BY <1>4, StoredPublicationType
  <2>2. ctxDone' \in [Caller -> BOOLEAN]
    BY <1>1 DEF RuntimeInv, RuntimeTypeOK
  <2> QED
    BY <1>1, <1>5, <2>1, <2>2, BeginKeepsInv DEF Handler
<1>7. /\ call'[h].pc = "lock" /\ call'[h].kind = "publish"
      /\ call'[h].pub = StoredPublication(h)
      /\ \A g \in Handler \ {h} : call'[g] = call[g]
  BY <1>1, NoCallType DEF BeginCall, RuntimeInv, RuntimeTypeOK, Handler, Call
<1>8. ServerTypeOK' /\ Placed'
  BY <1>1, <1>2, <1>5, SamePlace DEF ServerInv, ServerTypeOK, bootVars, historyVars
<1>9. Phases'
  BY <1>2, <1>3, <1>4 DEF ServerInv, Phases
<1>10. ServerLock'
  BY <1>1, <1>2, <1>3, NoneAssumption DEF ServerInv, ServerLock, Handler
<1>11. CallMatch'
  BY <1>1, <1>2, <1>3, <1>7, OthersUnchanged, SameClaim DEF ServerInv, CallMatch
<1>12. RoutesActive'
  BY <1>1, <1>2, <1>3, SameClaim DEF RoutesActive, Active, recordMatches
<1>13. ~Releasing(h) /\ ~Releasing(h)'
  BY <1>1, <1>2, <1>3 DEF Releasing
<1>14. ReleaseMarked' /\ WorkerExists'
  BY <1>1, <1>3, <1>13, OthersUnchanged DEF ServerInv, ReleaseMarked, WorkerExists,
     recordMatches
<1>15. PublishedRecorded'
  BY <1>1, NoneAssumption DEF ServerInv, PublishedRecorded, routeVars, Handler
<1>16. Withdrawn'
  BY <1>1, <1>3, <1>7, <1>13, OthersUnchanged DEF ServerInv, Withdrawn, Effective,
     routeVars
<1> QED
  BY <1>6, <1>8, <1>9, <1>10, <1>11, <1>12, <1>14, <1>15, <1>16 DEF ServerInv

LEMMA RoutesEndKeepsInv ==
  ASSUME IInv, NEW h \in Handler, RoutesEnd(h)
  PROVE  IInv'
<1> USE DEF IInv
<1> DEFINE k == ClaimedHost(h)
           status == IF call[h].ok THEN "ok" ELSE "rejected"
           record == [claims[k] EXCEPT !.published = TRUE]
           new == [handler[h] EXCEPT !.pc = "reply", !.status = status]
<1>1. /\ handler[h] \in HandlerState /\ handler[h].pc = "runtime"
      /\ handler[h].op = "routes" /\ call[h].pc = "done" /\ mu' = None
      /\ EndCall(h)
      /\ UNCHANGED <<routeVars, bootVars, rtmu, ctxDone, daemon, generation, historyVars>>
  BY DEF RoutesEnd, EndCall, ServerInv, ServerTypeOK
<1>2. handler' = [handler EXCEPT ![h] = new]
  BY DEF RoutesEnd, Respond, ServerInv, ServerTypeOK
<1>3. /\ new \in HandlerState /\ new.pc = "reply" /\ new.req = handler[h].req
  BY <1>1 DEF HandlerState
<1> HIDE DEF new
<1>4. handler'[h] = new /\ \A g \in Handler \ {h} : handler'[g] = handler[g]
  BY <1>2 DEF ServerInv, ServerTypeOK
<1>5. mu = h /\ Active(h) /\ handler[h].req \in Request /\ k \in Host
  BY <1>1, ClaimedHostType DEF ServerInv, ServerLock, RoutesActive, Phases
<1>6. claims[k] # None /\ claims[k] \in ClaimRecord /\ claims[k].releasing = FALSE
  BY <1>5 DEF Active, recordMatches, ServerInv, ServerTypeOK, ClaimRecord
<1>7. /\ record \in ClaimRecord /\ record # None /\ record.published = TRUE
      /\ record.releasing = FALSE /\ record.token = claims[k].token
  BY <1>6, NoneIsNoRecord DEF ClaimRecord
<1>8. \/ call[h].ok = TRUE /\ claims' = [claims EXCEPT ![k] = record]
      \/ call[h].ok # TRUE /\ claims' = claims
  BY <1>5 DEF RoutesEnd, ServerInv, ServerTypeOK
<1> HIDE DEF record
<1>9. \A j \in Host \ {k} : claims'[j] = claims[j]
  BY <1>8 DEF ServerInv, ServerTypeOK
<1>10. /\ claims'[k] # None /\ claims'[k].releasing = FALSE
       /\ claims'[k].token = claims[k].token
       /\ call[h].ok = TRUE => claims'[k].published = TRUE
       /\ claims[k].published = TRUE => claims'[k].published = TRUE
  BY <1>5, <1>6, <1>7, <1>8 DEF ServerInv, ServerTypeOK
<1>11. RuntimeInv'
  BY <1>1, EndCallKeepsInv DEF RuntimeInv, RuntimeTypeOK, Handler
<1>12. call'[h].pc = "idle" /\ \A g \in Handler \ {h} : call'[g] = call[g]
  BY <1>1, NoCallType DEF EndCall, RuntimeInv, RuntimeTypeOK, Handler
<1>13. ServerTypeOK'
  <2>1. claims' \in [Host -> ClaimRecord \union {None}]
    BY <1>5, <1>7, <1>8 DEF ServerInv, ServerTypeOK
  <2> QED
    BY <1>1, <1>2, <1>3, <2>1 DEF ServerInv, ServerTypeOK, historyVars
<1>14. Placed'
  BY <1>1, HandlerNeedsDaemon, SamePlace DEF bootVars
<1>15. Phases' /\ ServerLock'
  BY <1>1, <1>3, <1>4, <1>5, NoneAssumption DEF ServerInv, Phases, ServerLock, Handler
<1>16. CallMatch'
  BY <1>3, <1>4, <1>12, OthersUnchanged DEF ServerInv, CallMatch
<1>17. RoutesActive'
  BY <1>1, NoneAssumption DEF RoutesActive, Handler
<1>18. ~Releasing(h) /\ ~Releasing(h)'
  BY <1>1, <1>3, <1>4 DEF Releasing
<1>19. \A g \in Handler \ {h} : Releasing(g) => ClaimedHost(g) \in Host \ {k}
  BY <1>1, <1>5, ReleasingElsewhere
<1>20. ReleaseMarked'
  BY <1>4, <1>9, <1>18, <1>19, OthersUnchanged DEF ServerInv, ReleaseMarked, recordMatches
<1>21. WorkerExists'
  BY <1>4, <1>9, <1>10, <1>18, OthersUnchanged DEF ServerInv, WorkerExists
<1>22. PublishedRecorded'
  BY <1>1, <1>5, <1>9, <1>10 DEF ServerInv, PublishedRecorded, Effective, routeVars
<1>23. Withdrawn'
  BY <1>1, <1>4, <1>12, <1>18, OthersUnchanged DEF ServerInv, Withdrawn, Effective,
     routeVars
<1> QED
  BY <1>11, <1>13, <1>14, <1>15, <1>16, <1>17, <1>20, <1>21, <1>22, <1>23 DEF ServerInv

LEMMA ReleaseBeginKeepsInv ==
  ASSUME IInv, NEW h \in Handler, ReleaseBegin(h)
  PROVE  IInv'
<1> USE DEF IInv
<1> DEFINE k == ClaimedHost(h)
           pc == IF claims[k].published THEN "runtime" ELSE "delete"
           record == [claims[k] EXCEPT !.releasing = TRUE]
           new == [handler[h] EXCEPT !.pc = pc]
<1>1. /\ handler[h] \in HandlerState /\ handler[h].pc = "lock" /\ mu = None
      /\ handler[h].op = "release" /\ Active(h)
      /\ UNCHANGED <<routeVars, bootVars, rtmu, ctxDone, daemon, generation, mu,
                     historyVars>>
  BY DEF ReleaseBegin, AtLock, ServerInv, ServerTypeOK
<1>2. handler' = [handler EXCEPT ![h] = new] /\ claims' = [claims EXCEPT ![k] = record]
  BY DEF ReleaseBegin, ServerInv, ServerTypeOK
<1>3. /\ new \in HandlerState /\ new.pc = pc /\ new.req = handler[h].req
      /\ new.op = "release"
  BY <1>1 DEF HandlerState
<1> HIDE DEF new
<1>4. handler'[h] = new /\ \A g \in Handler \ {h} : handler'[g] = handler[g]
  BY <1>2 DEF ServerInv, ServerTypeOK
<1>5. handler[h].req \in Receipt /\ handler[h].req \in Request /\ k \in Host
  BY <1>1, ClaimedHostType DEF ServerInv, Phases, Request
<1>6. /\ claims[k] # None /\ claims[k] \in ClaimRecord
      /\ recordMatches(claims[k], handler[h].req)
  BY <1>1, <1>5 DEF Active, recordMatches, ServerInv, ServerTypeOK
<1>7. /\ record \in ClaimRecord /\ record # None /\ record.releasing = TRUE
      /\ record.published = claims[k].published /\ record.token = claims[k].token
      /\ record.session = claims[k].session
      /\ record.generation = claims[k].generation
  BY <1>6, NoneIsNoRecord DEF ClaimRecord
<1> HIDE DEF record
<1>8. claims'[k] = record /\ \A j \in Host \ {k} : claims'[j] = claims[j]
  BY <1>2, <1>5 DEF ServerInv, ServerTypeOK
<1>9. daemon # "down" /\ stage = "ready"
  BY <1>1, HandlerNeedsDaemon DEF ServerInv, Placed
<1>10. /\ call[h].pc = "idle" /\ \A g \in Handler \ {h} : call'[g] = call[g]
       /\ \/ /\ claims[k].published = TRUE /\ pc = "runtime"
             /\ BeginCall(h, "unpublish", StoredPublication(h))
             /\ call'[h].pc = "lock" /\ call'[h].kind = "unpublish"
             /\ call'[h].pub = StoredPublication(h)
          \/ /\ claims[k].published # TRUE /\ pc = "delete"
             /\ UNCHANGED call
  <2>1. call[h].pc = "idle"
    BY <1>1 DEF ServerInv, CallMatch
  <2>2. CASE claims[k].published
    <3>1. pc = "runtime" /\ BeginCall(h, "unpublish", StoredPublication(h))
      BY <2>2 DEF ReleaseBegin
    <3>2. /\ call'[h].pc = "lock" /\ call'[h].kind = "unpublish"
          /\ call'[h].pub = StoredPublication(h)
          /\ \A g \in Handler \ {h} : call'[g] = call[g]
      BY <3>1, NoCallType DEF BeginCall, RuntimeInv, RuntimeTypeOK, Handler, Call
    <3>3. claims[k].published = TRUE
      BY <1>6, <2>2 DEF ClaimRecord
    <3> QED
      BY <2>1, <3>1, <3>2, <3>3
  <2>3. CASE ~claims[k].published
    <3>1. pc = "delete" /\ UNCHANGED call
      BY <2>3 DEF ReleaseBegin
    <3>2. claims[k].published # TRUE
      BY <1>6, <2>3 DEF ClaimRecord
    <3> QED
      BY <2>1, <3>1, <3>2
  <2> QED
    BY <2>2, <2>3
<1> HIDE DEF pc
<1>11. RuntimeInv'
  <2>1. StoredPublication(h) \in Publication
    BY <1>5, StoredPublicationType
  <2>2. ctxDone' \in [Caller -> BOOLEAN]
    BY <1>1 DEF RuntimeInv, RuntimeTypeOK
  <2>3. CASE UNCHANGED call
    BY <1>1, <2>2, <2>3, ContextKeepsInv
  <2>4. CASE BeginCall(h, "unpublish", StoredPublication(h))
    BY <1>1, <1>9, <2>1, <2>2, <2>4, BeginKeepsInv DEF Handler
  <2> QED
    BY <1>10, <2>3, <2>4
<1>12. ServerTypeOK'
  BY <1>1, <1>2, <1>3, <1>7 DEF ServerInv, ServerTypeOK, historyVars
<1>13. Placed'
  BY <1>1, <1>9, SamePlace DEF bootVars
<1>14. Phases' /\ ServerLock'
  BY <1>1, <1>3, <1>4, <1>5, <1>10, NoneAssumption DEF ServerInv, Phases, ServerLock,
     Handler
<1>15. CallMatch'
  <2>1. /\ (call'[h].pc # "idle") <=> (handler'[h].pc = "runtime")
        /\ handler'[h].pc = "runtime" =>
               /\ call'[h].pub = StoredPublication(h)' /\ call'[h].kind = "unpublish"
    BY <1>3, <1>4, <1>10, SameClaim
  <2>2. handler'[h].op = "release"
    BY <1>3, <1>4
  <2> QED
    BY <1>4, <1>10, <2>1, <2>2, OthersUnchanged DEF ServerInv, CallMatch
<1>16. RoutesActive'
  BY <1>1, NoneAssumption DEF RoutesActive, Handler
<1>17. ~Releasing(h) /\ Releasing(h)'
  BY <1>1, <1>3, <1>4, <1>10 DEF Releasing
<1>18. \A g \in Handler \ {h} : Releasing(g) => ClaimedHost(g) \in Host \ {k}
  BY <1>1, ReleasingElsewhere
<1>19. recordMatches(record, handler[h].req)
  BY <1>6, <1>7 DEF recordMatches
<1>20. ClaimedHost(h)' = k
  BY <1>3, <1>4, SameClaim
<1>21. ReleaseMarked'
  <2>1. recordMatches(claims'[k], handler'[h].req) /\ claims'[k].releasing = TRUE
    BY <1>3, <1>4, <1>7, <1>8, <1>19
  <2>2. \A g \in Handler \ {h} : Releasing(g)' =>
           /\ ClaimedHost(g)' \in Host \ {k}
           /\ recordMatches(claims'[ClaimedHost(g)'], handler'[g].req)
           /\ claims'[ClaimedHost(g)'].releasing = TRUE
    BY <1>4, <1>8, <1>18, OthersUnchanged DEF ServerInv, ReleaseMarked
  <2> QED
    BY <1>4, <1>20, <2>1, <2>2, OthersUnchanged DEF ServerInv, ReleaseMarked, recordMatches
<1>22. WorkerExists'
  BY <1>4, <1>8, <1>17, <1>20, OthersUnchanged DEF ServerInv, WorkerExists
<1>23. PublishedRecorded'
  BY <1>1, <1>7, <1>8, NoneAssumption DEF ServerInv, PublishedRecorded, routeVars, Handler
<1>24. Withdrawn'
  <2>1. HostsCanonical /\ (handler'[h].pc = "delete" \/ Effective(h)')
            => publications[k] = None
    BY <1>1, <1>3, <1>4, <1>5, <1>10, NoneAssumption
    DEF ServerInv, PublishedRecorded, Effective, Handler
  <2> QED
    BY <1>1, <1>4, <1>10, <1>20, <2>1, OthersUnchanged DEF ServerInv, Withdrawn, Effective,
       routeVars
<1> QED
  BY <1>11, <1>12, <1>13, <1>14, <1>15, <1>16, <1>21, <1>22, <1>23, <1>24 DEF ServerInv

LEMMA ReleaseWithdrawnKeepsInv ==
  ASSUME IInv, NEW h \in Handler, ReleaseWithdrawn(h)
  PROVE  IInv'
<1> USE DEF IInv
<1> DEFINE pc == IF call[h].ok THEN "delete" ELSE "undo"
           new == [handler[h] EXCEPT !.pc = pc]
<1>1. /\ handler[h] \in HandlerState /\ handler[h].pc = "runtime"
      /\ handler[h].op = "release" /\ EndCall(h)
      /\ handler' = [handler EXCEPT ![h] = new]
      /\ UNCHANGED <<routeVars, bootVars, rtmu, ctxDone, daemon, serverVars, historyVars>>
  BY DEF ReleaseWithdrawn, ServerInv, ServerTypeOK
<1>2. /\ new \in HandlerState /\ new.pc = pc /\ new.req = handler[h].req
      /\ new.op = "release"
  BY <1>1 DEF HandlerState
<1>3. pc \in {"delete", "undo"} /\ (pc = "delete" => Effective(h))
  <2>1. call[h].ok \in BOOLEAN /\ call[h].pc = "done"
    BY <1>1 DEF EndCall, RuntimeInv, RuntimeTypeOK, Call, Handler
  <2> QED
    BY <2>1 DEF Effective
<1> HIDE DEF new, pc
<1>4. handler'[h] = new /\ \A g \in Handler \ {h} : handler'[g] = handler[g]
  BY <1>1 DEF ServerInv, ServerTypeOK
<1>5. call'[h].pc = "idle" /\ \A g \in Handler \ {h} : call'[g] = call[g]
  BY <1>1, NoCallType DEF EndCall, RuntimeInv, RuntimeTypeOK, Handler
<1>6. RuntimeInv'
  BY <1>1, EndCallKeepsInv DEF RuntimeInv, RuntimeTypeOK, Handler
<1>7. ServerTypeOK' /\ Placed'
  BY <1>1, <1>2, HandlerNeedsDaemon, SamePlace
  DEF ServerInv, ServerTypeOK, bootVars, serverVars, historyVars
<1>8. Phases' /\ ServerLock'
  BY <1>1, <1>2, <1>3, <1>4 DEF ServerInv, Phases, ServerLock, serverVars, Request
<1>9. CallMatch'
  BY <1>2, <1>3, <1>4, <1>5, OthersUnchanged DEF ServerInv, CallMatch
<1>10. Releasing(h) /\ Releasing(h)' /\ mu # h
  BY <1>1, <1>2, <1>3, <1>4 DEF Releasing, ServerInv, ServerLock
<1>11. ClaimedHost(h)' = ClaimedHost(h) /\ handler'[h].req = handler[h].req
  BY <1>2, <1>4, SameClaim
<1>12. RoutesActive' /\ ReleaseMarked' /\ WorkerExists'
  BY <1>1, <1>4, <1>10, <1>11, OthersUnchanged
  DEF ServerInv, RoutesActive, ReleaseMarked, WorkerExists, Active, recordMatches, serverVars
<1>13. PublishedRecorded'
  BY <1>1, <1>4, <1>5, <1>10, OthersUnchanged
  DEF ServerInv, PublishedRecorded, Effective, routeVars, serverVars
<1>14. Withdrawn'
  BY <1>1, <1>2, <1>3, <1>4, <1>5, <1>10, <1>11, OthersUnchanged
  DEF ServerInv, Withdrawn, Effective, routeVars
<1> QED
  BY <1>6, <1>7, <1>8, <1>9, <1>12, <1>13, <1>14 DEF ServerInv

\* The claim of a finished release goes, or becomes active again.
LEMMA ReleaseEndKeepsInv ==
  ASSUME IInv, NEW h \in Handler, ReleaseDelete(h) \/ ReleaseUndo(h)
  PROVE  IInv'
<1> USE DEF IInv
<1>0. PICK status \in {"ok", "rejected"} : Respond(h, status)
  BY DEF ReleaseDelete, ReleaseUndo
<1> DEFINE k == ClaimedHost(h)
           new == [handler[h] EXCEPT !.pc = "reply", !.status = status]
<1>1. /\ handler[h] \in HandlerState /\ handler[h].pc \in {"delete", "undo"}
      /\ handler[h].op = "release" /\ mu = None
      /\ UNCHANGED <<routeVars, bootVars, rtmu, call, ctxDone, daemon, generation, mu,
                     historyVars>>
  BY DEF ReleaseDelete, ReleaseUndo, ServerInv, ServerTypeOK, Phases, rtVars, callVars
<1>2. handler' = [handler EXCEPT ![h] = new]
  BY <1>0 DEF Respond, ServerInv, ServerTypeOK
<1>3. new \in HandlerState /\ new.pc = "reply" /\ new.req = handler[h].req
  BY <1>0, <1>1 DEF HandlerState
<1> HIDE DEF new
<1>4. handler'[h] = new /\ \A g \in Handler \ {h} : handler'[g] = handler[g]
  BY <1>2 DEF ServerInv, ServerTypeOK
<1>5. handler[h].req \in Request /\ k \in Host
  BY <1>1, ClaimedHostType DEF ServerInv, Phases, Request
<1>6. Releasing(h) /\ ~Releasing(h)'
  BY <1>1, <1>3, <1>4 DEF Releasing
<1>7. /\ recordMatches(claims[k], handler[h].req)
      /\ claims[k] # None /\ claims[k] \in ClaimRecord
  BY <1>5, <1>6 DEF ServerInv, ReleaseMarked, recordMatches, ServerTypeOK
<1>8. \/ handler[h].pc = "delete" /\ claims' = [claims EXCEPT ![k] = None]
      \/ handler[h].pc = "undo"
           /\ claims' = [claims EXCEPT ![k] = [claims[k] EXCEPT !.releasing = FALSE]]
  BY <1>7 DEF ReleaseDelete, ReleaseUndo, ServerInv, ServerTypeOK
<1>9. \A j \in Host \ {k} : claims'[j] = claims[j]
  BY <1>8 DEF ServerInv, ServerTypeOK
<1>10. /\ claims'[k] \in ClaimRecord \union {None}
       /\ claims'[k] # None =>
            /\ handler[h].pc = "undo" /\ claims'[k].releasing = FALSE
            /\ claims'[k].token = claims[k].token
            /\ claims'[k].published = claims[k].published
       /\ claims'[k] = None => handler[h].pc = "delete"
  <2>1. [claims[k] EXCEPT !.releasing = FALSE] \in ClaimRecord
    BY <1>7 DEF ClaimRecord
  <2> QED
    BY <1>5, <1>7, <1>8, <2>1, NoneIsNoRecord DEF ClaimRecord, ServerInv, ServerTypeOK
<1>11. RuntimeInv'
  BY <1>1, ContextKeepsInv DEF RuntimeInv, RuntimeTypeOK
<1>12. ServerTypeOK'
  <2>1. claims' \in [Host -> ClaimRecord \union {None}]
    BY <1>8, <1>9, <1>10 DEF ServerInv, ServerTypeOK
  <2> QED
    BY <1>1, <1>2, <1>3, <2>1 DEF ServerInv, ServerTypeOK, historyVars
<1>13. Placed'
  BY <1>1, HandlerNeedsDaemon, SamePlace DEF bootVars
<1>14. Phases' /\ ServerLock'
  BY <1>1, <1>3, <1>4, <1>5, NoneAssumption DEF ServerInv, Phases, ServerLock, Handler
<1>15. CallMatch'
  BY <1>1, <1>3, <1>4, OthersUnchanged DEF ServerInv, CallMatch
<1>16. RoutesActive'
  BY <1>1, NoneAssumption DEF RoutesActive, Handler
<1>17. \A g \in Handler \ {h} : Releasing(g) => ClaimedHost(g) \in Host \ {k}
  BY <1>1, <1>6, ReleasingElsewhere
<1>18. ReleaseMarked'
  BY <1>4, <1>6, <1>9, <1>17, OthersUnchanged DEF ServerInv, ReleaseMarked, recordMatches
<1>19. WorkerExists'
  <2> SUFFICES ASSUME NEW j \in Host, claims'[j] # None, claims'[j].releasing = TRUE
               PROVE  \E g \in Handler : Releasing(g)' /\ ClaimedHost(g)' = j
    BY DEF WorkerExists
  <2>1. j # k /\ claims[j] # None /\ claims[j].releasing = TRUE
    BY <1>9, <1>10
  <2>2. PICK g \in Handler : Releasing(g) /\ ClaimedHost(g) = j
    BY <2>1 DEF ServerInv, WorkerExists
  <2> QED
    BY <1>4, <2>1, <2>2, OthersUnchanged
<1>20. PublishedRecorded'
  <2> SUFFICES ASSUME HostsCanonical PROVE PublishedRecorded'
    BY DEF PublishedRecorded
  <2>1. \A j \in Host : publications[j] # None =>
            /\ claims[j] # None /\ claims[j].token = publications[j].token
            /\ claims[j].published = TRUE
    BY <1>1, NoneAssumption DEF ServerInv, PublishedRecorded, Handler
  <2>2. handler[h].pc = "delete" => publications[k] = None
    BY <1>6 DEF ServerInv, Withdrawn
  <2> QED
    BY <1>1, <1>9, <1>10, <2>1, <2>2 DEF PublishedRecorded, routeVars
<1>21. Withdrawn'
  BY <1>1, <1>4, <1>6, OthersUnchanged DEF ServerInv, Withdrawn, Effective, routeVars
<1> QED
  BY <1>11, <1>12, <1>13, <1>14, <1>15, <1>16, <1>18, <1>19, <1>20, <1>21 DEF ServerInv

LEMMA NextKeepsInv ==
  ASSUME IInv, [Next]_vars
  PROVE  IInv'
<1>1. CASE Process
  BY <1>1, ProcessKeepsInv
<1>2. ASSUME NEW h \in Handler, Work(h) PROVE IInv'
  BY <1>2, AnswerKeepsInv, ClaimNewKeepsInv, RoutesBeginKeepsInv, RoutesEndKeepsInv,
     ReleaseBeginKeepsInv, ReleaseWithdrawnKeepsInv, ReleaseEndKeepsInv,
     RuntimeStepKeepsInv, ReplyKeepsInv DEF Work
<1>3. ASSUME NEW h \in Handler, Ask(h) \/ Disconnect(h) PROVE IInv'
  BY <1>3, AskKeepsInv, ContextStepKeepsInv
<1>4. CASE UNCHANGED vars
  <2>1. RuntimeInv'
    BY <1>4, ContextKeepsInv DEF vars, rtVars, callVars, IInv, RuntimeInv, RuntimeTypeOK
  <2>2. Placed'
    BY <1>4 DEF vars, rtVars, bootVars, routeVars, serverVars, IInv, ServerInv, Placed
  <2>3. UNCHANGED serverState /\ daemon' \in {"down", "up", "closing"}
    BY <1>4 DEF vars, rtVars, routeVars, callVars, serverState, IInv, ServerInv,
       ServerTypeOK
  <2> QED
    BY <2>1, <2>2, <2>3, SameServer DEF IInv
<1> QED
  BY <1>1, <1>2, <1>3, <1>4 DEF Next

LEMMA IInvHolds == Spec => []IInv
  BY InitIInv, NextKeepsInv, PTL DEF Spec

-----------------------------------------------------------------------------
(* Theorems.                                                               *)

\* The daemon's variables keep their types.
THEOREM TypeCorrect == Spec => []TypeOK
<1>1. IInv => TypeOK
  BY DEF IInv, RuntimeInv, ServerInv, ServerTypeOK, TypeOK
<1> QED
  BY <1>1, IInvHolds, PTL

\* The route runtime has only committed routes of the owners of their hosts.
THEOREM CommittedRoutesOwned ==
  ASSUME HostsCanonical
  PROVE  Spec => []CommittedRouteOwned
<1>1. IInv => CommittedRouteOwned
  BY DEF IInv, ServerInv, PublishedRecorded, CommittedRouteOwned
<1> QED
  BY <1>1, IInvHolds, PTL

\* A claim marked Releasing is the work of exactly one handler.
THEOREM ReleasesHaveWorkers == Spec => []ReleasingHasWorker
<1>1. IInv => ReleasingHasWorker
  <2> SUFFICES ASSUME IInv, NEW k \in Host, claims[k] # None, claims[k].releasing
               PROVE  \E h \in Handler :
                        /\ Releasing(h) /\ handler[h].req.token = claims[k].token
                        /\ \A g \in Handler \ {h} :
                              ~(Releasing(g) /\ handler[g].req = handler[h].req)
    BY DEF ReleasingHasWorker
  <2>1. claims[k].releasing = TRUE
    BY DEF IInv, ServerInv, ServerTypeOK, ClaimRecord
  <2>2. PICK h \in Handler : Releasing(h) /\ ClaimedHost(h) = k
    BY <2>1 DEF IInv, ServerInv, WorkerExists
  <2>3. handler[h].req.token = claims[k].token
    BY <2>2 DEF IInv, ServerInv, ReleaseMarked, recordMatches
  <2>4. \A g \in Handler \ {h} : Releasing(g) => handler[g].req # handler[h].req
    BY <2>2 DEF IInv, ServerInv, ReleaseMarked, ClaimedHost
  <2> QED
    BY <2>2, <2>3, <2>4
<1> QED
  BY <1>1, IInvHolds, PTL
=============================================================================
