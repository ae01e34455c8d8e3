---------------------- MODULE ControlPlaneServedProofs ----------------------
(***************************************************************************)
(* Proofs about the daemon, continued: what its clients can rely on.       *)
(*                                                                         *)
(* `ControlPlaneProofs' shows that a committed route has its claim.  Here  *)
(* is the other direction, a published claim has its committed route until *)
(* its release has withdrawn it (Kept), and from there what Caddy serves.  *)
(* That last step needs a Caddy that says so when it has taken a           *)
(* configuration: NoLostReload, or at least that it did so the last time   *)
(* (LiveCertain).  Without that, one host at most is misled.               *)
(*                                                                         *)
(* As in ControlPlaneProofs, what is said of the table is conditional on   *)
(* HostsCanonical.  The names of published claims are not.                 *)
(***************************************************************************)
EXTENDS ControlPlaneProofs

NoLostReload == "lost_reload" \notin Faults

\* A release that has nothing left to withdraw.
Withdrawing(h) == Releasing(h) /\ (handler[h].pc = "delete" \/ Effective(h))

\* A publication that took effect is in the table.
Shown ==
    HostsCanonical => \A h \in Handler : (mu = h /\ Effective(h)) =>
        /\ publications[ClaimedHost(h)] # None
        /\ publications[ClaimedHost(h)].token = handler[h].req.token

\* And so is that of a published claim, up to the end of its release.
Kept ==
    HostsCanonical => \A k \in Host :
        /\ claims[k] # None
        /\ claims[k].published = TRUE
        /\ \A h \in Handler : Withdrawing(h) => ClaimedHost(h) # k
        => publications[k] # None /\ publications[k].token = claims[k].token

\* Only answers have a status.
Answers == \A h \in Handler : handler[h].status = "ok" => handler[h].pc = "reply"

\* Claims are kept under canonical hosts of sessions.
ClaimsCanonical ==
    \A k \in Host : claims[k] # None => \E s \in Session : k = canonicalHost(HostOf[s])

ServedInv == Shown /\ Kept /\ Answers /\ ClaimsCanonical

-----------------------------------------------------------------------------
(* What every step has to show.                                            *)

LEMMA ShownStep ==
  ASSUME Shown, UNCHANGED publications,
         \A h \in Handler : (mu' = h /\ Effective(h)') =>
             mu = h /\ Effective(h) /\ handler'[h].req = handler[h].req
  PROVE  Shown'
  BY DEF Shown, ClaimedHost

LEMMA KeptStep ==
  ASSUME Kept, UNCHANGED publications,
         \A k \in Host :
             \/ claims'[k] = None
             \/ claims'[k].published # TRUE
             \/ /\ claims[k] # None /\ claims[k].published = TRUE
                /\ claims'[k].token = claims[k].token,
         \A h \in Handler : Withdrawing(h) =>
             \/ claims'[ClaimedHost(h)] = None
             \/ Withdrawing(h)' /\ ClaimedHost(h)' = ClaimedHost(h)
  PROVE  Kept'
  BY DEF Kept

\* A step that moves handlers between requests.
LEMMA QuietStep ==
  ASSUME IInv, Shown, Kept, UNCHANGED <<publications, call, claims, mu>>,
         \A h \in Handler :
             \/ handler'[h] = handler[h]
             \/ handler[h].pc \in {"idle", "lock", "reply"}
  PROVE  Shown' /\ Kept'
<1>1. \A h \in Handler : Effective(h)' <=> Effective(h)
  BY DEF Effective
<1>2. \A h \in Handler : mu = h => handler'[h] = handler[h]
  BY DEF IInv, ServerInv, ServerLock
<1>3. \A h \in Handler : Releasing(h) => handler'[h] = handler[h]
  BY DEF Releasing
<1>4. Shown'
  BY <1>1, <1>2, ShownStep
<1>5. \A h \in Handler : Withdrawing(h) => Withdrawing(h)' /\ ClaimedHost(h)' = ClaimedHost(h)
  BY <1>1, <1>3 DEF Withdrawing, Releasing, ClaimedHost
<1>6. Kept'
  BY <1>5, KeptStep
<1> QED
  BY <1>4, <1>6

-----------------------------------------------------------------------------
LEMMA InitServedInv == Init => ServedInv
<1> SUFFICES ASSUME Init PROVE ServedInv
  OBVIOUS
<1>1. \A h \in Handler : mu # h /\ handler[h].status = "none"
  BY NoneAssumption DEF Init, Idle, Handler
<1> QED
  BY <1>1 DEF Init, NoClaims, ServedInv, Shown, Kept, Answers, ClaimsCanonical

LEMMA ProcessKeepsServed ==
  ASSUME IInv, ServedInv, Process
  PROVE  ServedInv'
<1>1. CASE StartWrite \/ Serve \/ BeginClose \/ CloseRuntime
  <2>1. UNCHANGED <<publications, call, claims, mu, handler>>
    BY <1>1 DEF StartWrite, Serve, BeginClose, CloseRuntime, BootWrite, BootWriteFails,
       BootContainer, BootFails, callVars, rtVars, routeVars, serverVars
  <2> QED
    BY <2>1, QuietStep DEF ServedInv, Answers, ClaimsCanonical
<1>2. CASE ServeFails \/ Exit \/ Die
  <2>1. Vanish
    BY <1>2 DEF ServeFails, Exit, Die
  <2>2. \A h \in Handler : mu' # h /\ handler'[h].status = "none"
    BY <2>1, NoneAssumption DEF Vanish, Idle, Handler
  <2> QED
    BY <2>1, <2>2 DEF Vanish, NoClaims, ServedInv, Shown, Kept, Answers, ClaimsCanonical
<1> QED
  BY <1>1, <1>2 DEF Process

\* An answer without a change, the end of a goroutine, a new request, a client
\* that hangs up.
LEMMA PhaseKeepsServed ==
  ASSUME IInv, ServedInv, NEW h \in Handler,
         ClaimAgain(h) \/ ClaimConflict(h) \/ Stale(h) \/ Reply(h) \/ Ask(h) \/ Disconnect(h)
  PROVE  ServedInv'
<1>1. UNCHANGED <<publications, call, claims, mu>>
  BY DEF ClaimAgain, ClaimConflict, Stale, Reply, Ask, Receive, Disconnect, rtVars,
     routeVars, callVars, serverVars
<1>2. \A g \in Handler \ {h} : handler'[g] = handler[g]
  BY DEF ClaimAgain, ClaimConflict, Stale, Reply, Ask, Receive, Disconnect, Respond, IInv,
     ServerInv, ServerTypeOK
<1>3. handler[h].pc \in {"idle", "lock", "reply"} \/ handler'[h] = handler[h]
  BY DEF ClaimAgain, ClaimConflict, Stale, AtLock, Reply, Ask, Receive, Disconnect
<1>4. handler'[h].status = "ok" => handler'[h].pc = "reply"
  <2>1. handler[h] \in HandlerState
    BY DEF IInv, ServerInv, ServerTypeOK
  <2> QED
    BY <2>1 DEF ClaimAgain, ClaimConflict, Stale, Reply, Idle, Ask, Receive, Disconnect,
       Respond, HandlerState, IInv, ServerInv, ServerTypeOK, ServedInv, Answers
<1>5. Shown' /\ Kept'
  BY <1>1, <1>2, <1>3, QuietStep DEF ServedInv
<1> QED
  BY <1>1, <1>2, <1>4, <1>5 DEF ServedInv, Answers, ClaimsCanonical

\* A handler that answers, or goes to another phase.
LEMMA HandlerMoves ==
  ASSUME IInv, NEW h \in Handler,
         \/ \E status \in {"ok", "rejected"} : Respond(h, status)
         \/ \E pc \in {"runtime", "delete", "undo"} : handler' = [handler EXCEPT ![h].pc = pc]
  PROVE  /\ \A g \in Handler \ {h} : handler'[g] = handler[g]
         /\ handler'[h].req = handler[h].req /\ handler'[h].op = handler[h].op
         /\ ClaimedHost(h)' = ClaimedHost(h)
<1>1. handler[h] \in HandlerState
  BY DEF IInv, ServerInv, ServerTypeOK
<1>2. /\ \A g \in Handler \ {h} : handler'[g] = handler[g]
      /\ handler'[h].req = handler[h].req /\ handler'[h].op = handler[h].op
  BY <1>1 DEF Respond, IInv, ServerInv, ServerTypeOK, HandlerState
<1> QED
  BY <1>2 DEF ClaimedHost

LEMMA ClaimNewKeepsServed ==
  ASSUME IInv, ServedInv, NEW h \in Handler, ClaimNew(h)
  PROVE  ServedInv'
<1> DEFINE k == ClaimedHost(h)
<1>1. /\ UNCHANGED <<publications, call, mu>> /\ mu = None /\ Respond(h, "ok")
      /\ handler[h].pc = "lock" /\ handler[h] \in HandlerState
      /\ handler[h].req \in Request
  BY DEF ClaimNew, AtLock, rtVars, routeVars, callVars, IInv, ServerInv, ServerTypeOK, Phases
<1>2. k \in Host /\ \E s \in Session : k = canonicalHost(HostOf[s])
  BY <1>1, ClaimedHostType DEF ClaimedHost, Request, Receipt, Fresh
<1>3. /\ claims'[k].published = FALSE
      /\ \A j \in Host \ {k} : claims'[j] = claims[j]
  BY <1>2 DEF ClaimNew, IInv, ServerInv, ServerTypeOK
<1>4. /\ \A g \in Handler \ {h} : handler'[g] = handler[g]
      /\ handler'[h].pc = "reply"
  BY <1>1 DEF Respond, IInv, ServerInv, ServerTypeOK, HandlerState
<1>5. Shown'
  BY <1>1, NoneAssumption, ShownStep DEF ServedInv, Handler
<1>6. Kept'
  <2>1. \A g \in Handler : Withdrawing(g) => handler'[g] = handler[g]
    BY <1>1, <1>4 DEF Withdrawing, Releasing
  <2>2. \A g \in Handler : Withdrawing(g) => Withdrawing(g)' /\ ClaimedHost(g)' = ClaimedHost(g)
    BY <1>1, <2>1 DEF Withdrawing, Releasing, Effective, ClaimedHost
  <2>3. \A j \in Host : \/ claims'[j] = None
                       \/ claims'[j].published # TRUE
                       \/ /\ claims[j] # None /\ claims[j].published = TRUE
                          /\ claims'[j].token = claims[j].token
    BY <1>3
  <2> QED
    BY <1>1, <2>2, <2>3, KeptStep DEF ServedInv
<1>7. ClaimsCanonical'
  BY <1>2, <1>3 DEF ServedInv, ClaimsCanonical
<1>8. Answers'
  BY <1>4 DEF ServedInv, Answers
<1> QED
  BY <1>5, <1>6, <1>7, <1>8 DEF ServedInv

LEMMA RoutesBeginKeepsServed ==
  ASSUME IInv, ServedInv, NEW h \in Handler, RoutesBegin(h)
  PROVE  ServedInv'
<1>1. /\ UNCHANGED <<publications, claims>> /\ mu = None /\ mu' = h
      /\ handler' = [handler EXCEPT ![h].pc = "runtime"]
      /\ handler[h].pc = "lock" /\ handler[h].op = "routes"
      /\ BeginCall(h, "publish", StoredPublication(h))
  BY DEF RoutesBegin, AtLock, routeVars
<1>2. /\ \A g \in Handler \ {h} : handler'[g] = handler[g]
      /\ handler'[h].status = handler[h].status
  BY <1>1 DEF IInv, ServerInv, ServerTypeOK
<1>3. /\ call'[h].pc = "lock"
      /\ \A g \in Handler \ {h} : call'[g] = call[g]
  BY <1>1, NoCallType DEF BeginCall, IInv, RuntimeInv, RuntimeTypeOK, Handler, Call
<1>4. Shown'
  BY <1>1, <1>3 DEF Shown, Effective
<1>5. \A g \in Handler : Withdrawing(g) =>
          g # h /\ Withdrawing(g)' /\ ClaimedHost(g)' = ClaimedHost(g)
  BY <1>1, <1>2, <1>3 DEF Withdrawing, Releasing, Effective, ClaimedHost
<1>6. Kept'
  BY <1>1, <1>5, KeptStep DEF ServedInv
<1>7. Answers' /\ ClaimsCanonical'
  BY <1>1, <1>2 DEF ServedInv, Answers, ClaimsCanonical
<1> QED
  BY <1>4, <1>6, <1>7 DEF ServedInv

\* The publication the runtime has accepted is in the table.
LEMMA RoutesEndKeepsServed ==
  ASSUME IInv, ServedInv, NEW h \in Handler, RoutesEnd(h)
  PROVE  ServedInv'
<1> DEFINE k == ClaimedHost(h)
           status == IF call[h].ok THEN "ok" ELSE "rejected"
<1>1. /\ UNCHANGED publications /\ mu' = None /\ Respond(h, status)
      /\ handler[h].pc = "runtime" /\ handler[h].op = "routes" /\ call[h].pc = "done"
      /\ EndCall(h) /\ call[h].ok \in BOOLEAN
  BY DEF RoutesEnd, EndCall, routeVars, IInv, RuntimeInv, RuntimeTypeOK, Call, Handler
<1>2. mu = h /\ Active(h) /\ k \in Host /\ claims[k] # None
      /\ claims[k].token = handler[h].req.token
  BY <1>1, ClaimedHostType
     DEF IInv, ServerInv, ServerLock, RoutesActive, Phases, Active, recordMatches, Request
<1>3. /\ \A g \in Handler \ {h} : handler'[g] = handler[g]
      /\ handler'[h].pc = "reply"
  BY <1>1 DEF Respond, IInv, ServerInv, ServerTypeOK, HandlerState
<1>4. \A g \in Handler \ {h} : call'[g] = call[g]
  BY <1>1 DEF EndCall, IInv, RuntimeInv, RuntimeTypeOK, Handler
<1>5. \A g \in Handler : Withdrawing(g) => Withdrawing(g)' /\ ClaimedHost(g)' = ClaimedHost(g)
  BY <1>1, <1>3, <1>4 DEF Withdrawing, Releasing, Effective, ClaimedHost
<1>6. claims' \in [Host -> ClaimRecord \union {None}]
      /\ \A j \in Host \ {k} : claims'[j] = claims[j]
  <2>1. claims[k] \in ClaimRecord
    BY <1>2 DEF IInv, ServerInv, ServerTypeOK
  <2>2. [claims[k] EXCEPT !.published = TRUE] \in ClaimRecord
    BY <2>1 DEF ClaimRecord
  <2> QED
    BY <1>2, <2>2 DEF RoutesEnd, IInv, ServerInv, ServerTypeOK
<1>7. Kept'
  <2>1. CASE call[h].ok = TRUE
    <3>1. claims[k] \in ClaimRecord
      BY <1>2 DEF IInv, ServerInv, ServerTypeOK
    <3>2. claims'[k].token = claims[k].token
      BY <1>2, <2>1, <3>1 DEF RoutesEnd, IInv, ServerInv, ServerTypeOK, ClaimRecord
    <3>3. HostsCanonical =>
            publications[k] # None /\ publications[k].token = claims'[k].token
      BY <1>1, <1>2, <2>1, <3>2 DEF ServedInv, Shown, Effective
    <3> QED
      BY <1>1, <1>5, <1>6, <3>3 DEF ServedInv, Kept
  <2>2. CASE call[h].ok = FALSE
    <3>1. claims' = claims
      BY <2>2 DEF RoutesEnd
    <3> QED
      BY <1>1, <1>5, <3>1, KeptStep DEF ServedInv
  <2> QED
    BY <1>1, <2>1, <2>2
<1>8. Shown'
  BY <1>1, NoneAssumption DEF Shown, Handler
<1>9. ClaimsCanonical'
  BY <1>2, <1>6 DEF ServedInv, ClaimsCanonical
<1>10. Answers'
  BY <1>3 DEF ServedInv, Answers
<1> QED
  BY <1>7, <1>8, <1>9, <1>10 DEF ServedInv

LEMMA ReleaseBeginKeepsServed ==
  ASSUME IInv, ServedInv, NEW h \in Handler, ReleaseBegin(h)
  PROVE  ServedInv'
<1> DEFINE k == ClaimedHost(h)
           pc == IF claims[k].published THEN "runtime" ELSE "delete"
<1>1. /\ UNCHANGED <<publications, mu>> /\ mu = None
      /\ handler[h].pc = "lock" /\ handler[h].op = "release" /\ Active(h)
      /\ handler' = [handler EXCEPT ![h].pc = pc]
      /\ claims' = [claims EXCEPT ![k].releasing = TRUE]
  BY DEF ReleaseBegin, AtLock, routeVars
<1>2. k \in Host /\ claims[k] \in ClaimRecord /\ claims[k] # None
  BY <1>1, ClaimedHostType
     DEF IInv, ServerInv, Phases, Active, recordMatches, Request, ServerTypeOK
<1>3. /\ claims'[k].token = claims[k].token /\ claims'[k].published = claims[k].published
      /\ \A j \in Host \ {k} : claims'[j] = claims[j]
  BY <1>1, <1>2 DEF IInv, ServerInv, ServerTypeOK, ClaimRecord
<1>4. /\ \A g \in Handler \ {h} : handler'[g] = handler[g]
      /\ handler'[h].status = handler[h].status
  BY <1>1 DEF IInv, ServerInv, ServerTypeOK
<1>5. \A g \in Handler \ {h} : call'[g] = call[g]
  BY DEF ReleaseBegin, BeginCall, IInv, RuntimeInv, RuntimeTypeOK, Handler
<1>6. Shown'
  BY <1>1, NoneAssumption DEF Shown, Handler
<1>7. \A g \in Handler : Withdrawing(g) =>
          g # h /\ Withdrawing(g)' /\ ClaimedHost(g)' = ClaimedHost(g)
  BY <1>1, <1>4, <1>5 DEF Withdrawing, Releasing, Effective, ClaimedHost
<1>8. Kept'
  <2>1. \A j \in Host : \/ claims'[j] = None
                       \/ claims'[j].published # TRUE
                       \/ /\ claims[j] # None /\ claims[j].published = TRUE
                          /\ claims'[j].token = claims[j].token
    BY <1>2, <1>3
  <2> QED
    BY <1>1, <1>7, <2>1, KeptStep DEF ServedInv
<1>9. ClaimsCanonical'
  BY <1>2, <1>3 DEF ServedInv, ClaimsCanonical
<1>10. Answers'
  BY <1>1, <1>4 DEF ServedInv, Answers
<1> QED
  BY <1>6, <1>8, <1>9, <1>10 DEF ServedInv

LEMMA ReleaseWithdrawnKeepsServed ==
  ASSUME IInv, ServedInv, NEW h \in Handler, ReleaseWithdrawn(h)
  PROVE  ServedInv'
<1> DEFINE pc == IF call[h].ok THEN "delete" ELSE "undo"
<1>1. /\ UNCHANGED <<publications, mu, claims>>
      /\ handler[h].pc = "runtime" /\ handler[h].op = "release"
      /\ handler' = [handler EXCEPT ![h].pc = pc]
      /\ EndCall(h) /\ call[h].ok \in BOOLEAN
  BY DEF ReleaseWithdrawn, routeVars, serverVars, IInv, RuntimeInv, RuntimeTypeOK, Call, Handler
<1>2. /\ \A g \in Handler \ {h} : handler'[g] = handler[g]
      /\ handler'[h].req = handler[h].req /\ handler'[h].op = handler[h].op
      /\ handler'[h].pc = pc /\ handler'[h].status = handler[h].status
  BY <1>1 DEF IInv, ServerInv, ServerTypeOK, HandlerState
<1>3. \A g \in Handler \ {h} : call'[g] = call[g]
  BY <1>1 DEF EndCall, IInv, RuntimeInv, RuntimeTypeOK, Handler
<1>4. mu # h
  BY <1>1 DEF IInv, ServerInv, ServerLock
<1>5. Shown'
  BY <1>1, <1>2, <1>3, <1>4, ShownStep DEF ServedInv, Effective
<1>6. \A g \in Handler : Withdrawing(g) => Withdrawing(g)' /\ ClaimedHost(g)' = ClaimedHost(g)
  BY <1>1, <1>2, <1>3 DEF Withdrawing, Releasing, Effective, ClaimedHost
<1>7. Kept'
  BY <1>1, <1>6, KeptStep DEF ServedInv
<1>8. Answers' /\ ClaimsCanonical'
  BY <1>1, <1>2 DEF ServedInv, Answers, ClaimsCanonical
<1> QED
  BY <1>5, <1>7, <1>8 DEF ServedInv

LEMMA ReleaseEndKeepsServed ==
  ASSUME IInv, ServedInv, NEW h \in Handler, ReleaseDelete(h) \/ ReleaseUndo(h)
  PROVE  ServedInv'
<1> DEFINE k == ClaimedHost(h)
<1>1. /\ UNCHANGED <<publications, call, mu>> /\ mu = None
      /\ handler[h].pc \in {"delete", "undo"} /\ handler[h].op = "release" /\ Releasing(h)
      /\ \E status \in {"ok", "rejected"} : Respond(h, status)
  BY DEF ReleaseDelete, ReleaseUndo, rtVars, routeVars, callVars, Releasing, IInv, ServerInv,
     Phases
<1>2. k \in Host /\ claims[k] # None /\ claims[k] \in ClaimRecord
      /\ recordMatches(claims[k], handler[h].req)
  BY <1>1, ClaimedHostType
     DEF IInv, ServerInv, Phases, ReleaseMarked, recordMatches, Request, ServerTypeOK
<1>3. /\ handler[h].pc = "delete" => claims'[k] = None
      /\ handler[h].pc = "undo" => claims'[k].token = claims[k].token
                                 /\ claims'[k].published = claims[k].published
      /\ \A j \in Host \ {k} : claims'[j] = claims[j]
  BY <1>2 DEF ReleaseDelete, ReleaseUndo, IInv, ServerInv, ServerTypeOK, ClaimRecord
<1>4. /\ \A g \in Handler \ {h} : handler'[g] = handler[g]
      /\ handler'[h].pc = "reply"
  BY <1>1 DEF Respond, IInv, ServerInv, ServerTypeOK, HandlerState
<1>5. Shown'
  BY <1>1, NoneAssumption, ShownStep DEF ServedInv, Handler
<1>6. Withdrawing(h) => handler[h].pc = "delete"
  BY <1>1 DEF Withdrawing, Effective, IInv, ServerInv, CallMatch
<1>7. \A g \in Handler : Withdrawing(g) =>
          \/ claims'[ClaimedHost(g)] = None
          \/ Withdrawing(g)' /\ ClaimedHost(g)' = ClaimedHost(g)
  BY <1>1, <1>3, <1>4, <1>6 DEF Withdrawing, Releasing, Effective, ClaimedHost
<1>8. Kept'
  <2>1. \A j \in Host : \/ claims'[j] = None
                       \/ claims'[j].published # TRUE
                       \/ /\ claims[j] # None /\ claims[j].published = TRUE
                          /\ claims'[j].token = claims[j].token
    BY <1>1, <1>2, <1>3
  <2> QED
    BY <1>1, <1>7, <2>1, KeptStep DEF ServedInv
<1>9. ClaimsCanonical'
  BY <1>2, <1>3 DEF ServedInv, ClaimsCanonical
<1>10. Answers'
  BY <1>4 DEF ServedInv, Answers
<1> QED
  BY <1>5, <1>8, <1>9, <1>10 DEF ServedInv

\* The commit of a call changes the table at the host of its claim.
LEMMA RuntimeStepKeepsServed ==
  ASSUME IInv, ServedInv, NEW h \in Handler, RuntimeStep(h)
  PROVE  ServedInv'
<1> DEFINE k == ClaimedHost(h)
<1>1. CallStep(h) /\ UNCHANGED <<claims, mu, handler>>
  BY DEF RuntimeStep, serverVars
<1>2. /\ call[h].pc # "done" /\ handler[h].pc = "runtime"
      /\ \A g \in Handler \ {h} : call'[g] = call[g]
      /\ \/ publications' = publications /\ ~Effective(h)'
         \/ publications' = NextTable(h) /\ Effective(h)'
  BY <1>1, CallFacts DEF Effective, IInv, ServerInv, CallMatch
<1>3. k \in Host /\ (HostsCanonical => Key(h) = k)
  BY <1>2, KeyIsClaimedHost
<1>4. Answers' /\ ClaimsCanonical'
  BY <1>1 DEF ServedInv, Answers, ClaimsCanonical
<1>5. \A g \in Handler : /\ ClaimedHost(g)' = ClaimedHost(g)
                         /\ Releasing(g)' <=> Releasing(g)
                         /\ Withdrawing(g) => g # h /\ Withdrawing(g)'
  BY <1>1, <1>2 DEF ClaimedHost, Releasing, Withdrawing, Effective
<1>6. CASE publications' = publications /\ ~Effective(h)'
  <2>1. Shown'
    BY <1>1, <1>2, <1>6, ShownStep DEF ServedInv, Effective
  <2>2. Kept'
    BY <1>1, <1>5, <1>6, KeptStep DEF ServedInv
  <2> QED
    BY <1>4, <2>1, <2>2 DEF ServedInv
<1>7. CASE HostsCanonical /\ publications' = NextTable(h) /\ Effective(h)'
  <2>1. publications \in Table /\ call[h].pub \in Publication
    BY <1>2 DEF IInv, RuntimeInv, RuntimeTypeOK, CallsPlaced, ServerInv, CallMatch, Handler
  <2>2. \A j \in Host \ {k} : publications'[j] = publications[j]
    BY <1>3, <1>7, <2>1 DEF NextTable, Table
  <2>3. CASE handler[h].op = "routes"
    <3>1. mu = h /\ Active(h)
      BY <1>2, <2>3 DEF IInv, ServerInv, ServerLock, RoutesActive
    <3>2. publications'[k] # None /\ publications'[k].token = handler[h].req.token
      <4> DEFINE p == [call[h].pub EXCEPT !.host = Key(h)]
      <4>1. call[h].kind = "publish" /\ call[h].pub = StoredPublication(h)
        BY <1>2, <2>3 DEF IInv, ServerInv, CallMatch
      <4>2. p \in Publication /\ p.token = call[h].pub.token
        BY <1>3, <1>7, <2>1 DEF Publication
      <4>3. publications'[k] = p
        BY <1>3, <1>7, <2>1, <4>1 DEF NextTable, Table
      <4>4. call[h].pub.token = handler[h].req.token
        BY <4>1 DEF StoredPublication
      <4> QED
        BY <4>2, <4>3, <4>4, NoneAssumption
    <3>3. Shown'
      BY <1>1, <1>5, <3>1, <3>2 DEF Shown
    <3>4. claims[k].token = handler[h].req.token
      BY <3>1 DEF Active, recordMatches
    <3>5. Kept'
      <4> SUFFICES ASSUME NEW j \in Host, claims'[j] # None, claims'[j].published = TRUE,
                          \A g \in Handler : Withdrawing(g)' => ClaimedHost(g)' # j
                   PROVE  publications'[j] # None /\ publications'[j].token = claims'[j].token
        BY DEF Kept
      <4>1. CASE j = k
        BY <1>1, <3>2, <3>4, <4>1
      <4>2. CASE j # k
        BY <1>1, <1>5, <1>7, <2>2, <4>2 DEF ServedInv, Kept
      <4> QED
        BY <4>1, <4>2
    <3> QED
      BY <1>4, <3>3, <3>5 DEF ServedInv
  <2>4. CASE handler[h].op = "release"
    <3>1. Releasing(h) /\ mu # h
      BY <1>2, <2>4 DEF Releasing, IInv, ServerInv, ServerLock
    <3>2. Withdrawing(h)'
      BY <1>5, <1>7, <3>1 DEF Withdrawing
    <3>3. Kept'
      <4> SUFFICES ASSUME NEW j \in Host, claims'[j] # None, claims'[j].published = TRUE,
                          \A g \in Handler : Withdrawing(g)' => ClaimedHost(g)' # j
                   PROVE  publications'[j] # None /\ publications'[j].token = claims'[j].token
        BY DEF Kept
      <4>1. j # k
        BY <1>5, <3>2
      <4> QED
        BY <1>1, <1>5, <1>7, <2>2, <4>1 DEF ServedInv, Kept
    <3>4. Shown'
      <4> SUFFICES ASSUME NEW g \in Handler, mu' = g, Effective(g)'
                   PROVE  /\ publications'[ClaimedHost(g)'] # None
                          /\ publications'[ClaimedHost(g)'].token = handler'[g].req.token
        BY DEF Shown
      <4>1. g # h /\ mu = g /\ Effective(g)
        BY <1>1, <1>2, <3>1 DEF Effective
      <4>2. Active(g) /\ handler[g].pc = "runtime"
        BY <4>1 DEF IInv, ServerInv, RoutesActive, ServerLock
      <4>3. ClaimedHost(g) \in Host \ {k}
        <5>1. claims[k].releasing = TRUE
          BY <3>1 DEF IInv, ServerInv, ReleaseMarked
        <5>2. ClaimedHost(g) # k
          BY <4>2, <5>1 DEF Active
        <5> QED
          BY <4>2, <5>2, KeyIsClaimedHost
      <4> QED
        BY <1>1, <1>5, <1>7, <2>2, <4>1, <4>3 DEF ServedInv, Shown
    <3> QED
      BY <1>4, <3>3, <3>4 DEF ServedInv
  <2> QED
    BY <1>2, <2>3, <2>4 DEF IInv, ServerInv, Phases
<1>8. CASE ~HostsCanonical
  BY <1>4, <1>8 DEF ServedInv, Shown, Kept
<1> QED
  BY <1>2, <1>6, <1>7, <1>8

LEMMA NextKeepsServed ==
  ASSUME IInv, ServedInv, [Next]_vars
  PROVE  ServedInv'
<1>1. CASE Process
  BY <1>1, ProcessKeepsServed
<1>2. ASSUME NEW h \in Handler, Work(h) \/ Ask(h) \/ Disconnect(h) PROVE ServedInv'
  BY <1>2, PhaseKeepsServed, ClaimNewKeepsServed, RoutesBeginKeepsServed,
     RoutesEndKeepsServed, ReleaseBeginKeepsServed, ReleaseWithdrawnKeepsServed,
     ReleaseEndKeepsServed, RuntimeStepKeepsServed DEF Work
<1>3. CASE UNCHANGED vars
  <2>1. UNCHANGED <<publications, call, claims, mu, handler>>
    BY <1>3 DEF vars, rtVars, routeVars, callVars, serverVars
  <2> QED
    BY <2>1, QuietStep DEF ServedInv, Answers, ClaimsCanonical
<1> QED
  BY <1>1, <1>2, <1>3 DEF Next

-----------------------------------------------------------------------------
(* What Caddy serves.                                                      *)

\* No reload that was reported as failed has taken effect.
LiveCertain == "live" \notin doubt

LEMMA StaysCertain ==
  ASSUME NoLostReload
  PROVE  /\ Init => LiveCertain
         /\ LiveCertain /\ [Next]_vars => LiveCertain'
<1>1. Init => LiveCertain
  BY DEF Init, RuntimeInit, LiveCertain
<1>2. ASSUME LiveCertain, [Next]_vars PROVE LiveCertain'
  <2> USE <1>2 DEF LiveCertain, routeVars, callVars, rtVars
  <2>1. CASE Process
    BY <2>1 DEF Process, StartWrite, BootWrite, BootWriteFails, BootContainer, BootFails,
       Serve, ServeFails, BeginClose, CloseRuntime, Exit, Die, Vanish
  <2>2. ASSUME NEW h \in Handler, RuntimeStep(h) PROVE LiveCertain'
    <3>1. ~ReloadAppliedUnseen(h)
      BY DEF ReloadAppliedUnseen, NoLostReload
    <3>2. \/ doubt' = doubt \/ doubt' = doubt \ {"file"} \/ doubt' = doubt \ {"live"}
          \/ doubt' = doubt \union {"file"}
      BY <2>2, <3>1 DEF RuntimeStep, CallStep, Reject, Stage, StageFails, ReloadSucceeds,
         ReloadFails, Commit, Restore
    <3> QED
      BY <3>2
  <2>3. ASSUME NEW h \in Handler, Work(h) \/ Ask(h) \/ Disconnect(h), ~RuntimeStep(h)
        PROVE  LiveCertain'
    BY <2>3 DEF Work, Ask, Receive, Disconnect, ClaimAgain, ClaimConflict, ClaimNew, Stale,
       RoutesBegin, RoutesEnd, ReleaseBegin, ReleaseWithdrawn, ReleaseDelete, ReleaseUndo, Reply
  <2> QED
    BY <2>1, <2>2, <2>3 DEF Next, vars
<1> QED
  BY <1>1, <1>2

\* Between a reload and its commit Caddy serves the table to come.
LEMMA LiveOfCommit ==
  ASSUME HostsCanonical, IInv, container, NEW h \in Handler, call[h].pc = "commit"
  PROVE  /\ handler[h].pc = "runtime" /\ handler[h].op \in {"routes", "release"}
         /\ \A j \in Host \ {ClaimedHost(h)} : live[j] = publications[j]
         /\ handler[h].op = "routes" =>
                /\ live[ClaimedHost(h)] # None
                /\ live[ClaimedHost(h)].token = handler[h].req.token
         /\ handler[h].op = "release" => live[ClaimedHost(h)] = None
<1> DEFINE k == ClaimedHost(h)
           p == [call[h].pub EXCEPT !.host = Key(h)]
<1>1. handler[h].pc = "runtime" /\ handler[h].op \in {"routes", "release"}
  BY DEF IInv, ServerInv, CallMatch, Phases
<1>2. Key(h) = k /\ k \in Host
  BY <1>1, KeyIsClaimedHost
<1>3. publications \in Table /\ call[h].pub \in Publication /\ live = NextTable(h)
  BY DEF IInv, RuntimeInv, RuntimeTypeOK, CallsPlaced, LiveFollows, FileStaged, Handler
<1>4. \A j \in Host \ {k} : live[j] = publications[j]
  BY <1>2, <1>3 DEF NextTable, Table
<1>5. call[h].pub = StoredPublication(h)
      /\ call[h].kind = IF handler[h].op = "routes" THEN "publish" ELSE "unpublish"
  BY <1>1 DEF IInv, ServerInv, CallMatch
<1>6. p \in Publication /\ p.token = handler[h].req.token
  BY <1>2, <1>3, <1>5 DEF Publication, StoredPublication
<1>7. live[k] = IF handler[h].op = "routes" THEN p ELSE None
  BY <1>2, <1>3, <1>5 DEF NextTable, Table
<1> QED
  BY <1>1, <1>4, <1>6, <1>7, NoneAssumption

LEMMA LiveOfTable ==
  ASSUME HostsCanonical, IInv, LiveCertain, stage = "ready", container, NEW k \in Host,
         \A h \in Handler : call[h].pc = "commit" => ClaimedHost(h) # k
  PROVE  live[k] = publications[k]
<1>1. CASE \A c \in Caller : call[c].pc # "commit"
  BY <1>1 DEF IInv, RuntimeInv, LiveFollows, LiveCertain
<1>2. CASE \E c \in Handler : call[c].pc = "commit"
  BY <1>2, LiveOfCommit
<1> QED
  BY <1>1, <1>2 DEF Handler

LEMMA PublishedByTable ==
  ASSUME HostsCanonical, IInv, ServedInv, NEW k \in Host, claims[k] # None, claims[k].published,
         ~claims[k].releasing
  PROVE  publications[k] # None /\ publications[k].token = claims[k].token
<1>1. claims[k].published = TRUE /\ claims[k].releasing = FALSE
  BY DEF IInv, ServerInv, ServerTypeOK, ClaimRecord
<1>2. \A h \in Handler : Releasing(h) => ClaimedHost(h) # k
  BY <1>1 DEF IInv, ServerInv, ReleaseMarked
<1> QED
  BY <1>1, <1>2 DEF ServedInv, Kept, Withdrawing

LEMMA ServedWhenPublished ==
  ASSUME HostsCanonical, IInv, ServedInv, LiveCertain
  PROVE  PublishedIsServed
<1> SUFFICES ASSUME stage = "ready", container, NEW k \in Host, claims[k] # None,
                    claims[k].published, ~claims[k].releasing
             PROVE  live[k] # None /\ live[k].token = claims[k].token
  BY DEF PublishedIsServed
<1>1. claims[k].published = TRUE /\ claims[k].releasing = FALSE
  BY DEF IInv, ServerInv, ServerTypeOK, ClaimRecord
<1>2. \A h \in Handler : Releasing(h) => ClaimedHost(h) # k
  BY <1>1 DEF IInv, ServerInv, ReleaseMarked
<1>3. publications[k] # None /\ publications[k].token = claims[k].token
  BY PublishedByTable
<1>4. CASE \E h \in Handler : call[h].pc = "commit" /\ ClaimedHost(h) = k
  <2>1. PICK h \in Handler : call[h].pc = "commit" /\ ClaimedHost(h) = k
    BY <1>4
  <2>2. handler[h].op = "routes" /\ handler[h].pc = "runtime"
    BY <1>2, <2>1, LiveOfCommit DEF Releasing
  <2>3. claims[k].token = handler[h].req.token
    BY <2>1, <2>2 DEF IInv, ServerInv, ServerLock, RoutesActive, Active, recordMatches
  <2> QED
    BY <2>1, <2>2, <2>3, LiveOfCommit
<1> QED
  BY <1>3, <1>4, LiveOfTable

\* While the container is up, whatever the daemon is about.
LEMMA LiveIsClaimed ==
  ASSUME HostsCanonical, IInv, LiveCertain, stage = "ready", container, NEW k \in Host,
         live[k] # None
  PROVE  claims[k] # None /\ claims[k].token = live[k].token
<1>1. CASE \E h \in Handler : call[h].pc = "commit" /\ ClaimedHost(h) = k
  <2>1. PICK h \in Handler : call[h].pc = "commit" /\ ClaimedHost(h) = k
    BY <1>1
  <2>2. handler[h].op = "routes" /\ handler[h].pc = "runtime"
    BY <2>1, LiveOfCommit
  <2>3. claims[k] # None /\ claims[k].token = handler[h].req.token
    BY <2>1, <2>2 DEF IInv, ServerInv, ServerLock, RoutesActive, Active, recordMatches
  <2> QED
    BY <2>1, <2>2, <2>3, LiveOfCommit
<1>2. CASE \A h \in Handler : call[h].pc = "commit" => ClaimedHost(h) # k
  <2>1. live[k] = publications[k]
    BY <1>2, LiveOfTable
  <2> QED
    BY <2>1 DEF IInv, ServerInv, PublishedRecorded
<1> QED
  BY <1>1, <1>2

LEMMA OwnedWhenLive ==
  ASSUME HostsCanonical, IInv, LiveCertain
  PROVE  LiveRouteOwned
<1>1. daemon = "up" => stage = "ready" /\ container
  BY DEF IInv, ServerInv, Placed
<1> QED
  BY <1>1, LiveIsClaimed DEF LiveRouteOwned

\* What a release leaves when it deletes its claim.
LEMMA GoneWhenDeleted ==
  ASSUME HostsCanonical, IInv, LiveCertain, stage = "ready", container, NEW h \in Handler,
         Releasing(h), handler[h].pc = "delete"
  PROVE  live[ClaimedHost(h)] = None
<1> DEFINE k == ClaimedHost(h)
<1>1. k \in Host /\ recordMatches(claims[k], handler[h].req) /\ claims[k].releasing = TRUE
  BY ClaimedHostType DEF IInv, ServerInv, Phases, Request, ReleaseMarked
<1>2. publications[k] = None
  BY DEF IInv, ServerInv, Withdrawn
<1>3. ASSUME NEW g \in Handler, call[g].pc = "commit" PROVE ClaimedHost(g) # k
  <2>1. g # h /\ handler[g].pc = "runtime" /\ handler[g].op \in {"routes", "release"}
    BY <1>3, LiveOfCommit
  <2>2. CASE handler[g].op = "routes"
    BY <1>1, <2>1, <2>2 DEF IInv, ServerInv, ServerLock, RoutesActive, Active
  <2>3. CASE handler[g].op = "release"
    BY <2>1, <2>3 DEF Releasing, IInv, ServerInv, ReleaseMarked
  <2> QED
    BY <2>1, <2>2, <2>3
<1> QED
  BY <1>1, <1>2, <1>3, LiveOfTable

LEMMA BothHold == Spec => [](IInv /\ ServedInv)
<1>1. IInv /\ ServedInv /\ [Next]_vars => (IInv /\ ServedInv)'
  BY NextKeepsInv, NextKeepsServed
<1> QED
  BY <1>1, InitIInv, InitServedInv, PTL DEF Spec

LEMMA CertainHolds ==
  ASSUME NoLostReload
  PROVE  Spec => []LiveCertain
<1>1. (Init => LiveCertain) /\ (LiveCertain /\ [Next]_vars => LiveCertain')
  BY StaysCertain
<1> QED
  BY <1>1, PTL DEF Spec

-----------------------------------------------------------------------------
(* What a reload that took effect unseen can spoil.                        *)

LEMMA OneAstrayHolds == Spec => []OneAstray
<1>1. Init => OneAstray
  BY DEF Init, RuntimeInit, OneAstray
<1>2. ASSUME IInv, OneAstray, [Next]_vars PROVE OneAstray'
  <2>i. RuntimeInv
    BY <1>2 DEF IInv
  <2>1. CASE BootWrite \/ BootWriteFails \/ BootContainer \/ BootFails
    BY <1>2, <2>i, <2>1, BootKeepsOneAstray
  <2>2. CASE Process /\ ~(BootWrite \/ BootWriteFails \/ BootContainer \/ BootFails)
    BY <1>2, <2>2, SameAstray
       DEF Process, StartWrite, Serve, ServeFails, BeginClose, CloseRuntime, Exit, Die, Vanish,
           ProcessEnds, RemoveContainer, rtVars, routeVars, bootVars
  <2>3. ASSUME NEW h \in Handler, RuntimeStep(h) PROVE OneAstray'
    BY <1>2, <2>i, <2>3, CallStepKeepsOneAstray DEF RuntimeStep, Handler
  <2>4. ASSUME NEW h \in Handler, Work(h) \/ Ask(h) \/ Disconnect(h), ~RuntimeStep(h)
        PROVE  OneAstray'
    <3>1. UNCHANGED <<publications, live, stage, container>>
      BY <2>4 DEF Work, Ask, Receive, Disconnect, ClaimAgain, ClaimConflict, ClaimNew, Stale,
         RoutesBegin, RoutesEnd, ReleaseBegin, ReleaseWithdrawn, ReleaseDelete, ReleaseUndo,
         Reply, rtVars, routeVars, bootVars
    <3> QED
      BY <1>2, <3>1, SameAstray
  <2>5. CASE UNCHANGED vars
    BY <1>2, <2>5, SameAstray DEF vars, rtVars, routeVars, bootVars
  <2> QED
    BY <1>2, <2>1, <2>2, <2>3, <2>4, <2>5 DEF Next
<1> QED
  BY <1>1, <1>2, IInvHolds, PTL DEF Spec

\* What Caddy serves at a host is what the claims say.
Faithful(k) ==
    /\ (claims[k] # None /\ claims[k].published /\ ~claims[k].releasing) =>
           live[k] # None /\ live[k].token = claims[k].token
    /\ live[k] # None => claims[k] # None /\ claims[k].token = live[k].token

LEMMA FaithfulUnlessAstray ==
  ASSUME HostsCanonical, IInv, ServedInv, NEW k \in Host, live[k] = publications[k]
  PROVE  Faithful(k)
  BY PublishedByTable DEF Faithful, IInv, ServerInv, PublishedRecorded

LEMMA OneIsMisled ==
  ASSUME HostsCanonical, IInv, ServedInv, OneAstray, stage = "ready", container,
         NEW j \in Host, NEW k \in Host
  PROVE  Faithful(j) \/ Faithful(k) \/ j = k
<1>1. live[j] = publications[j] \/ live[k] = publications[k] \/ j = k
  BY DEF OneAstray, Astray
<1> QED
  BY <1>1, FaithfulUnlessAstray

-----------------------------------------------------------------------------
(* What a step may do.                                                     *)

\* Only these steps change a claim, each that of its own request.
LEMMA ClaimChanges ==
  ASSUME IInv, [Next]_vars, stage' # "new", NEW k \in Host, claims'[k] # claims[k]
  PROVE  \E h \in Handler :
            /\ k = ClaimedHost(h)
            /\ \/ ClaimNew(h) /\ claims[k] = None
               \/ /\ RoutesEnd(h) \/ ReleaseBegin(h) \/ ReleaseDelete(h) \/ ReleaseUndo(h)
                  /\ recordMatches(claims[k], handler[h].req)
<1>t. claims \in [Host -> ClaimRecord \union {None}]
  BY DEF IInv, ServerInv, ServerTypeOK
<1>1. ~Process
  <2>1. CASE StartWrite \/ Serve \/ BeginClose \/ CloseRuntime
    BY <2>1 DEF StartWrite, Serve, BeginClose, CloseRuntime, serverVars
  <2>2. CASE ServeFails \/ Exit \/ Die
    BY <2>2 DEF ServeFails, Exit, Die, Vanish, ProcessEnds
  <2> QED
    BY <2>1, <2>2 DEF Process
<1>2. PICK h \in Handler : ClaimNew(h) \/ RoutesEnd(h) \/ ReleaseBegin(h) \/ ReleaseDelete(h)
                          \/ ReleaseUndo(h)
  BY <1>1 DEF Next, Work, Ask, Receive, Disconnect, ClaimAgain, ClaimConflict, Stale,
     RoutesBegin, ReleaseWithdrawn, RuntimeStep, Reply, serverVars, vars
<1>3. k = ClaimedHost(h)
  BY <1>t, <1>2 DEF ClaimNew, RoutesEnd, ReleaseBegin, ReleaseDelete, ReleaseUndo
<1>4. ClaimNew(h) => claims[k] = None
  BY <1>3 DEF ClaimNew
<1>5. RoutesEnd(h) \/ ReleaseBegin(h) => recordMatches(claims[k], handler[h].req)
  BY <1>3 DEF RoutesEnd, ReleaseBegin, Active, IInv, ServerInv, ServerLock, RoutesActive
<1>6. ReleaseDelete(h) \/ ReleaseUndo(h) => recordMatches(claims[k], handler[h].req)
  BY <1>3 DEF ReleaseDelete, ReleaseUndo
<1> QED
  BY <1>2, <1>3, <1>4, <1>5, <1>6

\* What such a step leaves of a claim's token.
LEMMA TokensStay ==
  ASSUME IInv, NEW h \in Handler, ClaimedHost(h) \in Host, claims[ClaimedHost(h)] # None,
         RoutesEnd(h) \/ ReleaseBegin(h) \/ ReleaseUndo(h)
  PROVE  /\ claims'[ClaimedHost(h)] # None
         /\ claims'[ClaimedHost(h)].token = claims[ClaimedHost(h)].token
<1> DEFINE k == ClaimedHost(h)
<1>1. claims \in [Host -> ClaimRecord \union {None}] /\ claims[k] \in ClaimRecord
  BY DEF IInv, ServerInv, ServerTypeOK
<1>2. \/ claims'[k] = claims[k]
      \/ claims'[k] = [claims[k] EXCEPT !.published = TRUE]
      \/ \E r \in BOOLEAN : claims'[k] = [claims[k] EXCEPT !.releasing = r]
  BY <1>1 DEF RoutesEnd, ReleaseBegin, ReleaseUndo
<1>3. claims'[k] \in ClaimRecord /\ claims'[k].token = claims[k].token
  BY <1>1, <1>2 DEF ClaimRecord
<1> QED
  BY <1>3, NoneIsNoRecord

\* A positive answer is that of one of these.
LEMMA Confirmed ==
  ASSUME IInv, ServedInv, [Next]_vars, NEW h \in Handler, daemon' = "up",
         handler[h].pc # "reply", handler'[h].status = "ok"
  PROVE  \/ handler[h].op = "claim"
         \/ RoutesEnd(h) /\ call[h].ok = TRUE
         \/ ReleaseDelete(h)
<1>t. handler \in [Handler -> HandlerState] /\ handler[h].status # "ok"
  BY DEF IInv, ServerInv, ServerTypeOK, ServedInv, Answers
<1>1. ~Process
  <2>1. CASE StartWrite \/ Serve \/ BeginClose \/ CloseRuntime
    BY <1>t, <2>1 DEF StartWrite, Serve, BeginClose, CloseRuntime
  <2>2. CASE ServeFails \/ Exit \/ Die
    BY <2>2 DEF ServeFails, Exit, Die, Vanish
  <2> QED
    BY <2>1, <2>2 DEF Process
<1>2. PICK g \in Handler : Work(g) \/ Ask(g) \/ Disconnect(g)
  BY <1>t, <1>1 DEF Next, vars
<1>3. g = h
  BY <1>t, <1>2 DEF Work, Ask, Receive, Disconnect, ClaimAgain, ClaimConflict, ClaimNew, Stale,
     RoutesBegin, RoutesEnd, ReleaseBegin, ReleaseWithdrawn, ReleaseDelete, ReleaseUndo,
     RuntimeStep, Reply, Respond
<1>4. ~Ask(h) /\ ~Disconnect(h) /\ ~RuntimeStep(h) /\ ~Reply(h)
  BY <1>t DEF Ask, Receive, Disconnect, RuntimeStep, Reply, Idle
<1>5. ~RoutesBegin(h) /\ ~ReleaseBegin(h) /\ ~ReleaseWithdrawn(h)
  BY <1>t DEF RoutesBegin, ReleaseBegin, ReleaseWithdrawn, HandlerState
<1>r. \A status : Respond(h, status) => handler'[h].status = status
  BY <1>t DEF Respond, HandlerState
<1>6. ~Stale(h) /\ ~ClaimConflict(h) /\ ~ReleaseUndo(h)
  BY <1>r DEF Stale, ClaimConflict, ReleaseUndo
<1>7. RoutesEnd(h) => call[h].ok = TRUE
  <2>1. call[h].ok \in BOOLEAN
    BY DEF IInv, RuntimeInv, RuntimeTypeOK, Call, Handler
  <2> QED
    BY <1>r, <2>1 DEF RoutesEnd
<1> QED
  BY <1>2, <1>3, <1>4, <1>5, <1>6, <1>7 DEF Work, ClaimAgain, ClaimNew, AtLock

LEMMA TrueAnswer ==
  ASSUME HostsCanonical, IInv, ServedInv, LiveCertain, [Next]_vars, NEW h \in Handler,
         daemon' = "up", handler[h].pc # "reply", handler'[h].status = "ok"
  PROVE  /\ handler[h].op = "routes" =>
                /\ live'[ClaimedHost(h)] # None
                /\ live'[ClaimedHost(h)].token = handler[h].req.token
         /\ handler[h].op = "release" =>
                /\ \/ claims'[ClaimedHost(h)] = None
                   \/ claims'[ClaimedHost(h)].token # handler[h].req.token
                /\ \/ live'[ClaimedHost(h)] = None
                   \/ live'[ClaimedHost(h)].token # handler[h].req.token
<1> DEFINE k == ClaimedHost(h)
<1>1. CASE handler[h].op = "claim"
  BY <1>1
<1>2. CASE RoutesEnd(h) /\ call[h].ok = TRUE
  <2>1. /\ handler[h].pc = "runtime" /\ handler[h].op = "routes" /\ call[h].pc = "done"
        /\ UNCHANGED live /\ daemon = "up" /\ mu = h
    BY <1>2 DEF RoutesEnd, EndCall, routeVars, IInv, ServerInv, ServerLock
  <2>2. k \in Host /\ stage = "ready" /\ container /\ Active(h)
    BY <2>1, KeyIsClaimedHost DEF IInv, ServerInv, Placed, RoutesActive
  <2>3. publications[k] # None /\ publications[k].token = handler[h].req.token
    BY <1>2, <2>1 DEF ServedInv, Shown, Effective
  <2>4. ASSUME NEW g \in Handler, call[g].pc = "commit" PROVE ClaimedHost(g) # k
    <3>1. g # h /\ handler[g].pc = "runtime" /\ handler[g].op \in {"routes", "release"}
      BY <2>1, <2>2, <2>4, LiveOfCommit
    <3>2. handler[g].op = "release"
      BY <2>1, <3>1 DEF IInv, ServerInv, ServerLock
    <3>3. claims[ClaimedHost(g)].releasing = TRUE
      BY <3>1, <3>2 DEF Releasing, IInv, ServerInv, ReleaseMarked
    <3> QED
      BY <2>2, <3>3 DEF Active
  <2>5. live[k] = publications[k]
    BY <2>2, <2>4, LiveOfTable
  <2> QED
    BY <2>1, <2>3, <2>5
<1>3. CASE ReleaseDelete(h)
  <2>1. /\ handler[h].pc = "delete" /\ handler[h].op = "release" /\ Releasing(h)
        /\ UNCHANGED live /\ daemon = "up"
    BY <1>3 DEF ReleaseDelete, rtVars, routeVars, Releasing, IInv, ServerInv, Phases
  <2>2. k \in Host /\ stage = "ready" /\ container
        /\ recordMatches(claims[k], handler[h].req) /\ claims[k].releasing = TRUE
    BY <2>1, ClaimedHostType
       DEF IInv, ServerInv, Placed, Phases, Request, ReleaseMarked
  <2>3. claims'[k] = None
    BY <1>3, <2>2 DEF ReleaseDelete, IInv, ServerInv, ServerTypeOK
  <2> QED
    BY <2>1, <2>2, <2>3, GoneWhenDeleted
<1> QED
  BY <1>1, <1>2, <1>3, Confirmed

-----------------------------------------------------------------------------
(* Answers, whatever the reloads did.                                      *)

\* A publication or a withdrawal that has taken effect and is to be answered.
Settled(h) ==
    \/ Effective(h)
    \/ Releasing(h) /\ handler[h].pc = "delete" /\ claims[ClaimedHost(h)].published = TRUE

\* Caddy serves what it has confirmed until the answer is out.
SettledServed ==
    container => \A h \in Handler : Settled(h) =>
        live[ClaimedHost(h)] = publications[ClaimedHost(h)]

\* Nobody else has the runtime at work on the host of such a call.
LEMMA OthersElsewhere ==
  ASSUME IInv, NEW h \in Handler, NEW g \in Handler \ {h}, handler[g].pc = "runtime",
         Effective(h) \/ Releasing(h)
  PROVE  ClaimedHost(h) # ClaimedHost(g)
<1>1. mu = h \/ Releasing(h)
  BY DEF Effective, IInv, ServerInv, CallMatch, Phases, ServerLock, Releasing
<1>2. mu = g \/ Releasing(g)
  BY DEF IInv, ServerInv, Phases, ServerLock, Releasing
<1>3. /\ \A f \in Handler : mu = f => ~claims[ClaimedHost(f)].releasing
      /\ \A f \in Handler : Releasing(f) => claims[ClaimedHost(f)].releasing = TRUE
  BY DEF IInv, ServerInv, RoutesActive, Active, ReleaseMarked
<1> QED
  BY <1>1, <1>2, <1>3 DEF IInv, ServerInv, ReleaseMarked

\* A call of the runtime changes what is served or committed at its own host.
LEMMA RuntimeChangesItsHost ==
  ASSUME HostsCanonical, IInv, container, NEW g \in Handler, RuntimeStep(g),
         NEW j \in Host \ {ClaimedHost(g)}, live[j] = publications[j]
  PROVE  live'[j] = publications'[j]
<1>1. handler[g].pc = "runtime" /\ CallStep(g)
  BY CallFacts DEF RuntimeStep, IInv, ServerInv, CallMatch
<1>2. Key(g) = ClaimedHost(g) /\ publications \in Table
  BY <1>1, KeyIsClaimedHost DEF IInv, RuntimeInv, RuntimeTypeOK
<1>3. NextTable(g)[j] = publications[j]
  BY <1>2 DEF NextTable, Table
<1>4. publications' = publications \/ publications' = NextTable(g)
  BY <1>1, CallFacts
<1>5. live' = live \/ live' = NextTable(g)
  <2>1. CASE ReloadSucceeds(g) \/ ReloadAppliedUnseen(g)
    BY <2>1 DEF ReloadSucceeds, ReloadAppliedUnseen, IInv, RuntimeInv, FileStaged, Handler
  <2>2. CASE ~ReloadSucceeds(g) /\ ~ReloadAppliedUnseen(g)
    BY <1>1, <2>2 DEF CallStep, Reject, Stage, StageFails, ReloadFails, Commit, Restore,
       routeVars
  <2> QED
    BY <2>1, <2>2
<1> QED
  BY <1>3, <1>4, <1>5

LEMMA RuntimeKeepsSettled ==
  ASSUME HostsCanonical, IInv, SettledServed, NEW g \in Handler, RuntimeStep(g)
  PROVE  SettledServed'
<1>1. /\ handler[g].pc = "runtime" /\ UNCHANGED <<claims, handler, container>>
      /\ call[g].pc # "done" /\ \A h \in Handler \ {g} : call'[h] = call[h]
  BY CallFacts DEF RuntimeStep, serverVars, bootVars, IInv, ServerInv, CallMatch
<1>2. \A h \in Handler : /\ ClaimedHost(h)' = ClaimedHost(h)
                         /\ Releasing(h)' <=> Releasing(h)
                         /\ h # g => (Effective(h)' <=> Effective(h))
  BY <1>1 DEF ClaimedHost, Releasing, Effective
<1>3. ASSUME container, NEW h \in Handler \ {g}, Settled(h)'
      PROVE  live'[ClaimedHost(h)] = publications'[ClaimedHost(h)]
  <2>1. Settled(h)
    BY <1>1, <1>2, <1>3 DEF Settled
  <2>2. handler[h].pc # "idle"
    BY <2>1 DEF Settled, Effective, Releasing, IInv, ServerInv, CallMatch
  <2>3. ClaimedHost(h) \in Host
    BY <2>2, ClaimedHostType DEF IInv, ServerInv, Phases
  <2>4. ClaimedHost(h) # ClaimedHost(g)
    BY <1>1, <2>1, OthersElsewhere DEF Settled
  <2> QED
    BY <1>3, <2>1, <2>3, <2>4, RuntimeChangesItsHost DEF SettledServed
<1>4. ASSUME container, Settled(g)'
      PROVE  live'[ClaimedHost(g)] = publications'[ClaimedHost(g)]
  <2>1. Effective(g)'
    BY <1>1, <1>4 DEF Settled
  <2>2. Commit(g)
    <3>1. call \in [Caller -> Call] /\ g \in Caller
      BY DEF IInv, RuntimeInv, RuntimeTypeOK, Handler
    <3> QED
      BY <2>1, <3>1 DEF Effective, RuntimeStep, CallStep, Reject, Stage, StageFails,
         ReloadSucceeds, ReloadFails, ReloadAppliedUnseen, AttemptFailed, Restore, Finish, Call
  <2> QED
    BY <1>4, <2>2 DEF Commit, IInv, RuntimeInv, LiveFollows, Handler
<1> QED
  BY <1>1, <1>2, <1>3, <1>4 DEF SettledServed

\* Other steps of a handler settle nothing, and unsettle nobody else.
LEMMA HandlersKeepSettled ==
  ASSUME IInv, SettledServed, NEW g \in Handler, Work(g) \/ Ask(g) \/ Disconnect(g),
         ~RuntimeStep(g)
  PROVE  SettledServed'
<1>t. /\ handler \in [Handler -> HandlerState] /\ call \in [Handler -> Call]
      /\ claims \in [Host -> ClaimRecord \union {None}]
  BY DEF IInv, RuntimeInv, RuntimeTypeOK, ServerInv, ServerTypeOK, Handler
<1>1. UNCHANGED <<live, publications, container>>
  BY DEF Work, Ask, Receive, Disconnect, ClaimAgain, ClaimConflict, ClaimNew, Stale,
     RoutesBegin, RoutesEnd, ReleaseBegin, ReleaseWithdrawn, ReleaseDelete, ReleaseUndo,
     Reply, rtVars, routeVars, bootVars
<1>2. /\ \A h \in Handler \ {g} : handler'[h] = handler[h] /\ call'[h] = call[h]
  BY <1>t DEF Work, Ask, Receive, Disconnect, ClaimAgain, ClaimConflict, ClaimNew, Stale,
     RoutesBegin, RoutesEnd, ReleaseBegin, ReleaseWithdrawn, ReleaseDelete, ReleaseUndo,
     Reply, Respond, BeginCall, EndCall, rtVars, callVars
<1>3. ASSUME NEW h \in Handler \ {g}, Settled(h)'
      PROVE  Settled(h) /\ ClaimedHost(h)' = ClaimedHost(h)
  <2>1. /\ ClaimedHost(h)' = ClaimedHost(h) /\ (Effective(h)' <=> Effective(h))
        /\ Releasing(h)' <=> Releasing(h)
    BY <1>2 DEF ClaimedHost, Effective, Releasing
  <2>2. ASSUME Releasing(h), claims'[ClaimedHost(h)].published = TRUE
        PROVE  claims[ClaimedHost(h)].published = TRUE
    <3>1. claims[ClaimedHost(h)] # None /\ ClaimedHost(h) \in Host
      BY <2>2, ClaimedHostType DEF IInv, ServerInv, ReleaseMarked, recordMatches, Releasing,
         Phases
    <3>2. claims[ClaimedHost(h)] \in ClaimRecord
      BY <1>t, <3>1
    <3>3. CASE RoutesEnd(g) \/ ReleaseDelete(g)
      <4>1. ClaimedHost(h) # ClaimedHost(g)
        BY <2>2, <3>3, OthersElsewhere DEF RoutesEnd, ReleaseDelete, IInv, ServerInv, Phases,
           ReleaseMarked, Releasing
      <4> QED
        BY <1>t, <2>2, <3>1, <3>3, <4>1 DEF RoutesEnd, ReleaseDelete
    <3>4. CASE ClaimNew(g)
      <4>1. ClaimedHost(h) # ClaimedHost(g)
        BY <3>1, <3>4 DEF ClaimNew
      <4> QED
        BY <1>t, <2>2, <3>1, <3>4, <4>1 DEF ClaimNew
    <3>5. CASE ReleaseBegin(g) \/ ReleaseUndo(g)
      <4>1. \/ claims' = claims
            \/ \E b \in BOOLEAN : claims' = [claims EXCEPT ![ClaimedHost(g)].releasing = b]
        BY <3>5 DEF ReleaseBegin, ReleaseUndo
      <4> QED
        BY <1>t, <2>2, <3>1, <3>2, <4>1 DEF ClaimRecord
    <3>6. CASE UNCHANGED claims
      BY <2>2, <3>6
    <3> QED
      BY <3>3, <3>4, <3>5, <3>6 DEF Work, Ask, Receive, Disconnect, ClaimAgain, ClaimConflict,
         Stale, RoutesBegin, ReleaseWithdrawn, Reply, serverVars
  <2> QED
    BY <1>2, <1>3, <2>1, <2>2 DEF Settled
<1>4. ASSUME Settled(g)' PROVE Settled(g) /\ ClaimedHost(g)' = ClaimedHost(g)
  <2>1. CASE ReleaseWithdrawn(g)
    <3>1. /\ call[g].pc = "done" /\ call[g].ok \in BOOLEAN /\ call'[g].pc = "idle"
          /\ handler'[g].pc = IF call[g].ok THEN "delete" ELSE "undo"
      BY <1>t, <2>1, NoCallType DEF ReleaseWithdrawn, EndCall, Call, HandlerState, NoCall
    <3>2. Effective(g)
      BY <1>4, <3>1 DEF Settled, Effective
    <3>3. handler'[g].req = handler[g].req
      BY <1>t, <2>1 DEF ReleaseWithdrawn, HandlerState
    <3> QED
      BY <3>2, <3>3 DEF Settled, ClaimedHost
  <2>2. CASE Disconnect(g)
    BY <1>4, <2>2 DEF Disconnect, Settled, Effective, Releasing, ClaimedHost, serverVars
  <2>3. CASE RoutesBegin(g)
    BY <1>t, <1>4, <2>3 DEF RoutesBegin, AtLock, BeginCall, Settled, Effective, Releasing, Call,
       HandlerState
  <2>4. CASE ReleaseBegin(g)
    <3>1. /\ handler[g].pc = "lock" /\ call[g].pc = "idle" /\ Active(g)
          /\ ClaimedHost(g) \in Host /\ claims[ClaimedHost(g)] \in ClaimRecord
      BY <1>t, <2>4, ClaimedHostType DEF ReleaseBegin, AtLock, IInv, ServerInv, CallMatch,
         Phases, Active, recordMatches
    <3>2. /\ call'[g].pc \in {"idle", "lock"}
          /\ handler'[g].req = handler[g].req
          /\ handler'[g].pc = "delete" => ~claims[ClaimedHost(g)].published
      <4>1. CASE claims[ClaimedHost(g)].published
        <5>1. /\ handler' = [handler EXCEPT ![g].pc = "runtime"]
              /\ BeginCall(g, "unpublish", StoredPublication(g))
          BY <2>4, <4>1 DEF ReleaseBegin
        <5>2. handler'[g].req = handler[g].req /\ handler'[g].pc = "runtime"
          BY <1>t, <5>1 DEF HandlerState
        <5>3. call'[g].pc = "lock"
          BY <1>t, <5>1, NoCallType DEF BeginCall, Call
        <5> QED
          BY <5>2, <5>3
      <4>2. CASE ~claims[ClaimedHost(g)].published
        BY <1>t, <2>4, <3>1, <4>2 DEF ReleaseBegin, HandlerState
      <4> QED
        BY <4>1, <4>2
    <3>3. claims'[ClaimedHost(g)].published = claims[ClaimedHost(g)].published
      BY <1>t, <2>4, <3>1 DEF ReleaseBegin, ClaimRecord
    <3>4. ClaimedHost(g)' = ClaimedHost(g)
      BY <3>2 DEF ClaimedHost
    <3> QED
      BY <1>4, <3>2, <3>3, <3>4 DEF Settled, Effective
  <2>5. CASE RoutesEnd(g)
    BY <1>t, <1>4, <2>5, NoCallType DEF RoutesEnd, EndCall, Respond, Settled, Effective,
       Releasing, NoCall, HandlerState
  <2>6. CASE \/ ClaimAgain(g) \/ ClaimConflict(g) \/ ClaimNew(g) \/ Stale(g)
             \/ ReleaseDelete(g) \/ ReleaseUndo(g) \/ Reply(g) \/ Ask(g)
    <3>1. handler[g].pc # "runtime" /\ UNCHANGED call
      BY <2>6 DEF ClaimAgain, ClaimConflict, ClaimNew, Stale, AtLock, ReleaseDelete, ReleaseUndo,
         Reply, Ask, Receive, rtVars, callVars
    <3>2. ~Effective(g)'
      BY <3>1 DEF Effective, IInv, ServerInv, CallMatch
    <3>3. handler'[g].pc \in {"reply", "idle", "lock"}
      BY <1>t, <2>6 DEF ClaimAgain, ClaimConflict, ClaimNew, Stale, Respond, ReleaseDelete,
         ReleaseUndo, Reply, Idle, Ask, Receive, HandlerState
    <3> QED
      BY <1>4, <3>2, <3>3 DEF Settled
  <2> QED
    BY <2>1, <2>2, <2>3, <2>4, <2>5, <2>6 DEF Work
<1> QED
  BY <1>1, <1>3, <1>4 DEF SettledServed

LEMMA NobodySettled ==
  ASSUME IInv', \A h \in Handler : handler'[h].pc = "idle"
  PROVE  SettledServed'
  BY DEF SettledServed, Settled, Effective, Releasing, IInv, ServerInv, CallMatch

LEMMA SettledServedHolds ==
  ASSUME HostsCanonical
  PROVE  Spec => []SettledServed
<1>1. Init => SettledServed
  BY NoCallType DEF Init, RuntimeInit, Idle, Handler, SettledServed, Settled, Effective,
     Releasing
<1>2. ASSUME IInv, IInv', SettledServed, [Next]_vars PROVE SettledServed'
  <2>1. CASE StartWrite \/ Serve
    <3>1. \A h \in Handler : handler'[h].pc = "idle"
      BY <1>2, <2>1 DEF StartWrite, Serve, IInv, ServerInv, Placed
    <3> QED
      BY <1>2, <3>1, NobodySettled
  <2>2. CASE ServeFails \/ Exit \/ Die
    <3>1. \A h \in Handler : handler'[h].pc = "idle"
      BY <2>2 DEF ServeFails, Exit, Die, Vanish, Idle
    <3> QED
      BY <1>2, <3>1, NobodySettled
  <2>3. CASE CloseRuntime
    BY <2>3 DEF CloseRuntime, RemoveContainer, SettledServed
  <2>4. CASE BeginClose \/ UNCHANGED vars
    <3>1. UNCHANGED <<live, publications, container, handler, call, claims>>
      BY <2>4 DEF BeginClose, vars, rtVars, routeVars, bootVars, callVars, serverVars
    <3> QED
      BY <1>2, <3>1 DEF SettledServed, Settled, Effective, Releasing, ClaimedHost
  <2>5. ASSUME NEW h \in Handler, Work(h) \/ Ask(h) \/ Disconnect(h) PROVE SettledServed'
    BY <1>2, <2>5, RuntimeKeepsSettled, HandlersKeepSettled
  <2> QED
    BY <1>2, <2>1, <2>2, <2>3, <2>4, <2>5 DEF Next, Process
<1> QED
  BY <1>1, <1>2, IInvHolds, PTL DEF Spec

-----------------------------------------------------------------------------
(* The names of published claims.                                          *)

\* The runtime stages the publications only that validatePublication accepts.
Validated ==
    \A h \in Handler :
        (call[h].kind = "publish"
            /\ (call[h].pc \in {"reload", "commit", "restore"} \/ Effective(h)))
        => Key(h).dots = 0

\* So what is published under a claim has at most one dot more than its name.
PublishedValid ==
    \A k \in Host : (claims[k] # None /\ claims[k].published = TRUE) =>
        canonicalHost(k).dots = 0

LEMMA CallStepKeepsValidated ==
  ASSUME IInv, Validated, NEW h \in Handler, CallStep(h)
  PROVE  Validated'
<1>1. /\ call'[h].pub = call[h].pub /\ call'[h].kind = call[h].kind
      /\ \A g \in Handler \ {h} : call'[g] = call[g]
  BY CallFacts
<1>2. \A g \in Handler : Key(g)' = Key(g)
  BY <1>1 DEF Key
<1>3. call \in [Caller -> Call]
  BY DEF IInv, RuntimeInv, RuntimeTypeOK
<1>4. CASE Reject(h) \/ StageFails(h) \/ Restore(h)
  <2>1. ~Effective(h)' /\ call'[h].pc = "done"
    BY <1>3, <1>4 DEF Reject, StageFails, Restore, Finish, Effective, Call, Handler
  <2> QED
    BY <1>1, <1>2, <2>1 DEF Validated, Effective
<1>5. CASE Stage(h)
  <2>1. call[h].kind = "publish" => Key(h).dots = 0
    BY <1>5 DEF Stage, validatePublication
  <2> QED
    BY <1>1, <1>2, <2>1 DEF Validated, Effective
<1>6. CASE ReloadSucceeds(h) \/ ReloadFails(h) \/ ReloadAppliedUnseen(h) \/ Commit(h)
  <2>1. call[h].pc \in {"reload", "commit"}
    BY <1>6 DEF ReloadSucceeds, ReloadFails, ReloadAppliedUnseen, Commit
  <2> QED
    BY <1>1, <1>2, <2>1 DEF Validated, Effective
<1> QED
  BY <1>4, <1>5, <1>6 DEF CallStep

LEMMA NextKeepsValidated ==
  ASSUME IInv, Validated, [Next]_vars
  PROVE  Validated'
<1>t. call \in [Caller -> Call]
  BY DEF IInv, RuntimeInv, RuntimeTypeOK
<1>1. ASSUME UNCHANGED call PROVE Validated'
  BY <1>1 DEF Validated, Effective, Key
<1>2. ASSUME NEW h \in Handler, call'[h].pc \in {"idle", "lock"},
             \A g \in Handler \ {h} : call'[g] = call[g]
      PROVE  Validated'
  <2>1. \A g \in Handler \ {h} : Key(g)' = Key(g)
    BY <1>2 DEF Key
  <2> QED
    BY <1>2, <2>1 DEF Validated, Effective
<1>3. CASE Process
  <2>1. CASE StartWrite \/ Serve \/ BeginClose \/ CloseRuntime
    BY <1>1, <2>1 DEF StartWrite, Serve, BeginClose, CloseRuntime, BootWrite,
       BootWriteFails, BootContainer, BootFails, rtVars, callVars
  <2>2. CASE ServeFails \/ Exit \/ Die
    <3>1. \A h \in Handler : call'[h].pc = "idle"
      BY <2>2, NoCallType DEF ServeFails, Exit, Die, Vanish, ProcessEnds, Handler
    <3> QED
      BY <3>1 DEF Validated, Effective
  <2> QED
    BY <1>3, <2>1, <2>2 DEF Process
<1>4. ASSUME NEW h \in Handler, RuntimeStep(h) PROVE Validated'
  BY <1>4, CallStepKeepsValidated DEF RuntimeStep
<1>5. ASSUME NEW h \in Handler, NEW kind, NEW p, BeginCall(h, kind, p) PROVE Validated'
  <2>1. call'[h].pc = "lock" /\ \A g \in Handler \ {h} : call'[g] = call[g]
    BY <1>t, <1>5 DEF BeginCall, NoCall, Handler
  <2> QED
    BY <1>2, <2>1
<1>6. ASSUME NEW h \in Handler, EndCall(h) PROVE Validated'
  <2>1. call'[h].pc = "idle" /\ \A g \in Handler \ {h} : call'[g] = call[g]
    BY <1>t, <1>6, NoCallType DEF EndCall, Handler
  <2> QED
    BY <1>2, <2>1
<1>7. ASSUME NEW h \in Handler, Work(h) \/ Ask(h) \/ Disconnect(h), ~RuntimeStep(h)
      PROVE  Validated'
  <2>1. CASE RoutesBegin(h) \/ ReleaseBegin(h)
    BY <1>1, <1>5, <2>1 DEF RoutesBegin, ReleaseBegin
  <2>2. CASE RoutesEnd(h) \/ ReleaseWithdrawn(h)
    BY <1>6, <2>2 DEF RoutesEnd, ReleaseWithdrawn
  <2> QED
    BY <1>1, <1>7, <2>1, <2>2 DEF Work, Ask, Receive, Disconnect, ClaimAgain,
       ClaimConflict, ClaimNew, Stale, ReleaseDelete, ReleaseUndo, Reply, rtVars, callVars
<1>8. CASE UNCHANGED vars
  BY <1>1, <1>8 DEF vars, rtVars, callVars
<1> QED
  BY <1>3, <1>4, <1>7, <1>8 DEF Next

LEMMA NextKeepsPublishedValid ==
  ASSUME IInv, Validated, PublishedValid, [Next]_vars
  PROVE  PublishedValid'
<1> SUFFICES ASSUME NEW k \in Host, claims'[k] # None, claims'[k].published = TRUE
             PROVE  canonicalHost(k).dots = 0
  BY DEF PublishedValid
<1>t. claims \in [Host -> ClaimRecord \union {None}]
  BY DEF IInv, ServerInv, ServerTypeOK
<1>1. CASE claims'[k] = claims[k]
  BY <1>1 DEF PublishedValid
<1>2. CASE claims'[k] # claims[k] /\ stage' = "new"
  <2>1. CASE Process
    BY <1>2, <2>1 DEF Process, StartWrite, Serve, ServeFails, BeginClose, CloseRuntime, Exit,
       Die, Vanish, NoClaims, serverVars
  <2>2. ASSUME NEW h \in Handler, Work(h) PROVE stage' = stage \/ claims' = claims
    BY <2>2 DEF Work, ClaimAgain, ClaimConflict, ClaimNew, Stale, RoutesBegin, RoutesEnd,
       ReleaseBegin, ReleaseWithdrawn, ReleaseDelete, ReleaseUndo, RuntimeStep, Reply,
       bootVars, rtVars, serverVars
  <2>3. ASSUME NEW h \in Handler, Work(h) PROVE stage = "ready"
    <3>1. handler[h].pc # "idle"
      <4>1. RuntimeStep(h) => handler[h].pc # "idle"
        BY CallFacts DEF RuntimeStep, IInv, ServerInv, CallMatch
      <4> QED
        BY <2>3, <4>1 DEF Work, ClaimAgain, ClaimConflict, ClaimNew, Stale, AtLock,
           RoutesBegin, RoutesEnd, ReleaseBegin, ReleaseWithdrawn, ReleaseDelete,
           ReleaseUndo, Reply
    <3> QED
      BY <3>1, HandlerNeedsDaemon DEF IInv, ServerInv, Placed
  <2>4. ASSUME NEW h \in Handler, Ask(h) \/ Disconnect(h) PROVE claims' = claims
    BY <2>4 DEF Ask, Receive, Disconnect, serverVars
  <2>5. CASE UNCHANGED vars
    BY <1>2, <2>5 DEF vars, serverVars
  <2> QED
    BY <1>2, <2>1, <2>2, <2>3, <2>4, <2>5 DEF Next
<1>3. CASE claims'[k] # claims[k] /\ stage' # "new"
  <2>1. PICK h \in Handler :
            /\ k = ClaimedHost(h)
            /\ \/ ClaimNew(h) /\ claims[k] = None
               \/ /\ RoutesEnd(h) \/ ReleaseBegin(h) \/ ReleaseDelete(h) \/ ReleaseUndo(h)
                  /\ recordMatches(claims[k], handler[h].req)
    BY <1>3, ClaimChanges
  <2>2. ~ClaimNew(h)
    BY <1>t, <2>1 DEF ClaimNew
  <2>3. CASE ReleaseBegin(h) \/ ReleaseDelete(h) \/ ReleaseUndo(h)
    <3>1. claims[k] # None /\ claims[k] \in ClaimRecord
      BY <1>t, <2>1, <2>2 DEF recordMatches
    <3>2. claims[k].published = TRUE
      BY <1>t, <2>1, <2>3, <3>1 DEF ReleaseBegin, ReleaseDelete, ReleaseUndo, ClaimRecord
    <3> QED
      BY <3>1, <3>2 DEF PublishedValid
  <2>4. CASE RoutesEnd(h)
    <3>1. handler[h].pc = "runtime" /\ handler[h].op = "routes" /\ call[h].pc = "done"
          /\ call[h].ok = TRUE
      <4>1. call[h].ok \in BOOLEAN
        BY DEF IInv, RuntimeInv, RuntimeTypeOK, Call, Handler
      <4> QED
        BY <1>3, <2>4, <4>1 DEF RoutesEnd, EndCall
    <3>2. call[h].pub = StoredPublication(h) /\ call[h].kind = "publish"
      BY <3>1 DEF IInv, ServerInv, CallMatch
    <3>3. Key(h) = canonicalHost(k)
      BY <2>1, <3>2 DEF Key, StoredPublication
    <3> QED
      BY <3>1, <3>2, <3>3 DEF Validated, Effective
  <2> QED
    BY <2>1, <2>2, <2>3, <2>4
<1> QED
  BY <1>1, <1>2, <1>3

\* Two claims of one name differ in their dots, of which one has one: it came
\* of a host with two.
LEMMA TwoOwnersTwoDots ==
  ASSUME IInv, ServedInv, PublishedValid, NEW j \in Host, NEW k \in Host,
         claims[j] # None, claims[j].published, claims[k] # None, claims[k].published,
         j.name = k.name, j # k
  PROVE  \E s \in Session : HostOf[s].name = j.name /\ HostOf[s].dots = 2
<1>1. claims[j].published = TRUE /\ claims[k].published = TRUE
  BY DEF IInv, ServerInv, ServerTypeOK, ClaimRecord
<1>2. ASSUME NEW i \in Host, i.dots = 1, claims[i] # None
      PROVE  \E s \in Session : HostOf[s].name = i.name /\ HostOf[s].dots = 2
  <2>1. PICK s \in Session : i = canonicalHost(HostOf[s])
    BY <1>2 DEF ServedInv, ClaimsCanonical
  <2>2. HostOf[s] \in Host
    BY ConstantAssumption
  <2>3. HostOf[s].name = i.name /\ HostOf[s].dots = 2
    BY <1>2, <2>1, <2>2 DEF Host, canonicalHost
  <2> QED
    BY <2>3
<1>3. \A i \in {j, k} : i.dots = 0 \/ i.dots = 1
  <2> SUFFICES ASSUME NEW i \in Host, canonicalHost(i).dots = 0
               PROVE  i.dots = 0 \/ i.dots = 1
    BY <1>1 DEF PublishedValid
  <2> QED
    BY ConstantAssumption DEF Host, canonicalHost
<1>4. j.dots # k.dots
  BY DEF Host
<1>5. j.dots = 1 \/ k.dots = 1
  BY <1>3, <1>4
<1> QED
  BY <1>2, <1>5

-----------------------------------------------------------------------------
(* Theorems.                                                               *)

\* A reload that took effect and was reported as failed misleads the daemon
\* until the next confirmed one: from then on, as before, what is published is
\* served, and what is served is claimed.
THEOREM ServedWhenCertain ==
  ASSUME HostsCanonical
  PROVE  Spec => [](LiveCertain => PublishedIsServed /\ LiveRouteOwned)
<1>1. IInv /\ ServedInv => (LiveCertain => PublishedIsServed /\ LiveRouteOwned)
  BY ServedWhenPublished, OwnedWhenLive
<1> QED
  BY <1>1, BothHold, PTL

\* And meanwhile, after any number of such reloads, at one host at most: at all
\* others what is published is served and what is served is claimed
\* (docker_caddy.go: every attempt reloads the table with one host changed).
THEOREM OneHostMisled ==
  ASSUME HostsCanonical
  PROVE  Spec => []((stage = "ready" /\ container) =>
                      \A j, k \in Host : Faithful(j) \/ Faithful(k) \/ j = k)
<1>1. IInv /\ ServedInv /\ OneAstray =>
        ((stage = "ready" /\ container) =>
            \A j, k \in Host : Faithful(j) \/ Faithful(k) \/ j = k)
  BY OneIsMisled
<1> QED
  BY <1>1, BothHold, OneAstrayHolds, PTL

\* A published claim that nobody withdraws is what Caddy serves (handleRoutes,
\* handleRelease and the runtime's commit).
THEOREM PublishedServed ==
  ASSUME HostsCanonical, NoLostReload
  PROVE  Spec => []PublishedIsServed
  BY ServedWhenCertain, CertainHolds, PTL

\* What Caddy serves while the daemon serves belongs to a claim of the daemon.
THEOREM LiveRoutesOwned ==
  ASSUME HostsCanonical, NoLostReload
  PROVE  Spec => []LiveRouteOwned
  BY ServedWhenCertain, CertainHolds, PTL

\* A name is published under one claim, whatever hosts are configured, unless a
\* configuration writes it with exactly two trailing dots: handleClaim and the
\* runtime take one off each, and validatePublication accepts what is left.
THEOREM NamesHaveOneOwner ==
  Spec => [](\A j, k \in Host :
               /\ claims[j] # None /\ claims[j].published
               /\ claims[k] # None /\ claims[k].published
               /\ j.name = k.name /\ j # k
               => \E s \in Session : HostOf[s].name = j.name /\ HostOf[s].dots = 2)
<1> DEFINE Named == Validated /\ PublishedValid
<1>1. Init => Named
  BY NoCallType DEF Init, RuntimeInit, NoClaims, Validated, PublishedValid, Effective, Handler
<1>2. IInv /\ Named /\ [Next]_vars => Named'
  BY NextKeepsValidated, NextKeepsPublishedValid
<1>3. IInv /\ ServedInv /\ Named =>
        \A j, k \in Host :
            /\ claims[j] # None /\ claims[j].published
            /\ claims[k] # None /\ claims[k].published
            /\ j.name = k.name /\ j # k
            => \E s \in Session : HostOf[s].name = j.name /\ HostOf[s].dots = 2
  BY TwoOwnersTwoDots
<1> QED
  BY <1>1, <1>2, <1>3, BothHold, PTL DEF Spec

\* So one owner per name when no configuration does.
COROLLARY OneOwnerWithoutTwoDots ==
  ASSUME \A s \in Session : HostOf[s].dots # 2
  PROVE  Spec => []OneOwnerPerName
<1>1. (\A j, k \in Host :
         /\ claims[j] # None /\ claims[j].published
         /\ claims[k] # None /\ claims[k].published
         /\ j.name = k.name /\ j # k
         => \E s \in Session : HostOf[s].name = j.name /\ HostOf[s].dots = 2)
      => OneOwnerPerName
  BY DEF OneOwnerPerName
<1> QED
  BY <1>1, NamesHaveOneOwner, PTL

\* A claim changes in the hands of its bearer only (recordMatches).
THEOREM BearersChangeClaims == Spec => OnlyBearerChangesClaim
<1> DEFINE Fenced ==
      \A k \in Host :
        (stage' # "new" /\ claims[k] # None /\ claims'[k] # claims[k]) =>
            /\ claims'[k] = None \/ claims'[k].token = claims[k].token
            /\ \E h \in Handler :
                /\ handler'[h] # handler[h]
                /\ handler[h].req.token = claims[k].token
<1>1. IInv /\ [Next]_vars => Fenced
  <2> SUFFICES ASSUME IInv, [Next]_vars, NEW k \in Host, stage' # "new", claims[k] # None,
                      claims'[k] # claims[k]
               PROVE  /\ claims'[k] = None \/ claims'[k].token = claims[k].token
                      /\ \E h \in Handler :
                          /\ handler'[h] # handler[h]
                          /\ handler[h].req.token = claims[k].token
    OBVIOUS
  <2>1. PICK h \in Handler :
            /\ k = ClaimedHost(h)
            /\ RoutesEnd(h) \/ ReleaseBegin(h) \/ ReleaseDelete(h) \/ ReleaseUndo(h)
            /\ recordMatches(claims[k], handler[h].req)
    BY ClaimChanges
  <2>2. handler[h].req.token = claims[k].token
    BY <2>1 DEF recordMatches
  <2>3. ReleaseDelete(h) => claims'[k] = None
    BY <2>1 DEF ReleaseDelete, IInv, ServerInv, ServerTypeOK
  <2>4. handler'[h].pc # handler[h].pc
    BY <2>1 DEF RoutesEnd, ReleaseBegin, ReleaseDelete, ReleaseUndo, AtLock, Respond, IInv,
       ServerInv, ServerTypeOK, HandlerState
  <2> QED
    BY <2>1, <2>2, <2>3, <2>4, TokensStay
<1>2. Fenced => [Fenced]_vars
  OBVIOUS
<1> QED
  BY <1>1, IInvHolds, PTL DEF Spec, OnlyBearerChangesClaim

\* A positive answer of handleRoutes or handleRelease is true.
THEOREM AnswersTrue ==
  ASSUME HostsCanonical, NoLostReload
  PROVE  Spec => AnswersAreTrue
<1>1. IInv /\ ServedInv /\ LiveCertain /\ [Next]_vars =>
        \A h \in Handler :
          LET k == ClaimedHost(h)
              t == handler[h].req.token
          IN  (daemon' = "up" /\ handler[h].pc # "reply" /\ handler'[h].status = "ok") =>
            /\ handler[h].op = "routes" =>
                   live'[k] # None /\ live'[k].token = t
            /\ handler[h].op = "release" =>
                   /\ claims'[k] = None \/ claims'[k].token # t
                   /\ live'[k] = None \/ live'[k].token # t
  BY TrueAnswer
<1> QED
  BY <1>1, BothHold, CertainHolds, PTL DEF Spec, AnswersAreTrue

\* And without the condition: whatever the reloads did, a publication is
\* answered positively only while Caddy serves it, and so is the release of a
\* published claim when its route is gone.  Only a claim that was never
\* recorded as published can be released over a route (handleRelease looks at
\* record.Published).
THEOREM AnswersTrueWhenPublished ==
  ASSUME HostsCanonical
  PROVE  Spec => [][\A h \in Handler :
            (daemon' = "up" /\ handler[h].pc # "reply" /\ handler'[h].status = "ok") =>
              /\ handler[h].op = "routes" =>
                     /\ live'[ClaimedHost(h)] # None
                     /\ live'[ClaimedHost(h)].token = handler[h].req.token
              /\ (handler[h].op = "release" /\ claims[ClaimedHost(h)].published = TRUE) =>
                     /\ claims'[ClaimedHost(h)] = None
                     /\ live'[ClaimedHost(h)] = None]_vars
<1> DEFINE A ==
      \A h \in Handler :
        (daemon' = "up" /\ handler[h].pc # "reply" /\ handler'[h].status = "ok") =>
          /\ handler[h].op = "routes" =>
                 /\ live'[ClaimedHost(h)] # None
                 /\ live'[ClaimedHost(h)].token = handler[h].req.token
          /\ (handler[h].op = "release" /\ claims[ClaimedHost(h)].published = TRUE) =>
                 /\ claims'[ClaimedHost(h)] = None
                 /\ live'[ClaimedHost(h)] = None
<1>1. IInv /\ ServedInv /\ SettledServed /\ [Next]_vars => A
  <2> SUFFICES ASSUME IInv, ServedInv, SettledServed, [Next]_vars, NEW h \in Handler,
                      daemon' = "up", handler[h].pc # "reply", handler'[h].status = "ok"
               PROVE  /\ handler[h].op = "routes" =>
                             /\ live'[ClaimedHost(h)] # None
                             /\ live'[ClaimedHost(h)].token = handler[h].req.token
                      /\ (handler[h].op = "release"
                            /\ claims[ClaimedHost(h)].published = TRUE) =>
                             /\ claims'[ClaimedHost(h)] = None
                             /\ live'[ClaimedHost(h)] = None
    OBVIOUS
  <2>1. CASE handler[h].op = "claim"
    BY <2>1
  <2>2. CASE RoutesEnd(h) /\ call[h].ok = TRUE
    <3>1. /\ handler[h].op = "routes" /\ Effective(h) /\ mu = h
          /\ UNCHANGED live /\ daemon = "up"
      BY <2>2 DEF RoutesEnd, EndCall, Effective, routeVars, IInv, ServerInv, ServerLock
    <3>2. live[ClaimedHost(h)] = publications[ClaimedHost(h)]
      BY <3>1 DEF SettledServed, Settled, IInv, ServerInv, Placed
    <3> QED
      BY <3>1, <3>2 DEF ServedInv, Shown
  <2>3. CASE ReleaseDelete(h)
    <3>1. /\ handler[h].pc = "delete" /\ handler[h].op = "release" /\ Releasing(h)
          /\ UNCHANGED live /\ daemon = "up"
      BY <2>3 DEF ReleaseDelete, rtVars, routeVars, Releasing, IInv, ServerInv, Phases
    <3>2. /\ ClaimedHost(h) \in Host /\ recordMatches(claims[ClaimedHost(h)], handler[h].req)
          /\ publications[ClaimedHost(h)] = None /\ container
      BY <3>1, ClaimedHostType
         DEF IInv, ServerInv, Placed, Phases, ReleaseMarked, Withdrawn
    <3>3. claims'[ClaimedHost(h)] = None
      BY <2>3, <3>2 DEF ReleaseDelete, IInv, ServerInv, ServerTypeOK
    <3> QED
      BY <3>1, <3>2, <3>3 DEF SettledServed, Settled
  <2> QED
    BY <2>1, <2>2, <2>3, Confirmed
<1>2. A => [A]_vars
  OBVIOUS
<1> HIDE DEF A
<1>3. Spec => [][A]_vars
  BY <1>1, <1>2, BothHold, SettledServedHolds, PTL DEF Spec
<1> QED
  BY <1>3 DEF A

-----------------------------------------------------------------------------
(* The daemon implements `HostClaims'.                                     *)

\* A container that is gone serves nothing.
Dark == ~container => live = NoRoutes

LEMMA StaysDark ==
  /\ Init => Dark
  /\ IInv /\ Dark /\ [Next]_vars => Dark'
<1>1. Init => Dark
  BY DEF Init, RuntimeInit, Dark
<1>2. ASSUME IInv, Dark, [Next]_vars PROVE Dark'
  <2> USE <1>2 DEF Dark, routeVars, bootVars, callVars, rtVars
  <2>1. CASE Process
    BY <2>1 DEF Process, StartWrite, BootWrite, BootWriteFails, BootContainer, BootFails,
       Serve, ServeFails, BeginClose, CloseRuntime, Exit, Die, Vanish, RemoveContainer
  <2>2. ASSUME NEW h \in Handler, RuntimeStep(h) PROVE Dark'
    <3>1. UNCHANGED container
      BY <2>2 DEF RuntimeStep, CallStep, Reject, Stage, StageFails, ReloadSucceeds, ReloadFails,
         ReloadAppliedUnseen, Commit, Restore
    <3>2. UNCHANGED live \/ container
      BY <2>2 DEF RuntimeStep, CallStep, Reject, Stage, StageFails, ReloadSucceeds, ReloadFails,
         ReloadAppliedUnseen, Commit, Restore
    <3> QED
      BY <3>1, <3>2
  <2>3. ASSUME NEW h \in Handler, Work(h) \/ Ask(h) \/ Disconnect(h), ~RuntimeStep(h)
        PROVE  Dark'
    BY <2>3 DEF Work, Ask, Receive, Disconnect, ClaimAgain, ClaimConflict, ClaimNew, Stale,
       RoutesBegin, RoutesEnd, ReleaseBegin, ReleaseWithdrawn, ReleaseDelete, ReleaseUndo, Reply
  <2> QED
    BY <2>1, <2>2, <2>3 DEF Next, vars
<1> QED
  BY <1>1, <1>2

\* The daemon's process ends, or changes what Caddy serves as a whole.
LEMMA ProcessRefines ==
  ASSUME IInv, Process
  PROVE  Promise!Forget \/ Promise!Sweep \/ UNCHANGED Promise!vars
<1> USE DEF Promise!Forget, Promise!Sweep, Promise!Nobody, Promise!vars
<1>e. \A k \in Host : TokenOf(NoRoutes[k]) = None /\ TokenOf(NoClaims[k]) = None
  BY DEF TokenOf, NoRoutes, NoClaims
<1>1. CASE StartWrite
  <2>1. UNCHANGED <<claims, lastToken>>
    BY <1>1 DEF StartWrite, serverVars, historyVars
  <2>2. live' = live \/ live' = NoRoutes
    BY <1>1 DEF StartWrite, BootWrite, BootWriteFails, BootContainer, BootFails, IInv,
       RuntimeInv, FileStaged, CallsPlaced
  <2> QED
    BY <1>e, <2>1, <2>2
<1>2. CASE Serve \/ BeginClose
  BY <1>2 DEF Serve, BeginClose, rtVars, routeVars, serverVars, historyVars
<1>3. CASE CloseRuntime
  <2>1. UNCHANGED <<claims, lastToken>> /\ live' = NoRoutes
    BY <1>3 DEF CloseRuntime, RemoveContainer, serverVars, historyVars
  <2> QED
    BY <1>e, <2>1
<1>4. CASE ServeFails
  <2>1. /\ UNCHANGED <<claims, lastToken>>
        /\ live' = live \/ live' = NoRoutes
    BY <1>4 DEF ServeFails, Vanish, RemoveContainer, historyVars, IInv, ServerInv, Placed
  <2> QED
    BY <1>e, <2>1
<1>5. CASE Exit \/ Die
  <2>1. UNCHANGED <<live, lastToken>> /\ claims' = NoClaims
    BY <1>5 DEF Exit, Die, Vanish, historyVars
  <2> QED
    BY <1>e, <2>1
<1> QED
  BY <1>1, <1>2, <1>3, <1>4, <1>5 DEF Process

LEMMA ClaimNewRefines ==
  ASSUME HostsCanonical, IInv, LiveCertain, Dark, NEW h \in Handler, ClaimNew(h)
  PROVE  \E k \in Host : Promise!Acquire(k)
<1> DEFINE k == ClaimedHost(h)
           s == handler[h].req.session
           record == [session |-> s, token |-> lastToken', generation |-> generation',
                      published |-> FALSE, releasing |-> FALSE]
<1>1. /\ handler[h].pc = "lock" /\ claims[k] = None /\ UNCHANGED live
      /\ claims' = [claims EXCEPT ![k] = record]
      /\ lastToken' = lastToken + 1 /\ lastToken < MaxToken
  BY DEF ClaimNew, AtLock, rtVars, routeVars
<1>2. k \in Host /\ stage = "ready" /\ s \in Session
  BY <1>1, ClaimedHostType DEF IInv, ServerInv, Phases, Placed, Request, Receipt, Fresh
<1>3. live[k] = None
  BY <1>1, <1>2, LiveIsClaimed DEF Dark, NoRoutes
<1>4. /\ lastToken' \in Token \ 1..lastToken
      /\ 1..lastToken' = (1..lastToken) \union {lastToken'}
  BY <1>1, ConstantAssumption DEF Token, IInv, ServerInv, ServerTypeOK
<1>5. record \in ClaimRecord
  <2>1. generation' \in Token
    BY ConstantAssumption DEF ClaimNew, Token, IInv, ServerInv, ServerTypeOK
  <2> QED
    BY <1>2, <1>4, <2>1 DEF ClaimRecord
<1>6. TokenOf(record) = lastToken' /\ TokenOf(None) = None
  BY <1>5, NoneIsNoRecord DEF TokenOf
<1> HIDE DEF record
<1>7. [j \in Host |-> TokenOf(claims'[j])] =
        [[j \in Host |-> TokenOf(claims[j])] EXCEPT ![k] = lastToken']
  BY <1>1, <1>2, <1>6 DEF IInv, ServerInv, ServerTypeOK
<1> QED
  BY <1>1, <1>2, <1>3, <1>4, <1>6, <1>7 DEF Promise!Acquire

LEMMA DeleteRefines ==
  ASSUME HostsCanonical, IInv, LiveCertain, Dark, NEW h \in Handler, ReleaseDelete(h)
  PROVE  \E k \in Host : Promise!Drop(k)
<1> DEFINE k == ClaimedHost(h)
<1>1. /\ handler[h].pc = "delete" /\ handler[h].op = "release" /\ Releasing(h)
      /\ UNCHANGED <<live, lastToken>>
  BY DEF ReleaseDelete, rtVars, routeVars, historyVars, Releasing, IInv, ServerInv, Phases
<1>2. k \in Host /\ stage = "ready" /\ recordMatches(claims[k], handler[h].req)
  BY <1>1, ClaimedHostType DEF IInv, ServerInv, Phases, Placed, Request, ReleaseMarked
<1>3. claims' = [claims EXCEPT ![k] = None]
  BY <1>2 DEF ReleaseDelete
<1>4. live[k] = None
  BY <1>1, <1>2, GoneWhenDeleted DEF Dark, NoRoutes
<1>5. TokenOf(None) = None
  BY DEF TokenOf
<1>6. [j \in Host |-> TokenOf(claims'[j])] =
        [[j \in Host |-> TokenOf(claims[j])] EXCEPT ![k] = None]
  BY <1>2, <1>3, <1>5 DEF IInv, ServerInv, ServerTypeOK
<1> QED
  BY <1>1, <1>2, <1>4, <1>5, <1>6 DEF Promise!Drop

\* A reload shows or hides the host of its call.
LEMMA ReloadRefines ==
  ASSUME HostsCanonical, IInv, LiveCertain, NEW h \in Handler, ReloadSucceeds(h),
         UNCHANGED <<claims, lastToken>>
  PROVE  \E k \in Host : Promise!Show(k) \/ Promise!Hide(k)
<1> DEFINE k == ClaimedHost(h)
           p == [call[h].pub EXCEPT !.host = Key(h)]
<1>1. call[h].pc = "reload" /\ container /\ live' = configFile
  BY DEF ReloadSucceeds
<1>2. /\ handler[h].pc = "runtime" /\ handler[h].op \in {"routes", "release"}
      /\ Key(h) = k /\ k \in Host /\ stage = "ready"
  BY <1>1, KeyIsClaimedHost DEF IInv, ServerInv, CallMatch, Phases, Placed
<1>3. live' = NextTable(h) /\ publications \in Table /\ call[h].pub \in Publication
  BY <1>1 DEF IInv, RuntimeInv, RuntimeTypeOK, FileStaged, CallsPlaced, Handler
<1>4. live = publications
  <2>1. \A c \in Caller : call[c].pc # "commit"
    BY <1>1 DEF IInv, RuntimeInv, RuntimeLock, Holding, Handler
  <2> QED
    BY <1>1, <1>2, <2>1 DEF IInv, RuntimeInv, LiveFollows, LiveCertain
<1>5. /\ call[h].pub = StoredPublication(h)
      /\ call[h].kind = IF handler[h].op = "routes" THEN "publish" ELSE "unpublish"
  BY <1>2 DEF IInv, ServerInv, CallMatch
<1>6. p \in Publication /\ p.token = handler[h].req.token /\ p # None
  <2>1. p \in Publication /\ p.token = handler[h].req.token
    BY <1>2, <1>3, <1>5 DEF Publication, StoredPublication
  <2> QED
    BY <2>1, NoneAssumption
<1>7. CASE handler[h].op = "routes"
  <2>1. live' = [live EXCEPT ![k] = p]
    BY <1>2, <1>3, <1>4, <1>5, <1>7 DEF NextTable
  <2>2. claims[k] # None /\ claims[k].token = handler[h].req.token
    BY <1>2, <1>7 DEF IInv, ServerInv, ServerLock, RoutesActive, Active, recordMatches
  <2>3. TokenOf(p) = handler[h].req.token /\ TokenOf(claims[k]) = handler[h].req.token
    BY <1>6, <2>2 DEF TokenOf
  <2>4. handler[h].req.token # None
    BY <1>2, NoneIsNoToken DEF IInv, ServerInv, Phases, Receipt
  <2> HIDE DEF p
  <2>5. [j \in Host |-> TokenOf(live'[j])] =
          [[j \in Host |-> TokenOf(live[j])] EXCEPT ![k] = TokenOf(claims[k])]
    BY <1>2, <1>3, <1>4, <2>1, <2>3 DEF Table
  <2> QED
    BY <1>2, <2>3, <2>4, <2>5 DEF Promise!Show
<1>8. CASE handler[h].op = "release"
  <2>1. live' = [live EXCEPT ![k] = None]
    BY <1>2, <1>3, <1>4, <1>5, <1>8 DEF NextTable
  <2>2. TokenOf(None) = None
    BY DEF TokenOf
  <2>3. [j \in Host |-> TokenOf(live'[j])] =
          [[j \in Host |-> TokenOf(live[j])] EXCEPT ![k] = None]
    BY <1>2, <1>3, <1>4, <2>1, <2>2 DEF Table
  <2> QED
    BY <1>2, <2>3 DEF Promise!Hide
<1> QED
  BY <1>2, <1>7, <1>8

\* The other steps of a handler change no claim's token and no served route.
LEMMA OthersRefine ==
  ASSUME NoLostReload, IInv, NEW h \in Handler, Work(h) \/ Ask(h) \/ Disconnect(h),
         ~ClaimNew(h), ~ReleaseDelete(h), ~(ReloadSucceeds(h) /\ RuntimeStep(h))
  PROVE  UNCHANGED Promise!vars
<1>1. UNCHANGED <<live, lastToken>>
  BY DEF Work, Ask, Receive, Disconnect, ClaimAgain, ClaimConflict, Stale, RoutesBegin,
     RoutesEnd, ReleaseBegin, ReleaseWithdrawn, ReleaseUndo, Reply, RuntimeStep, CallStep,
     Reject, Stage, StageFails, ReloadFails, ReloadAppliedUnseen, NoLostReload, Commit,
     Restore, rtVars, routeVars, historyVars
<1>2. ASSUME NEW k \in Host PROVE TokenOf(claims'[k]) = TokenOf(claims[k])
  <2>1. CASE RoutesEnd(h) \/ ReleaseBegin(h) \/ ReleaseUndo(h)
    <3>1. ClaimedHost(h) \in Host /\ claims[ClaimedHost(h)] # None
      <4>1. handler[h].pc # "idle"
        BY <2>1 DEF RoutesEnd, ReleaseBegin, ReleaseUndo, AtLock
      <4>2. claims[ClaimedHost(h)] # None
        BY <2>1 DEF RoutesEnd, ReleaseBegin, ReleaseUndo, IInv, ServerInv, ServerLock,
           RoutesActive, Active, recordMatches, ReleaseMarked, Releasing, Phases
      <4> QED
        BY <4>1, <4>2, ClaimedHostType DEF IInv, ServerInv, Phases
    <3>2. k # ClaimedHost(h) => claims'[k] = claims[k]
      BY <2>1, <3>1 DEF RoutesEnd, ReleaseBegin, ReleaseUndo, IInv, ServerInv, ServerTypeOK
    <3> QED
      BY <2>1, <3>1, <3>2, TokensStay DEF TokenOf
  <2>2. CASE ~(RoutesEnd(h) \/ ReleaseBegin(h) \/ ReleaseUndo(h))
    BY <2>2 DEF Work, Ask, Receive, Disconnect, ClaimAgain, ClaimConflict, Stale, RoutesBegin,
       ReleaseWithdrawn, Reply, RuntimeStep, serverVars
  <2> QED
    BY <2>1, <2>2
<1> QED
  BY <1>1, <1>2 DEF Promise!vars

\* Whatever its handlers interleave, the daemon keeps what `HostClaims' says:
\* one owner per host, claims never issued twice, traffic on behalf of the
\* owner, and a host given up only after its route.
THEOREM DaemonImplementsHostClaims ==
  ASSUME HostsCanonical, NoLostReload
  PROVE  Spec => ImplementsHostClaims
<1>1. Init => Promise!Init
  BY DEF Init, RuntimeInit, NoClaims, NoRoutes, TokenOf, Promise!Init, Promise!Nobody
<1>2. IInv /\ LiveCertain /\ Dark /\ [Next]_vars => [Promise!Next]_(Promise!vars)
  <2> SUFFICES ASSUME IInv, LiveCertain, Dark, [Next]_vars
               PROVE  Promise!Next \/ UNCHANGED Promise!vars
    OBVIOUS
  <2>1. CASE Process
    BY <2>1, ProcessRefines DEF Promise!Next
  <2>2. ASSUME NEW h \in Handler, Work(h) \/ Ask(h) \/ Disconnect(h)
        PROVE  Promise!Next \/ UNCHANGED Promise!vars
    <3>1. CASE ClaimNew(h)
      BY <3>1, ClaimNewRefines DEF Promise!Next
    <3>2. CASE ReleaseDelete(h)
      BY <3>2, DeleteRefines DEF Promise!Next
    <3>3. CASE ReloadSucceeds(h) /\ RuntimeStep(h)
      <4>1. UNCHANGED <<claims, lastToken>>
        BY <3>3 DEF RuntimeStep, serverVars, historyVars
      <4> QED
        BY <3>3, <4>1, ReloadRefines DEF Promise!Next
    <3> QED
      BY <2>2, <3>1, <3>2, <3>3, OthersRefine
  <2>3. CASE UNCHANGED vars
    BY <2>3 DEF vars, rtVars, routeVars, serverVars, historyVars, Promise!vars
  <2> QED
    BY <2>1, <2>2, <2>3 DEF Next
<1>3. Spec => []Dark
  <2>1. (Init => Dark) /\ (IInv /\ Dark /\ [Next]_vars => Dark')
    BY StaysDark
  <2> QED
    BY <2>1, IInvHolds, PTL DEF Spec
<1> QED
  BY <1>1, <1>2, <1>3, IInvHolds, CertainHolds, PTL DEF Spec, ImplementsHostClaims, Promise!Spec

=============================================================================
