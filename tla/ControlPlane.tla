---------------------------- MODULE ControlPlane ----------------------------
(***************************************************************************)
(* The daemon: the API server of internal/daemon/start.go over the route   *)
(* runtime of `DockerCaddy', and the life of its process.                  *)
(*                                                                         *)
(* Every request runs in a handler goroutine of its own.  server.mu (here  *)
(* mu) guards the claims; handleRoutes keeps it through the whole call to  *)
(* the route runtime, handleRelease lets go of it before that call and     *)
(* takes it again afterwards.  A stretch of code under mu that cannot      *)
(* block is one action.                                                    *)
(*                                                                         *)
(* The clients are any clients: a session asks for its host whenever it    *)
(* likes, and publishes and releases with any receipt ever issued to it,   *)
(* late, twice or concurrently.  Requests that do not decode change no     *)
(* state and are left out.                                                 *)
(***************************************************************************)
EXTENDS DockerCaddy, FiniteSets

Handler == Caller

VARIABLES
    daemon,      \* "down", "up" (serving) or "closing" (after server.Close)
    claims,      \* server.claims, by canonical host
    generation,  \* server.generation
    mu,          \* server.mu: who holds it
    handler,     \* the handler goroutines
    lastToken,   \* history: how many random tokens newClaimToken has drawn
    receipts     \* history: the receipts issued

serverVars == <<claims, generation, mu>>
historyVars == <<lastToken, receipts>>
vars == <<rtVars, daemon, serverVars, handler, historyVars>>

\* A claimRecord.  Project, name and routes are the session's; the stored
\* publication is the one that matched the record.
ClaimRecord == [session : Session, token : Token, generation : Token,
                published : BOOLEAN, releasing : BOOLEAN]

ASSUME NoneIsNoRecord == None \notin ClaimRecord

ASSUME NoneIsNoToken == None \notin Token

Receipt == [session : Session, token : Token, generation : Token]

\* What a claim request carries in place of a receipt.
Fresh(s) == [session |-> s, token |-> 0, generation |-> 0]

Request == Receipt \union {Fresh(s) : s \in Session}

Idle == [pc |-> "idle", op |-> "none", req |-> None, status |-> "none"]

HandlerState ==
    [pc : {"idle", "lock", "runtime", "delete", "undo", "reply"},
     op : {"none", "claim", "routes", "release"},
     req : Request \union {None},
     status : {"none", "ok", "conflict", "stale", "rejected"}]

NoClaims == [h \in Host |-> None]

\* Every variable of the daemon holds a value of the kind the code gives it,
\* through claims, publications, releases, crashes and restarts.
TypeOK ==
    /\ RuntimeTypeOK
    /\ daemon \in {"down", "up", "closing"}
    /\ claims \in [Host -> ClaimRecord \union {None}]
    /\ generation \in 0..MaxToken
    /\ mu \in Handler \union {None}
    /\ handler \in [Handler -> HandlerState]
    /\ lastToken \in 0..MaxToken
    /\ receipts \subseteq Receipt

Init ==
    /\ RuntimeInit
    /\ daemon = "down"
    /\ claims = NoClaims
    /\ generation = 0
    /\ mu = None
    /\ handler = [h \in Handler |-> Idle]
    /\ lastToken = 0
    /\ receipts = {}

-----------------------------------------------------------------------------
(* The process: Start, Close and death.                                    *)

\* Start: lock, stale socket, Bootstrap ...
StartWrite ==
    /\ daemon = "down"
    /\ BootWrite \/ BootWriteFails \/ BootContainer \/ BootFails
    /\ UNCHANGED <<daemon, serverVars, handler, historyVars>>

\* ... then listen, write health.json and serve an empty apiServer.
Serve ==
    /\ daemon = "down"
    /\ stage = "ready"
    /\ daemon' = "up"
    /\ UNCHANGED <<rtVars, serverVars, handler, historyVars>>

Vanish ==
    /\ ProcessEnds
    /\ daemon' = "down"
    /\ claims' = NoClaims
    /\ generation' = 0
    /\ mu' = None
    /\ handler' = [h \in Handler |-> Idle]
    /\ UNCHANGED <<configFile, doubt, starts, historyVars>>

\* Listening or the health file fails: Close removes the container.
ServeFails ==
    /\ "boot" \in Faults
    /\ daemon = "down"
    /\ stage = "ready"
    /\ RemoveContainer \/ UNCHANGED <<container, live>>
    /\ Vanish

\* Close begins with server.Close: no new request, every connection cut.
BeginClose ==
    /\ "crash" \in Faults
    /\ daemon = "up"
    /\ daemon' = "closing"
    /\ UNCHANGED <<rtVars, serverVars, handler, historyVars>>

\* Close goes on with docker rm -f, while cut-off handlers still run ...
CloseRuntime ==
    /\ daemon = "closing"
    /\ container
    /\ RemoveContainer
    /\ UNCHANGED <<publications, configFile, doubt, stage, starts, callVars>>
    /\ UNCHANGED <<daemon, serverVars, handler, historyVars>>

\* ... and the process exits, also when the removal failed.
Exit ==
    /\ daemon = "closing"
    /\ ~container \/ "boot" \in Faults
    /\ UNCHANGED <<container, live>>
    /\ Vanish

Die ==
    /\ "crash" \in Faults
    /\ stage # "new"
    /\ UNCHANGED <<container, live>>
    /\ Vanish

-----------------------------------------------------------------------------
(* The handlers.                                                           *)

\* Mutant of ClaimedHost: claims are kept under the host as it is written.
ClaimedHostAsIs(h) == HostOf[handler[h].req.session]

ClaimedHost(h) == canonicalHost(HostOf[handler[h].req.session])

\* Mutant of recordMatches: the generation alone fences.
recordMatchesGeneration(record, req) ==
    /\ record # None
    /\ record.generation = req.generation

\* recordMatchesPublication and recordMatchesRelease: routes, project and
\* name follow from the session.
recordMatches(record, req) ==
    /\ record # None
    /\ record.session = req.session
    /\ record.token = req.token
    /\ record.generation = req.generation

Respond(h, status) ==
    handler' = [handler EXCEPT ![h].pc = "reply", ![h].status = status]

AtLock(h, op) ==
    /\ handler[h].pc = "lock"
    /\ handler[h].op = op
    /\ mu = None

StoredPublication(h) ==
    [host |-> ClaimedHost(h), session |-> handler[h].req.session,
     token |-> handler[h].req.token]

\* The same session asks again: the receipt it already has.
ClaimAgain(h) ==
    /\ AtLock(h, "claim")
    /\ claims[ClaimedHost(h)] # None
    /\ claims[ClaimedHost(h)].session = handler[h].req.session
    /\ ~claims[ClaimedHost(h)].releasing
    /\ Respond(h, "ok")
    /\ UNCHANGED <<rtVars, daemon, serverVars, historyVars>>

ClaimConflict(h) ==
    /\ AtLock(h, "claim")
    /\ claims[ClaimedHost(h)] # None
    /\ \/ claims[ClaimedHost(h)].session # handler[h].req.session
       \/ claims[ClaimedHost(h)].releasing
    /\ Respond(h, "conflict")
    /\ UNCHANGED <<rtVars, daemon, serverVars, historyVars>>

\* Mutant of ClaimNew: a claim under release counts as free.
ClaimNewOverReleasing(h) ==
    /\ AtLock(h, "claim")
    /\ claims[ClaimedHost(h)] # None => claims[ClaimedHost(h)].releasing
    /\ lastToken < MaxToken
    /\ generation < MaxToken
    /\ lastToken' = lastToken + 1
    /\ generation' = generation + 1
    /\ LET s == handler[h].req.session IN
        /\ claims' = [claims EXCEPT ![ClaimedHost(h)] =
                [session |-> s, token |-> lastToken', generation |-> generation',
                 published |-> FALSE, releasing |-> FALSE]]
        /\ receipts' = receipts \union
                {[session |-> s, token |-> lastToken', generation |-> generation']}
    /\ Respond(h, "ok")
    /\ UNCHANGED <<rtVars, daemon, mu>>

\* A free host: a new generation and a new token.  MaxToken bounds the model.
ClaimNew(h) ==
    /\ AtLock(h, "claim")
    /\ claims[ClaimedHost(h)] = None
    /\ lastToken < MaxToken
    /\ generation < MaxToken
    /\ lastToken' = lastToken + 1
    /\ generation' = generation + 1
    /\ LET s == handler[h].req.session IN
        /\ claims' = [claims EXCEPT ![ClaimedHost(h)] =
                [session |-> s, token |-> lastToken', generation |-> generation',
                 published |-> FALSE, releasing |-> FALSE]]
        /\ receipts' = receipts \union
                {[session |-> s, token |-> lastToken', generation |-> generation']}
    /\ Respond(h, "ok")
    /\ UNCHANGED <<rtVars, daemon, mu>>

\* Mutant of Active: publish and release do not look at Releasing.
ActiveOrReleasing(h) == recordMatches(claims[ClaimedHost(h)], handler[h].req)

Active(h) ==
    recordMatches(claims[ClaimedHost(h)], handler[h].req) /\ ~claims[ClaimedHost(h)].releasing

Stale(h) ==
    /\ AtLock(h, "routes") \/ AtLock(h, "release")
    /\ ~Active(h)
    /\ Respond(h, "stale")
    /\ UNCHANGED <<rtVars, daemon, serverVars, historyVars>>

\* Mutants of the publication: mu is not kept through the runtime's call; a
\* failed one counts as published; mu is kept after a failed one.
RoutesBeginUnlocked(h) ==
    /\ AtLock(h, "routes")
    /\ Active(h)
    /\ UNCHANGED mu
    /\ BeginCall(h, "publish", StoredPublication(h))
    /\ handler' = [handler EXCEPT ![h].pc = "runtime"]
    /\ UNCHANGED <<routeVars, bootVars, rtmu, ctxDone>>
    /\ UNCHANGED <<daemon, claims, generation, historyVars>>

RoutesEndAlwaysPublished(h) ==
    /\ handler[h].pc = "runtime" /\ handler[h].op = "routes"
    /\ EndCall(h)
    /\ mu' = None
    /\ claims' = [claims EXCEPT ![ClaimedHost(h)].published = TRUE]
    /\ Respond(h, IF call[h].ok THEN "ok" ELSE "rejected")
    /\ UNCHANGED <<routeVars, bootVars, rtmu, ctxDone>>
    /\ UNCHANGED <<daemon, generation, historyVars>>

RoutesEndKeepsMu(h) ==
    /\ handler[h].pc = "runtime" /\ handler[h].op = "routes"
    /\ EndCall(h)
    /\ mu' = IF call[h].ok THEN None ELSE mu
    /\ IF call[h].ok
       THEN /\ claims' = [claims EXCEPT ![ClaimedHost(h)].published = TRUE]
            /\ Respond(h, "ok")
       ELSE /\ UNCHANGED claims
            /\ Respond(h, "rejected")
    /\ UNCHANGED <<routeVars, bootVars, rtmu, ctxDone>>
    /\ UNCHANGED <<daemon, generation, historyVars>>

\* handleRoutes enters the runtime with mu held ...
RoutesBegin(h) ==
    /\ AtLock(h, "routes")
    /\ Active(h)
    /\ mu' = h
    /\ BeginCall(h, "publish", StoredPublication(h))
    /\ handler' = [handler EXCEPT ![h].pc = "runtime"]
    /\ UNCHANGED <<routeVars, bootVars, rtmu, ctxDone>>
    /\ UNCHANGED <<daemon, claims, generation, historyVars>>

\* ... and lets go of it when the record says what the runtime did.
RoutesEnd(h) ==
    /\ handler[h].pc = "runtime" /\ handler[h].op = "routes"
    /\ EndCall(h)
    /\ mu' = None
    /\ IF call[h].ok
       THEN /\ claims' = [claims EXCEPT ![ClaimedHost(h)].published = TRUE]
            /\ Respond(h, "ok")
       ELSE /\ UNCHANGED claims
            /\ Respond(h, "rejected")
    /\ UNCHANGED <<routeVars, bootVars, rtmu, ctxDone>>
    /\ UNCHANGED <<daemon, generation, historyVars>>

\* handleRelease marks the record and, if a route was published, withdraws it
\* without mu.
ReleaseBegin(h) ==
    /\ AtLock(h, "release")
    /\ Active(h)
    /\ claims' = [claims EXCEPT ![ClaimedHost(h)].releasing = TRUE]
    /\ IF claims[ClaimedHost(h)].published
       THEN /\ BeginCall(h, "unpublish", StoredPublication(h))
            /\ handler' = [handler EXCEPT ![h].pc = "runtime"]
       ELSE /\ UNCHANGED call
            /\ handler' = [handler EXCEPT ![h].pc = "delete"]
    /\ UNCHANGED <<routeVars, bootVars, rtmu, ctxDone>>
    /\ UNCHANGED <<daemon, generation, mu, historyVars>>

\* Mutant of ReleaseWithdrawn: the claim goes even if its route does not.
ReleaseWithdrawnAnyway(h) ==
    /\ handler[h].pc = "runtime" /\ handler[h].op = "release"
    /\ EndCall(h)
    /\ handler' = [handler EXCEPT ![h].pc = "delete"]
    /\ UNCHANGED <<routeVars, bootVars, rtmu, ctxDone>>
    /\ UNCHANGED <<daemon, serverVars, historyVars>>

ReleaseWithdrawn(h) ==
    /\ handler[h].pc = "runtime" /\ handler[h].op = "release"
    /\ EndCall(h)
    /\ handler' = [handler EXCEPT ![h].pc = IF call[h].ok THEN "delete" ELSE "undo"]
    /\ UNCHANGED <<routeVars, bootVars, rtmu, ctxDone>>
    /\ UNCHANGED <<daemon, serverVars, historyVars>>

\* Back under mu: the record may be deleted, unless it changed hands ...
ReleaseDelete(h) ==
    /\ handler[h].pc = "delete"
    /\ mu = None
    /\ claims' = IF recordMatches(claims[ClaimedHost(h)], handler[h].req)
                 THEN [claims EXCEPT ![ClaimedHost(h)] = None] ELSE claims
    /\ Respond(h, "ok")
    /\ UNCHANGED <<rtVars, daemon, generation, mu, historyVars>>

\* Mutant of ReleaseUndo: Releasing stays set.
ReleaseUndoForgotten(h) ==
    /\ handler[h].pc = "undo"
    /\ mu = None
    /\ UNCHANGED claims
    /\ Respond(h, "rejected")
    /\ UNCHANGED <<rtVars, daemon, generation, mu, historyVars>>

\* ... or becomes active again because the route could not be withdrawn.
ReleaseUndo(h) ==
    /\ handler[h].pc = "undo"
    /\ mu = None
    /\ claims' = IF recordMatches(claims[ClaimedHost(h)], handler[h].req)
                 THEN [claims EXCEPT ![ClaimedHost(h)].releasing = FALSE] ELSE claims
    /\ Respond(h, "rejected")
    /\ UNCHANGED <<rtVars, daemon, generation, mu, historyVars>>

RuntimeStep(h) ==
    CallStep(h) /\ UNCHANGED <<daemon, serverVars, handler, historyVars>>

\* The goroutine writes its answer and ends, and with it its context.
Reply(h) ==
    /\ handler[h].pc = "reply"
    /\ handler' = [handler EXCEPT ![h] = Idle]
    /\ ctxDone' = [ctxDone EXCEPT ![h] = FALSE]
    /\ UNCHANGED <<routeVars, bootVars, rtmu, call>>
    /\ UNCHANGED <<daemon, serverVars, historyVars>>

\* The client hangs up, or server.Close cut the connection.
Disconnect(h) ==
    /\ handler[h].pc # "idle"
    /\ "cancel" \in Faults \/ daemon = "closing"
    /\ ~ctxDone[h]
    /\ ctxDone' = [ctxDone EXCEPT ![h] = TRUE]
    /\ UNCHANGED <<routeVars, bootVars, rtmu, call>>
    /\ UNCHANGED <<daemon, serverVars, handler, historyVars>>

-----------------------------------------------------------------------------
(* The clients.                                                            *)

Receive(h, op, req) ==
    /\ daemon = "up"
    /\ handler[h].pc = "idle"
    /\ handler' = [handler EXCEPT ![h] =
                      [pc |-> "lock", op |-> op, req |-> req, status |-> "none"]]
    /\ UNCHANGED <<rtVars, daemon, serverVars, historyVars>>

\* Bound: no more claims in flight than tokens are left.
TokensLeft ==
    lastToken + Cardinality({h \in Handler : handler[h].op = "claim"}) < MaxToken

Ask(h) ==
    \/ TokensLeft /\ \E s \in Session : Receive(h, "claim", Fresh(s))
    \/ \E r \in receipts : Receive(h, "routes", r)
    \/ \E r \in receipts : Receive(h, "release", r)

Work(h) ==
    \/ ClaimAgain(h) \/ ClaimConflict(h) \/ ClaimNew(h) \/ Stale(h)
    \/ RoutesBegin(h) \/ RoutesEnd(h)
    \/ ReleaseBegin(h) \/ ReleaseWithdrawn(h) \/ ReleaseDelete(h) \/ ReleaseUndo(h)
    \/ RuntimeStep(h)
    \/ Reply(h)

Process ==
    StartWrite \/ Serve \/ ServeFails \/ BeginClose \/ CloseRuntime \/ Exit \/ Die

Next ==
    \/ Process
    \/ \E h \in Handler : Work(h) \/ Ask(h) \/ Disconnect(h)

\* Mutexes are granted to whoever keeps waiting, and docker commands end.
Locking(h) ==
    \/ ClaimAgain(h) \/ ClaimConflict(h) \/ ClaimNew(h) \/ Stale(h)
    \/ RoutesBegin(h) \/ ReleaseBegin(h) \/ ReleaseDelete(h) \/ ReleaseUndo(h)
    \/ (Reject(h) \/ Stage(h)) /\ UNCHANGED <<daemon, serverVars, handler, historyVars>>

Running(h) ==
    \/ RoutesEnd(h) \/ ReleaseWithdrawn(h) \/ Reply(h)
    \/ /\ ReloadSucceeds(h) \/ ReloadFails(h) \/ Commit(h) \/ Restore(h)
       /\ UNCHANGED <<daemon, serverVars, handler, historyVars>>

Fairness == \A h \in Handler : SF_vars(Locking(h)) /\ WF_vars(Running(h))

Spec == Init /\ [][Next]_vars

FairSpec == Spec /\ Fairness

-----------------------------------------------------------------------------
(* What the daemon promises.                                               *)

\* The runtime canonicalises what the server has canonicalised before it: the
\* second pass changes nothing when no host ends in two dots or more.
HostsCanonical ==
    \A s \in Session :
        canonicalHost(canonicalHost(HostOf[s])) = canonicalHost(HostOf[s])

\* The route runtime only commits routes of the session that owns the host,
\* under the claim it owns it with: no interleaving of a publication, a
\* release and a new claim leaves a committed route behind its claim.
CommittedRouteOwned ==
    \A k \in Host : publications[k] # None =>
        claims[k] # None /\ claims[k].token = publications[k].token

\* "Every visible route has one explainable owner": what Caddy serves while
\* the daemon serves belongs to a claim the daemon knows.
LiveRouteOwned ==
    daemon = "up" => \A k \in Host : live[k] # None =>
        claims[k] # None /\ claims[k].token = live[k].token

\* "One stable host has at most one owner" (the RFC's invariants): a name is
\* published under one claim, with or without a trailing dot in either
\* configuration.  A second dot breaks it: the claims keep the first one, and
\* the runtime takes that off as well.
OneOwnerPerName ==
    \A j, k \in Host :
        /\ claims[j] # None /\ claims[j].published
        /\ claims[k] # None /\ claims[k].published
        /\ j.name = k.name
        => j = k

\* A claim the daemon believes published, and is not withdrawing, is what
\* Caddy serves at its host, also after failed publications and releases.
PublishedIsServed ==
    (stage = "ready" /\ container) => \A k \in Host :
        (claims[k] # None /\ claims[k].published /\ ~claims[k].releasing) =>
            live[k] # None /\ live[k].token = claims[k].token

\* The handler that withdraws and deletes, or reactivates, the claim of req.
Releasing(h) ==
    handler[h].op = "release" /\ handler[h].pc \in {"runtime", "delete", "undo"}

\* A claim is never left in Releasing, where neither its owner nor anyone
\* else can use the host: exactly one handler is at work on it, and will
\* delete it or put it back.
ReleasingHasWorker ==
    \A k \in Host :
        (claims[k] # None /\ claims[k].releasing) =>
            \E h \in Handler :
                /\ Releasing(h) /\ handler[h].req.token = claims[k].token
                /\ \A g \in Handler \ {h} :
                       ~(Releasing(g) /\ handler[g].req = handler[h].req)

\* Fencing: while the process lives, a claim is changed or deleted only by a
\* request that carries its token and generation, and never handed to
\* another session in one step.
OnlyBearerChangesClaim ==
    [][\A k \in Host :
        (stage' # "new" /\ claims[k] # None /\ claims'[k] # claims[k]) =>
            /\ claims'[k] = None \/ claims'[k].token = claims[k].token
            /\ \E h \in Handler :
                /\ handler'[h] # handler[h]
                /\ handler[h].req.token = claims[k].token]_vars

\* An answer is true when it is given: after an accepted publication Caddy
\* serves that publication, and after an accepted release neither the
\* claim nor its route exists any more.
AnswersAreTrue ==
    [][\A h \in Handler :
        LET k == ClaimedHost(h)
            t == handler[h].req.token
        IN  (daemon' = "up" /\ handler[h].pc # "reply" /\ handler'[h].status = "ok") =>
            /\ handler[h].op = "routes" =>
                   live'[k] # None /\ live'[k].token = t
            /\ handler[h].op = "release" =>
                   /\ claims'[k] = None \/ claims'[k].token # t
                   /\ live'[k] = None \/ live'[k].token # t]_vars

\* Every request is answered: no lock is held for ever, no order of the two
\* mutexes deadlocks, no handler starves.  Unless the process dies first.
RequestsAnswered ==
    \A h \in Handler : (handler[h].pc # "idle") ~> (handler[h].pc = "idle")

TokenOf(entry) == IF entry = None THEN None ELSE entry.token

\* Claims and served routes, as the abstract `HostClaims' knows them.
Promise == INSTANCE HostClaims WITH
    Owner   <- Token,
    owner   <- [k \in Host |-> TokenOf(claims[k])],
    visible <- [k \in Host |-> TokenOf(live[k])],
    used    <- 1..lastToken

ImplementsHostClaims == Promise!Spec
=============================================================================
