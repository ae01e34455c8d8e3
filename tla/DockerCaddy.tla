---------------------------- MODULE DockerCaddy ----------------------------
(***************************************************************************)
(* The route runtime: internal/route_runtime/docker_caddy.go.              *)
(*                                                                         *)
(* One Caddy container serves the routes.  The daemon's DockerCaddy object *)
(* keeps the committed table `publications' in memory, renders it into a   *)
(* Caddyfile that is bind-mounted into the container, and asks Caddy to    *)
(* reload that file with `docker exec'.  Several HTTP handlers call        *)
(* Publish and Unpublish at the same time; runtime.mu (here rtmu)          *)
(* serialises them.                                                        *)
(*                                                                         *)
(* What a table holds is abstracted to who put it there: the session and   *)
(* the claim token of a publication.  Host names keep the one thing about  *)
(* their spelling that the code does not normalise in one pass, the number *)
(* of trailing dots.                                                       *)
(***************************************************************************)
EXTENDS Naturals

CONSTANTS
    Caller,       \* goroutines that call the runtime (the daemon's handlers)
    Session,      \* sessions of `zerobased up'
    Name,         \* host names, lower case, without trailing dots
    MaxDots,      \* most trailing dots a configured host carries
    HostOf,       \* the host each session's configuration asks for
    Publishable,  \* sessions whose host and routes pass validatePublication
    MaxToken,     \* bound: claim tokens ever handed out
    MaxAttempts,  \* reload attempts; 10 in the code
    MaxStarts,    \* bound: times the daemon process is started
    Faults,       \* which failures the environment injects
    None,         \* the absent map entry, the nil pointer, the free mutex
    Torn          \* the content of a file whose write failed half-way

Host == [name : Name, dots : 0..MaxDots]

FaultKinds == {"write",        \* os.WriteFile fails, perhaps after truncating
               "reload",       \* docker exec fails and Caddy keeps its config
               "lost_reload",  \* docker exec fails after Caddy took the config
               "cancel",       \* the client hangs up: r.Context() is done
               "boot",         \* bootstrap, listen or health file fails
               "crash"}        \* the daemon process dies

Token == 1..MaxToken

\* What the Publish and Unpublish arguments keep of controlplane.Publication.
Publication == [host : Host, session : Session, token : Token]

ASSUME ConstantAssumption ==
    /\ MaxDots \in Nat
    /\ MaxToken \in Nat
    /\ MaxAttempts \in Nat \ {0}
    /\ MaxStarts \in Nat
    /\ HostOf \in [Session -> Host]
    /\ Publishable \subseteq Session
    /\ Faults \subseteq FaultKinds

ASSUME NoneAssumption ==
    /\ None \notin Caller
    /\ None \notin Publication

Table == [Host -> Publication \union {None}]

NoRoutes == [h \in Host |-> None]

\* TrimSpace, ToLower and one TrimSuffix ".": at most one dot goes.
canonicalHost(h) == [h EXCEPT !.dots = IF @ = 0 THEN 0 ELSE @ - 1]

VARIABLES
    publications,  \* runtime.publications
    configFile,    \* the Caddyfile on disk
    live,          \* the configuration Caddy serves
    doubt,         \* history: which of the two the code last failed to set
    container,     \* the container runs
    stage,         \* the daemon's DockerCaddy: "new", "written", "ready"
    starts,        \* how often the daemon has been started
    rtmu,          \* runtime.mu: who holds it
    call,          \* the runtime call of each caller
    ctxDone        \* each caller's context is cancelled

routeVars == <<publications, configFile, live, doubt>>
bootVars == <<container, stage, starts>>
callVars == <<rtmu, call, ctxDone>>
rtVars == <<routeVars, bootVars, callVars>>

NoCall == [pc |-> "idle", kind |-> "none", pub |-> None,
           next |-> NoRoutes, attempt |-> 0, ok |-> FALSE]

Call == [pc : {"idle", "lock", "reload", "commit", "restore", "done"},
         kind : {"none", "publish", "unpublish"},
         pub : Publication \union {None},
         next : Table,
         attempt : 0..MaxAttempts,
         ok : BOOLEAN]

\* Every variable of the runtime holds a value of the kind the code gives it,
\* through every step of a call, a bootstrap or a crash.
RuntimeTypeOK ==
    /\ publications \in Table
    /\ configFile \in Table \union {Torn}
    /\ live \in Table
    /\ doubt \subseteq {"file", "live"}
    /\ container \in BOOLEAN
    /\ stage \in {"new", "written", "ready"}
    /\ starts \in 0..MaxStarts
    /\ rtmu \in Caller \union {None}
    /\ call \in [Caller -> Call]
    /\ ctxDone \in [Caller -> BOOLEAN]

RuntimeInit ==
    /\ publications = NoRoutes
    /\ configFile \in {NoRoutes, Torn}
    /\ live = NoRoutes
    /\ doubt = {}
    /\ container \in BOOLEAN
    /\ stage = "new"
    /\ starts = 0
    /\ rtmu = None
    /\ call = [c \in Caller |-> NoCall]
    /\ ctxDone = [c \in Caller |-> FALSE]

-----------------------------------------------------------------------------
(* Bootstrap and Close.                                                    *)

\* Bootstrap writes the empty table of a new DockerCaddy ...
BootWrite ==
    /\ stage = "new"
    /\ starts < MaxStarts
    /\ starts' = starts + 1
    /\ stage' = "written"
    /\ configFile' = publications
    /\ doubt' = doubt \ {"file"}
    /\ UNCHANGED <<publications, live, container, callVars>>

BootWriteFails ==
    /\ "write" \in Faults
    /\ stage = "new"
    /\ starts < MaxStarts
    /\ starts' = starts + 1
    /\ configFile' \in {configFile, Torn}
    /\ doubt' = doubt \union {"file"}
    /\ UNCHANGED <<publications, live, container, stage, callVars>>

\* ... then starts the container it finds and reloads it, or runs a new one.
BootContainer ==
    /\ stage = "written"
    /\ stage' = "ready"
    /\ container' = TRUE
    /\ live' = configFile
    /\ doubt' = doubt \ {"live"}
    /\ UNCHANGED <<publications, configFile, starts, callVars>>

\* inspect, the label checks, docker start, docker run or the reload fails:
\* the process exits.  Close() does not remove the container, since
\* result.runtime is set only after Bootstrap succeeded.
BootFails ==
    /\ "boot" \in Faults
    /\ stage = "written"
    /\ stage' = "new"
    /\ \/ UNCHANGED <<container, live>>
       \/ container' = TRUE /\ live' = configFile
    /\ UNCHANGED <<publications, configFile, doubt, starts, callVars>>

\* Close: docker rm -f, without runtime.mu.
RemoveContainer ==
    /\ container' = FALSE
    /\ live' = NoRoutes

\* The process ends: memory, locks and calls go; file and container stay.
ProcessEnds ==
    /\ stage' = "new"
    /\ publications' = NoRoutes
    /\ rtmu' = None
    /\ call' = [c \in Caller |-> NoCall]
    /\ ctxDone' = [c \in Caller |-> FALSE]

-----------------------------------------------------------------------------
(* Publish and Unpublish.                                                  *)

BeginCall(c, kind, p) ==
    /\ call[c].pc = "idle"
    /\ call' = [call EXCEPT ![c] =
                    [NoCall EXCEPT !.pc = "lock", !.kind = kind, !.pub = p]]

EndCall(c) ==
    /\ call[c].pc = "done"
    /\ call' = [call EXCEPT ![c] = NoCall]

Key(c) == canonicalHost(call[c].pub.host)

validatePublication(c) == Key(c).dots = 0 /\ call[c].pub.session \in Publishable

\* The table the call wants: a copy of the committed one with its host set
\* or deleted.
NextTable(c) ==
    [publications EXCEPT ![Key(c)] =
        IF call[c].kind = "publish"
        THEN [call[c].pub EXCEPT !.host = Key(c)] ELSE None]

Finish(c, ok) == call' = [call EXCEPT ![c].pc = "done", ![c].ok = ok]

\* Publish of something Caddy could not serve: an error, nothing written.
Reject(c) ==
    /\ call[c].pc = "lock"
    /\ rtmu = None
    /\ call[c].kind = "publish" /\ ~validatePublication(c)
    /\ Finish(c, FALSE)
    /\ UNCHANGED <<routeVars, bootVars, rtmu, ctxDone>>

\* Mutant of Stage: the table is copied and written without runtime.mu.
StageUnlocked(c) ==
    /\ call[c].pc = "lock"
    /\ call[c].kind = "unpublish" \/ validatePublication(c)
    /\ rtmu' = c
    /\ configFile' = NextTable(c)
    /\ doubt' = doubt \ {"file"}
    /\ call' = [call EXCEPT ![c].pc = "reload", ![c].next = NextTable(c)]
    /\ UNCHANGED <<publications, live, bootVars, ctxDone>>

\* Lock, copy the table, change it, write it to the Caddyfile.
Stage(c) ==
    /\ call[c].pc = "lock"
    /\ rtmu = None
    /\ call[c].kind = "unpublish" \/ validatePublication(c)
    /\ rtmu' = c
    /\ configFile' = NextTable(c)
    /\ doubt' = doubt \ {"file"}
    /\ call' = [call EXCEPT ![c].pc = "reload", ![c].next = NextTable(c)]
    /\ UNCHANGED <<publications, live, bootVars, ctxDone>>

\* The write fails: the error is returned and the file is not restored.
StageFails(c) ==
    /\ "write" \in Faults
    /\ call[c].pc = "lock"
    /\ rtmu = None
    /\ call[c].kind = "unpublish" \/ validatePublication(c)
    /\ configFile' \in {configFile, Torn}
    /\ doubt' = doubt \union {"file"}
    /\ Finish(c, FALSE)
    /\ UNCHANGED <<publications, live, bootVars, rtmu, ctxDone>>

ReloadSucceeds(c) ==
    /\ call[c].pc = "reload"
    /\ container
    /\ ~ctxDone[c]
    /\ live' = configFile
    /\ doubt' = doubt \ {"live"}
    /\ call' = [call EXCEPT ![c].pc = "commit"]
    /\ UNCHANGED <<publications, configFile, bootVars, rtmu, ctxDone>>

\* Mutants of AttemptFailed: one attempt too many; success once they run out.
AttemptFailedOffByOne(c) ==
    call' = [call EXCEPT
        ![c].attempt = @ + 1,
        ![c].pc = IF call[c].attempt = MaxAttempts \/ ctxDone[c]
                  THEN "restore" ELSE "reload"]

AttemptFailedCommits(c) ==
    call' = [call EXCEPT
        ![c].attempt = @ + 1,
        ![c].pc = IF call[c].attempt + 1 = MaxAttempts \/ ctxDone[c]
                  THEN "commit" ELSE "reload"]

\* A failed attempt is retried until the attempts or the context run out.
AttemptFailed(c) ==
    call' = [call EXCEPT
        ![c].attempt = @ + 1,
        ![c].pc = IF call[c].attempt + 1 = MaxAttempts \/ ctxDone[c]
                  THEN "restore" ELSE "reload"]

ReloadFails(c) ==
    /\ call[c].pc = "reload"
    /\ "reload" \in Faults \/ ~container \/ ctxDone[c]
    /\ AttemptFailed(c)
    /\ UNCHANGED <<routeVars, bootVars, rtmu, ctxDone>>

\* docker exec is killed or loses its connection after Caddy took the file.
ReloadAppliedUnseen(c) ==
    /\ "lost_reload" \in Faults
    /\ call[c].pc = "reload"
    /\ container
    /\ ~ctxDone[c]
    /\ live' = configFile
    /\ doubt' = doubt \union {"live"}
    /\ AttemptFailed(c)
    /\ UNCHANGED <<publications, configFile, bootVars, rtmu, ctxDone>>

\* The reload was accepted: the staged table becomes the committed one.
Commit(c) ==
    /\ call[c].pc = "commit"
    /\ publications' = call[c].next
    /\ rtmu' = None
    /\ Finish(c, TRUE)
    /\ UNCHANGED <<configFile, live, doubt, bootVars, ctxDone>>

\* Mutant of Restore: a failed reload leaves the staged file.
RestoreForgotten(c) ==
    /\ call[c].pc = "restore"
    /\ rtmu' = None
    /\ Finish(c, FALSE)
    /\ UNCHANGED <<routeVars, bootVars, ctxDone>>

\* The reload failed: the old table goes back to the file, errors ignored.
Restore(c) ==
    /\ call[c].pc = "restore"
    /\ \/ configFile' = publications /\ doubt' = doubt \ {"file"}
       \/ /\ "write" \in Faults
          /\ configFile' \in {configFile, Torn}
          /\ doubt' = doubt \union {"file"}
    /\ rtmu' = None
    /\ Finish(c, FALSE)
    /\ UNCHANGED <<publications, live, bootVars, ctxDone>>

CallStep(c) ==
    \/ Reject(c) \/ Stage(c) \/ StageFails(c)
    \/ ReloadSucceeds(c) \/ ReloadFails(c) \/ ReloadAppliedUnseen(c)
    \/ Commit(c) \/ Restore(c)

Cancel(c) ==
    /\ "cancel" \in Faults
    /\ ~ctxDone[c]
    /\ ctxDone' = [ctxDone EXCEPT ![c] = TRUE]
    /\ UNCHANGED <<routeVars, bootVars, rtmu, call>>

-----------------------------------------------------------------------------
(* The runtime on its own, under any calls: the daemon is one caller of it *)
(* and `ControlPlane' composes the two.                                    *)

Offer(s, t) == [host |-> canonicalHost(HostOf[s]), session |-> s, token |-> t]

Crash ==
    /\ "crash" \in Faults
    /\ stage # "new"
    /\ ProcessEnds
    /\ UNCHANGED <<configFile, live, doubt, container, starts>>

Call1(c) ==
    /\ stage = "ready"
    /\ \E s \in Session, t \in Token, kind \in {"publish", "unpublish"} :
           BeginCall(c, kind, Offer(s, t))
    /\ UNCHANGED <<routeVars, bootVars, rtmu, ctxDone>>

Return(c) ==
    /\ EndCall(c)
    /\ ctxDone' = [ctxDone EXCEPT ![c] = FALSE]
    /\ UNCHANGED <<routeVars, bootVars, rtmu>>

RuntimeNext ==
    \/ BootWrite \/ BootWriteFails \/ BootContainer \/ BootFails \/ Crash
    \/ \E c \in Caller : Call1(c) \/ CallStep(c) \/ Cancel(c) \/ Return(c)

RuntimeSpec == RuntimeInit /\ [][RuntimeNext]_rtVars

-----------------------------------------------------------------------------
(* What the runtime promises.                                              *)

\* A call that takes the mutex never works from a table somebody else has
\* replaced meanwhile: the copy it will commit differs from the committed
\* table at its own host only.  (Publish and Unpublish copy the map after
\* taking runtime.mu, docker_caddy.go:143-159 and :164-177.)
NoLostUpdate ==
    \A c \in Caller : call[c].pc \in {"reload", "commit"} =>
        \A h \in Host \ {Key(c)} : call[c].next[h] = publications[h]

\* Where Caddy serves something else than what is committed.
Astray == {h \in Host : live[h] # publications[h]}

\* While no call holds runtime.mu, the Caddyfile a restarted container would
\* read and the configuration Caddy serves both are the committed table, after
\* any mix of failed and successful calls, crashes and restarts.  The code can
\* be wrong about one of them in one way each: the last write of the file
\* failed, or a reload reported as failed has taken effect; the next write, or
\* the next confirmed reload, mends it.  However many such reloads there were,
\* one host at most is served otherwise than committed.
QuietMeansConsistent ==
    (stage = "ready" /\ rtmu = None) =>
        /\ "file" \notin doubt => configFile = publications
        /\ container =>
            /\ "live" \notin doubt => live = publications
            /\ \A j, k \in Astray : j = k

\* The committed table only moves to a table Caddy has confirmed (or is
\* dropped with the process): runtime.publications = next follows a reload
\* that returned nil, with nobody reloading something else in between.
CommitFollowsReload ==
    [][(publications' # publications /\ stage' = "ready")
          => live = publications']_rtVars

\* The runtime as its callers see it: an atomic table per host.
Abstract == INSTANCE RouteTable WITH table <- publications
ImplementsRouteTable == Abstract!Spec
=============================================================================
