------------------------- MODULE DockerCaddyProofs -------------------------
(***************************************************************************)
(* Proofs about the route runtime.  RuntimeInv is preserved by every step  *)
(* a DockerCaddy can take, whoever calls it: the lemmas below are used for *)
(* the runtime alone and again for the daemon (`ControlPlaneProofs').      *)
(***************************************************************************)
EXTENDS DockerCaddy, TLAPS

Holding == {"reload", "commit", "restore"}

\* runtime.mu is held by exactly the call between its write and its end.
RuntimeLock == \A c \in Caller : (rtmu = c) <=> (call[c].pc \in Holding)

\* Calls exist only in a bootstrapped runtime, and are about something.
CallsPlaced ==
    /\ stage # "ready" => publications = NoRoutes
    /\ \A c \in Caller : call[c].pc # "idle" =>
           /\ stage = "ready"
           /\ call[c].kind # "none"
           /\ call[c].pub \in Publication
    /\ \A c \in Caller : /\ call[c].pc = "lock" => call[c].attempt = 0
                         /\ call[c].pc = "reload" => call[c].attempt < MaxAttempts

\* What a reload reads was rendered from the copy its call will commit.
FileStaged ==
    /\ stage = "written" => configFile = publications
    /\ \A c \in Caller : call[c].pc \in {"reload", "commit"} =>
           call[c].next = NextTable(c)
    /\ \A c \in Caller : call[c].pc \in {"reload", "commit"} =>
           configFile = call[c].next

\* What Caddy serves, with respect to the committed table.
LiveFollows ==
    /\ \A c \in Caller : (call[c].pc = "commit" /\ container) => live = call[c].next
    /\ (stage = "ready" /\ container /\ "live" \notin doubt /\
           \A c \in Caller : call[c].pc # "commit") => live = publications

\* The Caddyfile of an idle runtime.
FileFollows ==
    (stage = "ready" /\ rtmu = None /\ "file" \notin doubt) =>
        configFile = publications

RuntimeInv ==
    RuntimeTypeOK /\ RuntimeLock /\ CallsPlaced /\ FileStaged /\ LiveFollows
    /\ FileFollows

-----------------------------------------------------------------------------
(* What the helpers return.                                                *)

LEMMA CanonicalType == \A h \in Host : canonicalHost(h) \in Host
  BY ConstantAssumption, SMT DEF Host, canonicalHost

LEMMA NoRoutesType == NoRoutes \in Table
  BY DEF NoRoutes, Table

LEMMA NoCallType ==
  NoCall \in Call /\ NoCall.pc = "idle" /\ NoCall.attempt = 0
<1>1. NoCall \in Call
  BY NoRoutesType, ConstantAssumption, SMT DEF NoCall, Call
<1> QED
  BY <1>1 DEF NoCall

LEMMA KeyType ==
  ASSUME NEW c \in Caller, call[c].pub \in Publication
  PROVE  Key(c) \in Host
  BY CanonicalType DEF Key, Publication

LEMMA NextTableType ==
  ASSUME NEW c \in Caller, call[c].pub \in Publication, publications \in Table
  PROVE  NextTable(c) \in Table
<1>1. [call[c].pub EXCEPT !.host = Key(c)] \in Publication
  BY KeyType DEF Publication
<1> QED
  BY <1>1, KeyType DEF NextTable, Table

LEMMA SameNextTable ==
  ASSUME NEW c \in Caller, UNCHANGED publications,
         call'[c].kind = call[c].kind, call'[c].pub = call[c].pub
  PROVE  NextTable(c)' = NextTable(c)
<1>1. Key(c)' = Key(c)
  BY DEF Key
<1> QED
  BY <1>1 DEF NextTable

LEMMA InitRuntimeInv == RuntimeInit => RuntimeInv
<1> SUFFICES ASSUME RuntimeInit PROVE RuntimeInv
  OBVIOUS
<1>1. RuntimeTypeOK
  <2>1. starts \in 0..MaxStarts
    BY ConstantAssumption, SMT DEF RuntimeInit
  <2>2. /\ publications \in Table /\ live \in Table
        /\ configFile \in Table \union {Torn}
    BY NoRoutesType, Zenon DEF RuntimeInit
  <2>3. container \in BOOLEAN
    BY Zenon DEF RuntimeInit
  <2>4. /\ stage \in {"new", "written", "ready"} /\ rtmu \in Caller \union {None}
        /\ doubt \subseteq {"file", "live"}
    BY DEF RuntimeInit
  <2>5. call \in [Caller -> Call]
    BY NoCallType, Zenon DEF RuntimeInit
  <2>6. ctxDone \in [Caller -> BOOLEAN]
    BY Zenon DEF RuntimeInit
  <2> QED
    BY <2>1, <2>2, <2>3, <2>4, <2>5, <2>6 DEF RuntimeTypeOK
<1>2. RuntimeLock
  BY NoneAssumption, NoCallType DEF RuntimeInit, RuntimeLock, Holding
<1>3. CallsPlaced /\ FileStaged /\ LiveFollows /\ FileFollows
  BY NoCallType DEF RuntimeInit, CallsPlaced, FileStaged, LiveFollows, FileFollows
<1> QED
  BY <1>1, <1>2, <1>3 DEF RuntimeInv

-----------------------------------------------------------------------------
(* Bootstrap, Close and death.                                             *)

LEMMA BootKeepsInv ==
  RuntimeInv /\ (BootWrite \/ BootWriteFails \/ BootContainer \/ BootFails)
    => RuntimeInv'
<1> SUFFICES ASSUME RuntimeInv,
                    BootWrite \/ BootWriteFails \/ BootContainer \/ BootFails
             PROVE  RuntimeInv'
  OBVIOUS
<1> USE DEF RuntimeInv, callVars
<1>1. stage # "ready" /\ \A c \in Caller : call[c].pc = "idle"
  BY DEF BootWrite, BootWriteFails, BootContainer, BootFails, CallsPlaced
<1>2. RuntimeTypeOK'
  <2>1. starts' \in 0..MaxStarts
    BY ConstantAssumption, SMT DEF BootWrite, BootWriteFails, BootContainer, BootFails,
       RuntimeTypeOK
  <2>2. configFile' \in Table \union {Torn} /\ live' \in Table
    BY DEF BootWrite, BootWriteFails, BootContainer, BootFails, RuntimeTypeOK,
       FileStaged
  <2>3. container' \in BOOLEAN
    BY Zenon DEF BootWrite, BootWriteFails, BootContainer, BootFails, RuntimeTypeOK
  <2> QED
    BY <2>1, <2>2, <2>3 DEF BootWrite, BootWriteFails, BootContainer, BootFails,
       RuntimeTypeOK
<1>3. RuntimeLock' /\ CallsPlaced'
  BY <1>1 DEF BootWrite, BootWriteFails, BootContainer, BootFails, RuntimeLock,
     CallsPlaced
<1>4. FileStaged'
  BY <1>1 DEF BootWrite, BootWriteFails, BootContainer, BootFails, FileStaged
<1>5. LiveFollows' /\ FileFollows'
  BY <1>1 DEF BootWrite, BootWriteFails, BootContainer, BootFails, LiveFollows,
     FileFollows, FileStaged
<1> QED
  BY <1>2, <1>3, <1>4, <1>5

LEMMA EndKeepsInv ==
  ASSUME RuntimeInv, ProcessEnds, UNCHANGED <<configFile, doubt, starts>>,
         live' \in {live, NoRoutes}, container' \in BOOLEAN
  PROVE  RuntimeInv'
<1> USE DEF RuntimeInv, ProcessEnds
<1>1. \A c \in Caller : call'[c].pc = "idle"
  BY NoCallType
<1>2. RuntimeTypeOK'
  <2>1. call' \in [Caller -> Call]
    BY NoCallType, Zenon
  <2>2. ctxDone' \in [Caller -> BOOLEAN]
    BY Zenon
  <2>3. live' \in Table /\ publications' \in Table
    BY NoRoutesType DEF RuntimeTypeOK
  <2> QED
    BY <2>1, <2>2, <2>3 DEF RuntimeTypeOK
<1>3. RuntimeLock'
  BY <1>1, NoneAssumption DEF RuntimeLock, Holding
<1>4. CallsPlaced' /\ FileStaged' /\ LiveFollows' /\ FileFollows'
  BY <1>1 DEF CallsPlaced, FileStaged, LiveFollows, FileFollows
<1> QED
  BY <1>2, <1>3, <1>4

LEMMA RemoveKeepsInv ==
  ASSUME RuntimeInv, RemoveContainer,
         UNCHANGED <<publications, configFile, doubt, stage, starts, callVars>>
  PROVE  RuntimeInv'
<1> USE DEF RuntimeInv, RemoveContainer, callVars
<1>1. RuntimeTypeOK'
  BY NoRoutesType DEF RuntimeTypeOK
<1>2. RuntimeLock' /\ CallsPlaced'
  BY DEF RuntimeLock, CallsPlaced
<1>3. FileStaged'
  BY DEF FileStaged, NextTable, Key
<1>4. LiveFollows' /\ FileFollows'
  BY DEF LiveFollows, FileFollows
<1> QED
  BY <1>1, <1>2, <1>3, <1>4

-----------------------------------------------------------------------------
(* Calls.                                                                  *)

LEMMA ContextKeepsInv ==
  ASSUME RuntimeInv, ctxDone' \in [Caller -> BOOLEAN],
         UNCHANGED <<routeVars, bootVars, rtmu, call>>
  PROVE  RuntimeInv'
<1> USE DEF RuntimeInv, routeVars, bootVars
<1>1. RuntimeTypeOK'
  BY DEF RuntimeTypeOK
<1>2. RuntimeLock' /\ CallsPlaced'
  BY DEF RuntimeLock, CallsPlaced
<1>3. FileStaged'
  BY DEF FileStaged, NextTable, Key
<1>4. LiveFollows' /\ FileFollows'
  BY DEF LiveFollows, FileFollows
<1> QED
  BY <1>1, <1>2, <1>3, <1>4

LEMMA BeginKeepsInv ==
  ASSUME RuntimeInv, stage = "ready",
         NEW c \in Caller, NEW p \in Publication,
         NEW kind \in {"publish", "unpublish"}, BeginCall(c, kind, p),
         UNCHANGED <<routeVars, bootVars, rtmu>>,
         ctxDone' \in [Caller -> BOOLEAN]
  PROVE  RuntimeInv'
<1> USE DEF RuntimeInv, BeginCall, routeVars, bootVars
<1> DEFINE new == [NoCall EXCEPT !.pc = "lock", !.kind = kind, !.pub = p]
<1>1. new \in Call
  BY NoCallType DEF Call
<1>2. new.pc = "lock" /\ new.kind = kind /\ new.pub = p /\ new.attempt = 0
  BY NoCallType DEF Call
<1> HIDE DEF new
<1>3. call[c].pc = "idle" /\ call' = [call EXCEPT ![c] = new]
  BY DEF new
<1>4. RuntimeTypeOK'
  BY <1>1, <1>3 DEF RuntimeTypeOK
<1>5. call'[c] = new /\ \A d \in Caller \ {c} : call'[d] = call[d]
  BY <1>3 DEF RuntimeTypeOK
<1>6. RuntimeLock' /\ CallsPlaced'
  <2>1. RuntimeLock'
    BY <1>2, <1>3, <1>5 DEF RuntimeLock, Holding
  <2>2. CallsPlaced'
    BY <1>2, <1>5 DEF CallsPlaced
  <2> QED
    BY <2>1, <2>2
<1>7. FileStaged'
  BY <1>2, <1>5 DEF FileStaged, NextTable, Key
<1>8. LiveFollows' /\ FileFollows'
  BY <1>2, <1>3, <1>5 DEF LiveFollows, FileFollows
<1> QED
  BY <1>4, <1>6, <1>7, <1>8

LEMMA EndCallKeepsInv ==
  ASSUME RuntimeInv, NEW c \in Caller, EndCall(c),
         UNCHANGED <<routeVars, bootVars, rtmu>>,
         ctxDone' \in [Caller -> BOOLEAN]
  PROVE  RuntimeInv'
<1> USE DEF RuntimeInv, EndCall, routeVars, bootVars
<1>1. RuntimeTypeOK'
  BY NoCallType DEF RuntimeTypeOK
<1>2. call'[c] = NoCall /\ \A d \in Caller \ {c} : call'[d] = call[d]
  BY DEF RuntimeTypeOK
<1>3. RuntimeLock' /\ CallsPlaced'
  BY <1>2, NoCallType DEF RuntimeLock, CallsPlaced, Holding
<1>4. FileStaged'
  BY <1>2, NoCallType DEF FileStaged, NextTable, Key
<1>5. LiveFollows' /\ FileFollows'
  BY <1>2, NoCallType DEF LiveFollows, FileFollows
<1> QED
  BY <1>1, <1>3, <1>4, <1>5

\* A call that ends without changing the table: rejected, or its write failed.
LEMMA RefuseKeepsInv ==
  ASSUME RuntimeInv, NEW c \in Caller, Reject(c) \/ StageFails(c)
  PROVE  RuntimeInv'
<1> USE DEF RuntimeInv, Reject, StageFails, Finish, routeVars, bootVars
<1>1. /\ call[c] \in Call /\ call[c].pc = "lock"
      /\ call' = [call EXCEPT ![c] = [call[c] EXCEPT !.pc = "done", !.ok = FALSE]]
  BY DEF RuntimeTypeOK
<1>2. RuntimeTypeOK'
  <2>1. call' \in [Caller -> Call]
    BY <1>1 DEF RuntimeTypeOK, Call
  <2> QED
    BY <2>1 DEF RuntimeTypeOK
<1>3. /\ call'[c].pc = "done"
      /\ call'[c].kind = call[c].kind /\ call'[c].pub = call[c].pub
      /\ \A d \in Caller \ {c} : call'[d] = call[d]
  BY <1>1 DEF RuntimeTypeOK, Call
<1>4. rtmu = None /\ rtmu' = None
  OBVIOUS
<1>5. RuntimeLock' /\ CallsPlaced'
  BY <1>1, <1>3, <1>4 DEF RuntimeLock, CallsPlaced, Holding
<1>6. \A d \in Caller : call'[d].pc \notin Holding /\ call[d].pc \notin Holding
  BY <1>4, <1>5, NoneAssumption DEF RuntimeLock
<1>7. FileStaged'
  BY <1>1, <1>6 DEF FileStaged, Holding, CallsPlaced
<1>8. LiveFollows' /\ FileFollows'
  BY <1>6 DEF LiveFollows, FileFollows, Holding
<1> QED
  BY <1>2, <1>5, <1>7, <1>8

LEMMA StageKeepsInv ==
  ASSUME RuntimeInv, NEW c \in Caller, Stage(c)
  PROVE  RuntimeInv'
<1> USE DEF RuntimeInv, Stage, bootVars
<1>1. call[c] \in Call /\ call[c].pc = "lock" /\ call[c].pub \in Publication
  BY DEF RuntimeTypeOK, CallsPlaced
<1>2. NextTable(c) \in Table
  BY <1>1, NextTableType DEF RuntimeTypeOK
<1> DEFINE new == [call[c] EXCEPT !.pc = "reload", !.next = NextTable(c)]
<1>3. call' = [call EXCEPT ![c] = new]
  BY DEF RuntimeTypeOK
<1>4. /\ new \in Call /\ new.pc = "reload" /\ new.next = NextTable(c)
      /\ new.kind = call[c].kind /\ new.pub = call[c].pub
      /\ new.attempt = call[c].attempt
  BY <1>1, <1>2 DEF Call
<1> HIDE DEF new
<1>5. call'[c] = new /\ \A d \in Caller \ {c} : call'[d] = call[d]
  BY <1>3 DEF RuntimeTypeOK
<1>6. RuntimeTypeOK'
  <2>1. call' \in [Caller -> Call]
    BY <1>3, <1>4 DEF RuntimeTypeOK
  <2>2. doubt' \subseteq {"file", "live"}
    BY DEF RuntimeTypeOK
  <2> QED
    BY <1>2, <2>1, <2>2 DEF RuntimeTypeOK
<1>7. \A d \in Caller : call[d].pc \notin Holding
  BY NoneAssumption DEF RuntimeLock
<1>8. RuntimeLock'
  BY <1>4, <1>5, <1>7 DEF RuntimeLock, Holding
<1>9. CallsPlaced'
  <2>1. new.attempt = 0 /\ 0 < MaxAttempts
    BY <1>1, <1>4, ConstantAssumption DEF CallsPlaced
  <2>2. stage = "ready" /\ new.kind # "none" /\ new.pub \in Publication
    BY <1>1, <1>4 DEF CallsPlaced
  <2> QED
    BY <1>4, <1>5, <2>1, <2>2 DEF CallsPlaced
<1>10. NextTable(c)' = NextTable(c)
  BY <1>4, <1>5, SameNextTable
<1>11. FileStaged'
  BY <1>1, <1>4, <1>5, <1>7, <1>10 DEF FileStaged, Holding, CallsPlaced
<1>12. LiveFollows' /\ FileFollows'
  BY <1>4, <1>5, <1>7, NoneAssumption DEF LiveFollows, FileFollows, Holding
<1> QED
  BY <1>6, <1>8, <1>9, <1>11, <1>12

\* The call that holds runtime.mu moves on: no other call holds it.
LEMMA HolderIsAlone ==
  ASSUME RuntimeInv, NEW c \in Caller, call[c].pc \in Holding
  PROVE  rtmu = c /\ \A d \in Caller \ {c} : call[d].pc \notin Holding
  BY DEF RuntimeInv, RuntimeLock

LEMMA ReloadSucceedsKeepsInv ==
  ASSUME RuntimeInv, NEW c \in Caller, ReloadSucceeds(c)
  PROVE  RuntimeInv'
<1> USE DEF RuntimeInv, ReloadSucceeds, bootVars
<1> DEFINE new == [call[c] EXCEPT !.pc = "commit"]
<1>1. call[c] \in Call /\ call[c].pc = "reload" /\ call' = [call EXCEPT ![c] = new]
  BY DEF RuntimeTypeOK
<1>2. /\ new \in Call /\ new.pc = "commit" /\ new.next = call[c].next
      /\ new.kind = call[c].kind /\ new.pub = call[c].pub
  BY <1>1 DEF Call
<1> HIDE DEF new
<1>3. call'[c] = new /\ \A d \in Caller \ {c} : call'[d] = call[d]
  BY <1>1 DEF RuntimeTypeOK
<1>4. rtmu = c /\ \A d \in Caller \ {c} : call[d].pc \notin Holding
  BY <1>1, HolderIsAlone DEF Holding
<1>5. configFile = call[c].next /\ call[c].next \in Table
  BY <1>1 DEF FileStaged, Call
<1>6. RuntimeTypeOK'
  BY <1>1, <1>2, <1>5 DEF RuntimeTypeOK
<1>7. RuntimeLock'
  BY <1>2, <1>3, <1>4 DEF RuntimeLock, Holding
<1>8. CallsPlaced'
  BY <1>1, <1>2, <1>3 DEF CallsPlaced
<1>9. FileStaged'
  <2>1. NextTable(c)' = NextTable(c)
    BY <1>2, <1>3, SameNextTable
  <2> QED
    BY <1>1, <1>2, <1>3, <1>4, <1>5, <2>1 DEF FileStaged, CallsPlaced, Holding
<1>10. LiveFollows' /\ FileFollows'
  BY <1>2, <1>3, <1>4, <1>5, NoneAssumption DEF LiveFollows, FileFollows, Holding
<1> QED
  BY <1>6, <1>7, <1>8, <1>9, <1>10

LEMMA ReloadFailsKeepsInv ==
  ASSUME RuntimeInv, NEW c \in Caller, ReloadFails(c) \/ ReloadAppliedUnseen(c)
  PROVE  RuntimeInv'
<1> USE DEF RuntimeInv
<1> DEFINE last == call[c].attempt + 1 = MaxAttempts \/ ctxDone[c]
<1> DEFINE new == [call[c] EXCEPT !.attempt = @ + 1,
                                  !.pc = IF last THEN "restore" ELSE "reload"]
<1>0. /\ call[c].pc = "reload"
      /\ UNCHANGED <<publications, configFile, container, stage, starts, rtmu, ctxDone>>
      /\ \/ UNCHANGED <<live, doubt>>
         \/ live' = configFile /\ doubt' = doubt \union {"live"}
  BY DEF ReloadFails, ReloadAppliedUnseen, routeVars, bootVars
<1>1. call[c] \in Call /\ call' = [call EXCEPT ![c] = new]
  BY DEF RuntimeTypeOK, AttemptFailed, ReloadFails, ReloadAppliedUnseen
<1>2. call[c].attempt \in Nat /\ call[c].attempt < MaxAttempts /\ MaxAttempts \in Nat
  BY <1>0, <1>1, ConstantAssumption, SMT DEF CallsPlaced, Call
<1>3. /\ new.pc = (IF last THEN "restore" ELSE "reload")
      /\ new.attempt = call[c].attempt + 1 /\ new.next = call[c].next
      /\ new.kind = call[c].kind /\ new.pub = call[c].pub
  BY <1>1 DEF Call
<1>4. new \in Call
  <2>1. call[c].attempt + 1 \in 0..MaxAttempts
    BY <1>2, SMT
  <2> QED
    BY <1>1, <2>1 DEF Call
<1>5. new.pc \in {"reload", "restore"}
      /\ (new.pc = "reload" => new.attempt < MaxAttempts)
  BY <1>2, <1>3, SMT
<1> HIDE DEF new, last
<1>6. call'[c] = new /\ \A d \in Caller \ {c} : call'[d] = call[d]
  BY <1>1 DEF RuntimeTypeOK
<1>7. rtmu = c /\ \A d \in Caller \ {c} : call[d].pc \notin Holding
  BY <1>0, HolderIsAlone DEF Holding
<1>8. configFile = call[c].next /\ call[c].next \in Table
  BY <1>0, <1>1 DEF FileStaged, Call
<1>9. RuntimeTypeOK'
  BY <1>0, <1>1, <1>4, <1>8 DEF RuntimeTypeOK
<1>10. RuntimeLock'
  BY <1>0, <1>5, <1>6, <1>7 DEF RuntimeLock, Holding
<1>11. CallsPlaced'
  <2>1. stage = "ready" /\ new.kind # "none" /\ new.pub \in Publication
    BY <1>0, <1>3 DEF CallsPlaced
  <2> QED
    BY <1>0, <1>5, <1>6, <2>1 DEF CallsPlaced
<1>12. FileStaged'
  <2>1. NextTable(c)' = NextTable(c)
    BY <1>0, <1>3, <1>6, SameNextTable
  <2> QED
    BY <1>0, <1>3, <1>5, <1>6, <1>7, <1>8, <2>1 DEF FileStaged, CallsPlaced, Holding
<1>13. LiveFollows'
  BY <1>0, <1>5, <1>6, <1>7 DEF LiveFollows, Holding
<1>14. FileFollows'
  BY <1>0, <1>7, NoneAssumption DEF FileFollows
<1> QED
  BY <1>9, <1>10, <1>11, <1>12, <1>13, <1>14

\* The call gives runtime.mu back, having committed or restored the table.
LEMMA UnlockKeepsInv ==
  ASSUME RuntimeInv, NEW c \in Caller, Commit(c) \/ Restore(c)
  PROVE  RuntimeInv'
<1> USE DEF RuntimeInv, bootVars
<1> DEFINE new == [call[c] EXCEPT !.pc = "done", !.ok = (call[c].pc = "commit")]
<1>1. call[c] \in Call /\ call' = [call EXCEPT ![c] = new] /\ call[c].pc \in Holding
  BY DEF RuntimeTypeOK, Commit, Restore, Finish, Holding
<1>2. new \in Call /\ new.pc = "done" /\ new.kind = call[c].kind /\ new.pub = call[c].pub
  BY <1>1 DEF Call
<1> HIDE DEF new
<1>3. call'[c] = new /\ \A d \in Caller \ {c} : call'[d] = call[d]
  BY <1>1 DEF RuntimeTypeOK
<1>4. rtmu = c /\ \A d \in Caller \ {c} : call[d].pc \notin Holding
  BY <1>1, HolderIsAlone
<1>5. rtmu' = None /\ UNCHANGED <<live, container, stage, starts, ctxDone>>
  BY DEF Commit, Restore
<1>6. /\ call[c].pc = "commit" => /\ publications' = call[c].next
                                  /\ UNCHANGED configFile
                                  /\ configFile = call[c].next
                                  /\ call[c].next \in Table
      /\ call[c].pc # "commit" => UNCHANGED publications
      /\ "file" \notin doubt' => configFile' = publications'
      /\ doubt' \subseteq {"file", "live"}
      /\ ("live" \in doubt') <=> ("live" \in doubt)
      /\ configFile' \in Table \union {Torn}
      /\ stage = "ready"
  BY <1>1 DEF Commit, Restore, FileStaged, RuntimeTypeOK, CallsPlaced, Call
<1>7. RuntimeTypeOK'
  BY <1>1, <1>2, <1>5, <1>6 DEF RuntimeTypeOK
<1>8. \A d \in Caller : call'[d].pc \notin Holding
  BY <1>2, <1>3, <1>4 DEF Holding
<1>9. RuntimeLock'
  BY <1>5, <1>8, NoneAssumption DEF RuntimeLock
<1>10. CallsPlaced'
  BY <1>1, <1>2, <1>3, <1>5, <1>6 DEF CallsPlaced, Holding
<1>11. FileStaged'
  BY <1>5, <1>6, <1>8 DEF FileStaged, Holding
<1>12. LiveFollows' /\ FileFollows'
  <2>1. CASE call[c].pc = "commit"
    BY <1>5, <1>6, <1>8, <2>1 DEF LiveFollows, FileFollows, Holding
  <2>2. CASE call[c].pc # "commit"
    <3>1. \A d \in Caller : call[d].pc # "commit"
      BY <1>4, <2>2 DEF Holding
    <3> QED
      BY <1>5, <1>6, <1>8, <2>2, <3>1 DEF LiveFollows, FileFollows, Holding
  <2> QED
    BY <2>1, <2>2
<1> QED
  BY <1>7, <1>9, <1>10, <1>11, <1>12

LEMMA CallStepKeepsInv ==
  ASSUME RuntimeInv, NEW c \in Caller, CallStep(c)
  PROVE  RuntimeInv'
  BY RefuseKeepsInv, StageKeepsInv, ReloadSucceedsKeepsInv, ReloadFailsKeepsInv,
     UnlockKeepsInv DEF CallStep

-----------------------------------------------------------------------------
(* Reloads that take effect unseen.                                        *)

\* What Caddy serves differs from the committed table at one host at most: a
\* reload, whatever becomes of it, replaces all that an earlier one has left.
OneAstray == (stage = "ready" /\ container) => \A j, k \in Astray : j = k

LEMMA ReloadLeavesOneAstray ==
  ASSUME RuntimeInv, NEW c \in Caller, ReloadSucceeds(c) \/ ReloadAppliedUnseen(c)
  PROVE  OneAstray'
<1>1. call[c].pc = "reload" /\ live' = configFile /\ UNCHANGED publications
  BY DEF ReloadSucceeds, ReloadAppliedUnseen
<1>2. live' = NextTable(c) /\ publications \in Table
  BY <1>1 DEF RuntimeInv, RuntimeTypeOK, FileStaged
<1>3. \A h \in Host \ {Key(c)} : live'[h] = publications'[h]
  BY <1>1, <1>2 DEF NextTable, Table
<1> QED
  BY <1>3 DEF OneAstray, Astray

LEMMA CommitLeavesNoneAstray ==
  ASSUME RuntimeInv, NEW c \in Caller, Commit(c)
  PROVE  OneAstray'
<1>1. /\ call[c].pc = "commit" /\ publications' = call[c].next
      /\ UNCHANGED <<live, container>>
  BY DEF Commit, bootVars
<1>2. container => live = call[c].next
  BY <1>1 DEF RuntimeInv, LiveFollows
<1> QED
  BY <1>1, <1>2 DEF OneAstray, Astray

\* A bootstrapped container reads the table of a new object.
LEMMA BootLeavesNoneAstray ==
  ASSUME RuntimeInv, BootContainer
  PROVE  OneAstray'
<1>1. live' = publications'
  BY DEF BootContainer, RuntimeInv, FileStaged
<1> QED
  BY <1>1 DEF OneAstray, Astray

\* What any other step does to the four.
LEMMA SameAstray ==
  ASSUME OneAstray,
         \/ UNCHANGED <<publications, live, stage, container>>
         \/ stage' # "ready"
         \/ ~container'
  PROVE  OneAstray'
  BY DEF OneAstray, Astray

LEMMA CallStepKeepsOneAstray ==
  ASSUME RuntimeInv, OneAstray, NEW c \in Caller, CallStep(c)
  PROVE  OneAstray'
<1>1. CASE ReloadSucceeds(c) \/ ReloadAppliedUnseen(c)
  BY <1>1, ReloadLeavesOneAstray
<1>2. CASE Commit(c)
  BY <1>2, CommitLeavesNoneAstray
<1>3. CASE Reject(c) \/ Stage(c) \/ StageFails(c) \/ ReloadFails(c) \/ Restore(c)
  BY <1>3, SameAstray
     DEF Reject, Stage, StageFails, ReloadFails, Restore, routeVars, bootVars
<1> QED
  BY <1>1, <1>2, <1>3 DEF CallStep

LEMMA BootKeepsOneAstray ==
  ASSUME RuntimeInv, OneAstray, BootWrite \/ BootWriteFails \/ BootContainer \/ BootFails
  PROVE  OneAstray'
<1>1. CASE BootContainer
  BY <1>1, BootLeavesNoneAstray
<1>2. CASE BootWrite \/ BootWriteFails \/ BootFails
  BY <1>2, SameAstray DEF BootWrite, BootWriteFails, BootFails
<1> QED
  BY <1>1, <1>2

-----------------------------------------------------------------------------
(* The runtime on its own.                                                 *)

\* Without Close, a bootstrapped runtime has its container.
AloneInv == RuntimeInv /\ OneAstray /\ (stage = "ready" => container = TRUE)

LEMMA OfferType == \A s \in Session, t \in Token : Offer(s, t) \in Publication
  BY CanonicalType, ConstantAssumption DEF Offer, Publication

LEMMA RuntimeNextKeepsInv == AloneInv /\ [RuntimeNext]_rtVars => AloneInv'
<1> SUFFICES ASSUME AloneInv, [RuntimeNext]_rtVars PROVE AloneInv'
  OBVIOUS
<1> USE DEF AloneInv
<1>a. OneAstray'
  <2>1. CASE BootWrite \/ BootWriteFails \/ BootContainer \/ BootFails
    BY <2>1, BootKeepsOneAstray
  <2>2. ASSUME NEW c \in Caller, CallStep(c) PROVE OneAstray'
    BY <2>2, CallStepKeepsOneAstray
  <2>3. CASE Crash
    BY <2>3, SameAstray DEF Crash, ProcessEnds
  <2>4. CASE UNCHANGED rtVars \/ \E c \in Caller : Call1(c) \/ Cancel(c) \/ Return(c)
    BY <2>4, SameAstray DEF rtVars, routeVars, bootVars, Call1, Cancel, Return
  <2> QED
    BY <2>1, <2>2, <2>3, <2>4 DEF RuntimeNext
<1>t. ctxDone \in [Caller -> BOOLEAN]
  BY DEF RuntimeInv, RuntimeTypeOK
<1>1. CASE BootWrite \/ BootWriteFails \/ BootContainer \/ BootFails
  <2>1. RuntimeInv'
    BY <1>1, BootKeepsInv
  <2> QED
    BY <1>a, <1>1, <2>1 DEF BootWrite, BootWriteFails, BootContainer, BootFails
<1>2. CASE Crash
  <2>1. container' \in BOOLEAN
    BY <1>2 DEF Crash, RuntimeInv, RuntimeTypeOK
  <2>2. RuntimeInv'
    BY <1>2, <2>1, EndKeepsInv DEF Crash
  <2> QED
    BY <1>a, <1>2, <2>2 DEF Crash, ProcessEnds
<1>3. ASSUME NEW c \in Caller, Call1(c) PROVE AloneInv'
  <2>1. PICK p \in Publication, kind \in {"publish", "unpublish"} : BeginCall(c, kind, p)
    BY <1>3, OfferType DEF Call1
  <2>2. RuntimeInv'
    BY <1>t, <1>3, <2>1, BeginKeepsInv DEF Call1
  <2> QED
    BY <1>a, <1>3, <2>2 DEF Call1, bootVars
<1>4. ASSUME NEW c \in Caller, CallStep(c) PROVE AloneInv'
  <2>1. UNCHANGED <<container, stage>>
    BY <1>4 DEF CallStep, Reject, Stage, StageFails, ReloadSucceeds, ReloadFails,
       ReloadAppliedUnseen, Commit, Restore, bootVars
  <2> QED
    BY <1>a, <1>4, <2>1, CallStepKeepsInv
<1>5. ASSUME NEW c \in Caller, Cancel(c) PROVE AloneInv'
  <2>1. ctxDone' \in [Caller -> BOOLEAN]
    BY <1>t, <1>5 DEF Cancel
  <2>2. RuntimeInv'
    BY <1>5, <2>1, ContextKeepsInv DEF Cancel
  <2> QED
    BY <1>a, <1>5, <2>2 DEF Cancel, bootVars
<1>6. ASSUME NEW c \in Caller, Return(c) PROVE AloneInv'
  <2>1. ctxDone' \in [Caller -> BOOLEAN]
    BY <1>t, <1>6 DEF Return
  <2>2. RuntimeInv'
    BY <1>6, <2>1, EndCallKeepsInv DEF Return
  <2> QED
    BY <1>a, <1>6, <2>2 DEF Return, bootVars
<1>7. CASE UNCHANGED rtVars
  <2>1. RuntimeInv'
    BY <1>t, <1>7, ContextKeepsInv DEF rtVars, routeVars, bootVars, callVars
  <2> QED
    BY <1>a, <1>7, <2>1 DEF rtVars, bootVars
<1> QED
  BY <1>1, <1>2, <1>3, <1>4, <1>5, <1>6, <1>7 DEF RuntimeNext

LEMMA AloneInvHolds == RuntimeSpec => []AloneInv
<1>1. RuntimeInit => AloneInv
  BY InitRuntimeInv DEF AloneInv, RuntimeInit, OneAstray
<1> QED
  BY <1>1, RuntimeNextKeepsInv, PTL DEF RuntimeSpec

\* The runtime's variables keep their types.
THEOREM RuntimeTypeCorrect == RuntimeSpec => []RuntimeTypeOK
<1>1. AloneInv => RuntimeTypeOK
  BY DEF AloneInv, RuntimeInv
<1> QED
  BY <1>1, AloneInvHolds, PTL

\* No call commits a table that forgets what another call committed.
THEOREM NoUpdateLost == RuntimeSpec => []NoLostUpdate
<1>1. AloneInv => NoLostUpdate
  <2> SUFFICES ASSUME AloneInv, NEW c \in Caller, call[c].pc \in {"reload", "commit"},
                      NEW h \in Host \ {Key(c)}
               PROVE  call[c].next[h] = publications[h]
    BY DEF NoLostUpdate
  <2>1. call[c].next = NextTable(c) /\ publications \in Table
    BY DEF AloneInv, RuntimeInv, FileStaged, RuntimeTypeOK
  <2> QED
    BY <2>1 DEF NextTable, Table
<1> QED
  BY <1>1, AloneInvHolds, PTL

\* File, memory and Caddy agree whenever no call is in the critical section.
THEOREM QuietRuntimeConsistent == RuntimeSpec => []QuietMeansConsistent
<1>1. AloneInv => QuietMeansConsistent
  <2> SUFFICES ASSUME AloneInv, stage = "ready", rtmu = None
               PROVE  /\ "file" \notin doubt => configFile = publications
                      /\ container =>
                           /\ "live" \notin doubt => live = publications
                           /\ \A j, k \in Astray : j = k
    BY DEF QuietMeansConsistent
  <2>1. \A c \in Caller : call[c].pc # "commit"
    BY NoneAssumption DEF AloneInv, RuntimeInv, RuntimeLock, Holding
  <2> QED
    BY <2>1 DEF AloneInv, RuntimeInv, FileFollows, LiveFollows, OneAstray
<1> QED
  BY <1>1, AloneInvHolds, PTL

\* Memory only takes over what Caddy serves, even if reloads may take effect
\* and still be reported as failed.
THEOREM CommitsFollowReloads == RuntimeSpec => CommitFollowsReload
<1> DEFINE A == (publications' # publications /\ stage' = "ready") => live = publications'
<1>1. AloneInv /\ [RuntimeNext]_rtVars => [A]_rtVars
  <2> SUFFICES ASSUME AloneInv, RuntimeNext, publications' # publications,
                      stage' = "ready"
               PROVE  live = publications'
    OBVIOUS
  <2>1. ~(BootWrite \/ BootWriteFails \/ BootContainer \/ BootFails \/ Crash)
    BY DEF BootWrite, BootWriteFails, BootContainer, BootFails, Crash, ProcessEnds
  <2>2. PICK c \in Caller : Commit(c)
    BY <2>1 DEF RuntimeNext, Call1, CallStep, Cancel, Return, Reject, Stage,
       StageFails, ReloadSucceeds, ReloadFails, ReloadAppliedUnseen, Restore, routeVars
  <2> QED
    BY <2>2 DEF Commit, AloneInv, RuntimeInv, CallsPlaced, LiveFollows
<1> QED
  BY <1>1, AloneInvHolds, PTL DEF RuntimeSpec, CommitFollowsReload

\* For its callers the runtime is an atomic table: a call changes its own host
\* at one instant, or nothing at all.
THEOREM RuntimeImplementsRouteTable == RuntimeSpec => ImplementsRouteTable
<1>1. RuntimeInit => Abstract!Init
  BY DEF RuntimeInit, Abstract!Init, Abstract!Empty, NoRoutes
<1>2. AloneInv /\ [RuntimeNext]_rtVars => [Abstract!Next]_publications
  <2> SUFFICES ASSUME AloneInv, [RuntimeNext]_rtVars, publications' # publications
               PROVE  Abstract!Next
    OBVIOUS
  <2>1. CASE Crash
    BY <2>1 DEF Crash, ProcessEnds, NoRoutes, Abstract!Next, Abstract!Forget,
       Abstract!Empty
  <2>2. CASE ~Crash
    <3>1. RuntimeNext
      BY DEF rtVars, routeVars
    <3>2. PICK c \in Caller : Commit(c)
      BY <2>2, <3>1 DEF RuntimeNext, BootWrite, BootWriteFails, BootContainer,
         BootFails, Call1, CallStep, Cancel, Return, Reject, Stage, StageFails,
         ReloadSucceeds, ReloadFails, ReloadAppliedUnseen, Restore, routeVars
    <3>3. /\ call[c].pub \in Publication /\ call[c].kind \in {"publish", "unpublish"}
          /\ publications' = NextTable(c)
      BY <3>2 DEF Commit, AloneInv, RuntimeInv, RuntimeTypeOK, CallsPlaced, FileStaged,
         Call
    <3> DEFINE p == [call[c].pub EXCEPT !.host = Key(c)]
    <3>4. Key(c) \in Host /\ p \in Publication /\ p.host = Key(c)
      BY <3>3, KeyType DEF Publication
    <3>5. CASE call[c].kind = "publish"
      <4>1. Abstract!Put(Key(c), p)
        BY <3>3, <3>4, <3>5 DEF NextTable, Abstract!Put
      <4> QED
        BY <3>4, <4>1 DEF Abstract!Next
    <3>6. CASE call[c].kind = "unpublish"
      <4>1. Abstract!Remove(Key(c))
        BY <3>3, <3>6 DEF NextTable, Abstract!Remove
      <4> QED
        BY <3>4, <4>1 DEF Abstract!Next
    <3> QED
      BY <3>3, <3>5, <3>6
  <2> QED
    BY <2>1, <2>2
<1> QED
  BY <1>1, <1>2, AloneInvHolds, PTL DEF RuntimeSpec, ImplementsRouteTable, Abstract!Spec
=============================================================================
