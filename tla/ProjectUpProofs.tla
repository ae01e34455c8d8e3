--------------------------- MODULE ProjectUpProofs ---------------------------
(***************************************************************************)
(* For any projects, files and runs: what becomes of containers, claims    *)
(* and routes.                                                             *)
(*                                                                         *)
(* The inductive invariant ties the phase of a run to its pending defers,  *)
(* and each thing a run may leave behind to the defer that will remove it  *)
(* or to the error that says why it is left.                               *)
(***************************************************************************)
EXTENDS ProjectUpLemmas

-----------------------------------------------------------------------------
(* The stacks of pending defers that occur.                                *)

Unpublished == {<<"release">>, <<"stopCompose", "release">>,
                <<"cleanupProcesses", "release">>,
                <<"cleanupProcesses", "stopCompose", "release">>}

Published == {<<"release", "cleanupProcesses">>,
              <<"release", "cleanupProcesses", "stopCompose">>}

Released == {<< >>, <<"cleanupProcesses">>, <<"stopCompose">>,
             <<"cleanupProcesses", "stopCompose">>}

Stacks == Unpublished \union Published \union Released

WithRelease == Unpublished \union Published

WithStop == {<<"stopCompose">>, <<"cleanupProcesses", "stopCompose">>,
             <<"stopCompose", "release">>,
             <<"cleanupProcesses", "stopCompose", "release">>,
             <<"release", "cleanupProcesses", "stopCompose">>}

WithCleanup == {<<"cleanupProcesses">>, <<"cleanupProcesses", "stopCompose">>,
                <<"cleanupProcesses", "release">>,
                <<"cleanupProcesses", "stopCompose", "release">>,
                <<"release", "cleanupProcesses">>,
                <<"release", "cleanupProcesses", "stopCompose">>}

\* Pushing onto one or two, and all but the last.
LEMMA Pushed ==
  ASSUME NEW S, NEW d \in S, NEW a \in S, NEW b \in S
  PROVE  /\ <<d>> \o << >> = <<d>>
         /\ <<d>> \o <<a>> = <<d, a>>
         /\ <<d>> \o <<a, b>> = <<d, a, b>>
  <1>1. <<d>> \o << >> = <<d>>
    OBVIOUS
  <1>2. <<d>> \o <<a>> = <<d, a>>
    <2> DEFINE s == <<d>> \o <<a>>
    <2>1. <<d>> \in Seq(S) /\ <<a>> \in Seq(S) /\ <<d, a>> \in Seq(S)
      OBVIOUS
    <2>2. s \in Seq(S) /\ Len(s) = 2 /\ s[1] = d /\ s[2] = a
      BY <2>1
    <2>3. \A i \in 1..2 : s[i] = <<d, a>>[i]
      BY <2>2
    <2> HIDE DEF s
    <2>4. s = <<d, a>>
      BY <2>1, <2>2, <2>3, SeqEqual
    <2> QED BY <2>4 DEF s
  <1>3. <<d>> \o <<a, b>> = <<d, a, b>>
    <2> DEFINE s == <<d>> \o <<a, b>>
    <2>1. <<d>> \in Seq(S) /\ <<a, b>> \in Seq(S) /\ <<d, a, b>> \in Seq(S)
      OBVIOUS
    <2>2. s \in Seq(S) /\ Len(s) = 3 /\ s[1] = d /\ s[2] = a /\ s[3] = b
      BY <2>1
    <2>3. \A i \in 1..3 : s[i] = <<d, a, b>>[i]
      BY <2>2
    <2> HIDE DEF s
    <2>4. s = <<d, a, b>>
      BY <2>1, <2>2, <2>3, SeqEqual
    <2> QED BY <2>4 DEF s
  <1> QED BY <1>1, <1>2, <1>3

LEMMA Fronts ==
  ASSUME NEW S, NEW d \in S, NEW a \in S, NEW b \in S
  PROVE  Front(<<d, a>>) = <<d>> /\ Front(<<d, a, b>>) = <<d, a>>
  <1>1. Front(<<d, a>>) = <<d>>
    <2> DEFINE s == SubSeq(<<d, a>>, 1, 1)
    <2>1. s \in Seq(S) /\ Len(s) = 1 /\ s[1] = d /\ <<d>> \in Seq(S)
      OBVIOUS
    <2>2. Len(<<d, a>>) - 1 = 1
      OBVIOUS
    <2> HIDE DEF s
    <2>3. s = <<d>>
      BY <2>1, SeqEqual
    <2> QED BY <2>2, <2>3 DEF s, Front
  <1>2. Front(<<d, a, b>>) = <<d, a>>
    <2> DEFINE s == SubSeq(<<d, a, b>>, 1, 2)
    <2>1. s \in Seq(S) /\ Len(s) = 2 /\ s[1] = d /\ s[2] = a /\ <<d, a>> \in Seq(S)
      OBVIOUS
    <2>2. Len(<<d, a, b>>) - 1 = 2
      OBVIOUS
    <2> HIDE DEF s
    <2>3. \A i \in 1..2 : s[i] = <<d, a>>[i]
      BY <2>1
    <2>4. s = <<d, a>>
      BY <2>1, <2>3, SeqEqual
    <2> QED BY <2>2, <2>4 DEF s, Front
  <1> QED BY <1>1, <1>2

LEMMA DefersPushed ==
  /\ <<"release">> \o << >> = <<"release">>
  /\ <<"stopCompose">> \o <<"release">> = <<"stopCompose", "release">>
  /\ <<"cleanupProcesses">> \o <<"release">> = <<"cleanupProcesses", "release">>
  /\ <<"cleanupProcesses">> \o <<"stopCompose", "release">>
         = <<"cleanupProcesses", "stopCompose", "release">>
  /\ <<"release">> \o Front(<<"cleanupProcesses", "release">>)
         = <<"release", "cleanupProcesses">>
  /\ <<"release">> \o Front(<<"cleanupProcesses", "stopCompose", "release">>)
         = <<"release", "cleanupProcesses", "stopCompose">>
  <1>1. "release" \in Defer /\ "stopCompose" \in Defer /\ "cleanupProcesses" \in Defer
    BY DEF Defer
  <1>2. Front(<<"cleanupProcesses", "release">>) = <<"cleanupProcesses">>
    BY <1>1, Fronts
  <1>3. Front(<<"cleanupProcesses", "stopCompose", "release">>)
            = <<"cleanupProcesses", "stopCompose">>
    BY <1>1, Fronts
  <1>4. /\ <<"release">> \o << >> = <<"release">>
        /\ <<"stopCompose">> \o <<"release">> = <<"stopCompose", "release">>
        /\ <<"cleanupProcesses">> \o <<"release">> = <<"cleanupProcesses", "release">>
    BY <1>1, Pushed
  <1>5. <<"cleanupProcesses">> \o <<"stopCompose", "release">>
            = <<"cleanupProcesses", "stopCompose", "release">>
    BY <1>1, Pushed
  <1>6. <<"release">> \o <<"cleanupProcesses">> = <<"release", "cleanupProcesses">>
    BY <1>1, Pushed
  <1>7. <<"release">> \o <<"cleanupProcesses", "stopCompose">>
            = <<"release", "cleanupProcesses", "stopCompose">>
    BY <1>1, Pushed
  <1> QED BY <1>2, <1>3, <1>4, <1>5, <1>6, <1>7

\* A defer that has run is pending no more, and the others still are.
LEMMA Popped ==
  ASSUME NEW s \in Stacks, s # << >>
  PROVE  /\ Tail(s) \in Stacks
         /\ Tail(s) # s
         /\ Head(s) = "release" => s \in WithRelease
         /\ Head(s) # "release" => (s \in WithRelease <=> Tail(s) \in WithRelease)
         /\ Head(s) # "stopCompose" => (s \in WithStop => Tail(s) \in WithStop)
         /\ Head(s) # "cleanupProcesses" => (s \in WithCleanup => Tail(s) \in WithCleanup)
         /\ Head(s) = "release" => Tail(s) \notin WithRelease
  <1> USE DEF Stacks, Unpublished, Published, Released, WithRelease, WithStop, WithCleanup
  <1>1. CASE s = <<"release">>
    <2>1. Head(s) = "release" /\ Tail(s) = << >> BY <1>1
    <2> QED BY <1>1, <2>1
  <1>2. CASE s = <<"stopCompose", "release">>
    <2>1. Head(s) = "stopCompose" /\ Tail(s) = <<"release">> BY <1>2
    <2> QED BY <1>2, <2>1
  <1>3. CASE s = <<"cleanupProcesses", "release">>
    <2>1. Head(s) = "cleanupProcesses" /\ Tail(s) = <<"release">> BY <1>3
    <2> QED BY <1>3, <2>1
  <1>4. CASE s = <<"cleanupProcesses", "stopCompose", "release">>
    <2>1. Head(s) = "cleanupProcesses" /\ Tail(s) = <<"stopCompose", "release">> BY <1>4
    <2> QED BY <1>4, <2>1
  <1>5. CASE s = <<"release", "cleanupProcesses">>
    <2>1. Head(s) = "release" /\ Tail(s) = <<"cleanupProcesses">> BY <1>5
    <2> QED BY <1>5, <2>1
  <1>6. CASE s = <<"release", "cleanupProcesses", "stopCompose">>
    <2>1. Head(s) = "release" /\ Tail(s) = <<"cleanupProcesses", "stopCompose">> BY <1>6
    <2> QED BY <1>6, <2>1
  <1>7. CASE s = <<"cleanupProcesses">>
    <2>1. Head(s) = "cleanupProcesses" /\ Tail(s) = << >> BY <1>7
    <2> QED BY <1>7, <2>1
  <1>8. CASE s = <<"stopCompose">>
    <2>1. Head(s) = "stopCompose" /\ Tail(s) = << >> BY <1>8
    <2> QED BY <1>8, <2>1
  <1>9. CASE s = <<"cleanupProcesses", "stopCompose">>
    <2>1. Head(s) = "cleanupProcesses" /\ Tail(s) = <<"stopCompose">> BY <1>9
    <2> QED BY <1>9, <2>1
  <1> QED BY <1>1, <1>2, <1>3, <1>4, <1>5, <1>6, <1>7, <1>8, <1>9

\* What each stack holds, for the proofs that do not look into them.
LEMMA StackFacts ==
  /\ Unpublished \union Published \subseteq Stacks
  /\ << >> \in Stacks \ (WithRelease \union WithStop \union WithCleanup)
  /\ Unpublished \union Published \subseteq WithRelease
  /\ <<"release">> \in Unpublished \ (WithStop \union WithCleanup)
  /\ <<"stopCompose", "release">> \in (Unpublished \intersect WithStop) \ WithCleanup
  /\ <<"cleanupProcesses", "release">> \in (Unpublished \intersect WithCleanup) \ WithStop
  /\ <<"cleanupProcesses", "stopCompose", "release">>
         \in Unpublished \intersect WithStop \intersect WithCleanup
  /\ <<"release", "cleanupProcesses">> \in (Published \intersect WithCleanup) \ WithStop
  /\ <<"release", "cleanupProcesses", "stopCompose">>
         \in Published \intersect WithStop \intersect WithCleanup
  BY DEF Stacks, Unpublished, Published, Released, WithRelease, WithStop, WithCleanup

-----------------------------------------------------------------------------
(* Errors.                                                                 *)

Layers == DOMAIN Declared

ErrorRecord == [layer : Layers, code : UNION {Declared[l] : l \in Layers}, origin : Seq(Layers)]

\* A chain of declared errors.
Fine(e) == e \in Seq(ErrorRecord) /\ \A i \in 1..Len(e) : WellFormed(e[i])

\* The Compose files are wrong.
BlamesFiles(e) ==
    Is(e, "compose_backend", "ModelInvalid") \/ Is(e, "compose_backend", "IsolationRejected")

\* What ErrorsExplained says of one error.
Explained(e) ==
    /\ Fine(e)
    /\ e # Nil
    /\ e[1].layer = "stack_orchestrator"
    /\ e[1].code # "Critical"
    /\ BlamesFiles(e) => Is(e, "stack_orchestrator", "PreflightRejected")

LEMMA NilIsFine == Fine(Nil) /\ \A l, c : ~Is(Nil, l, c)
  BY DEF Fine, Nil, Is

\* New puts its layer and code before those of the cause.
LEMMA NewAdds ==
  ASSUME NEW layer \in DOMAIN Declared \ {"cli"}, NEW code \in Declared[layer] \ {"Critical"},
         NEW e, Fine(e)
  PROVE  /\ Fine(New(layer, code, e))
         /\ New(layer, code, e) # Nil
         /\ New(layer, code, e)[1].layer = layer
         /\ New(layer, code, e)[1].code = code
         /\ \A l, c : Is(New(layer, code, e), l, c)
                          <=> (layer = l /\ code = c) \/ Is(e, l, c)
  <1> DEFINE rec == [layer |-> layer, code |-> code, origin |-> << >>]
             n == <<rec>> \o e
  <1>1. rec \in ErrorRecord /\ WellFormed(rec)
    BY DEF ErrorRecord, Layers, WellFormed
  <1> HIDE DEF rec
  <1>2. <<rec>> \in Seq(ErrorRecord) /\ Len(<<rec>>) = 1 /\ <<rec>>[1] = rec
    BY <1>1
  <1>3. /\ n \in Seq(ErrorRecord)
        /\ Len(n) = Len(e) + 1
        /\ n[1] = rec
        /\ \A i \in 1..Len(e) : n[i + 1] = e[i]
    BY <1>2 DEF Fine
  <1>4. Len(e) \in Nat
    BY DEF Fine
  <1>5. n = New(layer, code, e)
    BY DEF New, rec
  <1> HIDE DEF n
  <1>6. \A i \in 1..Len(n) : i = 1 \/ (i - 1 \in 1..Len(e) /\ n[i] = e[i - 1])
    BY <1>3, <1>4
  <1>7. Fine(n)
    BY <1>1, <1>3, <1>6 DEF Fine
  <1>8. n # Nil
    BY <1>3, <1>4 DEF Nil
  <1>9. n[1].layer = layer /\ n[1].code = code
    BY <1>3 DEF rec
  <1>10. \A l, c : Is(n, l, c) <=> (layer = l /\ code = c) \/ Is(e, l, c)
    <2> SUFFICES ASSUME NEW l, NEW c
                 PROVE  Is(n, l, c) <=> (layer = l /\ code = c) \/ Is(e, l, c)
      OBVIOUS
    <2>1. Is(n, l, c) => (layer = l /\ code = c) \/ Is(e, l, c)
      BY <1>6, <1>9 DEF Is
    <2>2. layer = l /\ code = c => Is(n, l, c)
      BY <1>3, <1>4, <1>9 DEF Is
    <2>3. Is(e, l, c) => Is(n, l, c)
      <3> SUFFICES ASSUME NEW i \in 1..Len(e), e[i].layer = l, e[i].code = c
                   PROVE  Is(n, l, c)
        BY DEF Is
      <3>1. i + 1 \in 1..Len(n) /\ n[i + 1] = e[i]
        BY <1>3, <1>4
      <3> QED BY <3>1 DEF Is
    <2> QED BY <2>1, <2>2, <2>3
  <1> QED BY <1>5, <1>7, <1>8, <1>9, <1>10

\* The runner's errors.
OrchestratorCodes == {"ConfigInvalid", "ClaimRejected", "PreflightRejected",
                      "DependencyStartFailed", "ReadinessFailed",
                      "GenerationCommitFailed", "CleanupFailed"}

LEMMA OrchestratorExplains ==
  ASSUME NEW code \in OrchestratorCodes, NEW e, Fine(e),
         BlamesFiles(e) => code = "PreflightRejected"
  PROVE  /\ Explained(Orchestrator(code, e))
         /\ Is(Orchestrator(code, e), "stack_orchestrator", code)
         /\ \A l, c : Is(e, l, c) => Is(Orchestrator(code, e), l, c)
  <1>0. "stack_orchestrator" \in DOMAIN Declared
    BY DEF Declared
  <1>1. /\ "stack_orchestrator" \in DOMAIN Declared \ {"cli"}
        /\ code \in Declared["stack_orchestrator"] \ {"Critical"}
    <2>1. Declared["stack_orchestrator"] = OrchestratorCodes \union {"Critical"}
      BY DEF Declared, OrchestratorCodes
    <2> QED BY <1>0, <2>1 DEF OrchestratorCodes
  <1>2. /\ Fine(New("stack_orchestrator", code, e))
        /\ New("stack_orchestrator", code, e) # Nil
        /\ New("stack_orchestrator", code, e)[1].layer = "stack_orchestrator"
        /\ New("stack_orchestrator", code, e)[1].code = code
        /\ \A l, c : Is(New("stack_orchestrator", code, e), l, c)
                         <=> ("stack_orchestrator" = l /\ code = c) \/ Is(e, l, c)
    BY <1>1, NewAdds
  <1>3. code # "Critical"
    BY DEF OrchestratorCodes
  <1> DEFINE n == New("stack_orchestrator", code, e)
  <1>4. n = Orchestrator(code, e)
    BY DEF Orchestrator
  <1> HIDE DEF n
  <1>5. /\ Fine(n) /\ n # Nil /\ n[1].layer = "stack_orchestrator" /\ n[1].code = code
        /\ \A l, c : Is(n, l, c) <=> ("stack_orchestrator" = l /\ code = c) \/ Is(e, l, c)
    BY <1>2 DEF n
  <1>6. BlamesFiles(n) => Is(n, "stack_orchestrator", "PreflightRejected")
    BY <1>5 DEF BlamesFiles
  <1>7. Explained(n)
    BY <1>3, <1>5, <1>6 DEF Explained
  <1> QED BY <1>4, <1>5, <1>7

\* A cause that is one declared error.
LEMMA CauseIsFine ==
  ASSUME NEW layer \in {"control_plane", "control_plane_client", "compose_backend"},
         NEW code \in {"HostClaimConflict", "PublicationRejected", "ConnectionFailed",
                       "ModelInvalid", "IsolationRejected", "LifecycleFailed"},
         code \in Declared[layer]
  PROVE  /\ Fine(New(layer, code, Nil))
         /\ New(layer, code, Nil)[1].code = code
         /\ \A l, c : Is(New(layer, code, Nil), l, c) <=> layer = l /\ code = c
  <1>1. layer \in DOMAIN Declared \ {"cli"}
    <2>1. /\ "control_plane" \in DOMAIN Declared
          /\ "control_plane_client" \in DOMAIN Declared
          /\ "compose_backend" \in DOMAIN Declared
      BY DEF Declared
    <2> QED BY <2>1
  <1>2. code \in Declared[layer] \ {"Critical"}
    OBVIOUS
  <1>3. Fine(Nil) /\ \A l, c : ~Is(Nil, l, c)
    BY NilIsFine
  <1>4. /\ Fine(New(layer, code, Nil))
        /\ New(layer, code, Nil)[1].code = code
        /\ \A l, c : Is(New(layer, code, Nil), l, c)
                         <=> (layer = l /\ code = c) \/ Is(Nil, l, c)
    BY <1>1, <1>2, <1>3, NewAdds
  <1> QED BY <1>3, <1>4

\* Nothing that the client returns is about Compose.
LEMMA ClientErrorsFine ==
  ASSUME NEW code \in {"HostClaimConflict", "PublicationRejected"},
         NEW e \in ClientErrors("control_plane", code)
  PROVE  Fine(e) /\ ~BlamesFiles(e)
  <1>1. CASE e = New("control_plane", code, Nil)
    <2>1. code \in Declared["control_plane"]
      BY DEF Declared
    <2> QED BY <1>1, <2>1, CauseIsFine DEF BlamesFiles
  <1>2. CASE e = New("control_plane_client", "ConnectionFailed", Nil)
    <2>1. "ConnectionFailed" \in Declared["control_plane_client"]
      BY DEF Declared
    <2> QED BY <1>2, <2>1, CauseIsFine DEF BlamesFiles
  <1>3. CASE e = Critical("control_plane_client", Nil)
    <2> DEFINE rec == [layer |-> "control_plane_client", code |-> "Critical",
                       origin |-> <<"control_plane_client">> \o << >>]
    <2>1. <<"control_plane_client">> \o << >> = <<"control_plane_client">>
      BY Pushed
    <2>2. e = <<rec>> \o << >>
      BY <1>3 DEF Critical, Nil
    <2>3. <<rec>> \o << >> = <<rec>>
      BY Pushed
    <2>4. rec \in ErrorRecord
      <3>1. /\ "control_plane_client" \in Layers
            /\ "Critical" \in Declared["control_plane_client"]
        BY DEF Declared, Layers
      <3>2. <<"control_plane_client">> \in Seq(Layers)
        BY <3>1
      <3> QED BY <2>1, <3>1, <3>2 DEF ErrorRecord
    <2>5. WellFormed(rec)
      BY <2>1 DEF WellFormed, Declared
    <2>6. rec.layer # "compose_backend"
      OBVIOUS
    <2> HIDE DEF rec
    <2>7. e = <<rec>>
      BY <2>2, <2>3
    <2>8. Fine(e)
      BY <2>4, <2>5, <2>7 DEF Fine
    <2> QED BY <2>6, <2>7, <2>8 DEF Is, BlamesFiles
  <1> QED BY <1>1, <1>2, <1>3 DEF ClientErrors

-----------------------------------------------------------------------------
(* The inductive invariant.                                                *)

Typed ==
    /\ pc \in [Run -> Label]
    /\ DOMAIN root = Run
    /\ DOMAIN config = Run
    /\ DOMAIN model = Run
    /\ DOMAIN defers = Run
    /\ DOMAIN err = Run
    /\ started \in [Run -> BOOLEAN]
    /\ owner \in [Hosts -> Run \union {None}]
    /\ DOMAIN blocks = Hosts

\* The phase of a run and its pending defers.
Phase(r) ==
    /\ defers[r] \in Stacks
    /\ pc[r] \in {"start", "claim", "ended"} => defers[r] = << >>
    /\ pc[r] \in {"compose", "up"} => defers[r] = <<"release">>
    /\ pc[r] = "processes" => defers[r] \in {<<"release">>, <<"stopCompose", "release">>}
    /\ pc[r] = "publish" =>
           defers[r] \in {<<"cleanupProcesses", "release">>,
                          <<"cleanupProcesses", "stopCompose", "release">>}
    /\ pc[r] = "foreground" => defers[r] \in Published
    /\ pc[r] \notin {"unwind", "ended"} => err[r] = Nil

\* A run that goes on after LoadConfig has a host, and a stack of its own if
\* it has one.
Configured(r) ==
    /\ pc[r] \notin {"start", "unwind", "ended"} \/ defers[r] # << >>
           => config[r].host \in Hosts
    /\ pc[r] \in {"claim", "compose", "up"} /\ enabled(config[r].compose)
           => config[r].compose.ownership = "owned"
    /\ pc[r] \in {"compose", "up"} => enabled(config[r].compose)

CleanupHasFailed(r) == Is(err[r], "stack_orchestrator", "CleanupFailed")

LifecycleHasFailed(r) == Is(err[r], "compose_backend", "LifecycleFailed")

HostHeld(r) ==
    /\ defers[r] \in WithRelease => owner[config[r].host] = r
    /\ \A h \in Hosts : owner[h] = r =>
           h = config[r].host /\ (defers[r] \in WithRelease \/ CleanupHasFailed(r))

ProcessesHeld(r) == started[r] => defers[r] \in WithCleanup

\* The services of a run have passed the isolation rules.
Judged(r) ==
    /\ pc[r] = "start" => model[r] = {}
    /\ \A s \in model[r] :
        /\ s \in Selected(composeRequest(config[r]))
        /\ validateIsolation(composeRequest(config[r]))
        /\ config[r].compose.ownership = "owned"

ContainerHeld(c) ==
    /\ c.run \in Run
    /\ c.project = project(c.run)
    /\ c.service \in model[c.run]
    /\ defers[c.run] \in WithStop \/ LifecycleHasFailed(c.run) \/ CleanupHasFailed(c.run)

RouteOwned(h) == blocks[h] # << >> => owner[h] # None

ErrorExplained(r) == err[r] = Nil \/ Explained(err[r])

Tidy ==
    /\ \A r \in Run : HostHeld(r)
    /\ \A r \in Run : ProcessesHeld(r)
    /\ \A c \in running : ContainerHeld(c)
    /\ \A h \in Hosts : RouteOwned(h)

IInv ==
    /\ Typed
    /\ \A r \in Run : Phase(r)
    /\ \A r \in Run : Configured(r)
    /\ \A r \in Run : Judged(r)
    /\ \A r \in Run : ErrorExplained(r)
    /\ Tidy

LEMMA InitEstablishes == Init => IInv
  <1> SUFFICES ASSUME Init PROVE IInv
    OBVIOUS
  <1> USE UpAssumption DEF Init
  <1>1. Typed
    BY DEF Typed, Label
  <1>2. \A r \in Run : Phase(r)
    BY StackFacts DEF Phase
  <1>3. \A r \in Run : Configured(r)
    BY DEF Configured
  <1>4. \A r \in Run : Judged(r)
    BY DEF Judged
  <1>5. \A r \in Run : ErrorExplained(r)
    BY DEF ErrorExplained
  <1>6. Tidy
    BY StackFacts DEF Tidy, HostHeld, ProcessesHeld, RouteOwned
  <1> QED BY <1>1, <1>2, <1>3, <1>4, <1>5, <1>6 DEF IInv

-----------------------------------------------------------------------------
(* Steps.                                                                  *)

\* A run's error does not mention Compose or the cleanup before it unwinds.
LEMMA NoErrorYet ==
  ASSUME IInv, NEW r \in Run, pc[r] \notin {"unwind", "ended"}
  PROVE  err[r] = Nil /\ ~CleanupHasFailed(r) /\ ~LifecycleHasFailed(r)
  BY NilIsFine DEF IInv, Phase, CleanupHasFailed, LifecycleHasFailed

\* What loadConfig returns has a host that may be claimed.
LEMMA LoadedConfig ==
  ASSUME NEW r \in Run, NEW f \in Finds[r], Roots(f.start) # {}, validConfig(f.config)
  PROVE  LET c == loadConfig(f.config, findProjectRoot(f.start))
         IN  /\ c.host \in Hosts
             /\ enabled(c.compose) => c.compose.ownership = "owned"
  <1> DEFINE c == loadConfig(f.config, findProjectRoot(f.start))
  <1>1. f \in UNION Range(Finds)
    BY UpAssumption DEF Range
  <1>2. IsConfig(f.config)
    BY <1>1, UpAssumption
  <1>3. c.host = Default(f.config.host, defaultHost[findProjectRoot(f.start)])
    BY <1>2 DEF IsConfig, loadConfig
  <1>4. c.host \in Hosts
    BY <1>1, <1>3 DEF Hosts
  <1>5. c.compose.files = f.config.compose.files /\ c.compose.services = f.config.compose.services
    BY <1>2 DEF IsConfig, loadConfig
  <1>6. c.compose.ownership = IF enabled(f.config.compose)
                              THEN Default(f.config.compose.ownership, "owned")
                              ELSE f.config.compose.ownership
    BY <1>2 DEF IsConfig, loadConfig
  <1> HIDE DEF c
  <1>7. enabled(f.config.compose) => c.compose.ownership = "owned"
    <2>1. enabled(f.config.compose) => f.config.compose.ownership \in {"", "owned"}
      BY DEF validConfig, validOwnership
    <2> QED BY <1>6, <2>1 DEF Default
  <1>8. ~enabled(f.config.compose) => ~enabled(c.compose)
    BY <1>5, <1>6 DEF enabled
  <1> QED BY <1>4, <1>7, <1>8 DEF c

\* A return with an error, or at a signal with none, leaves everything to the
\* defers.
LEMMA ReturnKeeps ==
  ASSUME IInv, NEW r \in Run, NEW e, pc[r] \notin {"unwind", "ended"}, Return(r, e),
         e = Nil \/ Explained(e),
         UNCHANGED <<root, config, model, defers, started, running, owner, blocks>>
  PROVE  IInv'
  <1> USE DEF Return, Goto
  <1>1. Typed'
    BY DEF IInv, Typed, Label
  <1>2. \A s \in Run : Phase(s)'
    BY DEF IInv, Typed, Phase
  <1>3. \A s \in Run : Configured(s)'
    BY DEF IInv, Typed, Configured
  <1>4. \A s \in Run : Judged(s)'
    BY DEF IInv, Judged
  <1>5. \A s \in Run : ErrorExplained(s)'
    BY DEF IInv, Typed, ErrorExplained
  <1>6. ~CleanupHasFailed(r) /\ ~LifecycleHasFailed(r)
    BY NoErrorYet
  <1>7. \A s \in Run \ {r} : /\ CleanupHasFailed(s)' = CleanupHasFailed(s)
                            /\ LifecycleHasFailed(s)' = LifecycleHasFailed(s)
    BY DEF IInv, Typed, CleanupHasFailed, LifecycleHasFailed
  <1>8. Tidy'
    <2>1. \A s \in Run : HostHeld(s)'
      BY <1>6, <1>7 DEF IInv, Tidy, HostHeld
    <2>2. \A s \in Run : ProcessesHeld(s)'
      BY DEF IInv, Tidy, ProcessesHeld
    <2>3. \A c \in running' : ContainerHeld(c)'
      BY <1>6, <1>7 DEF IInv, Tidy, ContainerHeld, project
    <2>4. \A h \in Hosts : RouteOwned(h)'
      BY DEF IInv, Tidy, RouteOwned
    <2> QED BY <2>1, <2>2, <2>3, <2>4 DEF Tidy
  <1> QED BY <1>1, <1>2, <1>3, <1>4, <1>5, <1>8 DEF IInv

\* Until a run unwinds, the only traces of it are what its defers stand for.
LEMMA NothingYet ==
  ASSUME IInv, NEW r \in Run, pc[r] \in {"start", "claim"}
  PROVE  /\ defers[r] = << >> /\ defers[r] \notin WithRelease
         /\ \A h \in Hosts : owner[h] # r
         /\ ~started[r]
         /\ \A c \in running : c.run # r
  <1>1. defers[r] = << >>
    BY DEF IInv, Phase
  <1>2. defers[r] \notin WithRelease \union WithStop \union WithCleanup
    BY <1>1, StackFacts
  <1>3. ~CleanupHasFailed(r) /\ ~LifecycleHasFailed(r)
    BY NoErrorYet
  <1>4. \A h \in Hosts : owner[h] # r
    BY <1>2, <1>3 DEF IInv, Tidy, HostHeld
  <1>5. ~started[r]
    BY <1>2 DEF IInv, Tidy, ProcessesHeld
  <1>6. \A c \in running : c.run # r
    BY <1>2, <1>3 DEF IInv, Tidy, ContainerHeld
  <1> QED BY <1>1, <1>2, <1>4, <1>5, <1>6

LEMMA LoadConfigKeeps ==
  ASSUME IInv, NEW r \in Run, LoadConfig(r)
  PROVE  IInv'
  <1>0. PICK f \in Finds[r] :
          IF Roots(f.start) # {} /\ validConfig(f.config)
          THEN /\ root' = [root EXCEPT ![r] = findProjectRoot(f.start)]
               /\ config' = [config EXCEPT ![r] = loadConfig(f.config, findProjectRoot(f.start))]
               /\ Goto(r, "claim")
               /\ UNCHANGED err
          ELSE /\ Return(r, Orchestrator("ConfigInvalid", Nil))
               /\ UNCHANGED <<root, config>>
    BY DEF LoadConfig
  <1> USE <1>0 DEF LoadConfig
  <1>1. CASE ~(Roots(f.start) # {} /\ validConfig(f.config))
    <2>1. Explained(Orchestrator("ConfigInvalid", Nil))
      BY OrchestratorExplains, NilIsFine DEF OrchestratorCodes, BlamesFiles
    <2> QED BY <1>1, <2>1, ReturnKeeps
  <1>2. CASE Roots(f.start) # {} /\ validConfig(f.config)
    <2> DEFINE c == loadConfig(f.config, findProjectRoot(f.start))
    <2>1. c.host \in Hosts /\ (enabled(c.compose) => c.compose.ownership = "owned")
      BY <1>2, LoadedConfig
    <2>a. /\ config' = [config EXCEPT ![r] = c]
          /\ root' = [root EXCEPT ![r] = findProjectRoot(f.start)]
          /\ pc' = [pc EXCEPT ![r] = "claim"]
          /\ UNCHANGED err
      BY <1>2 DEF Goto
    <2> HIDE DEF c
    <2>2. /\ config' = [config EXCEPT ![r] = c]
          /\ DOMAIN root' = DOMAIN root
          /\ \A s \in Run \ {r} : root'[s] = root[s]
          /\ pc' = [pc EXCEPT ![r] = "claim"]
          /\ UNCHANGED <<err, model, defers, started, running, owner, blocks>>
      BY <2>a
    <2>3. Typed'
      BY <2>2 DEF IInv, Typed, Label
    <2>4. \A s \in Run : Phase(s)'
      BY <2>2 DEF IInv, Typed, Phase
    <2>5. \A s \in Run : Configured(s)'
      BY <2>1, <2>2 DEF IInv, Typed, Configured
    <2>6. \A s \in Run : Judged(s)'
      BY <2>2 DEF IInv, Typed, Judged
    <2>7. \A s \in Run : ErrorExplained(s)'
      BY <2>2 DEF IInv, ErrorExplained
    <2>8. Tidy'
      <3>1. \A s \in Run : HostHeld(s)'
        BY <2>2, NothingYet DEF IInv, Typed, Tidy, HostHeld, CleanupHasFailed
      <3>2. \A s \in Run : ProcessesHeld(s)'
        BY <2>2 DEF IInv, Tidy, ProcessesHeld
      <3>3. \A x \in running' : ContainerHeld(x)'
        BY <2>2, NothingYet
           DEF IInv, Typed, Tidy, ContainerHeld, project, CleanupHasFailed, LifecycleHasFailed
      <3>4. \A h \in Hosts : RouteOwned(h)'
        BY <2>2 DEF IInv, Tidy, RouteOwned
      <3> QED BY <3>1, <3>2, <3>3, <3>4 DEF Tidy
    <2> QED BY <2>3, <2>4, <2>5, <2>6, <2>7, <2>8 DEF IInv
  <1> QED BY <1>1, <1>2

LEMMA ClaimedKeeps ==
  ASSUME IInv, NEW r \in Run, Claimed(r)
  PROVE  IInv'
  <1>0. defers' = [defers EXCEPT ![r] = <<"release">>]
    <2>1. defers[r] = << >>
      BY NothingYet DEF Claimed
    <2> QED BY <2>1, DefersPushed DEF Claimed, Push
  <1> USE <1>0 DEF Claimed, Goto
  <1>1. Typed'
    BY DEF IInv, Typed, Label
  <1>2. \A s \in Run : Phase(s)'
    BY StackFacts DEF IInv, Typed, Phase
  <1>3. \A s \in Run : Configured(s)'
    BY DEF IInv, Typed, Configured
  <1>4. \A s \in Run : Judged(s)'
    BY DEF IInv, Typed, Judged
  <1>5. \A s \in Run : ErrorExplained(s)'
    BY DEF IInv, ErrorExplained
  <1>6. Tidy'
    <2>1. \A s \in Run : HostHeld(s)'
      <3>1. config[r].host \in Hosts
        BY DEF IInv, Configured
      <3>2. \A h \in Hosts : owner[h] # r
        BY NothingYet
      <3>3. HostHeld(r)'
        BY <3>1, <3>2, StackFacts DEF IInv, Typed, HostHeld
      <3>4. ASSUME NEW s \in Run \ {r} PROVE HostHeld(s)'
        BY <3>1, <3>4, UpAssumption DEF IInv, Typed, Tidy, HostHeld, CleanupHasFailed
      <3> QED BY <3>3, <3>4
    <2>2. \A s \in Run : ProcessesHeld(s)'
      BY NothingYet DEF IInv, Typed, Tidy, ProcessesHeld
    <2>3. \A c \in running' : ContainerHeld(c)'
      BY NothingYet
         DEF IInv, Typed, Tidy, ContainerHeld, project, CleanupHasFailed, LifecycleHasFailed
    <2>4. \A h \in Hosts : RouteOwned(h)'
      BY UpAssumption DEF IInv, Typed, Tidy, RouteOwned
    <2> QED BY <2>1, <2>2, <2>3, <2>4 DEF Tidy
  <1> QED BY <1>1, <1>2, <1>3, <1>4, <1>5, <1>6 DEF IInv

LEMMA ClaimFailsKeeps ==
  ASSUME IInv, NEW r \in Run, ClaimFails(r)
  PROVE  IInv'
  <1>1. PICK e \in ClientErrors("control_plane", "HostClaimConflict") :
            Return(r, Orchestrator("ClaimRejected", e))
    BY DEF ClaimFails
  <1>2. Explained(Orchestrator("ClaimRejected", e))
    BY ClientErrorsFine, OrchestratorExplains DEF OrchestratorCodes
  <1> QED BY <1>1, <1>2, ReturnKeeps DEF ClaimFails

\* What Load returns is a model that has passed, or an error of its own.
LEMMA LoadJudges ==
  ASSUME NEW req
  PROVE  \/ /\ Load(req).error = Nil
            /\ Load(req).services = Selected(req)
            /\ validateIsolation(req)
         \/ Load(req).error = New("compose_backend", "ModelInvalid", Nil)
         \/ Load(req).error = New("compose_backend", "IsolationRejected", Nil)
  BY DEF Load, Refused

\* Every error of the backend's that the runner passes on is explained.
LEMMA ComposeErrorExplained ==
  ASSUME NEW code \in {"ModelInvalid", "IsolationRejected", "LifecycleFailed"}
  PROVE  /\ New("compose_backend", code, Nil) # Nil
         /\ Explained(mapComposeStartError(New("compose_backend", code, Nil)))
         /\ code = "LifecycleFailed" =>
                Is(mapComposeStartError(New("compose_backend", code, Nil)),
                   "compose_backend", "LifecycleFailed")
  <1> DEFINE e == New("compose_backend", code, Nil)
  <1>1. code \in Declared["compose_backend"]
    BY DEF Declared
  <1>2. Fine(e) /\ \A l, c : Is(e, l, c) <=> "compose_backend" = l /\ code = c
    BY <1>1, CauseIsFine
  <1>3. e # Nil
    BY <1>2, NilIsFine
  <1> HIDE DEF e
  <1>4. CASE code \in {"ModelInvalid", "IsolationRejected"}
    <2>1. mapComposeStartError(e) = Orchestrator("PreflightRejected", e)
      BY <1>2, <1>4 DEF mapComposeStartError
    <2>2. Explained(Orchestrator("PreflightRejected", e))
      BY <1>2, OrchestratorExplains DEF OrchestratorCodes, BlamesFiles
    <2> QED BY <1>3, <1>4, <2>1, <2>2 DEF e
  <1>5. CASE code = "LifecycleFailed"
    <2>1. mapComposeStartError(e) = Orchestrator("DependencyStartFailed", e)
      BY <1>2, <1>5 DEF mapComposeStartError
    <2>2. /\ Explained(Orchestrator("DependencyStartFailed", e))
          /\ Is(Orchestrator("DependencyStartFailed", e), "compose_backend", "LifecycleFailed")
      BY <1>2, <1>5, OrchestratorExplains DEF OrchestratorCodes, BlamesFiles
    <2> QED BY <1>3, <2>1, <2>2 DEF e
  <1> QED BY <1>4, <1>5

LEMMA LoadComposeKeeps ==
  ASSUME IInv, NEW r \in Run, LoadCompose(r)
  PROVE  IInv'
  <1> DEFINE req == composeRequest(config[r])
             loaded == Load(req)
  <1>1. CASE loaded.error # Nil
    <2>1. Explained(mapComposeStartError(loaded.error))
      BY <1>1, LoadJudges, ComposeErrorExplained
    <2>2. Return(r, mapComposeStartError(loaded.error)) /\ UNCHANGED model
      BY <1>1 DEF LoadCompose
    <2> QED BY <2>1, <2>2, ReturnKeeps DEF LoadCompose
  <1>2. CASE loaded.error = Nil
    <2>1. loaded.services = Selected(req) /\ validateIsolation(req)
      BY <1>2, LoadJudges, ComposeErrorExplained
    <2>2. /\ model' = [model EXCEPT ![r] = Selected(req)]
          /\ pc' = [pc EXCEPT ![r] = "up"]
          /\ UNCHANGED <<root, config, defers, err, started, running, owner, blocks>>
      BY <1>2, <2>1 DEF LoadCompose, Goto
    <2>3. pc[r] = "compose"
      BY DEF LoadCompose
    <2>4. \A c \in running : c.run # r
      <3>1. defers[r] \notin WithStop
        BY <2>3, StackFacts DEF IInv, Phase
      <3> QED BY <2>3, <3>1, NoErrorYet DEF IInv, Tidy, ContainerHeld
    <2>5. config[r].compose.ownership = "owned"
      BY <2>3 DEF IInv, Configured
    <2> HIDE DEF req
    <2>6. Typed'
      BY <2>2 DEF IInv, Typed, Label
    <2>7. \A s \in Run : Phase(s)'
      BY <2>2, <2>3 DEF IInv, Typed, Phase
    <2>8. \A s \in Run : Configured(s)'
      BY <2>2, <2>3 DEF IInv, Typed, Configured
    <2>9. \A s \in Run : Judged(s)'
      BY <2>1, <2>2, <2>5 DEF IInv, Typed, Judged, req
    <2>10. \A s \in Run : ErrorExplained(s)'
      BY <2>2 DEF IInv, ErrorExplained
    <2>11. Tidy'
      <3>1. \A s \in Run : HostHeld(s)'
        BY <2>2 DEF IInv, Tidy, HostHeld, CleanupHasFailed
      <3>2. \A s \in Run : ProcessesHeld(s)'
        BY <2>2 DEF IInv, Tidy, ProcessesHeld
      <3>3. \A c \in running' : ContainerHeld(c)'
        BY <2>2, <2>4
           DEF IInv, Typed, Tidy, ContainerHeld, project, CleanupHasFailed, LifecycleHasFailed
      <3>4. \A h \in Hosts : RouteOwned(h)'
        BY <2>2 DEF IInv, Tidy, RouteOwned
      <3> QED BY <3>1, <3>2, <3>3, <3>4 DEF Tidy
    <2> QED BY <2>6, <2>7, <2>8, <2>9, <2>10, <2>11 DEF IInv
  <1> QED BY <1>1, <1>2

\* What a run has up and what others have: a Compose project belongs to one
\* directory.
LEMMA ComposeUpKeeps ==
  ASSUME IInv, NEW r \in Run, ComposeUp(r)
  PROVE  IInv'
  <1>0. pc[r] = "up" /\ defers[r] = <<"release">>
    BY DEF ComposeUp, IInv, Phase
  <1>1. defers' = [defers EXCEPT ![r] = <<"stopCompose", "release">>]
    BY <1>0, DefersPushed DEF ComposeUp, Push
  <1> USE <1>0, <1>1 DEF ComposeUp, Goto
  <1>2. Typed'
    BY DEF IInv, Typed, Label
  <1>3. \A s \in Run : Phase(s)'
    BY StackFacts DEF IInv, Typed, Phase
  <1>4. \A s \in Run : Configured(s)'
    BY DEF IInv, Typed, Configured
  <1>5. \A s \in Run : Judged(s)'
    BY DEF IInv, Typed, Judged
  <1>6. \A s \in Run : ErrorExplained(s)'
    BY DEF IInv, ErrorExplained
  <1>7. Tidy'
    <2>1. \A s \in Run : HostHeld(s)'
      BY StackFacts DEF IInv, Typed, Tidy, HostHeld, CleanupHasFailed
    <2>2. \A s \in Run : ProcessesHeld(s)'
      BY StackFacts DEF IInv, Typed, Tidy, ProcessesHeld
    <2>3. ASSUME NEW c \in running' PROVE ContainerHeld(c)'
      <3>1. CASE c \in OfOthers(r)
        <4>1. c \in running /\ c.run # r
          BY <3>1 DEF OfOthers, IInv, Tidy, ContainerHeld
        <4> QED BY <4>1 DEF IInv, Typed, Tidy, ContainerHeld, project,
                            CleanupHasFailed, LifecycleHasFailed
      <3>2. CASE \E s \in model[r] : c = [project |-> project(r), service |-> s, run |-> r]
        BY <3>2, StackFacts DEF IInv, Typed, ContainerHeld, project
      <3> QED BY <2>3, <3>1, <3>2 DEF Containers
    <2>4. \A h \in Hosts : RouteOwned(h)'
      BY DEF IInv, Tidy, RouteOwned
    <2> QED BY <2>1, <2>2, <2>3, <2>4 DEF Tidy
  <1> QED BY <1>2, <1>3, <1>4, <1>5, <1>6, <1>7 DEF IInv

LEMMA ComposeFailsKeeps ==
  ASSUME IInv, NEW r \in Run, ComposeFails(r)
  PROVE  IInv'
  <1> DEFINE e == mapComposeStartError(LifecycleFailed)
  <1>1. Explained(e) /\ Is(e, "compose_backend", "LifecycleFailed")
    BY ComposeErrorExplained DEF LifecycleFailed
  <1>2. pc[r] = "up" /\ pc' = [pc EXCEPT ![r] = "unwind"] /\ err' = [err EXCEPT ![r] = e]
    BY DEF ComposeFails, Return, Goto
  <1>3. PICK S \in SUBSET model[r] : running' \subseteq running \union Containers(r, S)
    <2>1. OfOthers(r) = Containers(r, {})
      BY DEF Containers
    <2> QED BY <2>1 DEF ComposeFails
  <1>4. UNCHANGED <<root, config, model, defers, started, owner, blocks>>
    BY DEF ComposeFails
  <1> HIDE DEF e
  <1> USE <1>2, <1>4
  <1>5. Typed'
    BY DEF IInv, Typed, Label
  <1>6. \A s \in Run : Phase(s)'
    BY DEF IInv, Typed, Phase
  <1>7. \A s \in Run : Configured(s)'
    BY DEF IInv, Typed, Configured
  <1>8. \A s \in Run : Judged(s)'
    BY DEF IInv, Typed, Judged
  <1>9. \A s \in Run : ErrorExplained(s)'
    BY <1>1 DEF IInv, Typed, ErrorExplained
  <1>10. ~CleanupHasFailed(r)
    BY NoErrorYet
  <1>11. Tidy'
    <2>1. \A s \in Run : HostHeld(s)'
      BY <1>10 DEF IInv, Typed, Tidy, HostHeld, CleanupHasFailed
    <2>2. \A s \in Run : ProcessesHeld(s)'
      BY DEF IInv, Tidy, ProcessesHeld
    <2>3. ASSUME NEW c \in running' PROVE ContainerHeld(c)'
      <3>1. CASE c \in running
        <4>1. ContainerHeld(c)
          BY <3>1 DEF IInv, Tidy
        <4>2. LifecycleHasFailed(r)'
          BY <1>1 DEF IInv, Typed, LifecycleHasFailed
        <4> QED BY <4>1, <4>2 DEF IInv, Typed, ContainerHeld, project,
                                 CleanupHasFailed, LifecycleHasFailed
      <3>2. CASE \E s \in S : c = [project |-> project(r), service |-> s, run |-> r]
        BY <1>1, <3>2 DEF IInv, Typed, ContainerHeld, project, LifecycleHasFailed
      <3> QED BY <1>3, <2>3, <3>1, <3>2 DEF Containers, OfOthers
    <2>4. \A h \in Hosts : RouteOwned(h)'
      BY DEF IInv, Tidy, RouteOwned
    <2> QED BY <2>1, <2>2, <2>3, <2>4 DEF Tidy
  <1> QED BY <1>5, <1>6, <1>7, <1>8, <1>9, <1>11 DEF IInv

\* Processes come with the defer that ends them, in every phase after.
LEMMA ProcessesStart ==
  ASSUME IInv, NEW r \in Run, pc[r] = "processes", Push(r, "cleanupProcesses")
  PROVE  /\ defers' = [defers EXCEPT ![r] = <<"cleanupProcesses">> \o defers[r]]
         /\ \/ /\ <<"cleanupProcesses">> \o defers[r] = <<"cleanupProcesses", "release">>
               /\ defers[r] \notin WithStop
            \/ <<"cleanupProcesses">> \o defers[r]
                    = <<"cleanupProcesses", "stopCompose", "release">>
         /\ defers[r] \in WithRelease
  <1>1. defers[r] \in {<<"release">>, <<"stopCompose", "release">>}
    BY DEF IInv, Phase
  <1> QED BY <1>1, DefersPushed, StackFacts DEF Push

LEMMA StartProcessesKeeps ==
  ASSUME IInv, NEW r \in Run, NEW label \in {"publish", "unwind"}, NEW e,
         pc[r] = "processes", Push(r, "cleanupProcesses"),
         started' = [started EXCEPT ![r] = TRUE],
         pc' = [pc EXCEPT ![r] = label],
         DOMAIN err' = Run, err'[r] = e, \A s \in Run \ {r} : err'[s] = err[s],
         e = Nil \/ (label = "unwind" /\ Explained(e)),
         UNCHANGED <<root, config, model, running, owner, blocks>>
  PROVE  IInv'
  <1> DEFINE d == <<"cleanupProcesses">> \o defers[r]
  <1>1. /\ defers' = [defers EXCEPT ![r] = d]
        /\ \/ d = <<"cleanupProcesses", "release">> /\ defers[r] \notin WithStop
           \/ d = <<"cleanupProcesses", "stopCompose", "release">>
        /\ defers[r] \in WithRelease
    BY ProcessesStart
  <1> HIDE DEF d
  <1>2. d \in Stacks /\ d \in WithRelease /\ d \in WithCleanup /\ d # << >>
    BY <1>1, StackFacts
  <1>3. defers[r] \in WithStop => d \in WithStop
    BY <1>1, StackFacts
  <1>4. Typed'
    BY <1>1 DEF IInv, Typed, Label
  <1>5. \A s \in Run : Phase(s)'
    BY <1>1, <1>2 DEF IInv, Typed, Phase
  <1>6. \A s \in Run : Configured(s)'
    BY <1>1, <1>2 DEF IInv, Typed, Configured
  <1>7. \A s \in Run : Judged(s)'
    BY DEF IInv, Typed, Judged
  <1>8. \A s \in Run : ErrorExplained(s)'
    BY DEF IInv, Typed, ErrorExplained
  <1>9. ~CleanupHasFailed(r) /\ ~LifecycleHasFailed(r)
    BY NoErrorYet
  <1>10. Tidy'
    <2>1. \A s \in Run : HostHeld(s)'
      BY <1>1, <1>2, <1>9 DEF IInv, Typed, Tidy, HostHeld, CleanupHasFailed
    <2>2. \A s \in Run : ProcessesHeld(s)'
      BY <1>1, <1>2 DEF IInv, Typed, Tidy, ProcessesHeld
    <2>3. \A c \in running' : ContainerHeld(c)'
      BY <1>1, <1>3, <1>9
         DEF IInv, Typed, Tidy, ContainerHeld, project, CleanupHasFailed, LifecycleHasFailed
    <2>4. \A h \in Hosts : RouteOwned(h)'
      BY DEF IInv, Tidy, RouteOwned
    <2> QED BY <2>1, <2>2, <2>3, <2>4 DEF Tidy
  <1> QED BY <1>4, <1>5, <1>6, <1>7, <1>8, <1>10 DEF IInv

LEMMA ProcessesKeep ==
  ASSUME IInv, NEW r \in Run, StartProcesses(r) \/ ProcessesFail(r)
  PROVE  IInv'
  <1>0. Explained(Orchestrator("DependencyStartFailed", Nil))
        /\ Explained(Orchestrator("ReadinessFailed", Nil))
    BY OrchestratorExplains, NilIsFine DEF OrchestratorCodes, BlamesFiles
  <1>1. CASE StartProcesses(r)
    <2>1. DOMAIN err' = Run /\ err'[r] = Nil /\ \A s \in Run \ {r} : err'[s] = err[s]
      BY <1>1, NoErrorYet DEF StartProcesses, IInv, Typed
    <2> QED BY <1>1, <2>1, StartProcessesKeeps DEF StartProcesses, Goto
  <1>2. CASE ProcessesFail(r)
    <2>1. CASE Return(r, Orchestrator("DependencyStartFailed", Nil)) /\ UNCHANGED <<started, defers>>
      BY <1>0, <1>2, <2>1, ReturnKeeps DEF ProcessesFail
    <2>2. CASE /\ Return(r, Orchestrator("ReadinessFailed", Nil))
               /\ started' = [started EXCEPT ![r] = TRUE]
               /\ Push(r, "cleanupProcesses")
      <3> DEFINE e == Orchestrator("ReadinessFailed", Nil)
      <3>1. Explained(e) /\ Return(r, e)
        BY <1>0, <2>2
      <3> HIDE DEF e
      <3>2. /\ DOMAIN err' = Run /\ err'[r] = e /\ \A s \in Run \ {r} : err'[s] = err[s]
            /\ pc' = [pc EXCEPT ![r] = "unwind"]
        BY <3>1 DEF Return, Goto, IInv, Typed
      <3> QED BY <1>2, <2>2, <3>1, <3>2, StartProcessesKeeps DEF ProcessesFail
    <2> QED BY <1>2, <2>1, <2>2 DEF ProcessesFail
  <1> QED BY <1>1, <1>2

LEMMA PublishKeeps ==
  ASSUME IInv, NEW r \in Run, Publish(r)
  PROVE  IInv'
  <1>0. pc[r] = "publish"
    BY DEF Publish
  <1> DEFINE d == <<"release">> \o Front(defers[r])
  <1>1. /\ \/ d = <<"release", "cleanupProcesses">> /\ defers[r] \notin WithStop
           \/ d = <<"release", "cleanupProcesses", "stopCompose">>
        /\ defers[r] \in WithRelease
    <2>1. defers[r] \in {<<"cleanupProcesses", "release">>,
                         <<"cleanupProcesses", "stopCompose", "release">>}
      BY <1>0 DEF IInv, Phase
    <2> QED BY <2>1, DefersPushed, StackFacts
  <1>2. /\ defers' = [defers EXCEPT ![r] = d]
        /\ pc' = [pc EXCEPT ![r] = "foreground"]
        /\ DOMAIN blocks' = DOMAIN blocks
        /\ \A h \in Hosts \ {config[r].host} : blocks'[h] = blocks[h]
        /\ UNCHANGED <<root, config, model, err, started, running, owner>>
    BY DEF Publish, Goto, IInv, Typed
  <1> HIDE DEF d
  <1>3. d \in Stacks /\ d \in Published /\ d \in WithRelease /\ d \in WithCleanup /\ d # << >>
    BY <1>1, StackFacts
  <1>4. defers[r] \in WithStop => d \in WithStop
    BY <1>1, StackFacts
  <1>5. Typed'
    BY <1>2 DEF IInv, Typed, Label
  <1>6. \A s \in Run : Phase(s)'
    BY <1>2, <1>3, <1>0 DEF IInv, Typed, Phase
  <1>7. \A s \in Run : Configured(s)'
    BY <1>0, <1>2, <1>3 DEF IInv, Typed, Configured
  <1>8. \A s \in Run : Judged(s)'
    BY <1>2 DEF IInv, Typed, Judged
  <1>9. \A s \in Run : ErrorExplained(s)'
    BY <1>2 DEF IInv, Typed, ErrorExplained
  <1>10. ~CleanupHasFailed(r) /\ ~LifecycleHasFailed(r)
    BY <1>0, NoErrorYet
  <1>11. Tidy'
    <2>1. \A s \in Run : HostHeld(s)'
      BY <1>1, <1>2, <1>3, <1>10 DEF IInv, Typed, Tidy, HostHeld, CleanupHasFailed
    <2>2. \A s \in Run : ProcessesHeld(s)'
      BY <1>2, <1>3 DEF IInv, Typed, Tidy, ProcessesHeld
    <2>3. \A c \in running' : ContainerHeld(c)'
      BY <1>2, <1>4, <1>10
         DEF IInv, Typed, Tidy, ContainerHeld, project, CleanupHasFailed, LifecycleHasFailed
    <2>4. \A h \in Hosts : RouteOwned(h)'
      <3>1. owner[config[r].host] = r
        BY <1>1 DEF IInv, Tidy, HostHeld
      <3> QED BY <1>2, <3>1, UpAssumption DEF IInv, Tidy, RouteOwned
    <2> QED BY <2>1, <2>2, <2>3, <2>4 DEF Tidy
  <1> QED BY <1>5, <1>6, <1>7, <1>8, <1>9, <1>11 DEF IInv

LEMMA PublishFailsKeeps ==
  ASSUME IInv, NEW r \in Run, PublishFails(r)
  PROVE  IInv'
  <1>1. PICK e \in ClientErrors("control_plane", "PublicationRejected") :
            Return(r, Orchestrator("GenerationCommitFailed", e))
    BY DEF PublishFails
  <1>2. Explained(Orchestrator("GenerationCommitFailed", e))
    BY ClientErrorsFine, OrchestratorExplains DEF OrchestratorCodes
  <1> QED BY <1>1, <1>2, ReturnKeeps DEF PublishFails

LEMMA ForegroundEndsKeeps ==
  ASSUME IInv, NEW r \in Run, ForegroundEnds(r)
  PROVE  IInv'
  <1>1. PICK e \in {Nil, Orchestrator("DependencyStartFailed", Nil)} : Return(r, e)
    BY DEF ForegroundEnds
  <1>2. Explained(Orchestrator("DependencyStartFailed", Nil))
    BY NilIsFine, OrchestratorExplains DEF OrchestratorCodes, BlamesFiles
  <1> QED BY <1>1, <1>2, ReturnKeeps DEF ForegroundEnds

-----------------------------------------------------------------------------
(* The defers run.                                                         *)

\* What every defer changes, and how it changes the stack.
LEMMA Unwinds ==
  ASSUME IInv, NEW r \in Run, NEW d \in Defer, Innermost(r, d), Pop(r), UNCHANGED pc
  PROVE  /\ pc[r] = "unwind"
         /\ DOMAIN defers' = Run
         /\ \A s \in Run \ {r} : defers'[s] = defers[s]
         /\ defers[r] \in Stacks /\ defers[r] # << >>
         /\ defers'[r] \in Stacks
         /\ d = "release" => defers[r] \in WithRelease /\ defers'[r] \notin WithRelease
         /\ d # "release" => (defers[r] \in WithRelease <=> defers'[r] \in WithRelease)
         /\ d # "stopCompose" => (defers[r] \in WithStop => defers'[r] \in WithStop)
         /\ d # "cleanupProcesses" => (defers[r] \in WithCleanup => defers'[r] \in WithCleanup)
         /\ defers' # defers
         /\ \A s \in Run : Phase(s)' \/ err'[s] # err[s]
         /\ config[r].host \in Hosts
  <1>1. pc[r] = "unwind" /\ defers[r] # << >> /\ Head(defers[r]) = d
    BY DEF Innermost
  <1>2. defers[r] \in Stacks
    BY DEF IInv, Phase
  <1>3. DOMAIN defers' = Run /\ defers'[r] = Tail(defers[r])
        /\ \A s \in Run \ {r} : defers'[s] = defers[s]
    BY DEF Pop, IInv, Typed
  <1>4. defers'[r] \in Stacks /\ defers'[r] # defers[r]
    BY <1>1, <1>2, <1>3, Popped
  <1>5. /\ d = "release" => defers[r] \in WithRelease /\ defers'[r] \notin WithRelease
        /\ d # "release" => (defers[r] \in WithRelease <=> defers'[r] \in WithRelease)
        /\ d # "stopCompose" => (defers[r] \in WithStop => defers'[r] \in WithStop)
        /\ d # "cleanupProcesses" => (defers[r] \in WithCleanup => defers'[r] \in WithCleanup)
    BY <1>1, <1>2, <1>3, Popped
  <1>6. config[r].host \in Hosts
    BY <1>1 DEF IInv, Configured
  <1>7. \A s \in Run : Phase(s)' \/ err'[s] # err[s]
    BY <1>1, <1>3, <1>4 DEF IInv, Phase
  <1> QED BY <1>1, <1>2, <1>3, <1>4, <1>5, <1>6, <1>7

\* A defer that fails says so and changes nothing else.
LEMMA FailedDeferKeeps ==
  ASSUME IInv, NEW r \in Run, NEW d \in {"stopCompose", "release"},
         Innermost(r, d), Pop(r), NEW e, Fine(e),
         ~BlamesFiles(e), CleanupFailed(r, e),
         UNCHANGED <<pc, root, config, model, started, running, owner, blocks>>
  PROVE  IInv'
  <1>0. d \in Defer
    BY DEF Defer
  <1>1. /\ pc[r] = "unwind"
        /\ DOMAIN defers' = Run
        /\ \A s \in Run \ {r} : defers'[s] = defers[s]
        /\ defers[r] # << >> /\ defers'[r] \in Stacks
        /\ defers[r] \in WithCleanup => defers'[r] \in WithCleanup
        /\ defers'[r] \in WithRelease => defers[r] \in WithRelease
    BY <1>0, Unwinds
  <1> DEFINE n == Orchestrator("CleanupFailed", e)
  <1>2. Explained(n) /\ Is(n, "stack_orchestrator", "CleanupFailed")
    BY OrchestratorExplains DEF OrchestratorCodes
  <1>3. err' = [err EXCEPT ![r] = n]
    BY DEF CleanupFailed
  <1> HIDE DEF n
  <1>4. CleanupHasFailed(r)'
    BY <1>2, <1>3 DEF IInv, Typed, CleanupHasFailed
  <1>5. Typed'
    BY <1>1, <1>3 DEF IInv, Typed
  <1>6. \A s \in Run : Phase(s)'
    BY <1>1, <1>3 DEF IInv, Typed, Phase
  <1>7. \A s \in Run : Configured(s)'
    BY <1>1 DEF IInv, Configured
  <1>8. \A s \in Run : Judged(s)'
    BY DEF IInv, Judged
  <1>9. \A s \in Run : ErrorExplained(s)'
    BY <1>2, <1>3 DEF IInv, Typed, ErrorExplained
  <1>10. \A s \in Run \ {r} : /\ CleanupHasFailed(s)' = CleanupHasFailed(s)
                             /\ LifecycleHasFailed(s)' = LifecycleHasFailed(s)
    BY <1>3 DEF IInv, Typed, CleanupHasFailed, LifecycleHasFailed
  <1>11. Tidy'
    <2>1. \A s \in Run : HostHeld(s)'
      BY <1>1, <1>4, <1>10 DEF IInv, Tidy, HostHeld
    <2>2. \A s \in Run : ProcessesHeld(s)'
      BY <1>1 DEF IInv, Tidy, ProcessesHeld
    <2>3. \A c \in running' : ContainerHeld(c)'
      BY <1>1, <1>4, <1>10 DEF IInv, Tidy, ContainerHeld, project
    <2>4. \A h \in Hosts : RouteOwned(h)'
      BY DEF IInv, Tidy, RouteOwned
    <2> QED BY <2>1, <2>2, <2>3, <2>4 DEF Tidy
  <1> QED BY <1>5, <1>6, <1>7, <1>8, <1>9, <1>11 DEF IInv

\* A defer that does its work leaves the error as it is.
LEMMA DoneDeferKeeps ==
  ASSUME IInv, NEW r \in Run, NEW d \in Defer, Innermost(r, d), Pop(r),
         UNCHANGED <<pc, root, config, model, err>>,
         Tidy', Typed'
  PROVE  IInv'
  <1>1. /\ pc[r] = "unwind"
        /\ \A s \in Run \ {r} : defers'[s] = defers[s]
        /\ defers[r] # << >>
    BY Unwinds
  <1>2. \A s \in Run : Phase(s)'
    BY Unwinds
  <1>3. \A s \in Run : Configured(s)'
    BY <1>1 DEF IInv, Configured
  <1>4. \A s \in Run : Judged(s)'
    BY DEF IInv, Judged
  <1>5. \A s \in Run : ErrorExplained(s)'
    BY DEF IInv, ErrorExplained
  <1> QED BY <1>2, <1>3, <1>4, <1>5 DEF IInv

LEMMA StopComposeKeeps ==
  ASSUME IInv, NEW r \in Run, StopCompose(r)
  PROVE  IInv'
  <1>1. CASE "down" \in Mishaps /\ CleanupFailed(r, LifecycleFailed) /\ UNCHANGED running
    <2>1. "LifecycleFailed" \in Declared["compose_backend"]
      BY DEF Declared
    <2>2. /\ Fine(LifecycleFailed)
          /\ ~BlamesFiles(LifecycleFailed)
      BY <2>1, CauseIsFine DEF LifecycleFailed, BlamesFiles
    <2> QED BY <1>1, <2>2, FailedDeferKeeps DEF StopCompose
  <1>2. CASE running' = OfOthers(r) /\ UNCHANGED err
    <2>0. "stopCompose" \in Defer
      BY DEF Defer
    <2>1. /\ DOMAIN defers' = Run
          /\ \A s \in Run \ {r} : defers'[s] = defers[s]
          /\ defers[r] \in WithRelease <=> defers'[r] \in WithRelease
          /\ defers[r] \in WithCleanup => defers'[r] \in WithCleanup
      BY <2>0, Unwinds DEF StopCompose
    <2>2. Typed'
      BY <1>2, <2>1 DEF StopCompose, IInv, Typed
    <2>3. Tidy'
      <3>1. \A s \in Run : HostHeld(s)'
        BY <1>2, <2>1 DEF StopCompose, IInv, Tidy, HostHeld, CleanupHasFailed
      <3>2. \A s \in Run : ProcessesHeld(s)'
        BY <2>1 DEF StopCompose, IInv, Tidy, ProcessesHeld
      <3>3. ASSUME NEW c \in running' PROVE ContainerHeld(c)'
        <4>1. c \in running /\ c.run # r
          BY <1>2, <3>3 DEF OfOthers, IInv, Tidy, ContainerHeld
        <4> QED BY <1>2, <2>1, <4>1
                DEF StopCompose, IInv, Tidy, ContainerHeld, project,
                    CleanupHasFailed, LifecycleHasFailed
      <3>4. \A h \in Hosts : RouteOwned(h)'
        BY DEF StopCompose, IInv, Tidy, RouteOwned
      <3> QED BY <3>1, <3>2, <3>3, <3>4 DEF Tidy
    <2> QED BY <1>2, <2>0, <2>2, <2>3, DoneDeferKeeps DEF StopCompose
  <1> QED BY <1>1, <1>2 DEF StopCompose

LEMMA CleanupProcessesKeeps ==
  ASSUME IInv, NEW r \in Run, CleanupProcesses(r)
  PROVE  IInv'
  <1>0. "cleanupProcesses" \in Defer
    BY DEF Defer
  <1>1. /\ DOMAIN defers' = Run
        /\ \A s \in Run \ {r} : defers'[s] = defers[s]
        /\ defers[r] \in WithRelease <=> defers'[r] \in WithRelease
        /\ defers[r] \in WithStop => defers'[r] \in WithStop
    BY <1>0, Unwinds DEF CleanupProcesses
  <1>2. Typed'
    BY <1>1 DEF CleanupProcesses, IInv, Typed
  <1>3. Tidy'
    <2>1. \A s \in Run : HostHeld(s)'
      BY <1>1 DEF CleanupProcesses, IInv, Tidy, HostHeld, CleanupHasFailed
    <2>2. \A s \in Run : ProcessesHeld(s)'
      BY <1>1 DEF CleanupProcesses, IInv, Typed, Tidy, ProcessesHeld
    <2>3. \A c \in running' : ContainerHeld(c)'
      BY <1>1 DEF CleanupProcesses, IInv, Tidy, ContainerHeld, project,
                  CleanupHasFailed, LifecycleHasFailed
    <2>4. \A h \in Hosts : RouteOwned(h)'
      BY DEF CleanupProcesses, IInv, Tidy, RouteOwned
    <2> QED BY <2>1, <2>2, <2>3, <2>4 DEF Tidy
  <1> QED BY <1>0, <1>2, <1>3, DoneDeferKeeps DEF CleanupProcesses

LEMMA ReleaseKeeps ==
  ASSUME IInv, NEW r \in Run, Release(r)
  PROVE  IInv'
  <1>0. "release" \in Defer
    BY DEF Defer
  <1>1. /\ DOMAIN defers' = Run
        /\ \A s \in Run \ {r} : defers'[s] = defers[s]
        /\ defers[r] \in WithRelease
        /\ defers'[r] \notin WithRelease
        /\ defers[r] \in WithStop => defers'[r] \in WithStop
        /\ defers[r] \in WithCleanup => defers'[r] \in WithCleanup
        /\ config[r].host \in Hosts
    BY <1>0, Unwinds DEF Release
  <1>2. owner[config[r].host] = r
    BY <1>1 DEF IInv, Tidy, HostHeld
  <1>3. /\ owner' = [owner EXCEPT ![config[r].host] = None]
        /\ UNCHANGED <<pc, root, config, model, err, started, running>>
    BY DEF Release
  <1>4. Typed'
    BY <1>1, <1>3 DEF Release, IInv, Typed
  <1>5. Tidy'
    <2>1. \A s \in Run : HostHeld(s)'
      <3>1. HostHeld(r)'
        BY <1>1, <1>3, UpAssumption DEF IInv, Typed, Tidy, HostHeld, CleanupHasFailed
      <3>2. ASSUME NEW s \in Run \ {r} PROVE HostHeld(s)'
        BY <1>1, <1>2, <1>3, <3>2, UpAssumption
           DEF IInv, Typed, Tidy, HostHeld, CleanupHasFailed, Configured
      <3> QED BY <3>1, <3>2
    <2>2. \A s \in Run : ProcessesHeld(s)'
      BY <1>1, <1>3 DEF IInv, Tidy, ProcessesHeld
    <2>3. \A c \in running' : ContainerHeld(c)'
      BY <1>1, <1>3 DEF IInv, Tidy, ContainerHeld, project,
                        CleanupHasFailed, LifecycleHasFailed
    <2>4. \A h \in Hosts : RouteOwned(h)'
      BY <1>1, <1>3 DEF Release, IInv, Typed, Tidy, RouteOwned
    <2> QED BY <2>1, <2>2, <2>3, <2>4 DEF Tidy
  <1> QED BY <1>0, <1>3, <1>4, <1>5, DoneDeferKeeps DEF Release

LEMMA ReleaseFailsKeeps ==
  ASSUME IInv, NEW r \in Run, ReleaseFails(r)
  PROVE  IInv'
  <1>1. PICK e \in ClientErrors("control_plane", "PublicationRejected") : CleanupFailed(r, e)
    BY DEF ReleaseFails
  <1>2. Fine(e) /\ ~BlamesFiles(e)
    BY ClientErrorsFine
  <1> QED BY <1>1, <1>2, FailedDeferKeeps DEF ReleaseFails

LEMMA ExitKeeps ==
  ASSUME IInv, NEW r \in Run, Exit(r)
  PROVE  IInv'
  <1> USE DEF Exit, Goto
  <1>1. Typed'
    BY DEF IInv, Typed, Label
  <1>2. \A s \in Run : Phase(s)' /\ Configured(s)'
    BY DEF IInv, Typed, Phase, Configured
  <1>3. \A s \in Run : Judged(s)' /\ ErrorExplained(s)'
    BY DEF IInv, Typed, Judged, ErrorExplained
  <1>4. Tidy'
    <2>1. \A s \in Run : HostHeld(s)' /\ ProcessesHeld(s)'
      BY DEF IInv, Tidy, HostHeld, ProcessesHeld, CleanupHasFailed
    <2>2. \A c \in running' : ContainerHeld(c)'
      BY DEF IInv, Tidy, ContainerHeld, project, CleanupHasFailed, LifecycleHasFailed
    <2>3. \A h \in Hosts : RouteOwned(h)'
      BY DEF IInv, Tidy, RouteOwned
    <2> QED BY <2>1, <2>2, <2>3 DEF Tidy
  <1> QED BY <1>1, <1>2, <1>3, <1>4 DEF IInv

LEMMA NextKeeps == IInv /\ [Next]_vars => IInv'
  <1> SUFFICES ASSUME IInv, [Next]_vars PROVE IInv'
    OBVIOUS
  <1>1. CASE UNCHANGED vars
    <2> USE <1>1 DEF vars, runVars
    <2>1. Typed' /\ \A r \in Run : Phase(r)' /\ Configured(r)'
      BY DEF IInv, Typed, Phase, Configured
    <2>2. \A r \in Run : Judged(r)' /\ ErrorExplained(r)'
      BY DEF IInv, Judged, ErrorExplained
    <2>3. \A r \in Run : HostHeld(r)' /\ ProcessesHeld(r)'
      BY DEF IInv, Tidy, HostHeld, ProcessesHeld, CleanupHasFailed
    <2>4. \A c \in running' : ContainerHeld(c)'
      BY DEF IInv, Tidy, ContainerHeld, project, CleanupHasFailed, LifecycleHasFailed
    <2>5. \A h \in Hosts : RouteOwned(h)'
      BY DEF IInv, Tidy, RouteOwned
    <2> QED BY <2>1, <2>2, <2>3, <2>4, <2>5 DEF IInv, Tidy
  <1>2. ASSUME NEW r \in Run, RunStep(r) PROVE IInv'
    <2>1. CASE LoadConfig(r)
      BY <2>1, LoadConfigKeeps
    <2>2. CASE Claimed(r)
      BY <2>2, ClaimedKeeps
    <2>3. CASE ClaimFails(r)
      BY <2>3, ClaimFailsKeeps
    <2>4. CASE LoadCompose(r)
      BY <2>4, LoadComposeKeeps
    <2>5. CASE ComposeUp(r)
      BY <2>5, ComposeUpKeeps
    <2>6. CASE ComposeFails(r)
      BY <2>6, ComposeFailsKeeps
    <2>7. CASE StartProcesses(r) \/ ProcessesFail(r)
      BY <2>7, ProcessesKeep
    <2>8. CASE Publish(r)
      BY <2>8, PublishKeeps
    <2>9. CASE PublishFails(r)
      BY <2>9, PublishFailsKeeps
    <2>10. CASE ForegroundEnds(r)
      BY <2>10, ForegroundEndsKeeps
    <2>11. CASE CleanupProcesses(r)
      BY <2>11, CleanupProcessesKeeps
    <2>12. CASE StopCompose(r)
      BY <2>12, StopComposeKeeps
    <2>13. CASE Release(r)
      BY <2>13, ReleaseKeeps
    <2>14. CASE ReleaseFails(r)
      BY <2>14, ReleaseFailsKeeps
    <2>15. CASE Exit(r)
      BY <2>15, ExitKeeps
    <2> QED BY <1>2, <2>1, <2>2, <2>3, <2>4, <2>5, <2>6, <2>7, <2>8, <2>9, <2>10,
               <2>11, <2>12, <2>13, <2>14, <2>15 DEF RunStep
  <1> QED BY <1>1, <1>2 DEF Next

-----------------------------------------------------------------------------
(* Theorems.                                                               *)

LEMMA Inductive == Spec => []IInv
  BY InitEstablishes, NextKeeps, PTL DEF Spec

\* Nothing that Compose runs for a stack is shared with anybody: what the
\* isolation rules of the backend look at is all that can be shared, as far as
\* the files that were given say it.
THEOREM UpIsolated == Spec => []UpIsIsolated
  <1>1. IInv => UpIsIsolated
    <2> SUFFICES ASSUME IInv, NEW c \in running
                 PROVE  LET files == config[c.run].compose.files
                        IN  /\ Merged(files, c.service, "traits") = {}
                            /\ \A n \in Merged(files, c.service, "uses") :
                                   Declaring(files, n) \subseteq Range(files) =>
                                       ~IsNamed(files, n) /\ ~IsExternal(files, n)
      BY DEF UpIsIsolated
    <2> DEFINE req == composeRequest(config[c.run])
               files == config[c.run].compose.files
    <2>1. /\ c.service \in Selected(req)
          /\ validateIsolation(req)
          /\ config[c.run].compose.ownership = "owned"
      BY DEF IInv, Tidy, ContainerHeld, Judged
    <2>2. req.files = files /\ req.ownership = "owned"
      BY <2>1 DEF composeRequest
    <2> HIDE DEF req, files
    <2>3. /\ \A s \in Selected(req) : Merged(files, s, "traits") = {}
          /\ \A n \in Necessary(req) : ~RawNamed(files, n) /\ ~RawExternal(files, n)
      BY <2>1, <2>2 DEF validateIsolation
    <2>4. ASSUME NEW n \in Merged(files, c.service, "uses"),
                 Declaring(files, n) \subseteq Range(files)
          PROVE  ~IsNamed(files, n) /\ ~IsExternal(files, n)
      <3>1. n \in Necessary(req)
        BY <2>1, <2>2 DEF Necessary
      <3>2. ~RawNamed(files, n) /\ ~RawExternal(files, n)
        BY <2>3, <3>1
      <3>3. ~IsNamed(files, n)
        BY <2>4, <3>2 DEF IsNamed, RawNamed
      <3>4. ~IsExternal(files, n)
        BY <2>4, <3>2 DEF IsExternal, RawExternal, Range
      <3> QED BY <3>3, <3>4
    <2> QED BY <2>1, <2>3, <2>4 DEF files
  <1> QED BY <1>1, Inductive, PTL

\* Whatever fails, the error says in which layer and why, and a rejected
\* Compose file is a rejected preflight.
THEOREM ErrorsAreExplained == Spec => []ErrorsExplained
  <1>1. IInv => ErrorsExplained
    <2> SUFFICES ASSUME IInv, NEW r \in Run, err[r] # Nil
                 PROVE  /\ \A i \in DOMAIN err[r] : WellFormed(err[r][i])
                        /\ err[r][1].layer = "stack_orchestrator"
                        /\ err[r][1].code # "Critical"
                        /\ BlamesFiles(err[r])
                               => Is(err[r], "stack_orchestrator", "PreflightRejected")
      BY DEF ErrorsExplained, BlamesFiles
    <2>1. Explained(err[r])
      BY DEF IInv, ErrorExplained
    <2>2. DOMAIN err[r] = 1..Len(err[r])
      BY <2>1 DEF Explained, Fine
    <2> QED BY <2>1, <2>2 DEF Explained, Fine
  <1> QED BY <1>1, Inductive, PTL

\* A run that has ended has left no container, process, claim or route, or
\* its error says that Compose or a cleanup has failed.
THEOREM EndsTidily == Spec => []EndedLeavesNothing
  <1>1. IInv => EndedLeavesNothing
    <2> SUFFICES ASSUME IInv, NEW r \in Run, pc[r] = "ended",
                        ~LifecycleHasFailed(r), ~CleanupHasFailed(r)
                 PROVE  /\ ~started[r]
                        /\ \A c \in running : c.run # r
                        /\ \A h \in Hosts : owner[h] # r
                        /\ \A h \in Hosts : owner[h] = None => blocks[h] = << >>
      BY DEF EndedLeavesNothing, LifecycleHasFailed, CleanupHasFailed
    <2>1. defers[r] \notin WithRelease \union WithStop \union WithCleanup
      BY StackFacts DEF IInv, Phase
    <2> QED BY <2>1 DEF IInv, Tidy, HostHeld, ProcessesHeld, ContainerHeld, RouteOwned
  <1> QED BY <1>1, Inductive, PTL

\* Containers go only by the doing of their own run, of one that was given
\* another host, or of one that has released the host.
THEOREM StopsSpareOthers == Spec => StopSparesOthers
  <1> DEFINE A == \A c \in running \ running' :
                    \/ Steps(c.run) \/ ~holds(c.run)
                    \/ \E r \in Run \ {c.run} :
                           /\ Steps(r)
                           /\ root[r] = root[c.run]
                           /\ \/ config[r].host # config[c.run].host
                              \/ pc[r] = "unwind" /\ ~holds(r)
  <1>1. IInv /\ [Next]_vars => A
    <2> SUFFICES ASSUME IInv, [Next]_vars, NEW c \in running \ running',
                        ~Steps(c.run), holds(c.run)
                 PROVE  \E r \in Run \ {c.run} :
                           /\ Steps(r)
                           /\ root[r] = root[c.run]
                           /\ \/ config[r].host # config[c.run].host
                              \/ pc[r] = "unwind" /\ ~holds(r)
      OBVIOUS
    <2>1. PICK r \in Run : ComposeUp(r) \/ ComposeFails(r) \/ StopCompose(r)
      <3>1. running' # running
        OBVIOUS
      <3> QED BY <3>1 DEF Next, RunStep, vars, runVars, LoadConfig, Claimed, ClaimFails,
                          LoadCompose, StartProcesses, ProcessesFail, Publish, PublishFails,
                          ForegroundEnds, CleanupProcesses, Release, ReleaseFails, Exit
    <2>2. Steps(r)
      <3>1. CASE ComposeUp(r)
        BY <3>1 DEF ComposeUp, Goto, IInv, Typed, Steps
      <3>2. CASE ComposeFails(r)
        BY <3>2 DEF ComposeFails, Return, Goto, IInv, Typed, Steps
      <3>3. CASE StopCompose(r)
        <4>1. defers[r] \in Stacks /\ defers[r] # << >>
          BY <3>3 DEF StopCompose, Innermost, IInv, Phase
        <4>2. Tail(defers[r]) # defers[r]
          BY <4>1, Popped
        <4> QED BY <3>3, <4>2 DEF StopCompose, Pop, IInv, Typed, Steps
      <3> QED BY <2>1, <3>1, <3>2, <3>3
    <2>3. c.project = project(r)
      <3>1. OfOthers(r) \subseteq running'
        BY <2>1 DEF ComposeUp, ComposeFails, StopCompose, Containers
      <3> QED BY <3>1 DEF OfOthers
    <2>4. r # c.run /\ c.run \in Run
      BY <2>2 DEF IInv, Tidy, ContainerHeld
    <2>5. root[r] = root[c.run]
      BY <2>3 DEF IInv, Tidy, ContainerHeld, project, ProjectName
    <2>6. CASE config[r].host = config[c.run].host
      <3>1. ~holds(r)
        BY <2>4, <2>6 DEF holds
      <3>2. pc[r] # "up"
        BY <3>1, StackFacts DEF holds, IInv, Phase, Tidy, HostHeld
      <3>3. pc[r] = "unwind"
        BY <2>1, <3>2 DEF ComposeUp, ComposeFails, StopCompose, Innermost
      <3> QED BY <2>2, <2>4, <2>5, <3>1, <3>3
    <2>7. CASE config[r].host # config[c.run].host
      BY <2>2, <2>4, <2>5, <2>7
    <2> QED BY <2>6, <2>7
  <1>2. IInv /\ [Next]_vars => [A]_vars
    BY <1>1
  <1> QED BY <1>2, Inductive, PTL DEF Spec, StopSparesOthers

-----------------------------------------------------------------------------
(* Types.                                                                  *)

Beforehand(r) == pc[r] \in {"start", "unwind", "ended"} /\ defers[r] = << >>

RouteList == Seq([path : Seq(STRING), process : STRING, port : Int])

\* What a run has found and read stays fit to be used.
Found(r) ==
    /\ root[r] # None => /\ root[r] \in HasConfig
                         /\ validConfig(config[r])
                         /\ config[r].host \in Hosts
                         /\ config[r].routes \in RouteList
    /\ root[r] # None \/ Beforehand(r)
    /\ model[r] \subseteq Service

\* The defaults that loadConfig fills in pass its own checks.
LEMMA DefaultsPass ==
  ASSUME NEW c, IsConfig(c), validConfig(c), NEW dir
  PROVE  /\ validConfig(loadConfig(c, dir))
         /\ loadConfig(c, dir).routes \in RouteList
  <1> DEFINE l == loadConfig(c, dir)
  <1>1. /\ l.version = c.version /\ l.name = c.name
        /\ l.processes = c.processes /\ l.routes = c.routes
        /\ l.compose.files = c.compose.files /\ l.compose.services = c.compose.services
        /\ l.compose.ownership = IF enabled(c.compose) THEN Default(c.compose.ownership, "owned")
                                 ELSE c.compose.ownership
    BY DEF IsConfig, loadConfig
  <1> HIDE DEF l
  <1>2. enabled(l.compose) => l.compose.files # << >> /\ validOwnership(l.compose)
    <2>1. CASE enabled(c.compose)
      BY <1>1, <2>1 DEF validConfig, validOwnership, Default
    <2>2. CASE ~enabled(c.compose)
      BY <1>1, <2>2 DEF enabled
    <2> QED BY <2>1, <2>2
  <1>3. l.routes \in RouteList
    BY <1>1 DEF IsConfig, RouteList
  <1>4. validConfig(l)
    BY <1>1, <1>2 DEF validConfig
  <1> QED BY <1>3, <1>4 DEF l

LEMMA FoundByLoadConfig ==
  ASSUME IInv, NEW r \in Run, \A s \in Run : Found(s), LoadConfig(r)
  PROVE  \A s \in Run : Found(s)'
  <1> USE DEF IInv, Typed
  <1>1. PICK f \in Finds[r] :
          IF Roots(f.start) # {} /\ validConfig(f.config)
          THEN /\ root' = [root EXCEPT ![r] = findProjectRoot(f.start)]
               /\ config' = [config EXCEPT ![r] = loadConfig(f.config, findProjectRoot(f.start))]
               /\ Goto(r, "claim")
               /\ UNCHANGED err
          ELSE /\ Return(r, Orchestrator("ConfigInvalid", Nil))
               /\ UNCHANGED <<root, config>>
    BY DEF LoadConfig
  <1>2. pc[r] = "start" /\ UNCHANGED <<model, defers>>
    BY DEF LoadConfig
  <1>3. defers[r] = << >>
    BY <1>2 DEF Phase
  <1>4. CASE ~(Roots(f.start) # {} /\ validConfig(f.config))
    BY <1>1, <1>2, <1>3, <1>4 DEF Return, Goto, Found, Beforehand
  <1>5. CASE Roots(f.start) # {} /\ validConfig(f.config)
    <2> DEFINE dir == findProjectRoot(f.start)
               c == loadConfig(f.config, dir)
    <2>1. f.start \in Seq(STRING) /\ IsConfig(f.config)
      BY UpAssumption DEF Range
    <2>2. dir \in HasConfig /\ dir # None
      BY <1>5, <2>1, NearestRoot, UpAssumption
    <2>3. validConfig(c) /\ c.routes \in RouteList
      BY <1>5, <2>1, DefaultsPass
    <2>4. c.host \in Hosts
      BY <1>5, LoadedConfig
    <2>5. /\ root' = [root EXCEPT ![r] = dir]
          /\ config' = [config EXCEPT ![r] = c]
          /\ pc' = [pc EXCEPT ![r] = "claim"]
      BY <1>1, <1>5 DEF Goto
    <2> HIDE DEF dir, c
    <2> QED BY <1>2, <2>2, <2>3, <2>4, <2>5 DEF Found, Beforehand
  <1> QED BY <1>4, <1>5

\* After that a run reads nothing more, and defers nothing before.
LEMMA OthersFindNothing ==
  ASSUME IInv, NEW r \in Run, RunStep(r), ~LoadConfig(r)
  PROVE  /\ UNCHANGED <<root, config>>
         /\ \A s \in Run \ {r} : pc'[s] = pc[s] /\ defers'[s] = defers[s]
         /\ Beforehand(r) => Beforehand(r)'
         /\ UNCHANGED model \/ LoadCompose(r)
  <1> USE DEF IInv, Typed, Goto, Return, Push, Beforehand
  <1>1. CASE Claimed(r) \/ ClaimFails(r) \/ LoadCompose(r)
    BY <1>1 DEF Claimed, ClaimFails, LoadCompose
  <1>2. CASE ComposeUp(r) \/ ComposeFails(r)
    BY <1>2 DEF ComposeUp, ComposeFails
  <1>3. CASE StartProcesses(r) \/ ProcessesFail(r)
    BY <1>3 DEF StartProcesses, ProcessesFail
  <1>4. CASE Publish(r) \/ PublishFails(r) \/ ForegroundEnds(r)
    BY <1>4 DEF Publish, PublishFails, ForegroundEnds
  <1>5. CASE StopCompose(r) \/ CleanupProcesses(r)
    BY <1>5 DEF StopCompose, CleanupProcesses, Innermost, Pop, CleanupFailed
  <1>6. CASE Release(r) \/ ReleaseFails(r)
    BY <1>6 DEF Release, ReleaseFails, Innermost, Pop, CleanupFailed
  <1>7. CASE Exit(r)
    BY <1>7 DEF Exit
  <1> QED BY <1>1, <1>2, <1>3, <1>4, <1>5, <1>6, <1>7 DEF RunStep

LEMMA FoundKeeps ==
  (IInv /\ \A r \in Run : Found(r)) /\ [Next]_vars => (\A r \in Run : Found(r))'
  <1> SUFFICES ASSUME IInv, \A r \in Run : Found(r), [Next]_vars
               PROVE  \A s \in Run : Found(s)'
    OBVIOUS
  <1>1. CASE UNCHANGED vars
    BY <1>1 DEF vars, runVars, Found, Beforehand
  <1>2. ASSUME NEW r \in Run, RunStep(r), ~LoadConfig(r)
        PROVE  \A s \in Run : Found(s)'
    <2>1. /\ UNCHANGED <<root, config>>
          /\ \A s \in Run : Beforehand(s) => Beforehand(s)'
      BY <1>2, OthersFindNothing DEF Beforehand
    <2>2. \A s \in Run : model'[s] \subseteq Service
      <3>1. CASE UNCHANGED model
        BY <3>1 DEF Found
      <3>2. CASE LoadCompose(r)
        <4> DEFINE loaded == Load(composeRequest(config[r]))
        <4>1. \/ UNCHANGED model
              \/ loaded.error = Nil /\ model' = [model EXCEPT ![r] = loaded.services]
          BY <3>2 DEF LoadCompose
        <4>2. loaded.error = Nil => loaded.services \subseteq Service
          BY LoadSelectsTheLot
        <4> HIDE DEF loaded
        <4> QED BY <4>1, <4>2 DEF Found, IInv, Typed
      <3> QED BY <1>2, <3>1, <3>2, OthersFindNothing
    <2> QED BY <2>1, <2>2 DEF Found
  <1> QED BY <1>1, <1>2, FoundByLoadConfig DEF Next

LEMMA FoundInductive == Spec => [](IInv /\ \A r \in Run : Found(r))
  <1>1. Init => \A r \in Run : Found(r)
    BY DEF Init, Found, Beforehand
  <1> QED BY <1>1, FoundKeeps, Inductive, PTL DEF Spec

\* Every variable has its type: what a run works with is a root that exists
\* and a configuration that passes the checks, and what Compose runs for it
\* are services of the files.
THEOREM UpTypeCorrect == Spec => []UpTypeOK
  <1>1. IInv /\ (\A r \in Run : Found(r)) => UpTypeOK
    <2> SUFFICES ASSUME IInv, \A r \in Run : Found(r) PROVE UpTypeOK
      OBVIOUS
    <2>1. /\ pc \in [Run -> Label]
          /\ started \in [Run -> BOOLEAN]
          /\ owner \in [Hosts -> Run \union {None}]
      BY DEF IInv, Typed
    <2>2. ASSUME NEW r \in Run
          PROVE  Range(defers[r]) \subseteq Defer
      <3>1. \A a, b, c \in Defer : {<< >>, <<a>>, <<a, b>>, <<a, b, c>>} \subseteq Seq(Defer)
        OBVIOUS
      <3>2. "release" \in Defer /\ "stopCompose" \in Defer /\ "cleanupProcesses" \in Defer
        BY DEF Defer
      <3>3. Stacks \subseteq Seq(Defer)
        BY <3>1, <3>2 DEF Stacks, Unpublished, Published, Released
      <3>4. defers[r] \in Seq(Defer)
        BY <3>3 DEF IInv, Phase
      <3> QED BY <3>4, RangeOfSeq
    <2>3. ASSUME NEW c \in running
          PROVE  c.service \in Service /\ c.run \in Run
      BY DEF IInv, Tidy, ContainerHeld, Found
    <2> QED BY <2>1, <2>2, <2>3 DEF UpTypeOK, Found, Beforehand
  <1> QED BY <1>1, FoundInductive, PTL

-----------------------------------------------------------------------------
(* Routes.                                                                 *)

\* What is published stays: the claim keeps everybody else away from it.
Serves(r) ==
    pc[r] = "foreground" =>
        /\ publishable(r)
        /\ blocks[config[r].host] = renderCaddyfile(config[r].routes)

LEMMA PublishedByPublish ==
  ASSUME IInv, NEW r \in Run, Publish(r)
  PROVE  Serves(r)'
  <1>1. config[r].host \in Hosts
    BY DEF Publish, IInv, Configured
  <1> QED BY <1>1 DEF Publish, Serves, publishable, IInv, Typed

LEMMA PublishedKeeps ==
  (IInv /\ \A r \in Run : Serves(r)) /\ [Next]_vars => (\A r \in Run : Serves(r))'
  <1> SUFFICES ASSUME IInv, \A r \in Run : Serves(r), [Next]_vars, NEW s \in Run,
                      pc'[s] = "foreground"
               PROVE  Serves(s)'
    BY DEF Serves
  <1>1. CASE UNCHANGED vars
    BY <1>1 DEF vars, runVars, Serves, publishable
  <1>2. ASSUME NEW r \in Run, RunStep(r), ~Publish(r)
        PROVE  Serves(s)'
    <2>1. pc[s] = "foreground"
      <3> USE <1>2 DEF RunStep, Goto, Return, IInv, Typed
      <3>1. CASE LoadConfig(r) \/ Claimed(r) \/ ClaimFails(r) \/ LoadCompose(r)
        BY <3>1 DEF LoadConfig, Claimed, ClaimFails, LoadCompose
      <3>2. CASE ComposeUp(r) \/ ComposeFails(r) \/ StartProcesses(r) \/ ProcessesFail(r)
        BY <3>2 DEF ComposeUp, ComposeFails, StartProcesses, ProcessesFail
      <3>3. CASE PublishFails(r) \/ ForegroundEnds(r) \/ Exit(r)
        BY <3>3 DEF PublishFails, ForegroundEnds, Exit
      <3>4. CASE StopCompose(r) \/ CleanupProcesses(r) \/ Release(r) \/ ReleaseFails(r)
        BY <3>4 DEF StopCompose, CleanupProcesses, Release, ReleaseFails
      <3> QED BY <3>1, <3>2, <3>3, <3>4
    <2>2. config'[s] = config[s]
      <3>1. CASE LoadConfig(r)
        BY <2>1, <3>1 DEF LoadConfig, IInv, Typed
      <3>2. CASE ~LoadConfig(r)
        BY <1>2, <3>2, OthersFindNothing
      <3> QED BY <3>1, <3>2
    <2>3. CASE ~Release(r)
      <3>1. UNCHANGED blocks
        BY <1>2, <2>3 DEF RunStep, LoadConfig, Claimed, ClaimFails, LoadCompose, ComposeUp,
              ComposeFails, StartProcesses, ProcessesFail, PublishFails, ForegroundEnds,
              CleanupProcesses, StopCompose, ReleaseFails, Exit
      <3> QED BY <2>1, <2>2, <3>1 DEF Serves, publishable
    <2>4. CASE Release(r)
      <3>1. pc[r] = "unwind" /\ defers[r] \in WithRelease
        BY <2>4, Popped DEF Release, Innermost, IInv, Phase
      <3>2. owner[config[r].host] = r
        BY <3>1 DEF IInv, Tidy, HostHeld
      <3>3. owner[config[s].host] = s
        BY <2>1, StackFacts DEF IInv, Phase, Tidy, HostHeld
      <3>4. config[r].host # config[s].host
        BY <2>1, <3>1, <3>2, <3>3
      <3> QED BY <2>1, <2>2, <2>4, <3>4 DEF Release, Serves, publishable
    <2> QED BY <2>3, <2>4
  <1>3. ASSUME NEW r \in Run, Publish(r)
        PROVE  Serves(s)'
    <2>1. CASE r = s
      BY <1>3, <2>1, PublishedByPublish
    <2>2. CASE r # s
      <3>1. pc[r] = "publish" /\ pc[s] = "foreground" /\ config' = config
        BY <1>3, <2>2 DEF Publish, Goto, IInv, Typed
      <3>2. owner[config[r].host] = r
        BY <3>1, StackFacts DEF IInv, Phase, Tidy, HostHeld
      <3>3. owner[config[s].host] = s
        BY <3>1, StackFacts DEF IInv, Phase, Tidy, HostHeld
      <3>4. config[r].host # config[s].host
        BY <2>2, <3>2, <3>3
      <3> QED BY <1>3, <3>1, <3>4 DEF Publish, Serves, publishable
    <2> QED BY <2>1, <2>2
  <1> QED BY <1>1, <1>2, <1>3 DEF Next

LEMMA PublishedInductive == Spec => [](IInv /\ \A r \in Run : Serves(r))
  <1>1. Init => \A r \in Run : Serves(r)
    BY DEF Init, Serves
  <1> QED BY <1>1, PublishedKeeps, Inductive, PTL DEF Spec

\* Whatever routes a project has, in whatever order, and whatever its paths with
\* stars take: while it is up, Caddy answers each request on which the text and
\* the segments of the paths agree by a most specific route that the request
\* lies under (renderCaddyfile, caddyPathMatcher).
THEOREM RoutesServe == Spec => []MostSpecificRouteServes
  <1>1. /\ IInv
        /\ \A r \in Run : Found(r)
        /\ \A r \in Run : Serves(r)
        => MostSpecificRouteServes
    <2> SUFFICES ASSUME IInv, \A r \in Run : Found(r), \A r \in Run : Serves(r),
                        NEW r \in Run, pc[r] = "foreground", NEW q \in Requests,
                        SegmentsDecide(q, config[r].routes)
                 PROVE  ServesMostSpecific(config[r].routes, blocks[config[r].host], q)
      BY DEF MostSpecificRouteServes, ServesMostSpecific
    <2> DEFINE list == config[r].routes
    <2>1. list \in RouteList
      BY DEF Found, Beforehand
    <2>2. publishable(r) /\ blocks[config[r].host] = renderCaddyfile(list)
      BY DEF Serves
    <2>3. validatePublication(config[r].host, list)
      BY <2>2 DEF publishable
    <2> HIDE DEF list
    <2>4. Valid(list)
      <3>1. \A i \in DOMAIN list : IsPrefix(Slash, list[i].path)
        BY <2>3 DEF validatePublication
      <3>2. Len(list) \in Nat /\ DOMAIN list = 1..Len(list)
        BY <2>1 DEF RouteList
      <3>3. \A i \in DOMAIN list : list[i] \in [path : Seq(STRING), process : STRING, port : Int]
        BY <2>1, <3>2, ElementOfSeq DEF RouteList
      <3>4. \A i \in DOMAIN list : list[i].path \in Seq(STRING)
        BY <3>3
      <3> QED BY <3>1, <3>2, <3>4 DEF Valid
    <2>5. q \in Seq(STRING) /\ IsPrefix(Slash, q)
      BY UpAssumption
    <2>6. ServesMostSpecific(list, renderCaddyfile(list), q)
      BY <2>4, <2>5, RenderedServes DEF list
    <2> QED BY <2>2, <2>6 DEF list
  <1> QED BY <1>1, FoundInductive, PublishedInductive, PTL
=============================================================================
