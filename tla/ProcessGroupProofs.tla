-------------------------- MODULE ProcessGroupProofs --------------------------
(***************************************************************************)
(* For any number of processes, whatever they ignore and whenever they     *)
(* fork and end: what a run leaves of its process groups.                  *)
(*                                                                         *)
(* The inductive invariant follows the two loops of terminateProcesses:    *)
(* before the second one every exit is in its channel at most once, and    *)
(* only the culprit's has been taken; the second one leaves behind it      *)
(* groups that are empty or whose leader's exit it has taken itself.       *)
(***************************************************************************)
EXTENDS ProcessGroup, TLAPS

\* Only processes that were started have members or an exit to tell.
OnlyStarted ==
    /\ \A p \in Process : p > started => alive[p] = {} /\ done[p] = "empty"
    /\ pc = "starting" => next = started + 1

\* The goroutine tells of an exit after it.
ExitsAreTrue ==
    \A p \in Process : done[p] # "empty" => "leader" \notin alive[p]

\* What the second loop leaves behind.
Handled(p) == alive[p] = {} \/ (p # culprit /\ done[p] = "taken")

\* Before a process is at its turn in that loop, only the poll that made it
\* the culprit has taken its exit.
Turns ==
    /\ \A p \in Process : p = culprit => done[p] = "taken"
    /\ pc \in {"starting"} \union Waiting =>
           culprit = 0 /\ \A p \in Process : done[p] # "taken"
    /\ pc = "term" => \A p \in Process : done[p] = "taken" => p = culprit
    /\ pc = "reap" => \A p \in Process :
           IF p < next THEN Handled(p) ELSE done[p] = "taken" => p = culprit
    /\ pc = "reap" => next <= started + 1
    /\ pc = "ended" => \A p \in Process : Handled(p)

IInv == GroupTypeOK /\ OnlyStarted /\ ExitsAreTrue /\ Turns

-----------------------------------------------------------------------------
LEMMA InitEstablishes == Init => IInv
  <1> SUFFICES ASSUME Init PROVE IInv
    OBVIOUS
  <1> USE GroupAssumption DEF Init, Process, Member, Label, Waiting
  <1>1. GroupTypeOK
    <2>1. pc \in Label /\ next \in 1..(N + 1) /\ started \in 0..N /\ culprit \in 0..N
      OBVIOUS
    <2>2. signalled \in BOOLEAN /\ deaf \in [Process -> SUBSET Member]
      OBVIOUS
    <2>3. /\ alive \in [Process -> SUBSET Member]
          /\ dying \in [Process -> SUBSET Member]
      OBVIOUS
    <2>4. done \in [Process -> {"empty", "full", "taken"}]
      OBVIOUS
    <2>5. QED BY <2>1, <2>2, <2>3, <2>4 DEF GroupTypeOK
  <1>2. OnlyStarted /\ ExitsAreTrue
    BY DEF OnlyStarted, ExitsAreTrue
  <1>3. Turns
    BY DEF Turns
  <1>4. QED BY <1>1, <1>2, <1>3 DEF IInv

\* The runner starts processes, waits and polls.
LEMMA StartKeeps == IInv /\ (StartNext \/ StartFails) => IInv'
  <1> SUFFICES ASSUME IInv, StartNext \/ StartFails PROVE IInv'
    OBVIOUS
  <1> USE GroupAssumption DEF IInv, GroupTypeOK, Process, Member, Label, Waiting
  <1>1. CASE StartNext
    <2>1. GroupTypeOK'
      BY <1>1 DEF StartNext
    <2>2. OnlyStarted' /\ ExitsAreTrue'
      BY <1>1 DEF StartNext, OnlyStarted, ExitsAreTrue
    <2>3. Turns'
      BY <1>1 DEF StartNext, Turns
    <2>4. QED BY <2>1, <2>2, <2>3
  <1>2. CASE StartFails
    <2>1. GroupTypeOK'
      BY <1>2 DEF StartFails, Terminate, groupVars
    <2>2. OnlyStarted' /\ ExitsAreTrue'
      BY <1>2 DEF StartFails, Terminate, groupVars, OnlyStarted, ExitsAreTrue
    <2>3. Turns'
      BY <1>2 DEF StartFails, Terminate, groupVars, Turns
    <2>4. QED BY <2>1, <2>2, <2>3
  <1>3. QED BY <1>1, <1>2

LEMMA WaitKeeps == IInv /\ (Ready \/ Published \/ WaitEnds) => IInv'
  <1> SUFFICES ASSUME IInv, Ready \/ Published \/ WaitEnds PROVE IInv'
    OBVIOUS
  <1> USE GroupAssumption DEF IInv, GroupTypeOK, Process, Member, Label, Waiting,
        Ready, Published, WaitEnds, Terminate, groupVars
  <1>1. GroupTypeOK'
    OBVIOUS
  <1>2. OnlyStarted' /\ ExitsAreTrue'
    BY DEF OnlyStarted, ExitsAreTrue
  <1>3. Turns'
    BY DEF Turns
  <1>4. QED BY <1>1, <1>2, <1>3

LEMMA PollKeeps == ASSUME NEW p \in Process, IInv, Poll(p) PROVE IInv'
  <1> USE GroupAssumption DEF IInv, GroupTypeOK, Process, Member, Label, Waiting, Poll, Terminate
  <1>1. GroupTypeOK'
    OBVIOUS
  <1>2. OnlyStarted' /\ ExitsAreTrue'
    BY DEF OnlyStarted, ExitsAreTrue
  <1>3. Turns'
    BY DEF Turns
  <1>4. QED BY <1>1, <1>2, <1>3

\* terminateProcesses.
LEMMA SendTermKeeps == IInv /\ SendTerm => IInv'
  <1> SUFFICES ASSUME IInv, SendTerm PROVE IInv'
    OBVIOUS
  <1> USE GroupAssumption DEF IInv, GroupTypeOK, Process, Member, Label, Waiting, SendTerm
  <1>1. GroupTypeOK'
    OBVIOUS
  <1>2. OnlyStarted' /\ ExitsAreTrue'
    BY DEF OnlyStarted, ExitsAreTrue
  <1>3. Turns'
    BY DEF Turns
  <1>4. QED BY <1>1, <1>2, <1>3

LEMMA ReapKeeps == IInv /\ Reap => IInv'
  <1> SUFFICES ASSUME IInv, Reap PROVE IInv'
    OBVIOUS
  <1> USE GroupAssumption DEF IInv, GroupTypeOK, Process, Member, Label, Waiting, Reap
  <1>1. GroupTypeOK'
    OBVIOUS
  <1>2. OnlyStarted' /\ ExitsAreTrue'
    BY DEF OnlyStarted, ExitsAreTrue
  <1>3. next # culprit
    BY DEF Turns
  <1>4. Turns'
    BY <1>3 DEF Turns, Handled
  <1>5. QED BY <1>1, <1>2, <1>4

LEMMA GraceEndsKeeps == IInv /\ GraceEnds => IInv'
  <1> SUFFICES ASSUME IInv, GraceEnds PROVE IInv'
    OBVIOUS
  <1> USE GroupAssumption DEF IInv, GroupTypeOK, Process, Member, Label, Waiting, GraceEnds
  <1>1. GroupTypeOK'
    OBVIOUS
  <1>2. OnlyStarted' /\ ExitsAreTrue'
    BY DEF OnlyStarted, ExitsAreTrue
  <1>3. Turns'
    BY DEF Turns, Handled
  <1>4. QED BY <1>1, <1>2, <1>3

LEMMA ReturnKeeps == IInv /\ Return => IInv'
  <1> SUFFICES ASSUME IInv, Return PROVE IInv'
    OBVIOUS
  <1> USE GroupAssumption DEF IInv, GroupTypeOK, Process, Member, Label, Waiting, Return, groupVars
  <1>1. GroupTypeOK'
    OBVIOUS
  <1>2. OnlyStarted' /\ ExitsAreTrue'
    BY DEF OnlyStarted, ExitsAreTrue
  <1>3. Turns'
    BY DEF Turns, Handled, OnlyStarted
  <1>4. QED BY <1>1, <1>2, <1>3

\* The user and the processes.
LEMMA SignalKeeps == IInv /\ Signal => IInv'
  BY DEF IInv, GroupTypeOK, OnlyStarted, ExitsAreTrue, Turns, Handled, Signal, groupVars

LEMMA ProcessesKeep ==
  ASSUME NEW p \in Process, IInv,
         Fork(p) \/ Collect(p) \/ \E m \in Member : Dies(p, m)
  PROVE  IInv'
  <1> USE GroupAssumption DEF IInv, GroupTypeOK, Process, Member, Label, Waiting, runnerVars
  <1>1. CASE Fork(p)
    <2>1. GroupTypeOK' /\ OnlyStarted' /\ ExitsAreTrue'
      BY <1>1 DEF Fork, OnlyStarted, ExitsAreTrue
    <2>2. Turns'
      BY <1>1 DEF Fork, Turns, Handled, ExitsAreTrue
    <2>3. QED BY <2>1, <2>2
  <1>2. CASE Collect(p)
    <2>1. GroupTypeOK' /\ OnlyStarted' /\ ExitsAreTrue'
      BY <1>2 DEF Collect, OnlyStarted, ExitsAreTrue
    <2>2. Turns'
      BY <1>2 DEF Collect, Turns, Handled
    <2>3. QED BY <2>1, <2>2
  <1>3. ASSUME NEW m \in Member, Dies(p, m) PROVE IInv'
    <2>1. GroupTypeOK' /\ OnlyStarted' /\ ExitsAreTrue'
      BY <1>3 DEF Dies, OnlyStarted, ExitsAreTrue
    <2>2. Turns'
      BY <1>3 DEF Dies, Turns, Handled
    <2>3. QED BY <2>1, <2>2
  <1>4. QED BY <1>1, <1>2, <1>3

LEMMA StutterKeeps == IInv /\ UNCHANGED vars => IInv'
  BY DEF IInv, GroupTypeOK, OnlyStarted, ExitsAreTrue, Turns, Handled, vars, runnerVars, groupVars

LEMMA NextPreserves == IInv /\ [Next]_vars => IInv'
  BY StartKeeps, WaitKeeps, PollKeeps, SendTermKeeps, ReapKeeps, GraceEndsKeeps, ReturnKeeps,
     SignalKeeps, ProcessesKeep, StutterKeeps DEF Next, Runner

LEMMA Invariance == Spec => []IInv
  BY InitEstablishes, NextPreserves, PTL DEF Spec

-----------------------------------------------------------------------------
\* Every variable of the process groups keeps its type: the loops never leave
\* the processes there are.
THEOREM GroupTypeCorrect == Spec => []GroupTypeOK
  <1>1. IInv => GroupTypeOK
    BY DEF IInv
  <1>2. QED BY <1>1, Invariance, PTL

\* No command that was started outlives the run, however many there are and
\* whichever ignore SIGTERM (terminateProcesses).
THEOREM NoLeadersSurvive == Spec => []NoLeaderSurvives
  <1>1. IInv => NoLeaderSurvives
    BY DEF IInv, NoLeaderSurvives, Turns, Handled, ExitsAreTrue
  <1>2. QED BY <1>1, Invariance, PTL

\* The group of the process that ended the run is gone to the last member, and
\* so are all groups whose leader did not exit in time.
THEOREM CulpritGroupsDie == Spec => []CulpritGroupDies
  <1>1. IInv => CulpritGroupDies
    BY DEF IInv, CulpritGroupDies, Turns, Handled
  <1>2. QED BY <1>1, Invariance, PTL
=============================================================================
