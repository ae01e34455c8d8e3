----------------------------- MODULE ProcessGroup -----------------------------
(***************************************************************************)
(* The processes of a stack: startProcesses, waitForReadiness,             *)
(* waitForeground and terminateProcesses in internal/up/runner.go.         *)
(*                                                                         *)
(* `StackRunner' takes a process for one thing that SIGKILL ends.  Here a  *)
(* process is a group of its own (Setpgid): the command that was started,  *)
(* its leader, and a helper that it may fork.  The runner signals groups   *)
(* but waits for leaders, through a channel that a goroutine fills once.   *)
(***************************************************************************)
EXTENDS Naturals

CONSTANT N  \* processes in zerobased.yaml, 1..N in the order of their names

ASSUME GroupAssumption == N \in Nat \ {0}

VARIABLES
    pc,         \* where the runner is
    next,       \* its index in the loop over processes
    started,    \* how many processes there are
    signalled,  \* its context is cancelled
    alive,      \* the members of each group that run
    deaf,       \* and those that ignore SIGTERM
    dying,      \* and those a SIGTERM is about to end
    done,       \* the channel of each process
    culprit     \* the process whose exit ended the run, 0 before

runnerVars == <<pc, next, started, signalled>>
groupVars == <<alive, deaf, dying, done>>
vars == <<runnerVars, groupVars, culprit>>

Process == 1..N

Member == {"leader", "helper"}

Waiting == {"readiness", "publishing", "foreground"}

Label == {"starting"} \union Waiting \union {"term", "reap", "ended"}

Init ==
    /\ pc = "starting"
    /\ next = 1
    /\ started = 0
    /\ signalled = FALSE
    /\ alive = [p \in Process |-> {}]
    /\ deaf \in [Process -> SUBSET Member]
    /\ dying = [p \in Process |-> {}]
    /\ done = [p \in Process |-> "empty"]
    /\ culprit = 0

-----------------------------------------------------------------------------
(* The runner.                                                             *)

StartNext ==
    /\ pc = "starting"
    /\ next <= N
    /\ alive' = [alive EXCEPT ![next] = {"leader"}]
    /\ started' = next
    /\ next' = next + 1
    /\ pc' = IF next = N THEN "readiness" ELSE "starting"
    /\ UNCHANGED <<signalled, deaf, dying, done, culprit>>

\* The run is over, with or without an error, and the processes there are
\* have to go.
Terminate ==
    /\ pc' = "term"
    /\ next' = 1
    /\ UNCHANGED <<started, signalled>>

StartFails ==
    /\ pc = "starting"
    /\ Terminate
    /\ UNCHANGED <<groupVars, culprit>>

\* allReady, after which the publication is made ...
Ready ==
    /\ pc = "readiness"
    /\ pc' = IF signalled THEN "term" ELSE "publishing"
    /\ next' = 1
    /\ UNCHANGED <<started, signalled, groupVars, culprit>>

\* ... and not a process looked at.
Published ==
    /\ pc = "publishing"
    /\ \/ pc' = "foreground" /\ UNCHANGED <<next, started, signalled>>
       \/ Terminate
    /\ UNCHANGED <<groupVars, culprit>>

\* The context is done, or the readiness timer fires.
WaitEnds ==
    /\ \/ pc \in {"readiness", "foreground"} /\ signalled
       \/ pc = "readiness"
    /\ Terminate
    /\ UNCHANGED <<groupVars, culprit>>

\* Mutant of Poll: the channel is closed, and can be read again.
PollClosed(p) ==
    /\ pc \in {"readiness", "foreground"}
    /\ done[p] = "full"
    /\ culprit' = p
    /\ Terminate
    /\ UNCHANGED groupVars

\* The exit of one process ends the run.  Whoever takes it from the channel
\* leaves nothing there for the wait after SIGTERM.
Poll(p) ==
    /\ pc \in {"readiness", "foreground"}
    /\ done[p] = "full"
    /\ done' = [done EXCEPT ![p] = "taken"]
    /\ culprit' = p
    /\ Terminate
    /\ UNCHANGED <<alive, deaf, dying>>

\* terminateProcesses: first SIGTERM for every group ...
SendTerm ==
    /\ pc = "term"
    /\ IF next <= started
       THEN /\ dying' = [dying EXCEPT ![next] = @ \union (alive[next] \ deaf[next])]
            /\ next' = next + 1
            /\ UNCHANGED pc
       ELSE pc' = "reap" /\ next' = 1 /\ UNCHANGED dying
    /\ UNCHANGED <<started, signalled, alive, deaf, done, culprit>>

\* ... then for each its exit ...
Reap ==
    /\ pc = "reap"
    /\ next <= started
    /\ done[next] = "full"
    /\ done' = [done EXCEPT ![next] = "taken"]
    /\ next' = next + 1
    /\ UNCHANGED <<pc, started, signalled, alive, deaf, dying, culprit>>

\* Mutant of GraceEnds: the runner waits for the exit however long it takes.
GraceEndsNever == FALSE /\ UNCHANGED vars

\* Mutant of GraceEnds: the runner goes on without a SIGKILL.
GraceEndsWithoutKill ==
    /\ pc = "reap"
    /\ next <= started
    /\ next' = next + 1
    /\ UNCHANGED <<pc, started, signalled, groupVars, culprit>>

\* Mutant of GraceEnds: the loop goes one too far.
GraceEndsPastTheLast ==
    /\ pc = "reap"
    /\ next <= started + 1
    /\ alive' = [p \in Process |-> IF p = next THEN {} ELSE alive[p]]
    /\ dying' = [p \in Process |-> IF p = next THEN {} ELSE dying[p]]
    /\ next' = next + 1
    /\ UNCHANGED <<pc, started, signalled, deaf, done, culprit>>

\* ... or 200 ms and a SIGKILL for the group.  With both at hand, select
\* takes either.
GraceEnds ==
    /\ pc = "reap"
    /\ next <= started
    /\ alive' = [alive EXCEPT ![next] = {}]
    /\ dying' = [dying EXCEPT ![next] = {}]
    /\ next' = next + 1
    /\ UNCHANGED <<pc, started, signalled, deaf, done, culprit>>

Return ==
    /\ pc = "reap"
    /\ next > started
    /\ pc' = "ended"
    /\ UNCHANGED <<next, started, signalled, groupVars, culprit>>

-----------------------------------------------------------------------------
(* The user and the processes.                                             *)

Signal ==
    /\ ~signalled
    /\ signalled' = TRUE
    /\ UNCHANGED <<pc, next, started, groupVars, culprit>>

Fork(p) ==
    /\ "leader" \in alive[p]
    /\ alive' = [alive EXCEPT ![p] = @ \union {"helper"}]
    /\ UNCHANGED <<runnerVars, deaf, dying, done, culprit>>

\* By itself, or of a SIGTERM.
Dies(p, m) ==
    /\ m \in alive[p]
    /\ alive' = [alive EXCEPT ![p] = @ \ {m}]
    /\ dying' = [dying EXCEPT ![p] = @ \ {m}]
    /\ UNCHANGED <<runnerVars, deaf, done, culprit>>

\* The goroutine: Wait returns when the leader is gone, whatever else runs.
Collect(p) ==
    /\ p <= started
    /\ "leader" \notin alive[p]
    /\ done[p] = "empty"
    /\ done' = [done EXCEPT ![p] = "full"]
    /\ UNCHANGED <<runnerVars, alive, deaf, dying, culprit>>

Runner ==
    \/ StartNext \/ StartFails \/ Ready \/ Published \/ WaitEnds
    \/ \E p \in Process : Poll(p)
    \/ SendTerm \/ Reap \/ GraceEnds \/ Return

Next ==
    \/ Runner
    \/ Signal
    \/ \E p \in Process : Fork(p) \/ Collect(p) \/ \E m \in Member : Dies(p, m)

Spec == Init /\ [][Next]_vars

\* The runner and its goroutines go on.  It polls every 20 ms, and while it
\* waits nothing else has to happen.
Fairness ==
    /\ WF_vars(Runner /\ pc \notin {"readiness", "foreground"})
    /\ WF_vars(WaitEnds /\ signalled)
    /\ \A p \in Process : WF_vars(Collect(p)) /\ WF_vars(Poll(p))

FairSpec == Spec /\ Fairness

-----------------------------------------------------------------------------
(* What the user is promised.                                              *)

\* Every variable holds a value of the kind the code gives it.
GroupTypeOK ==
    /\ pc \in Label
    /\ next \in 1..(N + 1)
    /\ started \in 0..N
    /\ signalled \in BOOLEAN
    /\ alive \in [Process -> SUBSET Member]
    /\ deaf \in [Process -> SUBSET Member]
    /\ dying \in [Process -> SUBSET Member]
    /\ done \in [Process -> {"empty", "full", "taken"}]
    /\ culprit \in 0..N

\* No command that was started outlives the run, whether it listens to
\* SIGTERM or not, also if a later one could not be started at all.
NoLeaderSurvives ==
    pc = "ended" => \A p \in Process : "leader" \notin alive[p]

\* The group of the process whose exit ended the run is gone to the last
\* member: its exit is consumed, so the wait after SIGTERM runs into its
\* timeout and SIGKILL takes what is left.  Helpers survive a run in groups
\* whose leader obeyed SIGTERM, nowhere else.
CulpritGroupDies ==
    pc = "ended" =>
        \A p \in Process : alive[p] # {} => p # culprit /\ done[p] = "taken"

\* After a signal or the exit of any process the run ends, however many of
\* the processes ignore SIGTERM and whatever of their groups stays behind.
RunEnds ==
    /\ signalled ~> pc = "ended"
    /\ \A p \in Process : (p <= started /\ "leader" \notin alive[p]) ~> pc = "ended"
=============================================================================
