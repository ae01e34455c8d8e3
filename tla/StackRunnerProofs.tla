------------------------- MODULE StackRunnerProofs -------------------------
(***************************************************************************)
(* Proofs about `zerobased up'.  The inductive invariant IInv says, phase  *)
(* by phase, which defers are pending and what the run holds: whatever a   *)
(* run has taken has a defer that gives it back, a request that is about   *)
(* to, or an error that admits it.  One lemma per action shows that the    *)
(* action keeps IInv.                                                      *)
(***************************************************************************)
EXTENDS StackRunner, TLAPS

\* The phases before the defers run.
Up == {"start", "claim", "compose", "processes", "readiness", "watch",
       "publish", "foreground"}

\* What is pending and what is set in each phase.
PhasesOK ==
    \A r \in Run :
        /\ pc[r] \in Up =>
               /\ err[r] = "nil"
               /\ call[r]["release"] = "none"
               /\ \A p \in Proc : proc[r][p] # "gone"
        /\ pc[r] \in {"start", "claim", "compose"} =>
               /\ ~compose[r]
               /\ \A p \in Proc : proc[r][p] = "none"
        /\ pc[r] \in {"start", "claim", "returned"} => defers[r] = {}
        /\ pc[r] \in Up \ {"foreground"} => ~published[r]
        /\ pc[r] \in {"compose", "processes", "readiness", "watch", "publish"} =>
               /\ "releaseUnlessPublished" \in defers[r]
               /\ "release" \notin defers[r]
        /\ pc[r] \in Up \ {"publish", "foreground"} => call[r]["publish"] = "none"
        /\ pc[r] \in {"readiness", "watch", "publish", "foreground"} =>
               "cleanupProcesses" \in defers[r]
        /\ pc[r] = "foreground" => published[r] /\ "release" \in defers[r]

\* The requests to the daemon, and what the daemon has of them.
RequestsOK ==
    \A r \in Run :
        /\ defers[r] # {} => call[r]["claim"] # "sent"
        /\ call[r]["release"] # "none" => call[r]["claim"] # "sent"
        /\ call[r]["publish"] # "none" => call[r]["claim"] # "sent"
        /\ call[r]["claim"] = "sent" =>
               \/ pc[r] \in {"claim", "killed"}
               \/ pc[r] \in {"unwind", "returned"} /\ err[r] = "ClaimRejected"
        /\ call[r]["release"] = "withdrawn" => owner = r /\ route # r /\ serving
        /\ call[r]["release"] = "ok" => owner # r /\ route # r
        /\ err[r] = "ClaimRejected" => call[r]["publish"] = "none"
        /\ published[r] => call[r]["publish"] # "sent"
        /\ route = r => call[r]["publish"] # "none"
        /\ (call[r]["publish"] # "none" /\ ~published[r]
              /\ pc[r] \in {"unwind", "release", "returned"}) =>
               err[r] \in {"GenerationCommitFailed", "CleanupFailed"}

\* A release of r is pending, under way, or has failed.
ReleaseDue(r) ==
    \/ "releaseUnlessPublished" \in defers[r] /\ ~published[r]
    \/ "release" \in defers[r]
    \/ pc[r] \in {"release", "killed"}
    \/ pc[r] \in {"unwind", "returned"} /\ err[r] = "CleanupFailed"

\* A host is held for a reason.
OwnerHeld ==
    \A r \in Run : owner = r =>
        \/ ReleaseDue(r)
        \/ pc[r] = "claim"
        \/ pc[r] \in {"unwind", "returned"} /\ err[r] = "ClaimRejected"

\* A route stays because its release is still to come, or has failed.
RouteHeld == \A r \in Run : route = r => ReleaseDue(r)

\* What runs has a defer that stops it, or nobody who could.
StackHeld ==
    \A r \in Run :
        /\ compose[r] =>
               \/ "stopCompose" \in defers[r]
               \/ pc[r] = "killed"
               \/ /\ pc[r] \in {"unwind", "release", "returned"}
                  /\ err[r] \in {"DependencyStartFailed", "CleanupFailed"}
        /\ (\E p \in Proc : proc[r][p] \in {"running", "exited"}) =>
               pc[r] \in {"processes", "killed"} \/ "cleanupProcesses" \in defers[r]

\* After the processes, only an error explains a route.
RouteKept ==
    \A r \in Run : (\E p \in Proc : proc[r][p] = "gone") =>
        ((route = r \/ (call[r]["publish"] # "none" /\ ~published[r])) =>
            err[r] \in {"GenerationCommitFailed", "CleanupFailed"})

\* A run without a route releases its host last.
ReleaseLast ==
    \A r \in Run :
        /\ "release" \in defers[r] => published[r]
        /\ (call[r]["release"] # "none" /\ ~published[r]) =>
               /\ \A p \in Proc : proc[r][p] \in {"none", "gone"}
               /\ compose[r] => err[r] \in {"CleanupFailed", "DependencyStartFailed"}

\* A daemon that does not die remembers the run that has come past its claim.
OwnerKnown ==
    "daemon" \notin Mishaps =>
        /\ serving
        /\ \A r \in Run :
               \/ pc[r] \in Up \ {"start", "claim"}
               \/ pc[r] \in {"start", "claim"} /\ call[r]["claim"] = "ok"
               => owner = r

IInv ==
    /\ RunnerTypeOK
    /\ PhasesOK
    /\ RequestsOK
    /\ OwnerHeld
    /\ RouteHeld
    /\ StackHeld
    /\ RouteKept
    /\ ReleaseLast
    /\ OwnerKnown

-----------------------------------------------------------------------------
(* Run, up to the foreground.                                              *)

LEMMA LoadConfigKeeps ==
  ASSUME IInv, NEW r \in Run, LoadConfig(r)
  PROVE  IInv'
<1> USE DEF IInv, Op, runVars, stackVars, daemonVars
<1>1. RunnerTypeOK'
  <2>1. CASE Goto(r, "claim") /\ Send(r, "claim") /\ UNCHANGED err
    BY <2>1 DEF RunnerTypeOK, Code, ProcState, FileState, CallState, Ended,
       Defer, LoadConfig, Send, Goto, Return
  <2>2. CASE Return(r, "ConfigInvalid") /\ UNCHANGED call
    BY <2>2 DEF RunnerTypeOK, Code, ProcState, FileState, CallState, Ended,
       Defer, LoadConfig, Send, Goto, Return
  <2> QED
    BY <2>1, <2>2 DEF LoadConfig
<1>2. ReleaseLast'
  <2>1. call[r]["release"] = "none" /\ call'[r]["release"] = "none"
    BY DEF RunnerTypeOK, PhasesOK, Up, LoadConfig, Send
  <2>2. /\ UNCHANGED <<defers, published, compose, proc>>
        /\ \A q \in Run \ {r} : UNCHANGED <<call[q], err[q]>>
    BY DEF RunnerTypeOK, LoadConfig, Send, Goto, Return
  <2> QED
    BY <2>1, <2>2 DEF ReleaseLast
<1>3. OwnerKnown'
  <2>1. pc'[r] = "unwind" \/ (pc'[r] = "claim" /\ call'[r]["claim"] = "sent")
    <3>1. CASE Return(r, "ConfigInvalid")
      BY <3>1 DEF RunnerTypeOK, Goto, Return
    <3>2. CASE Goto(r, "claim") /\ Send(r, "claim")
      BY <3>2 DEF RunnerTypeOK, Goto, Send
    <3> QED
      BY <3>1, <3>2 DEF LoadConfig
  <2>2. \A q \in Run \ {r} : UNCHANGED <<pc[q], call[q]>>
    BY DEF RunnerTypeOK, LoadConfig, Send, Goto, Return
  <2>3. UNCHANGED <<owner, serving>>
    BY DEF LoadConfig
  <2> QED
    BY <2>1, <2>2, <2>3 DEF OwnerKnown, Up
<1>4. PhasesOK'
  BY DEF PhasesOK, Up, RunnerTypeOK, LoadConfig, Send, Goto, Return
<1>5. OwnerHeld'
  BY DEF OwnerHeld, ReleaseDue, RunnerTypeOK, LoadConfig, Send, Goto, Return
<1>6. RouteHeld'
  BY DEF RouteHeld, ReleaseDue, RunnerTypeOK, LoadConfig, Send, Goto, Return
<1>7. RequestsOK'
  BY DEF RequestsOK, RunnerTypeOK, PhasesOK, Up, OwnerHeld, ReleaseDue,
     LoadConfig, Send, Goto, Return
<1>8. StackHeld'
  BY DEF StackHeld, RunnerTypeOK, OwnerHeld, ReleaseDue, RouteKept, LoadConfig,
     Send, Goto, Return
<1>9. RouteKept'
  BY RunnerAssumption DEF RouteKept, RunnerTypeOK, PhasesOK, Up, LoadConfig,
     Send, Goto, Return
<1> QED
  BY <1>1, <1>2, <1>3, <1>4, <1>5, <1>6, <1>7, <1>8, <1>9

LEMMA ClaimedKeeps ==
  ASSUME IInv, NEW r \in Run, Claimed(r)
  PROVE  IInv'
<1> USE DEF IInv, Op, runVars, stackVars, daemonVars
<1>1. RunnerTypeOK'
  BY DEF RunnerTypeOK, Code, ProcState, FileState, CallState, Ended, Defer,
     Claimed, Goto, Push
<1>2. PhasesOK'
  BY DEF PhasesOK, Up, RunnerTypeOK, Claimed, Goto, Push
<1>3. RequestsOK' /\ RouteHeld' /\ StackHeld' /\ RouteKept' /\ ReleaseLast' /\ OwnerKnown'
  BY DEF RequestsOK, RouteHeld, ReleaseDue, StackHeld, RouteKept, ReleaseLast,
     OwnerKnown, Up, Claimed, Goto, Push
<1>4. OwnerHeld'
  BY DEF OwnerHeld, ReleaseDue, RunnerTypeOK, PhasesOK, Up, Claimed, Goto, Push
<1> QED
  BY <1>1, <1>2, <1>3, <1>4

LEMMA ClaimFailsKeeps ==
  ASSUME IInv, NEW r \in Run, ClaimFails(r)
  PROVE  IInv'
<1> USE DEF IInv, Op, runVars, stackVars, daemonVars
<1>1. RunnerTypeOK'
  BY DEF RunnerTypeOK, Code, ProcState, FileState, CallState, Ended, Defer,
     ClaimFails, Failed, HangsUp, Return, Goto
<1>2. PhasesOK'
  BY DEF PhasesOK, Up, RunnerTypeOK, ClaimFails, Failed, HangsUp, Return, Goto
<1>3. OwnerHeld'
  BY DEF OwnerHeld, ReleaseDue, RunnerTypeOK, ClaimFails, Failed, HangsUp,
     Return, Goto
<1>4. RequestsOK'
  BY DEF RequestsOK, RunnerTypeOK, PhasesOK, Up, ClaimFails, Failed, HangsUp,
     Return, Goto
<1>5. RouteKept'
  BY DEF RouteKept, RunnerTypeOK, PhasesOK, Up, ClaimFails, Failed, HangsUp,
     Return, Goto
<1>6. ReleaseLast'
  BY DEF ReleaseLast, RunnerTypeOK, PhasesOK, Up, ClaimFails, Failed, HangsUp,
     Return, Goto
<1>7. RouteHeld' /\ StackHeld' /\ OwnerKnown'
  BY DEF RouteHeld, ReleaseDue, StackHeld, OwnerKnown, Up, ClaimFails, Failed,
     HangsUp, Return, Goto
<1> QED
  BY <1>1, <1>2, <1>3, <1>4, <1>5, <1>6, <1>7

LEMMA ComposeUpKeeps ==
  ASSUME IInv, NEW r \in Run, ComposeUp(r)
  PROVE  IInv'
<1> USE DEF IInv, Op, runVars, stackVars, daemonVars
<1>1. RunnerTypeOK'
  BY DEF RunnerTypeOK, Code, ProcState, FileState, CallState, Ended, Defer,
     ComposeUp, Push, Goto
<1>2. PhasesOK'
  BY DEF PhasesOK, Up, RunnerTypeOK, ComposeUp, Push, Goto
<1>3. StackHeld'
  BY DEF StackHeld, RunnerTypeOK, ComposeUp, Push, Goto
<1>4. RequestsOK' /\ OwnerHeld' /\ RouteHeld' /\ RouteKept' /\ OwnerKnown'
  BY DEF RequestsOK, OwnerHeld, ReleaseDue, RouteHeld, RouteKept, OwnerKnown,
     Up, ComposeUp, Push, Goto
<1>5. ReleaseLast'
  BY DEF ReleaseLast, RunnerTypeOK, PhasesOK, Up, ComposeUp, Push, Goto
<1> QED
  BY <1>1, <1>2, <1>3, <1>4, <1>5

LEMMA ComposeRejectedKeeps ==
  ASSUME IInv, NEW r \in Run, ComposeRejected(r)
  PROVE  IInv'
<1> USE DEF IInv, Op, runVars, stackVars, daemonVars
<1>1. RunnerTypeOK'
  BY DEF RunnerTypeOK, Code, ProcState, FileState, CallState, Ended, Defer,
     ComposeRejected, Return, Goto
<1>2. PhasesOK'
  BY DEF PhasesOK, Up, RunnerTypeOK, ComposeRejected, Return, Goto
<1>3. RequestsOK'
  BY DEF RequestsOK, RunnerTypeOK, PhasesOK, Up, ComposeRejected, Return, Goto
<1>4. RouteKept'
  BY DEF RouteKept, RunnerTypeOK, PhasesOK, Up, ComposeRejected, Return, Goto
<1>5. ReleaseLast'
  BY DEF ReleaseLast, RunnerTypeOK, PhasesOK, Up, ComposeRejected, Return, Goto
<1>6. OwnerHeld' /\ RouteHeld' /\ StackHeld' /\ OwnerKnown'
  BY DEF OwnerHeld, ReleaseDue, RouteHeld, StackHeld, OwnerKnown, Up,
     ComposeRejected, Return, Goto
<1> QED
  BY <1>1, <1>2, <1>3, <1>4, <1>5, <1>6

LEMMA ComposeFailsKeeps ==
  ASSUME IInv, NEW r \in Run, ComposeFails(r)
  PROVE  IInv'
<1> USE DEF IInv, Op, runVars, stackVars, daemonVars
<1>1. RunnerTypeOK'
  <2>1. CASE UNCHANGED compose
    BY <2>1 DEF RunnerTypeOK, Code, ProcState, FileState, CallState, Ended,
       Defer, ComposeFails, Return, Goto
  <2>2. CASE compose' = [compose EXCEPT ![r] = TRUE]
    BY <2>2 DEF RunnerTypeOK, Code, ProcState, FileState, CallState, Ended,
       Defer, ComposeFails, Return, Goto
  <2> QED
    BY <2>1, <2>2 DEF ComposeFails
<1>2. PhasesOK'
  BY DEF PhasesOK, Up, RunnerTypeOK, ComposeFails, Return, Goto
<1>3. StackHeld'
  BY DEF StackHeld, RunnerTypeOK, ComposeFails, Return, Goto
<1>4. ReleaseLast'
  BY DEF ReleaseLast, RunnerTypeOK, ComposeFails, Return, Goto
<1>5. RequestsOK'
  BY DEF RequestsOK, RunnerTypeOK, PhasesOK, Up, ComposeFails, Return, Goto
<1>6. RouteKept'
  BY DEF RouteKept, RunnerTypeOK, PhasesOK, Up, ComposeFails, Return, Goto
<1>7. OwnerHeld' /\ RouteHeld' /\ OwnerKnown'
  BY DEF OwnerHeld, ReleaseDue, RouteHeld, OwnerKnown, Up, ComposeFails,
     Return, Goto
<1> QED
  BY <1>1, <1>2, <1>3, <1>4, <1>5, <1>6, <1>7

LEMMA StartProcessKeeps ==
  ASSUME IInv, NEW r \in Run, StartProcess(r)
  PROVE  IInv'
<1> USE DEF IInv, Op, runVars, stackVars, daemonVars
<1>1. RunnerTypeOK'
  <2>1. PICK p \in Proc :
           /\ proc' = [proc EXCEPT ![r][p] = "running"]
           /\ \/ Goto(r, "readiness") /\ Push(r, "cleanupProcesses")
              \/ UNCHANGED <<pc, defers>>
    BY DEF StartProcess
  <2>2. pc' \in [Run -> {"start", "claim", "compose", "processes", "readiness",
            "watch", "publish", "foreground", "unwind", "release"} \union Ended]
    BY <2>1 DEF RunnerTypeOK, Goto, Ended
  <2>3. defers' \in [Run -> SUBSET Defer]
    BY <2>1 DEF RunnerTypeOK, Push, Defer
  <2>4. proc' \in [Run -> [Proc -> ProcState]]
    BY <2>1 DEF RunnerTypeOK, ProcState
  <2> QED
    BY <2>2, <2>3, <2>4 DEF RunnerTypeOK, StartProcess
<1>2. PhasesOK'
  BY DEF PhasesOK, Up, RunnerTypeOK, StartProcess, Goto, Push, Proc
<1>3. RequestsOK'
  BY DEF RequestsOK, RunnerTypeOK, StartProcess, Goto, Push, Proc
<1>4. RouteHeld'
  BY DEF RouteHeld, ReleaseDue, RunnerTypeOK, StartProcess, Goto, Push, Proc
<1>5. StackHeld'
  BY DEF StackHeld, RunnerTypeOK, StartProcess, Goto, Push, Proc
<1>6. OwnerKnown'
  BY DEF OwnerKnown, Up, RunnerTypeOK, StartProcess, Goto, Push, Proc
<1>7. OwnerHeld'
  BY DEF OwnerHeld, ReleaseDue, RunnerTypeOK, PhasesOK, Up, StartProcess, Goto,
     Push, Proc
<1>8. ReleaseLast'
  BY DEF ReleaseLast, RunnerTypeOK, PhasesOK, Up, StartProcess, Goto, Push,
     Proc
<1>9. RouteKept'
  BY DEF RouteKept, StartProcess, Goto, Push, Proc
<1> QED
  BY <1>1, <1>2, <1>3, <1>4, <1>5, <1>6, <1>7, <1>8, <1>9

LEMMA StartProcessFailsKeeps ==
  ASSUME IInv, NEW r \in Run, StartProcessFails(r)
  PROVE  IInv'
<1> USE DEF IInv, Op, runVars, stackVars, daemonVars
<1>1. RunnerTypeOK'
  BY DEF RunnerTypeOK, Code, ProcState, FileState, CallState, Ended, Defer,
     StartProcessFails, Terminated, Return, Goto, UnlessSignalled
<1>2. PhasesOK'
  BY DEF PhasesOK, Up, RunnerTypeOK, StartProcessFails, Terminated, Return,
     Goto, UnlessSignalled
<1>3. StackHeld'
  BY DEF StackHeld, RunnerTypeOK, StartProcessFails, Terminated, Return, Goto,
     UnlessSignalled
<1>4. RequestsOK'
  BY DEF RequestsOK, RunnerTypeOK, PhasesOK, Up, StartProcessFails, Terminated,
     Return, Goto, UnlessSignalled
<1>5. ReleaseLast'
  BY DEF ReleaseLast, RunnerTypeOK, PhasesOK, Up, StartProcessFails,
     Terminated, Return, Goto, UnlessSignalled
<1>6. OwnerHeld' /\ RouteHeld' /\ OwnerKnown'
  BY DEF OwnerHeld, ReleaseDue, RouteHeld, OwnerKnown, Up, StartProcessFails,
     Terminated, Return, Goto, UnlessSignalled
<1>7. RouteKept'
  BY DEF RouteKept, RunnerTypeOK, PhasesOK, Up, RequestsOK, StartProcessFails,
     Terminated, Return, Goto, UnlessSignalled
<1> QED
  BY <1>1, <1>2, <1>3, <1>4, <1>5, <1>6, <1>7

LEMMA AllReadyKeeps ==
  ASSUME IInv, NEW r \in Run, AllReady(r)
  PROVE  IInv'
<1> USE DEF IInv, Op, runVars, stackVars, daemonVars
<1>1. RunnerTypeOK'
  <2>1. CASE Return(r, "nil") /\ UNCHANGED call
    BY <2>1 DEF RunnerTypeOK, Code, ProcState, FileState, CallState, Ended,
       Defer, AllReady, Return, Goto, Send
  <2>2. CASE Goto(r, "publish") /\ Send(r, "publish") /\ UNCHANGED err
    BY <2>2 DEF RunnerTypeOK, Code, ProcState, FileState, CallState, Ended,
       Defer, AllReady, Return, Goto, Send
  <2> QED
    BY <2>1, <2>2 DEF AllReady
<1>2. ReleaseLast'
  <2>1. call[r]["release"] = "none" /\ call'[r]["release"] = "none"
    BY DEF RunnerTypeOK, PhasesOK, Up, AllReady, Send
  <2>2. /\ UNCHANGED <<defers, published, compose, proc>>
        /\ \A q \in Run \ {r} : UNCHANGED <<call[q], err[q]>>
    BY DEF RunnerTypeOK, AllReady, Send, Goto, Return
  <2> QED
    BY <2>1, <2>2 DEF ReleaseLast
<1>3. PhasesOK'
  BY DEF PhasesOK, Up, RunnerTypeOK, AllReady, Return, Goto, Send
<1>4. OwnerHeld'
  BY DEF OwnerHeld, ReleaseDue, RunnerTypeOK, AllReady, Return, Goto, Send
<1>5. RouteHeld'
  BY DEF RouteHeld, ReleaseDue, RunnerTypeOK, AllReady, Return, Goto, Send
<1>6. RequestsOK'
  BY DEF RequestsOK, RunnerTypeOK, PhasesOK, Up, AllReady, Return, Goto, Send
<1>7. StackHeld'
  BY DEF StackHeld, RunnerTypeOK, PhasesOK, Up, AllReady, Return, Goto, Send
<1>8. RouteKept'
  BY RunnerAssumption DEF RouteKept, RunnerTypeOK, PhasesOK, Up, StackHeld,
     AllReady, Return, Goto, Send
<1>9. OwnerKnown'
  BY DEF OwnerKnown, Up, RunnerTypeOK, StackHeld, AllReady, Return, Goto, Send
<1> QED
  BY <1>1, <1>2, <1>3, <1>4, <1>5, <1>6, <1>7, <1>8, <1>9

LEMMA NotReadyKeeps ==
  ASSUME IInv, NEW r \in Run, NotReady(r)
  PROVE  IInv'
<1> USE DEF IInv, Op, runVars, stackVars, daemonVars
<1>1. RunnerTypeOK'
  BY DEF RunnerTypeOK, Code, ProcState, FileState, CallState, Ended, Defer,
     NotReady, Goto
<1>2. PhasesOK' /\ RequestsOK' /\ OwnerHeld' /\ RouteHeld' /\ StackHeld' /\ RouteKept' /\ ReleaseLast' /\ OwnerKnown'
  BY DEF PhasesOK, Up, RequestsOK, OwnerHeld, ReleaseDue, RouteHeld, StackHeld,
     RouteKept, ReleaseLast, OwnerKnown, NotReady, Goto
<1> QED
  BY <1>1, <1>2

LEMMA TickKeeps ==
  ASSUME IInv, NEW r \in Run, Tick(r)
  PROVE  IInv'
<1> USE DEF IInv, Op, runVars, stackVars, daemonVars
<1>1. RunnerTypeOK'
  BY DEF RunnerTypeOK, Code, ProcState, FileState, CallState, Ended, Defer,
     Tick, Goto
<1>2. PhasesOK' /\ RequestsOK' /\ OwnerHeld' /\ RouteHeld' /\ StackHeld' /\ RouteKept' /\ ReleaseLast' /\ OwnerKnown'
  BY DEF PhasesOK, Up, RequestsOK, OwnerHeld, ReleaseDue, RouteHeld, StackHeld,
     RouteKept, ReleaseLast, OwnerKnown, Tick, Goto
<1> QED
  BY <1>1, <1>2

LEMMA ReadinessFailsKeeps ==
  ASSUME IInv, NEW r \in Run, ReadinessFails(r)
  PROVE  IInv'
<1> USE DEF IInv, Op, runVars, stackVars, daemonVars
<1>1. RunnerTypeOK'
  BY DEF RunnerTypeOK, Code, ProcState, FileState, CallState, Ended, Defer,
     ReadinessFails, Return, Goto, UnlessSignalled
<1>2. PhasesOK'
  BY DEF PhasesOK, Up, RunnerTypeOK, ReadinessFails, Return, Goto,
     UnlessSignalled
<1>3. RequestsOK'
  BY DEF RequestsOK, RunnerTypeOK, PhasesOK, Up, ReadinessFails, Return, Goto,
     UnlessSignalled
<1>4. RouteKept'
  BY DEF RouteKept, RunnerTypeOK, PhasesOK, Up, ReadinessFails, Return, Goto,
     UnlessSignalled
<1>5. ReleaseLast'
  BY DEF ReleaseLast, RunnerTypeOK, PhasesOK, Up, ReadinessFails, Return, Goto,
     UnlessSignalled
<1>6. OwnerHeld' /\ RouteHeld' /\ StackHeld' /\ OwnerKnown'
  BY DEF OwnerHeld, ReleaseDue, RouteHeld, StackHeld, OwnerKnown, Up,
     ReadinessFails, Return, Goto, UnlessSignalled
<1> QED
  BY <1>1, <1>2, <1>3, <1>4, <1>5, <1>6

LEMMA PublishedKeeps ==
  ASSUME IInv, NEW r \in Run, Published(r)
  PROVE  IInv'
<1> USE DEF IInv, Op, runVars, stackVars, daemonVars
<1>1. RunnerTypeOK'
  BY DEF RunnerTypeOK, Code, ProcState, FileState, CallState, Ended, Defer,
     Published, Push, Goto
<1>2. PhasesOK'
  BY DEF PhasesOK, Up, RunnerTypeOK, Published, Push, Goto
<1>3. OwnerHeld'
  BY DEF OwnerHeld, ReleaseDue, RunnerTypeOK, Published, Push, Goto
<1>4. RouteHeld'
  BY DEF RouteHeld, ReleaseDue, RunnerTypeOK, Published, Push, Goto
<1>5. ReleaseLast'
  BY DEF ReleaseLast, RunnerTypeOK, Published, Push, Goto
<1>6. RequestsOK' /\ StackHeld' /\ RouteKept' /\ OwnerKnown'
  BY DEF RequestsOK, StackHeld, RouteKept, OwnerKnown, Up, Published, Push,
     Goto
<1> QED
  BY <1>1, <1>2, <1>3, <1>4, <1>5, <1>6

LEMMA PublishFailsKeeps ==
  ASSUME IInv, NEW r \in Run, PublishFails(r)
  PROVE  IInv'
<1> USE DEF IInv, Op, runVars, stackVars, daemonVars
<1>1. RunnerTypeOK'
  BY DEF RunnerTypeOK, Code, ProcState, FileState, CallState, Ended, Defer,
     PublishFails, Failed, HangsUp, Return, Goto
<1>2. PhasesOK'
  BY DEF PhasesOK, Up, RunnerTypeOK, PublishFails, Failed, HangsUp, Return,
     Goto
<1>3. RequestsOK'
  BY DEF RequestsOK, RunnerTypeOK, PublishFails, Failed, HangsUp, Return, Goto
<1>4. OwnerHeld' /\ RouteHeld' /\ StackHeld' /\ RouteKept' /\ OwnerKnown'
  BY DEF OwnerHeld, ReleaseDue, RouteHeld, StackHeld, RouteKept, OwnerKnown,
     Up, PublishFails, Failed, HangsUp, Return, Goto
<1>5. ReleaseLast'
  BY DEF ReleaseLast, RunnerTypeOK, PhasesOK, Up, PublishFails, Failed,
     HangsUp, Return, Goto
<1> QED
  BY <1>1, <1>2, <1>3, <1>4, <1>5

LEMMA ForegroundEndsKeeps ==
  ASSUME IInv, NEW r \in Run, ForegroundEnds(r)
  PROVE  IInv'
<1> USE DEF IInv, Op, runVars, stackVars, daemonVars
<1>1. RunnerTypeOK'
  BY DEF RunnerTypeOK, Code, ProcState, FileState, CallState, Ended, Defer,
     ForegroundEnds, Return, Goto, UnlessSignalled
<1>2. PhasesOK'
  BY DEF PhasesOK, Up, RunnerTypeOK, ForegroundEnds, Return, Goto,
     UnlessSignalled
<1>3. RequestsOK'
  BY DEF RequestsOK, RunnerTypeOK, PhasesOK, Up, ForegroundEnds, Return, Goto,
     UnlessSignalled
<1>4. RouteKept'
  BY DEF RouteKept, RunnerTypeOK, PhasesOK, Up, ForegroundEnds, Return, Goto,
     UnlessSignalled
<1>5. ReleaseLast'
  BY DEF ReleaseLast, RunnerTypeOK, PhasesOK, Up, ForegroundEnds, Return, Goto,
     UnlessSignalled
<1>6. OwnerHeld' /\ RouteHeld' /\ StackHeld' /\ OwnerKnown'
  BY DEF OwnerHeld, ReleaseDue, RouteHeld, StackHeld, OwnerKnown, Up,
     ForegroundEnds, Return, Goto, UnlessSignalled
<1> QED
  BY <1>1, <1>2, <1>3, <1>4, <1>5, <1>6

-----------------------------------------------------------------------------
(* The defers.                                                             *)

LEMMA CleanupProcessesKeeps ==
  ASSUME IInv, NEW r \in Run, CleanupProcesses(r)
  PROVE  IInv'
<1> USE DEF IInv, Op, runVars, stackVars, daemonVars
<1>1. RunnerTypeOK'
  BY DEF RunnerTypeOK, Code, ProcState, FileState, CallState, Ended, Defer,
     CleanupProcesses, Innermost, Later, Pop, Terminated
<1>2. PhasesOK' /\ RequestsOK' /\ OwnerHeld' /\ RouteHeld' /\ ReleaseLast' /\ OwnerKnown'
  BY DEF PhasesOK, Up, RequestsOK, OwnerHeld, ReleaseDue, RouteHeld,
     ReleaseLast, OwnerKnown, CleanupProcesses, Innermost, Later, Pop,
     Terminated
<1>3. StackHeld'
  BY DEF StackHeld, RunnerTypeOK, CleanupProcesses, Innermost, Later, Pop,
     Terminated
<1>4. RouteKept'
  BY DEF RouteKept, RunnerTypeOK, RequestsOK, RouteHeld, ReleaseDue,
     CleanupProcesses, Innermost, Later, Pop, Terminated
<1> QED
  BY <1>1, <1>2, <1>3, <1>4

LEMMA StopComposeKeeps ==
  ASSUME IInv, NEW r \in Run, StopCompose(r)
  PROVE  IInv'
<1> USE DEF IInv, Op, runVars, stackVars, daemonVars
<1>1. RunnerTypeOK'
  <2>1. CASE compose' = [compose EXCEPT ![r] = FALSE] /\ UNCHANGED err
    BY <2>1 DEF RunnerTypeOK, Code, ProcState, FileState, CallState, Ended,
       Defer, StopCompose, Innermost, Later, Pop
  <2>2. CASE err' = [err EXCEPT ![r] = "CleanupFailed"] /\ UNCHANGED compose
    BY <2>2 DEF RunnerTypeOK, Code, ProcState, FileState, CallState, Ended,
       Defer, StopCompose, Innermost, Later, Pop
  <2> QED
    BY <2>1, <2>2 DEF StopCompose
<1>2. PhasesOK'
  BY DEF PhasesOK, Up, RunnerTypeOK, StopCompose, Innermost, Later, Pop
<1>3. RequestsOK'
  BY DEF RequestsOK, RunnerTypeOK, StopCompose, Innermost, Later, Pop
<1>4. OwnerHeld'
  BY DEF OwnerHeld, ReleaseDue, RunnerTypeOK, StopCompose, Innermost, Later,
     Pop
<1>5. RouteHeld'
  BY DEF RouteHeld, ReleaseDue, RunnerTypeOK, StopCompose, Innermost, Later,
     Pop
<1>6. StackHeld'
  BY DEF StackHeld, RunnerTypeOK, StopCompose, Innermost, Later, Pop
<1>7. RouteKept'
  BY DEF RouteKept, RunnerTypeOK, StopCompose, Innermost, Later, Pop
<1>8. ReleaseLast'
  BY DEF ReleaseLast, RunnerTypeOK, StopCompose, Innermost, Later, Pop
<1>9. OwnerKnown'
  BY DEF OwnerKnown, Up, StopCompose, Innermost, Later, Pop
<1> QED
  BY <1>1, <1>2, <1>3, <1>4, <1>5, <1>6, <1>7, <1>8, <1>9

LEMMA BeginReleaseKeeps ==
  ASSUME IInv, NEW r \in Run, BeginRelease(r)
  PROVE  IInv'
<1> USE DEF IInv, Op, runVars, stackVars, daemonVars
<1>1. RunnerTypeOK'
  BY DEF RunnerTypeOK, Code, ProcState, FileState, CallState, Ended, Defer,
     BeginRelease, Innermost, Later, Pop, Goto, Send
<1>2. ReleaseLast'
  <2>1. /\ UNCHANGED <<published, err, compose, proc>>
        /\ \A q \in Run \ {r} : UNCHANGED <<call[q], defers[q]>>
        /\ defers'[r] \subseteq defers[r]
    BY DEF RunnerTypeOK, BeginRelease, Send, Pop
  <2>2. CASE published[r]
    BY <2>1, <2>2 DEF ReleaseLast
  <2>3. CASE ~published[r]
    <3>1. pc[r] = "unwind" /\ "stopCompose" \notin defers[r] /\ "cleanupProcesses" \notin defers[r]
      BY <2>3 DEF BeginRelease, Innermost, Later, ReleaseLast
    <3>2. \A p \in Proc : proc[r][p] \in ProcState \ {"running", "exited"}
      <4>1. \A p \in Proc : proc[r][p] \in ProcState
        BY DEF RunnerTypeOK
      <4>2. ~\E p \in Proc : proc[r][p] \in {"running", "exited"}
        BY <3>1 DEF StackHeld
      <4> QED
        BY <4>1, <4>2
    <3>3. /\ \A p \in Proc : proc[r][p] \in {"none", "gone"}
          /\ compose[r] => err[r] \in {"CleanupFailed", "DependencyStartFailed"}
      BY <3>1, <3>2 DEF StackHeld, ProcState
    <3> QED
      BY <2>1, <3>3 DEF ReleaseLast
  <2> QED
    BY <2>2, <2>3
<1>3. PhasesOK' /\ RequestsOK' /\ StackHeld' /\ RouteKept' /\ OwnerKnown'
  BY DEF PhasesOK, Up, RequestsOK, StackHeld, RouteKept, OwnerKnown,
     BeginRelease, Innermost, Later, Pop, Goto, Send
<1>4. OwnerHeld'
  BY DEF OwnerHeld, ReleaseDue, RunnerTypeOK, BeginRelease, Innermost, Later,
     Pop, Goto, Send
<1>5. RouteHeld'
  BY DEF RouteHeld, ReleaseDue, RunnerTypeOK, BeginRelease, Innermost, Later,
     Pop, Goto, Send
<1> QED
  BY <1>1, <1>2, <1>3, <1>4, <1>5

LEMMA SkipReleaseKeeps ==
  ASSUME IInv, NEW r \in Run, SkipRelease(r)
  PROVE  IInv'
<1> USE DEF IInv, Op, runVars, stackVars, daemonVars
<1>1. RunnerTypeOK'
  BY DEF RunnerTypeOK, Code, ProcState, FileState, CallState, Ended, Defer,
     SkipRelease, Innermost, Later, Pop
<1>2. PhasesOK' /\ RequestsOK' /\ OwnerHeld' /\ RouteHeld' /\ StackHeld' /\ RouteKept' /\ ReleaseLast' /\ OwnerKnown'
  BY DEF PhasesOK, Up, RequestsOK, OwnerHeld, ReleaseDue, RouteHeld, StackHeld,
     RouteKept, ReleaseLast, OwnerKnown, SkipRelease, Innermost, Later, Pop
<1> QED
  BY <1>1, <1>2

LEMMA ReleasedKeeps ==
  ASSUME IInv, NEW r \in Run, Released(r)
  PROVE  IInv'
<1> USE DEF IInv, Op, runVars, stackVars, daemonVars
<1>1. RunnerTypeOK'
  BY DEF RunnerTypeOK, Code, ProcState, FileState, CallState, Ended, Defer,
     Released, Goto
<1>2. PhasesOK' /\ RequestsOK' /\ StackHeld' /\ RouteKept' /\ ReleaseLast' /\ OwnerKnown'
  BY DEF PhasesOK, Up, RequestsOK, StackHeld, RouteKept, ReleaseLast,
     OwnerKnown, Released, Goto
<1>3. OwnerHeld'
  BY DEF OwnerHeld, ReleaseDue, RunnerTypeOK, RequestsOK, Released, Goto
<1>4. RouteHeld'
  BY DEF RouteHeld, ReleaseDue, RunnerTypeOK, RequestsOK, Released, Goto
<1> QED
  BY <1>1, <1>2, <1>3, <1>4

LEMMA ReleaseFailsKeeps ==
  ASSUME IInv, NEW r \in Run, ReleaseFails(r)
  PROVE  IInv'
<1> USE DEF IInv, Op, runVars, stackVars, daemonVars
<1>1. RunnerTypeOK'
  BY DEF RunnerTypeOK, Code, ProcState, FileState, CallState, Ended, Defer,
     ReleaseFails, Failed, HangsUp, Return, Goto
<1>2. PhasesOK' /\ RequestsOK' /\ StackHeld' /\ RouteKept' /\ ReleaseLast' /\ OwnerKnown'
  BY DEF PhasesOK, Up, RequestsOK, StackHeld, RouteKept, ReleaseLast,
     OwnerKnown, ReleaseFails, Failed, HangsUp, Return, Goto
<1>3. OwnerHeld'
  BY DEF OwnerHeld, ReleaseDue, RunnerTypeOK, ReleaseFails, Failed, HangsUp,
     Return, Goto
<1>4. RouteHeld'
  BY DEF RouteHeld, ReleaseDue, RunnerTypeOK, ReleaseFails, Failed, HangsUp,
     Return, Goto
<1> QED
  BY <1>1, <1>2, <1>3, <1>4

LEMMA ExitKeeps ==
  ASSUME IInv, NEW r \in Run, Exit(r)
  PROVE  IInv'
<1> USE DEF IInv, Op, runVars, stackVars, daemonVars
<1>1. RunnerTypeOK'
  BY DEF RunnerTypeOK, Code, ProcState, FileState, CallState, Ended, Defer,
     Exit, Goto
<1>2. PhasesOK' /\ RequestsOK' /\ OwnerHeld' /\ RouteHeld' /\ StackHeld' /\ RouteKept' /\ ReleaseLast' /\ OwnerKnown'
  BY DEF PhasesOK, Up, RequestsOK, OwnerHeld, ReleaseDue, RouteHeld, StackHeld,
     RouteKept, ReleaseLast, OwnerKnown, Exit, Goto
<1> QED
  BY <1>1, <1>2

-----------------------------------------------------------------------------
(* Signals, and the life of the processes.                                 *)

LEMMA SignalKeeps ==
  ASSUME IInv, NEW r \in Run, Signal(r)
  PROVE  IInv'
<1> USE DEF IInv, Op, runVars, stackVars, daemonVars
<1>1. RunnerTypeOK'
  BY DEF RunnerTypeOK, Code, ProcState, FileState, CallState, Ended, Defer,
     Signal, Ended
<1>2. PhasesOK' /\ RequestsOK' /\ OwnerHeld' /\ RouteHeld' /\ StackHeld' /\ RouteKept' /\ ReleaseLast' /\ OwnerKnown'
  BY DEF PhasesOK, Up, RequestsOK, OwnerHeld, ReleaseDue, RouteHeld, StackHeld,
     RouteKept, ReleaseLast, OwnerKnown, Signal, Ended
<1> QED
  BY <1>1, <1>2

LEMMA KillKeeps ==
  ASSUME IInv, NEW r \in Run, Kill(r)
  PROVE  IInv'
<1> USE DEF IInv, Op, runVars, stackVars, daemonVars
<1>1. RunnerTypeOK'
  BY DEF RunnerTypeOK, Code, ProcState, FileState, CallState, Ended, Defer,
     Kill, Goto, Ended
<1>2. PhasesOK' /\ RequestsOK' /\ OwnerHeld' /\ RouteHeld' /\ StackHeld' /\ RouteKept' /\ ReleaseLast' /\ OwnerKnown'
  BY DEF PhasesOK, Up, RequestsOK, OwnerHeld, ReleaseDue, RouteHeld, StackHeld,
     RouteKept, ReleaseLast, OwnerKnown, Kill, Goto, Ended
<1> QED
  BY <1>1, <1>2

LEMMA BecomesReadyKeeps ==
  ASSUME IInv, NEW r \in Run, BecomesReady(r)
  PROVE  IInv'
<1> USE DEF IInv, Op, runVars, stackVars, daemonVars
<1>1. RunnerTypeOK'
  BY DEF RunnerTypeOK, Code, ProcState, FileState, CallState, Ended, Defer,
     BecomesReady
<1>2. PhasesOK' /\ RequestsOK' /\ OwnerHeld' /\ RouteHeld' /\ StackHeld' /\ RouteKept' /\ ReleaseLast' /\ OwnerKnown'
  BY DEF PhasesOK, Up, RequestsOK, OwnerHeld, ReleaseDue, RouteHeld, StackHeld,
     RouteKept, ReleaseLast, OwnerKnown, BecomesReady
<1> QED
  BY <1>1, <1>2

LEMMA ProcessExitsKeeps ==
  ASSUME IInv, NEW r \in Run, ProcessExits(r)
  PROVE  IInv'
<1> USE DEF IInv, Op, runVars, stackVars, daemonVars
<1>1. RunnerTypeOK'
  BY DEF RunnerTypeOK, Code, ProcState, FileState, CallState, Ended, Defer,
     ProcessExits
<1>2. PhasesOK' /\ RequestsOK' /\ OwnerHeld' /\ RouteHeld' /\ StackHeld' /\ RouteKept' /\ ReleaseLast' /\ OwnerKnown'
  BY DEF PhasesOK, Up, RequestsOK, OwnerHeld, ReleaseDue, RouteHeld, StackHeld,
     RouteKept, ReleaseLast, OwnerKnown, ProcessExits
<1> QED
  BY <1>1, <1>2

-----------------------------------------------------------------------------
(* The daemon.                                                             *)

LEMMA GrantKeeps ==
  ASSUME IInv, NEW r \in Run, Grant(r)
  PROVE  IInv'
<1> USE DEF IInv, Op, runVars, stackVars, daemonVars
<1>1. RunnerTypeOK'
  BY DEF RunnerTypeOK, Code, ProcState, FileState, CallState, Ended, Defer,
     Grant, Answer
<1>2. PhasesOK' /\ RequestsOK' /\ RouteHeld' /\ StackHeld' /\ RouteKept' /\ ReleaseLast' /\ OwnerKnown'
  BY RunnerAssumption DEF PhasesOK, Up, RequestsOK, RouteHeld, ReleaseDue,
     StackHeld, RouteKept, ReleaseLast, OwnerKnown, Grant, Answer
<1>3. OwnerHeld'
  BY DEF OwnerHeld, ReleaseDue, RunnerTypeOK, RequestsOK, Grant, Answer
<1> QED
  BY <1>1, <1>2, <1>3

LEMMA ServeKeeps ==
  ASSUME IInv, NEW r \in Run, Serve(r)
  PROVE  IInv'
<1> USE DEF IInv, Op, runVars, stackVars, daemonVars
<1>1. RunnerTypeOK'
  BY DEF RunnerTypeOK, Code, ProcState, FileState, CallState, Ended, Defer,
     Serve, Answer
<1>2. PhasesOK' /\ RequestsOK' /\ OwnerHeld' /\ StackHeld' /\ ReleaseLast' /\ OwnerKnown'
  BY RunnerAssumption DEF PhasesOK, Up, RequestsOK, OwnerHeld, ReleaseDue,
     StackHeld, ReleaseLast, OwnerKnown, Serve, Answer
<1>3. RouteHeld'
  BY DEF RouteHeld, ReleaseDue, RunnerTypeOK, PhasesOK, Up, RequestsOK,
     OwnerHeld, Serve, Answer
<1>4. RouteKept'
  BY DEF RouteKept, RunnerTypeOK, RequestsOK, Serve, Answer
<1> QED
  BY <1>1, <1>2, <1>3, <1>4

LEMMA WithdrawKeeps ==
  ASSUME IInv, NEW r \in Run, Withdraw(r)
  PROVE  IInv'
<1> USE DEF IInv, Op, runVars, stackVars, daemonVars
<1>1. RunnerTypeOK'
  BY DEF RunnerTypeOK, Code, ProcState, FileState, CallState, Ended, Defer,
     Withdraw, Answer
<1>2. PhasesOK' /\ RequestsOK' /\ OwnerHeld' /\ RouteHeld' /\ StackHeld' /\ RouteKept' /\ ReleaseLast' /\ OwnerKnown'
  BY RunnerAssumption DEF PhasesOK, Up, RequestsOK, OwnerHeld, ReleaseDue,
     RouteHeld, StackHeld, RouteKept, ReleaseLast, OwnerKnown, Withdraw, Answer
<1> QED
  BY <1>1, <1>2

LEMMA DropKeeps ==
  ASSUME IInv, NEW r \in Run, Drop(r)
  PROVE  IInv'
<1> USE DEF IInv, Op, runVars, stackVars, daemonVars
<1>1. RunnerTypeOK'
  BY DEF RunnerTypeOK, Code, ProcState, FileState, CallState, Ended, Defer,
     Drop, Answer
<1>2. PhasesOK' /\ OwnerHeld' /\ RouteHeld' /\ StackHeld' /\ RouteKept' /\ ReleaseLast'
  BY RunnerAssumption DEF PhasesOK, Up, OwnerHeld, ReleaseDue, RouteHeld,
     StackHeld, RouteKept, ReleaseLast, Drop, Answer
<1>3. RequestsOK'
  BY RunnerAssumption DEF RequestsOK, RunnerTypeOK, Drop, Answer
<1>4. OwnerKnown'
  BY DEF OwnerKnown, Up, RunnerTypeOK, PhasesOK, RequestsOK, Drop, Answer
<1> QED
  BY <1>1, <1>2, <1>3, <1>4

LEMMA RefuseKeeps ==
  ASSUME IInv, NEW r \in Run, Refuse(r)
  PROVE  IInv'
<1> USE DEF IInv, Op, runVars, stackVars, daemonVars
<1>1. RunnerTypeOK'
  BY DEF RunnerTypeOK, Code, ProcState, FileState, CallState, Ended, Defer,
     Refuse, Answer
<1>2. PhasesOK' /\ RequestsOK' /\ OwnerHeld' /\ RouteHeld' /\ StackHeld' /\ RouteKept' /\ ReleaseLast' /\ OwnerKnown'
  BY DEF PhasesOK, Up, RequestsOK, OwnerHeld, ReleaseDue, RouteHeld, StackHeld,
     RouteKept, ReleaseLast, OwnerKnown, Refuse, Answer
<1> QED
  BY <1>1, <1>2

\* The daemon dies: what it was asked is refused, and its answers may be lost.
LEMMA DaemonDiesKeeps ==
  ASSUME IInv, DaemonDies
  PROVE  IInv'
<1> USE DEF IInv, DaemonDies, runVars, stackVars
<1>1. PICK lost \in SUBSET Run :
        call' = [r \in Run |-> [op \in Op |->
            IF call[r][op] \in {"sent", "withdrawn"} THEN "refused"
            ELSE IF call[r][op] = "ok" /\ r \in lost THEN "lost" ELSE call[r][op]]]
  OBVIOUS
<1>2. \A r \in Run : \A op \in Op :
        /\ call'[r][op] \in {"none", "ok", "refused", "lost"}
        /\ call'[r][op] = "none" <=> call[r][op] = "none"
        /\ call'[r][op] = "ok" => call[r][op] = "ok"
  <2>1. \A r \in Run : \A op \in Op : call[r][op] \in CallState
    BY DEF RunnerTypeOK
  <2> QED
    BY <1>1, <2>1 DEF CallState
<1>3. RunnerTypeOK'
  <2>1. call' \in [Run -> [Op -> CallState]]
    <3> DEFINE answers(r) == [op \in Op |->
            IF call[r][op] \in {"sent", "withdrawn"} THEN "refused"
            ELSE IF call[r][op] = "ok" /\ r \in lost THEN "lost" ELSE call[r][op]]
    <3>1. \A r \in Run : answers(r) \in [Op -> CallState]
      BY DEF RunnerTypeOK, CallState
    <3>2. call' = [r \in Run |-> answers(r)]
      BY <1>1
    <3> QED
      BY <3>1, <3>2
  <2> QED
    BY <2>1 DEF RunnerTypeOK
<1>4. \A op \in {"claim", "publish", "release"} : op \in Op
  BY DEF Op
<1>5. PhasesOK'
  BY <1>2, <1>4 DEF PhasesOK
<1>6. RequestsOK'
  BY <1>2, <1>4, RunnerAssumption DEF RequestsOK
<1>7. OwnerHeld' /\ RouteHeld'
  BY RunnerAssumption DEF OwnerHeld, RouteHeld, ReleaseDue
<1>8. StackHeld' /\ RouteKept' /\ ReleaseLast'
  BY <1>2, <1>4 DEF StackHeld, RouteKept, ReleaseLast
<1>9. OwnerKnown'
  BY DEF OwnerKnown
<1> QED
  BY <1>3, <1>5, <1>6, <1>7, <1>8, <1>9

\* A daemon that starts withdraws every route.
LEMMA DaemonStartsKeeps ==
  ASSUME IInv, DaemonStarts
  PROVE  IInv'
<1> USE DEF IInv, DaemonStarts, runVars, stackVars
<1>1. RunnerTypeOK'
  BY DEF RunnerTypeOK
<1>2. PhasesOK' /\ StackHeld' /\ ReleaseLast' /\ OwnerKnown'
  BY DEF PhasesOK, StackHeld, ReleaseLast, OwnerKnown
<1>3. RequestsOK'
  BY RunnerAssumption DEF RequestsOK
<1>4. OwnerHeld' /\ RouteHeld'
  BY RunnerAssumption DEF OwnerHeld, RouteHeld, ReleaseDue
<1>5. RouteKept'
  BY RunnerAssumption DEF RouteKept
<1> QED
  BY <1>1, <1>2, <1>3, <1>4, <1>5

LEMMA InitIInv == Init => IInv
<1> SUFFICES ASSUME Init PROVE IInv
  OBVIOUS
<1> USE DEF Init
<1>1. RunnerTypeOK
  BY DEF RunnerTypeOK, Code, ProcState, FileState, CallState, Defer
<1>2. PhasesOK /\ RequestsOK
  BY RunnerAssumption DEF PhasesOK, RequestsOK, Up, Op
<1>3. OwnerHeld /\ RouteHeld
  BY RunnerAssumption DEF OwnerHeld, RouteHeld
<1>4. StackHeld /\ RouteKept /\ ReleaseLast /\ OwnerKnown
  BY DEF StackHeld, RouteKept, ReleaseLast, OwnerKnown, Up, Op
<1> QED
  BY <1>1, <1>2, <1>3, <1>4 DEF IInv

LEMMA NextKeepsInv == IInv /\ [Next]_vars => IInv'
<1> SUFFICES ASSUME IInv, [Next]_vars PROVE IInv'
  OBVIOUS
<1>1. ASSUME NEW r \in Run, RunStep(r) PROVE IInv'
  BY <1>1, LoadConfigKeeps, ClaimedKeeps, ClaimFailsKeeps, ComposeUpKeeps,
     ComposeRejectedKeeps, ComposeFailsKeeps, StartProcessKeeps,
     StartProcessFailsKeeps, AllReadyKeeps, NotReadyKeeps, TickKeeps,
     ReadinessFailsKeeps, PublishedKeeps, PublishFailsKeeps, ForegroundEndsKeeps,
     CleanupProcessesKeeps, StopComposeKeeps, BeginReleaseKeeps, SkipReleaseKeeps,
     ReleasedKeeps, ReleaseFailsKeeps, ExitKeeps
  DEF RunStep
<1>2. ASSUME NEW r \in Run, DaemonStep(r) PROVE IInv'
  BY <1>2, GrantKeeps, ServeKeeps, WithdrawKeeps, DropKeeps, RefuseKeeps
  DEF DaemonStep
<1>3. ASSUME NEW r \in Run, Signal(r) \/ Kill(r) \/ BecomesReady(r) \/ ProcessExits(r)
      PROVE  IInv'
  BY <1>3, SignalKeeps, KillKeeps, BecomesReadyKeeps, ProcessExitsKeeps
<1>4. CASE DaemonDies \/ DaemonStarts
  BY <1>4, DaemonDiesKeeps, DaemonStartsKeeps
<1>5. CASE UNCHANGED vars
  BY <1>5 DEF vars, runVars, stackVars, daemonVars, IInv, RunnerTypeOK, PhasesOK,
     RequestsOK, OwnerHeld, RouteHeld, ReleaseDue, StackHeld, RouteKept, ReleaseLast,
     OwnerKnown
<1> QED
  BY <1>1, <1>2, <1>3, <1>4, <1>5 DEF Next

LEMMA IInvHolds == Spec => []IInv
  BY InitIInv, NextKeepsInv, PTL DEF Spec

\* Only the daemon's last step of a release frees a host while it serves.
LEMMA OnlyDropFrees ==
  ASSUME IInv, Next, owner # None, owner' # owner, serving'
  PROVE  \E r \in Run : Drop(r)
<1>1. ASSUME NEW r \in Run, RunStep(r) PROVE UNCHANGED owner
  BY <1>1 DEF RunStep, LoadConfig, Claimed, ClaimFails, ComposeUp, ComposeRejected,
     ComposeFails, StartProcess, StartProcessFails, AllReady, NotReady, Tick,
     ReadinessFails, Published, PublishFails, ForegroundEnds, CleanupProcesses,
     StopCompose, BeginRelease, SkipRelease, Released, ReleaseFails, Exit, daemonVars
<1>2. ASSUME NEW r \in Run, DaemonStep(r), ~Drop(r) PROVE UNCHANGED owner
  BY <1>2 DEF DaemonStep, Grant, Serve, Withdraw, Refuse, daemonVars
<1>3. ASSUME NEW r \in Run, Signal(r) \/ Kill(r) \/ BecomesReady(r) \/ ProcessExits(r)
      PROVE  UNCHANGED owner
  BY <1>3 DEF Signal, Kill, BecomesReady, ProcessExits, daemonVars
<1>4. ~DaemonDies /\ (DaemonStarts => UNCHANGED owner)
  BY DEF DaemonDies, DaemonStarts
<1> QED
  BY <1>1, <1>2, <1>3, <1>4 DEF Next

\* Services go by the defer that stops them.
LEMMA OnlyStopComposeStops ==
  ASSUME IInv, Next, NEW r \in Run, compose[r], ~compose'[r]
  PROVE  StopCompose(r)
<1>1. ASSUME NEW q \in Run, RunStep(q), ~StopCompose(q) PROVE compose'[r]
  <2>1. compose \in [Run -> BOOLEAN]
    BY DEF IInv, RunnerTypeOK
  <2> QED
    BY <1>1, <2>1 DEF RunStep, LoadConfig, Claimed, ClaimFails, ComposeUp,
       ComposeRejected, ComposeFails, StartProcess, StartProcessFails, AllReady,
       NotReady, Tick, ReadinessFails, Published, PublishFails, ForegroundEnds,
       CleanupProcesses, BeginRelease, SkipRelease, Released, ReleaseFails, Exit,
       stackVars
<1>2. ASSUME NEW q \in Run,
             DaemonStep(q) \/ Signal(q) \/ Kill(q) \/ BecomesReady(q) \/ ProcessExits(q)
      PROVE  UNCHANGED compose
  BY <1>2 DEF DaemonStep, Grant, Serve, Withdraw, Drop, Refuse, Signal, Kill,
     BecomesReady, ProcessExits, stackVars
<1>3. DaemonDies \/ DaemonStarts => UNCHANGED compose
  BY DEF DaemonDies, DaemonStarts, stackVars
<1>4. ASSUME NEW q \in Run, q # r, StopCompose(q) PROVE compose'[r]
  BY <1>4 DEF StopCompose, IInv, RunnerTypeOK
<1> QED
  BY <1>1, <1>2, <1>3, <1>4 DEF Next

-----------------------------------------------------------------------------
(* Theorems.                                                               *)

\* The runners' variables keep their types.
THEOREM RunnerTypeCorrect == Spec => []RunnerTypeOK
<1>1. IInv => RunnerTypeOK
  BY DEF IInv
<1> QED
  BY <1>1, IInvHolds, PTL

\* A run that ends with exit status 0 leaves no claim, route, service or
\* process behind, whatever the daemon, Compose and the signals do.
THEOREM ExitsClean == Spec => []CleanExit
<1>1. IInv => CleanExit
  <2> SUFFICES ASSUME IInv, NEW r \in Run, pc[r] = "returned", err[r] = "nil"
               PROVE  owner # r /\ route # r /\ StackDown(r)
    BY DEF CleanExit
  <2>1. defers[r] = {}
    BY DEF IInv, PhasesOK
  <2>2. owner # r /\ route # r
    BY <2>1 DEF IInv, OwnerHeld, RouteHeld, ReleaseDue
  <2>3. ~compose[r] /\ \A p \in Proc : proc[r][p] \notin {"running", "exited"}
    BY <2>1 DEF IInv, StackHeld
  <2>4. \A p \in Proc : proc[r][p] \in ProcState
    BY DEF IInv, RunnerTypeOK
  <2> QED
    BY <2>2, <2>3, <2>4 DEF StackDown, ProcState
<1> QED
  BY <1>1, IInvHolds, PTL

\* What a returned run leaves with the daemon, its exit code admits.
THEOREM LeftoversAreReported == Spec => []LeftoversReported
<1>1. IInv => LeftoversReported
  <2> SUFFICES ASSUME IInv, NEW r \in Run, pc[r] = "returned"
               PROVE  /\ owner = r => err[r] \in {"ClaimRejected", "CleanupFailed"}
                      /\ route = r => err[r] = "CleanupFailed"
    BY DEF LeftoversReported
  <2>1. defers[r] = {}
    BY DEF IInv, PhasesOK
  <2> QED
    BY <2>1 DEF IInv, OwnerHeld, RouteHeld, ReleaseDue
<1> QED
  BY <1>1, IInvHolds, PTL

\* A run that tears its processes down under a route has failed to publish or
\* to release, and says so.
THEOREM RoutesHaveStacks == Spec => []RouteHasStack
<1>1. IInv => RouteHasStack
  BY DEF IInv, RouteKept, RouteHasStack, TornDown
<1> QED
  BY <1>1, IInvHolds, PTL

\* Processes go before services, and an unpublished run gives its host up only
\* when both are down or reported.
THEOREM TeardownInOrder == Spec => TeardownOrder
<1> DEFINE A(r) ==
      /\ (owner = r /\ owner' # r /\ serving' /\ ~published[r]) =>
           /\ \A p \in Proc : proc[r][p] \in {"none", "gone"}
           /\ ~compose[r] \/ err[r] \in {"CleanupFailed", "DependencyStartFailed"}
      /\ (compose[r] /\ ~compose'[r]) =>
           \A p \in Proc : proc[r][p] \in {"none", "gone"}
<1>1. IInv /\ [Next]_vars => [\A r \in Run : A(r)]_vars
  <2> SUFFICES ASSUME IInv, Next, NEW r \in Run PROVE A(r)
    OBVIOUS
  <2>1. ASSUME owner = r, owner' # r, serving', ~published[r]
        PROVE  /\ \A p \in Proc : proc[r][p] \in {"none", "gone"}
               /\ ~compose[r] \/ err[r] \in {"CleanupFailed", "DependencyStartFailed"}
    <3>1. PICK q \in Run : Drop(q)
      BY <2>1, RunnerAssumption, OnlyDropFrees
    <3>2. q = r
      BY <2>1, <3>1 DEF Drop, IInv, RequestsOK
    <3>3. call[r]["release"] # "none"
      BY <3>1, <3>2 DEF Drop
    <3> QED
      BY <2>1, <3>3 DEF IInv, ReleaseLast
  <2>2. ASSUME compose[r], ~compose'[r]
        PROVE  \A p \in Proc : proc[r][p] \in {"none", "gone"}
    <3>1. StopCompose(r)
      BY <2>2, OnlyStopComposeStops
    <3>2. pc[r] = "unwind" /\ "cleanupProcesses" \notin defers[r]
      BY <3>1 DEF StopCompose, Innermost, Later
    <3>3. \A p \in Proc : proc[r][p] \in ProcState
      BY DEF IInv, RunnerTypeOK
    <3>4. ~\E p \in Proc : proc[r][p] \in {"running", "exited"}
      BY <3>2 DEF IInv, StackHeld
    <3> QED
      BY <3>3, <3>4 DEF ProcState
  <2> QED
    BY <2>1, <2>2
<1> QED
  BY <1>1, IInvHolds, PTL DEF Spec, TeardownOrder

\* One host has one run in the foreground, unless the daemon forgets.
THEOREM OneForeground ==
  ASSUME "daemon" \notin Mishaps
  PROVE  Spec => []ForegroundExclusive
<1>1. IInv => ForegroundExclusive
  BY DEF IInv, OwnerKnown, Up, ForegroundExclusive
<1> QED
  BY <1>1, IInvHolds, PTL

-----------------------------------------------------------------------------
(* The daemon of the runs implements `HostClaims'.                         *)

\* Those who have been granted the host, at any time.
Granted == {r \in Run : call[r]["claim"] \in {"ok", "lost"}}

\* A run asks for its host once, and the host is routed to its owner.
ClaimInv ==
    /\ \A r \in Run : pc[r] = "start" => call[r]["claim"] = "none"
    /\ serving => route \in {None, owner}

LEMMA SameGranted ==
  ASSUME \A r \in Run : call'[r]["claim"] = call[r]["claim"]
  PROVE  Granted' = Granted
  BY DEF Granted

\* The runs send requests, and claim once.
LEMMA RunKeepsClaim ==
  ASSUME IInv, ClaimInv, NEW r \in Run,
         \/ RunStep(r) \/ Signal(r) \/ Kill(r) \/ BecomesReady(r) \/ ProcessExits(r)
  PROVE  ClaimInv' /\ UNCHANGED <<owner, route, Granted>>
<1>t. /\ call \in [Run -> [Op -> CallState]]
      /\ pc \in [Run -> {"start", "claim", "compose", "processes", "readiness",
                        "watch", "publish", "foreground", "unwind", "release"} \union Ended]
  BY DEF IInv, RunnerTypeOK
<1>1. UNCHANGED daemonVars
  BY DEF RunStep, LoadConfig, Claimed, ClaimFails, ComposeUp, ComposeRejected,
     ComposeFails, StartProcess, StartProcessFails, AllReady, NotReady, Tick,
     ReadinessFails, Published, PublishFails, ForegroundEnds, CleanupProcesses,
     StopCompose, BeginRelease, SkipRelease, Released, ReleaseFails, Exit, Signal, Kill,
     BecomesReady, ProcessExits
<1>2. \A q \in Run : pc'[q] = "start" => pc[q] = "start"
  BY <1>t DEF RunStep, LoadConfig, Claimed, ClaimFails, ComposeUp, ComposeRejected,
     ComposeFails, StartProcess, StartProcessFails, AllReady, NotReady, Tick,
     ReadinessFails, Published, PublishFails, ForegroundEnds, CleanupProcesses,
     StopCompose, BeginRelease, SkipRelease, Released, ReleaseFails, Exit, Signal, Kill,
     BecomesReady, ProcessExits, Goto, Return, runVars
<1>3. CASE LoadConfig(r) /\ pc'[r] = "claim"
  <2>1. /\ pc[r] = "start" /\ call' = [call EXCEPT ![r]["claim"] = "sent"]
    BY <1>t, <1>3 DEF LoadConfig, Send, Return, Goto
  <2>2. /\ call'[r]["claim"] = "sent" /\ call[r]["claim"] = "none"
        /\ \A q \in Run \ {r} : call'[q] = call[q]
    BY <1>t, <2>1 DEF ClaimInv, Op
  <2>3. Granted' = Granted
    BY <2>2 DEF Granted
  <2> QED
    BY <1>1, <1>2, <1>3, <2>2, <2>3 DEF ClaimInv, daemonVars
<1>4. CASE ~(LoadConfig(r) /\ pc'[r] = "claim")
  <2>1. \/ UNCHANGED call
        \/ \E op \in {"publish", "release"} : Send(r, op)
    BY <1>t, <1>4 DEF RunStep, LoadConfig, Claimed, ClaimFails, ComposeUp, ComposeRejected,
       ComposeFails, StartProcess, StartProcessFails, AllReady, NotReady, Tick,
       ReadinessFails, Published, PublishFails, ForegroundEnds, CleanupProcesses,
       StopCompose, BeginRelease, SkipRelease, Released, ReleaseFails, Exit, Signal, Kill,
       BecomesReady, ProcessExits, Goto
  <2>2. \A q \in Run : call'[q]["claim"] = call[q]["claim"]
    BY <1>t, <2>1 DEF Send, Op
  <2> QED
    BY <1>1, <1>2, <2>2, SameGranted DEF ClaimInv, daemonVars
<1> QED
  BY <1>3, <1>4

LEMMA GrantRefines ==
  ASSUME IInv, ClaimInv, NEW r \in Run, Grant(r)
  PROVE  ClaimInv' /\ HostClaim!Acquire("host")
<1>1. /\ call[r]["claim"] = "sent" /\ serving /\ owner = None /\ owner' = r
      /\ call' = [call EXCEPT ![r]["claim"] = "ok"] /\ UNCHANGED <<pc, route, serving>>
      /\ call \in [Run -> [Op -> CallState]]
  BY DEF Grant, Answer, runVars, IInv, RunnerTypeOK
<1>2. /\ call'[r]["claim"] = "ok"
      /\ \A q \in Run \ {r} : call'[q] = call[q]
  BY <1>1 DEF Op
<1>3. r \notin Granted /\ Granted' = Granted \union {r}
  BY <1>1, <1>2 DEF Granted
<1>4. route = None /\ r # None
  BY <1>1, RunnerAssumption DEF ClaimInv
<1>5. ClaimInv'
  BY <1>1, <1>2, <1>4 DEF ClaimInv
<1> QED
  BY <1>1, <1>3, <1>4, <1>5 DEF HostClaim!Acquire, Granted

LEMMA ServeRefines ==
  ASSUME IInv, ClaimInv, NEW r \in Run, Serve(r)
  PROVE  ClaimInv' /\ HostClaim!Show("host")
<1>1. /\ owner = r /\ route' = r /\ UNCHANGED <<pc, owner, serving>>
      /\ call' = [call EXCEPT ![r]["publish"] = "ok"]
      /\ call \in [Run -> [Op -> CallState]]
  BY DEF Serve, Answer, runVars, IInv, RunnerTypeOK
<1>2. \A q \in Run : call'[q]["claim"] = call[q]["claim"]
  BY <1>1 DEF Op
<1>3. ClaimInv'
  BY <1>1, <1>2 DEF ClaimInv
<1> QED
  BY <1>1, <1>2, <1>3, SameGranted, RunnerAssumption DEF HostClaim!Show, Granted

LEMMA WithdrawRefines ==
  ASSUME IInv, ClaimInv, NEW r \in Run, Withdraw(r)
  PROVE  ClaimInv' /\ HostClaim!Hide("host")
<1>1. /\ route' = None /\ UNCHANGED <<pc, owner, serving>>
      /\ call' = [call EXCEPT ![r]["release"] = "withdrawn"]
      /\ call \in [Run -> [Op -> CallState]]
  BY DEF Withdraw, Answer, runVars, IInv, RunnerTypeOK
<1>2. \A q \in Run : call'[q]["claim"] = call[q]["claim"]
  BY <1>1 DEF Op
<1>3. ClaimInv'
  BY <1>1, <1>2 DEF ClaimInv
<1> QED
  BY <1>1, <1>2, <1>3, SameGranted DEF HostClaim!Hide, Granted

\* What is left of a release under way cannot be routed.
LEMMA DropRefines ==
  ASSUME IInv, ClaimInv, NEW r \in Run, Drop(r)
  PROVE  ClaimInv' /\ HostClaim!Drop("host")
<1>1. /\ owner' = None /\ UNCHANGED <<pc, route, serving>>
      /\ call[r]["release"] = "withdrawn"
      /\ call' = [call EXCEPT ![r]["release"] = "ok"]
      /\ call \in [Run -> [Op -> CallState]]
  BY DEF Drop, Answer, runVars, IInv, RunnerTypeOK
<1>2. \A q \in Run : call'[q]["claim"] = call[q]["claim"]
  BY <1>1 DEF Op
<1>3. route = None
  BY <1>1 DEF IInv, RequestsOK, ClaimInv
<1>4. ClaimInv'
  BY <1>1, <1>2, <1>3 DEF ClaimInv
<1> QED
  BY <1>1, <1>2, <1>3, <1>4, SameGranted DEF HostClaim!Drop, Granted

LEMMA RefuseRefines ==
  ASSUME IInv, ClaimInv, NEW r \in Run, Refuse(r)
  PROVE  ClaimInv' /\ UNCHANGED <<owner, route, Granted>>
<1>1. /\ UNCHANGED <<pc, owner, route, serving>> /\ call \in [Run -> [Op -> CallState]]
  BY DEF Refuse, daemonVars, runVars, IInv, RunnerTypeOK
<1>2. PICK op \in Op : call[r][op] = "sent" /\ call' = [call EXCEPT ![r][op] = "refused"]
  BY DEF Refuse, Answer
<1>3. /\ \A q \in Run \ {r} : call'[q] = call[q]
      /\ \/ call'[r]["claim"] = call[r]["claim"]
         \/ call'[r]["claim"] = "refused" /\ call[r]["claim"] = "sent"
  BY <1>1, <1>2 DEF Op
<1>4. Granted' = Granted
  BY <1>3 DEF Granted
<1> QED
  BY <1>1, <1>3, <1>4 DEF ClaimInv

\* A claim whose answer is lost has been granted all the same.
LEMMA DaemonDiesRefines ==
  ASSUME IInv, ClaimInv, DaemonDies
  PROVE  ClaimInv' /\ HostClaim!Forget
<1>1. PICK lost \in SUBSET Run :
        call' = [r \in Run |-> [op \in Op |->
            IF call[r][op] \in {"sent", "withdrawn"} THEN "refused"
            ELSE IF call[r][op] = "ok" /\ r \in lost THEN "lost" ELSE call[r][op]]]
  BY DEF DaemonDies
<1>2. \A r \in Run :
        /\ call[r]["claim"] \in {"ok", "lost"} <=> call'[r]["claim"] \in {"ok", "lost"}
        /\ call[r]["claim"] = "none" => call'[r]["claim"] = "none"
  BY <1>1 DEF Op
<1>3. Granted' = Granted
  BY <1>2 DEF Granted
<1>4. ~serving' /\ owner' = None /\ UNCHANGED <<pc, route>>
  BY DEF DaemonDies, runVars
<1>5. ClaimInv'
  BY <1>2, <1>4 DEF ClaimInv
<1> QED
  BY <1>3, <1>4, <1>5 DEF HostClaim!Forget, HostClaim!Nobody, Granted

LEMMA DaemonStartsRefines ==
  ASSUME ClaimInv, DaemonStarts
  PROVE  ClaimInv' /\ HostClaim!Sweep
<1>1. route' = None /\ UNCHANGED <<pc, owner, call>>
  BY DEF DaemonStarts, runVars
<1> QED
  BY <1>1, SameGranted DEF ClaimInv, HostClaim!Sweep, HostClaim!Nobody, Granted

LEMMA NextKeepsClaim ==
  ASSUME IInv, ClaimInv, [Next]_vars
  PROVE  ClaimInv' /\ [HostClaim!Next]_(HostClaim!vars)
<1>1. ASSUME NEW r \in Run,
             RunStep(r) \/ Signal(r) \/ Kill(r) \/ BecomesReady(r) \/ ProcessExits(r)
      PROVE  ClaimInv' /\ UNCHANGED HostClaim!vars
  BY <1>1, RunKeepsClaim DEF HostClaim!vars, Granted
<1>2. ASSUME NEW r \in Run, DaemonStep(r)
      PROVE  ClaimInv' /\ (HostClaim!Next \/ UNCHANGED HostClaim!vars)
  <2>1. CASE Refuse(r)
    BY <2>1, RefuseRefines DEF HostClaim!vars, Granted
  <2>2. CASE Grant(r) \/ Serve(r) \/ Withdraw(r) \/ Drop(r)
    BY <2>2, GrantRefines, ServeRefines, WithdrawRefines, DropRefines DEF HostClaim!Next
  <2> QED
    BY <1>2, <2>1, <2>2 DEF DaemonStep
<1>3. CASE DaemonDies \/ DaemonStarts
  BY <1>3, DaemonDiesRefines, DaemonStartsRefines DEF HostClaim!Next
<1>4. CASE UNCHANGED vars
  BY <1>4 DEF vars, runVars, daemonVars, ClaimInv, HostClaim!vars
<1> QED
  BY <1>1, <1>2, <1>3, <1>4 DEF Next

\* What the runs see of the daemon is what `HostClaims' promises, and
\* `ControlPlane' keeps: one owner, routed to its owner, given up unrouted.
THEOREM RunnersSeeHostClaims == Spec => ImplementsHostClaims
<1>1. Init => HostClaim!Init /\ ClaimInv
  BY DEF Init, Op, HostClaim!Init, HostClaim!Nobody, ClaimInv
<1>2. IInv /\ ClaimInv /\ [Next]_vars => ClaimInv' /\ [HostClaim!Next]_(HostClaim!vars)
  BY NextKeepsClaim
<1> QED
  BY <1>1, <1>2, IInvHolds, PTL DEF Spec, ImplementsHostClaims, HostClaim!Spec

-----------------------------------------------------------------------------
(* What the documents say of a run, and the code keeps up to a mishap.     *)

\* Why a claim has failed, and who owns the host.
ClaimOutcome ==
    \A r \in Run :
        /\ owner = r => call[r]["claim"] = "ok"
        /\ err[r] = "ClaimRejected" =>
               signalled[r] = TRUE \/ call[r]["claim"] \in {"refused", "lost"}

\* A step that leaves owner and claims alone, and fails no claim.
LEMMA SameOutcome ==
  ASSUME ClaimOutcome, UNCHANGED owner,
         \A r \in Run :
             /\ call'[r]["claim"] = call[r]["claim"]
             /\ signalled[r] = TRUE => signalled'[r] = TRUE
             /\ err'[r] = "ClaimRejected" => err[r] = "ClaimRejected"
  PROVE  ClaimOutcome'
  BY DEF ClaimOutcome

LEMMA RunKeepsOutcome ==
  ASSUME IInv, ClaimInv, ClaimOutcome, NEW r \in Run,
         \/ RunStep(r) \/ Signal(r) \/ Kill(r) \/ BecomesReady(r) \/ ProcessExits(r)
  PROVE  ClaimOutcome'
<1>t. /\ call \in [Run -> [Op -> CallState]] /\ err \in [Run -> Code]
      /\ signalled \in [Run -> BOOLEAN]
  BY DEF IInv, RunnerTypeOK
<1>1. UNCHANGED owner
  BY RunKeepsClaim
<1>2. CASE ClaimFails(r)
  <2>1. /\ UNCHANGED <<call, signalled>> /\ err' = [err EXCEPT ![r] = "ClaimRejected"]
        /\ signalled[r] = TRUE \/ call[r]["claim"] \in {"refused", "lost"}
    BY <1>t, <1>2 DEF ClaimFails, Failed, HangsUp, Return
  <2> QED
    BY <1>t, <1>1, <2>1 DEF ClaimOutcome
<1>3. CASE LoadConfig(r)
  <2>1. /\ pc[r] = "start" /\ UNCHANGED signalled
        /\ \/ call' = [call EXCEPT ![r]["claim"] = "sent"] /\ UNCHANGED err
           \/ UNCHANGED call /\ err' = [err EXCEPT ![r] = "ConfigInvalid"]
    BY <1>3 DEF LoadConfig, Send, Return
  <2>2. call[r]["claim"] = "none" /\ err[r] = "nil"
    BY <2>1 DEF ClaimInv, IInv, PhasesOK, Up
  <2>3. \A q \in Run \ {r} : call'[q] = call[q] /\ err'[q] = err[q]
    BY <1>t, <2>1
  <2>4. err'[r] # "ClaimRejected" /\ owner # r
    BY <1>t, <2>1, <2>2 DEF ClaimOutcome
  <2> QED
    BY <1>1, <2>1, <2>3, <2>4 DEF ClaimOutcome
<1>4. CASE ~ClaimFails(r) /\ ~LoadConfig(r)
  <2>1. \/ UNCHANGED call
        \/ \E op \in {"publish", "release"} : Send(r, op)
    BY <1>4 DEF RunStep, Claimed, ComposeUp, ComposeRejected,
       ComposeFails, StartProcess, StartProcessFails, AllReady, NotReady, Tick,
       ReadinessFails, Published, PublishFails, ForegroundEnds, CleanupProcesses,
       StopCompose, BeginRelease, SkipRelease, Released, ReleaseFails, Exit, Signal, Kill,
       BecomesReady, ProcessExits
  <2>2. \A q \in Run : call'[q]["claim"] = call[q]["claim"]
    BY <1>t, <2>1 DEF Send, Op
  <2>3. \/ UNCHANGED err
        \/ \E e \in Code \ {"ClaimRejected"} : err' = [err EXCEPT ![r] = e]
    BY <1>4 DEF RunStep, Claimed, ComposeUp, ComposeRejected,
       ComposeFails, StartProcess, StartProcessFails, AllReady, NotReady, Tick,
       ReadinessFails, Published, PublishFails, ForegroundEnds, CleanupProcesses,
       StopCompose, BeginRelease, SkipRelease, Released, ReleaseFails, Exit, Signal, Kill,
       BecomesReady, ProcessExits, Return, UnlessSignalled, Code, runVars
  <2>4. \/ UNCHANGED signalled
        \/ signalled' = [signalled EXCEPT ![r] = TRUE]
    BY <1>4 DEF RunStep, Claimed, ComposeUp, ComposeRejected,
       ComposeFails, StartProcess, StartProcessFails, AllReady, NotReady, Tick,
       ReadinessFails, Published, PublishFails, ForegroundEnds, CleanupProcesses,
       StopCompose, BeginRelease, SkipRelease, Released, ReleaseFails, Exit, Signal, Kill,
       BecomesReady, ProcessExits, runVars
  <2> QED
    BY <1>t, <1>1, <2>2, <2>3, <2>4, SameOutcome
<1> QED
  BY <1>2, <1>3, <1>4

LEMMA DaemonKeepsOutcome ==
  ASSUME IInv, ClaimOutcome, NEW r \in Run, DaemonStep(r)
  PROVE  ClaimOutcome'
<1>t. call \in [Run -> [Op -> CallState]]
  BY DEF IInv, RunnerTypeOK
<1>1. UNCHANGED <<err, signalled>>
  BY DEF DaemonStep, Grant, Serve, Withdraw, Drop, Refuse, runVars
<1>2. CASE Grant(r)
  <2>1. /\ call'[r]["claim"] = "ok" /\ \A q \in Run \ {r} : call'[q] = call[q]
        /\ call[r]["claim"] = "sent" /\ owner' = r
    BY <1>t, <1>2 DEF Grant, Answer, Op
  <2> QED
    BY <1>1, <2>1 DEF ClaimOutcome
<1>3. CASE Serve(r) \/ Withdraw(r) \/ Drop(r)
  <2>1. \A q \in Run : call'[q]["claim"] = call[q]["claim"]
    BY <1>t, <1>3 DEF Serve, Withdraw, Drop, Answer, Op
  <2>2. owner' = owner \/ owner' = None
    BY <1>3 DEF Serve, Withdraw, Drop
  <2> QED
    BY <1>1, <2>1, <2>2, RunnerAssumption DEF ClaimOutcome
<1>4. CASE Refuse(r)
  <2>1. PICK op \in Op : call[r][op] = "sent" /\ call' = [call EXCEPT ![r][op] = "refused"]
    BY <1>4 DEF Refuse, Answer
  <2>2. /\ \A q \in Run \ {r} : call'[q] = call[q]
        /\ \/ call'[r]["claim"] = call[r]["claim"]
           \/ call'[r]["claim"] = "refused" /\ call[r]["claim"] = "sent"
    BY <1>t, <2>1 DEF Op
  <2>3. UNCHANGED owner
    BY <1>4 DEF Refuse, daemonVars
  <2> QED
    BY <1>1, <2>2, <2>3 DEF ClaimOutcome
<1> QED
  BY <1>2, <1>3, <1>4 DEF DaemonStep

LEMMA OutcomeHolds == Spec => [](ClaimInv /\ ClaimOutcome)
<1>1. Init => ClaimInv /\ ClaimOutcome
  BY RunnerAssumption DEF Init, Op, ClaimInv, ClaimOutcome
<1>2. ASSUME IInv, ClaimInv, ClaimOutcome, [Next]_vars PROVE ClaimInv' /\ ClaimOutcome'
  <2>1. ClaimInv'
    BY <1>2, NextKeepsClaim
  <2>2. ASSUME NEW r \in Run,
               \/ RunStep(r) \/ Signal(r) \/ Kill(r) \/ BecomesReady(r) \/ ProcessExits(r)
               \/ DaemonStep(r)
        PROVE  ClaimOutcome'
    BY <1>2, <2>2, RunKeepsOutcome, DaemonKeepsOutcome
  <2>3. CASE DaemonDies
    <3>1. PICK lost \in SUBSET Run :
        call' = [r \in Run |-> [op \in Op |->
            IF call[r][op] \in {"sent", "withdrawn"} THEN "refused"
            ELSE IF call[r][op] = "ok" /\ r \in lost THEN "lost" ELSE call[r][op]]]
      BY <2>3 DEF DaemonDies
    <3>2. \A r \in Run : call[r]["claim"] \in {"refused", "lost"} =>
                              call'[r]["claim"] \in {"refused", "lost"}
      BY <3>1 DEF Op
    <3>3. owner' = None /\ UNCHANGED <<err, signalled>>
      BY <2>3 DEF DaemonDies, runVars
    <3> QED
      BY <1>2, <2>1, <3>2, <3>3, RunnerAssumption DEF ClaimOutcome
  <2>4. CASE DaemonStarts \/ UNCHANGED vars
    BY <1>2, <2>1, <2>4, SameOutcome DEF DaemonStarts, vars, runVars, daemonVars
  <2> QED
    BY <1>2, <2>1, <2>2, <2>3, <2>4 DEF Next
<1>3. IInv /\ ClaimInv /\ ClaimOutcome /\ [Next]_vars => (ClaimInv /\ ClaimOutcome)'
  BY <1>2
<1> QED
  BY <1>1, <1>3, IInvHolds, PTL DEF Spec

\* "Startup failure releases ownership cleanly", unless a signal came before
\* the answer to the claim (runner.go: a failed Claim returns before its
\* release is deferred).
THEOREM OnlyInterruptedStartupsHold ==
  Spec => []((\A r \in Run : ~signalled[r]) => StartupFailureReleases)
<1>1. IInv /\ ClaimOutcome => ((\A r \in Run : ~signalled[r]) => StartupFailureReleases)
  <2> SUFFICES ASSUME IInv, ClaimOutcome, \A r \in Run : ~signalled[r], NEW r \in Run,
                      pc[r] = "returned", ~published[r], err[r] # "CleanupFailed",
                      owner = r
               PROVE  FALSE
    BY DEF StartupFailureReleases
  <2>1. defers[r] = {}
    BY DEF IInv, PhasesOK
  <2>2. err[r] = "ClaimRejected"
    BY <2>1 DEF IInv, OwnerHeld, ReleaseDue
  <2> QED
    BY <2>2 DEF ClaimOutcome
<1> QED
  BY <1>1, IInvHolds, OutcomeHolds, PTL

\* Without files of an earlier run, whoever has asked for routes is ready.
ReadyFirst ==
    \A r \in Run : \A p \in Proc :
        /\ ready[r][p] \in {"absent", "written"}
        /\ call[r]["publish"] # "none" => ready[r][p] = "written"

LEMMA NextKeepsReadyFirst ==
  ASSUME IInv, ReadyFirst, [Next]_vars
  PROVE  ReadyFirst'
<1>t. /\ call \in [Run -> [Op -> CallState]] /\ ready \in [Run -> [Proc -> FileState]]
  BY DEF IInv, RunnerTypeOK
<1>1. ASSUME NEW r \in Run, BecomesReady(r) PROVE ReadyFirst'
  <2>1. PICK p \in Proc : ready' = [ready EXCEPT ![r][p] = "written"]
    BY <1>1 DEF BecomesReady
  <2>2. \A q \in Run : \A s \in Proc :
          ready'[q][s] = ready[q][s] \/ ready'[q][s] = "written"
    BY <1>t, <2>1
  <2> QED
    BY <1>1, <2>2 DEF BecomesReady, ReadyFirst
<1>2. ASSUME NEW r \in Run, AllReady(r) PROVE ReadyFirst'
  <2>1. /\ \A p \in Proc : ready[r][p] # "absent"
        /\ UNCHANGED ready
        /\ \A q \in Run \ {r} : call'[q] = call[q]
    BY <1>t, <1>2 DEF AllReady, Send, stackVars
  <2> QED
    BY <2>1 DEF ReadyFirst
<1>3. ASSUME UNCHANGED ready,
             \A r \in Run : call'[r]["publish"] # "none" => call[r]["publish"] # "none"
      PROVE  ReadyFirst'
  BY <1>3 DEF ReadyFirst
<1>4. ASSUME NEW r \in Run, RunStep(r), ~AllReady(r) PROVE ReadyFirst'
  <2>1. /\ UNCHANGED ready
        /\ UNCHANGED call \/ \E op \in {"claim", "release"} : Send(r, op)
    BY <1>4 DEF RunStep, LoadConfig, Claimed, ClaimFails, ComposeUp, ComposeRejected,
       ComposeFails, StartProcess, StartProcessFails, NotReady, Tick,
       ReadinessFails, Published, PublishFails, ForegroundEnds, CleanupProcesses,
       StopCompose, BeginRelease, SkipRelease, Released, ReleaseFails, Exit, stackVars
  <2>2. \A q \in Run : call'[q]["publish"] = call[q]["publish"]
    <3>1. CASE UNCHANGED call
      BY <3>1
    <3>2. ASSUME NEW op \in {"claim", "release"}, Send(r, op)
          PROVE  \A q \in Run : call'[q]["publish"] = call[q]["publish"]
      BY <1>t, <3>2 DEF Send, Op
    <3> QED
      BY <2>1, <3>1, <3>2
  <2> QED
    BY <1>3, <2>1, <2>2
<1>5. ASSUME NEW r \in Run, DaemonStep(r) PROVE ReadyFirst'
  <2>1. /\ UNCHANGED ready
        /\ \E op \in Op : call[r][op] # "none" /\ \E status \in CallState :
               call' = [call EXCEPT ![r][op] = status]
    <3>1. CASE Refuse(r)
      BY <3>1 DEF Refuse, Answer, stackVars, CallState
    <3>2. CASE Grant(r) \/ Serve(r) \/ Withdraw(r) \/ Drop(r)
      BY <3>2 DEF Grant, Serve, Withdraw, Drop, Answer, stackVars, Op, CallState
    <3> QED
      BY <1>5, <3>1, <3>2 DEF DaemonStep
  <2>2. \A q \in Run : call'[q]["publish"] # "none" => call[q]["publish"] # "none"
    BY <1>t, <2>1 DEF Op
  <2> QED
    BY <1>3, <2>1, <2>2
<1>6. CASE DaemonDies
  <2>1. \A r \in Run : call'[r]["publish"] # "none" => call[r]["publish"] # "none"
    BY <1>6 DEF DaemonDies, Op
  <2> QED
    BY <1>3, <1>6, <2>1 DEF DaemonDies, stackVars
<1>7. CASE \/ DaemonStarts \/ UNCHANGED vars
          \/ \E r \in Run : Signal(r) \/ Kill(r) \/ ProcessExits(r)
  BY <1>3, <1>7 DEF DaemonStarts, Signal, Kill, ProcessExits, vars, stackVars
<1> QED
  BY <1>1, <1>2, <1>4, <1>5, <1>6, <1>7 DEF Next

\* "Route publication happens only after readiness", unless files of an
\* earlier run lie around (allReady asks only whether they exist).
THEOREM RoutedWhenReady ==
  ASSUME "stale" \notin Mishaps
  PROVE  Spec => []RoutedAfterReadiness
<1>1. Init => ReadyFirst
  BY DEF Init, ReadyFirst, Op
<1>2. IInv /\ ReadyFirst => RoutedAfterReadiness
  BY DEF IInv, RequestsOK, ReadyFirst, RoutedAfterReadiness
<1>3. IInv /\ ReadyFirst /\ [Next]_vars => ReadyFirst'
  BY NextKeepsReadyFirst
<1> QED
  BY <1>1, <1>2, <1>3, IInvHolds, PTL DEF Spec
=============================================================================
