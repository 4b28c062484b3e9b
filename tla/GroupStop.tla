----------------------------- MODULE GroupStop ------------------------------
(***************************************************************************)
(* pkg/sentry/kernel, task_signals.go, task_stop.go, task_exit.go and      *)
(* task_start.go: how the tasks of a thread group stop together on a stop  *)
(* signal, go on after SIGCONT, die of SIGKILL, exit and are created       *)
(* meanwhile, and how the parent that waits for a stop or a continuation   *)
(* hears of it.                                                            *)
(*                                                                         *)
(* A step is what happens under one hold of the signal mutex.  The tasks   *)
(* of the group are not traced, and SIGCONT has its default action.        *)
(***************************************************************************)
EXTENDS Naturals, FiniteSets

CONSTANTS
  Tasks,        \* tasks of the thread group, those yet to be created included
  Tasks0,       \* the tasks to begin with
  MaxSignals    \* bound: signals sent to the group

VARIABLES
  tg,        \* the thread group
  task,      \* its tasks
  parent,    \* the task of the parent that waits
  signals,   \* the number of signals so far
  spoilt     \* history: SIGCONT or a new task came while a group stop was
             \* under way, since the last stop signal was initiated in peace

vars == <<tg, task, parent, signals, spoilt>>

NewTask == [at |-> "app", interrupted |-> TRUE, required |-> FALSE, acked |-> FALSE,
            stop |-> "none", killed |-> FALSE, notify |-> "nothing"]

Init ==
  /\ tg = [phase |-> "none", count |-> 0, activeTasks |-> Cardinality(Tasks0),
           pending |-> {}, exiting |-> FALSE, stopWaitable |-> FALSE,
           contNotify |-> FALSE, contWaitable |-> FALSE]
  /\ task = [t \in Tasks |->
       IF t \in Tasks0 THEN [NewTask EXCEPT !.interrupted = FALSE]
                       ELSE [NewTask EXCEPT !.at = "none"]]
  /\ parent = [at |-> "idle", told |-> FALSE]
  /\ signals = 0
  /\ spoilt = FALSE

At(t, where) == task[t].at = where
Active(t) == task[t].at \notin {"none", "gone"}
Gone == \A t \in Tasks : ~Active(t)
\* doStop: a stopped task does nothing.
Runs(t) == task[t].stop = "none"

-----------------------------------------------------------------------------
\* Signals.

\* killLocked.
Killed(r) == [r EXCEPT !.stop = "none", !.required = FALSE, !.killed = TRUE,
                       !.interrupted = TRUE]

\* canReceiveSignalLocked, for a signal that nobody blocks.
CanReceive(t) == Active(t) /\ Runs(t) /\ ~task[t].interrupted

Sent ==
  /\ signals < MaxSignals /\ ~Gone
  /\ signals' = signals + 1

\* A stop signal to the group: it is queued, and one task is interrupted.
SendStop ==
  /\ Sent
  /\ tg' = [tg EXCEPT !.pending = @ \cup {"STOP"}]
  /\ \/ /\ "STOP" \notin tg.pending
        /\ \E t \in Tasks : CanReceive(t) /\ task' = [task EXCEPT ![t].interrupted = TRUE]
     \/ /\ "STOP" \in tg.pending \/ \A t \in Tasks : ~CanReceive(t)
        /\ UNCHANGED task
  /\ UNCHANGED <<parent, spoilt>>

\* A variant that does not remember to tell the parent.
EndGroupStop_Silent ==
  [tg EXCEPT !.pending = {}, !.phase = "none",
             !.contWaitable = @ \/ tg.phase \in {"initiated", "complete"}]

\* endGroupStopLocked(true): the thread group after it.
EndGroupStop ==
  IF tg.phase \in {"initiated", "complete"}
  THEN [tg EXCEPT !.pending = {}, !.phase = "none", !.contNotify = TRUE,
                  !.contWaitable = TRUE]
  ELSE [tg EXCEPT !.pending = {}, !.phase = "none"]

\* SIGCONT: applySignalSideEffectsLocked; the signal itself is ignored.
SendCont ==
  /\ Sent
  /\ tg' = EndGroupStop
  /\ task' = IF tg.phase \in {"initiated", "complete"}
             THEN [t \in Tasks |-> [task[t] EXCEPT !.stop = "none"]] ELSE task
  /\ spoilt' = (spoilt \/ \E t \in Tasks : task[t].required \/ At(t, "stopping"))
  /\ UNCHANGED parent

SendKill ==
  /\ Sent
  /\ tg' = [tg EXCEPT !.exiting = TRUE]
  /\ task' = [t \in Tasks |-> IF Active(t) THEN Killed(task[t]) ELSE task[t]]
  /\ UNCHANGED <<parent, spoilt>>

-----------------------------------------------------------------------------
\* The task goroutine.

\* runApp: the interrupt is noticed.
Interrupted(t) ==
  /\ At(t, "app") /\ Runs(t) /\ task[t].interrupted
  /\ task' = [task EXCEPT ![t].at = "interrupt", ![t].interrupted = FALSE]
  /\ UNCHANGED <<tg, parent, signals, spoilt>>

\* runInterrupt: just left a group stop.
LeftGroupStop(t) ==
  /\ At(t, "interrupt") /\ Runs(t) /\ tg.contNotify
  /\ tg' = [tg EXCEPT !.contNotify = FALSE]
  /\ task' = [task EXCEPT ![t].at = "notify", ![t].notify = "parent"]
  /\ UNCHANGED <<parent, signals, spoilt>>

\* What the last task to acknowledge a group stop does.
Completed(g) ==
  [g EXCEPT !.phase = "complete", !.stopWaitable = TRUE, !.contNotify = FALSE,
            !.contWaitable = FALSE]

\* runInterrupt: a group stop is required; the signal mutex is dropped.
EnterGroupStop(t) ==
  LET acked == [tg EXCEPT !.count = @ + 1]
      last == ~task[t].acked /\ acked.count = tg.activeTasks IN
  /\ At(t, "interrupt") /\ Runs(t) /\ ~tg.contNotify /\ task[t].required
  /\ tg' = IF task[t].acked THEN tg ELSE IF last THEN Completed(acked) ELSE acked
  /\ task' = [task EXCEPT ![t].at = "stopping", ![t].required = FALSE, ![t].acked = TRUE,
                          ![t].notify = IF last THEN "parent" ELSE "nothing"]
  /\ UNCHANGED <<parent, signals, spoilt>>

Tell(notify) == IF notify = "parent" THEN [parent EXCEPT !.told = TRUE] ELSE parent

\* A variant that stops although the task has been killed.
Stop_Killed(t) ==
  /\ At(t, "stopping")
  /\ task' = [task EXCEPT ![t].at = "interrupt", ![t].notify = "nothing", ![t].stop = "group"]
  /\ parent' = Tell(task[t].notify)
  /\ UNCHANGED <<tg, signals, spoilt>>

\* ... and taken again: the stop itself, and the word to the parent.
Stop(t) ==
  /\ At(t, "stopping")
  /\ task' = [task EXCEPT ![t].at = "interrupt", ![t].notify = "nothing",
                          ![t].stop = IF task[t].killed THEN "none" ELSE "group"]
  /\ parent' = Tell(task[t].notify)
  /\ UNCHANGED <<tg, signals, spoilt>>

\* The word to the parent after a group stop or an exit.
Notify(t) ==
  /\ At(t, "notify")
  /\ task' = [task EXCEPT ![t].at = "interrupt", ![t].notify = "nothing"]
  /\ parent' = Tell("parent")
  /\ UNCHANGED <<tg, signals, spoilt>>

\* runInterrupt: SIGKILL, which comes before SIGSTOP; deliverSignal and
\* PrepareGroupExit.
DequeueKill(t) ==
  /\ At(t, "interrupt") /\ Runs(t) /\ ~tg.contNotify /\ ~task[t].required
  /\ task[t].killed
  /\ task' = [task EXCEPT ![t].at = "exit", ![t].killed = FALSE]
  /\ UNCHANGED <<tg, parent, signals, spoilt>>

DequeueStop(t) ==
  /\ At(t, "interrupt") /\ Runs(t) /\ ~tg.contNotify /\ ~task[t].required
  /\ ~task[t].killed /\ "STOP" \in tg.pending
  /\ tg' = [tg EXCEPT !.pending = {}, !.phase = IF @ = "none" THEN "dequeued" ELSE @]
  /\ task' = [task EXCEPT ![t].at = "deliver"]
  /\ UNCHANGED <<parent, signals, spoilt>>

\* A variant that interrupts nobody.
InitiateGroupStop_NoInterrupt(t) ==
  LET lost == tg.phase # "dequeued" \/ tg.exiting IN
  /\ At(t, "deliver")
  /\ tg' = IF lost THEN tg ELSE [tg EXCEPT !.phase = "initiated", !.count = 0]
  /\ task' = [u \in Tasks |->
       LET r == IF lost \/ ~Active(u) THEN task[u]
                ELSE [task[u] EXCEPT !.required = TRUE, !.acked = FALSE]
       IN  IF u = t THEN [r EXCEPT !.at = "interrupt"] ELSE r]
  /\ spoilt' = IF lost THEN spoilt
               ELSE \E u \in Tasks : At(u, "stopping") \/ task[u].stop = "group"
  /\ UNCHANGED <<parent, signals>>

\* initiateGroupStop.
InitiateGroupStop(t) ==
  LET lost == tg.phase # "dequeued" \/ tg.exiting IN
  /\ At(t, "deliver")
  /\ tg' = IF lost THEN tg ELSE [tg EXCEPT !.phase = "initiated", !.count = 0]
  /\ task' = [u \in Tasks |->
       LET r == IF lost \/ ~Active(u) THEN task[u]
                ELSE [task[u] EXCEPT !.required = TRUE, !.acked = FALSE, !.interrupted = TRUE]
       IN  IF u = t THEN [r EXCEPT !.at = "interrupt"] ELSE r]
  /\ spoilt' = IF lost THEN spoilt
               ELSE \E u \in Tasks : At(u, "stopping") \/ task[u].stop = "group"
  /\ UNCHANGED <<parent, signals>>

\* runInterrupt: nothing left to do.
BackToApp(t) ==
  /\ At(t, "interrupt") /\ Runs(t) /\ ~tg.contNotify /\ ~task[t].required
  /\ ~task[t].killed /\ tg.pending = {}
  /\ task' = [task EXCEPT ![t].at = "app"]
  /\ UNCHANGED <<tg, parent, signals, spoilt>>

\* exit(2) and exit_group(2): PrepareExit, PrepareGroupExit.
Exit(t, group) ==
  /\ At(t, "app") /\ Runs(t)
  /\ tg' = [tg EXCEPT !.exiting = @ \/ group]
  /\ task' = [u \in Tasks |->
       IF u = t THEN [task[u] EXCEPT !.at = "exit"]
       ELSE IF group /\ ~tg.exiting /\ Active(u) THEN Killed(task[u]) ELSE task[u]]
  /\ UNCHANGED <<parent, signals, spoilt>>

\* exitThreadGroup.  The parent also hears of the exit of the last task.
ExitThreadGroup(t) ==
  LET left == [tg EXCEPT !.activeTasks = @ - 1]
      completes == /\ tg.phase = "initiated" /\ ~task[t].acked
                   /\ tg.count = left.activeTasks IN
  /\ At(t, "exit")
  /\ tg' = IF tg.phase = "initiated" /\ task[t].acked THEN [left EXCEPT !.count = @ - 1]
           ELSE IF completes THEN Completed(left) ELSE left
  /\ task' = [task EXCEPT ![t] = [NewTask EXCEPT !.at = "gone"]]
  /\ parent' = IF completes \/ left.activeTasks = 0
               THEN [parent EXCEPT !.told = TRUE] ELSE parent
  /\ UNCHANGED <<signals, spoilt>>

\* clone(2) of a thread: newTask, Start.
Clone(t, new) ==
  /\ At(t, "app") /\ Runs(t) /\ ~tg.exiting
  /\ At(new, "none") /\ new = CHOOSE u \in Tasks : At(u, "none")
  /\ tg' = [tg EXCEPT !.activeTasks = @ + 1]
  /\ task' = [task EXCEPT ![new] = NewTask]
  /\ spoilt' = (spoilt \/ tg.phase = "initiated")
  /\ UNCHANGED <<parent, signals>>

-----------------------------------------------------------------------------
\* The parent in Task.Wait for a stop or a continuation.

\* EventRegister.
Wait ==
  /\ parent.at = "idle" /\ ~Gone
  /\ parent' = [at |-> "check", told |-> FALSE]
  /\ UNCHANGED <<tg, task, signals, spoilt>>

\* waitOnce.
WaitOnce ==
  /\ parent.at = "check"
  /\ tg' = IF tg.stopWaitable THEN [tg EXCEPT !.stopWaitable = FALSE]
           ELSE [tg EXCEPT !.contWaitable = FALSE]
  /\ parent' = IF tg.stopWaitable \/ tg.contWaitable \/ Gone
               THEN [at |-> "idle", told |-> FALSE] ELSE [parent EXCEPT !.at = "blocked"]
  /\ UNCHANGED <<task, signals, spoilt>>

Unblock ==
  /\ parent.at = "blocked" /\ parent.told
  /\ parent' = [at |-> "check", told |-> FALSE]
  /\ UNCHANGED <<tg, task, signals, spoilt>>

-----------------------------------------------------------------------------
\* What a task does without an application.
Step(t) ==
  \/ Interrupted(t)
  \/ LeftGroupStop(t)
  \/ EnterGroupStop(t)
  \/ Stop(t)
  \/ Notify(t)
  \/ DequeueKill(t)
  \/ DequeueStop(t)
  \/ InitiateGroupStop(t)
  \/ BackToApp(t)
  \/ ExitThreadGroup(t)

Waits == WaitOnce \/ Unblock

Next ==
  \/ SendStop
  \/ SendCont
  \/ SendKill
  \/ \E t \in Tasks : Step(t)
  \/ \E t \in Tasks, group \in BOOLEAN : Exit(t, group)
  \/ \E t, new \in Tasks : Clone(t, new)
  \/ Wait
  \/ Waits

\* Task goroutines and the parent run; nobody has to send a signal, to exit or
\* to wait.
Spec ==
  /\ Init /\ [][Next]_vars
  /\ \A t \in Tasks : WF_vars(Step(t))
  /\ WF_vars(Waits)

-----------------------------------------------------------------------------
\* A task that has been sent SIGKILL exits, whatever group stop it is in or
\* about to enter (killLocked, runInterrupt's test under the second hold of the
\* mutex, "SIGKILL is meant to always immediately kill tasks").
KilledTasksExit == \A t \in Tasks : task[t].killed ~> At(t, "gone")

\* A parent that blocks in wait4 hears of every completed stop, of every
\* continuation and of the end of the group (exitThreadGroup, groupContNotify).
\* It does not if SIGCONT was lost on every task that could tell it.
ParentHears ==
  parent.at = "blocked" /\ (tg.stopWaitable \/ tg.contWaitable \/ Gone)
    ~> parent.at # "blocked" \/ spoilt

\* A group stop under way completes or is cancelled although tasks exit, die
\* or have acknowledged it already: the last one to stop or to leave notices.
\* A SIGCONT or a new thread that comes between can spoil this.
GroupStopEnds == tg.phase = "initiated" ~> tg.phase # "initiated" \/ spoilt

\* The count of those who have stopped is right while it is used.
CountIsRight ==
  tg.phase = "initiated" /\ ~spoilt =>
    /\ tg.count = Cardinality({t \in Tasks : Active(t) /\ task[t].acked})
    /\ tg.count < tg.activeTasks

\* endGroupStopLocked "ensures that all prior stop signals received by tg are
\* not stopping tg and will not stop tg in the future".
ContIsObeyed == \A t \in Tasks : task[t].stop = "group" => tg.phase # "none"
=============================================================================
