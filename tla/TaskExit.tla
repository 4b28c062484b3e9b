------------------------------ MODULE TaskExit ------------------------------
(***************************************************************************)
(* pkg/sentry/kernel, task_exit.go, task_exec.go and ptrace.go: how tasks  *)
(* exit, are handed to a new parent, are announced to their parent and     *)
(* their tracer, waited for and reaped, and how execve(2) gets rid of the  *)
(* other threads.                                                          *)
(*                                                                         *)
(* A step is one hold of the TaskSet mutex.  Stops other than execStop are *)
(* not modelled (GroupStop), nor are wait4's filters and statuses.         *)
(***************************************************************************)
EXTENDS Naturals, FiniteSets, FiniteSetsExt

CONSTANTS
  Tasks,       \* all tasks
  Group,       \* the thread group of each task
  Leader0,     \* the leader each thread group begins with
  Parent0,     \* the parent each task begins with, or NoTask
  Families,    \* the sets of tasks that exist to begin with
  Init0,       \* the first task of the PID namespace
  Tracers,     \* the tasks that may call ptrace(PTRACE_ATTACH)
  Execers,     \* the tasks that may call execve(2)
  Waiters,     \* the tasks that may call wait4(2)
  Ignorers,    \* the sets of thread groups that may ignore SIGCHLD
  MaxTraces,   \* bound: calls of ptrace(PTRACE_ATTACH)
  NoTask

VARIABLES
  task,       \* the tasks
  group,      \* the thread groups: leader, exiting, execing
  ignores,    \* the thread groups that ignore SIGCHLD
  traces      \* the number of attachments so far

vars == <<task, group, ignores, traces>>

Groups == {Group[t] : t \in Tasks}

Init ==
  /\ \E family \in Families : task = [t \in Tasks |->
       [at |-> IF t \in family THEN "app" ELSE "dead", killed |-> FALSE, told |-> FALSE,
        parent |-> IF t \in family THEN Parent0[t] ELSE NoTask,
        children |-> {c \in family : Parent0[c] = t},
        tracer |-> NoTask, tracees |-> {},
        tracerNotified |-> FALSE, tracerAcked |-> FALSE,
        parentNotified |-> FALSE, parentAcked |-> FALSE]]
  /\ group = [g \in Groups |-> [leader |-> Leader0[g], exiting |-> FALSE, execing |-> NoTask]]
  /\ ignores \in Ignorers
  /\ traces = 0

At(t, where) == task[t].at = where

\* The exit states: TaskExitNone, TaskExitZombie and later, TaskExitDead.
NotExiting(k, t) == k[t].at \in {"app", "check", "blocked", "execstop", "afterexec", "exit"}
Zombie(k, t) == k[t].at = "zombie"
Dead(k, t) == k[t].at = "dead"
\* ThreadGroup.tasks and liveTasks.
TasksOf(k, g) == {t \in Tasks : Group[t] = g /\ ~Dead(k, t)}
LiveTasks(k, g) == {t \in TasksOf(k, g) : ~Zombie(k, t)}
IsLeader(t) == group[Group[t]].leader = t

-----------------------------------------------------------------------------
\* Exit notification.  These are functions of the tasks k.

\* eventQueue.Notify of the thread group of t: wake those who wait in it.
Notify(k, t) ==
  [u \in Tasks |-> IF Group[u] = Group[t] /\ k[u].at \in {"check", "blocked"}
                   THEN [k[u] EXCEPT !.told = TRUE] ELSE k[u]]

\* A variant that always treats the tracer as somebody else.
NotifyTracer_Apart(k, lead, t) ==
  IF k[t].tracerNotified THEN k
  ELSE IF k[t].tracer = NoTask
  THEN [k EXCEPT ![t].tracerNotified = TRUE, ![t].tracerAcked = TRUE]
  ELSE Notify([k EXCEPT ![t].tracerNotified = TRUE, ![t].parentNotified = t = lead],
              k[t].tracer)

\* exitNotifyLocked: the tracer is told.
NotifyTracer(k, lead, t) ==
  LET tracer == k[t].tracer
      byParent == /\ t = lead /\ k[t].parent # NoTask
                  /\ Group[tracer] = Group[k[t].parent] IN
  IF k[t].tracerNotified THEN k
  ELSE IF tracer = NoTask
  THEN [k EXCEPT ![t].tracerNotified = TRUE, ![t].tracerAcked = TRUE]
  ELSE Notify([k EXCEPT ![t].tracerNotified = TRUE,
                        ![t].parentNotified = @ \/ byParent], tracer)

\* ... then the parent, once the thread group is empty.
NotifyParent(k, lead, t) ==
  IF ~k[t].tracerAcked \/ k[t].parentNotified THEN k
  ELSE IF t # lead
  THEN [k EXCEPT ![t].parentNotified = TRUE, ![t].parentAcked = TRUE]
  ELSE IF Cardinality(TasksOf(k, Group[t])) # 1 THEN k
  ELSE IF k[t].parent = NoTask
  THEN [k EXCEPT ![t].parentNotified = TRUE, ![t].parentAcked = TRUE]
  ELSE Notify([k EXCEPT ![t].parentNotified = TRUE,
                        ![t].parentAcked = @ \/ Group[k[t].parent] \in ignores], k[t].parent)

\* ... and with both resolved, the task is dead.
Reaped(k, t) ==
  LET parent == k[t].parent
      dead == [k EXCEPT ![t].at = "dead", ![t].parent = NoTask, ![t].children = {}] IN
  IF ~(k[t].tracerAcked /\ k[t].parentAcked) THEN k
  ELSE IF parent = NoTask THEN dead ELSE [dead EXCEPT ![parent].children = @ \ {t}]

Notified(k, lead, t) ==
  IF ~Zombie(k, t) THEN k
  ELSE Reaped(NotifyParent(NotifyTracer(k, lead, t), lead, t), t)

\* A variant that forgets the leader when its last thread dies.
ExitNotify_Forget(k, lead, t) == Notified(k, lead, t)

\* exitNotifyLocked as a whole: the death of a thread may leave its leader
\* alone in the thread group.
ExitNotify(k, lead, t) ==
  LET after == Notified(k, lead, t) IN
  IF /\ Dead(after, t) /\ ~Dead(k, t) /\ t # lead
     /\ Cardinality(TasksOf(after, Group[t])) = 1
  THEN Notified(after, lead, lead) ELSE after

LeaderOf(t) == group[Group[t]].leader

\* forgetTracerLocked.
ForgetTracer(k, lead, t) ==
  LET forgot == [k EXCEPT ![t].tracer = NoTask] IN
  IF k[t].tracerNotified /\ ~k[t].tracerAcked
  THEN ExitNotify([forgot EXCEPT ![t].tracerAcked = TRUE], lead, t) ELSE forgot

\* A variant that does not announce the exit again.
Reparent_Quiet(k, t, parent) == [k EXCEPT ![t].parent = parent]

\* reparentLocked, and the entry in the new parent's children.
Reparent(k, t, parent) ==
  LET old == k[t].parent
      moved == [k EXCEPT ![t].parent = parent]
      again == /\ IsLeader(t)
               /\ ~(old # NoTask /\ parent # NoTask /\ Group[old] = Group[parent])
               /\ ~(old = NoTask /\ parent = NoTask)
               /\ k[t].parentNotified /\ ~k[t].parentAcked
      told == IF again
              THEN ExitNotify([moved EXCEPT ![t].parentNotified = FALSE], t, t) ELSE moved IN
  IF parent = NoTask THEN told ELSE [told EXCEPT ![parent].children = @ \cup {t}]

-----------------------------------------------------------------------------
\* The exit path.

Living(k, S) == {t \in S : NotExiting(k, t)}

\* killLocked: a task in execStop is woken too.  To a task that exits already
\* it makes no difference.
Kill(k, S) ==
  [t \in Tasks |-> IF t \in S /\ k[t].at \in {"app", "check", "blocked", "execstop", "afterexec"}
     THEN [k[t] EXCEPT !.killed = TRUE, !.at = IF @ = "execstop" THEN "afterexec" ELSE @]
     ELSE k[t]]

\* exit(2): PrepareExit.
Exit(t) ==
  /\ At(t, "app")
  /\ task' = [task EXCEPT ![t].at = "exit", ![t].killed = FALSE]
  /\ UNCHANGED <<group, ignores, traces>>

\* exit_group(2), and the delivery of SIGKILL: PrepareGroupExit.
GroupExit(t) ==
  LET g == Group[t]
      first == ~group[g].exiting /\ group[g].execing = NoTask
      others == TasksOf(task, g) \ {t} IN
  /\ At(t, "app") \/ (task[t].killed /\ task[t].at \in {"app", "blocked"})
  /\ group' = IF first THEN [group EXCEPT ![g].exiting = TRUE] ELSE group
  /\ task' = [Kill(task, IF first THEN others ELSE {}) EXCEPT
                ![t].at = "exit", ![t].killed = FALSE, ![t].told = FALSE]
  /\ UNCHANGED <<ignores, traces>>

\* exitThreadGroup.
ExitThreadGroup(t) ==
  /\ At(t, "exit")
  /\ task' = [task EXCEPT ![t].at = "exitptrace"]
  /\ UNCHANGED <<group, ignores, traces>>

\* exitPtrace: detach the tracees.
ExitPtrace(t) ==
  LET forget(c, k) == ForgetTracer(k, LeaderOf(c), c)
      forgot == FoldSet(forget, task, task[t].tracees) IN
  /\ At(t, "exitptrace")
  /\ task' = [forgot EXCEPT ![t].at = "exitchildren", ![t].tracees = {}]
  /\ UNCHANGED <<group, ignores, traces>>

\* findReparentTargetLocked.  The task with InitTID is the leader of the first
\* thread group, while it is not dead.
ReparentTarget(t) ==
  LET siblings == Living(task, TasksOf(task, Group[t]))
      inits == IF Dead(task, LeaderOf(Init0)) THEN {}
               ELSE Living(task, TasksOf(task, Group[Init0])) IN
  IF siblings # {} THEN CHOOSE u \in siblings : TRUE
  ELSE IF inits # {} THEN CHOOSE u \in inits : TRUE ELSE NoTask

\* exitChildren: without anybody left to take the children, the namespace dies.
ExitChildren(t) ==
  LET target == ReparentTarget(t)
      others == {u \in Tasks : ~Dead(task, u) /\ Group[u] # Group[t]}
      before == IF target = NoTask THEN Kill(task, others) ELSE task
      move(c, k) == Reparent(k, c, target) IN
  /\ At(t, "exitchildren")
  /\ task' = [FoldSet(move, before, task[t].children) EXCEPT ![t].at = "exitnotify"]
  /\ group' = [g \in Groups |->
       IF target = NoTask /\ \E u \in others : Group[u] = g
       THEN [group[g] EXCEPT !.exiting = TRUE] ELSE group[g]]
  /\ UNCHANGED <<ignores, traces>>


\* runExitNotify: it may complete a sibling's execve.
RunExitNotify(t) ==
  LET zombie == [task EXCEPT ![t].at = "zombie"]
      e == group[Group[t]].execing
      woken == IF /\ e # NoTask /\ Cardinality(LiveTasks(zombie, Group[t])) = 1
                  /\ At(e, "execstop")
               THEN [zombie EXCEPT ![e].at = "afterexec"] ELSE zombie IN
  /\ At(t, "exitnotify")
  /\ task' = ExitNotify(woken, LeaderOf(t), t)
  /\ UNCHANGED <<group, ignores, traces>>

-----------------------------------------------------------------------------
\* execve(2).

\* Execve: stop the siblings; with none, go on at once.
Execve(t) ==
  LET g == Group[t]
      siblings == TasksOf(task, g) \ {t} IN
  /\ At(t, "app") /\ t \in Execers
  /\ ~group[g].exiting /\ group[g].execing = NoTask
  /\ group' = [group EXCEPT ![g].execing = t]
  /\ task' = [Kill(task, siblings) EXCEPT
                ![t].at = IF siblings = {} THEN "afterexec" ELSE "execstop"]
  /\ UNCHANGED <<ignores, traces>>

\* promoteLocked: t takes over from the old leader, which is reaped.
Promoted(k, t, old) ==
  LET tracer == k[old].tracer
      acked == [k EXCEPT ![old].parentNotified = TRUE, ![old].parentAcked = TRUE]
      gone == IF tracer = NoTask THEN acked
              ELSE Notify(ForgetTracer([acked EXCEPT ![tracer].tracees = @ \ {old}], t, old),
                          tracer) IN
  ExitNotify(gone, t, old)

\* runSyscallAfterExecStop.
AfterExecStop(t) ==
  LET g == Group[t] IN
  /\ At(t, "afterexec")
  /\ group' = [group EXCEPT ![g].execing = NoTask,
                            ![g].leader = IF task[t].killed THEN @ ELSE t]
  /\ task' = LET back == [task EXCEPT ![t].at = "app"] IN
             IF task[t].killed \/ IsLeader(t) THEN back ELSE Promoted(back, t, LeaderOf(t))
  /\ UNCHANGED <<ignores, traces>>

-----------------------------------------------------------------------------
\* ptrace(2).

\* ptraceAttach.
PtraceAttach(t, target) ==
  /\ At(t, "app") /\ t \in Tracers /\ traces < MaxTraces
  /\ Group[t] # Group[target] /\ task[target].tracer = NoTask
  /\ ~Zombie(task, target) /\ ~Dead(task, target)
  /\ task' = [task EXCEPT ![target].tracer = t, ![t].tracees = @ \cup {target}]
  /\ traces' = traces + 1
  /\ UNCHANGED <<group, ignores>>

\* ptraceDetach, of a tracee in a ptrace stop.
PtraceDetach(t, target) ==
  /\ At(t, "app") /\ task[target].tracer = t
  /\ task[target].at \in {"app", "exit"}
  /\ task' = [ForgetTracer(task, LeaderOf(target), target) EXCEPT ![t].tracees = @ \ {target}]
  /\ UNCHANGED <<group, ignores, traces>>

-----------------------------------------------------------------------------
\* Task.Wait for exits.

\* waitCollectZombieLocked's conditions.
Collectable(c, asPtracer) ==
  /\ IF asPtracer THEN task[c].tracerNotified ELSE task[c].parentNotified
  /\ ~IsLeader(c) \/ Cardinality(TasksOf(task, Group[c])) = 1

\* The children and the tracees that waitOnce considers.
AsChild(t) ==
  {c \in UNION {task[u].children : u \in TasksOf(task, Group[t])} :
     IsLeader(c) /\ ~task[c].parentAcked}
AsTracee(t) ==
  {c \in UNION {task[u].tracees : u \in TasksOf(task, Group[t])} : ~task[c].tracerAcked}

Waitable(t) ==
  {c \in AsChild(t) : Collectable(c, FALSE)} \cup {c \in AsTracee(t) : Collectable(c, TRUE)}

\* waitCollectZombieLocked: t acknowledges as tracer, as parent or as both.
Collected(t, c) ==
  LET tracer == task[c].tracer
      parent == task[c].parent
      byTracer == /\ tracer # NoTask /\ Group[tracer] = Group[t] /\ task[c].tracerNotified
      byParent == /\ parent # NoTask /\ Group[parent] = Group[t] /\ task[c].parentNotified
      acked == IF byTracer
               THEN [task EXCEPT ![c].tracerAcked = TRUE, ![c].tracer = NoTask,
                                 ![t].tracees = @ \ {c}] ELSE task IN
  IF byParent THEN [acked EXCEPT ![c].parentAcked = TRUE] ELSE acked

Wait(t) ==
  /\ At(t, "app") /\ t \in Waiters
  /\ task' = [task EXCEPT ![t].at = "check"]
  /\ UNCHANGED <<group, ignores, traces>>

\* waitOnce: collect one, block, or return ECHILD.
WaitOnce(t) ==
  /\ At(t, "check")
  /\ \/ \E c \in Waitable(t) :
          task' = [ExitNotify(Collected(t, c), LeaderOf(c), c)
                     EXCEPT ![t].at = "app", ![t].told = FALSE]
     \/ /\ Waitable(t) = {}
        /\ task' = IF AsChild(t) \cup AsTracee(t) = {}
                   THEN [task EXCEPT ![t].at = "app", ![t].told = FALSE]
                   ELSE [task EXCEPT ![t].at = "blocked"]
  /\ UNCHANGED <<group, ignores, traces>>

Unblock(t) ==
  /\ At(t, "blocked") /\ task[t].told
  /\ task' = [task EXCEPT ![t].at = "check", ![t].told = FALSE]
  /\ UNCHANGED <<group, ignores, traces>>

-----------------------------------------------------------------------------
\* What the task goroutine does without the application's asking.
Step(t) ==
  \/ ExitThreadGroup(t)
  \/ ExitPtrace(t)
  \/ ExitChildren(t)
  \/ RunExitNotify(t)
  \/ AfterExecStop(t)
  \/ WaitOnce(t)
  \/ Unblock(t)
  \/ task[t].killed /\ GroupExit(t)

Next ==
  \/ \E t \in Tasks : Step(t)
  \/ \E t \in Tasks : Exit(t)
  \/ \E t \in Tasks : GroupExit(t)
  \/ \E t \in Tasks : Execve(t)
  \/ \E t \in Tasks : Wait(t)
  \/ \E t, target \in Tasks : PtraceAttach(t, target)
  \/ \E t, target \in Tasks : PtraceDetach(t, target)

Spec == Init /\ [][Next]_vars /\ \A t \in Tasks : WF_vars(Step(t))

-----------------------------------------------------------------------------
\* Nobody stays a zombie that no one can collect: its tracer, or, when the
\* tracer is out of the way and the thread group empty, its parent has been
\* told of it and has not yet given up its children.
ZombieHasKeeper ==
  \A t \in Tasks : Zombie(task, t) =>
    \/ /\ task[t].tracer # NoTask /\ ~task[t].tracerAcked
       /\ task[task[t].tracer].at \notin {"exitchildren", "exitnotify", "zombie", "dead"}
    \/ IsLeader(t) /\ Cardinality(TasksOf(task, Group[t])) > 1
    \/ /\ task[t].parent # NoTask /\ task[t].parentNotified
       /\ task[task[t].parent].at \notin {"exitnotify", "zombie", "dead"}

\* The leader of a thread group is the last of it to disappear, also when a
\* thread has taken over from it by execve ("The exit of a thread group leader
\* is never waitable ... until the thread group is empty").
LeaderIsLast ==
  \A g \in Groups : Dead(task, group[g].leader) => TasksOf(task, g) = {}

\* Parents and children, tracers and tracees agree, over exits, reparenting,
\* detaching, execve and reaping, and leaders go last.
FamilyIsConsistent ==
  /\ \A t \in Tasks :
       /\ task[t].parent # NoTask =>
            t \in task[task[t].parent].children /\ ~Dead(task, task[t].parent)
       /\ task[t].tracer # NoTask =>
            t \in task[task[t].tracer].tracees /\ ~Dead(task, t)
  /\ LeaderIsLast

\* Who blocks in wait4 has been woken as soon as there is something to collect
\* ("The exit notification system ensures that interested tasks ... are woken
\* from blocking calls to wait*() syscalls").  A traced leader is excepted: its
\* tracer is told when it exits and not again when the rest of its thread group
\* is gone, which is when it can be collected.
WaiterWakes ==
  \A t \in Tasks :
    At(t, "blocked") /\ (\E c \in Waitable(t) : ~IsLeader(c) \/ task[c].tracer = NoTask)
      => task[t].told


\* "The last sibling to exit will wake t" (task_exec.go): there is one.
ExecIsWoken ==
  \A t \in Tasks : At(t, "execstop") => Cardinality(LiveTasks(task, Group[t])) > 1
=============================================================================
