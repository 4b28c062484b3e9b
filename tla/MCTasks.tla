------------------------------ MODULE MCTasks -------------------------------
(***************************************************************************)
(* Instances of TaskExit and GroupStop, side by side: Init chooses which   *)
(* of the two a behaviour is of, and the other one stays as it began.      *)
(*                                                                         *)
(* TaskExit has the first task init, a parent with a thread (p, q) and a   *)
(* child with a thread (c, d); of p's thread and c's, one exists.          *)
(* GroupStop has a task that may create a second one.                      *)
(***************************************************************************)
EXTENDS TaskExit, TLC

CONSTANTS init, p, q, c, d, root, par, kid

VARIABLES part, tg, member, parent, signals, spoilt

MCTasks == {init, p, q, c, d}
MCGroup == init :> root @@ p :> par @@ q :> par @@ c :> kid @@ d :> kid
MCLeader == root :> init @@ par :> p @@ kid :> c
MCParent == init :> NoTask @@ p :> init @@ q :> init @@ c :> p @@ d :> p
MCIgnorers == {{}, {par}}
MCFamilies == {{init, p, c, d}, {init, p, q, c}}

GS == INSTANCE GroupStop WITH Tasks <- {p, q}, Tasks0 <- {p}, MaxSignals <- 3,
                              task <- member

stopVars == <<tg, member, parent, signals, spoilt>>
mcvars == <<part, vars, stopVars>>

InExit == part = "exit" /\ UNCHANGED <<part, stopVars>>
InStop == part = "stop" /\ UNCHANGED <<part, vars>>

MCInit ==
  /\ Init /\ GS!Init
  /\ \/ part = "exit"
     \/ part = "stop" /\ ignores = {} /\ ~Dead(task, q)

MCNext ==
  \/ InExit /\ Next
  \/ InStop /\ GS!Next

\* The fairness of GroupStop.
MCSpec ==
  /\ MCInit /\ [][MCNext]_mcvars
  /\ \A t \in {p, q} : WF_mcvars(InStop /\ GS!Step(t))
  /\ WF_mcvars(InStop /\ GS!Waits)

-----------------------------------------------------------------------------
\* A task that has been sent SIGKILL exits, whatever group stop it is in or
\* about to enter (GroupStop).
KilledTasksExit == GS!KilledTasksExit

\* A parent that blocks in wait4 hears of every completed stop and of every
\* continuation (GroupStop).
ParentHears == GS!ParentHears

\* A group stop under way completes or is cancelled although tasks exit or die
\* meanwhile, and those who have stopped are counted right (GroupStop).
GroupStopEnds == []GS!CountIsRight /\ GS!GroupStopEnds
=============================================================================
