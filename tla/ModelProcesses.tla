--------------------------- MODULE ModelProcesses ---------------------------
(***************************************************************************)
(* main of sat-ipt-model: a process is forked for each task of the trace,  *)
(* at most max_processes at a time; the processes share the symbol table   *)
(* files (SymbolTables).  The caller reads models and files once main has  *)
(* returned.                                                               *)
(***************************************************************************)
EXTENDS SymbolTables

CONSTANTS
  tids,          \* tids_in_decreasing_order_of_trace_size(), a fixed order
  max_processes

ASSUME PoolAssumption ==
  /\ IsFiniteSet(Task)
  /\ tids \in [1 .. Cardinality(Task) -> Task]
  /\ {tids[i] : i \in DOMAIN tids} = Task
  /\ max_processes \in Nat

VARIABLES
  parent,        \* where main is: forking, reaping, in the last loop, done
  child,         \* what has become of each task
  running        \* main's count of processes

poolVars == <<parent, child, running>>
allVars == <<vars, poolVars>>

PoolInit ==
  /\ Init
  /\ parent = "fork"
  /\ child = [t \in Task |-> "unborn"]
  /\ running = 0

\* Forked and not waited for; and of these, those that have ended.
Children == {t \in Task : child[t] = "forked"}
Zombies == {t \in Children : step[t] = "gone"}

-----------------------------------------------------------------------------
(* main *)

\* The loop is at task t.
AtTask(t) ==
  /\ parent = "fork"
  /\ \E i \in DOMAIN tids :
       /\ tids[i] = t
       /\ \A j \in DOMAIN tids : child[tids[j]] = "unborn" <=> j >= i

\* fork() for the next task.
Fork(t) ==
  /\ AtTask(t)
  /\ child' = [child EXCEPT ![t] = "forked"]
  /\ running' = running + 1
  /\ parent' = "reap"
  /\ UNCHANGED vars

\* fork() fails: on to the next task.
ForkFails(t) ==
  /\ AtTask(t)
  /\ child' = [child EXCEPT ![t] = "skipped"]
  /\ UNCHANGED <<vars, parent, running>>

WaitFor(t) ==
  /\ t \in Zombies
  /\ child' = [child EXCEPT ![t] = "waited"]
  /\ running' = running - 1
  /\ UNCHANGED <<vars, parent>>

\* waitpid() with or without WNOHANG.  Mutant: off by one.
WNoHangAtMax == running <= max_processes
WNoHang == running < max_processes

\* waitpid() reaps a child...
Reap == parent = "reap" /\ \E t \in Task : WaitFor(t)

\* ... or returns without one: at once, or when there are none.
ReapNone ==
  /\ parent = "reap"
  /\ Zombies = {}
  /\ WNoHang \/ Children = {}
  /\ parent' = "fork"
  /\ UNCHANGED <<vars, child, running>>

AllForked ==
  /\ parent = "fork"
  /\ \A t \in Task : child[t] # "unborn"
  /\ parent' = "wait"
  /\ UNCHANGED <<vars, child, running>>

\* "while (running > 0)".  Mutant: the last process is not waited for.
StillRunningButOne == running > 1
StillRunning == running > 0

Wait == parent = "wait" /\ StillRunning /\ \E t \in Task : WaitFor(t)

Return ==
  /\ parent = "wait"
  /\ ~StillRunning
  /\ parent' = "done"
  /\ UNCHANGED <<vars, child, running>>

-----------------------------------------------------------------------------
\* Task t's process takes a step.
Runs(t, A) == t \in Children /\ A /\ UNCHANGED poolVars

PoolNext ==
  \/ \E t \in Task :
       \/ Fork(t)
       \/ ForkFails(t)
       \/ Runs(t, SymbolId(t))
       \/ Runs(t, EnterExecutable(t))
       \/ Runs(t, InsertLocked(t))
       \/ Runs(t, InsertFails(t))
       \/ Runs(t, FlushAndUnlock(t))
       \/ Runs(t, Finish(t))
       \/ Runs(t, Killed(t))
  \/ Reap
  \/ ReapNone
  \/ AllForked
  \/ Wait
  \/ Return

\* The system schedules main and its processes; a trace is finite, so that a
\* process ends that is between two inserts again and again.
PoolFairness ==
  /\ WF_allVars(\E t \in Task : Fork(t) \/ ForkFails(t))
  /\ WF_allVars(Reap \/ ReapNone \/ AllForked \/ Wait \/ Return)
  /\ \A t \in Task :
       /\ WF_allVars(Runs(t, InsertLocked(t)))
       /\ WF_allVars(Runs(t, FlushAndUnlock(t)))
       /\ SF_allVars(Runs(t, Finish(t)))

PoolSpec == PoolInit /\ [][PoolNext]_allVars /\ PoolFairness

-----------------------------------------------------------------------------
(* Properties *)

\* main counts its processes right whatever order they end in, and keeps the
\* bound it was given, unended or not yet waited for (0 means one).
PoolBound ==
  /\ running = Cardinality(Children)
  /\ running <= max_processes \/ running = 1

\* When main has returned no process is left that could still write a model
\* or one of the files, so the next program may read them; and a task has
\* no model only if its fork failed.
NoneLeftBehind ==
  parent = "done" =>
    \A t \in Task :
      child[t] = "skipped" \/ (child[t] = "waited" /\ step[t] = "gone")

\* main returns, also when processes are killed with a file locked.
MainReturns == <>(parent = "done")
=============================================================================
