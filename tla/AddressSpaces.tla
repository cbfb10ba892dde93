---------------------------- MODULE AddressSpaces ----------------------------
(***************************************************************************)
(* What the IPT model knows of the address spaces of the traced processes. *)
(*                                                                         *)
(* The kernel module's hooks send a message at every mmap, munmap and      *)
(* fork, while print_all_tasks goes through the tasks that were there      *)
(* before and sends what they have mapped; the mappings of a process       *)
(* change only under its mmap_sem, together with their message, but the    *)
(* scan does not take that lock.  sideband_collector makes lists of        *)
(* mappings over time of the messages, in their order, and a process of    *)
(* the IPT model then asks which executable an address was in at a time:   *)
(* mmappings keeps the mappings of the latest question's time in a         *)
(* range_map.                                                              *)
(*                                                                         *)
(* range_map::insert_hole erases the entry its iterator is at and then     *)
(* increments that iterator, which is undefined: InsertHole has every way  *)
(* in which the loop may go on.  It may also crash: then no lookup         *)
(* follows.                                                                *)
(*                                                                         *)
(* Messages have even times, so that there are times between them.         *)
(***************************************************************************)
EXTENDS Integers, Sequences, FiniteSets

CONSTANTS
  Pid,           \* processes
  First,         \* the task list when recording starts
  Addr,          \* pages of a process, and of the kernel's module
  ModuleAddr,    \* where the module is, in every process
  Exe,           \* target paths of executables
  NewExe,        \* those that are mapped while it records
  LenLimit,      \* the model's lengths are unsigned: 2^32 bytes, in pages
  Mapped,        \* what the first processes have mapped
  Module, Unmapped, None,
  MaxEvents,     \* bound: mmaps, munmaps, forks and execs
  MaxLookups     \* bound: lookups

ASSUME SpacesAssumption ==
  /\ First \in Seq(Pid)
  /\ Addr \subseteq Nat
  /\ ModuleAddr \in Addr
  \* the pages of a process are an interval, and the module is not among them
  /\ \A a, b \in Addr \ {ModuleAddr} : a .. b \subseteq Addr \ {ModuleAddr}
  /\ Mapped \in [Pid -> [Addr \ {ModuleAddr} -> Exe \cup {None}]]
  /\ NewExe \subseteq Exe
  /\ Module \notin Exe /\ Unmapped \notin Exe \cup {Module}
  /\ None \notin Exe \cup {Module, Unmapped} \cup Pid
  /\ LenLimit \in Nat /\ LenLimit > 1
  /\ MaxEvents \in Nat /\ MaxLookups \in Nat

VARIABLES
  phase,         \* modules, scan, run or lookup
  events,        \* mmaps, munmaps, forks and execs so far
  time,          \* of the latest message or exec
  tasks,         \* the kernel's task list, new tasks last
  mm,            \* what each process has mapped
  child,         \* per process, the child it is about to announce
  scanTask, scanAddr,           \* print_all_tasks: the task it is at, the vma
  scanVma,       \* the executable it has read there and not sent yet
  pids,          \* the processes the collector knows
  mmaps_over_time,              \* and their mappings
  the_process,   \* the process that is looked up
  ranges,        \* its current_mmaps_
  slot,          \* its current_tsc_slot_
  lookups,       \* lookups so far
  asked,         \* the time of the latest one
  forward,       \* no lookup went back in time
  straight,      \* no insert into ranges met more than one of them
  mmAt,          \* mm after each time
  misled,        \* processes the collector was told something wrong of: their
                 \* mappings, or their parent's, changed in the middle of the scan or
                 \* of a fork, a munmap failed, or a length was cut
  scanEnd        \* when the scan ended

kernelVars == <<phase, events, time, tasks, mm, child>>
scanVars == <<scanTask, scanAddr, scanVma, scanEnd>>
modelVars == <<pids, mmaps_over_time>>
lookupVars == <<the_process, ranges, slot, lookups, asked, forward, straight>>
vars == <<kernelVars, scanVars, modelVars, lookupVars, mmAt, misled>>

UserAddr == Addr \ {ModuleAddr}
Nothing == [a \in UserAddr |-> None]
Forever == 1000
Range(start, end, id) == [start |-> start, end |-> end, id |-> id]

Init ==
  /\ phase = "modules" /\ events = 0 /\ time = 2
  /\ tasks = First
  /\ mm = [p \in Pid |-> IF \E i \in DOMAIN First : First[i] = p THEN Mapped[p] ELSE Nothing]
  /\ child = [p \in Pid |-> None]
  /\ scanTask = 1 /\ scanAddr = 0 /\ scanVma = None /\ scanEnd = 0
  /\ pids = {}
  /\ mmaps_over_time = [p \in Pid |-> {}]
  /\ the_process = None /\ ranges = {} /\ slot = <<0, 0>> /\ asked = 0 /\ forward = TRUE
  /\ straight = TRUE /\ lookups = 0
  /\ mmAt = [t \in {2} |-> mm]
  /\ misled = {}

-----------------------------------------------------------------------------
(* sideband_collector and mmappings *)

Known(p) == p \in pids

\* process::process: the modules, by their number for a time
ModuleMaps == {[tsc |-> 1, start |-> ModuleAddr, end |-> ModuleAddr + 1, exe |-> Module]}

\* Where a mapping ends whose length is held in an unsigned.
CutEnd(start, end) == start + ((end - start) % LenLimit)

\* mmappings::insert: of two mappings of one time the first one stays.
Inserted(list, tsc, start, end, exe) ==
  IF \E m \in list : m.tsc = tsc THEN list
  ELSE list \cup {[tsc |-> tsc, start |-> start, end |-> CutEnd(start, end), exe |-> exe]}

\* mmap, SAT_ORIGIN_INIT
InitMmap(p, tsc, start, end, exe) ==
  /\ pids' = pids \cup {p}
  /\ mmaps_over_time' = [mmaps_over_time EXCEPT ![p] =
       Inserted(IF Known(p) THEN @ ELSE ModuleMaps, tsc, start, end, exe)]

\* mmap, SAT_ORIGIN_MMAP, and munmap: a process not known is ignored.
Mmap(p, tsc, start, end, exe) ==
  /\ mmaps_over_time' = [mmaps_over_time EXCEPT ![p] =
       IF Known(p) THEN Inserted(@, tsc, start, end, exe) ELSE @]
  /\ UNCHANGED pids

\* process, SAT_ORIGIN_INIT
InitProcess(p) ==
  /\ pids' = pids \cup {p}
  /\ mmaps_over_time' = [mmaps_over_time EXCEPT ![p] = IF Known(p) THEN @ ELSE ModuleMaps]

\* process, SAT_ORIGIN_FORK: a parent not known is trouble, a child that is
\* known stays as it is.
ForkProcess(p, pp) ==
  IF Known(pp) /\ ~Known(p)
  THEN /\ pids' = pids \cup {p}
       /\ mmaps_over_time' = [mmaps_over_time EXCEPT ![p] = mmaps_over_time[pp]]
  ELSE UNCHANGED modelVars

-----------------------------------------------------------------------------
(* The kernel and its hooks *)

Recording == phase \in {"scan", "run"}
Alive == {tasks[i] : i \in DOMAIN tasks}

\* The mappings of p are mm from a new point in time on.
MappedNow(p, maps) ==
  /\ mm' = [mm EXCEPT ![p] = maps]
  /\ time' = time + 2
  /\ mmAt' = [t \in DOMAIN mmAt \cup {time'} |-> IF t = time' THEN mm' ELSE mmAt[t]]

\* The scan is in the middle of p, or a fork of p is not announced yet.
Races(p) ==
  (IF phase = "scan" /\ scanTask <= Len(tasks) /\ tasks[scanTask] = p
      /\ (scanAddr > 0 \/ scanVma # None) THEN {p} ELSE {})
    \cup (IF child[p] # None THEN {child[p]} ELSE {})

Event(p) ==
  /\ Recording /\ p \in Alive
  /\ events < MaxEvents
  /\ events' = events + 1
  /\ UNCHANGED phase

\* A process is in the middle of one fork at a time, and does nothing before it
\* is announced itself.
Announced(p) == \A q \in Pid : child[q] # p

\* The message does not say what happened.
Misleads(p, start, end, done) == IF done /\ end - start < LenLimit THEN {} ELSE {p}

\* mmap_wrapper: the function, then its message
MmapCalled(p, start, end, exe) ==
  /\ Event(p) /\ Announced(p)
  /\ \A a \in start .. end - 1 : mm[p][a] = None
  /\ MappedNow(p, [a \in UserAddr |-> IF a \in start .. end - 1 THEN exe ELSE mm[p][a]])
  /\ Mmap(p, time', start, end, exe)
  /\ misled' = misled \cup Races(p) \cup Misleads(p, start, end, TRUE)
  /\ UNCHANGED <<tasks, child, scanVars, lookupVars>>

\* do_munmap_wrapper: the function, and its message whether that has done it or
\* failed
MunmapCalled(p, start, end, done) ==
  /\ Event(p) /\ Announced(p)
  /\ MappedNow(p, [a \in UserAddr |-> IF done /\ a \in start .. end - 1 THEN None ELSE mm[p][a]])
  /\ Mmap(p, time', start, end, Unmapped)
  /\ misled' = misled \cup Races(p) \cup Misleads(p, start, end, done)
  /\ UNCHANGED <<tasks, child, scanVars, lookupVars>>

\* exec() begins a new address space, of which no hook tells.
Exec(p) ==
  /\ Event(p) /\ Announced(p)
  /\ MappedNow(p, Nothing)
  /\ misled' = misled \cup Races(p)
  /\ UNCHANGED <<tasks, child, scanVars, modelVars, lookupVars>>

\* fork() copies the mappings and puts the child in the list,
Fork(p, q) ==
  /\ Event(p) /\ Announced(p) /\ child[p] = None
  /\ q \notin Alive
  /\ tasks' = Append(tasks, q)
  /\ MappedNow(q, mm[p])
  /\ child' = [child EXCEPT ![p] = q]
  /\ misled' = IF p \in misled THEN misled \cup {q} ELSE misled
  /\ UNCHANGED <<scanVars, modelVars, lookupVars>>

\* and then calls task_fork_fair_wrapper.
TaskForkFairWrapper(p) ==
  /\ Recording /\ child[p] # None
  /\ ForkProcess(child[p], p)
  /\ time' = time + 2
  /\ mmAt' = [t \in DOMAIN mmAt \cup {time'} |-> IF t = time' THEN mm ELSE mmAt[t]]
  /\ child' = [child EXCEPT ![p] = None]
  /\ UNCHANGED <<phase, events, tasks, mm, scanVars, lookupVars, misled>>

-----------------------------------------------------------------------------
(* print_all_tasks *)

\* sb_buffer_init: the list of modules comes before the tasks.
SendModuleList ==
  /\ phase = "modules"
  /\ phase' = "scan"
  /\ UNCHANGED <<events, time, tasks, mm, child, scanVars, modelVars, lookupVars, mmAt, misled>>

\* Mutant: only the tasks that were there at the start.
FirstTask(i) == i <= Len(First)
IsTask(i) == i <= Len(tasks)

Scanned == tasks[scanTask]
AtVma(a) == scanVma = None /\ a >= scanAddr /\ mm[Scanned][a] # None

\* print_all_task_info: the next vma of the task, in the order of addresses, ...
ReadVma ==
  /\ phase = "scan" /\ IsTask(scanTask)
  /\ \E a \in UserAddr :
       /\ AtVma(a) /\ \A b \in UserAddr : AtVma(b) => a <= b
       /\ scanAddr' = a
       /\ scanVma' = mm[Scanned][a]
  /\ UNCHANGED <<kernelVars, scanTask, scanEnd, modelVars, lookupVars, mmAt, misled>>

\* ... is sent,
SendVma ==
  /\ phase = "scan" /\ scanVma # None
  /\ time' = time + 2
  /\ mmAt' = [t \in DOMAIN mmAt \cup {time'} |-> IF t = time' THEN mm ELSE mmAt[t]]
  /\ InitMmap(Scanned, time', scanAddr, scanAddr + 1, scanVma)
  /\ scanVma' = None
  /\ scanAddr' = scanAddr + 1
  /\ UNCHANGED <<phase, events, tasks, mm, child, scanTask, scanEnd, lookupVars, misled>>

\* and at last the process.
SendProcess ==
  /\ phase = "scan" /\ IsTask(scanTask)
  /\ scanVma = None /\ ~\E a \in UserAddr : AtVma(a)
  /\ InitProcess(Scanned)
  /\ scanTask' = scanTask + 1
  /\ scanAddr' = 0
  /\ UNCHANGED <<kernelVars, scanVma, scanEnd, lookupVars, mmAt, misled>>

ScanDone ==
  /\ phase = "scan" /\ ~IsTask(scanTask)
  /\ phase' = "run"
  /\ scanEnd' = time
  /\ UNCHANGED <<events, time, tasks, mm, child, scanTask, scanAddr, scanVma, modelVars, lookupVars,
                 mmAt, misled>>

-----------------------------------------------------------------------------
(* range_map *)

\* The entries of a std::map are in the order of their keys, starts and ends, and
\* no key has two.
SameKey(r, s) == r.start = s.start /\ r.end = s.end
Before(r, s) == r.start < s.start \/ (r.start = s.start /\ r.end < s.end)

Meets(r, start, end) == start < r.end /\ end > r.start
Met(map, start, end) == {r \in map : Meets(r, start, end)}

\* What is left of a range that meets the hole
Left(r, start, end) ==
  (IF r.start < start THEN {Range(r.start, start, r.id)} ELSE {})
    \cup (IF r.end > end THEN {Range(end, r.end, r.id)} ELSE {})

\* The maps there may be when, in any order, what is left of the ranges of gone
\* has been put and they have been erased.
Holed(map, gone, start, end) ==
  LET left == {q \in UNION {Left(r, start, end) : r \in gone} : \A s \in map : ~SameKey(q, s)}
  IN  {(map \ gone) \cup kept :
         kept \in {k \in SUBSET left :
           \A q \in left : \E r \in k : SameKey(q, r) /\ \A s \in k : SameKey(q, s) => s = r}}

\* insert_hole: the first of the ranges that meet the hole is erased, and then the
\* iterator that was at it is incremented: the loop may go on at any other one,
\* with each of which this happens again, or be at the end.
InsertHole(map, start, end) ==
  LET met == Met(map, start, end)
      first == {r \in met : \A s \in met : s = r \/ Before(r, s)}
  IN  UNION {Holed(map, first \cup others, start, end) : others \in SUBSET met}

\* range_map::insert
Put(map, r) == IF \E s \in map : SameKey(s, r) THEN map ELSE map \cup {r}
InsertRange(map, start, end, id) ==
  {Put(holed, Range(start, end, id)) : holed \in InsertHole(map, start, end)}

Lowest(rs) == CHOOSE r \in rs : \A s \in rs : ~Before(s, r)
Highest(rs) == CHOOSE r \in rs : \A s \in rs : ~Before(r, s)

\* Mutant: that the range reaches as far is not looked at.
LastBefore(map, at) ==
  LET before == {r \in map : r.start <= at}
  IN  IF before = {} THEN None ELSE Highest(before).id
\* range_map::find: the first range that starts at the address, or else the last
\* one that starts before it, if that reaches as far.
FindRange(map, at) ==
  LET here == {r \in map : r.start = at}
      before == {r \in map : r.start < at}
  IN  IF here # {} THEN Lowest(here).id
      ELSE IF before # {} /\ Highest(before).end > at THEN Highest(before).id
      ELSE None

-----------------------------------------------------------------------------
(* Lookups *)

\* The trace ends, and a process of the IPT model starts with one of its tasks:
\* set_tid_for_target_path_resolution.
BeginLookup(p) ==
  /\ phase = "run" /\ \A q \in Pid : child[q] = None
  /\ Known(p)
  /\ phase' = "lookup"
  /\ the_process' = p
  /\ UNCHANGED <<events, time, tasks, mm, child, scanVars, modelVars, ranges, slot, lookups, asked,
                 forward, straight, mmAt, misled>>

\* The maps an insert may make of one, and whether all inserts so far were straight
Inserts(s, m) ==
  {[ranges |-> map,
    straight |-> s.straight /\ \A q, r \in Met(s.ranges, m.start, m.end) : q = r] :
     map \in InsertRange(s.ranges, m.start, m.end, m.exe)}

\* mmappings::find, its rebuilding of current_mmaps_: all mappings before tsc are
\* put, in their order, into the map as it was.
Rebuilt(before, tsc) ==
  LET list == mmaps_over_time[the_process]
      times == {m.tsc : m \in {n \in list : n.tsc < tsc}}
      at(t) == CHOOSE m \in list : m.tsc = t
      upTo[t \in 0 .. tsc] ==
        IF t = 0 THEN {before}
        ELSE IF t \in times THEN UNION {Inserts(s, at(t)) : s \in upTo[t - 1]}
        ELSE upTo[t - 1]
  IN  upTo[tsc]

SlotOf(tsc) ==
  LET times == {m.tsc : m \in mmaps_over_time[the_process]}
      before == {t \in times : t < tsc} \cup {0}
      after == {t \in times : t >= tsc} \cup {Forever}
  IN  <<CHOOSE t \in before : \A u \in before : u <= t, CHOOSE t \in after : \A u \in after : t <= u>>

\* Mutant: the slot's end is not looked at.
FromSlot(tsc) == slot[2] > 0 /\ tsc >= slot[1]
InSlot(tsc) == tsc >= slot[1] /\ tsc < slot[2]

\* mmappings::find, whatever the address
GetMmap(tsc) ==
  /\ phase = "lookup" /\ lookups < MaxLookups
  /\ lookups' = lookups + 1
  /\ IF InSlot(tsc) THEN UNCHANGED <<ranges, straight, slot>>
     ELSE /\ \E after \in Rebuilt([ranges |-> ranges, straight |-> straight], tsc) :
               ranges' = after.ranges /\ straight' = after.straight
          /\ slot' = SlotOf(tsc)
  /\ asked' = tsc
  /\ forward' = (forward /\ tsc >= asked)
  /\ UNCHANGED <<kernelVars, scanVars, modelVars, the_process, mmAt, misled>>

Next ==
  \/ SendModuleList \/ ReadVma \/ SendVma \/ SendProcess \/ ScanDone
  \/ \E p \in Pid :
       \/ \E start, last \in UserAddr :
            start <= last /\ (\/ \E exe \in NewExe : MmapCalled(p, start, last + 1, exe)
                              \/ \E done \in BOOLEAN : MunmapCalled(p, start, last + 1, done))
       \/ Exec(p)
       \/ \E q \in Pid : Fork(p, q)
       \/ TaskForkFairWrapper(p)
       \/ BeginLookup(p)
  \/ \E tsc \in scanEnd + 1 .. time + 1 : GetMmap(tsc)

Spec == Init /\ [][Next]_vars

-----------------------------------------------------------------------------
(* Properties *)

Target == Exe \cup {Module, Unmapped}
Mapping == [tsc : 0 .. time, start : Addr, end : Nat, exe : Target]

TypeOK ==
  /\ phase \in {"modules", "scan", "run", "lookup"}
  /\ events \in 0 .. MaxEvents
  /\ time \in Nat /\ asked \in Nat /\ lookups \in 0 .. MaxLookups /\ scanEnd \in 0 .. time
  /\ tasks \in Seq(Pid)
  /\ mm \in [Pid -> [UserAddr -> Exe \cup {None}]]
  /\ child \in [Pid -> Pid \cup {None}]
  /\ scanTask \in Nat /\ scanAddr \in Nat /\ scanVma \in Exe \cup {None}
  /\ pids \in SUBSET Pid
  /\ \A p \in Pid : mmaps_over_time[p] \subseteq Mapping
  /\ the_process \in Pid \cup {None}
  /\ \A r \in ranges : r.start \in Addr /\ r.end \in Nat /\ r.id \in Target
  /\ slot \in Nat \X Nat
  /\ forward \in BOOLEAN /\ straight \in BOOLEAN
  /\ misled \in SUBSET Pid

\* When the scan is over the collector knows every process there is, or will
\* with the message its parent is about to send: whether it was there before,
\* was forked while tasks were scanned, by a parent known already or not yet, or
\* came into the list when the scan had ended.
AllKnown ==
  phase = "run" =>
    \A p \in Alive : Known(p) \/ \E q \in pids : child[q] = p

\* What was mapped at a time.
MappedAt(p, tsc) ==
  LET times == {t \in DOMAIN mmAt : t < tsc}
  IN  mmAt[CHOOSE t \in times : \A u \in times : u <= t][p]

FoundAsMapped(p) ==
  /\ FindRange(ranges, ModuleAddr) = Module
  /\ \A a \in UserAddr :
       MappedAt(p, asked)[a] # None => FindRange(ranges, a) = MappedAt(p, asked)[a]

\* A process that is looked at in the order of time finds, at every address that
\* was mapped, the executable that was mapped there then: through the mappings
\* it had before the recording, those it inherited, mapped, unmapped and mapped
\* anew, and whatever was kept of an earlier lookup.  Left out are processes the
\* collector was told something wrong of, and maps of which an insert met more
\* than one range: then the loop of insert_hole may have left one in that hides it
\* (TLC finds this when straight is not asked for).
MappedIsFound ==
  phase = "lookup" /\ asked > 0 /\ forward /\ straight /\ the_process \notin misled =>
    FoundAsMapped(the_process)

\* No lookup finds an executable at an address where it never was: not with
\* ranges that insert_hole has left in, when asked for an earlier time again,
\* after a munmap that failed or a length that was cut, nor of a process that
\* changed its mappings just while it was scanned.
FoundWasMapped ==
  \A a \in UserAddr : FindRange(ranges, a) \in Exe =>
    \E t \in DOMAIN mmAt, p \in Pid : mmAt[t][p][a] = FindRange(ranges, a)
=============================================================================
