----------------------------- MODULE TaskStreams -----------------------------
(***************************************************************************)
(* How the traces of the CPUs become traces of tasks.                      *)
(*                                                                         *)
(* The CPUs run threads and write packets: timing packets, of which the     *)
(* MTCs come from one clock for all CPUs, and at a task switch some branches *)
(* of the hook and the scheduler's TIP.  The hook's message in the sideband *)
(* has the time and the offset of the trace.  While a CPU's trace overflows *)
(* nothing is written, but messages are.                                   *)
(*                                                                         *)
(* Then ipt_collection opens the traces one after another (ipt_file), gives *)
(* each block of them to the task whose quantum it is in, cutting blocks in *)
(* which a quantum ends, and merges the blocks of the CPUs into the tasks'. *)
(***************************************************************************)
EXTENDS TraceBlocks

CONSTANTS
  CPUs,          \* number of CPUs, 0..CPUs-1
  Threads,       \* thread ids; 0 is the swapper, which each CPU has
  NoTid,
  MaxClock,      \* bound: ticks and task switches
  MaxPsbs,       \* bound: PSBs after those at the start
  MaxOverflows   \* bound: overflows

ASSUME StreamsAssumption ==
  /\ CPUs \in Nat \ {0}
  /\ Threads \subseteq Nat \ {0}
  /\ NoTid \notin (Threads \cup {0}) \X (0..CPUs - 1)
  /\ MaxClock \in 1..Forever - 1 /\ MaxPsbs \in Nat /\ MaxOverflows \in Nat

VARIABLES
  phase,         \* record, file, quantum, cut, leave, merge, append, done; exit, undefined
  clock,         \* the time stamp counter
  running,       \* the thread each CPU runs
  stream,        \* each CPU's trace; for the properties, a packet has its time and the thread that ran
  overflow,      \* is the CPU's trace overflowing?
  missed,        \* an MTC was lost in the overflow
  psbs, overflows,
  schedules,     \* the schedule messages of each CPU
  cpu,           \* the trace that is opened
  quantums,      \* its quantums that are left
  blocks,        \* per CPU, the blocks before `block'
  rest,          \* the blocks of this trace from `block' on
  files,         \* ipt_files: the CPUs whose traces have blocks left
  cursor,        \* per CPU, the number of blocks that are merged
  first, next,   \* the two traces with the lowest timestamps, or None
  tasks          \* per tid, its blocks

recordVars == <<clock, running, stream, overflow, missed, psbs, overflows, schedules>>
fileVars == <<cpu, quantums, blocks, rest>>
mergeVars == <<files, cursor, first, next, tasks>>
vars == <<phase, recordVars, fileVars, mergeVars>>

CPU == 0..CPUs - 1
None == -1

\* make_unique: thread 0 of every CPU is a task of its own.
Tid(thread, c) == <<thread, IF thread = 0 THEN c ELSE 0>>
Tids == {Tid(t, c) : t \in Threads \cup {0}, c \in CPU}

Packet(kind, at, runner) ==
  [kind |-> kind, at |-> at, tsc |-> IF kind \in {"psb", "mtc"} THEN at ELSE 0,
   runner |-> runner, lost |-> FALSE]

Init ==
  /\ phase = "record" /\ clock = 1
  /\ running = [c \in CPU |-> 0]
  /\ stream = [c \in CPU |-> <<Packet("psb", 1, 0)>>]
  /\ overflow = [c \in CPU |-> FALSE] /\ missed = [c \in CPU |-> FALSE]
  /\ psbs = 0 /\ overflows = 0
  /\ schedules = [c \in CPU |-> <<>>]
  /\ cpu = 0 /\ quantums = <<>> /\ rest = <<>>
  /\ blocks = [c \in CPU |-> <<>>]
  /\ files = {} /\ cursor = [c \in CPU |-> 0]
  /\ first = None /\ next = None
  /\ tasks = [t \in Tids |-> <<>>]

-----------------------------------------------------------------------------
(* Recording *)

Recording == phase = "record" /\ UNCHANGED <<phase, fileVars, mergeVars>>

\* The clock of the MTC packets ticks on every CPU.
Tick ==
  /\ Recording /\ clock < MaxClock
  /\ clock' = clock + 1
  /\ stream' = [c \in CPU |-> IF overflow[c] THEN stream[c]
                              ELSE Append(stream[c], Packet("mtc", clock', running[c]))]
  /\ missed' = [c \in CPU |-> missed[c] \/ overflow[c]]
  /\ UNCHANGED <<running, overflow, psbs, overflows, schedules>>

PsbPacket(c) ==
  /\ Recording /\ clock < MaxClock /\ psbs < MaxPsbs /\ ~overflow[c]
  /\ clock' = clock + 1 /\ psbs' = psbs + 1
  /\ stream' = [stream EXCEPT ![c] = Append(@, Packet("psb", clock', running[c]))]
  /\ UNCHANGED <<running, overflow, missed, overflows, schedules>>

\* send_schedule, then the switch itself
Switch(c, t) ==
  /\ Recording /\ clock < MaxClock
  /\ t # running[c]
  /\ t # 0 => \A d \in CPU : running[d] # t
  /\ clock' = clock + 1
  /\ running' = [running EXCEPT ![c] = t]
  /\ schedules' = [schedules EXCEPT ![c] =
       Append(@, Scheduling(clock', Len(stream[c]) + 1, Tid(t, c)))]
  /\ stream' = [stream EXCEPT ![c] =
       IF overflow[c] THEN @
       ELSE @ \o <<Packet("tnt", clock', running[c]), Packet("tip", clock', t)>>]
  /\ UNCHANGED <<overflow, missed, psbs, overflows>>

OverflowBegins(c) ==
  /\ Recording /\ ~overflow[c] /\ overflows < MaxOverflows
  /\ overflow' = [overflow EXCEPT ![c] = TRUE] /\ overflows' = overflows + 1
  /\ missed' = [missed EXCEPT ![c] = FALSE]
  /\ UNCHANGED <<clock, running, stream, psbs, schedules>>

\* Whether timing was lost is what tsc_heuristics_fifth_round finds out.
OverflowEnds(c) ==
  /\ Recording /\ overflow[c]
  /\ overflow' = [overflow EXCEPT ![c] = FALSE]
  /\ stream' = [stream EXCEPT ![c] =
       Append(@, [Packet("ovf", clock, running[c]) EXCEPT !.lost = missed[c]])]
  /\ UNCHANGED <<clock, running, missed, psbs, overflows, schedules>>

StopRecording ==
  /\ phase = "record" /\ clock = MaxClock
  /\ phase' = "file"
  /\ UNCHANGED <<recordVars, fileVars, mergeVars>>

-----------------------------------------------------------------------------
(* ipt_file::ipt_file *)

Trace == stream[cpu]
InitialTsc == 1
Quantum == Head(quantums)

OpenFile ==
  /\ phase = "file"
  /\ UNCHANGED <<recordVars, mergeVars, cpu, blocks>>
  /\ LET sch == Applied(Trace, schedules[cpu])
     IN IF Earmarked(sch) = {}
        THEN phase' = "exit" /\ UNCHANGED <<quantums, rest>>
        ELSE LET q == FirstQuantum(sch)
                 usable == FromQuantum(Trace, TscBlocks(Trace, cpu, NoTid), q)
             IN IF usable = <<>>
                THEN phase' = "undefined" /\ UNCHANGED <<quantums, rest>>
                ELSE /\ phase' = "quantum"
                     /\ rest' = usable
                     /\ quantums' = Quantums(sch, Head(usable).tsc[1], InitialTsc, Tid(0, cpu))

ScheduleIn ==
  /\ phase = "quantum"
  /\ phase' = "cut"
  /\ LET psb == LastPsb(Trace, Quantum.pos[1])
         tsc == TscAt(Trace, psb)
     IN blocks' = [blocks EXCEPT ![cpu] =
          Append(@, Block("in", <<Quantum.pos[1], Quantum.pos[1]>>, <<tsc, tsc>>,
                          Quantum.tid, cpu, psb))]
  /\ UNCHANGED <<recordVars, mergeVars, cpu, quantums, rest>>

\* The blocks at the head that are within the quantum are claimed; of the
\* next one, `part' is claimed too, `left' is put in its place, and the loop
\* goes on if `again'.
ClaimBlocks(part, left, again) ==
  LET n == Within(rest, Quantum)
      claimed == [i \in 1..n |-> Claimed(Trace, rest[i], Quantum.tid)]
  IN /\ blocks' = [blocks EXCEPT ![cpu] = @ \o claimed \o part]
     /\ rest' = left \o SubSeq(rest, n + 2, Len(rest))
     /\ phase' = IF again THEN "cut" ELSE "leave"
     /\ UNCHANGED <<recordVars, mergeVars, cpu, quantums>>

InQuantum == Within(rest, Quantum)
AtEnd == InQuantum = Len(rest)
Crossing == rest[InQuantum + 1]

CutNothing ==
  /\ phase = "cut"
  /\ \/ AtEnd /\ ClaimBlocks(<<>>, <<>>, FALSE)
     \/ /\ ~AtEnd
        /\ IF Quantum.has_pos THEN Crossing.pos[1] >= Quantum.pos[2]
                              ELSE Crossing.tsc[1] >= Quantum.tsc[2]
        /\ ClaimBlocks(<<>>, <<Crossing>>, FALSE)

CutAtOffset ==
  /\ phase = "cut" /\ ~AtEnd /\ Quantum.has_pos
  /\ Crossing.pos[1] < Quantum.pos[2]
  /\ ClaimBlocks(<<HeadOf(Trace, Crossing, Quantum)>>, <<TailOf(Trace, Crossing, Quantum)>>, TRUE)

\* The end of the quantum has no offset: the block is cut before and after
\* the slot that the end is in, when there is such a slot in the block;
\* otherwise one part is kept.  A first part is left at the head: the next
\* quantum claims it again.
CutAtTime ==
  /\ phase = "cut" /\ ~AtEnd /\ ~Quantum.has_pos
  /\ Crossing.tsc[1] < Quantum.tsc[2]
  /\ CASE IsBoth(Trace, Crossing, Quantum) ->
            ClaimBlocks(<<FirstPart(Trace, Crossing, Quantum)>>,
                        <<SecondPart(Trace, Crossing, Quantum)>>, TRUE)
       [] IsFirst(Trace, Crossing, Quantum) /\ ~IsBoth(Trace, Crossing, Quantum) ->
            ClaimBlocks(<<>>,
                        <<[FirstPart(Trace, Crossing, Quantum) EXCEPT !.tsc = Crossing.tsc]>>,
                        FALSE)
       [] ~IsFirst(Trace, Crossing, Quantum) /\ Looked(Trace, Crossing, Quantum) # {} ->
            ClaimBlocks(<<>>, <<SecondPart(Trace, Crossing, Quantum)>>, TRUE)
       [] Looked(Trace, Crossing, Quantum) = {} ->
            \* t is not initialised
            phase' = "undefined" /\ UNCHANGED <<recordVars, fileVars, mergeVars>>

ScheduleOut ==
  /\ phase = "leave"
  /\ quantums' = Tail(quantums)
  /\ blocks' = [blocks EXCEPT ![cpu] =
       IF Quantum.tsc[2] = Forever THEN @
       ELSE Append(@, Block("out", <<Quantum.pos[2], Quantum.pos[2]>>,
                            <<Quantum.tsc[2], Quantum.tsc[2]>>, Quantum.tid, cpu, Quantum.pos[2]))]
  /\ IF quantums' # <<>> THEN phase' = "quantum" /\ UNCHANGED <<cpu, files>>
     ELSE IF cpu = CPUs - 1
          THEN phase' = "merge" /\ files' = CPU /\ UNCHANGED cpu
          ELSE phase' = "file" /\ cpu' = cpu + 1 /\ UNCHANGED files
  /\ UNCHANGED <<recordVars, rest, cursor, first, next, tasks>>

-----------------------------------------------------------------------------
(* ipt_collection::ipt_collection *)

Current(c) == blocks[c][cursor[c] + 1]
Time(c) == Current(c).tsc[1]

\* The two files with the lowest timestamps, the earlier file of two that have
\* the same one
Lowest(fs) == IF fs = {} THEN None
              ELSE CHOOSE c \in fs : \A d \in fs : Time(c) < Time(d) \/ (Time(c) = Time(d) /\ c <= d)

PickFiles ==
  /\ phase = "merge"
  /\ IF files = {} THEN phase' = "done" /\ UNCHANGED <<first, next>>
     ELSE /\ phase' = "append"
          /\ first' = Lowest(files)
          /\ next' = Lowest(files \ {first'})
  /\ UNCHANGED <<recordVars, fileVars, files, cursor, tasks>>

\* Mutant: all the blocks of the first file are taken at once.
WholeFile(c, d) == TRUE
WhileLowest(c, d) == Time(c) <= Time(d)

AppendBlock ==
  /\ phase = "append"
  /\ UNCHANGED <<recordVars, fileVars, first, next>>
  /\ tasks' = [tasks EXCEPT ![Current(first).tid] = Append(@, Current(first))]
  /\ cursor' = [cursor EXCEPT ![first] = @ + 1]
  /\ IF cursor'[first] = Len(blocks[first])
     THEN files' = files \ {first} /\ phase' = "merge"
     ELSE /\ UNCHANGED files
          /\ phase' = IF next = None \/ WhileLowest(first, next)' THEN "append" ELSE "merge"

Terminating == phase \in {"done", "exit", "undefined"} /\ UNCHANGED vars

Next ==
  \/ Tick
  \/ \E c \in CPU : PsbPacket(c)
  \/ \E c \in CPU, t \in Threads \cup {0} : Switch(c, t)
  \/ \E c \in CPU : OverflowBegins(c)
  \/ \E c \in CPU : OverflowEnds(c)
  \/ StopRecording
  \/ OpenFile \/ ScheduleIn \/ CutNothing \/ CutAtOffset \/ CutAtTime \/ ScheduleOut
  \/ PickFiles \/ AppendBlock
  \/ Terminating

Parse == ScheduleIn \/ CutNothing \/ CutAtOffset \/ CutAtTime \/ ScheduleOut
         \/ PickFiles \/ AppendBlock

\* The recording is stopped at some time, and the parser runs; that a file is
\* opened is WF_vars(OpenFile), which is enabled just in phase file.
Spec == Init /\ [][Next]_vars
        /\ WF_vars(StopRecording) /\ []<>(phase # "file") /\ WF_vars(Parse)

-----------------------------------------------------------------------------
(* Properties *)

TracePacket == [kind : {"psb", "mtc", "tnt", "tip", "ovf"}, tsc : 0..MaxClock, at : 1..MaxClock,
                runner : Threads \cup {0}, lost : BOOLEAN]
TaskBlock == [type : {"in", "trace", "out"}, pos : Nat \X Nat, tsc : Nat \X Nat, tid : Tids,
              cpu : CPU, psb : Nat]

\* The values of the variables; every block has a tid when it is taken over.
TypeOK ==
  /\ phase \in {"record", "file", "quantum", "cut", "leave", "merge", "append",
                "done", "exit", "undefined"}
  /\ clock \in 1..MaxClock
  /\ running \in [CPU -> Threads \cup {0}]
  /\ \A c \in CPU : stream[c] \in Seq(TracePacket) /\ blocks[c] \in Seq(TaskBlock)
  /\ \A c \in CPU : cursor[c] \in 0..Len(blocks[c])
  /\ first \in CPU \cup {None} /\ next \in CPU \cup {None}
  /\ \A t \in Tids : tasks[t] \in Seq(TaskBlock)
  /\ files \subseteq CPU

Tips(c) == {p \in DOMAIN stream[c] : stream[c][p].kind = "tip"}
\* Every switch of the CPU has its TIP in the trace.
AllTips(c) ==
  \A k \in DOMAIN schedules[c] : \E p \in Tips(c) : stream[c][p].at = schedules[c][k].tsc
Switched(c, p) == \E n \in Tips(c) : n <= p

\* There is a timing packet between the first switch and p.
Settled(c, p) == \E m \in Timed(stream[c]) : m <= p /\ Switched(c, m)

\* The thread that ran when a packet of block b was written is the block's.
RanBy(b) ==
  \A p \in b.pos[1]..b.pos[2] - 1 :
    Settled(b.cpu, p) => Tid(stream[b.cpu][p].runner, b.cpu) = b.tid

\* What a block that is given to a task has is what ran as that task, on a CPU that lost no
\* scheduler TIP to an overflow, from the timing packet after its first switch on
\* (ipt_file, claiming and cutting blocks).
RunByTask ==
  \A c \in CPU : AllTips(c) =>
    \A i \in DOMAIN blocks[c] : blocks[c][i].type = "trace" => RanBy(blocks[c][i])

\* Offset p of a CPU has a time before and after it, and none lost in between.
InTime(c, p) ==
  LET s == stream[c]
      n == SlotOf(s, p)
  IN /\ n # 0
     /\ \A o \in n..p : s[o].kind = "ovf" => ~s[o].lost
     /\ \E m \in Timed(s) : m > p

\* Block b has packet p of CPU c.
Has(b, c, p) == b.type = "trace" /\ b.cpu = c /\ p \in b.pos[1]..b.pos[2] - 1

\* All of the trace whose time is known, from the first switch on, is in
\* exactly one block of one task (ipt_file's cuts and ipt_collection's merge),
\* if the CPU lost no TIP.
NothingLost ==
  phase = "done" =>
    \A c \in CPU : AllTips(c) =>
      \A p \in DOMAIN stream[c] : (Switched(c, p) /\ InTime(c, p)) =>
        \E t \in Tids : \E i \in DOMAIN tasks[t] :
          /\ Has(tasks[t][i], c, p)
          /\ \A u \in Tids : \A j \in DOMAIN tasks[u] :
               Has(tasks[u][j], c, p) => u = t /\ j = i

\* When the packets of block b were written
TimesOf(b) ==
  {stream[b.cpu][p].at : p \in {p \in b.pos[1]..b.pos[2] - 1 : Switched(b.cpu, p)}}
\* The ticks that both CPUs have
Ticks(c, d) ==
  LET ticks(e) == {stream[e][p].tsc : p \in {p \in DOMAIN stream[e] : stream[e][p].kind = "mtc"}}
  IN ticks(c) \cap ticks(d)

\* The trace of a task is in the order of time also when the task moves from
\* one CPU to another (ipt_collection's merge): no block comes after a block
\* that was written later, if both CPUs ticked in between.  What was written
\* from the tick on is later; of two blocks that both start at the same tick
\* the merge takes that of the CPU with the lower number first.
TasksInOrder ==
  \A t \in Tids : LET l == tasks[t] IN
    \A i, j \in DOMAIN l :
      (/\ i < j /\ l[i].type = "trace" /\ l[j].type = "trace"
       /\ AllTips(l[i].cpu) /\ AllTips(l[j].cpu)) =>
      ~ \E tick \in Ticks(l[i].cpu, l[j].cpu) :
          /\ TimesOf(l[i]) # {} /\ \A time \in TimesOf(l[i]) : time >= tick
          /\ TimesOf(l[j]) # {} /\ \A time \in TimesOf(l[j]) : time < tick

\* Everything is given to tasks in the end, unless the parser gives up:
\* cutting blocks ends (the loop over the blocks of ipt_file).
ParserEnds == (phase = "file") /\ (\A c \in CPU : AllTips(c)) ~> (phase \in {"done", "exit", "undefined"})
=============================================================================
