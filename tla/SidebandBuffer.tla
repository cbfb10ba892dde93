--------------------------- MODULE SidebandBuffer ---------------------------
(***************************************************************************)
(* The sideband buffers of the kernel module (sideband_tracer.c).  A hook   *)
(* that has something to say about a task logs a message in the buffer of  *)
(* the CPU it runs on: a test, a copy and an addition that nothing makes    *)
(* one.  A writer is a context that may be in the middle of a message: a    *)
(* task in a hook, which can be preempted there, or the interrupt that      *)
(* logs INIT on every CPU.                                                 *)
(*                                                                         *)
(* With ring_buffer_tracing a CPU has two buffers; the one that passes the *)
(* trigger is left as it is and the other one is started anew.             *)
(*                                                                         *)
(* A buffer is an array of cells: the version string is one cell, a message *)
(* is as many as it is long.                                               *)
(***************************************************************************)
EXTENDS Integers, Sequences

CONSTANTS
  Cpu,
  Writer,        \* contexts that log messages
  Task,          \* those of them that may go on on another CPU
  SizeOf,        \* the length of each one's messages
  BufSize,       \* sideband_bufsize
  Trigger,       \* sideband_switch_trigger
  MemSize,       \* a buffer and what the model has of the memory behind it
  MaxMessages,   \* bound: messages
  MaxTime,       \* bound: readings of the timestamp counter
  MaxStarts,     \* bound: recordings
  None

ASSUME SidebandAssumption ==
  /\ Task \subseteq Writer
  /\ SizeOf \in [Writer -> Nat \ {0}]
  /\ BufSize \in Nat /\ MemSize \in Nat /\ MemSize >= BufSize
  /\ Trigger \in 2 .. BufSize
  \* config.h: a message is far shorter than what a buffer has left at the trigger
  /\ \A w \in Writer : Trigger - 1 + SizeOf[w] < BufSize
  /\ MaxMessages \in Nat /\ MaxTime \in Nat /\ MaxStarts \in Nat
  /\ None \notin Writer \cup Cpu

VARIABLES
  ring,          \* ring_buffer_tracing
  active, offset, sb_buf,       \* sb_info of each CPU
  trace_active,
  toReset,       \* CPUs sb_reset has still to clear
  starts,        \* recordings so far
  time,          \* the timestamp counter
  sent,          \* the messages there are, in the order of their timestamps
  step,          \* where each writer is: idle, stamped, checked or copied
  msg,           \* the message it is about to log, an index of sent
  place,         \* what it has read: the CPU whose buffers it uses, the buffer
                 \* and the offset there
  logged,        \* per CPU, the messages logged since the start while ...
  intact         \* ... no writer or reset came between another one's steps

infoVars == <<active, offset, sb_buf>>
writerVars == <<step, msg, place>>
historyVars == <<logged, intact>>
vars == <<ring, infoVars, trace_active, toReset, starts, time, sent, writerVars, historyVars>>

Buffers == {0, 1}
Memory == 0 .. MemSize
Zero == [part |-> 0, of |-> 0]
Version == [part |-> 0, of |-> 1]
Cell(m, k) == [part |-> k, of |-> m]
IsHead(cell) == cell.part = 1
Length(m) == sent[m].size
Nowhere == [cpu |-> None, buf |-> 0, pos |-> 0]

Other(c) == 1 - active[c]
Less(m, n) == IF m < n THEN m ELSE n

\* sb_init
Init ==
  /\ ring \in BOOLEAN
  /\ active = [c \in Cpu |-> 0]
  /\ offset = [c \in Cpu |-> [b \in Buffers |-> 0]]
  /\ sb_buf = [c \in Cpu |-> [b \in Buffers |-> [i \in Memory |-> Zero]]]
  /\ trace_active = FALSE
  /\ toReset = {}
  /\ starts = 0
  /\ time = 0
  /\ sent = <<>>
  /\ step = [w \in Writer |-> "idle"]
  /\ msg = [w \in Writer |-> 0]
  /\ place = [w \in Writer |-> Nowhere]
  /\ logged = [c \in Cpu |-> <<>>]
  /\ intact = [c \in Cpu |-> TRUE]

\* A writer is between its test and its addition on c's buffers.
Within(c) == \E w \in Writer : step[w] \in {"checked", "copied"} /\ place[w].cpu = c

-----------------------------------------------------------------------------
(* Start and stop *)

\* sat_start_tracing: first of all the buffers are cleared,
Start ==
  /\ ~trace_active /\ toReset = {}
  /\ starts < MaxStarts
  /\ starts' = starts + 1
  /\ toReset' = Cpu
  /\ UNCHANGED <<ring, infoVars, trace_active, time, sent, writerVars, historyVars>>

\* Mutant: the offset is kept.
OffsetKept(c, b) == offset[c][b]
OffsetReset(c, b) == 1

\* sb_buffer_count
InUse == IF ring THEN Buffers ELSE {0}

\* sb_reset, one CPU
SbReset(c) ==
  /\ c \in toReset
  /\ toReset' = toReset \ {c}
  /\ trace_active' = (toReset = {c})
  /\ active' = [active EXCEPT ![c] = 0]
  /\ sb_buf' = [sb_buf EXCEPT ![c] =
       [b \in Buffers |-> IF b \in InUse
                          THEN [i \in Memory |-> IF i = 0 THEN Version ELSE Zero]
                          ELSE @[b]]]
  /\ offset' = [offset EXCEPT ![c] = [b \in Buffers |-> IF b \in InUse THEN OffsetReset(c, b) ELSE @[b]]]
  /\ logged' = [logged EXCEPT ![c] = <<>>]
  /\ intact' = [intact EXCEPT ![c] = ~Within(c)]
  /\ UNCHANGED <<ring, starts, time, sent, writerVars>>

\* sat_stop_tracing.  A message on its way still comes.
Stop ==
  /\ trace_active
  /\ trace_active' = FALSE
  /\ UNCHANGED <<ring, infoVars, toReset, starts, time, sent, writerVars, historyVars>>

-----------------------------------------------------------------------------
(* Messages *)

Goes(w, from, to) == step[w] = from /\ step' = [step EXCEPT ![w] = to]

\* send_sat_msg: the message gets its timestamp and the number of its CPU,
\* unless nothing is recorded.
SendSatMsg(w, c) ==
  /\ Goes(w, "idle", "stamped")
  /\ trace_active
  /\ Len(sent) < MaxMessages
  /\ time' \in time .. Less(time + 1, MaxTime)
  /\ sent' = Append(sent, [tscp |-> time', cpu |-> c, size |-> SizeOf[w]])
  /\ msg' = [msg EXCEPT ![w] = Len(sent')]
  /\ UNCHANGED <<ring, infoVars, trace_active, toReset, starts, place, historyVars>>

\* Where a writer is by now: a task may have come to another CPU.
MayBeOn(w, c) == w \in Task \/ sent[msg[w]].cpu = c

\* Mutant: a message that just does not fit passes.
FitsOneMore(c, n) == offset[c][active[c]] + n <= BufSize + 1
Fits(c, n) == offset[c][active[c]] + n < BufSize

\* sb_trace, on the buffers of the CPU it is on by now.  The message must fit,
Check(w, c) ==
  /\ Goes(w, "stamped", "checked")
  /\ MayBeOn(w, c)
  /\ Fits(c, Length(msg[w]))
  /\ place' = [place EXCEPT ![w] = [cpu |-> c, buf |-> active[c], pos |-> offset[c][active[c]]]]
  /\ intact' = [intact EXCEPT ![c] = @ /\ ~Within(c)]
  /\ UNCHANGED <<ring, infoVars, trace_active, toReset, starts, time, sent, msg, logged>>

\* or is dropped.
Drop(w, c) ==
  /\ Goes(w, "stamped", "idle")
  /\ MayBeOn(w, c)
  /\ ~Fits(c, Length(msg[w]))
  /\ msg' = [msg EXCEPT ![w] = 0]
  /\ UNCHANGED <<ring, infoVars, trace_active, toReset, starts, time, sent, place, historyVars>>

\* It is copied to the end of the active buffer; the compiler may have kept
\* where that was or read it again.
Copy(w) ==
  LET c == place[w].cpu
      n == Length(msg[w])
  IN  /\ Goes(w, "checked", "copied")
      /\ \E p \in {place[w], [cpu |-> c, buf |-> active[c], pos |-> offset[c][active[c]]]} :
           sb_buf' = [sb_buf EXCEPT ![c][p.buf] =
             [i \in Memory |-> IF i \in p.pos .. p.pos + n - 1
                               THEN Cell(msg[w], i - p.pos + 1)
                               ELSE @[i]]]
      /\ UNCHANGED <<ring, active, offset, trace_active, toReset, starts, time, sent, msg, place,
                     historyVars>>

\* Mutant: the new buffer is gone on with where it was left.
Continued(offsets, b) == offsets
Anew(offsets, b) == [offsets EXCEPT ![b] = 0]

OtherOf(b) == 1 - b

\* The buffer is that much longer.  A ring that has passed its trigger goes on
\* with the other buffer.
Add(w) ==
  LET c == place[w].cpu
      longer == [offset[c] EXCEPT ![active[c]] = @ + Length(msg[w])]
      switch == ring /\ longer[active[c]] >= Trigger
  IN  /\ Goes(w, "copied", "idle")
      /\ active' = [active EXCEPT ![c] = IF switch THEN OtherOf(active[c]) ELSE @]
      /\ offset' = [offset EXCEPT ![c] = IF switch THEN Anew(longer, OtherOf(active[c])) ELSE longer]
      /\ logged' = [logged EXCEPT ![c] = IF intact[c] THEN Append(@, msg[w]) ELSE @]
      /\ msg' = [msg EXCEPT ![w] = 0]
      /\ place' = [place EXCEPT ![w] = Nowhere]
      /\ UNCHANGED <<ring, sb_buf, trace_active, toReset, starts, time, sent, intact>>

Next ==
  \/ Start
  \/ \E c \in Cpu : SbReset(c)
  \/ Stop
  \/ \E w \in Writer :
       \/ \E c \in Cpu : SendSatMsg(w, c) \/ Check(w, c) \/ Drop(w, c)
       \/ Copy(w)
       \/ Add(w)

Spec == Init /\ [][Next]_vars

-----------------------------------------------------------------------------
(* The reader *)

Cells(c, b, from, n) == [i \in 1 .. n |-> sb_buf[c][b][from + i - 1]]

TotalSize(c) == offset[c][0] + offset[c][1]

\* Mutant: the part of the older buffer that was read before is read again.
FromTheStart(c, start) == 0
InOlder(c, start) == start

\* get_sideband_data: size cells from start on, the older buffer before the
\* active one
GetSidebandData(c, start, size) ==
  LET old == offset[c][Other(c)]
      new == offset[c][active[c]]
  IN  IF old > start
      THEN LET k == Less(old - start, size)
           IN  Cells(c, Other(c), InOlder(c, start), k)
                 \o Cells(c, active[c], 0, Less(size - k, new))
      ELSE Cells(c, active[c], start - old, Less(size, new - (start - old)))

\* read_sideband_data_fop: read(2) of count cells at ppos
Read(c, ppos, count) ==
  SubSeq(GetSidebandData(c, ppos, count), 1, Less(count, TotalSize(c) - ppos))

\* The file of a CPU as a reader gets it that asks for count cells at a time.
File(c, count) ==
  LET got[i \in 0 .. TotalSize(c)] ==
        IF i = 0 THEN <<>> ELSE got[i - 1] \o Read(c, Len(got[i - 1]), count)
  IN  got[TotalSize(c)]

\* What a parser (satparser.py, sideband_parser) takes messages from: a version
\* string may come first, then each message says how long it is.  It stops at
\* anything else, and at a message that the file does not have the whole of.  A
\* message another one was copied into is read as "torn".
Torn == 0
Whole(file, at, m) == \A j \in 1 .. Length(m) : file[at + j - 1] = Cell(m, j)
ParseMessage(file, state) ==
  LET at == state.at
      m == file[at].of
  IN  IF at \in 1 .. Len(file) /\ IsHead(file[at]) /\ at + Length(m) <= Len(file) + 1
      THEN [at |-> at + Length(m),
            found |-> Append(state.found, IF Whole(file, at, m) THEN m ELSE Torn)]
      ELSE state

\* parse: how far it comes and what it finds on the way
ParsedTo(file) ==
  LET versions == IF file # <<>> /\ file[1] = Version THEN 1 ELSE 0
      state[i \in 0 .. Len(file)] ==
        IF i = 0 THEN [at |-> versions + 1, found |-> <<>>]
        ELSE ParseMessage(file, state[i - 1])
  IN  state[Len(file)]

Parsed(file) == ParsedTo(file).found

\* How parse comes to its end: at that of the file, or at something that is no
\* length of a message -- nothing, or a version string.  A message that is longer
\* than what is left of the file raises an exception, a torn one may.  In the
\* middle of a message anything may be read as a length.
Endings(file) ==
  LET parsed == ParsedTo(file)
      torn == \E i \in DOMAIN parsed.found : parsed.found[i] = Torn
      over == parsed.at > Len(file)
  IN  IF ~over /\ IsHead(file[parsed.at]) THEN {"raises"}
      ELSE IF ~torn /\ (over \/ file[parsed.at] \in {Zero, Version}) THEN {"ends"}
      ELSE {"ends", "raises"}

-----------------------------------------------------------------------------
(* Properties *)

TypeOK ==
  /\ ring \in BOOLEAN
  /\ active \in [Cpu -> Buffers]
  /\ offset \in [Cpu -> [Buffers -> Memory]]
  /\ DOMAIN sb_buf = Cpu
  /\ trace_active \in BOOLEAN
  /\ toReset \in SUBSET Cpu
  /\ starts \in 0 .. MaxStarts
  /\ time \in 0 .. MaxTime
  /\ sent \in Seq([tscp : 0 .. MaxTime, cpu : Cpu, size : Nat])
  /\ step \in [Writer -> {"idle", "stamped", "checked", "copied"}]
  /\ msg \in [Writer -> 0 .. MaxMessages]
  /\ place \in [Writer -> [cpu : Cpu \cup {None}, buf : Buffers, pos : Memory]]
  /\ logged \in [Cpu -> Seq(1 .. MaxMessages)]
  /\ intact \in [Cpu -> BOOLEAN]

\* A CPU whose buffers this recording has cleared.
Cleared(c) == starts > 0 /\ c \notin toReset

\* As long as no writer came between the steps of another one, sb_trace stays
\* inside the buffer with one test for all that follows: where the message was
\* tested is where it is copied to and added.
NoOverrun ==
  \A c \in Cpu : intact[c] =>
    /\ \A b \in Buffers : offset[c][b] < BufSize
    /\ \A w \in Writer : step[w] \in {"checked", "copied"} /\ place[w].cpu = c =>
         /\ place[w].buf = active[c]
         /\ place[w].pos = offset[c][active[c]]
         /\ place[w].pos + Length(msg[w]) < BufSize

\* A reader finds every message of a CPU in the order they were logged in, and
\* each as it was sent, up to the first two that came between each other: what
\* was logged before is not hurt by what happens later, in this recording or by
\* a message left over from the one before.
StreamIsLog ==
  \A c \in Cpu : ~ring /\ Cleared(c) =>
    LET messages == Parsed(File(c, 2))
    IN  IF intact[c] THEN messages = logged[c]
        ELSE logged[c] = SubSeq(messages, 1, Less(Len(logged[c]), Len(messages)))

\* The cells of the messages of a log.
LogCells(log) ==
  LET cells[i \in 0 .. Len(log)] ==
        IF i = 0 THEN <<>>
        ELSE cells[i - 1] \o [k \in 1 .. Length(log[i]) |-> Cell(log[i], k)]
  IN  cells[Len(log)]

\* A ring loses nothing of what came last: the two buffers hold, in one piece
\* and in order, the latest messages of the CPU, all of them or at least as many
\* as bring a buffer to its trigger.  Each may begin with the version string.
RingKeepsLatest ==
  \A c \in Cpu : ring /\ Cleared(c) /\ intact[c] =>
    LET log == logged[c]
        Part(first, last) == LogCells(SubSeq(log, first + 1, last))
        version == {<<>>, <<Version>>}
    IN  \E k \in 0 .. Len(log) : \E j \in k .. Len(log) : \E u, v \in version :
          /\ File(c, 2) = u \o Part(k, j) \o v \o Part(j, Len(log))
          /\ k = 0 \/ Len(Part(k, j)) + Len(Part(j, Len(log))) >= Trigger - 1

\* Whatever a reader asks for at a time, it gets the older buffer and then the
\* active one, each cell once.
ChunksMakeStream ==
  \A c \in Cpu, count \in 1 .. 3 : intact[c] =>
    File(c, count) = Cells(c, Other(c), 0, offset[c][Other(c)])
                       \o Cells(c, active[c], 0, offset[c][active[c]])
=============================================================================
