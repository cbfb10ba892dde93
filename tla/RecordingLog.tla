---------------------------- MODULE RecordingLog ----------------------------
(***************************************************************************)
(* What the trace buffers of the kernel module promise, without buffers:   *)
(* every CPU has a log; while it is open the CPU appends its next unit of  *)
(* trace to it, a log once closed does not change any more, and only an    *)
(* empty log is opened.  A timer that comes too late loses the CPU's log   *)
(* for the rest of the recording.                                          *)
(***************************************************************************)
EXTENDS Integers, Sequences

CONSTANT NCPU

VARIABLES
  log,            \* per CPU, the units recorded
  lost,           \* per CPU: did it overrun?
  open            \* per CPU: is the recording on?

logVars == <<log, lost, open>>

Init ==
  /\ log = [c \in 0 .. NCPU - 1 |-> <<>>]
  /\ lost = [c \in 0 .. NCPU - 1 |-> FALSE]
  /\ open = [c \in 0 .. NCPU - 1 |-> FALSE]

\* The next unit of trace goes to the end of the log.
Record(c) ==
  /\ open[c]
  /\ ~lost[c]
  /\ log' = [log EXCEPT ![c] = Append(@, <<c, Len(@) + 1>>)]
  /\ UNCHANGED <<lost, open>>

Overrun(c) ==
  /\ open[c]
  /\ log' = [log EXCEPT ![c] = <<>>]
  /\ lost' = [lost EXCEPT ![c] = TRUE]
  /\ UNCHANGED open

Open(c) ==
  /\ ~open[c]
  /\ log[c] = <<>>
  /\ ~lost[c]
  /\ open' = [open EXCEPT ![c] = TRUE]
  /\ UNCHANGED <<log, lost>>

Close(c) ==
  /\ open[c]
  /\ open' = [open EXCEPT ![c] = FALSE]
  /\ UNCHANGED <<log, lost>>

\* A closed log is thrown away before the next recording...
Discard(c) ==
  /\ ~open[c]
  /\ log' = [log EXCEPT ![c] = <<>>]
  /\ UNCHANGED <<lost, open>>

\* ... and so are all of them, with the notes of what was lost.
DiscardAll ==
  /\ open = [c \in 0 .. NCPU - 1 |-> FALSE]
  /\ log' = [c \in 0 .. NCPU - 1 |-> <<>>]
  /\ lost' = [c \in 0 .. NCPU - 1 |-> FALSE]
  /\ UNCHANGED open

Next ==
  \/ \E c \in 0 .. NCPU - 1 :
       Record(c) \/ Overrun(c) \/ Open(c) \/ Close(c) \/ Discard(c)
  \/ DiscardAll

Spec == Init /\ [][Next]_logVars
=============================================================================
