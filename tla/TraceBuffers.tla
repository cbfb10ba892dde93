---------------------------- MODULE TraceBuffers ----------------------------
(***************************************************************************)
(* The trace buffers of the kernel module (src/src/kernel-module): one     *)
(* pool of equal buffers, a processor trace per CPU that writes into the   *)
(* buffer it holds, a 2 ms timer per CPU that takes the next free buffer   *)
(* when the current one is nearly full, and the trace_enable file whose    *)
(* writer starts and stops the recording one CPU at a time.                *)
(*                                                                         *)
(* What runs where.  The IPI handlers (clear_offset, trace_start,          *)
(* trace_stop) and the timer callback of one CPU both run on that CPU with *)
(* interrupts disabled, so an IPI is one step and waits for a callback in  *)
(* progress.  Callbacks of different CPUs interleave with each other and   *)
(* with the writer's loop over the CPUs; the two spinlocks are taken for   *)
(* one step each.  The hardware stores trace data whenever it is enabled.  *)
(*                                                                         *)
(* Configuration modelled: Intel PT, LOG_TO_RAM, schedule messages with    *)
(* the buffer offset.  The module has been loaded: every CPU took a buffer *)
(* of the pool in init_trace_ram_alloc.                                    *)
(***************************************************************************)
EXTENDS Integers

CONSTANTS
  NCPU,           \* number of present CPUs
  PoolSize,       \* buffers create_trace_buffer_pool obtained
  BufSize,        \* TRACE_BUFFER_SIZE, in units of trace data
  MaxEmitted      \* bound: trace units a CPU stores in one recording

\* Loading fails with -ENOMEM unless every CPU got a buffer.
ASSUME SizeAssumption ==
  /\ NCPU \in Nat \ {0}
  /\ PoolSize \in Nat
  /\ PoolSize >= NCPU
  /\ BufSize \in Nat
  /\ BufSize >= 3
  /\ MaxEmitted \in Nat

CPU == 0 .. NCPU - 1
Buffer == 0 .. PoolSize - 1
NoBuffer == -1

\* The unit of trace data a CPU stores n-th in a recording, and the data of
\* earlier recordings (or the 0xEE fill) that a buffer may still hold.
Unit(c, n) == <<c, n>>
Stale == <<-1, 0>>

VARIABLES
  index,          \* buffer_pool.index: the first free buffer of the pool
  content,        \* what each buffer of the pool holds, unit by unit
  active_idx,     \* per CPU, trace_type.active_idx
  size,           \* per CPU, trace_type.size
  offsets,        \* per CPU, trace_type.offsets[]
  buffer_id,      \* per CPU, trace_type.buffer_id[]
  hwOn,           \* per CPU, IPT_CTL.TRACEEN
  hwBase,         \* per CPU, the buffer IPT_OUTPUT_BASE leads to
  hwOffset,       \* per CPU, the output offset of IPT_OUTPUT_MASK_PTRS
  emitted,        \* per CPU, units stored in this recording (history)
  late,           \* per CPU: did the timer come too late in it? (history)
  active,         \* static int active of multi-buffer.c, shared by all CPUs
  timer,          \* per CPU: is its hrtimer armed?
  callback,       \* per CPU: where its hr_timer_callback is
  new_buf_idx,    \* per CPU, the callback's local of that name
  trace_active,   \* static int trace_active of main.c
  capture_on,     \* static unsigned capture_on of main.c
  control,        \* where the writer of trace_enable is
  cpu,            \* the next CPU of the writer's for_each_present_cpu loop
  sched           \* per CPU, its last schedule message and where it was true

poolVars == <<index, content>>
traceVars == <<active_idx, size, offsets, buffer_id>>
hwVars == <<hwOn, hwBase, hwOffset, emitted, late>>
timerVars == <<active, timer, callback, new_buf_idx>>
controlVars == <<trace_active, capture_on, control, cpu>>
vars == <<poolVars, traceVars, hwVars, timerVars, controlVars, sched>>

\* No schedule message yet in this recording's sideband.
NoSchedule == [buff_offset |-> 0, position |-> 0]

-----------------------------------------------------------------------------
(* The pool and the per-CPU bookkeeping *)

\* Mutant: the bound is off by one.
RequestedBufferPastEnd == IF index <= PoolSize THEN index ELSE NoBuffer

\* request_trace_buffer: under the pool's lock, the next index or -1.
RequestedBuffer == IF index < PoolSize THEN index ELSE NoBuffer
\* Mutant: the last buffer is handed out again and again.
IndexAfterRequestLast == IF index + 1 < PoolSize THEN index + 1 ELSE index
IndexAfterRequest == IF index < PoolSize THEN index + 1 ELSE index

\* reset_trace_buffers: forget the recording and take a first buffer.  Every
\* caller but init_trace_ram_alloc ignores the -ENOMEM of an exhausted pool.
ResetTraceBuffers(c) ==
  /\ active_idx' = [active_idx EXCEPT ![c] = 0]
  /\ size' = [size EXCEPT ![c] = 0]
  /\ offsets' = [offsets EXCEPT ![c] = [i \in Buffer |-> 0]]
  /\ buffer_id' = [buffer_id EXCEPT ![c] =
                     [i \in Buffer |-> IF i = 0 THEN RequestedBuffer ELSE NoBuffer]]
  /\ index' = IndexAfterRequest

Init ==
  /\ index = NCPU
  /\ content = [b \in Buffer |-> [o \in 0 .. BufSize - 1 |-> Stale]]
  /\ active_idx = [c \in CPU |-> 0]
  /\ size = [c \in CPU |-> 0]
  /\ offsets = [c \in CPU |-> [i \in Buffer |-> 0]]
  /\ buffer_id = [c \in CPU |-> [i \in Buffer |-> IF i = 0 THEN c ELSE NoBuffer]]
  /\ hwOn = [c \in CPU |-> FALSE]
  /\ hwBase = [c \in CPU |-> c]
  /\ hwOffset = [c \in CPU |-> 0]
  /\ emitted = [c \in CPU |-> 0]
  /\ late = [c \in CPU |-> FALSE]
  /\ active = FALSE
  /\ timer = [c \in CPU |-> FALSE]
  /\ callback = [c \in CPU |-> "none"]
  /\ new_buf_idx = [c \in CPU |-> NoBuffer]
  /\ trace_active = FALSE
  /\ capture_on = 0
  /\ control = "idle"
  /\ cpu = 0
  /\ sched = [c \in CPU |-> NoSchedule]

\* IPT_OUTPUT_OFFSET_RESET: the output offset in IPT_OUTPUT_MASK_PTRS to zero.
\* Mutant: the offset bits are masked the wrong way round.
OffsetKept(offset) == offset
OffsetReset(offset) == 0

\* The buffer the hardware goes on in: the one now active.
\* Mutant: the base register is not written.
NewBaseKept(c) == hwBase[c]
NewBase(c) == buffer_id[c][active_idx[c]]

\* hrtimer_cancel, and HRTIMER_NORESTART from the callback.
\* Mutant: the timer stays armed.
TimerKept(c) == timer
TimerOff(c) == [timer EXCEPT ![c] = FALSE]

\* stop_buffer_hack_timer closes the buffer in use unless a callback that
\* found the pool empty has closed it.  Mutant: it always does.
AlwaysClose(c) == TRUE
CloseAtStop(c) == offsets[c][active_idx[c]] = 0

-----------------------------------------------------------------------------
(* The hardware of CPU c stores one unit of trace.  The ToPA table of a    *)
(* buffer has one region and an END entry back to itself: past the last    *)
(* unit the offset starts again at 0, over the data already there.  The    *)
(* 2 ms timer is meant to come before the last third is full; late notes   *)
(* that it did not.                                                        *)
HwEmit(c) ==
  /\ hwOn[c]
  /\ emitted[c] < MaxEmitted
  /\ emitted' = [emitted EXCEPT ![c] = @ + 1]
  /\ hwOffset' = [hwOffset EXCEPT ![c] = IF @ + 1 < BufSize THEN @ + 1 ELSE 0]
  /\ late' = [late EXCEPT ![c] = @ \/ hwOffset[c] + 1 = BufSize]
  /\ content' = IF hwBase[c] \in Buffer
                THEN [content EXCEPT ![hwBase[c]][hwOffset[c]] = Unit(c, emitted[c] + 1)]
                ELSE content
  /\ UNCHANGED <<index, traceVars, hwOn, hwBase, timerVars, controlVars, sched>>

-----------------------------------------------------------------------------
(* hr_timer_callback on CPU c *)

\* The timer fires and finds the buffer two thirds full.  (Below that the
\* callback only re-arms the timer: nothing changes.)
TimerFires(c) ==
  /\ timer[c]
  /\ callback[c] = "none"
  /\ hwOffset[c] + BufSize \div 3 >= BufSize
  /\ callback' = [callback EXCEPT ![c] = "request"]
  /\ UNCHANGED <<poolVars, traceVars, hwVars, active, timer, new_buf_idx,
                 controlVars, sched>>

\* Mutant: wait for a buffer instead of going on without one.
StopAndRequestWaits(c) ==
  /\ callback[c] = "request"
  /\ RequestedBuffer # NoBuffer
  /\ hwOn' = [hwOn EXCEPT ![c] = FALSE]
  /\ new_buf_idx' = [new_buf_idx EXCEPT ![c] = RequestedBuffer]
  /\ index' = IndexAfterRequest
  /\ callback' = [callback EXCEPT ![c] = "switch"]
  /\ UNCHANGED <<content, traceVars, hwBase, hwOffset, emitted, late, active, timer,
                 controlVars, sched>>

\* Tracing off, then a buffer from the pool.
StopAndRequest(c) ==
  /\ callback[c] = "request"
  /\ hwOn' = [hwOn EXCEPT ![c] = FALSE]
  /\ new_buf_idx' = [new_buf_idx EXCEPT ![c] = RequestedBuffer]
  /\ index' = IndexAfterRequest
  /\ callback' = [callback EXCEPT ![c] = "switch"]
  /\ UNCHANGED <<content, traceVars, hwBase, hwOffset, emitted, late, active, timer,
                 controlVars, sched>>

\* Under timer_lock: close the full buffer and make the new one the active
\* one, unless some CPU has already stopped its timer.
SwitchBuffer(c) ==
  /\ callback[c] = "switch"
  /\ IF active
     THEN /\ offsets' = [offsets EXCEPT ![c][active_idx[c]] = hwOffset[c]]
          /\ size' = [size EXCEPT ![c] = @ + hwOffset[c]]
          /\ IF new_buf_idx[c] # NoBuffer
             THEN /\ active_idx' = [active_idx EXCEPT ![c] = @ + 1]
                  /\ buffer_id' = [buffer_id EXCEPT ![c][active_idx[c] + 1] = new_buf_idx[c]]
             ELSE UNCHANGED <<active_idx, buffer_id>>
          /\ UNCHANGED new_buf_idx
     ELSE /\ new_buf_idx' = [new_buf_idx EXCEPT ![c] = NoBuffer]
          /\ UNCHANGED traceVars
  /\ callback' = [callback EXCEPT ![c] = "resume"]
  /\ UNCHANGED <<poolVars, hwVars, active, timer, controlVars, sched>>

\* Point the hardware at the new buffer and go on, or end tracing here.
FinishCallback(c) ==
  /\ callback[c] = "resume"
  /\ IF new_buf_idx[c] # NoBuffer
     THEN /\ hwBase' = [hwBase EXCEPT ![c] = NewBase(c)]
          /\ hwOffset' = [hwOffset EXCEPT ![c] = OffsetReset(@)]
          /\ hwOn' = [hwOn EXCEPT ![c] = TRUE]
          /\ UNCHANGED timer
     ELSE /\ hwOn' = [hwOn EXCEPT ![c] = FALSE]
          /\ timer' = TimerOff(c)
          /\ UNCHANGED <<hwBase, hwOffset>>
  /\ callback' = [callback EXCEPT ![c] = "none"]
  /\ new_buf_idx' = [new_buf_idx EXCEPT ![c] = NoBuffer]
  /\ UNCHANGED <<poolVars, traceVars, emitted, late, active, controlVars, sched>>

-----------------------------------------------------------------------------
(* The writer of trace_enable; the tool has one and it writes 0 or 1 *)

\* write_control: a new value starts or stops the recording.
WriteControl(value) ==
  /\ control = "idle"
  /\ capture_on # value
  /\ capture_on' = value
  /\ cpu' = 0
  /\ IF value # 0
     THEN /\ control' = "clear"
          /\ UNCHANGED trace_active
     ELSE /\ control' = "stop"
          /\ trace_active' = FALSE
  /\ UNCHANGED <<poolVars, traceVars, hwVars, timerVars, sched>>

\* The loop goes on with the next CPU, or control moves on after the last.
NextCpu(loop, after) ==
  /\ control = loop
  /\ cpu' = IF cpu + 1 < NCPU THEN cpu + 1 ELSE 0
  /\ control' = IF cpu + 1 < NCPU THEN loop ELSE after

\* clear_offset: IPI to each CPU.
ClearOffset ==
  /\ NextCpu("clear", "activate")
  /\ callback[cpu] = "none"
  /\ hwOffset' = [hwOffset EXCEPT ![cpu] = OffsetReset(@)]
  /\ ResetTraceBuffers(cpu)
  /\ UNCHANGED <<content, hwOn, hwBase, emitted, late, timerVars, trace_active,
                 capture_on, sched>>

\* sat_start_tracing clears the sideband and lets messages into it.  From here
\* the data in the pool is that of an earlier recording.
ActivateSideband ==
  /\ control = "activate"
  /\ trace_active' = TRUE
  /\ sched' = [c \in CPU |-> NoSchedule]
  /\ control' = "reinit"
  /\ emitted' = [c \in CPU |-> 0]
  /\ late' = [c \in CPU |-> FALSE]
  /\ content' = [b \in Buffer |-> [o \in 0 .. BufSize - 1 |-> Stale]]
  /\ UNCHANGED <<index, traceVars, hwOn, hwBase, hwOffset, timerVars, capture_on, cpu>>

\* trace_start: reinit_trace_buffer_pool, without the pool's lock.
ReinitPool ==
  /\ control = "reinit"
  /\ index' = 0
  /\ control' = "start"
  /\ UNCHANGED <<content, traceVars, hwVars, timerVars, trace_active, capture_on, cpu, sched>>

\* trace_config_start on the next CPU: timer, first buffer, hardware.
StartCpu ==
  /\ NextCpu("start", "idle")
  /\ callback[cpu] = "none"
  /\ active' = TRUE
  /\ ResetTraceBuffers(cpu)
  /\ timer' = [timer EXCEPT ![cpu] = TRUE]
  /\ hwBase' = [hwBase EXCEPT ![cpu] = RequestedBuffer]
  /\ hwOffset' = [hwOffset EXCEPT ![cpu] = OffsetReset(@)]
  /\ hwOn' = [hwOn EXCEPT ![cpu] = TRUE]
  /\ UNCHANGED <<content, emitted, late, callback, new_buf_idx, trace_active, capture_on, sched>>

\* trace_config_stop on the next CPU: hardware off, timer off, and the
\* buffer in use closed unless the callback already did.
StopCpu ==
  /\ NextCpu("stop", "idle")
  /\ callback[cpu] = "none"
  /\ hwOn' = [hwOn EXCEPT ![cpu] = FALSE]
  /\ timer' = TimerOff(cpu)
  /\ IF CloseAtStop(cpu)
     THEN /\ offsets' = [offsets EXCEPT ![cpu][active_idx[cpu]] = hwOffset[cpu]]
          /\ size' = [size EXCEPT ![cpu] = @ + hwOffset[cpu]]
     ELSE UNCHANGED <<offsets, size>>
  /\ active' = FALSE
  /\ UNCHANGED <<poolVars, active_idx, buffer_id, hwBase, hwOffset, emitted, late,
                 callback, new_buf_idx, trace_active, capture_on, sched>>

-----------------------------------------------------------------------------
(* send_schedule on CPU c, from __switch_to: the message carries where in  *)
(* the CPU's trace stream the switch happened.                             *)
SendSchedule(c) ==
  /\ trace_active
  /\ callback[c] = "none"
  /\ sched' = [sched EXCEPT ![c] = [buff_offset |-> size[c] + hwOffset[c],
                                    position |-> emitted[c]]]
  /\ UNCHANGED <<poolVars, traceVars, hwVars, timerVars, controlVars>>

Next ==
  \/ \E c \in CPU :
       \/ HwEmit(c)
       \/ TimerFires(c)
       \/ StopAndRequest(c)
       \/ SwitchBuffer(c)
       \/ FinishCallback(c)
       \/ SendSchedule(c)
  \/ \E value \in {0, 1} : WriteControl(value)
  \/ ClearOffset
  \/ ActivateSideband
  \/ ReinitPool
  \/ StartCpu
  \/ StopCpu

Spec == Init /\ [][Next]_vars

-----------------------------------------------------------------------------
(* Properties *)

TypeOK ==
  /\ index \in 0 .. PoolSize
  /\ content \in [Buffer -> [0 .. BufSize - 1 -> {Stale} \cup (CPU \X Nat)]]
  /\ active_idx \in [CPU -> Buffer]
  /\ size \in [CPU -> Nat]
  /\ offsets \in [CPU -> [Buffer -> 0 .. BufSize - 1]]
  /\ buffer_id \in [CPU -> [Buffer -> Buffer \cup {NoBuffer}]]
  /\ hwOn \in [CPU -> BOOLEAN]
  /\ hwBase \in [CPU -> Buffer \cup {NoBuffer}]
  /\ hwOffset \in [CPU -> 0 .. BufSize - 1]
  /\ emitted \in [CPU -> Nat]
  /\ late \in [CPU -> BOOLEAN]
  /\ active \in BOOLEAN
  /\ timer \in [CPU -> BOOLEAN]
  /\ callback \in [CPU -> {"none", "request", "switch", "resume"}]
  /\ new_buf_idx \in [CPU -> Buffer \cup {NoBuffer}]
  /\ trace_active \in BOOLEAN
  /\ capture_on \in {0, 1}
  /\ control \in {"idle", "clear", "activate", "reinit", "start", "stop"}
  /\ cpu \in CPU
  /\ sched \in [CPU -> [buff_offset : Nat, position : Nat]]

\* Nothing of the tracer runs on CPU c.
Quiet(c) == ~hwOn[c] /\ ~timer[c] /\ callback[c] = "none"

\* Between stop and start everything is at rest on every CPU: when a write of
\* 0 has returned no hardware, timer or callback is left, although callbacks
\* race with the loop of trace_stop and can restart the hardware; and so the
\* pool's index is reset (without its lock) with nobody in
\* request_trace_buffer.
QuietBetweenRecordings ==
  \/ control = "idle" /\ capture_on = 0
  \/ control \in {"clear", "activate", "reinit"}
  => \A c \in CPU : Quiet(c)

\* The buffer list of CPU d means something: it is not one that a start in
\* progress has yet to replace.
Listed(d) == control = "start" => d < cpu

\* The hardware of a CPU writes only into the last buffer of its own list: no
\* buffer that any CPU has already recorded into, or is recording into, is
\* written by another one, whatever callbacks and start and stop loops do.
NoOverwrite ==
  \A c, d \in CPU :
    hwOn[c] /\ hwBase[c] \in Buffer /\ Listed(d) =>
      \A i \in 0 .. active_idx[d] :
        buffer_id[d][i] = hwBase[c] => d = c /\ i = active_idx[d]

\* "All buffers already in use - end tracing for this core": a CPU that has
\* no buffer does not trace.
NoBufferNoTrace == \A c \in CPU : hwOn[c] => hwBase[c] # NoBuffer

\* A schedule message tells where in the CPU's trace stream the switch was,
\* as long as no timer came late.  Only one sent after the pool ran dry does
\* not, and it points past the end of that stream, never to a wrong place
\* inside it.
ScheduleInStream ==
  \A c \in CPU :
    LET s == sched[c]
    IN  \/ late[c]
        \/ s.buff_offset = s.position
        \/ s.buff_offset > s.position /\ emitted[c] = s.position

\* The kernel runs a system call, an IPI and a timer callback to their end.
Fairness ==
  /\ WF_vars(ClearOffset)
  /\ WF_vars(ActivateSideband)
  /\ WF_vars(ReinitPool)
  /\ WF_vars(StartCpu)
  /\ WF_vars(StopCpu)
  /\ \A c \in CPU : WF_vars(StopAndRequest(c) \/ SwitchBuffer(c) \/ FinishCallback(c))

FairSpec == Spec /\ Fairness

\* A write to trace_enable returns: no CPU's callback keeps the loop's IPI
\* waiting for ever, an exhausted pool included.
ControlReturns == control # "idle" ~> control = "idle"
=============================================================================
