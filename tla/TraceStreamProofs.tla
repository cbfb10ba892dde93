------------------------- MODULE TraceStreamProofs --------------------------
(***************************************************************************)
(* Proofs about TraceStream, for any number of CPUs and buffers of any     *)
(* size: trace->size is the sum of the buffers, schedule messages point    *)
(* into the stream, the buffers implement a log per CPU, and a reader of   *)
(* the stream file gets that log.                                          *)
(*                                                                         *)
(* All of it rests on one invariant, StreamInv: the units emitted since    *)
(* the start lie in the buffers of the list, unit Before(c, i) + k + 1 in  *)
(* place k of buffer i.  A switch keeps it because no CPU writes a buffer  *)
(* of a list (NoOverwrite) and because a buffer is closed once only.       *)
(*                                                                         *)
(* The loops of the code are recursive functions in TraceStream.  That     *)
(* they have a value after each round, and what it is, is proved by        *)
(* induction over the number of rounds (LoopLemmas).                       *)
(***************************************************************************)
EXTENDS TraceStream, LoopLemmas

-----------------------------------------------------------------------------
(* The trace buffers *)

\* CPU c's part of the tracer may be running.
MayRun(c) ==
  \/ control = "idle" /\ capture_on = 1
  \/ control = "start" /\ c < cpu
  \/ control = "stop" /\ c >= cpu

\* Where the writer is determines the control variable, and what may run.
PhaseInv ==
  /\ control \in {"clear", "activate", "reinit", "start"} => capture_on = 1
  /\ control = "stop" => capture_on = 0
  /\ control \in {"idle", "activate", "reinit"} => cpu = 0
  /\ \A c \in CPU : ~MayRun(c) => Quiet(c)

\* What a callback holds.
CallbackInv ==
  \A c \in CPU :
    /\ callback[c] \in {"none", "request"} => new_buf_idx[c] = NoBuffer
    /\ callback[c] \in {"switch", "resume"} => ~hwOn[c]
    /\ callback[c] = "switch" /\ new_buf_idx[c] # NoBuffer =>
         new_buf_idx[c] < index /\ new_buf_idx[c] > active_idx[c]
    /\ callback[c] = "resume" /\ new_buf_idx[c] # NoBuffer =>
         new_buf_idx[c] = buffer_id[c][active_idx[c]]

\* The buffer of a running CPU: the one the hardware has, and in a pool that
\* hands out its buffers in order at least as far on as its place in the list.
ActiveBufferInv ==
  \A c \in CPU :
    /\ hwOn[c] => hwBase[c] = buffer_id[c][active_idx[c]]
    /\ MayRun(c) =>
         IF buffer_id[c][active_idx[c]] = NoBuffer
         THEN index = PoolSize
         ELSE buffer_id[c][active_idx[c]] >= active_idx[c]

\* Buffer b is in place i of the list of CPU c.
InList(c, i, b) == i <= active_idx[c] /\ buffer_id[c][i] = b

\* Listed buffers have been handed out.
ListedTaken ==
  \A c \in CPU, i \in Buffer, b \in Buffer :
    Listed(c) /\ InList(c, i, b) => b < index

\* No buffer is in two places of the lists.
ListsDisjoint ==
  \A c, d \in CPU, i, j \in Buffer, b \in Buffer :
    Listed(c) /\ Listed(d) /\ InList(c, i, b) /\ InList(d, j, b) => c = d /\ i = j

\* Callback of CPU c holds a buffer b it still has to put into its list.
Pending(c, b) == callback[c] = "switch" /\ new_buf_idx[c] = b

\* Such a buffer is in no list, and no other callback holds it.
PendingFresh ==
  /\ \A c, d \in CPU, i \in Buffer, b \in Buffer :
       Pending(c, b) => ~(Listed(d) /\ InList(d, i, b))
  /\ \A c, d \in CPU, b \in Buffer : Pending(c, b) /\ Pending(d, b) => c = d

OwnershipInv == ListedTaken /\ ListsDisjoint /\ PendingFresh

IInv == TypeOK /\ PhaseInv /\ CallbackInv /\ ActiveBufferInv /\ OwnershipInv

-----------------------------------------------------------------------------
(* Facts about the operators *)

\* A request returns the next free buffer, or none once the pool is used up.
LEMMA RequestFacts ==
  ASSUME TypeOK
  PROVE  /\ RequestedBuffer \in Buffer \cup {NoBuffer}
         /\ IndexAfterRequest \in 0 .. PoolSize
         /\ \/ RequestedBuffer = index /\ index \in Buffer /\ IndexAfterRequest = index + 1
            \/ RequestedBuffer = NoBuffer /\ index = PoolSize /\ IndexAfterRequest = index
BY SizeAssumption DEF TypeOK, RequestedBuffer, IndexAfterRequest, Buffer, NoBuffer

\* One step of the loops over the CPUs.
LEMMA NextCpuFacts ==
  ASSUME TypeOK, NEW loop, NEW after, NextCpu(loop, after)
  PROVE  /\ cpu' \in CPU
         /\ control = loop
         /\ \/ cpu' = cpu + 1 /\ control' = loop
            \/ cpu' = 0 /\ control' = after /\ cpu = NCPU - 1
BY SizeAssumption DEF TypeOK, NextCpu, CPU

\* Zero is a CPU, a buffer and an offset, and no buffer is -1.
LEMMA SetFacts ==
  /\ 0 \in Buffer
  /\ 0 \in CPU
  /\ 0 \in 0 .. BufSize - 1
  /\ 0 .. BufSize - 1 \subseteq Nat
  /\ Buffer \subseteq Nat
  /\ CPU \subseteq Nat
  /\ NoBuffer \notin Buffer
BY SizeAssumption DEF Buffer, CPU, NoBuffer

-----------------------------------------------------------------------------
(* TypeOK *)

\* reset_trace_buffers keeps the types of all it assigns.
LEMMA ResetTypes ==
  ASSUME TypeOK, NEW c \in CPU, ResetTraceBuffers(c)
  PROVE  /\ active_idx' \in [CPU -> Buffer]
         /\ size' \in [CPU -> Nat]
         /\ offsets' \in [CPU -> [Buffer -> 0 .. BufSize - 1]]
         /\ buffer_id' \in [CPU -> [Buffer -> Buffer \cup {NoBuffer}]]
         /\ index' \in 0 .. PoolSize
<1>1. active_idx' \in [CPU -> Buffer] /\ size' \in [CPU -> Nat]
  BY SetFacts DEF TypeOK, ResetTraceBuffers
<1>2. offsets' \in [CPU -> [Buffer -> 0 .. BufSize - 1]]
  BY SetFacts DEF TypeOK, ResetTraceBuffers
<1>3. buffer_id' \in [CPU -> [Buffer -> Buffer \cup {NoBuffer}]]
  <2>1. [i \in Buffer |-> IF i = 0 THEN RequestedBuffer ELSE NoBuffer]
          \in [Buffer -> Buffer \cup {NoBuffer}]
    BY RequestFacts
  <2> QED
    BY <2>1 DEF TypeOK, ResetTraceBuffers
<1>4. index' \in 0 .. PoolSize
  BY RequestFacts DEF ResetTraceBuffers
<1> QED
  BY <1>1, <1>2, <1>3, <1>4

\* Closing the buffer in use.
LEMMA CloseTypes ==
  ASSUME TypeOK, NEW c \in CPU,
         offsets' = [offsets EXCEPT ![c][active_idx[c]] = hwOffset[c]],
         size' = [size EXCEPT ![c] = @ + hwOffset[c]]
  PROVE  /\ offsets' \in [CPU -> [Buffer -> 0 .. BufSize - 1]]
         /\ size' \in [CPU -> Nat]
<1>1. hwOffset[c] \in 0 .. BufSize - 1 /\ size[c] \in Nat
  BY DEF TypeOK
<1>2. size[c] + hwOffset[c] \in Nat
  BY <1>1
<1>3. size' \in [CPU -> Nat]
  BY <1>2 DEF TypeOK
<1>4. [offsets[c] EXCEPT ![active_idx[c]] = hwOffset[c]] \in [Buffer -> 0 .. BufSize - 1]
  BY <1>1 DEF TypeOK
<1>5. offsets' \in [CPU -> [Buffer -> 0 .. BufSize - 1]]
  BY <1>4 DEF TypeOK
<1> QED
  BY <1>3, <1>5

\* Types are kept by storing a unit of trace.
LEMMA HwEmitTypes ==
  ASSUME TypeOK, NEW c \in CPU, HwEmit(c) PROVE TypeOK'
<1>1. content' \in [Buffer -> [0 .. BufSize - 1 -> {Stale} \cup (CPU \X Nat)]]
  <2>1. CASE hwBase[c] \in Buffer
    <3>1. Unit(c, emitted[c] + 1) \in {Stale} \cup (CPU \X Nat)
      BY SMTT(30) DEF TypeOK, Unit
    <3>2. [content[hwBase[c]] EXCEPT ![hwOffset[c]] = Unit(c, emitted[c] + 1)]
            \in [0 .. BufSize - 1 -> {Stale} \cup (CPU \X Nat)]
      BY <2>1, <3>1 DEF TypeOK
    <3> QED
      BY <2>1, <3>2 DEF TypeOK, HwEmit
  <2>2. CASE hwBase[c] \notin Buffer
    BY <2>2 DEF TypeOK, HwEmit
  <2> QED
    BY <2>1, <2>2
<1>2. hwOffset' \in [CPU -> 0 .. BufSize - 1]
  <2> DEFINE next == IF hwOffset[c] + 1 < BufSize THEN hwOffset[c] + 1 ELSE 0
  <2>1. hwOffset[c] \in 0 .. BufSize - 1
    BY DEF TypeOK
  <2>2. next \in 0 .. BufSize - 1
    BY <2>1, SizeAssumption
  <2>3. hwOffset' = [hwOffset EXCEPT ![c] = next]
    BY DEF HwEmit
  <2> HIDE DEF next
  <2> QED
    BY <2>2, <2>3 DEF TypeOK
<1>3. emitted' \in [CPU -> Nat]
  <2>1. emitted[c] + 1 \in Nat
    BY DEF TypeOK
  <2> QED
    BY <2>1 DEF TypeOK, HwEmit
<1>4. late' \in [CPU -> BOOLEAN]
  BY DEF TypeOK, HwEmit
<1> QED
  BY <1>1, <1>2, <1>3, <1>4 DEF TypeOK, HwEmit, traceVars, timerVars, controlVars

\* Types are kept by the callback's request.
LEMMA StopAndRequestTypes ==
  ASSUME TypeOK, NEW c \in CPU, StopAndRequest(c) PROVE TypeOK'
BY RequestFacts DEF TypeOK, StopAndRequest, traceVars, controlVars

\* Types are kept by the switch of buffers.
LEMMA SwitchBufferTypes ==
  ASSUME TypeOK, CallbackInv, NEW c \in CPU, SwitchBuffer(c) PROVE TypeOK'
<1>1. new_buf_idx' \in [CPU -> Buffer \cup {NoBuffer}]
  BY DEF TypeOK, SwitchBuffer
<1>2. offsets' \in [CPU -> [Buffer -> 0 .. BufSize - 1]] /\ size' \in [CPU -> Nat]
  <2>1. CASE active
    BY <2>1, CloseTypes DEF SwitchBuffer
  <2>2. CASE ~active
    BY <2>2 DEF TypeOK, SwitchBuffer, traceVars
  <2> QED
    BY <2>1, <2>2
<1>3. active_idx' \in [CPU -> Buffer] /\ buffer_id' \in [CPU -> [Buffer -> Buffer \cup {NoBuffer}]]
  <2>1. CASE active /\ new_buf_idx[c] # NoBuffer
    <3>1. active_idx[c] + 1 \in Buffer /\ new_buf_idx[c] \in Buffer
      <4>1. new_buf_idx[c] \in Buffer /\ active_idx[c] \in Buffer
        BY <2>1 DEF TypeOK
      <4>2. new_buf_idx[c] > active_idx[c]
        BY <2>1 DEF SwitchBuffer, CallbackInv
      <4> QED
        BY <4>1, <4>2, SizeAssumption DEF Buffer
    <3>2. active_idx' = [active_idx EXCEPT ![c] = @ + 1]
      BY <2>1 DEF SwitchBuffer
    <3>3. buffer_id' = [buffer_id EXCEPT ![c][active_idx[c] + 1] = new_buf_idx[c]]
      BY <2>1 DEF SwitchBuffer
    <3> QED
      BY <3>1, <3>2, <3>3 DEF TypeOK
  <2>2. CASE ~(active /\ new_buf_idx[c] # NoBuffer)
    BY <2>2 DEF TypeOK, SwitchBuffer, traceVars
  <2> QED
    BY <2>1, <2>2
<1> QED
  BY <1>1, <1>2, <1>3 DEF TypeOK, SwitchBuffer, poolVars, hwVars, controlVars

\* Types are kept by the end of a callback.
LEMMA FinishCallbackTypes ==
  ASSUME TypeOK, NEW c \in CPU, FinishCallback(c) PROVE TypeOK'
<1>1. hwBase' \in [CPU -> Buffer \cup {NoBuffer}]
  <2>1. buffer_id[c][active_idx[c]] \in Buffer \cup {NoBuffer}
    BY DEF TypeOK
  <2> QED
    BY <2>1 DEF TypeOK, FinishCallback, NewBase
<1>2. hwOffset' \in [CPU -> 0 .. BufSize - 1]
  BY SetFacts DEF TypeOK, FinishCallback, OffsetReset
<1>3. hwOn' \in [CPU -> BOOLEAN] /\ timer' \in [CPU -> BOOLEAN]
  BY DEF TypeOK, FinishCallback, TimerOff
<1> QED
  BY <1>1, <1>2, <1>3 DEF TypeOK, FinishCallback, poolVars, traceVars, controlVars

\* Types are kept by a schedule message.
LEMMA SendScheduleTypes ==
  ASSUME TypeOK, NEW c \in CPU, SendSchedule(c) PROVE TypeOK'
<1>1. [buff_offset |-> size[c] + hwOffset[c], position |-> emitted[c]]
        \in [buff_offset : Nat, position : Nat]
  <2>1. size[c] \in Nat /\ hwOffset[c] \in 0 .. BufSize - 1 /\ emitted[c] \in Nat
    BY DEF TypeOK
  <2>2. size[c] + hwOffset[c] \in Nat
    BY <2>1
  <2> QED
    BY <2>1, <2>2
<1> QED
  BY <1>1 DEF TypeOK, SendSchedule, poolVars, traceVars, hwVars, timerVars, controlVars

\* Types are kept by a write to trace_enable.
LEMMA WriteControlTypes ==
  ASSUME TypeOK, NEW value \in {0, 1}, WriteControl(value) PROVE TypeOK'
BY SetFacts DEF TypeOK, WriteControl, poolVars, traceVars, hwVars, timerVars

\* Types are kept by clear_offset.
LEMMA ClearOffsetTypes ==
  ASSUME TypeOK, ClearOffset PROVE TypeOK'
<1>1. NextCpu("clear", "activate") /\ ResetTraceBuffers(cpu) /\ cpu \in CPU
  BY DEF TypeOK, ClearOffset
<1>2. hwOffset' \in [CPU -> 0 .. BufSize - 1]
  BY SetFacts DEF TypeOK, ClearOffset, OffsetReset
<1> QED
  BY <1>1, <1>2, ResetTypes, NextCpuFacts DEF TypeOK, ClearOffset, timerVars

\* Types are kept by the reset of the sideband.
LEMMA ActivateSidebandTypes ==
  ASSUME TypeOK, ActivateSideband PROVE TypeOK'
BY SetFacts DEF TypeOK, ActivateSideband, NoSchedule, traceVars, timerVars

\* Types are kept by the reset of the pool.
LEMMA ReinitPoolTypes ==
  ASSUME TypeOK, ReinitPool PROVE TypeOK'
BY SizeAssumption DEF TypeOK, ReinitPool, traceVars, hwVars, timerVars

\* Types are kept by the start of a CPU.
LEMMA StartCpuTypes ==
  ASSUME TypeOK, StartCpu PROVE TypeOK'
<1>1. NextCpu("start", "idle") /\ ResetTraceBuffers(cpu) /\ cpu \in CPU
  BY DEF TypeOK, StartCpu
<1>2. hwOffset' \in [CPU -> 0 .. BufSize - 1]
  BY SetFacts DEF TypeOK, StartCpu, OffsetReset
<1>3. hwBase' \in [CPU -> Buffer \cup {NoBuffer}]
  BY RequestFacts DEF TypeOK, StartCpu
<1>4. hwOn' \in [CPU -> BOOLEAN] /\ timer' \in [CPU -> BOOLEAN] /\ active' \in BOOLEAN
  BY DEF TypeOK, StartCpu
<1> QED
  BY <1>1, <1>2, <1>3, <1>4, ResetTypes, NextCpuFacts DEF TypeOK, StartCpu

\* Types are kept by the stop of a CPU.
LEMMA StopCpuTypes ==
  ASSUME TypeOK, StopCpu PROVE TypeOK'
<1>1. NextCpu("stop", "idle") /\ cpu \in CPU
  BY DEF TypeOK, StopCpu
<1>2. offsets' \in [CPU -> [Buffer -> 0 .. BufSize - 1]] /\ size' \in [CPU -> Nat]
  <2>1. CASE CloseAtStop(cpu)
    BY <1>1, <2>1, CloseTypes DEF StopCpu
  <2>2. CASE ~CloseAtStop(cpu)
    BY <2>2 DEF TypeOK, StopCpu
  <2> QED
    BY <2>1, <2>2
<1>3. hwOn' \in [CPU -> BOOLEAN] /\ timer' \in [CPU -> BOOLEAN] /\ active' \in BOOLEAN
  BY <1>1 DEF TypeOK, StopCpu, TimerOff
<1> QED
  BY <1>1, <1>2, <1>3, NextCpuFacts DEF TypeOK, StopCpu, poolVars


-----------------------------------------------------------------------------
(* The other conjuncts, action by action *)

\* The module just loaded satisfies the invariant.
LEMMA InitInv == Init => IInv
<1> SUFFICES ASSUME Init PROVE IInv
  OBVIOUS
<1>1. TypeOK
  <2>1. [i \in Buffer |-> 0] \in [Buffer -> 0 .. BufSize - 1]
    BY SetFacts
  <2>2. [o \in 0 .. BufSize - 1 |-> Stale] \in [0 .. BufSize - 1 -> {Stale} \cup (CPU \X Nat)]
    OBVIOUS
  <2>3. \A c \in CPU : c \in Buffer
    BY SizeAssumption DEF CPU, Buffer
  <2>4. buffer_id \in [CPU -> [Buffer -> Buffer \cup {NoBuffer}]]
    BY <2>3 DEF Init
  <2>5. index \in 0 .. PoolSize
    BY SizeAssumption DEF Init
  <2> QED
    BY <2>1, <2>2, <2>3, <2>4, <2>5, SetFacts DEF Init, TypeOK, NoSchedule
<1>2. PhaseInv
  BY DEF Init, PhaseInv, MayRun, Quiet
<1>3. CallbackInv
  BY DEF Init, CallbackInv
<1>4. ActiveBufferInv
  BY DEF Init, ActiveBufferInv, MayRun
<1>5. OwnershipInv
  <2>1. \A c \in CPU, i \in Buffer, b \in Buffer : InList(c, i, b) => b = c
    BY SetFacts DEF Init, InList, Buffer, NoBuffer
  <2>2. \A c \in CPU, i \in Buffer, b \in Buffer : InList(c, i, b) => i = 0
    BY DEF Init, InList, Buffer
  <2> QED
    <3>1. ListedTaken
      BY <2>1, SizeAssumption DEF Init, ListedTaken, CPU
    <3>2. ListsDisjoint
      BY <2>1, <2>2 DEF ListsDisjoint
    <3>3. \A c \in CPU, b \in Buffer : ~Pending(c, b)
      BY DEF Init, Pending
    <3> QED
      BY <3>1, <3>2, <3>3 DEF OwnershipInv, PendingFresh
<1> QED
  BY <1>1, <1>2, <1>3, <1>4, <1>5 DEF IInv

\* A CPU that starts its list anew, with the pool's next buffer or none, keeps
\* the lists disjoint.
LEMMA ResetOwnership ==
  ASSUME IInv, NEW c \in CPU, ResetTraceBuffers(c),
         callback[c] = "none",
         \A d \in CPU : Listed(d)' => Listed(d) \/ d = c,
         UNCHANGED <<callback, new_buf_idx>>
  PROVE  OwnershipInv'
<1>1. /\ active_idx'[c] = 0
      /\ buffer_id'[c][0] = RequestedBuffer
      /\ index' = IndexAfterRequest
  BY SetFacts DEF IInv, TypeOK, ResetTraceBuffers
<1>2. \A d \in CPU : d # c => active_idx'[d] = active_idx[d] /\ buffer_id'[d] = buffer_id[d]
  BY DEF IInv, TypeOK, ResetTraceBuffers
<1>3. \A i \in Buffer, b \in Buffer :
        InList(c, i, b)' => i = 0 /\ b = index /\ index' = index + 1
  BY <1>1, RequestFacts, SetFacts DEF IInv, InList, Buffer
<1>4. \A d \in CPU, i \in Buffer, b \in Buffer :
        d # c /\ Listed(d)' /\ InList(d, i, b)' => Listed(d) /\ InList(d, i, b)
  BY <1>2 DEF InList
<1>5. index \in 0 .. PoolSize /\ index' \in 0 .. PoolSize
  BY <1>1, RequestFacts DEF IInv, TypeOK
<1>6. index' = index \/ index' = index + 1
  BY <1>1, RequestFacts DEF IInv
<1>7. ListedTaken'
  <2> SUFFICES ASSUME NEW d \in CPU, NEW i \in Buffer, NEW b \in Buffer,
                      Listed(d)', InList(d, i, b)'
               PROVE  b < index'
    BY DEF ListedTaken
  <2>1. CASE d = c
    BY <2>1, <1>3, <1>5
  <2>2. CASE d # c
    <3>1. b < index
      BY <2>2, <1>4 DEF IInv, OwnershipInv, ListedTaken
    <3> QED
      BY <3>1, <1>5, <1>6 DEF Buffer
  <2> QED
    BY <2>1, <2>2
<1>8. \A d \in CPU, i \in Buffer : ~(Listed(d) /\ InList(d, i, index))
  <2> SUFFICES ASSUME NEW d \in CPU, NEW i \in Buffer, Listed(d), InList(d, i, index)
               PROVE  FALSE
    OBVIOUS
  <2>1. index \in Buffer
    <3>1. buffer_id[d][i] \in Buffer \cup {NoBuffer}
      BY DEF IInv, TypeOK
    <3> QED
      BY <3>1, <1>5 DEF InList, NoBuffer
  <2>2. index < index
    BY <2>1 DEF IInv, OwnershipInv, ListedTaken
  <2> QED
    BY <2>2, <1>5
<1>9. ListsDisjoint'
  <2> SUFFICES ASSUME NEW d \in CPU, NEW e \in CPU, NEW i \in Buffer, NEW j \in Buffer,
                      NEW b \in Buffer,
                      Listed(d)', Listed(e)', InList(d, i, b)', InList(e, j, b)'
               PROVE  d = e /\ i = j
    BY DEF ListsDisjoint
  <2>1. CASE d = c /\ e = c
    BY <2>1, <1>3
  <2>2. CASE d # c /\ e # c
    BY <2>2, <1>4 DEF IInv, OwnershipInv, ListsDisjoint
  <2>3. CASE d = c /\ e # c
    BY <2>3, <1>3, <1>4, <1>8
  <2>4. CASE d # c /\ e = c
    BY <2>4, <1>3, <1>4, <1>8
  <2> QED
    BY <2>1, <2>2, <2>3, <2>4
<1>10. PendingFresh'
  <2>1. \A d \in CPU, b \in Buffer : Pending(d, b)' => Pending(d, b) /\ b < index
    BY SetFacts DEF Pending, IInv, CallbackInv
  <2>2. \A d, e \in CPU, i \in Buffer, b \in Buffer :
          Pending(d, b)' => ~(Listed(e)' /\ InList(e, i, b)')
    <3> SUFFICES ASSUME NEW d \in CPU, NEW e \in CPU, NEW i \in Buffer, NEW b \in Buffer,
                        Pending(d, b)', Listed(e)', InList(e, i, b)'
                 PROVE  FALSE
      OBVIOUS
    <3>1. CASE e = c
      <4>1. b = index /\ b < index
        BY <3>1, <1>3, <2>1
      <4> QED
        BY <4>1, <1>5
    <3>2. CASE e # c
      BY <3>2, <1>4, <2>1 DEF IInv, OwnershipInv, PendingFresh
    <3> QED
      BY <3>1, <3>2
  <2>3. \A d, e \in CPU, b \in Buffer : Pending(d, b)' /\ Pending(e, b)' => d = e
    BY <2>1 DEF IInv, OwnershipInv, PendingFresh
  <2> QED
    BY <2>2, <2>3 DEF PendingFresh
<1> QED
  BY <1>7, <1>9, <1>10 DEF OwnershipInv
\* The invariant is kept by storing a unit of trace.
LEMMA HwEmitInv ==
  ASSUME IInv, NEW c \in CPU, HwEmit(c) PROVE IInv'
<1> USE DEF HwEmit, traceVars, timerVars, controlVars
<1>1. TypeOK'
  BY HwEmitTypes DEF IInv
<1>2. PhaseInv'
  BY DEF IInv, PhaseInv, MayRun, Quiet
<1>3. CallbackInv'
  BY DEF IInv, CallbackInv
<1>4. ActiveBufferInv'
  BY DEF IInv, ActiveBufferInv, MayRun
<1>5. OwnershipInv'
  BY DEF IInv, OwnershipInv, ListedTaken, ListsDisjoint, PendingFresh, Pending, InList, Listed
<1> QED
  BY <1>1, <1>2, <1>3, <1>4, <1>5 DEF IInv

\* The invariant is kept by the start of a callback.
LEMMA TimerFiresInv ==
  ASSUME IInv, NEW c \in CPU, TimerFires(c) PROVE IInv'
<1> USE DEF TimerFires, poolVars, traceVars, hwVars, controlVars
<1>1. TypeOK'
  BY DEF IInv, TypeOK
<1>2. PhaseInv'
  BY DEF IInv, TypeOK, PhaseInv, MayRun, Quiet
<1>3. CallbackInv'
  BY DEF IInv, TypeOK, CallbackInv
<1>4. ActiveBufferInv'
  BY DEF IInv, ActiveBufferInv, MayRun
<1>5. OwnershipInv'
  <2>1. \A d \in CPU, b \in Buffer : Pending(d, b)' => Pending(d, b)
    BY DEF IInv, TypeOK, Pending
  <2> QED
    BY <2>1 DEF IInv, OwnershipInv, ListedTaken, ListsDisjoint, PendingFresh, InList, Listed
<1> QED
  BY <1>1, <1>2, <1>3, <1>4, <1>5 DEF IInv

\* The invariant is kept by the callback's request.
LEMMA StopAndRequestInv ==
  ASSUME IInv, NEW c \in CPU, StopAndRequest(c) PROVE IInv'
<1> USE DEF StopAndRequest, traceVars, controlVars
<1>0. MayRun(c) /\ Listed(c)
  BY DEF IInv, PhaseInv, Quiet, MayRun, Listed
<1>1. TypeOK'
  BY StopAndRequestTypes DEF IInv
<1>2. PhaseInv'
  <2>1. \A d \in CPU : ~MayRun(d) => Quiet(d)'
    <3> SUFFICES ASSUME NEW d \in CPU, ~MayRun(d) PROVE Quiet(d)'
      OBVIOUS
    <3>1. Quiet(d) /\ d # c
      BY <1>0 DEF IInv, PhaseInv
    <3> QED
      BY <3>1 DEF IInv, TypeOK, Quiet
  <2> QED
    BY <2>1 DEF IInv, PhaseInv, MayRun
<1>3. index <= index' /\ index' \in 0 .. PoolSize /\ index \in 0 .. PoolSize
  <2>1. index \in 0 .. PoolSize /\ index' = IndexAfterRequest
    BY DEF IInv, TypeOK
  <2>2. IndexAfterRequest \in 0 .. PoolSize
        /\ (IndexAfterRequest = index \/ IndexAfterRequest = index + 1)
    BY RequestFacts DEF IInv
  <2> QED
    BY <2>1, <2>2, SizeAssumption
<1>4. new_buf_idx'[c] = RequestedBuffer /\ callback'[c] = "switch" /\ ~hwOn'[c]
  BY DEF IInv, TypeOK
<1>5. \A d \in CPU : d # c => /\ new_buf_idx'[d] = new_buf_idx[d]
                              /\ callback'[d] = callback[d]
                              /\ hwOn'[d] = hwOn[d]
  BY DEF IInv, TypeOK
<1>6. RequestedBuffer # NoBuffer =>
        RequestedBuffer < index' /\ RequestedBuffer > active_idx[c]
  <2> SUFFICES ASSUME RequestedBuffer # NoBuffer
               PROVE  RequestedBuffer < index' /\ RequestedBuffer > active_idx[c]
    OBVIOUS
  <2>1. index \in Buffer /\ RequestedBuffer = index /\ index' = index + 1
    BY RequestFacts DEF IInv
  <2>2. index # PoolSize
    BY <2>1, SizeAssumption DEF Buffer
  <2> DEFINE b == buffer_id[c][active_idx[c]]
  <2>3. b \in Buffer /\ b >= active_idx[c] /\ active_idx[c] \in Buffer
    BY <2>2, <1>0 DEF IInv, TypeOK, ActiveBufferInv
  <2>4. b < index
    BY <2>3, <1>0, SetFacts DEF IInv, OwnershipInv, ListedTaken, InList, Buffer
  <2> QED
    BY <2>1, <2>3, <2>4 DEF Buffer
<1>7. CallbackInv'
  <2> SUFFICES ASSUME NEW d \in CPU
               PROVE  /\ callback'[d] \in {"none", "request"} => new_buf_idx'[d] = NoBuffer
                      /\ callback'[d] \in {"switch", "resume"} => ~hwOn'[d]
                      /\ callback'[d] = "switch" /\ new_buf_idx'[d] # NoBuffer =>
                           new_buf_idx'[d] < index' /\ new_buf_idx'[d] > active_idx[d]
                      /\ callback'[d] = "resume" /\ new_buf_idx'[d] # NoBuffer =>
                           new_buf_idx'[d] = buffer_id[d][active_idx[d]]
    BY DEF CallbackInv
  <2>1. CASE d = c
    BY <2>1, <1>4, <1>6
  <2>2. CASE d # c
    <3>1. new_buf_idx[d] \in Buffer \cup {NoBuffer}
      BY DEF IInv, TypeOK
    <3>2. callback[d] = "switch" /\ new_buf_idx[d] # NoBuffer =>
            new_buf_idx[d] < index'
      BY <3>1, <1>3 DEF IInv, CallbackInv, Buffer, NoBuffer
    <3> QED
      BY <2>2, <3>2, <1>5 DEF IInv, CallbackInv
  <2> QED
    BY <2>1, <2>2
<1>8. ActiveBufferInv'
  <2>1. index = PoolSize => index' = PoolSize
    BY <1>3
  <2>2. \A d \in CPU : hwOn'[d] => hwOn[d]
    BY <1>4, <1>5
  <2> QED
    BY <2>1, <2>2 DEF IInv, ActiveBufferInv, MayRun
<1>9. OwnershipInv'
  <2>1. ListedTaken'
    BY <1>3 DEF IInv, OwnershipInv, ListedTaken, InList, Listed, Buffer
  <2>2. ListsDisjoint'
    BY DEF IInv, OwnershipInv, ListsDisjoint, InList, Listed
  <2>3. \A b \in Buffer : Pending(c, b)' => b = index
    BY <1>4, RequestFacts, SetFacts DEF IInv, Pending
  <2>4. \A d \in CPU, b \in Buffer : d # c => (Pending(d, b)' <=> Pending(d, b))
    BY <1>5 DEF Pending
  <2>5. \A d \in CPU, b \in Buffer : Pending(d, b) => b < index
    BY SetFacts DEF IInv, CallbackInv, Pending
  <2>6. PendingFresh'
    <3>1. \A d, e \in CPU, i \in Buffer, b \in Buffer :
            Pending(d, b)' => ~(Listed(e) /\ InList(e, i, b))
      BY <2>3, <2>4, <1>3 DEF IInv, OwnershipInv, PendingFresh, ListedTaken
    <3>2. \A d, e \in CPU, b \in Buffer : Pending(d, b)' /\ Pending(e, b)' => d = e
      BY <2>3, <2>4, <2>5, <1>3 DEF IInv, OwnershipInv, PendingFresh
    <3> QED
      BY <3>1, <3>2 DEF PendingFresh, InList, Listed
  <2> QED
    BY <2>1, <2>2, <2>6 DEF OwnershipInv
<1> QED
  BY <1>1, <1>2, <1>7, <1>8, <1>9 DEF IInv

\* The invariant is kept by the switch of buffers.
LEMMA SwitchBufferInv ==
  ASSUME IInv, NEW c \in CPU, SwitchBuffer(c) PROVE IInv'
<1> USE DEF SwitchBuffer, poolVars, hwVars, controlVars
<1>0. MayRun(c) /\ Listed(c)
  BY DEF IInv, PhaseInv, Quiet, MayRun, Listed
<1>1. TypeOK'
  BY SwitchBufferTypes DEF IInv
<1>2. callback'[c] = "resume"
  BY DEF IInv, TypeOK
<1>3. \A d \in CPU : d # c => /\ callback'[d] = callback[d]
                              /\ new_buf_idx'[d] = new_buf_idx[d]
                              /\ active_idx'[d] = active_idx[d]
                              /\ buffer_id'[d] = buffer_id[d]
  BY ZenonT(30) DEF IInv, TypeOK, traceVars
<1>4. PhaseInv'
  <2>1. \A d \in CPU : ~MayRun(d) => Quiet(d)'
    BY <1>0, <1>3 DEF IInv, PhaseInv, Quiet
  <2> QED
    BY <2>1 DEF IInv, PhaseInv, MayRun
<1>5. ASSUME active, new_buf_idx[c] # NoBuffer PROVE IInv'
  <2>1. new_buf_idx' = new_buf_idx
    BY <1>5
  <2> DEFINE new == new_buf_idx[c]
             last == active_idx[c] + 1
  <2>2. new \in Buffer /\ active_idx[c] \in Buffer /\ index \in 0 .. PoolSize
    BY <1>5 DEF IInv, TypeOK
  <2>3. new < index /\ new > active_idx[c]
    BY <1>5 DEF IInv, CallbackInv
  <2>4. last \in Buffer /\ new >= last
    BY <2>2, <2>3, SizeAssumption DEF Buffer
  <2>5. active_idx'[c] = last
    BY <1>5 DEF IInv, TypeOK
  <2>6. /\ buffer_id'[c][last] = new
        /\ \A i \in Buffer : i # last => buffer_id'[c][i] = buffer_id[c][i]
    BY <1>5, <2>4 DEF IInv, TypeOK
  <2>7. Pending(c, new)
    BY DEF Pending
  <2>8. \A d \in CPU, b \in Buffer : Pending(d, b)' => Pending(d, b) /\ d # c
    BY <1>2, <1>3 DEF Pending
  <2>9. \A d \in CPU, i \in Buffer, b \in Buffer :
          InList(d, i, b)' => InList(d, i, b) \/ (d = c /\ i = last /\ b = new)
    <3> SUFFICES ASSUME NEW d \in CPU, NEW i \in Buffer, NEW b \in Buffer, InList(d, i, b)'
                 PROVE  InList(d, i, b) \/ (d = c /\ i = last /\ b = new)
      OBVIOUS
    <3>1. CASE d # c
      BY <3>1, <1>3 DEF InList
    <3>2. CASE d = c /\ i = last
      BY <3>2, <2>6 DEF InList
    <3>3. CASE d = c /\ i # last
      <4>1. buffer_id[c][i] = b /\ i <= last
        BY <3>3, <2>5, <2>6 DEF InList
      <4>2. i <= active_idx[c]
        BY <4>1, <3>3, <2>2 DEF Buffer
      <4> QED
        BY <3>3, <4>1, <4>2 DEF InList
    <3> QED
      BY <3>1, <3>2, <3>3
  <2> HIDE DEF new, last
  <2>10. CallbackInv'
    <3> SUFFICES ASSUME NEW d \in CPU
                 PROVE  /\ callback'[d] \in {"none", "request"} => new_buf_idx'[d] = NoBuffer
                        /\ callback'[d] \in {"switch", "resume"} => ~hwOn[d]
                        /\ callback'[d] = "switch" /\ new_buf_idx'[d] # NoBuffer =>
                             new_buf_idx'[d] < index /\ new_buf_idx'[d] > active_idx'[d]
                        /\ callback'[d] = "resume" /\ new_buf_idx'[d] # NoBuffer =>
                             new_buf_idx'[d] = buffer_id'[d][active_idx'[d]]
      BY DEF CallbackInv
    <3>1. CASE d = c
      BY <3>1, <1>2, <2>1, <2>5, <2>6 DEF IInv, CallbackInv, new
    <3>2. CASE d # c
      BY <3>2, <1>3 DEF IInv, CallbackInv
    <3> QED
      BY <3>1, <3>2
  <2>11. ActiveBufferInv'
    <3>1. ~hwOn[c]
      BY DEF IInv, CallbackInv
    <3>2. new # NoBuffer
      BY <2>2, SetFacts
    <3>3. buffer_id'[c][active_idx'[c]] = new /\ new >= active_idx'[c]
      BY <2>4, <2>5, <2>6
    <3> SUFFICES ASSUME NEW d \in CPU
                 PROVE  /\ hwOn[d] => hwBase[d] = buffer_id'[d][active_idx'[d]]
                        /\ MayRun(d) =>
                             IF buffer_id'[d][active_idx'[d]] = NoBuffer
                             THEN index = PoolSize
                             ELSE buffer_id'[d][active_idx'[d]] >= active_idx'[d]
      BY DEF ActiveBufferInv, MayRun
    <3>4. CASE d = c
      BY <3>1, <3>2, <3>3, <3>4
    <3>5. CASE d # c
      BY <3>5, <1>3 DEF IInv, ActiveBufferInv
    <3> QED
      BY <3>4, <3>5
  <2>12. \A d \in CPU : Listed(d)' <=> Listed(d)
    BY DEF Listed
  <2>13. ListedTaken'
    BY <2>2, <2>3, <2>9, <2>12 DEF IInv, OwnershipInv, ListedTaken, new
  <2>14. \A d \in CPU, i \in Buffer : ~(Listed(d) /\ InList(d, i, new))
    BY <2>2, <2>7 DEF IInv, OwnershipInv, PendingFresh, new
  <2>15. ListsDisjoint'
    BY <2>9, <2>12, <2>14 DEF IInv, OwnershipInv, ListsDisjoint
  <2>16. PendingFresh'
    <3>1. \A d \in CPU, b \in Buffer : Pending(d, b)' => b # new
      BY <2>2, <2>7, <2>8 DEF IInv, OwnershipInv, PendingFresh
    <3>2. \A d, e \in CPU, i \in Buffer, b \in Buffer :
            Pending(d, b)' => ~(Listed(e)' /\ InList(e, i, b)')
      BY <3>1, <2>8, <2>9, <2>12 DEF IInv, OwnershipInv, PendingFresh
    <3>3. \A d, e \in CPU, b \in Buffer : Pending(d, b)' /\ Pending(e, b)' => d = e
      BY <2>8 DEF IInv, OwnershipInv, PendingFresh
    <3> QED
      BY <3>2, <3>3 DEF PendingFresh
  <2> QED
    BY <1>1, <1>4, <2>10, <2>11, <2>13, <2>15, <2>16 DEF IInv, OwnershipInv
<1>6. ASSUME ~(active /\ new_buf_idx[c] # NoBuffer) PROVE IInv'
  <2>1. UNCHANGED <<active_idx, buffer_id>> /\ new_buf_idx'[c] = NoBuffer
    BY <1>6 DEF IInv, TypeOK, traceVars
  <2>2. CallbackInv'
    BY <1>2, <1>3, <2>1 DEF IInv, CallbackInv
  <2>3. ActiveBufferInv'
    BY <2>1 DEF IInv, ActiveBufferInv, MayRun
  <2>4. \A d \in CPU, b \in Buffer : Pending(d, b)' => Pending(d, b)
    BY <1>2, <1>3 DEF Pending
  <2>5. OwnershipInv'
    BY <2>1, <2>4 DEF IInv, OwnershipInv, ListedTaken, ListsDisjoint, PendingFresh, InList, Listed
  <2> QED
    BY <1>1, <1>4, <2>2, <2>3, <2>5 DEF IInv
<1> QED
  BY <1>5, <1>6

\* The invariant is kept by the end of a callback.
LEMMA FinishCallbackInv ==
  ASSUME IInv, NEW c \in CPU, FinishCallback(c) PROVE IInv'
<1> USE DEF FinishCallback, TimerOff, NewBase, poolVars, traceVars, controlVars
<1>0. MayRun(c)
  BY DEF IInv, PhaseInv, Quiet, MayRun
<1>1. TypeOK'
  BY FinishCallbackTypes DEF IInv
<1>2. /\ callback'[c] = "none" /\ new_buf_idx'[c] = NoBuffer
      /\ \A d \in CPU : d # c => /\ callback'[d] = callback[d]
                                 /\ new_buf_idx'[d] = new_buf_idx[d]
                                 /\ hwOn'[d] = hwOn[d]
                                 /\ hwBase'[d] = hwBase[d]
                                 /\ timer'[d] = timer[d]
  BY DEF IInv, TypeOK
<1>3. PhaseInv'
  <2>1. \A d \in CPU : ~MayRun(d) => Quiet(d)'
    BY <1>0, <1>2 DEF IInv, PhaseInv, Quiet
  <2> QED
    BY <2>1 DEF IInv, PhaseInv, MayRun
<1>4. CallbackInv'
  BY <1>2 DEF IInv, CallbackInv
<1>5. ActiveBufferInv'
  <2>1. hwOn'[c] => hwBase'[c] = buffer_id[c][active_idx[c]]
    BY DEF IInv, TypeOK
  <2>2. \A d \in CPU : hwOn'[d] => hwBase'[d] = buffer_id[d][active_idx[d]]
    BY <2>1, <1>2 DEF IInv, ActiveBufferInv
  <2> QED
    BY <2>2 DEF IInv, ActiveBufferInv, MayRun
<1>6. OwnershipInv'
  <2>1. \A d \in CPU, b \in Buffer : Pending(d, b)' => Pending(d, b)
    BY <1>2 DEF Pending
  <2> QED
    BY <2>1 DEF IInv, OwnershipInv, ListedTaken, ListsDisjoint, PendingFresh, InList, Listed
<1> QED
  BY <1>1, <1>3, <1>4, <1>5, <1>6 DEF IInv

\* The invariant is kept by a schedule message.
LEMMA SendScheduleInv ==
  ASSUME IInv, NEW c \in CPU, SendSchedule(c) PROVE IInv'
<1> USE DEF SendSchedule, poolVars, traceVars, hwVars, timerVars, controlVars
<1>1. TypeOK'
  BY SendScheduleTypes DEF IInv
<1> QED
  BY <1>1 DEF IInv, PhaseInv, MayRun, Quiet, CallbackInv, ActiveBufferInv, OwnershipInv,
     ListedTaken, ListsDisjoint, PendingFresh, Pending, InList, Listed

\* The invariant is kept by a write to trace_enable.
LEMMA WriteControlInv ==
  ASSUME IInv, NEW value \in {0, 1}, WriteControl(value) PROVE IInv'
<1> USE DEF WriteControl, poolVars, traceVars, hwVars, timerVars
<1>1. TypeOK'
  BY WriteControlTypes DEF IInv
<1>2. /\ control = "idle" /\ cpu = 0 /\ cpu' = 0
      /\ \/ capture_on = 0 /\ capture_on' = 1 /\ control' = "clear"
         \/ capture_on = 1 /\ capture_on' = 0 /\ control' = "stop"
  BY DEF IInv, TypeOK, PhaseInv
<1>3. \A c \in CPU : MayRun(c)' <=> MayRun(c) /\ capture_on = 1
  BY <1>2, SetFacts DEF MayRun, CPU
<1>4. PhaseInv'
  <2>1. \A c \in CPU : ~MayRun(c)' => Quiet(c)'
    <3>1. \A c \in CPU : ~MayRun(c)' => ~MayRun(c)
      BY <1>2, <1>3 DEF MayRun
    <3> QED
      BY <3>1 DEF IInv, PhaseInv, Quiet
  <2> QED
    BY <1>2, <2>1 DEF PhaseInv
<1>5. CallbackInv'
  BY DEF IInv, CallbackInv
<1>6. ActiveBufferInv'
  BY <1>3 DEF IInv, ActiveBufferInv
<1>7. OwnershipInv'
  <2>1. \A c \in CPU : Listed(c) /\ Listed(c)'
    BY <1>2 DEF Listed
  <2> QED
    BY <2>1 DEF IInv, OwnershipInv, ListedTaken, ListsDisjoint, PendingFresh, Pending, InList
<1> QED
  BY <1>1, <1>4, <1>5, <1>6, <1>7 DEF IInv

\* The invariant is kept by clear_offset.
LEMMA ClearOffsetInv ==
  ASSUME IInv, ClearOffset PROVE IInv'
<1> USE DEF ClearOffset, timerVars
<1>1. TypeOK'
  BY ClearOffsetTypes DEF IInv
<1>2. /\ cpu \in CPU /\ cpu' \in CPU
      /\ control = "clear" /\ capture_on = 1 /\ capture_on' = 1
      /\ \/ cpu' = cpu + 1 /\ control' = "clear"
         \/ cpu' = 0 /\ control' = "activate"
  BY NextCpuFacts DEF IInv, TypeOK, PhaseInv
<1>3. \A c \in CPU : Quiet(c) /\ Quiet(c)' /\ ~MayRun(c)' /\ Listed(c) /\ Listed(c)'
  BY <1>2 DEF IInv, PhaseInv, MayRun, Listed, Quiet
<1>4. PhaseInv'
  BY <1>2, <1>3 DEF PhaseInv
<1>5. CallbackInv'
  BY <1>3 DEF IInv, CallbackInv, Quiet
<1>6. ActiveBufferInv'
  BY <1>3 DEF ActiveBufferInv, Quiet
<1>7. OwnershipInv'
  BY <1>2, <1>3, ResetOwnership DEF IInv, Quiet
<1> QED
  BY <1>1, <1>4, <1>5, <1>6, <1>7 DEF IInv

\* The invariant is kept by the reset of the sideband.
LEMMA ActivateSidebandInv ==
  ASSUME IInv, ActivateSideband PROVE IInv'
<1> USE DEF ActivateSideband, traceVars, timerVars
<1>1. TypeOK'
  BY ActivateSidebandTypes DEF IInv
<1>2. PhaseInv'
  BY DEF IInv, PhaseInv, MayRun, Quiet
<1>3. CallbackInv'
  BY DEF IInv, CallbackInv
<1>4. ActiveBufferInv'
  BY DEF IInv, ActiveBufferInv, MayRun
<1>5. OwnershipInv'
  BY DEF IInv, OwnershipInv, ListedTaken, ListsDisjoint, PendingFresh, Pending, InList, Listed
<1> QED
  BY <1>1, <1>2, <1>3, <1>4, <1>5 DEF IInv

\* The invariant is kept by the reset of the pool.
LEMMA ReinitPoolInv ==
  ASSUME IInv, ReinitPool PROVE IInv'
<1> USE DEF ReinitPool, traceVars, hwVars, timerVars
<1>1. TypeOK'
  BY ReinitPoolTypes DEF IInv
<1>2. control = "reinit" /\ control' = "start" /\ cpu = 0 /\ cpu' = 0 /\ capture_on' = 1
  BY DEF IInv, PhaseInv
<1>3. \A c \in CPU : Quiet(c) /\ Quiet(c)' /\ ~MayRun(c)' /\ ~Listed(c)'
  BY <1>2, SetFacts DEF IInv, PhaseInv, MayRun, Listed, Quiet, CPU
<1>4. PhaseInv'
  BY <1>2, <1>3 DEF PhaseInv
<1>5. CallbackInv'
  BY <1>3 DEF IInv, CallbackInv, Quiet
<1>6. ActiveBufferInv'
  BY <1>3 DEF ActiveBufferInv, Quiet
<1>7. \A c \in CPU, b \in Buffer : ~Pending(c, b)'
  BY <1>3 DEF Pending, Quiet
<1>8. OwnershipInv'
  BY <1>3, <1>7 DEF OwnershipInv, ListedTaken, ListsDisjoint, PendingFresh
<1> QED
  BY <1>1, <1>4, <1>5, <1>6, <1>8 DEF IInv

\* The invariant is kept by the start of a CPU.
LEMMA StartCpuInv ==
  ASSUME IInv, StartCpu PROVE IInv'
<1> USE DEF StartCpu
<1>1. TypeOK'
  BY StartCpuTypes DEF IInv
<1>2. /\ cpu \in CPU /\ cpu' \in CPU
      /\ control = "start" /\ capture_on = 1 /\ capture_on' = 1
      /\ \/ cpu' = cpu + 1 /\ control' = "start"
         \/ cpu' = 0 /\ control' = "idle" /\ cpu = NCPU - 1
  BY NextCpuFacts DEF IInv, TypeOK, PhaseInv
<1>3. \A c \in CPU : /\ MayRun(c)' <=> MayRun(c) \/ c = cpu
                     /\ Listed(c)' <=> Listed(c) \/ c = cpu
                     /\ MayRun(c) <=> Listed(c)
                     /\ ~MayRun(cpu)
  BY <1>2 DEF MayRun, Listed, CPU
<1>4. \A c \in CPU : c # cpu => /\ hwOn'[c] = hwOn[c] /\ hwBase'[c] = hwBase[c]
                                /\ timer'[c] = timer[c]
                                /\ active_idx'[c] = active_idx[c]
                                /\ buffer_id'[c] = buffer_id[c]
  BY DEF IInv, TypeOK, ResetTraceBuffers
<1>5. /\ active_idx'[cpu] = 0
      /\ buffer_id'[cpu][0] = RequestedBuffer
      /\ hwBase'[cpu] = RequestedBuffer
      /\ index' = IndexAfterRequest
  BY <1>2, SetFacts DEF IInv, TypeOK, ResetTraceBuffers
<1>6. index \in 0 .. PoolSize /\ index' \in 0 .. PoolSize /\ index <= index'
  BY SMTT(30), <1>5, RequestFacts, SizeAssumption DEF IInv, TypeOK
<1>7. PhaseInv'
  <2>1. \A c \in CPU : ~MayRun(c)' => Quiet(c)'
    BY <1>3, <1>4 DEF IInv, PhaseInv, Quiet
  <2> QED
    BY <1>2, <2>1 DEF PhaseInv
<1>8. CallbackInv'
  <2> SUFFICES ASSUME NEW c \in CPU
               PROVE  /\ callback[c] \in {"none", "request"} => new_buf_idx[c] = NoBuffer
                      /\ callback[c] \in {"switch", "resume"} => ~hwOn'[c]
                      /\ callback[c] = "switch" /\ new_buf_idx[c] # NoBuffer =>
                           new_buf_idx[c] < index' /\ new_buf_idx[c] > active_idx'[c]
                      /\ callback[c] = "resume" /\ new_buf_idx[c] # NoBuffer =>
                           new_buf_idx[c] = buffer_id'[c][active_idx'[c]]
    BY DEF CallbackInv
  <2>1. CASE c = cpu
    BY <2>1 DEF IInv, CallbackInv
  <2>2. CASE c # cpu
    <3>1. new_buf_idx[c] \in Buffer \cup {NoBuffer}
      BY DEF IInv, TypeOK
    <3>2. callback[c] = "switch" /\ new_buf_idx[c] # NoBuffer => new_buf_idx[c] < index'
      BY <3>1, <1>6 DEF IInv, CallbackInv, Buffer, NoBuffer
    <3> QED
      BY <2>2, <3>2, <1>4 DEF IInv, CallbackInv
  <2> QED
    BY <2>1, <2>2
<1>9. ActiveBufferInv'
  <2> SUFFICES ASSUME NEW c \in CPU
               PROVE  /\ hwOn'[c] => hwBase'[c] = buffer_id'[c][active_idx'[c]]
                      /\ MayRun(c)' =>
                           IF buffer_id'[c][active_idx'[c]] = NoBuffer
                           THEN index' = PoolSize
                           ELSE buffer_id'[c][active_idx'[c]] >= active_idx'[c]
    BY DEF ActiveBufferInv
  <2>1. CASE c = cpu
    <3>1. RequestedBuffer = NoBuffer => index' = PoolSize
      BY <1>5, RequestFacts, SetFacts DEF IInv
    <3>2. RequestedBuffer # NoBuffer => RequestedBuffer >= 0
      BY RequestFacts DEF IInv, Buffer
    <3> QED
      BY <2>1, <1>5, <3>1, <3>2
  <2>2. CASE c # cpu
    <3>1. index = PoolSize => index' = PoolSize
      BY <1>6
    <3> QED
      BY <2>2, <3>1, <1>3, <1>4 DEF IInv, ActiveBufferInv
  <2> QED
    BY <2>1, <2>2
<1>10. OwnershipInv'
  BY <1>2, <1>3, ResetOwnership DEF IInv
<1> QED
  BY <1>1, <1>7, <1>8, <1>9, <1>10 DEF IInv

\* The invariant is kept by the stop of a CPU.
LEMMA StopCpuInv ==
  ASSUME IInv, StopCpu PROVE IInv'
<1> USE DEF StopCpu, TimerOff, poolVars
<1>1. TypeOK'
  BY StopCpuTypes DEF IInv
<1>2. /\ cpu \in CPU /\ cpu' \in CPU
      /\ control = "stop" /\ capture_on = 0 /\ capture_on' = 0
      /\ \/ cpu' = cpu + 1 /\ control' = "stop"
         \/ cpu' = 0 /\ control' = "idle" /\ cpu = NCPU - 1
  BY NextCpuFacts DEF IInv, TypeOK, PhaseInv
<1>3. \A c \in CPU : MayRun(c)' <=> MayRun(c) /\ c # cpu
  BY <1>2 DEF MayRun, CPU
<1>4. /\ ~hwOn'[cpu] /\ ~timer'[cpu]
      /\ \A c \in CPU : c # cpu => hwOn'[c] = hwOn[c] /\ timer'[c] = timer[c]
  BY <1>2 DEF IInv, TypeOK
<1>5. PhaseInv'
  <2>1. \A c \in CPU : ~MayRun(c)' => Quiet(c)'
    BY <1>3, <1>4 DEF IInv, PhaseInv, Quiet
  <2> QED
    BY <1>2, <2>1 DEF PhaseInv
<1>6. \A c \in CPU : hwOn'[c] => hwOn[c]
  BY <1>2, <1>4
<1>7. CallbackInv'
  BY <1>6 DEF IInv, CallbackInv
<1>8. ActiveBufferInv'
  BY <1>3, <1>6 DEF IInv, ActiveBufferInv
<1>9. OwnershipInv'
  <2>1. \A c \in CPU : Listed(c) /\ Listed(c)'
    BY <1>2 DEF Listed
  <2> QED
    BY <2>1 DEF IInv, OwnershipInv, ListedTaken, ListsDisjoint, PendingFresh, Pending, InList
<1> QED
  BY <1>1, <1>5, <1>7, <1>8, <1>9 DEF IInv

\* Disjoint lists, and the hardware at the end of its own, leave no buffer to
\* overwrite.
LEMMA ListsNotOverwritten == IInv => NoOverwrite
<1> SUFFICES ASSUME IInv, NEW c \in CPU, NEW d \in CPU,
                    hwOn[c], hwBase[c] \in Buffer, Listed(d),
                    NEW i \in 0 .. active_idx[d], buffer_id[d][i] = hwBase[c]
             PROVE  d = c /\ i = active_idx[d]
  BY DEF NoOverwrite
<1>1. active_idx[c] \in Buffer /\ active_idx[d] \in Buffer
  BY DEF IInv, TypeOK
<1>2. i \in Buffer
  BY <1>1, SizeAssumption DEF Buffer
<1>3. Listed(c)
  BY DEF IInv, PhaseInv, Quiet, MayRun, Listed
<1>4. InList(c, active_idx[c], hwBase[c])
  BY <1>1 DEF IInv, ActiveBufferInv, InList, Buffer
<1>5. InList(d, i, hwBase[c])
  BY <1>1 DEF InList, Buffer
<1> QED
  BY <1>1, <1>2, <1>3, <1>4, <1>5 DEF IInv, OwnershipInv, ListsDisjoint

-----------------------------------------------------------------------------
(* The theorems *)

\* The inductive invariant holds in every state of the buffers.
THEOREM Invariance == Spec => []IInv
<1>1. Init => IInv
  BY InitInv
<1>2. IInv /\ [Next]_vars => IInv'
  <2> SUFFICES ASSUME IInv, [Next]_vars PROVE IInv'
    OBVIOUS
  <2>1. ASSUME NEW c \in CPU, HwEmit(c) PROVE IInv'
    BY <2>1, HwEmitInv
  <2>2. ASSUME NEW c \in CPU, TimerFires(c) PROVE IInv'
    BY <2>2, TimerFiresInv
  <2>3. ASSUME NEW c \in CPU, StopAndRequest(c) PROVE IInv'
    BY <2>3, StopAndRequestInv
  <2>4. ASSUME NEW c \in CPU, SwitchBuffer(c) PROVE IInv'
    BY <2>4, SwitchBufferInv
  <2>5. ASSUME NEW c \in CPU, FinishCallback(c) PROVE IInv'
    BY <2>5, FinishCallbackInv
  <2>6. ASSUME NEW c \in CPU, SendSchedule(c) PROVE IInv'
    BY <2>6, SendScheduleInv
  <2>7. ASSUME NEW value \in {0, 1}, WriteControl(value) PROVE IInv'
    BY <2>7, WriteControlInv
  <2>8. CASE ClearOffset
    BY <2>8, ClearOffsetInv
  <2>9. CASE ActivateSideband
    BY <2>9, ActivateSidebandInv
  <2>10. CASE ReinitPool
    BY <2>10, ReinitPoolInv
  <2>11. CASE StartCpu
    BY <2>11, StartCpuInv
  <2>12. CASE StopCpu
    BY <2>12, StopCpuInv
  <2>13. CASE UNCHANGED vars
    BY <2>13 DEF vars, poolVars, traceVars, hwVars, timerVars, controlVars, IInv, TypeOK,
       PhaseInv, MayRun, Quiet, CallbackInv, ActiveBufferInv, OwnershipInv, ListedTaken,
       ListsDisjoint, PendingFresh, Pending, InList, Listed
  <2> QED
    BY <2>1, <2>2, <2>3, <2>4, <2>5, <2>6, <2>7, <2>8, <2>9, <2>10, <2>11, <2>12, <2>13
    DEF Next
<1> QED
  BY <1>1, <1>2, PTL DEF Spec

\* No list of buffers is ever indexed beyond the pool's size and no offset
\* reaches the buffer's end, for any number of CPUs and buffers.
THEOREM TypesCorrect == Spec => []TypeOK
<1>1. IInv => TypeOK
  BY DEF IInv
<1> QED
  BY <1>1, Invariance, PTL

\* A stop leaves nothing running on any CPU, so the next start resets the
\* pool's index with nobody in request_trace_buffer.
THEOREM RestBetweenRecordings == Spec => []QuietBetweenRecordings
<1>1. IInv => QuietBetweenRecordings
  BY DEF IInv, PhaseInv, MayRun, QuietBetweenRecordings
<1> QED
  BY <1>1, Invariance, PTL

\* The hardware of a CPU writes into no buffer of any CPU's list but the last
\* of its own.
THEOREM BuffersNotOverwritten == Spec => []NoOverwrite
BY ListsNotOverwritten, Invariance, PTL


-----------------------------------------------------------------------------
(* Sums and pieces *)

\* The running total of a list of offsets.
LEMMA TotalFacts ==
  ASSUME NEW list \in [Buffer -> Nat]
  PROVE  /\ Total(list, 0) = 0
         /\ \A i \in 0 .. PoolSize : Total(list, i) \in Nat
         /\ \A i \in Buffer : Total(list, i + 1) = Total(list, i) + list[i]
<1> DEFINE Counts(f) == f = [i \in 0 .. PoolSize |-> IF i = 0 THEN 0 ELSE f[i - 1] + list[i - 1]]
           counter == CHOOSE f : Counts(f)
<1>1. \E f : Counts(f)
  <2> DEFINE step == [i \in 1 .. PoolSize |-> [v \in Nat |-> v + list[i - 1]]]
  <2>1. PoolSize \in Nat
    BY SizeAssumption
  <2>2. step \in [1 .. PoolSize -> [Nat -> Nat]]
    <3>1. \A i \in 1 .. PoolSize : list[i - 1] \in Nat
      BY <2>1 DEF Buffer
    <3>2. \A i \in 1 .. PoolSize : [v \in Nat |-> v + list[i - 1]] \in [Nat -> Nat]
      BY <3>1
    <3> QED
      BY <3>2
  <2>3. 0 \in Nat
    OBVIOUS
  <2> HIDE DEF step
  <2>4. PICK g \in [0 .. PoolSize -> Nat] : Rounds(g, PoolSize, 0, step)
    BY <2>2, <2>1, <2>3, LoopExists
  <2>5. \A i \in 1 .. PoolSize : g[i - 1] \in Nat
    BY <2>1
  <2>6. \A i \in 1 .. PoolSize : g[i] = g[i - 1] + list[i - 1]
    BY <2>4, <2>5 DEF step, Rounds
  <2>7. Counts(g)
    BY <2>4, <2>6, <2>1 DEF Rounds
  <2> QED
    BY <2>7
<1>2. Counts(counter)
  BY <1>1
<1>3. \A i \in 0 .. PoolSize : Total(list, i) = counter[i]
  BY DEF Total
<1> HIDE DEF counter
<1>4. counter[0] = 0 /\ \A i \in Buffer : counter[i + 1] = counter[i] + list[i]
  BY <1>2, SizeAssumption DEF Buffer
<1> DEFINE S == {i \in Nat : i <= PoolSize => counter[i] \in Nat}
<1>5. Nat \subseteq S
  <2>1. 0 \in S
    BY <1>4
  <2>2. \A i \in Nat : i \in S => i + 1 \in S
    BY <1>4, SizeAssumption DEF Buffer
  <2> HIDE DEF S
  <2> QED
    BY <2>1, <2>2, SetInduction
<1>6. \A i \in 0 .. PoolSize : counter[i] \in Nat
  BY <1>5, SizeAssumption
<1>7. \A i \in Buffer : i \in 0 .. PoolSize /\ i + 1 \in 0 .. PoolSize
  BY SizeAssumption DEF Buffer
<1>8. 0 \in 0 .. PoolSize
  BY SizeAssumption
<1> QED
  BY <1>3, <1>4, <1>6, <1>7, <1>8

\* It depends on the offsets in front only.
LEMMA TotalPrefix ==
  ASSUME NEW list \in [Buffer -> Nat], NEW other \in [Buffer -> Nat],
         NEW n \in 0 .. PoolSize, \A i \in 0 .. n - 1 : other[i] = list[i]
  PROVE  Total(other, n) = Total(list, n)
<1> DEFINE S == {i \in Nat : i <= n => Total(other, i) = Total(list, i)}
<1>1. 0 \in S
  BY TotalFacts
<1>2. \A i \in Nat : i \in S => i + 1 \in S
  <2> SUFFICES ASSUME NEW i \in Nat, i \in S, i + 1 <= n
               PROVE  Total(other, i + 1) = Total(list, i + 1)
    OBVIOUS
  <2>1. i \in Buffer /\ i \in 0 .. n - 1
    BY SizeAssumption DEF Buffer
  <2> QED
    BY <2>1, TotalFacts
<1> HIDE DEF S
<1>3. n \in S
  BY <1>1, <1>2, SetInduction, SizeAssumption
<1> QED
  BY <1>3 DEF S

\* Pieces of data put one after the other.
LEMMA JoinedFacts ==
  ASSUME NEW D, NEW pieces \in [Buffer -> Seq(D)]
  PROVE  /\ Joined(pieces, 0) = <<>>
         /\ \A i \in Buffer : Joined(pieces, i + 1) = Joined(pieces, i) \o pieces[i]
<1> DEFINE Joins(f) == f = [i \in 0 .. PoolSize |->
                              IF i = 0 THEN <<>> ELSE f[i - 1] \o pieces[i - 1]]
           joined == CHOOSE f : Joins(f)
<1>1. \E f : Joins(f)
  <2> DEFINE step == [i \in 1 .. PoolSize |-> [v \in Seq(D) |-> v \o pieces[i - 1]]]
             T == Seq(D)
             none == <<>>
  <2>1. PoolSize \in Nat
    BY SizeAssumption
  <2>2. step \in [1 .. PoolSize -> [Seq(D) -> Seq(D)]]
    <3>1. \A i \in 1 .. PoolSize : pieces[i - 1] \in Seq(D)
      BY <2>1 DEF Buffer
    <3>2. \A i \in 1 .. PoolSize : [v \in Seq(D) |-> v \o pieces[i - 1]] \in [Seq(D) -> Seq(D)]
      BY <3>1
    <3> QED
      BY <3>2
  <2>3. none \in Seq(D)
    OBVIOUS
  <2> HIDE DEF step, T, none
  <2>4. PICK g \in [0 .. PoolSize -> T] : Rounds(g, PoolSize, none, step)
    BY <2>1, <2>2, <2>3, LoopExists DEF T
  <2>5. \A i \in 1 .. PoolSize : g[i - 1] \in Seq(D)
    BY <2>1 DEF T
  <2>6. \A i \in 1 .. PoolSize : g[i] = g[i - 1] \o pieces[i - 1]
    BY <2>4, <2>5 DEF step, Rounds
  <2>7. g[0] = <<>>
    BY <2>4 DEF Rounds, none
  <2>8. \A i \in 0 .. PoolSize : g[i] = IF i = 0 THEN <<>> ELSE g[i - 1] \o pieces[i - 1]
    <3> SUFFICES ASSUME NEW i \in 0 .. PoolSize
                 PROVE  g[i] = IF i = 0 THEN <<>> ELSE g[i - 1] \o pieces[i - 1]
      OBVIOUS
    <3>1. CASE i = 0
      BY <3>1, <2>7
    <3>2. CASE i # 0
      <4>1. i \in 1 .. PoolSize
        BY <3>2, <2>1
      <4> QED
        BY <3>2, <4>1, <2>6
    <3> QED
      BY <3>1, <3>2
  <2>9. Joins(g)
    BY <2>8, Zenon
  <2> QED
    BY <2>9
<1>2. Joins(joined)
  BY <1>1
<1>3. \A i \in 0 .. PoolSize : Joined(pieces, i) = joined[i]
  BY DEF Joined
<1> HIDE DEF joined
<1>4. joined[0] = <<>> /\ \A i \in Buffer : joined[i + 1] = joined[i] \o pieces[i]
  <2>1. \A i \in 0 .. PoolSize : joined[i] = IF i = 0 THEN <<>> ELSE joined[i - 1] \o pieces[i - 1]
    BY <1>2, Zenon
  <2>2. joined[0] = <<>>
    BY <2>1, SizeAssumption
  <2>3. \A i \in Buffer : i + 1 \in 0 .. PoolSize /\ i + 1 # 0 /\ (i + 1) - 1 = i
    BY SizeAssumption DEF Buffer
  <2> QED
    BY <2>1, <2>2, <2>3
<1>5. \A i \in Buffer : i \in 0 .. PoolSize /\ i + 1 \in 0 .. PoolSize
  BY SizeAssumption DEF Buffer
<1>6. 0 \in 0 .. PoolSize
  BY SizeAssumption
<1> QED
  BY <1>3, <1>4, <1>5, <1>6

\* The first n items of data.
FirstOf(data, n) == [k \in 1 .. n |-> data[k]]

\* Each of the first n pieces is what the data has in its place: it starts
\* where the pieces in front of it end, and is as long as the list says.
Covers(pieces, list, data, n) ==
  \A i \in 0 .. n - 1 :
    pieces[i] = [k \in 1 .. list[i] |-> data[Total(list, i) + k]]

\* Such pieces, one after the other, are a prefix of the data.
LEMMA JoinedIsPrefix ==
  ASSUME NEW D, NEW data \in [Nat -> D], NEW list \in [Buffer -> Nat],
         NEW pieces \in [Buffer -> Seq(D)], NEW n \in 0 .. PoolSize,
         Covers(pieces, list, data, n)
  PROVE  Joined(pieces, n) = FirstOf(data, Total(list, n))
<1> DEFINE Prefix(m) == Joined(pieces, m) = [k \in 1 .. Total(list, m) |-> data[k]]
           S == {m \in Nat : m <= n => Prefix(m)}
<1> HIDE DEF Prefix
<1>1. 0 \in S
  <2>1. Total(list, 0) = 0 /\ Joined(pieces, 0) = <<>>
    BY JoinedFacts, TotalFacts
  <2>2. [k \in 1 .. 0 |-> data[k]] = <<>>
    OBVIOUS
  <2> QED
    BY <2>1, <2>2 DEF Prefix
<1>2. \A m \in Nat : m \in S => m + 1 \in S
  <2> SUFFICES ASSUME NEW m \in Nat, m \in S, m + 1 <= n
               PROVE  Prefix(m + 1)
    OBVIOUS
  <2>1. m \in Buffer /\ m \in 0 .. n - 1 /\ m \in 0 .. PoolSize
    BY SizeAssumption DEF Buffer
  <2> DEFINE a == Total(list, m)
             b == list[m]
  <2>2. a \in Nat /\ b \in Nat /\ Total(list, m + 1) = a + b
    BY <2>1, TotalFacts
  <2>3. Joined(pieces, m) = [k \in 1 .. a |-> data[k]]
    BY <2>1 DEF Prefix
  <2>4. pieces[m] = [k \in 1 .. b |-> data[a + k]]
    BY <2>1 DEF Covers
  <2>5. Joined(pieces, m + 1) = Joined(pieces, m) \o pieces[m]
    BY <2>1, JoinedFacts
  <2> HIDE DEF a, b
  <2>6. [k \in 1 .. a |-> data[k]] \o [k \in 1 .. b |-> data[a + k]]
          = [k \in 1 .. a + b |-> data[k]]
    BY <2>2
  <2> QED
    BY <2>2, <2>3, <2>4, <2>5, <2>6 DEF Prefix
<1> HIDE DEF S
<1>3. n \in S
  BY SMTT(30), <1>1, <1>2, SetInduction, SizeAssumption
<1> QED
  BY <1>3 DEF S, Prefix, FirstOf

-----------------------------------------------------------------------------
(* The inductive invariant *)

\* A start in progress has thrown CPU c's recording away.
Cleared(c) ==
  \/ control \in {"activate", "reinit"}
  \/ control = "clear" /\ c < cpu
  \/ control = "start" /\ c >= cpu

\* What the history variables say of CPU c is of the recording its list is of.
Valid(c) == control # "activate" /\ (control = "clear" => c >= cpu)

\* The recording of CPU c is over.
Closed(c) ==
  \/ control = "idle" /\ capture_on = 0
  \/ control = "stop" /\ c < cpu

\* Outside of callbacks the timer runs when the hardware does.
TimerOk(c) ==
  /\ hwOn[c] => timer[c]
  /\ callback[c] # "none" => timer[c]
  /\ timer[c] /\ callback[c] = "none" => hwOn[c]

\* The list: size is the total of its offsets, the buffer in use is open
\* while the timer runs, and past the first place there is a buffer.
ListOk(c) ==
  /\ size[c] = Before(c, active_idx[c] + 1)
  /\ \A i \in Buffer : i > active_idx[c] => offsets[c][i] = 0
  /\ timer[c] /\ ~(callback[c] = "resume" /\ new_buf_idx[c] = NoBuffer) =>
       offsets[c][active_idx[c]] = 0
  /\ offsets[c][active_idx[c]] # 0 => offsets[c][active_idx[c]] = hwOffset[c]
  /\ \A i \in 1 .. active_idx[c] : buffer_id[c][i] # NoBuffer
  /\ active_idx[c] > 0 \/ new_buf_idx[c] # NoBuffer => buffer_id[c][0] # NoBuffer

\* Nothing is left of a recording that was thrown away.
ClearedOk(c) ==
  Cleared(c) =>
    /\ active_idx[c] = 0
    /\ offsets[c][0] = 0
    /\ hwOffset[c] = 0
    /\ Valid(c) => /\ emitted[c] = 0
                   /\ ~late[c]
                   /\ sched[c].buff_offset = sched[c].position

\* Every unit recorded is in the list's buffers, in its place.
ContentOk(c) ==
  Valid(c) /\ ~late[c] =>
    /\ emitted[c] = Before(c, active_idx[c]) + FilledTo(c, active_idx[c])
    /\ \A i \in 0 .. active_idx[c] : buffer_id[c][i] # NoBuffer =>
         \A k \in 0 .. FilledTo(c, i) - 1 :
           content[buffer_id[c][i]][k] = Unit(c, Before(c, i) + k + 1)

\* The last buffer of a recording that is over has been closed.
ClosedOk(c) ==
  Closed(c) => offsets[c][active_idx[c]] # 0 \/ hwOffset[c] = 0

\* A schedule message that missed its place was sent with the pool run dry.
ScheduleOk(c) ==
  \/ late[c]
  \/ sched[c].buff_offset = sched[c].position
  \/ /\ sched[c].buff_offset > sched[c].position
     /\ emitted[c] = sched[c].position
     /\ Quiet(c)

StreamOk(c) ==
  TimerOk(c) /\ ListOk(c) /\ ClearedOk(c) /\ ContentOk(c) /\ ClosedOk(c) /\ ScheduleOk(c)

\* Messages go into the sideband only while a recording is on, or starts.
ActiveInv ==
  trace_active => \/ control \in {"reinit", "start"}
                  \/ control = "idle" /\ capture_on = 1

StreamInv == ActiveInv /\ \A c \in CPU : StreamOk(c)

SInv == IInv /\ StreamInv

-----------------------------------------------------------------------------
\* The step changes nothing of CPU d.
Untouched(d) ==
  /\ active_idx'[d] = active_idx[d]
  /\ size'[d] = size[d]
  /\ offsets'[d] = offsets[d]
  /\ buffer_id'[d] = buffer_id[d]
  /\ hwOn'[d] = hwOn[d]
  /\ hwOffset'[d] = hwOffset[d]
  /\ emitted'[d] = emitted[d]
  /\ late'[d] = late[d]
  /\ timer'[d] = timer[d]
  /\ callback'[d] = callback[d]
  /\ new_buf_idx'[d] = new_buf_idx[d]
  /\ sched'[d] = sched[d]

\* The step leaves the writer where it is for CPU d, or moves it on in a way
\* that asks nothing new of d.
PhaseKept(d) ==
  /\ Cleared(d)' => Cleared(d)
  /\ Valid(d)' => Valid(d)
  /\ Closed(d)' => Closed(d)

\* Types of what belongs to one CPU.
LEMMA CpuTypes ==
  ASSUME TypeOK, NEW c \in CPU
  PROVE  /\ active_idx[c] \in Buffer
         /\ active_idx[c] \in Nat
         /\ active_idx[c] \in 0 .. PoolSize
         /\ active_idx[c] + 1 \in 0 .. PoolSize
         /\ size[c] \in Nat
         /\ offsets[c] \in [Buffer -> 0 .. BufSize - 1]
         /\ offsets[c] \in [Buffer -> Nat]
         /\ buffer_id[c] \in [Buffer -> Buffer \cup {NoBuffer}]
         /\ hwOn[c] \in BOOLEAN
         /\ hwOffset[c] \in 0 .. BufSize - 1
         /\ hwOffset[c] \in Nat
         /\ emitted[c] \in Nat
         /\ late[c] \in BOOLEAN
         /\ timer[c] \in BOOLEAN
         /\ callback[c] \in {"none", "request", "switch", "resume"}
         /\ new_buf_idx[c] \in Buffer \cup {NoBuffer}
         /\ sched[c] \in [buff_offset : Nat, position : Nat]
<1>1. active_idx[c] \in Buffer /\ offsets[c] \in [Buffer -> 0 .. BufSize - 1]
      /\ hwOffset[c] \in 0 .. BufSize - 1
  BY DEF TypeOK
<1>2. active_idx[c] \in Nat /\ active_idx[c] \in 0 .. PoolSize /\ active_idx[c] + 1 \in 0 .. PoolSize
  BY <1>1, SizeAssumption DEF Buffer
<1>3. offsets[c] \in [Buffer -> Nat] /\ hwOffset[c] \in Nat
  BY <1>1
<1> QED
  BY <1>1, <1>2, <1>3 DEF TypeOK

\* What is filled of a buffer, and where it starts, are numbers.
LEMMA FilledTypes ==
  ASSUME TypeOK, NEW c \in CPU, NEW i \in 0 .. active_idx[c]
  PROVE  /\ i \in Buffer
         /\ i \in 0 .. PoolSize
         /\ FilledTo(c, i) \in Nat
         /\ FilledTo(c, i) <= BufSize - 1
         /\ Before(c, i) \in Nat
         /\ Before(c, i + 1) = Before(c, i) + offsets[c][i]
<1>1. i \in Buffer /\ i \in 0 .. PoolSize
  BY CpuTypes, SizeAssumption DEF Buffer
<1>2. offsets[c][i] \in 0 .. BufSize - 1
  BY <1>1, CpuTypes
<1>3. FilledTo(c, i) \in 0 .. BufSize - 1
  BY <1>2, CpuTypes, SetFacts DEF FilledTo
<1>4. Before(c, i) \in Nat /\ Before(c, i + 1) = Before(c, i) + offsets[c][i]
  BY <1>1, CpuTypes, TotalFacts DEF Before
<1> QED
  BY <1>1, <1>3, <1>4, SizeAssumption

\* A CPU the step does not touch keeps its part of the invariant.
LEMMA UntouchedOk ==
  ASSUME SInv, NEW d \in CPU, Untouched(d), PhaseKept(d),
         \A i \in 0 .. active_idx[d] :
           buffer_id[d][i] # NoBuffer /\ FilledTo(d, i) > 0 =>
             content'[buffer_id[d][i]] = content[buffer_id[d][i]]
  PROVE  StreamOk(d)'
<1>1. StreamOk(d) /\ TypeOK
  BY DEF SInv, StreamInv, IInv
<1>2. TimerOk(d)'
  BY <1>1 DEF StreamOk, TimerOk, Untouched
<1>3. \A i : Before(d, i)' = Before(d, i)
  BY DEF Before, Untouched
<1>4. \A i : FilledTo(d, i)' = FilledTo(d, i)
  BY DEF FilledTo, Untouched
<1>5. ListOk(d)'
  BY <1>1, <1>3 DEF StreamOk, ListOk, Untouched
<1>6. ClearedOk(d)'
  BY <1>1 DEF StreamOk, ClearedOk, PhaseKept, Untouched
<1>7. ContentOk(d)'
  <2> SUFFICES ASSUME Valid(d)', ~late'[d] PROVE ContentOk(d)'
    BY DEF ContentOk
  <2>1. Valid(d) /\ ~late[d] /\ active_idx'[d] = active_idx[d] /\ buffer_id'[d] = buffer_id[d]
    BY DEF PhaseKept, Untouched
  <2>2. emitted'[d] = Before(d, active_idx[d])' + FilledTo(d, active_idx[d])'
    BY <1>1, <1>3, <1>4, <2>1 DEF StreamOk, ContentOk, Untouched
  <2>3. ASSUME NEW i \in 0 .. active_idx[d], buffer_id[d][i] # NoBuffer,
               NEW k \in 0 .. FilledTo(d, i) - 1
        PROVE  content'[buffer_id[d][i]][k] = Unit(d, Before(d, i) + k + 1)
    <3>1. FilledTo(d, i) > 0
      BY <1>1, <2>3, FilledTypes
    <3> QED
      BY <1>1, <2>1, <2>3, <3>1 DEF StreamOk, ContentOk
  <2> QED
    BY <1>3, <1>4, <2>1, <2>2, <2>3 DEF ContentOk
<1>8. ClosedOk(d)'
  BY <1>1 DEF StreamOk, ClosedOk, PhaseKept, Untouched
<1>9. ScheduleOk(d)'
  BY <1>1 DEF StreamOk, ScheduleOk, Quiet, Untouched
<1> QED
  BY <1>2, <1>5, <1>6, <1>7, <1>8, <1>9 DEF StreamOk

-----------------------------------------------------------------------------
(* Steps keep the invariant *)

\* While CPU c may run, its recording is not thrown away, nor is it over.
LEMMA RunningPhase ==
  ASSUME IInv, NEW c \in CPU, MayRun(c)
  PROVE  Valid(c) /\ ~Cleared(c) /\ ~Closed(c) /\ Listed(c)
BY CpuTypes DEF IInv, TypeOK, CPU, MayRun, Valid, Cleared, Closed, Listed

\* What runs of CPU c may.
LEMMA RunsInPhase ==
  ASSUME IInv, NEW c \in CPU, ~Quiet(c)
  PROVE  MayRun(c)
BY DEF IInv, PhaseInv

\* A step that leaves the writer alone.
LEMMA SamePhase ==
  ASSUME UNCHANGED <<control, cpu, capture_on>>, NEW c
  PROVE  /\ PhaseKept(c)
         /\ Valid(c)' = Valid(c) /\ Cleared(c)' = Cleared(c) /\ Closed(c)' = Closed(c)
BY DEF PhaseKept, Valid, Cleared, Closed

\* The module just loaded satisfies the invariant.
LEMMA InitStream == Init => StreamInv
<1> SUFFICES ASSUME Init, NEW c \in CPU PROVE StreamOk(c)
  BY DEF Init, StreamInv, ActiveInv
<1>1. TypeOK /\ IInv
  BY InitInv DEF IInv
<1> USE DEF Init
<1>2. Before(c, 0) = 0 /\ Before(c, 1) = 0 /\ offsets[c] = [i \in Buffer |-> 0]
  BY <1>1, CpuTypes, TotalFacts, SetFacts DEF Before
<1>3. FilledTo(c, 0) = 0
  BY <1>2, SetFacts DEF FilledTo
<1>4. TimerOk(c)
  BY DEF TimerOk
<1>5. ListOk(c)
  BY <1>2, SetFacts DEF ListOk
<1>6. ClearedOk(c)
  BY DEF ClearedOk, Cleared
<1>7. ContentOk(c)
  BY <1>2, <1>3, SetFacts DEF ContentOk
<1>8. ClosedOk(c)
  BY <1>2 DEF ClosedOk
<1>9. ScheduleOk(c)
  BY DEF ScheduleOk, NoSchedule
<1> QED
  BY <1>4, <1>5, <1>6, <1>7, <1>8, <1>9 DEF StreamOk

\* Where a unit of trace goes, and what it leaves alone.
LEMMA EmitContent ==
  ASSUME TypeOK, NEW c \in CPU, HwEmit(c), NEW b \in Buffer
  PROVE  /\ b # hwBase[c] => content'[b] = content[b]
         /\ b = hwBase[c] =>
              /\ content'[b][hwOffset[c]] = Unit(c, emitted[c] + 1)
              /\ \A k \in 0 .. BufSize - 1 : k # hwOffset[c] => content'[b][k] = content[b][k]
<1>1. CASE hwBase[c] \in Buffer
  <2> DEFINE filled == [content[hwBase[c]] EXCEPT ![hwOffset[c]] = Unit(c, emitted[c] + 1)]
  <2>1. content' = [content EXCEPT ![hwBase[c]] = filled]
    BY <1>1 DEF HwEmit
  <2>2. /\ filled[hwOffset[c]] = Unit(c, emitted[c] + 1)
        /\ \A k \in 0 .. BufSize - 1 : k # hwOffset[c] => filled[k] = content[hwBase[c]][k]
    <3>1. hwOffset[c] \in 0 .. BufSize - 1
      BY DEF TypeOK
    <3>2. content[hwBase[c]] \in [0 .. BufSize - 1 -> {Stale} \cup (CPU \X Nat)]
      BY <1>1 DEF TypeOK
    <3>3. DOMAIN content[hwBase[c]] = 0 .. BufSize - 1
      BY <3>2
    <3> QED
      BY <3>1, <3>3
  <2> HIDE DEF filled
  <2>3. content'[hwBase[c]] = filled /\ (b # hwBase[c] => content'[b] = content[b])
    BY <1>1, <2>1 DEF TypeOK
  <2> QED
    BY <2>2, <2>3
<1>2. CASE hwBase[c] \notin Buffer
  BY <1>2 DEF HwEmit
<1> QED
  BY <1>1, <1>2

\* The invariant is kept by storing a unit of trace.
LEMMA HwEmitStream ==
  ASSUME SInv, NEW c \in CPU, HwEmit(c) PROVE StreamInv'
<1> USE DEF HwEmit, traceVars, timerVars, controlVars
<1>1. IInv /\ TypeOK /\ StreamOk(c) /\ hwOn[c]
  BY DEF SInv, StreamInv, IInv
<1>2. MayRun(c)
  BY <1>1, RunsInPhase DEF Quiet
<1>3. Valid(c) /\ ~Cleared(c) /\ ~Closed(c) /\ Listed(c)
  BY <1>1, <1>2, RunningPhase
<1>4. ActiveInv'
  BY DEF SInv, StreamInv, ActiveInv
<1>5. \A d \in CPU : PhaseKept(d)
  BY SamePhase
<1>6. ASSUME NEW d \in CPU, d # c PROVE StreamOk(d)'
  <2>1. Untouched(d)
    BY <1>1, <1>6 DEF Untouched, TypeOK
  <2>2. ASSUME NEW i \in 0 .. active_idx[d], buffer_id[d][i] # NoBuffer, FilledTo(d, i) > 0
        PROVE  content'[buffer_id[d][i]] = content[buffer_id[d][i]]
    <3>1. Listed(d)
      <4>1. StreamOk(d)
        BY DEF SInv, StreamInv
      <4>2. Cleared(d) => FilledTo(d, i) = 0
        BY <1>1, <4>1, CpuTypes DEF StreamOk, ClearedOk, FilledTo
      <4> QED
        BY <1>1, <2>2, <4>2 DEF Listed, Cleared, TypeOK, CPU
    <3>2. hwBase[c] \in Buffer => buffer_id[d][i] # hwBase[c]
      BY <1>1, <1>6, <2>2, <3>1, ListsNotOverwritten DEF NoOverwrite
    <3>3. buffer_id[d][i] \in Buffer
      BY <1>1, <2>2, CpuTypes, FilledTypes
    <3> QED
      BY <1>1, <3>2, <3>3, EmitContent
  <2> QED
    BY <1>5, <2>1, <2>2, UntouchedOk
<1>7. StreamOk(c)'
  <2>1. /\ callback[c] \in {"none", "request"} /\ timer[c]
        /\ new_buf_idx[c] = NoBuffer
        /\ hwBase[c] = buffer_id[c][active_idx[c]]
    BY <1>1, CpuTypes DEF IInv, CallbackInv, ActiveBufferInv, StreamOk, TimerOk
  <2>2. offsets[c][active_idx[c]] = 0
    BY <1>1, <2>1 DEF StreamOk, ListOk
  <2>3. /\ emitted'[c] = emitted[c] + 1
        /\ hwOffset'[c] = IF hwOffset[c] + 1 < BufSize THEN hwOffset[c] + 1 ELSE 0
        /\ late'[c] = (late[c] \/ hwOffset[c] + 1 = BufSize)
    BY <1>1 DEF TypeOK
  <2>4. \A i : Before(c, i)' = Before(c, i)
    BY DEF Before
  <2>5. TimerOk(c)'
    BY <1>1 DEF StreamOk, TimerOk
  <2>6. ListOk(c)'
    BY <1>1, <2>2, <2>4 DEF StreamOk, ListOk
  <2>7. ClearedOk(c)' /\ ClosedOk(c)'
    BY <1>3, SamePhase DEF ClearedOk, ClosedOk
  <2>8. ScheduleOk(c)'
    BY <1>1, <2>3 DEF StreamOk, ScheduleOk, Quiet
  <2>9. ContentOk(c)'
    <3> SUFFICES ASSUME ~late'[c] PROVE ContentOk(c)'
      BY DEF ContentOk
    <3>1. ~late[c] /\ hwOffset'[c] = hwOffset[c] + 1
      <4>1. hwOffset[c] \in 0 .. BufSize - 1 /\ ~late[c] /\ hwOffset[c] + 1 # BufSize
        BY <1>1, <2>3, CpuTypes
      <4> QED
        BY <2>3, <4>1, SizeAssumption
    <3>2. /\ FilledTo(c, active_idx[c]) = hwOffset[c]
          /\ FilledTo(c, active_idx[c])' = hwOffset[c] + 1
          /\ \A i \in 0 .. active_idx[c] - 1 : FilledTo(c, i)' = FilledTo(c, i)
      BY <1>1, <2>1, <2>2, <3>1, CpuTypes DEF FilledTo
    <3>3. emitted[c] = Before(c, active_idx[c]) + hwOffset[c]
      BY <1>1, <1>3, <3>1, <3>2 DEF StreamOk, ContentOk
    <3>4. /\ active_idx[c] \in Nat /\ hwOffset[c] \in Nat /\ active_idx[c] \in 0 .. active_idx[c]
          /\ Before(c, active_idx[c]) \in Nat
      BY <1>1, CpuTypes, FilledTypes
    <3>5. emitted'[c] = Before(c, active_idx[c]) + FilledTo(c, active_idx[c])'
      BY <2>3, <3>2, <3>3, <3>4
    <3>6. ASSUME NEW i \in 0 .. active_idx[c], buffer_id[c][i] # NoBuffer,
                 NEW k \in 0 .. FilledTo(c, i)' - 1
          PROVE  content'[buffer_id[c][i]][k] = Unit(c, Before(c, i) + k + 1)
      <4>1. i \in Buffer /\ buffer_id[c][i] \in Buffer
        BY <1>1, <3>6, FilledTypes, CpuTypes
      <4>2. CASE i = active_idx[c] /\ k = hwOffset[c]
        <5>1. emitted[c] + 1 = Before(c, i) + k + 1
          BY <3>3, <4>2
        <5> QED
          <6>1. buffer_id[c][i] = hwBase[c]
            BY <2>1, <4>2
          <6>2. content'[buffer_id[c][i]][hwOffset[c]] = Unit(c, emitted[c] + 1)
            BY <1>1, <4>1, <6>1, EmitContent
          <6> QED
            BY <4>2, <5>1, <6>2
      <4>3. CASE ~(i = active_idx[c] /\ k = hwOffset[c])
        <5>1. k \in 0 .. FilledTo(c, i) - 1
          BY <3>2, <3>4, <3>6, <4>3
        <5>2. content[buffer_id[c][i]][k] = Unit(c, Before(c, i) + k + 1)
          BY <1>1, <1>3, <3>1, <3>6, <5>1 DEF StreamOk, ContentOk
        <5>3. content'[buffer_id[c][i]][k] = content[buffer_id[c][i]][k]
          <6>1. CASE i = active_idx[c]
            <7>1. k \in 0 .. BufSize - 1
              BY <1>1, <5>1, FilledTypes, SizeAssumption
            <7> QED
              BY SMTT(30), <1>1, <2>1, <4>1, <4>3, <6>1, <7>1, EmitContent
          <6>2. CASE i # active_idx[c]
            <7>1. buffer_id[c][i] # hwBase[c]
              BY <1>1, <1>3, <4>1, <6>2, ListsNotOverwritten DEF NoOverwrite
            <7> QED
              BY <1>1, <4>1, <7>1, EmitContent
          <6> QED
            BY <6>1, <6>2
        <5> QED
          BY <5>2, <5>3
      <4> QED
        BY <4>2, <4>3
    <3> QED
      BY <2>4, <3>5, <3>6 DEF ContentOk
  <2> QED
    BY <2>5, <2>6, <2>7, <2>8, <2>9 DEF StreamOk
<1> QED
  BY <1>4, <1>6, <1>7 DEF StreamInv

\* A CPU the step does not touch, and no buffer is written.
LEMMA OthersOk ==
  ASSUME SInv, NEW d \in CPU, Untouched(d), PhaseKept(d), UNCHANGED content
  PROVE  StreamOk(d)'
BY UntouchedOk

\* The invariant is kept by a timer that fires.
LEMMA TimerFiresStream ==
  ASSUME SInv, NEW c \in CPU, TimerFires(c) PROVE StreamInv'
<1> USE DEF TimerFires, poolVars, traceVars, hwVars, controlVars
<1>1. IInv /\ TypeOK /\ StreamOk(c)
  BY DEF SInv, StreamInv, IInv
<1>2. ActiveInv'
  BY DEF SInv, StreamInv, ActiveInv
<1>3. ASSUME NEW d \in CPU, d # c PROVE StreamOk(d)'
  <2>1. Untouched(d)
    BY <1>1, <1>3 DEF Untouched, TypeOK
  <2> QED
    BY <2>1, SamePhase, OthersOk
<1>4. StreamOk(c)'
  <2>1. callback[c] = "none" /\ callback'[c] = "request" /\ timer[c] /\ hwOn[c]
    BY <1>1 DEF TypeOK, StreamOk, TimerOk
  <2>2. \A i : Before(c, i)' = Before(c, i) /\ FilledTo(c, i)' = FilledTo(c, i)
    BY <2>1 DEF Before, FilledTo
  <2>3. TimerOk(c)'
    BY <1>1, <2>1 DEF StreamOk, TimerOk
  <2>4. ListOk(c)'
    BY <1>1, <2>1, <2>2 DEF StreamOk, ListOk
  <2>5. ClearedOk(c)' /\ ClosedOk(c)'
    BY <1>1, SamePhase DEF StreamOk, ClearedOk, ClosedOk
  <2>6. ContentOk(c)'
    BY <1>1, <2>2, SamePhase DEF StreamOk, ContentOk
  <2>7. ScheduleOk(c)'
    BY <1>1, <2>1 DEF StreamOk, ScheduleOk, Quiet
  <2> QED
    BY <2>3, <2>4, <2>5, <2>6, <2>7 DEF StreamOk
<1> QED
  BY <1>2, <1>3, <1>4 DEF StreamInv

\* The invariant is kept by the callback's request.
LEMMA StopAndRequestStream ==
  ASSUME SInv, NEW c \in CPU, StopAndRequest(c) PROVE StreamInv'
<1> USE DEF StopAndRequest, traceVars, controlVars
<1>1. IInv /\ TypeOK /\ StreamOk(c) /\ callback[c] = "request"
  BY DEF SInv, StreamInv, IInv
<1>2. ActiveInv'
  BY DEF SInv, StreamInv, ActiveInv
<1>3. ASSUME NEW d \in CPU, d # c PROVE StreamOk(d)'
  <2>1. Untouched(d)
    BY <1>1, <1>3 DEF Untouched, TypeOK
  <2> QED
    BY <2>1, SamePhase, OthersOk
<1>4. StreamOk(c)'
  <2>1. /\ callback'[c] = "switch" /\ timer[c] /\ ~hwOn'[c]
        /\ new_buf_idx'[c] = RequestedBuffer
    BY <1>1 DEF TypeOK, StreamOk, TimerOk
  <2>2. \A i : Before(c, i)' = Before(c, i) /\ FilledTo(c, i)' = FilledTo(c, i)
    BY <1>1, <2>1 DEF Before, FilledTo
  <2>3. TimerOk(c)'
    BY <1>1, <2>1 DEF StreamOk, TimerOk
  <2>4. RequestedBuffer # NoBuffer => buffer_id[c][0] # NoBuffer
    <3> SUFFICES ASSUME buffer_id[c][0] = NoBuffer PROVE RequestedBuffer = NoBuffer
      OBVIOUS
    <3>1. active_idx[c] = 0
      BY <1>1, CpuTypes DEF StreamOk, ListOk
    <3>2. MayRun(c)
      BY <1>1, RunsInPhase DEF Quiet
    <3>3. index = PoolSize
      BY <1>1, <3>1, <3>2 DEF IInv, ActiveBufferInv
    <3> QED
      BY <3>3, SizeAssumption DEF RequestedBuffer
  <2>5. ListOk(c)'
    BY <1>1, <2>1, <2>2, <2>4 DEF StreamOk, ListOk
  <2>6. ClearedOk(c)' /\ ClosedOk(c)'
    BY <1>1, SamePhase DEF StreamOk, ClearedOk, ClosedOk
  <2>7. ContentOk(c)'
    BY <1>1, <2>2, SamePhase DEF StreamOk, ContentOk
  <2>8. ScheduleOk(c)'
    BY <1>1 DEF StreamOk, ScheduleOk, Quiet
  <2> QED
    BY <2>3, <2>5, <2>6, <2>7, <2>8 DEF StreamOk
<1> QED
  BY <1>2, <1>3, <1>4 DEF StreamInv

\* The invariant is kept by a schedule message.
LEMMA SendScheduleStream ==
  ASSUME SInv, NEW c \in CPU, SendSchedule(c) PROVE StreamInv'
<1> USE DEF SendSchedule, poolVars, traceVars, hwVars, timerVars, controlVars
<1>1. IInv /\ TypeOK /\ StreamOk(c) /\ callback[c] = "none" /\ trace_active
  BY DEF SInv, StreamInv, IInv
<1>2. ActiveInv'
  BY DEF SInv, StreamInv, ActiveInv
<1>3. ASSUME NEW d \in CPU, d # c PROVE StreamOk(d)'
  <2>1. Untouched(d)
    BY <1>1, <1>3 DEF Untouched, TypeOK
  <2> QED
    BY <2>1, SamePhase, OthersOk
<1>4. StreamOk(c)'
  <2>1. \A i : Before(c, i)' = Before(c, i) /\ FilledTo(c, i)' = FilledTo(c, i)
    BY DEF Before, FilledTo
  <2>2. sched'[c] = [buff_offset |-> size[c] + hwOffset[c], position |-> emitted[c]]
    BY <1>1 DEF TypeOK
  <2>3. TimerOk(c)' /\ ListOk(c)' /\ ClosedOk(c)' /\ ContentOk(c)'
    BY <1>1, <2>1, SamePhase DEF StreamOk, TimerOk, ListOk, ClosedOk, ContentOk
  <2>4. Valid(c)
    BY <1>1 DEF SInv, StreamInv, ActiveInv, Valid
  <2>5. size[c] = Before(c, active_idx[c]) + offsets[c][active_idx[c]]
    BY <1>1, FilledTypes, CpuTypes DEF StreamOk, ListOk
  <2>6. CASE late[c]
    <3>1. ~Cleared(c)
      BY <1>1, <2>4, <2>6 DEF StreamOk, ClearedOk
    <3> QED
      BY <2>3, <2>6, <3>1, SamePhase DEF StreamOk, ScheduleOk, ClearedOk
  <2>7. CASE ~late[c]
    <3>1. emitted[c] = Before(c, active_idx[c]) + FilledTo(c, active_idx[c])
      BY <1>1, <2>4, <2>7 DEF StreamOk, ContentOk
    <3>2. /\ Before(c, active_idx[c]) \in Nat /\ hwOffset[c] \in Nat
          /\ offsets[c][active_idx[c]] \in Nat
          /\ active_idx[c] \in Nat
      BY <1>1, CpuTypes, FilledTypes
    <3>3. CASE offsets[c][active_idx[c]] = 0
      <4>1. emitted[c] = size[c] + hwOffset[c]
        BY <1>1, <2>5, <3>1, <3>2, <3>3 DEF FilledTo
      <4> QED
        BY <1>1, <2>2, <2>3, <4>1, SamePhase DEF StreamOk, ScheduleOk, ClearedOk
    <3>4. CASE offsets[c][active_idx[c]] # 0
      <4>1. hwOffset[c] = offsets[c][active_idx[c]]
        BY <1>1, <3>4 DEF StreamOk, ListOk
      <4>2. emitted[c] = size[c] /\ size[c] + hwOffset[c] > emitted[c]
        BY <2>5, <3>1, <3>2, <3>4, <4>1 DEF FilledTo
      <4>3. Quiet(c)
        BY <1>1, <3>4 DEF StreamOk, ListOk, TimerOk, Quiet
      <4>4. ~Cleared(c)
        BY <1>1, <3>4 DEF StreamOk, ClearedOk
      <4> QED
        BY <2>2, <2>3, <4>2, <4>3, <4>4, SamePhase DEF StreamOk, ScheduleOk, ClearedOk, Quiet
    <3> QED
      BY <3>3, <3>4
  <2> QED
    BY <2>6, <2>7
<1> QED
  BY <1>2, <1>3, <1>4 DEF StreamInv

\* The invariant is kept by the end of a callback.
LEMMA FinishCallbackStream ==
  ASSUME SInv, NEW c \in CPU, FinishCallback(c) PROVE StreamInv'
<1> USE DEF FinishCallback, TimerOff, OffsetReset, poolVars, traceVars, controlVars
<1>1. IInv /\ TypeOK /\ StreamOk(c) /\ callback[c] = "resume"
  BY DEF SInv, StreamInv, IInv
<1>2. ActiveInv'
  BY DEF SInv, StreamInv, ActiveInv
<1>3. ASSUME NEW d \in CPU, d # c PROVE StreamOk(d)'
  <2>1. Untouched(d)
    BY <1>1, <1>3 DEF Untouched, TypeOK
  <2> QED
    BY <2>1, SamePhase, OthersOk
<1>4. StreamOk(c)'
  <2>1. timer[c] /\ callback'[c] = "none" /\ new_buf_idx'[c] = NoBuffer
    BY <1>1 DEF TypeOK, StreamOk, TimerOk
  <2>2. MayRun(c) /\ Valid(c) /\ ~Cleared(c) /\ ~Closed(c)
    BY <1>1, RunsInPhase, RunningPhase DEF Quiet
  <2>3. ClearedOk(c)' /\ ClosedOk(c)'
    BY <2>2, SamePhase DEF ClearedOk, ClosedOk
  <2>4. \A i : Before(c, i)' = Before(c, i)
    BY DEF Before
  <2>5. ScheduleOk(c)'
    BY <1>1, <2>1 DEF StreamOk, ScheduleOk, Quiet
  <2>6. CASE new_buf_idx[c] # NoBuffer
    <3>1. hwOn'[c] /\ timer'[c] /\ hwOffset'[c] = 0
      BY <1>1, <2>1, <2>6 DEF TypeOK
    <3>2. offsets[c][active_idx[c]] = 0
      BY <1>1, <2>1, <2>6 DEF StreamOk, ListOk
    <3>3. TimerOk(c)'
      BY <2>1, <3>1 DEF TimerOk
    <3>4. ListOk(c)'
      BY <1>1, <2>1, <2>4, <3>2 DEF StreamOk, ListOk
    <3>5. \A i \in 0 .. active_idx[c] : FilledTo(c, i)' = FilledTo(c, i)
      BY <1>1, <2>1, <2>6, <3>1, <3>2, CpuTypes DEF FilledTo
    <3>6. ContentOk(c)'
      BY <1>1, <2>4, <3>5, SamePhase, CpuTypes DEF StreamOk, ContentOk
    <3> QED
      BY <2>3, <2>5, <3>3, <3>4, <3>6 DEF StreamOk
  <2>7. CASE new_buf_idx[c] = NoBuffer
    <3>1. ~hwOn'[c] /\ ~timer'[c] /\ hwOffset' = hwOffset
      BY <1>1, <2>7 DEF TypeOK
    <3>2. TimerOk(c)'
      BY <2>1, <3>1 DEF TimerOk
    <3>3. ListOk(c)'
      BY <1>1, <2>1, <2>4, <3>1 DEF StreamOk, ListOk
    <3>4. \A i : FilledTo(c, i)' = FilledTo(c, i)
      BY <1>1, <2>1, <2>7, <3>1 DEF FilledTo
    <3>5. ContentOk(c)'
      BY <1>1, <2>4, <3>4, SamePhase DEF StreamOk, ContentOk
    <3> QED
      BY <2>3, <2>5, <3>2, <3>3, <3>5 DEF StreamOk
  <2> QED
    BY <2>6, <2>7
<1> QED
  BY <1>2, <1>3, <1>4 DEF StreamInv

\* The invariant is kept by the switch of buffers.
LEMMA SwitchBufferStream ==
  ASSUME SInv, NEW c \in CPU, SwitchBuffer(c) PROVE StreamInv'
<1> USE DEF poolVars, hwVars, controlVars
<1>1. IInv /\ TypeOK /\ StreamOk(c) /\ callback[c] = "switch"
  BY DEF SInv, StreamInv, IInv, SwitchBuffer
<1>2. UNCHANGED <<content, hwOn, hwOffset, emitted, late, timer, trace_active, control, cpu,
                  capture_on, sched>>
  BY DEF SwitchBuffer
<1>3. ActiveInv'
  BY <1>2 DEF SInv, StreamInv, ActiveInv
<1>4. ASSUME NEW d \in CPU, d # c PROVE StreamOk(d)'
  <2>1. callback'[d] = callback[d] /\ new_buf_idx'[d] = new_buf_idx[d]
    BY <1>1, <1>4 DEF TypeOK, SwitchBuffer
  <2>2. offsets'[d] = offsets[d] /\ size'[d] = size[d]
    BY <1>1, <1>4 DEF TypeOK, SwitchBuffer, traceVars
  <2>3. active_idx'[d] = active_idx[d] /\ buffer_id'[d] = buffer_id[d]
    BY ZenonT(30), <1>1, <1>4 DEF TypeOK, SwitchBuffer, traceVars
  <2>4. Untouched(d)
    BY <1>2, <2>1, <2>2, <2>3 DEF Untouched
  <2> QED
    BY <1>2, <2>4, SamePhase, OthersOk
<1>5. StreamOk(c)'
  <2>1. PICK a, off, h : a = active_idx[c] /\ off = offsets[c] /\ h = hwOffset[c]
    OBVIOUS
  <2>2. timer[c] /\ callback'[c] = "resume"
    BY <2>1, <1>1 DEF TypeOK, StreamOk, TimerOk, SwitchBuffer
  <2>3. MayRun(c) /\ Valid(c) /\ ~Cleared(c) /\ ~Closed(c)
    BY <2>1, <1>1, RunsInPhase, RunningPhase DEF Quiet
  <2>4. ClearedOk(c)' /\ ClosedOk(c)'
    BY <2>1, <1>2, <2>3, SamePhase DEF ClearedOk, ClosedOk
  <2>5. TimerOk(c)'
    BY <2>1, <1>1, <1>2, <2>2 DEF StreamOk, TimerOk
  <2>6. ScheduleOk(c)'
    BY <2>1, <1>1, <1>2, <2>2 DEF StreamOk, ScheduleOk, Quiet
  <2>7. off[a] = 0 /\ FilledTo(c, a) = h
    BY <2>1, <1>1, <2>2, CpuTypes DEF StreamOk, ListOk, FilledTo
  <2>8. size[c] = Before(c, a) /\ Before(c, a) \in Nat /\ a \in Nat /\ a \in Buffer /\ h \in Nat
    BY <2>1, <1>1, <2>7, CpuTypes, FilledTypes DEF StreamOk, ListOk
  <2>9. CASE active
    <3>1. /\ offsets'[c] = [off EXCEPT ![a] = h]
          /\ size'[c] = size[c] + h
          /\ new_buf_idx' = new_buf_idx
      BY <2>1, <1>1, <2>9 DEF TypeOK, SwitchBuffer
    <3>2. /\ offsets'[c][a] = h
          /\ \A i \in Buffer : i # a => offsets'[c][i] = off[i]
          /\ offsets'[c] \in [Buffer -> Nat]
      BY <2>1, <1>1, <2>8, <3>1, CpuTypes
    <3>3. \A i \in 0 .. a : Before(c, i)' = Before(c, i)
      <4> SUFFICES ASSUME NEW i \in 0 .. a PROVE Total(offsets'[c], i) = Total(off, i)
        BY <2>1 DEF Before
      <4>1. i \in 0 .. PoolSize /\ \A j \in 0 .. i - 1 : j \in Buffer /\ j # a
        BY <2>1, <2>8, SizeAssumption DEF Buffer
      <4>2. \A j \in 0 .. i - 1 : offsets'[c][j] = off[j]
        BY <2>1, <3>2, <4>1
      <4>3. off \in [Buffer -> Nat]
        BY <2>1, <1>1, CpuTypes
      <4> QED
        BY <2>1, <3>2, <4>1, <4>2, <4>3, TotalPrefix
    <3>4. Before(c, a + 1)' = Before(c, a) + h
      <4>1. Total(offsets'[c], a + 1) = Total(offsets'[c], a) + offsets'[c][a]
        BY <2>1, <2>8, <3>2, TotalFacts
      <4>2. Total(offsets'[c], a) = Before(c, a)
        BY <2>1, <2>8, <3>3 DEF Before
      <4> QED
        BY <2>1, <3>2, <4>1, <4>2 DEF Before
    <3>5. ASSUME Valid(c), ~late[c]
          PROVE  /\ emitted[c] = Before(c, a) + h
                 /\ \A i \in 0 .. a : buffer_id[c][i] # NoBuffer =>
                      \A k \in 0 .. FilledTo(c, i) - 1 :
                        content[buffer_id[c][i]][k] = Unit(c, Before(c, i) + k + 1)
      BY <2>1, <1>1, <2>7, <3>5 DEF StreamOk, ContentOk
    <3>6. CASE new_buf_idx[c] # NoBuffer
      <4>1. active_idx'[c] = a + 1 /\ a + 1 \in Buffer
        <5>1. active_idx'[c] = a + 1
          BY <2>1, <1>1, <2>9, <3>6 DEF TypeOK, SwitchBuffer
        <5>2. active_idx'[c] \in Buffer
          BY <2>1, <1>1, SwitchBufferTypes DEF IInv, TypeOK
        <5> QED
          BY <2>1, <5>1, <5>2
      <4>2. buffer_id'[c] = [buffer_id[c] EXCEPT ![a + 1] = new_buf_idx[c]]
        BY <2>1, <1>1, <2>9, <3>6 DEF TypeOK, SwitchBuffer
      <4>3. /\ buffer_id'[c][a + 1] = new_buf_idx[c]
            /\ \A i \in 0 .. a : buffer_id'[c][i] = buffer_id[c][i] /\ i \in Buffer
        <5>1. buffer_id[c] \in [Buffer -> Buffer \cup {NoBuffer}]
          BY <2>1, <1>1, CpuTypes
        <5>2. \A i \in 0 .. a : i \in Buffer /\ i # a + 1
          BY <2>1, <2>8, SizeAssumption DEF Buffer
        <5> QED
          BY <2>1, <4>1, <4>2, <5>1, <5>2
      <4>4. off[a + 1] = 0 /\ \A i \in Buffer : i > a + 1 => off[i] = 0
        BY <2>1, <1>1, <2>8, <4>1 DEF StreamOk, ListOk, Buffer
      <4>5. offsets'[c][a + 1] = 0
        BY <2>1, <2>8, <3>2, <4>1, <4>4
      <4>6. Before(c, (a + 1) + 1)' = Before(c, a) + h
        <5>1. Total(offsets'[c], (a + 1) + 1) = Total(offsets'[c], a + 1) + offsets'[c][a + 1]
          BY <2>1, <3>2, <4>1, TotalFacts
        <5> QED
          BY <2>1, <2>8, <3>4, <4>5, <5>1 DEF Before
      <4>7. ListOk(c)'
        <5>1. size'[c] = Before(c, active_idx[c] + 1)'
          BY <2>1, <2>8, <3>1, <4>1, <4>6 DEF Before
        <5>2. \A i \in Buffer : i > active_idx'[c] => offsets'[c][i] = 0
          BY <2>1, <2>8, <3>2, <4>1, <4>4 DEF Buffer
        <5>3. buffer_id[c][0] # NoBuffer
          BY <2>1, <1>1, <3>6 DEF StreamOk, ListOk
        <5>4. \A i \in 1 .. active_idx'[c] : buffer_id'[c][i] # NoBuffer
          <6> SUFFICES ASSUME NEW i \in 1 .. a + 1 PROVE buffer_id'[c][i] # NoBuffer
            BY <2>1, <4>1
          <6>1. CASE i = a + 1
            BY <2>1, <3>6, <4>3, <6>1
          <6>2. CASE i # a + 1
            BY <2>1, <1>1, <2>8, <4>3, <6>2 DEF StreamOk, ListOk
          <6> QED
            BY <2>1, <6>1, <6>2
        <5>5. buffer_id'[c][0] # NoBuffer
          BY <2>1, <2>8, <4>3, <5>3
        <5> QED
          BY <2>1, <4>1, <4>5, <5>1, <5>2, <5>4, <5>5 DEF ListOk
      <4>8. ContentOk(c)'
        <5> SUFFICES ASSUME ~late[c] PROVE ContentOk(c)'
          BY <2>1, <1>2 DEF ContentOk
        <5>1. FilledTo(c, a + 1)' = 0
          BY <2>1, <2>2, <2>8, <3>1, <3>6, <4>1, <4>5 DEF FilledTo
        <5>2. \A i \in 0 .. a : FilledTo(c, i)' = FilledTo(c, i)
          <6> SUFFICES ASSUME NEW i \in 0 .. a PROVE FilledTo(c, i)' = FilledTo(c, i)
            OBVIOUS
          <6>1. FilledTo(c, i)' = offsets'[c][i]
            BY <2>1, <2>8, <4>1 DEF FilledTo
          <6>2. CASE i = a
            BY <2>1, <2>7, <3>2, <6>1, <6>2
          <6>3. CASE i # a
            BY <2>1, <2>8, <3>2, <4>3, <6>1, <6>3 DEF FilledTo
          <6> QED
            BY <2>1, <6>2, <6>3
        <5>3. emitted'[c] = Before(c, a + 1)' + FilledTo(c, a + 1)'
          BY <2>1, <1>2, <2>3, <2>8, <3>4, <3>5, <5>1
        <5>4. ASSUME NEW i \in 0 .. a + 1, buffer_id'[c][i] # NoBuffer,
                     NEW k \in 0 .. FilledTo(c, i)' - 1
              PROVE  content[buffer_id'[c][i]][k] = Unit(c, Before(c, i)' + k + 1)
          <6>1. i \in 0 .. a
            BY <2>1, <2>8, <5>1, <5>4
          <6> QED
            BY <2>1, <2>3, <3>3, <3>5, <4>3, <5>2, <5>4, <6>1
        <5> QED
          BY <2>1, <1>2, <4>1, <5>3, <5>4 DEF ContentOk
      <4> QED
        BY <2>1, <2>4, <2>5, <2>6, <4>7, <4>8 DEF StreamOk
    <3>7. CASE new_buf_idx[c] = NoBuffer
      <4>1. active_idx' = active_idx /\ buffer_id' = buffer_id
        BY <2>1, <2>9, <3>7 DEF SwitchBuffer
      <4>2. ListOk(c)'
        <5>1. size'[c] = Before(c, active_idx[c] + 1)'
          BY <2>1, <2>8, <3>1, <3>4, <4>1 DEF Before
        <5>2. \A i \in Buffer : i > active_idx'[c] => offsets'[c][i] = 0
          BY <2>1, <1>1, <2>8, <3>2, <4>1 DEF StreamOk, ListOk, Buffer
        <5> QED
          BY <2>1, <1>1, <1>2, <2>2, <3>1, <3>2, <3>7, <4>1, <5>1, <5>2 DEF StreamOk, ListOk
      <4>3. ContentOk(c)'
        <5> SUFFICES ASSUME ~late[c] PROVE ContentOk(c)'
          BY <2>1, <1>2 DEF ContentOk
        <5>1. \A i \in 0 .. a : FilledTo(c, i)' = FilledTo(c, i)
          <6> SUFFICES ASSUME NEW i \in 0 .. a PROVE FilledTo(c, i)' = FilledTo(c, i)
            OBVIOUS
          <6>1. CASE i = a
            BY <2>1, <1>2, <2>7, <2>8, <3>1, <3>2, <3>7, <4>1, <6>1 DEF FilledTo
          <6>2. CASE i # a
            <7>1. i < a /\ i \in Buffer
              BY <2>1, <1>1, <2>8, <6>2, FilledTypes
            <7> QED
              BY <2>1, <3>2, <4>1, <7>1 DEF FilledTo
          <6> QED
            BY <2>1, <6>1, <6>2
        <5>2. emitted'[c] = Before(c, a)' + FilledTo(c, a)'
          BY <2>1, <1>2, <2>3, <2>7, <2>8, <3>3, <3>5, <5>1
        <5> QED
          BY <2>1, <1>2, <2>3, <3>3, <3>5, <4>1, <5>1, <5>2 DEF ContentOk
      <4> QED
        BY <2>1, <2>4, <2>5, <2>6, <4>2, <4>3 DEF StreamOk
    <3> QED
      BY <2>1, <3>6, <3>7
  <2>10. CASE ~active
    <3>1. /\ active_idx' = active_idx /\ size' = size /\ offsets' = offsets
          /\ buffer_id' = buffer_id /\ new_buf_idx'[c] = NoBuffer
      BY <2>1, <1>1, <2>10 DEF TypeOK, SwitchBuffer, traceVars
    <3>2. \A i : Before(c, i)' = Before(c, i) /\ FilledTo(c, i)' = FilledTo(c, i)
      BY <2>1, <1>1, <1>2, <3>1 DEF Before, FilledTo
    <3>3. ListOk(c)'
      BY <2>1, <1>1, <1>2, <2>2, <3>1, <3>2 DEF StreamOk, ListOk
    <3>4. ContentOk(c)'
      BY <2>1, <1>1, <1>2, <3>1, <3>2, SamePhase DEF StreamOk, ContentOk
    <3> QED
      BY <2>4, <2>5, <2>6, <3>3, <3>4 DEF StreamOk
  <2> QED
    BY <2>9, <2>10
<1> QED
  BY <1>3, <1>4, <1>5 DEF StreamInv

\* The invariant is kept by a write to trace_enable.
LEMMA WriteControlStream ==
  ASSUME SInv, NEW value \in {0, 1}, WriteControl(value) PROVE StreamInv'
<1> USE DEF WriteControl, poolVars, traceVars, hwVars, timerVars
<1>1. IInv /\ TypeOK /\ cpu = 0 /\ cpu' = 0 /\ control = "idle"
  BY DEF SInv, IInv, PhaseInv
<1>2. ActiveInv'
  BY <1>1 DEF SInv, StreamInv, ActiveInv, IInv, TypeOK
<1>3. ASSUME NEW d \in CPU PROVE StreamOk(d)'
  <2>1. PhaseKept(d)
    BY <1>1, SetFacts DEF PhaseKept, Valid, Cleared, Closed, CPU
  <2>2. Untouched(d)
    BY DEF Untouched
  <2> QED
    BY <2>1, <2>2, OthersOk
<1> QED
  BY <1>2, <1>3 DEF StreamInv

\* The invariant is kept by the reset of the pool.
LEMMA ReinitPoolStream ==
  ASSUME SInv, ReinitPool PROVE StreamInv'
<1> USE DEF ReinitPool, traceVars, hwVars, timerVars
<1>1. ActiveInv'
  BY DEF SInv, StreamInv, ActiveInv
<1>2. ASSUME NEW d \in CPU PROVE StreamOk(d)'
  <2>1. PhaseKept(d)
    BY DEF PhaseKept, Valid, Cleared, Closed
  <2>2. Untouched(d)
    BY DEF Untouched
  <2> QED
    BY <2>1, <2>2, OthersOk
<1> QED
  BY <1>1, <1>2 DEF StreamInv

\* reset_trace_buffers leaves an empty list.
LEMMA ResetList ==
  ASSUME TypeOK, NEW c \in CPU, ResetTraceBuffers(c)
  PROVE  /\ active_idx'[c] = 0 /\ size'[c] = 0
         /\ offsets'[c] = [i \in Buffer |-> 0]
         /\ Before(c, 0)' = 0
         /\ Total(offsets'[c], 1) = 0
         /\ \A d \in CPU : d # c => /\ active_idx'[d] = active_idx[d]
                                    /\ size'[d] = size[d]
                                    /\ offsets'[d] = offsets[d]
                                    /\ buffer_id'[d] = buffer_id[d]
<1>1. active_idx'[c] = 0 /\ size'[c] = 0 /\ offsets'[c] = [i \in Buffer |-> 0]
  BY DEF TypeOK, ResetTraceBuffers
<1>2. \A d \in CPU : d # c => /\ active_idx'[d] = active_idx[d]
                              /\ size'[d] = size[d]
                              /\ offsets'[d] = offsets[d]
                              /\ buffer_id'[d] = buffer_id[d]
  BY DEF TypeOK, ResetTraceBuffers
<1>3. Total([i \in Buffer |-> 0], 0) = 0 /\ Total([i \in Buffer |-> 0], 0 + 1) = 0
  <2>1. [i \in Buffer |-> 0] \in [Buffer -> Nat]
    OBVIOUS
  <2> QED
    BY <2>1, SetFacts, TotalFacts
<1> QED
  BY <1>1, <1>2, <1>3 DEF Before

\* The invariant is kept by clear_offset.
LEMMA ClearOffsetStream ==
  ASSUME SInv, ClearOffset PROVE StreamInv'
<1> USE DEF ClearOffset, OffsetReset, timerVars
<1>1. IInv /\ TypeOK /\ cpu \in CPU /\ Quiet(cpu)
  BY DEF SInv, IInv, TypeOK, PhaseInv, MayRun, NextCpu
<1>2. /\ control = "clear" /\ cpu' \in CPU
      /\ \/ cpu' = cpu + 1 /\ control' = "clear"
         \/ cpu' = 0 /\ control' = "activate" /\ cpu = NCPU - 1
  BY <1>1, NextCpuFacts
<1>3. PICK c \in CPU : c = cpu
  BY <1>1
<1>4. ActiveInv'
  BY <1>2 DEF SInv, StreamInv, ActiveInv
<1>5. ASSUME NEW d \in CPU, d # c PROVE StreamOk(d)'
  <2>1. Untouched(d)
    BY <1>1, <1>3, <1>5, ResetList DEF Untouched, TypeOK
  <2>2. PhaseKept(d)
    BY <1>1, <1>3, <1>2, <1>5 DEF PhaseKept, Valid, Cleared, Closed, CPU
  <2> QED
    BY <2>1, <2>2, OthersOk
<1>6. StreamOk(c)'
  <2>1. /\ hwOffset'[c] = 0 /\ ~hwOn'[c] /\ ~timer'[c] /\ callback'[c] = "none"
        /\ new_buf_idx'[c] = NoBuffer
    BY <1>1, <1>3 DEF IInv, TypeOK, Quiet, CallbackInv
  <2>2. ~Valid(c)' /\ ~Closed(c)'
    BY <1>1, <1>2, <1>3, SizeAssumption DEF Valid, Closed, CPU
  <2>3. TimerOk(c)'
    BY <2>1 DEF TimerOk
  <2>4. ListOk(c)'
    BY <1>1, <1>3, <2>1, SetFacts, ResetList DEF ListOk, Before
  <2>5. ClearedOk(c)'
    BY <1>1, <1>3, <2>1, <2>2, SetFacts, ResetList DEF ClearedOk
  <2>6. ContentOk(c)' /\ ClosedOk(c)'
    BY <2>2 DEF ContentOk, ClosedOk
  <2>7. ScheduleOk(c)'
    <3>1. StreamOk(c)
      BY DEF SInv, StreamInv
    <3> QED
      BY <2>1, <3>1 DEF StreamOk, ScheduleOk, Quiet
  <2> QED
    BY <2>3, <2>4, <2>5, <2>6, <2>7 DEF StreamOk
<1> QED
  BY <1>4, <1>5, <1>6 DEF StreamInv

\* The invariant is kept by the reset of the sideband.
LEMMA ActivateSidebandStream ==
  ASSUME SInv, ActivateSideband PROVE StreamInv'
<1> USE DEF ActivateSideband, traceVars, timerVars
<1>1. IInv /\ TypeOK
  BY DEF SInv, IInv
<1>2. ActiveInv'
  BY DEF SInv, StreamInv, ActiveInv
<1>3. ASSUME NEW d \in CPU PROVE StreamOk(d)'
  <2>1. StreamOk(d) /\ Cleared(d) /\ Cleared(d)' /\ ~Closed(d)'
    BY DEF SInv, StreamInv, Cleared, Closed
  <2>2. active_idx[d] = 0 /\ offsets[d][0] = 0 /\ hwOffset[d] = 0
    BY <2>1 DEF StreamOk, ClearedOk
  <2>3. emitted'[d] = 0 /\ ~late'[d] /\ sched'[d] = NoSchedule
    OBVIOUS
  <2>4. \A i : Before(d, i)' = Before(d, i) /\ FilledTo(d, i)' = FilledTo(d, i)
    BY DEF Before, FilledTo
  <2>5. Before(d, 0) = 0 /\ FilledTo(d, 0) = 0
    BY <1>1, <2>2, CpuTypes, TotalFacts, SetFacts DEF Before, FilledTo
  <2>6. TimerOk(d)' /\ ListOk(d)'
    BY <2>1, <2>4 DEF StreamOk, TimerOk, ListOk
  <2>7. ClearedOk(d)'
    BY <2>2, <2>3 DEF ClearedOk, NoSchedule
  <2>8. ContentOk(d)'
    BY <2>2, <2>3, <2>4, <2>5 DEF ContentOk
  <2>9. ClosedOk(d)' /\ ScheduleOk(d)'
    BY <2>1, <2>3 DEF ClosedOk, ScheduleOk, NoSchedule
  <2> QED
    BY <2>6, <2>7, <2>8, <2>9 DEF StreamOk
<1> QED
  BY <1>2, <1>3 DEF StreamInv

\* The invariant is kept by the start of a CPU.
LEMMA StartCpuStream ==
  ASSUME SInv, StartCpu PROVE StreamInv'
<1> USE DEF StartCpu, OffsetReset
<1>1. IInv /\ TypeOK /\ cpu \in CPU /\ callback[cpu] = "none" /\ new_buf_idx[cpu] = NoBuffer
  BY DEF SInv, IInv, TypeOK, CallbackInv
<1>2. /\ control = "start" /\ cpu' \in CPU /\ capture_on = 1
      /\ \/ cpu' = cpu + 1 /\ control' = "start"
         \/ cpu' = 0 /\ control' = "idle" /\ cpu = NCPU - 1
  BY <1>1, NextCpuFacts DEF IInv, PhaseInv
<1>3. PICK c \in CPU : c = cpu
  BY <1>1
<1>4. ActiveInv'
  BY <1>2 DEF SInv, StreamInv, ActiveInv
<1>5. ASSUME NEW d \in CPU, d # c PROVE StreamOk(d)'
  <2>1. Untouched(d)
    BY <1>1, <1>3, <1>5, ResetList DEF Untouched, TypeOK
  <2>2. PhaseKept(d)
    BY <1>1, <1>3, <1>2, <1>5 DEF PhaseKept, Valid, Cleared, Closed, CPU
  <2> QED
    BY <2>1, <2>2, OthersOk
<1>6. StreamOk(c)'
  <2>1. /\ hwOffset'[c] = 0 /\ hwOn'[c] /\ timer'[c] /\ callback'[c] = "none"
        /\ new_buf_idx'[c] = NoBuffer
    BY <1>1, <1>3 DEF TypeOK
  <2>2. ~Cleared(c)' /\ ~Closed(c)'
    BY <1>1, <1>2, <1>3 DEF Cleared, Closed, CPU
  <2>3. StreamOk(c) /\ Cleared(c) /\ Valid(c)
    BY <1>1, <1>2, <1>3 DEF SInv, StreamInv, Cleared, Valid, CPU
  <2>4. emitted'[c] = 0 /\ ~late'[c] /\ sched'[c].buff_offset = sched'[c].position
    BY <2>3 DEF StreamOk, ClearedOk
  <2>5. TimerOk(c)'
    BY <2>1 DEF TimerOk
  <2>6. ListOk(c)'
    BY <1>1, <1>3, <2>1, SetFacts, ResetList DEF ListOk, Before
  <2>7. FilledTo(c, 0)' = 0
    BY <1>1, <1>3, <2>1, SetFacts, ResetList DEF FilledTo
  <2>8. ContentOk(c)'
    BY <1>1, <1>3, <2>4, <2>7, ResetList DEF ContentOk
  <2>9. ClearedOk(c)' /\ ClosedOk(c)' /\ ScheduleOk(c)'
    BY <2>2, <2>4 DEF ClearedOk, ClosedOk, ScheduleOk
  <2> QED
    BY <2>5, <2>6, <2>8, <2>9 DEF StreamOk
<1> QED
  BY <1>4, <1>5, <1>6 DEF StreamInv

\* The invariant is kept by the stop of a CPU.
LEMMA StopCpuStream ==
  ASSUME SInv, StopCpu PROVE StreamInv'
<1> USE DEF StopCpu, TimerOff, poolVars
<1>1. IInv /\ TypeOK /\ cpu \in CPU /\ callback[cpu] = "none"
  BY DEF SInv, IInv, TypeOK
<1>2. /\ control = "stop" /\ cpu' \in CPU /\ capture_on = 0
      /\ \/ cpu' = cpu + 1 /\ control' = "stop"
         \/ cpu' = 0 /\ control' = "idle" /\ cpu = NCPU - 1
  BY <1>1, NextCpuFacts DEF IInv, PhaseInv
<1>3. PICK c, a, off, h :
          c \in CPU /\ c = cpu /\ a = active_idx[c] /\ off = offsets[c] /\ h = hwOffset[c]
  BY <1>1
<1>4. ActiveInv'
  BY <1>2 DEF SInv, StreamInv, ActiveInv
<1>5. ASSUME NEW d \in CPU, d # c PROVE StreamOk(d)'
  <2>1. Untouched(d)
    BY <1>1, <1>3, <1>5 DEF Untouched, TypeOK
  <2>2. PhaseKept(d)
    BY <1>1, <1>3, <1>2, <1>5 DEF PhaseKept, Valid, Cleared, Closed, CPU
  <2> QED
    BY <2>1, <2>2, OthersOk
<1>6. StreamOk(c)'
  <2>1. ~hwOn'[c] /\ ~timer'[c] /\ callback'[c] = "none"
    BY <1>1, <1>3 DEF TypeOK
  <2>2. /\ StreamOk(c) /\ Valid(c) /\ Valid(c)' /\ ~Cleared(c)'
    BY <1>1, <1>2, <1>3 DEF SInv, StreamInv, Valid, Cleared
  <2>3. TimerOk(c)' /\ ClearedOk(c)'
    BY <2>1, <2>2 DEF TimerOk, ClearedOk
  <2>4. ScheduleOk(c)'
    BY <2>1, <2>2 DEF StreamOk, ScheduleOk, Quiet
  <2>5. /\ a \in Nat /\ a \in Buffer /\ h \in Nat /\ off \in [Buffer -> Nat]
        /\ Before(c, a) \in Nat
        /\ size[c] = Before(c, a) + off[a]
        /\ a \in 0 .. a
    BY <1>1, <1>3, <2>2, CpuTypes, FilledTypes DEF StreamOk, ListOk
  <2>6. CASE off[a] = 0
    <3>1. /\ offsets'[c] = [off EXCEPT ![a] = h]
          /\ size'[c] = size[c] + h
      BY <1>1, <1>3, <2>6 DEF TypeOK, CloseAtStop
    <3>2. /\ offsets'[c][a] = h
          /\ \A i \in Buffer : i # a => offsets'[c][i] = off[i]
          /\ offsets'[c] \in [Buffer -> Nat]
      BY <2>5, <3>1
    <3>3. \A i \in 0 .. a : Total(offsets'[c], i) = Total(off, i)
      <4> SUFFICES ASSUME NEW i \in 0 .. a PROVE Total(offsets'[c], i) = Total(off, i)
        OBVIOUS
      <4>1. i \in 0 .. PoolSize /\ \A j \in 0 .. i - 1 : j \in Buffer /\ j # a
        BY <2>5, SizeAssumption DEF Buffer
      <4>2. \A j \in 0 .. i - 1 : offsets'[c][j] = off[j]
        BY <3>2, <4>1
      <4> QED
        BY <2>5, <3>2, <4>1, <4>2, TotalPrefix
    <3>4. Total(offsets'[c], a + 1) = Before(c, a) + h
      BY <1>3, <2>5, <3>2, <3>3, TotalFacts DEF Before
    <3>5. ListOk(c)'
      <4>1. size'[c] = Before(c, active_idx[c] + 1)'
        BY <1>3, <2>5, <2>6, <3>1, <3>4 DEF Before
      <4>2. \A i \in Buffer : i > active_idx'[c] => offsets'[c][i] = 0
        BY <1>3, <2>2, <3>2, <2>5 DEF StreamOk, ListOk, Buffer
      <4> QED
        BY <1>3, <2>1, <2>2, <3>2, <4>1, <4>2 DEF StreamOk, ListOk
    <3>6. \A i \in 0 .. a : FilledTo(c, i)' = FilledTo(c, i)
      <4> SUFFICES ASSUME NEW i \in 0 .. a PROVE FilledTo(c, i)' = FilledTo(c, i)
        OBVIOUS
      <4>1. CASE i = a
        BY <1>1, <1>3, <2>1, <2>5, <2>6, <3>2, <4>1 DEF FilledTo
      <4>2. CASE i # a
        <5>1. i < a /\ i \in Buffer
          BY <1>1, <1>3, <2>5, <4>2, FilledTypes
        <5> QED
          BY <1>3, <3>2, <5>1 DEF FilledTo
      <4> QED
        BY <4>1, <4>2
    <3>7. ContentOk(c)'
      BY <1>3, <2>2, <2>5, <3>3, <3>6 DEF StreamOk, ContentOk, Before
    <3>8. ClosedOk(c)'
      BY <1>3, <3>2 DEF ClosedOk
    <3> QED
      BY <2>3, <2>4, <3>5, <3>7, <3>8 DEF StreamOk
  <2>7. CASE off[a] # 0
    <3>1. offsets' = offsets /\ size' = size
      BY <1>3, <2>7 DEF CloseAtStop
    <3>2. \A i : Before(c, i)' = Before(c, i) /\ FilledTo(c, i)' = FilledTo(c, i)
      BY <3>1 DEF Before, FilledTo
    <3>3. ListOk(c)' /\ ContentOk(c)'
      BY <2>1, <2>2, <3>1, <3>2 DEF StreamOk, ListOk, ContentOk
    <3>4. ClosedOk(c)'
      BY <1>3, <2>7, <3>1 DEF ClosedOk
    <3> QED
      BY <2>3, <2>4, <3>3, <3>4 DEF StreamOk
  <2> QED
    BY <2>6, <2>7
<1> QED
  BY <1>4, <1>5, <1>6 DEF StreamInv

-----------------------------------------------------------------------------
(* Theorems about the streams *)

\* In every state of the tracer, whatever callbacks, starts and stops came
\* before: the lists are what the pool says they are, and every unit the
\* hardware stored since the start is in its place in its CPU's list.
THEOREM StreamInvariance == Spec => []SInv
<1>1. Init => SInv
  BY InitInv, InitStream DEF SInv
<1>2. SInv /\ IInv' /\ [Next]_vars => SInv'
  <2> SUFFICES ASSUME SInv, [Next]_vars PROVE StreamInv'
    BY DEF SInv
  <2>1. ASSUME NEW c \in CPU, HwEmit(c) PROVE StreamInv'
    BY <2>1, HwEmitStream
  <2>2. ASSUME NEW c \in CPU, TimerFires(c) PROVE StreamInv'
    BY <2>2, TimerFiresStream
  <2>3. ASSUME NEW c \in CPU, StopAndRequest(c) PROVE StreamInv'
    BY <2>3, StopAndRequestStream
  <2>4. ASSUME NEW c \in CPU, SwitchBuffer(c) PROVE StreamInv'
    BY <2>4, SwitchBufferStream
  <2>5. ASSUME NEW c \in CPU, FinishCallback(c) PROVE StreamInv'
    BY <2>5, FinishCallbackStream
  <2>6. ASSUME NEW c \in CPU, SendSchedule(c) PROVE StreamInv'
    BY <2>6, SendScheduleStream
  <2>7. ASSUME NEW value \in {0, 1}, WriteControl(value) PROVE StreamInv'
    BY <2>7, WriteControlStream
  <2>8. CASE ClearOffset
    BY <2>8, ClearOffsetStream
  <2>9. CASE ActivateSideband
    BY <2>9, ActivateSidebandStream
  <2>10. CASE ReinitPool
    BY <2>10, ReinitPoolStream
  <2>11. CASE StartCpu
    BY <2>11, StartCpuStream
  <2>12. CASE StopCpu
    BY <2>12, StopCpuStream
  <2>13. CASE UNCHANGED vars
    <3>1. UNCHANGED <<content, active_idx, size, offsets, buffer_id, hwOn, hwOffset, emitted, late,
                      timer, callback, new_buf_idx, trace_active, capture_on, control, cpu, sched>>
      BY <2>13 DEF vars, poolVars, traceVars, hwVars, timerVars, controlVars
    <3>2. ActiveInv'
      BY <3>1 DEF SInv, StreamInv, ActiveInv
    <3>3. ASSUME NEW d \in CPU PROVE StreamOk(d)'
      <4>1. Untouched(d)
        BY <3>1 DEF Untouched
      <4> QED
        BY <3>1, <4>1, SamePhase, OthersOk
    <3> QED
      BY <3>2, <3>3 DEF StreamInv
  <2> QED
    BY <2>1, <2>2, <2>3, <2>4, <2>5, <2>6, <2>7, <2>8, <2>9, <2>10, <2>11, <2>12, <2>13
    DEF Next
<1> QED
  BY <1>1, <1>2, Invariance, PTL DEF Spec

\* trace->size is the sum of the closed offsets, in every order of the
\* switches and stops: read_stream_fop neither misses the end of a stream nor
\* goes past it.
THEOREM SizesAreSums == Spec => []SizeIsSum
<1>1. SInv => SizeIsSum
  BY DEF SInv, StreamInv, StreamOk, ListOk, SizeIsSum
<1> QED
  BY <1>1, StreamInvariance, PTL

\* As long as no timer came late, a schedule message names the place its
\* CPU's stream had reached, or, after the pool ran dry, one past the end of
\* that stream: never a wrong place inside it.
THEOREM SchedulesInStream == Spec => []ScheduleInStream
<1>1. SInv => ScheduleInStream
  BY DEF SInv, StreamInv, StreamOk, ScheduleOk, ScheduleInStream
<1> QED
  BY <1>1, StreamInvariance, PTL

-----------------------------------------------------------------------------
\* The log of CPU c, from the history.
LogOf(c) ==
  IF late[c] \/ ~Valid(c) \/ buffer_id[c][0] = NoBuffer THEN <<>>
  ELSE [k \in 1 .. emitted[c] |-> Unit(c, k)]

\* Units of data.
Datum == {Stale} \cup (CPU \X Nat)

\* Units are data.
LEMMA UnitsType ==
  ASSUME TypeOK, NEW b \in Buffer \cup {NoBuffer}, NEW from \in Nat, NEW n \in Nat,
         from + n <= BufSize
  PROVE  Units(b, from, n) \in Seq(Datum)
<1>1. \A k \in 1 .. n : (IF b \in Buffer THEN content[b][from + k - 1] ELSE Stale) \in Datum
  <2> SUFFICES ASSUME NEW k \in 1 .. n, b \in Buffer PROVE content[b][from + k - 1] \in Datum
    BY DEF Datum
  <2>1. from + k - 1 \in 0 .. BufSize - 1
    BY SizeAssumption
  <2> QED
    <3>1. content[b] \in [0 .. BufSize - 1 -> Datum]
      BY DEF TypeOK, Datum
    <3> QED
      BY <2>1, <3>1
<1> QED
  BY <1>1 DEF Units

\* What is stored in the list's buffers, read from the first to the last, is
\* the log of what the hardware recorded.
LEMMA StoredIsLog ==
  ASSUME SInv, NEW c \in CPU, ~late[c]
  PROVE  Stored(c) = LogOf(c)
<1>1. TypeOK /\ StreamOk(c)
  BY DEF SInv, StreamInv, IInv
<1>2. PICK a : a = active_idx[c] /\ a \in 0 .. a /\ a \in Nat /\ a \in Buffer
               /\ a \in 0 .. PoolSize /\ a + 1 \in 0 .. PoolSize
  BY <1>1, CpuTypes
<1> DEFINE filled(i) == IF buffer_id[c][i] = NoBuffer THEN 0 ELSE FilledTo(c, i)
           pieces == [i \in Buffer |-> Units(buffer_id[c][i], 0, filled(i))]
           list == [i \in Buffer |-> filled(i)]
           data == [k \in Nat |-> Unit(c, k)]
<1>3. \A i \in Buffer : /\ filled(i) \in Nat /\ filled(i) <= BufSize - 1
                        /\ buffer_id[c][i] \in Buffer \cup {NoBuffer}
  <2> SUFFICES ASSUME NEW i \in Buffer
               PROVE  filled(i) \in 0 .. BufSize - 1 /\ buffer_id[c][i] \in Buffer \cup {NoBuffer}
    BY SizeAssumption
  <2>1. offsets[c][i] \in 0 .. BufSize - 1 /\ hwOffset[c] \in 0 .. BufSize - 1
        /\ buffer_id[c][i] \in Buffer \cup {NoBuffer}
    BY <1>1, CpuTypes
  <2>2. FilledTo(c, i) \in 0 .. BufSize - 1
    BY <2>1, SetFacts DEF FilledTo
  <2> QED
    BY <2>1, <2>2, SetFacts
<1>4. list \in [Buffer -> Nat]
  BY <1>3
<1>5. pieces \in [Buffer -> Seq(Datum)]
  <2>1. \A i \in Buffer : Units(buffer_id[c][i], 0, filled(i)) \in Seq(Datum)
    <3> SUFFICES ASSUME NEW i \in Buffer PROVE Units(buffer_id[c][i], 0, filled(i)) \in Seq(Datum)
      OBVIOUS
    <3>1. PICK n : n = filled(i) /\ n \in Nat /\ 0 + n <= BufSize
      BY <1>3, SizeAssumption
    <3> HIDE DEF filled
    <3> QED
      BY <1>1, <1>3, <3>1, UnitsType
  <2> QED
    BY <2>1
<1>6. Stored(c) = Joined(pieces, a + 1)
  BY <1>2 DEF Stored
<1>7. data \in [Nat -> Datum]
  BY DEF Unit, Datum
<1>8. CASE buffer_id[c][0] # NoBuffer /\ Valid(c)
  <2>1. \A i \in 0 .. a : buffer_id[c][i] # NoBuffer /\ buffer_id[c][i] \in Buffer /\ i \in Buffer
    BY <1>1, <1>2, <1>3, <1>8, FilledTypes DEF StreamOk, ListOk
  <2>2. \A i \in 0 .. a : list[i] = FilledTo(c, i) /\ pieces[i] = Units(buffer_id[c][i], 0, list[i])
    BY <2>1
  <2>3. \A i \in 0 .. a : Total(list, i) = Before(c, i)
    <3> SUFFICES ASSUME NEW i \in 0 .. a PROVE Total(list, i) = Total(offsets[c], i)
      BY DEF Before
    <3>1. i \in 0 .. PoolSize /\ offsets[c] \in [Buffer -> Nat]
      BY <1>1, <1>2, CpuTypes, FilledTypes
    <3>2. \A j \in 0 .. i - 1 : list[j] = offsets[c][j]
      <4> SUFFICES ASSUME NEW j \in 0 .. i - 1 PROVE list[j] = offsets[c][j]
        OBVIOUS
      <4>1. j \in 0 .. a /\ j < a
        BY <1>2
      <4> HIDE DEF list
      <4> QED
        BY <1>2, <2>2, <4>1 DEF FilledTo
    <3> HIDE DEF list
    <3> QED
      BY <1>4, <3>1, <3>2, TotalPrefix
  <2>4. /\ emitted[c] = Before(c, a) + FilledTo(c, a)
        /\ \A i \in 0 .. a : \A k \in 0 .. FilledTo(c, i) - 1 :
             content[buffer_id[c][i]][k] = Unit(c, Before(c, i) + k + 1)
    BY <1>1, <1>2, <1>8, <2>1 DEF StreamOk, ContentOk
  <2> HIDE DEF list, pieces, filled
  <2>5. Total(list, a + 1) = emitted[c]
    BY <1>2, <1>4, <2>2, <2>3, <2>4, TotalFacts
  <2>6. PICK n \in 0 .. PoolSize : n = a + 1
    BY <1>2
  <2>7. ASSUME NEW i \in 0 .. n - 1
        PROVE  pieces[i] = [k \in 1 .. list[i] |-> data[Total(list, i) + k]]
    <3>1. i \in 0 .. a
      BY <1>2, <2>6
    <3>2. Before(c, i) \in Nat /\ FilledTo(c, i) \in Nat
      BY <1>1, <1>2, <3>1, FilledTypes
    <3>3. \A k \in 1 .. list[i] :
            content[buffer_id[c][i]][0 + k - 1] = data[Total(list, i) + k]
      <4> SUFFICES ASSUME NEW k \in 1 .. list[i]
                   PROVE content[buffer_id[c][i]][0 + k - 1] = data[Total(list, i) + k]
        OBVIOUS
      <4>1. k \in 1 .. FilledTo(c, i) /\ Total(list, i) = Before(c, i)
        BY <2>2, <2>3, <3>1
      <4>2. k - 1 \in 0 .. FilledTo(c, i) - 1 /\ 0 + k - 1 = k - 1
        BY <4>1, <3>2
      <4>3. content[buffer_id[c][i]][k - 1] = Unit(c, Before(c, i) + (k - 1) + 1)
        BY <2>4, <3>1, <4>2
      <4>4. Before(c, i) + (k - 1) + 1 = Before(c, i) + k /\ Before(c, i) + k \in Nat
        BY <3>2, <4>1
      <4> QED
        BY <4>1, <4>2, <4>3, <4>4
    <3>4. pieces[i] = [k \in 1 .. list[i] |-> content[buffer_id[c][i]][0 + k - 1]]
      BY <2>1, <2>2, <3>1 DEF Units
    <3> HIDE DEF data
    <3> QED
      BY <3>3, <3>4
  <2> HIDE DEF data
  <2>8. Covers(pieces, list, data, n)
    BY <2>7 DEF Covers
  <2>9. Joined(pieces, n) = FirstOf(data, Total(list, n))
    BY <1>4, <1>5, <1>7, <2>8, JoinedIsPrefix
  <2>10. Stored(c) = [k \in 1 .. emitted[c] |-> data[k]]
    BY <1>6, <2>5, <2>9, <2>6 DEF FirstOf
  <2>11. \A k \in 1 .. emitted[c] : data[k] = Unit(c, k)
    BY <1>1, CpuTypes DEF data
  <2>12. Stored(c) = [k \in 1 .. emitted[c] |-> Unit(c, k)]
    BY <2>10, <2>11
  <2> QED
    BY <1>8, <2>12 DEF LogOf
<1>9. CASE ~(buffer_id[c][0] # NoBuffer /\ Valid(c))
  <2>1. a = 0
    BY <1>1, <1>2, <1>9, CpuTypes DEF StreamOk, ListOk, ClearedOk, Valid, Cleared, IInv, TypeOK, CPU
  <2>2. filled(0) = 0
    BY <1>1, <1>2, <1>9, <2>1, CpuTypes DEF StreamOk, ListOk, ClearedOk, Valid, Cleared, FilledTo,
       TypeOK, CPU
  <2>3. pieces[0] = <<>>
    BY <2>2, SetFacts DEF Units
  <2> HIDE DEF pieces
  <2>4. Joined(pieces, 0 + 1) = <<>> \o pieces[0]
    BY <1>5, SetFacts, JoinedFacts
  <2>5. Stored(c) = <<>>
    BY <1>6, <2>1, <2>3, <2>4
  <2> QED
    BY <1>9, <2>5 DEF LogOf
<1> QED
  BY <1>8, <1>9

-----------------------------------------------------------------------------
(* The buffers implement RecordingLog *)

\* The logs of all CPUs, from the history.
LogsOf == [c \in CPU |-> LogOf(c)]

\* The invariant, with the mapped logs being the history's.
LogInv == SInv /\ Logs = LogsOf

\* It follows from the inductive invariant.
LEMMA LogsAre == SInv => LogInv
BY StoredIsLog DEF LogInv, Logs, LogsOf, LogOf

\* A step that changes nothing of what the log is made of is a stutter.
LEMMA LogStutters ==
  ASSUME LogInv, LogInv',
         \A d \in CPU : LogOf(d)' = LogOf(d),
         late' = late,
         \A d \in CPU : (hwOn'[d] \/ callback'[d] # "none") <=> (hwOn[d] \/ callback[d] # "none")
  PROVE  UNCHANGED Log!logVars
<1>1. Logs' = Logs
  BY DEF LogInv, LogsOf
<1>2. Open' = Open
  BY DEF Open, LogInv, SInv, IInv, TypeOK
<1> QED
  BY <1>1, <1>2 DEF Log!logVars

\* The log of a CPU.
LEMMA LogTypes ==
  ASSUME TypeOK, NEW c \in CPU
  PROVE  /\ ~late[c] /\ Valid(c) /\ buffer_id[c][0] # NoBuffer =>
              LogOf(c) = [k \in 1 .. emitted[c] |-> Unit(c, k)] /\ Len(LogOf(c)) = emitted[c]
         /\ emitted[c] = 0 => LogOf(c) = <<>>
<1>1. emitted[c] \in Nat
  BY CpuTypes
<1> QED
  BY <1>1 DEF LogOf

\* Storing a unit of trace appends it to its CPU's log, or overwrites what the
\* log had when no callback came in time.
LEMMA HwEmitLog ==
  ASSUME LogInv, LogInv', NEW c \in CPU, HwEmit(c)
  PROVE  [Log!Next]_Log!logVars
<1>1. IInv /\ TypeOK /\ TypeOK' /\ StreamOk(c) /\ hwOn[c]
  BY DEF LogInv, SInv, StreamInv, IInv, HwEmit
<1>2. Valid(c) /\ MayRun(c)
  BY <1>1, RunsInPhase, RunningPhase DEF Quiet
<1>3. UNCHANGED <<control, cpu, capture_on, buffer_id, hwOn, callback>>
  BY DEF HwEmit, traceVars, timerVars, controlVars
<1>4. /\ \A d \in CPU : d # c => emitted'[d] = emitted[d] /\ late'[d] = late[d]
      /\ emitted'[c] = emitted[c] + 1 /\ emitted[c] \in Nat
      /\ late[c] => late'[c]
      /\ \A d \in CPU : Valid(d)' = Valid(d)
  BY <1>1, <1>3, SamePhase DEF HwEmit, TypeOK
<1>5. \A d \in CPU : d # c => LogOf(d)' = LogOf(d)
  BY <1>3, <1>4 DEF LogOf
<1>6. Open' = Open /\ Open[c]
  BY <1>1, <1>3 DEF Open
<1>7. Logs = LogsOf /\ Logs' = LogsOf'
  BY DEF LogInv
<1>8. CASE late[c] \/ (~late'[c] /\ buffer_id[c][0] = NoBuffer)
  <2>1. late' = late
    <3>1. late'[c] = late[c]
      BY ZenonT(30), <1>1, <1>4, <1>8, CpuTypes DEF TypeOK
    <3> QED
      BY <1>1, <1>4, <3>1 DEF TypeOK
  <2>2. LogOf(c)' = LogOf(c)
    BY <1>3, <1>8, <2>1 DEF LogOf
  <2> QED
    BY <1>3, <1>5, <2>1, <2>2, LogStutters
<1>9. CASE ~late[c] /\ late'[c]
  <2>1. late' = [late EXCEPT ![c] = TRUE]
    BY <1>1, <1>4, <1>9 DEF TypeOK
  <2>2. LogOf(c)' = <<>>
    BY <1>9 DEF LogOf
  <2>3. LogsOf' = [LogsOf EXCEPT ![c] = <<>>]
    BY <1>5, <2>2 DEF LogsOf
  <2>4. Log!Overrun(c)
    BY <1>6, <1>7, <2>1, <2>3 DEF Log!Overrun
  <2> QED
    BY <2>4 DEF Log!Next, CPU
<1>10. CASE ~late'[c] /\ buffer_id[c][0] # NoBuffer
  <2>1. late' = late /\ ~late[c]
    BY <1>1, <1>4, <1>10 DEF TypeOK
  <2>2. LogOf(c) = [k \in 1 .. emitted[c] |-> Unit(c, k)] /\ Len(LogOf(c)) = emitted[c]
    BY <1>1, <1>2, <1>10, <2>1, LogTypes
  <2>3. LogOf(c)' = [k \in 1 .. emitted[c] + 1 |-> Unit(c, k)]
    BY <1>2, <1>3, <1>4, <1>10, <2>1 DEF LogOf
  <2>4. LogOf(c)' = Append(LogOf(c), <<c, Len(LogOf(c)) + 1>>)
    BY <1>4, <2>2, <2>3 DEF Unit
  <2>5. LogsOf' = [LogsOf EXCEPT ![c] = Append(@, <<c, Len(@) + 1>>)]
    BY <1>5, <2>4 DEF LogsOf
  <2>6. Log!Record(c)
    BY <1>6, <1>7, <2>1, <2>5 DEF Log!Record
  <2> QED
    BY <2>6 DEF Log!Next, CPU
<1> QED
  BY <1>1, <1>8, <1>9, <1>10, CpuTypes

\* A timer, the callback's request, its switch of buffers and a schedule
\* message leave the logs alone: the switch keeps what the old buffer has.
LEMMA QuietStepLog ==
  ASSUME LogInv, LogInv', NEW c \in CPU,
         \/ TimerFires(c)
         \/ StopAndRequest(c)
         \/ SwitchBuffer(c)
         \/ SendSchedule(c)
  PROVE  UNCHANGED Log!logVars
<1>1. IInv /\ TypeOK /\ TypeOK' /\ StreamOk(c) /\ StreamOk(c)'
  BY DEF LogInv, SInv, StreamInv, IInv
<1>2. UNCHANGED <<control, cpu, capture_on, emitted, late>>
  BY DEF TimerFires, StopAndRequest, SwitchBuffer, SendSchedule, hwVars, controlVars
<1>3. \A d \in CPU : d # c => callback'[d] = callback[d] /\ hwOn'[d] = hwOn[d]
  BY <1>1 DEF TypeOK, TimerFires, StopAndRequest, SwitchBuffer, SendSchedule, hwVars, timerVars
<1>4. \A d \in CPU : buffer_id'[d][0] = buffer_id[d][0]
  <2>1. CASE SwitchBuffer(c)
    <3>1. active_idx[c] \in Nat
      BY <1>1, CpuTypes
    <3>2. active_idx[c] + 1 # 0
      BY <3>1
    <3>3. CASE active /\ new_buf_idx[c] # NoBuffer
      <4>1. buffer_id' = [buffer_id EXCEPT ![c][active_idx[c] + 1] = new_buf_idx[c]]
        BY <2>1, <3>3 DEF SwitchBuffer
      <4> QED
        BY <1>1, <3>2, <4>1, SetFacts DEF TypeOK
    <3>4. CASE ~(active /\ new_buf_idx[c] # NoBuffer)
      BY <2>1, <3>4 DEF SwitchBuffer, traceVars
    <3> QED
      BY <3>3, <3>4
  <2>2. CASE ~SwitchBuffer(c)
    BY <2>2 DEF TimerFires, StopAndRequest, SendSchedule, traceVars
  <2> QED
    BY <2>1, <2>2
<1>5. \A d \in CPU : LogOf(d)' = LogOf(d)
  BY <1>2, <1>4, SamePhase DEF LogOf
<1>6. (hwOn'[c] \/ callback'[c] # "none") <=> (hwOn[c] \/ callback[c] # "none")
  <2>1. CASE TimerFires(c)
    BY <1>1, <2>1 DEF TypeOK, TimerFires, StreamOk, TimerOk
  <2>2. CASE StopAndRequest(c)
    BY <1>1, <2>2 DEF TypeOK, StopAndRequest
  <2>3. CASE SwitchBuffer(c)
    BY <1>1, <2>3 DEF TypeOK, SwitchBuffer
  <2>4. CASE SendSchedule(c)
    BY <2>4 DEF SendSchedule, hwVars, timerVars
  <2> QED
    BY <2>1, <2>2, <2>3, <2>4
<1> QED
  BY <1>2, <1>3, <1>5, <1>6, LogStutters

\* The end of a callback goes on, or closes the log.
LEMMA FinishCallbackLog ==
  ASSUME LogInv, LogInv', NEW c \in CPU, FinishCallback(c)
  PROVE  [Log!Next]_Log!logVars
<1>1. TypeOK /\ callback[c] = "resume"
  BY DEF LogInv, SInv, IInv, FinishCallback
<1>2. UNCHANGED <<control, cpu, capture_on, emitted, late, buffer_id>>
  BY DEF FinishCallback, traceVars, controlVars
<1>3. /\ callback'[c] = "none"
      /\ \A d \in CPU : d # c => callback'[d] = callback[d] /\ hwOn'[d] = hwOn[d]
  BY <1>1 DEF TypeOK, FinishCallback
<1>4. \A d \in CPU : LogOf(d)' = LogOf(d)
  BY <1>2, SamePhase DEF LogOf
<1>5. CASE hwOn'[c]
  BY <1>1, <1>2, <1>3, <1>4, <1>5, LogStutters
<1>6. CASE ~hwOn'[c]
  <2>1. Logs' = Logs
    BY <1>4 DEF LogInv, LogsOf
  <2>2. Open[c] /\ Open' = [Open EXCEPT ![c] = FALSE]
    BY <1>1, <1>3, <1>6 DEF Open
  <2>3. Log!Close(c)
    BY <1>2, <2>1, <2>2 DEF Log!Close
  <2> QED
    BY <2>3 DEF Log!Next, CPU
<1> QED
  BY <1>5, <1>6

\* A write to trace_enable and the reset of the pool leave the logs alone.
LEMMA WriterLog ==
  ASSUME LogInv, LogInv', ReinitPool \/ \E value \in {0, 1} : WriteControl(value)
  PROVE  UNCHANGED Log!logVars
<1>1. TypeOK
  BY DEF LogInv, SInv, IInv
<1>2. UNCHANGED <<emitted, late, buffer_id, hwOn, callback>>
  BY DEF ReinitPool, WriteControl, traceVars, hwVars, timerVars
<1>3. \A d \in CPU : Valid(d) /\ Valid(d)'
  BY SetFacts DEF ReinitPool, WriteControl, Valid, CPU
<1>4. \A d \in CPU : LogOf(d)' = LogOf(d)
  BY <1>2, <1>3 DEF LogOf
<1> QED
  BY <1>2, <1>4, LogStutters

\* clear_offset discards a CPU's log.
LEMMA ClearOffsetLog ==
  ASSUME LogInv, LogInv', ClearOffset
  PROVE  [Log!Next]_Log!logVars
<1>1. IInv /\ TypeOK /\ cpu \in CPU /\ Quiet(cpu)
  BY DEF LogInv, SInv, IInv, TypeOK, PhaseInv, MayRun, ClearOffset, NextCpu
<1>2. /\ control = "clear" /\ cpu' \in CPU
      /\ \/ cpu' = cpu + 1 /\ control' = "clear"
         \/ cpu' = 0 /\ control' = "activate" /\ cpu = NCPU - 1
  BY <1>1, NextCpuFacts DEF ClearOffset
<1>3. PICK c \in CPU : c = cpu
  BY <1>1
<1>4. UNCHANGED <<emitted, late, hwOn, callback>>
  BY DEF ClearOffset, timerVars
<1>5. ~Valid(c)' /\ \A d \in CPU : d # c => Valid(d)' = Valid(d)
  BY <1>1, <1>2, <1>3, SizeAssumption DEF Valid, CPU
<1>6. \A d \in CPU : d # c => buffer_id'[d] = buffer_id[d]
  BY <1>1, <1>3, ResetList DEF ClearOffset
<1>7. LogOf(c)' = <<>> /\ \A d \in CPU : d # c => LogOf(d)' = LogOf(d)
  BY <1>4, <1>5, <1>6 DEF LogOf
<1>8. LogsOf' = [LogsOf EXCEPT ![c] = <<>>]
  BY <1>7 DEF LogsOf
<1>9. ~Open[c] /\ Open' = Open
  BY <1>1, <1>3, <1>4 DEF Open, Quiet
<1>10. Log!Discard(c)
  BY <1>4, <1>8, <1>9 DEF Log!Discard, LogInv
<1> QED
  BY <1>10 DEF Log!Next, CPU

\* The reset of the sideband discards all logs.
LEMMA ActivateSidebandLog ==
  ASSUME LogInv, LogInv', ActivateSideband
  PROVE  [Log!Next]_Log!logVars
<1>1. TypeOK /\ TypeOK' /\ \A c \in CPU : Quiet(c)
  BY DEF LogInv, SInv, IInv, PhaseInv, MayRun, ActivateSideband
<1>2. \A c \in CPU : LogOf(c)' = <<>>
  <2> SUFFICES ASSUME NEW c \in CPU PROVE LogOf(c)' = <<>>
    OBVIOUS
  <2>1. emitted'[c] = 0
    BY DEF ActivateSideband
  <2>2. [k \in 1 .. 0 |-> Unit(c, k)] = <<>>
    OBVIOUS
  <2> QED
    BY <2>1, <2>2 DEF LogOf
<1>3. Logs' = [c \in CPU |-> <<>>]
  BY <1>2 DEF LogInv, LogsOf
<1>4. Open = [c \in CPU |-> FALSE] /\ Open' = Open
  BY <1>1 DEF Open, Quiet, ActivateSideband, timerVars
<1>5. Log!DiscardAll
  BY <1>3, <1>4 DEF Log!DiscardAll, ActivateSideband, CPU
<1> QED
  BY <1>5 DEF Log!Next

\* The start of a CPU opens its log, which is empty.
LEMMA StartCpuLog ==
  ASSUME LogInv, LogInv', StartCpu
  PROVE  [Log!Next]_Log!logVars
<1>1. IInv /\ TypeOK /\ cpu \in CPU /\ callback[cpu] = "none" /\ control = "start"
  BY DEF LogInv, SInv, IInv, TypeOK, StartCpu, NextCpu
<1>2. PICK c \in CPU : c = cpu
  BY <1>1
<1>3. Quiet(c)
  BY <1>1, <1>2 DEF IInv, PhaseInv, MayRun, CPU
<1>4. emitted[c] = 0 /\ ~late[c] /\ Valid(c)
  BY <1>1, <1>2 DEF LogInv, SInv, StreamInv, StreamOk, ClearedOk, Cleared, Valid, CPU
<1>5. UNCHANGED <<emitted, late, callback>> /\ hwOn' = [hwOn EXCEPT ![c] = TRUE]
  BY <1>2 DEF StartCpu
<1>6. \A d \in CPU : Valid(d) /\ Valid(d)'
  BY <1>1 DEF Valid, StartCpu, NextCpu
<1>7. \A d \in CPU : d # c => buffer_id'[d] = buffer_id[d]
  BY <1>1, <1>2, ResetList DEF StartCpu
<1>8. LogOf(c) = <<>> /\ LogOf(c)' = <<>>
  <2>1. [k \in 1 .. 0 |-> Unit(c, k)] = <<>>
    OBVIOUS
  <2> QED
    BY <1>4, <1>5, <2>1 DEF LogOf
<1>9. Logs' = Logs /\ Logs[c] = <<>>
  BY <1>5, <1>6, <1>7, <1>8 DEF LogInv, LogsOf, LogOf
<1>10. ~Open[c] /\ Open' = [Open EXCEPT ![c] = TRUE]
  BY <1>1, <1>3, <1>5 DEF Open, Quiet, TypeOK
<1>11. Log!Open(c)
  BY <1>4, <1>5, <1>9, <1>10 DEF Log!Open
<1> QED
  BY <1>11 DEF Log!Next, CPU

\* The stop of a CPU closes its log, unless its callback had.
LEMMA StopCpuLog ==
  ASSUME LogInv, LogInv', StopCpu
  PROVE  [Log!Next]_Log!logVars
<1>1. IInv /\ TypeOK /\ cpu \in CPU /\ callback[cpu] = "none" /\ control = "stop"
  BY DEF LogInv, SInv, IInv, TypeOK, StopCpu, NextCpu
<1>2. PICK c \in CPU : c = cpu
  BY <1>1
<1>3. UNCHANGED <<emitted, late, buffer_id, callback>> /\ hwOn' = [hwOn EXCEPT ![c] = FALSE]
  BY <1>2 DEF StopCpu
<1>4. \A d \in CPU : Valid(d) /\ Valid(d)'
  BY <1>1 DEF Valid, StopCpu, NextCpu
<1>5. \A d \in CPU : LogOf(d)' = LogOf(d)
  BY <1>3, <1>4 DEF LogOf
<1>6. CASE ~hwOn[c]
  BY <1>1, <1>3, <1>5, <1>6, LogStutters DEF TypeOK
<1>7. CASE hwOn[c]
  <2>1. Logs' = Logs
    BY <1>5 DEF LogInv, LogsOf
  <2>2. Open[c] /\ Open' = [Open EXCEPT ![c] = FALSE]
    BY <1>1, <1>2, <1>3, <1>7 DEF Open, TypeOK
  <2>3. Log!Close(c)
    BY <1>3, <2>1, <2>2 DEF Log!Close
  <2> QED
    BY <2>3 DEF Log!Next, CPU
<1> QED
  BY <1>6, <1>7

\* The buffers implement a log per CPU to which the recording only appends:
\* every step of the tracer is a step of RecordingLog or changes nothing of
\* the logs, and every state stores exactly the log.
THEOREM LogImplemented == Spec => RecordsALog
<1>1. Init => Log!Init
  <2> SUFFICES ASSUME Init PROVE Log!Init
    OBVIOUS
  <2>1. LogInv
    BY InitInv, InitStream, LogsAre DEF SInv
  <2>2. \A c \in CPU : LogOf(c) = <<>>
    <3> SUFFICES ASSUME NEW c \in CPU PROVE LogOf(c) = <<>>
      OBVIOUS
    <3>1. [k \in 1 .. 0 |-> Unit(c, k)] = <<>>
      OBVIOUS
    <3> QED
      BY <3>1 DEF Init, LogOf
  <2>3. Logs = [c \in CPU |-> <<>>]
    BY <2>1, <2>2 DEF LogInv, LogsOf
  <2> QED
    BY <2>3 DEF Log!Init, Init, Open, CPU
<1>2. LogInv /\ LogInv' /\ [Next]_vars => [Log!Next]_Log!logVars
  <2> SUFFICES ASSUME LogInv, LogInv', [Next]_vars PROVE [Log!Next]_Log!logVars
    OBVIOUS
  <2>1. ASSUME NEW c \in CPU, HwEmit(c) PROVE [Log!Next]_Log!logVars
    BY <2>1, HwEmitLog
  <2>2. ASSUME NEW c \in CPU, TimerFires(c) \/ StopAndRequest(c) \/ SwitchBuffer(c) \/ SendSchedule(c)
        PROVE  UNCHANGED Log!logVars
    BY <2>2, QuietStepLog
  <2>3. ASSUME NEW c \in CPU, FinishCallback(c) PROVE [Log!Next]_Log!logVars
    BY <2>3, FinishCallbackLog
  <2>4. ASSUME ReinitPool \/ \E value \in {0, 1} : WriteControl(value)
        PROVE  UNCHANGED Log!logVars
    BY <2>4, WriterLog
  <2>5. CASE ClearOffset
    BY <2>5, ClearOffsetLog
  <2>6. CASE ActivateSideband
    BY <2>6, ActivateSidebandLog
  <2>7. CASE StartCpu
    BY <2>7, StartCpuLog
  <2>8. CASE StopCpu
    BY <2>8, StopCpuLog
  <2>9. CASE UNCHANGED vars
    <3>1. UNCHANGED <<control, cpu, capture_on, emitted, late, buffer_id, hwOn, callback>>
      BY <2>9 DEF vars, traceVars, hwVars, timerVars, controlVars
    <3>2. \A d \in CPU : LogOf(d)' = LogOf(d)
      BY <3>1, SamePhase DEF LogOf
    <3>3. UNCHANGED Log!logVars
      BY <3>1, <3>2, LogStutters
    <3> QED
      BY <3>3
  <2> QED
    BY <2>1, <2>2, <2>3, <2>4, <2>5, <2>6, <2>7, <2>8, <2>9 DEF Next
<1>3. SInv => LogInv
  BY LogsAre
<1> QED
  BY <1>1, <1>2, <1>3, StreamInvariance, PTL DEF Spec, RecordsALog, Log!Spec

-----------------------------------------------------------------------------
(* What a reader of the stream file gets *)

\* Units are data, whatever number is asked for.
LEMMA AnyUnitsType ==
  ASSUME TypeOK, NEW b \in Buffer \cup {NoBuffer}, NEW from \in Nat, NEW n \in Int,
         from + n <= BufSize
  PROVE  Units(b, from, n) \in Seq(Datum)
<1>1. CASE n \in Nat
  BY <1>1, UnitsType
<1>2. CASE n \notin Nat
  <2>1. 1 .. n = 1 .. 0
    BY <1>2
  <2>2. Units(b, from, n) = <<>>
    BY <2>1 DEF Units
  <2> QED
    BY <2>2
<1> QED
  BY <1>1, <1>2

\* A recording that is over: all of it is in the closed part of the buffers.
LEMMA ReadableFacts ==
  ASSUME SInv, NEW c \in CPU, Readable(c)
  PROVE  /\ size[c] = emitted[c]
         /\ Before(c, active_idx[c] + 1) = emitted[c]
         /\ \A i \in 0 .. active_idx[c] :
              /\ buffer_id[c][i] \in Buffer
              /\ \A k \in 0 .. offsets[c][i] - 1 :
                   content[buffer_id[c][i]][k] = Unit(c, Before(c, i) + k + 1)
<1>1. /\ IInv /\ TypeOK /\ StreamOk(c)
      /\ control = "idle" /\ capture_on = 0 /\ ~late[c] /\ buffer_id[c][0] # NoBuffer
  BY DEF SInv, StreamInv, IInv, Readable
<1>2. Valid(c) /\ Closed(c) /\ Quiet(c)
  BY <1>1 DEF Valid, Closed, IInv, PhaseInv, MayRun
<1>3. /\ active_idx[c] \in Nat /\ active_idx[c] \in 0 .. active_idx[c]
      /\ offsets[c][active_idx[c]] \in Nat
  BY <1>1, CpuTypes
<1>4. offsets[c][active_idx[c]] # 0 \/ hwOffset[c] = 0
  BY <1>1, <1>2 DEF StreamOk, ClosedOk
<1>5. \A i \in 0 .. active_idx[c] : FilledTo(c, i) = offsets[c][i]
  BY <1>2, <1>3, <1>4 DEF FilledTo, Quiet
<1>6. /\ emitted[c] = Before(c, active_idx[c]) + FilledTo(c, active_idx[c])
      /\ \A i \in 0 .. active_idx[c] : buffer_id[c][i] # NoBuffer =>
           \A k \in 0 .. FilledTo(c, i) - 1 :
             content[buffer_id[c][i]][k] = Unit(c, Before(c, i) + k + 1)
  BY <1>1, <1>2 DEF StreamOk, ContentOk
<1>7. Before(c, active_idx[c] + 1) = emitted[c]
  BY <1>1, <1>3, <1>5, <1>6, FilledTypes
<1>8. size[c] = emitted[c]
  BY <1>1, <1>7 DEF StreamOk, ListOk
<1>9. \A i \in 0 .. active_idx[c] : buffer_id[c][i] \in Buffer
  <2> SUFFICES ASSUME NEW i \in 0 .. active_idx[c] PROVE buffer_id[c][i] \in Buffer
    OBVIOUS
  <2>1. buffer_id[c][i] \in Buffer \cup {NoBuffer}
    BY <1>1, CpuTypes, FilledTypes
  <2>2. buffer_id[c][i] # NoBuffer
    BY <1>1, <1>3 DEF StreamOk, ListOk
  <2> QED
    BY <2>1, <2>2
<1>10. ASSUME NEW i \in 0 .. active_idx[c], NEW k \in 0 .. offsets[c][i] - 1
      PROVE  content[buffer_id[c][i]][k] = Unit(c, Before(c, i) + k + 1)
  BY <1>5, <1>6, <1>9, <1>10, SetFacts
<1> QED
  BY <1>7, <1>8, <1>9, <1>10

\* Reading inside the stream starts in the buffer, and at the offset, that
\* holds ppos.
LEMMA StartFacts ==
  ASSUME SInv, NEW c \in CPU, NEW ppos \in Nat, ppos < Before(c, active_idx[c] + 1)
  PROVE  /\ StartIdx(c, ppos) \in 0 .. active_idx[c]
         /\ StartOffset(c, ppos) = ppos - Before(c, StartIdx(c, ppos))
         /\ StartOffset(c, ppos) \in Nat
         /\ StartOffset(c, ppos) < offsets[c][StartIdx(c, ppos)]
<1>1. TypeOK
  BY DEF SInv, IInv
<1> DEFINE holds == {i \in 0 .. active_idx[c] : Before(c, i) + offsets[c][i] > ppos}
           first == StartIdx(c, ppos)
<1>2. active_idx[c] \in Nat /\ active_idx[c] \in 0 .. active_idx[c]
  BY <1>1, CpuTypes
<1>3. active_idx[c] \in holds
  BY <1>1, <1>2, FilledTypes
<1>4. \E x \in holds : \A y \in holds : x <= y
  <2>1. holds \subseteq Nat /\ holds # {}
    BY <1>2, <1>3
  <2> HIDE DEF holds
  <2> QED
    BY <2>1, LeastElement
<1>5. first = Min(holds)
  BY <1>3 DEF StartIdx
<1> HIDE DEF holds
<1>6. first \in holds /\ \A y \in holds : first <= y
  BY <1>4, <1>5 DEF Min
<1> HIDE DEF first
<1>7. /\ first \in 0 .. active_idx[c] /\ Before(c, first) + offsets[c][first] > ppos
      /\ \A i \in 0 .. active_idx[c] : i < first => Before(c, i) + offsets[c][i] <= ppos
  <2>1. first \in 0 .. active_idx[c] /\ Before(c, first) + offsets[c][first] > ppos
    BY <1>6 DEF holds
  <2>2. \A i \in 0 .. active_idx[c] : Before(c, i) \in Nat /\ offsets[c][i] \in Nat
    BY <1>1, CpuTypes, FilledTypes
  <2> QED
    BY <1>6, <2>1, <2>2 DEF holds
<1>8. Before(c, first) \in Nat /\ offsets[c][first] \in Nat
  BY <1>1, <1>7, CpuTypes, FilledTypes
<1>9. Before(c, first) <= ppos
  <2>1. CASE first = 0
    BY <1>1, <2>1, CpuTypes, TotalFacts DEF Before
  <2>2. CASE first # 0
    <3>1. first - 1 \in 0 .. active_idx[c] /\ (first - 1) + 1 = first
      BY <1>2, <1>7, <2>2
    <3>2. Before(c, (first - 1) + 1) = Before(c, first - 1) + offsets[c][first - 1]
      BY <1>1, <3>1, FilledTypes
    <3> QED
      BY <1>7, <3>1, <3>2
  <2> QED
    BY <2>1, <2>2
<1>10. StartOffset(c, ppos) = ppos - Before(c, first)
  BY <1>7 DEF StartOffset, first
<1> QED
  BY <1>7, <1>8, <1>9, <1>10 DEF first

\* How much of a read from ppos the buffers in front of i give.
Copied(c, ppos, count, i) ==
  IF i <= StartIdx(c, ppos) THEN 0
  ELSE IF Before(c, i) - ppos < count THEN Before(c, i) - ppos
  ELSE count

\* It is a number, and buffer i adds to it what is still wanted of its data.
LEMMA CopiedFacts ==
  ASSUME SInv, NEW c \in CPU, NEW ppos \in Nat, NEW count \in Nat,
         ppos < Before(c, active_idx[c] + 1),
         NEW i \in StartIdx(c, ppos) .. active_idx[c]
  PROVE  /\ Copied(c, ppos, count, i) \in Nat
         /\ Copied(c, ppos, count, i) <= count
         /\ LET skip == IF i = StartIdx(c, ppos) THEN StartOffset(c, ppos) ELSE 0
                left == count - Copied(c, ppos, count, i)
                here == offsets[c][i] - skip
            IN  /\ skip \in Nat /\ here \in Nat
                /\ left > 0 => Before(c, i) + skip = ppos + Copied(c, ppos, count, i)
                /\ Copied(c, ppos, count, i + 1)
                     = Copied(c, ppos, count, i) + (IF here >= left THEN left ELSE here)
<1>1. TypeOK
  BY DEF SInv, IInv
<1>2. PICK first, skip0 :
        /\ first = StartIdx(c, ppos) /\ skip0 = StartOffset(c, ppos)
        /\ first \in 0 .. active_idx[c] /\ skip0 = ppos - Before(c, first)
        /\ skip0 \in Nat /\ skip0 < offsets[c][first]
  BY StartFacts
<1>3. PICK a \in Nat : a = active_idx[c]
  BY <1>1, CpuTypes
<1>4. /\ i \in 0 .. a /\ i >= first /\ i \in Nat /\ first \in Nat
  BY <1>2, <1>3
<1>5. PICK b, o, n :
        /\ b = Before(c, i) /\ o = offsets[c][i] /\ n = Before(c, i + 1)
        /\ b \in Nat /\ o \in Nat /\ n = b + o
  BY <1>1, <1>3, <1>4, CpuTypes, FilledTypes
<1>6. i # first => b >= ppos
  <2> SUFFICES ASSUME i # first PROVE b >= ppos
    OBVIOUS
  <2> DEFINE S == {m \in Nat : m < i - first => Before(c, (first + 1) + m) >= ppos}
  <2>1. Before(c, first + 1) >= ppos
    <3>1. Before(c, first + 1) = Before(c, first) + offsets[c][first] /\ Before(c, first) \in Nat
      BY <1>1, <1>2, FilledTypes
    <3>2. offsets[c][first] \in Nat
      BY <1>1, <1>2, CpuTypes, FilledTypes
    <3> QED
      BY <1>2, <3>1, <3>2
  <2>2. 0 \in S
    BY <1>4, <2>1
  <2>3. \A m \in Nat : m \in S => m + 1 \in S
    <3> SUFFICES ASSUME NEW m \in Nat, m \in S, m + 1 < i - first
                 PROVE  Before(c, (first + 1) + (m + 1)) >= ppos
      OBVIOUS
    <3>1. PICK j \in 0 .. active_idx[c] : j = (first + 1) + m /\ j + 1 = (first + 1) + (m + 1)
      BY <1>3, <1>4
    <3>2. Before(c, j + 1) = Before(c, j) + offsets[c][j] /\ Before(c, j) \in Nat
      BY <1>1, FilledTypes
    <3>3. offsets[c][j] \in Nat
      BY <1>1, CpuTypes, FilledTypes
    <3>4. Before(c, j) >= ppos
      BY <1>4, <3>1
    <3> QED
      BY <3>1, <3>2, <3>3, <3>4
  <2> HIDE DEF S
  <2>4. Nat \subseteq S
    BY <2>2, <2>3, SetInduction
  <2>5. PICK m \in Nat : m = i - (first + 1)
    BY <1>4
  <2>6. m \in S /\ m < i - first /\ (first + 1) + m = i
    BY <1>4, <2>4, <2>5
  <2> QED
    BY <1>5, <2>6 DEF S
<1>7. Copied(c, ppos, count, i) = IF i = first THEN 0
                                  ELSE IF b - ppos < count THEN b - ppos ELSE count
  BY <1>2, <1>4, <1>5 DEF Copied
<1>8. Copied(c, ppos, count, i + 1) = IF n - ppos < count THEN n - ppos ELSE count
  <2>1. ~(i + 1 <= first)
    BY <1>4
  <2> QED
    BY <1>2, <1>5, <2>1 DEF Copied
<1>9. CASE i = first
  <2>1. skip0 = ppos - b /\ skip0 < o
    BY <1>2, <1>5, <1>9
  <2>2. Copied(c, ppos, count, i) = 0
    BY <1>7, <1>9
  <2> QED
    BY <1>2, <1>5, <1>8, <1>9, <2>1, <2>2
<1>10. CASE i # first
  <2>1. Copied(c, ppos, count, i) = IF b - ppos < count THEN b - ppos ELSE count
    BY <1>7, <1>10
  <2> QED
    BY <1>2, <1>5, <1>6, <1>8, <1>10, <2>1
<1> QED
  BY <1>9, <1>10

\* The part of the stream of CPU c that a read from ppos gives first.
Part(c, ppos, n) == [k \in 1 .. n |-> Unit(c, ppos + k)]

\* Buffer i gives the next part of the stream.
LEMMA PieceIsPart ==
  ASSUME SInv, NEW c \in CPU, Readable(c), NEW ppos \in Nat, NEW count \in Nat,
         ppos < Before(c, active_idx[c] + 1),
         NEW i \in StartIdx(c, ppos) .. active_idx[c],
         NEW tmp, tmp = Part(c, ppos, Copied(c, ppos, count, i))
  PROVE  tmp \o Piece(c, ppos, count, i, tmp)
           = Part(c, ppos, Copied(c, ppos, count, i + 1))
<1>1. TypeOK
  BY DEF SInv, IInv
<1>2. PICK done, next, skip, left, here, n :
        /\ done = Copied(c, ppos, count, i) /\ next = Copied(c, ppos, count, i + 1)
        /\ skip = (IF i = StartIdx(c, ppos) THEN StartOffset(c, ppos) ELSE 0)
        /\ left = count - done
        /\ here = offsets[c][i] - skip
        /\ n = (IF here >= left THEN left ELSE here)
  OBVIOUS
<1>3. /\ done \in Nat /\ done <= count /\ skip \in Nat /\ here \in Nat
      /\ left > 0 => Before(c, i) + skip = ppos + done
      /\ next = done + n
  BY <1>2, CopiedFacts
<1>4. n \in Nat /\ left \in Nat /\ n <= here /\ n <= left
  <2>1. left \in Nat
    BY <1>2, <1>3
  <2>2. n = (IF here >= left THEN left ELSE here)
    BY <1>2
  <2> QED
    BY <1>3, <2>1, <2>2
<1>5. i \in 0 .. active_idx[c] /\ Before(c, i) \in Nat /\ buffer_id[c][i] \in Buffer
      /\ offsets[c][i] \in Nat
  <2>1. active_idx[c] \in Nat /\ StartIdx(c, ppos) \in Nat
    BY <1>1, CpuTypes, StartFacts
  <2>2. i \in 0 .. active_idx[c]
    BY <2>1
  <2> QED
    BY <1>1, <2>2, CpuTypes, FilledTypes, ReadableFacts
<1>6. Len(tmp) = done
  BY <1>2, <1>3 DEF Part
<1>7. Piece(c, ppos, count, i, tmp) = Units(buffer_id[c][i], skip, n)
  BY <1>2, <1>6 DEF Piece
<1>8. \A k \in 1 .. n : content[buffer_id[c][i]][skip + k - 1] = Unit(c, ppos + (done + k))
  <2> SUFFICES ASSUME NEW k \in 1 .. n
               PROVE  content[buffer_id[c][i]][skip + k - 1] = Unit(c, ppos + (done + k))
    OBVIOUS
  <2>1. PICK j : j = skip + k - 1 /\ j \in 0 .. offsets[c][i] - 1
    BY <1>2, <1>3, <1>4, <1>5
  <2>2. content[buffer_id[c][i]][j] = Unit(c, Before(c, i) + j + 1)
    BY <1>5, <2>1, ReadableFacts
  <2>3. Before(c, i) + j + 1 = ppos + (done + k)
    BY <1>3, <1>4, <1>5, <2>1
  <2> QED
    BY <2>1, <2>2, <2>3
<1>9. Units(buffer_id[c][i], skip, n) = [k \in 1 .. n |-> Unit(c, ppos + (done + k))]
  BY <1>5, <1>8 DEF Units
<1>10. [k \in 1 .. done |-> Unit(c, ppos + k)] \o [k \in 1 .. n |-> Unit(c, ppos + (done + k))]
        = [k \in 1 .. done + n |-> Unit(c, ppos + k)]
  <2> DEFINE u == [k \in Nat |-> Unit(c, ppos + k)]
  <2>1. [k \in 1 .. done |-> Unit(c, ppos + k)] = [k \in 1 .. done |-> u[k]]
    BY <1>3
  <2>2. [k \in 1 .. n |-> Unit(c, ppos + (done + k))] = [k \in 1 .. n |-> u[done + k]]
    BY <1>3, <1>4
  <2>3. [k \in 1 .. done + n |-> Unit(c, ppos + k)] = [k \in 1 .. done + n |-> u[k]]
    BY <1>3, <1>4
  <2> HIDE DEF u
  <2>4. [k \in 1 .. done |-> u[k]] \o [k \in 1 .. n |-> u[done + k]]
          = [k \in 1 .. done + n |-> u[k]]
    BY <1>3, <1>4
  <2> QED
    BY <2>1, <2>2, <2>3, <2>4
<1> QED
  BY <1>2, <1>3, <1>7, <1>9, <1>10 DEF Part

\* The copy loop has a result, and the result is the part that was read.
LEMMA TmpBufIsPart ==
  ASSUME SInv, NEW c \in CPU, Readable(c), NEW ppos \in Nat, NEW count \in Nat,
         ppos < Before(c, active_idx[c] + 1)
  PROVE  TmpBuf(c, ppos, count) = Part(c, ppos, Copied(c, ppos, count, active_idx[c] + 1))
<1>1. TypeOK
  BY DEF SInv, IInv
<1>2. PICK a, first :
        /\ a = active_idx[c] /\ first = StartIdx(c, ppos)
        /\ a \in Nat /\ first \in Nat /\ first <= a /\ a + 1 <= PoolSize
        /\ PoolSize \in Nat
  BY <1>1, CpuTypes, StartFacts, SizeAssumption
<1> DEFINE from(i, v) == Piece(c, ppos, count, i, v)
           Copies(f) == f = [i \in 0 .. PoolSize |->
                               IF i <= StartIdx(c, ppos) THEN <<>>
                               ELSE f[i - 1] \o from(i - 1, f[i - 1])]
           tmp == CHOOSE f : Copies(f)
<1>3. \A i \in Buffer, v \in Seq(Datum) : i >= first => from(i, v) \in Seq(Datum)
  <2> SUFFICES ASSUME NEW i \in Buffer, NEW v \in Seq(Datum), i >= first
               PROVE  from(i, v) \in Seq(Datum)
    OBVIOUS
  <2>1. PICK skip, left, here, n :
          /\ skip = (IF i = StartIdx(c, ppos) THEN StartOffset(c, ppos) ELSE 0)
          /\ left = count - Len(v)
          /\ here = offsets[c][i] - skip
          /\ n = (IF here >= left THEN left ELSE here)
    OBVIOUS
  <2>2. skip \in Nat /\ left \in Int /\ here \in Int
    BY <1>1, <2>1, CpuTypes, StartFacts
  <2>3. n \in Int /\ n <= here
    BY <2>1, <2>2
  <2>4. skip + n <= BufSize
    <3>1. offsets[c][i] \in 0 .. BufSize - 1
      BY <1>1, CpuTypes
    <3> QED
      BY SMTT(30), <2>1, <2>2, <2>3, <3>1, SizeAssumption
  <2>5. buffer_id[c][i] \in Buffer \cup {NoBuffer}
    BY <1>1, CpuTypes
  <2>6. from(i, v) = Units(buffer_id[c][i], skip, n)
    BY <2>1 DEF Piece
  <2> HIDE DEF from
  <2> QED
    BY <1>1, <2>2, <2>3, <2>4, <2>5, <2>6, AnyUnitsType
<1> HIDE DEF from
<1>4. \E f : Copies(f)
  <2> DEFINE T == Seq(Datum)
             none == <<>>
             step == [i \in 1 .. PoolSize |-> [v \in T |->
                        IF i <= first THEN none ELSE v \o from(i - 1, v)]]
  <2>1. none \in T
    OBVIOUS
  <2>2. step \in [1 .. PoolSize -> [T -> T]]
    <3>1. \A i \in 1 .. PoolSize, v \in T :
            (IF i <= first THEN none ELSE v \o from(i - 1, v)) \in T
      <4> SUFFICES ASSUME NEW i \in 1 .. PoolSize, NEW v \in T, ~(i <= first)
                   PROVE  v \o from(i - 1, v) \in T
        BY <2>1
      <4>1. i - 1 \in Buffer /\ i - 1 >= first
        BY <1>2 DEF Buffer
      <4>2. from(i - 1, v) \in Seq(Datum)
        BY <1>3, <4>1
      <4> QED
        BY <4>2
    <3> HIDE DEF T
    <3> QED
      BY <3>1
  <2> HIDE DEF T, none, step
  <2>3. PICK g \in [0 .. PoolSize -> T] : Rounds(g, PoolSize, none, step)
    BY <1>2, <2>1, <2>2, LoopExists
  <2>4. \A i \in 1 .. PoolSize : g[i] = IF i <= first THEN <<>> ELSE g[i - 1] \o from(i - 1, g[i - 1])
    <3>1. \A i \in 1 .. PoolSize : g[i - 1] \in T
      BY <1>2
    <3> QED
      BY <2>3, <3>1 DEF Rounds, step, none
  <2>5. \A i \in 0 .. PoolSize :
          g[i] = IF i <= StartIdx(c, ppos) THEN <<>> ELSE g[i - 1] \o from(i - 1, g[i - 1])
    <3> SUFFICES ASSUME NEW i \in 0 .. PoolSize
                 PROVE  g[i] = IF i <= first THEN <<>> ELSE g[i - 1] \o from(i - 1, g[i - 1])
      BY <1>2
    <3>1. CASE i = 0
      BY <1>2, <2>3, <3>1 DEF Rounds, none
    <3>2. CASE i # 0
      <4>1. i \in 1 .. PoolSize
        BY <1>2, <3>2
      <4> QED
        BY <2>4, <4>1
    <3> QED
      BY <3>1, <3>2
  <2>6. Copies(g)
    BY <2>5, Zenon
  <2> QED
    BY <2>6
<1>5. Copies(tmp)
  BY <1>4
<1>6. TmpBuf(c, ppos, count) = tmp[a + 1]
  BY <1>2 DEF TmpBuf, from
<1> HIDE DEF tmp
<1>7. \A i \in 0 .. PoolSize :
        tmp[i] = IF i <= StartIdx(c, ppos) THEN <<>> ELSE tmp[i - 1] \o from(i - 1, tmp[i - 1])
  BY <1>5, Zenon
<1> HIDE DEF Copies
<1> DEFINE Is(m) == tmp[m] = Part(c, ppos, Copied(c, ppos, count, m))
           S == {m \in Nat : m <= (a + 1) - first => Is(first + m)}
<1> HIDE DEF Is
<1>8. 0 \in S
  <2>1. first \in 0 .. PoolSize /\ first + 0 = first
    BY <1>2
  <2>2. tmp[first] = <<>>
    BY <1>2, <1>7, <2>1
  <2>3. Part(c, ppos, Copied(c, ppos, count, first)) = <<>>
    <3>1. Copied(c, ppos, count, first) = 0
      BY <1>2 DEF Copied
    <3>2. [k \in 1 .. 0 |-> Unit(c, ppos + k)] = <<>>
      OBVIOUS
    <3> QED
      BY <3>1, <3>2 DEF Part
  <2> QED
    BY <2>1, <2>2, <2>3 DEF Is
<1>9. \A m \in Nat : m \in S => m + 1 \in S
  <2> SUFFICES ASSUME NEW m \in Nat, m \in S, m + 1 <= (a + 1) - first
               PROVE  Is(first + (m + 1))
    OBVIOUS
  <2>1. PICK i : i = first + m /\ i + 1 = first + (m + 1) /\ i \in Nat /\ i \in first .. a
                 /\ i + 1 \in 0 .. PoolSize /\ ~(i + 1 <= first) /\ (i + 1) - 1 = i
    BY <1>2
  <2>2. tmp[i] = Part(c, ppos, Copied(c, ppos, count, i))
    BY <1>2, <2>1 DEF Is
  <2>3. tmp[i + 1] = tmp[i] \o from(i, tmp[i])
    BY <1>2, <1>7, <2>1
  <2>4. PICK t : t = tmp[i]
    OBVIOUS
  <2>5. t \o Piece(c, ppos, count, i, t) = Part(c, ppos, Copied(c, ppos, count, i + 1))
    <3>1. i \in StartIdx(c, ppos) .. active_idx[c]
      BY <1>2, <2>1
    <3>2. t = Part(c, ppos, Copied(c, ppos, count, i))
      BY <2>2, <2>4
    <3> QED
      BY ZenonT(30), <3>1, <3>2, PieceIsPart
  <2>6. tmp[i + 1] = Part(c, ppos, Copied(c, ppos, count, i + 1))
    BY <2>3, <2>4, <2>5 DEF from
  <2> QED
    BY <2>1, <2>6 DEF Is
<1> HIDE DEF S
<1>10. Nat \subseteq S
  BY <1>8, <1>9, SetInduction
<1>11. PICK m \in Nat : m = (a + 1) - first /\ first + m = a + 1
  BY <1>2
<1>12. Is(a + 1)
  BY <1>2, <1>10, <1>11 DEF S
<1> QED
  BY <1>2, <1>6, <1>12 DEF Is

\* A read of CPU c's stream file from a position in the recording gives what
\* is wanted of it, or what there is.
ReadsPart(c, ppos, count) ==
  ReadStream(c, ppos, count) =
    [k \in 1 .. (IF emitted[c] - ppos < count THEN emitted[c] - ppos ELSE count)
       |-> Unit(c, ppos + k)]

\* So does every read, however much the reader asks for.
LEMMA AnyRead ==
  ASSUME SInv, NEW c \in CPU, Readable(c),
         NEW ppos \in 0 .. emitted[c], NEW count \in Nat \ {0}
  PROVE  ReadsPart(c, ppos, count)
<1>1. TypeOK
  BY DEF SInv, IInv
<1>2. PICK e, n : /\ e = emitted[c] /\ e \in Nat
                  /\ n = IF e - ppos < count THEN e - ppos ELSE count
  BY <1>1, CpuTypes
<1>3. ppos \in Nat /\ count \in Nat /\ count >= 1 /\ ppos <= e
  BY <1>2, SizeAssumption
<1>4. n \in Nat
  BY <1>2, <1>3
<1>5. size[c] = e /\ Before(c, active_idx[c] + 1) = e
  BY <1>2, ReadableFacts
<1>6. ReadStream(c, ppos, count) =
        IF n <= 0 THEN <<>> ELSE SubSeq(TmpBuf(c, ppos, count), 1, n)
  BY <1>2, <1>5 DEF ReadStream
<1>7. ReadStream(c, ppos, count) = Part(c, ppos, n)
  <2>1. CASE n <= 0
    <3>1. [k \in 1 .. 0 |-> Unit(c, ppos + k)] = <<>>
      OBVIOUS
    <3> QED
      BY <1>4, <1>6, <2>1, <3>1 DEF Part
  <2>2. CASE ~(n <= 0)
    <3>1. ppos < e
      BY <1>2, <1>3, <2>2
    <3>2. Copied(c, ppos, count, active_idx[c] + 1) = n
      <4>1. ~(active_idx[c] + 1 <= StartIdx(c, ppos))
        BY <1>1, <1>3, <1>5, <3>1, CpuTypes, StartFacts
      <4> QED
        BY <1>2, <1>5, <4>1 DEF Copied
    <3>3. TmpBuf(c, ppos, count) = Part(c, ppos, n)
      BY <1>3, <1>5, <3>1, <3>2, TmpBufIsPart
    <3>4. SubSeq(Part(c, ppos, n), 1, n) = Part(c, ppos, n)
      BY <1>4 DEF Part
    <3> QED
      BY <1>6, <2>2, <3>3, <3>4
  <2> QED
    BY <2>1, <2>2
<1> QED
  BY <1>2, <1>7 DEF Part, ReadsPart

\* After a stop, a reader of a CPU's stream file gets exactly the units the
\* hardware stored in that recording, from the position asked for on.
THEOREM ReaderSeesRecording == Spec => []ReaderGetsStream
<1>1. SInv => ReaderGetsStream
  BY AnyRead, SizeAssumption DEF ReaderGetsStream, ReadsPart
<1> QED
  BY <1>1, StreamInvariance, PTL

\* ReaderGetsStream without its bound on what one read asks for.
ReaderGetsAny ==
  \A c \in CPU : Readable(c) =>
    \A ppos \in 0 .. emitted[c], count \in Nat \ {0} : ReadsPart(c, ppos, count)

\* A reader that asks for any number of bytes, from any position of the
\* stream, gets what the hardware stored there.
THEOREM AnyReaderSeesRecording == Spec => []ReaderGetsAny
<1>1. SInv => ReaderGetsAny
  BY AnyRead DEF ReaderGetsAny
<1> QED
  BY <1>1, StreamInvariance, PTL
=============================================================================
