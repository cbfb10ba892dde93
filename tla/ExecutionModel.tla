--------------------------- MODULE ExecutionModel ---------------------------
(***************************************************************************)
(* How the IPT model finds out what a task executed (sat-ipt-model.cpp).    *)
(*                                                                         *)
(* A CPU executes Code and its trace tells no more of that than a decoder   *)
(* needs who has the code too: a TNT for a conditional branch, a TIP for    *)
(* the target of an indirect one.  A return to where the CPU expects it is  *)
(* compressed to a TNT; what the CPU expects is forgotten at a PSB, an      *)
(* overflow and where tracing is enabled (PGE).  The kernel module's hook   *)
(* of __switch_to disables and enables tracing, so that the code of the     *)
(* next task always starts with such a place.                              *)
(*                                                                         *)
(* A process of the model decodes the blocks of one task.  It starts at the *)
(* last start before a block and fast-forwards, silent and on a temporary   *)
(* call stack, to the block.  It holds the TNTs until there is a TIP and    *)
(* then executes instructions until one uses the TIP up.                   *)
(*                                                                         *)
(* The instructions of the path have numbers, one that an interrupt keeps    *)
(* from being executed too (the model counts it as executed).  `where' is   *)
(* the number of the instruction at pc, for the properties only, and so is  *)
(* `misled': whether it acts on a FUP that is none of an interrupt here.   *)
(*                                                                         *)
(* Members that nothing sets before they are used may have any value of     *)
(* Garbage when decoding begins.                                           *)
(***************************************************************************)
EXTENDS Integers, Sequences, SequencesExt, FiniteSetsExt

CONSTANTS
  Code,          \* the instruction at each address: its class, next and target
  ExeOf,         \* the executable an address is in, or None
  Hook,          \* __switch_to: orig, wrapper, copy and size
  Toggle,        \* where tracing is disabled and enabled (send_schedule)
  Swap,          \* where the CPU goes on with the stack of the next task
  SwitchToAsm,   \* addresses of __switch_to_asm
  Interruptible, \* where an interrupt may come
  Handler,       \* where it goes
  Task,
  FirstTask,     \* runs at the start ...
  FirstPc,       \* ... here;
  FirstStack,    \* the stack of each of the other ones
  None,
  Garbage,       \* what the members without an initializer may be
  HwDepth,       \* how many calls the CPU knows the returns of
  MaxSteps,      \* bound: instructions executed
  MaxInterrupts, \* bound: interrupts
  MaxResyncs,    \* bound: PSBs and overflows
  MaxLost        \* bound: instructions executed in an overflow

Addr == DOMAIN Code

ASSUME ExecutionAssumption ==
  /\ Addr \subseteq Nat \ {0}
  /\ DOMAIN ExeOf = Addr
  /\ {Toggle, Swap, Handler, FirstPc} \subseteq Addr
  /\ SwitchToAsm \subseteq Addr /\ Interruptible \subseteq Addr
  /\ FirstTask \in Task
  /\ FirstStack \in [Task -> Seq(Addr)]
  /\ Garbage \subseteq [in_psb : BOOLEAN, in_ovf : BOOLEAN, syscall : BOOLEAN, counts : BOOLEAN,
                       pc : Addr \cup {0}, tip : Addr \cup {0}, fup : Addr \cup {0}]
  /\ HwDepth \in Nat \ {0}
  /\ {MaxSteps, MaxInterrupts, MaxResyncs, MaxLost} \subseteq Nat

VARIABLES
  phase,         \* record, packet, execute or done
  pcNow, running, onStack, stack, hw,  \* the CPU: its pc, its task, the task
                 \* whose stack it is on, the stacks, the returns it expects
  overflow,      \* how many instructions ago the overflow began, or None
  interrupts, resyncs,
  path,          \* the instructions executed, each with the task
  stream,        \* the trace; a packet has the number of its instruction
  tid, blocks,   \* the task that is decoded, the blocks it has left
  pos,           \* the next packet
  ff_state,
  lost, in_psb, in_ovf, syscall, fast_forward,
  pc, tip, fup, tnts,
  orig_stack, tmp_stack, on_tmp,
  fresh,         \* a new stream of instructions starts at pc
  exe,           \* the executable it is in
  pending,       \* instructions that are counted and not output yet
  pending_call,  \* the call that is not output yet, or 0
  where,
  misled,        \* never, now, or in the past
  printed        \* the numbers of the instructions that are output; Stray is
                 \* what the counts say that are not initialized

cpuVars == <<pcNow, running, onStack, stack, hw, overflow, interrupts, resyncs, path, stream>>
inputVars == <<tid, blocks, pos, ff_state, fast_forward>>
contextVars == <<lost, in_psb, in_ovf, syscall, pc, tip, fup, tnts, where, misled>>
stackVars == <<orig_stack, tmp_stack, on_tmp>>
outputVars == <<fresh, exe, pending, pending_call, printed>>
vars == <<phase, cpuVars, inputVars, contextVars, stackVars, outputVars>>

Stray == 0
Packet(kind, arg, number) == [kind |-> kind, arg |-> arg, number |-> number]

Init ==
  /\ phase = "record"
  /\ pcNow = FirstPc /\ running = FirstTask /\ onStack = FirstTask
  /\ stack = FirstStack /\ hw = <<>>
  /\ overflow = None /\ interrupts = 0 /\ resyncs = 0
  /\ path = <<>> /\ stream = <<Packet("pge", FirstPc, 1)>>
  /\ tid = None /\ blocks = <<>> /\ pos = 0 /\ ff_state = FALSE
  /\ lost = TRUE /\ in_psb = FALSE /\ in_ovf = FALSE /\ syscall = FALSE /\ fast_forward = FALSE
  /\ pc = 0 /\ tip = 0 /\ fup = 0 /\ tnts = <<>> /\ where = 0
  /\ misled = "never"
  /\ orig_stack = <<>> /\ tmp_stack = <<>> /\ on_tmp = FALSE
  /\ fresh = TRUE /\ exe = None /\ pending = <<>> /\ pending_call = 0 /\ printed = <<>>

-----------------------------------------------------------------------------
(* The CPU *)

\* The hook jumps to the wrapper.
Patched(address) == IF address = Hook.orig THEN Hook.wrapper ELSE address

Recording == phase = "record" /\ UNCHANGED <<phase, inputVars, contextVars, stackVars, outputVars>>

\* The instruction at the pc is executed, sends packets, and the CPU goes on at
\* an address.
Goes(address, packets) ==
  /\ Recording /\ Len(path) < MaxSteps
  /\ overflow # None => overflow < MaxLost
  /\ path' = Append(path, [pc |-> pcNow, task |-> running])
  /\ pcNow' = Patched(address)
  /\ stream' = IF overflow = None THEN stream \o packets ELSE stream
  /\ overflow' = IF overflow = None THEN None ELSE overflow + 1
  /\ UNCHANGED <<interrupts, resyncs>>

Number == Len(path) + 1
Instruction == Code[pcNow]
Top == Last(stack[onStack])
Pushed(address) == [stack EXCEPT ![onStack] = Append(@, address)]
Popped == [stack EXCEPT ![onStack] = Front(@)]
Expected(address) ==
  LET h == Append(hw, address) IN IF Len(h) > HwDepth THEN Tail(h) ELSE h

\* Tracing is disabled and enabled, or the stack is exchanged, in passing.
StepNonTransfer ==
  /\ Instruction.class = "non_transfer"
  /\ Goes(Instruction.next,
          IF pcNow = Toggle
          THEN <<Packet("pgd", 0, Number), Packet("pge", Instruction.next, Number + 1)>>
          ELSE <<>>)
  /\ hw' = IF pcNow = Toggle THEN <<>> ELSE hw
  /\ IF pcNow = Swap THEN \E t \in Task \ {running} : onStack' = t ELSE UNCHANGED onStack
  /\ UNCHANGED <<running, stack>>

StepDirectJump ==
  /\ Instruction.class = "direct_jump"
  /\ Goes(Instruction.target, <<>>)
  /\ UNCHANGED <<running, onStack, stack, hw>>

StepConditional ==
  /\ Instruction.class = "direct_conditional"
  /\ \E taken \in BOOLEAN :
       Goes(IF taken THEN Instruction.target ELSE Instruction.next,
            <<Packet("tnt", taken, Number)>>)
  /\ UNCHANGED <<running, onStack, stack, hw>>

\* A call of __switch_to_asm's retpoline leaves nothing on the stack.
StepCall ==
  /\ Instruction.class \in {"direct_call", "indirect_call"}
  /\ Goes(Instruction.target,
          IF Instruction.class = "indirect_call"
          THEN <<Packet("tip", Instruction.target, Number)>> ELSE <<>>)
  /\ stack' = IF pcNow \in SwitchToAsm THEN stack ELSE Pushed(Instruction.next)
  /\ hw' = Expected(Instruction.next)
  /\ UNCHANGED <<running, onStack>>

StepSyscall ==
  /\ Instruction.class = "indirect_syscall"
  /\ Goes(Instruction.target, <<Packet("tip", Instruction.target, Number)>>)
  /\ stack' = Pushed(Instruction.next)
  /\ UNCHANGED <<running, onStack, hw>>

\* At the jump to the copy of __switch_to the next task runs.  (That its TIP is
\* not lost is the case that TaskStreams is right about.)
StepIndirectJump ==
  /\ Instruction.class = "indirect_jump"
  /\ Instruction.target = Hook.copy => overflow = None
  /\ Goes(Instruction.target, <<Packet("tip", Instruction.target, Number)>>)
  /\ running' = IF Instruction.target = Hook.copy THEN onStack ELSE running
  /\ UNCHANGED <<onStack, stack, hw>>

\* A near return is compressed when it goes where the CPU expects.
StepReturn ==
  /\ Instruction.class = "indirect_return" /\ ~Instruction.far
  /\ Goes(Top, IF hw # <<>> /\ Last(hw) = Top THEN <<Packet("tnt", TRUE, Number)>>
               ELSE <<Packet("tip", Top, Number)>>)
  /\ stack' = Popped
  /\ hw' = IF hw = <<>> THEN hw ELSE Front(hw)
  /\ UNCHANGED <<running, onStack>>

\* SYSRET and IRET
StepFarReturn ==
  /\ Instruction.class \in {"indirect_return", "indirect_ireturn"} /\ Instruction.far
  /\ Goes(Top, <<Packet("tip", Top, Number)>>)
  /\ stack' = Popped
  /\ UNCHANGED <<running, onStack, hw>>

Interrupt ==
  /\ Recording /\ Len(path) < MaxSteps
  /\ interrupts < MaxInterrupts /\ overflow = None /\ pcNow \in Interruptible
  /\ interrupts' = interrupts + 1
  /\ path' = Append(path, [pc |-> pcNow, task |-> running])
  /\ stream' = stream \o <<Packet("fup", pcNow, Number), Packet("tip", Handler, Number)>>
  /\ stack' = Pushed(pcNow)
  /\ pcNow' = Handler
  /\ UNCHANGED <<running, onStack, hw, overflow, resyncs>>

Resync == Recording /\ resyncs < MaxResyncs /\ Len(path) < MaxSteps /\ overflow = None
          /\ resyncs' = resyncs + 1 /\ UNCHANGED <<pcNow, running, onStack, stack, interrupts, path>>

PsbPackets ==
  <<Packet("psb", 0, Number), Packet("fup", pcNow, Number), Packet("psbend", 0, Number)>>

Psb ==
  /\ Resync
  /\ stream' = stream \o PsbPackets
  /\ hw' = <<>>
  /\ UNCHANGED overflow

\* It may begin in the middle of a PSB.
OverflowBegins ==
  /\ Resync
  /\ \E n \in 0..2 : stream' = stream \o SubSeq(PsbPackets, 1, n)
  /\ overflow' = 0
  /\ UNCHANGED hw

OverflowEnds ==
  /\ Recording /\ overflow # None
  /\ overflow' = None
  /\ stream' = stream \o <<Packet("ovf", 0, Number), Packet("fup", pcNow, Number)>>
  /\ hw' = <<>>
  /\ UNCHANGED <<pcNow, running, onStack, stack, interrupts, resyncs, path>>

-----------------------------------------------------------------------------
(* The blocks of a task, as TaskStreams has them *)

SchedulerTips == {p \in DOMAIN stream : stream[p].kind = "tip" /\ stream[p].arg = Hook.copy}
EndOf(p) == Min({q \in SchedulerTips : q > p} \cup {Len(stream) + 1})
TaskOf(p) == IF stream[p].number < Len(path) THEN path[stream[p].number + 1].task ELSE running

\* get_last_psb
Starts == {p \in DOMAIN stream : stream[p].kind \in {"psb", "ovf", "pge"}}
LastStart(p) == Max({q \in Starts : q <= p})

BlocksOf(t) ==
  LET begins == SelectSeq([p \in DOMAIN stream |-> p],
                          LAMBDA p : p \in SchedulerTips /\ TaskOf(p) = t)
  IN [i \in DOMAIN begins |->
        [psb |-> LastStart(begins[i]), begin |-> begins[i], end |-> EndOf(begins[i])]]

\* input().open and start_new_block_execution
NewBlock(bs) ==
  /\ blocks' = bs
  /\ pos' = Head(bs).psb
  /\ fast_forward' = TRUE
  /\ on_tmp' = TRUE /\ tmp_stack' = <<>>

\* The model is made, and a process of it forked for each task: decode one of
\* them.  The constructor sets lost_ and the TNTs.
StartDecoding ==
  /\ phase = "record" /\ Len(path) = MaxSteps /\ overflow = None
  /\ \E t \in Task :
       /\ BlocksOf(t) # <<>>
       /\ tid' = t
       /\ NewBlock(BlocksOf(t))
  /\ \E g \in Garbage :
       /\ in_psb' = g.in_psb /\ in_ovf' = g.in_ovf /\ syscall' = g.syscall
       /\ pc' = g.pc /\ tip' = g.tip /\ fup' = g.fup
       /\ pending' = IF g.counts THEN <<Stray>> ELSE <<>>
  /\ phase' = "packet"
  /\ UNCHANGED <<cpuVars, ff_state, lost, tnts, where, misled, orig_stack, fresh, exe, pending_call,
                 printed>>

Block == Head(blocks)

NextBlock ==
  /\ phase = "packet" /\ pos = Block.end
  /\ IF Len(blocks) > 1
     THEN NewBlock(Tail(blocks)) /\ UNCHANGED phase
     ELSE phase' = "done" /\ UNCHANGED <<blocks, pos, fast_forward, on_tmp, tmp_stack>>
  /\ UNCHANGED <<cpuVars, tid, ff_state, contextVars, orig_stack, outputVars>>

-----------------------------------------------------------------------------
(* Packets *)

\* Mutants: it is silent too short a way to the block, or too long.
TooShort(p) == p = Block.psb
\* It is asked when the first byte of the packet has been read, which may be all
\* there is.
OneByte(p) == stream[p].kind \in {"tnt", "pgd"}
IsFastForwarding(p) == IF OneByte(p) THEN p + 1 < Block.begin ELSE p < Block.begin

\* Mutant: the temporary stack is gone on with.
TmpKept(ff) == TRUE
OnTmp(ff) == ff

\* parse: the next packet, after check_ff_state and set_ff_state
Parse(kind) ==
  LET ff == IsFastForwarding(pos)
  IN  /\ phase = "packet" /\ pos < Block.end
      /\ stream[pos].kind = kind
      /\ pos' = pos + 1
      /\ ff_state' = ff
      /\ IF ff = ff_state THEN UNCHANGED <<fast_forward, on_tmp, tmp_stack>>
         ELSE /\ fast_forward' = ff
              /\ on_tmp' = OnTmp(ff)
              /\ tmp_stack' = IF ff THEN <<>> ELSE tmp_stack
      /\ UNCHANGED <<cpuVars, tid, blocks, orig_stack>>

\* The decoder acts on what is not there, or starts anew.
Misled == misled' = "now"
StartsAnew == misled' = IF misled = "now" THEN "past" ELSE misled

Arg == stream[pos].arg
SyncedAt == stream[pos].number

ShortTnt ==
  /\ Parse("tnt")
  /\ tnts' = Append(tnts, Arg)
  /\ UNCHANGED <<phase, lost, in_psb, in_ovf, syscall, pc, tip, fup, where, misled, outputVars>>

Tip ==
  /\ Parse("tip")
  /\ tip' = Arg
  /\ in_ovf' = FALSE
  /\ pc' = IF in_ovf THEN Arg ELSE pc
  /\ where' = IF in_ovf THEN SyncedAt + 1 ELSE where
  /\ IF lost THEN UNCHANGED <<phase, fresh>> ELSE phase' = "execute" /\ fresh' = TRUE
  /\ UNCHANGED <<lost, in_psb, syscall, fup, tnts, misled, exe, pending, pending_call, printed>>

TipPgd ==
  /\ Parse("pgd")
  /\ IF ~lost /\ fup # 0 THEN phase' = "execute" /\ fresh' = TRUE /\ Misled
     ELSE UNCHANGED <<phase, fresh, misled>>
  /\ UNCHANGED <<lost, in_psb, in_ovf, syscall, pc, tip, fup, tnts, where, exe, pending, pending_call,
                 printed>>

\* Mutant: TNTs from before are kept.
TntsKept == tnts
NoTnts == <<>>

TipPge ==
  /\ Parse("pge")
  /\ pc' = Arg /\ where' = SyncedAt
  /\ fup' = 0 /\ tnts' = NoTnts
  /\ lost' = FALSE /\ in_ovf' = FALSE
  /\ StartsAnew
  /\ UNCHANGED <<phase, in_psb, syscall, tip, outputVars>>

Fup ==
  /\ Parse("fup")
  /\ IF in_ovf \/ in_psb THEN pc' = Arg /\ where' = SyncedAt ELSE UNCHANGED <<pc, where>>
  /\ in_ovf' = FALSE
  /\ fup' = IF in_ovf \/ in_psb \/ lost THEN fup ELSE Arg
  /\ IF ~in_ovf /\ in_psb /\ stream[pos - 1].kind # "psb" THEN Misled ELSE UNCHANGED misled
  /\ UNCHANGED <<phase, lost, in_psb, syscall, tip, tnts, outputVars>>

PsbPacket ==
  /\ Parse("psb")
  /\ in_psb' = TRUE
  /\ UNCHANGED <<phase, lost, in_ovf, syscall, pc, tip, fup, tnts, where, misled, outputVars>>

PsbEnd ==
  /\ Parse("psbend")
  /\ in_psb' = FALSE /\ lost' = FALSE /\ tnts' = NoTnts
  /\ StartsAnew
  /\ UNCHANGED <<phase, in_ovf, syscall, pc, tip, fup, where, outputVars>>

Ovf ==
  /\ Parse("ovf")
  /\ in_ovf' = TRUE /\ in_psb' = FALSE /\ lost' = FALSE
  /\ tnts' = NoTnts /\ fup' = 0
  /\ StartsAnew
  /\ printed' = IF fast_forward' THEN printed ELSE printed \o pending
  /\ pending' = <<>>
  /\ UNCHANGED <<phase, syscall, pc, tip, where, fresh, exe, pending_call>>

-----------------------------------------------------------------------------
(* execute_until_ipt_packet *)

\* adjust_for_hooks
Hooked(address) ==
  CASE address = Hook.orig -> Hook.wrapper
    [] address \in Hook.copy .. Hook.copy + Hook.size - 1 -> address - Hook.copy + Hook.orig
    [] OTHER -> address

Executing(atTop) == phase = "execute" /\ fresh = atTop /\ UNCHANGED <<cpuVars, inputVars>>

Shown(numbers) == printed' = IF fast_forward THEN printed ELSE printed \o numbers
CallShown == IF pending_call = 0 THEN <<>> ELSE <<pending_call>>

GetLost == lost' = TRUE /\ tnts' = <<>> /\ syscall' = FALSE

\* No instructions are known at pc: the way from a syscall to the kernel, or
\* code of which there is no file.
EnterUnknown ==
  /\ Executing(TRUE) /\ ExeOf[Hooked(pc)] = None
  /\ IF syscall THEN /\ pc' = tip /\ where' = stream[pos - 1].number + 1
                     /\ syscall' = FALSE
                     /\ UNCHANGED <<lost, tnts>>
     ELSE GetLost /\ pc' = Hooked(pc) /\ UNCHANGED where
  /\ phase' = "packet"
  /\ Shown(CallShown) /\ pending_call' = 0
  /\ UNCHANGED <<in_psb, in_ovf, tip, fup, misled, stackVars, fresh, exe, pending>>

\* The call that led here is output and, in another executable than before, all
\* there is to output.
Enter ==
  /\ Executing(TRUE) /\ ExeOf[Hooked(pc)] # None
  /\ pc' = Hooked(pc)
  /\ syscall' = FALSE
  /\ exe' = ExeOf[Hooked(pc)]
  /\ Shown(CallShown \o (IF exe' # exe THEN pending ELSE <<>>))
  /\ pending' = IF exe' # exe THEN <<>> ELSE pending
  /\ pending_call' = 0
  /\ fresh' = FALSE
  /\ UNCHANGED <<phase, lost, in_psb, in_ovf, tip, fup, tnts, where, misled, stackVars>>

NextAddress == Code[pc].next
AtFup == tnts = <<>> /\ pc = fup
Executes(classes) ==
  /\ Executing(FALSE) /\ Code[pc].class \in classes
  /\ UNCHANGED <<in_psb, in_ovf, tip, exe>>

\* The FUP came right before the TIP.
FupOfTip == stream[pos - 2].kind = "fup" /\ stream[pos - 2].arg = fup

\* The next instruction is at an address ...
GoesOn(address) ==
  /\ pc' = address /\ where' = where + 1
  /\ fresh' = (address # NextAddress)
  /\ UNCHANGED <<phase, lost, syscall, fup, misled>>

\* ... or at the TIP, which is used up by that.
UsesTip ==
  /\ pc' = tip /\ where' = where + 1
  /\ phase' = "packet"
  /\ UNCHANGED <<lost, fup, tnts, fresh, misled>>

\* There is no telling where: what is pending is output before the "lost".
IsLost ==
  /\ GetLost
  /\ phase' = "packet"
  /\ UNCHANGED <<fup, fresh, misled>>

\* The instruction is counted ...
Counted == pending' = Append(pending, where) /\ UNCHANGED <<pending_call, printed>>
\* ... or all that is counted is output.
Output == Shown(Append(pending, where)) /\ pending' = <<>> /\ UNCHANGED pending_call

Push(address) ==
  IF on_tmp THEN tmp_stack' = Append(tmp_stack, address) /\ UNCHANGED <<orig_stack, on_tmp>>
  ELSE orig_stack' = Append(orig_stack, address) /\ UNCHANGED <<tmp_stack, on_tmp>>

CallStack == IF on_tmp THEN tmp_stack ELSE orig_stack
TopOfStack == IF CallStack = <<>> THEN 0 ELSE Last(CallStack)
Pop ==
  IF CallStack = <<>> THEN UNCHANGED stackVars
  ELSE IF on_tmp THEN tmp_stack' = Front(tmp_stack) /\ UNCHANGED <<orig_stack, on_tmp>>
  ELSE orig_stack' = Front(orig_stack) /\ UNCHANGED <<tmp_stack, on_tmp>>

\* The interrupt came before the instruction, which is counted all the same.
\* An IRET does not look at the FUP.
ExecuteInterrupt ==
  /\ Executes({c \in {Code[a].class : a \in Addr} : c # "indirect_ireturn"})
  /\ AtFup
  /\ pc' = tip /\ where' = where + 1 /\ fup' = 0
  /\ phase' = "packet"
  /\ Counted
  /\ IF FupOfTip THEN UNCHANGED misled ELSE Misled
  /\ UNCHANGED <<lost, syscall, tnts, stackVars, fresh>>

ExecuteNonTransfer ==
  /\ Executes({"non_transfer"}) /\ ~AtFup
  /\ GoesOn(NextAddress) /\ Counted
  /\ UNCHANGED <<tnts, stackVars>>

ExecuteDirectJump ==
  /\ Executes({"direct_jump"}) /\ ~AtFup
  /\ GoesOn(Code[pc].target) /\ Counted
  /\ UNCHANGED <<tnts, stackVars>>

ExecuteConditional ==
  /\ Executes({"direct_conditional"}) /\ ~AtFup
  /\ IF tnts = <<>> THEN IsLost /\ Output /\ UNCHANGED <<pc, where>>
     ELSE /\ GoesOn(IF Head(tnts) THEN Code[pc].target ELSE NextAddress)
          /\ tnts' = Tail(tnts)
          /\ Counted
  /\ UNCHANGED stackVars

\* The count before the call is output now, the call when it is known where it
\* leads to.  A call of the next instruction is a way to get the pc.
ExecuteDirectCall ==
  /\ Executes({"direct_call"}) /\ ~AtFup
  /\ GoesOn(Code[pc].target)
  /\ IF Code[pc].target = NextAddress \/ pc \in SwitchToAsm
     THEN Counted /\ UNCHANGED stackVars
     ELSE /\ Push(NextAddress)
          /\ Shown(pending) /\ pending' = <<>> /\ pending_call' = where
  /\ UNCHANGED tnts

ExecuteIndirectJump ==
  /\ Executes({"indirect_jump"}) /\ ~AtFup
  /\ UsesTip /\ Counted
  /\ UNCHANGED <<syscall, stackVars>>

ExecuteIndirectCall ==
  /\ Executes({"indirect_call", "indirect_syscall"}) /\ ~AtFup
  /\ UsesTip /\ Push(NextAddress)
  /\ syscall' = (Code[pc].class = "indirect_syscall")
  /\ Shown(Append(pending, where)) /\ pending' = <<>>
  /\ UNCHANGED pending_call

\* A compressed return takes a TNT and the address on the call stack.
ExecuteReturn ==
  /\ Executes({"indirect_return"}) /\ ~AtFup
  /\ Output
  /\ IF tnts = <<>> THEN UsesTip /\ Pop /\ UNCHANGED syscall
     ELSE IF ~Head(tnts) THEN IsLost /\ UNCHANGED <<pc, where, stackVars>>
     ELSE IF TopOfStack = 0 THEN IsLost /\ pc' = 0 /\ UNCHANGED <<where, stackVars>>
     ELSE GoesOn(TopOfStack) /\ tnts' = Tail(tnts) /\ Pop

ExecuteIreturn ==
  /\ Executes({"indirect_ireturn"})
  /\ UsesTip /\ Output
  /\ UNCHANGED <<syscall, stackVars>>

Done == phase = "done" /\ UNCHANGED vars

CpuStep ==
  \/ StepNonTransfer \/ StepDirectJump \/ StepConditional \/ StepCall \/ StepSyscall
  \/ StepIndirectJump \/ StepReturn \/ StepFarReturn
  \/ Interrupt \/ Psb \/ OverflowBegins \/ OverflowEnds

PacketStep ==
  \/ ShortTnt \/ Tip \/ TipPgd \/ TipPge \/ Fup \/ PsbPacket \/ PsbEnd \/ Ovf

ExecuteStep ==
  \/ EnterUnknown \/ Enter \/ ExecuteInterrupt \/ ExecuteNonTransfer \/ ExecuteDirectJump
  \/ ExecuteConditional \/ ExecuteDirectCall \/ ExecuteIndirectJump \/ ExecuteIndirectCall
  \/ ExecuteReturn \/ ExecuteIreturn

Next == CpuStep \/ StartDecoding \/ NextBlock \/ PacketStep \/ ExecuteStep \/ Done

Spec == Init /\ [][Next]_vars
-----------------------------------------------------------------------------
(* Properties *)

Kinds == {"tnt", "tip", "pgd", "pge", "fup", "psb", "psbend", "ovf"}

TypeOK ==
  /\ phase \in {"record", "packet", "execute", "done"}
  /\ path \in Seq([pc : Addr, task : Task])
  /\ \A p \in DOMAIN stream : stream[p].kind \in Kinds /\ stream[p].number \in 1 .. Len(path) + 1
  /\ {running, onStack} \subseteq Task /\ tid \in Task \cup {None}
  /\ {lost, in_psb, in_ovf, syscall, fast_forward, ff_state, on_tmp, fresh} \subseteq BOOLEAN
  /\ {pc, tip, fup} \subseteq Addr \cup {0}
  /\ tnts \in Seq(BOOLEAN) /\ orig_stack \in Seq(Addr) /\ tmp_stack \in Seq(Addr)
  /\ pending_call \in Nat /\ where \in Nat /\ misled \in {"never", "now", "past"}
  /\ misled = "never" => pending_call <= Len(path) /\ where <= Len(path) + 1
  /\ pending_call # 0 => phase = "execute"
  /\ on_tmp = fast_forward \/ phase = "record"

\* What the CPU executes where the decoder is.
CpuPc(number) == IF number <= Len(path) THEN path[number].pc ELSE pcNow

\* The decoder is where the CPU is, with the exception of the original
\* __switch_to that stands for its copy, whenever it says it is not lost:
\* across the stacks, tasks, PSBs, overflows and code without files, and
\* interrupts of which the FUP is acted on with its TIP.  Where it has acted on
\* one of earlier, or of a member without an initializer, it is again from the
\* next place on where it starts anew.
FollowsCpu ==
  phase \in {"packet", "execute"} /\ ~lost /\ ~in_ovf /\ misled # "now" =>
    \/ pc = CpuPc(where)
    \/ Hooked(pc) = CpuPc(where)
    \/ Hooked(CpuPc(where)) = pc

\* What the TIP of a switch tells of: the way to the copy of __switch_to from the
\* packet before, which the previous task goes.
InSwitch(n, p) ==
  /\ n <= stream[p].number
  /\ IF stream[p - 1].kind = "tip" THEN stream[p - 1].number < n ELSE stream[p - 1].number <= n

\* What is output of a task is a part of what it executed, in that order: no
\* instruction twice and none of another task, with the exception of what the
\* TIP at the begin of a block tells of, and of what counts say that are not
\* initialized, which is output once and first.
PrintedInOrder ==
  misled = "never" =>
  /\ \A i \in 1 .. Len(printed) - 1 : printed[i] < printed[i + 1]
  /\ \A i \in DOMAIN printed :
       \/ printed[i] = Stray
       \/ path[printed[i]].task = tid
       \/ \E p \in SchedulerTips : TaskOf(p) = tid /\ InSwitch(printed[i], p)

\* A place where the decoder starts again comes between two instructions.
ResetBetween(m, n) ==
  \E p \in DOMAIN stream : stream[p].kind \in {"psb", "ovf", "pgd", "pge"}
                         /\ m < stream[p].number /\ stream[p].number <= n

\* A TIP follows an instruction before the decoder starts again ...
HasTip(n, end) ==
  \E p \in 1 .. end - 1 : /\ stream[p].kind = "tip" /\ n <= stream[p].number
                        /\ ~ResetBetween(n, stream[p].number)

\* ... and it does not come after code without a file.
Trampoline(m) == m > 1 /\ Code[path[m - 1].pc].class = "indirect_syscall"
                 /\ ~ResetBetween(m - 1, m)
IsKnown(n) ==
  \A m \in 1 .. n : \/ ExeOf[path[m].pc] # None
                   \/ (m < n /\ (Trampoline(m) \/ ResetBetween(m, n)))

=============================================================================
