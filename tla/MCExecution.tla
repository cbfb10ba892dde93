----------------------------- MODULE MCExecution -----------------------------
(* A loop of two tasks in user space that call a function, enter the kernel,
   are switched to each other in the hook of __switch_to and go back. *)
EXTENDS ExecutionModel

Ins(class, next, target) == [class |-> class, next |-> next, target |-> target, far |-> FALSE]
Far(class) == [class |-> class, next |-> 0, target |-> 0, far |-> TRUE]

MCCode == [a \in 1 .. 4 \cup {10, 20, 30, 31, 32, 40, 41, 50, 52, 53, 60, 61, 70, 71,
                  80, 81, 90, 91, 100, 101} |->
  CASE a = 1 -> Ins("direct_conditional", 2, 10)   \* user space
    [] a = 2 -> Ins("direct_call", 3, 20)
    [] a = 3 -> Ins("indirect_syscall", 4, 30)
    [] a = 4 -> Ins("direct_jump", 5, 1)
    [] a = 10 -> Ins("direct_jump", 11, 3)         \* a library without a file
    [] a = 20 -> Ins("indirect_return", 21, 0)     \* a function
    [] a = 30 -> Ins("indirect_jump", 31, 31)      \* the trampoline of syscalls
    [] a = 31 -> Ins("direct_call", 32, 40)        \* the kernel's entry
    [] a = 32 -> Far("indirect_return")
    [] a = 40 -> Ins("direct_call", 41, 50)        \* schedule
    [] a = 41 -> Ins("indirect_return", 42, 0)
    [] a = 50 -> Ins("direct_call", 51, 52)        \* __switch_to_asm
    [] a = 52 -> Ins("non_transfer", 53, 0)
    [] a = 53 -> Ins("direct_jump", 54, 60)
    [] a = 60 -> Ins("non_transfer", 61, 0)        \* __switch_to
    [] a = 61 -> Ins("indirect_return", 62, 0)
    [] a = 70 -> Ins("non_transfer", 71, 0)        \* its copy
    [] a = 71 -> Ins("indirect_return", 72, 0)
    [] a = 80 -> Ins("direct_call", 81, 90)        \* the wrapper
    [] a = 81 -> Ins("indirect_jump", 82, 70)
    [] a = 90 -> Ins("non_transfer", 91, 0)        \* send_schedule
    [] a = 91 -> Ins("indirect_return", 92, 0)
    [] a = 100 -> Ins("direct_call", 101, 40)      \* an interrupt
    [] a = 101 -> Far("indirect_ireturn")]

MCExeOf == [a \in DOMAIN MCCode |->
  CASE a \in {10, 30} -> None
    [] a < 30 -> "user"
    [] a \in 70 .. 99 -> "sat.ko"
    [] OTHER -> "vmlinux"]

MCHook == [orig |-> 60, wrapper |-> 80, copy |-> 70, size |-> 2]

MCFirstStack == [t \in Task |-> IF t = FirstTask THEN <<4, 32>> ELSE <<4, 32, 41>>]

\* All zero, as it mostly is, or all set, the addresses to one that is executed
MCGarbage == {[in_psb |-> s, in_ovf |-> s, syscall |-> s, counts |-> s,
               pc |-> f, tip |-> f, fup |-> f] : <<s, f>> \in {<<FALSE, 0>>, <<TRUE, 20>>}}
=============================================================================
