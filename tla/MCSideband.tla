----------------------------- MODULE MCSideband -----------------------------
(* TLC instance of SidebandCombiner over SidebandBuffer: two CPUs, a task in  *)
(* a hook, which logs short messages, and the interrupt that logs INIT.      *)
EXTENDS SidebandCombiner

CONSTANTS task, irq
MCSizeOf == [w \in Writer |-> IF w = task THEN 1 ELSE 2]
MCFiles == <<0, 1>>
=============================================================================
