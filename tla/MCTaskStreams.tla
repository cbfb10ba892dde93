---------------------------- MODULE MCTaskStreams ----------------------------
(* TLC instance of TaskStreams: a block without a task is one of no thread.   *)
EXTENDS TaskStreams
MCNoTid == <<-1, 0>>
=============================================================================
