--------------------------- MODULE MCTraceBuffers ---------------------------
(* TLC instances of TraceBuffers and TraceStream; the .cfg files give the   *)
(* constants.                                                               *)
EXTENDS TraceStream
=============================================================================
