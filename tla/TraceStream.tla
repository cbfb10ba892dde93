---------------------------- MODULE TraceStream -----------------------------
(***************************************************************************)
(* What user space gets out of the trace buffers: the stream file of a CPU *)
(* (read_stream_fop) and the abstract promise behind it, a log per CPU to  *)
(* which the recording only appends.                                       *)
(***************************************************************************)
EXTENDS TraceBuffers, FiniteSetsExt, Sequences

\* The sum of the first n of a list of offsets.
Total(list, n) ==
  LET counter[i \in 0 .. PoolSize] ==
        IF i = 0 THEN 0 ELSE counter[i - 1] + list[i - 1]
  IN  counter[n]

\* The first n of a list of pieces of data, one after the other.
Joined(pieces, n) ==
  LET joined[i \in 0 .. PoolSize] ==
        IF i = 0 THEN <<>> ELSE joined[i - 1] \o pieces[i - 1]
  IN  joined[n]

\* The first n units of buffer b, past its start: what a memcpy reads.
Units(b, from, n) ==
  [k \in 1 .. n |-> IF b \in Buffer THEN content[b][from + k - 1] ELSE Stale]

-----------------------------------------------------------------------------
(* read_stream_fop with position ppos and room for count units *)

\* Total of the closed offsets in front of buffer i of the list.
Before(c, i) == Total(offsets[c], i)

\* "move on the *ppos location first": the buffer that holds ppos, or the
\* first one when ppos is past the end.
StartIdx(c, ppos) ==
  LET holds == {i \in 0 .. active_idx[c] : Before(c, i) + offsets[c][i] > ppos}
  IN  IF holds = {} THEN 0 ELSE Min(holds)
\* Mutant: copying starts at the beginning of that buffer.
StartOffsetZero(c, ppos) == 0
StartOffset(c, ppos) ==
  LET i == StartIdx(c, ppos)
  IN  IF Before(c, i) + offsets[c][i] > ppos THEN ppos - Before(c, i) ELSE 0

\* What the loop copies from buffer i of the list when it has copied tmp:
\* all of it (the rest of the first one), or as much as is still wanted.
Piece(c, ppos, count, i, tmp) ==
  LET skip == IF i = StartIdx(c, ppos) THEN StartOffset(c, ppos) ELSE 0
      left == count - Len(tmp)
      here == offsets[c][i] - skip
  IN  Units(buffer_id[c][i], skip, IF here >= left THEN left ELSE here)

\* The list's buffers from the one with ppos on, copied into tmp_buf until
\* count units are there: tmp[i] is what the buffers in front of i gave.
TmpBuf(c, ppos, count) ==
  LET tmp[i \in 0 .. PoolSize] ==
        IF i <= StartIdx(c, ppos) THEN <<>>
        ELSE tmp[i - 1] \o Piece(c, ppos, count, i - 1, tmp[i - 1])
  IN  tmp[active_idx[c] + 1]

\* simple_read_from_buffer of tmp_buf, which stands at ppos of trace->size.
ReadStream(c, ppos, count) ==
  LET available == size[c] - ppos
      n == IF available < count THEN available ELSE count
  IN  IF n <= 0 THEN <<>> ELSE SubSeq(TmpBuf(c, ppos, count), 1, n)

-----------------------------------------------------------------------------
(* Properties *)

\* size counts every closed buffer once: neither a callback that found the
\* pool empty followed by a stop, nor a stop that overtook a callback, adds
\* a buffer's offset twice or loses it.
SizeIsSum ==
  \A c \in CPU : size[c] = Before(c, active_idx[c] + 1)

\* The recording of CPU c is over; it had a buffer to record into and its
\* timer was in time.
Readable(c) ==
  /\ capture_on = 0
  /\ control = "idle"
  /\ buffer_id[c][0] # NoBuffer
  /\ ~late[c]

\* Whatever chunks the stream file is read in, after a stop the reader gets
\* exactly the units the hardware stored in that recording, in order, up to
\* the end and no further.
ReaderGetsStream ==
  \A c \in CPU : Readable(c) =>
    \A ppos \in 0 .. emitted[c], count \in {1, BufSize, BufSize + 1} :
      ReadStream(c, ppos, count) =
        [k \in 1 .. (IF emitted[c] - ppos < count THEN emitted[c] - ppos ELSE count)
           |-> Unit(c, ppos + k)]

-----------------------------------------------------------------------------
(* The abstract specification and the mapping *)

\* Buffer i of the list up to its closed offset; the buffer in use up to the
\* hardware's offset, which is still the previous buffer's while a callback
\* is about to resume.
FilledTo(c, i) ==
  IF i < active_idx[c] \/ offsets[c][i] # 0 THEN offsets[c][i]
  ELSE IF callback[c] = "resume" /\ new_buf_idx[c] # NoBuffer THEN 0
  ELSE hwOffset[c]

Stored(c) ==
  Joined([i \in Buffer |-> Units(buffer_id[c][i], 0,
                                 IF buffer_id[c][i] = NoBuffer THEN 0 ELSE FilledTo(c, i))],
         active_idx[c] + 1)

\* The log of each CPU, and whether its recording is on.
Logs == [c \in CPU |-> IF late[c] THEN <<>> ELSE Stored(c)]
Open == [c \in CPU |-> hwOn[c] \/ callback[c] # "none"]

Log == INSTANCE RecordingLog WITH log <- Logs, lost <- late, open <- Open

\* The buffers implement the per-CPU append-only log.
RecordsALog == Log!Spec
=============================================================================
