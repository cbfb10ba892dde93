------------------------- MODULE TaskStreamsProofs -------------------------
(***************************************************************************)
(* Proofs about TaskStreams, for any number of CPUs and tasks, any clock   *)
(* and traces of any length: the types, that the parser gets each task's   *)
(* trace in the order it was written (TasksInOrder), that a block of a     *)
(* task was run by that task (RunByTask), and that nothing a task ran      *)
(* under a known tid is lost (NothingLost).                                *)
(*                                                                         *)
(* All of it rests on one invariant, StreamInv, which says what each phase *)
(* of the parser has when it begins:                                       *)
(*                                                                         *)
(*  - RecordInv: the packets of a CPU are a trace (IsTrace), and its       *)
(*    messages say which task wrote which of them (IsScheduled).           *)
(*  - FileInv: what ipt_file has claimed of a file so far is of the task   *)
(*    that wrote it, and in order; what it has left is the trace from the  *)
(*    end of the last quantum on; and the two have all that is timed, if   *)
(*    the CPU lost no TIP (IsFiled, Half).                                 *)
(*  - MergeInv: the tasks have what is taken of the files, each block once *)
(*    and in its CPU's order, and no block is put behind one of another    *)
(*    CPU that starts later than all of its own file up to it (IsMerged).  *)
(*                                                                         *)
(* RecordInv is inductive by itself.  FileInv is what the loops of         *)
(* ipt_file do with the blocks of a scheduled trace, and most of this      *)
(* module is about those loops: iterate_tsc_blocks, find_tips, the         *)
(* quantums and what a quantum claims and leaves.                          *)
(***************************************************************************)
EXTENDS TaskStreams, LoopLemmas

-----------------------------------------------------------------------------
(* Traces *)

\* The packets of a CPU's trace: the first one is a PSB, the timing packets
\* have the time they were written at, and each of them is later than all
\* packets before it.
IsTrace(s) ==
  /\ s \in Seq(TracePacket) /\ Len(s) # 0 /\ s[1].kind = "psb"
  /\ \A p \in DOMAIN s : s[p].tsc = IF s[p].kind \in {"psb", "mtc"} THEN s[p].at ELSE 0
  /\ \A p, q \in DOMAIN s : p < q =>
       s[p].at <= s[q].at /\ (s[q].tsc # 0 => s[p].at < s[q].at)

\* Numbers that an implementation of sequences has
LEMMA Places ==
  ASSUME NEW T, NEW s \in Seq(T)
  PROVE  /\ Len(s) \in Nat /\ DOMAIN s = 1 .. Len(s)
         /\ \A p \in DOMAIN s : p \in Nat /\ 1 <= p /\ p <= Len(s) /\ s[p] \in T
OBVIOUS

\* The parts of a packet
LEMMA PacketParts ==
  ASSUME NEW s \in Seq(TracePacket), NEW p \in DOMAIN s
  PROVE  /\ p \in Nat /\ 1 <= p /\ p <= Len(s) /\ s[p] \in TracePacket
         /\ s[p].at \in Nat /\ 1 <= s[p].at /\ s[p].at <= MaxClock
         /\ s[p].tsc \in Nat /\ s[p].tsc <= MaxClock
         /\ s[p].runner \in Threads \cup {0} /\ s[p].lost \in BOOLEAN
         /\ s[p].kind \in {"psb", "mtc", "tnt", "tip", "ovf"}
<1>1. s[p] \in TracePacket /\ p \in Nat /\ 1 <= p /\ p <= Len(s)
  BY Places
<1>2. MaxClock \in Nat
  BY StreamsAssumption
<1> QED
  BY <1>1, <1>2 DEF TracePacket

\* What is said of a trace, packet by packet
LEMMA TraceFacts ==
  ASSUME NEW s, IsTrace(s)
  PROVE  /\ s \in Seq(TracePacket) /\ Len(s) \in Nat /\ DOMAIN s = 1 .. Len(s) /\ 1 \in DOMAIN s
         /\ 1 \in Timed(s) /\ 1 \in Starts(s)
         /\ Timed(s) \subseteq DOMAIN s /\ Starts(s) \subseteq DOMAIN s /\ DOMAIN s \subseteq Nat
         /\ \A p \in Timed(s) : s[p].tsc = s[p].at /\ s[p].kind \in {"psb", "mtc"}
         /\ \A p \in Timed(s) : s[p].tsc \in Nat /\ s[p].tsc # 0 /\ s[p].tsc <= MaxClock
<1>1. s \in Seq(TracePacket) /\ Len(s) \in Nat /\ DOMAIN s = 1 .. Len(s) /\ Len(s) # 0
  BY Places DEF IsTrace
<1>2. \A p \in DOMAIN s : s[p].tsc = IF s[p].kind \in {"psb", "mtc"} THEN s[p].at ELSE 0
  BY DEF IsTrace
<1>3. 1 \in DOMAIN s /\ s[1].kind = "psb"
  BY <1>1 DEF IsTrace
<1>4. s[1].at \in Nat /\ 1 <= s[1].at
  BY <1>1, <1>3, PacketParts
<1>5. s[1].tsc # 0
  BY <1>2, <1>3, <1>4
<1>6. 1 \in Timed(s) /\ 1 \in Starts(s)
  BY <1>3, <1>5 DEF Timed, Timing, Starts
<1>7. \A p \in Timed(s) : p \in DOMAIN s /\ s[p].tsc # 0
  BY DEF Timed, Timing
<1>8. \A p \in Timed(s) : s[p].tsc = s[p].at /\ s[p].kind \in {"psb", "mtc"}
  BY <1>2, <1>7
<1>9. \A p \in Timed(s) : s[p].tsc \in Nat /\ s[p].tsc # 0 /\ s[p].tsc <= MaxClock
  BY <1>1, <1>7, PacketParts
<1> QED
  BY <1>1, <1>3, <1>6, <1>7, <1>8, <1>9 DEF Starts

\* Of two timing packets the later one has the larger timestamp.
LEMMA TimedOrder ==
  ASSUME NEW s, IsTrace(s), NEW p \in Timed(s), NEW q \in Timed(s)
  PROVE  (p < q => s[p].tsc < s[q].tsc) /\ (p <= q => s[p].tsc <= s[q].tsc)
<1>1. p \in DOMAIN s /\ q \in DOMAIN s /\ p \in Nat /\ q \in Nat
  BY TraceFacts
<1>2. s[p].tsc = s[p].at /\ s[q].tsc = s[q].at /\ s[q].tsc # 0 /\ s[p].tsc \in Nat /\ s[q].tsc \in Nat
  BY TraceFacts
<1>3. p < q => s[p].at < s[q].at
  BY <1>1, <1>2 DEF IsTrace
<1> QED
  BY <1>1, <1>2, <1>3

\* The other way round
LEMMA TscOrder ==
  ASSUME NEW s, IsTrace(s), NEW p \in Timed(s), NEW q \in Timed(s)
  PROVE  (s[p].tsc < s[q].tsc => p < q) /\ (s[p].tsc <= s[q].tsc => p <= q)
<1>1. p \in Nat /\ q \in Nat /\ s[p].tsc \in Nat /\ s[q].tsc \in Nat
  BY TraceFacts
<1>2. (q < p => s[q].tsc < s[p].tsc) /\ (q <= p => s[q].tsc <= s[p].tsc)
  BY TimedOrder
<1> QED
  BY <1>1, <1>2

-----------------------------------------------------------------------------
(* The least and the greatest *)

\* The least of some naturals is one of them.
LEMMA LeastIs ==
  ASSUME NEW S, S \subseteq Nat, S # {}
  PROVE  Min(S) \in S /\ \A y \in S : Min(S) <= y
<1>1. \E x \in S : \A y \in S : x <= y
  BY LeastElement
<1>2. Min(S) = CHOOSE x \in S : \A y \in S : x =< y
  BY DEF Min
<1> QED
  BY <1>1, <1>2

\* So is the greatest of those that are not above a number.
LEMMA GreatestIs ==
  ASSUME NEW S, S \subseteq Nat, S # {}, NEW b \in Nat, \A y \in S : y <= b
  PROVE  Max(S) \in S /\ \A y \in S : y <= Max(S)
<1> DEFINE R == {z \in Nat : \A y \in S : y <= z}
<1>1. b \in R
  OBVIOUS
<1>2. PICK x \in R : \A z \in R : x <= z
  BY <1>1, LeastElement
<1>3. x \in S
  <2> SUFFICES ASSUME ~(x \in S) PROVE FALSE
    OBVIOUS
  <2>1. PICK y0 \in S : TRUE
    OBVIOUS
  <2>2. \A y \in S : y <= x /\ y # x /\ y \in Nat
    BY <1>2
  <2>3. x \in Nat /\ \A y \in S : y <= x - 1 /\ y \in Nat
    BY <1>2, <2>2
  <2>4. x - 1 \in Nat
    BY <2>1, <2>3
  <2>5. x - 1 \in R
    BY <2>3, <2>4
  <2> QED
    BY <1>2, <2>3, <2>5
<1>4. \E m \in S : \A y \in S : m >= y
  BY <1>2, <1>3
<1>5. Max(S) = CHOOSE m \in S : \A y \in S : m >= y
  BY DEF Max
<1>6. Max(S) \in S /\ \A y \in S : Max(S) >= y
  BY <1>4, <1>5
<1> QED
  BY <1>6

-----------------------------------------------------------------------------
(* Lookups by offset *)

\* get_tsc finds the last timing packet up to the offset.
LEMMA SlotIs ==
  ASSUME NEW s, IsTrace(s), NEW p \in DOMAIN s
  PROVE  /\ SlotOf(s, p) \in Timed(s) /\ SlotOf(s, p) <= p /\ SlotOf(s, p) # 0
         /\ \A n \in Timed(s) : n <= p => n <= SlotOf(s, p)
         /\ TscAt(s, p) = s[SlotOf(s, p)].tsc
<1> DEFINE before == {n \in Timed(s) : n <= p}
           S == {0} \cup before
<1>1. 1 \in Timed(s) /\ Timed(s) \subseteq DOMAIN s /\ DOMAIN s = 1 .. Len(s) /\ Len(s) \in Nat
  BY TraceFacts
<1>2. S \subseteq Nat /\ S # {} /\ p \in Nat /\ 1 \in before /\ \A y \in S : y <= p
  BY <1>1
<1> HIDE DEF S
<1>3. Max(S) \in S /\ \A y \in S : y <= Max(S)
  BY <1>2, GreatestIs
<1>4. SlotOf(s, p) = Max(S)
  BY DEF SlotOf, S
<1>5. Max(S) # 0
  BY <1>2, <1>3 DEF S
<1>6. Max(S) \in before
  BY <1>3, <1>5 DEF S
<1>7. \A n \in Timed(s) : n <= p => n <= Max(S)
  BY <1>3 DEF S
<1> QED
  BY <1>4, <1>5, <1>6, <1>7 DEF TscAt

\* t is the timestamp of the first timing packet from place p on.
FirstFrom(s, p, t) ==
  \E n \in Timed(s) : p <= n /\ t = s[n].tsc /\ \A m \in Timed(s) : p <= m => n <= m

\* get_next_tsc finds the next timing packet.
LEMMA NextTscIs ==
  ASSUME NEW s, IsTrace(s), NEW p \in Timed(s)
  PROVE  /\ NextTsc(s, p) # 0 => FirstFrom(s, p + 1, NextTsc(s, p))
         /\ (\E n \in Timed(s) : p < n) => NextTsc(s, p) # 0
         /\ NextTsc(s, p) \in Nat
<1> DEFINE later == {n \in Timed(s) : n > p /\ s[n].tsc > s[p].tsc}
<1>1. Timed(s) \subseteq Nat /\ p \in Nat /\ s[p].tsc # 0
  BY TraceFacts
<1>2. \A n \in Timed(s) : n \in Nat /\ s[n].tsc \in Nat /\ s[n].tsc # 0
  BY TraceFacts
<1>3. \A n \in Timed(s) : n > p => s[n].tsc > s[p].tsc
  BY <1>1, <1>2, TimedOrder
<1>4. NextTsc(s, p) = IF s[p].tsc = 0 \/ later = {} THEN 0 ELSE s[Min(later)].tsc
  BY DEF NextTsc
<1>5. \A n \in Timed(s) : n > p => n \in later
  BY <1>3
<1>6. later \subseteq Timed(s) /\ later \subseteq Nat /\ \A n \in later : n > p
  BY <1>1
<1> HIDE DEF later
<1>7. CASE later = {}
  <2>1. NextTsc(s, p) = 0
    BY <1>4, <1>7
  <2>2. ~ \E n \in Timed(s) : p < n
    BY <1>1, <1>2, <1>5, <1>7
  <2> QED
    BY <2>1, <2>2
<1>8. CASE later # {}
  <2>1. Min(later) \in later /\ \A y \in later : Min(later) <= y
    BY <1>6, <1>8, LeastIs
  <2>2. NextTsc(s, p) = s[Min(later)].tsc
    BY <1>1, <1>4, <1>8
  <2>3. Min(later) \in Timed(s) /\ p + 1 <= Min(later)
    <3>1. Min(later) \in Timed(s) /\ Min(later) > p
      BY <1>6, <2>1
    <3>2. Min(later) \in Nat
      BY <1>2, <3>1
    <3> QED
      BY <1>1, <3>1, <3>2
  <2>4. \A m \in Timed(s) : p + 1 <= m => Min(later) <= m
    BY <1>1, <1>2, <1>5, <2>1
  <2>5. FirstFrom(s, p + 1, NextTsc(s, p))
    BY <2>2, <2>3, <2>4 DEF FirstFrom
  <2> QED
    BY <1>2, <2>2, <2>3, <2>5
<1> QED
  BY <1>7, <1>8

\* get_last_psb finds a place where decoding may start, before the offset if
\* it is in the trace.
LEMMA LastPsbIs ==
  ASSUME NEW s, IsTrace(s), NEW p \in Nat
  PROVE  LastPsb(s, p) \in DOMAIN s /\ LastPsb(s, p) \in Nat /\ (p \in DOMAIN s => LastPsb(s, p) <= p)
<1> DEFINE before == {n \in Starts(s) : n <= p}
<1>1. 1 \in Starts(s) /\ Starts(s) \subseteq DOMAIN s /\ DOMAIN s \subseteq Nat /\ DOMAIN s = 1 .. Len(s)
  BY TraceFacts
<1>2. before \subseteq Starts(s) /\ before \subseteq Nat /\ \A y \in before : y <= p
  BY <1>1
<1>3. LastPsb(s, p) = IF \E n \in Starts(s) : n <= p THEN Max(before) ELSE Min(Starts(s))
  BY DEF LastPsb
<1>4. (\E n \in Starts(s) : n <= p) => before # {}
  OBVIOUS
<1> HIDE DEF before
<1>5. CASE \E n \in Starts(s) : n <= p
  <2>1. Max(before) \in before
    BY <1>2, <1>4, <1>5, GreatestIs
  <2> QED
    BY <1>1, <1>2, <1>3, <1>5, <2>1
<1>6. CASE ~ \E n \in Starts(s) : n <= p
  <2>1. Min(Starts(s)) \in Starts(s)
    <3>1. Starts(s) \subseteq Nat /\ Starts(s) # {}
      BY <1>1
    <3> QED
      BY <3>1, LeastIs
  <2>2. ~(p \in DOMAIN s)
    BY <1>1, <1>6
  <2> QED
    BY <1>1, <1>3, <1>6, <2>1, <2>2
<1> QED
  BY <1>5, <1>6

-----------------------------------------------------------------------------
(* Blocks that have timestamps *)

Pieces == [pos : Nat \X Nat, tsc : Nat \X Nat]

\* The states of the loop of iterate_tsc_blocks
BlockLoops ==
  [have : BOOLEAN, start : Nat, size : Int, timed : BOOLEAN, tsc : Nat \X Nat, out : Seq(Pieces)]

\* The offset before which piece b of trace s lies, and its timestamps
IsPiece(s, b) ==
  /\ b \in Pieces /\ b.pos[1] \in Timed(s) /\ b.pos[1] < b.pos[2] /\ b.pos[2] \in DOMAIN s
  /\ b.tsc[1] = s[b.pos[1]].tsc /\ FirstFrom(s, b.pos[2], b.tsc[2])

\* Each piece ends before the next one begins.
Apart(out) == \A i, j \in DOMAIN out : i < j => out[i].pos[2] <= out[j].pos[1]

\* No overflow lost a timing packet in places m to n.
NoneLost(s, m, n) == \A o \in DOMAIN s : m <= o /\ o <= n /\ s[o].kind = "ovf" => ~s[o].lost

\* What is timed: a timing packet before and after it, and none lost between
Dated(s, p) ==
  /\ p \in DOMAIN s /\ NoneLost(s, SlotOf(s, p), p)
  /\ \E m \in Timed(s) : p < m

In(b, p) == b.pos[1] <= p /\ p < b.pos[2]
InSome(out, p) == \E i \in DOMAIN out : In(out[i], p)

\* After packet p: the block that the loop is in, the pieces before it, and
\* that nothing that is timed is left out
InBlockLoop(s, v, p) ==
  v.have /\ v.timed => /\ v.start \in Timed(s) /\ v.tsc[1] = s[v.start].tsc
                       /\ FirstFrom(s, p + 1, v.tsc[2])
OutLoop(s, v, p) ==
  /\ \A i \in DOMAIN v.out : IsPiece(s, v.out[i])
  /\ Apart(v.out)
  /\ v.out # <<>> => v.have /\ \A i \in DOMAIN v.out : v.out[i].pos[2] <= v.start
CoverLoop(s, v, p) ==
  \A q \in DOMAIN s : q <= p /\ Dated(s, q) =>
    InSome(v.out, q) \/ (v.have /\ v.timed /\ v.start <= q)
BlockLoop(s, v, p) ==
  /\ v \in BlockLoops
  /\ v.have => v.start \in 1 .. p
  /\ InBlockLoop(s, v, p) /\ OutLoop(s, v, p) /\ CoverLoop(s, v, p)

\* A block that ends
LEMMA EndedIs ==
  ASSUME NEW s, IsTrace(s), NEW p \in DOMAIN s, NEW v, BlockLoop(s, v, p - 1), v.have,
         NEW out, out = Ended(v, p)
  PROVE  /\ out \in Seq(Pieces)
         /\ \A i \in DOMAIN out : IsPiece(s, out[i]) /\ out[i].pos[2] <= p
         /\ Apart(out)
         /\ \A q \in DOMAIN s : q < p /\ Dated(s, q) => InSome(out, q)
<1> DEFINE b == [pos |-> <<v.start, p>>, tsc |-> v.tsc]
<1>1. /\ v \in BlockLoops /\ v.start \in 1 .. p - 1
      /\ InBlockLoop(s, v, p - 1) /\ OutLoop(s, v, p - 1) /\ CoverLoop(s, v, p - 1)
  BY DEF BlockLoop
<1>2. p \in Nat /\ DOMAIN s = 1 .. Len(s) /\ Len(s) \in Nat /\ DOMAIN s \subseteq Nat
  BY TraceFacts
<1>3. v.out \in Seq(Pieces) /\ v.start \in Nat /\ v.tsc \in Nat \X Nat /\ v.timed \in BOOLEAN
  BY <1>1 DEF BlockLoops
<1>4. /\ \A i \in DOMAIN v.out : IsPiece(s, v.out[i]) /\ v.out[i].pos[2] <= v.start
      /\ Apart(v.out)
  <2>1. CASE v.out = <<>>
    <3>1. DOMAIN v.out = {}
      BY <2>1
    <3> QED
      BY <3>1 DEF Apart
  <2>2. CASE v.out # <<>>
    BY <1>1, <2>2 DEF OutLoop
  <2> QED
    BY <2>1, <2>2
<1>5. \A i \in DOMAIN v.out : v.out[i].pos[2] \in Nat /\ v.out[i].pos[2] <= p
  <2> SUFFICES ASSUME NEW i \in DOMAIN v.out PROVE v.out[i].pos[2] \in Nat /\ v.out[i].pos[2] <= p
    OBVIOUS
  <2>1. v.out[i] \in Pieces /\ v.out[i].pos[2] <= v.start
    BY <1>4 DEF IsPiece
  <2>2. v.out[i].pos \in Nat \X Nat
    BY <2>1 DEF Pieces
  <2> QED
    BY <1>1, <1>2, <2>1, <2>2
<1>6. \A q \in DOMAIN s : q < p /\ Dated(s, q) => InSome(v.out, q) \/ (v.timed /\ v.start <= q)
  <2> SUFFICES ASSUME NEW q \in DOMAIN s, q < p, Dated(s, q)
               PROVE  InSome(v.out, q) \/ (v.timed /\ v.start <= q)
    OBVIOUS
  <2>1. q <= p - 1
    BY <1>2
  <2> QED
    BY <1>1, <2>1 DEF CoverLoop
<1>7. CASE ~v.timed
  <2>1. out = v.out
    BY <1>7 DEF Ended
  <2>2. \A q \in DOMAIN s : q < p /\ Dated(s, q) => InSome(out, q)
    BY <1>6, <1>7, <2>1
  <2> QED
    BY <1>3, <1>4, <1>5, <2>1, <2>2
<1>8. CASE v.timed
  <2>1. out = Append(v.out, b)
    BY <1>8 DEF Ended
  <2>2. b \in Pieces /\ b.pos = <<v.start, p>> /\ b.pos[1] = v.start /\ b.pos[2] = p /\ b.tsc = v.tsc
    BY <1>2, <1>3 DEF Pieces
  <2>3. v.start \in Timed(s) /\ v.tsc[1] = s[v.start].tsc /\ FirstFrom(s, p, v.tsc[2])
    <3>1. (p - 1) + 1 = p
      BY <1>2
    <3> QED
      BY <1>1, <1>8, <3>1 DEF InBlockLoop
  <2>4. v.start < p
    BY <1>1, <1>2, <1>3
  <2> HIDE DEF b
  <2>5. IsPiece(s, b)
    BY <2>2, <2>3, <2>4 DEF IsPiece
  <2>6. out \in Seq(Pieces) /\ Len(out) = Len(v.out) + 1 /\ out[Len(out)] = b
        /\ \A i \in DOMAIN v.out : out[i] = v.out[i]
    BY <1>3, <2>1, <2>2
  <2>7. Len(v.out) \in Nat /\ DOMAIN v.out = 1 .. Len(v.out) /\ DOMAIN out = 1 .. Len(v.out) + 1
    BY <1>3, <2>6
  <2>8. \A i \in DOMAIN out : i \in DOMAIN v.out \/ (i = Len(out) /\ out[i] = b)
    BY <2>6, <2>7
  <2>9. \A i \in DOMAIN out : IsPiece(s, out[i]) /\ out[i].pos[2] <= p
    <3> SUFFICES ASSUME NEW i \in DOMAIN out PROVE IsPiece(s, out[i]) /\ out[i].pos[2] <= p
      OBVIOUS
    <3>1. CASE i \in DOMAIN v.out
      BY <1>4, <1>5, <2>6, <3>1
    <3>2. CASE out[i] = b
      BY <1>2, <2>2, <2>5, <3>2
    <3> QED
      BY <2>8, <3>1, <3>2
  <2>10. Apart(out)
    <3> SUFFICES ASSUME NEW i \in DOMAIN out, NEW j \in DOMAIN out, i < j
                 PROVE  out[i].pos[2] <= out[j].pos[1]
      BY DEF Apart
    <3>1. i \in DOMAIN v.out
      BY <2>6, <2>7
    <3>2. CASE j \in DOMAIN v.out
      BY <1>4, <2>6, <3>1, <3>2 DEF Apart
    <3>3. CASE out[j] = b
      BY <1>4, <2>2, <2>6, <3>1, <3>3
    <3> QED
      BY <2>8, <3>2, <3>3
  <2>11. \A q \in DOMAIN s : q < p /\ Dated(s, q) => InSome(out, q)
    <3> SUFFICES ASSUME NEW q \in DOMAIN s, q < p, Dated(s, q) PROVE InSome(out, q)
      OBVIOUS
    <3>1. CASE InSome(v.out, q)
      <4>1. PICK i \in DOMAIN v.out : In(v.out[i], q)
        BY <3>1 DEF InSome
      <4>2. i \in DOMAIN out /\ out[i] = v.out[i]
        BY <2>6, <2>7, <4>1
      <4> QED
        BY <4>1, <4>2 DEF InSome
    <3>2. CASE v.start <= q
      <4>1. In(b, q)
        BY <2>2, <3>2 DEF In
      <4>2. Len(out) \in DOMAIN out
        BY <2>6, <2>7
      <4> QED
        BY <2>6, <4>1, <4>2 DEF InSome
    <3> QED
      BY <1>6, <3>1, <3>2
  <2> QED
    BY <2>6, <2>9, <2>10, <2>11
<1> QED
  BY <1>3, <1>7, <1>8

\* A block that begins at packet p
LEMMA NewBlockIs ==
  ASSUME NEW s, IsTrace(s), NEW p \in DOMAIN s, IsIterated(s, p),
         NEW out \in Seq(Pieces), Apart(out),
         \A i \in DOMAIN out : IsPiece(s, out[i]) /\ out[i].pos[2] <= p,
         \A q \in DOMAIN s : q < p /\ Dated(s, q) => InSome(out, q)
  PROVE  BlockLoop(s, NewBlock(s, p, out), p)
<1> DEFINE v == NewBlock(s, p, out)
<1>1. /\ v.have = TRUE /\ v.start = p /\ v.size = 0 /\ v.timed = (NextTsc(s, p) # 0)
      /\ v.tsc = <<s[p].tsc, NextTsc(s, p)>> /\ v.out = out
  BY DEF NewBlock
<1>2. p \in Nat /\ 1 <= p /\ DOMAIN s = 1 .. Len(s) /\ Len(s) \in Nat /\ s[p].tsc \in Nat
  BY TraceFacts, PacketParts
<1>3. CASE p \in Timed(s)
  <2>1. NextTsc(s, p) \in Nat
    BY <1>3, NextTscIs
  <2>2. v \in BlockLoops
    BY <1>2, <2>1 DEF NewBlock, BlockLoops
  <2>3. InBlockLoop(s, v, p)
    <3>1. v.tsc[1] = s[p].tsc /\ v.tsc[2] = NextTsc(s, p)
      BY <1>1
    <3>2. NextTsc(s, p) # 0 => FirstFrom(s, p + 1, NextTsc(s, p))
      BY <1>3, NextTscIs
    <3> HIDE DEF v
    <3> QED
      BY <1>1, <1>3, <3>1, <3>2 DEF InBlockLoop
  <2>4. OutLoop(s, v, p)
    <3> HIDE DEF v
    <3> QED
      BY <1>1 DEF OutLoop
  <2>5. CoverLoop(s, v, p)
    <3> HIDE DEF v
    <3> SUFFICES ASSUME NEW q \in DOMAIN s, q <= p, Dated(s, q)
                 PROVE  InSome(v.out, q) \/ (v.have /\ v.timed /\ v.start <= q)
      BY DEF CoverLoop
    <3>1. CASE q < p
      BY <1>1, <3>1
    <3>2. CASE q = p
      <4>1. \E m \in Timed(s) : p < m
        BY <3>2 DEF Dated
      <4>2. NextTsc(s, p) # 0
        BY <1>3, <4>1, NextTscIs
      <4> QED
        BY <1>1, <3>2, <4>2
    <3> QED
      BY <1>2, <3>1, <3>2
  <2> HIDE DEF v
  <2>6. v.have => v.start \in 1 .. p
    BY <1>1, <1>2
  <2>7. BlockLoop(s, v, p)
    BY <2>2, <2>3, <2>4, <2>5, <2>6 DEF BlockLoop
  <2> QED
    BY <2>7 DEF v
<1>4. CASE ~(p \in Timed(s))
  <2>1. s[p].tsc = 0 /\ s[p].kind = "ovf" /\ s[p].lost
    <3>1. p \in Timing(s) /\ s[p].kind \in {"psb", "mtc", "ovf"}
      BY DEF IsIterated, Timing
    <3>2. s[p].tsc = 0
      BY <1>4, <3>1 DEF Timed
    <3>3. s[p].tsc = IF s[p].kind \in {"psb", "mtc"} THEN s[p].at ELSE 0
      BY DEF IsTrace
    <3>4. s[p].at # 0
      BY TraceFacts, PacketParts
    <3>5. s[p].kind = "ovf"
      BY <3>1, <3>2, <3>3, <3>4
    <3> QED
      BY <3>2, <3>5 DEF IsIterated
  <2>2. NextTsc(s, p) = 0
    BY <2>1 DEF NextTsc
  <2>3. v \in BlockLoops
    BY <1>2, <2>2 DEF NewBlock, BlockLoops
  <2>4. InBlockLoop(s, v, p)
    <3> HIDE DEF v
    <3> QED
      BY <1>1, <2>2 DEF InBlockLoop
  <2>5. OutLoop(s, v, p)
    <3> HIDE DEF v
    <3> QED
      BY <1>1 DEF OutLoop
  <2>6. CoverLoop(s, v, p)
    <3> HIDE DEF v
    <3> SUFFICES ASSUME NEW q \in DOMAIN s, q <= p, Dated(s, q)
                 PROVE  InSome(v.out, q) \/ (v.have /\ v.timed /\ v.start <= q)
      BY DEF CoverLoop
    <3>1. CASE q < p
      BY <1>1, <3>1
    <3>2. CASE q = p
      <4>1. NoneLost(s, SlotOf(s, p), p)
        BY <3>2 DEF Dated
      <4>2. SlotOf(s, p) <= p
        BY SlotIs
      <4> QED
        BY <1>2, <2>1, <4>1, <4>2 DEF NoneLost
    <3> QED
      BY <1>2, <3>1, <3>2
  <2> HIDE DEF v
  <2>7. v.have => v.start \in 1 .. p
    BY <1>1, <1>2
  <2>8. BlockLoop(s, v, p)
    BY <2>3, <2>4, <2>5, <2>6, <2>7 DEF BlockLoop
  <2> QED
    BY <2>8 DEF v
<1> QED
  BY <1>3, <1>4

\* Nothing between is a timing packet.
LEMMA FirstLater ==
  ASSUME NEW s, IsTrace(s), NEW p \in Nat, NEW t, FirstFrom(s, p, t), ~(p \in Timed(s))
  PROVE  FirstFrom(s, p + 1, t)
<1>1. PICK n \in Timed(s) : p <= n /\ t = s[n].tsc /\ \A m \in Timed(s) : p <= m => n <= m
  BY DEF FirstFrom
<1>2. \A m \in Timed(s) : m \in Nat /\ m # p
  BY TraceFacts
<1>3. p + 1 <= n
  BY <1>1, <1>2
<1>4. \A m \in Timed(s) : p + 1 <= m => n <= m
  BY <1>1, <1>2
<1> QED
  BY <1>1, <1>3, <1>4 DEF FirstFrom

\* The block before goes on.
Longer(s, v, p) == [v EXCEPT !.size = p - v.start, !.tsc = <<v.tsc[1], NextTsc(s, p)>>]
LEMMA LongerIs ==
  ASSUME NEW s, IsTrace(s), NEW p \in DOMAIN s, IsIterated(s, p), NEW v, BlockLoop(s, v, p - 1),
         v.have, v.timed = (NextTsc(s, p) # 0),
         NEW w, w = Longer(s, v, p)
  PROVE  BlockLoop(s, w, p)
<1>1. /\ v \in BlockLoops /\ v.start \in 1 .. p - 1
      /\ InBlockLoop(s, v, p - 1) /\ OutLoop(s, v, p - 1) /\ CoverLoop(s, v, p - 1)
  BY DEF BlockLoop
<1>2. p \in Nat /\ 1 <= p /\ DOMAIN s = 1 .. Len(s) /\ Len(s) \in Nat /\ s[p].tsc \in Nat
  BY TraceFacts, PacketParts
<1>3. /\ v.start \in Nat /\ v.tsc \in Nat \X Nat /\ v.timed \in BOOLEAN /\ v.have \in BOOLEAN
      /\ v.size \in Int /\ v.out \in Seq(Pieces)
  BY <1>1 DEF BlockLoops
<1>4. NextTsc(s, p) \in Nat
  <2>1. CASE p \in Timed(s)
    BY <2>1, NextTscIs
  <2>2. CASE ~(p \in Timed(s))
    <3>1. s[p].tsc = 0
      BY <2>2 DEF Timed, IsIterated
    <3> QED
      BY <3>1 DEF NextTsc
  <2> QED
    BY <2>1, <2>2
<1>5. NextTsc(s, p) # 0 => p \in Timed(s)
  BY DEF NextTsc, Timed, IsIterated
<1>6. /\ w.have = v.have /\ w.start = v.start /\ w.timed = v.timed /\ w.out = v.out
      /\ w.tsc[1] = v.tsc[1] /\ w.tsc[2] = NextTsc(s, p)
  <2>1. w = [have |-> v.have, start |-> v.start, size |-> p - v.start, timed |-> v.timed,
             tsc |-> <<v.tsc[1], NextTsc(s, p)>>, out |-> v.out]
    BY <1>1 DEF BlockLoops, Longer
  <2>2. /\ w.have = v.have /\ w.start = v.start /\ w.timed = v.timed /\ w.out = v.out
        /\ w.tsc = <<v.tsc[1], NextTsc(s, p)>>
    BY ONLY <2>1
  <2>3. w.tsc[1] = v.tsc[1] /\ w.tsc[2] = NextTsc(s, p)
    BY ONLY <2>2
  <2> QED
    BY <2>2, <2>3
<1>7. w \in BlockLoops
  <2>1. w = [have |-> v.have, start |-> v.start, size |-> p - v.start, timed |-> v.timed,
             tsc |-> <<v.tsc[1], NextTsc(s, p)>>, out |-> v.out]
    BY <1>1 DEF BlockLoops, Longer
  <2>2. <<v.tsc[1], NextTsc(s, p)>> \in Nat \X Nat
    BY <1>3, <1>4
  <2>3. p - v.start \in Int
    BY <1>2, <1>3
  <2> DEFINE tsc == <<v.tsc[1], NextTsc(s, p)>>
             size == p - v.start
  <2> HIDE DEF tsc, size
  <2>4. [have |-> v.have, start |-> v.start, size |-> size, timed |-> v.timed,
         tsc |-> tsc, out |-> v.out] \in BlockLoops
    BY <1>3, <2>2, <2>3 DEF tsc, size, BlockLoops
  <2> QED
    BY <2>1, <2>4 DEF tsc, size
<1>8. InBlockLoop(s, w, p)
  <2> SUFFICES ASSUME w.timed
               PROVE  w.start \in Timed(s) /\ w.tsc[1] = s[w.start].tsc /\ FirstFrom(s, p + 1, w.tsc[2])
    BY DEF InBlockLoop
  <2>1. v.start \in Timed(s) /\ v.tsc[1] = s[v.start].tsc
    BY <1>1, <1>6 DEF InBlockLoop
  <2>2. FirstFrom(s, p + 1, NextTsc(s, p))
    BY <1>5, <1>6, NextTscIs
  <2> QED
    BY <1>6, <2>1, <2>2
<1>9. OutLoop(s, w, p)
  BY <1>1, <1>6 DEF OutLoop
<1>10. CoverLoop(s, w, p)
  <2> SUFFICES ASSUME NEW q \in DOMAIN s, q <= p, Dated(s, q)
               PROVE  InSome(w.out, q) \/ (w.have /\ w.timed /\ w.start <= q)
    BY DEF CoverLoop
  <2>1. CASE q < p
    <3>1. q <= p - 1
      BY <1>2, <2>1
    <3> QED
      BY <1>1, <1>6, <3>1 DEF CoverLoop
  <2>2. CASE q = p
    <3>1. NoneLost(s, SlotOf(s, p), p) /\ \E m \in Timed(s) : p < m
      BY <2>2 DEF Dated
    <3>2. SlotOf(s, p) <= p
      BY SlotIs
    <3>3. ~(s[p].kind = "ovf" /\ s[p].lost)
      BY <1>2, <3>1, <3>2 DEF NoneLost
    <3>4. p \in Timed(s)
      <4>1. p \in Timing(s) /\ (s[p].tsc # 0 \/ s[p].kind # "ovf")
        BY <3>3 DEF IsIterated
      <4>2. s[p].kind # "ovf" => s[p].kind \in {"psb", "mtc"}
        BY <4>1 DEF Timing
      <4>3. s[p].tsc = IF s[p].kind \in {"psb", "mtc"} THEN s[p].at ELSE 0
        BY DEF IsTrace
      <4>4. s[p].at # 0
        BY TraceFacts, PacketParts
      <4> QED
        BY <4>1, <4>2, <4>3, <4>4 DEF Timed
    <3>5. NextTsc(s, p) # 0
      BY <3>1, <3>4, NextTscIs
    <3>6. w.start <= q
      BY <1>1, <1>2, <1>3, <1>6, <2>2
    <3> QED
      BY <1>6, <3>5, <3>6
  <2> QED
    BY <1>2, <2>1, <2>2
<1>11. w.start \in 1 .. p
  BY <1>1, <1>2, <1>3, <1>6
<1> QED
  BY <1>7, <1>8, <1>9, <1>10, <1>11 DEF BlockLoop

\* One packet of the loop
LEMMA CoalescedIs ==
  ASSUME NEW s, IsTrace(s), NEW p \in DOMAIN s, IsIterated(s, p), NEW v, BlockLoop(s, v, p - 1)
  PROVE  BlockLoop(s, Coalesced(s, v, p), p)
<1> DEFINE longer == [v EXCEPT !.size = p - v.start, !.tsc = <<v.tsc[1], NextTsc(s, p)>>]
           fits == v.timed = (NextTsc(s, p) # 0)
                   /\ v.tsc[1] <= s[p].tsc /\ v.tsc[2] <= NextTsc(s, p)
<1>1. v \in BlockLoops /\ OutLoop(s, v, p - 1) /\ CoverLoop(s, v, p - 1)
  BY DEF BlockLoop
<1>2. v.have \in BOOLEAN /\ v.out \in Seq(Pieces)
  BY <1>1 DEF BlockLoops
<1>3. /\ ~v.have => Coalesced(s, v, p) = NewBlock(s, p, v.out)
      /\ v.have /\ fits => Coalesced(s, v, p) = longer
      /\ v.have /\ ~fits => Coalesced(s, v, p) = NewBlock(s, p, Ended(v, p))
  BY <1>2 DEF Coalesced
<1> HIDE DEF longer
<1>4. CASE ~v.have
  <2>1. v.out = <<>>
    BY <1>1, <1>4 DEF OutLoop
  <2>2. DOMAIN v.out = {}
    BY <2>1
  <2>3. Apart(v.out) /\ \A i \in DOMAIN v.out : IsPiece(s, v.out[i]) /\ v.out[i].pos[2] <= p
    BY <2>2 DEF Apart
  <2>4. \A q \in DOMAIN s : q < p /\ Dated(s, q) => InSome(v.out, q)
    <3> SUFFICES ASSUME NEW q \in DOMAIN s, q < p, Dated(s, q) PROVE InSome(v.out, q)
      OBVIOUS
    <3>1. q <= p - 1
      BY TraceFacts
    <3> QED
      BY <1>1, <1>4, <3>1 DEF CoverLoop
  <2>5. BlockLoop(s, NewBlock(s, p, v.out), p)
    BY <1>2, <2>3, <2>4, NewBlockIs
  <2> QED
    BY <1>3, <1>4, <2>5
<1>5. CASE v.have /\ fits
  <2>1. BlockLoop(s, longer, p)
    BY <1>5, LongerIs DEF longer, Longer
  <2> QED
    BY <1>3, <1>5, <2>1
<1>6. CASE v.have /\ ~fits
  <2> HIDE DEF fits
  <2> DEFINE out == Ended(v, p)
  <2>1. /\ out \in Seq(Pieces)
        /\ \A i \in DOMAIN out : IsPiece(s, out[i]) /\ out[i].pos[2] <= p
        /\ Apart(out)
        /\ \A q \in DOMAIN s : q < p /\ Dated(s, q) => InSome(out, q)
    BY <1>6, EndedIs
  <2> HIDE DEF out
  <2>2. BlockLoop(s, NewBlock(s, p, out), p)
    BY <2>1, NewBlockIs
  <2> QED
    BY <1>3, <1>6, <2>2 DEF out
<1> QED
  BY <1>2, <1>4, <1>5, <1>6

\* A packet that the loop does not look at
LEMMA SkippedIs ==
  ASSUME NEW s, IsTrace(s), NEW p \in DOMAIN s, ~IsIterated(s, p), NEW v, BlockLoop(s, v, p - 1)
  PROVE  BlockLoop(s, v, p)
<1>1. /\ v \in BlockLoops /\ (v.have => v.start \in 1 .. p - 1)
      /\ InBlockLoop(s, v, p - 1) /\ OutLoop(s, v, p - 1) /\ CoverLoop(s, v, p - 1)
  BY DEF BlockLoop
<1>2. p \in Nat /\ 1 <= p /\ DOMAIN s = 1 .. Len(s) /\ Len(s) \in Nat /\ s[p].tsc \in Nat
  BY TraceFacts, PacketParts
<1>3. /\ v.start \in Nat /\ v.tsc \in Nat \X Nat /\ v.timed \in BOOLEAN /\ v.have \in BOOLEAN
      /\ v.size \in Int /\ v.out \in Seq(Pieces)
  BY <1>1 DEF BlockLoops
<1>4. ~(p \in Timed(s)) /\ (s[p].kind = "ovf" => ~s[p].lost)
  <2>1. s[p].lost \in BOOLEAN
    BY TraceFacts, PacketParts
  <2> QED
    BY <2>1 DEF Timed, Timing, IsIterated
<1>5. (p - 1) + 1 = p /\ p - 1 \in Nat
  BY <1>2
<1>6. InBlockLoop(s, v, p)
  <2> SUFFICES ASSUME v.have, v.timed
               PROVE  v.start \in Timed(s) /\ v.tsc[1] = s[v.start].tsc /\ FirstFrom(s, p + 1, v.tsc[2])
    BY DEF InBlockLoop
  <2>1. v.start \in Timed(s) /\ v.tsc[1] = s[v.start].tsc /\ FirstFrom(s, p, v.tsc[2])
    BY <1>1, <1>5 DEF InBlockLoop
  <2> QED
    BY <1>2, <1>4, <2>1, FirstLater
<1>7. OutLoop(s, v, p)
  BY <1>1 DEF OutLoop
<1>8. CoverLoop(s, v, p)
  <2> SUFFICES ASSUME NEW q \in DOMAIN s, q <= p, Dated(s, q)
               PROVE  InSome(v.out, q) \/ (v.have /\ v.timed /\ v.start <= q)
    BY DEF CoverLoop
  <2>0. q \in Nat
    BY TraceFacts
  <2>1. CASE q < p
    <3>1. q <= p - 1
      BY <1>2, <2>0, <2>1
    <3> QED
      BY <1>1, <3>1 DEF CoverLoop
  <2>2. CASE q = p
    <3> DEFINE n == SlotOf(s, p)
    <3>1. NoneLost(s, n, p) /\ \E m \in Timed(s) : p < m
      BY <2>2 DEF Dated
    <3>2. n \in Timed(s) /\ n <= p /\ \A m \in Timed(s) : m <= p => m <= n
      BY SlotIs
    <3>3. n # p /\ n \in DOMAIN s
      BY <1>4, <3>2, TraceFacts
    <3> HIDE DEF n
    <3>4. n <= p - 1 /\ p - 1 \in DOMAIN s
      BY <1>2, <3>2, <3>3
    <3>5. SlotOf(s, p - 1) = n
      <4> DEFINE n1 == SlotOf(s, p - 1)
      <4>1. n1 \in Timed(s) /\ n1 <= p - 1 /\ \A m \in Timed(s) : m <= p - 1 => m <= n1
        BY <3>4, SlotIs
      <4> HIDE DEF n1
      <4>2. n1 \in Nat /\ n \in Nat
        BY <3>2, <4>1, TraceFacts
      <4>3. n <= n1 /\ n1 <= n
        BY <1>2, <3>2, <3>4, <4>1, <4>2
      <4>4. n1 = n
        BY <4>2, <4>3
      <4> QED
        BY <4>4 DEF n1
    <3>6. Dated(s, p - 1)
      <4>1. NoneLost(s, n, p - 1)
        <5> SUFFICES ASSUME NEW o \in DOMAIN s, n <= o, o <= p - 1, s[o].kind = "ovf" PROVE ~s[o].lost
          BY DEF NoneLost
        <5>1. o <= p
          BY <1>2
        <5> QED
          BY <3>1, <5>1 DEF NoneLost
      <4>2. \E m \in Timed(s) : p - 1 < m
        <5>1. PICK m \in Timed(s) : p < m
          BY <3>1
        <5>2. m \in Nat
          BY TraceFacts
        <5> QED
          BY <1>2, <5>1, <5>2
      <4> QED
        BY <3>4, <3>5, <4>1, <4>2 DEF Dated
    <3>7. InSome(v.out, p - 1) \/ (v.have /\ v.timed /\ v.start <= p - 1)
      BY <1>1, <1>2, <3>4, <3>6 DEF CoverLoop
    <3>8. CASE v.have /\ v.timed /\ v.start <= p - 1
      BY <1>2, <1>3, <2>2, <3>8
    <3>9. CASE InSome(v.out, p - 1)
      <4>1. PICK i \in DOMAIN v.out : In(v.out[i], p - 1)
        BY <3>9 DEF InSome
      <4>2. v.out # <<>>
        BY <4>1
      <4>3. v.have /\ v.out[i].pos[2] <= v.start /\ IsPiece(s, v.out[i])
        BY <1>1, <4>1, <4>2 DEF OutLoop
      <4>4. v.out[i].pos[2] \in Nat
        <5>1. v.out[i].pos \in Nat \X Nat
          BY <4>3 DEF IsPiece, Pieces
        <5> QED
          BY <5>1
      <4>5. p - 1 < v.out[i].pos[2]
        BY <4>1 DEF In
      <4>6. v.start <= p - 1
        BY <1>1, <1>2, <1>3, <4>3
      <4> QED
        BY SMTT(30), <1>2, <1>3, <4>3, <4>4, <4>5, <4>6
    <3> QED
      BY <3>7, <3>8, <3>9
  <2> QED
    BY <1>2, <2>0, <2>1, <2>2
<1>9. v.have => v.start \in 1 .. p
  BY <1>1, <1>2, <1>3
<1> QED
  BY <1>1, <1>6, <1>7, <1>8, <1>9 DEF BlockLoop

\* What blocks that have timestamps are
IsPieces(s, out) ==
  /\ out \in Seq(Pieces)
  /\ \A i \in DOMAIN out : IsPiece(s, out[i])
  /\ Apart(out)
  /\ \A q \in DOMAIN s : Dated(s, q) => InSome(out, q)

\* iterate_tsc_blocks finds blocks that do not overlap, of all that is timed.
LEMMA IteratedIs ==
  ASSUME NEW s, IsTrace(s)
  PROVE  IsPieces(s, IteratedBlocks(s))
<1> DEFINE N == Len(s)
           none == [have |-> FALSE, start |-> 0, size |-> 0, timed |-> FALSE, tsc |-> <<0, 0>>,
                    out |-> <<>>]
           Turn(p, v) == IF IsIterated(s, p) THEN Coalesced(s, v, p) ELSE v
           J == [p \in 0 .. N |-> {v \in BlockLoops : BlockLoop(s, v, p)}]
           Gets(f) == f = [p \in 0 .. N |->
             IF p = 0 THEN none
             ELSE IF IsIterated(s, p) THEN Coalesced(s, f[p - 1], p) ELSE f[p - 1]]
           upto == CHOOSE f : Gets(f)
           last == upto[N]
<1>1. IteratedBlocks(s) = IF last.have /\ last.size # 0 THEN Ended(last, last.start + last.size)
                          ELSE last.out
  BY DEF IteratedBlocks
<1>2. N \in Nat /\ DOMAIN s = 1 .. N /\ N # 0 /\ Timed(s) \subseteq 1 .. N
  BY TraceFacts
<1>3. BlockLoop(s, none, 0)
  <2>1. none \in BlockLoops
    BY DEF BlockLoops
  <2>2. DOMAIN none.out = {} /\ none.out = <<>> /\ none.have = FALSE
    OBVIOUS
  <2> HIDE DEF none
  <2>3. OutLoop(s, none, 0) /\ InBlockLoop(s, none, 0)
    BY <2>2 DEF OutLoop, InBlockLoop, Apart
  <2>4. CoverLoop(s, none, 0)
    BY <1>2 DEF CoverLoop
  <2> QED
    BY <2>1, <2>2, <2>3, <2>4 DEF BlockLoop
<1> HIDE DEF none
<1>4. \A p \in 1 .. N : \A v : BlockLoop(s, v, p - 1) => BlockLoop(s, Turn(p, v), p)
  <2> SUFFICES ASSUME NEW p \in 1 .. N, NEW v, BlockLoop(s, v, p - 1) PROVE BlockLoop(s, Turn(p, v), p)
    OBVIOUS
  <2>1. p \in DOMAIN s
    BY <1>2
  <2>2. CASE IsIterated(s, p)
    BY <2>1, <2>2, CoalescedIs
  <2>3. CASE ~IsIterated(s, p)
    BY <2>1, <2>3, SkippedIs
  <2> QED
    BY <2>2, <2>3
<1>5. \A p \in 0 .. N : \A v : v \in J[p] <=> BlockLoop(s, v, p)
  BY DEF BlockLoop
<1>6. J \in [0 .. N -> SUBSET BlockLoops]
  OBVIOUS
<1> HIDE DEF N, J
<1>7. \A p \in 1 .. N : p \in 0 .. N /\ p - 1 \in 0 .. N /\ p # 0
  BY <1>2
<1>8. \A p \in 1 .. N : \A v \in J[p - 1] : Turn(p, v) \in J[p]
  <2> HIDE DEF Turn
  <2> QED
    BY <1>4, <1>5, <1>7
<1>9. none \in J[0]
  BY <1>2, <1>3, <1>5
<1>10. \E f : Gets(f)
  <2> DEFINE turn == [p \in 1 .. N |-> [v \in BlockLoops |-> Turn(p, v)]]
  <2>1. \A p \in 1 .. N : \A v \in J[p - 1] : v \in BlockLoops
    BY <1>6, <1>7
  <2>2. \A p \in 1 .. N : \A v \in J[p - 1] : turn[p][v] = Turn(p, v)
    <3> HIDE DEF Turn
    <3> QED
      BY <2>1
  <2>3. \A p \in 1 .. N : \A v \in J[p - 1] : turn[p][v] \in J[p]
    <3> HIDE DEF Turn, turn
    <3> QED
      BY <1>8, <2>2
  <2> HIDE DEF turn
  <2>a. \E g : LoopValues(g, N, BlockLoops, J, none, turn)
    <3> HIDE DEF Turn
    <3> QED
      BY <1>2, <1>6, <1>9, <2>3, LoopKeeps
  <2>4. PICK g : /\ g \in [0 .. N -> BlockLoops] /\ g[0] = none
                 /\ \A i \in 1 .. N : g[i] = turn[i][g[i - 1]]
                 /\ \A i \in 0 .. N : g[i] \in J[i]
    BY <2>a DEF LoopValues
  <2>5. \A p \in 1 .. N : g[p] = Turn(p, g[p - 1])
    <3> HIDE DEF Turn
    <3> QED
      BY <1>7, <2>2, <2>4
  <2>6. \A p \in 0 .. N : p = 0 \/ p \in 1 .. N
    BY <1>2
  <2>7. \A p \in 0 .. N : g[p] = IF p = 0 THEN none
                                 ELSE IF IsIterated(s, p) THEN Coalesced(s, g[p - 1], p) ELSE g[p - 1]
    BY <1>7, <2>4, <2>5, <2>6
  <2>8. g = [p \in 0 .. N |-> g[p]]
    BY <2>4
  <2>9. Gets(g)
    BY <2>7, <2>8, Zenon
  <2> QED
    BY <2>9
<1>11. Gets(upto)
  BY <1>10
<1> HIDE DEF upto
<1>12. \A p \in 0 .. N : upto[p] = IF p = 0 THEN none ELSE Turn(p, upto[p - 1])
  BY <1>11, Zenon
<1> HIDE DEF Gets, Turn
<1>13. upto[0] \in J[0]
  BY <1>2, <1>9, <1>12
<1>14. \A p \in 1 .. N : upto[p - 1] \in J[p - 1] => upto[p] \in J[p]
  BY <1>7, <1>8, <1>12
<1>15. \A p \in 0 .. N : upto[p] \in J[p]
  BY <1>2, <1>13, <1>14, LoopInduction
<1>16. BlockLoop(s, last, N)
  BY <1>2, <1>5, <1>15
<1> HIDE DEF last
<1>17. ~(last.have /\ last.timed)
  <2> SUFFICES ASSUME last.have, last.timed PROVE FALSE
    OBVIOUS
  <2>1. FirstFrom(s, N + 1, last.tsc[2])
    BY <1>16 DEF BlockLoop, InBlockLoop
  <2> QED
    BY <1>2, <2>1 DEF FirstFrom
<1>18. IteratedBlocks(s) = last.out
  BY <1>1, <1>17 DEF Ended
<1>19. last.out \in Seq(Pieces)
  BY <1>16 DEF BlockLoop, BlockLoops
<1>20. \A i \in DOMAIN last.out : IsPiece(s, last.out[i])
  BY <1>16 DEF BlockLoop, OutLoop
<1>21. Apart(last.out)
  BY <1>16 DEF BlockLoop, OutLoop
<1>22. \A q \in DOMAIN s : Dated(s, q) => InSome(last.out, q)
  BY <1>2, <1>16, <1>17 DEF BlockLoop, CoverLoop
<1> QED
  BY <1>18, <1>19, <1>20, <1>21, <1>22 DEF IsPieces

-----------------------------------------------------------------------------
(* Schedulings *)

Schedulings ==
  [tsc : 0 .. MaxClock, ipt_offset : Nat, tid : Tids,
   earmarked : BOOLEAN, offset : Nat, type : {"none", "tip", "ovf"}]

\* The schedule messages S of CPU c, whose trace is s: they are in the order of
\* time, and their offsets are where the trace was at that time; every TIP
\* of the scheduler is that of a message; and between two messages the trace
\* is of the task of the first of them.
Messages(s, S) ==
  /\ S \in Seq(Schedulings)
  /\ \A k \in DOMAIN S : ~S[k].earmarked /\ S[k].tsc # 0 /\ S[k].ipt_offset \in 1 .. Len(s) + 1
  /\ \A j, k \in DOMAIN S : j < k => S[j].tsc < S[k].tsc /\ S[j].ipt_offset <= S[k].ipt_offset
Located(s, S) ==
  \A k \in DOMAIN S : \A p \in DOMAIN s :
    /\ p < S[k].ipt_offset => s[p].at < S[k].tsc
    /\ S[k].ipt_offset <= p => S[k].tsc <= s[p].at
TipsAreSchedulings(s, S) ==
  \A p \in DOMAIN s : s[p].kind = "tip" =>
    \E k \in DOMAIN S : /\ p = S[k].ipt_offset + 1 /\ s[p].at = S[k].tsc
                        /\ s[S[k].ipt_offset].kind = "tnt"
Until(s, S, k, p) ==
  k < Len(S) => p < S[k + 1].ipt_offset \/ (p = S[k + 1].ipt_offset /\ s[p].kind = "tnt")
RunnersAreScheduled(s, S, c) ==
  \A k \in DOMAIN S : \A p \in DOMAIN s :
    S[k].ipt_offset < p /\ Until(s, S, k, p) => Tid(s[p].runner, c) = S[k].tid

IsScheduled(s, S, c) ==
  Messages(s, S) /\ Located(s, S) /\ TipsAreSchedulings(s, S) /\ RunnersAreScheduled(s, S, c)

\* No TIP was lost.
HasTips(s, S) ==
  \A k \in DOMAIN S : \E p \in DOMAIN s : s[p].kind = "tip" /\ s[p].at = S[k].tsc
\* Where the TIP of scheduling k is
TipOf(S, k) == S[k].ipt_offset + 1

\* The parts of a scheduling
LEMMA SchedulingParts ==
  ASSUME NEW S \in Seq(Schedulings), NEW k \in DOMAIN S
  PROVE  /\ k \in Nat /\ 1 <= k /\ k <= Len(S) /\ DOMAIN S = 1 .. Len(S) /\ Len(S) \in Nat
         /\ S[k] \in Schedulings
         /\ S[k].tsc \in Nat /\ S[k].tsc <= MaxClock /\ S[k].ipt_offset \in Nat
         /\ S[k].tid \in Tids /\ S[k].earmarked \in BOOLEAN /\ S[k].offset \in Nat
<1>1. S[k] \in Schedulings /\ k \in Nat /\ 1 <= k /\ k <= Len(S) /\ DOMAIN S = 1 .. Len(S) /\ Len(S) \in Nat
  BY Places
<1>2. MaxClock \in Nat
  BY StreamsAssumption
<1> QED
  BY <1>1, <1>2 DEF Schedulings

\* Without lost TIPs each scheduling's is right after its offset, and after
\* those of the schedulings before it.
LEMMA TipIs ==
  ASSUME NEW s, IsTrace(s), NEW S, Messages(s, S), TipsAreSchedulings(s, S), HasTips(s, S),
         NEW k \in DOMAIN S
  PROVE  /\ TipOf(S, k) \in DOMAIN s /\ s[TipOf(S, k)].kind = "tip"
         /\ s[TipOf(S, k)].at = S[k].tsc
         /\ S[k].ipt_offset \in DOMAIN s /\ s[S[k].ipt_offset].kind = "tnt"
<1>1. PICK p \in DOMAIN s : s[p].kind = "tip" /\ s[p].at = S[k].tsc
  BY DEF HasTips
<1>2. PICK j \in DOMAIN S : /\ p = S[j].ipt_offset + 1 /\ s[p].at = S[j].tsc
                            /\ s[S[j].ipt_offset].kind = "tnt"
  BY <1>1 DEF TipsAreSchedulings
<1>3. S \in Seq(Schedulings)
  BY DEF Messages
<1>4. j \in Nat /\ k \in Nat /\ S[j].tsc \in Nat /\ S[k].tsc \in Nat
  BY <1>3, SchedulingParts
<1>5. ~(j < k) /\ ~(k < j)
  <2>1. j < k => S[j].tsc < S[k].tsc
    BY DEF Messages
  <2>2. k < j => S[k].tsc < S[j].tsc
    BY DEF Messages
  <2> QED
    BY <1>1, <1>2, <1>4, <2>1, <2>2
<1>6. j = k
  BY <1>4, <1>5
<1>7. S[k].ipt_offset \in Nat /\ 1 <= S[k].ipt_offset
  BY <1>3, SchedulingParts DEF Messages
<1>8. p = TipOf(S, k)
  BY <1>2, <1>6 DEF TipOf
<1>9. S[k].ipt_offset \in DOMAIN s
  <2>1. DOMAIN s = 1 .. Len(s) /\ Len(s) \in Nat
    BY TraceFacts
  <2> QED
    BY <1>2, <1>6, <1>7, <2>1
<1> QED
  BY <1>1, <1>2, <1>6, <1>8, <1>9

\* The order of the TIPs
LEMMA TipsOrder ==
  ASSUME NEW s, IsTrace(s), NEW S, Messages(s, S), TipsAreSchedulings(s, S), HasTips(s, S),
         NEW j \in DOMAIN S, NEW k \in DOMAIN S, j < k
  PROVE  TipOf(S, j) < S[k].ipt_offset /\ TipOf(S, j) < TipOf(S, k)
<1>1. S \in Seq(Schedulings)
  BY DEF Messages
<1>2. /\ S[j].ipt_offset \in Nat /\ S[k].ipt_offset \in Nat
      /\ S[j].tsc \in Nat /\ S[k].tsc \in Nat
  BY <1>1, SchedulingParts
<1>3. S[j].tsc < S[k].tsc /\ S[j].ipt_offset <= S[k].ipt_offset
  BY DEF Messages
<1>4. s[TipOf(S, j)].at = S[j].tsc /\ s[TipOf(S, k)].at = S[k].tsc
      /\ s[TipOf(S, j)].kind = "tip" /\ s[S[k].ipt_offset].kind = "tnt"
  BY TipIs
<1>5. S[j].ipt_offset # S[k].ipt_offset
  BY <1>2, <1>3, <1>4 DEF TipOf
<1>6. TipOf(S, j) # S[k].ipt_offset
  BY <1>4
<1> QED
  BY <1>2, <1>3, <1>5, <1>6 DEF TipOf

\* Every TIP is that of a scheduling.
LEMMA TipsAll ==
  ASSUME NEW s, NEW S, TipsAreSchedulings(s, S), NEW p \in DOMAIN s, s[p].kind = "tip"
  PROVE  \E k \in DOMAIN S : p = TipOf(S, k)
BY DEF TipsAreSchedulings, TipOf

-----------------------------------------------------------------------------
(* Matching schedulings with TIPs *)

\* The search for the first scheduling after the offset
LEMMA BeforeIs ==
  ASSUME NEW S \in Seq(Schedulings), NEW p \in Nat
  PROVE  /\ Before(S, p) \in 0 .. Len(S)
         /\ \A j \in DOMAIN S : j <= Before(S, p) => S[j].ipt_offset <= p
         /\ Before(S, p) < Len(S) => S[Before(S, p) + 1].ipt_offset > p
<1> DEFINE after == {i \in DOMAIN S : S[i].ipt_offset > p}
           R == after \cup {Len(S) + 1}
           n == Min(R)
<1>1. Before(S, p) = n - 1
  BY DEF Before
<1>2. Len(S) \in Nat /\ DOMAIN S = 1 .. Len(S) /\ \A j \in DOMAIN S : S[j].ipt_offset \in Nat
  BY Places, SchedulingParts
<1>3. R \subseteq Nat /\ R # {} /\ \A i \in R : i \in 1 .. Len(S) + 1
  BY <1>2
<1> HIDE DEF R
<1>4. n \in R /\ \A i \in R : n <= i
  BY <1>3, LeastIs
<1> HIDE DEF n
<1>5. n \in 1 .. Len(S) + 1
  BY <1>3, <1>4
<1>6. \A j \in DOMAIN S : j <= n - 1 => S[j].ipt_offset <= p
  <2> SUFFICES ASSUME NEW j \in DOMAIN S, j <= n - 1, S[j].ipt_offset > p PROVE FALSE
    BY <1>2
  <2>1. n <= j
    BY <1>4 DEF R
  <2> QED
    BY <1>2, <1>5, <2>1
<1>7. n - 1 < Len(S) => S[n].ipt_offset > p
  <2> SUFFICES ASSUME n - 1 < Len(S) PROVE S[n].ipt_offset > p
    OBVIOUS
  <2>1. n # Len(S) + 1
    BY <1>2, <1>5
  <2> QED
    BY <1>4, <2>1 DEF R
<1>8. (n - 1) + 1 = n /\ n - 1 \in 0 .. Len(S)
  BY <1>2, <1>5
<1> QED
  BY <1>1, <1>6, <1>7, <1>8

\* The timestamp that a scheduling whose TIP is found gets
MatchedTsc(s, S, k) ==
  IF k # Len(S) /\ GotTsc(s, TipOf(S, k)) THEN TscAt(s, TipOf(S, k)) ELSE S[k].tsc

IsMatched(s, S, l, k) ==
  l[k].earmarked /\ l[k].offset = TipOf(S, k) /\ l[k].tsc = MatchedTsc(s, S, k) /\ l[k].type = "tip"

\* l is what the schedulings S are after the packets of s up to place p.
MatchLoop(s, S, l, p) ==
  /\ l \in Seq(Schedulings) /\ Len(l) = Len(S)
  /\ \A k \in DOMAIN S : l[k].ipt_offset = S[k].ipt_offset /\ l[k].tid = S[k].tid
  /\ HasTips(s, S) => \A k \in DOMAIN S :
       /\ TipOf(S, k) <= p => IsMatched(s, S, l, k)
       /\ p < TipOf(S, k) => ~l[k].earmarked /\ l[k].tsc = S[k].tsc

\* The scheduling of a TIP is the one before it.
LEMMA CandidateIs ==
  ASSUME NEW s, IsTrace(s), NEW S, Messages(s, S), TipsAreSchedulings(s, S), HasTips(s, S),
         NEW l \in Seq(Schedulings), Len(l) = Len(S),
         \A k \in DOMAIN S : l[k].ipt_offset = S[k].ipt_offset,
         NEW k \in DOMAIN S
  PROVE  CandidateOf(l, TipOf(S, k)) = k
<1> DEFINE p == TipOf(S, k)
           i == Before(l, p)
<1>1. S \in Seq(Schedulings) /\ p \in Nat
  <2>1. S \in Seq(Schedulings)
    BY DEF Messages
  <2> QED
    BY <2>1, SchedulingParts DEF TipOf
<1>2. Len(S) \in Nat /\ DOMAIN S = 1 .. Len(S) /\ DOMAIN l = DOMAIN S /\ k \in Nat /\ 1 <= k /\ k <= Len(S)
  BY <1>1, Places
<1>3. \A j \in DOMAIN S : S[j].ipt_offset \in Nat
  BY <1>1, SchedulingParts
<1>4. p = S[k].ipt_offset + 1
  BY DEF TipOf
<1> HIDE DEF p
<1>5. /\ i \in 0 .. Len(l)
      /\ \A j \in DOMAIN l : j <= i => l[j].ipt_offset <= p
      /\ i < Len(l) => l[i + 1].ipt_offset > p
  BY <1>1, BeforeIs
<1> HIDE DEF i
<1>6. ~(i < k)
  <2> SUFFICES ASSUME i < k PROVE FALSE
    OBVIOUS
  <2>1. i + 1 \in DOMAIN S /\ i + 1 <= k /\ i < Len(l)
    BY <1>2, <1>5
  <2>2. S[i + 1].ipt_offset > p
    BY <1>5, <2>1
  <2>3. S[i + 1].ipt_offset <= S[k].ipt_offset
    <3>1. CASE i + 1 = k
      BY <1>3, <3>1
    <3>2. CASE i + 1 # k
      <4>1. i + 1 < k
        BY <1>2, <1>5, <2>1, <3>2
      <4> QED
        BY <2>1, <4>1 DEF Messages
    <3> QED
      BY <3>1, <3>2
  <2> QED
    BY <1>3, <1>4, <2>1, <2>2, <2>3
<1>7. ~(k < i)
  <2> SUFFICES ASSUME k < i PROVE FALSE
    OBVIOUS
  <2>1. k + 1 \in DOMAIN S /\ k + 1 <= i /\ k < k + 1
    BY <1>2, <1>5
  <2>2. S[k + 1].ipt_offset <= p
    BY <1>2, <1>5, <2>1
  <2>3. p < S[k + 1].ipt_offset
    BY <2>1, TipsOrder DEF p
  <2> QED
    BY <1>1, <1>3, <2>1, <2>2, <2>3
<1>8. i = k
  BY <1>2, <1>5, <1>6, <1>7
<1> QED
  BY <1>8 DEF CandidateOf, i, p

\* What is the same in a list of schedulings that apply works on
SameMessages(l, S) ==
  /\ l \in Seq(Schedulings) /\ Len(l) = Len(S)
  /\ \A k \in DOMAIN S : l[k].ipt_offset = S[k].ipt_offset /\ l[k].tid = S[k].tid

\* A scheduling whose TIP is found, and one that is in an overflow
LEMMA Edited ==
  ASSUME NEW a \in Schedulings, NEW p, NEW tsc,
         NEW u, u = [a EXCEPT !.offset = p, !.earmarked = TRUE, !.type = "tip", !.tsc = tsc],
         NEW w, w = [a EXCEPT !.offset = p, !.type = "ovf"]
  PROVE  /\ u = [tsc |-> tsc, ipt_offset |-> a.ipt_offset, tid |-> a.tid, earmarked |-> TRUE,
                 offset |-> p, type |-> "tip"]
         /\ w = [tsc |-> a.tsc, ipt_offset |-> a.ipt_offset, tid |-> a.tid,
                 earmarked |-> a.earmarked, offset |-> p, type |-> "ovf"]
<1>1. u = [tsc |-> tsc, ipt_offset |-> a.ipt_offset, tid |-> a.tid, earmarked |-> TRUE,
           offset |-> p, type |-> "tip"]
  BY DEF Schedulings
<1>2. w = [tsc |-> a.tsc, ipt_offset |-> a.ipt_offset, tid |-> a.tid,
           earmarked |-> a.earmarked, offset |-> p, type |-> "ovf"]
  BY DEF Schedulings
<1> QED
  BY <1>1, <1>2

\* A list with the scheduling i changed
LEMMA OneChanged ==
  ASSUME NEW S \in Seq(Schedulings), NEW l, SameMessages(l, S), NEW i \in DOMAIN S,
         NEW b \in Schedulings, b.ipt_offset = S[i].ipt_offset, b.tid = S[i].tid,
         NEW w, w = [l EXCEPT ![i] = b]
  PROVE  SameMessages(w, S) /\ w[i] = b /\ \A k \in DOMAIN S : k # i => w[k] = l[k]
<1>1. l \in Seq(Schedulings) /\ Len(l) = Len(S)
      /\ \A k \in DOMAIN S : l[k].ipt_offset = S[k].ipt_offset /\ l[k].tid = S[k].tid
  BY DEF SameMessages
<1>2. DOMAIN l = DOMAIN S /\ DOMAIN l = 1 .. Len(l) /\ Len(l) \in Nat
  BY <1>1, Places
<1>3. l \in [1 .. Len(l) -> Schedulings]
  BY <1>1
<1>4. w \in [1 .. Len(l) -> Schedulings]
  BY <1>2, <1>3
<1>5. w[i] = b /\ \A k \in DOMAIN S : k # i => w[k] = l[k]
  BY <1>2, <1>3
<1>6. w \in Seq(Schedulings) /\ Len(w) = Len(l)
  BY ONLY <1>2, <1>4
<1>7. \A k \in DOMAIN S : w[k].ipt_offset = S[k].ipt_offset /\ w[k].tid = S[k].tid
  BY <1>1, <1>5
<1> QED
  BY <1>1, <1>5, <1>6, <1>7 DEF SameMessages

\* apply at a TIP
LEMMA MatchTipIs ==
  ASSUME NEW s, IsTrace(s), NEW S, Messages(s, S), TipsAreSchedulings(s, S),
         NEW p \in DOMAIN s, s[p].kind = "tip", NEW l, MatchLoop(s, S, l, p - 1)
  PROVE  MatchLoop(s, S, MatchTip(s, l, p), p)
<1> DEFINE i == CandidateOf(l, p)
           last == i = Len(l)
           tsc == IF ~last /\ GotTsc(s, p) THEN TscAt(s, p) ELSE l[i].tsc
           b == [l[i] EXCEPT !.offset = p, !.earmarked = TRUE, !.type = "tip", !.tsc = tsc]
           w == [l EXCEPT ![i] = b]
           same == i = 0 \/ l[i].earmarked \/ (last /\ l[i].ipt_offset >= p)
<1>0. S \in Seq(Schedulings)
  BY DEF Messages
<1>1. SameMessages(l, S) /\ l \in Seq(Schedulings) /\ Len(l) = Len(S)
  BY DEF MatchLoop, SameMessages
<1>2. p \in Nat /\ DOMAIN s \subseteq Nat
  BY TraceFacts
<1>3. DOMAIN l = DOMAIN S /\ DOMAIN S = 1 .. Len(S) /\ Len(S) \in Nat
  BY <1>0, <1>1, Places
<1>4. i \in 0 .. Len(l)
  BY <1>1, <1>2, BeforeIs DEF CandidateOf
<1>5. MatchTip(s, l, p) = IF same THEN l ELSE w
  BY DEF MatchTip
<1>6. HasTips(s, S) => \A k \in DOMAIN S : k # i => TipOf(S, k) # p
  <2> SUFFICES ASSUME HasTips(s, S), NEW k \in DOMAIN S, TipOf(S, k) = p PROVE k = i
    OBVIOUS
  <2>1. \A j \in DOMAIN S : l[j].ipt_offset = S[j].ipt_offset
    BY <1>1 DEF SameMessages
  <2>2. CandidateOf(l, TipOf(S, k)) = k
    BY <1>1, <2>1, CandidateIs
  <2> QED
    BY <2>2
<1>7. HasTips(s, S) => i \in DOMAIN S /\ TipOf(S, i) = p
  <2> SUFFICES ASSUME HasTips(s, S) PROVE i \in DOMAIN S /\ TipOf(S, i) = p
    OBVIOUS
  <2>1. PICK k \in DOMAIN S : p = TipOf(S, k)
    BY TipsAll
  <2> QED
    BY <1>6, <2>1
<1> HIDE DEF i
<1>8. HasTips(s, S) => \A k \in DOMAIN S : TipOf(S, k) \in Nat
  <2>1. \A k \in DOMAIN S : S[k].ipt_offset \in Nat
    BY <1>0, SchedulingParts
  <2> QED
    BY <2>1 DEF TipOf
<1>9. CASE same
  <2>1. ~HasTips(s, S)
    <3> SUFFICES ASSUME HasTips(s, S) PROVE FALSE
      OBVIOUS
    <3>1. i \in DOMAIN S /\ TipOf(S, i) = p
      BY <1>7
    <3>2. ~l[i].earmarked
      <4>1. p - 1 < TipOf(S, i)
        BY <1>2, <3>1
      <4> QED
        BY <3>1, <4>1 DEF MatchLoop
    <3>3. l[i].ipt_offset = S[i].ipt_offset /\ S[i].ipt_offset \in Nat
      BY <1>0, <1>1, <3>1, SchedulingParts DEF SameMessages
    <3>4. ~(l[i].ipt_offset >= p)
      BY <3>1, <3>3 DEF TipOf
    <3>5. i # 0
      BY <1>3, <3>1
    <3> QED
      BY <1>9, <3>2, <3>4, <3>5
  <2> QED
    BY <1>5, <1>9, <2>1 DEF MatchLoop
<1>10. CASE ~same
  <2>1. i \in DOMAIN S
    <3>1. i # 0
      BY <1>10
    <3> HIDE DEF same
    <3> QED
      BY <1>1, <1>3, <1>4, <3>1
  <2>2. l[i] \in Schedulings /\ l[i].ipt_offset = S[i].ipt_offset /\ l[i].tid = S[i].tid
        /\ l[i].tsc \in 0 .. MaxClock
    <3>1. l[i] \in Schedulings
      BY <1>1, <1>3, <2>1, Places
    <3> QED
      BY <1>1, <2>1, <3>1 DEF SameMessages, Schedulings
  <2>3. TscAt(s, p) \in 0 .. MaxClock
    <3>1. SlotOf(s, p) \in Timed(s) /\ TscAt(s, p) = s[SlotOf(s, p)].tsc
      BY SlotIs
    <3>2. TscAt(s, p) \in Nat /\ TscAt(s, p) <= MaxClock
      BY <3>1, TraceFacts
    <3>3. MaxClock \in Nat
      BY StreamsAssumption
    <3> QED
      BY <3>2, <3>3
  <2>4. tsc \in 0 .. MaxClock
    BY <2>2, <2>3
  <2> HIDE DEF tsc
  <2>5. b \in Schedulings /\ b.earmarked = TRUE /\ b.offset = p /\ b.tsc = tsc /\ b.type = "tip"
        /\ b.ipt_offset = l[i].ipt_offset /\ b.tid = l[i].tid
    <3>1. b = [tsc |-> tsc, ipt_offset |-> l[i].ipt_offset, tid |-> l[i].tid, earmarked |-> TRUE,
               offset |-> p, type |-> "tip"]
      <4>1. l[i] \in Schedulings
        BY <2>2
      <4>2. \A z : z = [l[i] EXCEPT !.offset = p, !.type = "ovf"] =>
              b = [tsc |-> tsc, ipt_offset |-> l[i].ipt_offset, tid |-> l[i].tid, earmarked |-> TRUE,
                   offset |-> p, type |-> "tip"]
        BY ONLY ZenonT(30), <4>1, Edited
      <4> QED
        BY <4>2
    <3>2. l[i].ipt_offset \in Nat /\ l[i].tid \in Tids
      BY <2>2 DEF Schedulings
    <3> QED
      BY <1>2, <2>4, <3>1, <3>2 DEF Schedulings
  <2> HIDE DEF b
  <2>6. SameMessages(w, S) /\ w[i] = b /\ \A k \in DOMAIN S : k # i => w[k] = l[k]
    BY SMTT(30), <1>0, <1>1, <2>1, <2>2, <2>5, OneChanged
  <2> HIDE DEF w
  <2>7. ASSUME HasTips(s, S), NEW k \in DOMAIN S
        PROVE  /\ TipOf(S, k) <= p => IsMatched(s, S, w, k)
               /\ p < TipOf(S, k) => ~w[k].earmarked /\ w[k].tsc = S[k].tsc
    <3>1. TipOf(S, i) = p /\ TipOf(S, k) \in Nat
      BY <1>7, <1>8, <2>7
    <3>2. CASE k = i
      <4>1. l[i].tsc = S[i].tsc
        <5>1. p - 1 < TipOf(S, i)
          BY <1>2, <3>1
        <5> QED
          BY <2>1, <2>7, <5>1 DEF MatchLoop
      <4>2. tsc = MatchedTsc(s, S, i)
        BY <1>1, <3>1, <4>1 DEF tsc, MatchedTsc
      <4>3. IsMatched(s, S, w, i)
        BY <2>5, <2>6, <3>1, <4>2 DEF IsMatched
      <4> QED
        BY <1>2, <3>1, <3>2, <4>3
    <3>3. CASE k # i
      <4>1. TipOf(S, k) # p /\ w[k] = l[k]
        BY <1>6, <2>6, <2>7, <3>3
      <4>2. TipOf(S, k) <= p - 1 => IsMatched(s, S, l, k)
        BY <2>7 DEF MatchLoop
      <4>3. p - 1 < TipOf(S, k) => ~l[k].earmarked /\ l[k].tsc = S[k].tsc
        BY <2>7 DEF MatchLoop
      <4>4. TipOf(S, k) <= p => TipOf(S, k) <= p - 1
        BY <1>2, <3>1, <4>1
      <4>5. p < TipOf(S, k) => p - 1 < TipOf(S, k)
        BY <1>2, <3>1
      <4> QED
        BY <4>1, <4>2, <4>3, <4>4, <4>5 DEF IsMatched
    <3> QED
      BY <3>2, <3>3
  <2>8. MatchLoop(s, S, w, p)
    BY <2>6, <2>7 DEF MatchLoop, SameMessages
  <2> QED
    BY <1>5, <1>10, <2>8
<1> QED
  BY <1>9, <1>10

\* apply at an overflow
LEMMA MatchOvfIs ==
  ASSUME NEW s, IsTrace(s), NEW S, Messages(s, S), TipsAreSchedulings(s, S),
         NEW p \in DOMAIN s, s[p].kind = "ovf", NEW l, MatchLoop(s, S, l, p - 1)
  PROVE  MatchLoop(s, S, MatchOvf(l, p), p)
<1> DEFINE n == Before(l, p)
           Here(i) == i <= n /\ ((l[i].ipt_offset = p /\ ~l[i].earmarked)
                                 \/ (i = n /\ n < Len(l) /\ l[i].type = "none"))
           w == [i \in DOMAIN l |-> IF Here(i) THEN [l[i] EXCEPT !.offset = p, !.type = "ovf"] ELSE l[i]]
<1>0. S \in Seq(Schedulings)
  BY DEF Messages
<1>1. SameMessages(l, S) /\ l \in Seq(Schedulings) /\ Len(l) = Len(S)
      /\ \A k \in DOMAIN S : l[k].ipt_offset = S[k].ipt_offset /\ l[k].tid = S[k].tid
  BY DEF MatchLoop, SameMessages
<1>2. p \in Nat /\ DOMAIN s \subseteq Nat
  BY TraceFacts
<1>3. DOMAIN l = DOMAIN S /\ DOMAIN S = 1 .. Len(S) /\ Len(S) \in Nat
  BY <1>0, <1>1, Places
<1>4. /\ n \in 0 .. Len(l)
      /\ \A j \in DOMAIN l : j <= n => l[j].ipt_offset <= p
  BY <1>1, <1>2, BeforeIs
<1>5. MatchOvf(l, p) = w
  BY DEF MatchOvf
<1> HIDE DEF n
<1>6. \A k \in DOMAIN S : l[k] \in Schedulings
  BY <1>1, <1>3, Places
<1>7. \A k \in DOMAIN S : w[k] \in Schedulings /\ w[k].ipt_offset = l[k].ipt_offset /\ w[k].tid = l[k].tid
                          /\ w[k].earmarked = l[k].earmarked /\ w[k].tsc = l[k].tsc
  <2> SUFFICES ASSUME NEW k \in DOMAIN S
               PROVE  w[k] \in Schedulings /\ w[k].ipt_offset = l[k].ipt_offset /\ w[k].tid = l[k].tid
                      /\ w[k].earmarked = l[k].earmarked /\ w[k].tsc = l[k].tsc
    OBVIOUS
  <2> DEFINE b == [l[k] EXCEPT !.offset = p, !.type = "ovf"]
  <2>1. w[k] = b \/ w[k] = l[k]
    BY <1>3
  <2>2. b \in Schedulings /\ b.ipt_offset = l[k].ipt_offset /\ b.tid = l[k].tid
        /\ b.earmarked = l[k].earmarked /\ b.tsc = l[k].tsc
    <3>1. b = [tsc |-> l[k].tsc, ipt_offset |-> l[k].ipt_offset, tid |-> l[k].tid,
               earmarked |-> l[k].earmarked, offset |-> p, type |-> "ovf"]
      <4>1. l[k] \in Schedulings /\ l[k].tsc \in 0 .. MaxClock
        BY <1>6 DEF Schedulings
      <4> QED
        BY <4>1, Edited
    <3>2. l[k].ipt_offset \in Nat /\ l[k].tid \in Tids /\ l[k].earmarked \in BOOLEAN
          /\ l[k].tsc \in 0 .. MaxClock
      BY <1>6 DEF Schedulings
    <3> QED
      BY <1>2, <3>1, <3>2 DEF Schedulings
  <2> HIDE DEF w, b
  <2> QED
    BY <1>6, <2>1, <2>2
<1>8. w \in Seq(Schedulings) /\ Len(w) = Len(S)
  <2>1. DOMAIN w = 1 .. Len(S)
    BY <1>3
  <2> HIDE DEF w
  <2>2. w \in [1 .. Len(S) -> Schedulings]
    <3>1. w = [i \in 1 .. Len(S) |-> w[i]]
      BY <1>3, <2>1 DEF w
    <3> QED
      BY <1>3, <1>7, <3>1
  <2> QED
    BY <1>3, <2>2
<1>9. HasTips(s, S) => \A k \in DOMAIN S : TipOf(S, k) <= p => ~Here(k)
  <2> SUFFICES ASSUME HasTips(s, S), NEW k \in DOMAIN S, TipOf(S, k) <= p, Here(k) PROVE FALSE
    OBVIOUS
  <2>1. /\ s[S[k].ipt_offset].kind = "tnt" /\ s[TipOf(S, k)].kind = "tip"
    BY TipIs
  <2>2. TipOf(S, k) \in Nat
    BY <1>0, SchedulingParts DEF TipOf
  <2>3. TipOf(S, k) <= p - 1
    <3>1. TipOf(S, k) # p
      BY <2>1
    <3> QED
      BY <1>2, <2>2, <3>1
  <2>4. IsMatched(s, S, l, k)
    BY <2>3 DEF MatchLoop
  <2>5. l[k].ipt_offset # p
    BY <1>1, <2>1
  <2>6. l[k].type = "tip"
    BY <2>4 DEF IsMatched
  <2> QED
    BY <2>5, <2>6
<1>10. \A k \in DOMAIN S : ~Here(k) => w[k] = l[k]
  BY <1>3
<1> HIDE DEF w, Here
<1>11. ASSUME HasTips(s, S), NEW k \in DOMAIN S
       PROVE  /\ TipOf(S, k) <= p => IsMatched(s, S, w, k)
              /\ p < TipOf(S, k) => ~w[k].earmarked /\ w[k].tsc = S[k].tsc
  <2>1. TipOf(S, k) \in Nat
    BY <1>0, SchedulingParts DEF TipOf
  <2>2. /\ TipOf(S, k) <= p - 1 => IsMatched(s, S, l, k)
        /\ p - 1 < TipOf(S, k) => ~l[k].earmarked /\ l[k].tsc = S[k].tsc
    BY <1>11 DEF MatchLoop
  <2>3. CASE TipOf(S, k) <= p
    <3>1. TipOf(S, k) # p
      <4>1. s[TipOf(S, k)].kind = "tip"
        BY <1>11, TipIs
      <4> QED
        BY <4>1
    <3>2. TipOf(S, k) <= p - 1 /\ ~(p < TipOf(S, k))
      BY <1>2, <2>1, <2>3, <3>1
    <3>3. w[k] = l[k]
      BY <1>9, <1>10, <1>11, <2>3
    <3> QED
      BY <2>2, <3>2, <3>3 DEF IsMatched
  <2>4. CASE ~(TipOf(S, k) <= p)
    <3>1. p - 1 < TipOf(S, k)
      BY <1>2, <2>1, <2>4
    <3> QED
      BY <1>7, <2>2, <2>4, <3>1
  <2> QED
    BY <2>3, <2>4
<1>12. \A k \in DOMAIN S : w[k].ipt_offset = S[k].ipt_offset /\ w[k].tid = S[k].tid
  BY <1>1, <1>7
<1>13. MatchLoop(s, S, w, p)
  BY <1>8, <1>11, <1>12 DEF MatchLoop
<1> QED
  BY <1>5, <1>13

\* apply at a packet that is neither
LEMMA MatchSkips ==
  ASSUME NEW s, IsTrace(s), NEW S, Messages(s, S), TipsAreSchedulings(s, S),
         NEW p \in DOMAIN s, s[p].kind # "tip", NEW l, MatchLoop(s, S, l, p - 1)
  PROVE  MatchLoop(s, S, l, p)
<1>0. S \in Seq(Schedulings) /\ p \in Nat
  BY TraceFacts DEF Messages
<1>1. ASSUME HasTips(s, S), NEW k \in DOMAIN S
      PROVE  /\ TipOf(S, k) <= p => IsMatched(s, S, l, k)
             /\ p < TipOf(S, k) => ~l[k].earmarked /\ l[k].tsc = S[k].tsc
  <2>1. TipOf(S, k) \in Nat /\ TipOf(S, k) # p
    <3>1. s[TipOf(S, k)].kind = "tip"
      BY <1>1, TipIs
    <3>2. TipOf(S, k) \in Nat
      BY <1>0, SchedulingParts DEF TipOf
    <3> QED
      BY <3>1, <3>2
  <2>2. /\ TipOf(S, k) <= p - 1 => IsMatched(s, S, l, k)
        /\ p - 1 < TipOf(S, k) => ~l[k].earmarked /\ l[k].tsc = S[k].tsc
    BY <1>1 DEF MatchLoop
  <2>3. (TipOf(S, k) <= p => TipOf(S, k) <= p - 1) /\ (p < TipOf(S, k) => p - 1 < TipOf(S, k))
    BY <1>0, <2>1
  <2> QED
    BY <2>2, <2>3
<1> QED
  BY <1>1 DEF MatchLoop

\* apply keeps the messages, and, if no TIP was lost, finds the TIP of each.
LEMMA AppliedIs ==
  ASSUME NEW s, IsTrace(s), NEW S, Messages(s, S), TipsAreSchedulings(s, S)
  PROVE  MatchLoop(s, S, Applied(s, S), Len(s))
<1> DEFINE N == Len(s)
           Turn(p, l) == CASE s[p].kind = "tip" -> MatchTip(s, l, p)
                           [] s[p].kind = "ovf" -> MatchOvf(l, p)
                           [] OTHER -> l
           J == [p \in 0 .. N |-> {l \in Seq(Schedulings) : MatchLoop(s, S, l, p)}]
           Gets(f) == f = [n \in 0 .. N |->
             IF n = 0 THEN S
             ELSE LET l == f[n - 1]
                  IN CASE s[n].kind = "tip" -> MatchTip(s, l, n)
                       [] s[n].kind = "ovf" -> MatchOvf(l, n)
                       [] OTHER -> l]
           after == CHOOSE f : Gets(f)
<1>1. Applied(s, S) = after[N]
  BY DEF Applied
<1>2. N \in Nat /\ DOMAIN s = 1 .. N
  BY TraceFacts
<1>0. S \in Seq(Schedulings)
  BY DEF Messages
<1>3. MatchLoop(s, S, S, 0)
  <2>1. \A k \in DOMAIN S : 0 < TipOf(S, k) /\ ~(TipOf(S, k) <= 0) /\ ~S[k].earmarked
    <3>1. \A k \in DOMAIN S : S[k].ipt_offset \in Nat /\ ~S[k].earmarked
      BY <1>0, SchedulingParts DEF Messages
    <3> QED
      BY <3>1 DEF TipOf
  <2> QED
    BY <1>0, <2>1 DEF MatchLoop
<1>4. \A p \in 1 .. N : \A l : MatchLoop(s, S, l, p - 1) => MatchLoop(s, S, Turn(p, l), p)
  <2> SUFFICES ASSUME NEW p \in 1 .. N, NEW l, MatchLoop(s, S, l, p - 1) PROVE MatchLoop(s, S, Turn(p, l), p)
    OBVIOUS
  <2>1. p \in DOMAIN s
    BY <1>2
  <2>2. CASE s[p].kind = "tip"
    <3>1. MatchLoop(s, S, MatchTip(s, l, p), p)
      BY <2>1, <2>2, MatchTipIs
    <3> QED
      BY <2>2, <3>1
  <2>3. CASE s[p].kind = "ovf"
    <3>1. MatchLoop(s, S, MatchOvf(l, p), p)
      BY <2>1, <2>3, MatchOvfIs
    <3> QED
      BY <2>3, <3>1
  <2>4. CASE s[p].kind # "tip" /\ s[p].kind # "ovf"
    <3>1. MatchLoop(s, S, l, p)
      BY <2>1, <2>4, MatchSkips
    <3> QED
      BY <2>4, <3>1
  <2> QED
    BY <2>2, <2>3, <2>4
<1>5. \A p \in 0 .. N : \A l : l \in J[p] <=> MatchLoop(s, S, l, p)
  BY DEF MatchLoop
<1>6. J \in [0 .. N -> SUBSET Seq(Schedulings)]
  OBVIOUS
<1> HIDE DEF N, J
<1>7. \A p \in 1 .. N : p \in 0 .. N /\ p - 1 \in 0 .. N /\ p # 0
  BY <1>2
<1>8. \A p \in 1 .. N : \A l \in J[p - 1] : Turn(p, l) \in J[p]
  <2> HIDE DEF Turn
  <2> QED
    BY <1>4, <1>5, <1>7
<1>9. S \in J[0]
  BY <1>2, <1>3, <1>5
<1>10. \E f : Gets(f)
  <2> DEFINE turn == [p \in 1 .. N |-> [l \in Seq(Schedulings) |-> Turn(p, l)]]
  <2>1. \A p \in 1 .. N : \A l \in J[p - 1] : l \in Seq(Schedulings)
    BY <1>6, <1>7
  <2>2. \A p \in 1 .. N : \A l \in J[p - 1] : turn[p][l] = Turn(p, l)
    <3> HIDE DEF Turn
    <3> QED
      BY <2>1
  <2>3. \A p \in 1 .. N : \A l \in J[p - 1] : turn[p][l] \in J[p]
    <3> HIDE DEF Turn, turn
    <3> QED
      BY <1>8, <2>2
  <2> HIDE DEF turn
  <2>4. \E g : LoopValues(g, N, Seq(Schedulings), J, S, turn)
    <3> HIDE DEF Turn
    <3> QED
      BY <1>2, <1>6, <1>9, <2>3, LoopKeeps
  <2>5. PICK g : /\ g \in [0 .. N -> Seq(Schedulings)] /\ g[0] = S
                 /\ \A i \in 1 .. N : g[i] = turn[i][g[i - 1]]
                 /\ \A i \in 0 .. N : g[i] \in J[i]
    BY <2>4 DEF LoopValues
  <2>6. \A p \in 1 .. N : g[p] = Turn(p, g[p - 1])
    <3> HIDE DEF Turn
    <3> QED
      BY <1>7, <2>2, <2>5
  <2>7. \A p \in 0 .. N : p = 0 \/ p \in 1 .. N
    BY <1>2
  <2>8. \A p \in 0 .. N : g[p] = IF p = 0 THEN S ELSE Turn(p, g[p - 1])
    <3> HIDE DEF Turn
    <3> QED
      BY <1>7, <2>5, <2>6, <2>7
  <2>9. g = [p \in 0 .. N |-> g[p]]
    BY <2>5
  <2>10. Gets(g)
    BY <2>8, <2>9, Zenon
  <2> QED
    BY <2>10
<1>11. Gets(after)
  BY <1>10
<1> HIDE DEF after
<1>12. \A p \in 0 .. N : after[p] = IF p = 0 THEN S ELSE Turn(p, after[p - 1])
  BY <1>11, Zenon
<1> HIDE DEF Gets, Turn
<1>13. after[0] \in J[0]
  BY <1>2, <1>9, <1>12
<1>14. \A p \in 1 .. N : after[p - 1] \in J[p - 1] => after[p] \in J[p]
  BY <1>7, <1>8, <1>12
<1>15. \A p \in 0 .. N : after[p] \in J[p]
  BY <1>2, <1>13, <1>14, LoopInduction
<1>16. MatchLoop(s, S, after[N], N)
  BY <1>2, <1>5, <1>15
<1> QED
  BY <1>1, <1>16 DEF N

-----------------------------------------------------------------------------
(* Quantums *)

QuantumRecords == [tsc : Nat \X Nat, tid : Tids, has_pos : BOOLEAN, pos : Nat \X Nat]

\* What starts quantum 0
InitialRecords == [tsc : Nat, tid : Tids, offset : Nat]

\* The schedulings are in the order of their timestamps.
TscsInOrder(l) == \A j, k \in DOMAIN l : j < k => l[j].tsc <= l[k].tsc

\* qs are the quantums i to m.
QuantumsFrom(l, initial, qs, i, m) ==
  Len(qs) = (m + 1) - i /\ \A n \in DOMAIN qs : qs[n] = QuantumAt(l, (i + n) - 1, initial)

\* qs are those of the quantums up to m that end after `first'; i is the first of them.
QuantumLoop(l, initial, fst, qs, m) ==
  /\ qs \in Seq(QuantumRecords)
  /\ QuantumEnd(l, m).tsc > fst => qs # <<>>
  /\ TscsInOrder(l) => \E i \in 0 .. m + 1 :
       /\ QuantumsFrom(l, initial, qs, i, m)
       /\ \A j \in 0 .. m : j < i => QuantumEnd(l, j).tsc <= fst
       /\ i <= m => QuantumEnd(l, i).tsc > fst

\* The place after one that is not the last
LEMMA NextPlace ==
  ASSUME NEW T, NEW s \in Seq(T), NEW i \in 0 .. Len(s), i # Len(s)
  PROVE  i + 1 \in DOMAIN s /\ i \in Nat
<1>1. Len(s) \in Nat /\ DOMAIN s = 1 .. Len(s)
  BY Places
<1> DEFINE n == Len(s)
<1>2. n \in Nat /\ i \in 0 .. n /\ i # n
  BY <1>1
<1> HIDE DEF n
<1>3. i + 1 \in 1 .. n /\ i \in Nat
  BY ONLY <1>2
<1> QED
  BY <1>1, <1>3 DEF n

\* The end and the parts of a quantum
LEMMA QuantumParts ==
  ASSUME NEW l \in Seq(Schedulings), NEW initial \in InitialRecords, NEW i \in 0 .. Len(l),
         NEW q, q = QuantumAt(l, i, initial)
  PROVE  /\ q \in QuantumRecords
         /\ q.tsc[2] = QuantumEnd(l, i).tsc /\ q.has_pos = QuantumEnd(l, i).earmarked
         /\ q.pos[2] = QuantumEnd(l, i).offset
         /\ i # 0 => q.tid = l[i].tid /\ q.pos[1] = l[i].offset /\ q.tsc[1] = l[i].tsc
         /\ QuantumEnd(l, i).tsc \in Nat
<1> DEFINE start == IF i = 0 THEN initial ELSE l[i]
           end == QuantumEnd(l, i)
<1>1. q = [tsc |-> <<start.tsc, end.tsc>>, tid |-> start.tid,
           has_pos |-> end.earmarked, pos |-> <<start.offset, end.offset>>]
  BY DEF QuantumAt
<1>2. Len(l) \in Nat /\ DOMAIN l = 1 .. Len(l)
  BY Places
<1>3. start.tsc \in Nat /\ start.tid \in Tids /\ start.offset \in Nat
  <2>1. CASE i = 0
    BY <2>1 DEF InitialRecords
  <2>2. CASE i # 0
    <3>1. i \in DOMAIN l
      BY <1>2, <2>2
    <3> QED
      BY <2>2, <3>1, SchedulingParts
  <2> QED
    BY <2>1, <2>2
<1>4. end.tsc \in Nat /\ end.earmarked \in BOOLEAN /\ end.offset \in Nat
  <2>1. CASE i = Len(l)
    BY <2>1 DEF QuantumEnd, Forever
  <2>2. CASE i # Len(l)
    <3>1. i + 1 \in DOMAIN l
      BY <2>2, NextPlace
    <3>2. end = l[i + 1]
      BY <2>2 DEF QuantumEnd
    <3> HIDE DEF end
    <3> QED
      BY <3>1, <3>2, SchedulingParts
  <2> QED
    BY <2>1, <2>2
<1>5. i # 0 => start = l[i]
  OBVIOUS
<1> HIDE DEF start, end
<1>6. q \in QuantumRecords
  BY <1>1, <1>3, <1>4 DEF QuantumRecords
<1>7. q.tsc = <<start.tsc, end.tsc>> /\ q.tid = start.tid /\ q.has_pos = end.earmarked
      /\ q.pos = <<start.offset, end.offset>>
  BY ONLY <1>1
<1>8. q.tsc[1] = start.tsc /\ q.tsc[2] = end.tsc /\ q.pos[1] = start.offset /\ q.pos[2] = end.offset
  BY ONLY <1>7
<1> QED
  BY <1>4, <1>5, <1>6, <1>7, <1>8 DEF end

\* One more quantum
QuantumTurn(l, initial, fst, i, earlier) ==
  IF QuantumEnd(l, i).tsc > fst THEN Append(earlier, QuantumAt(l, i, initial)) ELSE earlier

\* The ends are in order, too.
LEMMA EndsInOrder ==
  ASSUME NEW l \in Seq(Schedulings), TscsInOrder(l), NEW i \in 0 .. Len(l), NEW j \in 0 .. Len(l), i <= j
  PROVE  QuantumEnd(l, i).tsc <= QuantumEnd(l, j).tsc
<1>1. Len(l) \in Nat /\ DOMAIN l = 1 .. Len(l)
  BY Places
<1>2. \A k \in DOMAIN l : l[k].tsc \in Nat /\ l[k].tsc <= MaxClock /\ l[k].tsc <= Forever
  <2>1. MaxClock \in Nat /\ MaxClock <= 999
    BY StreamsAssumption DEF Forever
  <2>2. \A k \in DOMAIN l : l[k].tsc \in Nat /\ l[k].tsc <= MaxClock
    BY SchedulingParts
  <2> QED
    BY <2>1, <2>2 DEF Forever
<1>3. CASE j = Len(l)
  <2>1. QuantumEnd(l, j).tsc = Forever
    BY <1>3 DEF QuantumEnd
  <2>2. CASE i = Len(l)
    BY <1>3, <2>1, <2>2 DEF Forever
  <2>3. CASE i # Len(l)
    <3>1. QuantumEnd(l, i) = l[i + 1] /\ i + 1 \in DOMAIN l
      BY <2>3, NextPlace DEF QuantumEnd
    <3> QED
      BY <1>2, <2>1, <3>1
  <2> QED
    BY <2>2, <2>3
<1>4. CASE j # Len(l)
  <2>0. i # Len(l)
    <3> DEFINE n == Len(l)
    <3>1. n \in Nat /\ i \in 0 .. n /\ j \in 0 .. n /\ i <= j /\ j # n
      BY <1>1, <1>4
    <3> HIDE DEF n
    <3>2. i # n
      BY ONLY <3>1
    <3> QED
      BY <3>2 DEF n
  <2>1. i + 1 \in DOMAIN l /\ j + 1 \in DOMAIN l /\ i # Len(l) /\ i \in Nat /\ j \in Nat
    BY <1>4, <2>0, NextPlace
  <2>2. QuantumEnd(l, i) = l[i + 1] /\ QuantumEnd(l, j) = l[j + 1]
    BY <1>4, <2>1 DEF QuantumEnd
  <2>3. i + 1 < j + 1 => l[i + 1].tsc <= l[j + 1].tsc
    BY <2>1 DEF TscsInOrder
  <2>4. l[i + 1].tsc \in Nat
    BY <1>2, <2>1
  <2>5. i + 1 < j + 1 \/ i + 1 = j + 1
    BY <2>1
  <2> QED
    BY <2>2, <2>3, <2>4, <2>5
<1> QED
  BY <1>3, <1>4

\* The quantums up to one more
LEMMA QuantumTurnIs ==
  ASSUME NEW l \in Seq(Schedulings), NEW initial \in InitialRecords, NEW fst \in Nat,
         NEW m \in 1 .. Len(l), NEW qs, QuantumLoop(l, initial, fst, qs, m - 1)
  PROVE  QuantumLoop(l, initial, fst, QuantumTurn(l, initial, fst, m, qs), m)
<1> DEFINE q == QuantumAt(l, m, initial)
           w == QuantumTurn(l, initial, fst, m, qs)
<1>1. Len(l) \in Nat /\ m \in 0 .. Len(l) /\ m - 1 \in 0 .. Len(l) /\ m \in Nat /\ (m - 1) + 1 = m
  BY Places
<1>2. q \in QuantumRecords /\ QuantumEnd(l, m).tsc \in Nat
  BY <1>1, QuantumParts
<1>3. qs \in Seq(QuantumRecords)
  BY DEF QuantumLoop
<1>4. Len(qs) \in Nat /\ DOMAIN qs = 1 .. Len(qs)
  BY <1>3, Places
<1>5. TscsInOrder(l) => QuantumEnd(l, m - 1).tsc <= QuantumEnd(l, m).tsc
                        /\ QuantumEnd(l, m - 1).tsc \in Nat
  <2>1. QuantumEnd(l, m - 1).tsc \in Nat
    BY <1>1, QuantumParts
  <2>2. m - 1 <= m
    BY <1>1
  <2> QED
    BY <1>1, <2>1, <2>2, EndsInOrder
<1>6. CASE QuantumEnd(l, m).tsc > fst
  <2>1. w = Append(qs, q)
    BY <1>6 DEF QuantumTurn
  <2> HIDE DEF w, q
  <2>2. w \in Seq(QuantumRecords) /\ Len(w) = Len(qs) + 1 /\ w[Len(w)] = q
        /\ \A n \in DOMAIN qs : w[n] = qs[n]
    BY <1>2, <1>3, <2>1
  <2>3. w # <<>>
    BY <1>4, <2>2
  <2>4. ASSUME TscsInOrder(l)
        PROVE  \E i \in 0 .. m + 1 :
                 /\ QuantumsFrom(l, initial, w, i, m)
                 /\ \A j \in 0 .. m : j < i => QuantumEnd(l, j).tsc <= fst
                 /\ i <= m => QuantumEnd(l, i).tsc > fst
    <3>1. PICK i \in 0 .. m :
            /\ QuantumsFrom(l, initial, qs, i, m - 1)
            /\ \A j \in 0 .. m - 1 : j < i => QuantumEnd(l, j).tsc <= fst
            /\ i <= m - 1 => QuantumEnd(l, i).tsc > fst
      BY <1>1, <2>4 DEF QuantumLoop
    <3>2. Len(qs) = m - i /\ \A n \in DOMAIN qs : qs[n] = QuantumAt(l, (i + n) - 1, initial)
      BY <1>1, <3>1 DEF QuantumsFrom
    <3>3. QuantumsFrom(l, initial, w, i, m)
      <4>1. Len(w) = (m + 1) - i
        BY <1>1, <2>2, <3>2
      <4>2. \A n \in DOMAIN w : w[n] = QuantumAt(l, (i + n) - 1, initial)
        <5> SUFFICES ASSUME NEW n \in DOMAIN w PROVE w[n] = QuantumAt(l, (i + n) - 1, initial)
          OBVIOUS
        <5>1. n \in 1 .. Len(qs) + 1
          BY <2>2, Places
        <5>2. CASE n = Len(qs) + 1
          <6>1. (i + n) - 1 = m
            BY <1>1, <3>2, <5>2
          <6> QED
            BY <2>2, <5>2, <6>1 DEF q
        <5>3. CASE n # Len(qs) + 1
          <6>1. n \in DOMAIN qs
            BY <1>4, <5>1, <5>3
          <6> QED
            BY <2>2, <3>2, <6>1
        <5> QED
          BY <5>2, <5>3
      <4> QED
        BY <4>1, <4>2 DEF QuantumsFrom
    <3>4. \A j \in 0 .. m : j < i => QuantumEnd(l, j).tsc <= fst
      BY <1>1, <3>1
    <3>5. i <= m => QuantumEnd(l, i).tsc > fst
      <4>1. i = m \/ i <= m - 1
        BY <1>1
      <4> QED
        BY <1>6, <3>1, <4>1
    <3>6. i \in 0 .. m + 1
      BY <1>1
    <3> QED
      BY <3>3, <3>4, <3>5, <3>6
  <2> QED
    BY <2>2, <2>3, <2>4 DEF QuantumLoop, w
<1>7. CASE ~(QuantumEnd(l, m).tsc > fst)
  <2>1. w = qs
    BY <1>7 DEF QuantumTurn
  <2> HIDE DEF w
  <2>2. ASSUME TscsInOrder(l)
        PROVE  \E i \in 0 .. m + 1 :
                 /\ QuantumsFrom(l, initial, w, i, m)
                 /\ \A j \in 0 .. m : j < i => QuantumEnd(l, j).tsc <= fst
                 /\ i <= m => QuantumEnd(l, i).tsc > fst
    <3>1. PICK i \in 0 .. m :
            /\ QuantumsFrom(l, initial, qs, i, m - 1)
            /\ \A j \in 0 .. m - 1 : j < i => QuantumEnd(l, j).tsc <= fst
            /\ i <= m - 1 => QuantumEnd(l, i).tsc > fst
      BY <1>1, <2>2 DEF QuantumLoop
    <3>2. i = m
      <4> SUFFICES ASSUME i # m PROVE FALSE
        OBVIOUS
      <4>1. i <= m - 1 /\ i \in 0 .. Len(l) /\ i <= m
        BY <1>1
      <4>2. QuantumEnd(l, i).tsc > fst /\ QuantumEnd(l, i).tsc <= QuantumEnd(l, m).tsc
        BY <1>1, <2>2, <3>1, <4>1, EndsInOrder
      <4>3. QuantumEnd(l, i).tsc \in Nat
        BY <4>1, QuantumParts
      <4> QED
        BY <1>2, <1>7, <4>2, <4>3
    <3>3. Len(qs) = 0
      BY <1>1, <3>1, <3>2 DEF QuantumsFrom
    <3>4. QuantumsFrom(l, initial, w, m + 1, m)
      BY <1>1, <1>4, <2>1, <3>3 DEF QuantumsFrom
    <3>5. \A j \in 0 .. m : j < m + 1 => QuantumEnd(l, j).tsc <= fst
      <4> SUFFICES ASSUME NEW j \in 0 .. m PROVE QuantumEnd(l, j).tsc <= fst
        OBVIOUS
      <4>1. CASE j = m
        BY <1>2, <1>7, <4>1
      <4>2. CASE j # m
        BY <1>1, <3>1, <3>2, <4>2
      <4> QED
        BY <4>1, <4>2
    <3>6. m + 1 \in 0 .. m + 1 /\ ~(m + 1 <= m)
      BY <1>1
    <3> QED
      BY <3>4, <3>5, <3>6
  <2> QED
    BY <1>3, <1>7, <2>1, <2>2 DEF QuantumLoop, w
<1> QED
  BY <1>6, <1>7

\* The quantums Q of schedulings l that are in order are those from one on, the
\* first that ends after fst.
QuantumsOf(l, fst, Q) ==
  \E initial \in InitialRecords : \E i \in 0 .. Len(l) :
    /\ QuantumsFrom(l, initial, Q, i, Len(l))
    /\ \A j \in 0 .. Len(l) : j < i => QuantumEnd(l, j).tsc <= fst
    /\ QuantumEnd(l, i).tsc > fst

\* iterate_quantums gives at least the last quantum.
LEMMA QuantumsIs ==
  ASSUME NEW l \in Seq(Schedulings), l # <<>>, NEW fst \in Nat, fst < Forever,
         NEW first_tsc \in Nat, NEW tid \in Tids,
         NEW Q, Q = Quantums(l, fst, first_tsc, tid)
  PROVE  /\ Q \in Seq(QuantumRecords) /\ Q # <<>>
         /\ TscsInOrder(l) => QuantumsOf(l, fst, Q)
<1> DEFINE N == Len(l)
           initial == [tsc |-> IF first_tsc <= fst THEN first_tsc ELSE fst,
                       tid |-> tid, offset |-> 0]
           Turn(i, v) == QuantumTurn(l, initial, fst, i, v)
           J == [m \in 0 .. N |-> {v \in Seq(QuantumRecords) : QuantumLoop(l, initial, fst, v, m)}]
           Gets(f) == f = [i \in 0 .. N |->
             LET earlier == IF i = 0 THEN <<>> ELSE f[i - 1]
             IN IF QuantumEnd(l, i).tsc > fst THEN Append(earlier, QuantumAt(l, i, initial))
                ELSE earlier]
           upto == CHOOSE f : Gets(f)
           start == Turn(0, <<>>)
<1>1. Q = upto[N]
  BY DEF Quantums
<1>2. N \in Nat /\ DOMAIN l = 1 .. N
  BY Places
<1>3. initial \in InitialRecords
  BY DEF InitialRecords
<1> HIDE DEF initial
<1>4. QuantumLoop(l, initial, fst, start, 0)
  <2> DEFINE q == QuantumAt(l, 0, initial)
  <2>1. 0 \in 0 .. Len(l)
    BY <1>2
  <2>2. q \in QuantumRecords /\ QuantumEnd(l, 0).tsc \in Nat
    BY <1>3, <2>1, QuantumParts
  <2>3. CASE QuantumEnd(l, 0).tsc > fst
    <3>1. start = <<q>>
      BY <2>3 DEF QuantumTurn
    <3> HIDE DEF start, q
    <3>2. start \in Seq(QuantumRecords) /\ start # <<>> /\ Len(start) = 1 /\ start[1] = q /\ DOMAIN start = {1}
      BY <2>2, <3>1
    <3>3. QuantumsFrom(l, initial, start, 0, 0)
      BY <3>2 DEF QuantumsFrom, q
    <3> QED
      BY <2>3, <3>2, <3>3 DEF QuantumLoop
  <2>4. CASE ~(QuantumEnd(l, 0).tsc > fst)
    <3>1. start = <<>>
      BY <2>4 DEF QuantumTurn
    <3> HIDE DEF start, q
    <3>2. start \in Seq(QuantumRecords) /\ Len(start) = 0 /\ DOMAIN start = {}
      BY <3>1
    <3>3. QuantumsFrom(l, initial, start, 1, 0)
      BY <3>2 DEF QuantumsFrom
    <3>4. \A j \in 0 .. 0 : j < 1 => QuantumEnd(l, j).tsc <= fst
      BY <2>2, <2>4
    <3>5. 1 \in 0 .. 0 + 1 /\ ~(1 <= 0)
      OBVIOUS
    <3> QED
      BY <2>4, <3>2, <3>3, <3>4, <3>5 DEF QuantumLoop
  <2> QED
    BY <2>3, <2>4
<1> HIDE DEF start
<1>5. \A i \in 1 .. N : \A v : QuantumLoop(l, initial, fst, v, i - 1) => QuantumLoop(l, initial, fst, Turn(i, v), i)
  BY <1>3, QuantumTurnIs
<1>6. \A i \in 0 .. N : \A v : v \in J[i] <=> QuantumLoop(l, initial, fst, v, i)
  BY DEF QuantumLoop
<1>7. J \in [0 .. N -> SUBSET Seq(QuantumRecords)]
  OBVIOUS
<1> HIDE DEF N, J
<1>8. \A p \in 1 .. N : p \in 0 .. N /\ p - 1 \in 0 .. N /\ p # 0
  BY <1>2
<1>9. \A p \in 1 .. N : \A v \in J[p - 1] : Turn(p, v) \in J[p]
  <2> HIDE DEF Turn
  <2> QED
    BY <1>5, <1>6, <1>8
<1>10. start \in J[0]
  BY <1>2, <1>4, <1>6
<1>11. \E f : Gets(f)
  <2> DEFINE turn == [p \in 1 .. N |-> [v \in Seq(QuantumRecords) |-> Turn(p, v)]]
  <2>1. \A p \in 1 .. N : \A v \in J[p - 1] : v \in Seq(QuantumRecords)
    BY <1>7, <1>8
  <2>2. \A p \in 1 .. N : \A v \in J[p - 1] : turn[p][v] = Turn(p, v)
    <3> HIDE DEF Turn
    <3> QED
      BY <2>1
  <2>3. \A p \in 1 .. N : \A v \in J[p - 1] : turn[p][v] \in J[p]
    <3> HIDE DEF Turn, turn
    <3> QED
      BY <1>9, <2>2
  <2> HIDE DEF turn
  <2>4. \E g : LoopValues(g, N, Seq(QuantumRecords), J, start, turn)
    <3> HIDE DEF Turn
    <3> QED
      BY <1>2, <1>7, <1>10, <2>3, LoopKeeps
  <2>5. PICK g : /\ g \in [0 .. N -> Seq(QuantumRecords)] /\ g[0] = start
                 /\ \A i \in 1 .. N : g[i] = turn[i][g[i - 1]]
                 /\ \A i \in 0 .. N : g[i] \in J[i]
    BY <2>4 DEF LoopValues
  <2>6. \A p \in 1 .. N : g[p] = Turn(p, g[p - 1])
    <3> HIDE DEF Turn
    <3> QED
      BY <1>8, <2>2, <2>5
  <2>7. \A p \in 0 .. N : p = 0 \/ p \in 1 .. N
    BY <1>2
  <2>8. \A p \in 0 .. N : g[p] = Turn(p, IF p = 0 THEN <<>> ELSE g[p - 1])
    <3> HIDE DEF Turn
    <3> QED
      BY <1>8, <2>5, <2>6, <2>7 DEF start
  <2>9. g = [p \in 0 .. N |-> g[p]]
    BY <2>5
  <2>10. \A p \in 0 .. N : g[p] = LET earlier == IF p = 0 THEN <<>> ELSE g[p - 1]
                                  IN IF QuantumEnd(l, p).tsc > fst THEN Append(earlier, QuantumAt(l, p, initial))
                                     ELSE earlier
    BY <2>8 DEF QuantumTurn
  <2>11. Gets(g)
    BY <2>9, <2>10, Zenon
  <2> QED
    BY <2>11
<1>12. Gets(upto)
  BY <1>11
<1> HIDE DEF upto
<1>13. \A p \in 0 .. N : upto[p] = Turn(p, IF p = 0 THEN <<>> ELSE upto[p - 1])
  BY <1>12, Zenon DEF QuantumTurn
<1> HIDE DEF Gets, Turn
<1>14. upto[0] \in J[0]
  <2>1. upto[0] = Turn(0, <<>>)
    BY <1>2, <1>13
  <2> QED
    BY <1>10, <2>1 DEF start
<1>15. \A p \in 1 .. N : upto[p - 1] \in J[p - 1] => upto[p] \in J[p]
  BY <1>8, <1>9, <1>13
<1>16. \A p \in 0 .. N : upto[p] \in J[p]
  BY <1>2, <1>14, <1>15, LoopInduction
<1>17. QuantumLoop(l, initial, fst, Q, N)
  BY <1>1, <1>2, <1>6, <1>16
<1>18. QuantumEnd(l, N).tsc = Forever
  BY DEF QuantumEnd, N
<1>19. Forever > fst
  BY DEF Forever
<1>20. Q \in Seq(QuantumRecords) /\ Q # <<>>
  BY <1>17, <1>18, <1>19 DEF QuantumLoop
<1>21. ASSUME TscsInOrder(l) PROVE QuantumsOf(l, fst, Q)
  <2>1. PICK i \in 0 .. N + 1 :
          /\ QuantumsFrom(l, initial, Q, i, N)
          /\ \A j \in 0 .. N : j < i => QuantumEnd(l, j).tsc <= fst
          /\ i <= N => QuantumEnd(l, i).tsc > fst
    BY <1>17, <1>21 DEF QuantumLoop
  <2>2. i # N + 1
    <3> SUFFICES ASSUME i = N + 1 PROVE FALSE
      OBVIOUS
    <3>1. N \in 0 .. N /\ N < i
      BY <1>2
    <3>2. Forever <= fst
      BY <1>18, <2>1, <3>1
    <3> QED
      BY <3>2 DEF Forever
  <2>3. i \in 0 .. N /\ i <= N
    BY <1>2, <2>2
  <2> QED
    BY <1>3, <2>1, <2>3 DEF QuantumsOf, N
<1> QED
  BY <1>20, <1>21

-----------------------------------------------------------------------------
(* The timestamps of the schedulings *)

\* What the lemmas on the schedulings of a CPU that lost no TIP are about
Switches(s, S) ==
  IsTrace(s) /\ Messages(s, S) /\ TipsAreSchedulings(s, S) /\ HasTips(s, S)

\* The timestamp of a scheduling is between that of the timing packet before
\* its TIP and the time of the TIP.
LEMMA MatchedIs ==
  ASSUME NEW s, NEW S, Switches(s, S), NEW k \in DOMAIN S
  PROVE  /\ MatchedTsc(s, S, k) \in Nat /\ MatchedTsc(s, S, k) <= MaxClock
         /\ TscAt(s, TipOf(S, k)) \in Nat
         /\ TscAt(s, TipOf(S, k)) <= MatchedTsc(s, S, k)
         /\ MatchedTsc(s, S, k) <= S[k].tsc
<1> DEFINE p == TipOf(S, k)
           n == SlotOf(s, p)
<1>1. IsTrace(s) /\ S \in Seq(Schedulings)
  BY DEF Switches, Messages
<1>2. p \in DOMAIN s /\ s[p].at = S[k].tsc /\ s[p].kind = "tip"
  BY TipIs DEF Switches
<1> HIDE DEF p
<1>3. n \in Timed(s) /\ n <= p /\ TscAt(s, p) = s[n].tsc
  BY <1>1, <1>2, SlotIs
<1> HIDE DEF n
<1>4. n \in DOMAIN s /\ n \in Nat /\ p \in Nat /\ s[n].tsc = s[n].at /\ s[n].tsc \in Nat /\ s[n].tsc <= MaxClock
  BY <1>1, <1>2, <1>3, TraceFacts
<1>5. S[k].tsc \in Nat /\ S[k].tsc <= MaxClock
  BY <1>1, SchedulingParts
<1>6. s[n].at <= s[p].at
  <2>1. CASE n = p
    BY <1>2, <1>4, <1>5, <2>1
  <2>2. CASE n # p
    <3>1. n < p
      BY <1>3, <1>4, <2>2
    <3> QED
      BY <1>1, <1>2, <1>4, <3>1 DEF IsTrace
  <2> QED
    BY <2>1, <2>2
<1>7. MatchedTsc(s, S, k) = s[n].tsc \/ MatchedTsc(s, S, k) = S[k].tsc
  BY <1>3 DEF MatchedTsc, p
<1>8. TscAt(s, p) <= S[k].tsc
  BY <1>2, <1>3, <1>4, <1>5, <1>6
<1> QED
  BY <1>3, <1>4, <1>5, <1>7, <1>8 DEF p

\* A timing packet is after the TIP of a scheduling if its timestamp is after
\* the scheduling's.
LEMMA AfterTip ==
  ASSUME NEW s, NEW S, Switches(s, S), NEW k \in DOMAIN S, NEW m \in Timed(s)
  PROVE  TipOf(S, k) < m <=> MatchedTsc(s, S, k) < s[m].tsc
<1> DEFINE p == TipOf(S, k)
           n == SlotOf(s, p)
           t == MatchedTsc(s, S, k)
<1>1. IsTrace(s) /\ S \in Seq(Schedulings)
  BY DEF Switches, Messages
<1>2. p \in DOMAIN s /\ s[p].at = S[k].tsc
  BY TipIs DEF Switches
<1>3. m \in Nat /\ m \in DOMAIN s /\ s[m].tsc = s[m].at /\ s[m].tsc \in Nat /\ s[m].tsc # 0
  BY <1>1, TraceFacts
<1>4. t \in Nat /\ TscAt(s, p) \in Nat /\ TscAt(s, p) <= t /\ t <= S[k].tsc
  BY MatchedIs
<1> HIDE DEF p, t
<1>5. S[k].tsc \in Nat /\ p \in Nat
  BY <1>1, <1>2, SchedulingParts, TraceFacts
<1>6. p < m => t < s[m].tsc
  <2> SUFFICES ASSUME p < m PROVE t < s[m].tsc
    OBVIOUS
  <2>1. s[p].at < s[m].at
    BY <1>1, <1>2, <1>3 DEF IsTrace
  <2> QED
    BY <1>2, <1>3, <1>4, <1>5, <2>1
<1>7. ASSUME t < s[m].tsc PROVE p < m
  <2> SUFFICES ASSUME m <= p PROVE FALSE
    BY <1>3, <1>5
  <2>1. /\ n \in Timed(s) /\ TscAt(s, p) = s[n].tsc
        /\ \A o \in Timed(s) : o <= p => o <= n
    BY <1>1, <1>2, SlotIs
  <2> HIDE DEF n
  <2>2. m <= n
    BY <2>1
  <2>3. s[m].tsc <= s[n].tsc
    BY <1>1, <2>1, <2>2, TimedOrder
  <2> QED
    BY <1>3, <1>4, <1>7, <2>1, <2>3
<1> QED
  BY <1>6, <1>7 DEF p, t

\* Schedulings are in the order of their timestamps.
LEMMA MatchedOrder ==
  ASSUME NEW s, NEW S, Switches(s, S), NEW j \in DOMAIN S, NEW k \in DOMAIN S, j < k
  PROVE  MatchedTsc(s, S, j) <= MatchedTsc(s, S, k)
<1> DEFINE p == TipOf(S, j)
           r == TipOf(S, k)
           n == SlotOf(s, p)
           o == SlotOf(s, r)
<1>1. IsTrace(s) /\ S \in Seq(Schedulings)
  BY DEF Switches, Messages
<1>2. p \in DOMAIN s /\ r \in DOMAIN s
  BY TipIs DEF Switches
<1>3. p < r
  BY TipsOrder DEF Switches
<1>4. p \in Nat /\ r \in Nat
  BY <1>1, <1>2, TraceFacts
<1>5. /\ MatchedTsc(s, S, j) \in Nat /\ MatchedTsc(s, S, k) \in Nat
      /\ TscAt(s, r) \in Nat /\ TscAt(s, r) <= MatchedTsc(s, S, k)
      /\ MatchedTsc(s, S, j) <= S[j].tsc
  BY MatchedIs
<1>6. S[j].tsc < S[k].tsc /\ S[j].tsc \in Nat /\ S[k].tsc \in Nat
  BY <1>1, SchedulingParts DEF Switches, Messages
<1>7. j # Len(S)
  BY <1>1, SchedulingParts
<1> HIDE DEF p, r
<1>8. /\ n \in Timed(s) /\ n <= p /\ n # 0 /\ TscAt(s, p) = s[n].tsc
      /\ \A m \in Timed(s) : m <= p => m <= n
  BY <1>1, <1>2, SlotIs
<1>9. /\ o \in Timed(s) /\ o <= r /\ o # 0 /\ TscAt(s, r) = s[o].tsc
      /\ \A m \in Timed(s) : m <= r => m <= o
  BY <1>1, <1>2, SlotIs
<1>10. n \in Nat /\ o \in Nat
  BY <1>1, <1>8, <1>9, TraceFacts
<1>11. n <= o
  BY <1>3, <1>4, <1>8, <1>9, <1>10
<1>12. TscAt(s, p) <= TscAt(s, r)
  BY <1>1, <1>8, <1>9, <1>11, TimedOrder
<1>13. CASE GotTsc(s, p)
  <2>1. MatchedTsc(s, S, j) = TscAt(s, p)
    BY <1>7, <1>13 DEF MatchedTsc, p
  <2> QED
    BY <1>5, <1>12, <2>1
<1>14. CASE ~GotTsc(s, p)
  <2>1. NextTsc(s, n) = 0
    BY <1>8, <1>14 DEF GotTsc
  <2>2. ~ \E m \in Timed(s) : n < m
    BY <1>1, <1>8, <2>1, NextTscIs
  <2>3. o = n
    BY <1>9, <1>10, <1>11, <2>2
  <2>4. ~GotTsc(s, r)
    BY <2>1, <2>3 DEF GotTsc
  <2>5. MatchedTsc(s, S, k) = S[k].tsc
    BY <2>4 DEF MatchedTsc, r
  <2> QED
    BY <1>5, <1>6, <2>5
<1> QED
  BY <1>13, <1>14

-----------------------------------------------------------------------------
(* Where blocks start *)

\* A block starts at a timing packet or at the TIP of a scheduling.
StartsWell(s, S, b) ==
  \/ b.pos[1] \in Timed(s) /\ b.tsc[1] = s[b.pos[1]].tsc
  \/ \E k \in DOMAIN S : b.pos[1] = TipOf(S, k) /\ b.tsc[1] = MatchedTsc(s, S, k)

\* Its place and its timestamp
LEMMA StartIs ==
  ASSUME NEW s, NEW S, Switches(s, S), NEW a, StartsWell(s, S, a)
  PROVE  /\ a.pos[1] \in DOMAIN s /\ a.pos[1] \in Nat /\ a.tsc[1] \in Nat
         /\ a.tsc[1] <= MaxClock /\ a.tsc[1] <= s[a.pos[1]].at
<1>1. IsTrace(s) /\ S \in Seq(Schedulings)
  BY DEF Switches, Messages
<1>2. CASE a.pos[1] \in Timed(s) /\ a.tsc[1] = s[a.pos[1]].tsc
  <2> DEFINE p == a.pos[1]
  <2>1. p \in DOMAIN s /\ p \in Nat /\ s[p].tsc = s[p].at /\ s[p].tsc \in Nat /\ s[p].tsc <= MaxClock
    BY <1>1, <1>2, TraceFacts
  <2> QED
    BY <1>2, <2>1
<1>3. ASSUME NEW k \in DOMAIN S, a.pos[1] = TipOf(S, k), a.tsc[1] = MatchedTsc(s, S, k)
      PROVE  /\ a.pos[1] \in DOMAIN s /\ a.pos[1] \in Nat /\ a.tsc[1] \in Nat
             /\ a.tsc[1] <= MaxClock /\ a.tsc[1] <= s[a.pos[1]].at
  <2>1. TipOf(S, k) \in DOMAIN s /\ s[TipOf(S, k)].at = S[k].tsc
    BY TipIs DEF Switches
  <2>2. TipOf(S, k) \in Nat
    BY <1>1, <2>1, TraceFacts
  <2> QED
    BY <1>3, <2>1, <2>2, MatchedIs
<1> QED
  BY <1>2, <1>3 DEF StartsWell

\* Blocks that start later have later timestamps.
LEMMA StartsOrder ==
  ASSUME NEW s, NEW S, Switches(s, S),
         NEW a, StartsWell(s, S, a), NEW b, StartsWell(s, S, b), a.pos[1] < b.pos[1]
  PROVE  a.tsc[1] <= b.tsc[1]
<1>1. IsTrace(s) /\ S \in Seq(Schedulings)
  BY DEF Switches, Messages
<1>2. /\ a.pos[1] \in Nat /\ b.pos[1] \in Nat /\ a.tsc[1] \in Nat /\ b.tsc[1] \in Nat
      /\ a.pos[1] \in DOMAIN s /\ b.pos[1] \in DOMAIN s
  BY StartIs
<1>3. CASE b.pos[1] \in Timed(s) /\ b.tsc[1] = s[b.pos[1]].tsc
  <2> DEFINE p == a.pos[1]
             r == b.pos[1]
  <2>1. s[r].tsc = s[r].at /\ s[r].tsc # 0
    BY <1>1, <1>3, TraceFacts
  <2>2. s[p].at < s[r].at
    BY <1>1, <1>2, <2>1 DEF IsTrace
  <2>3. a.tsc[1] <= s[p].at
    BY StartIs
  <2>4. s[p].at \in Nat
    BY <1>1, <1>2, TraceFacts, PacketParts
  <2> QED
    BY <1>2, <1>3, <2>1, <2>2, <2>3, <2>4
<1>4. ASSUME NEW k \in DOMAIN S, b.pos[1] = TipOf(S, k), b.tsc[1] = MatchedTsc(s, S, k)
      PROVE  a.tsc[1] <= b.tsc[1]
  <2>1. CASE a.pos[1] \in Timed(s) /\ a.tsc[1] = s[a.pos[1]].tsc
    <3> DEFINE p == a.pos[1]
    <3>1. ~(TipOf(S, k) < p)
      BY <1>2, <1>4
    <3>2. ~(MatchedTsc(s, S, k) < s[p].tsc)
      BY <2>1, <3>1, AfterTip
    <3> QED
      BY <1>2, <1>4, <2>1, <3>2
  <2>2. ASSUME NEW j \in DOMAIN S, a.pos[1] = TipOf(S, j), a.tsc[1] = MatchedTsc(s, S, j)
        PROVE  a.tsc[1] <= b.tsc[1]
    <3>1. j \in Nat /\ k \in Nat
      BY <1>1, SchedulingParts
    <3>2. j < k
      <4>1. ~(k < j)
        <5> SUFFICES ASSUME k < j PROVE FALSE
          OBVIOUS
        <5>1. TipOf(S, k) < TipOf(S, j)
          BY TipsOrder DEF Switches
        <5> QED
          BY <1>2, <1>4, <2>2, <5>1
      <4>2. j # k
        BY <1>2, <1>4, <2>2
      <4> QED
        BY <3>1, <4>1, <4>2
    <3>3. MatchedTsc(s, S, j) <= MatchedTsc(s, S, k)
      BY <3>2, MatchedOrder
    <3> QED
      BY <1>4, <2>2, <3>3
  <2> QED
    BY <2>1, <2>2 DEF StartsWell
<1> QED
  BY <1>3, <1>4 DEF StartsWell

-----------------------------------------------------------------------------
(* Cutting a block *)

\* The blocks of CPU c that ipt_file has not gone past
RestBlocks(c) ==
  [type : {"trace"}, pos : Nat \X Nat, tsc : Nat \X Nat, tid : Tids \cup {NoTid}, cpu : {c}, psb : Nat]

\* Block w is what is left of block a, from offset x and time t to offset y and
\* time u.
IsCut(w, a, x, y, t, u) ==
  /\ w.type = a.type /\ w.cpu = a.cpu
  /\ w.pos[1] = x /\ w.pos[2] = y /\ w.tsc[1] = t /\ w.tsc[2] = u

\* The parts of a block
LEMMA BlockParts ==
  ASSUME NEW c, NEW a \in RestBlocks(c)
  PROVE  /\ a.pos[1] \in Nat /\ a.pos[2] \in Nat /\ a.tsc[1] \in Nat /\ a.tsc[2] \in Nat
         /\ a.type = "trace" /\ a.cpu = c /\ a.tid \in Tids \cup {NoTid} /\ a.psb \in Nat
<1>1. a.pos \in Nat \X Nat /\ a.tsc \in Nat \X Nat
      /\ a.type = "trace" /\ a.cpu = c /\ a.tid \in Tids \cup {NoTid} /\ a.psb \in Nat
  BY DEF RestBlocks
<1> QED
  BY <1>1

\* A block that keeps its task
LEMMA MadeRest ==
  ASSUME NEW c, NEW a \in RestBlocks(c), NEW x \in Nat, NEW y \in Nat, NEW t \in Nat, NEW u \in Nat,
         NEW psb \in Nat, NEW w, w = [a EXCEPT !.pos = <<x, y>>, !.tsc = <<t, u>>, !.psb = psb]
  PROVE  w \in RestBlocks(c) /\ IsCut(w, a, x, y, t, u) /\ w.tid = a.tid
<1>1. w = [type |-> a.type, pos |-> <<x, y>>, tsc |-> <<t, u>>, tid |-> a.tid, cpu |-> a.cpu, psb |-> psb]
  BY DEF RestBlocks
<1>2. /\ w.type = a.type /\ w.pos = <<x, y>> /\ w.tsc = <<t, u>> /\ w.tid = a.tid /\ w.cpu = a.cpu
  BY ONLY <1>1
<1>3. IsCut(w, a, x, y, t, u)
  BY <1>2 DEF IsCut
<1>4. a.type = "trace" /\ a.cpu = c /\ a.tid \in Tids \cup {NoTid}
  BY BlockParts
<1>5. w \in RestBlocks(c)
  BY <1>1, <1>4 DEF RestBlocks
<1> QED
  BY <1>2, <1>3, <1>5

\* A block that gets another end
LEMMA MadeHead ==
  ASSUME NEW c, NEW a \in RestBlocks(c), NEW x \in Nat, NEW y \in Nat, NEW t \in Nat, NEW u \in Nat,
         NEW w, w = [a EXCEPT !.pos = <<x, y>>, !.tsc = <<t, u>>]
  PROVE  w \in RestBlocks(c) /\ IsCut(w, a, x, y, t, u)
<1>1. w = [type |-> a.type, pos |-> <<x, y>>, tsc |-> <<t, u>>, tid |-> a.tid, cpu |-> a.cpu, psb |-> a.psb]
  BY DEF RestBlocks
<1>2. /\ w.type = a.type /\ w.pos = <<x, y>> /\ w.tsc = <<t, u>> /\ w.tid = a.tid /\ w.cpu = a.cpu
  BY ONLY <1>1
<1>3. IsCut(w, a, x, y, t, u)
  BY <1>2 DEF IsCut
<1>4. a.type = "trace" /\ a.cpu = c /\ a.tid \in Tids \cup {NoTid} /\ a.psb \in Nat
  BY BlockParts
<1>5. w \in RestBlocks(c)
  BY <1>1, <1>4 DEF RestBlocks
<1> QED
  BY <1>3, <1>5

\* A block that a quantum claims, which is then one of a task
LEMMA ClaimedIs ==
  ASSUME NEW c \in CPU, NEW a \in RestBlocks(c), NEW s, IsTrace(s), NEW tid \in Tids,
         NEW w, w = Claimed(s, a, tid)
  PROVE  /\ w \in RestBlocks(c) /\ w \in TaskBlock /\ w.tid = tid
         /\ IsCut(w, a, a.pos[1], a.pos[2], a.tsc[1], a.tsc[2])
<1> DEFINE psb == LastPsb(s, a.pos[1])
<1>1. psb \in Nat
  BY BlockParts, LastPsbIs
<1>2. w = [a EXCEPT !.tid = tid, !.psb = psb]
  BY DEF Claimed
<1> HIDE DEF psb
<1>3. w = [type |-> a.type, pos |-> a.pos, tsc |-> a.tsc, tid |-> tid, cpu |-> a.cpu, psb |-> psb]
  BY <1>2 DEF RestBlocks
<1>4. /\ w.type = a.type /\ w.pos = a.pos /\ w.tsc = a.tsc /\ w.tid = tid /\ w.cpu = a.cpu
  BY ONLY <1>3
<1>5. a.type = "trace" /\ a.cpu = c /\ a.pos \in Nat \X Nat /\ a.tsc \in Nat \X Nat
  BY BlockParts DEF RestBlocks
<1>6. w \in RestBlocks(c) /\ w \in TaskBlock
  BY <1>1, <1>3, <1>5 DEF RestBlocks, TaskBlock
<1> QED
  BY <1>4, <1>6 DEF IsCut

\* The first block, cut at the start of the first quantum
LEMMA CutHeadIs ==
  ASSUME NEW c, NEW a \in RestBlocks(c), NEW s, IsTrace(s), NEW q \in Schedulings
  PROVE  /\ CutHead(s, a, q) \in RestBlocks(c)
         /\ IsCut(CutHead(s, a, q), a, q.offset, a.pos[2], q.tsc, a.tsc[2])
<1> DEFINE psb == LastPsb(s, q.offset)
           tid == q.tid
           x == q.offset
           y == a.pos[2]
           t == q.tsc
           u == a.tsc[2]
           w == CutHead(s, a, q)
<1>1. x \in Nat /\ tid \in Tids \cup {NoTid} /\ t \in Nat
  <2>1. q.tsc \in 0 .. MaxClock /\ q.offset \in Nat /\ q.tid \in Tids
    BY DEF Schedulings
  <2>2. MaxClock \in Nat
    BY StreamsAssumption
  <2> QED
    BY <2>1, <2>2
<1>2. psb \in Nat
  BY <1>1, LastPsbIs
<1>3. y \in Nat /\ u \in Nat
  BY BlockParts
<1>4. w = [a EXCEPT !.pos = <<x, y>>, !.tsc = <<t, u>>, !.tid = tid, !.psb = psb]
  BY DEF CutHead
<1>5. a.type = "trace" /\ a.cpu = c
  BY BlockParts
<1> HIDE DEF psb, tid, x, y, t, u, w
<1>6. w = [type |-> a.type, pos |-> <<x, y>>, tsc |-> <<t, u>>, tid |-> tid, cpu |-> a.cpu, psb |-> psb]
  BY <1>4 DEF RestBlocks
<1>7. w \in RestBlocks(c)
  BY <1>1, <1>2, <1>3, <1>5, <1>6 DEF RestBlocks
<1>8. /\ w.type = a.type /\ w.cpu = a.cpu
      /\ w.pos[1] = x /\ w.pos[2] = y /\ w.tsc[1] = t /\ w.tsc[2] = u
  BY ONLY <1>6
<1> QED
  BY <1>7, <1>8 DEF IsCut, w, x, y, t, u

\* The two parts of a block that is cut at an offset
LEMMA HeadAndTail ==
  ASSUME NEW c \in CPU, NEW a \in RestBlocks(c), NEW s, IsTrace(s), NEW q \in QuantumRecords
  PROVE  /\ HeadOf(s, a, q) \in RestBlocks(c) /\ HeadOf(s, a, q) \in TaskBlock
         /\ IsCut(HeadOf(s, a, q), a, a.pos[1], q.pos[2], a.tsc[1], q.tsc[2])
         /\ HeadOf(s, a, q).tid = q.tid
         /\ TailOf(s, a, q) \in RestBlocks(c)
         /\ IsCut(TailOf(s, a, q), a, q.pos[2], a.pos[2], q.tsc[2], a.tsc[2])
<1> DEFINE x == a.pos[1]
           y == a.pos[2]
           t == a.tsc[1]
           u == a.tsc[2]
           z == q.pos[2]
           v == q.tsc[2]
           psb == LastPsb(s, z)
           h == [a EXCEPT !.pos = <<x, z>>, !.tsc = <<t, v>>]
           w == TailOf(s, a, q)
           tid == q.tid
<1>1. x \in Nat /\ y \in Nat /\ t \in Nat /\ u \in Nat
  BY BlockParts
<1>2. z \in Nat /\ v \in Nat /\ tid \in Tids
  <2>1. q.pos \in Nat \X Nat /\ q.tsc \in Nat \X Nat /\ q.tid \in Tids
    BY DEF QuantumRecords
  <2> QED
    BY <2>1
<1>3. psb \in Nat
  BY <1>2, LastPsbIs
<1>4. w = [a EXCEPT !.pos = <<z, y>>, !.tsc = <<v, u>>, !.psb = psb]
  BY DEF TailOf
<1>5. HeadOf(s, a, q) = Claimed(s, h, tid)
  BY DEF HeadOf
<1>6. h \in RestBlocks(c) /\ IsCut(h, a, x, z, t, v)
  <2> HIDE DEF x, z, t, v
  <2> QED
    BY <1>1, <1>2, MadeHead
<1> HIDE DEF h
<1>7. /\ HeadOf(s, a, q) \in RestBlocks(c) /\ HeadOf(s, a, q) \in TaskBlock /\ HeadOf(s, a, q).tid = tid
      /\ IsCut(HeadOf(s, a, q), h, h.pos[1], h.pos[2], h.tsc[1], h.tsc[2])
  <2> HIDE DEF tid
  <2> QED
    BY <1>2, <1>5, <1>6, ClaimedIs
<1>8. IsCut(HeadOf(s, a, q), a, x, z, t, v)
  BY <1>6, <1>7 DEF IsCut
<1>9. w \in RestBlocks(c) /\ IsCut(w, a, z, y, v, u)
  <2> HIDE DEF w, z, y, v, u, psb
  <2> QED
    BY <1>1, <1>2, <1>3, <1>4, MadeRest
<1> QED
  BY <1>7, <1>8, <1>9

\* The search of the end of a quantum stays in the trace.
LEMMA LookedIs ==
  ASSUME NEW c, NEW a \in RestBlocks(c), NEW s, IsTrace(s), NEW q \in QuantumRecords
  PROVE  /\ Looked(s, a, q) \subseteq Timed(s)
         /\ Block1End(s, a, q) \in Looked(s, a, q) \cup {a.pos[1]}
         /\ Block2Begin(s, a, q) \in Looked(s, a, q) \cup {a.pos[1]}
         /\ Looked(s, a, q) # {} => Max(Looked(s, a, q)) \in Looked(s, a, q)
<1> DEFINE L == Looked(s, a, q)
           x == a.pos[1]
           E == {n \in L : s[n].tsc <= q.tsc[2]}
           B == {n \in L : s[n].tsc >= q.tsc[2]}
           after == {n \in Timed(s) : n > x}
           stop == {n \in after : n >= a.pos[2] \/ s[n].tsc >= q.tsc[2]}
<1>1. x \in Nat
  BY BlockParts
<1>2. L = IF stop = {} THEN after ELSE {n \in after : n <= Min(stop)}
  BY DEF Looked
<1>3. L \subseteq Timed(s)
  BY <1>2
<1>4. L \subseteq 1 .. Len(s) /\ Len(s) \in Nat
  BY <1>3, TraceFacts
<1> HIDE DEF L
<1>5. L \subseteq Nat /\ \A y \in L : y <= Len(s)
  BY <1>4
<1>6. {x} \cup E \subseteq Nat /\ {x} \cup E # {} /\ {x} \cup B \subseteq Nat /\ {x} \cup B # {}
  BY <1>1, <1>5
<1> DEFINE b == Len(s) + x
<1>7. b \in Nat /\ x <= b /\ \A y \in L : y <= b
  <2>1. \A y \in L : y \in Nat /\ y <= Len(s)
    BY <1>5
  <2> QED
    BY <1>1, <1>4, <2>1
<1> HIDE DEF b
<1>8. (\A y \in {x} \cup E : y <= b) /\ (\A y \in {x} \cup B : y <= b)
  BY <1>7
<1>9. Block1End(s, a, q) = Max({x} \cup E) /\ Block2Begin(s, a, q) = Max({x} \cup B)
  BY DEF Block1End, Block2Begin, L
<1>10. E \subseteq L /\ B \subseteq L
  OBVIOUS
<1> HIDE DEF E, B
<1>11. Max({x} \cup E) \in {x} \cup E /\ Max({x} \cup B) \in {x} \cup B
  BY <1>6, <1>7, <1>8, GreatestIs
<1>12. L # {} => Max(L) \in L
  BY <1>5, <1>7, GreatestIs
<1> QED
  BY <1>3, <1>9, <1>10, <1>11, <1>12 DEF L

\* The two parts of a block that is cut at a time, the first one of them as
\* it is when a quantum claims it alone
LEMMA FirstAndSecond ==
  ASSUME NEW c \in CPU, NEW a \in RestBlocks(c), NEW s, IsTrace(s), NEW q \in QuantumRecords
  PROVE  /\ IsFirst(s, a, q) =>
              /\ FirstPart(s, a, q) \in RestBlocks(c) /\ FirstPart(s, a, q) \in TaskBlock
              /\ [FirstPart(s, a, q) EXCEPT !.tsc = a.tsc] \in RestBlocks(c)
         /\ Looked(s, a, q) # {} => SecondPart(s, a, q) \in RestBlocks(c)
<1> DEFINE x == a.pos[1]
           y == a.pos[2]
           t == a.tsc[1]
           u == a.tsc[2]
           end == Block1End(s, a, q)
           begin == Block2Begin(s, a, q)
           L == Looked(s, a, q)
           tid == q.tid
<1>1. x \in Nat /\ y \in Nat /\ t \in Nat /\ u \in Nat
  BY BlockParts
<1>2. /\ L \subseteq Timed(s) /\ end \in L \cup {x} /\ begin \in L \cup {x}
      /\ L # {} => Max(L) \in L
  BY LookedIs
<1>3. \A n \in Timed(s) : n \in Nat /\ s[n].tsc \in Nat
  BY TraceFacts
<1>4. tid \in Tids
  BY DEF QuantumRecords
<1>5. ASSUME IsFirst(s, a, q)
      PROVE  /\ FirstPart(s, a, q) \in RestBlocks(c) /\ FirstPart(s, a, q) \in TaskBlock
             /\ [FirstPart(s, a, q) EXCEPT !.tsc = a.tsc] \in RestBlocks(c)
  <2> DEFINE v == s[end].tsc
             h == [a EXCEPT !.pos = <<x, end>>, !.tsc = <<t, v>>]
             f == FirstPart(s, a, q)
             g == [f EXCEPT !.tsc = a.tsc]
  <2>1. end > x
    BY <1>5 DEF IsFirst
  <2>2. end \in L
    <3>1. end # x
      <4> HIDE DEF end, x
      <4> QED
        BY <1>1, <2>1
    <3> QED
      BY <1>2, <3>1
  <2>3. end \in Nat /\ v \in Nat
    BY <1>2, <1>3, <2>2
  <2>4. f = Claimed(s, h, tid)
    BY DEF FirstPart
  <2>5. h \in RestBlocks(c)
    <3> HIDE DEF x, end, t, v
    <3> QED
      BY <1>1, <2>3, MadeHead
  <2> HIDE DEF h, f
  <2>6. f \in RestBlocks(c) /\ f \in TaskBlock
    <3> HIDE DEF tid
    <3> QED
      BY <1>4, <2>4, <2>5, ClaimedIs
  <2>7. a.tsc \in Nat \X Nat
    BY DEF RestBlocks
  <2>8. g \in RestBlocks(c)
    <3>1. \A w : w = [f EXCEPT !.tsc = a.tsc] => w \in RestBlocks(c)
      <4> SUFFICES ASSUME NEW w, w = [f EXCEPT !.tsc = a.tsc] PROVE w \in RestBlocks(c)
        OBVIOUS
      <4>1. w = [type |-> f.type, pos |-> f.pos, tsc |-> a.tsc, tid |-> f.tid, cpu |-> f.cpu, psb |-> f.psb]
        BY <2>6 DEF RestBlocks
      <4>2. f.type = "trace" /\ f.cpu = c /\ f.tid \in Tids \cup {NoTid} /\ f.psb \in Nat /\ f.pos \in Nat \X Nat
        BY <2>6 DEF RestBlocks
      <4> QED
        BY <2>7, <4>1, <4>2 DEF RestBlocks
    <3> QED
      BY <3>1
  <2> QED
    BY <2>6, <2>8 DEF f
<1>6. ASSUME L # {} PROVE SecondPart(s, a, q) \in RestBlocks(c)
  <2> DEFINE v == s[Max(L)].tsc
             psb == LastPsb(s, begin)
             w == SecondPart(s, a, q)
  <2>1. begin \in Nat
    BY <1>1, <1>2, <1>3
  <2>2. v \in Nat
    BY <1>2, <1>3, <1>6
  <2>3. psb \in Nat
    BY <2>1, LastPsbIs
  <2>4. w = [a EXCEPT !.pos = <<begin, y>>, !.tsc = <<v, u>>, !.psb = psb]
    BY DEF SecondPart
  <2>5. w \in RestBlocks(c)
    <3> HIDE DEF w, begin, y, v, u, psb
    <3> QED
      BY <1>1, <2>1, <2>2, <2>3, <2>4, MadeRest
  <2> QED
    BY <2>5
<1> QED
  BY <1>5, <1>6

-----------------------------------------------------------------------------
(* The first blocks *)

\* Subsequences
LEMMA Rest ==
  ASSUME NEW T, NEW b \in Seq(T), NEW n \in 1 .. Len(b) + 1,
         NEW r, r = SubSeq(b, n, Len(b))
  PROVE  /\ r \in Seq(T) /\ Len(r) = (Len(b) + 1) - n
         /\ \A i \in DOMAIN r : r[i] = b[(i + n) - 1] /\ (i + n) - 1 \in DOMAIN b
<1>1. Len(b) \in Nat /\ DOMAIN b = 1 .. Len(b) /\ n \in Nat
  BY Places
<1>2. r \in Seq(T) /\ Len(r) = (Len(b) + 1) - n
  BY <1>1
<1>3. \A i \in 1 .. Len(r) : r[i] = b[(i + n) - 1] /\ (i + n) - 1 \in DOMAIN b
  BY <1>1, <1>2
<1> QED
  BY <1>2, <1>3, Places

\* R are the blocks b from block n on, which is the first that is not over at
\* tsc t and is cut there if it has begun.
FromBlock(s, b, q, R, n) ==
  /\ n \in 1 .. Len(b) + 1 /\ Len(R) = (Len(b) + 1) - n
  /\ \A i \in DOMAIN b : i < n => Over(b[i], q.tsc)
  /\ n <= Len(b) => /\ ~Over(b[n], q.tsc)
                    /\ R[1] = IF q.tsc > b[n].tsc[1] THEN CutHead(s, b[n], q) ELSE b[n]
  /\ \A i \in DOMAIN R : (i + n) - 1 \in DOMAIN b /\ (i # 1 => R[i] = b[(i + n) - 1])

\* From a quantum on: the blocks that are over are left out, and what is
\* before the quantum is cut from the first of the others.
LEMMA FromQuantumIs ==
  ASSUME NEW c, NEW b \in Seq(RestBlocks(c)), NEW s, IsTrace(s), NEW q \in Schedulings,
         NEW R, R = FromQuantum(s, b, q)
  PROVE  R \in Seq(RestBlocks(c)) /\ \E n : FromBlock(s, b, q, R, n)
<1> DEFINE early == {i \in DOMAIN b : ~Over(b[i], q.tsc)}
           A == early \cup {Len(b) + 1}
           n == Min(A)
           r == SubSeq(b, n, Len(b))
           head == CutHead(s, Head(r), q)
<1>1. Len(b) \in Nat /\ DOMAIN b = 1 .. Len(b)
  BY Places
<1>2. A \subseteq Nat /\ A # {} /\ \A i \in A : i \in 1 .. Len(b) + 1
  BY <1>1
<1>3. R = IF r # <<>> /\ q.tsc > Head(r).tsc[1] THEN [r EXCEPT ![1] = head] ELSE r
  BY DEF FromQuantum
<1> HIDE DEF A
<1>4. n \in A /\ \A i \in A : n <= i
  BY <1>2, LeastIs
<1>5. n \in 1 .. Len(b) + 1
  BY <1>2, <1>4
<1> HIDE DEF n
<1>6. /\ r \in Seq(RestBlocks(c)) /\ Len(r) = (Len(b) + 1) - n
      /\ \A i \in DOMAIN r : r[i] = b[(i + n) - 1] /\ (i + n) - 1 \in DOMAIN b
  BY <1>5, Rest
<1> HIDE DEF r
<1>7. Len(r) \in Nat /\ DOMAIN r = 1 .. Len(r)
  BY <1>6, Places
<1>8. \A i \in DOMAIN b : i < n => Over(b[i], q.tsc)
  <2> SUFFICES ASSUME NEW i \in DOMAIN b, i < n, ~Over(b[i], q.tsc) PROVE FALSE
    OBVIOUS
  <2>1. n <= i
    BY <1>4 DEF A
  <2> QED
    BY <1>1, <1>5, <2>1
<1>9. n <= Len(b) => ~Over(b[n], q.tsc)
  <2> SUFFICES ASSUME n <= Len(b) PROVE ~Over(b[n], q.tsc)
    OBVIOUS
  <2>1. n # Len(b) + 1
    BY <1>1, <1>5
  <2> QED
    BY <1>4, <2>1 DEF A
<1>10. n <= Len(b) => r # <<>> /\ 1 \in DOMAIN r /\ r[1] = b[n] /\ Head(r) = b[n] /\ b[n] \in RestBlocks(c)
  <2> SUFFICES ASSUME n <= Len(b)
               PROVE r # <<>> /\ 1 \in DOMAIN r /\ r[1] = b[n] /\ Head(r) = b[n] /\ b[n] \in RestBlocks(c)
    OBVIOUS
  <2>1. Len(r) # 0 /\ 1 \in DOMAIN r
    BY <1>1, <1>5, <1>6, <1>7
  <2>2. r[1] = b[(1 + n) - 1] /\ (1 + n) - 1 = n
    BY <1>5, <1>6, <2>1
  <2>3. r # <<>> /\ Head(r) = r[1]
    BY <1>6, <2>1
  <2>4. n \in DOMAIN b
    BY <1>1, <1>5
  <2> QED
    BY <2>1, <2>2, <2>3, <2>4, Places
<1>11. ~(n <= Len(b)) => r = <<>>
  <2>1. ~(n <= Len(b)) => Len(r) = 0
    BY <1>1, <1>5, <1>6
  <2> QED
    BY <1>6, <2>1
<1>12. CASE n <= Len(b) /\ q.tsc > b[n].tsc[1]
  <2>1. head = CutHead(s, b[n], q) /\ head \in RestBlocks(c)
    BY <1>10, <1>12, CutHeadIs
  <2>2. R = [r EXCEPT ![1] = head]
    BY <1>3, <1>10, <1>12
  <2> HIDE DEF head
  <2>3. R \in Seq(RestBlocks(c)) /\ Len(R) = Len(r) /\ R[1] = head
        /\ \A i \in DOMAIN r : i # 1 => R[i] = r[i]
    BY <1>6, <1>10, <1>12, <2>1, <2>2
  <2>4. DOMAIN R = DOMAIN r
    BY <1>7, <2>3, Places
  <2>5. R[1] = IF q.tsc > b[n].tsc[1] THEN CutHead(s, b[n], q) ELSE b[n]
    BY <1>12, <2>1, <2>3
  <2>6. FromBlock(s, b, q, R, n)
    BY <1>5, <1>6, <1>8, <1>9, <2>3, <2>4, <2>5 DEF FromBlock
  <2> QED
    BY <2>3, <2>6
<1>13. CASE ~(n <= Len(b) /\ q.tsc > b[n].tsc[1])
  <2>1. R = r
    BY <1>3, <1>10, <1>11, <1>13
  <2>2. n <= Len(b) => R[1] = IF q.tsc > b[n].tsc[1] THEN CutHead(s, b[n], q) ELSE b[n]
    BY <1>10, <1>13, <2>1
  <2>3. FromBlock(s, b, q, R, n)
    BY <1>5, <1>6, <1>8, <1>9, <2>1, <2>2 DEF FromBlock
  <2> QED
    BY <1>6, <2>1, <2>3
<1> QED
  BY <1>12, <1>13

\* Block b of trace s before the first quantum
IsWhole(s, b) ==
  /\ b.pos[1] \in Timed(s) /\ b.pos[1] < b.pos[2] /\ b.pos[2] \in DOMAIN s
  /\ b.tsc[1] = s[b.pos[1]].tsc /\ FirstFrom(s, b.pos[2], b.tsc[2])

AreWhole(s, B) ==
  /\ \A i \in DOMAIN B : IsWhole(s, B[i])
  /\ Apart(B)
  /\ \A p \in DOMAIN s : Dated(s, p) => InSome(B, p)

\* ipt_file's blocks are those that iterate_tsc_blocks finds.
LEMMA TscBlocksAre ==
  ASSUME NEW s, IsTrace(s), NEW c, NEW B, B = TscBlocks(s, c, NoTid)
  PROVE  B \in Seq(RestBlocks(c)) /\ AreWhole(s, B)
<1> DEFINE t == IteratedBlocks(s)
<1>1. IsPieces(s, t)
  BY IteratedIs
<1>2. B = [i \in DOMAIN t |-> Block("trace", t[i].pos, t[i].tsc, NoTid, c, 0)]
  BY DEF TscBlocks
<1> HIDE DEF t
<1>3. /\ t \in Seq(Pieces) /\ Len(t) \in Nat /\ DOMAIN t = 1 .. Len(t)
      /\ \A i \in DOMAIN t : t[i] \in Pieces /\ IsPiece(s, t[i])
      /\ Apart(t) /\ \A q \in DOMAIN s : Dated(s, q) => InSome(t, q)
  BY <1>1, Places DEF IsPieces
<1>4. \A i \in DOMAIN t : /\ B[i] = Block("trace", t[i].pos, t[i].tsc, NoTid, c, 0)
                          /\ B[i] \in RestBlocks(c) /\ B[i].pos = t[i].pos /\ B[i].tsc = t[i].tsc
  <2> TAKE i \in DOMAIN t
  <2>1. B[i] = Block("trace", t[i].pos, t[i].tsc, NoTid, c, 0)
    BY <1>2
  <2>2. t[i].pos \in Nat \X Nat /\ t[i].tsc \in Nat \X Nat
    BY <1>3 DEF Pieces
  <2>3. B[i].pos = t[i].pos /\ B[i].tsc = t[i].tsc
    BY ONLY <2>1 DEF Block
  <2>4. B[i] \in RestBlocks(c)
    BY <2>1, <2>2 DEF Block, RestBlocks
  <2> QED
    BY <2>1, <2>3, <2>4
<1>5. DOMAIN B = DOMAIN t
  BY <1>2
<1>6. B \in Seq(RestBlocks(c))
  <2>1. B \in [1 .. Len(t) -> RestBlocks(c)]
    BY <1>2, <1>3, <1>4
  <2> QED
    BY <1>3, <2>1
<1>7. \A i \in DOMAIN B : IsWhole(s, B[i])
  BY <1>3, <1>4, <1>5 DEF IsPiece, IsWhole
<1>8. Apart(B)
  BY <1>3, <1>4, <1>5 DEF Apart
<1>9. \A p \in DOMAIN s : Dated(s, p) => InSome(B, p)
  BY <1>3, <1>4, <1>5 DEF InSome, In
<1> QED
  BY <1>6, <1>7, <1>8, <1>9 DEF AreWhole

-----------------------------------------------------------------------------
(* What ipt_file does with the blocks of a trace *)

\* Place p is after a timing packet after the first switch.
SettledAt(s, S, p) == \E m \in Timed(s) : TipOf(S, 1) < m /\ m <= p

\* Block b of trace s is not begun before quantum i.
InRest(s, S, i, b) ==
  /\ StartsWell(s, S, b) /\ b.pos[2] \in DOMAIN s /\ FirstFrom(s, b.pos[2], b.tsc[2])
  /\ MatchedTsc(s, S, i) <= b.tsc[1]
  /\ \A p \in DOMAIN s : In(b, p) /\ SettledAt(s, S, p) => TipOf(S, i) <= p

Ascending(R) == \A i, j \in DOMAIN R : i < j => R[i].pos[1] < R[j].pos[1]

\* R are the blocks from quantum i on.
RestFrom(s, S, i, R) ==
  (\A n \in DOMAIN R : InRest(s, S, i, R[n])) /\ Apart(R) /\ Ascending(R)

\* Quantum i of the schedulings S, and those from quantum i on
IsQuantum(s, S, i, q) ==
  /\ q.tid = S[i].tid /\ q.pos[1] = TipOf(S, i)
  /\ i < Len(S) => /\ q.has_pos /\ q.pos[2] = TipOf(S, i + 1)
                   /\ q.tsc[2] = MatchedTsc(s, S, i + 1)
  /\ i = Len(S) => ~q.has_pos /\ q.tsc[2] = Forever
Upcoming(s, S, i, Q) ==
  /\ i \in DOMAIN S /\ Len(Q) = (Len(S) + 1) - i
  /\ \A n \in DOMAIN Q : IsQuantum(s, S, (i + n) - 1, Q[n])

\* If no TIP was lost, the quantums of the schedulings are those of the messages.
LEMMA AppliedAre ==
  ASSUME NEW s, NEW S, Switches(s, S), NEW l, l = Applied(s, S)
  PROVE  /\ l \in Seq(Schedulings) /\ Len(l) = Len(S) /\ DOMAIN l = DOMAIN S
         /\ \A k \in DOMAIN S : /\ l[k].earmarked /\ l[k].offset = TipOf(S, k)
                                /\ l[k].tsc = MatchedTsc(s, S, k) /\ l[k].tid = S[k].tid
         /\ TscsInOrder(l)
<1>1. MatchLoop(s, S, l, Len(s))
  BY AppliedIs DEF Switches
<1>2. /\ l \in Seq(Schedulings) /\ Len(l) = Len(S)
      /\ \A k \in DOMAIN S : l[k].tid = S[k].tid
      /\ \A k \in DOMAIN S : TipOf(S, k) <= Len(s) => IsMatched(s, S, l, k)
  BY <1>1 DEF MatchLoop, Switches
<1>3. S \in Seq(Schedulings)
  BY DEF Switches, Messages
<1>4. DOMAIN l = DOMAIN S
  BY <1>2, <1>3
<1>5. \A k \in DOMAIN S : TipOf(S, k) <= Len(s)
  <2> TAKE k \in DOMAIN S
  <2>1. TipOf(S, k) \in DOMAIN s
    BY TipIs DEF Switches
  <2> QED
    BY <2>1, TraceFacts DEF Switches
<1>6. \A k \in DOMAIN S : l[k].earmarked /\ l[k].offset = TipOf(S, k) /\ l[k].tsc = MatchedTsc(s, S, k)
  BY <1>2, <1>5 DEF IsMatched
<1>7. TscsInOrder(l)
  BY <1>4, <1>6, MatchedOrder DEF TscsInOrder
<1> QED
  BY <1>2, <1>4, <1>6, <1>7

\* So the first of them is that of the first message.
LEMMA FirstQuantumIs ==
  ASSUME NEW s, NEW S, Switches(s, S), NEW l, l = Applied(s, S), Earmarked(l) # {}
  PROVE  /\ 1 \in DOMAIN S /\ FirstQuantum(l) = l[1] /\ l[1] \in Schedulings
         /\ l[1].tsc = MatchedTsc(s, S, 1) /\ l[1].offset = TipOf(S, 1)
<1>1. /\ l \in Seq(Schedulings) /\ Len(l) = Len(S) /\ DOMAIN l = DOMAIN S
      /\ \A k \in DOMAIN S : /\ l[k].earmarked /\ l[k].offset = TipOf(S, k)
                             /\ l[k].tsc = MatchedTsc(s, S, k)
  BY AppliedAre
<1>2. Earmarked(l) = DOMAIN l /\ DOMAIN l = 1 .. Len(l) /\ Len(l) \in Nat
  BY <1>1, Places DEF Earmarked
<1>3. 1 \in DOMAIN l
  BY <1>2
<1>4. Min(DOMAIN l) = 1
  <2>1. DOMAIN l \subseteq Nat /\ DOMAIN l # {}
    BY <1>2
  <2>2. Min(DOMAIN l) \in DOMAIN l /\ \A y \in DOMAIN l : Min(DOMAIN l) <= y
    BY <2>1, LeastIs
  <2> HIDE DEF FirstQuantum
  <2> QED
    BY <1>2, <1>3, <2>2
<1>5. FirstQuantum(l) = l[1]
  BY <1>2, <1>4 DEF FirstQuantum
<1> QED
  BY <1>1, <1>3, <1>5, Places

\* Quantum i of matched schedulings
LEMMA MatchedQuantum ==
  ASSUME NEW s, NEW S, Switches(s, S), NEW l, l = Applied(s, S), NEW i \in DOMAIN S,
         NEW initial \in InitialRecords
  PROVE  IsQuantum(s, S, i, QuantumAt(l, i, initial))
<1>1. /\ l \in Seq(Schedulings) /\ Len(l) = Len(S) /\ DOMAIN l = DOMAIN S
      /\ \A k \in DOMAIN S : /\ l[k].earmarked /\ l[k].offset = TipOf(S, k)
                             /\ l[k].tsc = MatchedTsc(s, S, k) /\ l[k].tid = S[k].tid
  BY AppliedAre
<1>2. Len(l) \in Nat /\ DOMAIN l = 1 .. Len(l) /\ i \in Nat /\ i # 0 /\ i <= Len(l) /\ i \in 0 .. Len(l)
  BY <1>1, Places
<1> DEFINE q == QuantumAt(l, i, initial)
<1>3. /\ q.tsc[2] = QuantumEnd(l, i).tsc /\ q.has_pos = QuantumEnd(l, i).earmarked
      /\ q.pos[2] = QuantumEnd(l, i).offset
      /\ q.tid = l[i].tid /\ q.pos[1] = l[i].offset
  <2>1. \A r : r = QuantumAt(l, i, initial) =>
          /\ r.tsc[2] = QuantumEnd(l, i).tsc /\ r.has_pos = QuantumEnd(l, i).earmarked
          /\ r.pos[2] = QuantumEnd(l, i).offset
          /\ r.tid = l[i].tid /\ r.pos[1] = l[i].offset
    BY <1>1, <1>2, QuantumParts
  <2> QED
    BY <2>1
<1> HIDE DEF q
<1>4. q.tid = S[i].tid /\ q.pos[1] = TipOf(S, i)
  BY <1>1, <1>3
<1>5. i < Len(S) => q.has_pos /\ q.pos[2] = TipOf(S, i + 1) /\ q.tsc[2] = MatchedTsc(s, S, i + 1)
  <2> SUFFICES ASSUME i < Len(S)
               PROVE  q.has_pos /\ q.pos[2] = TipOf(S, i + 1) /\ q.tsc[2] = MatchedTsc(s, S, i + 1)
    OBVIOUS
  <2>1. i # Len(l) /\ i + 1 \in DOMAIN S
    BY <1>1, <1>2
  <2>2. QuantumEnd(l, i) = l[i + 1]
    BY <2>1 DEF QuantumEnd
  <2> QED
    BY <1>1, <1>3, <2>1, <2>2
<1>6. i = Len(S) => ~q.has_pos /\ q.tsc[2] = Forever
  <2> SUFFICES ASSUME i = Len(S) PROVE ~q.has_pos /\ q.tsc[2] = Forever
    OBVIOUS
  <2>1. QuantumEnd(l, i) = [tsc |-> Forever, earmarked |-> FALSE, offset |-> 0]
    BY <1>1 DEF QuantumEnd
  <2> QED
    BY <1>3, <2>1
<1>7. IsQuantum(s, S, i, q)
  BY <1>4, <1>5, <1>6 DEF IsQuantum
<1> QED
  BY <1>7 DEF q

\* If no TIP was lost, the quantums that end after the first block begins are
\* those from a scheduling on that is not after it.
LEMMA UpcomingIs ==
  ASSUME NEW s, NEW S, Switches(s, S), NEW l, l = Applied(s, S), 1 \in DOMAIN S,
         NEW fst \in Nat, fst < Forever, MatchedTsc(s, S, 1) <= fst,
         NEW initial_tsc \in Nat, NEW tid \in Tids, NEW Q, Q = Quantums(l, fst, initial_tsc, tid)
  PROVE  \E i \in DOMAIN S : Upcoming(s, S, i, Q) /\ MatchedTsc(s, S, i) <= fst
<1>1. /\ l \in Seq(Schedulings) /\ Len(l) = Len(S) /\ DOMAIN l = DOMAIN S
      /\ \A k \in DOMAIN S : l[k].tsc = MatchedTsc(s, S, k)
      /\ TscsInOrder(l)
  BY AppliedAre
<1>2. Len(l) \in Nat /\ DOMAIN l = 1 .. Len(l) /\ Len(l) # 0
  BY <1>1, Places
<1>3. l # <<>>
  BY <1>2
<1>4. Q \in Seq(QuantumRecords) /\ QuantumsOf(l, fst, Q)
  BY <1>1, <1>3, QuantumsIs
<1>5. PICK initial \in InitialRecords, i \in 0 .. Len(l) :
        /\ QuantumsFrom(l, initial, Q, i, Len(l))
        /\ \A j \in 0 .. Len(l) : j < i => QuantumEnd(l, j).tsc <= fst
        /\ QuantumEnd(l, i).tsc > fst
  BY <1>4 DEF QuantumsOf
<1>6. i # 0
  <2> SUFFICES ASSUME i = 0 PROVE FALSE
    OBVIOUS
  <2>1. QuantumEnd(l, 0) = l[0 + 1]
    BY <1>2 DEF QuantumEnd
  <2>2. l[1].tsc > fst /\ l[1].tsc = MatchedTsc(s, S, 1)
    BY <1>1, <1>5, <2>1
  <2>3. MatchedTsc(s, S, 1) \in Nat
    BY MatchedIs
  <2> QED
    BY <2>2, <2>3
<1>7. i \in DOMAIN S /\ i \in Nat
  BY <1>1, <1>2, <1>5, <1>6
<1>8. MatchedTsc(s, S, i) <= fst
  <2> DEFINE j == i - 1
  <2>1. j \in 0 .. Len(l) /\ j < i /\ j # Len(l) /\ j + 1 = i
    BY <1>1, <1>2, <1>7
  <2>2. QuantumEnd(l, j) = l[j + 1]
    BY <2>1 DEF QuantumEnd
  <2> HIDE DEF j
  <2>3. QuantumEnd(l, j).tsc <= fst
    BY <1>5, <2>1
  <2> QED
    BY <1>1, <1>7, <2>1, <2>2, <2>3
<1>9. Upcoming(s, S, i, Q)
  <2>1. Len(Q) = (Len(l) + 1) - i /\ \A n \in DOMAIN Q : Q[n] = QuantumAt(l, (i + n) - 1, initial)
    BY <1>5 DEF QuantumsFrom
  <2>2. DOMAIN Q = 1 .. Len(Q) /\ Len(Q) \in Nat
    BY <1>4, Places
  <2>3. \A n \in DOMAIN Q : IsQuantum(s, S, (i + n) - 1, Q[n])
    <3> TAKE n \in DOMAIN Q
    <3>1. (i + n) - 1 \in DOMAIN S
      BY <1>1, <1>2, <1>7, <2>1, <2>2
    <3> DEFINE k == (i + n) - 1
    <3> HIDE DEF k
    <3>2. IsQuantum(s, S, k, QuantumAt(l, k, initial))
      BY <3>1, MatchedQuantum DEF k
    <3> QED
      BY <2>1, <3>2 DEF k
  <2> QED
    BY <1>1, <1>7, <2>1, <2>3 DEF Upcoming
<1> QED
  BY <1>7, <1>8, <1>9

-----------------------------------------------------------------------------
(* The blocks from the first quantum on *)

\* R are the blocks of B from block n on, which is the first that is not over
\* when the first message's quantum begins.
IsOpened(s, S, B, R, n) ==
  \E q \in Schedulings : /\ q.tsc = MatchedTsc(s, S, 1) /\ q.offset = TipOf(S, 1)
                         /\ FromBlock(s, B, q, R, n) /\ R # <<>>

\* The blocks of a trace that are left
Opened(s, S, B, R, n, c) ==
  /\ Switches(s, S) /\ 1 \in DOMAIN S
  /\ B \in Seq(RestBlocks(c)) /\ AreWhole(s, B) /\ R \in Seq(RestBlocks(c))
  /\ IsOpened(s, S, B, R, n)

\* Their places
LEMMA OpenedPlaces ==
  ASSUME NEW s, NEW S, NEW B, NEW R, NEW n, NEW c, Opened(s, S, B, R, n, c)
  PROVE  /\ n \in DOMAIN B /\ 1 \in DOMAIN R /\ n \in Nat /\ MatchedTsc(s, S, 1) < B[n].tsc[2]
         /\ \A j \in DOMAIN B : MatchedTsc(s, S, 1) < B[j].tsc[2] => n <= j
         /\ \A k \in DOMAIN R : (k + n) - 1 \in DOMAIN B /\ k \in Nat
                                /\ (k # 1 => n < (k + n) - 1 /\ R[k] = B[(k + n) - 1])
         /\ \A j \in DOMAIN B : n <= j => (j + 1) - n \in DOMAIN R /\ (((j + 1) - n) + n) - 1 = j
<1>1. PICK q \in Schedulings : q.tsc = MatchedTsc(s, S, 1) /\ FromBlock(s, B, q, R, n)
  BY DEF Opened, IsOpened
<1> DEFINE t == MatchedTsc(s, S, 1)
<1>2. /\ Len(B) \in Nat /\ DOMAIN B = 1 .. Len(B) /\ Len(R) \in Nat /\ DOMAIN R = 1 .. Len(R) /\ Len(R) # 0
  <2>1. R # <<>> /\ R \in Seq(RestBlocks(c)) /\ B \in Seq(RestBlocks(c))
    BY DEF Opened, IsOpened
  <2> QED
    BY <2>1, Places
<1>3. /\ n \in 1 .. Len(B) + 1 /\ Len(R) = (Len(B) + 1) - n
      /\ \A i \in DOMAIN B : i < n => Over(B[i], t)
      /\ n <= Len(B) => ~Over(B[n], t)
      /\ \A i \in DOMAIN R : i # 1 => R[i] = B[(i + n) - 1]
  BY <1>1 DEF FromBlock
<1>4. t \in Nat
  BY MatchedIs DEF Opened
<1>5. \A i \in DOMAIN B : B[i].tsc[2] \in Nat
  <2>1. B \in Seq(RestBlocks(c))
    BY DEF Opened
  <2> QED
    BY <2>1, Places, BlockParts
<1> HIDE DEF t
<1>6. n \in DOMAIN B /\ 1 \in DOMAIN R /\ n \in Nat
  BY <1>2, <1>3
<1>7. n <= Len(B)
  BY <1>2, <1>6
<1>8. t < B[n].tsc[2]
  BY <1>3, <1>4, <1>5, <1>6, <1>7 DEF Over
<1>9. \A j \in DOMAIN B : t < B[j].tsc[2] => n <= j
  <2> SUFFICES ASSUME NEW j \in DOMAIN B, t < B[j].tsc[2], ~(n <= j) PROVE FALSE
    OBVIOUS
  <2>1. j < n
    BY <1>2, <1>6
  <2>2. t >= B[j].tsc[2]
    BY <1>3, <2>1 DEF Over
  <2> QED
    BY <1>4, <1>5, <2>2
<1>10. \A k \in DOMAIN R : (k + n) - 1 \in DOMAIN B /\ k \in Nat /\ (k # 1 => n < (k + n) - 1)
  BY <1>2, <1>3, <1>6
<1>11. \A j \in DOMAIN B : n <= j => (j + 1) - n \in DOMAIN R /\ (((j + 1) - n) + n) - 1 = j
  BY <1>2, <1>3, <1>6
<1> QED
  BY <1>3, <1>6, <1>8, <1>9, <1>10, <1>11 DEF t

\* The first of them begins with the first message's TIP, or it is a whole
\* block, which begins after the scheduling.
LEMMA OpenedFirst ==
  ASSUME NEW s, NEW S, NEW B, NEW R, NEW n, NEW c, Opened(s, S, B, R, n, c)
  PROVE  /\ R[1].pos[2] = B[n].pos[2] /\ R[1].tsc[2] = B[n].tsc[2]
         /\ StartsWell(s, S, R[1])
         /\ \/ R[1].pos[1] = TipOf(S, 1) /\ R[1].tsc[1] = MatchedTsc(s, S, 1)
            \/ R[1].pos[1] = B[n].pos[1] /\ R[1].tsc[1] = B[n].tsc[1] /\ MatchedTsc(s, S, 1) <= B[n].tsc[1]
<1>1. PICK q \in Schedulings : /\ q.tsc = MatchedTsc(s, S, 1) /\ q.offset = TipOf(S, 1)
                               /\ FromBlock(s, B, q, R, n)
  BY DEF Opened, IsOpened
<1>2. n \in DOMAIN B /\ IsTrace(s) /\ 1 \in DOMAIN S
  BY OpenedPlaces DEF Opened, Switches
<1>3. B \in Seq(RestBlocks(c)) /\ IsWhole(s, B[n])
  BY <1>2 DEF Opened, AreWhole
<1>4. B[n] \in RestBlocks(c) /\ n <= Len(B)
  BY <1>2, <1>3, Places
<1>5. R[1] = IF q.tsc > B[n].tsc[1] THEN CutHead(s, B[n], q) ELSE B[n]
  BY <1>1, <1>4 DEF FromBlock
<1>6. CASE q.tsc > B[n].tsc[1]
  <2>1. IsCut(R[1], B[n], q.offset, B[n].pos[2], q.tsc, B[n].tsc[2])
    BY <1>2, <1>4, <1>5, <1>6, CutHeadIs
  <2>2. R[1].pos[1] = TipOf(S, 1) /\ R[1].tsc[1] = MatchedTsc(s, S, 1)
        /\ R[1].pos[2] = B[n].pos[2] /\ R[1].tsc[2] = B[n].tsc[2]
    BY <1>1, <2>1 DEF IsCut
  <2>3. StartsWell(s, S, R[1])
    BY <1>2, <2>2 DEF StartsWell
  <2> QED
    BY <2>2, <2>3
<1>7. CASE ~(q.tsc > B[n].tsc[1])
  <2>1. R[1] = B[n]
    BY <1>5, <1>7
  <2>2. q.tsc \in Nat /\ B[n].tsc[1] \in Nat
    <3>1. MatchedTsc(s, S, 1) \in Nat
      BY <1>2, MatchedIs DEF Opened
    <3>2. B[n].tsc[1] \in Nat
      BY <1>4, BlockParts
    <3> QED
      BY <1>1, <3>1, <3>2
  <2>3. q.tsc <= B[n].tsc[1]
    BY <1>7, <2>2
  <2>4. StartsWell(s, S, R[1])
    BY <1>3, <2>1 DEF IsWhole, StartsWell
  <2> QED
    BY <1>1, <2>1, <2>3, <2>4
<1> QED
  BY <1>6, <1>7

\* The others are whole blocks after the TIP.
LEMMA OpenedOthers ==
  ASSUME NEW s, NEW S, NEW B, NEW R, NEW n, NEW c, Opened(s, S, B, R, n, c),
         NEW k \in DOMAIN R, k # 1
  PROVE  IsWhole(s, R[k]) /\ TipOf(S, 1) < R[k].pos[1] /\ B[n].pos[2] <= R[k].pos[1]
<1> DEFINE j == (k + n) - 1
<1>1. j \in DOMAIN B /\ R[k] = B[j] /\ n < j /\ n \in DOMAIN B /\ MatchedTsc(s, S, 1) < B[n].tsc[2]
  BY OpenedPlaces
<1> HIDE DEF j
<1>2. AreWhole(s, B) /\ Switches(s, S) /\ IsTrace(s) /\ 1 \in DOMAIN S
  BY DEF Opened, Switches
<1>3. IsWhole(s, B[j]) /\ IsWhole(s, B[n]) /\ B[n].pos[2] <= B[j].pos[1]
  BY <1>1, <1>2 DEF AreWhole, Apart
<1>4. PICK m \in Timed(s) : /\ B[n].pos[2] <= m /\ B[n].tsc[2] = s[m].tsc
                            /\ \A x \in Timed(s) : B[n].pos[2] <= x => m <= x
  BY <1>3 DEF IsWhole, FirstFrom
<1>5. TipOf(S, 1) < m
  BY <1>1, <1>2, <1>4, AfterTip
<1>6. B[j].pos[1] \in Timed(s)
  BY <1>3 DEF IsWhole
<1>7. m <= B[j].pos[1]
  BY <1>3, <1>4, <1>6
<1>8. m \in Nat /\ B[j].pos[1] \in Nat /\ TipOf(S, 1) \in Nat
  <2>1. TipOf(S, 1) \in DOMAIN s
    BY <1>2, TipIs DEF Switches
  <2> QED
    BY <1>2, <1>6, <2>1, TraceFacts
<1> QED
  BY <1>1, <1>3, <1>5, <1>7, <1>8

\* If something is after the first TIP and it is not the only one, the first
\* block begins at the time of that TIP.
LEMMA OpenedTime ==
  ASSUME NEW s, NEW S, NEW B, NEW R, NEW n, NEW c, Opened(s, S, B, R, n, c),
         1 # Len(S), NEW m \in Timed(s), TipOf(S, 1) < m
  PROVE  R[1].tsc[1] = MatchedTsc(s, S, 1)
<1> DEFINE p == TipOf(S, 1)
           z == SlotOf(s, p)
<1>1. AreWhole(s, B) /\ Switches(s, S) /\ IsTrace(s) /\ 1 \in DOMAIN S
  BY DEF Opened, Switches
<1>2. p \in DOMAIN s
  BY <1>1, TipIs DEF Switches
<1>3. z \in Timed(s) /\ z <= p /\ z # 0 /\ TscAt(s, p) = s[z].tsc
  BY <1>1, <1>2, SlotIs
<1>4. z \in Nat /\ m \in Nat /\ p \in Nat /\ z \in DOMAIN s
  BY <1>1, <1>2, <1>3, TraceFacts
<1>5. z < m
  BY <1>3, <1>4
<1>6. MatchedTsc(s, S, 1) = s[z].tsc
  <2>1. NextTsc(s, z) # 0
    BY <1>1, <1>3, <1>5, NextTscIs
  <2>2. GotTsc(s, p)
    BY <1>3, <2>1 DEF GotTsc
  <2> QED
    BY <1>3, <2>2 DEF MatchedTsc
<1> HIDE DEF z, p
<1>7. Dated(s, z)
  <2>1. SlotOf(s, z) \in Timed(s) /\ SlotOf(s, z) <= z /\ z <= SlotOf(s, z)
    <3>1. \A x \in Timed(s) : x <= z => x <= SlotOf(s, z)
      BY <1>1, <1>4, SlotIs
    <3> QED
      BY <1>1, <1>3, <1>4, <3>1, SlotIs
  <2>2. SlotOf(s, z) = z
    <3>1. SlotOf(s, z) \in Nat
      BY <1>1, <2>1, TraceFacts
    <3> QED
      BY <1>4, <2>1, <3>1
  <2>3. s[z].kind # "ovf"
    BY <1>1, <1>3, TraceFacts
  <2>4. NoneLost(s, z, z)
    <3> SUFFICES ASSUME NEW o \in DOMAIN s, z <= o, o <= z, s[o].kind = "ovf" PROVE FALSE
      BY DEF NoneLost
    <3>1. o \in Nat
      BY <1>1, TraceFacts
    <3>2. o = z
      BY <1>4, <3>1
    <3> QED
      BY <2>3, <3>2
  <2> QED
    BY <1>4, <1>5, <2>2, <2>4 DEF Dated
<1>8. PICK j \in DOMAIN B : B[j].pos[1] <= z /\ z < B[j].pos[2]
  BY <1>1, <1>4, <1>7 DEF AreWhole, InSome, In
<1>9. IsWhole(s, B[j])
  BY <1>1 DEF AreWhole
<1>10. PICK y \in Timed(s) : B[j].pos[2] <= y /\ B[j].tsc[2] = s[y].tsc
  BY <1>9 DEF IsWhole, FirstFrom
<1>11. B[j].pos[1] \in Timed(s) /\ B[j].pos[1] \in Nat /\ B[j].pos[2] \in Nat /\ y \in Nat
       /\ B[j].pos[1] < B[j].pos[2] /\ B[j].tsc[1] = s[B[j].pos[1]].tsc
  BY <1>1, <1>9, <1>10, TraceFacts DEF IsWhole
<1>12. z < y
  BY <1>4, <1>8, <1>10, <1>11
<1>13. MatchedTsc(s, S, 1) < B[j].tsc[2]
  BY <1>1, <1>3, <1>6, <1>10, <1>12, TimedOrder
<1>14. n \in DOMAIN B /\ n <= j /\ n \in Nat
  BY <1>13, OpenedPlaces
<1>15. IsWhole(s, B[n]) /\ j \in Nat
  <2>1. B \in Seq(RestBlocks(c))
    BY DEF Opened
  <2> QED
    BY <1>1, <1>14, <2>1, Places DEF AreWhole
<1>16. B[n].pos[1] \in Timed(s) /\ B[n].pos[1] \in Nat /\ B[n].pos[2] \in Nat
       /\ B[n].pos[1] < B[n].pos[2] /\ B[n].tsc[1] = s[B[n].pos[1]].tsc
  BY <1>1, <1>15, TraceFacts DEF IsWhole
<1>17. B[n].pos[1] <= B[j].pos[1]
  <2>1. CASE n = j
    BY <1>16, <2>1
  <2>2. CASE n # j
    <3>1. n < j
      BY <1>14, <1>15, <2>2
    <3>2. B[n].pos[2] <= B[j].pos[1]
      BY <1>1, <1>14, <3>1 DEF AreWhole, Apart
    <3> QED
      BY <1>11, <1>16, <3>2
  <2> QED
    BY <2>1, <2>2
<1>18. B[n].pos[1] <= z
  BY <1>4, <1>8, <1>11, <1>16, <1>17
<1>19. B[n].tsc[1] <= MatchedTsc(s, S, 1)
  BY <1>1, <1>3, <1>6, <1>16, <1>18, TimedOrder
<1>20. MatchedTsc(s, S, 1) \in Nat /\ B[n].tsc[1] \in Nat
  BY <1>1, <1>16, MatchedIs, TraceFacts
<1> QED
  BY <1>19, <1>20, OpenedFirst

\* The blocks are in the order of their places.
LEMMA OpenedOrder ==
  ASSUME NEW s, NEW S, NEW B, NEW R, NEW n, NEW c, Opened(s, S, B, R, n, c)
  PROVE  /\ \A k \in DOMAIN R : StartsWell(s, S, R[k])
         /\ \A k \in DOMAIN R : R[k].pos[2] \in DOMAIN s /\ FirstFrom(s, R[k].pos[2], R[k].tsc[2])
         /\ Apart(R) /\ Ascending(R)
<1>1. n \in DOMAIN B /\ n \in Nat /\ 1 \in DOMAIN R
  BY OpenedPlaces
<1>2. AreWhole(s, B) /\ Switches(s, S) /\ IsTrace(s) /\ 1 \in DOMAIN S
  BY DEF Opened, Switches
<1>3. IsWhole(s, B[n])
  BY <1>1, <1>2 DEF AreWhole
<1>4. R[1].pos[2] = B[n].pos[2] /\ R[1].tsc[2] = B[n].tsc[2] /\ StartsWell(s, S, R[1])
  BY OpenedFirst
<1>5. \A k \in DOMAIN R : k # 1 => IsWhole(s, R[k]) /\ TipOf(S, 1) < R[k].pos[1] /\ B[n].pos[2] <= R[k].pos[1]
  BY OpenedOthers
<1>6. \A k \in DOMAIN R : StartsWell(s, S, R[k])
  BY <1>4, <1>5 DEF IsWhole, StartsWell
<1>7. \A k \in DOMAIN R : R[k].pos[2] \in DOMAIN s /\ FirstFrom(s, R[k].pos[2], R[k].tsc[2])
  BY <1>3, <1>4, <1>5 DEF IsWhole
<1>8. \A k \in DOMAIN R : k \in Nat /\ 1 <= k
  <2>1. R \in Seq(RestBlocks(c))
    BY DEF Opened
  <2> QED
    BY <2>1, Places
<1>9. \A k \in DOMAIN R : R[k].pos[1] \in Nat /\ R[k].pos[2] \in Nat
  BY <1>2, <1>6, <1>7, StartIs, TraceFacts
<1>10. Apart(R)
  <2> SUFFICES ASSUME NEW i \in DOMAIN R, NEW j \in DOMAIN R, i < j PROVE R[i].pos[2] <= R[j].pos[1]
    BY DEF Apart
  <2>1. j # 1
    BY <1>8
  <2>2. CASE i = 1
    BY <1>4, <1>5, <2>1, <2>2
  <2>3. CASE i # 1
    <3> DEFINE x == (i + n) - 1
               y == (j + n) - 1
    <3>1. x \in DOMAIN B /\ y \in DOMAIN B /\ R[i] = B[x] /\ R[j] = B[y] /\ x < y
      BY <1>1, <1>8, <2>1, <2>3, OpenedPlaces
    <3> HIDE DEF x, y
    <3> QED
      BY <1>2, <3>1 DEF AreWhole, Apart
  <2> QED
    BY <2>2, <2>3
<1>11. Ascending(R)
  <2> SUFFICES ASSUME NEW i \in DOMAIN R, NEW j \in DOMAIN R, i < j PROVE R[i].pos[1] < R[j].pos[1]
    BY DEF Ascending
  <2>1. j # 1 /\ TipOf(S, 1) < R[j].pos[1] /\ B[n].pos[2] <= R[j].pos[1]
    BY <1>5, <1>8
  <2>2. R[i].pos[2] <= R[j].pos[1]
    BY <1>10 DEF Apart
  <2>3. CASE i = 1 /\ R[1].pos[1] = TipOf(S, 1)
    BY <2>1, <2>3
  <2>4. CASE i = 1 /\ R[1].pos[1] = B[n].pos[1]
    <3>1. R[1].pos[1] < R[1].pos[2]
      BY <1>3, <1>4, <2>4 DEF IsWhole
    <3> QED
      BY <1>9, <2>2, <2>4, <3>1
  <2>5. CASE i # 1
    <3>1. R[i].pos[1] < R[i].pos[2]
      BY <1>5, <2>5 DEF IsWhole
    <3> QED
      BY <1>9, <2>2, <3>1
  <2>6. R[1].pos[1] = TipOf(S, 1) \/ R[1].pos[1] = B[n].pos[1]
    BY OpenedFirst
  <2> QED
    BY <2>3, <2>4, <2>5, <2>6
<1> QED
  BY <1>6, <1>7, <1>10, <1>11

\* The timestamps are in order then.
LEMMA AscendingTscs ==
  ASSUME NEW s, NEW S, Switches(s, S), NEW T, NEW R \in Seq(T), Ascending(R),
         \A k \in DOMAIN R : StartsWell(s, S, R[k]),
         NEW i \in DOMAIN R, NEW j \in DOMAIN R, i <= j
  PROVE  R[i].tsc[1] <= R[j].tsc[1] /\ R[i].tsc[1] \in Nat /\ R[j].tsc[1] \in Nat
         /\ R[i].pos[1] <= R[j].pos[1] /\ R[i].pos[1] \in Nat /\ R[j].pos[1] \in Nat
<1>1. /\ R[i].tsc[1] \in Nat /\ R[j].tsc[1] \in Nat
      /\ R[i].pos[1] \in Nat /\ R[j].pos[1] \in Nat
  BY StartIs
<1>2. CASE i = j
  BY <1>1, <1>2
<1>3. CASE i # j
  <2>1. i \in Nat /\ j \in Nat
    BY Places
  <2>2. i < j
    BY <1>3, <2>1
  <2>3. R[i].pos[1] < R[j].pos[1]
    BY <2>2 DEF Ascending
  <2>4. R[i].tsc[1] <= R[j].tsc[1]
    BY <2>3, StartsOrder
  <2> QED
    BY <1>1, <2>3, <2>4
<1> QED
  BY <1>2, <1>3

\* They begin at the first message's TIP or later, ...
LEMMA OpenedRest ==
  ASSUME NEW s, NEW S, NEW B, NEW R, NEW n, NEW c, Opened(s, S, B, R, n, c)
  PROVE  /\ MatchedTsc(s, S, 1) <= R[1].tsc[1] /\ R[1].tsc[1] \in Nat /\ R[1].tsc[1] <= MaxClock
         /\ \A i \in DOMAIN S : MatchedTsc(s, S, i) <= R[1].tsc[1] => RestFrom(s, S, i, R)
<1>1. 1 \in DOMAIN R
  BY OpenedPlaces
<1>2. Switches(s, S) /\ IsTrace(s) /\ 1 \in DOMAIN S /\ R \in Seq(RestBlocks(c))
      /\ S \in Seq(Schedulings)
  BY DEF Opened, Switches, Messages
<1>3. /\ \A k \in DOMAIN R : StartsWell(s, S, R[k])
      /\ \A k \in DOMAIN R : R[k].pos[2] \in DOMAIN s /\ FirstFrom(s, R[k].pos[2], R[k].tsc[2])
      /\ Apart(R) /\ Ascending(R)
  BY OpenedOrder
<1>4. MatchedTsc(s, S, 1) \in Nat
  BY <1>2, MatchedIs
<1>5. MatchedTsc(s, S, 1) <= R[1].tsc[1] /\ R[1].tsc[1] \in Nat /\ R[1].tsc[1] <= MaxClock
  BY <1>1, <1>2, <1>3, <1>4, OpenedFirst, StartIs
<1>6. ASSUME NEW i \in DOMAIN S, MatchedTsc(s, S, i) <= R[1].tsc[1]
      PROVE  RestFrom(s, S, i, R)
  <2>1. MatchedTsc(s, S, i) \in Nat
    BY <1>2, MatchedIs
  <2>2. ASSUME NEW k \in DOMAIN R PROVE MatchedTsc(s, S, i) <= R[k].tsc[1]
    <3>1. 1 <= k
      BY <1>2, Places
    <3>2. R[1].tsc[1] <= R[k].tsc[1] /\ R[k].tsc[1] \in Nat
      BY <1>1, <1>2, <1>3, <3>1, AscendingTscs
    <3> QED
      BY <1>5, <1>6, <2>1, <3>2
  <2>3. ASSUME NEW p \in DOMAIN s, SettledAt(s, S, p) PROVE TipOf(S, i) <= p
    <3>1. PICK m \in Timed(s) : TipOf(S, 1) < m /\ m <= p
      BY <2>3 DEF SettledAt
    <3>2. m \in Nat /\ p \in Nat /\ TipOf(S, 1) \in Nat /\ TipOf(S, i) \in Nat
      <4>1. TipOf(S, 1) \in DOMAIN s /\ TipOf(S, i) \in DOMAIN s
        BY <1>2, TipIs DEF Switches
      <4> QED
        BY <1>2, <4>1, TraceFacts
    <3>3. CASE i = 1
      BY <3>1, <3>2, <3>3
    <3>4. CASE i # 1
      <4>1. 1 # Len(S)
        BY <1>2, <3>4, Places
      <4>2. R[1].tsc[1] = MatchedTsc(s, S, 1)
        BY <3>1, <4>1, OpenedTime
      <4>3. MatchedTsc(s, S, 1) < s[m].tsc /\ s[m].tsc \in Nat
        BY <1>2, <3>1, AfterTip, TraceFacts
      <4>4. MatchedTsc(s, S, i) < s[m].tsc
        BY <1>4, <1>6, <2>1, <4>2, <4>3
      <4>5. TipOf(S, i) < m
        BY <1>2, <4>4, AfterTip
      <4> QED
        BY <3>1, <3>2, <4>5
    <3> QED
      BY <3>3, <3>4
  <2>4. \A k \in DOMAIN R : InRest(s, S, i, R[k])
    BY <1>3, <2>2, <2>3 DEF InRest
  <2> QED
    BY <1>3, <2>4 DEF RestFrom
<1> QED
  BY <1>5, <1>6

\* ... and all that is timed from there on is in one of them.
LEMMA OpenedAll ==
  ASSUME NEW s, NEW S, NEW B, NEW R, NEW n, NEW c, Opened(s, S, B, R, n, c),
         NEW p \in DOMAIN s, TipOf(S, 1) <= p, Dated(s, p)
  PROVE  InSome(R, p)
<1>1. AreWhole(s, B) /\ Switches(s, S) /\ IsTrace(s) /\ 1 \in DOMAIN S
  BY DEF Opened, Switches
<1>2. PICK j \in DOMAIN B : B[j].pos[1] <= p /\ p < B[j].pos[2]
  BY <1>1 DEF AreWhole, InSome, In
<1>3. IsWhole(s, B[j])
  BY <1>1 DEF AreWhole
<1>4. PICK y \in Timed(s) : B[j].pos[2] <= y /\ B[j].tsc[2] = s[y].tsc
  BY <1>3 DEF IsWhole, FirstFrom
<1>5. TipOf(S, 1) \in Nat /\ p \in Nat /\ B[j].pos[2] \in Nat /\ y \in Nat
  <2>1. TipOf(S, 1) \in DOMAIN s /\ B[j].pos[2] \in DOMAIN s
    BY <1>1, <1>3, TipIs DEF Switches, IsWhole
  <2> QED
    BY <1>1, <2>1, TraceFacts
<1>6. TipOf(S, 1) < y
  BY <1>2, <1>4, <1>5
<1>7. MatchedTsc(s, S, 1) < B[j].tsc[2]
  BY <1>1, <1>4, <1>6, AfterTip
<1> DEFINE k == (j + 1) - n
<1>8. n <= j /\ n \in Nat /\ k \in DOMAIN R /\ (k + n) - 1 = j
  BY <1>7, OpenedPlaces
<1>9. k # 1 => R[k] = B[j]
  BY <1>8, OpenedPlaces
<1>10. j \in Nat
  <2>1. B \in Seq(RestBlocks(c))
    BY DEF Opened
  <2> QED
    BY <2>1, Places
<1>11. CASE k # 1
  BY <1>2, <1>8, <1>9, <1>11 DEF InSome, In
<1>12. CASE k = 1
  <2>1. n = j
    BY <1>8, <1>10, <1>12
  <2>2. R[1].pos[2] = B[j].pos[2] /\ (R[1].pos[1] = TipOf(S, 1) \/ R[1].pos[1] = B[j].pos[1])
    BY <2>1, OpenedFirst
  <2>3. In(R[1], p)
    BY <1>2, <2>2 DEF In
  <2> QED
    BY <1>8, <1>12, <2>3 DEF InSome
<1> QED
  BY <1>11, <1>12

-----------------------------------------------------------------------------
(* Claiming blocks *)

\* A block that a task has of CPU c, on which no TIP was lost, is where the
\* task ran.
RunsAs(s, S, c, b) ==
  \A p \in DOMAIN s : In(b, p) /\ SettledAt(s, S, p) => Tid(s[p].runner, c) = b.tid
IsDone(s, S, c, b) ==
  /\ StartsWell(s, S, b) /\ b.pos[2] \in DOMAIN s /\ RunsAs(s, S, c, b)
  /\ MatchedTsc(s, S, 1) <= b.tsc[1]

\* Block a is before block b of the trace.
IsBefore(a, b) == a.tsc[1] <= b.tsc[1] /\ (a.type = "trace" => a.pos[2] <= b.pos[1])
Precedes(a, b) == \A i \in DOMAIN a : \A j \in DOMAIN b : b[j].type = "trace" => IsBefore(a[i], b[j])
InOrder(a) == \A i, j \in DOMAIN a : i < j /\ a[j].type = "trace" => IsBefore(a[i], a[j])

\* What was claimed is done with, and in order.
Claims(s, S, c, a) ==
  /\ a \in Seq(TaskBlock)
  /\ \A i \in DOMAIN a : a[i].type = "trace" => IsDone(s, S, c, a[i])
  /\ InOrder(a)

\* Block b is one of a task that has place p.
HasPlace(a, p) == \E i \in DOMAIN a : a[i].type = "trace" /\ In(a[i], p)

\* All that is timed after the first switch is in the blocks a of tasks or in
\* the blocks R that are left.
HasAll(s, S, a, R) ==
  \A p \in DOMAIN s : TipOf(S, 1) <= p /\ Dated(s, p) => HasPlace(a, p) \/ InSome(R, p)

\* Quantum i of CPU c takes from R what it gives to a.
Half(s, S, c, i, a, R) ==
  /\ Claims(s, S, c, a) /\ RestFrom(s, S, i, R) /\ Precedes(a, R) /\ HasAll(s, S, a, R)
  /\ R \in Seq(RestBlocks(c))

\* One sequence after another
IsJoined(T, a, b, w) ==
  /\ w \in Seq(T) /\ Len(w) = Len(a) + Len(b) /\ DOMAIN w = 1 .. Len(a) + Len(b)
  /\ \A i \in DOMAIN a : i \in DOMAIN w /\ w[i] = a[i]
  /\ \A i \in DOMAIN b : Len(a) + i \in DOMAIN w /\ w[Len(a) + i] = b[i]
  /\ \A i \in DOMAIN w : (i \in DOMAIN a /\ w[i] = a[i])
                         \/ (~(i \in DOMAIN a) /\ i - Len(a) \in DOMAIN b /\ w[i] = b[i - Len(a)])

\* What it is
LEMMA JoinedIs ==
  ASSUME NEW T, NEW a \in Seq(T), NEW b \in Seq(T), NEW w, w = a \o b
  PROVE  IsJoined(T, a, b, w)
<1>1. Len(a) \in Nat /\ DOMAIN a = 1 .. Len(a) /\ Len(b) \in Nat /\ DOMAIN b = 1 .. Len(b)
  BY Places
<1>2. w \in Seq(T) /\ Len(w) = Len(a) + Len(b)
  OBVIOUS
<1>3. DOMAIN w = 1 .. Len(a) + Len(b)
  BY <1>2, Places
<1>4. \A i \in DOMAIN a : i \in DOMAIN w /\ w[i] = a[i]
  BY <1>1, <1>3
<1>5. \A i \in DOMAIN w : i \in DOMAIN a \/ (~(i \in DOMAIN a) /\ i - Len(a) \in DOMAIN b /\ w[i] = b[i - Len(a)])
  BY <1>1, <1>3
<1>6. \A i \in DOMAIN b : Len(a) + i \in DOMAIN w /\ w[Len(a) + i] = b[i]
  BY <1>1, <1>3
<1> QED
  BY <1>2, <1>3, <1>4, <1>5, <1>6 DEF IsJoined

\* Blocks that are claimed after others
LEMMA ClaimsJoined ==
  ASSUME NEW s, NEW S, NEW c, NEW a, NEW b, Claims(s, S, c, a), Claims(s, S, c, b), Precedes(a, b),
         NEW w, w = a \o b
  PROVE  Claims(s, S, c, w)
<1>1. a \in Seq(TaskBlock) /\ b \in Seq(TaskBlock)
  BY DEF Claims
<1>2. /\ w \in Seq(TaskBlock)
      /\ \A i \in DOMAIN w : (i \in DOMAIN a /\ w[i] = a[i])
                             \/ (~(i \in DOMAIN a) /\ i - Len(a) \in DOMAIN b /\ w[i] = b[i - Len(a)])
  BY <1>1, JoinedIs DEF IsJoined
<1>3. /\ Len(a) \in Nat /\ DOMAIN a = 1 .. Len(a) /\ DOMAIN b \subseteq Nat /\ DOMAIN w \subseteq Nat
      /\ \A i \in DOMAIN w : 1 <= i
  BY <1>1, <1>2, Places
<1>4. \A i \in DOMAIN w : w[i].type = "trace" => IsDone(s, S, c, w[i])
  BY <1>2 DEF Claims
<1>5. InOrder(w)
  <2> SUFFICES ASSUME NEW i \in DOMAIN w, NEW j \in DOMAIN w, i < j, w[j].type = "trace"
               PROVE  IsBefore(w[i], w[j])
    BY DEF InOrder
  <2>1. CASE j \in DOMAIN a
    <3>1. i \in DOMAIN a
      BY <1>3, <2>1
    <3>2. w[i] = a[i] /\ w[j] = a[j]
      BY <1>2, <2>1, <3>1
    <3> QED
      BY <2>1, <3>1, <3>2 DEF Claims, InOrder
  <2>2. CASE ~(j \in DOMAIN a)
    <3>1. j - Len(a) \in DOMAIN b /\ w[j] = b[j - Len(a)]
      BY <1>2, <2>2
    <3>2. CASE i \in DOMAIN a
      <4>1. w[i] = a[i]
        BY <1>2, <3>2
      <4> QED
        BY <3>1, <3>2, <4>1 DEF Precedes
    <3>3. CASE ~(i \in DOMAIN a)
      <4>1. i - Len(a) \in DOMAIN b /\ w[i] = b[i - Len(a)]
        BY <1>2, <3>3
      <4>2. i - Len(a) < j - Len(a)
        BY <1>3
      <4> QED
        BY <3>1, <4>1, <4>2 DEF Claims, InOrder
    <3> QED
      BY <3>2, <3>3
  <2> QED
    BY <2>1, <2>2
<1> QED
  BY <1>2, <1>4, <1>5 DEF Claims

\* They come before what both come before.
LEMMA PrecedesJoined ==
  ASSUME NEW T, NEW a \in Seq(T), NEW b \in Seq(T), NEW R, Precedes(a, R), Precedes(b, R),
         NEW w, w = a \o b
  PROVE  Precedes(w, R)
<1>1. \A i \in DOMAIN w : (i \in DOMAIN a /\ w[i] = a[i])
                          \/ (~(i \in DOMAIN a) /\ i - Len(a) \in DOMAIN b /\ w[i] = b[i - Len(a)])
  BY JoinedIs DEF IsJoined
<1> QED
  BY <1>1 DEF Precedes

\* They have the places that one of the two has.
LEMMA PlacesJoined ==
  ASSUME NEW T, NEW a \in Seq(T), NEW b \in Seq(T), NEW p, HasPlace(a, p) \/ HasPlace(b, p),
         NEW w, w = a \o b
  PROVE  HasPlace(w, p)
<1>1. /\ \A i \in DOMAIN a : i \in DOMAIN w /\ w[i] = a[i]
      /\ \A i \in DOMAIN b : Len(a) + i \in DOMAIN w /\ w[Len(a) + i] = b[i]
  BY JoinedIs DEF IsJoined
<1> QED
  BY <1>1 DEF HasPlace

\* A part of a block that ends before the quantum does is where its task ran.
LEMMA RunsUntil ==
  ASSUME NEW s, NEW S, NEW c, Switches(s, S), RunnersAreScheduled(s, S, c), NEW i \in DOMAIN S,
         NEW b, InRest(s, S, i, b), NEW w, w.pos[1] = b.pos[1], w.tsc[1] = b.tsc[1],
         w.pos[2] \in DOMAIN s, w.pos[2] <= b.pos[2], w.tid = S[i].tid,
         i < Len(S) => w.pos[2] <= TipOf(S, i + 1)
  PROVE  IsDone(s, S, c, w)
<1>1. IsTrace(s) /\ S \in Seq(Schedulings)
  BY DEF Switches, Messages
<1>2. StartsWell(s, S, w)
  BY DEF InRest, StartsWell
<1>3. ASSUME NEW p \in DOMAIN s, In(w, p), SettledAt(s, S, p)
      PROVE  Tid(s[p].runner, c) = w.tid
  <2>1. w.pos[1] <= p /\ p < w.pos[2]
    BY <1>3 DEF In
  <2>2. p \in Nat /\ w.pos[2] \in Nat /\ b.pos[2] \in Nat /\ TipOf(S, i) \in Nat
    <3>1. b.pos[2] \in DOMAIN s /\ TipOf(S, i) \in DOMAIN s
      BY TipIs DEF InRest, Switches
    <3> QED
      BY <1>1, <3>1, TraceFacts
  <2>3. p < b.pos[2]
    BY <2>1, <2>2
  <2>4. TipOf(S, i) <= p
    BY <1>3, <2>1, <2>3 DEF InRest, In
  <2>5. S[i].ipt_offset < p
    <3>1. S[i].ipt_offset \in Nat
      BY <1>1, SchedulingParts
    <3> QED
      BY <2>2, <2>4, <3>1 DEF TipOf
  <2>6. Until(s, S, i, p)
    <3> SUFFICES ASSUME i < Len(S)
                 PROVE  p < S[i + 1].ipt_offset \/ (p = S[i + 1].ipt_offset /\ s[p].kind = "tnt")
      BY DEF Until
    <3>1. i + 1 \in DOMAIN S
      BY <1>1
    <3>2. S[i + 1].ipt_offset \in Nat /\ s[S[i + 1].ipt_offset].kind = "tnt"
      BY <1>1, <3>1, SchedulingParts, TipIs DEF Switches
    <3>3. p < S[i + 1].ipt_offset + 1
      BY <2>1, <2>2, <3>2 DEF TipOf
    <3>4. p < S[i + 1].ipt_offset \/ p = S[i + 1].ipt_offset
      BY <2>2, <3>2, <3>3
    <3> QED
      BY <3>2, <3>4
  <2> QED
    BY <2>5, <2>6 DEF RunnersAreScheduled
<1>4. MatchedTsc(s, S, 1) <= w.tsc[1]
  <2>1. i \in Nat /\ 1 <= i /\ 1 \in DOMAIN S
    BY <1>1, SchedulingParts
  <2>2. MatchedTsc(s, S, 1) \in Nat /\ MatchedTsc(s, S, i) \in Nat
    BY <2>1, MatchedIs
  <2>3. MatchedTsc(s, S, 1) <= MatchedTsc(s, S, i)
    <3>1. CASE i = 1
      BY <2>2, <3>1
    <3>2. CASE i # 1
      BY <2>1, <3>2, MatchedOrder
    <3> QED
      BY <3>1, <3>2
  <2>4. MatchedTsc(s, S, i) <= w.tsc[1] /\ w.tsc[1] \in Nat
    BY <1>2, StartIs DEF InRest
  <2> QED
    BY <2>2, <2>3, <2>4
<1> QED
  BY <1>2, <1>3, <1>4 DEF IsDone, RunsAs

\* d are the first n blocks of R, claimed for a task.
AreClaimed(s, R, n, tid, d) ==
  n \in 0 .. Len(R) /\ d = [j \in 1 .. n |-> Claimed(s, R[j], tid)]

\* They are blocks of the task, and where they were.
AreOfTask(c, R, n, tid, d) ==
  /\ d \in Seq(TaskBlock) /\ Len(d) = n /\ DOMAIN d = 1 .. n /\ n \in Nat
  /\ \A j \in DOMAIN d : /\ j \in DOMAIN R /\ d[j].type = "trace" /\ d[j].cpu = c /\ d[j].tid = tid
                         /\ d[j].pos[1] = R[j].pos[1] /\ d[j].pos[2] = R[j].pos[2]
                         /\ d[j].tsc[1] = R[j].tsc[1]

\* Claimed blocks are blocks of the task, at the places of the blocks they are
\* made of.
LEMMA ClaimedAre ==
  ASSUME NEW s, IsTrace(s), NEW c \in CPU, NEW R \in Seq(RestBlocks(c)), NEW n, NEW tid \in Tids,
         NEW d, AreClaimed(s, R, n, tid, d)
  PROVE  AreOfTask(c, R, n, tid, d)
<1>1. Len(R) \in Nat /\ DOMAIN R = 1 .. Len(R) /\ \A j \in DOMAIN R : R[j] \in RestBlocks(c)
  BY Places
<1>2. n \in 0 .. Len(R) /\ d = [j \in 1 .. n |-> Claimed(s, R[j], tid)]
  BY DEF AreClaimed
<1>3. ASSUME NEW j \in 1 .. n
      PROVE  /\ j \in DOMAIN R /\ d[j] \in TaskBlock /\ d[j].type = "trace" /\ d[j].cpu = c
             /\ d[j].tid = tid
             /\ d[j].pos[1] = R[j].pos[1] /\ d[j].pos[2] = R[j].pos[2] /\ d[j].tsc[1] = R[j].tsc[1]
  <2>1. j \in DOMAIN R /\ d[j] = Claimed(s, R[j], tid) /\ R[j] \in RestBlocks(c)
    BY <1>1, <1>2
  <2>2. /\ d[j] \in TaskBlock /\ d[j].tid = tid
        /\ IsCut(d[j], R[j], R[j].pos[1], R[j].pos[2], R[j].tsc[1], R[j].tsc[2])
    BY <2>1, ClaimedIs
  <2>3. R[j].type = "trace" /\ R[j].cpu = c
    BY <2>1, BlockParts
  <2> QED
    BY <2>1, <2>2, <2>3 DEF IsCut
<1>4. n \in Nat
  BY <1>1, <1>2
<1>5. d \in [1 .. n -> TaskBlock]
  BY <1>2, <1>3
<1>6. d \in Seq(TaskBlock) /\ Len(d) = n /\ DOMAIN d = 1 .. n
  BY <1>4, <1>5
<1> QED
  BY <1>3, <1>4, <1>6 DEF AreOfTask

\* The blocks from block n + 1 on
AreLeft(R, n, x) == x = SubSeq(R, n + 1, Len(R))

\* What is left of the blocks is the blocks behind those that are left out.
LEMMA LeftAre ==
  ASSUME NEW T, NEW R \in Seq(T), NEW n \in 0 .. Len(R), NEW x, AreLeft(R, n, x)
  PROVE  /\ x \in Seq(T) /\ Len(x) = Len(R) - n
         /\ \A k \in DOMAIN x : x[k] = R[k + n] /\ k + n \in DOMAIN R /\ k \in Nat
         /\ \A j \in DOMAIN R : n < j => j - n \in DOMAIN x /\ x[j - n] = R[j]
<1>1. Len(R) \in Nat /\ DOMAIN R = 1 .. Len(R) /\ n \in Nat /\ n + 1 \in 1 .. Len(R) + 1
  BY Places
<1>2. x = SubSeq(R, n + 1, Len(R))
  BY DEF AreLeft
<1> DEFINE m == n + 1
<1>3. /\ x \in Seq(T) /\ Len(x) = (Len(R) + 1) - m
      /\ \A i \in DOMAIN x : x[i] = R[(i + m) - 1] /\ (i + m) - 1 \in DOMAIN R
  BY <1>1, <1>2, Rest
<1>4. Len(x) = Len(R) - n
  BY <1>1, <1>3
<1>5. DOMAIN x = 1 .. Len(x)
  BY <1>3, Places
<1>6. \A k \in DOMAIN x : (k + m) - 1 = k + n /\ k \in Nat
  BY <1>1, <1>5
<1>7. \A k \in DOMAIN x : x[k] = R[k + n] /\ k + n \in DOMAIN R /\ k \in Nat
  BY <1>3, <1>6
<1>8. \A j \in DOMAIN R : n < j => j - n \in DOMAIN x /\ (j - n) + n = j
  BY <1>1, <1>4, <1>5
<1> QED
  BY <1>3, <1>4, <1>7, <1>8

\* What is left of blocks is what it was, in the same order.
LEMMA RestLeft ==
  ASSUME NEW s, NEW S, NEW i, NEW T, NEW R \in Seq(T), RestFrom(s, S, i, R), NEW n \in 0 .. Len(R),
         NEW x, AreLeft(R, n, x)
  PROVE  RestFrom(s, S, i, x)
<1>1. \A k \in DOMAIN x : x[k] = R[k + n] /\ k + n \in DOMAIN R /\ k \in Nat
  BY LeftAre
<1>2. n \in Nat
  BY Places
<1>3. \A j, k \in DOMAIN x : j < k => j + n < k + n
  BY <1>1, <1>2
<1>4. Apart(x) /\ Ascending(x)
  BY <1>1, <1>3 DEF RestFrom, Apart, Ascending
<1>5. \A k \in DOMAIN x : InRest(s, S, i, x[k])
  BY <1>1 DEF RestFrom
<1> QED
  BY <1>4, <1>5 DEF RestFrom

\* The blocks at the head that end before quantum i does are claimed.
LEMMA HalfClaimed ==
  ASSUME NEW s, NEW S, NEW c \in CPU, Switches(s, S), RunnersAreScheduled(s, S, c),
         NEW i \in DOMAIN S, NEW a, NEW R, Half(s, S, c, i, a, R),
         NEW n, NEW d, AreClaimed(s, R, n, S[i].tid, d),
         i < Len(S) => \A j \in 1 .. n : R[j].pos[2] <= TipOf(S, i + 1),
         NEW w, w = a \o d, NEW x, AreLeft(R, n, x)
  PROVE  Half(s, S, c, i, w, x)
<1>1. /\ Claims(s, S, c, a) /\ RestFrom(s, S, i, R) /\ Precedes(a, R) /\ HasAll(s, S, a, R)
      /\ R \in Seq(RestBlocks(c)) /\ a \in Seq(TaskBlock)
  BY DEF Half, Claims
<1>2. IsTrace(s) /\ S \in Seq(Schedulings)
  BY DEF Switches, Messages
<1>3. S[i].tid \in Tids
  BY <1>2, SchedulingParts
<1>4. n \in 0 .. Len(R)
  BY DEF AreClaimed
<1>5. /\ d \in Seq(TaskBlock) /\ Len(d) = n /\ DOMAIN d = 1 .. n /\ n \in Nat
      /\ \A j \in DOMAIN d : /\ j \in DOMAIN R /\ d[j].type = "trace" /\ d[j].cpu = c /\ d[j].tid = S[i].tid
                             /\ d[j].pos[1] = R[j].pos[1] /\ d[j].pos[2] = R[j].pos[2]
                             /\ d[j].tsc[1] = R[j].tsc[1]
  <2> DEFINE tid == S[i].tid
  <2>1. AreClaimed(s, R, n, tid, d) /\ tid \in Tids
    BY <1>3
  <2> HIDE DEF tid
  <2>2. AreOfTask(c, R, n, tid, d)
    BY <1>1, <1>2, <2>1, ClaimedAre
  <2> QED
    BY <2>2 DEF AreOfTask, tid
<1>6. /\ x \in Seq(RestBlocks(c))
      /\ \A k \in DOMAIN x : x[k] = R[k + n] /\ k + n \in DOMAIN R /\ k \in Nat
      /\ \A j \in DOMAIN R : n < j => j - n \in DOMAIN x /\ x[j - n] = R[j]
  BY <1>1, <1>4, LeftAre
<1>7. /\ \A j \in DOMAIN R : InRest(s, S, i, R[j]) /\ StartsWell(s, S, R[j]) /\ j \in Nat /\ 1 <= j
      /\ \A j \in DOMAIN R : R[j].type = "trace"
      /\ Apart(R) /\ Ascending(R)
  BY <1>1, Places, BlockParts DEF RestFrom, InRest
<1>8. \A j \in DOMAIN d : IsDone(s, S, c, d[j])
  <2> TAKE j \in DOMAIN d
  <2>1. InRest(s, S, i, R[j]) /\ R[j].pos[2] \in DOMAIN s /\ R[j].pos[2] \in Nat
    BY <1>2, <1>5, <1>7, TraceFacts DEF InRest
  <2>2. i < Len(S) => d[j].pos[2] <= TipOf(S, i + 1)
    BY <1>5
  <2>3. d[j].pos[1] = R[j].pos[1] /\ d[j].tsc[1] = R[j].tsc[1] /\ d[j].pos[2] \in DOMAIN s
        /\ d[j].pos[2] <= R[j].pos[2] /\ d[j].tid = S[i].tid
    BY <1>5, <2>1
  <2> QED
    BY <2>1, <2>2, <2>3, RunsUntil
<1>9. ASSUME NEW j \in DOMAIN R, NEW k \in DOMAIN R, j < k
      PROVE  R[j].tsc[1] <= R[k].tsc[1] /\ R[j].pos[2] <= R[k].pos[1]
  <2>1. j <= k
    BY <1>7, <1>9
  <2>2. R[j].tsc[1] <= R[k].tsc[1]
    BY <1>1, <1>7, <2>1, AscendingTscs
  <2> QED
    BY <1>7, <1>9, <2>2 DEF Apart
<1>10. Claims(s, S, c, d)
  <2>1. InOrder(d)
    BY <1>5, <1>9 DEF InOrder, IsBefore
  <2> QED
    BY <1>5, <1>8, <2>1 DEF Claims
<1>11. Precedes(a, d)
  BY <1>1, <1>5, <1>7 DEF Precedes, IsBefore
<1>12. Claims(s, S, c, w)
  BY <1>1, <1>10, <1>11, ClaimsJoined
<1>13. RestFrom(s, S, i, x)
  BY <1>1, <1>4, RestLeft
<1>14. Precedes(a, x)
  BY <1>1, <1>6 DEF Precedes
<1>15. Precedes(d, x)
  <2> SUFFICES ASSUME NEW j \in DOMAIN d, NEW k \in DOMAIN x PROVE IsBefore(d[j], x[k])
    BY DEF Precedes
  <2>1. j \in DOMAIN R /\ k + n \in DOMAIN R /\ x[k] = R[k + n]
    BY <1>5, <1>6
  <2>2. j < k + n
    <3>1. 1 <= k
      BY <1>6, Places
    <3> QED
      BY <1>5, <1>6, <3>1
  <2> QED
    BY <1>5, <1>9, <2>1, <2>2 DEF IsBefore
<1>16. Precedes(w, x)
  BY <1>1, <1>5, <1>14, <1>15, PrecedesJoined
<1>17. HasAll(s, S, w, x)
  <2> SUFFICES ASSUME NEW p \in DOMAIN s, TipOf(S, 1) <= p, Dated(s, p)
               PROVE  HasPlace(w, p) \/ InSome(x, p)
    BY DEF HasAll
  <2>1. CASE HasPlace(a, p)
    BY <1>1, <1>5, <2>1, PlacesJoined
  <2>2. CASE InSome(R, p)
    <3>1. PICK j \in DOMAIN R : In(R[j], p)
      BY <2>2 DEF InSome
    <3>2. CASE n < j
      BY <1>6, <3>1, <3>2 DEF InSome
    <3>3. CASE ~(n < j)
      <4>1. j \in DOMAIN d
        BY <1>5, <1>7, <3>3
      <4>2. HasPlace(d, p)
        BY <1>5, <3>1, <4>1 DEF HasPlace, In
      <4> QED
        BY <1>1, <1>5, <4>2, PlacesJoined
    <3> QED
      BY <3>2, <3>3
  <2> QED
    BY <1>1, <2>1, <2>2 DEF HasAll
<1> QED
  BY <1>6, <1>12, <1>13, <1>16, <1>17 DEF Half

\* Block b is cut where the TIP of message k is: h is before it and t after it.
IsSplit(s, S, c, k, b, h, t) ==
  /\ b.pos[1] < TipOf(S, k) /\ TipOf(S, k) < b.pos[2]
  /\ h \in TaskBlock /\ h.type = "trace"
  /\ h.pos[1] = b.pos[1] /\ h.pos[2] = TipOf(S, k) /\ h.tsc[1] = b.tsc[1]
  /\ t \in RestBlocks(c)
  /\ t.pos[1] = TipOf(S, k) /\ t.pos[2] = b.pos[2] /\ t.tsc[1] = MatchedTsc(s, S, k) /\ t.tsc[2] = b.tsc[2]

\* x is R with its first block replaced.
WithFirst(R, t, x) ==
  Len(x) = Len(R) /\ R # <<>> /\ x[1] = t /\ \A k \in DOMAIN R : k # 1 => x[k] = R[k]

\* What is after the cut is what is left.
LEMMA SplitRest ==
  ASSUME NEW s, NEW S, NEW c, Switches(s, S), NEW i \in DOMAIN S, NEW j \in DOMAIN S, i < j,
         NEW R \in Seq(RestBlocks(c)), RestFrom(s, S, i, R), NEW h, NEW t, IsSplit(s, S, c, j, R[1], h, t),
         NEW x \in Seq(RestBlocks(c)), WithFirst(R, t, x)
  PROVE  RestFrom(s, S, i, x) /\ StartsWell(s, S, t) /\ DOMAIN x = DOMAIN R /\ 1 \in DOMAIN R
<1>1. IsTrace(s) /\ S \in Seq(Schedulings)
  BY DEF Switches, Messages
<1>2. /\ Len(R) \in Nat /\ DOMAIN R = 1 .. Len(R) /\ DOMAIN x = DOMAIN R /\ 1 \in DOMAIN R
      /\ x[1] = t /\ \A k \in DOMAIN R : k # 1 => x[k] = R[k]
  <2>1. Len(x) = Len(R) /\ R # <<>> /\ x[1] = t /\ \A k \in DOMAIN R : k # 1 => x[k] = R[k]
    BY DEF WithFirst
  <2>2. Len(R) \in Nat /\ DOMAIN R = 1 .. Len(R) /\ DOMAIN x = 1 .. Len(x)
    BY Places
  <2>3. Len(R) # 0
    BY <2>1
  <2> QED
    BY <2>1, <2>2, <2>3
<1>3. \A k \in DOMAIN R : InRest(s, S, i, R[k])
  BY DEF RestFrom
<1>4. StartsWell(s, S, t)
  BY DEF IsSplit, StartsWell
<1>5. TipOf(S, i) < TipOf(S, j) /\ MatchedTsc(s, S, i) <= MatchedTsc(s, S, j)
  BY TipsOrder, MatchedOrder DEF Switches
<1>6. TipOf(S, i) \in Nat /\ TipOf(S, j) \in Nat
  <2>1. TipOf(S, i) \in DOMAIN s /\ TipOf(S, j) \in DOMAIN s
    BY TipIs DEF Switches
  <2> QED
    BY <1>1, <2>1, TraceFacts
<1>7. InRest(s, S, i, t)
  <2>1. R[1].pos[2] \in DOMAIN s /\ FirstFrom(s, R[1].pos[2], R[1].tsc[2])
    BY <1>2, <1>3 DEF InRest
  <2>2. t.pos[1] = TipOf(S, j) /\ t.pos[2] = R[1].pos[2] /\ t.tsc[1] = MatchedTsc(s, S, j)
        /\ t.tsc[2] = R[1].tsc[2]
    BY DEF IsSplit
  <2>3. ASSUME NEW p \in DOMAIN s, In(t, p) PROVE TipOf(S, i) <= p
    <3>1. TipOf(S, j) <= p
      BY <2>2, <2>3 DEF In
    <3>2. p \in Nat
      BY <1>1, TraceFacts
    <3> QED
      BY <1>5, <1>6, <3>1, <3>2
  <2> QED
    BY <1>4, <1>5, <2>1, <2>2, <2>3 DEF InRest
<1>8. \A k \in DOMAIN x : InRest(s, S, i, x[k])
  BY <1>2, <1>3, <1>7
<1>9. /\ \A k \in DOMAIN R : R[k].pos[1] \in Nat /\ R[k].pos[2] \in Nat
      /\ Apart(R) /\ Ascending(R)
      /\ x[1].pos[1] = TipOf(S, j) /\ x[1].pos[2] = R[1].pos[2] /\ TipOf(S, j) < R[1].pos[2]
  BY <1>2, Places, BlockParts DEF RestFrom, IsSplit
<1>10. \A k \in DOMAIN x : k \in Nat /\ 1 <= k
  BY <1>2
<1>11. Apart(x)
  <2> SUFFICES ASSUME NEW k \in DOMAIN x, NEW l \in DOMAIN x, k < l PROVE x[k].pos[2] <= x[l].pos[1]
    BY DEF Apart
  <2>1. l # 1
    BY <1>10
  <2>2. x[l] = R[l] /\ x[k].pos[2] = R[k].pos[2]
    BY <1>2, <1>9, <2>1
  <2> QED
    BY <1>2, <1>9, <2>2 DEF Apart
<1>12. Ascending(x)
  <2> SUFFICES ASSUME NEW k \in DOMAIN x, NEW l \in DOMAIN x, k < l PROVE x[k].pos[1] < x[l].pos[1]
    BY DEF Ascending
  <2>1. l # 1 /\ x[l] = R[l]
    BY <1>2, <1>10
  <2>2. CASE k = 1
    <3>1. R[1].pos[2] <= R[l].pos[1]
      BY <1>2, <1>9, <2>2 DEF Apart
    <3> QED
      BY SMTT(30), <1>2, <1>6, <1>9, <2>1, <2>2, <3>1
  <2>3. CASE k # 1
    BY <1>2, <1>9, <2>1, <2>3 DEF Ascending
  <2> QED
    BY <2>2, <2>3
<1> QED
  BY <1>2, <1>4, <1>8, <1>11, <1>12 DEF RestFrom

\* A block is cut where quantum i ends.
LEMMA HalfCut ==
  ASSUME NEW s, NEW S, NEW c \in CPU, Switches(s, S), RunnersAreScheduled(s, S, c),
         NEW i \in DOMAIN S, NEW j \in DOMAIN S, j = i + 1, NEW a, NEW R, Half(s, S, c, i, a, R),
         NEW h, NEW t, IsSplit(s, S, c, j, R[1], h, t), h.tid = S[i].tid,
         NEW w, w = a \o <<h>>, NEW x \in Seq(RestBlocks(c)), WithFirst(R, t, x)
  PROVE  Half(s, S, c, i, w, x)
<1>1. /\ Claims(s, S, c, a) /\ RestFrom(s, S, i, R) /\ Precedes(a, R) /\ HasAll(s, S, a, R)
      /\ R \in Seq(RestBlocks(c)) /\ a \in Seq(TaskBlock)
  BY DEF Half, Claims
<1>2. IsTrace(s) /\ S \in Seq(Schedulings) /\ i \in Nat
  BY Places DEF Switches, Messages
<1>3. i < j
  BY <1>2
<1>4. RestFrom(s, S, i, x) /\ StartsWell(s, S, t) /\ DOMAIN x = DOMAIN R /\ 1 \in DOMAIN R
  BY <1>1, <1>3, SplitRest
<1>5. /\ x[1] = t /\ \A k \in DOMAIN R : k # 1 => x[k] = R[k]
  BY DEF WithFirst
<1>6. /\ R[1].pos[1] < TipOf(S, j) /\ TipOf(S, j) < R[1].pos[2]
      /\ h \in TaskBlock /\ h.type = "trace"
      /\ h.pos[1] = R[1].pos[1] /\ h.pos[2] = TipOf(S, j) /\ h.tsc[1] = R[1].tsc[1]
      /\ t.pos[1] = TipOf(S, j) /\ t.pos[2] = R[1].pos[2]
  BY DEF IsSplit
<1>7. TipOf(S, j) \in DOMAIN s /\ TipOf(S, j) \in Nat
  <2>1. TipOf(S, j) \in DOMAIN s
    BY TipIs DEF Switches
  <2> QED
    BY <1>2, <2>1, TraceFacts
<1>8. /\ \A k \in DOMAIN R : /\ R[k].type = "trace" /\ R[k].pos[1] \in Nat /\ R[k].pos[2] \in Nat
                             /\ k \in Nat /\ 1 <= k /\ StartsWell(s, S, R[k])
      /\ InRest(s, S, i, R[1]) /\ Apart(R) /\ Ascending(R)
  BY <1>1, <1>4, Places, BlockParts DEF RestFrom, InRest
<1>9. IsDone(s, S, c, h)
  <2>1. TipOf(S, j) <= R[1].pos[2] /\ (i < Len(S) => h.pos[2] <= TipOf(S, i + 1))
    BY <1>4, <1>6, <1>7, <1>8
  <2> QED
    BY <1>6, <1>7, <1>8, <2>1, RunsUntil
<1> DEFINE d == <<h>>
<1>10. d \in Seq(TaskBlock) /\ DOMAIN d = {1} /\ d[1] = h
  BY <1>6
<1>11. Claims(s, S, c, d)
  <2>1. InOrder(d)
    BY <1>10 DEF InOrder
  <2> QED
    BY <1>9, <1>10, <2>1 DEF Claims
<1> HIDE DEF d
<1>12. Precedes(a, d)
  BY <1>1, <1>4, <1>6, <1>8, <1>10 DEF Precedes, IsBefore
<1>13. w = a \o d
  BY DEF d
<1>14. Claims(s, S, c, w)
  BY <1>1, <1>11, <1>12, <1>13, ClaimsJoined
<1>15. R[1].tsc[1] <= t.tsc[1] /\ R[1].tsc[1] \in Nat /\ t.tsc[1] \in Nat
  <2>1. R[1].pos[1] < t.pos[1] /\ StartsWell(s, S, R[1])
    BY <1>4, <1>6, <1>8
  <2> QED
    BY <1>4, <2>1, StartsOrder, StartIs
<1>16. Precedes(a, x)
  <2> SUFFICES ASSUME NEW m \in DOMAIN a, NEW k \in DOMAIN x PROVE IsBefore(a[m], x[k])
    BY DEF Precedes
  <2>1. CASE k = 1
    <3>1. IsBefore(a[m], R[1])
      BY <1>1, <1>4, <1>8 DEF Precedes
    <3>2. a[m].tsc[1] \in Nat /\ a[m].pos[2] \in Nat
      <4>1. a[m] \in TaskBlock
        BY <1>1, Places
      <4>2. a[m].tsc \in Nat \X Nat /\ a[m].pos \in Nat \X Nat
        BY <4>1 DEF TaskBlock
      <4> QED
        BY <4>2
    <3>3. a[m].tsc[1] <= t.tsc[1]
      BY <1>15, <3>1, <3>2 DEF IsBefore
    <3>4. a[m].type = "trace" => a[m].pos[2] <= t.pos[1]
      BY <1>4, <1>6, <1>7, <1>8, <3>1, <3>2 DEF IsBefore
    <3> QED
      BY <1>5, <2>1, <3>3, <3>4 DEF IsBefore
  <2>2. CASE k # 1
    BY <1>1, <1>4, <1>5, <1>8, <2>2 DEF Precedes
  <2> QED
    BY <2>1, <2>2
<1>17. Precedes(d, x)
  <2> SUFFICES ASSUME NEW k \in DOMAIN x PROVE IsBefore(h, x[k])
    BY <1>10 DEF Precedes
  <2>1. CASE k = 1
    BY <1>5, <1>6, <1>7, <1>15, <2>1 DEF IsBefore
  <2>2. CASE k # 1
    <3>1. 1 < k /\ k \in DOMAIN R /\ 1 <= k
      BY <1>4, <1>8, <2>2
    <3>2. R[1].tsc[1] <= R[k].tsc[1]
      BY <1>1, <1>4, <1>8, <3>1, AscendingTscs
    <3>3. R[1].pos[2] <= R[k].pos[1]
      BY <1>4, <1>8, <3>1 DEF Apart
    <3>4. TipOf(S, j) <= R[k].pos[1]
      BY <1>4, <1>6, <1>7, <1>8, <3>1, <3>3
    <3> QED
      BY <1>5, <1>6, <2>2, <3>1, <3>2, <3>4 DEF IsBefore
  <2> QED
    BY <2>1, <2>2
<1>18. Precedes(w, x)
  BY <1>1, <1>10, <1>13, <1>16, <1>17, PrecedesJoined
<1>19. HasAll(s, S, w, x)
  <2> SUFFICES ASSUME NEW p \in DOMAIN s, TipOf(S, 1) <= p, Dated(s, p)
               PROVE  HasPlace(w, p) \/ InSome(x, p)
    BY DEF HasAll
  <2>1. CASE HasPlace(a, p)
    BY <1>1, <1>10, <1>13, <2>1, PlacesJoined
  <2>2. CASE InSome(R, p)
    <3>1. PICK k \in DOMAIN R : In(R[k], p)
      BY <2>2 DEF InSome
    <3>2. CASE k # 1
      BY <1>4, <1>5, <3>1, <3>2 DEF InSome
    <3>3. CASE k = 1
      <4>1. p \in Nat
        BY <1>2, TraceFacts
      <4>2. In(h, p) \/ In(t, p)
        BY <1>6, <1>7, <3>1, <3>3, <4>1 DEF In
      <4>3. CASE In(h, p)
        <5>1. HasPlace(d, p)
          BY <1>6, <1>10, <4>3 DEF HasPlace
        <5> QED
          BY <1>1, <1>10, <1>13, <5>1, PlacesJoined
      <4>4. CASE In(t, p)
        BY <1>4, <1>5, <4>4 DEF InSome
      <4> QED
        BY <4>2, <4>3, <4>4
    <3> QED
      BY <3>2, <3>3
  <2> QED
    BY <1>1, <2>1, <2>2 DEF HasAll
<1> QED
  BY <1>4, <1>14, <1>18, <1>19 DEF Half

-----------------------------------------------------------------------------
(* The quantums one after another *)

\* A block that starts at the TIP of a message or later has the message's
\* timestamp or a later one.
LEMMA StartsFrom ==
  ASSUME NEW s, NEW S, Switches(s, S), NEW j \in DOMAIN S, NEW b, StartsWell(s, S, b),
         TipOf(S, j) <= b.pos[1]
  PROVE  MatchedTsc(s, S, j) <= b.tsc[1]
<1>1. IsTrace(s) /\ S \in Seq(Schedulings)
  BY DEF Switches, Messages
<1>2. TipOf(S, j) \in DOMAIN s /\ TipOf(S, j) \in Nat /\ s[TipOf(S, j)].kind = "tip"
  <2>1. TipOf(S, j) \in DOMAIN s /\ s[TipOf(S, j)].kind = "tip"
    BY TipIs DEF Switches
  <2> QED
    BY <1>1, <2>1, TraceFacts
<1>3. b.pos[1] \in Nat
  BY StartIs
<1>4. MatchedTsc(s, S, j) \in Nat
  BY MatchedIs
<1>5. CASE TipOf(S, j) < b.pos[1]
  <2> DEFINE a == [pos |-> <<TipOf(S, j), 0>>, tsc |-> <<MatchedTsc(s, S, j), 0>>]
  <2>1. a.pos[1] = TipOf(S, j) /\ a.tsc[1] = MatchedTsc(s, S, j)
    OBVIOUS
  <2> HIDE DEF a
  <2>2. StartsWell(s, S, a)
    BY <2>1 DEF StartsWell
  <2>3. a.pos[1] < b.pos[1]
    BY <1>5, <2>1
  <2>4. a.tsc[1] <= b.tsc[1]
    BY <2>2, <2>3, StartsOrder
  <2> QED
    BY <2>1, <2>4
<1>6. CASE TipOf(S, j) = b.pos[1]
  <2>1. ~(b.pos[1] \in Timed(s))
    BY <1>1, <1>2, <1>6, TraceFacts
  <2>2. PICK k \in DOMAIN S : b.pos[1] = TipOf(S, k) /\ b.tsc[1] = MatchedTsc(s, S, k)
    BY <2>1 DEF StartsWell
  <2>3. k = j
    <3>1. k \in Nat /\ j \in Nat
      BY <1>1, Places
    <3>2. ~(k < j) /\ ~(j < k)
      BY <1>2, <1>6, <2>2, TipsOrder DEF Switches
    <3> QED
      BY <3>1, <3>2
  <2> QED
    BY <1>4, <2>2, <2>3
<1> QED
  BY <1>2, <1>3, <1>5, <1>6

\* When no block is left that begins before quantum i ends, the next one begins.
LEMMA HalfLeft ==
  ASSUME NEW s, NEW S, NEW c, Switches(s, S), NEW i \in DOMAIN S, NEW j \in DOMAIN S,
         NEW a, NEW R, Half(s, S, c, i, a, R), R # <<>> => TipOf(S, j) <= R[1].pos[1]
  PROVE  Half(s, S, c, j, a, R)
<1>1. RestFrom(s, S, i, R) /\ R \in Seq(RestBlocks(c))
  BY DEF Half
<1>2. IsTrace(s)
  BY DEF Switches
<1>3. TipOf(S, j) \in Nat
  <2>1. TipOf(S, j) \in DOMAIN s
    BY TipIs DEF Switches
  <2> QED
    BY <1>2, <2>1, TraceFacts
<1>4. ASSUME NEW k \in DOMAIN R PROVE InRest(s, S, j, R[k])
  <2>1. 1 \in DOMAIN R /\ 1 <= k /\ R # <<>>
    BY <1>1
  <2>2. /\ \A m \in DOMAIN R : InRest(s, S, i, R[m]) /\ StartsWell(s, S, R[m])
        /\ Ascending(R)
    BY <1>1 DEF RestFrom, InRest
  <2>3. R[1].pos[1] <= R[k].pos[1] /\ R[1].pos[1] \in Nat /\ R[k].pos[1] \in Nat
    BY <1>1, <2>1, <2>2, AscendingTscs
  <2>4. TipOf(S, j) <= R[k].pos[1]
    BY <1>3, <2>1, <2>3
  <2>5. MatchedTsc(s, S, j) <= R[k].tsc[1]
    BY <2>2, <2>4, StartsFrom
  <2>6. ASSUME NEW p \in DOMAIN s, In(R[k], p) PROVE TipOf(S, j) <= p
    <3>1. p \in Nat /\ R[k].pos[1] <= p
      BY <1>2, <2>6, TraceFacts DEF In
    <3> QED
      BY <1>3, <2>3, <2>4, <3>1
  <2> QED
    BY <2>2, <2>5, <2>6 DEF InRest
<1> QED
  BY <1>1, <1>4 DEF Half, RestFrom

\* A block for the time when the task was scheduled, in or out
LEMMA HalfMarked ==
  ASSUME NEW s, NEW S, NEW c, Switches(s, S), NEW i \in DOMAIN S, NEW a, NEW R, Half(s, S, c, i, a, R),
         NEW m \in TaskBlock, m.type # "trace", m.tsc[1] <= MatchedTsc(s, S, i),
         NEW w, w = Append(a, m)
  PROVE  Half(s, S, c, i, w, R)
<1>1. /\ Claims(s, S, c, a) /\ RestFrom(s, S, i, R) /\ Precedes(a, R) /\ HasAll(s, S, a, R)
      /\ R \in Seq(RestBlocks(c)) /\ a \in Seq(TaskBlock)
  BY DEF Half, Claims
<1> DEFINE d == <<m>>
<1>2. d \in Seq(TaskBlock) /\ DOMAIN d = {1} /\ d[1] = m
  OBVIOUS
<1>3. Append(a, m) = a \o d
  BY <1>1
<1> HIDE DEF d
<1>4. w = a \o d
  BY <1>3
<1>5. Claims(s, S, c, d) /\ Precedes(a, d)
  BY <1>2 DEF Claims, InOrder, Precedes
<1>6. Claims(s, S, c, w)
  BY <1>1, <1>4, <1>5, ClaimsJoined
<1>7. Precedes(d, R)
  <2> SUFFICES ASSUME NEW k \in DOMAIN R PROVE IsBefore(m, R[k])
    BY <1>2 DEF Precedes
  <2>1. MatchedTsc(s, S, i) <= R[k].tsc[1] /\ StartsWell(s, S, R[k])
    BY <1>1 DEF RestFrom, InRest
  <2>2. MatchedTsc(s, S, i) \in Nat /\ R[k].tsc[1] \in Nat
    BY <2>1, MatchedIs, StartIs
  <2>3. m.tsc[1] \in Nat
    <3>1. m.tsc \in Nat \X Nat
      BY DEF TaskBlock
    <3> QED
      BY <3>1
  <2> QED
    BY <2>1, <2>2, <2>3 DEF IsBefore
<1>8. Precedes(w, R)
  BY <1>1, <1>2, <1>4, <1>5, <1>7, PrecedesJoined
<1>9. HasAll(s, S, w, R)
  BY <1>1, <1>2, <1>4, PlacesJoined DEF HasAll
<1> QED
  BY <1>1, <1>6, <1>8, <1>9 DEF Half

\* Decoding starts at or before the TIP.
LEMMA PsbTsc ==
  ASSUME NEW s, NEW S, Switches(s, S), NEW i \in DOMAIN S
  PROVE  TscAt(s, LastPsb(s, TipOf(S, i))) <= MatchedTsc(s, S, i)
<1> DEFINE p == TipOf(S, i)
           z == LastPsb(s, p)
<1>1. IsTrace(s)
  BY DEF Switches
<1>2. p \in DOMAIN s
  BY TipIs DEF Switches
<1>3. p \in Nat
  BY <1>1, <1>2, TraceFacts
<1>4. TscAt(s, p) <= MatchedTsc(s, S, i) /\ MatchedTsc(s, S, i) \in Nat /\ TscAt(s, p) \in Nat
  BY MatchedIs
<1> HIDE DEF p
<1>5. z \in DOMAIN s /\ z \in Nat /\ z <= p
  BY <1>1, <1>2, <1>3, LastPsbIs
<1> HIDE DEF z
<1>6. SlotOf(s, z) \in Timed(s) /\ SlotOf(s, z) <= z /\ TscAt(s, z) = s[SlotOf(s, z)].tsc
  BY <1>1, <1>5, SlotIs
<1>7. /\ SlotOf(s, p) \in Timed(s) /\ TscAt(s, p) = s[SlotOf(s, p)].tsc
      /\ \A n \in Timed(s) : n <= p => n <= SlotOf(s, p)
  BY <1>1, <1>2, SlotIs
<1>8. SlotOf(s, z) <= p
  <2>1. SlotOf(s, z) \in Nat
    BY <1>1, <1>6, TraceFacts
  <2> QED
    BY <1>3, <1>5, <1>6, <2>1
<1>9. SlotOf(s, z) <= SlotOf(s, p)
  BY <1>6, <1>7, <1>8
<1>10. TscAt(s, z) <= TscAt(s, p)
  BY <1>1, <1>6, <1>7, <1>9, TimedOrder
<1>11. TscAt(s, z) \in Nat
  BY <1>1, <1>6, TraceFacts
<1>12. TscAt(s, z) <= MatchedTsc(s, S, i)
  BY <1>4, <1>10, <1>11
<1> QED
  BY <1>12 DEF p, z

-----------------------------------------------------------------------------
(* Claiming and cutting in a quantum *)

IsWithin(b, q) == IF q.has_pos THEN q.pos[2] >= b.pos[2] ELSE q.tsc[2] >= b.tsc[2]

\* The blocks at the head that are within the quantum
LEMMA WithinIs ==
  ASSUME NEW T, NEW R \in Seq(T), NEW q, NEW n, n = Within(R, q)
  PROVE  /\ n \in 0 .. Len(R)
         /\ \A j \in 1 .. n : IsWithin(R[j], q)
         /\ n # Len(R) => n + 1 \in DOMAIN R /\ ~IsWithin(R[n + 1], q)
<1> DEFINE early == {i \in DOMAIN R : ~IsWithin(R[i], q)}
           A == early \cup {Len(R) + 1}
           m == Min(A)
<1>1. Len(R) \in Nat /\ DOMAIN R = 1 .. Len(R)
  BY Places
<1>2. n = m - 1
  BY DEF Within, IsWithin
<1>3. A \subseteq Nat /\ A # {} /\ \A i \in A : i \in 1 .. Len(R) + 1
  BY <1>1
<1> HIDE DEF A
<1>4. m \in A /\ \A i \in A : m <= i
  BY <1>3, LeastIs
<1>5. m \in 1 .. Len(R) + 1
  BY <1>3, <1>4
<1> HIDE DEF m
<1>6. n \in 0 .. Len(R)
  BY <1>1, <1>2, <1>5
<1>7. \A j \in 1 .. n : IsWithin(R[j], q)
  <2> SUFFICES ASSUME NEW j \in 1 .. n, ~IsWithin(R[j], q) PROVE FALSE
    OBVIOUS
  <2>1. j \in DOMAIN R
    BY <1>1, <1>6
  <2>2. m <= j
    BY <1>4, <2>1 DEF A
  <2> QED
    BY <1>1, <1>2, <1>5, <2>2
<1>8. n # Len(R) => n + 1 \in DOMAIN R /\ ~IsWithin(R[n + 1], q)
  <2> SUFFICES ASSUME n # Len(R) PROVE n + 1 \in DOMAIN R /\ ~IsWithin(R[n + 1], q)
    OBVIOUS
  <2>1. m # Len(R) + 1 /\ n + 1 = m
    BY <1>1, <1>2, <1>5
  <2> QED
    BY <1>4, <2>1 DEF A
<1> QED
  BY <1>6, <1>7, <1>8

\* Block t in the place of the first of those that are left
HasNext(R, n) == n \in 0 .. Len(R) /\ n # Len(R)
PutIn(R, n, t, y) == y = <<t>> \o SubSeq(R, n + 2, Len(R))
IsPutBack(T, R, n, x, t, y) ==
  y \in Seq(T) /\ WithFirst(x, t, y) /\ (t = R[n + 1] => y = x) /\ x[1] = R[n + 1]

\* It is the first of them then.
LEMMA PutBack ==
  ASSUME NEW T, NEW R \in Seq(T), NEW n, HasNext(R, n), NEW x, AreLeft(R, n, x),
         NEW t \in T, NEW y, PutIn(R, n, t, y)
  PROVE  IsPutBack(T, R, n, x, t, y)
<1> DEFINE N == Len(R)
<1>0. N \in Nat /\ n \in 0 .. N /\ n # N
  BY Places DEF HasNext
<1>1. n \in Nat /\ n + 1 \in 0 .. N /\ (n + 1) + 1 = n + 2
  <2> HIDE DEF N
  <2> QED
    BY <1>0
<1>2. /\ x \in Seq(T) /\ Len(x) = N - n
      /\ \A k \in DOMAIN x : x[k] = R[k + n] /\ k + n \in DOMAIN R /\ k \in Nat
  BY <1>0, LeftAre
<1> DEFINE z == SubSeq(R, n + 2, Len(R))
           m == n + 1
           d == <<t>>
<1>3. m \in 0 .. N /\ m + 1 = n + 2
  BY <1>1
<1>4. AreLeft(R, m, z)
  BY <1>3 DEF AreLeft
<1> HIDE DEF z
<1>5. /\ z \in Seq(T) /\ Len(z) = N - m
      /\ \A k \in DOMAIN z : z[k] = R[k + m] /\ k + m \in DOMAIN R /\ k \in Nat
  BY <1>3, <1>4, LeftAre
<1>6. d \in Seq(T) /\ Len(d) = 1 /\ DOMAIN d = {1} /\ d[1] = t
  OBVIOUS
<1>7. y = d \o z
  BY DEF z, PutIn
<1> HIDE DEF d, N, m
<1>8. /\ y \in Seq(T) /\ Len(y) = 1 + Len(z) /\ DOMAIN y = 1 .. 1 + Len(z)
      /\ \A i \in DOMAIN d : i \in DOMAIN y /\ y[i] = d[i]
      /\ \A i \in DOMAIN z : 1 + i \in DOMAIN y /\ y[1 + i] = z[i]
  <2>1. IsJoined(T, d, z, y)
    BY <1>5, <1>6, <1>7, JoinedIs
  <2> QED
    BY <1>6, <2>1 DEF IsJoined
<1>9. y[1] = t
  BY <1>6, <1>8
<1>10. DOMAIN x = 1 .. Len(x) /\ DOMAIN z = 1 .. Len(z) /\ Len(z) \in Nat /\ Len(x) \in Nat
  BY <1>2, <1>5, Places
<1>11. Len(y) = Len(x) /\ Len(x) # 0
  <2>1. N - n = 1 + (N - m) /\ N - n # 0
    BY <1>0, <1>1 DEF m
  <2> QED
    BY <1>2, <1>5, <1>6, <1>8, <2>1
<1>12. \A k \in DOMAIN x : k # 1 => y[k] = x[k]
  <2> SUFFICES ASSUME NEW k \in DOMAIN x, k # 1 PROVE y[k] = x[k]
    OBVIOUS
  <2> DEFINE j == k - 1
  <2>1. j \in DOMAIN z /\ j + m = k + n /\ 1 + j = k
    <3>1. k \in 1 .. N - n
      BY <1>2, <1>10
    <3>2. j \in 1 .. N - m /\ j + m = k + n /\ 1 + j = k
      BY <1>0, <1>1, <3>1 DEF m
    <3> QED
      BY <1>5, <1>10, <3>2
  <2> HIDE DEF j
  <2>2. y[1 + j] = z[j]
    BY <1>6, <1>8, <2>1
  <2>3. z[j] = R[k + n] /\ x[k] = R[k + n]
    BY <1>2, <1>5, <2>1
  <2> QED
    BY <2>1, <2>2, <2>3
<1>13. WithFirst(x, t, y)
  <2>1. x # <<>>
    BY <1>11
  <2> QED
    BY <1>9, <1>11, <1>12, <2>1 DEF WithFirst
<1>14. x[1] = R[n + 1]
  <2>1. 1 \in DOMAIN x
    BY <1>10, <1>11
  <2>2. 1 + n = n + 1
    BY <1>1
  <2> QED
    BY <1>2, <2>1, <2>2
<1>15. t = R[n + 1] => y = x
  <2> SUFFICES ASSUME t = R[n + 1] PROVE y = x
    OBVIOUS
  <2>1. DOMAIN y = DOMAIN x
    BY <1>8, <1>10, <1>11, Places
  <2>2. \A k \in DOMAIN x : y[k] = x[k]
    BY <1>9, <1>12, <1>14
  <2>3. Len(y) = Len(x) /\ \A k \in 1 .. Len(y) : y[k] = x[k]
    BY <1>10, <1>11, <2>2
  <2> QED
    BY <1>2, <1>8, <2>3
<1> QED
  BY <1>8, <1>13, <1>14, <1>15 DEF IsPutBack

\* What quantum q takes from R, `part' being part of the next block, and
\* what it leaves, `left' being in the place of that block (ClaimBlocks)
Taken(s, a, R, q, part, left, w, y) ==
  /\ w = a \o [j \in 1 .. Within(R, q) |-> Claimed(s, R[j], q.tid)] \o part
  /\ y = left \o SubSeq(R, Within(R, q) + 2, Len(R))

\* d are the n blocks of R that are within quantum q, claimed.
ClaimedIn(s, R, q, n, d) ==
  n = Within(R, q) /\ d = [j \in 1 .. n |-> Claimed(s, R[j], q.tid)]
\* What becomes of the blocks a of tasks and the blocks R that are left
HalfIn(s, S, c, i, R, n, d, w, x) ==
  /\ Half(s, S, c, i, w, x) /\ d \in Seq(TaskBlock) /\ w \in Seq(TaskBlock)
  /\ i = Len(S) => n = Len(R)

\* The blocks within a quantum are claimed; the last quantum has all blocks.
LEMMA HalfWithin ==
  ASSUME NEW s, NEW S, NEW c \in CPU, Switches(s, S), RunnersAreScheduled(s, S, c),
         NEW i \in DOMAIN S, NEW a, NEW R, Half(s, S, c, i, a, R), NEW q, IsQuantum(s, S, i, q),
         NEW n, NEW d, ClaimedIn(s, R, q, n, d), NEW w, w = a \o d, NEW x, AreLeft(R, n, x)
  PROVE  HalfIn(s, S, c, i, R, n, d, w, x)
<1>1. R \in Seq(RestBlocks(c)) /\ RestFrom(s, S, i, R) /\ IsTrace(s) /\ S \in Seq(Schedulings)
      /\ a \in Seq(TaskBlock)
  BY DEF Half, Switches, Messages, Claims
<1>2. /\ n \in 0 .. Len(R)
      /\ \A j \in 1 .. n : IsWithin(R[j], q)
      /\ n # Len(R) => n + 1 \in DOMAIN R /\ ~IsWithin(R[n + 1], q)
  BY <1>1, WithinIs DEF ClaimedIn
<1>3. q.tid = S[i].tid
  BY DEF IsQuantum
<1>4. AreClaimed(s, R, n, S[i].tid, d)
  BY <1>2, <1>3 DEF AreClaimed, ClaimedIn
<1>5. Len(R) \in Nat /\ DOMAIN R = 1 .. Len(R) /\ i \in Nat /\ Len(S) \in Nat /\ i <= Len(S)
      /\ DOMAIN S = 1 .. Len(S)
  BY <1>1, Places
<1>6. i < Len(S) => \A j \in 1 .. n : R[j].pos[2] <= TipOf(S, i + 1)
  <2> SUFFICES ASSUME i < Len(S), NEW j \in 1 .. n PROVE R[j].pos[2] <= TipOf(S, i + 1)
    OBVIOUS
  <2>1. q.has_pos /\ q.pos[2] = TipOf(S, i + 1)
    BY DEF IsQuantum
  <2>2. j \in DOMAIN R
    <3>1. n \in 0 .. Len(R) /\ j \in 1 .. n /\ Len(R) \in Nat
      BY <1>2, <1>5
    <3>2. j \in 1 .. Len(R)
      BY ONLY <3>1
    <3> QED
      BY <1>5, <3>2
  <2>3. R[j].pos[2] \in Nat
    BY <1>1, <2>2, Places, BlockParts
  <2>4. TipOf(S, i + 1) \in Nat
    <3> DEFINE k == i + 1
    <3>1. k \in DOMAIN S
      BY <1>5
    <3> HIDE DEF k
    <3>2. TipOf(S, k) \in DOMAIN s
      BY <3>1, TipIs DEF Switches
    <3>3. TipOf(S, k) \in Nat
      BY <1>1, <3>2, TraceFacts
    <3> QED
      BY <3>3 DEF k
  <2>5. q.pos[2] >= R[j].pos[2]
    BY <1>2, <2>1 DEF IsWithin
  <2> QED
    BY <2>1, <2>3, <2>4, <2>5
<1>7. Half(s, S, c, i, w, x)
  BY <1>4, <1>6, HalfClaimed
<1>8. d \in Seq(TaskBlock)
  <2> DEFINE tid == S[i].tid
  <2>1. AreClaimed(s, R, n, tid, d) /\ tid \in Tids
    BY <1>1, <1>4, SchedulingParts
  <2> HIDE DEF tid
  <2>2. AreOfTask(c, R, n, tid, d)
    BY <1>1, <2>1, ClaimedAre
  <2> QED
    BY <2>2 DEF AreOfTask
<1>9. i = Len(S) => n = Len(R)
  <2> SUFFICES ASSUME i = Len(S), n # Len(R) PROVE FALSE
    OBVIOUS
  <2>1. ~q.has_pos /\ q.tsc[2] = Forever
    BY DEF IsQuantum
  <2> DEFINE b == R[n + 1]
  <2>2. b \in RestBlocks(c) /\ InRest(s, S, i, b) /\ ~IsWithin(b, q)
    BY <1>1, <1>2, Places DEF RestFrom
  <2> HIDE DEF b
  <2>3. PICK m \in Timed(s) : b.tsc[2] = s[m].tsc
    BY <2>2 DEF InRest, FirstFrom
  <2>4. b.tsc[2] \in Nat /\ b.tsc[2] <= MaxClock
    BY <1>1, <2>3, TraceFacts
  <2>5. MaxClock \in Nat /\ MaxClock <= 999
    BY StreamsAssumption DEF Forever
  <2>6. Forever >= b.tsc[2]
    BY <2>4, <2>5 DEF Forever
  <2> QED
    BY <2>1, <2>2, <2>6 DEF IsWithin
<1>10. w \in Seq(TaskBlock)
  BY <1>1, <1>8
<1> QED
  BY <1>7, <1>8, <1>9, <1>10 DEF HalfIn

\* A quantum that ends between two blocks
LEMMA HalfNothing ==
  ASSUME NEW s, NEW S, NEW c \in CPU, Switches(s, S), RunnersAreScheduled(s, S, c),
         NEW i \in DOMAIN S, NEW a, NEW R, Half(s, S, c, i, a, R), NEW q, IsQuantum(s, S, i, q),
         NEW n, n = Within(R, q), NEW left, NEW w, NEW y, Taken(s, a, R, q, <<>>, left, w, y),
         \/ n = Len(R) /\ left = <<>>
         \/ /\ n # Len(R) /\ left = <<R[n + 1]>>
            /\ IF q.has_pos THEN R[n + 1].pos[1] >= q.pos[2] ELSE R[n + 1].tsc[1] >= q.tsc[2]
  PROVE  /\ i < Len(S) => Half(s, S, c, i + 1, w, y)
         /\ i = Len(S) => Half(s, S, c, i, w, y) /\ y = <<>>
<1> DEFINE d == [j \in 1 .. n |-> Claimed(s, R[j], q.tid)]
           x == SubSeq(R, n + 1, Len(R))
           v == a \o d
<1>1. AreLeft(R, n, x) /\ ClaimedIn(s, R, q, n, d) /\ v = a \o d
  BY DEF AreLeft, ClaimedIn
<1>2. w = v \o <<>> /\ y = left \o SubSeq(R, n + 2, Len(R))
  BY DEF Taken
<1> HIDE DEF d, x, v
<1>3. Half(s, S, c, i, v, x) /\ d \in Seq(TaskBlock) /\ v \in Seq(TaskBlock) /\ (i = Len(S) => n = Len(R))
  <2>1. HalfIn(s, S, c, i, R, n, d, v, x)
    BY <1>1, HalfWithin
  <2> QED
    BY <2>1 DEF HalfIn
<1>4. R \in Seq(RestBlocks(c)) /\ S \in Seq(Schedulings)
  BY DEF Half, Switches, Messages
<1>5. n \in 0 .. Len(R) /\ (n # Len(R) => n + 1 \in DOMAIN R)
  BY <1>4, WithinIs
<1>6. w = v
  BY <1>2, <1>3
<1>7. y = x /\ (n = Len(R) => y = <<>>) /\ (n # Len(R) => x[1] = R[n + 1])
  <2>1. CASE n = Len(R)
    <3>1. left = <<>>
      BY <2>1
    <3>2. Len(R) \in Nat
      BY <1>4, Places
    <3>3. SubSeq(R, n + 2, Len(R)) = <<>> /\ SubSeq(R, n + 1, Len(R)) = <<>>
      BY <1>4, <2>1, <3>2
    <3> QED
      BY <1>2, <2>1, <3>1, <3>3 DEF x
  <2>2. CASE n # Len(R)
    <3> DEFINE t == R[n + 1]
    <3>1. t \in RestBlocks(c)
      BY <1>4, <1>5, <2>2, Places
    <3>2. PutIn(R, n, t, y) /\ HasNext(R, n)
      BY <1>2, <1>5, <2>2 DEF PutIn, HasNext
    <3>3. t = R[n + 1]
      OBVIOUS
    <3> HIDE DEF t
    <3>4. IsPutBack(RestBlocks(c), R, n, x, t, y)
      BY <1>1, <1>4, <3>1, <3>2, PutBack
    <3>5. y = x /\ x[1] = R[n + 1]
      BY <3>3, <3>4 DEF IsPutBack
    <3> QED
      BY <2>2, <3>5
  <2> QED
    BY <2>1, <2>2
<1>8. i < Len(S) => Half(s, S, c, i + 1, w, y)
  <2> SUFFICES ASSUME i < Len(S) PROVE Half(s, S, c, i + 1, w, y)
    OBVIOUS
  <2> DEFINE k == i + 1
  <2>1. k \in DOMAIN S
    BY <1>4
  <2>2. q.has_pos /\ q.pos[2] = TipOf(S, k)
    BY DEF IsQuantum
  <2> HIDE DEF k
  <2>3. TipOf(S, k) \in Nat
    <3>1. TipOf(S, k) \in DOMAIN s
      BY <2>1, TipIs DEF Switches
    <3> QED
      BY <3>1, TraceFacts DEF Switches
  <2>4. x # <<>> => TipOf(S, k) <= x[1].pos[1]
    <3> SUFFICES ASSUME x # <<>> PROVE TipOf(S, k) <= x[1].pos[1]
      OBVIOUS
    <3>1. n # Len(R)
      BY <1>7
    <3>2. R[n + 1].pos[1] >= q.pos[2] /\ R[n + 1].pos[1] \in Nat
      BY <1>4, <1>5, <2>2, <3>1, Places, BlockParts
    <3> QED
      BY <1>7, <2>2, <2>3, <3>1, <3>2
  <2>5. Half(s, S, c, k, v, x)
    BY <1>3, <2>1, <2>4, HalfLeft
  <2> QED
    BY <1>6, <1>7, <2>5 DEF k
<1> QED
  BY <1>3, <1>6, <1>7, <1>8

\* A quantum that ends in a block
LEMMA HalfOffset ==
  ASSUME NEW s, NEW S, NEW c \in CPU, Switches(s, S), RunnersAreScheduled(s, S, c),
         NEW i \in DOMAIN S, NEW a, NEW R, Half(s, S, c, i, a, R),
         NEW q \in QuantumRecords, IsQuantum(s, S, i, q),
         NEW n, n = Within(R, q), n # Len(R), q.has_pos, NEW b, b = R[n + 1], b.pos[1] < q.pos[2],
         NEW w, NEW y, Taken(s, a, R, q, <<HeadOf(s, b, q)>>, <<TailOf(s, b, q)>>, w, y)
  PROVE  Half(s, S, c, i, w, y)
<1> DEFINE d == [j \in 1 .. n |-> Claimed(s, R[j], q.tid)]
           x == SubSeq(R, n + 1, Len(R))
           v == a \o d
           h == HeadOf(s, b, q)
           t == TailOf(s, b, q)
           k == i + 1
<1>1. AreLeft(R, n, x) /\ ClaimedIn(s, R, q, n, d) /\ v = a \o d
  BY DEF AreLeft, ClaimedIn
<1>2. w = v \o <<h>> /\ y = <<t>> \o SubSeq(R, n + 2, Len(R))
  BY DEF Taken
<1> HIDE DEF d, x, v
<1>3. Half(s, S, c, i, v, x) /\ (i = Len(S) => n = Len(R))
  <2>1. HalfIn(s, S, c, i, R, n, d, v, x)
    BY <1>1, HalfWithin
  <2> QED
    BY <2>1 DEF HalfIn
<1>4. R \in Seq(RestBlocks(c)) /\ S \in Seq(Schedulings) /\ IsTrace(s)
  BY DEF Half, Switches, Messages
<1>5. n \in 0 .. Len(R) /\ n + 1 \in DOMAIN R /\ ~IsWithin(b, q)
  BY <1>4, WithinIs
<1>6. b \in RestBlocks(c)
  BY <1>4, <1>5, Places
<1>7. k \in DOMAIN S /\ i < Len(S)
  <2>1. i # Len(S)
    BY <1>3
  <2>2. i \in Nat /\ 1 <= i /\ i <= Len(S) /\ Len(S) \in Nat /\ DOMAIN S = 1 .. Len(S)
    BY <1>4, Places
  <2> QED
    BY <2>1, <2>2
<1>8. /\ h \in RestBlocks(c) /\ h \in TaskBlock
      /\ IsCut(h, b, b.pos[1], q.pos[2], b.tsc[1], q.tsc[2])
      /\ h.tid = q.tid
      /\ t \in RestBlocks(c)
      /\ IsCut(t, b, q.pos[2], b.pos[2], q.tsc[2], b.tsc[2])
  BY <1>4, <1>6, HeadAndTail
<1>9. q.pos[2] = TipOf(S, k) /\ q.tsc[2] = MatchedTsc(s, S, k) /\ q.tid = S[i].tid
  BY <1>7 DEF IsQuantum
<1>16. PutIn(R, n, t, y) /\ HasNext(R, n)
  BY <1>2, <1>5 DEF PutIn, HasNext
<1> HIDE DEF k, h, t
<1>10. TipOf(S, k) \in Nat
  <2>1. TipOf(S, k) \in DOMAIN s
    BY <1>7, TipIs DEF Switches
  <2> QED
    BY <1>4, <2>1, TraceFacts
<1>11. b.pos[1] \in Nat /\ b.pos[2] \in Nat /\ b.type = "trace"
  BY <1>6, BlockParts
<1>12. TipOf(S, k) < b.pos[2]
  <2>1. ~(q.pos[2] >= b.pos[2])
    BY <1>5 DEF IsWithin
  <2> QED
    BY <1>9, <1>10, <1>11, <2>1
<1>13. y \in Seq(RestBlocks(c)) /\ WithFirst(x, t, y) /\ x[1] = b
  <2>1. IsPutBack(RestBlocks(c), R, n, x, t, y)
    BY <1>1, <1>4, <1>8, <1>16, PutBack
  <2> QED
    BY <1>1, <2>1 DEF IsPutBack
<1>14. IsSplit(s, S, c, k, x[1], h, t)
  BY <1>8, <1>9, <1>11, <1>12, <1>13 DEF IsSplit, IsCut
<1>15. w = v \o <<h>> /\ k = i + 1 /\ h.tid = S[i].tid
  BY <1>2, <1>8, <1>9 DEF k
<1> QED
  BY <1>3, <1>7, <1>13, <1>14, <1>15, HalfCut

-----------------------------------------------------------------------------
(* Opening a trace *)

\* ipt_file's blocks R and quantums Q of trace s with the messages S
IsFile(s, S, c, R, Q) ==
  \E l : /\ l = Applied(s, S) /\ Earmarked(l) # {}
         /\ R = FromQuantum(s, TscBlocks(s, c, NoTid), FirstQuantum(l)) /\ R # <<>>
         /\ Q = Quantums(l, Head(R).tsc[1], InitialTsc, Tid(0, c))

\* A thread that runs is one of a task.
LEMMA TidIs ==
  ASSUME NEW c \in CPU, NEW t \in Threads \cup {0}
  PROVE  Tid(t, c) \in Tids
  BY DEF Tids

\* There are blocks and quantums, whatever was lost.
LEMMA FileParts ==
  ASSUME NEW s, IsTrace(s), NEW S, Messages(s, S), TipsAreSchedulings(s, S), NEW c \in CPU,
         NEW R, NEW Q, IsFile(s, S, c, R, Q)
  PROVE  R \in Seq(RestBlocks(c)) /\ Q \in Seq(QuantumRecords) /\ Q # <<>>
<1>1. PICK l : /\ l = Applied(s, S) /\ Earmarked(l) # {}
               /\ R = FromQuantum(s, TscBlocks(s, c, NoTid), FirstQuantum(l)) /\ R # <<>>
               /\ Q = Quantums(l, Head(R).tsc[1], InitialTsc, Tid(0, c))
  BY DEF IsFile
<1>2. l \in Seq(Schedulings)
  <2>1. MatchLoop(s, S, Applied(s, S), Len(s))
    BY AppliedIs
  <2> QED
    BY <1>1, <2>1 DEF MatchLoop
<1> DEFINE q == FirstQuantum(l)
           B == TscBlocks(s, c, NoTid)
<1>3. q \in Schedulings /\ l # <<>>
  <2>1. Earmarked(l) \subseteq DOMAIN l /\ DOMAIN l \subseteq Nat
    BY <1>2 DEF Earmarked
  <2>2. Min(Earmarked(l)) \in Earmarked(l)
    BY <1>1, <2>1, LeastIs
  <2>3. Min(Earmarked(l)) \in DOMAIN l
    BY <2>1, <2>2
  <2> QED
    BY <1>2, <2>3 DEF FirstQuantum
<1>4. B \in Seq(RestBlocks(c)) /\ AreWhole(s, B)
  BY TscBlocksAre
<1>5. R = FromQuantum(s, B, q)
  BY <1>1
<1> HIDE DEF B, q
<1>6. R \in Seq(RestBlocks(c)) /\ \E n : FromBlock(s, B, q, R, n)
  BY <1>3, <1>4, <1>5, FromQuantumIs
<1>7. PICK n : FromBlock(s, B, q, R, n)
  BY <1>6
<1>8. 1 \in DOMAIN R /\ Head(R) = R[1]
  BY <1>1, <1>6
<1>9. R[1].tsc[1] \in Nat /\ R[1].tsc[1] <= MaxClock
  <2>1. n \in 1 .. Len(B) + 1 /\ Len(R) = (Len(B) + 1) - n
    BY <1>7 DEF FromBlock
  <2>2. Len(B) \in Nat /\ DOMAIN B = 1 .. Len(B) /\ Len(R) \in Nat /\ DOMAIN R = 1 .. Len(R)
    BY <1>4, <1>6, Places
  <2>3. n <= Len(B) /\ n \in DOMAIN B
    BY <1>8, <2>1, <2>2
  <2>4. R[1] = IF q.tsc > B[n].tsc[1] THEN CutHead(s, B[n], q) ELSE B[n]
    BY <1>7, <2>3 DEF FromBlock
  <2>5. IsWhole(s, B[n]) /\ B[n] \in RestBlocks(c)
    BY <1>4, <2>3, Places DEF AreWhole
  <2>6. B[n].tsc[1] \in Nat /\ B[n].tsc[1] <= MaxClock
    BY <2>5, TraceFacts DEF IsWhole
  <2>7. q.tsc \in Nat /\ q.tsc <= MaxClock
    <3>1. q.tsc \in 0 .. MaxClock /\ MaxClock \in Nat
      BY <1>3, StreamsAssumption DEF Schedulings
    <3> QED
      BY <3>1
  <2>8. IsCut(CutHead(s, B[n], q), B[n], q.offset, B[n].pos[2], q.tsc, B[n].tsc[2])
    BY <1>3, <2>5, CutHeadIs
  <2>9. CutHead(s, B[n], q).tsc[1] = q.tsc
    BY <2>8 DEF IsCut
  <2> QED
    BY <2>4, <2>6, <2>7, <2>9
<1> DEFINE fst == R[1].tsc[1]
           tid == Tid(0, c)
<1>10. fst \in Nat /\ fst < Forever
  <2>1. MaxClock \in Nat /\ MaxClock <= 999
    BY StreamsAssumption DEF Forever
  <2> HIDE DEF fst
  <2>2. fst \in Nat /\ fst <= MaxClock
    BY <1>9 DEF fst
  <2> QED
    BY <2>1, <2>2 DEF Forever
<1>11. tid \in Tids /\ InitialTsc \in Nat
  BY TidIs DEF InitialTsc
<1>12. Q = Quantums(l, fst, InitialTsc, tid)
  BY <1>1, <1>8
<1> HIDE DEF fst, tid
<1>13. Q \in Seq(QuantumRecords) /\ Q # <<>>
  BY <1>2, <1>3, <1>10, <1>11, <1>12, QuantumsIs
<1> QED
  BY <1>6, <1>13

\* Without lost TIPs, the quantums are those of messages, and the first of them
\* begins with the blocks.
LEMMA FileOpened ==
  ASSUME NEW s, NEW S, Switches(s, S), NEW c \in CPU, NEW R, NEW Q, IsFile(s, S, c, R, Q)
  PROVE  \E i \in DOMAIN S : Upcoming(s, S, i, Q) /\ Half(s, S, c, i, <<>>, R)
<1>1. PICK l : /\ l = Applied(s, S) /\ Earmarked(l) # {}
               /\ R = FromQuantum(s, TscBlocks(s, c, NoTid), FirstQuantum(l)) /\ R # <<>>
               /\ Q = Quantums(l, Head(R).tsc[1], InitialTsc, Tid(0, c))
  BY DEF IsFile
<1>2. IsTrace(s) /\ Messages(s, S) /\ TipsAreSchedulings(s, S)
  BY DEF Switches
<1>3. /\ 1 \in DOMAIN S /\ FirstQuantum(l) = l[1] /\ l[1] \in Schedulings
      /\ l[1].tsc = MatchedTsc(s, S, 1) /\ l[1].offset = TipOf(S, 1)
  BY <1>1, FirstQuantumIs
<1> DEFINE q == l[1]
           B == TscBlocks(s, c, NoTid)
<1>4. B \in Seq(RestBlocks(c)) /\ AreWhole(s, B)
  BY <1>2, TscBlocksAre
<1>5. R = FromQuantum(s, B, q)
  BY <1>1, <1>3
<1>6. q \in Schedulings /\ q.tsc = MatchedTsc(s, S, 1) /\ q.offset = TipOf(S, 1)
  BY <1>3
<1> HIDE DEF B, q
<1>7. R \in Seq(RestBlocks(c)) /\ \E n : FromBlock(s, B, q, R, n)
  BY <1>2, <1>4, <1>5, <1>6, FromQuantumIs
<1>8. PICK n : FromBlock(s, B, q, R, n)
  BY <1>7
<1>9. Opened(s, S, B, R, n, c)
  BY <1>1, <1>3, <1>4, <1>6, <1>7, <1>8 DEF Opened, IsOpened
<1>10. /\ MatchedTsc(s, S, 1) <= R[1].tsc[1] /\ R[1].tsc[1] \in Nat /\ R[1].tsc[1] <= MaxClock
       /\ \A i \in DOMAIN S : MatchedTsc(s, S, i) <= R[1].tsc[1] => RestFrom(s, S, i, R)
  BY <1>9, OpenedRest
<1>11. Head(R) = R[1]
  BY <1>1, <1>7
<1> DEFINE fst == R[1].tsc[1]
           tid == Tid(0, c)
<1>12. tid \in Tids /\ InitialTsc \in Nat
  BY TidIs DEF InitialTsc
<1>13. Q = Quantums(l, fst, InitialTsc, tid)
  BY <1>1, <1>11
<1>14. fst \in Nat /\ fst <= MaxClock /\ MatchedTsc(s, S, 1) <= fst
  BY <1>10
<1>15. \A i \in DOMAIN S : MatchedTsc(s, S, i) <= fst => RestFrom(s, S, i, R)
  BY <1>10
<1> HIDE DEF fst, tid
<1>16. fst < Forever
  <2>1. MaxClock \in Nat /\ MaxClock <= 999
    BY StreamsAssumption DEF Forever
  <2> QED
    BY <1>14, <2>1 DEF Forever
<1>17. \E i \in DOMAIN S : Upcoming(s, S, i, Q) /\ MatchedTsc(s, S, i) <= fst
  BY <1>1, <1>3, <1>12, <1>13, <1>14, <1>16, UpcomingIs
<1>18. PICK i \in DOMAIN S : Upcoming(s, S, i, Q) /\ MatchedTsc(s, S, i) <= fst
  BY <1>17
<1>19. RestFrom(s, S, i, R)
  BY <1>15, <1>18
<1>20. HasAll(s, S, <<>>, R)
  BY <1>9, OpenedAll DEF HasAll
<1>21. Claims(s, S, c, <<>>) /\ Precedes(<<>>, R)
  BY DEF Claims, InOrder, Precedes
<1> QED
  BY <1>7, <1>18, <1>19, <1>20, <1>21 DEF Half

-----------------------------------------------------------------------------
(* Recording *)

\* The trace s and the messages S of CPU c at time now, when thread t runs
IsRecorded(s, S, c, now, t, overflows_) ==
  /\ IsTrace(s) /\ IsScheduled(s, S, c)
  /\ \A p \in DOMAIN s : s[p].at <= now
  /\ \A k \in DOMAIN S : S[k].tsc <= now /\ (~overflows_ => S[k].ipt_offset <= Len(s))
  /\ S # <<>> => S[Len(S)].tid = Tid(t, c)

\* A sequence with one more
LEMMA OneMore ==
  ASSUME NEW T, NEW a \in Seq(T), NEW e \in T, NEW w, w = Append(a, e), NEW n, n = Len(a) + 1
  PROVE  /\ w \in Seq(T) /\ Len(w) = n /\ DOMAIN w = 1 .. n /\ w[n] = e /\ n \in Nat /\ n \in DOMAIN w
         /\ DOMAIN a \subseteq DOMAIN w
         /\ \A i \in DOMAIN a : w[i] = a[i] /\ i < n
         /\ \A i \in DOMAIN w : i \in DOMAIN a \/ i = n
<1>1. Len(a) \in Nat /\ DOMAIN a = 1 .. Len(a)
  BY Places
<1>2. w \in Seq(T) /\ Len(w) = n /\ w[n] = e /\ n \in Nat
  BY <1>1
<1>3. DOMAIN w = 1 .. n
  BY <1>2, Places
<1>4. \A i \in DOMAIN a : w[i] = a[i] /\ i < n
  BY <1>1
<1>5. n \in DOMAIN w /\ DOMAIN a \subseteq DOMAIN w /\ \A i \in DOMAIN w : i \in DOMAIN a \/ i = n
  BY <1>1, <1>3
<1> QED
  BY <1>2, <1>3, <1>4, <1>5

\* One more packet of a trace
IsNext(s, x) ==
  /\ x \in TracePacket /\ x.tsc = IF x.kind \in {"psb", "mtc"} THEN x.at ELSE 0
  /\ \A p \in DOMAIN s : s[p].at <= x.at /\ (x.tsc # 0 => s[p].at < x.at)

\* A trace with one more packet is a trace.
LEMMA TraceGrows ==
  ASSUME NEW s, IsTrace(s), NEW x, IsNext(s, x), NEW w, w = Append(s, x)
  PROVE  IsTrace(w)
<1> DEFINE n == Len(s) + 1
<1>1. s \in Seq(TracePacket) /\ 1 \in DOMAIN s /\ s[1].kind = "psb"
  BY TraceFacts DEF IsTrace
<1>2. x \in TracePacket
  BY DEF IsNext
<1>3. /\ w \in Seq(TracePacket) /\ Len(w) = n /\ DOMAIN w = 1 .. n /\ w[n] = x /\ n \in Nat
      /\ \A i \in DOMAIN s : w[i] = s[i] /\ i < n
      /\ \A i \in DOMAIN w : i \in DOMAIN s \/ i = n
  BY <1>1, <1>2, OneMore
<1> HIDE DEF n
<1>4. w[1].kind = "psb" /\ Len(w) # 0
  BY <1>1, <1>3
<1>5. \A p \in DOMAIN w : w[p].tsc = IF w[p].kind \in {"psb", "mtc"} THEN w[p].at ELSE 0
  <2> TAKE p \in DOMAIN w
  <2>1. CASE p \in DOMAIN s
    BY <1>3, <2>1 DEF IsTrace
  <2>2. CASE p = n
    BY <1>3, <2>2 DEF IsNext
  <2> QED
    BY <1>3, <2>1, <2>2
<1>6. \A p, q \in DOMAIN w : p < q => w[p].at <= w[q].at /\ (w[q].tsc # 0 => w[p].at < w[q].at)
  <2> SUFFICES ASSUME NEW p \in DOMAIN w, NEW q \in DOMAIN w, p < q
               PROVE  w[p].at <= w[q].at /\ (w[q].tsc # 0 => w[p].at < w[q].at)
    OBVIOUS
  <2>1. p # n
    BY <1>3
  <2>2. p \in DOMAIN s /\ w[p] = s[p]
    BY <1>3, <2>1
  <2>3. CASE q \in DOMAIN s
    BY <1>3, <2>2, <2>3 DEF IsTrace
  <2>4. CASE q = n
    BY <1>3, <2>2, <2>4 DEF IsNext
  <2> QED
    BY <1>3, <2>3, <2>4
<1> QED
  BY <1>3, <1>4, <1>5, <1>6 DEF IsTrace

\* What packet x must be after the messages S, so that they are still where
\* the trace says
Fits(s, S, c, x) ==
  /\ \A k \in DOMAIN S : S[k].tsc <= x.at
  /\ x.kind = "tip" => \E k \in DOMAIN S : /\ Len(s) = S[k].ipt_offset /\ x.at = S[k].tsc
                                           /\ s[Len(s)].kind = "tnt"
  /\ \A k \in DOMAIN S :
       /\ S[k].ipt_offset < Len(s) + 1
       /\ k < Len(S) => S[k + 1].ipt_offset = Len(s) + 1 /\ x.kind = "tnt"
       => Tid(x.runner, c) = S[k].tid

\* A trace with one more packet that fits is scheduled by the same messages.
LEMMA ScheduledGrows ==
  ASSUME NEW s, IsTrace(s), NEW S, NEW c, IsScheduled(s, S, c), NEW x \in TracePacket, Fits(s, S, c, x),
         NEW w, w = Append(s, x)
  PROVE  IsScheduled(w, S, c)
<1> DEFINE n == Len(s) + 1
<1>1. s \in Seq(TracePacket) /\ Len(s) \in Nat /\ DOMAIN s = 1 .. Len(s)
  BY TraceFacts
<1>2. /\ w \in Seq(TracePacket) /\ Len(w) = n /\ DOMAIN w = 1 .. n /\ w[n] = x /\ n \in Nat
      /\ DOMAIN s \subseteq DOMAIN w
      /\ \A i \in DOMAIN s : w[i] = s[i] /\ i < n
      /\ \A i \in DOMAIN w : i \in DOMAIN s \/ i = n
  BY <1>1, OneMore
<1>3. /\ S \in Seq(Schedulings)
      /\ \A k \in DOMAIN S : S[k].ipt_offset \in Nat /\ 1 <= S[k].ipt_offset /\ S[k].ipt_offset <= n
      /\ Messages(s, S) /\ Located(s, S) /\ TipsAreSchedulings(s, S) /\ RunnersAreScheduled(s, S, c)
  <2>1. Messages(s, S) /\ Located(s, S) /\ TipsAreSchedulings(s, S) /\ RunnersAreScheduled(s, S, c)
    BY DEF IsScheduled
  <2>2. \A k \in DOMAIN S : S[k].ipt_offset \in 1 .. Len(s) + 1
    BY <2>1 DEF Messages
  <2> QED
    BY <1>1, <2>1, <2>2 DEF Messages
<1>4. /\ \A k \in DOMAIN S : S[k].tsc <= x.at
      /\ x.kind = "tip" => \E k \in DOMAIN S : /\ Len(s) = S[k].ipt_offset /\ x.at = S[k].tsc
                                               /\ s[Len(s)].kind = "tnt"
      /\ \A k \in DOMAIN S :
           /\ S[k].ipt_offset < n
           /\ k < Len(S) => S[k + 1].ipt_offset = n /\ x.kind = "tnt"
           => Tid(x.runner, c) = S[k].tid
  BY DEF Fits
<1>5. n = Len(s) + 1
  OBVIOUS
<1> HIDE DEF n
<1>6. Messages(w, S)
  <2>1. \A k \in DOMAIN S : S[k].ipt_offset \in 1 .. Len(w) + 1
    BY <1>2, <1>3
  <2> QED
    BY <1>3, <2>1 DEF Messages
<1>7. Located(w, S)
  <2> SUFFICES ASSUME NEW k \in DOMAIN S, NEW p \in DOMAIN w
               PROVE  /\ p < S[k].ipt_offset => w[p].at < S[k].tsc
                      /\ S[k].ipt_offset <= p => S[k].tsc <= w[p].at
    BY DEF Located
  <2>1. CASE p \in DOMAIN s
    BY <1>2, <1>3, <2>1 DEF Located
  <2>2. CASE p = n
    <3>1. ~(p < S[k].ipt_offset)
      BY <1>2, <1>3, <2>2
    <3> QED
      BY <1>2, <1>4, <2>2, <3>1
  <2> QED
    BY <1>2, <2>1, <2>2
<1>8. TipsAreSchedulings(w, S)
  <2> SUFFICES ASSUME NEW p \in DOMAIN w, w[p].kind = "tip"
               PROVE  \E k \in DOMAIN S : /\ p = S[k].ipt_offset + 1 /\ w[p].at = S[k].tsc
                                          /\ w[S[k].ipt_offset].kind = "tnt"
    BY DEF TipsAreSchedulings
  <2>1. CASE p \in DOMAIN s
    <3>1. PICK k \in DOMAIN S : /\ p = S[k].ipt_offset + 1 /\ s[p].at = S[k].tsc
                                /\ s[S[k].ipt_offset].kind = "tnt"
      BY <1>2, <1>3, <2>1 DEF TipsAreSchedulings
    <3>2. S[k].ipt_offset \in DOMAIN s
      <4>1. p \in 1 .. Len(s)
        BY <1>1, <2>1
      <4> QED
        BY <1>1, <1>3, <3>1, <4>1
    <3> QED
      BY <1>2, <2>1, <3>1, <3>2
  <2>2. CASE p = n
    <3>1. PICK k \in DOMAIN S : Len(s) = S[k].ipt_offset /\ x.at = S[k].tsc /\ s[Len(s)].kind = "tnt"
      BY <1>2, <1>4, <2>2
    <3>2. Len(s) \in DOMAIN s
      BY <1>1, <1>3, <3>1
    <3>3. p = S[k].ipt_offset + 1 /\ w[p].at = S[k].tsc /\ w[S[k].ipt_offset].kind = "tnt"
      BY <1>2, <1>5, <2>2, <3>1, <3>2
    <3> QED
      BY <3>3
  <2> QED
    BY <1>2, <2>1, <2>2
<1>9. RunnersAreScheduled(w, S, c)
  <2> SUFFICES ASSUME NEW k \in DOMAIN S, NEW p \in DOMAIN w, S[k].ipt_offset < p, Until(w, S, k, p)
               PROVE  Tid(w[p].runner, c) = S[k].tid
    BY DEF RunnersAreScheduled
  <2>1. CASE p \in DOMAIN s
    <3>1. w[p] = s[p]
      BY <1>2, <2>1
    <3>2. Until(s, S, k, p)
      BY <3>1 DEF Until
    <3> QED
      BY <1>3, <2>1, <3>1, <3>2 DEF RunnersAreScheduled
  <2>2. CASE p = n
    <3>1. k < Len(S) => S[k + 1].ipt_offset = n /\ x.kind = "tnt"
      <4> SUFFICES ASSUME k < Len(S) PROVE S[k + 1].ipt_offset = n /\ x.kind = "tnt"
        OBVIOUS
      <4>1. k + 1 \in DOMAIN S
        BY <1>3
      <4>2. ~(p < S[k + 1].ipt_offset)
        BY <1>2, <1>3, <2>2, <4>1
      <4>3. p = S[k + 1].ipt_offset /\ w[p].kind = "tnt"
        BY <4>2 DEF Until
      <4> QED
        BY <1>2, <2>2, <4>3
    <3>2. Tid(x.runner, c) = S[k].tid
      BY <1>4, <2>2, <3>1
    <3> QED
      BY <1>2, <2>2, <3>2
  <2> QED
    BY <1>2, <2>1, <2>2
<1> QED
  BY <1>6, <1>7, <1>8, <1>9 DEF IsScheduled

\* A message is about the place after the trace, and is later than all of it.
LEMMA MessagesGrow ==
  ASSUME NEW s, IsTrace(s), NEW S, NEW c, IsScheduled(s, S, c), NEW m \in Schedulings,
         ~m.earmarked, m.tsc # 0, m.ipt_offset = Len(s) + 1,
         \A k \in DOMAIN S : S[k].tsc < m.tsc, \A p \in DOMAIN s : s[p].at < m.tsc,
         NEW w, w = Append(S, m)
  PROVE  IsScheduled(s, w, c)
<1> DEFINE n == Len(S) + 1
<1>1. Len(s) \in Nat /\ DOMAIN s = 1 .. Len(s)
  BY TraceFacts
<1>2. /\ Messages(s, S) /\ Located(s, S) /\ TipsAreSchedulings(s, S) /\ RunnersAreScheduled(s, S, c)
      /\ S \in Seq(Schedulings)
      /\ \A k \in DOMAIN S : /\ ~S[k].earmarked /\ S[k].tsc # 0 /\ S[k].ipt_offset \in 1 .. Len(s) + 1
  BY DEF IsScheduled, Messages
<1>3. /\ w \in Seq(Schedulings) /\ Len(w) = n /\ DOMAIN w = 1 .. n /\ w[n] = m /\ n \in Nat
      /\ DOMAIN S \subseteq DOMAIN w
      /\ \A i \in DOMAIN S : w[i] = S[i] /\ i < n
      /\ \A i \in DOMAIN w : i \in DOMAIN S \/ i = n
  BY <1>2, OneMore
<1>4. Len(S) \in Nat /\ DOMAIN S = 1 .. Len(S) /\ n = Len(S) + 1
  BY <1>2, Places
<1> HIDE DEF n
<1>5. Messages(s, w)
  <2>1. \A k \in DOMAIN w : ~w[k].earmarked /\ w[k].tsc # 0 /\ w[k].ipt_offset \in 1 .. Len(s) + 1
    <3> TAKE k \in DOMAIN w
    <3>1. Len(s) + 1 \in 1 .. Len(s) + 1
      BY <1>1
    <3> QED
      BY <1>2, <1>3, <3>1
  <2>2. \A j, k \in DOMAIN w : j < k => w[j].tsc < w[k].tsc /\ w[j].ipt_offset <= w[k].ipt_offset
    <3> SUFFICES ASSUME NEW j \in DOMAIN w, NEW k \in DOMAIN w, j < k
                 PROVE  w[j].tsc < w[k].tsc /\ w[j].ipt_offset <= w[k].ipt_offset
      OBVIOUS
    <3>1. j # n /\ j \in DOMAIN S /\ w[j] = S[j]
      BY <1>3
    <3>2. CASE k \in DOMAIN S
      BY <1>2, <1>3, <3>1, <3>2 DEF Messages
    <3>3. CASE k = n
      <4>1. S[j].tsc < m.tsc
        BY <3>1
      <4>2. S[j].ipt_offset <= Len(s) + 1
        BY <1>1, <1>2, <3>1
      <4> QED
        BY <1>3, <3>1, <3>3, <4>1, <4>2
    <3> QED
      BY <1>3, <3>2, <3>3
  <2> QED
    BY <1>3, <2>1, <2>2 DEF Messages
<1>6. Located(s, w)
  <2> SUFFICES ASSUME NEW k \in DOMAIN w, NEW p \in DOMAIN s
               PROVE  /\ p < w[k].ipt_offset => s[p].at < w[k].tsc
                      /\ w[k].ipt_offset <= p => w[k].tsc <= s[p].at
    BY DEF Located
  <2>1. CASE k \in DOMAIN S
    BY <1>2, <1>3, <2>1 DEF Located
  <2>2. CASE k = n
    <3>1. ~(w[k].ipt_offset <= p)
      BY <1>1, <1>3, <2>2
    <3> QED
      BY <1>3, <2>2, <3>1
  <2> QED
    BY <1>3, <2>1, <2>2
<1>7. TipsAreSchedulings(s, w)
  BY SMTT(30), <1>2, <1>3 DEF TipsAreSchedulings
<1>8. RunnersAreScheduled(s, w, c)
  <2> SUFFICES ASSUME NEW k \in DOMAIN w, NEW p \in DOMAIN s, w[k].ipt_offset < p, Until(s, w, k, p)
               PROVE  Tid(s[p].runner, c) = w[k].tid
    BY DEF RunnersAreScheduled
  <2>1. CASE k \in DOMAIN S
    <3>1. Until(s, S, k, p)
      <4> SUFFICES ASSUME k < Len(S)
                   PROVE  p < S[k + 1].ipt_offset \/ (p = S[k + 1].ipt_offset /\ s[p].kind = "tnt")
        BY DEF Until
      <4>1. k + 1 \in DOMAIN S /\ k < Len(w)
        BY <1>3, <1>4, <2>1
      <4>2. w[k + 1] = S[k + 1]
        BY <1>3, <4>1
      <4> QED
        BY <4>1, <4>2 DEF Until
    <3>2. w[k] = S[k]
      BY <1>3, <2>1
    <3> QED
      BY <1>2, <2>1, <3>1, <3>2 DEF RunnersAreScheduled
  <2>2. CASE k = n
    <3>1. ~(w[k].ipt_offset < p)
      BY <1>1, <1>3, <2>2
    <3> QED
      BY <3>1
  <2> QED
    BY <1>3, <2>1, <2>2
<1> QED
  BY <1>5, <1>6, <1>7, <1>8 DEF IsScheduled

\* Time goes on, and the trace may begin to overflow.
LEMMA RecordedLater ==
  ASSUME NEW s, NEW S, NEW c, NEW now \in Nat, NEW t, NEW o, IsRecorded(s, S, c, now, t, o),
         NEW later \in Nat, now <= later, NEW v, o => v
  PROVE  IsRecorded(s, S, c, later, t, v)
<1>1. IsTrace(s) /\ IsScheduled(s, S, c) /\ S \in Seq(Schedulings)
  BY DEF IsRecorded, IsScheduled, Messages
<1>2. \A p \in DOMAIN s : s[p].at <= later
  <2> TAKE p \in DOMAIN s
  <2>1. s[p].at <= now /\ s[p].at \in Nat
    BY <1>1, TraceFacts, PacketParts DEF IsRecorded
  <2> QED
    BY <2>1
<1>3. \A k \in DOMAIN S : S[k].tsc <= later
  <2> TAKE k \in DOMAIN S
  <2>1. S[k].tsc <= now /\ S[k].tsc \in Nat
    BY <1>1, SchedulingParts DEF IsRecorded
  <2> QED
    BY <2>1
<1> QED
  BY <1>1, <1>2, <1>3 DEF IsRecorded

\* The parts of what is recorded
LEMMA RecordedParts ==
  ASSUME NEW s, NEW S, NEW c, NEW now, NEW t, NEW o, IsRecorded(s, S, c, now, t, o)
  PROVE  /\ IsTrace(s) /\ s \in Seq(TracePacket) /\ Len(s) \in Nat /\ DOMAIN s = 1 .. Len(s)
         /\ IsScheduled(s, S, c) /\ S \in Seq(Schedulings) /\ Len(S) \in Nat /\ DOMAIN S = 1 .. Len(S)
         /\ \A p \in DOMAIN s : s[p].at <= now /\ s[p].at \in Nat
         /\ \A k \in DOMAIN S : S[k].tsc <= now /\ S[k].tsc \in Nat
         /\ \A k \in DOMAIN S : S[k].ipt_offset \in Nat /\ S[k].ipt_offset <= Len(s) + 1
<1>1. IsTrace(s) /\ IsScheduled(s, S, c) /\ S \in Seq(Schedulings)
      /\ \A k \in DOMAIN S : S[k].ipt_offset \in 1 .. Len(s) + 1
  BY DEF IsRecorded, IsScheduled, Messages
<1>2. s \in Seq(TracePacket) /\ Len(s) \in Nat /\ DOMAIN s = 1 .. Len(s) /\ Len(S) \in Nat /\ DOMAIN S = 1 .. Len(S)
  BY <1>1, TraceFacts, Places
<1>3. \A p \in DOMAIN s : s[p].at <= now /\ s[p].at \in Nat
  BY <1>2, PacketParts DEF IsRecorded
<1>4. \A k \in DOMAIN S : S[k].tsc <= now /\ S[k].tsc \in Nat
  BY <1>1, SchedulingParts DEF IsRecorded
<1>5. \A k \in DOMAIN S : S[k].ipt_offset \in Nat /\ S[k].ipt_offset <= Len(s) + 1
  BY <1>1, <1>2
<1> QED
  BY <1>1, <1>2, <1>3, <1>4, <1>5

\* A packet that is not about a switch, and not while the trace overflows,
\* unless the overflow ends with it
LEMMA PacketRecorded ==
  ASSUME NEW s, NEW S, NEW c, NEW now \in Nat, NEW t, NEW o, IsRecorded(s, S, c, now, t, o),
         NEW x \in TracePacket, now <= x.at, x.kind \in {"psb", "mtc", "ovf"}, x.runner = t,
         x.tsc = IF x.kind \in {"psb", "mtc"} THEN x.at ELSE 0,
         x.kind # "ovf" => now < x.at,
         NEW w, w = Append(s, x), NEW v
  PROVE  IsRecorded(w, S, c, x.at, t, v)
<1>1. /\ IsTrace(s) /\ s \in Seq(TracePacket) /\ Len(s) \in Nat /\ DOMAIN s = 1 .. Len(s)
      /\ IsScheduled(s, S, c) /\ S \in Seq(Schedulings) /\ Len(S) \in Nat /\ DOMAIN S = 1 .. Len(S)
      /\ \A p \in DOMAIN s : s[p].at <= now /\ s[p].at \in Nat
      /\ \A k \in DOMAIN S : S[k].tsc <= now /\ S[k].tsc \in Nat
      /\ \A k \in DOMAIN S : S[k].ipt_offset \in Nat /\ S[k].ipt_offset <= Len(s) + 1
  BY RecordedParts
<1>2. x.at \in Nat
  <2>1. x.at \in 1 .. MaxClock /\ MaxClock \in Nat
    BY StreamsAssumption DEF TracePacket
  <2> QED
    BY <2>1
<1>3. IsNext(s, x)
  <2>1. \A p \in DOMAIN s : s[p].at <= x.at /\ (x.tsc # 0 => s[p].at < x.at)
    <3> TAKE p \in DOMAIN s
    <3>1. s[p].at <= now /\ s[p].at \in Nat
      BY <1>1
    <3>2. x.tsc # 0 => now < x.at
      OBVIOUS
    <3> QED
      BY <1>2, <3>1, <3>2
  <2> QED
    BY <2>1 DEF IsNext
<1>4. IsTrace(w)
  BY <1>1, <1>3, TraceGrows
<1>5. Fits(s, S, c, x)
  <2>1. \A k \in DOMAIN S : S[k].tsc <= x.at
    BY <1>1, <1>2
  <2>2. ASSUME NEW k \in DOMAIN S, k < Len(S) => S[k + 1].ipt_offset = Len(s) + 1 /\ x.kind = "tnt"
        PROVE  Tid(x.runner, c) = S[k].tid
    <3>1. ~(k < Len(S))
      BY <2>2
    <3>2. k = Len(S) /\ S # <<>>
      BY <1>1, <3>1
    <3> QED
      BY <3>2 DEF IsRecorded
  <2> QED
    BY <2>1, <2>2 DEF Fits
<1>6. IsScheduled(w, S, c)
  BY <1>1, <1>5, ScheduledGrows
<1> DEFINE n == Len(s) + 1
<1>7. /\ Len(w) = n /\ w[n] = x /\ n \in Nat
      /\ \A i \in DOMAIN s : w[i] = s[i]
      /\ \A i \in DOMAIN w : i \in DOMAIN s \/ i = n
  BY <1>1, OneMore
<1>8. \A p \in DOMAIN w : w[p].at <= x.at
  BY <1>1, <1>2, <1>7
<1>9. \A k \in DOMAIN S : S[k].tsc <= x.at /\ S[k].ipt_offset <= Len(w)
  BY <1>1, <1>2, <1>7
<1> QED
  BY <1>4, <1>6, <1>8, <1>9 DEF IsRecorded

\* The messages with one more: they are still in order, and the thread is that
\* of the last one.
LEMMA MessageRecorded ==
  ASSUME NEW s, NEW S, NEW c, NEW now \in Nat, NEW t, NEW o, IsRecorded(s, S, c, now, t, o),
         NEW m \in Schedulings, ~m.earmarked, now < m.tsc, m.ipt_offset = Len(s) + 1,
         NEW u, m.tid = Tid(u, c), NEW w, w = Append(S, m)
  PROVE  IsRecorded(s, w, c, m.tsc, u, TRUE)
<1>1. /\ IsTrace(s) /\ IsScheduled(s, S, c) /\ S \in Seq(Schedulings)
      /\ \A p \in DOMAIN s : s[p].at <= now /\ s[p].at \in Nat
      /\ \A k \in DOMAIN S : S[k].tsc <= now /\ S[k].tsc \in Nat
  BY RecordedParts
<1>2. m.tsc \in Nat
  <2>1. m.tsc \in 0 .. MaxClock /\ MaxClock \in Nat
    BY StreamsAssumption DEF Schedulings
  <2> QED
    BY <2>1
<1>3. /\ m.tsc # 0 /\ \A k \in DOMAIN S : S[k].tsc < m.tsc
      /\ \A p \in DOMAIN s : s[p].at < m.tsc
  BY <1>1, <1>2
<1>4. IsScheduled(s, w, c)
  BY <1>1, <1>3, MessagesGrow
<1> DEFINE n == Len(S) + 1
<1>5. /\ Len(w) = n /\ w[n] = m /\ n \in Nat
      /\ \A i \in DOMAIN S : w[i] = S[i]
      /\ \A i \in DOMAIN w : i \in DOMAIN S \/ i = n
  BY <1>1, OneMore
<1> HIDE DEF n
<1>6. \A k \in DOMAIN w : w[k].tsc <= m.tsc
  BY <1>2, <1>3, <1>5, <1>1
<1>7. \A p \in DOMAIN s : s[p].at <= m.tsc
  BY <1>1, <1>2, <1>3
<1>8. w[Len(w)].tid = Tid(u, c)
  BY <1>5
<1> QED
  BY <1>1, <1>4, <1>6, <1>7, <1>8 DEF IsRecorded

\* The branches and the TIP of the switch after its message
LEMMA SwitchRecorded ==
  ASSUME NEW s, NEW S, NEW c, NEW now \in Nat, NEW t, IsRecorded(s, S, c, now, t, FALSE),
         NEW m \in Schedulings, ~m.earmarked, now < m.tsc, m.ipt_offset = Len(s) + 1,
         NEW u, m.tid = Tid(u, c), NEW w, w = Append(S, m),
         NEW x \in TracePacket, x.kind = "tnt", x.at = m.tsc, x.tsc = 0, x.runner = t,
         NEW y \in TracePacket, y.kind = "tip", y.at = m.tsc, y.tsc = 0, y.runner = u,
         NEW v, v = Append(Append(s, x), y), NEW o
  PROVE  IsRecorded(v, w, c, m.tsc, u, o)
<1> DEFINE n == Len(S) + 1
           l == Len(s) + 1
           z == Append(s, x)
<1>1. /\ IsTrace(s) /\ s \in Seq(TracePacket) /\ Len(s) \in Nat /\ DOMAIN s = 1 .. Len(s)
      /\ IsScheduled(s, S, c) /\ S \in Seq(Schedulings) /\ Len(S) \in Nat /\ DOMAIN S = 1 .. Len(S)
      /\ \A p \in DOMAIN s : s[p].at <= now /\ s[p].at \in Nat
      /\ \A k \in DOMAIN S : S[k].tsc <= now /\ S[k].tsc \in Nat
      /\ \A k \in DOMAIN S : S[k].ipt_offset \in Nat
  BY RecordedParts
<1>2. IsRecorded(s, w, c, m.tsc, u, TRUE)
  BY MessageRecorded
<1>3. /\ IsScheduled(s, w, c) /\ w \in Seq(Schedulings)
      /\ \A k \in DOMAIN w : w[k].tsc <= m.tsc /\ w[k].tsc \in Nat
      /\ \A k \in DOMAIN w : w[k].ipt_offset \in Nat /\ w[k].ipt_offset <= Len(s) + 1
      /\ \A p \in DOMAIN s : s[p].at <= m.tsc /\ s[p].at \in Nat
  BY <1>2, RecordedParts
<1>4. /\ Len(w) = n /\ w[n] = m /\ n \in Nat /\ DOMAIN w = 1 .. n /\ n \in DOMAIN w
      /\ \A i \in DOMAIN S : w[i] = S[i] /\ i < n
      /\ \A i \in DOMAIN w : i \in DOMAIN S \/ i = n
  BY <1>1, OneMore
<1>5. /\ z \in Seq(TracePacket) /\ Len(z) = l /\ z[l] = x /\ l \in Nat
      /\ \A i \in DOMAIN s : z[i] = s[i]
      /\ \A i \in DOMAIN z : i \in DOMAIN s \/ i = l
  <2>1. z = Append(s, x) /\ l = Len(s) + 1
    OBVIOUS
  <2> HIDE DEF z, l
  <2> QED
    BY <1>1, <2>1, OneMore
<1>6. n = Len(S) + 1 /\ l = Len(s) + 1
  OBVIOUS
<1> HIDE DEF n, l
<1>7. m.ipt_offset = l /\ \A k \in DOMAIN S : S[k].ipt_offset < l
  <2>1. \A k \in DOMAIN S : S[k].ipt_offset <= Len(s)
    BY DEF IsRecorded
  <2> QED
    BY <1>1, <1>6, <2>1
<1>8. IsNext(s, x)
  BY <1>3 DEF IsNext
<1>9. IsTrace(z)
  BY <1>1, <1>8, TraceGrows
<1>10. Fits(s, w, c, x)
  <2>1. ASSUME NEW k \in DOMAIN w, w[k].ipt_offset < Len(s) + 1,
               k < Len(w) => w[k + 1].ipt_offset = Len(s) + 1 /\ x.kind = "tnt"
        PROVE  Tid(x.runner, c) = w[k].tid
    <3>1. k # n
      BY <1>4, <1>6, <1>7, <2>1
    <3>2. k \in DOMAIN S /\ w[k] = S[k] /\ k < n /\ k \in Nat
      BY <1>4, <3>1
    <3>3. w[k + 1].ipt_offset = l
      BY <1>4, <1>6, <2>1, <3>2
    <3>4. ~(k + 1 \in DOMAIN S)
      <4> SUFFICES ASSUME k + 1 \in DOMAIN S PROVE FALSE
        OBVIOUS
      <4>1. w[k + 1] = S[k + 1] /\ S[k + 1].ipt_offset < l /\ S[k + 1].ipt_offset \in Nat
        BY <1>1, <1>4, <1>7
      <4> QED
        BY <1>5, <3>3, <4>1
    <3>5. k = Len(S) /\ S # <<>>
      BY <1>1, <3>2, <3>4
    <3> QED
      BY <3>2, <3>5 DEF IsRecorded
  <2>2. \A k \in DOMAIN w : w[k].tsc <= x.at
    BY <1>3
  <2> QED
    BY <2>1, <2>2 DEF Fits
<1>11. IsScheduled(z, w, c)
  BY <1>1, <1>3, <1>10, ScheduledGrows
<1> HIDE DEF z
<1>12. \A p \in DOMAIN z : z[p].at <= m.tsc /\ z[p].at \in Nat
  <2>1. m.tsc \in Nat
    BY <1>3, <1>4
  <2> QED
    BY <1>3, <1>5, <2>1
<1>13. IsNext(z, y)
  BY <1>12 DEF IsNext
<1>14. v = Append(z, y)
  BY DEF z
<1>15. IsTrace(v)
  BY <1>9, <1>13, <1>14, TraceGrows
<1>16. Fits(z, w, c, y)
  <2>1. ASSUME NEW k \in DOMAIN w,
               k < Len(w) => w[k + 1].ipt_offset = Len(z) + 1 /\ y.kind = "tnt"
        PROVE  Tid(y.runner, c) = w[k].tid
    <3>1. ~(k < Len(w))
      BY <2>1
    <3>2. k = n
      BY <1>4, <3>1
    <3> QED
      BY <1>4, <3>2
  <2>2. Len(z) = w[n].ipt_offset /\ y.at = w[n].tsc /\ z[Len(z)].kind = "tnt"
    BY <1>4, <1>5, <1>7
  <2>3. \A k \in DOMAIN w : w[k].tsc <= y.at
    BY <1>3
  <2> QED
    BY <1>4, <2>1, <2>2, <2>3 DEF Fits
<1>17. IsScheduled(v, w, c)
  BY <1>9, <1>11, <1>14, <1>16, ScheduledGrows
<1> DEFINE h == Len(z) + 1
<1>18. /\ Len(v) = h /\ v[h] = y /\ h \in Nat
       /\ \A i \in DOMAIN z : v[i] = z[i]
       /\ \A i \in DOMAIN v : i \in DOMAIN z \/ i = h
  BY <1>5, <1>14, OneMore
<1>19. \A p \in DOMAIN v : v[p].at <= m.tsc
  <2>1. m.tsc \in Nat
    BY <1>3, <1>4
  <2> HIDE DEF h
  <2> QED
    BY <1>12, <1>18, <2>1
<1>20. \A k \in DOMAIN w : w[k].ipt_offset <= Len(v)
  BY <1>3, <1>5, <1>6, <1>18
<1>21. w[Len(w)].tid = Tid(u, c)
  BY <1>4
<1> QED
  BY <1>3, <1>15, <1>17, <1>19, <1>20, <1>21 DEF IsRecorded

-----------------------------------------------------------------------------
(* Recording never makes a trace and messages that do not fit. *)

\* The variables of the recording
RecordTypes ==
  /\ clock \in 1 .. MaxClock
  /\ running \in [CPU -> Threads \cup {0}]
  /\ stream \in [CPU -> Seq(TracePacket)]
  /\ overflow \in [CPU -> BOOLEAN] /\ missed \in [CPU -> BOOLEAN]
  /\ schedules \in [CPU -> Seq(Schedulings)]
RecordInv ==
  /\ RecordTypes
  /\ \A c \in CPU : IsRecorded(stream[c], schedules[c], c, clock, running[c], overflow[c])

\* A packet
IsPacket(x, kind, at, t) ==
  /\ x \in TracePacket /\ x.kind = kind /\ x.at = at /\ x.runner = t
  /\ x.tsc = IF kind \in {"psb", "mtc"} THEN at ELSE 0

\* It is one.
LEMMA PacketIs ==
  ASSUME NEW kind \in {"psb", "mtc", "tnt", "tip", "ovf"}, NEW at \in 1 .. MaxClock,
         NEW t \in Threads \cup {0}
  PROVE  /\ IsPacket(Packet(kind, at, t), kind, at, t)
         /\ \A b \in BOOLEAN : IsPacket([Packet(kind, at, t) EXCEPT !.lost = b], kind, at, t)
<1> DEFINE tsc == IF kind \in {"psb", "mtc"} THEN at ELSE 0
           x == Packet(kind, at, t)
<1>1. tsc \in 0 .. MaxClock
  BY StreamsAssumption
<1>2. x = [kind |-> kind, at |-> at, tsc |-> tsc, runner |-> t, lost |-> FALSE]
  BY DEF Packet
<1> HIDE DEF tsc, x
<1>3. x \in TracePacket
  BY <1>1, <1>2 DEF TracePacket
<1>4. x.kind = kind /\ x.at = at /\ x.runner = t /\ x.tsc = tsc
  BY ONLY <1>2
<1>5. ASSUME NEW b \in BOOLEAN, NEW y, y = [x EXCEPT !.lost = b]
      PROVE  y \in TracePacket /\ y.kind = kind /\ y.at = at /\ y.runner = t /\ y.tsc = tsc
  <2>1. y = [kind |-> kind, at |-> at, tsc |-> tsc, runner |-> t, lost |-> b]
    BY <1>2, <1>5
  <2>2. y \in TracePacket
    BY <1>1, <2>1 DEF TracePacket
  <2>3. y.kind = kind /\ y.at = at /\ y.runner = t /\ y.tsc = tsc
    BY ONLY <2>1
  <2> QED
    BY <2>2, <2>3
<1>6. \A b \in BOOLEAN : IsPacket([x EXCEPT !.lost = b], kind, at, t)
  BY <1>5 DEF IsPacket, tsc
<1>7. IsPacket(x, kind, at, t)
  BY <1>3, <1>4 DEF IsPacket, tsc
<1> QED
  BY <1>6, <1>7 DEF x

\* A message
LEMMA MessageIs ==
  ASSUME NEW tsc \in 0 .. MaxClock, NEW offset \in Nat, NEW tid \in Tids,
         NEW m, m = Scheduling(tsc, offset, tid)
  PROVE  m \in Schedulings /\ m.tsc = tsc /\ m.ipt_offset = offset /\ m.tid = tid /\ ~m.earmarked
<1>1. m = [tsc |-> tsc, ipt_offset |-> offset, tid |-> tid, earmarked |-> FALSE, offset |-> 0, type |-> "none"]
  BY DEF Scheduling
<1>2. m \in Schedulings
  BY <1>1 DEF Schedulings
<1>3. m.tsc = tsc /\ m.ipt_offset = offset /\ m.tid = tid /\ m.earmarked = FALSE
  BY ONLY <1>1
<1> QED
  BY <1>2, <1>3

\* At first
LEMMA RecordInit == Init => RecordInv
<1> SUFFICES ASSUME Init PROVE RecordInv
  OBVIOUS
<1> DEFINE x == Packet("psb", 1, 0)
<1>1. /\ clock = 1 /\ running = [c \in CPU |-> 0] /\ stream = [c \in CPU |-> <<x>>]
      /\ overflow = [c \in CPU |-> FALSE] /\ missed = [c \in CPU |-> FALSE]
      /\ schedules = [c \in CPU |-> <<>>]
  BY DEF Init
<1>2. 1 \in 1 .. MaxClock
  BY StreamsAssumption
<1>3. x \in TracePacket /\ x.kind = "psb" /\ x.at = 1 /\ x.tsc = 1
  <2>1. IsPacket(x, "psb", 1, 0)
    BY <1>2, PacketIs
  <2> QED
    BY <2>1 DEF IsPacket
<1> HIDE DEF x
<1>4. RecordTypes
  BY <1>1, <1>2, <1>3 DEF RecordTypes
<1>5. ASSUME NEW c \in CPU
      PROVE  IsRecorded(stream[c], schedules[c], c, clock, running[c], overflow[c])
  <2> DEFINE s == <<x>>
  <2>1. /\ stream[c] = s /\ schedules[c] = <<>> /\ clock = 1
        /\ s \in Seq(TracePacket) /\ Len(s) = 1 /\ DOMAIN s = {1} /\ s[1] = x
    BY <1>1, <1>3
  <2> HIDE DEF s
  <2>2. IsTrace(s)
    BY <1>3, <2>1 DEF IsTrace
  <2>3. IsScheduled(s, <<>>, c)
    <3>1. Messages(s, <<>>)
      BY DEF Messages
    <3>2. Located(s, <<>>) /\ RunnersAreScheduled(s, <<>>, c)
      BY DEF Located, RunnersAreScheduled
    <3>3. TipsAreSchedulings(s, <<>>)
      BY <1>3, <2>1 DEF TipsAreSchedulings
    <3> QED
      BY <3>1, <3>2, <3>3 DEF IsScheduled
  <2>4. \A p \in DOMAIN s : s[p].at <= 1
    BY <1>3, <2>1
  <2> QED
    BY <2>1, <2>2, <2>3, <2>4 DEF IsRecorded
<1> QED
  BY <1>4, <1>5 DEF RecordInv

\* The clock
LEMMA RecordTick == RecordInv /\ Tick => RecordInv'
<1> SUFFICES ASSUME RecordInv, Tick PROVE RecordInv'
  OBVIOUS
<1> DEFINE x(c) == Packet("mtc", clock', running[c])
<1>1. /\ clock < MaxClock /\ clock' = clock + 1
      /\ stream' = [c \in CPU |-> IF overflow[c] THEN stream[c] ELSE Append(stream[c], x(c))]
      /\ missed' = [c \in CPU |-> missed[c] \/ overflow[c]]
      /\ running' = running /\ overflow' = overflow /\ schedules' = schedules
  BY DEF Tick
<1>2. RecordTypes /\ \A c \in CPU : IsRecorded(stream[c], schedules[c], c, clock, running[c], overflow[c])
  BY DEF RecordInv
<1>3. clock \in Nat /\ clock' \in Nat /\ clock' \in 1 .. MaxClock /\ clock < clock' /\ clock <= clock'
  BY <1>1, <1>2, StreamsAssumption DEF RecordTypes
<1>4. \A c \in CPU : /\ x(c) \in TracePacket /\ x(c).kind = "mtc" /\ x(c).at = clock'
                     /\ x(c).runner = running[c] /\ x(c).tsc = clock'
  <2> TAKE c \in CPU
  <2>1. running[c] \in Threads \cup {0}
    BY <1>2 DEF RecordTypes
  <2>2. IsPacket(x(c), "mtc", clock', running[c])
    BY <1>3, <2>1, PacketIs
  <2> HIDE DEF x
  <2> QED
    BY <2>2 DEF IsPacket
<1> HIDE DEF x
<1>5. RecordTypes'
  <2>1. stream' \in [CPU -> Seq(TracePacket)]
    BY <1>1, <1>2, <1>4 DEF RecordTypes
  <2>2. missed' \in [CPU -> BOOLEAN]
    BY <1>1, <1>2 DEF RecordTypes
  <2> QED
    BY <1>1, <1>2, <1>3, <2>1, <2>2 DEF RecordTypes
<1>6. ASSUME NEW c \in CPU
      PROVE  IsRecorded(stream'[c], schedules'[c], c, clock', running'[c], overflow'[c])
  <2>1. IsRecorded(stream[c], schedules[c], c, clock, running[c], overflow[c])
    BY <1>2
  <2>2. CASE overflow[c]
    <3>1. stream'[c] = stream[c]
      BY <1>1, <2>2
    <3>2. IsRecorded(stream[c], schedules[c], c, clock', running[c], overflow[c])
      BY <1>3, <2>1, RecordedLater
    <3> QED
      BY <1>1, <3>1, <3>2
  <2>3. CASE ~overflow[c]
    <3> DEFINE y == x(c)
               w == Append(stream[c], y)
    <3>1. stream'[c] = w
      BY <1>1, <2>3
    <3>2. y \in TracePacket /\ y.kind = "mtc" /\ y.at = clock' /\ y.runner = running[c] /\ y.tsc = clock'
      BY <1>4
    <3> HIDE DEF y
    <3>3. IsRecorded(w, schedules[c], c, y.at, running[c], overflow[c])
      BY <1>3, <2>1, <3>2, PacketRecorded
    <3> QED
      BY <1>1, <3>1, <3>2, <3>3
  <2> QED
    BY <2>2, <2>3
<1> QED
  BY <1>5, <1>6 DEF RecordInv

\* A PSB in one trace
LEMMA RecordPsb == ASSUME NEW d \in CPU PROVE RecordInv /\ PsbPacket(d) => RecordInv'
<1> SUFFICES ASSUME RecordInv, PsbPacket(d) PROVE RecordInv'
  OBVIOUS
<1> DEFINE x == Packet("psb", clock', running[d])
           w == Append(stream[d], x)
<1>1. /\ clock < MaxClock /\ clock' = clock + 1 /\ ~overflow[d]
      /\ stream' = [stream EXCEPT ![d] = w]
      /\ running' = running /\ overflow' = overflow /\ missed' = missed /\ schedules' = schedules
  BY DEF PsbPacket
<1>2. RecordTypes /\ \A c \in CPU : IsRecorded(stream[c], schedules[c], c, clock, running[c], overflow[c])
  BY DEF RecordInv
<1>3. clock \in Nat /\ clock' \in Nat /\ clock' \in 1 .. MaxClock /\ clock < clock' /\ clock <= clock'
  BY <1>1, <1>2, StreamsAssumption DEF RecordTypes
<1>4. x \in TracePacket /\ x.kind = "psb" /\ x.at = clock' /\ x.runner = running[d] /\ x.tsc = clock'
  <2>1. running[d] \in Threads \cup {0}
    BY <1>2 DEF RecordTypes
  <2>2. IsPacket(x, "psb", clock', running[d])
    BY <1>3, <2>1, PacketIs
  <2> HIDE DEF x
  <2> QED
    BY <2>2 DEF IsPacket
<1> HIDE DEF x
<1>5. w \in Seq(TracePacket)
  BY <1>2, <1>4 DEF RecordTypes
<1>6. RecordTypes'
  <2>1. stream' \in [CPU -> Seq(TracePacket)]
    BY <1>1, <1>2, <1>5 DEF RecordTypes
  <2> QED
    BY <1>1, <1>2, <1>3, <2>1 DEF RecordTypes
<1>7. ASSUME NEW c \in CPU
      PROVE  IsRecorded(stream'[c], schedules'[c], c, clock', running'[c], overflow'[c])
  <2>1. IsRecorded(stream[c], schedules[c], c, clock, running[c], overflow[c])
    BY <1>2
  <2>2. CASE c = d
    <3>1. stream'[c] = w
      BY <1>1, <1>2, <2>2 DEF RecordTypes
    <3>2. IsRecorded(w, schedules[c], c, x.at, running[c], overflow[c])
      BY <1>3, <1>4, <2>1, <2>2, PacketRecorded
    <3> QED
      BY <1>1, <1>4, <3>1, <3>2
  <2>3. CASE c # d
    <3>1. stream'[c] = stream[c]
      BY <1>1, <1>2, <2>3 DEF RecordTypes
    <3>2. IsRecorded(stream[c], schedules[c], c, clock', running[c], overflow[c])
      BY <1>3, <2>1, RecordedLater
    <3> QED
      BY <1>1, <3>1, <3>2
  <2> QED
    BY <2>2, <2>3
<1> QED
  BY <1>6, <1>7 DEF RecordInv

\* A switch: its message, and its packets unless the trace overflows
LEMMA RecordSwitch ==
  ASSUME NEW d \in CPU, NEW t \in Threads \cup {0} PROVE RecordInv /\ Switch(d, t) => RecordInv'
<1> SUFFICES ASSUME RecordInv, Switch(d, t) PROVE RecordInv'
  OBVIOUS
<1> DEFINE o == Len(stream[d]) + 1
           tid == Tid(t, d)
           m == Scheduling(clock', o, tid)
           x == Packet("tnt", clock', running[d])
           y == Packet("tip", clock', t)
           s == stream[d]
           v == Append(Append(s, x), y)
           w == Append(schedules[d], m)
<1>1. /\ clock < MaxClock /\ clock' = clock + 1
      /\ running' = [running EXCEPT ![d] = t]
      /\ schedules' = [schedules EXCEPT ![d] = w]
      /\ stream' = [stream EXCEPT ![d] = IF overflow[d] THEN s ELSE s \o <<x, y>>]
      /\ overflow' = overflow /\ missed' = missed
  BY DEF Switch
<1>2. RecordTypes /\ \A c \in CPU : IsRecorded(stream[c], schedules[c], c, clock, running[c], overflow[c])
  BY DEF RecordInv
<1>3. clock \in Nat /\ clock' \in Nat /\ clock' \in 1 .. MaxClock /\ clock < clock' /\ clock <= clock'
      /\ clock' \in 0 .. MaxClock
  BY <1>1, <1>2, StreamsAssumption DEF RecordTypes
<1>4. s \in Seq(TracePacket) /\ schedules[d] \in Seq(Schedulings) /\ running[d] \in Threads \cup {0}
  BY <1>2 DEF RecordTypes
<1>5. x \in TracePacket /\ x.kind = "tnt" /\ x.at = clock' /\ x.runner = running[d] /\ x.tsc = 0
  <2>1. IsPacket(x, "tnt", clock', running[d])
    BY <1>3, <1>4, PacketIs
  <2> HIDE DEF x
  <2> QED
    BY <2>1 DEF IsPacket
<1>6. y \in TracePacket /\ y.kind = "tip" /\ y.at = clock' /\ y.runner = t /\ y.tsc = 0
  <2>1. IsPacket(y, "tip", clock', t)
    BY <1>3, PacketIs
  <2> HIDE DEF y
  <2> QED
    BY <2>1 DEF IsPacket
<1>7. m \in Schedulings /\ m.tsc = clock' /\ m.ipt_offset = o /\ m.tid = tid /\ ~m.earmarked
  <2>1. o \in Nat /\ tid \in Tids
    BY <1>4, TidIs
  <2>2. m = Scheduling(clock', o, tid)
    OBVIOUS
  <2> HIDE DEF o, tid, m
  <2> QED
    BY <1>3, <2>1, <2>2, MessageIs
<1>8. s \o <<x, y>> = v /\ v \in Seq(TracePacket) /\ w \in Seq(Schedulings)
  <2> HIDE DEF x, y, m, s
  <2> QED
    BY <1>4, <1>5, <1>6, <1>7
<1> HIDE DEF x, y, m
<1>9. RecordTypes'
  <2>1. stream' \in [CPU -> Seq(TracePacket)]
    BY <1>1, <1>2, <1>4, <1>8 DEF RecordTypes
  <2>2. schedules' \in [CPU -> Seq(Schedulings)] /\ running' \in [CPU -> Threads \cup {0}]
    BY <1>1, <1>2, <1>8 DEF RecordTypes
  <2> QED
    BY <1>1, <1>2, <1>3, <2>1, <2>2 DEF RecordTypes
<1>10. ASSUME NEW c \in CPU
      PROVE  IsRecorded(stream'[c], schedules'[c], c, clock', running'[c], overflow'[c])
  <2>1. IsRecorded(stream[c], schedules[c], c, clock, running[c], overflow[c])
    BY <1>2
  <2>2. CASE c = d
    <3>1. schedules'[d] = w /\ running'[d] = t /\ overflow'[d] = overflow[d]
          /\ stream'[d] = IF overflow[d] THEN s ELSE v
      BY <1>1, <1>2, <1>8 DEF RecordTypes
    <3>2. m.ipt_offset = Len(s) + 1 /\ m.tid = Tid(t, d)
      BY <1>7
    <3> DEFINE S == schedules[d]
               r == running[d]
    <3>3. w = Append(S, m) /\ v = Append(Append(s, x), y)
      OBVIOUS
    <3>4. overflow[d] \in BOOLEAN
      BY <1>2 DEF RecordTypes
    <3>5. CASE overflow[d]
      <4>1. IsRecorded(s, S, d, clock, r, TRUE)
        <5>1. overflow[d] = TRUE
          BY <3>5, <3>4
        <5> QED
          BY <2>1, <2>2, <5>1
      <4> HIDE DEF s, S, r, w
      <4>2. IsRecorded(s, w, d, m.tsc, t, TRUE)
        BY <1>3, <1>7, <3>2, <3>3, <4>1, MessageRecorded
      <4>3. overflow[d] = TRUE
        BY <3>5, <3>4
      <4> QED
        BY <1>7, <2>2, <3>1, <4>2, <4>3
    <3>6. CASE ~overflow[d]
      <4>1. IsRecorded(s, S, d, clock, r, FALSE)
        <5>1. overflow[d] = FALSE
          BY <3>6, <3>4
        <5> QED
          BY <2>1, <2>2, <5>1
      <4>2. x.runner = r
        BY <1>5
      <4> HIDE DEF s, S, r, w, v
      <4>3. \A oo : IsRecorded(v, w, d, m.tsc, t, oo)
        BY <1>3, <1>5, <1>6, <1>7, <3>2, <3>3, <4>1, <4>2, SwitchRecorded
      <4> QED
        BY <1>7, <2>2, <3>1, <3>6, <4>3
    <3> QED
      BY <3>5, <3>6
  <2>3. CASE c # d
    <3>1. stream'[c] = stream[c] /\ schedules'[c] = schedules[c] /\ running'[c] = running[c]
      BY <1>1, <1>2, <2>3 DEF RecordTypes
    <3>2. IsRecorded(stream[c], schedules[c], c, clock', running[c], overflow[c])
      BY <1>3, <2>1, RecordedLater
    <3> QED
      BY <1>1, <3>1, <3>2
  <2> QED
    BY <2>2, <2>3
<1> QED
  BY <1>9, <1>10 DEF RecordInv

\* The trace of a CPU begins to overflow.
LEMMA RecordOverflow == ASSUME NEW d \in CPU PROVE RecordInv /\ OverflowBegins(d) => RecordInv'
<1> SUFFICES ASSUME RecordInv, OverflowBegins(d) PROVE RecordInv'
  OBVIOUS
<1>1. /\ clock' = clock /\ stream' = stream /\ running' = running /\ schedules' = schedules
      /\ overflow' = [overflow EXCEPT ![d] = TRUE] /\ missed' = [missed EXCEPT ![d] = FALSE]
  BY DEF OverflowBegins
<1>2. RecordTypes /\ \A c \in CPU : IsRecorded(stream[c], schedules[c], c, clock, running[c], overflow[c])
  BY DEF RecordInv
<1>3. clock \in Nat /\ clock <= clock
  BY <1>2, StreamsAssumption DEF RecordTypes
<1>4. RecordTypes'
  BY <1>1, <1>2 DEF RecordTypes
<1>5. ASSUME NEW c \in CPU
      PROVE  IsRecorded(stream'[c], schedules'[c], c, clock', running'[c], overflow'[c])
  <2>1. IsRecorded(stream[c], schedules[c], c, clock, running[c], overflow[c])
    BY <1>2
  <2>2. overflow[c] => overflow'[c]
    BY <1>1, <1>2 DEF RecordTypes
  <2>3. IsRecorded(stream[c], schedules[c], c, clock, running[c], overflow'[c])
    BY <1>3, <2>1, <2>2, RecordedLater
  <2> QED
    BY <1>1, <2>3
<1> QED
  BY <1>4, <1>5 DEF RecordInv

\* The overflow ends with a packet.
LEMMA RecordOvf == ASSUME NEW d \in CPU PROVE RecordInv /\ OverflowEnds(d) => RecordInv'
<1> SUFFICES ASSUME RecordInv, OverflowEnds(d) PROVE RecordInv'
  OBVIOUS
<1> DEFINE x == [Packet("ovf", clock, running[d]) EXCEPT !.lost = missed[d]]
           w == Append(stream[d], x)
<1>1. /\ clock' = clock /\ running' = running /\ schedules' = schedules /\ missed' = missed
      /\ stream' = [stream EXCEPT ![d] = w] /\ overflow' = [overflow EXCEPT ![d] = FALSE]
  BY DEF OverflowEnds
<1>2. RecordTypes /\ \A c \in CPU : IsRecorded(stream[c], schedules[c], c, clock, running[c], overflow[c])
  BY DEF RecordInv
<1>3. clock \in Nat /\ clock \in 1 .. MaxClock
  BY <1>2, StreamsAssumption DEF RecordTypes
<1>4. x \in TracePacket /\ x.kind = "ovf" /\ x.at = clock /\ x.runner = running[d] /\ x.tsc = 0
  <2>1. running[d] \in Threads \cup {0} /\ missed[d] \in BOOLEAN
    BY <1>2 DEF RecordTypes
  <2>2. IsPacket(x, "ovf", clock, running[d])
    BY <1>3, <2>1, PacketIs
  <2> HIDE DEF x
  <2> QED
    BY <2>2 DEF IsPacket
<1> HIDE DEF x
<1>5. w \in Seq(TracePacket)
  BY <1>2, <1>4 DEF RecordTypes
<1>6. RecordTypes'
  <2>1. stream' \in [CPU -> Seq(TracePacket)] /\ overflow' \in [CPU -> BOOLEAN]
    BY <1>1, <1>2, <1>5 DEF RecordTypes
  <2> QED
    BY <1>1, <1>2, <1>3, <2>1 DEF RecordTypes
<1>7. ASSUME NEW c \in CPU
      PROVE  IsRecorded(stream'[c], schedules'[c], c, clock', running'[c], overflow'[c])
  <2>1. IsRecorded(stream[c], schedules[c], c, clock, running[c], overflow[c])
    BY <1>2
  <2>2. CASE c = d
    <3>1. stream'[c] = w
      BY <1>1, <1>2, <2>2 DEF RecordTypes
    <3>2. clock <= x.at
      BY <1>3, <1>4
    <3>3. IsRecorded(w, schedules[c], c, x.at, running[c], overflow'[c])
      BY <1>3, <1>4, <2>1, <2>2, <3>2, PacketRecorded
    <3> QED
      BY <1>1, <1>4, <3>1, <3>3
  <2>3. CASE c # d
    <3>1. stream'[c] = stream[c] /\ overflow'[c] = overflow[c]
      BY <1>1, <1>2, <2>3 DEF RecordTypes
    <3> QED
      BY <1>1, <2>1, <3>1
  <2> QED
    BY <2>2, <2>3
<1> QED
  BY <1>6, <1>7 DEF RecordInv

\* After the recording it stays as it is.
LEMMA RecordStays == RecordInv /\ UNCHANGED recordVars => RecordInv'
<1> SUFFICES ASSUME RecordInv, UNCHANGED recordVars PROVE RecordInv'
  OBVIOUS
<1>1. /\ clock' = clock /\ running' = running /\ stream' = stream /\ overflow' = overflow
      /\ missed' = missed /\ schedules' = schedules
  BY DEF recordVars
<1> QED
  BY <1>1 DEF RecordInv, RecordTypes

-----------------------------------------------------------------------------
(* The files, one CPU after another *)

Phases == {"record", "file", "quantum", "cut", "leave", "merge", "append", "done", "exit", "undefined"}
\* Before and between files, in a file, and after all files
Between == {"record", "file"}
Inside == {"quantum", "cut", "leave"}
After == {"merge", "append", "done"}

\* The blocks that tasks have of CPU c
TaskBlocksOf(c) == {b \in TaskBlock : b.cpu = c}

\* What is done with the blocks of the open file of CPU c, if it lost no TIP
InFile(s, S, c, ph, a, R, Q) ==
  \E i \in DOMAIN S :
    /\ Upcoming(s, S, i, Q)
    /\ ph # "leave" => Half(s, S, c, i, a, R)
    /\ ph = "leave" /\ i < Len(S) => Half(s, S, c, i + 1, a, R)
    /\ ph = "leave" /\ i = Len(S) => Half(s, S, c, i, a, R) /\ R = <<>>
IsOpen(s, S, c, ph, a, R, Q) ==
  /\ R \in Seq(RestBlocks(c)) /\ Q \in Seq(QuantumRecords) /\ Q # <<>>
  /\ ph # "quantum" => a # <<>>
  /\ HasTips(s, S) => InFile(s, S, c, ph, a, R, Q)
\* CPU c, whose tasks have blocks a, while the file of CPU k is worked on
IsFiled(s, S, c, ph, k, a, R, Q) ==
  /\ a \in Seq(TaskBlocksOf(c))
  /\ HasTips(s, S) => Claims(s, S, c, a)
  /\ (ph \in Between /\ k <= c) \/ (ph \in Inside /\ k < c) => a = <<>>
  /\ (ph \in Between \cup Inside /\ c < k) \/ ph \in After =>
       a # <<>> /\ (HasTips(s, S) => HasAll(s, S, a, <<>>))
  /\ ph \in Inside /\ c = k => IsOpen(s, S, c, ph, a, R, Q)
FileInv ==
  /\ phase \in Phases /\ cpu \in CPU /\ (phase = "record" => cpu = 0)
  /\ blocks \in [CPU -> Seq(TaskBlock)]
  /\ \A c \in CPU :
       IsFiled(stream[c], schedules[c], c, phase, cpu, blocks[c], rest, quantums)

\* CPUs are numbers.
LEMMA CpuIs == CPU \subseteq Nat /\ 0 \in CPU /\ CPUs \in Nat /\ \A c \in CPU : c <= CPUs - 1
<1> QED
  BY StreamsAssumption DEF CPU

\* The blocks of a task are those of some CPU.
LEMMA BlocksAre ==
  ASSUME NEW c, NEW a \in Seq(TaskBlocksOf(c))
  PROVE  /\ a \in Seq(TaskBlock) /\ \A i \in DOMAIN a : a[i] \in TaskBlock /\ a[i].cpu = c
<1>1. \A i \in DOMAIN a : a[i] \in TaskBlocksOf(c)
  OBVIOUS
<1>2. \A i \in DOMAIN a : a[i] \in TaskBlock /\ a[i].cpu = c
  BY <1>1 DEF TaskBlocksOf
<1>3. a \in Seq(TaskBlock)
  BY <1>2
<1> QED
  BY <1>2, <1>3

\* Nothing is claimed before the file is opened.
LEMMA NothingFiled ==
  ASSUME NEW s, NEW S, NEW c \in CPU, NEW ph \in Between, NEW k \in CPU, k <= c, NEW R, NEW Q
  PROVE  IsFiled(s, S, c, ph, k, <<>>, R, Q)
<1>1. Claims(s, S, c, <<>>)
  BY DEF Claims, InOrder
<1>2. k \in Nat /\ c \in Nat
  BY CpuIs
<1> QED
  BY <1>1, <1>2 DEF IsFiled, Between, Inside, After

\* A file that is not open is not worked on.
LEMMA OtherFiled ==
  ASSUME NEW s, NEW S, NEW c \in CPU, NEW ph \in Inside \cup {"file"}, NEW k \in CPU, c # k, NEW a, NEW R, NEW Q,
         IsFiled(s, S, c, ph, k, a, R, Q), NEW ph2 \in Inside, NEW R2, NEW Q2
  PROVE  IsFiled(s, S, c, ph2, k, a, R2, Q2)
<1>1. k \in Nat /\ c \in Nat
  BY CpuIs
<1> QED
  BY <1>1 DEF IsFiled, Between, Inside, After

\* When the parser gives up, what was claimed stays.
LEMMA StoppedFiled ==
  ASSUME NEW s, NEW S, NEW c, NEW ph, NEW k, NEW a, NEW R, NEW Q,
         IsFiled(s, S, c, ph, k, a, R, Q), NEW ph2 \in {"exit", "undefined"}, NEW R2, NEW Q2
  PROVE  IsFiled(s, S, c, ph2, k, a, R2, Q2)
BY DEF IsFiled, Between, Inside, After

\* One step in the open file
LEMMA FileTurn ==
  ASSUME RecordInv, FileInv, UNCHANGED recordVars, phase \in Inside \cup {"file"}, phase' \in Inside,
         cpu' = cpu, NEW a, blocks' = [blocks EXCEPT ![cpu] = a],
         a \in Seq(TaskBlocksOf(cpu)),
         HasTips(stream[cpu], schedules[cpu]) => Claims(stream[cpu], schedules[cpu], cpu, a),
         IsOpen(stream[cpu], schedules[cpu], cpu, phase', a, rest', quantums')
  PROVE  FileInv'
<1>1. stream' = stream /\ schedules' = schedules
  BY DEF recordVars
<1>2. cpu \in CPU /\ blocks \in [CPU -> Seq(TaskBlock)] /\ cpu \in Nat
  BY CpuIs DEF FileInv
<1>3. blocks' \in [CPU -> Seq(TaskBlock)]
  <2>1. a \in Seq(TaskBlock)
    BY BlocksAre
  <2> QED
    BY <1>2, <2>1
<1>4. phase' \in Phases /\ phase' # "record"
  BY DEF Inside, Phases
<1>5. ASSUME NEW c \in CPU
      PROVE  IsFiled(stream'[c], schedules'[c], c, phase', cpu', blocks'[c], rest', quantums')
  <2>1. IsFiled(stream[c], schedules[c], c, phase, cpu, blocks[c], rest, quantums)
    BY DEF FileInv
  <2>2. CASE c = cpu
    <3>1. blocks'[c] = a
      BY <1>2, <2>2
    <3>2. IsFiled(stream[cpu], schedules[cpu], cpu, phase', cpu, a, rest', quantums')
      BY <1>2 DEF IsFiled, Between, Inside, After
    <3> QED
      BY <1>1, <2>2, <3>1, <3>2
  <2>3. CASE c # cpu
    <3>1. blocks'[c] = blocks[c]
      BY <1>2, <2>3
    <3>2. IsFiled(stream[c], schedules[c], c, phase', cpu, blocks[c], rest', quantums')
      BY <1>2, <2>1, <2>3, OtherFiled
    <3> QED
      BY <1>1, <3>1, <3>2
  <2> QED
    BY <2>2, <2>3
<1> QED
  BY <1>2, <1>3, <1>4, <1>5 DEF FileInv

\* At first
LEMMA FileInit == Init => FileInv
<1> SUFFICES ASSUME Init PROVE FileInv
  OBVIOUS
<1>1. phase = "record" /\ cpu = 0 /\ blocks = [c \in CPU |-> <<>>]
  BY DEF Init
<1>2. \A c \in CPU : 0 <= c
  BY CpuIs
<1>3. blocks \in [CPU -> Seq(TaskBlock)]
  BY <1>1
<1>4. ASSUME NEW c \in CPU
      PROVE  IsFiled(stream[c], schedules[c], c, phase, cpu, blocks[c], rest, quantums)
  <2>1. phase \in Between /\ blocks[c] = <<>> /\ cpu \in CPU /\ cpu <= c
    BY <1>1, <1>2, CpuIs DEF Between
  <2> QED
    BY <2>1, NothingFiled
<1> QED
  BY <1>1, <1>3, <1>4, CpuIs DEF FileInv, Phases

\* While it is recorded nothing is filed, and when the recording ends.
LEMMA FileRecords ==
  ASSUME FileInv, phase = "record", phase' \in Between, UNCHANGED fileVars
  PROVE  FileInv'
<1>1. cpu' = cpu /\ blocks' = blocks /\ cpu = 0
  BY DEF fileVars, FileInv
<1>2. \A c \in CPU : 0 <= c /\ c \in Nat
  BY CpuIs
<1>3. blocks \in [CPU -> Seq(TaskBlock)]
  BY DEF FileInv
<1>4. ASSUME NEW c \in CPU
      PROVE  IsFiled(stream'[c], schedules'[c], c, phase', cpu', blocks'[c], rest', quantums')
  <2>1. IsFiled(stream[c], schedules[c], c, phase, cpu, blocks[c], rest, quantums)
    BY DEF FileInv
  <2>2. blocks[c] = <<>>
    BY <1>1, <1>2, <2>1 DEF IsFiled, Between
  <2> QED
    BY <1>1, <1>2, <2>2, NothingFiled, CpuIs
<1> QED
  BY <1>1, <1>3, <1>4, CpuIs DEF FileInv, Phases, Between

\* When the parser gives up
LEMMA FileStops ==
  ASSUME FileInv, UNCHANGED recordVars, phase' \in {"exit", "undefined"}, cpu' = cpu, blocks' = blocks
  PROVE  FileInv'
<1>1. stream' = stream /\ schedules' = schedules
  BY DEF recordVars
<1>2. ASSUME NEW c \in CPU
      PROVE  IsFiled(stream'[c], schedules'[c], c, phase', cpu', blocks'[c], rest', quantums')
  <2>1. IsFiled(stream[c], schedules[c], c, phase, cpu, blocks[c], rest, quantums)
    BY DEF FileInv
  <2> QED
    BY <1>1, <2>1, StoppedFiled
<1> QED
  BY <1>2 DEF FileInv, Phases

\* What is recorded of a CPU
LEMMA RecordIs ==
  ASSUME RecordInv, NEW c \in CPU
  PROVE  /\ IsTrace(stream[c]) /\ Messages(stream[c], schedules[c])
         /\ TipsAreSchedulings(stream[c], schedules[c])
         /\ RunnersAreScheduled(stream[c], schedules[c], c)
         /\ HasTips(stream[c], schedules[c]) => Switches(stream[c], schedules[c])
<1>1. IsRecorded(stream[c], schedules[c], c, clock, running[c], overflow[c])
  BY DEF RecordInv
<1> QED
  BY <1>1 DEF IsRecorded, IsScheduled, Switches

\* A file is opened.
LEMMA FileOpens == RecordInv /\ FileInv /\ OpenFile => FileInv'
<1> SUFFICES ASSUME RecordInv, FileInv, OpenFile PROVE FileInv'
  OBVIOUS
<1>1. UNCHANGED recordVars /\ cpu' = cpu /\ blocks' = blocks /\ phase = "file" /\ cpu \in CPU
  BY DEF OpenFile, FileInv
<1>2. CASE phase' \in {"exit", "undefined"}
  BY <1>1, <1>2, FileStops
<1>3. CASE ~(phase' \in {"exit", "undefined"})
  <2> DEFINE s == stream[cpu]
             S == schedules[cpu]
  <2>1. phase' = "quantum" /\ IsFile(s, S, cpu, rest', quantums')
    BY <1>3 DEF OpenFile, IsFile, Trace
  <2>2. /\ IsTrace(s) /\ Messages(s, S) /\ TipsAreSchedulings(s, S)
        /\ HasTips(s, S) => Switches(s, S)
    BY <1>1, RecordIs
  <2>3. IsFiled(s, S, cpu, phase, cpu, blocks[cpu], rest, quantums)
    BY <1>1 DEF FileInv
  <2>4. blocks[cpu] = <<>> /\ blocks \in [CPU -> Seq(TaskBlock)]
    BY <1>1, <2>3, CpuIs DEF IsFiled, Between, FileInv
  <2> HIDE DEF s, S
  <2>5. rest' \in Seq(RestBlocks(cpu)) /\ quantums' \in Seq(QuantumRecords) /\ quantums' # <<>>
    BY <1>1, <2>1, <2>2, FileParts
  <2>6. HasTips(s, S) => InFile(s, S, cpu, "quantum", <<>>, rest', quantums')
    <3> SUFFICES ASSUME HasTips(s, S) PROVE InFile(s, S, cpu, "quantum", <<>>, rest', quantums')
      OBVIOUS
    <3>1. \E i \in DOMAIN S : Upcoming(s, S, i, quantums') /\ Half(s, S, cpu, i, <<>>, rest')
      BY <1>1, <2>1, <2>2, FileOpened
    <3> QED
      BY <3>1 DEF InFile
  <2>7. IsOpen(s, S, cpu, phase', <<>>, rest', quantums')
    BY <2>1, <2>5, <2>6 DEF IsOpen
  <2>8. blocks' = [blocks EXCEPT ![cpu] = <<>>] /\ <<>> \in Seq(TaskBlocksOf(cpu))
    <3>1. blocks' = [blocks EXCEPT ![cpu] = blocks[cpu]]
      BY <1>1, <2>4
    <3> QED
      BY <2>4, <3>1
  <2>9. Claims(s, S, cpu, <<>>)
    BY DEF Claims, InOrder
  <2>10. phase' \in Inside /\ phase \in Inside \cup {"file"}
    BY <1>1, <2>1 DEF Inside
  <2> QED
    BY <1>1, <2>7, <2>8, <2>9, <2>10, FileTurn DEF s, S
<1> QED
  BY <1>2, <1>3

\* The block for a quantum's start or end
LEMMA MarkerIs ==
  ASSUME NEW type \in {"in", "out"}, NEW pos \in Nat, NEW tsc \in Nat, NEW psb \in Nat,
         NEW tid \in Tids, NEW c \in CPU, NEW m, m = Block(type, <<pos, pos>>, <<tsc, tsc>>, tid, c, psb)
  PROVE  m \in TaskBlocksOf(c) /\ m.type # "trace" /\ m.tsc[1] = tsc
<1>1. m = [type |-> type, pos |-> <<pos, pos>>, tsc |-> <<tsc, tsc>>, tid |-> tid, cpu |-> c, psb |-> psb]
  BY DEF Block
<1>2. m.type = type /\ m.tsc = <<tsc, tsc>> /\ m.cpu = c
  BY ONLY <1>1
<1>4. m.tsc[1] = tsc
  <2>1. <<tsc, tsc>>[1] = tsc
    OBVIOUS
  <2> QED
    BY ONLY <1>2, <2>1
<1>5. type # "trace"
  OBVIOUS
<1>3. m \in TaskBlock
  BY <1>1 DEF TaskBlock
<1> QED
  BY <1>2, <1>3, <1>4, <1>5 DEF TaskBlocksOf

\* The start of a quantum
LEMMA FileIn == RecordInv /\ FileInv /\ ScheduleIn => FileInv'
<1> SUFFICES ASSUME RecordInv, FileInv, ScheduleIn PROVE FileInv'
  OBVIOUS
<1> DEFINE s == stream[cpu]
           S == schedules[cpu]
           psb == LastPsb(s, Quantum.pos[1])
           tsc == TscAt(s, psb)
           m == Block("in", <<Quantum.pos[1], Quantum.pos[1]>>, <<tsc, tsc>>, Quantum.tid, cpu, psb)
           w == Append(blocks[cpu], m)
<1>1. /\ UNCHANGED recordVars /\ cpu' = cpu /\ quantums' = quantums /\ rest' = rest
      /\ phase = "quantum" /\ phase' = "cut" /\ cpu \in CPU
      /\ blocks' = [blocks EXCEPT ![cpu] = w] /\ blocks \in [CPU -> Seq(TaskBlock)]
  BY DEF ScheduleIn, FileInv, Trace
<1>2. phase \in Inside /\ phase' \in Inside
  BY <1>1 DEF Inside
<1>3. IsFiled(s, S, cpu, phase, cpu, blocks[cpu], rest, quantums)
  BY <1>1 DEF FileInv
<1>4. IsOpen(s, S, cpu, "quantum", blocks[cpu], rest, quantums) /\ blocks[cpu] \in Seq(TaskBlocksOf(cpu))
  BY <1>1, <1>2, <1>3 DEF IsFiled
<1>5. Quantum \in QuantumRecords
  BY <1>4 DEF Quantum, IsOpen
<1>6. Quantum.tid \in Tids /\ Quantum.pos[1] \in Nat
  <2>1. Quantum.pos \in Nat \X Nat /\ Quantum.tid \in Tids
    BY <1>5 DEF QuantumRecords
  <2> QED
    BY <2>1
<1>7. IsTrace(s) /\ (HasTips(s, S) => Switches(s, S))
  BY <1>1, RecordIs
<1> HIDE DEF s, S
<1>8. psb \in DOMAIN s /\ psb \in Nat
  BY <1>6, <1>7, LastPsbIs
<1>9. tsc \in Nat
  <2> HIDE DEF psb
  <2>1. SlotOf(s, psb) \in Timed(s) /\ TscAt(s, psb) = s[SlotOf(s, psb)].tsc
    BY <1>7, <1>8, SlotIs
  <2> QED
    BY <1>7, <2>1, TraceFacts
<1>10. m \in TaskBlocksOf(cpu) /\ m.type # "trace" /\ m.tsc[1] = tsc
  <2> HIDE DEF psb, tsc
  <2> QED
    BY <1>1, <1>6, <1>8, <1>9, MarkerIs
<1>11. w \in Seq(TaskBlocksOf(cpu)) /\ w # <<>> /\ m \in TaskBlock
  <2>1. m \in TaskBlock
    BY <1>10 DEF TaskBlocksOf
  <2> HIDE DEF m
  <2> QED
    BY <1>4, <1>10, <2>1
<1>12. HasTips(s, S) => InFile(s, S, cpu, "cut", w, rest, quantums) /\ Claims(s, S, cpu, w)
  <2> SUFFICES ASSUME HasTips(s, S)
               PROVE  InFile(s, S, cpu, "cut", w, rest, quantums) /\ Claims(s, S, cpu, w)
    OBVIOUS
  <2>1. PICK i \in DOMAIN S : Upcoming(s, S, i, quantums) /\ Half(s, S, cpu, i, blocks[cpu], rest)
    BY <1>4 DEF IsOpen, InFile
  <2>2. IsQuantum(s, S, i, Quantum)
    <3>1. 1 \in DOMAIN quantums /\ quantums[1] = Quantum
      BY <1>4 DEF Quantum, IsOpen
    <3>2. IsQuantum(s, S, (i + 1) - 1, quantums[1])
      BY <2>1, <3>1 DEF Upcoming
    <3>3. (i + 1) - 1 = i
      <4>1. S \in Seq(Schedulings)
        BY <1>7 DEF Switches, Messages
      <4>2. i \in Nat
        BY <4>1, SchedulingParts
      <4> QED
        BY <4>2
    <3> QED
      BY <3>1, <3>2, <3>3
  <2>3. tsc <= MatchedTsc(s, S, i)
    <3>1. Quantum.pos[1] = TipOf(S, i)
      BY <2>2 DEF IsQuantum
    <3> QED
      BY <1>7, <3>1, PsbTsc
  <2> HIDE DEF m, tsc
  <2>4. Half(s, S, cpu, i, w, rest)
    BY <1>7, <1>10, <1>11, <2>1, <2>3, HalfMarked
  <2> QED
    BY <2>1, <2>4 DEF InFile, Half
<1> HIDE DEF w
<1>13. IsOpen(s, S, cpu, phase', w, rest', quantums')
  BY <1>1, <1>4, <1>11, <1>12 DEF IsOpen
<1> QED
  BY <1>1, <1>2, <1>11, <1>12, <1>13, FileTurn DEF s, S

\* What is left of blocks after some of them
LEMMA SomeLeft ==
  ASSUME NEW T, NEW R \in Seq(T), NEW n \in Nat
  PROVE  SubSeq(R, n + 2, Len(R)) \in Seq(T)
<1>1. CASE n + 2 <= Len(R) + 1
  <2>1. n + 2 \in 1 .. Len(R) + 1
    BY <1>1
  <2> QED
    BY <2>1, Rest
<1>2. CASE ~(n + 2 <= Len(R) + 1)
  <2>1. n + 2 > Len(R) /\ Len(R) \in Nat
    BY <1>2
  <2>2. SubSeq(R, n + 2, Len(R)) = <<>>
    BY <2>1
  <2> QED
    BY <2>2
<1> QED
  BY <1>1, <1>2

\* Joined sequences
LEMMA JoinedTypes ==
  ASSUME NEW T, NEW a \in Seq(T), NEW b \in Seq(T), NEW d \in Seq(T)
  PROVE  /\ a \o b \in Seq(T) /\ a \o b \o d \in Seq(T)
         /\ a # <<>> => a \o b \o d # <<>>
<1>1. a \o b \in Seq(T) /\ (a # <<>> => a \o b # <<>>)
  OBVIOUS
<1> DEFINE e == a \o b
<1> HIDE DEF e
<1>2. e \in Seq(T) => e \o d \in Seq(T) /\ (e # <<>> => e \o d # <<>>)
  OBVIOUS
<1> QED
  BY <1>1, <1>2 DEF e

\* The open file
LEMMA OpenIs ==
  ASSUME RecordInv, FileInv, phase \in Inside
  PROVE  /\ cpu \in CPU /\ IsTrace(Trace)
         /\ HasTips(Trace, schedules[cpu]) => Switches(Trace, schedules[cpu])
         /\ RunnersAreScheduled(Trace, schedules[cpu], cpu)
         /\ blocks \in [CPU -> Seq(TaskBlock)]
         /\ blocks[cpu] \in Seq(TaskBlocksOf(cpu)) /\ Quantum \in QuantumRecords
         /\ rest \in Seq(RestBlocks(cpu)) /\ quantums \in Seq(QuantumRecords) /\ quantums # <<>>
         /\ phase # "quantum" => blocks[cpu] # <<>>
         /\ HasTips(Trace, schedules[cpu]) =>
              InFile(Trace, schedules[cpu], cpu, phase, blocks[cpu], rest, quantums)
<1>1. cpu \in CPU /\ blocks \in [CPU -> Seq(TaskBlock)]
  BY DEF FileInv
<1>2. IsFiled(Trace, schedules[cpu], cpu, phase, cpu, blocks[cpu], rest, quantums)
  BY <1>1 DEF FileInv, Trace
<1>3. IsOpen(Trace, schedules[cpu], cpu, phase, blocks[cpu], rest, quantums)
      /\ blocks[cpu] \in Seq(TaskBlocksOf(cpu))
  BY <1>1, <1>2 DEF IsFiled
<1>4. Quantum \in QuantumRecords
  BY <1>3 DEF Quantum, IsOpen
<1> QED
  BY <1>1, <1>3, <1>4, RecordIs DEF IsOpen, Trace

\* It is at the quantum of a message.
LEMMA QuantumIs ==
  ASSUME NEW s, NEW S, Switches(s, S), NEW i \in DOMAIN S, NEW Q \in Seq(QuantumRecords), Q # <<>>,
         Upcoming(s, S, i, Q)
  PROVE  IsQuantum(s, S, i, Head(Q)) /\ i \in Nat /\ i <= Len(S) /\ Len(S) \in Nat /\ DOMAIN S = 1 .. Len(S)
<1>1. 1 \in DOMAIN Q /\ Q[1] = Head(Q)
  OBVIOUS
<1>2. IsQuantum(s, S, (i + 1) - 1, Q[1])
  BY <1>1 DEF Upcoming
<1>3. S \in Seq(Schedulings)
  BY DEF Switches, Messages
<1>4. i \in Nat /\ i <= Len(S) /\ Len(S) \in Nat /\ DOMAIN S = 1 .. Len(S)
  BY <1>3, SchedulingParts
<1>5. (i + 1) - 1 = i
  BY <1>4
<1> QED
  BY <1>1, <1>2, <1>4, <1>5

\* The blocks of tasks after some are claimed, and what is left
ClaimedBlocks(part) ==
  blocks[cpu] \o [i \in 1 .. Within(rest, Quantum) |-> Claimed(Trace, rest[i], Quantum.tid)] \o part
LeftBlocks(left) == left \o SubSeq(rest, Within(rest, Quantum) + 2, Len(rest))

\* Claiming makes blocks of tasks, and blocks that are left.
LEMMA FileClaims ==
  ASSUME RecordInv, FileInv, phase = "cut", NEW part, NEW left, NEW again \in BOOLEAN, ClaimBlocks(part, left, again),
         part \in Seq(TaskBlocksOf(cpu)), left \in Seq(RestBlocks(cpu)),
         HasTips(Trace, schedules[cpu]) =>
           InFile(Trace, schedules[cpu], cpu, phase', ClaimedBlocks(part), LeftBlocks(left), quantums)
  PROVE  FileInv'
<1> DEFINE n == Within(rest, Quantum)
           d == [i \in 1 .. n |-> Claimed(Trace, rest[i], Quantum.tid)]
           w == ClaimedBlocks(part)
           y == LeftBlocks(left)
<1>1. /\ blocks' = [blocks EXCEPT ![cpu] = w] /\ rest' = y
      /\ UNCHANGED recordVars /\ cpu' = cpu /\ quantums' = quantums
      /\ phase' = IF again THEN "cut" ELSE "leave"
  <2>1. blocks' = [blocks EXCEPT ![cpu] = @ \o d \o part] /\ rest' = left \o SubSeq(rest, n + 2, Len(rest))
        /\ UNCHANGED recordVars /\ cpu' = cpu /\ quantums' = quantums
        /\ phase' = IF again THEN "cut" ELSE "leave"
    BY DEF ClaimBlocks
  <2> QED
    BY <2>1 DEF ClaimedBlocks, LeftBlocks
<1>2. phase \in Inside /\ phase' \in Inside /\ phase' # "quantum"
  BY <1>1 DEF Inside
<1>3. /\ cpu \in CPU /\ IsTrace(Trace) /\ blocks[cpu] \in Seq(TaskBlocksOf(cpu)) /\ Quantum \in QuantumRecords
      /\ rest \in Seq(RestBlocks(cpu)) /\ quantums \in Seq(QuantumRecords) /\ quantums # <<>>
      /\ blocks[cpu] # <<>>
  BY <1>2, OpenIs
<1>4. d \in Seq(TaskBlocksOf(cpu)) /\ n \in Nat
  <2>1. n \in 0 .. Len(rest)
    <3> DEFINE N == n
    <3>1. N = Within(rest, Quantum)
      OBVIOUS
    <3> HIDE DEF N
    <3>2. N \in 0 .. Len(rest)
      BY <1>3, <3>1, WithinIs
    <3> QED
      BY <3>1, <3>2
  <2> HIDE DEF n
  <2>2. Quantum.tid \in Tids
    BY <1>3 DEF QuantumRecords
  <2>3. AreClaimed(Trace, rest, n, Quantum.tid, d)
    BY <2>1 DEF AreClaimed
  <2> HIDE DEF d
  <2>4. AreOfTask(cpu, rest, n, Quantum.tid, d)
    BY <1>3, <2>2, <2>3, ClaimedAre
  <2>5. d \in Seq(TaskBlock) /\ Len(d) = n /\ DOMAIN d = 1 .. n /\ n \in Nat
    BY <2>4 DEF AreOfTask
  <2>6. \A i \in DOMAIN d : d[i] \in TaskBlocksOf(cpu)
    <3>1. \A i \in DOMAIN d : d[i] \in TaskBlock
      BY <2>5
    <3>2. \A i \in DOMAIN d : d[i].cpu = cpu
      BY <2>4 DEF AreOfTask
    <3> QED
      BY <3>1, <3>2 DEF TaskBlocksOf
  <2>7. d \in Seq(TaskBlocksOf(cpu))
    BY <2>5, <2>6
  <2> QED
    BY <2>5, <2>7
<1>5. w \in Seq(TaskBlocksOf(cpu)) /\ w # <<>>
  <2>1. w = blocks[cpu] \o d \o part
    BY DEF ClaimedBlocks
  <2> HIDE DEF d, w
  <2> QED
    BY <1>3, <1>4, <2>1, JoinedTypes
<1>6. y \in Seq(RestBlocks(cpu))
  <2> DEFINE z == SubSeq(rest, n + 2, Len(rest))
  <2>1. y = left \o z
    BY DEF LeftBlocks
  <2> HIDE DEF n
  <2>2. z \in Seq(RestBlocks(cpu))
    BY <1>3, <1>4, SomeLeft
  <2> HIDE DEF z, y
  <2> QED
    BY <2>1, <2>2, JoinedTypes
<1>7. HasTips(Trace, schedules[cpu]) => Claims(Trace, schedules[cpu], cpu, w)
  <2> SUFFICES ASSUME HasTips(Trace, schedules[cpu]) PROVE Claims(Trace, schedules[cpu], cpu, w)
    OBVIOUS
  <2>1. PICK i \in DOMAIN schedules[cpu] :
           \/ Half(Trace, schedules[cpu], cpu, i, w, y)
           \/ Half(Trace, schedules[cpu], cpu, i + 1, w, y)
           \/ ~(i < Len(schedules[cpu])) /\ i # Len(schedules[cpu])
    BY <1>1 DEF InFile
  <2>2. schedules[cpu] \in Seq(Schedulings)
    BY <1>3 DEF RecordInv, RecordTypes
  <2>3. i < Len(schedules[cpu]) \/ i = Len(schedules[cpu])
    BY <2>2
  <2> QED
    BY <2>1, <2>3 DEF Half
<1> HIDE DEF w, y, d, n
<1>8. IsOpen(Trace, schedules[cpu], cpu, phase', w, rest', quantums')
  BY <1>1, <1>2, <1>3, <1>5, <1>6, <1>7 DEF IsOpen, w, y
<1> QED
  BY <1>1, <1>2, <1>5, <1>7, <1>8, FileTurn DEF Trace

\* A block that is left of this trace
LEMMA CrossingIs ==
  ASSUME RecordInv, FileInv, phase = "cut", ~AtEnd
  PROVE  /\ Crossing \in RestBlocks(cpu) /\ Crossing = rest[InQuantum + 1]
         /\ InQuantum # Len(rest) /\ InQuantum = Within(rest, Quantum)
<1>1. phase \in Inside
  BY DEF Inside
<1>2. rest \in Seq(RestBlocks(cpu))
  BY <1>1, OpenIs
<1> DEFINE n == InQuantum
<1>3. n = Within(rest, Quantum)
  BY DEF InQuantum
<1>4. n # Len(rest)
  BY DEF AtEnd
<1> HIDE DEF n
<1>5. n + 1 \in DOMAIN rest
  BY <1>2, <1>3, <1>4, WithinIs
<1>6. rest[n + 1] \in RestBlocks(cpu)
  BY <1>2, <1>5
<1> QED
  BY <1>3, <1>4, <1>6 DEF Crossing, n

\* What InFile says when blocks have been cut in a quantum
LEMMA QuantumLeft ==
  ASSUME NEW s, NEW S, NEW c, NEW i \in DOMAIN S, NEW Q, Upcoming(s, S, i, Q), NEW a, NEW R,
         i < Len(S) => Half(s, S, c, i + 1, a, R), i = Len(S) => Half(s, S, c, i, a, R) /\ R = <<>>
  PROVE  InFile(s, S, c, "leave", a, R, Q)
BY DEF InFile

\* A quantum that ends between blocks
LEMMA FileCutsNothing == RecordInv /\ FileInv /\ CutNothing => FileInv'
<1> SUFFICES ASSUME RecordInv, FileInv, CutNothing PROVE FileInv'
  OBVIOUS
<1> DEFINE s == Trace
           S == schedules[cpu]
           left == IF AtEnd THEN <<>> ELSE <<Crossing>>
           w == ClaimedBlocks(<<>>)
           y == LeftBlocks(left)
<1>1. phase = "cut" /\ ClaimBlocks(<<>>, left, FALSE) /\ phase' = "leave"
  BY DEF CutNothing, ClaimBlocks
<1>2. /\ cpu \in CPU /\ (HasTips(s, S) => Switches(s, S)) /\ RunnersAreScheduled(s, S, cpu)
      /\ Quantum \in QuantumRecords /\ quantums \in Seq(QuantumRecords) /\ quantums # <<>>
      /\ HasTips(s, S) => InFile(s, S, cpu, phase, blocks[cpu], rest, quantums)
  BY <1>1, OpenIs DEF Inside
<1>3. left \in Seq(RestBlocks(cpu))
  BY <1>1, CrossingIs
<1>4. HasTips(s, S) => InFile(s, S, cpu, phase', w, y, quantums)
  <2> SUFFICES ASSUME HasTips(s, S) PROVE InFile(s, S, cpu, phase', w, y, quantums)
    OBVIOUS
  <2>1. PICK i \in DOMAIN S : Upcoming(s, S, i, quantums) /\ Half(s, S, cpu, i, blocks[cpu], rest)
    BY <1>1, <1>2 DEF InFile
  <2>2. IsQuantum(s, S, i, Quantum)
    BY <1>2, <2>1, QuantumIs DEF Quantum
  <2> DEFINE n == InQuantum
  <2>3. n = Within(rest, Quantum)
    BY DEF InQuantum
  <2>4. Taken(s, blocks[cpu], rest, Quantum, <<>>, left, w, y)
    BY DEF Taken, ClaimedBlocks, LeftBlocks
  <2>5. \/ n = Len(rest) /\ left = <<>>
        \/ /\ n # Len(rest) /\ left = <<rest[n + 1]>>
           /\ IF Quantum.has_pos THEN rest[n + 1].pos[1] >= Quantum.pos[2] ELSE rest[n + 1].tsc[1] >= Quantum.tsc[2]
    BY DEF CutNothing, AtEnd, Crossing
  <2> HIDE DEF n, w, y, left, s, S
  <2>6. /\ i < Len(S) => Half(s, S, cpu, i + 1, w, y)
        /\ i = Len(S) => Half(s, S, cpu, i, w, y) /\ y = <<>>
    BY <1>2, <2>1, <2>2, <2>3, <2>4, <2>5, HalfNothing
  <2> QED
    BY <1>1, <2>1, <2>6, QuantumLeft
<1>5. <<>> \in Seq(TaskBlocksOf(cpu))
  OBVIOUS
<1> HIDE DEF left
<1> QED
  BY <1>1, <1>3, <1>4, <1>5, FileClaims

\* A quantum that ends in a block
LEMMA FileCutsAtOffset == RecordInv /\ FileInv /\ CutAtOffset => FileInv'
<1> SUFFICES ASSUME RecordInv, FileInv, CutAtOffset PROVE FileInv'
  OBVIOUS
<1> DEFINE s == Trace
           S == schedules[cpu]
           h == HeadOf(Trace, Crossing, Quantum)
           t == TailOf(Trace, Crossing, Quantum)
           w == ClaimedBlocks(<<h>>)
           y == LeftBlocks(<<t>>)
<1>1. /\ phase = "cut" /\ ~AtEnd /\ ClaimBlocks(<<h>>, <<t>>, TRUE) /\ phase' = "cut"
      /\ Quantum.has_pos /\ Crossing.pos[1] < Quantum.pos[2]
  BY DEF CutAtOffset, ClaimBlocks
<1>2. /\ cpu \in CPU /\ (HasTips(s, S) => Switches(s, S)) /\ RunnersAreScheduled(s, S, cpu) /\ IsTrace(s)
      /\ Quantum \in QuantumRecords /\ quantums \in Seq(QuantumRecords) /\ quantums # <<>>
      /\ HasTips(s, S) => InFile(s, S, cpu, phase, blocks[cpu], rest, quantums)
  BY <1>1, OpenIs DEF Inside
<1>3. /\ Crossing \in RestBlocks(cpu) /\ Crossing = rest[InQuantum + 1]
      /\ InQuantum # Len(rest) /\ InQuantum = Within(rest, Quantum)
  BY <1>1, CrossingIs
<1>4. <<h>> \in Seq(TaskBlocksOf(cpu)) /\ <<t>> \in Seq(RestBlocks(cpu))
  <2>1. h \in RestBlocks(cpu) /\ h \in TaskBlock /\ t \in RestBlocks(cpu)
    BY <1>2, <1>3, HeadAndTail
  <2> HIDE DEF h, t
  <2>2. h.cpu = cpu
    BY <2>1, BlockParts
  <2>3. h \in TaskBlocksOf(cpu)
    BY <2>1, <2>2 DEF TaskBlocksOf
  <2> QED
    BY <2>1, <2>3
<1>5. HasTips(s, S) => InFile(s, S, cpu, phase', w, y, quantums)
  <2> SUFFICES ASSUME HasTips(s, S) PROVE InFile(s, S, cpu, phase', w, y, quantums)
    OBVIOUS
  <2>1. PICK i \in DOMAIN S : Upcoming(s, S, i, quantums) /\ Half(s, S, cpu, i, blocks[cpu], rest)
    BY <1>1, <1>2 DEF InFile
  <2>2. IsQuantum(s, S, i, Quantum)
    BY <1>2, <2>1, QuantumIs DEF Quantum
  <2> DEFINE n == InQuantum
             b == Crossing
  <2>3. n = Within(rest, Quantum) /\ n # Len(rest) /\ b = rest[n + 1] /\ b.pos[1] < Quantum.pos[2]
    BY <1>1, <1>3
  <2>4. Taken(s, blocks[cpu], rest, Quantum, <<HeadOf(s, b, Quantum)>>, <<TailOf(s, b, Quantum)>>, w, y)
    BY DEF Taken, ClaimedBlocks, LeftBlocks
  <2> HIDE DEF n, w, y, s, S, b
  <2>5. Half(s, S, cpu, i, w, y)
    BY <1>1, <1>2, <2>1, <2>2, <2>3, <2>4, HalfOffset
  <2> QED
    BY <1>1, <2>1, <2>5 DEF InFile
<1> HIDE DEF h, t
<1> QED
  BY <1>1, <1>4, <1>5, FileClaims

\* The last quantum, which has no end, has all blocks that are left, if no TIP
\* was lost.
LEMMA LastHasAll ==
  ASSUME RecordInv, FileInv, phase = "cut", ~AtEnd, ~Quantum.has_pos
  PROVE  ~HasTips(Trace, schedules[cpu])
<1> DEFINE s == Trace
           S == schedules[cpu]
<1> SUFFICES ASSUME HasTips(s, S) PROVE FALSE
  OBVIOUS
<1>2. /\ cpu \in CPU /\ Switches(s, S) /\ RunnersAreScheduled(s, S, cpu)
      /\ Quantum \in QuantumRecords /\ quantums \in Seq(QuantumRecords) /\ quantums # <<>>
      /\ InFile(s, S, cpu, phase, blocks[cpu], rest, quantums)
      /\ rest \in Seq(RestBlocks(cpu)) /\ blocks[cpu] \in Seq(TaskBlocksOf(cpu))
  BY OpenIs DEF Inside
<1>3. PICK i \in DOMAIN S : Upcoming(s, S, i, quantums) /\ Half(s, S, cpu, i, blocks[cpu], rest)
  BY <1>2 DEF InFile
<1>4. IsQuantum(s, S, i, Quantum) /\ i \in Nat /\ i <= Len(S) /\ Len(S) \in Nat
  BY <1>2, <1>3, QuantumIs DEF Quantum
<1>5. i = Len(S)
  <2>1. ~(i < Len(S))
    BY <1>4 DEF IsQuantum
  <2> HIDE DEF S
  <2> QED
    BY ONLY <1>4, <2>1
<1> DEFINE n == InQuantum
           d == [j \in 1 .. n |-> Claimed(s, rest[j], Quantum.tid)]
           w == blocks[cpu] \o d
           x == SubSeq(rest, n + 1, Len(rest))
<1>6. ClaimedIn(s, rest, Quantum, n, d) /\ AreLeft(rest, n, x)
  BY DEF ClaimedIn, AreLeft, InQuantum
<1>7. n # Len(rest)
  BY DEF AtEnd
<1> HIDE DEF n, d, x, s, S
<1>8. HalfIn(s, S, cpu, i, rest, n, d, w, x)
  BY <1>2, <1>3, <1>4, <1>6, HalfWithin
<1> QED
  BY <1>5, <1>7, <1>8 DEF HalfIn

\* What such a quantum does
LEMMA TimeCuts ==
  ASSUME RecordInv, FileInv, CutAtTime
  PROVE  \/ /\ IsBoth(Trace, Crossing, Quantum)
            /\ ClaimBlocks(<<FirstPart(Trace, Crossing, Quantum)>>, <<SecondPart(Trace, Crossing, Quantum)>>, TRUE)
         \/ /\ IsFirst(Trace, Crossing, Quantum)
            /\ ClaimBlocks(<<>>, <<[FirstPart(Trace, Crossing, Quantum) EXCEPT !.tsc = Crossing.tsc]>>, FALSE)
         \/ /\ Looked(Trace, Crossing, Quantum) # {}
            /\ ClaimBlocks(<<>>, <<SecondPart(Trace, Crossing, Quantum)>>, TRUE)
         \/ phase' = "undefined" /\ UNCHANGED <<recordVars, fileVars, mergeVars>>
<1> DEFINE s == Trace
           q == Quantum
           b == Crossing
<1>1. phase = "cut" /\ ~AtEnd
  BY DEF CutAtTime
<1>2. cpu \in CPU /\ IsTrace(s) /\ q \in QuantumRecords
  BY <1>1, OpenIs DEF Inside
<1>3. b \in RestBlocks(cpu)
  BY <1>1, CrossingIs
<1>6. IsBoth(s, b, q) => IsFirst(s, b, q)
  BY DEF IsBoth
<1>7. IsFirst(s, b, q) => Looked(s, b, q) # {}
  <2> SUFFICES ASSUME IsFirst(s, b, q), Looked(s, b, q) = {} PROVE FALSE
    OBVIOUS
  <2>1. Block1End(s, b, q) = b.pos[1]
    BY <1>2, <1>3, LookedIs
  <2>2. b.pos[1] \in Nat
    BY <1>3, BlockParts
  <2> QED
    BY <2>1, <2>2 DEF IsFirst
<1> QED
  <2> DEFINE both == IsBoth(s, b, q)
             fst == IsFirst(s, b, q)
             none == Looked(s, b, q) = {}
             A == ClaimBlocks(<<FirstPart(s, b, q)>>, <<SecondPart(s, b, q)>>, TRUE)
             B == ClaimBlocks(<<>>, <<[FirstPart(s, b, q) EXCEPT !.tsc = b.tsc]>>, FALSE)
             C == ClaimBlocks(<<>>, <<SecondPart(s, b, q)>>, TRUE)
             D == phase' = "undefined" /\ UNCHANGED <<recordVars, fileVars, mergeVars>>
  <2>1. (CASE both -> A [] fst /\ ~both -> B [] ~fst /\ ~none -> C [] none -> D)
    BY DEF CutAtTime
  <2> HIDE DEF both, fst, none, A, B, C, D
  <2>2. (both /\ A) \/ (fst /\ B) \/ (~none /\ C) \/ D
    BY <2>1, <1>6, <1>7 DEF both, fst, none
  <2> QED
    BY <2>2 DEF both, fst, none, A, B, C, D

\* A quantum that ends at a time in a block
LEMMA FileCutsAtTime == RecordInv /\ FileInv /\ CutAtTime => FileInv'
<1> SUFFICES ASSUME RecordInv, FileInv, CutAtTime PROVE FileInv'
  OBVIOUS
<1> DEFINE s == Trace
           q == Quantum
           b == Crossing
<1>1. phase = "cut" /\ ~AtEnd /\ ~Quantum.has_pos
  BY DEF CutAtTime
<1>2. cpu \in CPU /\ IsTrace(s) /\ q \in QuantumRecords
  BY <1>1, OpenIs DEF Inside
<1>3. b \in RestBlocks(cpu)
  BY <1>1, CrossingIs
<1>4. ~HasTips(s, schedules[cpu])
  BY <1>1, LastHasAll
<1>5. /\ IsFirst(s, b, q) => /\ FirstPart(s, b, q) \in RestBlocks(cpu) /\ FirstPart(s, b, q) \in TaskBlock
                             /\ [FirstPart(s, b, q) EXCEPT !.tsc = b.tsc] \in RestBlocks(cpu)
      /\ Looked(s, b, q) # {} => SecondPart(s, b, q) \in RestBlocks(cpu)
  BY <1>2, <1>3, FirstAndSecond
<1>6. IsBoth(s, b, q) => IsFirst(s, b, q)
  BY DEF IsBoth
<1>7. IsFirst(s, b, q) => Looked(s, b, q) # {}
  <2> SUFFICES ASSUME IsFirst(s, b, q), Looked(s, b, q) = {} PROVE FALSE
    OBVIOUS
  <2>1. Block1End(s, b, q) = b.pos[1]
    BY <1>2, <1>3, LookedIs
  <2>2. b.pos[1] \in Nat
    BY <1>3, BlockParts
  <2> QED
    BY <2>1, <2>2 DEF IsFirst
<1>8. IsFirst(s, b, q) => FirstPart(s, b, q) \in TaskBlocksOf(cpu)
  BY <1>5, BlockParts DEF TaskBlocksOf
<1>9. \/ IsBoth(s, b, q) /\ ClaimBlocks(<<FirstPart(s, b, q)>>, <<SecondPart(s, b, q)>>, TRUE)
      \/ IsFirst(s, b, q) /\ ClaimBlocks(<<>>, <<[FirstPart(s, b, q) EXCEPT !.tsc = b.tsc]>>, FALSE)
      \/ Looked(s, b, q) # {} /\ ClaimBlocks(<<>>, <<SecondPart(s, b, q)>>, TRUE)
      \/ phase' = "undefined" /\ UNCHANGED <<recordVars, fileVars, mergeVars>>
  BY TimeCuts
<1> HIDE DEF s, q, b
<1>10. CASE IsBoth(s, b, q) /\ ClaimBlocks(<<FirstPart(s, b, q)>>, <<SecondPart(s, b, q)>>, TRUE)
  <2>1. <<FirstPart(s, b, q)>> \in Seq(TaskBlocksOf(cpu)) /\ <<SecondPart(s, b, q)>> \in Seq(RestBlocks(cpu))
    BY <1>5, <1>6, <1>7, <1>8, <1>10
  <2> QED
    BY <1>1, <1>4, <1>10, <2>1, FileClaims DEF s
<1>11. CASE IsFirst(s, b, q) /\ ClaimBlocks(<<>>, <<[FirstPart(s, b, q) EXCEPT !.tsc = b.tsc]>>, FALSE)
  <2>1. <<>> \in Seq(TaskBlocksOf(cpu)) /\ <<[FirstPart(s, b, q) EXCEPT !.tsc = b.tsc]>> \in Seq(RestBlocks(cpu))
    BY <1>5, <1>11
  <2> QED
    BY <1>1, <1>4, <1>11, <2>1, FileClaims DEF s
<1>12. CASE Looked(s, b, q) # {} /\ ClaimBlocks(<<>>, <<SecondPart(s, b, q)>>, TRUE)
  <2>1. <<>> \in Seq(TaskBlocksOf(cpu)) /\ <<SecondPart(s, b, q)>> \in Seq(RestBlocks(cpu))
    BY <1>5, <1>12
  <2> QED
    BY <1>1, <1>4, <1>12, <2>1, FileClaims DEF s
<1>13. CASE phase' = "undefined" /\ UNCHANGED <<recordVars, fileVars, mergeVars>>
  <2>1. cpu' = cpu /\ blocks' = blocks /\ UNCHANGED recordVars
    BY <1>13 DEF fileVars
  <2> QED
    BY <1>13, <2>1, FileStops
<1> QED
  BY <1>9, <1>10, <1>11, <1>12, <1>13

\* The quantums after the first one
LEMMA NextQuantums ==
  ASSUME NEW s, NEW S, Switches(s, S), NEW i \in DOMAIN S, NEW Q \in Seq(QuantumRecords), Q # <<>>,
         Upcoming(s, S, i, Q)
  PROVE  /\ Tail(Q) \in Seq(QuantumRecords)
         /\ i < Len(S) => Tail(Q) # <<>> /\ i + 1 \in DOMAIN S /\ Upcoming(s, S, i + 1, Tail(Q))
         /\ i = Len(S) => Tail(Q) = <<>>
<1> DEFINE T == Tail(Q)
           N == Len(S)
<1>1. i \in Nat /\ i <= N /\ N \in Nat /\ DOMAIN S = 1 .. N
  BY QuantumIs
<1>2. Len(Q) = (N + 1) - i /\ \A n \in DOMAIN Q : IsQuantum(s, S, (i + n) - 1, Q[n])
  BY DEF Upcoming
<1>3. T \in Seq(QuantumRecords) /\ Len(T) = Len(Q) - 1 /\ \A n \in DOMAIN T : T[n] = Q[n + 1] /\ n + 1 \in DOMAIN Q /\ n \in Nat
  OBVIOUS
<1> HIDE DEF T, N
<1>4. Len(T) = N - i
  BY <1>1, <1>2, <1>3
<1>5. i = N => T = <<>>
  BY <1>1, <1>3, <1>4
<1>6. ASSUME i < N PROVE T # <<>> /\ i + 1 \in DOMAIN S /\ Upcoming(s, S, i + 1, T)
  <2>1. T # <<>> /\ i + 1 \in DOMAIN S
    BY <1>1, <1>3, <1>4, <1>6
  <2>2. ASSUME NEW n \in DOMAIN T PROVE IsQuantum(s, S, ((i + 1) + n) - 1, T[n])
    <3>1. T[n] = Q[n + 1] /\ n + 1 \in DOMAIN Q /\ n \in Nat
      BY <1>3
    <3>2. IsQuantum(s, S, (i + (n + 1)) - 1, Q[n + 1])
      BY <1>2, <3>1
    <3>3. (i + (n + 1)) - 1 = ((i + 1) + n) - 1
      BY <1>1, <3>1
    <3> QED
      BY <3>1, <3>2, <3>3
  <2>3. Len(T) = (N + 1) - (i + 1)
    BY <1>1, <1>4
  <2> QED
    BY <2>1, <2>2, <2>3 DEF Upcoming, N
<1> QED
  BY <1>3, <1>5, <1>6 DEF N, T

\* The blocks of the file after the end of a quantum
LeftAt(a) ==
  IF Quantum.tsc[2] = Forever THEN a
  ELSE Append(a, Block("out", <<Quantum.pos[2], Quantum.pos[2]>>,
                       <<Quantum.tsc[2], Quantum.tsc[2]>>, Quantum.tid, cpu, Quantum.pos[2]))

\* If no TIP was lost: the next quantum is begun, or the file is done.
LEMMA LeftIs ==
  ASSUME RecordInv, FileInv, phase = "leave", NEW w, w = LeftAt(blocks[cpu])
  PROVE  /\ cpu \in CPU /\ w \in Seq(TaskBlocksOf(cpu)) /\ w # <<>>
         /\ Tail(quantums) \in Seq(QuantumRecords)
         /\ HasTips(Trace, schedules[cpu]) =>
              /\ Claims(Trace, schedules[cpu], cpu, w)
              /\ Tail(quantums) # <<>> =>
                   InFile(Trace, schedules[cpu], cpu, "quantum", w, rest, Tail(quantums))
              /\ Tail(quantums) = <<>> => HasAll(Trace, schedules[cpu], w, <<>>)
<1> DEFINE s == Trace
           S == schedules[cpu]
           q == Quantum
           m == Block("out", <<q.pos[2], q.pos[2]>>, <<q.tsc[2], q.tsc[2]>>, q.tid, cpu, q.pos[2])
           a == blocks[cpu]
<1>1. /\ cpu \in CPU /\ (HasTips(s, S) => Switches(s, S))
      /\ q \in QuantumRecords /\ quantums \in Seq(QuantumRecords) /\ quantums # <<>>
      /\ HasTips(s, S) => InFile(s, S, cpu, phase, a, rest, quantums)
      /\ a \in Seq(TaskBlocksOf(cpu)) /\ a # <<>>
  BY OpenIs DEF Inside
<1>2. q.tsc[2] \in Nat /\ q.pos[2] \in Nat /\ q.tid \in Tids
  <2>1. q.tsc \in Nat \X Nat /\ q.pos \in Nat \X Nat /\ q.tid \in Tids
    BY <1>1 DEF QuantumRecords
  <2> HIDE DEF q
  <2> QED
    BY <2>1
<1> HIDE DEF q
<1>3. m \in TaskBlocksOf(cpu) /\ m.type # "trace" /\ m.tsc[1] = q.tsc[2]
  BY <1>1, <1>2, MarkerIs
<1>4. m \in TaskBlock
  BY <1>3 DEF TaskBlocksOf
<1>5. w = IF q.tsc[2] = Forever THEN a ELSE Append(a, m)
  BY DEF LeftAt, q
<1> HIDE DEF m, a
<1>6. w \in Seq(TaskBlocksOf(cpu)) /\ w # <<>>
  <2>1. Append(a, m) \in Seq(TaskBlocksOf(cpu)) /\ Append(a, m) # <<>>
    BY <1>1, <1>3
  <2> QED
    BY <1>1, <1>5, <2>1
<1>7. Tail(quantums) \in Seq(QuantumRecords)
  BY <1>1
<1>8. HasTips(s, S) =>
        /\ Claims(s, S, cpu, w)
        /\ Tail(quantums) # <<>> => InFile(s, S, cpu, "quantum", w, rest, Tail(quantums))
        /\ Tail(quantums) = <<>> => HasAll(s, S, w, <<>>)
  <2> SUFFICES ASSUME HasTips(s, S)
               PROVE  /\ Claims(s, S, cpu, w)
                      /\ Tail(quantums) # <<>> => InFile(s, S, cpu, "quantum", w, rest, Tail(quantums))
                      /\ Tail(quantums) = <<>> => HasAll(s, S, w, <<>>)
    OBVIOUS
  <2> HIDE DEF s, S
  <2>1. PICK i \in DOMAIN S : /\ Upcoming(s, S, i, quantums)
                              /\ i < Len(S) => Half(s, S, cpu, i + 1, a, rest)
                              /\ i = Len(S) => Half(s, S, cpu, i, a, rest) /\ rest = <<>>
    BY <1>1 DEF InFile
  <2>2. IsQuantum(s, S, i, q) /\ i \in Nat /\ i <= Len(S) /\ Len(S) \in Nat /\ DOMAIN S = 1 .. Len(S)
    BY <1>1, <2>1, QuantumIs DEF q, Quantum
  <2>3. /\ i < Len(S) => Tail(quantums) # <<>> /\ i + 1 \in DOMAIN S /\ Upcoming(s, S, i + 1, Tail(quantums))
        /\ i = Len(S) => Tail(quantums) = <<>>
    BY <1>1, <2>1, NextQuantums
  <2>4. CASE i < Len(S)
    <3> DEFINE j == i + 1
    <3>1. j \in DOMAIN S /\ q.tsc[2] = MatchedTsc(s, S, j)
      BY <2>2, <2>3, <2>4 DEF IsQuantum
    <3> HIDE DEF j
    <3>2. q.tsc[2] # Forever
      <4>1. MatchedTsc(s, S, j) \in Nat /\ MatchedTsc(s, S, j) <= MaxClock
        BY <1>1, <3>1, MatchedIs
      <4>2. MaxClock \in Nat /\ MaxClock <= 999 /\ Forever = 1000
        BY StreamsAssumption DEF Forever
      <4> QED
        BY <3>1, <4>1, <4>2
    <3>3. m.tsc[1] <= MatchedTsc(s, S, j)
      <4>1. m.tsc[1] = MatchedTsc(s, S, j) /\ m.tsc[1] \in Nat
        BY <1>2, <1>3, <3>1
      <4> QED
        BY <4>1
    <3>4. w = Append(a, m)
      BY <1>5, <3>2
    <3>5. Half(s, S, cpu, j, a, rest)
      BY <2>1, <2>4 DEF j
    <3>6. Half(s, S, cpu, j, w, rest)
      BY <1>1, <1>3, <1>4, <3>1, <3>3, <3>4, <3>5, HalfMarked
    <3>7. Upcoming(s, S, j, Tail(quantums)) /\ Tail(quantums) # <<>>
      BY <2>3, <2>4 DEF j
    <3> QED
      BY <3>1, <3>6, <3>7 DEF InFile, Half
  <2>5. CASE i = Len(S)
    <3>1. w = a
      <4>1. q.tsc[2] = Forever
        BY <2>2, <2>5 DEF IsQuantum
      <4> QED
        BY <1>5, <4>1
    <3> QED
      BY <2>1, <2>3, <2>5, <3>1 DEF Half
  <2>6. i < Len(S) \/ i = Len(S)
    <3> DEFINE N == Len(S)
    <3>1. i \in Nat /\ N \in Nat /\ i <= N
      BY <2>2
    <3> HIDE DEF N
    <3>2. i < N \/ i = N
      BY <3>1
    <3> QED
      BY <3>2 DEF N
  <2> QED
    BY <2>4, <2>5, <2>6
<1> QED
  BY <1>1, <1>6, <1>7, <1>8

\* The end of a quantum, and perhaps of the file
LEMMA FileOut == RecordInv /\ FileInv /\ ScheduleOut => FileInv'
<1> SUFFICES ASSUME RecordInv, FileInv, ScheduleOut PROVE FileInv'
  OBVIOUS
<1> DEFINE s == Trace
           S == schedules[cpu]
           w == LeftAt(blocks[cpu])
<1>1. /\ phase = "leave" /\ UNCHANGED recordVars /\ rest' = rest /\ quantums' = Tail(quantums)
      /\ \/ quantums' # <<>> /\ phase' = "quantum" /\ cpu' = cpu
         \/ quantums' = <<>> /\ cpu = CPUs - 1 /\ phase' = "merge" /\ cpu' = cpu
         \/ quantums' = <<>> /\ cpu # CPUs - 1 /\ phase' = "file" /\ cpu' = cpu + 1
  BY DEF ScheduleOut
<1>2. blocks \in [CPU -> Seq(TaskBlock)]
  BY DEF FileInv
<1>3. blocks' = [blocks EXCEPT ![cpu] = w]
  <2>1. CASE Quantum.tsc[2] = Forever
    BY <1>2, <2>1 DEF ScheduleOut, LeftAt
  <2>2. CASE Quantum.tsc[2] # Forever
    BY <1>2, <2>2 DEF ScheduleOut, LeftAt
  <2> QED
    BY <2>1, <2>2
<1> HIDE DEF w
<1>4. /\ cpu \in CPU /\ w \in Seq(TaskBlocksOf(cpu)) /\ w # <<>>
      /\ Tail(quantums) \in Seq(QuantumRecords)
      /\ HasTips(s, S) =>
           /\ Claims(s, S, cpu, w)
           /\ Tail(quantums) # <<>> => InFile(s, S, cpu, "quantum", w, rest, Tail(quantums))
           /\ Tail(quantums) = <<>> => HasAll(s, S, w, <<>>)
  BY <1>1, LeftIs DEF w
<1>5. phase \in Inside
  BY <1>1 DEF Inside
<1>6. rest \in Seq(RestBlocks(cpu))
  BY <1>5, OpenIs
<1>7. CASE quantums' # <<>>
  <2>1. IsOpen(s, S, cpu, phase', w, rest', quantums')
    BY <1>1, <1>4, <1>6, <1>7 DEF IsOpen
  <2>2. phase' \in Inside /\ cpu' = cpu
    BY <1>1, <1>7 DEF Inside
  <2> QED
    BY <1>1, <1>3, <1>4, <1>5, <2>1, <2>2, FileTurn DEF Trace
<1>8. CASE quantums' = <<>>
  <2>1. stream' = stream /\ schedules' = schedules
    BY <1>1 DEF recordVars
  <2>2. /\ phase' \in {"merge", "file"} /\ cpu' \in CPU /\ cpu' \in Nat /\ cpu \in Nat
        /\ phase' = "file" => cpu' = cpu + 1
        /\ \A c \in CPU : c \in Nat /\ (phase' = "merge" => c <= cpu)
    <3>1. cpu \in Nat /\ CPUs \in Nat /\ \A c \in CPU : c \in Nat /\ c <= CPUs - 1
      BY <1>4, CpuIs
    <3>2. cpu # CPUs - 1 => cpu + 1 \in CPU /\ cpu + 1 \in Nat
      BY <1>4, <3>1 DEF CPU
    <3> QED
      BY <1>1, <1>4, <1>8, <3>1, <3>2
  <2>3. blocks' \in [CPU -> Seq(TaskBlock)]
    <3>1. w \in Seq(TaskBlock)
      BY <1>4, BlocksAre
    <3> QED
      BY <1>2, <1>3, <3>1
  <2>4. ASSUME NEW c \in CPU
        PROVE  IsFiled(stream'[c], schedules'[c], c, phase', cpu', blocks'[c], rest', quantums')
    <3>1. IsFiled(stream[c], schedules[c], c, phase, cpu, blocks[c], rest, quantums)
      BY DEF FileInv
    <3>2. CASE c = cpu
      <4>1. blocks'[c] = w /\ stream'[c] = s /\ schedules'[c] = S
        BY <1>2, <1>3, <1>4, <2>1, <3>2 DEF Trace
      <4>2. HasTips(s, S) => Claims(s, S, cpu, w) /\ HasAll(s, S, w, <<>>)
        BY <1>1, <1>4, <1>8
      <4> HIDE DEF s, S
      <4>3. IsFiled(s, S, cpu, phase', cpu', w, rest', quantums')
        BY <1>4, <2>2, <4>2 DEF IsFiled, Between, Inside, After
      <4> QED
        BY <3>2, <4>1, <4>3
    <3>3. CASE c # cpu
      <4>1. blocks'[c] = blocks[c] /\ stream'[c] = stream[c] /\ schedules'[c] = schedules[c]
        BY <1>2, <1>3, <2>1, <3>3
      <4>2. phase' \notin Inside /\ phase \in Inside /\ c \in Nat
        BY <1>5, <2>2 DEF Inside
      <4>6. IsFiled(stream[c], schedules[c], c, phase', cpu', blocks[c], rest', quantums')
        <5>1. CASE c < cpu
          <6>1. blocks[c] # <<>> /\ (HasTips(stream[c], schedules[c]) => HasAll(stream[c], schedules[c], blocks[c], <<>>))
            BY <3>1, <4>2, <5>1 DEF IsFiled
          <6>2. ~(phase' \in Between /\ cpu' <= c)
            BY <2>2, <4>2, <5>1 DEF Between
          <6> QED
            BY <3>1, <4>2, <6>1, <6>2 DEF IsFiled
        <5>2. CASE cpu < c
          <6>1. blocks[c] = <<>>
            BY <3>1, <4>2, <5>2 DEF IsFiled
          <6>2. ~(phase' \in Between \cup Inside /\ c < cpu') /\ phase' \notin After
            BY <2>2, <4>2, <5>2 DEF Between, After
          <6> QED
            BY <3>1, <4>2, <6>1, <6>2 DEF IsFiled
        <5>3. c < cpu \/ cpu < c
          BY <2>2, <3>3, <4>2
        <5> QED
          BY <5>1, <5>2, <5>3
      <4> QED
        BY <4>1, <4>6
    <3> QED
      BY <3>2, <3>3
  <2> QED
    BY <2>2, <2>3, <2>4 DEF FileInv, Phases
<1> QED
  BY <1>7, <1>8

-----------------------------------------------------------------------------
(* Merging the blocks of the CPUs *)

\* Of CPU c's blocks B[c], the first cur[c] are merged.

\* Block b is merged.
IsTaken(B, cur, b) == b.cpu \in CPU /\ \E n \in 1 .. cur[b.cpu] : B[b.cpu][n] = b
\* Blocks a and b of one CPU are merged in the CPU's order.
SameOrder(B, cur, a, b) ==
  \E n, m \in 1 .. cur[b.cpu] : n < m /\ B[b.cpu][n] = a /\ B[b.cpu][m] = b
\* Block b of another CPU than a's is not before one that starts later than a.
LaterThan(B, cur, a, b) ==
  \E m \in 1 .. cur[b.cpu] : B[b.cpu][m] = b /\ \E k \in 1 .. m : a.tsc[1] <= B[b.cpu][k].tsc[1]
\* Nor is the next block of CPU d.
NextLater(B, cur, d, a) ==
  d # a.cpu /\ cur[d] < Len(B[d]) => \E k \in 1 .. cur[d] + 1 : a.tsc[1] <= B[d][k].tsc[1]

\* What the tasks T have of the blocks
AreTaken(B, cur, T) ==
  \A t \in Tids : \A i \in DOMAIN T[t] :
    /\ T[t][i].tid = t /\ IsTaken(B, cur, T[t][i])
    /\ \A d \in CPU : NextLater(B, cur, d, T[t][i])
AllTaken(B, cur, T) ==
  \A c \in CPU : \A n \in 1 .. cur[c] :
    \E i \in DOMAIN T[B[c][n].tid] : T[B[c][n].tid][i] = B[c][n]
AreOrdered(B, cur, T) ==
  \A t \in Tids : \A i, j \in DOMAIN T[t] : i < j =>
    IF T[t][i].cpu = T[t][j].cpu THEN SameOrder(B, cur, T[t][i], T[t][j])
    ELSE LaterThan(B, cur, T[t][i], T[t][j])
MergeTypes(B, cur, T) ==
  /\ B \in [CPU -> Seq(TaskBlock)] /\ cur \in [CPU -> Nat] /\ T \in [Tids -> Seq(TaskBlock)]
  /\ \A c \in CPU : cur[c] <= Len(B[c]) /\ \A n \in DOMAIN B[c] : B[c][n].cpu = c
IsMerged(B, cur, T) ==
  MergeTypes(B, cur, T) /\ AreTaken(B, cur, T) /\ AllTaken(B, cur, T) /\ AreOrdered(B, cur, T)

\* The parts of a block of a task
LEMMA TaskBlockParts ==
  ASSUME NEW b \in TaskBlock
  PROVE  b.tid \in Tids /\ b.cpu \in CPU /\ b.pos[1] \in Nat /\ b.pos[2] \in Nat /\ b.tsc[1] \in Nat
<1>1. b.pos \in Nat \X Nat /\ b.tsc \in Nat \X Nat /\ b.tid \in Tids /\ b.cpu \in CPU
  BY DEF TaskBlock
<1> QED
  BY <1>1

\* The next block of CPU c is merged: what the tasks have, and how much is merged
MergeTurn(B, cur, T, c, e, cur2, T2) ==
  /\ cur[c] < Len(B[c]) /\ e = B[c][cur[c] + 1]
  /\ cur2 = [cur EXCEPT ![c] = @ + 1] /\ T2 = [T EXCEPT ![e.tid] = Append(@, e)]

\* What it is then
TurnTypes(B, cur, T, c, e, cur2, T2) ==
  /\ MergeTypes(B, cur2, T2) /\ e \in TaskBlock /\ e.cpu = c /\ e.tid \in Tids
  /\ \A d \in CPU : cur[d] \in Nat /\ cur2[d] \in Nat /\ cur[d] <= cur2[d] /\ (d # c => cur2[d] = cur[d])
  /\ cur2[c] = cur[c] + 1 /\ B[c][cur2[c]] = e /\ cur2[c] \in DOMAIN B[c]
  /\ \A t \in Tids : \A i \in DOMAIN T[t] : i \in DOMAIN T2[t] /\ T2[t][i] = T[t][i]
  /\ \A t \in Tids : \A i \in DOMAIN T2[t] :
       \/ i \in DOMAIN T[t]
       \/ t = e.tid /\ T2[t][i] = e /\ \A j \in DOMAIN T2[t] : j <= i
  /\ \E i \in DOMAIN T2[e.tid] : T2[e.tid][i] = e

\* What a turn of the merge does to the types and to the blocks of the tasks.
LEMMA TurnIs ==
  ASSUME NEW B, NEW cur, NEW T, MergeTypes(B, cur, T), NEW c \in CPU, NEW e, NEW cur2, NEW T2,
         MergeTurn(B, cur, T, c, e, cur2, T2)
  PROVE  TurnTypes(B, cur, T, c, e, cur2, T2)
<1>1. /\ B \in [CPU -> Seq(TaskBlock)] /\ cur \in [CPU -> Nat] /\ T \in [Tids -> Seq(TaskBlock)]
      /\ \A d \in CPU : cur[d] <= Len(B[d]) /\ \A n \in DOMAIN B[d] : B[d][n].cpu = d
  BY DEF MergeTypes
<1>2. cur[c] < Len(B[c]) /\ e = B[c][cur[c] + 1] /\ cur[c] \in Nat /\ B[c] \in Seq(TaskBlock)
  BY <1>1 DEF MergeTurn
<1>3. cur[c] + 1 \in DOMAIN B[c]
  BY <1>2
<1>4. e \in TaskBlock /\ e.cpu = c /\ e.tid \in Tids
  BY <1>1, <1>2, <1>3, TaskBlockParts
<1>5. cur2 = [cur EXCEPT ![c] = cur[c] + 1] /\ T2 = [T EXCEPT ![e.tid] = Append(T[e.tid], e)]
  BY DEF MergeTurn
<1>6. /\ cur2 \in [CPU -> Nat] /\ cur2[c] = cur[c] + 1
      /\ \A d \in CPU : cur[d] \in Nat /\ cur2[d] \in Nat /\ cur[d] <= cur2[d] /\ (d # c => cur2[d] = cur[d])
  <2>1. cur2 \in [CPU -> Nat] /\ cur2[c] = cur[c] + 1
    <3> DEFINE x == cur[c] + 1
    <3>1. x \in Nat
      BY ONLY <1>2
    <3>2. cur2 = [cur EXCEPT ![c] = x] /\ cur \in [CPU -> Nat]
      BY ONLY <1>1, <1>5
    <3> HIDE DEF x
    <3>3. cur2 \in [CPU -> Nat] /\ cur2[c] = x
      BY ONLY <3>1, <3>2, c \in CPU
    <3> QED
      BY <3>3 DEF x
  <2>2. \A d \in CPU : d # c => cur2[d] = cur[d]
    BY <1>1, <1>5
  <2>3. \A d \in CPU : cur[d] \in Nat /\ cur2[d] \in Nat
    BY <1>1, <2>1
  <2>4. \A d \in CPU : cur[d] <= cur2[d]
    BY <2>1, <2>2, <2>3
  <2> QED
    BY <2>1, <2>2, <2>3, <2>4
<1> DEFINE l == T[e.tid]
           w == Append(l, e)
           n == Len(l) + 1
<1>7. l \in Seq(TaskBlock)
  BY <1>1, <1>4
<1>8. /\ w \in Seq(TaskBlock) /\ DOMAIN w = 1 .. n /\ w[n] = e /\ n \in DOMAIN w
      /\ \A i \in DOMAIN l : i \in DOMAIN w /\ w[i] = l[i]
      /\ \A i \in DOMAIN w : i \in DOMAIN l \/ i = n
      /\ \A j \in DOMAIN w : j <= n
  <2> DEFINE N == n
             W == w
  <2>1. W = Append(l, e) /\ N = Len(l) + 1
    OBVIOUS
  <2> HIDE DEF l, N, W
  <2>2. /\ W \in Seq(TaskBlock) /\ DOMAIN W = 1 .. N /\ W[N] = e /\ N \in DOMAIN W /\ N \in Nat
        /\ DOMAIN l \subseteq DOMAIN W
        /\ \A i \in DOMAIN l : W[i] = l[i]
        /\ \A i \in DOMAIN W : i \in DOMAIN l \/ i = N
    BY <1>4, <1>7, <2>1, OneMore
  <2>3. \A j \in DOMAIN W : j <= N
    BY <2>2
  <2> QED
    BY <2>2, <2>3 DEF N, W
<1> HIDE DEF w, n
<1>9. T2 \in [Tids -> Seq(TaskBlock)] /\ T2[e.tid] = w /\ \A t \in Tids : t # e.tid => T2[t] = T[t]
  BY <1>1, <1>4, <1>5, <1>8 DEF w
<1>10. MergeTypes(B, cur2, T2)
  <2>1. cur2[c] <= Len(B[c])
    BY <1>2, <1>6
  <2> QED
    BY <1>1, <1>6, <1>9, <2>1 DEF MergeTypes
<1>11. \A t \in Tids : \A i \in DOMAIN T[t] : i \in DOMAIN T2[t] /\ T2[t][i] = T[t][i]
  BY <1>8, <1>9
<1>12. \A t \in Tids : \A i \in DOMAIN T2[t] :
         \/ i \in DOMAIN T[t]
         \/ t = e.tid /\ T2[t][i] = e /\ \A j \in DOMAIN T2[t] : j <= i
  BY <1>8, <1>9
<1>13. \E i \in DOMAIN T2[e.tid] : T2[e.tid][i] = e
  BY <1>8, <1>9
<1> QED
  BY <1>2, <1>3, <1>4, <1>6, <1>10, <1>11, <1>12, <1>13 DEF TurnTypes

\* The next block of the CPU whose next block starts first is merged.
LEMMA MergedTurn ==
  ASSUME NEW B, NEW cur, NEW T, IsMerged(B, cur, T), NEW c \in CPU, NEW e, NEW cur2, NEW T2,
         MergeTurn(B, cur, T, c, e, cur2, T2),
         \A d \in CPU : cur[d] < Len(B[d]) => e.tsc[1] <= B[d][cur[d] + 1].tsc[1]
  PROVE  IsMerged(B, cur2, T2)
<1>1. TurnTypes(B, cur, T, c, e, cur2, T2)
  BY TurnIs DEF IsMerged
<1>2. /\ MergeTypes(B, cur2, T2) /\ e \in TaskBlock /\ e.cpu = c /\ e.tid \in Tids
      /\ \A d \in CPU : cur[d] \in Nat /\ cur2[d] \in Nat /\ cur[d] <= cur2[d] /\ (d # c => cur2[d] = cur[d])
      /\ cur2[c] = cur[c] + 1 /\ B[c][cur2[c]] = e /\ cur2[c] \in DOMAIN B[c]
      /\ \A t \in Tids : \A i \in DOMAIN T[t] : i \in DOMAIN T2[t] /\ T2[t][i] = T[t][i]
      /\ \A t \in Tids : \A i \in DOMAIN T2[t] :
           \/ i \in DOMAIN T[t]
           \/ t = e.tid /\ T2[t][i] = e /\ \A j \in DOMAIN T2[t] : j <= i
      /\ \E i \in DOMAIN T2[e.tid] : T2[e.tid][i] = e
  BY <1>1 DEF TurnTypes
<1>3. \A d \in CPU : \A n \in 1 .. cur[d] : n \in 1 .. cur2[d] /\ n \in Nat
  BY <1>2
<1>4. cur2[c] \in 1 .. cur2[c] /\ \A n \in 1 .. cur[c] : n < cur2[c]
  BY <1>2
<1>5. AreTaken(B, cur, T) /\ AllTaken(B, cur, T) /\ AreOrdered(B, cur, T) /\ MergeTypes(B, cur, T)
  BY DEF IsMerged
<1>6. \A a : IsTaken(B, cur, a) => IsTaken(B, cur2, a)
  BY <1>3 DEF IsTaken
<1>7. \A d \in CPU : \A a : NextLater(B, cur, d, a) => NextLater(B, cur2, d, a)
  <2> TAKE d \in CPU
  <2> TAKE a
  <2> SUFFICES ASSUME NextLater(B, cur, d, a), d # a.cpu, cur2[d] < Len(B[d])
               PROVE  \E k \in 1 .. cur2[d] + 1 : a.tsc[1] <= B[d][k].tsc[1]
    BY DEF NextLater
  <2>1. Len(B[d]) \in Nat /\ cur[d] \in Nat /\ cur2[d] \in Nat /\ cur[d] <= cur2[d]
    BY <1>2, <1>5 DEF MergeTypes
  <2>2. PICK k \in 1 .. cur[d] + 1 : a.tsc[1] <= B[d][k].tsc[1]
    BY <2>1 DEF NextLater
  <2>3. k \in 1 .. cur2[d] + 1
    BY <2>1
  <2> QED
    BY <2>2, <2>3
<1>8. IsTaken(B, cur2, e)
  BY <1>2, <1>4 DEF IsTaken
<1>9. \A d \in CPU : NextLater(B, cur2, d, e)
  <2> SUFFICES ASSUME NEW d \in CPU, d # e.cpu, cur2[d] < Len(B[d])
               PROVE  \E k \in 1 .. cur2[d] + 1 : e.tsc[1] <= B[d][k].tsc[1]
    BY DEF NextLater
  <2>1. cur2[d] = cur[d] /\ cur[d] \in Nat
    BY <1>2
  <2>2. e.tsc[1] <= B[d][cur[d] + 1].tsc[1] /\ cur[d] + 1 \in 1 .. cur2[d] + 1
    BY <2>1
  <2> QED
    BY <2>2
<1>10. AreTaken(B, cur2, T2)
  <2> SUFFICES ASSUME NEW t \in Tids, NEW i \in DOMAIN T2[t]
               PROVE  /\ T2[t][i].tid = t /\ IsTaken(B, cur2, T2[t][i])
                      /\ \A d \in CPU : NextLater(B, cur2, d, T2[t][i])
    BY DEF AreTaken
  <2>1. CASE i \in DOMAIN T[t]
    <3>1. T2[t][i] = T[t][i]
      BY <1>2, <2>1
    <3>2. T[t][i].tid = t /\ IsTaken(B, cur, T[t][i]) /\ \A d \in CPU : NextLater(B, cur, d, T[t][i])
      BY <1>5, <2>1 DEF AreTaken
    <3> QED
      BY <1>6, <1>7, <3>1, <3>2
  <2>2. CASE ~(i \in DOMAIN T[t])
    <3>1. t = e.tid /\ T2[t][i] = e
      BY <1>2, <2>2
    <3> QED
      BY <1>8, <1>9, <3>1
  <2> QED
    BY <2>1, <2>2
<1>11. AllTaken(B, cur2, T2)
  <2> SUFFICES ASSUME NEW d \in CPU, NEW n \in 1 .. cur2[d]
               PROVE  \E i \in DOMAIN T2[B[d][n].tid] : T2[B[d][n].tid][i] = B[d][n]
    BY DEF AllTaken
  <2>1. CASE n \in 1 .. cur[d]
    <3>1. PICK i \in DOMAIN T[B[d][n].tid] : T[B[d][n].tid][i] = B[d][n]
      BY <1>5, <2>1 DEF AllTaken
    <3>2. B[d][n].tid \in Tids
      <4>1. B[d] \in Seq(TaskBlock) /\ cur2[d] <= Len(B[d]) /\ cur2[d] \in Nat
        BY <1>2 DEF MergeTypes
      <4>2. n \in DOMAIN B[d]
        BY <4>1
      <4>3. B[d][n] \in TaskBlock
        BY <4>1, <4>2
      <4> QED
        BY <4>3, TaskBlockParts
    <3> QED
      BY <1>2, <3>1, <3>2
  <2>2. CASE ~(n \in 1 .. cur[d])
    <3>1. d = c /\ n = cur2[c]
      <4>1. cur[d] \in Nat /\ cur2[d] \in Nat /\ (d # c => cur2[d] = cur[d]) /\ cur2[c] = cur[c] + 1
        BY <1>2
      <4>2. d = c
        BY <2>2, <4>1
      <4>3. n \in 1 .. cur[c] + 1 /\ ~(n \in 1 .. cur[c]) /\ cur[c] \in Nat
        BY <2>2, <4>1, <4>2
      <4>4. n = cur[c] + 1
        BY <4>3
      <4> QED
        BY <4>1, <4>2, <4>4
    <3>2. B[d][n] = e
      BY <1>2, <3>1
    <3> QED
      BY <1>2, <3>2
  <2> QED
    BY <2>1, <2>2
<1>12. AreOrdered(B, cur2, T2)
  <2> SUFFICES ASSUME NEW t \in Tids, NEW i \in DOMAIN T2[t], NEW j \in DOMAIN T2[t], i < j
               PROVE  IF T2[t][i].cpu = T2[t][j].cpu THEN SameOrder(B, cur2, T2[t][i], T2[t][j])
                      ELSE LaterThan(B, cur2, T2[t][i], T2[t][j])
    BY DEF AreOrdered
  <2>1. i \in DOMAIN T[t] /\ T2[t][i] = T[t][i]
    <3>1. ~(j <= i)
      <4>1. T2[t] \in Seq(TaskBlock)
        BY <1>2 DEF MergeTypes
      <4>2. i \in Nat /\ j \in Nat
        BY <4>1
      <4> QED
        BY <4>2
    <3> QED
      BY <1>2, <3>1
  <2>2. IsTaken(B, cur, T[t][i]) /\ \A d \in CPU : NextLater(B, cur, d, T[t][i])
    BY <1>5, <2>1 DEF AreTaken
  <2>3. CASE j \in DOMAIN T[t]
    <3>1. T2[t][j] = T[t][j] /\ T[t][j].cpu \in CPU
      BY <1>2, <1>5, <2>3 DEF AreTaken, IsTaken
    <3>2. IF T[t][i].cpu = T[t][j].cpu THEN SameOrder(B, cur, T[t][i], T[t][j])
          ELSE LaterThan(B, cur, T[t][i], T[t][j])
      BY <1>5, <2>1, <2>3 DEF AreOrdered
    <3>3. \A a, b : b.cpu \in CPU /\ SameOrder(B, cur, a, b) => SameOrder(B, cur2, a, b)
      BY <1>3 DEF SameOrder
    <3>4. \A a, b : b.cpu \in CPU /\ LaterThan(B, cur, a, b) => LaterThan(B, cur2, a, b)
      BY <1>3 DEF LaterThan
    <3> QED
      BY <2>1, <3>1, <3>2, <3>3, <3>4
  <2>4. CASE ~(j \in DOMAIN T[t])
    <3>1. T2[t][j] = e
      BY <1>2, <2>4
    <3> DEFINE a == T[t][i]
    <3> HIDE DEF a
    <3>2. CASE a.cpu = c
      <4>1. PICK n \in 1 .. cur[c] : B[c][n] = a
        BY <2>2, <3>2 DEF IsTaken, a
      <4>2. n \in 1 .. cur2[c] /\ n < cur2[c]
        BY <1>3, <1>4
      <4>3. SameOrder(B, cur2, a, e)
        BY <1>2, <1>4, <4>1, <4>2 DEF SameOrder
      <4> QED
        BY <1>2, <2>1, <3>1, <3>2, <4>3 DEF a
    <3>3. CASE a.cpu # c
      <4>1. cur[c] < Len(B[c])
        BY DEF MergeTurn
      <4>2. PICK k \in 1 .. cur[c] + 1 : a.tsc[1] <= B[c][k].tsc[1]
        BY <2>2, <3>3, <4>1 DEF NextLater, a
      <4>3. LaterThan(B, cur2, a, e)
        BY <1>2, <1>4, <4>2 DEF LaterThan
      <4> QED
        BY <1>2, <2>1, <3>1, <3>3, <4>3 DEF a
    <3> QED
      BY <3>2, <3>3
  <2> QED
    BY <2>3, <2>4
<1> QED
  BY <1>2, <1>10, <1>11, <1>12 DEF IsMerged

\* Of some files, one has the lowest timestamp.
LEMMA LowestIs ==
  ASSUME NEW fs, fs \subseteq CPU, fs # {}, \A c \in fs : Time(c) \in Nat
  PROVE  Lowest(fs) \in fs /\ \A d \in fs : Time(Lowest(fs)) <= Time(d)
<1> DEFINE times == {Time(c) : c \in fs}
           t == Min(times)
           at == {c \in fs : Time(c) = t}
           low == Min(at)
           P(c) == c \in fs /\ \A d \in fs : Time(c) < Time(d) \/ (Time(c) = Time(d) /\ c <= d)
<1>1. times \subseteq Nat /\ times # {}
  OBVIOUS
<1>2. t \in times /\ \A y \in times : t <= y
  <2> HIDE DEF times
  <2> QED
    BY <1>1, LeastIs
<1>3. t \in Nat /\ \A c \in fs : t <= Time(c)
  BY <1>1, <1>2
<1>4. at # {}
  BY <1>2
<1> HIDE DEF t
<1>5. at \subseteq Nat /\ at \subseteq fs
  BY CpuIs
<1>6. low \in at /\ \A y \in at : low <= y
  <2> HIDE DEF at
  <2> QED
    BY <1>4, <1>5, LeastIs
<1> HIDE DEF low
<1>7. P(low)
  <2>1. low \in fs /\ Time(low) = t
    BY <1>6
  <2>2. \A d \in fs : Time(low) < Time(d) \/ (Time(low) = Time(d) /\ low <= d)
    <3> TAKE d \in fs
    <3>1. CASE Time(d) = t
      BY <1>6, <2>1, <3>1
    <3>2. CASE Time(d) # t
      <4>1. t <= Time(d) /\ Time(d) \in Nat
        BY <1>3
      <4>2. t < Time(d)
        BY <1>3, <3>2, <4>1
      <4> QED
        BY <2>1, <4>2
    <3> QED
      BY <3>1, <3>2
  <2> QED
    BY <2>1, <2>2
<1>8. Lowest(fs) = CHOOSE c \in fs : \A d \in fs : Time(c) < Time(d) \/ (Time(c) = Time(d) /\ c <= d)
  BY DEF Lowest
<1>9. P(Lowest(fs))
  BY <1>7, <1>8
<1>10. \A d \in fs : Time(Lowest(fs)) <= Time(d)
  <2> TAKE d \in fs
  <2> DEFINE l == Lowest(fs)
             x == Time(l)
             z == Time(d)
  <2>1. x \in Nat /\ z \in Nat /\ (x < z \/ x = z)
    BY <1>9
  <2> HIDE DEF x, z
  <2>2. x <= z
    BY <2>1
  <2> QED
    BY <2>2 DEF x, z
<1> QED
  BY <1>9, <1>10

\* The two files with the lowest timestamps
AtLowest ==
  /\ first \in files /\ \A d \in files : Time(first) <= Time(d)
  /\ IF next = None THEN files = {first}
     ELSE next \in files \ {first} /\ \A d \in files \ {first} : Time(next) <= Time(d)
MergeInv ==
  /\ first \in CPU \cup {None} /\ next \in CPU \cup {None} /\ files \subseteq CPU
  /\ IsMerged(blocks, cursor, tasks)
  /\ phase \notin After => cursor = [c \in CPU |-> 0] /\ tasks = [t \in Tids |-> <<>>]
  /\ phase \in After => files = {c \in CPU : cursor[c] < Len(blocks[c])}
  /\ phase = "done" => files = {}
  /\ phase = "append" => AtLowest

\* No task has blocks before the merge.
LEMMA NothingMerged ==
  ASSUME NEW B \in [CPU -> Seq(TaskBlock)], \A c \in CPU : \A n \in DOMAIN B[c] : B[c][n].cpu = c,
         NEW cur, cur = [c \in CPU |-> 0], NEW T, T = [t \in Tids |-> <<>>]
  PROVE  IsMerged(B, cur, T)
<1>1. cur \in [CPU -> Nat] /\ T \in [Tids -> Seq(TaskBlock)]
  OBVIOUS
<1>2. \A c \in CPU : cur[c] <= Len(B[c])
  <2> TAKE c \in CPU
  <2>1. cur[c] = 0 /\ Len(B[c]) \in Nat
    OBVIOUS
  <2> QED
    BY <2>1
<1>3. \A t \in Tids : DOMAIN T[t] = {}
  OBVIOUS
<1>4. \A c \in CPU : 1 .. cur[c] = {}
  OBVIOUS
<1>5. MergeTypes(B, cur, T)
  BY <1>1, <1>2 DEF MergeTypes
<1>6. AreTaken(B, cur, T) /\ AreOrdered(B, cur, T)
  BY <1>3 DEF AreTaken, AreOrdered
<1>7. AllTaken(B, cur, T)
  BY <1>4 DEF AllTaken
<1> QED
  BY <1>5, <1>6, <1>7 DEF IsMerged

\* The blocks of the files
LEMMA FiledBlocks ==
  ASSUME NEW B \in [CPU -> Seq(TaskBlock)], NEW s, NEW S, NEW ph, NEW k, NEW R, NEW Q,
         \A c \in CPU : IsFiled(s[c], S[c], c, ph, k, B[c], R, Q)
  PROVE  /\ \A c \in CPU : \A n \in DOMAIN B[c] : B[c][n].cpu = c
         /\ ph \in After => \A c \in CPU : 0 < Len(B[c])
<1>1. ASSUME NEW c \in CPU
      PROVE  /\ \A n \in DOMAIN B[c] : B[c][n].cpu = c
             /\ ph \in After => 0 < Len(B[c])
  <2>1. IsFiled(s[c], S[c], c, ph, k, B[c], R, Q)
    OBVIOUS
  <2>2. \A n \in DOMAIN B[c] : B[c][n].cpu = c
    BY <2>1, BlocksAre DEF IsFiled
  <2>3. ASSUME ph \in After PROVE 0 < Len(B[c])
    <3>1. B[c] # <<>> /\ B[c] \in Seq(TaskBlock)
      BY <2>1, <2>3 DEF IsFiled
    <3> QED
      BY <3>1
  <2> QED
    BY <2>2, <2>3
<1> QED
  BY <1>1

\* At first
LEMMA MergeInit == Init => MergeInv
<1> SUFFICES ASSUME Init PROVE MergeInv
  OBVIOUS
<1>1. FileInv
  BY FileInit
<1>2. /\ phase = "record" /\ cursor = [c \in CPU |-> 0] /\ tasks = [t \in Tids |-> <<>>]
      /\ files = {} /\ first = None /\ next = None
  BY DEF Init
<1>3. IsMerged(blocks, cursor, tasks)
  <2>1. blocks \in [CPU -> Seq(TaskBlock)]
    BY <1>1 DEF FileInv
  <2>2. \A c \in CPU : \A n \in DOMAIN blocks[c] : blocks[c][n].cpu = c
    BY <1>1, <2>1, FiledBlocks DEF FileInv
  <2> QED
    BY <1>2, <2>1, <2>2, NothingMerged
<1> QED
  BY <1>2, <1>3 DEF MergeInv, After

\* Until the files are all there
LEMMA MergeWaits ==
  ASSUME MergeInv, FileInv', phase \notin After, phase' \notin After, UNCHANGED <<files, cursor, first, next, tasks>>
  PROVE  MergeInv'
<1>1. cursor' = [c \in CPU |-> 0] /\ tasks' = [t \in Tids |-> <<>>]
  BY DEF MergeInv
<1>2. blocks' \in [CPU -> Seq(TaskBlock)] /\ \A c \in CPU : \A n \in DOMAIN blocks'[c] : blocks'[c][n].cpu = c
  <2>1. blocks' \in [CPU -> Seq(TaskBlock)]
    BY DEF FileInv
  <2>2. \A c \in CPU : IsFiled(stream'[c], schedules'[c], c, phase', cpu', blocks'[c], rest', quantums')
    BY DEF FileInv
  <2> QED
    BY <2>1, <2>2, FiledBlocks
<1>3. IsMerged(blocks', cursor', tasks')
  BY <1>1, <1>2, NothingMerged
<1> QED
  BY <1>1, <1>3 DEF MergeInv, After

\* All files are there.
LEMMA MergeStarts ==
  ASSUME MergeInv, FileInv', phase \notin After, phase' = "merge", files' = CPU,
         UNCHANGED <<cursor, first, next, tasks>>
  PROVE  MergeInv'
<1>1. cursor' = [c \in CPU |-> 0] /\ tasks' = [t \in Tids |-> <<>>]
  BY DEF MergeInv
<1>2. blocks' \in [CPU -> Seq(TaskBlock)]
  BY DEF FileInv
<1>3. \A c \in CPU : IsFiled(stream'[c], schedules'[c], c, phase', cpu', blocks'[c], rest', quantums')
  BY DEF FileInv
<1>4. phase' \in After
  BY DEF After
<1>5. /\ \A c \in CPU : \A n \in DOMAIN blocks'[c] : blocks'[c][n].cpu = c
      /\ \A c \in CPU : 0 < Len(blocks'[c])
  BY <1>2, <1>3, <1>4, FiledBlocks
<1>6. IsMerged(blocks', cursor', tasks')
  BY <1>1, <1>2, <1>5, NothingMerged
<1>7. files' = {c \in CPU : cursor'[c] < Len(blocks'[c])}
  BY <1>1, <1>5
<1> QED
  BY <1>4, <1>6, <1>7 DEF MergeInv

\* The next block of a file that has one
LEMMA CurrentIs ==
  ASSUME MergeInv, phase \in After, NEW c \in files
  PROVE  /\ c \in CPU /\ cursor[c] \in Nat /\ Len(blocks[c]) \in Nat /\ cursor[c] < Len(blocks[c])
         /\ cursor[c] + 1 \in DOMAIN blocks[c] /\ Current(c) \in TaskBlock /\ Time(c) \in Nat
         /\ Current(c) = blocks[c][cursor[c] + 1]
<1>1. c \in CPU /\ cursor[c] < Len(blocks[c])
  BY DEF MergeInv
<1>2. cursor[c] \in Nat /\ blocks[c] \in Seq(TaskBlock)
  BY <1>1 DEF MergeInv, IsMerged, MergeTypes
<1>3. cursor[c] + 1 \in DOMAIN blocks[c] /\ Len(blocks[c]) \in Nat
  BY <1>1, <1>2
<1>4. Current(c) \in TaskBlock /\ Current(c) = blocks[c][cursor[c] + 1]
  BY <1>2, <1>3 DEF Current
<1>5. Time(c) \in Nat
  BY <1>4, TaskBlockParts DEF Time
<1> QED
  BY <1>1, <1>2, <1>3, <1>4, <1>5

\* The file to take blocks from is found, and the one after it.
LEMMA MergePicks == MergeInv /\ PickFiles => MergeInv'
<1> SUFFICES ASSUME MergeInv, PickFiles PROVE MergeInv'
  OBVIOUS
<1>1. /\ phase = "merge" /\ cursor' = cursor /\ tasks' = tasks /\ blocks' = blocks /\ files' = files
      /\ \/ files = {} /\ phase' = "done" /\ first' = first /\ next' = next
         \/ /\ files # {} /\ phase' = "append" /\ first' = Lowest(files)
            /\ next' = Lowest(files \ {first'})
  BY DEF PickFiles, fileVars
<1>2. phase \in After /\ phase' \in After
  BY <1>1 DEF After
<1>3. files \subseteq CPU /\ \A c \in files : Time(c) \in Nat
  BY <1>2, CurrentIs DEF MergeInv
<1>4. CASE files = {}
  BY <1>1, <1>2, <1>4 DEF MergeInv
<1>5. CASE files # {}
  <2>1. first' \in files /\ \A d \in files : Time(first') <= Time(d)
    BY <1>1, <1>3, <1>5, LowestIs
  <2>2. IF next' = None THEN files = {first'}
        ELSE next' \in files \ {first'} /\ \A d \in files \ {first'} : Time(next') <= Time(d)
    <3>1. CASE files \ {first'} = {}
      <4>1. next' = None
        BY <1>1, <1>5, <3>1 DEF Lowest
      <4> QED
        BY <2>1, <3>1, <4>1
    <3>2. CASE files \ {first'} # {}
      <4> DEFINE fs == files \ {first'}
      <4>1. fs \subseteq CPU /\ fs # {} /\ \A c \in fs : Time(c) \in Nat
        BY <1>3, <3>2
      <4> HIDE DEF fs
      <4>2. Lowest(fs) \in fs /\ \A d \in fs : Time(Lowest(fs)) <= Time(d)
        BY <4>1, LowestIs
      <4>3. Lowest(fs) # None
        BY <4>1, <4>2, CpuIs DEF None
      <4>4. next' = Lowest(fs)
        BY <1>1, <1>5 DEF fs
      <4> QED
        BY <4>2, <4>3, <4>4 DEF fs
    <3> QED
      BY <3>1, <3>2
  <2>3. AtLowest'
    BY <1>1, <2>1, <2>2 DEF AtLowest, Time, Current
  <2>4. first' \in CPU \cup {None} /\ next' \in CPU \cup {None}
    BY <1>3, <2>1, <2>2
  <2> QED
    BY <1>1, <1>2, <1>5, <2>3, <2>4 DEF MergeInv
<1> QED
  BY <1>4, <1>5

\* The next block of the lowest file is merged; if the file is not the lowest
\* one then, files are picked again.
LEMMA MergeAppends == MergeInv /\ AppendBlock => MergeInv'
<1> SUFFICES ASSUME MergeInv, AppendBlock PROVE MergeInv'
  OBVIOUS
<1> DEFINE e == Current(first)
<1>1. /\ phase = "append" /\ blocks' = blocks /\ first' = first /\ next' = next
      /\ tasks' = [tasks EXCEPT ![e.tid] = Append(@, e)]
      /\ cursor' = [cursor EXCEPT ![first] = @ + 1]
      /\ IF cursor'[first] = Len(blocks[first])
         THEN files' = files \ {first} /\ phase' = "merge"
         ELSE files' = files /\ phase' = IF next = None \/ WhileLowest(first, next)' THEN "append" ELSE "merge"
  BY DEF AppendBlock, fileVars
<1>2. phase \in After /\ phase' \in {"append", "merge"} /\ phase' \in After
  BY <1>1 DEF After
<1>3. AtLowest /\ first \in files
  BY <1>1 DEF MergeInv, AtLowest
<1>4. /\ first \in CPU /\ cursor[first] \in Nat /\ Len(blocks[first]) \in Nat
      /\ cursor[first] < Len(blocks[first]) /\ e = blocks[first][cursor[first] + 1]
  BY <1>2, <1>3, CurrentIs
<1>5. files = {c \in CPU : cursor[c] < Len(blocks[c])}
  BY <1>2 DEF MergeInv
<1>6. IsMerged(blocks, cursor, tasks) /\ cursor \in [CPU -> Nat]
  BY DEF MergeInv, IsMerged, MergeTypes
<1>7. MergeTurn(blocks, cursor, tasks, first, e, cursor', tasks')
  BY <1>1, <1>4 DEF MergeTurn
<1>8. \A d \in CPU : cursor[d] < Len(blocks[d]) => e.tsc[1] <= blocks[d][cursor[d] + 1].tsc[1]
  <2>1. \A d \in files : Time(first) <= Time(d)
    BY <1>3 DEF AtLowest
  <2> QED
    BY <1>5, <2>1 DEF Time, Current
<1> HIDE DEF e
<1>9. IsMerged(blocks', cursor', tasks')
  BY <1>1, <1>4, <1>6, <1>7, <1>8, MergedTurn
<1>10. cursor'[first] = cursor[first] + 1 /\ \A d \in CPU : d # first => cursor'[d] = cursor[d]
  BY <1>1, <1>4, <1>6
<1>11. files' = {c \in CPU : cursor'[c] < Len(blocks'[c])}
  <2>1. cursor'[first] < Len(blocks[first]) <=> cursor'[first] # Len(blocks[first])
    BY <1>4, <1>10
  <2>2. \A d \in CPU : d # first => (cursor'[d] < Len(blocks[d]) <=> d \in files)
    BY <1>5, <1>10
  <2>3. \A d \in files' : d \in CPU
    BY <1>1, <1>5
  <2>4. \A d \in CPU : d \in files' <=> cursor'[d] < Len(blocks'[d])
    <3> TAKE d \in CPU
    <3>1. CASE d = first
      BY <1>1, <1>3, <2>1, <3>1
    <3>2. CASE d # first
      BY <1>1, <2>2, <3>2
    <3> QED
      BY <3>1, <3>2
  <2> QED
    BY <2>3, <2>4
<1> DEFINE now(d) == blocks[d][cursor'[d] + 1].tsc[1]
<1>12. ASSUME phase' = "append" PROVE AtLowest'
  <2>1. files' = files /\ (next = None \/ now(first) <= now(next))
    BY <1>1, <1>12 DEF WhileLowest, Time, Current
  <2>2. \A d \in files : d # first => now(d) = Time(d)
    BY <1>5, <1>10 DEF Time, Current
  <2>3. now(first) \in Nat
    <3>1. cursor'[first] < Len(blocks[first]) /\ cursor'[first] \in Nat
      <4>1. first \in files' /\ blocks' = blocks
        BY <1>1, <1>3, <2>1
      <4>2. first \in CPU /\ cursor'[first] < Len(blocks'[first])
        BY <1>4, <1>11, <4>1
      <4> QED
        BY <1>4, <1>10, <4>1, <4>2
    <3>2. blocks[first] \in Seq(TaskBlock)
      BY <1>4, <1>6 DEF IsMerged, MergeTypes
    <3>3. cursor'[first] + 1 \in DOMAIN blocks[first]
      BY <3>1, <3>2
    <3>4. blocks[first][cursor'[first] + 1] \in TaskBlock
      BY <3>2, <3>3
    <3> QED
      BY <3>4, TaskBlockParts
  <2>4. \A d \in files : Time(d) \in Nat
    BY <1>2, CurrentIs
  <2> HIDE DEF now
  <2>5. /\ \A d \in files : now(first) <= now(d)
        /\ IF next = None THEN files = {first}
           ELSE next \in files \ {first} /\ \A d \in files \ {first} : now(next) <= now(d)
    <3>1. CASE next = None
      <4>1. files = {first}
        BY <1>3, <3>1 DEF AtLowest
      <4> QED
        BY <2>3, <3>1, <4>1
    <3>2. CASE next # None
      <4>1. next \in files \ {first} /\ \A d \in files \ {first} : Time(next) <= Time(d)
        BY <1>3, <3>2 DEF AtLowest
      <4>2. \A d \in files \ {first} : now(next) <= now(d) /\ now(next) \in Nat /\ now(d) \in Nat
        BY <2>2, <2>4, <4>1
      <4>3. now(first) <= now(next)
        BY <2>1, <3>2
      <4>4. ASSUME NEW d \in files PROVE now(first) <= now(d)
        <5>1. CASE d = first
          BY <2>3, <5>1
        <5>2. CASE d # first
          BY <2>3, <4>2, <4>3, <5>2
        <5> QED
          BY <5>1, <5>2
      <4> QED
        BY <3>2, <4>1, <4>2, <4>4
    <3> QED
      BY <3>1, <3>2
  <2> QED
    BY <1>1, <1>3, <2>1, <2>5 DEF AtLowest, Time, Current, now
<1> QED
  BY <1>1, <1>2, <1>5, <1>9, <1>11, <1>12 DEF MergeInv

\* The blocks stay while they are merged.
LEMMA FileStays ==
  ASSUME FileInv, phase \in After, phase' \in After, UNCHANGED <<recordVars, fileVars>>
  PROVE  FileInv'
<1>1. /\ stream' = stream /\ schedules' = schedules /\ cpu' = cpu /\ blocks' = blocks
      /\ rest' = rest /\ quantums' = quantums
  BY DEF recordVars, fileVars
<1>2. \A c \in CPU :
        IsFiled(stream[c], schedules[c], c, phase, cpu, blocks[c], rest, quantums)
          => IsFiled(stream[c], schedules[c], c, phase', cpu, blocks[c], rest, quantums)
  BY DEF IsFiled, Between, Inside, After
<1>3. phase' \in Phases /\ phase' # "record"
  BY DEF After, Phases
<1> QED
  BY <1>1, <1>2, <1>3 DEF FileInv

-----------------------------------------------------------------------------
(* The inductive invariant *)

StreamInv == RecordInv /\ FileInv /\ MergeInv

\* The invariant holds when the recording starts.
LEMMA StreamInit == Init => StreamInv
BY RecordInit, FileInit, MergeInit DEF StreamInv

\* A step of the recording
LEMMA StepRecords ==
  ASSUME StreamInv, Recording, RecordInv'
  PROVE  StreamInv'
<1>1. /\ phase = "record" /\ phase' = phase /\ UNCHANGED fileVars
      /\ UNCHANGED <<files, cursor, first, next, tasks>>
  BY DEF Recording, mergeVars
<1>2. FileInv'
  BY <1>1, FileRecords DEF StreamInv, Between
<1>3. MergeInv'
  BY <1>1, <1>2, MergeWaits DEF StreamInv, After
<1> QED
  BY <1>2, <1>3 DEF StreamInv

\* A step in a file
LEMMA StepFiles ==
  ASSUME StreamInv, UNCHANGED recordVars, FileInv', phase \notin After, phase' \notin After,
         UNCHANGED <<files, cursor, first, next, tasks>>
  PROVE  StreamInv'
BY RecordStays, MergeWaits DEF StreamInv

\* A step of the merge
LEMMA StepMerges ==
  ASSUME StreamInv, UNCHANGED <<recordVars, fileVars>>, phase \in After, phase' \in After, MergeInv'
  PROVE  StreamInv'
BY RecordStays, FileStays DEF StreamInv

\* Every step keeps the invariant.
LEMMA StreamStep == StreamInv /\ [Next]_vars => StreamInv'
<1> SUFFICES ASSUME StreamInv, [Next]_vars PROVE StreamInv'
  OBVIOUS
<1>0. RecordInv /\ FileInv /\ MergeInv
  BY DEF StreamInv
<1>1. CASE Tick
  BY <1>0, <1>1, RecordTick, StepRecords DEF Tick
<1>2. CASE \E c \in CPU : PsbPacket(c)
  BY <1>0, <1>2, RecordPsb, StepRecords DEF PsbPacket
<1>3. CASE \E c \in CPU, t \in Threads \cup {0} : Switch(c, t)
  BY <1>0, <1>3, RecordSwitch, StepRecords DEF Switch
<1>4. CASE \E c \in CPU : OverflowBegins(c)
  BY <1>0, <1>4, RecordOverflow, StepRecords DEF OverflowBegins
<1>5. CASE \E c \in CPU : OverflowEnds(c)
  BY <1>0, <1>5, RecordOvf, StepRecords DEF OverflowEnds
<1>6. CASE StopRecording
  <2>1. /\ phase = "record" /\ phase' = "file" /\ UNCHANGED recordVars /\ UNCHANGED fileVars
        /\ UNCHANGED <<files, cursor, first, next, tasks>>
    BY <1>6 DEF StopRecording, mergeVars
  <2>2. FileInv'
    BY <1>0, <2>1, FileRecords DEF Between
  <2> QED
    BY <2>1, <2>2, StepFiles DEF After
<1>7. CASE OpenFile
  <2>1. /\ phase = "file" /\ phase' \in {"exit", "undefined", "quantum"} /\ UNCHANGED recordVars
        /\ UNCHANGED <<files, cursor, first, next, tasks>>
    BY <1>7 DEF OpenFile, mergeVars
  <2> QED
    BY <1>0, <1>7, <2>1, FileOpens, StepFiles DEF After
<1>8. CASE ScheduleIn
  <2>1. /\ phase = "quantum" /\ phase' = "cut" /\ UNCHANGED recordVars
        /\ UNCHANGED <<files, cursor, first, next, tasks>>
    BY <1>8 DEF ScheduleIn, mergeVars
  <2> QED
    BY <1>0, <1>8, <2>1, FileIn, StepFiles DEF After
<1>9. CASE CutNothing
  <2>1. /\ phase = "cut" /\ phase' \in {"cut", "leave"} /\ UNCHANGED recordVars
        /\ UNCHANGED <<files, cursor, first, next, tasks>>
    BY <1>9 DEF CutNothing, ClaimBlocks, mergeVars
  <2> QED
    BY <1>0, <1>9, <2>1, FileCutsNothing, StepFiles DEF After
<1>10. CASE CutAtOffset
  <2>1. /\ phase = "cut" /\ phase' \in {"cut", "leave"} /\ UNCHANGED recordVars
        /\ UNCHANGED <<files, cursor, first, next, tasks>>
    BY <1>10 DEF CutAtOffset, ClaimBlocks, mergeVars
  <2> QED
    BY <1>0, <1>10, <2>1, FileCutsAtOffset, StepFiles DEF After
<1>11. CASE CutAtTime
  <2>1. /\ phase = "cut" /\ phase' \in {"cut", "leave", "undefined"} /\ UNCHANGED recordVars
        /\ UNCHANGED <<files, cursor, first, next, tasks>>
    <3>1. phase = "cut"
      BY <1>11 DEF CutAtTime
    <3>2. \A part, left : \A again \in BOOLEAN : ClaimBlocks(part, left, again) =>
             /\ phase' \in {"cut", "leave"} /\ UNCHANGED recordVars
             /\ UNCHANGED <<files, cursor, first, next, tasks>>
      BY DEF ClaimBlocks, mergeVars
    <3>3. \/ \E part, left : \E again \in BOOLEAN : ClaimBlocks(part, left, again)
          \/ phase' = "undefined" /\ UNCHANGED <<recordVars, fileVars, mergeVars>>
      BY <1>0, <1>11, TimeCuts
    <3> QED
      BY <3>1, <3>2, <3>3 DEF mergeVars
  <2> QED
    BY <1>0, <1>11, <2>1, FileCutsAtTime, StepFiles DEF After
<1>12. CASE ScheduleOut
  <2>1. /\ phase = "leave" /\ UNCHANGED recordVars /\ UNCHANGED <<cursor, first, next, tasks>>
        /\ \/ phase' \in {"quantum", "file"} /\ files' = files
           \/ phase' = "merge" /\ files' = CPU
    BY <1>12 DEF ScheduleOut
  <2>2. FileInv'
    BY <1>0, <1>12, FileOut
  <2>3. CASE phase' = "merge"
    <3>1. phase \notin After /\ files' = CPU
      BY <2>1, <2>3 DEF After
    <3>2. MergeInv'
      BY <1>0, <2>1, <2>2, <2>3, <3>1, MergeStarts
    <3>3. RecordInv'
      BY <1>0, <2>1, RecordStays
    <3> QED
      BY <2>2, <3>2, <3>3 DEF StreamInv
  <2>4. CASE phase' # "merge"
    <3>1. phase \notin After /\ phase' \notin After /\ UNCHANGED <<files, cursor, first, next, tasks>>
      BY <2>1, <2>4 DEF After
    <3> QED
      BY <2>1, <2>2, <3>1, StepFiles
  <2> QED
    BY <2>3, <2>4
<1>13. CASE PickFiles
  <2>1. phase \in After /\ phase' \in After /\ UNCHANGED <<recordVars, fileVars>>
    BY <1>13 DEF PickFiles, After
  <2> QED
    BY <1>0, <1>13, <2>1, MergePicks, StepMerges
<1>14. CASE AppendBlock
  <2>1. phase \in After /\ phase' \in After /\ UNCHANGED <<recordVars, fileVars>>
    BY <1>14 DEF AppendBlock, After
  <2> QED
    BY <1>0, <1>14, <2>1, MergeAppends, StepMerges
<1>15. CASE UNCHANGED vars
  <2>1. /\ phase' = phase /\ UNCHANGED recordVars /\ UNCHANGED fileVars
        /\ UNCHANGED <<files, cursor, first, next, tasks>>
    BY <1>15 DEF vars, mergeVars
  <2>2. RecordInv'
    BY <1>0, <2>1, RecordStays
  <2>3. FileInv'
    BY <1>0, <2>1 DEF FileInv, recordVars, fileVars
  <2>4. MergeInv'
    BY <1>0, <2>1 DEF MergeInv, AtLowest, Time, Current, fileVars
  <2> QED
    BY <2>2, <2>3, <2>4 DEF StreamInv
<1> QED
  BY <1>1, <1>2, <1>3, <1>4, <1>5, <1>6, <1>7, <1>8, <1>9, <1>10, <1>11, <1>12, <1>13, <1>14, <1>15
     DEF Next, Terminating

\* The invariant
THEOREM StreamInvariant == Spec => []StreamInv
<1> QED
  BY StreamInit, StreamStep, PTL DEF Spec

-----------------------------------------------------------------------------
(* What it implies *)

\* The values of the variables
LEMMA TypesOK == StreamInv => TypeOK
<1> SUFFICES ASSUME StreamInv PROVE TypeOK
  OBVIOUS
<1>1. RecordTypes /\ FileInv /\ MergeInv
  BY DEF StreamInv, RecordInv
<1>2. blocks \in [CPU -> Seq(TaskBlock)] /\ cursor \in [CPU -> Nat] /\ tasks \in [Tids -> Seq(TaskBlock)]
      /\ \A c \in CPU : cursor[c] <= Len(blocks[c])
  BY <1>1 DEF MergeInv, IsMerged, MergeTypes
<1>3. \A c \in CPU : cursor[c] \in 0 .. Len(blocks[c])
  <2> TAKE c \in CPU
  <2>1. cursor[c] \in Nat /\ blocks[c] \in Seq(TaskBlock) /\ cursor[c] <= Len(blocks[c])
    BY <1>2
  <2>2. Len(blocks[c]) \in Nat
    BY <2>1
  <2> QED
    BY <2>1, <2>2
<1>4. phase \in Phases
  BY <1>1 DEF FileInv
<1> QED
  BY <1>1, <1>2, <1>3, <1>4 DEF TypeOK, RecordTypes, MergeInv, Phases

\* What AllTips means
LEMMA TipsAre == \A c : AllTips(c) => HasTips(stream[c], schedules[c])
BY DEF AllTips, Tips, HasTips

\* What the invariant says of a CPU that lost no TIP
LEMMA CpuFacts ==
  ASSUME StreamInv, NEW c \in CPU, AllTips(c)
  PROVE  /\ Switches(stream[c], schedules[c]) /\ Claims(stream[c], schedules[c], c, blocks[c])
         /\ phase = "done" => HasAll(stream[c], schedules[c], blocks[c], <<>>)
         /\ \A i \in DOMAIN blocks[c] : blocks[c][i].cpu = c
         /\ blocks[c] \in Seq(TaskBlock) /\ IsTrace(stream[c])
<1>1. HasTips(stream[c], schedules[c])
  BY TipsAre
<1>2. Switches(stream[c], schedules[c]) /\ IsTrace(stream[c])
  BY <1>1, RecordIs DEF StreamInv
<1>3. IsFiled(stream[c], schedules[c], c, phase, cpu, blocks[c], rest, quantums)
  BY DEF StreamInv, FileInv
<1>4. blocks[c] \in Seq(TaskBlocksOf(c))
  BY <1>3 DEF IsFiled
<1> QED
  BY <1>1, <1>2, <1>3, <1>4, BlocksAre DEF IsFiled, After

\* A TIP is not before that of the first message.
LEMMA FirstSwitch ==
  ASSUME NEW s, NEW S, Switches(s, S), NEW n \in DOMAIN s, s[n].kind = "tip"
  PROVE  1 \in DOMAIN S /\ TipOf(S, 1) <= n /\ TipOf(S, 1) \in DOMAIN s /\ TipOf(S, 1) \in Nat /\ n \in Nat
<1>1. S \in Seq(Schedulings) /\ IsTrace(s)
  BY DEF Switches, Messages
<1>2. PICK k \in DOMAIN S : n = TipOf(S, k)
  BY TipsAll DEF Switches
<1>3. k \in Nat /\ 1 <= k /\ 1 \in DOMAIN S
  BY <1>1, SchedulingParts
<1>4. TipOf(S, 1) \in DOMAIN s
  BY <1>3, TipIs DEF Switches
<1>5. TipOf(S, 1) \in Nat /\ n \in Nat
  BY <1>1, <1>4, TraceFacts
<1>6. TipOf(S, 1) <= n
  <2>1. CASE k = 1
    BY <1>2, <1>5, <2>1
  <2>2. CASE k # 1
    <3>1. TipOf(S, 1) < TipOf(S, k)
      BY <1>3, <2>2, TipsOrder DEF Switches
    <3> QED
      BY <1>2, <1>5, <3>1
  <2> QED
    BY <2>1, <2>2
<1> QED
  BY <1>3, <1>4, <1>5, <1>6

\* The places of a block that a task has
LEMMA BlockPlaces ==
  ASSUME NEW s, NEW S, Switches(s, S), NEW c, NEW b, IsDone(s, S, c, b), NEW p \in b.pos[1] .. b.pos[2] - 1
  PROVE  p \in DOMAIN s /\ p \in Nat /\ In(b, p) /\ b.pos[1] \in Nat /\ b.pos[2] \in Nat
<1>1. IsTrace(s)
  BY DEF Switches
<1>2. b.pos[1] \in DOMAIN s /\ b.pos[1] \in Nat
  BY StartIs DEF IsDone
<1>3. b.pos[2] \in DOMAIN s
  BY DEF IsDone
<1>4. DOMAIN s = 1 .. Len(s) /\ Len(s) \in Nat
  BY <1>1, TraceFacts
<1> DEFINE x == b.pos[1]
           y == b.pos[2]
           L == Len(s)
<1>5. x \in 1 .. L /\ y \in 1 .. L /\ L \in Nat /\ p \in x .. y - 1
  BY <1>2, <1>3, <1>4
<1> HIDE DEF x, y, L
<1>6. p \in 1 .. L /\ p \in Nat /\ x <= p /\ p < y /\ x \in Nat /\ y \in Nat
  BY <1>5
<1> QED
  BY <1>4, <1>6 DEF In, x, y, L

\* Blocks of tasks are where the task ran.
LEMMA RunsByTask == StreamInv => RunByTask
<1> SUFFICES ASSUME StreamInv, NEW c \in CPU, AllTips(c), NEW i \in DOMAIN blocks[c],
                    blocks[c][i].type = "trace"
             PROVE  RanBy(blocks[c][i])
  BY DEF RunByTask
<1> DEFINE s == stream[c]
           S == schedules[c]
           b == blocks[c][i]
<1>1. Switches(s, S) /\ Claims(s, S, c, blocks[c]) /\ b.cpu = c
  BY CpuFacts
<1>2. IsDone(s, S, c, b)
  BY <1>1 DEF Claims
<1> SUFFICES ASSUME NEW p \in b.pos[1] .. b.pos[2] - 1, Settled(c, p)
             PROVE  Tid(s[p].runner, c) = b.tid
  BY <1>1 DEF RanBy
<1> HIDE DEF b
<1>3. p \in DOMAIN s /\ p \in Nat /\ In(b, p)
  BY <1>1, <1>2, BlockPlaces
<1>4. SettledAt(s, S, p)
  <2>1. PICK m \in Timed(s) : m <= p /\ Switched(c, m)
    BY DEF Settled
  <2>2. PICK n \in DOMAIN s : s[n].kind = "tip" /\ n <= m
    BY <2>1 DEF Switched, Tips
  <2>3. TipOf(S, 1) <= n /\ n \in Nat /\ TipOf(S, 1) \in Nat
    BY <1>1, <2>2, FirstSwitch
  <2>4. m \in Nat /\ s[m].kind \in {"psb", "mtc"}
    <3>1. IsTrace(s)
      BY <1>1 DEF Switches
    <3> QED
      BY <3>1, TraceFacts
  <2>5. m # n
    BY <2>2, <2>4
  <2>6. TipOf(S, 1) < m
    BY <2>2, <2>3, <2>4, <2>5
  <2> QED
    BY <2>1, <2>6 DEF SettledAt
<1> QED
  BY <1>2, <1>3, <1>4 DEF IsDone, RunsAs

\* Of two blocks that tasks have of a CPU, not both have place p.
LEMMA OnePlace ==
  ASSUME NEW s, NEW S, Switches(s, S), NEW c, NEW a, Claims(s, S, c, a), NEW n \in DOMAIN a, NEW m \in DOMAIN a,
         a[n].type = "trace", a[m].type = "trace",
         NEW p, p \in a[n].pos[1] .. a[n].pos[2] - 1, p \in a[m].pos[1] .. a[m].pos[2] - 1
  PROVE  ~(n < m)
<1> SUFFICES ASSUME n < m PROVE FALSE
  OBVIOUS
<1>1. IsBefore(a[n], a[m])
  BY DEF Claims, InOrder
<1>2. a[n].pos[2] <= a[m].pos[1]
  BY <1>1 DEF IsBefore
<1>3. IsDone(s, S, c, a[n]) /\ IsDone(s, S, c, a[m])
  BY DEF Claims
<1>4. In(a[n], p) /\ In(a[m], p) /\ p \in Nat /\ a[n].pos[2] \in Nat /\ a[m].pos[1] \in Nat
  BY <1>3, BlockPlaces
<1>5. p < a[n].pos[2] /\ a[m].pos[1] <= p
  BY <1>4 DEF In
<1> QED
  BY <1>2, <1>4, <1>5

\* Two blocks of one CPU are merged in the order that the CPU has them in.
LEMMA MergedOnce ==
  ASSUME StreamInv, NEW c \in CPU, AllTips(c), NEW p,
         NEW t \in Tids, NEW i \in DOMAIN tasks[t], Has(tasks[t][i], c, p),
         NEW u \in Tids, NEW j \in DOMAIN tasks[u], Has(tasks[u][j], c, p)
  PROVE  u = t /\ j = i
<1> DEFINE s == stream[c]
           S == schedules[c]
           B == blocks[c]
           a == tasks[t][i]
           b == tasks[u][j]
<1>1. /\ Switches(s, S) /\ Claims(s, S, c, B) /\ B \in Seq(TaskBlock)
  BY CpuFacts
<1>2. AreTaken(blocks, cursor, tasks) /\ AreOrdered(blocks, cursor, tasks) /\ MergeTypes(blocks, cursor, tasks)
  BY DEF StreamInv, MergeInv, IsMerged
<1>3. a.type = "trace" /\ a.cpu = c /\ p \in a.pos[1] .. a.pos[2] - 1
  BY DEF Has
<1>4. b.type = "trace" /\ b.cpu = c /\ p \in b.pos[1] .. b.pos[2] - 1
  BY DEF Has
<1>5. a.tid = t /\ b.tid = u /\ IsTaken(blocks, cursor, a) /\ IsTaken(blocks, cursor, b)
  BY <1>2 DEF AreTaken
<1>6. \A n \in 1 .. cursor[c] : n \in DOMAIN B /\ n \in Nat
  <2>1. cursor[c] \in Nat /\ cursor[c] <= Len(B) /\ Len(B) \in Nat /\ DOMAIN B = 1 .. Len(B)
    BY <1>1, <1>2 DEF MergeTypes
  <2> QED
    BY <2>1
<1> HIDE DEF a, b, B, s, S
<1>7. \A n, m \in DOMAIN B : B[n] = a /\ B[m] = b => ~(n < m) /\ ~(m < n)
  BY <1>1, <1>3, <1>4, OnePlace
<1>8. a = b
  <2>1. PICK n \in 1 .. cursor[c] : B[n] = a
    BY <1>3, <1>5 DEF IsTaken, B
  <2>2. PICK m \in 1 .. cursor[c] : B[m] = b
    BY <1>4, <1>5 DEF IsTaken, B
  <2>3. n = m
    BY <1>6, <1>7, <2>1, <2>2
  <2> QED
    BY <2>1, <2>2, <2>3
<1>9. u = t
  BY <1>5, <1>8
<1>10. i \in Nat /\ j \in Nat
  <2>1. tasks[t] \in Seq(TaskBlock)
    BY <1>2 DEF MergeTypes
  <2> QED
    BY <1>9, <2>1
<1>11. ~(i < j)
  <2> SUFFICES ASSUME i < j PROVE FALSE
    OBVIOUS
  <2>1. SameOrder(blocks, cursor, a, b)
    BY <1>2, <1>3, <1>4, <1>9 DEF AreOrdered, a, b
  <2> QED
    BY <1>4, <1>6, <1>7, <2>1 DEF SameOrder, B
<1>12. ~(j < i)
  <2> SUFFICES ASSUME j < i PROVE FALSE
    OBVIOUS
  <2>1. SameOrder(blocks, cursor, b, a)
    BY <1>2, <1>3, <1>4, <1>9 DEF AreOrdered, a, b
  <2> QED
    BY <1>3, <1>6, <1>7, <2>1 DEF SameOrder, B
<1> QED
  BY <1>9, <1>10, <1>11, <1>12

\* What is timed and switched is in a block of a task.
LEMMA LosesNothing == StreamInv => NothingLost
<1> SUFFICES ASSUME StreamInv, phase = "done", NEW c \in CPU, AllTips(c), NEW p \in DOMAIN stream[c],
                    Switched(c, p), InTime(c, p)
             PROVE  \E t \in Tids : \E i \in DOMAIN tasks[t] :
                      /\ Has(tasks[t][i], c, p)
                      /\ \A u \in Tids : \A j \in DOMAIN tasks[u] :
                           Has(tasks[u][j], c, p) => u = t /\ j = i
  BY DEF NothingLost
<1> DEFINE s == stream[c]
           S == schedules[c]
           B == blocks[c]
<1>1. /\ Switches(s, S) /\ Claims(s, S, c, B) /\ HasAll(s, S, B, <<>>) /\ B \in Seq(TaskBlock)
      /\ \A n \in DOMAIN B : B[n].cpu = c
  BY CpuFacts
<1>2. TipOf(S, 1) <= p
  <2>1. PICK n \in DOMAIN s : s[n].kind = "tip" /\ n <= p
    BY DEF Switched, Tips
  <2>2. TipOf(S, 1) <= n /\ TipOf(S, 1) \in Nat /\ n \in Nat
    BY <1>1, <2>1, FirstSwitch
  <2>3. p \in Nat
    BY <1>1, TraceFacts DEF Switches
  <2> QED
    BY <2>1, <2>2, <2>3
<1>3. Dated(s, p)
  <2>1. NoneLost(s, SlotOf(s, p), p)
    <3> SUFFICES ASSUME NEW o \in DOMAIN s, SlotOf(s, p) <= o, o <= p, s[o].kind = "ovf" PROVE ~s[o].lost
      BY DEF NoneLost
    <3>1. o \in Nat /\ p \in Nat /\ SlotOf(s, p) \in Nat
      <4>1. IsTrace(s)
        BY <1>1 DEF Switches
      <4>2. SlotOf(s, p) \in Timed(s)
        BY <4>1, SlotIs
      <4> QED
        BY <4>1, <4>2, TraceFacts
    <3>2. o \in SlotOf(s, p) .. p
      BY <3>1
    <3> QED
      BY <3>2 DEF InTime
  <2>2. \E m \in Timed(s) : p < m
    <3>1. PICK m \in Timed(s) : m > p
      BY DEF InTime
    <3>2. m \in Nat /\ p \in Nat
      BY <1>1, TraceFacts DEF Switches
    <3> QED
      BY <3>1, <3>2
  <2> QED
    BY <2>1, <2>2 DEF Dated
<1>4. PICK n \in DOMAIN B : B[n].type = "trace" /\ In(B[n], p)
  <2>1. ~InSome(<<>>, p)
    BY DEF InSome
  <2>2. HasPlace(B, p)
    BY <1>1, <1>2, <1>3, <2>1 DEF HasAll
  <2> QED
    BY <2>2 DEF HasPlace
<1>5. AllTaken(blocks, cursor, tasks) /\ MergeTypes(blocks, cursor, tasks)
      /\ files = {} /\ files = {d \in CPU : cursor[d] < Len(blocks[d])}
  <2>1. phase \in After
    BY DEF After
  <2> QED
    BY <2>1 DEF StreamInv, MergeInv, IsMerged
<1>6. n \in 1 .. cursor[c]
  <2>1. cursor[c] \in Nat /\ Len(B) \in Nat /\ DOMAIN B = 1 .. Len(B) /\ cursor[c] <= Len(B)
    BY <1>1, <1>5 DEF MergeTypes
  <2>2. ~(cursor[c] < Len(B))
    BY <1>5
  <2> QED
    BY <1>4, <2>1, <2>2
<1> DEFINE b == B[n]
<1>7. b.tid \in Tids /\ b \in TaskBlock /\ b.pos[1] \in Nat /\ b.pos[2] \in Nat
  BY <1>1, <1>4, TaskBlockParts
<1>8. PICK i \in DOMAIN tasks[b.tid] : tasks[b.tid][i] = b
  BY <1>5, <1>6 DEF AllTaken
<1>9. Has(tasks[b.tid][i], c, p)
  <2>1. b.cpu = c /\ b.type = "trace"
    BY <1>1, <1>4
  <2> HIDE DEF b
  <2>2. b.pos[1] <= p /\ p < b.pos[2] /\ p \in Nat
    <3>1. p \in Nat
      BY <1>1, TraceFacts DEF Switches
    <3> QED
      BY <1>4, <3>1 DEF In, b
  <2>3. p \in b.pos[1] .. b.pos[2] - 1
    BY <1>7, <2>2
  <2> QED
    BY <1>8, <2>1, <2>3 DEF Has
<1> HIDE DEF b
<1>10. \A u \in Tids : \A j \in DOMAIN tasks[u] : Has(tasks[u][j], c, p) => u = b.tid /\ j = i
  BY <1>7, <1>8, <1>9, MergedOnce
<1> QED
  BY <1>7, <1>8, <1>9, <1>10

\* The timestamp of a block's start is not before a tick of its CPU that is
\* not after anything in the block.
LEMMA StartAfterTick ==
  ASSUME NEW s, NEW S, Switches(s, S), NEW c, NEW b, IsDone(s, S, c, b),
         NEW g \in Timed(s), NEW p \in b.pos[1] .. b.pos[2] - 1, TipOf(S, 1) <= p, 1 \in DOMAIN S,
         \A o \in b.pos[1] .. b.pos[2] - 1 : TipOf(S, 1) <= o => s[g].tsc <= s[o].at
  PROVE  s[g].tsc <= b.tsc[1]
<1>1. IsTrace(s) /\ StartsWell(s, S, b) /\ MatchedTsc(s, S, 1) <= b.tsc[1]
  BY DEF Switches, IsDone
<1>2. /\ p \in DOMAIN s /\ p \in Nat /\ b.pos[1] \in Nat /\ b.pos[2] \in Nat
      /\ b.pos[1] <= p /\ p < b.pos[2]
  BY BlockPlaces DEF In
<1>3. b.pos[1] \in DOMAIN s /\ b.tsc[1] \in Nat /\ b.tsc[1] <= s[b.pos[1]].at
  BY <1>1, StartIs
<1>4. /\ g \in DOMAIN s /\ g \in Nat /\ s[g].tsc = s[g].at /\ s[g].kind \in {"psb", "mtc"}
      /\ s[g].tsc \in Nat /\ s[g].tsc # 0
  BY <1>1, TraceFacts
<1>5. TipOf(S, 1) \in DOMAIN s /\ TipOf(S, 1) \in Nat /\ s[TipOf(S, 1)].kind = "tip"
  <2>1. TipOf(S, 1) \in DOMAIN s /\ s[TipOf(S, 1)].kind = "tip"
    BY TipIs DEF Switches
  <2> QED
    BY <1>1, <2>1, TraceFacts
<1> DEFINE t1 == TipOf(S, 1)
           x == b.pos[1]
           y == b.pos[2]
<1> HIDE DEF t1, x, y
\* g is not after a place of the block from the first switch on.
<1>6. ASSUME NEW o \in x .. y - 1, t1 <= o, o \in DOMAIN s PROVE g <= o
  <2>1. s[g].at <= s[o].at
    BY <1>4, <1>6 DEF t1, x, y
  <2>2. o \in Nat /\ s[o].at \in Nat /\ s[g].at \in Nat
    BY <1>1, <1>4, <1>6, TraceFacts, PacketParts
  <2>3. ~(o < g)
    <3> SUFFICES ASSUME o < g PROVE FALSE
      OBVIOUS
    <3>1. s[o].at < s[g].at
      BY <1>1, <1>4, <1>6 DEF IsTrace
    <3> QED
      BY <2>1, <2>2, <3>1
  <2> QED
    BY <1>4, <2>2, <2>3
<1>7. CASE t1 <= x
  <2>1. g <= x
    <3>1. x \in x .. y - 1
      BY <1>2 DEF x, y
    <3> QED
      BY <1>3, <1>6, <1>7, <3>1 DEF x
  <2>2. CASE x \in Timed(s) /\ b.tsc[1] = s[x].tsc
    BY <1>1, <2>1, <2>2, TimedOrder
  <2>3. CASE \E k \in DOMAIN S : x = TipOf(S, k) /\ b.tsc[1] = MatchedTsc(s, S, k)
    <3>1. PICK k \in DOMAIN S : x = TipOf(S, k) /\ b.tsc[1] = MatchedTsc(s, S, k)
      BY <2>3
    <3>2. /\ SlotOf(s, x) \in Timed(s) /\ TscAt(s, x) = s[SlotOf(s, x)].tsc /\ g <= SlotOf(s, x)
      BY <1>1, <1>3, <2>1, SlotIs DEF x
    <3>3. s[g].tsc <= TscAt(s, x)
      BY <1>1, <3>2, TimedOrder
    <3>4. TscAt(s, x) <= b.tsc[1] /\ TscAt(s, x) \in Nat
      BY <3>1, MatchedIs
    <3> QED
      BY <1>3, <1>4, <3>3, <3>4
  <2> QED
    BY <1>1, <2>2, <2>3 DEF StartsWell, x
<1>8. CASE ~(t1 <= x)
  <2>1. t1 \in x .. y - 1
    BY <1>2, <1>5, <1>8 DEF t1, x, y
  <2>2. g <= t1
    BY <1>5, <1>6, <2>1 DEF t1
  <2>3. SlotOf(s, t1) \in Timed(s) /\ TscAt(s, t1) = s[SlotOf(s, t1)].tsc /\ g <= SlotOf(s, t1)
    BY <1>1, <1>5, <2>2, SlotIs DEF t1
  <2>4. s[g].tsc <= TscAt(s, t1)
    BY <1>1, <2>3, TimedOrder
  <2>5. TscAt(s, t1) <= MatchedTsc(s, S, 1) /\ TscAt(s, t1) \in Nat /\ MatchedTsc(s, S, 1) \in Nat
    BY MatchedIs DEF t1
  <2> QED
    BY <1>1, <1>3, <1>4, <2>4, <2>5
<1> QED
  BY <1>7, <1>8

\* X are the times of block b of trace s from the first switch on.
TimesIn(s, S, b, X) ==
  /\ \A x \in X : \E p \in b.pos[1] .. b.pos[2] - 1 :
       x = s[p].at /\ p \in DOMAIN s /\ 1 \in DOMAIN S /\ TipOf(S, 1) <= p
  /\ 1 \in DOMAIN S => \A p \in b.pos[1] .. b.pos[2] - 1 : TipOf(S, 1) <= p => s[p].at \in X

\* What TimesOf is
LEMMA TimesAre ==
  ASSUME NEW b, NEW c, b.cpu = c, Switches(stream[c], schedules[c]), IsDone(stream[c], schedules[c], c, b)
  PROVE  TimesIn(stream[c], schedules[c], b, TimesOf(b))
<1> DEFINE s == stream[c]
           S == schedules[c]
<1>1. TimesOf(b) = {s[p].at : p \in {p \in b.pos[1] .. b.pos[2] - 1 : Switched(c, p)}}
  BY DEF TimesOf
<1>2. ASSUME NEW p \in b.pos[1] .. b.pos[2] - 1, Switched(c, p)
      PROVE  p \in DOMAIN s /\ 1 \in DOMAIN S /\ TipOf(S, 1) <= p
  <2>1. PICK n \in DOMAIN s : s[n].kind = "tip" /\ n <= p
    BY <1>2 DEF Switched, Tips
  <2>2. 1 \in DOMAIN S /\ TipOf(S, 1) <= n /\ TipOf(S, 1) \in Nat /\ n \in Nat
    BY <2>1, FirstSwitch
  <2>3. p \in DOMAIN s /\ p \in Nat
    BY BlockPlaces
  <2> QED
    BY <2>1, <2>2, <2>3
<1>3. ASSUME 1 \in DOMAIN S, NEW p \in b.pos[1] .. b.pos[2] - 1, TipOf(S, 1) <= p
      PROVE  Switched(c, p)
  <2>1. TipOf(S, 1) \in DOMAIN s /\ s[TipOf(S, 1)].kind = "tip"
    BY <1>3, TipIs DEF Switches
  <2> QED
    BY <1>3, <2>1 DEF Switched, Tips
<1> QED
  BY <1>1, <1>2, <1>3 DEF TimesIn

\* A tick that is in a trace
LEMMA TickIs ==
  ASSUME NEW c, IsTrace(stream[c]), NEW d, NEW tick \in Ticks(c, d)
  PROVE  \E g \in Timed(stream[c]) : stream[c][g].tsc = tick
<1> DEFINE s == stream[c]
<1>1. PICK g \in DOMAIN s : s[g].kind = "mtc" /\ s[g].tsc = tick
  BY DEF Ticks
<1>2. s[g].tsc # 0
  <2>1. s[g].tsc = s[g].at /\ 1 <= s[g].at /\ s[g].at \in Nat
    BY <1>1, PacketParts DEF IsTrace
  <2> QED
    BY <2>1
<1>3. g \in Timed(s)
  BY <1>1, <1>2 DEF Timed, Timing
<1> QED
  BY <1>1, <1>3

\* Block a of CPU c, which is merged before block b of CPU d, does not begin at
\* a tick after all of b.
LEMMA InTickOrder ==
  ASSUME StreamInv, NEW t \in Tids, NEW i \in DOMAIN tasks[t], NEW j \in DOMAIN tasks[t], i < j,
         NEW a, a = tasks[t][i], NEW b, b = tasks[t][j],
         a.type = "trace", b.type = "trace", AllTips(a.cpu), AllTips(b.cpu),
         NEW tick \in Ticks(a.cpu, b.cpu),
         TimesOf(a) # {}, \A x \in TimesOf(a) : x >= tick, TimesOf(b) # {}, \A x \in TimesOf(b) : x < tick
  PROVE  FALSE
<1> DEFINE c == a.cpu
           d == b.cpu
           s == stream[c]
           S == schedules[c]
           r == stream[d]
           R == schedules[d]
           B == blocks[d]
<1>1. /\ AreTaken(blocks, cursor, tasks) /\ AreOrdered(blocks, cursor, tasks)
      /\ MergeTypes(blocks, cursor, tasks)
  BY DEF StreamInv, MergeInv, IsMerged
<1>2. IsTaken(blocks, cursor, a) /\ IsTaken(blocks, cursor, b)
  BY <1>1 DEF AreTaken
<1>3. c \in CPU /\ d \in CPU
  BY <1>2 DEF IsTaken
<1>4. /\ Switches(s, S) /\ Claims(s, S, c, blocks[c]) /\ IsTrace(s)
      /\ Switches(r, R) /\ Claims(r, R, d, B) /\ IsTrace(r) /\ B \in Seq(TaskBlock)
  BY <1>3, CpuFacts
<1>5. \A e \in CPU : \A n \in 1 .. cursor[e] : n \in DOMAIN blocks[e] /\ n \in Nat
  <2> TAKE e \in CPU
  <2>1. cursor[e] \in Nat /\ cursor[e] <= Len(blocks[e]) /\ blocks[e] \in Seq(TaskBlock)
    BY <1>1 DEF MergeTypes
  <2>2. Len(blocks[e]) \in Nat /\ DOMAIN blocks[e] = 1 .. Len(blocks[e])
    BY <2>1
  <2> QED
    BY <2>1, <2>2
<1>6. IsDone(s, S, c, a) /\ IsDone(r, R, d, b)
  <2>1. PICK n \in 1 .. cursor[c] : blocks[c][n] = a
    BY <1>2 DEF IsTaken
  <2>2. PICK m \in 1 .. cursor[d] : B[m] = b
    BY <1>2 DEF IsTaken
  <2>3. n \in DOMAIN blocks[c] /\ m \in DOMAIN B
    BY <1>3, <1>5
  <2> QED
    BY <1>4, <2>1, <2>2, <2>3 DEF Claims
<1>7. PICK g \in Timed(s) : s[g].tsc = tick
  <2>1. IsTrace(stream[c])
    BY <1>4
  <2>2. tick \in Ticks(c, d)
    OBVIOUS
  <2>3. \E g \in Timed(stream[c]) : stream[c][g].tsc = tick
    BY ONLY <2>1, <2>2, TickIs
  <2> QED
    BY <2>3
<1>8. tick \in Nat
  BY <1>4, <1>7, TraceFacts
<1>9. /\ \A x \in TimesOf(a) : \E p \in a.pos[1] .. a.pos[2] - 1 :
            x = s[p].at /\ p \in DOMAIN s /\ 1 \in DOMAIN S /\ TipOf(S, 1) <= p
      /\ 1 \in DOMAIN S => \A p \in a.pos[1] .. a.pos[2] - 1 : TipOf(S, 1) <= p => s[p].at \in TimesOf(a)
  <2>1. TimesIn(s, S, a, TimesOf(a))
    BY <1>4, <1>6, TimesAre
  <2> QED
    BY <2>1 DEF TimesIn
<1>10. \A x \in TimesOf(b) : \E p \in b.pos[1] .. b.pos[2] - 1 : x = r[p].at /\ p \in DOMAIN r
  <2>1. TimesIn(r, R, b, TimesOf(b))
    BY <1>4, <1>6, TimesAre
  <2> QED
    BY <2>1 DEF TimesIn
<1> HIDE DEF c, d, s, S, r, R, B
<1>11. PICK p \in a.pos[1] .. a.pos[2] - 1 :
         s[p].at \in TimesOf(a) /\ p \in DOMAIN s /\ 1 \in DOMAIN S /\ TipOf(S, 1) <= p
  BY <1>9
<1>12. PICK q \in b.pos[1] .. b.pos[2] - 1 : r[q].at \in TimesOf(b) /\ q \in DOMAIN r
  BY <1>10
<1>13. s[p].at >= tick /\ r[q].at < tick /\ s[p].at \in Nat /\ r[q].at \in Nat
  BY <1>4, <1>11, <1>12, TraceFacts, PacketParts
<1>14. q \in Nat /\ b.pos[1] \in Nat /\ b.pos[1] <= q
  BY <1>4, <1>6, BlockPlaces DEF In
<1>15. p \in Nat /\ a.pos[2] \in Nat /\ p < a.pos[2]
  BY <1>4, <1>6, BlockPlaces DEF In
<1>16. CASE c = d
  <2>1. SameOrder(blocks, cursor, a, b)
    BY <1>1, <1>16 DEF AreOrdered, c, d
  <2>2. PICK n, m \in 1 .. cursor[d] : n < m /\ B[n] = a /\ B[m] = b
    BY <2>1 DEF SameOrder, d, B
  <2>3. n \in DOMAIN B /\ m \in DOMAIN B
    BY <1>3, <1>5 DEF B
  <2>4. a.pos[2] <= b.pos[1]
    BY <1>4, <2>2, <2>3 DEF Claims, InOrder, IsBefore
  <2>5. p < q
    BY <1>14, <1>15, <2>4
  <2>6. s = r
    BY <1>16 DEF s, r
  <2>7. s[p].at <= s[q].at
    BY <1>4, <1>11, <1>12, <2>5, <2>6 DEF IsTrace
  <2> QED
    BY <1>8, <1>13, <2>6, <2>7
<1>17. CASE c # d
  <2>1. tick <= a.tsc[1]
    <3>1. \A o \in a.pos[1] .. a.pos[2] - 1 : TipOf(S, 1) <= o => s[g].tsc <= s[o].at
      <4> SUFFICES ASSUME NEW o \in a.pos[1] .. a.pos[2] - 1, TipOf(S, 1) <= o PROVE s[g].tsc <= s[o].at
        OBVIOUS
      <4>1. s[o].at \in TimesOf(a) /\ o \in DOMAIN s
        BY <1>4, <1>6, <1>9, <1>11, BlockPlaces
      <4>2. s[o].at >= tick /\ s[o].at \in Nat
        BY <1>4, <4>1, TraceFacts, PacketParts
      <4> QED
        BY <1>7, <1>8, <4>2
    <3> QED
      BY <1>4, <1>6, <1>7, <1>11, <3>1, StartAfterTick
  <2>2. LaterThan(blocks, cursor, a, b)
    BY <1>1, <1>17 DEF AreOrdered, c, d
  <2>3. PICK m \in 1 .. cursor[d] : B[m] = b /\ \E k \in 1 .. m : a.tsc[1] <= B[k].tsc[1]
    BY <2>2 DEF LaterThan, d, B
  <2>4. PICK k \in 1 .. m : a.tsc[1] <= B[k].tsc[1]
    BY <2>3
  <2>5. m \in DOMAIN B /\ k \in DOMAIN B /\ m \in Nat /\ k \in Nat /\ k <= m
    <3>1. m \in DOMAIN B /\ m \in Nat
      BY <1>3, <1>5 DEF B
    <3>2. k \in Nat /\ 1 <= k /\ k <= m
      BY <3>1
    <3>3. DOMAIN B = 1 .. Len(B) /\ Len(B) \in Nat
      BY <1>4
    <3> QED
      BY <3>1, <3>2, <3>3
  <2>6. B[k].tsc[1] <= b.tsc[1] /\ B[k].tsc[1] \in Nat /\ b.tsc[1] \in Nat
    <3>1. B[k].tsc[1] \in Nat /\ B[m].tsc[1] \in Nat
      BY <1>4, <2>5, TaskBlockParts
    <3>2. CASE k = m
      BY <2>3, <3>1, <3>2
    <3>3. CASE k # m
      <4>1. k < m
        BY <2>5, <3>3
      <4>2. IsBefore(B[k], B[m])
        BY <1>4, <2>3, <2>5, <4>1 DEF Claims, InOrder
      <4> QED
        BY <2>3, <3>1, <4>2 DEF IsBefore
    <3> QED
      BY <3>2, <3>3
  <2>7. b.tsc[1] <= r[b.pos[1]].at /\ b.pos[1] \in DOMAIN r
    BY <1>4, <1>6, StartIs DEF IsDone
  <2>8. r[b.pos[1]].at <= r[q].at /\ r[b.pos[1]].at \in Nat
    <3>1. r[b.pos[1]].at \in Nat
      BY <1>4, <2>7, TraceFacts, PacketParts
    <3>2. CASE b.pos[1] = q
      BY <1>13, <3>1, <3>2
    <3>3. CASE b.pos[1] # q
      <4>1. b.pos[1] < q
        BY <1>14, <3>3
      <4> QED
        BY <1>4, <1>12, <2>7, <3>1, <4>1 DEF IsTrace
    <3> QED
      BY <3>2, <3>3
  <2>9. a.tsc[1] \in Nat
    BY <1>4, <1>6, StartIs DEF IsDone
  <2> DEFINE u1 == a.tsc[1]
             u2 == B[k].tsc[1]
             u3 == b.tsc[1]
             u4 == r[b.pos[1]].at
             u5 == r[q].at
  <2>10. /\ tick <= u1 /\ u1 <= u2 /\ u2 <= u3 /\ u3 <= u4 /\ u4 <= u5 /\ u5 < tick
         /\ u1 \in Nat /\ u2 \in Nat /\ u3 \in Nat /\ u4 \in Nat /\ u5 \in Nat
    BY <1>13, <2>1, <2>4, <2>6, <2>7, <2>8, <2>9
  <2> HIDE DEF u1, u2, u3, u4, u5
  <2> QED
    BY ONLY <1>8, <2>10
<1> QED
  BY <1>16, <1>17

\* Blocks of one task from two CPUs are in the order of the ticks.
LEMMA OrdersTasks == StreamInv => TasksInOrder
<1> SUFFICES ASSUME StreamInv, NEW t \in Tids, NEW i \in DOMAIN tasks[t], NEW j \in DOMAIN tasks[t], i < j,
                    tasks[t][i].type = "trace", tasks[t][j].type = "trace",
                    AllTips(tasks[t][i].cpu), AllTips(tasks[t][j].cpu),
                    NEW tick \in Ticks(tasks[t][i].cpu, tasks[t][j].cpu),
                    TimesOf(tasks[t][i]) # {}, \A x \in TimesOf(tasks[t][i]) : x >= tick,
                    TimesOf(tasks[t][j]) # {}, \A x \in TimesOf(tasks[t][j]) : x < tick
             PROVE  FALSE
  BY DEF TasksInOrder
<1> DEFINE a == tasks[t][i]
           b == tasks[t][j]
<1>1. /\ a.type = "trace" /\ b.type = "trace" /\ AllTips(a.cpu) /\ AllTips(b.cpu)
      /\ tick \in Ticks(a.cpu, b.cpu) /\ TimesOf(a) # {} /\ TimesOf(b) # {}
      /\ (\A x \in TimesOf(a) : x >= tick) /\ (\A x \in TimesOf(b) : x < tick)
  OBVIOUS
<1> QED
  BY <1>1, InTickOrder

-----------------------------------------------------------------------------
(* The theorems *)

\* Every variable has a value of its type: in particular every block that a task has
\* is one with a task and a place to start decoding (ipt_file, ipt_collection).
THEOREM TypeCorrect == Spec => []TypeOK
<1> QED
  BY StreamInvariant, TypesOK, PTL

\* Blocks are given to the task that ran when they were written, whatever TIPs, PSBs, overflows
\* there are, on every CPU that lost no scheduler TIP (ipt_file).
THEOREM BlocksRunByTask == Spec => []RunByTask
<1> QED
  BY StreamInvariant, RunsByTask, PTL

\* Nothing that is timed is lost, and nothing is given twice (ipt_file, ipt_collection).
THEOREM NothingIsLost == Spec => []NothingLost
<1> QED
  BY StreamInvariant, LosesNothing, PTL

\* The merge keeps the order of the ticks in the trace of a task (ipt_collection).
THEOREM TasksAreInOrder == Spec => []TasksInOrder
<1> QED
  BY StreamInvariant, OrdersTasks, PTL
=============================================================================
