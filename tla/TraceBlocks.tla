----------------------------- MODULE TraceBlocks -----------------------------
(***************************************************************************)
(* What the IPT model finds in the trace of one CPU: the blocks that have   *)
(* timestamps (tsc_heuristics), where in the trace the schedulings of the   *)
(* sideband happened (scheduling_heuristics), and the quantums between them.*)
(*                                                                         *)
(* A trace is a sequence of packets; a packet's place in it is its offset.  *)
(* A timing packet has a tsc, 0 when there is none; the arithmetic that     *)
(* finds the tsc of a counter is in TimingPackets.                         *)
(***************************************************************************)
EXTENDS Integers, Sequences, FiniteSetsExt

Forever == 1000    \* numeric_limits<uint64_t>::max()

-----------------------------------------------------------------------------
(* tsc_heuristics *)

Timing(s) == {p \in DOMAIN s : s[p].kind \in {"psb", "mtc", "ovf"}}
Timed(s) == {p \in Timing(s) : s[p].tsc # 0}

\* get_next_tsc: 0 when there is none
NextTsc(s, p) ==
  LET later == {n \in Timed(s) : n > p /\ s[n].tsc > s[p].tsc}
  IN IF s[p].tsc = 0 \/ later = {} THEN 0 ELSE s[Min(later)].tsc

\* get_tsc: the timing packet before the offset, and whether there is one after
SlotOf(s, p) == Max({0} \cup {n \in Timed(s) : n <= p})
TscAt(s, p) == IF SlotOf(s, p) = 0 THEN 0 ELSE s[SlotOf(s, p)].tsc
GotTsc(s, p) == SlotOf(s, p) # 0 /\ NextTsc(s, SlotOf(s, p)) # 0

\* get_last_psb: where decoding may start, the first place if all are later.
\* (Tracing is not switched off and on in the traces of TaskStreams: no pge.)
Starts(s) == {p \in DOMAIN s : s[p].kind \in {"psb", "ovf", "pge"}}
LastPsb(s, p) ==
  IF \E n \in Starts(s) : n <= p THEN Max({n \in Starts(s) : n <= p}) ELSE Min(Starts(s))

Block(type, pos, tsc, tid, cpu, psb) ==
  [type |-> type, pos |-> pos, tsc |-> tsc, tid |-> tid, cpu |-> cpu, psb |-> psb]

\* iterate_tsc_blocks: the state of its loop is the block it is in, if any, and
\* the blocks before it that have timestamps, which ipt_file::ipt_file keeps.
NewBlock(s, p, out) ==
  [have |-> TRUE, start |-> p, size |-> 0, timed |-> NextTsc(s, p) # 0,
   tsc |-> <<s[p].tsc, NextTsc(s, p)>>, out |-> out]

Ended(b, end) ==
  IF b.timed THEN Append(b.out, [pos |-> <<b.start, end>>, tsc |-> b.tsc]) ELSE b.out

\* one timing packet p after the block b
Coalesced(s, b, p) ==
  CASE ~b.have -> NewBlock(s, p, b.out)
    [] b.have /\ b.timed = (NextTsc(s, p) # 0)
       /\ b.tsc[1] <= s[p].tsc /\ b.tsc[2] <= NextTsc(s, p) ->
         [b EXCEPT !.size = p - b.start, !.tsc = <<b.tsc[1], NextTsc(s, p)>>]
    [] OTHER -> NewBlock(s, p, Ended(b, p))

\* An overflow that lost no timing packet does not end a block.
IsIterated(s, p) == p \in Timing(s) /\ (s[p].tsc # 0 \/ s[p].kind # "ovf" \/ s[p].lost)

IteratedBlocks(s) ==
  LET none == [have |-> FALSE, start |-> 0, size |-> 0, timed |-> FALSE, tsc |-> <<0, 0>>,
               out |-> <<>>]
      upto[p \in 0..Len(s)] ==
        IF p = 0 THEN none
        ELSE IF IsIterated(s, p) THEN Coalesced(s, upto[p - 1], p) ELSE upto[p - 1]
      last == upto[Len(s)]
  IN IF last.have /\ last.size # 0 THEN Ended(last, last.start + last.size) ELSE last.out

\* ipt_file::ipt_file: the tid of a block is not known yet.
TscBlocks(s, cpu, noTid) ==
  LET timed == IteratedBlocks(s)
  IN [i \in DOMAIN timed |-> Block("trace", timed[i].pos, timed[i].tsc, noTid, cpu, 0)]

-----------------------------------------------------------------------------
(* scheduling_heuristics: sch is the sequence of schedulings in tsc order.  *)

Scheduling(tsc, ipt_offset, tid) ==
  [tsc |-> tsc, ipt_offset |-> ipt_offset, tid |-> tid,
   earmarked |-> FALSE, offset |-> 0, type |-> "none"]

\* The number of schedulings before the first one that is after offset p
Before(sch, p) ==
  Min({i \in DOMAIN sch : sch[i].ipt_offset > p} \cup {Len(sch) + 1}) - 1

\* Mutant: the first scheduling after the TIP.
OneLater(sch, p) == IF Before(sch, p) < Len(sch) THEN Before(sch, p) + 1 ELSE Before(sch, p)
\* Mutant: the search stays at the first scheduling.
FirstOnly(sch, p) == 1
\* The scheduling that a scheduler TIP at p belongs to
CandidateOf(sch, p) == Before(sch, p)

\* apply: a scheduler TIP at p is where the last scheduling before it happened,
\* unless an earlier TIP was; the last scheduling of all keeps its own tsc.  When
\* all schedulings are after p, the code reads the list's end, whose memory has
\* an address where ipt_offset would be: greater than p, so that nothing changes.
MatchTip(s, sch, p) ==
  LET i == CandidateOf(sch, p)
      last == i = Len(sch)
  IN IF i = 0 \/ sch[i].earmarked \/ (last /\ sch[i].ipt_offset >= p) THEN sch
     ELSE [sch EXCEPT ![i].offset = p, ![i].earmarked = TRUE, ![i].type = "tip",
                      ![i].tsc = IF ~last /\ GotTsc(s, p) THEN TscAt(s, p) ELSE @]

\* apply: the schedulings in an overflow get its offset
MatchOvf(sch, p) ==
  LET n == Before(sch, p)
      here(i) == i <= n /\ ((sch[i].ipt_offset = p /\ ~sch[i].earmarked)
                            \/ (i = n /\ n < Len(sch) /\ sch[i].type = "none"))
  IN [i \in DOMAIN sch |->
        IF here(i) THEN [sch[i] EXCEPT !.offset = p, !.type = "ovf"] ELSE sch[i]]

Applied(s, sch) ==
  LET after[n \in 0..Len(s)] ==
        IF n = 0 THEN sch
        ELSE LET l == after[n - 1]
             IN CASE s[n].kind = "tip" -> MatchTip(s, l, n)
                  [] s[n].kind = "ovf" -> MatchOvf(l, n)
                  [] OTHER -> l
  IN after[Len(s)]

Earmarked(sch) == {i \in DOMAIN sch : sch[i].earmarked}
\* get_first_quantum_start
FirstQuantum(sch) == sch[Min(Earmarked(sch))]

\* iterate_quantums: quantum i is from scheduling i to the next one; in quantum
\* 0, before the first scheduling, the initial task runs, and the last one has
\* no end.
QuantumEnd(sch, i) ==
  IF i = Len(sch) THEN [tsc |-> Forever, earmarked |-> FALSE, offset |-> 0] ELSE sch[i + 1]
QuantumAt(sch, i, initial) ==
  LET start == IF i = 0 THEN initial ELSE sch[i]
      end == QuantumEnd(sch, i)
  IN [tsc |-> <<start.tsc, end.tsc>>, tid |-> start.tid,
      has_pos |-> end.earmarked, pos |-> <<start.offset, end.offset>>]

\* The quantums that end after first_tsc
Quantums(sch, first_tsc, initial_tsc, initial_tid) ==
  LET initial == [tsc |-> IF initial_tsc <= first_tsc THEN initial_tsc ELSE first_tsc,
                  tid |-> initial_tid, offset |-> 0]
      upto[i \in 0..Len(sch)] ==
        LET earlier == IF i = 0 THEN <<>> ELSE upto[i - 1]
        IN IF QuantumEnd(sch, i).tsc > first_tsc THEN Append(earlier, QuantumAt(sch, i, initial))
           ELSE earlier
  IN IF sch = <<>> THEN <<>> ELSE upto[Len(sch)]

-----------------------------------------------------------------------------
(* ipt_file::ipt_file, block by block *)

\* Is the block fully before the quantum that starts at tsc?
Over(b, tsc) == tsc >= b.tsc[2]

\* The first block is cut at the start of the first quantum.
CutHead(s, b, q) ==
  [b EXCEPT !.pos = <<q.offset, b.pos[2]>>, !.tsc = <<q.tsc, b.tsc[2]>>,
            !.tid = q.tid, !.psb = LastPsb(s, q.offset)]

\* The blocks from the first quantum q on
FromQuantum(s, blocks, q) ==
  LET n == Min({i \in DOMAIN blocks : ~Over(blocks[i], q.tsc)} \cup {Len(blocks) + 1})
      rest == SubSeq(blocks, n, Len(blocks))
  IN IF rest # <<>> /\ q.tsc > Head(rest).tsc[1]
     THEN [rest EXCEPT ![1] = CutHead(s, Head(rest), q)] ELSE rest

\* How many blocks at the head are fully within a quantum that ends at its
\* offset (has_pos) or at its tsc
Within(blocks, q) ==
  LET over(b) == IF q.has_pos THEN q.pos[2] >= b.pos[2] ELSE q.tsc[2] >= b.tsc[2]
  IN Min({i \in DOMAIN blocks : ~over(blocks[i])} \cup {Len(blocks) + 1}) - 1

Claimed(s, b, tid) == [b EXCEPT !.tid = tid, !.psb = LastPsb(s, b.pos[1])]

\* A block cut at the offset where the quantum ends
HeadOf(s, b, q) ==
  Claimed(s, [b EXCEPT !.pos = <<b.pos[1], q.pos[2]>>, !.tsc = <<b.tsc[1], q.tsc[2]>>], q.tid)
\* Mutant: the rest begins after the TIP.
TailAfterTip(s, b, q) ==
  [b EXCEPT !.pos = <<q.pos[2] + 1, b.pos[2]>>, !.tsc = <<q.tsc[2], b.tsc[2]>>,
            !.psb = LastPsb(s, q.pos[2])]
TailOf(s, b, q) ==
  [b EXCEPT !.pos = <<q.pos[2], b.pos[2]>>, !.tsc = <<q.tsc[2], b.tsc[2]>>,
            !.psb = LastPsb(s, q.pos[2])]

\* The timing packets that the search for the end of the quantum looks at
Looked(s, b, q) ==
  LET after == {n \in Timed(s) : n > b.pos[1]}
      stop == {n \in after : n >= b.pos[2] \/ s[n].tsc >= q.tsc[2]}
  IN IF stop = {} THEN after ELSE {n \in after : n <= Min(stop)}
Block1End(s, b, q) == Max({b.pos[1]} \cup {n \in Looked(s, b, q) : s[n].tsc <= q.tsc[2]})
Block2Begin(s, b, q) == Max({b.pos[1]} \cup {n \in Looked(s, b, q) : s[n].tsc >= q.tsc[2]})

\* The slot in which the quantum ends, between the two, belongs to neither.
FirstPart(s, b, q) ==
  LET end == Block1End(s, b, q)
  IN Claimed(s, [b EXCEPT !.pos = <<b.pos[1], end>>, !.tsc = <<b.tsc[1], s[end].tsc>>], q.tid)
SecondPart(s, b, q) ==
  LET begin == Block2Begin(s, b, q)
      t == s[Max(Looked(s, b, q))].tsc
  IN [b EXCEPT !.pos = <<begin, b.pos[2]>>, !.tsc = <<t, b.tsc[2]>>, !.psb = LastPsb(s, begin)]
IsFirst(s, b, q) == Block1End(s, b, q) > b.pos[1] /\ Block1End(s, b, q) < b.pos[2]
IsBoth(s, b, q) ==
  /\ IsFirst(s, b, q)
  /\ Block2Begin(s, b, q) >= Block1End(s, b, q)
  /\ Block2Begin(s, b, q) < b.pos[2]
=============================================================================
