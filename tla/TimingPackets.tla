---------------------------- MODULE TimingPackets ----------------------------
(***************************************************************************)
(* The times of a trace's timing packets (sat-ipt-tsc-heuristics.cpp).      *)
(*                                                                         *)
(* A TSC packet has the time; the TMA packet after it has the CTC, a slower *)
(* counter whose bits from Shift on count the MTC packets.  An MTC packet   *)
(* has the low bits of that count only, and the CTC of a TMA is cut so that *)
(* the highest of them is missing.  Overflows lose packets.                 *)
(*                                                                         *)
(* The parser collects the packets of a CPU and goes over them five times:  *)
(* it counts between TMAs and finds the blocks that nothing is missing of,  *)
(* repairs the count of the TMAs, gives the MTCs between them their times   *)
(* and tells the overflows that lost time from the other ones.              *)
(*                                                                         *)
(* `at' is when a packet was really sent, for the properties only.          *)
(***************************************************************************)
EXTENDS Integers, Sequences, FiniteSetsExt

CONSTANTS
  Rollover,    \* an MTC packet has the count modulo this (2^8)
  TmaRollover, \* and a TMA modulo this (2^16 \div 2^9)
  Ticks,       \* CTC ticks from an MTC to the next (2^9)
  Ratio,       \* TSC ticks in a CTC tick
  Margin,      \* by how much calculated counts may differ (10)
  Leaps,       \* how many MTCs there are until something else is sent
  Phases,      \* how many TSC ticks after an MTC a TMA is sent
  MaxEvents    \* bound

ASSUME TimingAssumption ==
  /\ {Rollover, TmaRollover, Ticks, Ratio, Margin, MaxEvents} \subseteq Nat \ {0}
  \* the CTC of a TMA lacks one bit of the count, and differences that are taken
  \* for that bit are about as high
  /\ Rollover = 2 * TmaRollover
  /\ 2 <= Margin /\ Margin + 2 < TmaRollover
  /\ Leaps \subseteq Nat \ {0}
  /\ Phases \subseteq 0 .. Ticks * Ratio - 1

VARIABLES
  phase,         \* record, then the round that is next, then done
  now,           \* the TSC
  overflow,      \* packets are being lost
  events,
  wait_for_tma, in_psb,
  tscs           \* the packets collected

vars == <<phase, now, overflow, events, wait_for_tma, in_psb, tscs>>

Init ==
  /\ phase = "record"
  /\ \E p \in Phases : now = p
  /\ overflow = FALSE /\ events = 0
  /\ wait_for_tma = FALSE /\ in_psb = FALSE
  /\ tscs = <<>>

-----------------------------------------------------------------------------
(* Recording and collecting *)

PerMtc == Ticks * Ratio
Ctc(t) == t \div Ratio

\* The count of an MTC sent at a time, or just before it.
MtcAt(t) == (t \div PerMtc) % Rollover

Item(type, t) ==
  [type |-> type, at |-> t, tsc |-> IF type = "TSC" THEN t ELSE 0,
   mtc |-> IF type = "MTC" THEN MtcAt(t) ELSE 0,
   ctc |-> IF type = "TMA" THEN Ctc(t) % (Ticks * TmaRollover) ELSE 0,
   fast |-> IF type = "TMA" THEN t % Ratio ELSE 0,
   mtc_count |-> 0, pass |-> 0, tsc_in_next_mtc |-> 0,
   known_rollover_points |-> FALSE, ovf_tsc_lost |-> FALSE]

Event == phase = "record" /\ events < MaxEvents /\ events' = events + 1 /\ UNCHANGED phase

\* MTCs between a TSC and its TMA, and in a PSB, are skipped.
MtcsPass ==
  /\ Event
  /\ \E n \in Leaps :
       LET mtcs == [i \in 1 .. n |-> Item("MTC", ((now \div PerMtc) + i) * PerMtc)]
       IN  /\ now' = mtcs[n].at
           /\ tscs' = IF overflow \/ wait_for_tma \/ in_psb THEN tscs ELSE tscs \o mtcs
  /\ UNCHANGED <<overflow, wait_for_tma, in_psb>>

\* The time is sent, in a PSB or alone.  An overflow may begin after any of the
\* packets, or instead of them.
TimeSent ==
  /\ Event /\ ~overflow
  /\ \E p \in Phases :
       /\ p >= now % PerMtc
       /\ now' = now - (now % PerMtc) + p
  /\ \E psb, all \in BOOLEAN, times \in {<<>>, <<"TSC">>, <<"TSC", "TMA">>} :
       /\ all => times = <<"TSC", "TMA">>
       /\ ~psb /\ times = <<"TSC", "TMA">> => all
       /\ tscs' = tscs \o [i \in 1 .. Len(times) |-> Item(times[i], now')]
       /\ wait_for_tma' = IF times = <<>> THEN wait_for_tma ELSE times = <<"TSC">>
       /\ in_psb' = IF psb THEN ~all ELSE in_psb
       /\ overflow' = ~all

OverflowEnds ==
  /\ Event /\ overflow
  /\ overflow' = FALSE
  /\ tscs' = Append(tscs, Item("OVF", now))
  /\ UNCHANGED <<now, wait_for_tma, in_psb>>

Stop ==
  /\ phase = "record"
  /\ phase' = "first"
  /\ UNCHANGED <<now, overflow, events, wait_for_tma, in_psb, tscs>>

-----------------------------------------------------------------------------
(* Looking around in the list *)

Has(s, n, type) == s[n].type = type
Tmas(s) == {n \in DOMAIN s : Has(s, n, "TMA")}
Mtcs(s) == {n \in DOMAIN s : Has(s, n, "MTC")}

\* The number of the nearest item of a set before or after one, or 0.
Before(set, n) == Max({m \in set : m < n} \cup {0})
After(set, n) == IF \E m \in set : m > n THEN Min({m \in set : m > n}) ELSE 0

\* The packets of an MTC's block: the TMA before and the one after it.
FirstTma(s, n) == Before(Tmas(s), n)
SecondTma(s, n) == After(Tmas(s), n)

-----------------------------------------------------------------------------
(* The first round: count and find the complete blocks *)

TicksToNext(ctc) == Ticks - ((ctc + 1) % Ticks)

WithCount(s, n) ==
  LET tsc == s[Before({m \in DOMAIN s : Has(s, m, "TSC")}, n)].tsc
  IN  [s[n] EXCEPT
         !.tsc = tsc,
         !.mtc = (s[n].ctc \div Ticks) % Rollover,
         !.tsc_in_next_mtc = tsc + s[n].fast + TicksToNext(s[n].ctc) * Ratio]

\* Each MTC follows the one before and the second TMA repeats the last: nothing
\* rolls over, for the one after is not taken modulo anything.
NoGaps(s, first, mtcs, second) ==
  /\ \A n \in mtcs :
       s[n].mtc = 1 + (IF Before(mtcs, n) = 0 THEN s[first].mtc ELSE s[Before(mtcs, n)].mtc)
  /\ s[Max(mtcs)].mtc = s[second].mtc

IsComplete(s, first, mtcs, second) ==
  /\ mtcs # {} /\ NoGaps(s, first, mtcs, second)
  /\ s[first].mtc_count + 1 >= Cardinality(mtcs)

WithBlock(s, n) ==
  LET second == SecondTma(s, n)
      mtcs == {m \in Mtcs(s) : n < m /\ m < second}
      counted == [s EXCEPT ![n].mtc_count = (s[second].tsc - s[n].tsc) \div PerMtc]
  IN  IF second = 0 THEN s[n]
      ELSE [counted[n] EXCEPT !.pass = IF IsComplete(counted, n, mtcs, second) THEN 1 ELSE 0]

FirstRound(s) ==
  LET t == [n \in DOMAIN s |-> IF Has(s, n, "TMA") THEN WithCount(s, n) ELSE s[n]]
  IN  [n \in DOMAIN t |-> IF Has(t, n, "TMA") THEN WithBlock(t, n) ELSE t[n]]

-----------------------------------------------------------------------------
(* The second round: the highest bit of the TMAs' counts *)

Half == Rollover \div 2
Distance(a, b) == IF a > b THEN a - b ELSE b - a
OrHighest(mtc) == IF mtc < Half THEN mtc + Half ELSE mtc

\* Mutant: the distance is not looked at.
NeverRepaired(mtc, calculated) == mtc
Repaired(mtc, calculated) ==
  IF Distance(mtc, calculated) > Margin THEN OrHighest(mtc) ELSE mtc

\* From the first complete block back to the begin: each TMA after the one that
\* follows it, the last one after the packet that follows the block's TMA.
RepairedBackward(s, complete, following) ==
  LET mtc[n \in 1 .. complete] ==
        IF n = complete THEN following
        ELSE IF Has(s, n, "TMA")
             THEN Repaired(s[n].mtc, (mtc[n + 1] - s[n].mtc_count) % Rollover)
             ELSE mtc[n + 1]
  IN  [n \in DOMAIN s |->
         IF n < complete /\ Has(s, n, "TMA") THEN [s[n] EXCEPT !.mtc = mtc[n], !.pass = 2]
         ELSE s[n]]

\* And on to the end: each TMA of a block that is not complete after the one
\* before, the first of them after the packet that follows the complete block's
\* TMA, which is an MTC and counts none.
RepairedForward(s, complete) ==
  LET last[n \in complete + 1 .. Len(s)] ==  \* the TMA looked at last
        IF n = complete + 1 THEN [mtc |-> s[n].mtc, mtc_count |-> s[n].mtc_count]
        ELSE IF ~Has(s, n, "TMA") THEN last[n - 1]
        ELSE [mtc |-> IF s[n].pass # 0 THEN s[n].mtc
                      ELSE Repaired(s[n].mtc, (last[n - 1].mtc + last[n - 1].mtc_count) % Rollover),
              mtc_count |-> s[n].mtc_count]
  IN  [n \in DOMAIN s |->
         IF n > complete + 1 /\ Has(s, n, "TMA") /\ s[n].pass = 0
         THEN [s[n] EXCEPT !.mtc = last[n].mtc, !.pass = 2] ELSE s[n]]

\* Without a complete block both go from the end of the list, which is read as a
\* packet of any count: back over all packets but the last one, and then forward,
\* which is to the last one.
WithoutComplete(s) ==
  LET last == Len(s)
      back == IF Cardinality(Tmas(s)) > 1
              THEN {RepairedBackward(s, last, mtc) : mtc \in 0 .. Rollover - 1} ELSE {s}
      WithLast(t, mtc) == [t EXCEPT ![last].mtc = mtc, ![last].pass = 2]
  IN  IF ~Has(s, last, "TMA") THEN back
      ELSE {WithLast(t, s[last].mtc) : t \in back}
           \cup {WithLast(t, OrHighest(s[last].mtc)) : t \in back}

SecondRound(s) ==
  LET complete == {n \in Tmas(s) : s[n].pass # 0}
      n == Min(complete)
  IN  IF complete # {}
      THEN {RepairedForward(RepairedBackward(s, n, s[n + 1].mtc), n)}
      ELSE IF s = <<>> THEN {} ELSE WithoutComplete(s)

-----------------------------------------------------------------------------
(* The third and the fourth round: the times of the MTCs *)

Full == Rollover - 1

\* Mutant: the TMA's own MTC is counted.
OneTooMany(tma, mtc) == tma.tsc_in_next_mtc + ((mtc - tma.mtc) % Rollover) * PerMtc

\* Counted from the first MTC after the TMA, less than a rollover.
TimeAfter(tma, mtc) == tma.tsc_in_next_mtc + ((mtc - (tma.mtc + 1)) % Rollover) * PerMtc

\* Mutant: an MTC of a time after the TMA that follows it is kept.
NoneTooLate(s, n) == FALSE
TooLate(s, n) ==
  /\ Has(s, n, "MTC") /\ s[n].pass \in {1, 2} /\ SecondTma(s, n) # 0
  /\ s[n].tsc > s[SecondTma(s, n)].tsc

\* (With nothing appended the list is a tuple, which TLC evaluates only once.)
RemoveTooLate(s) ==
  LET list == s \o <<>>
      kept[n \in 0 .. Len(list)] ==
        IF n = 0 THEN <<>>
        ELSE IF TooLate(list, n) THEN kept[n - 1] ELSE Append(kept[n - 1], list[n])
  IN  kept[Len(list)]

\* A block is timed in the third round when there is a TMA after it and its count
\* says that nothing rolls over.
IsShort(s, n) ==
  FirstTma(s, n) # 0 /\ SecondTma(s, n) # 0 /\ s[FirstTma(s, n)].pass # 0
  /\ s[FirstTma(s, n)].mtc_count < Full

TimeShortBlocks(s) ==
  [n \in DOMAIN s |->
     IF Has(s, n, "MTC") /\ IsShort(s, n)
     THEN [s[n] EXCEPT !.tsc = TimeAfter(s[FirstTma(s, n)], s[n].mtc), !.pass = 1]
     ELSE s[n]]

\* In a longer block it is counted how often an MTC is less than the one before,
\* in whatever block that is.
Stepbacks(s, tma) ==
  LET second == SecondTma(s, tma)
      before(n) == IF Before(Mtcs(s), n) = 0 THEN tma ELSE Before(Mtcs(s), n)
  IN  Cardinality({n \in Mtcs(s) : tma < n /\ n < second /\ s[tma].pass # 0
                                   /\ s[before(n)].mtc > s[n].mtc})
      + (IF Before(Mtcs(s), second) # 0 /\ s[Before(Mtcs(s), second)].mtc > s[second].mtc
         THEN 1 ELSE 0)

\* When the last MTC before the block has been removed, freed memory is read.
Unsure(s) ==
  {n \in Tmas(s) : Before(Mtcs(s), n) # 0 /\ TooLate(s, Before(Mtcs(s), n))}

FindRollovers(s, guessed) ==
  [n \in DOMAIN s |->
     IF Has(s, n, "TMA") /\ SecondTma(s, n) # 0 /\ s[n].mtc_count >= Full
     THEN [s[n] EXCEPT !.known_rollover_points =
             IF n \in Unsure(s) THEN n \in guessed ELSE s[n].mtc_count \div Full = Stepbacks(s, n)]
     ELSE s[n]]

ThirdRound(s) ==
  LET t == TimeShortBlocks(s)
  IN  {RemoveTooLate(FindRollovers(t, guessed)) : guessed \in SUBSET Unsure(t)}

\* What is not timed yet: known rollovers, and anything else after a TMA.
FourthRound(s) ==
  LET known(n) == s[FirstTma(s, n)].known_rollover_points
      timed == [n \in DOMAIN s |->
                  IF Has(s, n, "MTC") /\ FirstTma(s, n) # 0 /\ (known(n) \/ s[n].pass = 0)
                  THEN [s[n] EXCEPT !.tsc = TimeAfter(s[FirstTma(s, n)], s[n].mtc),
                                    !.pass = IF known(n) THEN 2 ELSE 3]
                  ELSE s[n]]
  IN  RemoveTooLate(timed)

-----------------------------------------------------------------------------
(* The fifth round: the overflows that lost time *)

Counters(s) == Tmas(s) \cup Mtcs(s)

\* Mutant: one more may be missing.
FewMissing(difference) == difference <= 2
NoneMissing(difference) == difference <= 1

FifthRound(s) ==
  LET before(n) == IF Before(Counters(s), n) = 0 THEN 0 ELSE s[Before(Counters(s), n)].mtc
      difference(n) == (s[After(Counters(s), n)].mtc - before(n)) % Rollover
  IN  [n \in DOMAIN s |->
         IF Has(s, n, "OVF")
         THEN [s[n] EXCEPT !.ovf_tsc_lost =
                 n = 1 \/ (After(Counters(s), n) # 0 /\ ~NoneMissing(difference(n)))]
         ELSE s[n]]

-----------------------------------------------------------------------------

Round(name, next, results) ==
  /\ phase = name
  /\ phase' = next
  /\ tscs' \in results
  /\ UNCHANGED <<now, overflow, events, wait_for_tma, in_psb>>

\* tsc_heuristics::apply
First == Round("first", "second", {FirstRound(tscs)})
Second == Round("second", "third", SecondRound(tscs))
Third == Round("third", "fourth", ThirdRound(tscs))
Fourth == Round("fourth", "fifth", {FourthRound(tscs)})
Fifth == Round("fifth", "done", {FifthRound(tscs)})
Done == phase = "done" /\ UNCHANGED vars

\* One on from the end of an empty list is the end again, which the code looks
\* for a packet before: it does not come back.
Endless == phase = "second" /\ tscs = <<>> /\ UNCHANGED vars

Next == MtcsPass \/ TimeSent \/ OverflowEnds \/ Stop
        \/ First \/ Second \/ Third \/ Fourth \/ Fifth \/ Done \/ Endless

Spec == Init /\ [][Next]_vars

-----------------------------------------------------------------------------
(* Properties *)

RoundPhases == {"first", "second", "third", "fourth", "fifth"}

TypeOK ==
  /\ phase \in {"record", "done"} \cup RoundPhases
  /\ {overflow, wait_for_tma, in_psb} \subseteq BOOLEAN
  /\ \A n \in DOMAIN tscs :
       /\ tscs[n].type \in {"TSC", "TMA", "MTC", "OVF"}
       /\ tscs[n].mtc \in 0 .. Rollover - 1 /\ tscs[n].pass \in 0 .. 3
       /\ n > 1 => tscs[n - 1].at <= tscs[n].at

IsRight(n) == tscs[n].mtc = MtcAt(tscs[n].at)

\* How many MTCs the CPU was to send from one packet to another.
TrueCount(from, to) == (tscs[to].at \div PerMtc) - (tscs[from].at \div PerMtc)

\* The blocks that look complete and lost less than half a rollover, and do not
\* begin with an overflow, whose count is taken for the TMA's then.
Complete ==
  {n \in Tmas(tscs) : /\ tscs[n].pass = 1 /\ ~Has(tscs, n + 1, "OVF")
                      /\ TrueCount(n, SecondTma(tscs, n)) < Half}

\* From the begin to the first complete block the counts of the TMAs are right,
\* with the highest bit that their CTC does not have, over any number of lost
\* MTCs and rollovers.
RepairedToComplete ==
  phase \in RoundPhases \ {"first", "second"} =>
    \A n \in Complete :
      (\A m \in Tmas(tscs) : m < n => tscs[m].pass # 1) =>
        \A m \in Tmas(tscs) : m <= n => IsRight(m)

\* After the second round the count of every TMA is valid (the comment on
\* tsc_heuristics_second_round), at least when there is a complete block.
CountsValid ==
  phase \in RoundPhases \ {"first", "second"} /\ Complete # {} =>
    \A n \in Tmas(tscs) : IsRight(n)

\* An MTC that has got a time after a TMA whose count is right, and whose block
\* does not roll over, was sent at that time, within an MTC period and a tick.
TimedRight ==
  phase = "done" =>
    \A n \in Mtcs(tscs) :
      tscs[n].pass = 1 /\ IsRight(FirstTma(tscs, n)) =>
        Distance(tscs[n].tsc, tscs[n].at) <= PerMtc + Ratio

\* is_sane: when all counts are right and nothing rolls over, the times of the
\* MTCs go up from the begin to the end of the trace.
Sane ==
  phase = "done" /\ (\A n \in Tmas(tscs) : /\ IsRight(n) /\ tscs[n].pass # 0
                                           /\ tscs[n].mtc_count < Full
                                           /\ (TrueCount(n, Len(tscs)) < Full
                                               \/ SecondTma(tscs, n) # 0)) =>
    \A n, m \in Mtcs(tscs) :
      n < m /\ tscs[n].pass # 0 /\ tscs[m].pass # 0 => tscs[n].tsc < tscs[m].tsc

\* When an overflow is not marked to have lost time, the counters around it are
\* neighbours, whatever has been repaired, removed or skipped (and as long as
\* there is less than half a rollover between them).
UnmarkedLostNothing ==
  phase = "done" =>
    \A n \in DOMAIN tscs :
      LET before == Before(Counters(tscs), n)
          after == After(Counters(tscs), n)
      IN  /\ tscs[n].type = "OVF" /\ ~tscs[n].ovf_tsc_lost
          /\ before # 0 /\ after # 0 /\ TrueCount(before, after) < Half
          => TrueCount(before, after) <= 1
=============================================================================
