--------------------------- MODULE SidebandProofs ---------------------------
(***************************************************************************)
(* The sideband buffers, for any number of CPUs and writers and any sizes.  *)
(*                                                                         *)
(* sb_trace stays in its buffer (NoOverrun).  Its one test says more than  *)
(* it looks: it holds until the addition only because nobody else is       *)
(* between the two on the same buffers, which is what intact records and   *)
(* Alone keeps.                                                            *)
(*                                                                         *)
(* What a reader gets from a buffer is what was logged there (StreamIsLog, *)
(* RingKeepsLatest, ChunksMakeStream).  LogInv says of the buffers' cells  *)
(* where each message of the log lies; the loops of the reader and of the  *)
(* parser are followed round by round with LoopLemmas.                     *)
(*                                                                         *)
(* The combined file (CombinedKeepsStreams) has each of these messages     *)
(* once because the head of a message lies at one place of one buffer at   *)
(* most (HomeInv), so that no file has it twice and no two files have it;  *)
(* and in order because all the lines from a message's timestamp up to its *)
(* own are taken (LinesOk).                                                *)
(***************************************************************************)
EXTENDS SidebandCombiner, LoopLemmas, SequenceTheorems, FiniteSetTheorems, TLAPS

Messages == [tscp : Int, cpu : Cpu, size : Nat]

\* The types the proof needs; where offsets end is what is to be proved.
Types ==
  /\ ring \in BOOLEAN
  /\ active \in [Cpu -> Buffers]
  /\ offset \in [Cpu -> [Buffers -> Nat]]
  /\ time \in Int
  /\ sent \in Seq(Messages)
  /\ step \in [Writer -> {"idle", "stamped", "checked", "copied"}]
  /\ msg \in [Writer -> Nat]
  /\ place \in [Writer -> [cpu : Cpu \cup {None}, buf : Buffers, pos : Nat]]
  /\ intact \in [Cpu -> BOOLEAN]

\* A writer that is not idle has a message of its size, and one that has tested
\* has done so on some CPU.
HasMessage ==
  \A w \in Writer : step[w] # "idle" => msg[w] \in 1 .. Len(sent) /\ Length(msg[w]) = SizeOf[w]

IsWithin(w, c) == step[w] \in {"checked", "copied"} /\ place[w].cpu = c
HasPlace == \A w \in Writer : step[w] \in {"checked", "copied"} => place[w].cpu \in Cpu

\* Without a ring the second buffer is not used.
SecondUnused == ~ring => \A c \in Cpu : active[c] = 0 /\ offset[c][1] = 0

\* No two writers are within the buffers of a CPU whose log is intact.
Alone == \A c \in Cpu : intact[c] => \A v, w \in Writer : IsWithin(v, c) /\ IsWithin(w, c) => v = w

IInv == Types /\ HasMessage /\ HasPlace /\ SecondUnused /\ Alone /\ NoOverrun

LEMMA Sizes == /\ BufSize \in Nat /\ BufSize > 1
               /\ \A w \in Writer : SizeOf[w] \in Nat \ {0}
               /\ Task \subseteq Writer
               /\ None \notin Cpu
BY SidebandAssumption

\* Init
LEMMA InitIInv == Init => IInv
BY Sizes DEF Init, IInv, Types, HasMessage, HasPlace, SecondUnused, Alone, IsWithin, NoOverrun,
             Buffers, Nowhere, Messages

\* A step that leaves buffers, writers and messages alone.
LEMMA QuietStep ==
  ASSUME IInv, UNCHANGED <<ring, active, offset, time, sent, step, msg, place, intact>>
  PROVE  IInv'
BY DEF IInv, Types, HasMessage, HasPlace, SecondUnused, Alone, IsWithin, NoOverrun, Length

\* sb_reset: a CPU's log is intact again only if nobody is within its buffers.
LEMMA ResetStep ==
  ASSUME IInv, NEW c \in Cpu, SbReset(c)
  PROVE  IInv'
<1> USE Sizes DEF IInv
<1>1. /\ active' = [active EXCEPT ![c] = 0]
      /\ intact' = [intact EXCEPT ![c] = ~Within(c)]
      /\ UNCHANGED <<ring, time, sent, step, msg, place>>
  BY DEF SbReset, writerVars
<1>2. offset' \in [Cpu -> [Buffers -> Nat]]
  BY DEF SbReset, Types, OffsetReset, Buffers
<1>3. \A b \in Buffers : offset'[c][b] < BufSize
  BY DEF SbReset, Types, OffsetReset, InUse, SecondUnused, Buffers
<1>4. \A d \in Cpu \ {c} : offset'[d] = offset[d] /\ active'[d] = active[d] /\ intact'[d] = intact[d]
  BY <1>1 DEF SbReset, Types
<1>5. intact'[c] => \A w \in Writer : ~IsWithin(w, c)
  BY <1>1 DEF Types, Within, IsWithin
<1>6. \A w \in Writer, d \in Cpu : IsWithin(w, d)' = IsWithin(w, d)
  BY <1>1 DEF IsWithin
<1>7. Types'
  BY <1>1, <1>2 DEF Types, Within, Buffers
<1>8. HasMessage' /\ HasPlace'
  BY <1>1 DEF HasMessage, HasPlace, Length
<1>9. SecondUnused'
  BY <1>1 DEF SbReset, SecondUnused, InUse, Types, Buffers
<1>10. Alone'
  BY <1>1, <1>4, <1>5, <1>6 DEF Alone
<1>11. NoOverrun'
  <2>1. ASSUME NEW d \in Cpu, intact'[d], NEW b \in Buffers PROVE offset'[d][b] < BufSize
    BY <2>1, <1>3, <1>4 DEF NoOverrun
  <2>2. ASSUME NEW d \in Cpu, intact'[d], NEW w \in Writer, IsWithin(w, d)
        PROVE  /\ place[w].buf = active'[d]
               /\ place[w].pos = offset'[d][active'[d]]
               /\ place[w].pos + Length(msg[w]) < BufSize
    <3>1. d # c
      BY <2>2, <1>5
    <3> QED BY <2>2, <3>1, <1>4 DEF NoOverrun, IsWithin
  <2> QED BY <2>1, <2>2, <1>1 DEF NoOverrun, IsWithin, Length
<1> QED BY <1>7, <1>8, <1>9, <1>10, <1>11

\* send_sat_msg: the messages there are keep their numbers.
LEMMA SendStep ==
  ASSUME IInv, NEW w \in Writer, NEW c \in Cpu, SendSatMsg(w, c)
  PROVE  IInv'
<1> USE Sizes DEF IInv
<1> DEFINE new == [tscp |-> time', cpu |-> c, size |-> SizeOf[w]]
<1>1. /\ UNCHANGED <<ring, active, offset, place, intact>>
      /\ step[w] = "idle"
      /\ step' = [step EXCEPT ![w] = "stamped"]
      /\ sent' = Append(sent, new)
      /\ msg' = [msg EXCEPT ![w] = Len(sent')]
  BY DEF SendSatMsg, Goes, infoVars, historyVars
<1>2. time' \in Int
  BY DEF SendSatMsg
<1>3. new \in Messages
  BY <1>2 DEF Messages
<1> HIDE DEF new
<1>4. /\ sent' \in Seq(Messages)
      /\ Len(sent') = Len(sent) + 1
      /\ \A m \in 1 .. Len(sent) : sent'[m] = sent[m]
      /\ sent'[Len(sent) + 1] = new
      /\ Len(sent) \in Nat
  BY <1>1, <1>3 DEF Types
<1>5. new.size = SizeOf[w]
  BY DEF new
<1>6. Types'
  BY <1>1, <1>2, <1>4 DEF Types
<1>7. HasMessage'
  BY <1>1, <1>4, <1>5 DEF Types, HasMessage, Length
<1>8. \A v \in Writer, d \in Cpu : IsWithin(v, d)' = IsWithin(v, d)
  BY <1>1 DEF IsWithin, Types
<1>9. HasPlace' /\ SecondUnused' /\ Alone'
  BY <1>1, <1>8 DEF HasPlace, SecondUnused, Alone, Types
<1>10. \A v \in Writer : step[v] # "idle" =>
         msg'[v] = msg[v] /\ sent'[msg[v]].size = sent[msg[v]].size
  BY <1>1, <1>4 DEF HasMessage, Length, Types
<1>11. NoOverrun'
  <2>1. ASSUME NEW d \in Cpu, intact[d], NEW v \in Writer, IsWithin(v, d)'
        PROVE  /\ place[v].buf = active[d]
               /\ place[v].pos = offset[d][active[d]]
               /\ place[v].pos + sent'[msg'[v]].size < BufSize
    <3>1. IsWithin(v, d)
      BY <2>1, <1>8
    <3>2. step[v] # "idle"
      BY <3>1 DEF IsWithin
    <3>3. sent'[msg'[v]].size = sent[msg[v]].size
      BY <3>2, <1>10
    <3> QED BY <2>1, <3>1, <3>3 DEF NoOverrun, IsWithin, Length
  <2>2. \A d \in Cpu : intact[d] => \A b \in Buffers : offset[d][b] < BufSize
    BY DEF NoOverrun
  <2>3. active' = active /\ offset' = offset /\ place' = place /\ intact' = intact
    BY <1>1
  <2> QED BY <2>1, <2>2, <2>3 DEF NoOverrun, IsWithin, Length
<1> QED BY <1>6, <1>7, <1>9, <1>11

\* The test: nobody else is within, or the log is intact no more.
LEMMA CheckStep ==
  ASSUME IInv, NEW w \in Writer, NEW c \in Cpu, Check(w, c)
  PROVE  IInv'
<1> USE Sizes DEF IInv
<1>1. /\ UNCHANGED <<ring, active, offset, time, sent, msg>>
      /\ step[w] = "stamped"
      /\ step' = [step EXCEPT ![w] = "checked"]
      /\ place' = [place EXCEPT ![w] = [cpu |-> c, buf |-> active[c], pos |-> offset[c][active[c]]]]
      /\ intact' = [intact EXCEPT ![c] = @ /\ ~Within(c)]
      /\ offset[c][active[c]] + Length(msg[w]) < BufSize
  BY DEF Check, Goes, infoVars, Fits
<1>2. Types'
  BY <1>1 DEF Types
<1>3. HasMessage' /\ HasPlace' /\ SecondUnused'
  BY <1>1 DEF HasMessage, HasPlace, SecondUnused, Length, Types
<1>4. \A v \in Writer \ {w}, d \in Cpu : IsWithin(v, d)' = IsWithin(v, d)
  BY <1>1 DEF IsWithin, Types
<1>5. \A d \in Cpu : ~IsWithin(w, d) /\ (IsWithin(w, d)' <=> d = c)
  BY <1>1 DEF IsWithin, Types
<1>6. intact'[c] => intact[c] /\ \A v \in Writer : ~IsWithin(v, c)
  BY <1>1 DEF Types, Within, IsWithin
<1>7. \A d \in Cpu \ {c} : intact'[d] = intact[d]
  BY <1>1 DEF Types
<1>8. Alone'
  BY <1>4, <1>5, <1>6, <1>7 DEF Alone
<1>9. NoOverrun'
  <2>1. ASSUME NEW d \in Cpu, intact'[d], NEW b \in Buffers PROVE offset[d][b] < BufSize
    BY <2>1, <1>6, <1>7 DEF NoOverrun
  <2>2. ASSUME NEW d \in Cpu, intact'[d], NEW v \in Writer, IsWithin(v, d)'
        PROVE  /\ place'[v].buf = active[d]
               /\ place'[v].pos = offset[d][active[d]]
               /\ place'[v].pos + Length(msg[v]) < BufSize
    <3>1. CASE v = w
      BY <2>2, <3>1, <1>1, <1>5 DEF Types
    <3>2. CASE v # w
      <4>1. IsWithin(v, d) /\ place'[v] = place[v]
        BY <2>2, <3>2, <1>1, <1>4 DEF Types
      <4>2. intact[d]
        BY <2>2, <1>6, <1>7
      <4> QED BY <4>1, <4>2 DEF NoOverrun, IsWithin
    <3> QED BY <3>1, <3>2
  <2> QED BY <2>1, <2>2, <1>1 DEF NoOverrun, IsWithin, Length
<1> QED BY <1>2, <1>3, <1>8, <1>9

LEMMA DropStep ==
  ASSUME IInv, NEW w \in Writer, NEW c \in Cpu, Drop(w, c)
  PROVE  IInv'
<1> USE Sizes DEF IInv
<1>1. /\ UNCHANGED <<ring, active, offset, time, sent, place, intact>>
      /\ step[w] = "stamped"
      /\ step' = [step EXCEPT ![w] = "idle"]
      /\ msg' = [msg EXCEPT ![w] = 0]
  BY DEF Drop, Goes, infoVars, historyVars
<1>2. Types' /\ HasMessage' /\ HasPlace' /\ SecondUnused'
  BY <1>1 DEF Types, HasMessage, HasPlace, SecondUnused, Length
<1>3. \A v \in Writer, d \in Cpu : IsWithin(v, d)' => IsWithin(v, d) /\ msg'[v] = msg[v]
  BY <1>1 DEF IsWithin, Types
<1>4. Alone' /\ NoOverrun'
  BY <1>1, <1>3 DEF Alone, NoOverrun, IsWithin, Length
<1> QED BY <1>2, <1>4

LEMMA CopyStep ==
  ASSUME IInv, NEW w \in Writer, Copy(w)
  PROVE  IInv'
<1> USE Sizes DEF IInv
<1>1. /\ UNCHANGED <<ring, active, offset, time, sent, msg, place, intact>>
      /\ step[w] = "checked"
      /\ step' = [step EXCEPT ![w] = "copied"]
  BY DEF Copy, Goes, historyVars
<1>2. Types' /\ HasMessage' /\ HasPlace' /\ SecondUnused'
  BY <1>1 DEF Types, HasMessage, HasPlace, SecondUnused, Length
<1>3. \A v \in Writer, d \in Cpu : IsWithin(v, d)' = IsWithin(v, d)
  BY <1>1 DEF IsWithin, Types
<1>4. Alone' /\ NoOverrun'
  BY <1>1, <1>3 DEF Alone, NoOverrun, IsWithin, Length
<1> QED BY <1>2, <1>4

\* The addition: what was tested is still true, because the writer was alone.
LEMMA AddStep ==
  ASSUME IInv, NEW w \in Writer, Add(w)
  PROVE  IInv'
<1> USE Sizes DEF IInv
<1> DEFINE c == place[w].cpu
           n == Length(msg[w])
           longer == [offset[c] EXCEPT ![active[c]] = @ + n]
           switch == ring /\ longer[active[c]] >= Trigger
<1>1. /\ UNCHANGED <<ring, time, sent, intact>>
      /\ step[w] = "copied"
      /\ step' = [step EXCEPT ![w] = "idle"]
      /\ msg' = [msg EXCEPT ![w] = 0]
      /\ place' = [place EXCEPT ![w] = Nowhere]
      /\ active' = [active EXCEPT ![c] = IF switch THEN OtherOf(active[c]) ELSE @]
      /\ offset' = [offset EXCEPT ![c] = IF switch THEN Anew(longer, OtherOf(active[c])) ELSE longer]
  BY DEF Add, Goes
<1>2. c \in Cpu /\ IsWithin(w, c) /\ active[c] \in Buffers /\ offset[c] \in [Buffers -> Nat]
  BY <1>1 DEF HasPlace, IsWithin, Types
<1>3. n \in Nat
  BY <1>1 DEF HasMessage
<1>4. longer \in [Buffers -> Nat] /\ OtherOf(active[c]) \in Buffers
  BY <1>2, <1>3 DEF OtherOf, Buffers
<1>5. Anew(longer, OtherOf(active[c])) \in [Buffers -> Nat]
  BY <1>4 DEF Anew
<1>6. intact[c] => \A b \in Buffers : longer[b] < BufSize
  BY <1>1, <1>2, <1>3 DEF NoOverrun, Buffers
<1>7. intact[c] => \A b \in Buffers : Anew(longer, OtherOf(active[c]))[b] < BufSize
  BY <1>4, <1>6 DEF Anew, Buffers
<1>8. ~ring => ~switch /\ longer[1] = 0 /\ active[c] = 0
  BY <1>2 DEF SecondUnused, Buffers
<1> HIDE DEF longer, switch, n, c
<1>9. Types'
  BY <1>1, <1>2, <1>4, <1>5 DEF Types, Nowhere, Buffers
<1>10. HasMessage' /\ HasPlace'
  BY <1>1 DEF HasMessage, HasPlace, Length, Types
<1>11. SecondUnused'
  BY <1>1, <1>2, <1>8 DEF SecondUnused, Types
<1>12. \A v \in Writer, d \in Cpu : IsWithin(v, d)' =>
         v # w /\ IsWithin(v, d) /\ msg'[v] = msg[v] /\ place'[v] = place[v]
  BY <1>1 DEF IsWithin, Types
<1>13. Alone'
  BY <1>1, <1>12 DEF Alone
<1>14. intact[c] => \A b \in Buffers : offset'[c][b] < BufSize
  BY <1>1, <1>2, <1>6, <1>7 DEF Types
<1>15. \A d \in Cpu \ {c} : offset'[d] = offset[d] /\ active'[d] = active[d]
  BY <1>1 DEF Types
<1>16. \A d \in Cpu : intact[d] /\ d = c => \A v \in Writer : ~IsWithin(v, d)'
  BY <1>2, <1>12 DEF Alone
<1>17. NoOverrun'
  <2>1. ASSUME NEW d \in Cpu, intact[d], NEW b \in Buffers PROVE offset'[d][b] < BufSize
    BY <2>1, <1>14, <1>15 DEF NoOverrun
  <2>2. ASSUME NEW d \in Cpu, intact[d], NEW v \in Writer, IsWithin(v, d)'
        PROVE  /\ place'[v].buf = active'[d]
               /\ place'[v].pos = offset'[d][active'[d]]
               /\ place'[v].pos + sent[msg'[v]].size < BufSize
    <3>1. d # c
      BY <2>2, <1>16
    <3>2. IsWithin(v, d) /\ msg'[v] = msg[v] /\ place'[v] = place[v]
      BY <2>2, <1>12
    <3> QED BY <2>2, <3>1, <3>2, <1>15 DEF NoOverrun, IsWithin, Length
  <2> QED BY <2>1, <2>2, <1>1 DEF NoOverrun, IsWithin, Length
<1> QED BY <1>9, <1>10, <1>11, <1>13, <1>17

LEMMA Preserved == IInv /\ [Next]_vars => IInv'
<1> SUFFICES ASSUME IInv, [Next]_vars PROVE IInv'
  OBVIOUS
<1>1. CASE Start
  BY <1>1, QuietStep DEF Start, infoVars, writerVars, historyVars
<1>2. ASSUME NEW c \in Cpu, SbReset(c) PROVE IInv'
  BY <1>2, ResetStep
<1>3. CASE Stop
  BY <1>3, QuietStep DEF Stop, infoVars, writerVars, historyVars
<1>4. ASSUME NEW w \in Writer, NEW c \in Cpu, SendSatMsg(w, c) PROVE IInv'
  BY <1>4, SendStep
<1>5. ASSUME NEW w \in Writer, NEW c \in Cpu, Check(w, c) PROVE IInv'
  BY <1>5, CheckStep
<1>6. ASSUME NEW w \in Writer, NEW c \in Cpu, Drop(w, c) PROVE IInv'
  BY <1>6, DropStep
<1>7. ASSUME NEW w \in Writer, Copy(w) PROVE IInv'
  BY <1>7, CopyStep
<1>8. ASSUME NEW w \in Writer, Add(w) PROVE IInv'
  BY <1>8, AddStep
<1>9. CASE UNCHANGED vars
  BY <1>9, QuietStep DEF vars, infoVars, writerVars, historyVars
<1> QED BY <1>1, <1>2, <1>3, <1>4, <1>5, <1>6, <1>7, <1>8, <1>9 DEF Next

\* The invariant of sb_trace's callers: who is within which buffers, with what.
THEOREM SidebandInvariance == Spec => []IInv
BY InitIInv, Preserved, PTL DEF Spec

\* sb_trace's one test keeps it inside its buffer for all that follows, and a
\* ring's switch starts the other buffer inside its own, for any sizes.
THEOREM StaysInBuffer == Spec => []NoOverrun
<1>1. IInv => NoOverrun
  BY DEF IInv
<1> QED BY <1>1, SidebandInvariance, PTL

-----------------------------------------------------------------------------
(* What a reader gets *)

\* Two functions on 1 .. m and on 1 .. n, one behind the other
LEMMA ConcatIs ==
  ASSUME NEW m \in Nat, NEW n \in Nat, NEW s, NEW t,
         s = [i \in 1 .. m |-> s[i]], t = [i \in 1 .. n |-> t[i]]
  PROVE  /\ s \o t = [i \in 1 .. m + n |-> IF i <= m THEN s[i] ELSE t[i - m]]
         /\ Len(s) = m /\ Len(t) = n /\ Len(s \o t) = m + n
<1> DEFINE V == {s[i] : i \in 1 .. m} \cup {t[i] : i \in 1 .. n}
<1>1. s \in Seq(V) /\ t \in Seq(V) /\ Len(s) = m /\ Len(t) = n
  <2>1. s \in [1 .. m -> V] /\ t \in [1 .. n -> V]
    OBVIOUS
  <2> HIDE DEF V
  <2> QED
    BY <2>1
<1> HIDE DEF V
<1>2. s \o t \in Seq(V) /\ Len(s \o t) = m + n
  BY <1>1
<1>3. ASSUME NEW i \in 1 .. m + n
      PROVE  (s \o t)[i] = IF i <= m THEN s[i] ELSE t[i - m]
  <2>1. CASE i <= m
    BY <1>1, <2>1
  <2>2. CASE i > m
    BY <1>1, <2>2
  <2> QED
    BY <2>1, <2>2
<1>4. s \o t = [i \in 1 .. Len(s \o t) |-> (s \o t)[i]]
  BY <1>2
<1>5. s \o t = [i \in 1 .. m + n |-> IF i <= m THEN s[i] ELSE t[i - m]]
  BY <1>2, <1>3, <1>4
<1> QED
  BY <1>1, <1>2, <1>5

\* What there is to be read of a CPU, cell by cell.
Stored(c, i) ==
  IF i <= offset[c][Other(c)] THEN sb_buf[c][Other(c)][i - 1]
                              ELSE sb_buf[c][active[c]][i - offset[c][Other(c)] - 1]
FirstCells(c, n) == [i \in 1 .. n |-> Stored(c, i)]

LEMMA OffsetFacts ==
  ASSUME Types, NEW c \in Cpu
  PROVE  /\ offset[c][Other(c)] \in Nat /\ offset[c][active[c]] \in Nat
         /\ TotalSize(c) = offset[c][Other(c)] + offset[c][active[c]] /\ TotalSize(c) \in Nat
         /\ active[c] \in Buffers /\ Other(c) \in Buffers /\ Other(c) # active[c]
<1>1. active[c] \in {0, 1} /\ offset[c] \in [{0, 1} -> Nat]
  BY DEF Types, Buffers
<1>2. CASE active[c] = 0
  BY <1>1, <1>2 DEF Other, TotalSize, Buffers
<1>3. CASE active[c] = 1
  BY <1>1, <1>3 DEF Other, TotalSize, Buffers
<1> QED
  BY <1>1, <1>2, <1>3

\* A read gets the cells that are asked for, as far as there are any.
LEMMA ReadIs ==
  ASSUME Types, NEW c \in Cpu, NEW ppos \in 0 .. TotalSize(c), NEW count \in Nat
  PROVE  Read(c, ppos, count) =
           [i \in 1 .. Less(count, TotalSize(c) - ppos) |-> Stored(c, ppos + i)]
<1>1. PICK old, new, older, newer :
        /\ old = offset[c][Other(c)] /\ new = offset[c][active[c]] /\ old \in Nat /\ new \in Nat
        /\ older = Other(c) /\ newer = active[c]
        /\ TotalSize(c) = old + new /\ ppos \in 0 .. old + new
  BY OffsetFacts
<1>2. PICK n : n = Less(count, (old + new) - ppos) /\ n \in Nat
  BY <1>1 DEF Less
<1>3. PICK got : got = GetSidebandData(c, ppos, count)
  OBVIOUS
<1>4. got = [i \in 1 .. n |-> Stored(c, ppos + i)]
  <2>1. CASE old > ppos
    <3>1. PICK k, l : /\ k = Less(old - ppos, count) /\ l = Less(count - k, new)
                      /\ k \in Nat /\ l \in Nat /\ k + l = n
      BY <1>1, <1>2, <2>1 DEF Less
    <3>2. PICK s, t : s = Cells(c, older, ppos, k) /\ t = Cells(c, newer, 0, l)
      OBVIOUS
    <3>3. got = s \o t
      BY <1>1, <1>3, <2>1, <3>1, <3>2 DEF GetSidebandData, InOlder
    <3>4. /\ s = [i \in 1 .. k |-> s[i]] /\ \A i \in 1 .. k : s[i] = sb_buf[c][older][ppos + i - 1]
          /\ t = [i \in 1 .. l |-> t[i]] /\ \A i \in 1 .. l : t[i] = sb_buf[c][newer][0 + i - 1]
      <4>1. s = [i \in 1 .. k |-> s[i]] /\ \A i \in 1 .. k : s[i] = sb_buf[c][older][ppos + i - 1]
        BY <3>2 DEF Cells
      <4>2. t = [i \in 1 .. l |-> t[i]] /\ \A i \in 1 .. l : t[i] = sb_buf[c][newer][0 + i - 1]
        BY <3>2 DEF Cells
      <4> QED
        BY <4>1, <4>2
    <3>5. got = [i \in 1 .. n |-> IF i <= k THEN s[i] ELSE t[i - k]]
      BY <3>1, <3>3, <3>4, ConcatIs
    <3>6. ASSUME NEW i \in 1 .. n
          PROVE  (IF i <= k THEN s[i] ELSE t[i - k]) = Stored(c, ppos + i)
      <4>1. CASE i <= k
        <5>1. i \in 1 .. k /\ ppos + i <= old
          BY <1>1, <2>1, <3>1, <4>1 DEF Less
        <5> QED
          BY <1>1, <3>4, <4>1, <5>1 DEF Stored
      <4>2. CASE i > k
        <5>1. i - k \in 1 .. l
          BY <1>2, <3>1, <4>2
        <5>2. k = old - ppos
          BY <1>1, <2>1, <3>1, <5>1 DEF Less
        <5>3. ~(ppos + i <= old) /\ (ppos + i) - old - 1 = 0 + (i - k) - 1
          BY <1>1, <4>2, <5>2
        <5>4. Stored(c, ppos + i) = sb_buf[c][newer][0 + (i - k) - 1]
          BY <1>1, <5>3 DEF Stored
        <5> QED
          BY <3>1, <3>4, <4>2, <5>1, <5>4
      <4> QED
        BY <3>1, <4>1, <4>2
    <3> QED
      BY <3>5, <3>6
  <2>2. CASE ~(old > ppos)
    <3>1. Less(count, new - (ppos - old)) = n
      BY <1>1, <1>2, <2>2 DEF Less
    <3>2. got = Cells(c, newer, ppos - old, n)
      BY <1>1, <1>3, <2>2, <3>1 DEF GetSidebandData
    <3>3. ASSUME NEW i \in 1 .. n
          PROVE  sb_buf[c][newer][(ppos - old) + i - 1] = Stored(c, ppos + i)
      <4>1. ~(ppos + i <= old) /\ (ppos + i) - old - 1 = (ppos - old) + i - 1
        BY <1>1, <2>2
      <4> QED
        BY <1>1, <4>1 DEF Stored
    <3> QED
      BY <3>2, <3>3 DEF Cells
  <2> QED
    BY <2>1, <2>2
<1>5. SubSeq(got, 1, n) = got
  <2> DEFINE V == {got[i] : i \in 1 .. n}
  <2>1. got \in Seq(V) /\ Len(got) = n
    <3>1. got \in [1 .. n -> V]
      BY <1>4
    <3> HIDE DEF V
    <3> QED
      BY <1>2, <3>1
  <2> HIDE DEF V
  <2> QED
    BY <1>2, <2>1
<1> QED
  BY <1>1, <1>2, <1>3, <1>4, <1>5 DEF Read

\* What is read next goes on where the last read ended.
LEMMA ReadGoesOn ==
  ASSUME Types, NEW c \in Cpu, NEW m \in 0 .. TotalSize(c), NEW count \in Nat,
         NEW l, l = m + Less(count, TotalSize(c) - m)
  PROVE  /\ FirstCells(c, m) \o Read(c, m, count) = FirstCells(c, l)
         /\ Len(FirstCells(c, m)) = m
         /\ l \in 0 .. TotalSize(c)
         /\ count > 0 /\ m < TotalSize(c) => l > m
<1>1. TotalSize(c) \in Nat
  BY OffsetFacts
<1>2. PICK n \in Nat : n = Less(count, TotalSize(c) - m) /\ l = m + n
  BY <1>1 DEF Less
<1>3. PICK s, t : s = FirstCells(c, m) /\ t = Read(c, m, count)
  OBVIOUS
<1>4. s = [i \in 1 .. m |-> s[i]] /\ \A i \in 1 .. m : s[i] = Stored(c, i)
  BY <1>3 DEF FirstCells
<1>5. t = [i \in 1 .. n |-> t[i]] /\ \A i \in 1 .. n : t[i] = Stored(c, m + i)
  <2>1. t = [i \in 1 .. n |-> Stored(c, m + i)]
    BY <1>2, <1>3, ReadIs
  <2> QED
    BY <2>1
<1>6. m \in Nat
  BY <1>1
<1>7. s \o t = [i \in 1 .. m + n |-> IF i <= m THEN s[i] ELSE t[i - m]] /\ Len(s) = m
  BY <1>4, <1>5, <1>6, ConcatIs
<1>8. ASSUME NEW i \in 1 .. m + n
      PROVE  (IF i <= m THEN s[i] ELSE t[i - m]) = Stored(c, i)
  <2>1. CASE i <= m
    BY <1>4, <1>6, <2>1
  <2>2. CASE i > m
    <3>1. i - m \in 1 .. n /\ m + (i - m) = i
      BY <1>6, <2>2
    <3>2. t[i - m] = Stored(c, m + (i - m))
      BY <1>5, <3>1
    <3> QED
      BY <1>6, <2>2, <3>1, <3>2
  <2> QED
    BY <1>6, <2>1, <2>2
<1>9. s \o t = FirstCells(c, m + n)
  BY <1>7, <1>8 DEF FirstCells
<1>10. n <= TotalSize(c) - m /\ (count > 0 /\ m < TotalSize(c) => n > 0)
  <2> DEFINE rest == TotalSize(c) - m
  <2>1. rest \in Nat /\ (m < TotalSize(c) => rest > 0)
    BY <1>1
  <2> HIDE DEF rest
  <2>2. n <= rest /\ (count > 0 /\ rest > 0 => n > 0)
    BY <1>2, <2>1 DEF Less, rest
  <2> QED
    BY <2>1, <2>2 DEF rest
<1>11. l \in 0 .. TotalSize(c) /\ (count > 0 /\ m < TotalSize(c) => l > m)
  BY <1>1, <1>2, <1>6, <1>10
<1> QED
  BY <1>2, <1>3, <1>7, <1>9, <1>11

\* However many cells are read at a time, the file is all there is to be read.
LEMMA FileIs ==
  ASSUME Types, NEW c \in Cpu, NEW count \in Nat \ {0}
  PROVE  File(c, count) = FirstCells(c, TotalSize(c))
<1> DEFINE N == TotalSize(c)
           T == {FirstCells(c, m) : m \in 0 .. N}
           Next1(v) == v \o Read(c, Len(v), count)
           Gets(f) == f = [i \in 0 .. N |-> IF i = 0 THEN <<>> ELSE Next1(f[i - 1])]
           got == CHOOSE f : Gets(f)
           After(m) == m + Less(count, N - m)
           none == <<>>
<1>1. N \in Nat
  BY OffsetFacts
<1>2. ASSUME NEW m \in 0 .. N
      PROVE  /\ Next1(FirstCells(c, m)) = FirstCells(c, After(m))
             /\ After(m) \in 0 .. N /\ (m < N => After(m) > m)
  <2>1. PICK l : l = m + Less(count, TotalSize(c) - m)
    OBVIOUS
  <2>2. m \in 0 .. TotalSize(c) /\ count \in Nat /\ count > 0
    OBVIOUS
  <2>3. /\ FirstCells(c, m) \o Read(c, m, count) = FirstCells(c, l)
        /\ Len(FirstCells(c, m)) = m
        /\ l \in 0 .. TotalSize(c)
        /\ count > 0 /\ m < TotalSize(c) => l > m
    BY <2>1, <2>2, ReadGoesOn
  <2>4. After(m) = l
    BY <2>1
  <2> QED
    BY <2>2, <2>3, <2>4
<1>3. none = FirstCells(c, 0)
  BY DEF FirstCells
<1>4. File(c, count) = got[N]
  BY DEF File
<1> HIDE DEF N, After, none
<1>5. \E f : Gets(f)
  <2> DEFINE turn == [i \in 1 .. N |-> [v \in T |-> Next1(v)]]
  <2>1. none \in T
    BY <1>1, <1>3
  <2>2. turn \in [1 .. N -> [T -> T]]
    <3>1. \A v \in T : Next1(v) \in T
      <4> SUFFICES ASSUME NEW m \in 0 .. N PROVE Next1(FirstCells(c, m)) \in T
        OBVIOUS
      <4> HIDE DEF Next1
      <4> QED
        BY <1>2
    <3> HIDE DEF T, Next1
    <3> QED
      BY <3>1
  <2> HIDE DEF T, turn
  <2>3. PICK g \in [0 .. N -> T] : Rounds(g, N, none, turn)
    BY <1>1, <2>1, <2>2, LoopExists
  <2> HIDE DEF Next1
  <2>4. \A i \in 1 .. N : g[i] = Next1(g[i - 1])
    <3>1. \A i \in 1 .. N : g[i - 1] \in T
      BY <1>1
    <3> QED
      BY <2>3, <3>1 DEF Rounds, turn
  <2>5. \A i \in 0 .. N : g[i] = IF i = 0 THEN <<>> ELSE Next1(g[i - 1])
    <3> SUFFICES ASSUME NEW i \in 0 .. N PROVE g[i] = IF i = 0 THEN <<>> ELSE Next1(g[i - 1])
      OBVIOUS
    <3>1. CASE i = 0
      BY <2>3, <3>1 DEF Rounds, none
    <3>2. CASE i # 0
      BY <1>1, <2>4, <3>2
    <3> QED
      BY <3>1, <3>2
  <2>6. Gets(g)
    BY <2>5, Zenon
  <2> QED
    BY <2>6
<1>6. Gets(got)
  BY <1>5
<1> HIDE DEF got, Next1
<1>7. \A i \in 0 .. N : got[i] = IF i = 0 THEN <<>> ELSE Next1(got[i - 1])
  BY <1>6, Zenon
<1>8. got[0] = FirstCells(c, 0) /\ \A i \in 1 .. N : got[i] = Next1(got[i - 1])
  BY <1>1, <1>3, <1>7 DEF none
<1> HIDE DEF Gets
<1> DEFINE S == {i \in Nat : i <= N => \E m \in i .. N : got[i] = FirstCells(c, m)}
<1>9. 0 \in S
  BY <1>1, <1>8
<1>10. \A i \in Nat : i \in S => i + 1 \in S
  <2> SUFFICES ASSUME NEW i \in Nat, i \in S, i + 1 <= N
               PROVE  \E m \in i + 1 .. N : got[i + 1] = FirstCells(c, m)
    OBVIOUS
  <2>1. PICK m \in i .. N : got[i] = FirstCells(c, m)
    BY <1>1
  <2>2. got[i + 1] = FirstCells(c, After(m))
    <3>1. i + 1 \in 1 .. N /\ (i + 1) - 1 = i
      BY <1>1
    <3> QED
      BY <1>1, <1>2, <1>8, <2>1, <3>1
  <2>3. After(m) \in i + 1 .. N
    <3>1. m \in 0 .. N
      BY <1>1
    <3>2. After(m) \in 0 .. N /\ (m < N => After(m) > m)
      BY <1>2, <3>1
    <3>3. CASE m < N
      BY <1>1, <3>2, <3>3
    <3>4. CASE m = N
      BY <1>1, <3>2, <3>4 DEF After, Less
    <3> QED
      BY <1>1, <3>3, <3>4
  <2> QED
    BY <2>2, <2>3
<1> HIDE DEF S
<1>11. N \in S
  BY <1>1, <1>9, <1>10, SetInduction
<1>12. PICK m \in N .. N : got[N] = FirstCells(c, m)
  BY <1>1, <1>11 DEF S
<1> QED
  BY <1>1, <1>4, <1>12 DEF N

\* What there is to be read is the older buffer and then the active one.
LEMMA FirstCellsAre ==
  ASSUME Types, NEW c \in Cpu
  PROVE  FirstCells(c, TotalSize(c)) = Cells(c, Other(c), 0, offset[c][Other(c)])
                                         \o Cells(c, active[c], 0, offset[c][active[c]])
<1>1. PICK old, new, older, newer :
        /\ old = offset[c][Other(c)] /\ new = offset[c][active[c]] /\ old \in Nat /\ new \in Nat
        /\ older = Other(c) /\ newer = active[c] /\ TotalSize(c) = old + new
  BY OffsetFacts
<1>2. PICK s, t : s = Cells(c, older, 0, old) /\ t = Cells(c, newer, 0, new)
  OBVIOUS
<1>3. s = [i \in 1 .. old |-> s[i]] /\ \A i \in 1 .. old : s[i] = sb_buf[c][older][0 + i - 1]
  BY <1>2 DEF Cells
<1>4. t = [i \in 1 .. new |-> t[i]] /\ \A i \in 1 .. new : t[i] = sb_buf[c][newer][0 + i - 1]
  BY <1>2 DEF Cells
<1>5. s \o t = [i \in 1 .. old + new |-> IF i <= old THEN s[i] ELSE t[i - old]]
  <2>1. s = [i \in 1 .. old |-> s[i]] /\ t = [i \in 1 .. new |-> t[i]]
    BY <1>3, <1>4
  <2>2. old \in Nat /\ new \in Nat
    BY <1>1
  <2> QED
    BY <2>1, <2>2, ConcatIs
<1>6. ASSUME NEW i \in 1 .. old + new
      PROVE  (IF i <= old THEN s[i] ELSE t[i - old]) = Stored(c, i)
  <2>1. CASE i <= old
    <3>1. i \in 1 .. old /\ 0 + i - 1 = i - 1
      BY <1>1, <2>1
    <3> QED
      BY <1>1, <1>3, <2>1, <3>1 DEF Stored
  <2>2. CASE i > old
    <3>1. i - old \in 1 .. new /\ 0 + (i - old) - 1 = i - old - 1 /\ ~(i <= old)
      BY <1>1, <2>2
    <3>2. t[i - old] = sb_buf[c][newer][i - old - 1]
      BY <1>4, <3>1
    <3> QED
      BY <1>1, <3>1, <3>2 DEF Stored
  <2> QED
    BY <1>1, <2>1, <2>2
<1> QED
  BY <1>1, <1>2, <1>5, <1>6 DEF FirstCells

\* A reader gets the older buffer and then the active one, each cell once,
\* however many cells it asks for at a time and whoever came between whom.
AnyChunks ==
  \A c \in Cpu, count \in Nat \ {0} :
    File(c, count) = Cells(c, Other(c), 0, offset[c][Other(c)])
                       \o Cells(c, active[c], 0, offset[c][active[c]])

\* read_sideband_data_fop: reads of any size make up the same file, the older
\* buffer and then the active one.
THEOREM ReadersGetBothBuffers == Spec => []AnyChunks
<1>1. IInv => AnyChunks
  BY FileIs, FirstCellsAre DEF IInv, AnyChunks
<1> QED BY <1>1, SidebandInvariance, PTL

\* The same for the sizes of reads the runs check.
THEOREM ChunksJoin == Spec => []ChunksMakeStream
<1>1. IInv => ChunksMakeStream
  BY FileIs, FirstCellsAre DEF IInv, ChunksMakeStream
<1> QED BY <1>1, SidebandInvariance, PTL

-----------------------------------------------------------------------------
(* Where the messages of a log lie *)

\* at says where in a buffer each message of log after the lo-th, up to the
\* hi-th, ends; the first begins at from and the last ends at to.
Placed(at, msgs, cells, log, lo, hi, from, to) ==
  /\ at \in [lo .. hi -> Nat]
  /\ at[lo] = from /\ at[hi] = to
  /\ \A k \in lo .. hi : from <= at[k] /\ at[k] <= to
  /\ \A k \in lo + 1 .. hi :
       /\ at[k] = at[k - 1] + msgs[log[k]].size
       /\ \A j \in 1 .. msgs[log[k]].size : cells[at[k - 1] + j - 1] = Cell(log[k], j)

\* A buffer has these messages of a log in one piece.
Laid(msgs, cells, log, lo, hi, from, to) ==
  \E at : Placed(at, msgs, cells, log, lo, hi, from, to)

\* No message.
LEMMA LaidNone ==
  ASSUME NEW msgs, NEW cells, NEW log, NEW lo \in Nat, NEW from \in Nat
  PROVE  Laid(msgs, cells, log, lo, lo, from, from)
<1> DEFINE at == [k \in lo .. lo |-> from]
<1>1. Placed(at, msgs, cells, log, lo, lo, from, from)
  BY DEF Placed
<1> QED
  BY <1>1 DEF Laid

\* What is written behind them, and messages that come behind them, leave them
\* as they are.
SameSizes(new, old, nums, log, lo, hi) ==
  \A k \in lo + 1 .. hi : nums[k] = log[k] /\ new[log[k]].size = old[log[k]].size
SameCells(new, old, from, to) == \A i \in from .. to - 1 : new[i] = old[i]
Sized(msgs, log, lo, hi) == \A k \in lo + 1 .. hi : msgs[log[k]].size \in Nat

LEMMA LaidKept ==
  ASSUME NEW msgs, NEW cells, NEW log, NEW lo \in Nat, NEW hi \in Nat, lo <= hi,
         NEW from \in Nat, NEW to \in Nat,
         Laid(msgs, cells, log, lo, hi, from, to), Sized(msgs, log, lo, hi),
         NEW msgs2, NEW cells2, NEW log2,
         SameSizes(msgs2, msgs, log2, log, lo, hi), SameCells(cells2, cells, from, to)
  PROVE  Laid(msgs2, cells2, log2, lo, hi, from, to)
<1>1. PICK at : Placed(at, msgs, cells, log, lo, hi, from, to)
  BY DEF Laid
<1>2. ASSUME NEW k \in lo + 1 .. hi
      PROVE  /\ at[k] = at[k - 1] + msgs2[log2[k]].size
             /\ \A j \in 1 .. msgs2[log2[k]].size : cells2[at[k - 1] + j - 1] = Cell(log2[k], j)
  <2>1. PICK n \in Nat : n = msgs[log[k]].size /\ n = msgs2[log2[k]].size
    BY DEF SameSizes, Sized
  <2>2. log2[k] = log[k]
    BY DEF SameSizes
  <2>3. k \in lo .. hi /\ k - 1 \in lo .. hi
    OBVIOUS
  <2>4. /\ at[k] \in Nat /\ at[k - 1] \in Nat /\ from <= at[k - 1] /\ at[k] <= to
        /\ at[k] = at[k - 1] + n
        /\ \A j \in 1 .. n : cells[at[k - 1] + j - 1] = Cell(log[k], j)
    BY <1>1, <2>1, <2>3 DEF Placed
  <2>5. ASSUME NEW j \in 1 .. n PROVE cells2[at[k - 1] + j - 1] = cells[at[k - 1] + j - 1]
    <3>1. at[k - 1] + j - 1 \in from .. to - 1
      BY <2>4
    <3> QED
      BY <3>1 DEF SameCells
  <2> QED
    BY <2>1, <2>2, <2>4, <2>5
<1>3. Placed(at, msgs2, cells2, log2, lo, hi, from, to)
  <2>1. /\ at \in [lo .. hi -> Nat]
        /\ at[lo] = from /\ at[hi] = to
        /\ \A k \in lo .. hi : from <= at[k] /\ at[k] <= to
    BY <1>1 DEF Placed
  <2> QED
    BY <2>1, <1>2 DEF Placed
<1> QED
  BY <1>3 DEF Laid

\* One message more.
LEMMA LaidMore ==
  ASSUME NEW msgs, NEW cells, NEW log, NEW lo \in Nat, NEW hi \in Nat, lo <= hi,
         NEW from \in Nat, NEW to \in Nat,
         Laid(msgs, cells, log, lo, hi, from, to),
         NEW n \in Nat, n = msgs[log[hi + 1]].size,
         \A j \in 1 .. n : cells[to + j - 1] = Cell(log[hi + 1], j)
  PROVE  Laid(msgs, cells, log, lo, hi + 1, from, to + n)
<1>1. PICK at : Placed(at, msgs, cells, log, lo, hi, from, to)
  BY DEF Laid
<1> DEFINE more == [k \in lo .. hi + 1 |-> IF k = hi + 1 THEN to + n ELSE at[k]]
<1>2. /\ at \in [lo .. hi -> Nat] /\ at[lo] = from /\ at[hi] = to
      /\ \A k \in lo .. hi : from <= at[k] /\ at[k] <= to
  BY <1>1 DEF Placed
<1>3. more \in [lo .. hi + 1 -> Nat]
  BY <1>2
<1>4. more[hi + 1] = to + n /\ \A k \in lo .. hi : more[k] = at[k]
  OBVIOUS
<1> HIDE DEF more
<1>5. more[lo] = from
  BY <1>2, <1>4
<1>6. ASSUME NEW k \in lo .. hi + 1 PROVE from <= more[k] /\ more[k] <= to + n
  <2>1. CASE k = hi + 1
    <3>1. from <= to
      BY <1>2
    <3> QED
      BY <1>4, <2>1, <3>1
  <2>2. CASE k # hi + 1
    <3>1. k \in lo .. hi
      BY <2>2
    <3>2. from <= at[k] /\ at[k] <= to /\ at[k] \in Nat
      BY <1>2, <3>1
    <3> QED
      BY <1>4, <3>1, <3>2
  <2> QED
    BY <2>1, <2>2
<1>7. ASSUME NEW k \in lo + 1 .. hi + 1
      PROVE  /\ more[k] = more[k - 1] + msgs[log[k]].size
             /\ \A j \in 1 .. msgs[log[k]].size : cells[more[k - 1] + j - 1] = Cell(log[k], j)
  <2>1. CASE k = hi + 1
    <3>1. k - 1 = hi /\ hi \in lo .. hi
      BY <2>1
    <3>2. more[k - 1] = to
      BY <1>2, <1>4, <3>1
    <3> QED
      BY <1>4, <2>1, <3>2
  <2>2. CASE k # hi + 1
    <3>1. k \in lo + 1 .. hi /\ k \in lo .. hi /\ k - 1 \in lo .. hi
      BY <2>2
    <3>2. /\ at[k] = at[k - 1] + msgs[log[k]].size
          /\ \A j \in 1 .. msgs[log[k]].size : cells[at[k - 1] + j - 1] = Cell(log[k], j)
      BY <1>1, <3>1 DEF Placed
    <3>3. more[k] = at[k] /\ more[k - 1] = at[k - 1]
      BY <1>4, <3>1
    <3> QED
      BY <3>2, <3>3
  <2> QED
    BY <2>1, <2>2
<1>8. Placed(more, msgs, cells, log, lo, hi + 1, from, to + n)
  BY <1>3, <1>4, <1>5, <1>6, <1>7 DEF Placed
<1> QED
  BY <1>8 DEF Laid

\* What a cell may hold
CellSet == [part : Nat, of : Nat]

\* The types of what is recorded.
LogTypes ==
  /\ trace_active \in BOOLEAN
  /\ toReset \subseteq Cpu
  /\ starts \in Nat
  /\ sb_buf \in [Cpu -> [Buffers -> [Memory -> CellSet]]]
  /\ \A m \in 1 .. Len(sent) : sent[m].size \in Nat \ {0}
  /\ logged \in [Cpu -> Seq(Nat)]
  /\ \A c \in Cpu : \A i \in 1 .. Len(logged[c]) : logged[c][i] \in 1 .. Len(sent)

\* Nothing is recorded in buffers that are not cleared yet, and a writer has
\* never seen the place of the version string as the end.
Opened ==
  /\ trace_active => toReset = {} /\ starts > 0
  /\ toReset # {} => starts > 0
  /\ ~ring => \A c \in Cpu : Cleared(c) \/ (\E w \in Writer : step[w] # "idle") => offset[c][0] >= 1
  /\ ~ring => \A w \in Writer : step[w] \in {"checked", "copied"} => place[w].pos >= 1

\* The message of a writer that has copied it is where it was tested.
CopiedOk(w, c) ==
  intact[c] /\ IsWithin(w, c) /\ step[w] = "copied" =>
    \A j \in 1 .. Length(msg[w]) : sb_buf[c][place[w].buf][place[w].pos + j - 1] = Cell(msg[w], j)
Copied == \A c \in Cpu, w \in Writer : CopiedOk(w, c)

\* Without a ring the log lies behind the version string.  A writer that found
\* the end of the buffer found it behind the log.
PlainEnd(c, end) ==
  /\ 1 <= end /\ end < BufSize /\ end <= offset[c][0]
  /\ Laid(sent, sb_buf[c][0], logged[c], 0, Len(logged[c]), 1, end)
  /\ sb_buf[c][0][0] = Version
  /\ intact[c] => end = offset[c][0]
  /\ \A w \in Writer : IsWithin(w, c) => place[w].pos >= end
PlainOk(c) == \E end \in Nat : PlainEnd(c, end)

\* With a ring the older buffer has the messages after the k-th up to the j-th
\* and the active one those after the j-th.
HasPart(c, b, lo, hi, from) ==
  /\ from \in {0, 1}
  /\ from = 1 => sb_buf[c][b][0] = Version
  /\ Laid(sent, sb_buf[c][b], logged[c], lo, hi, from, offset[c][b])
RingParts(c, k, j, p, q) ==
  /\ k <= j /\ j <= Len(logged[c])
  /\ HasPart(c, Other(c), k, j, p)
  /\ HasPart(c, active[c], j, Len(logged[c]), q)
  /\ k = 0 \/ (offset[c][Other(c)] - p) + (offset[c][active[c]] - q) >= Trigger - 1
RingOk(c) == \E k, j, p, q \in Nat : RingParts(c, k, j, p, q)

LogOk(c) ==
  /\ ~ring /\ Cleared(c) => PlainOk(c)
  /\ ring /\ Cleared(c) /\ intact[c] => RingOk(c)

LogInv == LogTypes /\ Opened /\ Copied /\ \A c \in Cpu : LogOk(c)
CInv == IInv /\ LogInv

LEMMA MoreSizes ==
  /\ BufSize \in Nat /\ BufSize > 1 /\ MemSize \in Nat /\ MemSize >= BufSize
  /\ Trigger \in Nat /\ Trigger >= 2
  /\ Memory = 0 .. MemSize /\ Buffers = {0, 1}
BY SidebandAssumption DEF Memory, Buffers

LEMMA InitLogInv == Init => LogInv
<1> SUFFICES ASSUME Init PROVE LogInv
  OBVIOUS
<1>1. starts = 0 /\ toReset = {} /\ trace_active = FALSE /\ step = [w \in Writer |-> "idle"]
      /\ sent = <<>> /\ logged = [c \in Cpu |-> <<>>]
  BY DEF Init
<1>2. LogTypes
  <2>1. Zero \in CellSet
    BY DEF Zero, CellSet
  <2>2. sb_buf \in [Cpu -> [Buffers -> [Memory -> CellSet]]]
    BY <2>1 DEF Init
  <2>3. logged \in [Cpu -> Seq(Nat)] /\ \A c \in Cpu : Len(logged[c]) = 0
    BY <1>1
  <2>4. Len(sent) = 0
    BY <1>1
  <2> QED
    <3>1. starts \in Nat /\ toReset \subseteq Cpu /\ trace_active \in BOOLEAN
      BY <1>1
    <3>2. 1 .. Len(sent) = {} /\ \A c \in Cpu : 1 .. Len(logged[c]) = {}
      BY <2>3, <2>4
    <3> QED
      BY <2>2, <2>3, <3>1, <3>2, Zenon DEF LogTypes
<1>3. Opened /\ Copied
  BY <1>1 DEF Opened, Copied, CopiedOk, IsWithin, Cleared
<1>4. \A c \in Cpu : LogOk(c)
  <2>1. ~(starts > 0)
    <3>1. starts = 0
      BY <1>1
    <3> QED
      BY <3>1
  <2> QED
    BY <2>1 DEF LogOk, Cleared
<1> QED
  BY <1>2, <1>3, <1>4 DEF LogInv

-----------------------------------------------------------------------------
(* CPUs a step leaves alone *)

Untouched(c) ==
  /\ sb_buf'[c] = sb_buf[c] /\ offset'[c] = offset[c] /\ active'[c] = active[c]
  /\ logged'[c] = logged[c] /\ (intact'[c] => intact[c])

MessagesStay ==
  /\ Len(sent') >= Len(sent)
  /\ \A m \in 1 .. Len(sent) : sent'[m] = sent[m]

\* Who is within c's buffers has been so, or has found their end now.
WritersStay(c) ==
  \A w \in Writer : IsWithin(w, c)' =>
    \/ IsWithin(w, c) /\ place'[w] = place[w]
    \/ place'[w].pos >= offset[c][0]

LEMMA LogSizes ==
  ASSUME CInv, MessagesStay, NEW c \in Cpu, logged'[c] = logged[c]
  PROVE  /\ Len(logged[c]) \in Nat
         /\ SameSizes(sent', sent, logged'[c], logged[c], 0, Len(logged[c]))
         /\ Sized(sent, logged[c], 0, Len(logged[c]))
<1>1. logged[c] \in Seq(Nat) /\ Len(sent) \in Nat
  BY DEF CInv, LogInv, LogTypes, IInv, Types
<1>2. ASSUME NEW k \in 1 .. Len(logged[c])
      PROVE  logged[c][k] \in 1 .. Len(sent) /\ sent[logged[c][k]].size \in Nat
  BY DEF CInv, LogInv, LogTypes
<1> QED
  BY <1>1, <1>2 DEF SameSizes, Sized, MessagesStay

LEMMA PlainKept ==
  ASSUME CInv, IInv', MessagesStay, NEW c \in Cpu, Untouched(c), WritersStay(c), PlainOk(c)
  PROVE  PlainOk(c)'
<1>1. PICK end \in Nat : PlainEnd(c, end)
  BY DEF PlainOk
<1>2. SameCells(sb_buf'[c][0], sb_buf[c][0], 1, end)
  BY DEF SameCells, Untouched
<1>3. logged'[c] = logged[c] /\ sb_buf'[c] = sb_buf[c] /\ offset'[c] = offset[c]
      /\ (intact'[c] => intact[c])
  BY DEF Untouched
<1>4. Laid(sent', sb_buf'[c][0], logged'[c], 0, Len(logged[c]), 1, end)
  <2>1. Laid(sent, sb_buf[c][0], logged[c], 0, Len(logged[c]), 1, end)
    BY <1>1 DEF PlainEnd
  <2>2. /\ Len(logged[c]) \in Nat
        /\ SameSizes(sent', sent, logged'[c], logged[c], 0, Len(logged[c]))
        /\ Sized(sent, logged[c], 0, Len(logged[c]))
    BY <1>3, LogSizes
  <2> QED
    BY <1>2, <2>1, <2>2, LaidKept
<1>5. ASSUME NEW w \in Writer, IsWithin(w, c)' PROVE place'[w].pos >= end
  <2>1. CASE IsWithin(w, c) /\ place'[w] = place[w]
    BY <1>1, <2>1 DEF PlainEnd
  <2>2. CASE place'[w].pos >= offset[c][0]
    <3>1. offset[c][0] \in Nat /\ end <= offset[c][0]
      BY <1>1 DEF CInv, IInv, Types, Buffers, PlainEnd
    <3>2. place'[w].pos \in Nat
      BY DEF IInv, Types
    <3> QED
      BY <2>2, <3>1, <3>2
  <2> QED
    BY <1>5, <2>1, <2>2 DEF WritersStay
<1>6. PlainEnd(c, end)'
  BY <1>1, <1>3, <1>4, <1>5 DEF PlainEnd
<1> QED
  BY <1>6 DEF PlainOk

LEMMA PartKept ==
  ASSUME NEW c \in Cpu, NEW b \in Buffers, NEW lo \in Nat, NEW hi \in Nat, lo <= hi, NEW from,
         Sized(sent, logged[c], lo, hi), offset[c][b] \in Nat,
         HasPart(c, b, lo, hi, from),
         SameSizes(sent', sent, logged'[c], logged[c], lo, hi),
         SameCells(sb_buf'[c][b], sb_buf[c][b], 0, offset[c][b]),
         from = 1 => sb_buf'[c][b][0] = sb_buf[c][b][0],
         offset'[c][b] = offset[c][b]
  PROVE  HasPart(c, b, lo, hi, from)'
<1>1. from \in Nat /\ SameCells(sb_buf'[c][b], sb_buf[c][b], from, offset[c][b])
  <2>1. from = 0 \/ from = 1
    BY DEF HasPart
  <2> QED
    BY <2>1 DEF SameCells
<1>2. Laid(sent, sb_buf[c][b], logged[c], lo, hi, from, offset[c][b])
  BY DEF HasPart
<1>3. Laid(sent', sb_buf'[c][b], logged'[c], lo, hi, from, offset[c][b])
  BY <1>1, <1>2, LaidKept
<1> QED
  BY <1>3 DEF HasPart

LEMMA Parts ==
  ASSUME NEW msgs, NEW new, NEW log, NEW nums, NEW n \in Nat, NEW lo \in Nat, NEW hi \in Nat, hi <= n
  PROVE  /\ SameSizes(new, msgs, nums, log, 0, n) => SameSizes(new, msgs, nums, log, lo, hi)
         /\ Sized(msgs, log, 0, n) => Sized(msgs, log, lo, hi)
BY DEF SameSizes, Sized

LEMMA RingKept ==
  ASSUME CInv, MessagesStay, NEW c \in Cpu, Untouched(c), RingOk(c)
  PROVE  RingOk(c)'
<1>1. PICK k, j, p, q \in Nat : RingParts(c, k, j, p, q)
  BY DEF RingOk
<1>2. PICK older, newer, n : older = Other(c) /\ newer = active[c] /\ n = Len(logged[c])
  OBVIOUS
<1>3. /\ older \in Buffers /\ newer \in Buffers /\ offset[c][older] \in Nat /\ offset[c][newer] \in Nat
  BY <1>2, OffsetFacts DEF CInv, IInv
<1>4. /\ sb_buf'[c] = sb_buf[c] /\ offset'[c] = offset[c] /\ active'[c] = active[c]
      /\ logged'[c] = logged[c] /\ Other(c)' = older /\ active'[c] = newer /\ Len(logged'[c]) = n
  BY <1>2 DEF Untouched, Other
<1>5. /\ n \in Nat /\ SameSizes(sent', sent, logged'[c], logged[c], 0, n)
      /\ Sized(sent, logged[c], 0, n)
  BY <1>2, <1>4, LogSizes
<1>6. k <= j /\ j <= n /\ HasPart(c, older, k, j, p) /\ HasPart(c, newer, j, n, q)
      /\ (k = 0 \/ (offset[c][older] - p) + (offset[c][newer] - q) >= Trigger - 1)
  BY <1>1, <1>2 DEF RingParts
<1>7. HasPart(c, older, k, j, p)'
  <2>1. SameSizes(sent', sent, logged'[c], logged[c], k, j) /\ Sized(sent, logged[c], k, j)
    BY <1>5, <1>6, Parts
  <2>2. SameCells(sb_buf'[c][older], sb_buf[c][older], 0, offset[c][older])
    BY <1>4 DEF SameCells
  <2> QED
    BY <1>3, <1>4, <1>6, <2>1, <2>2, PartKept
<1>8. HasPart(c, newer, j, n, q)'
  <2>1. SameSizes(sent', sent, logged'[c], logged[c], j, n) /\ Sized(sent, logged[c], j, n)
    BY <1>5, <1>6, Parts
  <2>2. SameCells(sb_buf'[c][newer], sb_buf[c][newer], 0, offset[c][newer])
    BY <1>4 DEF SameCells
  <2> QED
    BY <1>3, <1>4, <1>5, <1>6, <2>1, <2>2, PartKept
<1>9. RingParts(c, k, j, p, q)'
  BY <1>4, <1>6, <1>7, <1>8 DEF RingParts
<1> QED
  BY <1>9 DEF RingOk

\* The message of a writer is still where it has copied it.
LEMMA CopiedKept ==
  ASSUME CInv, MessagesStay, NEW c \in Cpu, Untouched(c), NEW w \in Writer,
         step'[w] = "copied" => step[w] = "copied" /\ place'[w] = place[w] /\ msg'[w] = msg[w]
  PROVE  CopiedOk(w, c)'
<1> SUFFICES ASSUME intact'[c], IsWithin(w, c)', step'[w] = "copied"
             PROVE  \A j \in 1 .. sent'[msg'[w]].size :
                      sb_buf'[c][place'[w].buf][place'[w].pos + j - 1] = Cell(msg'[w], j)
  BY DEF CopiedOk, Length
<1>1. intact[c] /\ IsWithin(w, c) /\ step[w] = "copied" /\ place'[w] = place[w] /\ msg'[w] = msg[w]
  BY DEF Untouched, IsWithin
<1>2. CopiedOk(w, c)
  BY DEF CInv, LogInv, Copied
<1>3. sent'[msg[w]] = sent[msg[w]]
  BY <1>1 DEF CInv, IInv, HasMessage, MessagesStay
<1> QED
  BY <1>1, <1>2, <1>3 DEF CopiedOk, Length, Untouched

-----------------------------------------------------------------------------
(* Every step keeps the log where it is *)

LEMMA LogKept ==
  ASSUME CInv, IInv', ring' = ring, MessagesStay, NEW c \in Cpu, Untouched(c), WritersStay(c),
         Cleared(c)' => Cleared(c)
  PROVE  LogOk(c)'
<1>1. LogOk(c)
  BY DEF CInv, LogInv
<1>2. ~ring' /\ Cleared(c)' => PlainOk(c)'
  BY <1>1, PlainKept DEF LogOk
<1>3. ring' /\ Cleared(c)' /\ intact'[c] => RingOk(c)'
  BY <1>1, RingKept DEF LogOk, Untouched
<1> QED
  BY <1>2, <1>3 DEF LogOk

-----------------------------------------------------------------------------
(* Steps that leave the buffers alone *)

LEMMA QuietTypes ==
  ASSUME LogTypes, UNCHANGED <<sb_buf, logged, sent>>,
         trace_active' \in BOOLEAN, toReset' \subseteq Cpu, starts' \in Nat
  PROVE  LogTypes'
BY DEF LogTypes

\* Nothing of the buffers and the writers changes.
LEMMA StillLog ==
  ASSUME CInv, IInv',
         UNCHANGED <<ring, active, offset, sb_buf, sent, step, msg, place, logged, intact>>,
         trace_active' \in BOOLEAN, toReset' \subseteq Cpu, starts' \in Nat,
         Opened', \A c \in Cpu : Cleared(c)' => Cleared(c)
  PROVE  LogInv'
<1>1. LogTypes'
  BY QuietTypes DEF CInv, LogInv
<1>2. MessagesStay
  BY DEF MessagesStay, CInv, IInv, Types
<1>3. \A c \in Cpu : Untouched(c) /\ WritersStay(c)
  BY DEF Untouched, WritersStay, IsWithin
<1>4. Copied'
  BY <1>2, <1>3, CopiedKept DEF Copied
<1>5. \A c \in Cpu : LogOk(c)'
  BY <1>2, <1>3, LogKept
<1> QED
  BY <1>1, <1>4, <1>5 DEF LogInv

LEMMA StartLog ==
  ASSUME CInv, IInv', Start
  PROVE  LogInv'
<1>1. /\ ~trace_active /\ toReset = {} /\ starts' = starts + 1 /\ toReset' = Cpu
      /\ UNCHANGED <<ring, active, offset, sb_buf, trace_active, sent, step, msg, place, logged, intact>>
  BY DEF Start, infoVars, writerVars, historyVars
<1>2. starts \in Nat /\ trace_active \in BOOLEAN
  BY DEF CInv, LogInv, LogTypes
<1>3. \A c \in Cpu : ~Cleared(c)'
  BY <1>1 DEF Cleared
<1>4. Opened'
  <2>1. /\ ~ring => \A c \in Cpu : (\E w \in Writer : step[w] # "idle") => offset[c][0] >= 1
        /\ ~ring => \A w \in Writer : step[w] \in {"checked", "copied"} => place[w].pos >= 1
    BY DEF CInv, LogInv, Opened
  <2>2. starts' > 0
    BY <1>1, <1>2
  <2> QED
    BY <1>1, <1>3, <2>1, <2>2 DEF Opened
<1> QED
  BY <1>1, <1>2, <1>3, <1>4, StillLog

LEMMA StopLog ==
  ASSUME CInv, IInv', Stop
  PROVE  LogInv'
<1>1. /\ trace_active' = FALSE
      /\ UNCHANGED <<ring, active, offset, sb_buf, toReset, starts, sent, step, msg, place, logged, intact>>
  BY DEF Stop, infoVars, writerVars, historyVars
<1>2. starts \in Nat /\ toReset \subseteq Cpu
  BY DEF CInv, LogInv, LogTypes
<1>3. \A c \in Cpu : Cleared(c)' = Cleared(c)
  BY <1>1 DEF Cleared
<1>4. Opened'
  BY <1>1, <1>3 DEF CInv, LogInv, Opened
<1> QED
  BY <1>1, <1>2, <1>3, <1>4, StillLog

LEMMA SendLog ==
  ASSUME CInv, IInv', NEW w \in Writer, NEW c \in Cpu, SendSatMsg(w, c)
  PROVE  LogInv'
<1> DEFINE new == [tscp |-> time', cpu |-> c, size |-> SizeOf[w]]
<1>1. /\ UNCHANGED <<ring, active, offset, sb_buf, trace_active, toReset, starts, place, logged, intact>>
      /\ trace_active
      /\ step[w] = "idle"
      /\ step' = [step EXCEPT ![w] = "stamped"]
      /\ sent' = Append(sent, new)
      /\ msg' = [msg EXCEPT ![w] = Len(sent')]
  BY DEF SendSatMsg, Goes, infoVars, historyVars
<1>2. step \in [Writer -> {"idle", "stamped", "checked", "copied"}] /\ msg \in [Writer -> Nat]
  BY DEF CInv, IInv, Types
<1>3. new.size \in Nat \ {0}
  BY Sizes
<1> HIDE DEF new
<1>4. /\ Len(sent) \in Nat /\ Len(sent') = Len(sent) + 1
      /\ \A m \in 1 .. Len(sent) : sent'[m] = sent[m]
      /\ sent'[Len(sent) + 1] = new
  <2>1. sent \in Seq(Messages)
    BY DEF CInv, IInv, Types
  <2> QED
    BY <1>1, <2>1
<1>5. MessagesStay
  BY <1>4 DEF MessagesStay
<1>6. LogTypes'
  <2>1. LogTypes
    BY DEF CInv, LogInv
  <2>2. ASSUME NEW m \in 1 .. Len(sent') PROVE sent'[m].size \in Nat \ {0}
    <3>1. CASE m = Len(sent) + 1
      BY <1>3, <1>4, <3>1
    <3>2. CASE m # Len(sent) + 1
      <4>1. m \in 1 .. Len(sent)
        BY <1>4, <3>2
      <4> QED
        BY <1>4, <2>1, <4>1 DEF LogTypes
    <3> QED
      BY <3>1, <3>2
  <2>3. \A d \in Cpu : \A i \in 1 .. Len(logged[d]) : logged[d][i] \in 1 .. Len(sent')
    BY <1>4, <2>1 DEF LogTypes
  <2> QED
    BY <1>1, <2>1, <2>2, <2>3 DEF LogTypes
<1>7. \A v \in Writer, d \in Cpu : IsWithin(v, d)' = IsWithin(v, d)
  BY <1>1, <1>2 DEF IsWithin
<1>8. \A d \in Cpu : Cleared(d) /\ Cleared(d)' = Cleared(d)
  BY <1>1 DEF Cleared, CInv, LogInv, Opened
<1>9. \A d \in Cpu : Untouched(d) /\ WritersStay(d)
  BY <1>1, <1>7 DEF Untouched, WritersStay
<1>10. Opened'
  <2>1. ~ring => \A d \in Cpu : offset[d][0] >= 1
    BY <1>8 DEF CInv, LogInv, Opened
  <2>2. \A v \in Writer : step'[v] \in {"checked", "copied"} => step[v] \in {"checked", "copied"}
    BY <1>1, <1>2
  <2>3. /\ trace_active => toReset = {} /\ starts > 0
        /\ toReset # {} => starts > 0
        /\ ~ring => \A v \in Writer : step[v] \in {"checked", "copied"} => place[v].pos >= 1
    BY DEF CInv, LogInv, Opened
  <2> QED
    BY <1>1, <2>1, <2>2, <2>3 DEF Opened
<1>11. Copied'
  <2>1. ASSUME NEW v \in Writer, step'[v] = "copied"
        PROVE  step[v] = "copied" /\ place'[v] = place[v] /\ msg'[v] = msg[v]
    BY <1>1, <1>2, <2>1
  <2> QED
    BY <1>5, <1>9, <2>1, CopiedKept DEF Copied
<1>12. \A d \in Cpu : LogOk(d)'
  BY <1>1, <1>5, <1>8, <1>9, LogKept
<1> QED
  BY <1>6, <1>10, <1>11, <1>12 DEF LogInv

LEMMA CheckLog ==
  ASSUME CInv, IInv', NEW w \in Writer, NEW c \in Cpu, Check(w, c)
  PROVE  LogInv'
<1>1. /\ UNCHANGED <<ring, active, offset, sb_buf, trace_active, toReset, starts, sent, msg, logged>>
      /\ step[w] = "stamped"
      /\ step' = [step EXCEPT ![w] = "checked"]
      /\ place' = [place EXCEPT ![w] = [cpu |-> c, buf |-> active[c], pos |-> offset[c][active[c]]]]
      /\ intact' = [intact EXCEPT ![c] = @ /\ ~Within(c)]
  BY DEF Check, Goes, infoVars
<1>2. /\ step \in [Writer -> {"idle", "stamped", "checked", "copied"}]
      /\ DOMAIN place = Writer /\ intact \in [Cpu -> BOOLEAN]
  BY DEF CInv, IInv, Types
<1>3. LogTypes'
  BY <1>1, QuietTypes DEF CInv, LogInv, LogTypes
<1>4. MessagesStay
  BY <1>1 DEF MessagesStay, CInv, IInv, Types
<1>5. \A d \in Cpu : Untouched(d)
  BY <1>1, <1>2 DEF Untouched
<1>6. place'[w].pos = offset[c][active[c]] /\ place'[w].cpu = c
      /\ \A v \in Writer \ {w} : place'[v] = place[v] /\ step'[v] = step[v]
  BY <1>1, <1>2
<1>7. ~ring => active[c] = 0
  BY DEF CInv, IInv, SecondUnused
<1>8. ~ring => \A d \in Cpu : WritersStay(d)
  <2> SUFFICES ASSUME ~ring, NEW d \in Cpu, NEW v \in Writer, IsWithin(v, d)'
               PROVE  \/ IsWithin(v, d) /\ place'[v] = place[v]
                      \/ place'[v].pos >= offset[d][0]
    BY DEF WritersStay
  <2>1. CASE v = w
    <3>1. d = c
      BY <1>6, <2>1 DEF IsWithin
    <3>2. offset[c][0] \in Nat
      BY DEF CInv, IInv, Types, Buffers
    <3> QED
      BY <1>6, <1>7, <2>1, <3>1, <3>2
  <2>2. CASE v # w
    BY <1>6, <2>2 DEF IsWithin
  <2> QED
    BY <2>1, <2>2
<1>9. \A d \in Cpu : Cleared(d)' = Cleared(d)
  BY <1>1 DEF Cleared
<1>10. Opened'
  <2>1. Opened
    BY DEF CInv, LogInv
  <2>2. ~ring => \A d \in Cpu : offset[d][0] >= 1
    BY <1>1, <2>1 DEF Opened
  <2>3. ~ring => \A v \in Writer : step'[v] \in {"checked", "copied"} => place'[v].pos >= 1
    <3> SUFFICES ASSUME ~ring, NEW v \in Writer, step'[v] \in {"checked", "copied"}
                 PROVE  place'[v].pos >= 1
      OBVIOUS
    <3>1. CASE v = w
      BY <1>6, <1>7, <2>2, <3>1
    <3>2. CASE v # w
      BY <1>6, <2>1, <3>2 DEF Opened
    <3> QED
      BY <3>1, <3>2
  <2> QED
    BY <1>1, <1>9, <2>1, <2>2, <2>3 DEF Opened
<1>11. Copied'
  <2>1. ASSUME NEW v \in Writer, step'[v] = "copied"
        PROVE  step[v] = "copied" /\ place'[v] = place[v] /\ msg'[v] = msg[v]
    <3>1. v # w
      BY <1>1, <1>2, <2>1
    <3> QED
      BY <1>1, <1>6, <2>1, <3>1
  <2> QED
    BY <1>4, <1>5, <2>1, CopiedKept DEF Copied
<1>12. ASSUME NEW d \in Cpu PROVE LogOk(d)'
  <2>1. LogOk(d)
    BY DEF CInv, LogInv
  <2>2. CASE ~ring
    BY <1>1, <1>4, <1>5, <1>8, <1>9, <2>2, LogKept
  <2>3. CASE ring
    <3>1. ring' /\ Cleared(d)' /\ intact'[d] => RingOk(d)'
      BY <1>4, <1>5, <1>9, <2>1, <2>3, RingKept DEF LogOk, Untouched
    <3> QED
      BY <1>1, <2>3, <3>1 DEF LogOk
  <2> QED
    BY <2>2, <2>3
<1> QED
  BY <1>3, <1>10, <1>11, <1>12 DEF LogInv

LEMMA DropLog ==
  ASSUME CInv, IInv', NEW w \in Writer, NEW c \in Cpu, Drop(w, c)
  PROVE  LogInv'
<1>1. /\ UNCHANGED <<ring, active, offset, sb_buf, trace_active, toReset, starts, sent, place, logged, intact>>
      /\ step[w] = "stamped"
      /\ step' = [step EXCEPT ![w] = "idle"]
      /\ msg' = [msg EXCEPT ![w] = 0]
  BY DEF Drop, Goes, infoVars, historyVars
<1>2. step \in [Writer -> {"idle", "stamped", "checked", "copied"}] /\ msg \in [Writer -> Nat]
  BY DEF CInv, IInv, Types
<1>3. LogTypes'
  BY <1>1, QuietTypes DEF CInv, LogInv, LogTypes
<1>4. MessagesStay
  BY <1>1 DEF MessagesStay, CInv, IInv, Types
<1>5. \A v \in Writer : step'[v] # "idle" => v # w /\ step'[v] = step[v] /\ msg'[v] = msg[v]
  BY <1>1, <1>2
<1>6. \A d \in Cpu : Untouched(d) /\ WritersStay(d)
  BY <1>1, <1>5 DEF Untouched, WritersStay, IsWithin
<1>7. \A d \in Cpu : Cleared(d)' = Cleared(d)
  BY <1>1 DEF Cleared
<1>8. Opened'
  <2>1. Opened
    BY DEF CInv, LogInv
  <2>2. ~ring => \A v \in Writer : step'[v] \in {"checked", "copied"} => place'[v].pos >= 1
    BY <1>1, <1>5, <2>1 DEF Opened
  <2> QED
    BY <1>1, <1>5, <1>7, <2>1, <2>2 DEF Opened
<1>9. Copied'
  <2>1. \A v \in Writer : step'[v] = "copied" =>
          step[v] = "copied" /\ place'[v] = place[v] /\ msg'[v] = msg[v]
    BY <1>1, <1>5
  <2> QED
    BY <1>4, <1>6, <2>1, CopiedKept DEF Copied
<1>10. \A d \in Cpu : LogOk(d)'
  BY <1>1, <1>4, <1>6, <1>7, LogKept
<1> QED
  BY <1>3, <1>8, <1>9, <1>10 DEF LogInv

\* sb_reset: a log begins behind the version string, and is intact unless
\* somebody is within its buffers.
LEMMA ResetLog ==
  ASSUME CInv, IInv', NEW c \in Cpu, SbReset(c)
  PROVE  LogInv'
<1>1. /\ c \in toReset
      /\ toReset' = toReset \ {c}
      /\ trace_active' = (toReset = {c})
      /\ active' = [active EXCEPT ![c] = 0]
      /\ sb_buf' = [sb_buf EXCEPT ![c] =
           [b \in Buffers |-> IF b \in InUse
                              THEN [i \in Memory |-> IF i = 0 THEN Version ELSE Zero]
                              ELSE @[b]]]
      /\ offset' = [offset EXCEPT ![c] = [b \in Buffers |-> IF b \in InUse THEN 1 ELSE @[b]]]
      /\ logged' = [logged EXCEPT ![c] = <<>>]
      /\ intact' = [intact EXCEPT ![c] = ~Within(c)]
      /\ UNCHANGED <<ring, starts, sent, step, msg, place>>
  BY DEF SbReset, OffsetReset, writerVars
<1>2. LogTypes /\ Opened /\ Types
  BY DEF CInv, LogInv, IInv
<1>3. 0 \in Memory /\ 0 \in Buffers /\ 0 \in InUse /\ (ring => InUse = Buffers)
  BY MoreSizes DEF InUse
<1>4. \A d \in Cpu : d # c =>
        /\ sb_buf'[d] = sb_buf[d] /\ offset'[d] = offset[d] /\ active'[d] = active[d]
        /\ logged'[d] = logged[d] /\ intact'[d] = intact[d]
  BY <1>1, <1>2 DEF LogTypes, Types
<1>5. /\ active'[c] = 0 /\ logged'[c] = <<>>
      /\ offset'[c] = [b \in Buffers |-> IF b \in InUse THEN 1 ELSE offset[c][b]]
      /\ sb_buf'[c] = [b \in Buffers |-> IF b \in InUse
                                         THEN [i \in Memory |-> IF i = 0 THEN Version ELSE Zero]
                                         ELSE sb_buf[c][b]]
  BY <1>1, <1>2 DEF LogTypes, Types
<1>6. \A b \in InUse : b \in Buffers /\ offset'[c][b] = 1 /\ sb_buf'[c][b][0] = Version
  <2>1. \A b \in InUse : b \in Buffers
    BY MoreSizes DEF InUse
  <2> QED
    BY <1>3, <1>5, <2>1
<1>7. LogTypes'
  <2>1. sb_buf'[c] \in [Buffers -> [Memory -> CellSet]]
    <3>1. Version \in CellSet /\ Zero \in CellSet
      BY DEF Version, Zero, CellSet
    <3>2. [i \in Memory |-> IF i = 0 THEN Version ELSE Zero] \in [Memory -> CellSet]
      BY <3>1
    <3>3. sb_buf[c] \in [Buffers -> [Memory -> CellSet]]
      BY <1>2 DEF LogTypes
    <3> QED
      BY <1>5, <3>2, <3>3
  <2>2. sb_buf' \in [Cpu -> [Buffers -> [Memory -> CellSet]]]
    <3>1. sb_buf \in [Cpu -> [Buffers -> [Memory -> CellSet]]] /\ sb_buf' = [sb_buf EXCEPT ![c] = sb_buf'[c]]
      BY <1>1, <1>2 DEF LogTypes
    <3> QED
      BY <2>1, <3>1
  <2>3. logged' \in [Cpu -> Seq(Nat)]
    <3>1. <<>> \in Seq(Nat)
      OBVIOUS
    <3> QED
      BY <1>1, <1>2, <3>1 DEF LogTypes
  <2>4. ASSUME NEW d \in Cpu, NEW i \in 1 .. Len(logged'[d]) PROVE logged'[d][i] \in 1 .. Len(sent)
    <3>1. CASE d = c
      <4>1. Len(logged'[d]) = 0
        BY <1>5, <3>1
      <4> QED
        BY <2>4, <4>1
    <3>2. CASE d # c
      BY <1>2, <1>4, <3>2 DEF LogTypes
    <3> QED
      BY <3>1, <3>2
  <2>5. toReset' \subseteq Cpu /\ trace_active' \in BOOLEAN /\ starts' \in Nat
    BY <1>1, <1>2 DEF LogTypes
  <2> QED
    BY <1>1, <1>2, <2>2, <2>3, <2>4, <2>5 DEF LogTypes
<1>8. MessagesStay
  BY <1>1, <1>2 DEF MessagesStay, Types
<1>9. \A v \in Writer, d \in Cpu : IsWithin(v, d)' = IsWithin(v, d)
  BY <1>1 DEF IsWithin
<1>10. \A d \in Cpu : d # c => Untouched(d) /\ WritersStay(d) /\ (Cleared(d)' => Cleared(d))
  BY <1>1, <1>4, <1>9 DEF Untouched, WritersStay, Cleared
<1>11. intact'[c] => \A v \in Writer : ~IsWithin(v, c)
  <2>1. intact'[c] = ~Within(c)
    BY <1>1, <1>2 DEF Types
  <2> QED
    BY <2>1 DEF Within, IsWithin
<1>12. Opened'
  <2>1. starts > 0
    BY <1>1, <1>2 DEF Opened
  <2>2. trace_active' => toReset' = {}
    BY <1>1
  <2>3. ASSUME ~ring, NEW d \in Cpu, Cleared(d)' \/ (\E v \in Writer : step[v] # "idle")
        PROVE  offset'[d][0] >= 1
    <3>1. CASE d = c
      BY <1>3, <1>6, <3>1
    <3>2. CASE d # c
      BY <1>2, <1>4, <1>10, <2>3, <3>2 DEF Opened
    <3> QED
      BY <3>1, <3>2
  <2> QED
    BY <1>1, <1>2, <2>1, <2>2, <2>3 DEF Opened
<1>13. Copied'
  <2> SUFFICES ASSUME NEW v \in Writer, NEW d \in Cpu PROVE CopiedOk(v, d)'
    BY DEF Copied
  <2>1. CASE d = c
    BY <1>9, <1>11, <2>1 DEF CopiedOk
  <2>2. CASE d # c
    BY <1>1, <1>8, <1>10, <2>2, CopiedKept
  <2> QED
    BY <2>1, <2>2
<1>14. ASSUME NEW lo \in Nat, lo = 0
       PROVE  \A b \in InUse : Laid(sent', sb_buf'[c][b], logged'[c], lo, lo, 1, 1)
  BY LaidNone
<1>15. ~ring => PlainOk(c)'
  <2> SUFFICES ASSUME ~ring PROVE PlainEnd(c, 1)'
    BY DEF PlainOk
  <2>1. Len(logged'[c]) = 0
    BY <1>5
  <2>2. Laid(sent', sb_buf'[c][0], logged'[c], 0, 0, 1, 1)
    BY <1>3, <1>14
  <2>3. \A v \in Writer : IsWithin(v, c)' => place'[v].pos >= 1
    BY <1>1, <1>2, <1>9 DEF Opened, IsWithin
  <2> QED
    BY <1>3, <1>6, <2>1, <2>2, <2>3, MoreSizes DEF PlainEnd
<1>16. ring => RingOk(c)'
  <2> SUFFICES ASSUME ring PROVE RingParts(c, 0, 0, 1, 1)'
    BY DEF RingOk
  <2>1. Len(logged'[c]) = 0
    BY <1>5
  <2>2. ASSUME NEW b \in Buffers PROVE HasPart(c, b, 0, 0, 1)'
    BY <1>3, <1>6, <1>14 DEF HasPart
  <2>3. Other(c)' \in Buffers /\ active'[c] \in Buffers
    BY <1>5, MoreSizes DEF Other
  <2> QED
    BY <2>1, <2>2, <2>3 DEF RingParts
<1>17. ASSUME NEW d \in Cpu PROVE LogOk(d)'
  <2>1. CASE d = c
    BY <1>1, <1>15, <1>16, <2>1 DEF LogOk
  <2>2. CASE d # c
    BY <1>1, <1>8, <1>10, <2>2, LogKept
  <2> QED
    BY <2>1, <2>2
<1> QED
  BY <1>7, <1>12, <1>13, <1>17 DEF LogInv

\* sb_trace copies: what lies before the end of the buffer stays as it is.
LEMMA CopyLog ==
  ASSUME CInv, IInv', NEW w \in Writer, Copy(w)
  PROVE  LogInv'
<1>1. PICK c, n : c = place[w].cpu /\ n = Length(msg[w])
  OBVIOUS
<1>2. /\ step[w] = "checked"
      /\ step' = [step EXCEPT ![w] = "copied"]
      /\ \E p \in {place[w], [cpu |-> c, buf |-> active[c], pos |-> offset[c][active[c]]]} :
           sb_buf' = [sb_buf EXCEPT ![c][p.buf] =
             [i \in Memory |-> IF i \in p.pos .. p.pos + n - 1 THEN Cell(msg[w], i - p.pos + 1)
                               ELSE @[i]]]
      /\ UNCHANGED <<ring, active, offset, trace_active, toReset, starts, sent, msg, place, logged, intact>>
  BY ZenonT(30), <1>1 DEF Copy, Goes, historyVars
<1>3. LogTypes /\ Opened /\ Types
  BY DEF CInv, LogInv, IInv
<1>4. PICK b, pos :
        /\ \/ b = place[w].buf /\ pos = place[w].pos
           \/ b = active[c] /\ pos = offset[c][active[c]]
        /\ sb_buf' = [sb_buf EXCEPT ![c][b] =
             [i \in Memory |-> IF i \in pos .. pos + n - 1 THEN Cell(msg[w], i - pos + 1)
                               ELSE @[i]]]
  <2>1. PICK p \in {place[w], [cpu |-> c, buf |-> active[c], pos |-> offset[c][active[c]]]} :
           sb_buf' = [sb_buf EXCEPT ![c][p.buf] =
             [i \in Memory |-> IF i \in p.pos .. p.pos + n - 1 THEN Cell(msg[w], i - p.pos + 1)
                               ELSE @[i]]]
    BY <1>2
  <2>2. PICK b, pos : b = p.buf /\ pos = p.pos
    OBVIOUS
  <2>3. \/ b = place[w].buf /\ pos = place[w].pos
        \/ b = active[c] /\ pos = offset[c][active[c]]
    <3>1. CASE p = place[w]
      BY <2>2, <3>1
    <3>2. CASE p = [cpu |-> c, buf |-> active[c], pos |-> offset[c][active[c]]]
      BY <2>2, <3>2
    <3> QED
      BY <3>1, <3>2
  <2> QED
    BY <2>1, <2>2, <2>3
<1>5. c \in Cpu /\ IsWithin(w, c) /\ msg[w] \in 1 .. Len(sent) /\ n \in Nat /\ Len(sent) \in Nat
  <2>1. c \in Cpu /\ IsWithin(w, c)
    BY <1>1, <1>2 DEF CInv, IInv, HasPlace, IsWithin
  <2>2. msg[w] \in 1 .. Len(sent) /\ Len(sent) \in Nat
    BY <1>2, <1>3 DEF CInv, IInv, HasMessage, Types
  <2> QED
    BY <1>1, <1>3, <2>1, <2>2 DEF LogTypes, Length
<1>6. b \in Buffers /\ pos \in Nat
  <2>1. place[w] \in [cpu : Cpu \cup {None}, buf : Buffers, pos : Nat]
    BY <1>3 DEF Types
  <2>2. active[c] \in Buffers /\ offset[c] \in [Buffers -> Nat]
    BY <1>3, <1>5 DEF Types
  <2> QED
    BY <1>4, <2>1, <2>2
<1>7. /\ \A d \in Cpu : d # c => sb_buf'[d] = sb_buf[d]
      /\ \A a \in Buffers : a # b => sb_buf'[c][a] = sb_buf[c][a]
      /\ sb_buf'[c][b] = [i \in Memory |-> IF i \in pos .. pos + n - 1 THEN Cell(msg[w], i - pos + 1)
                                           ELSE sb_buf[c][b][i]]
  BY <1>3, <1>4, <1>5, <1>6 DEF LogTypes
<1>8. \A i \in Memory : i < pos => sb_buf'[c][b][i] = sb_buf[c][b][i]
  BY <1>6, <1>7, MoreSizes
<1>9. \A j \in 1 .. n : pos + j - 1 \in Memory => sb_buf'[c][b][pos + j - 1] = Cell(msg[w], j)
  <2> SUFFICES ASSUME NEW j \in 1 .. n, pos + j - 1 \in Memory
               PROVE  sb_buf'[c][b][pos + j - 1] = Cell(msg[w], j)
    OBVIOUS
  <2>1. pos + j - 1 \in pos .. pos + n - 1 /\ (pos + j - 1) - pos + 1 = j
    BY <1>5, <1>6
  <2> QED
    BY <1>7, <2>1
<1>10. LogTypes'
  <2>1. sb_buf'[c][b] \in [Memory -> CellSet]
    <3>1. \A i \in pos .. pos + n - 1 : Cell(msg[w], i - pos + 1) \in CellSet
      <4> SUFFICES ASSUME NEW i \in pos .. pos + n - 1 PROVE Cell(msg[w], i - pos + 1) \in CellSet
        OBVIOUS
      <4>1. i - pos + 1 \in Nat /\ msg[w] \in Nat
        BY <1>5, <1>6
      <4> QED
        BY <4>1 DEF Cell, CellSet
    <3>2. \A i \in Memory : sb_buf[c][b][i] \in CellSet
      BY <1>3, <1>5, <1>6 DEF LogTypes
    <3> QED
      BY <1>7, <3>1, <3>2
  <2>2. sb_buf'[c] = [sb_buf[c] EXCEPT ![b] = sb_buf'[c][b]] /\ sb_buf' = [sb_buf EXCEPT ![c] = sb_buf'[c]]
    BY <1>3, <1>4, <1>5, <1>6 DEF LogTypes
  <2>3. sb_buf' \in [Cpu -> [Buffers -> [Memory -> CellSet]]]
    <3>1. sb_buf \in [Cpu -> [Buffers -> [Memory -> CellSet]]]
      BY <1>3 DEF LogTypes
    <3>2. sb_buf[c] \in [Buffers -> [Memory -> CellSet]]
      BY <1>5, <3>1
    <3>3. sb_buf'[c] \in [Buffers -> [Memory -> CellSet]]
      BY <2>1, <2>2, <3>2
    <3> QED
      BY <2>2, <3>1, <3>3
  <2> QED
    BY <1>2, <1>3, <2>3 DEF LogTypes
<1>11. MessagesStay
  BY <1>2, <1>5 DEF MessagesStay
<1>12. \A v \in Writer : step'[v] \in {"checked", "copied"} <=> step[v] \in {"checked", "copied"}
  BY <1>2, <1>3 DEF Types
<1>13. \A v \in Writer, d \in Cpu : IsWithin(v, d)' = IsWithin(v, d)
  BY <1>2, <1>12 DEF IsWithin
<1>14. \A d \in Cpu : WritersStay(d) /\ Cleared(d)' = Cleared(d) /\ (d # c => Untouched(d))
  BY <1>2, <1>7, <1>13 DEF WritersStay, Cleared, Untouched
<1>15. Opened'
  <2>1. \A v \in Writer : step'[v] # "idle" <=> step[v] # "idle"
    BY <1>2, <1>3 DEF Types
  <2> QED
    BY <1>2, <1>3, <1>12, <1>14, <2>1 DEF Opened
\* Of an intact log the two places are the same, at the end of the active buffer.
<1>16. intact[c] => /\ b = active[c] /\ pos = offset[c][active[c]] /\ pos + n < BufSize
                    /\ b = place[w].buf /\ pos = place[w].pos
                    /\ \A a \in Buffers : offset[c][a] < BufSize
  <2>1. NoOverrun
    BY DEF CInv, IInv
  <2>2. intact[c] => place[w].buf = active[c] /\ place[w].pos = offset[c][active[c]]
                     /\ place[w].pos + Length(msg[w]) < BufSize
                     /\ \A a \in Buffers : offset[c][a] < BufSize
    BY <1>5, <2>1 DEF NoOverrun, IsWithin
  <2> QED
    BY <1>1, <1>4, <2>2
<1>17. Copied'
  <2> SUFFICES ASSUME NEW d \in Cpu, NEW v \in Writer PROVE CopiedOk(v, d)'
    BY DEF Copied
  <2>1. CASE d # c /\ v # w
    <3>1. step'[v] = step[v]
      BY <1>2, <1>3, <2>1 DEF Types
    <3> QED
      BY <1>2, <1>11, <1>14, <2>1, <3>1, CopiedKept
  <2>2. CASE d # c /\ v = w
    <3>1. ~IsWithin(v, d)'
      BY <1>1, <1>2, <2>2 DEF IsWithin
    <3> QED
      BY <3>1 DEF CopiedOk
  <2>3. CASE d = c /\ v # w
    <3>1. intact'[c] => ~IsWithin(v, c)'
      BY <1>2, <1>5, <1>13, <2>3 DEF CInv, IInv, Alone
    <3> QED
      BY <2>3, <3>1 DEF CopiedOk
  <2>4. CASE d = c /\ v = w
    <3> SUFFICES ASSUME intact[c]
                 PROVE  \A j \in 1 .. n : sb_buf'[c][place[w].buf][place[w].pos + j - 1] = Cell(msg[w], j)
      BY <1>1, <1>2, <2>4 DEF CopiedOk, Length
    <3>1. \A j \in 1 .. n : pos + j - 1 \in Memory
      BY <1>5, <1>6, <1>16, MoreSizes
    <3> QED
      BY <1>9, <1>16, <3>1
  <2> QED
    BY <2>1, <2>2, <2>3, <2>4
<1>18. Len(logged[c]) \in Nat /\ SameSizes(sent', sent, logged'[c], logged[c], 0, Len(logged[c]))
       /\ Sized(sent, logged[c], 0, Len(logged[c]))
  BY <1>2, <1>5, <1>11, LogSizes
<1>19. ~ring /\ PlainOk(c) => PlainOk(c)'
  <2> SUFFICES ASSUME ~ring, PlainOk(c) PROVE PlainOk(c)'
    OBVIOUS
  <2>1. PICK end \in Nat : PlainEnd(c, end)
    BY DEF PlainOk
  <2>2. 1 <= end /\ end < BufSize /\ end <= offset[c][0] /\ end <= pos
    <3>1. active[c] = 0
      BY <1>5 DEF CInv, IInv, SecondUnused
    <3>2. place[w].pos >= end /\ 1 <= end /\ end < BufSize /\ end <= offset[c][0]
      BY <1>5, <2>1 DEF PlainEnd
    <3>3. offset[c][0] \in Nat
      BY <1>3, <1>5, MoreSizes DEF Types
    <3> QED
      BY <1>4, <1>6, <3>1, <3>2, <3>3
  <2>3. \A i \in 0 .. end - 1 : sb_buf'[c][0][i] = sb_buf[c][0][i]
    <3> SUFFICES ASSUME NEW i \in 0 .. end - 1 PROVE sb_buf'[c][0][i] = sb_buf[c][0][i]
      OBVIOUS
    <3>1. i \in Memory /\ i < pos
      BY <1>6, <2>2, MoreSizes
    <3>2. CASE b = 0
      BY <1>8, <3>1, <3>2
    <3>3. CASE b # 0
      BY <1>7, <3>3, MoreSizes
    <3> QED
      BY <3>2, <3>3
  <2>4. SameCells(sb_buf'[c][0], sb_buf[c][0], 1, end) /\ sb_buf'[c][0][0] = sb_buf[c][0][0]
    BY <2>2, <2>3 DEF SameCells
  <2>5. Laid(sent, sb_buf[c][0], logged[c], 0, Len(logged[c]), 1, end)
    BY <2>1 DEF PlainEnd
  <2>6. Laid(sent', sb_buf'[c][0], logged'[c], 0, Len(logged[c]), 1, end)
    BY <1>18, <2>4, <2>5, LaidKept
  <2>7. PlainEnd(c, end)'
    <3>1. /\ 1 <= end /\ end < BufSize /\ end <= offset'[c][0]
          /\ sb_buf'[c][0][0] = Version /\ (intact'[c] => end = offset'[c][0])
      BY <1>2, <2>1, <2>4 DEF PlainEnd
    <3>2. \A v \in Writer : IsWithin(v, c)' => place'[v].pos >= end
      BY <1>2, <1>5, <1>13, <2>1 DEF PlainEnd
    <3>3. Laid(sent', sb_buf'[c][0], logged'[c], 0, Len(logged'[c]), 1, end)
      BY <1>2, <2>6
    <3> QED
      BY <3>1, <3>2, <3>3 DEF PlainEnd
  <2> QED
    BY <2>7 DEF PlainOk
<1>20. ring /\ intact[c] /\ RingOk(c) => RingOk(c)'
  <2> SUFFICES ASSUME ring, intact[c], RingOk(c) PROVE RingOk(c)'
    OBVIOUS
  <2>1. PICK k, j, p, q \in Nat : RingParts(c, k, j, p, q)
    BY DEF RingOk
  <2>2. PICK m, older, newer : m = Len(logged[c]) /\ older = Other(c) /\ newer = active[c]
    OBVIOUS
  <2>3. /\ older \in Buffers /\ newer \in Buffers /\ older # newer
        /\ offset[c][older] \in Nat /\ offset[c][newer] \in Nat
    BY <1>3, <1>5, <2>2, OffsetFacts
  <2>4. m \in Nat /\ k <= j /\ j <= m
    BY <1>18, <2>1, <2>2 DEF RingParts
  <2>5. \A a \in Buffers : SameCells(sb_buf'[c][a], sb_buf[c][a], 0, offset[c][a])
    <3> SUFFICES ASSUME NEW a \in Buffers, NEW i \in 0 .. offset[c][a] - 1
                 PROVE  sb_buf'[c][a][i] = sb_buf[c][a][i]
      BY DEF SameCells
    <3>1. CASE a = b
      <4>1. i \in Memory /\ i < pos
        <5>1. offset[c][a] \in Nat /\ offset[c][a] < BufSize
          BY <1>3, <1>5, <1>16 DEF Types
        <5> QED
          BY <1>16, <3>1, <5>1, MoreSizes
      <4> QED
        BY <1>8, <3>1, <4>1
    <3>2. CASE a # b
      BY <1>7, <3>2
    <3> QED
      BY <3>1, <3>2
  <2>6. ASSUME NEW a \in Buffers, NEW lo \in Nat, NEW hi \in Nat, lo <= hi, hi <= m, NEW from,
               HasPart(c, a, lo, hi, from)
        PROVE  HasPart(c, a, lo, hi, from)'
    <3>1. offset[c][a] \in Nat /\ offset'[c][a] = offset[c][a]
      BY <1>2, <1>3, <1>5 DEF Types
    <3>2. from = 1 => sb_buf'[c][a][0] = sb_buf[c][a][0]
      <4> SUFFICES ASSUME from = 1 PROVE sb_buf'[c][a][0] = sb_buf[c][a][0]
        OBVIOUS
      <4>1. PICK at : Placed(at, sent, sb_buf[c][a], logged[c], lo, hi, 1, offset[c][a])
        BY <2>6 DEF HasPart, Laid
      <4>2. 1 <= at[lo] /\ at[lo] <= offset[c][a] /\ at[lo] \in Nat
        BY <2>6, <4>1 DEF Placed
      <4>3. 0 \in 0 .. offset[c][a] - 1
        BY <3>1, <4>2
      <4> QED
        BY <2>5, <4>3 DEF SameCells
    <3>3. SameSizes(sent', sent, logged'[c], logged[c], lo, hi) /\ Sized(sent, logged[c], lo, hi)
      BY <1>18, <2>2, <2>4, <2>6, Parts
    <3> QED
      BY <1>5, <2>5, <2>6, <3>1, <3>2, <3>3, PartKept
  <2>7. HasPart(c, older, k, j, p)'
    BY <2>1, <2>2, <2>3, <2>4, <2>6 DEF RingParts
  <2>8. HasPart(c, newer, j, m, q)'
    BY <2>1, <2>2, <2>3, <2>4, <2>6 DEF RingParts
  <2>9. Other(c)' = older /\ active'[c] = newer /\ Len(logged'[c]) = m /\ offset' = offset
    BY <1>2, <2>2 DEF Other
  <2>10. RingParts(c, k, j, p, q)'
    BY <2>1, <2>2, <2>4, <2>7, <2>8, <2>9 DEF RingParts
  <2> QED
    BY <2>10 DEF RingOk
<1>21. ASSUME NEW d \in Cpu PROVE LogOk(d)'
  <2>1. LogOk(d)
    BY DEF CInv, LogInv
  <2>2. CASE d = c
    BY <1>2, <1>14, <1>19, <1>20, <2>1, <2>2 DEF LogOk
  <2>3. CASE d # c
    BY <1>2, <1>11, <1>14, <2>3, LogKept
  <2> QED
    BY <2>2, <2>3
<1> QED
  BY <1>10, <1>15, <1>17, <1>21 DEF LogInv

\* The addition logs the message that is copied behind the others.
LEMMA AddLog ==
  ASSUME CInv, IInv', NEW w \in Writer, Add(w)
  PROVE  LogInv'
<1>1. PICK c, n, m : c = place[w].cpu /\ m = msg[w] /\ n = Length(m)
  OBVIOUS
<1>2. PICK longer, switch :
        /\ longer = [offset[c] EXCEPT ![active[c]] = @ + n]
        /\ switch = (ring /\ longer[active[c]] >= Trigger)
  OBVIOUS
<1>3. /\ step[w] = "copied"
      /\ step' = [step EXCEPT ![w] = "idle"]
      /\ active' = [active EXCEPT ![c] = IF switch THEN OtherOf(active[c]) ELSE @]
      /\ offset' = [offset EXCEPT ![c] = IF switch THEN Anew(longer, OtherOf(active[c])) ELSE longer]
      /\ logged' = [logged EXCEPT ![c] = IF intact[c] THEN Append(@, m) ELSE @]
      /\ msg' = [msg EXCEPT ![w] = 0]
      /\ place' = [place EXCEPT ![w] = Nowhere]
      /\ UNCHANGED <<ring, sb_buf, trace_active, toReset, starts, sent, intact>>
  BY <1>1, <1>2 DEF Add, Goes
<1>4. LogTypes /\ Opened /\ Types
  BY DEF CInv, LogInv, IInv
<1>5. c \in Cpu /\ IsWithin(w, c) /\ m \in 1 .. Len(sent) /\ n \in Nat /\ n >= 1 /\ Len(sent) \in Nat
  <2>1. c \in Cpu /\ IsWithin(w, c)
    BY <1>1, <1>3 DEF CInv, IInv, HasPlace, IsWithin
  <2>2. m \in 1 .. Len(sent) /\ Len(sent) \in Nat
    <3>1. step[w] # "idle"
      BY <1>3
    <3>2. m \in 1 .. Len(sent)
      BY <1>1, <3>1 DEF CInv, IInv, HasMessage
    <3>3. sent \in Seq(Messages)
      BY <1>4 DEF Types
    <3> QED
      BY <3>2, <3>3
  <2> QED
    BY <1>1, <1>4, <2>1, <2>2 DEF LogTypes, Length
<1>6. /\ \A d \in Cpu : d # c => active'[d] = active[d] /\ offset'[d] = offset[d] /\ logged'[d] = logged[d]
      /\ active'[c] = IF switch THEN OtherOf(active[c]) ELSE active[c]
      /\ offset'[c] = IF switch THEN Anew(longer, OtherOf(active[c])) ELSE longer
      /\ logged'[c] = IF intact[c] THEN Append(logged[c], m) ELSE logged[c]
  BY <1>3, <1>4, <1>5 DEF Types, LogTypes
<1>7. PICK len : len = Len(logged[c]) /\ len \in Nat
  <2>1. logged[c] \in Seq(Nat)
    BY <1>4, <1>5 DEF LogTypes
  <2> QED
    BY <2>1
<1>8. intact[c] => /\ logged'[c] \in Seq(Nat) /\ Len(logged'[c]) = len + 1
                   /\ logged'[c][len + 1] = m
                   /\ \A i \in 1 .. len : logged'[c][i] = logged[c][i]
  BY <1>4, <1>5, <1>6, <1>7 DEF LogTypes
<1>9. LogTypes'
  <2>1. logged' \in [Cpu -> Seq(Nat)]
    <3>1. logged \in [Cpu -> Seq(Nat)] /\ logged' = [logged EXCEPT ![c] = logged'[c]]
      BY <1>3, <1>4, <1>5 DEF LogTypes
    <3>2. logged'[c] \in Seq(Nat)
      BY <1>4, <1>5, <1>6, <1>8 DEF LogTypes
    <3> QED
      BY <3>1, <3>2
  <2>2. ASSUME NEW d \in Cpu, NEW i \in 1 .. Len(logged'[d]) PROVE logged'[d][i] \in 1 .. Len(sent)
    <3>1. CASE d = c /\ intact[c]
      <4>1. CASE i = len + 1
        BY <1>5, <1>8, <3>1, <4>1
      <4>2. CASE i # len + 1
        <5>1. i \in 1 .. len
          BY <1>7, <1>8, <3>1, <4>2
        <5> QED
          BY <1>4, <1>5, <1>7, <1>8, <3>1, <5>1 DEF LogTypes
      <4> QED
        BY <4>1, <4>2
    <3>2. CASE ~(d = c /\ intact[c])
      BY <1>4, <1>6, <3>2 DEF LogTypes
    <3> QED
      BY <3>1, <3>2
  <2> QED
    BY <1>3, <1>4, <2>1, <2>2 DEF LogTypes
<1>10. MessagesStay
  BY <1>3, <1>5 DEF MessagesStay
<1>11. \A v \in Writer : step'[v] # "idle" =>
         v # w /\ step'[v] = step[v] /\ place'[v] = place[v] /\ msg'[v] = msg[v]
  BY <1>3, <1>4 DEF Types
<1>12. \A v \in Writer, d \in Cpu : IsWithin(v, d)' => IsWithin(v, d) /\ v # w /\ place'[v] = place[v]
  BY <1>11 DEF IsWithin
<1>13. \A d \in Cpu : WritersStay(d) /\ Cleared(d)' = Cleared(d) /\ (d # c => Untouched(d))
  BY <1>3, <1>6, <1>12 DEF WritersStay, Cleared, Untouched
<1>14. intact[c] => \A v \in Writer : ~IsWithin(v, c)'
  BY <1>5, <1>12 DEF CInv, IInv, Alone
<1>15. /\ longer \in [Buffers -> Nat] /\ active[c] \in Buffers /\ offset[c] \in [Buffers -> Nat]
       /\ longer[active[c]] = offset[c][active[c]] + n
       /\ \A b \in Buffers : b # active[c] => longer[b] = offset[c][b]
  <2>1. active[c] \in Buffers /\ offset[c] \in [Buffers -> Nat]
    BY <1>4, <1>5 DEF Types
  <2> QED
    BY <1>2, <1>5, <2>1
<1>16. ~ring => active[c] = 0 /\ active'[c] = 0 /\ offset'[c][0] = offset[c][0] + n
  <2>1. ~ring => active[c] = 0
    BY <1>5 DEF CInv, IInv, SecondUnused
  <2> QED
    BY <1>2, <1>6, <1>15, <2>1
<1>17. Opened'
  <2>1. ASSUME ~ring, NEW d \in Cpu, Cleared(d)' \/ (\E v \in Writer : step'[v] # "idle")
        PROVE  offset'[d][0] >= 1
    <3>1. Cleared(d) \/ \E v \in Writer : step[v] # "idle"
      BY <1>11, <1>13, <2>1
    <3>2. offset[d][0] >= 1
      BY <1>4, <2>1, <3>1 DEF Opened
    <3>3. CASE d = c
      BY <1>5, <1>15, <1>16, <2>1, <3>2, <3>3, MoreSizes
    <3>4. CASE d # c
      BY <1>6, <3>2, <3>4
    <3> QED
      BY <3>3, <3>4
  <2>2. ~ring => \A v \in Writer : step'[v] \in {"checked", "copied"} => place'[v].pos >= 1
    BY <1>4, <1>11 DEF Opened
  <2> QED
    BY <1>3, <1>4, <2>1, <2>2 DEF Opened
<1>18. Copied'
  <2> SUFFICES ASSUME NEW d \in Cpu, NEW v \in Writer PROVE CopiedOk(v, d)'
    BY DEF Copied
  <2>1. CASE d # c
    <3>1. step'[v] = "copied" => step[v] = "copied" /\ place'[v] = place[v] /\ msg'[v] = msg[v]
      BY <1>11
    <3> QED
      BY <1>10, <1>13, <2>1, <3>1, CopiedKept
  <2>2. CASE d = c
    BY <1>3, <1>14, <2>2 DEF CopiedOk
  <2> QED
    BY <2>1, <2>2
\* The cells of the message
<1>19. intact[c] => /\ \A j \in 1 .. n : sb_buf[c][active[c]][offset[c][active[c]] + j - 1] = Cell(m, j)
                    /\ sent[logged'[c][len + 1]].size = n /\ logged'[c][len + 1] = m
  <2>1. intact[c] => place[w].buf = active[c] /\ place[w].pos = offset[c][active[c]]
    BY <1>5 DEF CInv, IInv, NoOverrun, IsWithin
  <2>2. CopiedOk(w, c)
    BY <1>5 DEF CInv, LogInv, Copied
  <2> QED
    BY ZenonT(30), <1>1, <1>3, <1>5, <1>8, <2>1, <2>2 DEF CopiedOk, Length
<1>20. intact[c] => SameSizes(sent', sent, logged'[c], logged[c], 0, len)
  <2>1. sent' = sent /\ \A i \in 0 + 1 .. len : i \in 1 .. len
    BY <1>3
  <2> QED
    BY <1>8, <2>1 DEF SameSizes
<1>21. Sized(sent, logged[c], 0, len)
  <2>1. \A i \in 1 .. len : logged[c][i] \in 1 .. Len(sent)
    BY <1>4, <1>5, <1>7 DEF LogTypes
  <2> QED
    BY <1>4, <2>1 DEF LogTypes, Sized
<1>22. ASSUME intact[c], NEW lo \in Nat, lo <= len, NEW from \in Nat,
              Laid(sent, sb_buf[c][active[c]], logged[c], lo, len, from, offset[c][active[c]])
       PROVE  Laid(sent', sb_buf'[c][active[c]], logged'[c], lo, len + 1, from, offset[c][active[c]] + n)
  <2>1. PICK a, to : a = active[c] /\ to = offset[c][a] /\ to \in Nat
    BY <1>15
  <2>2. SameCells(sb_buf'[c][a], sb_buf[c][a], from, to)
    BY <1>3 DEF SameCells
  <2>3. SameSizes(sent', sent, logged'[c], logged[c], lo, len) /\ Sized(sent, logged[c], lo, len)
    BY <1>7, <1>20, <1>21, <1>22, Parts
  <2>4. Laid(sent', sb_buf'[c][a], logged'[c], lo, len, from, to)
    BY <1>7, <1>22, <2>1, <2>2, <2>3, LaidKept
  <2>5. \A j \in 1 .. n : sb_buf'[c][a][to + j - 1] = Cell(logged'[c][len + 1], j)
    BY <1>3, <1>19, <1>22, <2>1
  <2>6. n = sent'[logged'[c][len + 1]].size
    BY <1>3, <1>19, <1>22
  <2>7. Laid(sent', sb_buf'[c][a], logged'[c], lo, len + 1, from, to + n)
    BY <1>5, <1>7, <1>22, <2>1, <2>4, <2>5, <2>6, LaidMore
  <2> QED
    BY <2>1, <2>7
<1>23. ~ring /\ PlainOk(c) => PlainOk(c)'
  <2> SUFFICES ASSUME ~ring, PlainOk(c) PROVE PlainOk(c)'
    OBVIOUS
  <2>1. PICK end \in Nat : PlainEnd(c, end)
    BY DEF PlainOk
  <2>2. CASE intact[c]
    <3>1. /\ 1 <= end /\ end = offset[c][0] /\ sb_buf[c][0][0] = Version
          /\ Laid(sent, sb_buf[c][0], logged[c], 0, len, 1, end)
      BY <1>7, <2>1, <2>2 DEF PlainEnd
    <3>2. Laid(sent', sb_buf'[c][0], logged'[c], 0, len + 1, 1, end + n)
      BY <1>7, <1>16, <1>22, <2>2, <3>1
    <3>3. offset'[c][0] = end + n /\ offset'[c][0] < BufSize
      <4>1. NoOverrun'
        BY DEF IInv
      <4>2. offset'[c][0] < BufSize
        BY <1>3, <1>5, <2>2, <4>1, MoreSizes DEF NoOverrun
      <4> QED
        BY <1>16, <3>1, <4>2
    <3>4. end + n \in Nat /\ 1 <= end + n
      BY <1>5, <3>1
    <3>5. PlainEnd(c, end + n)'
      BY <1>3, <1>8, <1>14, <2>2, <3>1, <3>2, <3>3, <3>4 DEF PlainEnd
    <3> QED
      BY <3>4, <3>5 DEF PlainOk
  <2>3. CASE ~intact[c]
    <3>1. /\ 1 <= end /\ end < BufSize /\ end <= offset[c][0] /\ sb_buf[c][0][0] = Version
          /\ Laid(sent, sb_buf[c][0], logged[c], 0, Len(logged[c]), 1, end)
      BY <2>1 DEF PlainEnd
    <3>2. logged'[c] = logged[c]
      BY <1>6, <2>3
    <3>3. end <= offset'[c][0]
      BY <1>5, <1>15, <1>16, <3>1, MoreSizes
    <3>4. \A v \in Writer : IsWithin(v, c)' => place'[v].pos >= end
      <4>1. \A v \in Writer : IsWithin(v, c) => place[v].pos >= end
        BY <2>1 DEF PlainEnd
      <4> QED
        BY <1>5, <1>12, <4>1
    <3>5. PlainEnd(c, end)'
      BY <1>3, <2>3, <3>1, <3>2, <3>3, <3>4 DEF PlainEnd
    <3> QED
      BY <3>5 DEF PlainOk
  <2> QED
    BY <2>2, <2>3
<1>24. ring /\ intact[c] /\ RingOk(c) => RingOk(c)'
  <2> SUFFICES ASSUME ring, intact[c], RingOk(c) PROVE RingOk(c)'
    OBVIOUS
  <2>1. PICK k, j, p, q \in Nat : RingParts(c, k, j, p, q)
    BY DEF RingOk
  <2>2. PICK older, newer : older = Other(c) /\ newer = active[c]
    OBVIOUS
  <2>3. /\ older \in Buffers /\ newer \in Buffers /\ older # newer /\ older = OtherOf(newer)
        /\ newer = OtherOf(older)
    BY <1>15, <2>2, MoreSizes DEF Other, OtherOf
  <2>4. PICK oldEnd, newEnd \in Nat : oldEnd = offset[c][older] /\ newEnd = offset[c][newer]
    BY <1>15, <2>3
  <2>5. /\ k <= j /\ j <= len /\ HasPart(c, older, k, j, p) /\ HasPart(c, newer, j, len, q)
        /\ (k = 0 \/ (oldEnd - p) + (newEnd - q) >= Trigger - 1)
    BY <1>7, <2>1, <2>2, <2>4 DEF RingParts
  <2>6. /\ q \in {0, 1} /\ (q = 1 => sb_buf'[c][newer][0] = Version)
        /\ Laid(sent', sb_buf'[c][newer], logged'[c], j, len + 1, q, newEnd + n)
    <3>1. /\ q \in {0, 1} /\ (q = 1 => sb_buf[c][newer][0] = Version)
          /\ Laid(sent, sb_buf[c][newer], logged[c], j, len, q, newEnd)
      BY <2>4, <2>5 DEF HasPart
    <3>2. Laid(sent', sb_buf'[c][newer], logged'[c], j, len + 1, q, newEnd + n)
      BY <1>22, <2>2, <2>4, <2>5, <3>1
    <3> QED
      BY <1>3, <3>1, <3>2
  <2>7. CASE switch
    <3>1. /\ active'[c] = older /\ Other(c)' = newer
          /\ offset'[c][older] = 0 /\ offset'[c][newer] = newEnd + n
          /\ newEnd + n >= Trigger
      <4>1. active'[c] = older /\ offset'[c] = [longer EXCEPT ![older] = 0]
        BY <1>6, <2>2, <2>3, <2>7 DEF Anew
      <4>2. longer[newer] = newEnd + n
        BY <1>15, <2>2, <2>4
      <4>3. newEnd + n >= Trigger
        BY <1>2, <2>2, <2>7, <4>2
      <4>4. Other(c)' = newer
        BY <2>3, <4>1 DEF Other, OtherOf
      <4> QED
        BY ZenonT(30), <1>15, <2>3, <4>1, <4>2, <4>3, <4>4
    <3>2. HasPart(c, newer, j, len + 1, q)'
      BY <2>6, <3>1 DEF HasPart
    <3>3. HasPart(c, older, len + 1, len + 1, 0)'
      <4>1. Laid(sent', sb_buf'[c][older], logged'[c], len + 1, len + 1, 0, 0)
        BY <1>7, LaidNone
      <4> QED
        BY <3>1, <4>1 DEF HasPart
    <3>4. RingParts(c, j, len + 1, q, 0)'
      <4>1. (newEnd + n - q) + (0 - 0) >= Trigger - 1
        BY <1>5, <2>4, <2>6, <3>1, MoreSizes
      <4>2. j <= len + 1 /\ len + 1 <= Len(logged'[c]) /\ Len(logged'[c]) = len + 1
        BY <1>7, <1>8, <2>5
      <4>3. HasPart(c, Other(c), j, len + 1, q)' /\ HasPart(c, active[c], len + 1, Len(logged[c]), 0)'
        BY <3>1, <3>2, <3>3, <4>2
      <4>4. (offset'[c][Other(c)'] - q) + (offset'[c][active'[c]] - 0) >= Trigger - 1
        <5>1. PICK x, y \in Nat : x = offset'[c][Other(c)'] /\ y = offset'[c][active'[c]]
                                  /\ x = newEnd + n /\ y = 0
          BY <1>5, <3>1
        <5>2. (x - q) + (y - 0) >= Trigger - 1
          <6>1. n \in Nat /\ Trigger \in Nat /\ newEnd \in Nat
            BY <1>5, <2>4, MoreSizes
          <6> QED
            BY <4>1, <5>1, <6>1
        <5> QED
          BY <5>1, <5>2, Zenon
      <4> QED
        BY <4>2, <4>3, <4>4 DEF RingParts
    <3>5. len + 1 \in Nat /\ 0 \in Nat
      BY <1>7
    <3> QED
      BY <3>4, <3>5 DEF RingOk
  <2>8. CASE ~switch
    <3>1. /\ active'[c] = newer /\ Other(c)' = older
          /\ offset'[c][older] = oldEnd /\ offset'[c][newer] = newEnd + n
      <4>1. active'[c] = newer /\ offset'[c] = longer
        BY <1>6, <2>2, <2>8
      <4> QED
        BY <1>15, <2>2, <2>3, <2>4, <4>1 DEF Other
    <3>2. HasPart(c, newer, j, len + 1, q)'
      BY <2>6, <3>1 DEF HasPart
    <3>3. HasPart(c, older, k, j, p)'
      <4>1. SameSizes(sent', sent, logged'[c], logged[c], k, j) /\ Sized(sent, logged[c], k, j)
        BY <1>7, <1>20, <1>21, <2>5, Parts
      <4>2. SameCells(sb_buf'[c][older], sb_buf[c][older], 0, offset[c][older]) /\ sb_buf' = sb_buf
        BY <1>3 DEF SameCells
      <4> QED
        BY <1>5, <2>3, <2>4, <2>5, <3>1, <4>1, <4>2, PartKept
    <3>4. RingParts(c, k, j, p, q)'
      <4>1. k = 0 \/ (oldEnd - p) + (newEnd + n - q) >= Trigger - 1
        <5>1. n \in Nat /\ Trigger \in Nat
          BY <1>5, MoreSizes
        <5>2. k = 0 \/ (oldEnd - p) + (newEnd - q) >= Trigger - 1
          BY <2>5
        <5> QED
          BY <5>1, <5>2
      <4>2. k <= j /\ j <= Len(logged'[c]) /\ Len(logged'[c]) = len + 1
        BY <1>7, <1>8, <2>5
      <4>3. HasPart(c, Other(c), k, j, p)' /\ HasPart(c, active[c], j, Len(logged[c]), q)'
        BY <3>1, <3>2, <3>3, <4>2
      <4>4. k = 0 \/ (offset'[c][Other(c)'] - p) + (offset'[c][active'[c]] - q) >= Trigger - 1
        <5>1. PICK x, y \in Nat : x = offset'[c][Other(c)'] /\ y = offset'[c][active'[c]]
                                  /\ x = oldEnd /\ y = newEnd + n
          <6>1. oldEnd \in Nat /\ newEnd + n \in Nat
            BY <1>5, <2>4
          <6> QED
            BY <3>1, <6>1
        <5>2. k = 0 \/ (x - p) + (y - q) >= Trigger - 1
          <6>1. n \in Nat /\ Trigger \in Nat /\ newEnd \in Nat
            BY <1>5, <2>4, MoreSizes
          <6> QED
            BY <4>1, <5>1, <6>1
        <5> QED
          BY <5>1, <5>2, Zenon
      <4> QED
        BY <4>2, <4>3, <4>4 DEF RingParts
    <3> QED
      BY <3>4 DEF RingOk
  <2> QED
    BY <2>7, <2>8
<1>25. ASSUME NEW d \in Cpu PROVE LogOk(d)'
  <2>1. LogOk(d)
    BY DEF CInv, LogInv
  <2>2. CASE d = c
    BY <1>3, <1>13, <1>23, <1>24, <2>1, <2>2 DEF LogOk
  <2>3. CASE d # c
    BY <1>3, <1>10, <1>13, <2>3, LogKept
  <2> QED
    BY <2>2, <2>3
<1> QED
  BY <1>9, <1>17, <1>18, <1>25 DEF LogInv

LEMMA LogPreserved == CInv /\ [Next]_vars => CInv'
<1> SUFFICES ASSUME CInv, [Next]_vars PROVE CInv'
  OBVIOUS
<1>1. IInv'
  BY Preserved DEF CInv
<1>2. CASE UNCHANGED vars
  <2>1. UNCHANGED <<ring, active, offset, sb_buf, sent, step, msg, place, logged, intact>>
        /\ UNCHANGED <<trace_active, toReset, starts>>
    BY <1>2 DEF vars, infoVars, writerVars, historyVars
  <2>2. trace_active' \in BOOLEAN /\ toReset' \subseteq Cpu /\ starts' \in Nat
    BY <2>1 DEF CInv, LogInv, LogTypes
  <2>3. \A c \in Cpu : Cleared(c)' = Cleared(c)
    BY <2>1 DEF Cleared
  <2>4. Opened'
    BY <2>1, <2>3 DEF CInv, LogInv, Opened
  <2>5. LogInv'
    BY <1>1, <2>1, <2>2, <2>3, <2>4, StillLog
  <2> QED
    BY <1>1, <2>5 DEF CInv
<1>3. CASE Next
  <2>1. LogInv'
    BY <1>1, <1>3, StartLog, StopLog, ResetLog, SendLog, CheckLog, DropLog, CopyLog, AddLog DEF Next
  <2> QED
    BY <1>1, <2>1 DEF CInv
<1> QED
  BY <1>2, <1>3

\* The cells of the buffers are those of the messages sb_trace logged: no later
\* step, of whichever writer or of a reset, moves or hurts them.
THEOREM ContentInvariance == Spec => []CInv
<1>1. Init => CInv
  BY InitIInv, InitLogInv DEF CInv
<1> QED
  BY <1>1, LogPreserved, PTL DEF Spec

-----------------------------------------------------------------------------
(* What a parser finds *)

\* Sequences that have the same elements are the same.
LEMMA SameSequence ==
  ASSUME NEW S, NEW T, NEW s \in Seq(S), NEW t \in Seq(T), NEW n \in Nat, Len(s) = n, Len(t) = n,
         \A i \in 1 .. n : s[i] = t[i]
  PROVE  s = t
<1>1. s = [i \in 1 .. n |-> s[i]]
  OBVIOUS
<1>2. t = [i \in 1 .. n |-> t[i]]
  OBVIOUS
<1> QED
  BY <1>1, <1>2

\* A function on 1 .. n is a sequence.
LEMMA IsSequence ==
  ASSUME NEW n \in Nat, NEW s, s = [i \in 1 .. n |-> s[i]]
  PROVE  s \in Seq({s[i] : i \in 1 .. n}) /\ Len(s) = n
<1> DEFINE V == {s[i] : i \in 1 .. n}
<1>1. s \in [1 .. n -> V]
  OBVIOUS
<1> HIDE DEF V
<1>2. s \in Seq(V) /\ Len(s) = n
  BY <1>1
<1> QED
  BY <1>2 DEF V

\* The found messages begin with the first r of a log.
Begins(found, log, r) == Len(found) >= r /\ \A i \in 1 .. r : found[i] = log[i]

\* A message is added, or there is none.
LEMMA ParseIs ==
  ASSUME NEW file, NEW v
  PROVE  \/ ParseMessage(file, v) = v
         \/ /\ v.at \in 1 .. Len(file)
            /\ \E m \in {file[v.at].of, Torn} :
                 ParseMessage(file, v) = [at |-> v.at + Length(file[v.at].of), found |-> Append(v.found, m)]
BY DEF ParseMessage

\* A message that is there as a whole is found.
LEMMA ParseWhole ==
  ASSUME NEW file, NEW v, v.at \in 1 .. Len(file), IsHead(file[v.at]),
         v.at + Length(file[v.at].of) <= Len(file) + 1, Whole(file, v.at, file[v.at].of)
  PROVE  ParseMessage(file, v) = [at |-> v.at + Length(file[v.at].of),
                                  found |-> Append(v.found, file[v.at].of)]
BY DEF ParseMessage

\* Positions in a piece of s cells behind the a-th.
LEMMA Positions ==
  ASSUME NEW a \in Nat, NEW s \in Nat, NEW N \in Nat, a + s <= N
  PROVE  /\ \A j \in 1 .. s : (a + 1) + j - 1 \in 1 .. N /\ ((a + 1) + j - 1) - 1 = a + j - 1
         /\ (a + 1) + s = (a + s) + 1
OBVIOUS

\* An element more
LEMMA AppendIs ==
  ASSUME NEW F, NEW found \in Seq(F), NEW m \in F
  PROVE  /\ Append(found, m) \in Seq(F)
         /\ Len(found) \in Nat /\ Len(Append(found, m)) = Len(found) + 1
         /\ Append(found, m)[Len(found) + 1] = m
         /\ \A j \in 1 .. Len(found) : Append(found, m)[j] = found[j]
OBVIOUS

\* A log has messages that were sent.
IsLog(log) == \A i \in 1 .. Len(log) : log[i] \in 1 .. Len(sent)

Found(messages, log, all) ==
  \E F : /\ messages \in Seq(F)
         /\ Begins(messages, log, Len(log))
         /\ all => Len(messages) = Len(log)

\* A parser finds the messages that lie behind the version string, and more only
\* if something is left behind them; else it comes to the end of the file.
LEMMA ParserFinds ==
  ASSUME LogTypes, NEW cells, NEW N \in Nat, NEW file, file = [i \in 1 .. N |-> cells[i - 1]],
         cells[0] = Version,
         NEW log \in Seq(Nat), IsLog(log),
         NEW end \in Nat, end <= N, Laid(sent, cells, log, 0, Len(log), 1, end)
  PROVE  /\ Found(Parsed(file), log, end = N)
         /\ end = N => ParsedTo(file).at = Len(file) + 1
<1>1. PICK n : n = Len(log) /\ n \in Nat
  OBVIOUS
<1>2. PICK at : Placed(at, sent, cells, log, 0, n, 1, end)
  BY <1>1 DEF Laid
<1>3. /\ at \in [0 .. n -> Nat] /\ at[0] = 1 /\ at[n] = end
      /\ \A k \in 0 .. n : 1 <= at[k] /\ at[k] <= end
  BY <1>2 DEF Placed
<1>4. ASSUME NEW k \in 1 .. n
      PROVE  /\ Length(log[k]) \in Nat /\ Length(log[k]) >= 1
             /\ at[k] = at[k - 1] + Length(log[k])
             /\ \A j \in 1 .. Length(log[k]) : cells[at[k - 1] + j - 1] = Cell(log[k], j)
  <2>1. log[k] \in 1 .. Len(sent)
    BY <1>1 DEF IsLog
  <2>2. sent[log[k]].size \in Nat \ {0}
    BY <2>1 DEF LogTypes
  <2>3. k \in 0 + 1 .. n
    OBVIOUS
  <2>4. /\ at[k] = at[k - 1] + sent[log[k]].size
        /\ \A j \in 1 .. sent[log[k]].size : cells[at[k - 1] + j - 1] = Cell(log[k], j)
    BY <1>2, <2>3 DEF Placed
  <2> QED
    BY <2>2, <2>4 DEF Length
<1>5. N >= 1 /\ Len(file) = N /\ \A i \in 1 .. N : file[i] = cells[i - 1]
  <2>1. file = [i \in 1 .. N |-> file[i]]
    OBVIOUS
  <2>2. Len(file) = N
    BY <2>1, IsSequence
  <2>3. 0 \in 0 .. n
    BY <1>1
  <2>4. N >= 1
    BY <1>3, <2>3
  <2> QED
    BY <2>2, <2>4
<1>6. file # <<>> /\ file[1] = Version
  <2>1. file[1] = cells[0]
    BY <1>5
  <2> QED
    BY <1>5, <2>1
<1> DEFINE F == {file[i].of : i \in 1 .. N} \cup {Torn}
           A == {2} \cup {i + Length(file[i].of) : i \in 1 .. N}
           T == [at : A, found : Seq(F)]
           first == [at |-> 2, found |-> <<>>]
           Parses(f) == f = [i \in 0 .. N |-> IF i = 0 THEN first ELSE ParseMessage(file, f[i - 1])]
           state == CHOOSE f : Parses(f)
<1>7. ParsedTo(file) = state[N] /\ Parsed(file) = state[N].found
  <2>1. (IF file # <<>> /\ file[1] = Version THEN 1 ELSE 0) + 1 = 2
    BY <1>6
  <2> QED
    BY <1>5, <1>6, <2>1, Zenon DEF Parsed, ParsedTo
<1>8. first \in T
  <2>1. <<>> \in Seq(F)
    OBVIOUS
  <2> HIDE DEF F
  <2> QED
    BY <2>1
<1>9. ASSUME NEW v \in T PROVE ParseMessage(file, v) \in T
  <2>1. CASE v.at \in 1 .. N
    <3>1. v.found \in Seq(F) /\ file[v.at].of \in F /\ Torn \in F
      BY <2>1
    <3>2. v.at + Length(file[v.at].of) \in A
      BY <2>1
    <3> HIDE DEF F, A
    <3>3. ParseMessage(file, v) = v \/ \E m \in {file[v.at].of, Torn} :
            ParseMessage(file, v) = [at |-> v.at + Length(file[v.at].of), found |-> Append(v.found, m)]
      BY ParseIs
    <3>4. ASSUME NEW m \in F PROVE [at |-> v.at + Length(file[v.at].of), found |-> Append(v.found, m)] \in T
      BY <3>1, <3>2, <3>4
    <3> HIDE DEF T
    <3> QED
      BY <3>1, <3>4, <3>3
  <2>2. CASE v.at \notin 1 .. N
    BY <1>5, <2>2 DEF ParseMessage
  <2> QED
    BY <2>1, <2>2
<1>10. \A v \in T : v.found \in Seq(F)
  OBVIOUS
<1> HIDE DEF F, A, T, first
<1>11. \E f : Parses(f)
  <2> DEFINE turn == [i \in 1 .. N |-> [v \in T |-> ParseMessage(file, v)]]
  <2>1. turn \in [1 .. N -> [T -> T]]
    BY <1>9
  <2> HIDE DEF turn
  <2>2. PICK g \in [0 .. N -> T] : Rounds(g, N, first, turn)
    BY <1>8, <2>1, LoopExists
  <2>3. \A i \in 0 .. N : g[i] = IF i = 0 THEN first ELSE ParseMessage(file, g[i - 1])
    <3> SUFFICES ASSUME NEW i \in 0 .. N
                 PROVE  g[i] = IF i = 0 THEN first ELSE ParseMessage(file, g[i - 1])
      OBVIOUS
    <3>1. CASE i = 0
      BY <2>2, <3>1 DEF Rounds
    <3>2. CASE i # 0
      <4>1. i \in 1 .. N /\ g[i - 1] \in T
        BY <3>2
      <4>2. g[i] = turn[i][g[i - 1]]
        BY <2>2, <4>1 DEF Rounds
      <4> QED
        BY <3>2, <4>1, <4>2 DEF turn
    <3> QED
      BY <3>1, <3>2
  <2> QED
    BY <2>3, Zenon
<1>12. Parses(state)
  BY <1>11
<1> HIDE DEF state
<1>13. \A i \in 0 .. N : state[i] = IF i = 0 THEN first ELSE ParseMessage(file, state[i - 1])
  BY <1>12, Zenon
<1> HIDE DEF Parses
<1>14. state[0] = first /\ \A i \in Nat : i + 1 <= N => state[i + 1] = ParseMessage(file, state[i])
  <2>1. state[0] = first
    BY SMTT(30), <1>13
  <2>2. ASSUME NEW i \in Nat, i + 1 <= N PROVE state[i + 1] = ParseMessage(file, state[i])
    <3>1. i + 1 \in 0 .. N /\ i + 1 # 0 /\ (i + 1) - 1 = i
      BY <2>2
    <3> QED
      BY <1>13, <3>1
  <2> QED
    BY <2>1, <2>2
\* The rounds that find the messages of the log
<1> DEFINE Finds(r) == /\ state[r].found \in Seq(F) /\ Len(state[r].found) = r
                       /\ Begins(state[r].found, log, r)
                       /\ state[r].at = at[r] + 1 /\ at[r] >= r + 1
           S1 == {r \in Nat : r <= n => Finds(r)}
<1>15. 0 \in S1
  <2>1. state[0].at = 2 /\ state[0].found = <<>>
    BY <1>14 DEF first
  <2>2. <<>> \in Seq(F) /\ Len(<<>>) = 0
    OBVIOUS
  <2> QED
    <3>1. at[0] = 1 /\ 1 + 1 = 2 /\ 1 >= 0 + 1
      BY <1>3
    <3>2. Begins(<<>>, log, 0)
      BY <2>2 DEF Begins
    <3>3. Finds(0)
      BY <2>1, <2>2, <3>1, <3>2
    <3> HIDE DEF Finds
    <3> QED
      BY <3>3
<1>16. \A r \in Nat : r \in S1 => r + 1 \in S1
  <2> HIDE DEF Finds
  <2> SUFFICES ASSUME NEW r \in Nat, r <= n => Finds(r), r + 1 <= n PROVE Finds(r + 1)
    OBVIOUS
  <2>1. Finds(r)
    BY <1>1
  <2> USE DEF Finds
  <2> HIDE DEF S1
  <2>2. PICK m, s, p, found :
          m = log[r + 1] /\ s = Length(m) /\ p = at[r] + 1 /\ found = state[r].found
    OBVIOUS
  <2>3. r + 1 \in 1 .. n /\ r \in 0 .. n /\ r + 1 \in 0 .. n /\ (r + 1) - 1 = r
    BY <1>1
  <2>4. /\ s \in Nat /\ s >= 1 /\ at[r] \in Nat /\ at[r] >= r + 1
        /\ at[r + 1] = at[r] + s /\ at[r + 1] <= end
        /\ \A j \in 1 .. s : cells[at[r] + j - 1] = Cell(m, j)
    BY <1>3, <1>4, <2>1, <2>2, <2>3
  <2>5. PICK a \in Nat : a = at[r] /\ a >= r + 1 /\ a + s <= N /\ p = a + 1 /\ p \in Nat
    <3>1. p = at[r] + 1
      BY <2>2
    <3>2. at[r] + 1 \in Nat /\ at[r] + s <= N
      BY SMTT(30), <2>4
    <3> QED
      BY <2>4, <3>1, <3>2
  <2>6. \A j \in 1 .. s : p + j - 1 \in 1 .. N /\ file[p + j - 1] = Cell(m, j)
    <3> SUFFICES ASSUME NEW j \in 1 .. s PROVE p + j - 1 \in 1 .. N /\ file[p + j - 1] = Cell(m, j)
      OBVIOUS
    <3>1. p + j - 1 \in 1 .. N /\ (p + j - 1) - 1 = at[r] + j - 1
      <4>1. s \in Nat /\ a \in Nat /\ a + s <= N
        BY <2>4, <2>5
      <4>2. (a + 1) + j - 1 \in 1 .. N /\ ((a + 1) + j - 1) - 1 = a + j - 1
        BY <4>1, Positions
      <4> QED
        BY <2>5, <4>2
    <3>2. cells[at[r] + j - 1] = Cell(m, j)
      BY <2>4
    <3> QED
      BY <1>5, <3>1, <3>2
  <2>7. p \in 1 .. N /\ file[p] = Cell(m, 1)
    <3>1. 1 \in 1 .. s /\ p + 1 - 1 = p
      BY <2>2, <2>4
    <3> QED
      BY <2>6, <3>1
  <2>8. IsHead(file[p]) /\ file[p].of = m
    BY <2>7 DEF Cell, IsHead
  <2>9. p + s <= Len(file) + 1
    BY <1>5, <2>2, <2>4
  <2>10. Whole(file, p, m)
    BY <2>2, <2>6 DEF Whole
  <2>11. state[r].at = p /\ state[r].found = found
    BY <2>1, <2>2
  <2>12. ParseMessage(file, state[r]) = [at |-> p + s, found |-> Append(found, m)]
    <3>1. p \in 1 .. Len(file) /\ s = Length(m)
      BY <1>5, <2>2, <2>7
    <3>2. PICK v : v = state[r] /\ v.at = p /\ v.found = found
      BY <2>11
    <3>3. /\ v.at \in 1 .. Len(file) /\ IsHead(file[v.at])
          /\ v.at + Length(file[v.at].of) <= Len(file) + 1 /\ Whole(file, v.at, file[v.at].of)
      BY <2>8, <2>9, <2>10, <3>1, <3>2
    <3>4. ParseMessage(file, v) = [at |-> v.at + Length(file[v.at].of),
                                  found |-> Append(v.found, file[v.at].of)]
      BY <3>3, ParseWhole
    <3> QED
      BY <2>8, <3>1, <3>2, <3>4
  <2>13. r + 1 <= N
    BY <2>4
  <2>14. state[r + 1] = [at |-> p + s, found |-> Append(found, m)]
    BY <1>14, <2>12, <2>13
  <2>15. found \in Seq(F) /\ Len(found) = r /\ m \in F /\ \A i \in 1 .. r : found[i] = log[i]
    BY <2>1, <2>2, <2>7, <2>8 DEF F, Begins
  <2>16. /\ Append(found, m) \in Seq(F) /\ Len(Append(found, m)) = r + 1
         /\ Append(found, m)[r + 1] = m
         /\ \A i \in 1 .. r : Append(found, m)[i] = found[i]
    <3>1. found \in Seq(F) /\ m \in F /\ Len(found) = r
      BY <2>15
    <3> QED
      BY <3>1, AppendIs
  <2>17. Begins(Append(found, m), log, r + 1)
    <3>1. ASSUME NEW i \in 1 .. r + 1 PROVE Append(found, m)[i] = log[i]
      <4>1. CASE i = r + 1
        BY <2>2, <2>16, <4>1
      <4>2. CASE i # r + 1
        <5>1. i \in 1 .. r
          BY <4>2
        <5> QED
          BY <2>15, <2>16, <5>1
      <4> QED
        BY <4>1, <4>2
    <3> QED
      BY <2>16, <3>1 DEF Begins
  <2>18. p + s = at[r + 1] + 1 /\ at[r + 1] >= (r + 1) + 1
    <3>1. s \in Nat /\ s >= 1 /\ at[r + 1] = a + s
      BY <2>4, <2>5
    <3>2. a + s >= (r + 1) + 1
      BY <2>5, <3>1
    <3>3. p + s = (a + s) + 1
      BY <2>5, <3>1, Positions
    <3> QED
      BY <3>1, <3>2, <3>3
  <2> QED
    BY <2>14, <2>16, <2>17, <2>18
<1> HIDE DEF S1
<1>17. Finds(n)
  <2>1. n \in S1
    BY <1>1, <1>15, <1>16, SetInduction
  <2> QED
    BY <1>1, <2>1 DEF S1
<1> HIDE DEF Finds
\* The rounds after them
<1> DEFINE Keeps(i) == /\ state[i].found \in Seq(F) /\ state[i] \in T
                       /\ Begins(state[i].found, log, n)
                       /\ end = N => state[i].at = N + 1 /\ Len(state[i].found) = n
           S2 == {i \in Nat : n + i <= N => Keeps(n + i)}
<1> DEFINE S3 == {i \in Nat : i <= N => state[i] \in T}
<1>18. Nat \subseteq S3
  <2>1. 0 \in S3
    BY <1>8, <1>14
  <2>2. \A i \in Nat : i \in S3 => i + 1 \in S3
    <3> SUFFICES ASSUME NEW i \in Nat, i <= N => state[i] \in T, i + 1 <= N PROVE state[i + 1] \in T
      OBVIOUS
    <3>1. state[i] \in T
      OBVIOUS
    <3> QED
      BY <1>9, <1>14, <3>1
  <2> HIDE DEF S3
  <2> QED
    BY <2>1, <2>2, SetInduction
<1>19. 0 \in S2
  <2>1. n <= N => state[n] \in T
    BY <1>1, <1>18
  <2>2. end = N => state[n].at = N + 1
    BY <1>3, <1>17 DEF Finds
  <2> QED
    BY <1>1, <1>17, <2>1, <2>2 DEF Finds
<1> HIDE DEF S2, Keeps
<1>20. \A i \in Nat : i \in S2 => i + 1 \in S2
  <2> SUFFICES ASSUME NEW i \in Nat, i \in S2, n + (i + 1) <= N PROVE Keeps(n + (i + 1))
    BY DEF S2
  <2>1. PICK l \in Nat : l = n + i /\ l + 1 = n + (i + 1) /\ l + 1 <= N
    BY <1>1
  <2>2. Keeps(l)
    BY <1>1, <2>1 DEF S2
  <2>3. state[l + 1] = ParseMessage(file, state[l]) /\ state[l + 1] \in T
    <3>1. state[l + 1] = ParseMessage(file, state[l])
      BY <1>14, <2>1
    <3>2. l + 1 \in S3
      BY <1>18
    <3> QED
      BY <2>1, <3>1, <3>2
  <2>4. PICK found : found = state[l].found /\ found \in Seq(F) /\ Begins(found, log, n)
    BY <2>2 DEF Keeps
  <2>5. \/ state[l + 1] = state[l]
        \/ /\ state[l].at \in 1 .. N
           /\ \E m : state[l + 1].found = Append(found, m) /\ m \in F
    <3>1. CASE state[l].at \in 1 .. N
      <4>1. file[state[l].at].of \in F /\ Torn \in F
        BY <3>1 DEF F
      <4>2. ParseMessage(file, state[l]) = state[l] \/ \E m \in {file[state[l].at].of, Torn} :
              ParseMessage(file, state[l]) = [at |-> state[l].at + Length(file[state[l].at].of),
                                              found |-> Append(state[l].found, m)]
        BY ParseIs
      <4>3. CASE ParseMessage(file, state[l]) # state[l]
        <5>1. PICK m \in {file[state[l].at].of, Torn} :
                ParseMessage(file, state[l]) = [at |-> state[l].at + Length(file[state[l].at].of),
                                                found |-> Append(state[l].found, m)]
          BY <4>2, <4>3
        <5>2. state[l + 1].found = Append(found, m) /\ m \in F
          <6>1. m \in F
            BY <4>1, <5>1
          <6>2. state[l + 1].found = Append(state[l].found, m)
            <7>1. PICK x, y : x = state[l].at + Length(file[state[l].at].of) /\ y = Append(state[l].found, m)
              OBVIOUS
            <7>2. ParseMessage(file, state[l]) = [at |-> x, found |-> y]
              BY <5>1, <7>1
            <7>3. ParseMessage(file, state[l]).found = y
              BY <7>2
            <7> QED
              BY <2>3, <7>1, <7>3
          <6> QED
            BY <2>4, <6>1, <6>2
        <5> QED
          BY <3>1, <5>2
      <4> QED
        BY <2>3, <4>3
    <3>2. CASE state[l].at \notin 1 .. N
      <4>1. ParseMessage(file, state[l]) = state[l] \/ state[l].at \in 1 .. Len(file)
        BY ParseIs
      <4> QED
        BY <1>5, <2>3, <3>2, <4>1
    <3> QED
      BY <3>1, <3>2
  <2>6. CASE state[l + 1] = state[l]
    BY <2>1, <2>2, <2>6 DEF Keeps
  <2>7. CASE state[l].at \in 1 .. N /\ \E m : state[l + 1].found = Append(found, m) /\ m \in F
    <3>1. PICK m \in F : state[l + 1].found = Append(found, m)
      BY <2>7
    <3>2. end # N
      BY <2>2, <2>7 DEF Keeps
    <3>3. Append(found, m) \in Seq(F) /\ Len(Append(found, m)) = Len(found) + 1
          /\ \A j \in 1 .. Len(found) : Append(found, m)[j] = found[j]
      <4>1. found \in Seq(F) /\ m \in F
        BY <2>4, <3>1
      <4> QED
        BY <4>1, AppendIs
    <3>4. Begins(Append(found, m), log, n)
      <4>1. Len(found) \in Nat /\ Len(found) >= n /\ \A j \in 1 .. n : found[j] = log[j]
        <5>1. Len(found) \in Nat
          BY <2>4
        <5> QED
          BY <2>4, <5>1 DEF Begins
      <4> QED
        BY <1>1, <3>3, <4>1 DEF Begins
    <3> QED
      BY <2>1, <2>3, <3>1, <3>2, <3>3, <3>4 DEF Keeps
  <2> QED
    BY <2>5, <2>6, <2>7
<1>21. Keeps(N)
  <2>1. n <= N
    <3>1. at[n] >= n + 1 /\ at[n] = end
      BY <1>3, <1>17 DEF Finds
    <3> QED
      BY <1>1, <3>1
  <2>2. N - n \in Nat /\ n + (N - n) = N
    BY <1>1, <2>1
  <2>3. N - n \in S2
    BY <1>19, <1>20, <2>2, SetInduction
  <2> QED
    BY <2>2, <2>3 DEF S2
<1> QED
  BY <1>1, <1>5, <1>7, <1>21 DEF Keeps, Found

\* Without a ring the file is the first buffer.
LEMMA PlainReads ==
  ASSUME CInv, ~ring, NEW c \in Cpu
  PROVE  /\ File(c, 2) = [i \in 1 .. offset[c][0] |-> sb_buf[c][0][i - 1]]
         /\ offset[c][0] \in Nat
<1>1. /\ active[c] = 0 /\ offset[c][1] = 0 /\ Other(c) = 1
      /\ offset[c][0] \in Nat /\ TotalSize(c) = offset[c][0]
  <2>1. active[c] = 0 /\ offset[c][1] = 0
    BY DEF CInv, IInv, SecondUnused
  <2>2. offset[c][0] \in Nat
    BY MoreSizes DEF CInv, IInv, Types
  <2> QED
    BY <2>1, <2>2 DEF Other, TotalSize
<1>2. File(c, 2) = FirstCells(c, offset[c][0])
  BY <1>1, FileIs DEF CInv, IInv
<1>3. ASSUME NEW i \in 1 .. offset[c][0] PROVE Stored(c, i) = sb_buf[c][0][i - 1]
  BY <1>1 DEF Stored
<1> QED
  BY <1>1, <1>2, <1>3 DEF FirstCells

\* StreamIsLog, of one CPU and what is parsed from its file
LEMMA StreamOfCpu ==
  ASSUME CInv, ~ring, NEW c \in Cpu, Cleared(c), NEW messages, messages = Parsed(File(c, 2))
  PROVE  IF intact[c] THEN messages = logged[c]
         ELSE logged[c] = SubSeq(messages, 1, Less(Len(logged[c]), Len(messages)))
<1>1. PICK end \in Nat : PlainEnd(c, end)
  BY DEF CInv, LogInv, LogOk, PlainOk
<1>2. PICK log, n : log = logged[c] /\ n = Len(log)
  OBVIOUS
<1>3. log \in Seq(Nat) /\ n \in Nat /\ \A i \in 1 .. n : log[i] \in 1 .. Len(sent)
  <2>1. log \in Seq(Nat) /\ \A i \in 1 .. n : log[i] \in 1 .. Len(sent)
    BY <1>2 DEF CInv, LogInv, LogTypes
  <2> QED
    BY <1>2, <2>1
<1>4. PICK cells, N, file : cells = sb_buf[c][0] /\ N = offset[c][0] /\ file = File(c, 2)
  OBVIOUS
<1>5. /\ N \in Nat /\ file = [i \in 1 .. N |-> cells[i - 1]] /\ cells[0] = Version
      /\ end <= N /\ Laid(sent, cells, log, 0, n, 1, end)
      /\ intact[c] => end = N
  BY <1>1, <1>2, <1>4, PlainReads DEF PlainEnd
<1>6. LogTypes
  BY DEF CInv, LogInv
<1>7. PICK F : /\ messages \in Seq(F) /\ Begins(messages, log, n)
               /\ end = N => Len(messages) = n
  <2>1. IsLog(log) /\ Laid(sent, cells, log, 0, Len(log), 1, end)
    BY <1>2, <1>3, <1>5 DEF IsLog
  <2>2. Found(Parsed(file), log, end = N)
    BY <1>3, <1>5, <1>6, <2>1, ParserFinds
  <2> QED
    BY <1>2, <1>4, <2>2 DEF Found
<1>8. CASE intact[c]
  <2>1. Len(messages) = n /\ \A i \in 1 .. n : messages[i] = log[i]
    BY <1>5, <1>7, <1>8 DEF Begins
  <2>2. messages = log
    <3>1. messages \in Seq(F) /\ log \in Seq(Nat) /\ n \in Nat /\ Len(log) = n
      BY <1>2, <1>3, <1>7
    <3> QED
      BY <2>1, <3>1, SameSequence
  <2> QED
    BY <1>2, <1>8, <2>2
<1>9. CASE ~intact[c]
  <2>1. Len(messages) \in Nat /\ Len(messages) >= n /\ \A i \in 1 .. n : messages[i] = log[i]
    BY <1>7 DEF Begins
  <2>2. Less(n, Len(messages)) = n
    BY <1>3, <2>1 DEF Less
  <2>3. PICK part : part = SubSeq(messages, 1, n)
    OBVIOUS
  <2>4. part \in Seq(F) /\ Len(part) = n /\ \A i \in 1 .. n : part[i] = messages[i]
    BY <1>3, <1>7, <2>1, <2>3
  <2>5. part = log
    <3>1. log \in Seq(Nat) /\ n \in Nat /\ Len(log) = n
      BY <1>2, <1>3
    <3>2. \A i \in 1 .. n : part[i] = log[i]
      BY <2>1, <2>4
    <3> QED
      BY <2>4, <3>1, <3>2, SameSequence
  <2> QED
    BY <1>2, <1>9, <2>2, <2>3, <2>5
<1> QED
  BY <1>8, <1>9

\* A file of which no message came between others is parsed to its end.
LEMMA IntactEnds ==
  ASSUME CInv, ~ring, NEW c \in Cpu, Cleared(c), intact[c]
  PROVE  Endings(File(c, 2)) = {"ends"}
<1>1. PICK end \in Nat : PlainEnd(c, end)
  BY DEF CInv, LogInv, LogOk, PlainOk
<1>2. PICK log, cells, N, file :
        log = logged[c] /\ cells = sb_buf[c][0] /\ N = offset[c][0] /\ file = File(c, 2)
  OBVIOUS
<1>3. log \in Seq(Nat) /\ IsLog(log)
  BY <1>2 DEF CInv, LogInv, LogTypes, IsLog
<1>4. /\ N \in Nat /\ file = [i \in 1 .. N |-> cells[i - 1]] /\ cells[0] = Version
      /\ end <= N /\ Laid(sent, cells, log, 0, Len(log), 1, end)
  BY <1>1, <1>2, PlainReads DEF PlainEnd
<1>5. LogTypes /\ end = N
  BY <1>1, <1>2 DEF CInv, LogInv, PlainEnd
<1>6. ParsedTo(file).at = Len(file) + 1
  <2>1. Found(Parsed(file), log, end = N) /\ (end = N => ParsedTo(file).at = Len(file) + 1)
    <3>1. LogTypes
      BY <1>5
    <3> QED
      BY <1>3, <1>4, <3>1, ParserFinds
  <2> QED
    BY <1>5, <2>1
<1>7. Len(file) = N
  <2>1. file = [i \in 1 .. N |-> file[i]]
    BY <1>4
  <2> QED
    BY <1>4, <2>1, IsSequence
<1>8. ParsedTo(file).at > Len(file)
  BY <1>4, <1>6, <1>7
<1>9. PICK messages : messages = ParsedTo(file).found
  OBVIOUS
<1>10. \A i \in DOMAIN messages : messages[i] # Torn
  <2>1. messages = log
    BY <1>2, <1>9, StreamOfCpu DEF Parsed
  <2>2. Len(log) \in Nat /\ DOMAIN log = 1 .. Len(log)
    BY <1>3
  <2> QED
    BY <1>3, <2>1, <2>2 DEF IsLog, Torn
<1> QED
  BY <1>2, <1>8, <1>9, <1>10 DEF Endings

\* Without a ring, a parser of a CPU's file finds the messages sb_trace logged,
\* in their order and whole, up to the first two that came between each other.
THEOREM StreamHoldsLog == Spec => []StreamIsLog
<1>1. CInv => StreamIsLog
  BY StreamOfCpu DEF StreamIsLog
<1> QED
  BY <1>1, ContentInvariance, PTL

-----------------------------------------------------------------------------
(* The ring *)

\* The cells of a message
LEMMA MessageCells ==
  ASSUME NEW m \in Nat, NEW n \in Nat
  PROVE  /\ [k \in 1 .. n |-> Cell(m, k)] \in Seq(CellSet)
         /\ Len([k \in 1 .. n |-> Cell(m, k)]) = n
<1>1. [k \in 1 .. n |-> Cell(m, k)] \in [1 .. n -> CellSet]
  BY DEF Cell, CellSet
<1> QED
  BY <1>1

\* A part of a sequence
LEMMA SubSeqIs ==
  ASSUME NEW V, NEW log \in Seq(V), NEW lo \in Nat, NEW hi \in Nat, lo <= hi, hi <= Len(log)
  PROVE  /\ SubSeq(log, lo + 1, hi) \in Seq(V)
         /\ Len(SubSeq(log, lo + 1, hi)) = hi - lo
         /\ \A i \in 1 .. hi - lo : SubSeq(log, lo + 1, hi)[i] = log[lo + i]
<1> DEFINE sub == SubSeq(log, lo + 1, hi)
<1>1. sub \in Seq(V) /\ Len(sub) = hi - lo
  OBVIOUS
<1>2. ASSUME NEW i \in 1 .. hi - lo PROVE sub[i] = log[lo + i]
  <2>1. sub[i] = log[(lo + 1) + i - 1]
    OBVIOUS
  <2>2. (lo + 1) + i - 1 = lo + i
    OBVIOUS
  <2> QED
    BY <2>1, <2>2
<1> QED
  BY <1>1, <1>2

\* Cells that lie in one piece
Run(cells, from, n) == [i \in 1 .. n |-> cells[from + i - 1]]

\* A piece is followed by another one.
LEMMA RunPlace ==
  ASSUME NEW from \in Nat, NEW n \in Nat, NEW len \in Nat, NEW i \in Nat, n < i, i <= n + len
  PROVE  i - n \in 1 .. len /\ (from + n) + (i - n) - 1 = from + i - 1
OBVIOUS

RunJoins(cells, from, n, len) ==
  Run(cells, from, n) \o Run(cells, from + n, len) = Run(cells, from, n + len)

LEMMA RunFrom ==
  ASSUME NEW cells, NEW from \in Nat, NEW n \in Nat, NEW len \in Nat
  PROVE  RunJoins(cells, from, n, len)
<1>1. PICK s, t : s = Run(cells, from, n) /\ t = Run(cells, from + n, len)
  OBVIOUS
<1>2. t = [i \in 1 .. len |-> t[i]] /\ \A j \in 1 .. len : t[j] = cells[(from + n) + j - 1]
  BY <1>1 DEF Run
<1>3. s = [i \in 1 .. n |-> s[i]] /\ \A i \in 1 .. n : s[i] = cells[from + i - 1]
  BY <1>1 DEF Run
<1>4. s \o t = [i \in 1 .. n + len |-> IF i <= n THEN s[i] ELSE t[i - n]]
  BY <1>3, <1>2, ConcatIs
<1>5. ASSUME NEW i \in 1 .. n + len
      PROVE  (IF i <= n THEN s[i] ELSE t[i - n]) = cells[from + i - 1]
  <2>1. CASE i <= n
    BY <1>3, <2>1
  <2>2. CASE ~(i <= n)
    <3>1. i \in Nat /\ n < i /\ i <= n + len
      BY <2>2
    <3>2. i - n \in 1 .. len /\ (from + n) + (i - n) - 1 = from + i - 1
      BY <3>1, RunPlace
    <3>3. t[i - n] = cells[(from + n) + (i - n) - 1]
      BY <1>2, <3>2
    <3>4. t[i - n] = cells[from + i - 1]
      BY <3>2, <3>3
    <3> QED
      BY <2>2, <3>4
  <2> QED
    BY <2>1, <2>2
<1>6. [i \in 1 .. n + len |-> IF i <= n THEN s[i] ELSE t[i - n]]
        = [i \in 1 .. n + len |-> cells[from + i - 1]]
  BY <1>5, Zenon
<1> QED
  BY <1>1, <1>4, <1>6 DEF Run, RunJoins

RunsMeet(cells, from, x, len) ==
  Run(cells, from, x - from) \o Run(cells, x, len) = Run(cells, from, (x + len) - from)

LEMMA RunMore ==
  ASSUME NEW cells, NEW from \in Nat, NEW x \in Nat, from <= x, NEW len \in Nat
  PROVE  RunsMeet(cells, from, x, len)
<1>1. PICK n \in Nat : n = x - from /\ from + n = x /\ (x + len) - from = n + len
  OBVIOUS
<1>2. Run(cells, from, n) \o Run(cells, x, len) = Run(cells, from, n + len)
  <2>1. RunJoins(cells, from, n, len)
    BY RunFrom
  <2> QED
    BY <1>1, <2>1 DEF RunJoins
<1> QED
  BY <1>1, <1>2 DEF RunsMeet

\* The cells of messages that lie in a buffer in one piece are that piece.
LogRun(log, lo, hi, cells, from, to) ==
  /\ LogCells(SubSeq(log, lo + 1, hi)) = Run(cells, from, to - from)
  /\ to - from \in Nat

LEMMA LogCellsAre ==
  ASSUME LogTypes, NEW log \in Seq(Nat), IsLog(log),
         NEW lo \in Nat, NEW hi \in Nat, lo <= hi, hi <= Len(log),
         NEW cells, NEW from \in Nat, NEW to \in Nat, Laid(sent, cells, log, lo, hi, from, to)
  PROVE  LogRun(log, lo, hi, cells, from, to)
<1>1. PICK sub, N : sub = SubSeq(log, lo + 1, hi) /\ N = Len(sub)
  OBVIOUS
<1>2. N = hi - lo /\ N \in Nat /\ \A i \in 1 .. N : sub[i] = log[lo + i]
  <2>1. sub \in Seq(Nat) /\ N = hi - lo /\ \A i \in 1 .. hi - lo : sub[i] = log[lo + i]
    BY SMTT(30), <1>1, SubSeqIs
  <2> QED
    BY <2>1
<1>3. PICK at : Placed(at, sent, cells, log, lo, hi, from, to)
  BY DEF Laid
<1>4. ASSUME NEW r \in Nat, r <= N PROVE at[lo + r] \in Nat /\ from <= at[lo + r] /\ at[lo + r] <= to
  <2>1. lo + r \in lo .. hi
    BY <1>2, <1>4
  <2> QED
    BY <1>3, <2>1 DEF Placed
<1>5. at[lo] = from /\ at[hi] = to
  BY <1>3 DEF Placed
<1>6. ASSUME NEW r \in Nat, r + 1 <= N
      PROVE  /\ sub[r + 1] \in Nat /\ Length(sub[r + 1]) \in Nat
             /\ at[lo + (r + 1)] = at[lo + r] + Length(sub[r + 1])
             /\ \A j \in 1 .. Length(sub[r + 1]) : cells[at[lo + r] + j - 1] = Cell(sub[r + 1], j)
  <2>1. PICK k : k = lo + (r + 1) /\ k \in lo + 1 .. hi /\ k - 1 = lo + r /\ k \in 1 .. Len(log)
    BY <1>2, <1>6
  <2>2. sub[r + 1] = log[k]
    <3>1. r + 1 \in 1 .. N
      BY <1>2, <1>6
    <3> QED
      BY <1>2, <2>1, <3>1
  <2>3. log[k] \in Nat /\ sent[log[k]].size \in Nat
    <3>1. log[k] \in 1 .. Len(sent)
      BY <2>1 DEF IsLog
    <3> QED
      BY <3>1 DEF LogTypes
  <2>4. /\ at[k] = at[k - 1] + sent[log[k]].size
        /\ \A j \in 1 .. sent[log[k]].size : cells[at[k - 1] + j - 1] = Cell(log[k], j)
    BY <1>3, <2>1 DEF Placed
  <2> QED
    BY <2>1, <2>2, <2>3, <2>4 DEF Length
<1> DEFINE Piece(i) == [k \in 1 .. Length(sub[i]) |-> Cell(sub[i], k)]
           none == <<>>
           Joins(f) == f = [i \in 0 .. N |-> IF i = 0 THEN none ELSE f[i - 1] \o Piece(i)]
           joined == CHOOSE f : Joins(f)
<1>7. LogCells(sub) = joined[N]
  BY <1>1 DEF LogCells
<1>8. ASSUME NEW i \in 1 .. N PROVE Piece(i) \in Seq(CellSet)
  <2>1. i - 1 \in Nat /\ (i - 1) + 1 = i /\ (i - 1) + 1 <= N
    BY <1>2
  <2>2. sub[i] \in Nat /\ Length(sub[i]) \in Nat
    BY <1>6, <2>1
  <2> QED
    BY <2>2, MessageCells
<1>9. \E f : Joins(f)
  <2> HIDE DEF Piece
  <2> DEFINE T == Seq(CellSet)
             turn == [i \in 1 .. N |-> [v \in T |-> v \o Piece(i)]]
  <2>1. turn \in [1 .. N -> [T -> T]]
    BY <1>8
  <2>2. none \in T
    OBVIOUS
  <2> HIDE DEF T, turn, none
  <2>3. PICK g \in [0 .. N -> T] : Rounds(g, N, none, turn)
    BY <1>2, <2>1, <2>2, LoopExists
  <2>4. \A i \in 0 .. N : g[i] = IF i = 0 THEN none ELSE g[i - 1] \o Piece(i)
    <3> SUFFICES ASSUME NEW i \in 0 .. N PROVE g[i] = IF i = 0 THEN none ELSE g[i - 1] \o Piece(i)
      OBVIOUS
    <3>1. CASE i = 0
      BY <2>3, <3>1 DEF Rounds
    <3>2. CASE i # 0
      <4>1. i \in 1 .. N /\ g[i - 1] \in T
        BY <1>2, <3>2
      <4>2. g[i] = turn[i][g[i - 1]]
        BY <2>3, <4>1 DEF Rounds
      <4> QED
        BY <3>2, <4>1, <4>2 DEF turn
    <3> QED
      BY <3>1, <3>2
  <2> QED
    BY <2>4, Zenon
<1>10. Joins(joined)
  BY <1>9
<1> HIDE DEF joined, Piece
<1>11. \A i \in 0 .. N : joined[i] = IF i = 0 THEN none ELSE joined[i - 1] \o Piece(i)
  BY <1>10, Zenon
<1> HIDE DEF Joins
<1>12. joined[0] = <<>> /\ \A r \in Nat : r + 1 <= N => joined[r + 1] = joined[r] \o Piece(r + 1)
  <2>1. joined[0] = <<>>
    BY <1>2, <1>11
  <2>2. ASSUME NEW r \in Nat, r + 1 <= N PROVE joined[r + 1] = joined[r] \o Piece(r + 1)
    <3>1. r + 1 \in 0 .. N /\ r + 1 # 0 /\ (r + 1) - 1 = r
      BY <1>2, <2>2
    <3> QED
      BY <1>11, <3>1
  <2> QED
    BY <2>1, <2>2
<1> DEFINE Upto(r) == Run(cells, from, at[lo + r] - from)
           S == {r \in Nat : r <= N => joined[r] = Upto(r)}
<1>13. 0 \in S
  <2>1. at[lo + 0] - from = 0
    BY <1>5
  <2>2. Upto(0) = <<>>
    BY <2>1 DEF Run
  <2> HIDE DEF Upto
  <2> QED
    BY <1>12, <2>2
<1> HIDE DEF Upto
<1>14. \A r \in Nat : r \in S => r + 1 \in S
  <2> SUFFICES ASSUME NEW r \in Nat, joined[r] = Upto(r), r + 1 <= N PROVE joined[r + 1] = Upto(r + 1)
    BY <1>2
  <2>1. PICK s, t : s = Upto(r) /\ t = Piece(r + 1)
    OBVIOUS
  <2>2. PICK m, len, x : m = sub[r + 1] /\ len = Length(m) /\ x = at[lo + r]
    OBVIOUS
  <2>3. /\ len \in Nat /\ at[lo + (r + 1)] = x + len
        /\ \A j \in 1 .. len : cells[x + j - 1] = Cell(m, j)
    BY <1>6, <2>2
  <2>4. x \in Nat /\ from <= x
    <3>1. r <= N
      BY <1>2
    <3> QED
      BY <1>4, <2>2, <3>1
  <2>5. s = Run(cells, from, x - from)
    BY <2>1, <2>2 DEF Upto
  <2>6. t = [k \in 1 .. len |-> Cell(m, k)]
    BY <2>1, <2>2 DEF Piece
  <2>7. t = Run(cells, x, len)
    <3>1. \A j \in 1 .. len : Cell(m, j) = cells[x + j - 1]
      BY <2>3
    <3> QED
      BY <2>6, <3>1, Zenon DEF Run
  <2>8. s \o t = Run(cells, from, (x + len) - from)
    <3>1. RunsMeet(cells, from, x, len)
      BY <2>3, <2>4, RunMore
    <3> QED
      BY <2>5, <2>7, <3>1, Zenon DEF RunsMeet
  <2>9. s \o t = Upto(r + 1)
    BY <2>3, <2>8 DEF Upto
  <2> QED
    BY <1>12, <2>1, <2>9
<1> HIDE DEF S
<1>15. joined[N] = Upto(N)
  <2>1. N \in S
    BY <1>2, <1>13, <1>14, SetInduction
  <2> QED
    BY <1>2, <2>1 DEF S
<1>16. lo + N = hi /\ at[lo + N] = to
  BY <1>2, <1>5
<1>17. to - from \in Nat
  <2>1. from <= to
    BY <1>2, <1>4, <1>16
  <2> QED
    BY <2>1
<1> QED
  BY <1>1, <1>7, <1>15, <1>16, <1>17 DEF Upto, LogRun

\* A piece of cells is a sequence.
LEMMA RunIn ==
  ASSUME NEW V, NEW cells, \A i \in Int : cells[i] \in V, NEW from \in Nat, NEW n \in Nat
  PROVE  Run(cells, from, n) \in Seq(V) /\ Len(Run(cells, from, n)) = n
<1>1. Run(cells, from, n) \in [1 .. n -> V]
  BY DEF Run
<1> QED
  BY <1>1

\* Two buffers that begin with a version string or not, one behind the other
Regroups(u, p, v, q) == (u \o p) \o (v \o q) = u \o p \o v \o q

LEMMA Regrouped ==
  ASSUME NEW V, NEW u \in Seq(V), NEW p \in Seq(V), NEW v \in Seq(V), NEW q \in Seq(V)
  PROVE  Regroups(u, p, v, q)
<1>1. u \o p \in Seq(V)
  OBVIOUS
<1>2. PICK w : w = u \o p /\ w \in Seq(V)
  BY <1>1, Zenon
<1>3. (w \o v) \o q = w \o (v \o q)
  BY <1>2, ConcatAssociative, SMTT(30)
<1> QED
  BY <1>2, <1>3, Zenon DEF Regroups

Versions == {<<>>, <<Version>>}

\* A buffer is the version string, or nothing, and the messages' cells.
LEMMA StartIs ==
  ASSUME NEW cells, NEW from \in {0, 1}, from = 1 => cells[0] = Version
  PROVE  Run(cells, 0, from) \in Versions
<1>1. CASE from = 0
  BY <1>1 DEF Run, Versions
<1>2. CASE from = 1
  <2>1. Run(cells, 0, 1) = <<cells[0]>>
    BY DEF Run
  <2> QED
    BY <1>2, <2>1 DEF Versions
<1> QED
  BY <1>1, <1>2

LogPart(c, lo, hi) == LogCells(SubSeq(logged[c], lo + 1, hi))

BufferHolds(c, b, lo, hi, from, V) ==
  \E u \in Versions :
    /\ Cells(c, b, 0, offset[c][b]) = u \o LogPart(c, lo, hi)
    /\ u \in Seq(V) /\ LogPart(c, lo, hi) \in Seq(V)
    /\ Len(LogPart(c, lo, hi)) = offset[c][b] - from

LEMMA BufferIs ==
  ASSUME LogTypes, NEW c \in Cpu, NEW b, NEW lo \in Nat, NEW hi \in Nat, lo <= hi, hi <= Len(logged[c]),
         NEW from, HasPart(c, b, lo, hi, from), NEW V, \A i \in Int : sb_buf[c][b][i] \in V
  PROVE  BufferHolds(c, b, lo, hi, from, V)
<1>1. PICK cells, to, log : cells = sb_buf[c][b] /\ to = offset[c][b] /\ log = logged[c]
  OBVIOUS
<1>2. from \in {0, 1} /\ (from = 1 => cells[0] = Version) /\ Laid(sent, cells, log, lo, hi, from, to)
  BY <1>1 DEF HasPart
<1>3. from \in Nat /\ log \in Seq(Nat) /\ IsLog(log) /\ hi <= Len(log)
  BY <1>1, <1>2 DEF LogTypes, IsLog
<1>4. to \in Nat
  BY <1>2 DEF Laid, Placed
<1>5. LogRun(log, lo, hi, cells, from, to)
  BY <1>2, <1>3, <1>4, LogCellsAre
<1>6. PICK n \in Nat : n = to - from /\ from + n = to
  BY <1>3, <1>4, <1>5 DEF LogRun
<1>7. PICK u, p : u = Run(cells, 0, from) /\ p = Run(cells, from, n)
  OBVIOUS
<1>8. u \in Versions
  BY <1>2, <1>7, StartIs
<1>9. LogPart(c, lo, hi) = p
  BY <1>1, <1>5, <1>6, <1>7 DEF LogRun, LogPart
<1>10. u \in Seq(V) /\ p \in Seq(V) /\ Len(p) = n
  BY ZenonT(30), <1>1, <1>3, <1>7, RunIn
<1>11. u \o p = Run(cells, 0, to)
  <2>1. RunJoins(cells, 0, from, n)
    BY <1>3, RunFrom
  <2>2. 0 + from = from
    BY <1>3
  <2> QED
    BY <1>6, <1>7, <2>1, <2>2 DEF RunJoins
<1>12. Cells(c, b, 0, to) = Run(cells, 0, to)
  BY <1>1 DEF Cells, Run
<1> QED
  BY <1>1, <1>6, <1>8, <1>9, <1>10, <1>11, <1>12 DEF BufferHolds

\* The older buffer before the active one
RingIs(c, k, j) ==
  \E u, v \in Versions :
    File(c, 2) = u \o LogPart(c, k, j) \o v \o LogPart(c, j, Len(logged[c]))

LEMMA RingFile ==
  ASSUME CInv, NEW c \in Cpu, NEW k \in Nat, NEW j \in Nat, NEW p, NEW q, RingParts(c, k, j, p, q)
  PROVE  /\ RingIs(c, k, j)
         /\ k = 0 \/ Len(LogPart(c, k, j)) + Len(LogPart(c, j, Len(logged[c]))) >= Trigger - 1
<1>1. Types /\ LogTypes
  BY DEF CInv, IInv, LogInv
<1>2. PICK older, newer, old, new : /\ older = Other(c) /\ newer = active[c]
                                    /\ old = offset[c][older] /\ new = offset[c][newer]
  OBVIOUS
<1> DEFINE V == {sb_buf[c][older][i] : i \in Int} \cup {sb_buf[c][newer][i] : i \in Int}
<1>3. (\A i \in Int : sb_buf[c][older][i] \in V) /\ \A i \in Int : sb_buf[c][newer][i] \in V
  OBVIOUS
<1> HIDE DEF V
<1>4. PICK n \in Nat : n = Len(logged[c])
  BY <1>1 DEF LogTypes
<1>5. /\ k <= j /\ j <= n
      /\ HasPart(c, older, k, j, p) /\ HasPart(c, newer, j, n, q)
      /\ k = 0 \/ (old - p) + (new - q) >= Trigger - 1
  BY <1>2, <1>4 DEF RingParts
<1>6. BufferHolds(c, older, k, j, p, V)
  BY <1>1, <1>3, <1>4, <1>5, BufferIs
<1>7. BufferHolds(c, newer, j, n, q, V)
  <2>1. n <= Len(logged[c])
    BY <1>4
  <2> QED
    BY <1>1, <1>3, <1>5, <2>1, BufferIs
<1>8. PICK P, Q : P = LogPart(c, k, j) /\ Q = LogPart(c, j, n)
  OBVIOUS
<1>9. PICK u \in Versions : /\ Cells(c, older, 0, old) = u \o P /\ u \in Seq(V) /\ P \in Seq(V)
                            /\ Len(P) = old - p
  BY <1>2, <1>6, <1>8 DEF BufferHolds
<1>10. PICK v \in Versions : /\ Cells(c, newer, 0, new) = v \o Q /\ v \in Seq(V) /\ Q \in Seq(V)
                             /\ Len(Q) = new - q
  BY <1>2, <1>7, <1>8 DEF BufferHolds
<1>11. File(c, 2) = Cells(c, older, 0, old) \o Cells(c, newer, 0, new)
  <2>1. File(c, 2) = FirstCells(c, TotalSize(c))
    BY <1>1, FileIs
  <2>2. FirstCells(c, TotalSize(c)) = Cells(c, Other(c), 0, offset[c][Other(c)])
                                        \o Cells(c, active[c], 0, offset[c][active[c]])
    BY <1>1, FirstCellsAre, Zenon
  <2> QED
    BY <1>2, <2>1, <2>2, Zenon
<1>12. (u \o P) \o (v \o Q) = u \o P \o v \o Q
  <2>1. Regroups(u, P, v, Q)
    BY <1>9, <1>10, Regrouped
  <2> QED
    BY <2>1, Zenon DEF Regroups
<1>13. RingIs(c, k, j)
  BY <1>4, <1>8, <1>9, <1>10, <1>11, <1>12 DEF RingIs
<1> QED
  BY <1>4, <1>5, <1>8, <1>9, <1>10, <1>13

\* With a ring, a CPU's file holds the latest messages in one piece, all of them
\* or as many as bring a buffer to its trigger.
THEOREM RingHoldsLatest == Spec => []RingKeepsLatest
<1>1. ASSUME CInv, NEW c \in Cpu, ring, Cleared(c), intact[c]
      PROVE  \E k \in 0 .. Len(logged[c]) : \E j \in k .. Len(logged[c]) :
               /\ RingIs(c, k, j)
               /\ k = 0 \/ Len(LogPart(c, k, j)) + Len(LogPart(c, j, Len(logged[c]))) >= Trigger - 1
  <2>1. PICK k, j, p, q \in Nat : RingParts(c, k, j, p, q)
    BY <1>1 DEF CInv, LogInv, LogOk, RingOk
  <2>2. k \in 0 .. Len(logged[c]) /\ j \in k .. Len(logged[c])
    BY <1>1, <2>1 DEF RingParts, CInv, LogInv, LogTypes
  <2> QED
    BY <1>1, <2>1, <2>2, RingFile
<1>2. CInv => RingKeepsLatest
  BY ZenonT(30), <1>1 DEF RingKeepsLatest, RingIs, LogPart, Versions
<1> QED
  BY <1>2, ContentInvariance, PTL

-----------------------------------------------------------------------------
(* Where the heads of messages are *)

\* The first cell of message m
IsHeadOf(m, cell) == cell = Cell(m, 1)

\* A message has been copied to one place only, and to none before its writer
\* has copied it; and no two writers have one message.
OneHead ==
  \A m \in Nat : \A c, d \in Cpu, b, e \in Buffers, i, j \in Memory :
    IsHeadOf(m, sb_buf[c][b][i]) /\ IsHeadOf(m, sb_buf[d][e][j]) => c = d /\ b = e /\ i = j
HeadsSent ==
  \A c \in Cpu, b \in Buffers, i \in Memory :
    IsHead(sb_buf[c][b][i]) => sb_buf[c][b][i].of \in 1 .. Len(sent)
NotCopied ==
  \A w \in Writer : step[w] \in {"stamped", "checked"} =>
    \A c \in Cpu, b \in Buffers, i \in Memory : ~IsHeadOf(msg[w], sb_buf[c][b][i])
OwnMessage ==
  \A v, w \in Writer : step[v] # "idle" /\ step[w] # "idle" /\ msg[v] = msg[w] => v = w
HomeInv == OneHead /\ HeadsSent /\ NotCopied /\ OwnMessage

\* A head is a head of one message.
LEMMA HeadIs ==
  ASSUME NEW cell \in CellSet, NEW m
  PROVE  /\ IsHeadOf(m, cell) <=> IsHead(cell) /\ cell.of = m
         /\ IsHeadOf(m, cell) => m \in Nat
<1>1. cell = [part |-> cell.part, of |-> cell.of] /\ cell.of \in Nat
  BY DEF CellSet
<1> QED
  BY <1>1 DEF IsHeadOf, IsHead, Cell

\* A cell of a buffer
LEMMA CellTypes ==
  ASSUME LogTypes, NEW c \in Cpu, NEW b \in Buffers, NEW i \in Memory
  PROVE  sb_buf[c][b][i] \in CellSet
BY DEF LogTypes

\* A step that makes no head and gives no writer a message
NoNewHead ==
  \A c \in Cpu, b \in Buffers, i \in Memory :
    IsHead(sb_buf'[c][b][i]) => sb_buf'[c][b][i] = sb_buf[c][b][i]
WritersGoOn ==
  \A w \in Writer : step'[w] # "idle" =>
    /\ step[w] # "idle" /\ msg'[w] = msg[w]
    /\ step'[w] \in {"stamped", "checked"} => step[w] \in {"stamped", "checked"}

LEMMA HomeKept ==
  ASSUME HomeInv, NoNewHead, WritersGoOn, LogTypes',
         Len(sent') >= Len(sent), Len(sent) \in Nat, Len(sent') \in Nat
  PROVE  HomeInv'
<1>1. \A c \in Cpu, b \in Buffers, i \in Memory : \A m :
        IsHeadOf(m, sb_buf'[c][b][i]) => IsHeadOf(m, sb_buf[c][b][i])
  <2> SUFFICES ASSUME NEW c \in Cpu, NEW b \in Buffers, NEW i \in Memory, NEW m, IsHeadOf(m, sb_buf'[c][b][i])
               PROVE  IsHeadOf(m, sb_buf[c][b][i])
    OBVIOUS
  <2>1. IsHead(sb_buf'[c][b][i])
    BY DEF IsHead, IsHeadOf, Cell
  <2> QED
    BY <2>1 DEF NoNewHead
<1>2. OneHead'
  <2> SUFFICES ASSUME NEW n \in Nat, NEW d \in Cpu, NEW e \in Cpu, NEW b \in Buffers, NEW f \in Buffers,
                      NEW i \in Memory, NEW j \in Memory,
                      IsHeadOf(n, sb_buf'[d][b][i]), IsHeadOf(n, sb_buf'[e][f][j])
               PROVE  d = e /\ b = f /\ i = j
    BY DEF OneHead
  <2>1. IsHeadOf(n, sb_buf[d][b][i]) /\ IsHeadOf(n, sb_buf[e][f][j])
    BY <1>1
  <2> QED
    BY <2>1 DEF HomeInv, OneHead
<1>3. HeadsSent'
  BY DEF HomeInv, HeadsSent, NoNewHead
<1>4. NotCopied'
  BY <1>1 DEF HomeInv, NotCopied, WritersGoOn
<1>5. OwnMessage'
  BY DEF HomeInv, OwnMessage, WritersGoOn
<1> QED
  BY <1>2, <1>3, <1>4, <1>5 DEF HomeInv

\* Nothing has been copied yet.
LEMMA HomeInit == Init => HomeInv
<1> SUFFICES ASSUME Init PROVE HomeInv
  OBVIOUS
<1>1. \A c \in Cpu, b \in Buffers, i \in Memory : sb_buf[c][b][i] = Zero
  BY DEF Init
<1>2. ~IsHead(Zero) /\ \A m : ~IsHeadOf(m, Zero)
  BY DEF IsHead, IsHeadOf, Zero, Cell
<1>3. \A w \in Writer : step[w] = "idle"
  BY DEF Init
<1>4. OneHead /\ HeadsSent
  BY <1>1, <1>2 DEF OneHead, HeadsSent
<1>5. NotCopied /\ OwnMessage
  BY <1>3 DEF NotCopied, OwnMessage
<1> QED
  BY <1>4, <1>5 DEF HomeInv

\* A message that is sent is nowhere yet.
LEMMA HomeSend ==
  ASSUME CInv, CInv', HomeInv, NEW w \in Writer, NEW c \in Cpu, SendSatMsg(w, c)
  PROVE  HomeInv'
<1>1. /\ Goes(w, "idle", "stamped") /\ sb_buf' = sb_buf /\ msg' = [msg EXCEPT ![w] = Len(sent')]
      /\ \E x : sent' = Append(sent, x)
  BY DEF SendSatMsg, infoVars
<1>2. Len(sent) \in Nat /\ Len(sent') = Len(sent) + 1
  BY <1>1 DEF CInv, IInv, Types
<1>3. /\ step \in [Writer -> {"idle", "stamped", "checked", "copied"}] /\ msg \in [Writer -> Nat]
  BY DEF CInv, IInv, Types
<1>4. /\ step[w] = "idle" /\ step'[w] = "stamped" /\ msg'[w] = Len(sent) + 1
      /\ \A v \in Writer : v # w => step'[v] = step[v] /\ msg'[v] = msg[v]
  BY <1>1, <1>2, <1>3 DEF Goes
<1>5. \A v \in Writer : step[v] # "idle" => msg[v] \in 1 .. Len(sent)
  BY DEF CInv, IInv, HasMessage
<1>6. OneHead'
  BY <1>1 DEF HomeInv, OneHead
<1>7. HeadsSent'
  BY <1>1, <1>2 DEF HomeInv, HeadsSent
<1>8. NotCopied'
  <2> SUFFICES ASSUME NEW v \in Writer, step'[v] \in {"stamped", "checked"},
                      NEW d \in Cpu, NEW b \in Buffers, NEW i \in Memory
               PROVE  ~IsHeadOf(msg'[v], sb_buf[d][b][i])
    BY <1>1 DEF NotCopied
  <2>1. CASE v # w
    BY <1>4, <2>1 DEF HomeInv, NotCopied
  <2>2. CASE v = w
    <3>1. sb_buf[d][b][i] \in CellSet
      BY CellTypes DEF CInv, LogInv
    <3>2. IsHeadOf(msg'[v], sb_buf[d][b][i]) => Len(sent) + 1 \in 1 .. Len(sent)
      BY <1>4, <2>2, <3>1, HeadIs DEF HomeInv, HeadsSent
    <3> QED
      BY <1>2, <3>2
  <2> QED
    BY <2>1, <2>2
<1>9. OwnMessage'
  <2> SUFFICES ASSUME NEW u \in Writer, NEW v \in Writer, step'[u] # "idle", step'[v] # "idle",
                      msg'[u] = msg'[v], u # v
               PROVE  FALSE
    BY DEF OwnMessage
  <2>1. CASE u # w /\ v # w
    BY <1>4, <2>1 DEF HomeInv, OwnMessage
  <2>2. CASE u = w
    BY <1>2, <1>4, <1>5, <2>2
  <2>3. CASE v = w
    BY <1>2, <1>4, <1>5, <2>3
  <2> QED
    BY <2>1, <2>2, <2>3
<1> QED
  BY <1>6, <1>7, <1>8, <1>9 DEF HomeInv

\* A copy makes one head, of a message that had none.
LEMMA HomeCopy ==
  ASSUME CInv, CInv', HomeInv, NEW w \in Writer, Copy(w)
  PROVE  HomeInv'
<1> DEFINE c == place[w].cpu
           m == msg[w]
<1>1. /\ Goes(w, "checked", "copied") /\ UNCHANGED <<sent, msg>>
      /\ \E p : /\ p \in {place[w], [cpu |-> c, buf |-> active[c], pos |-> offset[c][active[c]]]}
                /\ sb_buf' = [sb_buf EXCEPT ![c][p.buf] =
                     [i \in Memory |-> IF i \in p.pos .. p.pos + Length(m) - 1
                                       THEN Cell(m, i - p.pos + 1) ELSE @[i]]]
  BY DEF Copy
<1>2. PICK q, at : q \in Buffers /\ at \in Nat /\ c \in Cpu /\
        sb_buf' = [sb_buf EXCEPT ![c][q] =
                     [i \in Memory |-> IF i \in at .. at + Length(m) - 1
                                       THEN Cell(m, i - at + 1) ELSE sb_buf[c][q][i]]]
  <2>1. PICK p : /\ p \in {place[w], [cpu |-> c, buf |-> active[c], pos |-> offset[c][active[c]]]}
                 /\ sb_buf' = [sb_buf EXCEPT ![c][p.buf] =
                     [i \in Memory |-> IF i \in p.pos .. p.pos + Length(m) - 1
                                       THEN Cell(m, i - p.pos + 1) ELSE @[i]]]
    BY <1>1
  <2>2. c \in Cpu /\ step[w] = "checked"
    BY <1>1 DEF Goes, CInv, IInv, HasPlace
  <2>3. p.buf \in Buffers /\ p.pos \in Nat
    <3>1. place[w].buf \in Buffers /\ place[w].pos \in Nat
      BY DEF CInv, IInv, Types
    <3>2. active[c] \in Buffers /\ offset[c][active[c]] \in Nat
      BY <2>2 DEF CInv, IInv, Types
    <3> HIDE DEF c
    <3> QED
      BY <2>1, <3>1, <3>2
  <2> QED
    BY <2>1, <2>2, <2>3
<1>3. m \in 1 .. Len(sent) /\ m \in Nat /\ Length(m) \in Nat /\ step[w] = "checked"
  <2>1. step[w] = "checked"
    BY <1>1 DEF Goes
  <2>2. m \in 1 .. Len(sent)
    BY <2>1 DEF CInv, IInv, HasMessage
  <2> QED
    BY <2>1, <2>2 DEF CInv, LogInv, LogTypes, Length
<1>4. /\ sb_buf \in [Cpu -> [Buffers -> [Memory -> CellSet]]]
      /\ sb_buf' \in [Cpu -> [Buffers -> [Memory -> CellSet]]]
  BY DEF CInv, LogInv, LogTypes
<1>5. ASSUME NEW d \in Cpu, NEW b \in Buffers, NEW i \in Memory
      PROVE  sb_buf'[d][b][i] = IF d = c /\ b = q /\ i \in at .. at + Length(m) - 1
                                THEN Cell(m, i - at + 1) ELSE sb_buf[d][b][i]
  <2> HIDE DEF c, m
  <2> QED
    BY <1>2, <1>4
<1> HIDE DEF c, m
\* a head is one that was there or the new one
<1>6. ASSUME NEW d \in Cpu, NEW b \in Buffers, NEW i \in Memory, NEW n, IsHeadOf(n, sb_buf'[d][b][i])
      PROVE  \/ IsHeadOf(n, sb_buf[d][b][i])
             \/ n = m /\ d = c /\ b = q /\ i = at
  <2>1. CASE d = c /\ b = q /\ i \in at .. at + Length(m) - 1
    <3>1. Cell(m, i - at + 1) = Cell(n, 1)
      BY <1>5, <1>6, <2>1 DEF IsHeadOf
    <3>2. m = n /\ i - at + 1 = 1
      BY <3>1 DEF Cell
    <3>3. i \in Nat
      BY MoreSizes
    <3> QED
      BY <1>2, <2>1, <3>2, <3>3
  <2>2. CASE ~(d = c /\ b = q /\ i \in at .. at + Length(m) - 1)
    BY <1>5, <1>6, <2>2
  <2> QED
    BY <2>1, <2>2
<1>7. \A d \in Cpu, b \in Buffers, i \in Memory : ~IsHeadOf(m, sb_buf[d][b][i])
  BY <1>3 DEF HomeInv, NotCopied, m
<1>8. OneHead'
  <2> SUFFICES ASSUME NEW n \in Nat, NEW d \in Cpu, NEW e \in Cpu, NEW b \in Buffers, NEW f \in Buffers,
                      NEW i \in Memory, NEW j \in Memory,
                      IsHeadOf(n, sb_buf'[d][b][i]), IsHeadOf(n, sb_buf'[e][f][j])
               PROVE  d = e /\ b = f /\ i = j
    BY DEF OneHead
  <2>1. \/ IsHeadOf(n, sb_buf[d][b][i])
        \/ n = m /\ d = c /\ b = q /\ i = at
    BY <1>6
  <2>2. \/ IsHeadOf(n, sb_buf[e][f][j])
        \/ n = m /\ e = c /\ f = q /\ j = at
    BY <1>6
  <2>3. CASE n = m
    BY <1>7, <2>1, <2>2, <2>3
  <2>4. CASE n # m
    BY <2>1, <2>2, <2>4 DEF HomeInv, OneHead
  <2> QED
    BY <2>3, <2>4
<1>9. HeadsSent'
  <2> SUFFICES ASSUME NEW d \in Cpu, NEW b \in Buffers, NEW i \in Memory, IsHead(sb_buf'[d][b][i])
               PROVE  sb_buf'[d][b][i].of \in 1 .. Len(sent)
    BY <1>1 DEF HeadsSent
  <2>1. sb_buf'[d][b][i] \in CellSet /\ sb_buf[d][b][i] \in CellSet
    BY <1>4
  <2>2. PICK n : n = sb_buf'[d][b][i].of
    OBVIOUS
  <2>3. IsHeadOf(n, sb_buf'[d][b][i])
    BY <2>1, <2>2, HeadIs
  <2>4. CASE IsHeadOf(n, sb_buf[d][b][i])
    <3>1. IsHead(sb_buf[d][b][i]) /\ sb_buf[d][b][i].of = n
      BY <2>1, <2>4, HeadIs
    <3> QED
      BY <2>2, <3>1 DEF HomeInv, HeadsSent
  <2>5. CASE n = m
    BY <1>3, <2>2, <2>5
  <2> QED
    BY <1>6, <2>3, <2>4, <2>5
<1>10. /\ step'[w] = "copied" /\ \A v \in Writer : v # w => step'[v] = step[v]
       /\ msg' = msg
  BY <1>1 DEF Goes, CInv, IInv, Types
<1>11. NotCopied'
  <2> SUFFICES ASSUME NEW v \in Writer, step'[v] \in {"stamped", "checked"},
                      NEW d \in Cpu, NEW b \in Buffers, NEW i \in Memory, IsHeadOf(msg[v], sb_buf'[d][b][i])
               PROVE  FALSE
    BY <1>10 DEF NotCopied
  <2>1. v # w /\ step[v] \in {"stamped", "checked"}
    BY <1>10
  <2>2. msg[v] # m
    BY <1>3, <2>1 DEF HomeInv, OwnMessage, m
  <2>3. IsHeadOf(msg[v], sb_buf[d][b][i])
    BY <1>6, <2>2
  <2> QED
    BY <2>1, <2>3 DEF HomeInv, NotCopied
<1>12. OwnMessage'
  <2>1. \A v \in Writer : step'[v] # "idle" => step[v] # "idle"
    BY <1>3, <1>10
  <2> QED
    BY <1>10, <2>1 DEF HomeInv, OwnMessage
<1> QED
  BY <1>8, <1>9, <1>11, <1>12 DEF HomeInv

\* The buffers, the messages and the writers stay or a writer gives its message up.
LEMMA HomeStill ==
  ASSUME CInv, CInv', HomeInv, sb_buf' = sb_buf, sent' = sent, WritersGoOn
  PROVE  HomeInv'
<1>1. NoNewHead
  BY DEF NoNewHead
<1>2. Len(sent) \in Nat
  BY DEF CInv, IInv, Types
<1>3. LogTypes'
  BY DEF CInv, LogInv
<1> QED
  BY <1>1, <1>2, <1>3, HomeKept

\* A reset leaves no head in the buffers it clears.
LEMMA HomeReset ==
  ASSUME CInv, CInv', HomeInv, NEW c \in Cpu, SbReset(c)
  PROVE  HomeInv'
<1>1. /\ sb_buf' = [sb_buf EXCEPT ![c] =
               [b \in Buffers |-> IF b \in InUse
                                  THEN [i \in Memory |-> IF i = 0 THEN Version ELSE Zero]
                                  ELSE @[b]]]
      /\ sent' = sent /\ step' = step /\ msg' = msg
  BY DEF SbReset, writerVars
<1>2. sb_buf \in [Cpu -> [Buffers -> [Memory -> CellSet]]]
  BY DEF CInv, LogInv, LogTypes
<1>3. ~IsHead(Version) /\ ~IsHead(Zero)
  BY DEF IsHead, Version, Zero
<1>4. NoNewHead
  <2> SUFFICES ASSUME NEW d \in Cpu, NEW b \in Buffers, NEW i \in Memory, IsHead(sb_buf'[d][b][i])
               PROVE  sb_buf'[d][b][i] = sb_buf[d][b][i]
    BY DEF NoNewHead
  <2>1. CASE d = c /\ b \in InUse
    <3>1. sb_buf'[d][b][i] = IF i = 0 THEN Version ELSE Zero
      BY <1>1, <1>2, <2>1
    <3> QED
      BY <1>3, <3>1
  <2>2. CASE ~(d = c /\ b \in InUse)
    BY <1>1, <1>2, <2>2
  <2> QED
    BY <2>1, <2>2
<1>5. WritersGoOn
  BY <1>1 DEF WritersGoOn
<1>6. Len(sent) \in Nat /\ LogTypes'
  BY DEF CInv, IInv, Types, LogInv
<1> QED
  BY <1>1, <1>4, <1>5, <1>6, HomeKept

\* A writer goes on with its message, or without one.
LEMMA HomeGoes ==
  ASSUME CInv, NEW w \in Writer, NEW from, NEW to, Goes(w, from, to),
         to # "idle" => from \in {"stamped", "checked"} /\ msg' = msg,
         \A v \in Writer : v # w => msg'[v] = msg[v],
         to = "checked" => from = "stamped", to \in {"idle", "checked", "copied"}
  PROVE  WritersGoOn
<1>1. step \in [Writer -> {"idle", "stamped", "checked", "copied"}]
  BY DEF CInv, IInv, Types
<1> QED
  BY <1>1 DEF Goes, WritersGoOn

\* Each step keeps it.
LEMMA HomeStep == CInv /\ CInv' /\ HomeInv /\ [Next]_vars => HomeInv'
<1> SUFFICES ASSUME CInv, CInv', HomeInv, [Next]_vars PROVE HomeInv'
  OBVIOUS
<1>1. CASE Start
  <2>1. sb_buf' = sb_buf /\ sent' = sent /\ step' = step /\ msg' = msg
    BY <1>1 DEF Start, infoVars, writerVars
  <2> QED
    BY <2>1, HomeStill DEF WritersGoOn
<1>2. ASSUME NEW c \in Cpu, SbReset(c) PROVE HomeInv'
  BY <1>2, HomeReset
<1>3. CASE Stop
  <2>1. sb_buf' = sb_buf /\ sent' = sent /\ step' = step /\ msg' = msg
    BY <1>3 DEF Stop, infoVars, writerVars
  <2> QED
    BY <2>1, HomeStill DEF WritersGoOn
<1>4. ASSUME NEW w \in Writer, NEW c \in Cpu, SendSatMsg(w, c) PROVE HomeInv'
  BY <1>4, HomeSend
<1>5. ASSUME NEW w \in Writer, NEW c \in Cpu, Check(w, c) PROVE HomeInv'
  <2>1. sb_buf' = sb_buf /\ sent' = sent /\ msg' = msg /\ Goes(w, "stamped", "checked")
    BY <1>5 DEF Check, infoVars
  <2>2. WritersGoOn
    BY <2>1, HomeGoes
  <2> QED
    BY <2>1, <2>2, HomeStill
<1>6. ASSUME NEW w \in Writer, NEW c \in Cpu, Drop(w, c) PROVE HomeInv'
  <2>1. sb_buf' = sb_buf /\ sent' = sent /\ msg' = [msg EXCEPT ![w] = 0] /\ Goes(w, "stamped", "idle")
    BY <1>6 DEF Drop, infoVars
  <2>2. \A v \in Writer : v # w => msg'[v] = msg[v]
    BY <2>1 DEF CInv, IInv, Types
  <2>3. WritersGoOn
    BY <2>1, <2>2, HomeGoes
  <2> QED
    BY <2>1, <2>3, HomeStill
<1>7. ASSUME NEW w \in Writer, Copy(w) PROVE HomeInv'
  BY <1>7, HomeCopy
<1>8. ASSUME NEW w \in Writer, Add(w) PROVE HomeInv'
  <2>1. sb_buf' = sb_buf /\ sent' = sent /\ msg' = [msg EXCEPT ![w] = 0] /\ Goes(w, "copied", "idle")
    BY <1>8 DEF Add
  <2>2. \A v \in Writer : v # w => msg'[v] = msg[v]
    BY <2>1 DEF CInv, IInv, Types
  <2>3. WritersGoOn
    BY <2>1, <2>2, HomeGoes
  <2> QED
    BY <2>1, <2>3, HomeStill
<1>9. CASE UNCHANGED vars
  <2>1. sb_buf' = sb_buf /\ sent' = sent /\ step' = step /\ msg' = msg
    BY <1>9 DEF vars, infoVars, writerVars
  <2> QED
    BY <2>1, HomeStill DEF WritersGoOn
<1> QED
  BY <1>1, <1>2, <1>3, <1>4, <1>5, <1>6, <1>7, <1>8, <1>9 DEF Next

\* A message has been copied to one place at most, of one CPU, whatever came
\* between the steps of its writer, and by one writer.
THEOREM OnePlace == Spec => [](CInv /\ HomeInv)
<1>1. Init => CInv
  BY InitIInv, InitLogInv DEF CInv
<1>2. CInv /\ HomeInv /\ [Next]_vars => (CInv /\ HomeInv)'
  BY LogPreserved, HomeStep
<1> QED
  BY <1>1, <1>2, HomeInit, PTL DEF Spec

-----------------------------------------------------------------------------
(* What the parser of any file finds *)

\* No message is found twice, and each is one that was sent.
FoundOnce(messages) ==
  /\ messages \in Seq(Nat)
  /\ \A i \in 1 .. Len(messages) : messages[i] # Torn => messages[i] \in 1 .. Len(sent)
  /\ \A i, j \in 1 .. Len(messages) : messages[i] = messages[j] /\ messages[i] # Torn => i = j

\* The head of each message that is found lies in the file.
HeadsIn(d, messages) ==
  \A i \in 1 .. Len(messages) : messages[i] # Torn =>
    \E p \in Memory : IsHeadOf(messages[i], sb_buf[d][0][p])

\* The values of the parser's loop: a head that was found lies before the place
\* the parser is at.
HeadBefore(d, m, at) == \E p \in Memory : p + 1 < at /\ IsHeadOf(m, sb_buf[d][0][p])
ParserStates(d) ==
  {v \in [at : Nat, found : Seq(Nat)] :
     /\ FoundOnce(v.found)
     /\ \A i \in 1 .. Len(v.found) : v.found[i] # Torn => HeadBefore(d, v.found[i], v.at)}

\* A round of it adds a message that was not found yet, or nothing.
LEMMA ParserRound ==
  ASSUME CInv, HomeInv, NEW d \in Cpu, NEW N \in Nat, NEW file, Len(file) = N,
         \A i \in 1 .. N : i - 1 \in Memory /\ file[i] = sb_buf[d][0][i - 1],
         NEW v \in ParserStates(d)
  PROVE  ParseMessage(file, v) \in ParserStates(d)
<1>1. v.at \in Nat /\ v.found \in Seq(Nat) /\ FoundOnce(v.found)
      /\ \A i \in 1 .. Len(v.found) : v.found[i] # Torn => HeadBefore(d, v.found[i], v.at)
  BY DEF ParserStates
<1>2. CASE ParseMessage(file, v) = v
  BY <1>2
<1>3. CASE ParseMessage(file, v) # v
  <2>1. PICK at, found, m : at = v.at /\ found = v.found /\ m = file[at].of
    OBVIOUS
  <2>2. /\ at \in 1 .. N /\ IsHead(file[at])
        /\ ParseMessage(file, v) = [at |-> at + Length(m),
                                    found |-> Append(found, IF Whole(file, at, m) THEN m ELSE Torn)]
    BY <1>3, <2>1 DEF ParseMessage
  <2>3. file[at] = sb_buf[d][0][at - 1] /\ at - 1 \in Memory /\ 0 \in Buffers
    BY <2>2 DEF Buffers
  <2>4. m \in 1 .. Len(sent) /\ IsHeadOf(m, sb_buf[d][0][at - 1])
    <3>1. sb_buf[d][0][at - 1] \in CellSet
      BY <2>3, CellTypes DEF CInv, LogInv
    <3>2. m \in 1 .. Len(sent)
      BY <2>1, <2>2, <2>3 DEF HomeInv, HeadsSent
    <3> QED
      BY <2>1, <2>2, <2>3, <3>1, <3>2, HeadIs
  <2>5. Length(m) \in Nat /\ Length(m) >= 1 /\ Len(sent) \in Nat
    BY <2>4 DEF CInv, LogInv, LogTypes, IInv, Types, Length
  <2>6. PICK n : n \in {m, Torn} /\ n = IF Whole(file, at, m) THEN m ELSE Torn
    OBVIOUS
  <2>7. n \in Nat /\ (n # Torn => n = m)
    BY <2>4, <2>6 DEF Torn
  <2>8. PICK more, next : /\ more = Append(found, n) /\ next = at + Length(m)
                          /\ next \in Nat /\ next > at /\ at \in Nat
    <3>1. at \in Nat
      BY <1>1, <2>1
    <3>2. at + Length(m) \in Nat /\ at + Length(m) > at
      BY <2>5, <3>1
    <3> QED
      BY <3>1, <3>2
  <2>9. /\ more \in Seq(Nat) /\ Len(found) \in Nat /\ Len(more) = Len(found) + 1
        /\ more[Len(found) + 1] = n
        /\ \A j \in 1 .. Len(found) : more[j] = found[j]
    BY <1>1, <2>1, <2>7, <2>8, AppendIs
  <2>10. \A i \in 1 .. Len(found) : found[i] # Torn => HeadBefore(d, found[i], at)
    BY <1>1, <2>1
  <2>11. \A i \in 1 .. Len(found) : found[i] # Torn => found[i] # m
    <3> SUFFICES ASSUME NEW i \in 1 .. Len(found), found[i] # Torn, found[i] = m PROVE FALSE
      OBVIOUS
    <3>1. PICK p \in Memory : p + 1 < at /\ IsHeadOf(m, sb_buf[d][0][p])
      BY <2>10 DEF HeadBefore
    <3>2. p = at - 1
      <4>1. OneHead /\ m \in Nat
        BY <2>4, <2>5 DEF HomeInv
      <4>2. PICK q \in Memory : q = at - 1
        BY <2>3
      <4>3. IsHeadOf(m, sb_buf[d][0][q])
        BY <2>4, <4>2
      <4>4. \A c, e \in Cpu, b, f \in Buffers, x, y \in Memory :
              IsHeadOf(m, sb_buf[c][b][x]) /\ IsHeadOf(m, sb_buf[e][f][y]) => c = e /\ b = f /\ x = y
        BY <4>1 DEF OneHead
      <4>5. p = q
        BY <2>3, <3>1, <4>3, <4>4
      <4> QED
        BY <4>2, <4>5
    <3>3. p \in Nat
      BY <3>1, MoreSizes
    <3> QED
      BY <2>8, <3>1, <3>2, <3>3
  <2>12. FoundOnce(more)
    <3>1. ASSUME NEW i \in 1 .. Len(more), more[i] # Torn PROVE more[i] \in 1 .. Len(sent)
      <4>1. CASE i \in 1 .. Len(found)
        BY <1>1, <2>1, <2>9, <3>1, <4>1 DEF FoundOnce
      <4>2. CASE i = Len(found) + 1
        BY <2>4, <2>7, <2>9, <3>1, <4>2
      <4> QED
        BY <2>9, <4>1, <4>2
    <3>2. ASSUME NEW i \in 1 .. Len(more), NEW j \in 1 .. Len(more),
                 more[i] = more[j], more[i] # Torn
          PROVE  i = j
      <4>1. CASE i \in 1 .. Len(found) /\ j \in 1 .. Len(found)
        BY <1>1, <2>1, <2>9, <3>2, <4>1 DEF FoundOnce
      <4>2. CASE i = Len(found) + 1 /\ j \in 1 .. Len(found)
        BY <2>7, <2>9, <2>11, <3>2, <4>2
      <4>3. CASE i \in 1 .. Len(found) /\ j = Len(found) + 1
        BY <2>7, <2>9, <2>11, <3>2, <4>3
      <4> QED
        BY <2>9, <4>1, <4>2, <4>3
    <3> QED
      BY <2>9, <3>1, <3>2 DEF FoundOnce
  <2>13. ASSUME NEW i \in 1 .. Len(more), more[i] # Torn PROVE HeadBefore(d, more[i], next)
    <3>1. CASE i \in 1 .. Len(found)
      <4>1. PICK p \in Memory : p + 1 < at /\ IsHeadOf(found[i], sb_buf[d][0][p])
        BY <2>9, <2>10, <2>13, <3>1 DEF HeadBefore
      <4>2. p + 1 < next
        BY <2>8, <4>1, MoreSizes
      <4> QED
        BY <2>9, <3>1, <4>1, <4>2 DEF HeadBefore
    <3>2. CASE i = Len(found) + 1
      <4>1. (at - 1) + 1 < next
        BY <2>8
      <4> QED
        BY <2>3, <2>4, <2>7, <2>9, <2>13, <3>2, <4>1 DEF HeadBefore
    <3> QED
      BY <2>9, <3>1, <3>2
  <2>14. ParseMessage(file, v) = [at |-> next, found |-> more]
    BY <2>2, <2>6, <2>8
  <2>15. PICK w : w = [at |-> next, found |-> more]
    OBVIOUS
  <2>16. w.at = next /\ w.found = more /\ w \in [at : Nat, found : Seq(Nat)]
    BY ONLY <2>8, <2>9, <2>15
  <2>17. w \in ParserStates(d)
    BY <2>12, <2>13, <2>16 DEF ParserStates
  <2> QED
    BY <2>14, <2>15, <2>17
<1> QED
  BY <1>2, <1>3

\* Whatever came between its writers, the parser of a CPU's file finds a message
\* once or not at all.
LEMMA ParsedIs ==
  ASSUME CInv, HomeInv, ~ring, InMemory, NEW d \in Cpu
  PROVE  FoundOnce(Parsed(File(d, 2))) /\ HeadsIn(d, Parsed(File(d, 2)))
<1>1. PICK file, N : /\ file = File(d, 2) /\ N = offset[d][0] /\ N \in Nat
                     /\ file = [i \in 1 .. N |-> sb_buf[d][0][i - 1]]
  BY PlainReads
<1>2. Len(file) = N /\ \A i \in 1 .. N : file[i] = sb_buf[d][0][i - 1]
  <2>1. file = [i \in 1 .. N |-> file[i]]
    BY <1>1
  <2> QED
    BY <1>1, <2>1, IsSequence
<1>3. N <= MemSize + 1
  BY <1>1 DEF InMemory, TotalSize, CInv, IInv, SecondUnused
<1>4. \A i \in 1 .. N : i - 1 \in Memory
  BY <1>1, <1>3, MoreSizes
<1> DEFINE T == ParserStates(d)
           versions == IF file # <<>> /\ file[1] = Version THEN 1 ELSE 0
           first == [at |-> versions + 1, found |-> <<>>]
           Parses(f) == f = [i \in 0 .. N |-> IF i = 0 THEN first ELSE ParseMessage(file, f[i - 1])]
           state == CHOOSE f : Parses(f)
           turn == [i \in 1 .. N |-> [v \in T |-> ParseMessage(file, v)]]
<1>5. Parsed(file) = state[N].found
  BY <1>2 DEF Parsed, ParsedTo
<1>6. first \in T
  <2>1. versions + 1 \in Nat
    OBVIOUS
  <2>2. <<>> \in Seq(Nat) /\ Len(<<>>) = 0
    OBVIOUS
  <2>3. PICK x, y : x = versions + 1 /\ y = <<>>
    OBVIOUS
  <2>4. first = [at |-> x, found |-> y]
    BY <2>3
  <2>5. 1 .. Len(y) = {}
    BY <2>2, <2>3
  <2>6. FoundOnce(y)
    BY <2>2, <2>3, <2>5 DEF FoundOnce
  <2>7. [at |-> x, found |-> y] \in ParserStates(d)
    <3>1. PICK w : w = [at |-> x, found |-> y]
      OBVIOUS
    <3>2. w.at = x /\ w.found = y /\ w \in [at : Nat, found : Seq(Nat)]
      BY ONLY <2>1, <2>2, <2>3, <3>1
    <3> QED
      BY <2>5, <2>6, <3>1, <3>2 DEF ParserStates
  <2> QED
    BY <2>4, <2>7
<1>7. ASSUME NEW v \in T PROVE ParseMessage(file, v) \in T
  BY <1>1, <1>2, <1>4, <1>7, ParserRound
<1>8. turn \in [1 .. N -> [T -> T]]
  BY <1>7
<1>9. \A i \in 1 .. N : \A v \in T : turn[i][v] = ParseMessage(file, v)
  OBVIOUS
<1> HIDE DEF T, first, turn
<1>10. PICK g \in [0 .. N -> T] : Rounds(g, N, first, turn)
  BY <1>1, <1>6, <1>8, LoopExists
<1>11. Parses(g)
  <2>1. \A i \in 0 .. N : g[i] = IF i = 0 THEN first ELSE ParseMessage(file, g[i - 1])
    <3> SUFFICES ASSUME NEW i \in 0 .. N, i # 0 PROVE g[i] = ParseMessage(file, g[i - 1])
      BY <1>10 DEF Rounds
    <3>1. i \in 1 .. N /\ i - 1 \in 0 .. N
      BY <1>1
    <3>2. g[i - 1] \in T
      BY <3>1
    <3> QED
      BY <1>9, <1>10, <3>1, <3>2 DEF Rounds
  <2> QED
    BY <2>1, Zenon
<1>12. Parses(state)
  BY <1>11
<1> HIDE DEF state
<1>13. \A i \in 0 .. N : state[i] = IF i = 0 THEN first ELSE ParseMessage(file, state[i - 1])
  BY <1>12, Zenon
<1> HIDE DEF Parses
<1> DEFINE S == {i \in Nat : i <= N => state[i] \in T}
<1>14. 0 \in S
  BY <1>1, <1>6, <1>13
<1>15. \A i \in Nat : i \in S => i + 1 \in S
  <2> SUFFICES ASSUME NEW i \in Nat, i <= N => state[i] \in T, i + 1 <= N PROVE state[i + 1] \in T
    OBVIOUS
  <2>1. state[i] \in T /\ i + 1 \in 0 .. N /\ i + 1 # 0 /\ (i + 1) - 1 = i
    BY <1>1
  <2> QED
    BY <1>7, <1>13, <2>1
<1> HIDE DEF S
<1>16. state[N] \in T
  <2>1. N \in S
    BY <1>1, <1>14, <1>15, SetInduction
  <2> QED
    BY <1>1, <2>1 DEF S
<1>17. FoundOnce(state[N].found) /\ HeadsIn(d, state[N].found)
  BY <1>16 DEF T, ParserStates, HeadBefore, HeadsIn
<1> QED
  BY <1>1, <1>5, <1>17

\* A message that is found in two files is found in one: at one place.
LEMMA FilesDiffer ==
  ASSUME HomeInv, NEW c \in Cpu, NEW d \in Cpu, NEW m \in Nat, m # Torn,
         NEW s, NEW t, HeadsIn(c, s), HeadsIn(d, t),
         NEW i \in 1 .. Len(s), NEW j \in 1 .. Len(t), s[i] = m, t[j] = m
  PROVE  c = d
<1>1. PICK p \in Memory : IsHeadOf(m, sb_buf[c][0][p])
  BY DEF HeadsIn
<1>2. PICK q \in Memory : IsHeadOf(m, sb_buf[d][0][q])
  BY DEF HeadsIn
<1>3. 0 \in Buffers
  BY DEF Buffers
<1> QED
  BY <1>1, <1>2, <1>3 DEF HomeInv, OneHead

-----------------------------------------------------------------------------
(* The lines of the combined file *)

Stamp(m) == sent[m].tscp

\* Each message of P has one line, and all the lines between its timestamp and
\* that one are taken.
HasLine(lines, m) ==
  \E k \in DOMAIN lines : lines[k] = m /\ Stamp(m) <= k /\ Stamp(m) .. k \subseteq DOMAIN lines
LinesOk(lines, P) ==
  /\ IsFiniteSet(DOMAIN lines) /\ DOMAIN lines \subseteq Int
  /\ lines \in [DOMAIN lines -> P]
  /\ \A m \in P : HasLine(lines, m)
  /\ \A k, l \in DOMAIN lines : lines[k] = lines[l] => k = l

\* From a timestamp on there is one that is free, and all before it are taken.
IsFree(lines, t, k) == k \in Int /\ t <= k /\ k \notin DOMAIN lines /\ t .. k - 1 \subseteq DOMAIN lines

LEMMA FreeKeyIs ==
  ASSUME NEW lines, IsFiniteSet(DOMAIN lines), DOMAIN lines \subseteq Int, NEW t \in Int
  PROVE  IsFree(lines, t, FreeKey(lines, t))
<1>1. PICK D, n : D = DOMAIN lines /\ n = Cardinality(D) /\ n \in Nat
  BY FS_CardinalityType
<1>2. \E x \in 0 .. n : t + x \notin D
  <2> SUFFICES ASSUME \A x \in 0 .. n : t + x \in D PROVE FALSE
    OBVIOUS
  <2>1. t .. t + n \subseteq D
    <3> SUFFICES ASSUME NEW y \in t .. t + n PROVE y \in D
      OBVIOUS
    <3>1. y - t \in 0 .. n /\ t + (y - t) = y
      BY <1>1
    <3> QED
      BY <3>1
  <2>2. Cardinality(t .. t + n) <= n
    <3>1. t .. t + n \in SUBSET D
      BY <2>1
    <3> QED
      BY <1>1, <3>1, FS_Subset
  <2>3. Cardinality(t .. t + n) = n + 1
    <3>1. t + n \in Int /\ ~(t > t + n) /\ (t + n) - t + 1 = n + 1
      BY <1>1
    <3>2. Cardinality(t .. t + n) = IF t > t + n THEN 0 ELSE (t + n) - t + 1
      BY <3>1, FS_Interval
    <3> QED
      BY <3>1, <3>2
  <2> QED
    BY <1>1, <2>2, <2>3
<1> DEFINE Free == {x \in Nat : t + x \notin D}
<1>3. PICK z \in 0 .. n : t + z \notin D
  BY <1>2
<1>4. PICK x \in Free : \A y \in Free : x <= y
  <2>1. Free # {} /\ Free \subseteq Nat
    <3>1. z \in Nat
      BY <1>1
    <3>2. z \in Free
      BY <1>3, <3>1
    <3> QED
      BY <3>2
  <2> HIDE DEF Free
  <2> QED
    BY <2>1, LeastElement
<1>5. x \in Nat /\ x <= n /\ t + x \notin D
  BY <1>1, <1>3, <1>4
<1>6. t .. (t + x) - 1 \subseteq D
  <2> SUFFICES ASSUME NEW y \in t .. (t + x) - 1, y \notin D PROVE FALSE
    OBVIOUS
  <2>1. y - t \in Nat /\ t + (y - t) = y /\ ~(x <= y - t)
    BY <1>5
  <2> QED
    BY <1>4, <2>1
<1>7. t + x \in t .. t + n
  BY <1>1, <1>5
<1>8. \E k \in t .. t + Cardinality(DOMAIN lines) : k \notin DOMAIN lines /\ t .. k - 1 \subseteq DOMAIN lines
  BY <1>1, <1>5, <1>6, <1>7
<1>9. PICK k : k = FreeKey(lines, t)
  OBVIOUS
<1>10. k \in t .. t + Cardinality(DOMAIN lines) /\ k \notin DOMAIN lines /\ t .. k - 1 \subseteq DOMAIN lines
  BY <1>8, <1>9 DEF FreeKey
<1>11. k \in Int /\ t <= k
  BY <1>1, <1>10
<1> QED
  BY <1>9, <1>10, <1>11 DEF IsFree

\* A line is added for a message, behind those of its CPU that were stamped before.
Added(new, lines, m, key) ==
  /\ key \in Int /\ key \notin DOMAIN lines
  /\ DOMAIN new = DOMAIN lines \cup {key} /\ new[key] = m
  /\ \A k \in DOMAIN lines : new[k] = lines[k]
  /\ \A k \in DOMAIN lines : Stamp(lines[k]) <= Stamp(m) => k < key

LEMMA LineAdded ==
  ASSUME NEW lines, NEW P, LinesOk(lines, P), NEW m, m \notin P, Stamp(m) \in Int,
         \A n \in P : Stamp(n) \in Int,
         NEW new, new = HeaderAndBinary(lines, m)
  PROVE  LinesOk(new, P \cup {m}) /\ \E key : Added(new, lines, m, key)
<1>1. PICK key, t : key = FreeKey(lines, t) /\ t = Stamp(m)
  OBVIOUS
<1>2. /\ key \in Int /\ t \in Int /\ t <= key /\ key \notin DOMAIN lines
      /\ t .. key - 1 \subseteq DOMAIN lines
  BY <1>1, FreeKeyIs DEF LinesOk, IsFree
<1>3. new = [k \in DOMAIN lines \cup {key} |-> IF k = key THEN m ELSE lines[k]]
  BY <1>1 DEF HeaderAndBinary, Stamp
<1>4. /\ DOMAIN new = DOMAIN lines \cup {key} /\ new[key] = m
      /\ \A k \in DOMAIN lines : new[k] = lines[k]
  BY <1>2, <1>3
<1>5. ASSUME NEW k \in DOMAIN lines, Stamp(lines[k]) <= t PROVE k < key
  <2>1. lines[k] \in P /\ k \in Int
    BY DEF LinesOk
  <2>2. PICK l \in DOMAIN lines : lines[l] = lines[k] /\ Stamp(lines[k]) .. l \subseteq DOMAIN lines
    BY <2>1 DEF LinesOk, HasLine
  <2>3. l = k
    BY <2>2 DEF LinesOk
  <2>4. key \notin Stamp(lines[k]) .. k
    BY <1>2, <2>2, <2>3
  <2>5. Stamp(lines[k]) \in Int
    BY <2>1
  <2> QED
    BY <1>2, <1>5, <2>1, <2>4, <2>5
<1>6. Added(new, lines, m, key)
  BY <1>1, <1>2, <1>4, <1>5 DEF Added
<1>7. IsFiniteSet(DOMAIN new) /\ DOMAIN new \subseteq Int
  BY <1>2, <1>4, FS_AddElement DEF LinesOk
<1>8. new \in [DOMAIN new -> P \cup {m}]
  <2>1. \A k \in DOMAIN lines : lines[k] \in P
    BY DEF LinesOk
  <2> QED
    BY <1>3, <2>1
<1>9. ASSUME NEW n \in P \cup {m} PROVE HasLine(new, n)
  <2>1. CASE n = m
    <3>1. t .. key \subseteq DOMAIN new
      <4>1. \A y \in t .. key : y = key \/ y \in t .. key - 1
        BY <1>2
      <4> QED
        BY <1>2, <1>4, <4>1
    <3> QED
      BY <1>1, <1>2, <1>4, <2>1, <3>1 DEF HasLine
  <2>2. CASE n \in P
    <3>1. PICK k \in DOMAIN lines : lines[k] = n /\ Stamp(n) <= k /\ Stamp(n) .. k \subseteq DOMAIN lines
      BY <2>2 DEF LinesOk, HasLine
    <3> QED
      BY <1>4, <3>1 DEF HasLine
  <2> QED
    BY <2>1, <2>2
<1>10. ASSUME NEW k \in DOMAIN new, NEW l \in DOMAIN new, new[k] = new[l] PROVE k = l
  <2>1. \A j \in DOMAIN lines : new[j] = lines[j] /\ lines[j] \in P
    BY <1>4 DEF LinesOk
  <2>2. CASE k = key \/ l = key
    BY <1>4, <1>10, <2>1, <2>2
  <2>3. CASE k # key /\ l # key
    BY <1>4, <1>10, <2>1, <2>3 DEF LinesOk
  <2> QED
    BY <2>2, <2>3
<1> QED
  BY <1>6, <1>7, <1>8, <1>9, <1>10 DEF LinesOk

\* The messages of one file keep their order where their timestamps have it.
OrderedUpto(lines, s, n) ==
  \A i, j \in 1 .. n : i < j /\ s[i] # Torn /\ s[j] # Torn /\ Stamp(s[i]) <= Stamp(s[j]) =>
    \A k, l \in DOMAIN lines : lines[k] = s[i] /\ lines[l] = s[j] => k < l
GoesOn(new, lines) == DOMAIN lines \subseteq DOMAIN new /\ \A k \in DOMAIN lines : new[k] = lines[k]
Among(s, n) == {s[i] : i \in 1 .. n} \ {Torn}

\* The messages that were sent have timestamps.
LEMMA Stamps ==
  ASSUME CInv
  PROVE  Len(sent) \in Nat /\ \A m \in 1 .. Len(sent) : Stamp(m) \in Int
<1>1. sent \in Seq(Messages)
  BY DEF CInv, IInv, Types
<1>2. \A m \in 1 .. Len(sent) : sent[m] \in Messages
  BY <1>1
<1> QED
  BY <1>1, <1>2 DEF Stamp, Messages

\* A round of the loop over the messages of a file
LEMMA LineRound ==
  ASSUME CInv, NEW s, FoundOnce(s), NEW P, P \subseteq 1 .. Len(sent), P \cap Among(s, Len(s)) = {},
         NEW n \in 1 .. Len(s), NEW v, LinesOk(v, P \cup Among(s, n - 1)), OrderedUpto(v, s, n - 1),
         NEW new, new = IF s[n] = Torn THEN v ELSE HeaderAndBinary(v, s[n])
  PROVE  LinesOk(new, P \cup Among(s, n)) /\ OrderedUpto(new, s, n) /\ GoesOn(new, v)
<1>1. /\ Len(s) \in Nat /\ n \in Nat /\ n >= 1 /\ n - 1 \in Nat
      /\ \A i \in 1 .. n : i \in 1 .. Len(s) /\ (i = n \/ i \in 1 .. n - 1)
  BY DEF FoundOnce
<1>2. \A i \in 1 .. n - 1 : i \in 1 .. n /\ i # n
  BY <1>1
<1>3. CASE s[n] = Torn
  <2>1. Among(s, n) = Among(s, n - 1)
    BY <1>1, <1>2, <1>3 DEF Among
  <2>2. OrderedUpto(v, s, n)
    BY <1>1, <1>3 DEF OrderedUpto
  <2> QED
    BY <1>3, <2>1, <2>2 DEF GoesOn
<1>4. CASE s[n] # Torn
  <2>1. PICK m, Q : m = s[n] /\ Q = P \cup Among(s, n - 1)
    OBVIOUS
  <2>2. \A i \in 1 .. n - 1 : s[i] # m
    BY <1>1, <1>2, <1>4, <2>1 DEF FoundOnce
  <2>3. m \notin Q
    <3>1. m \in Among(s, Len(s))
      BY <1>4, <2>1 DEF Among
    <3> QED
      BY <2>1, <2>2, <3>1 DEF Among
  <2>4. m \in 1 .. Len(sent) /\ Q \subseteq 1 .. Len(sent)
    BY <1>1, <1>2, <1>4, <2>1 DEF FoundOnce, Among
  <2>5. /\ LinesOk(v, Q) /\ Stamp(m) \in Int /\ \A q \in Q : Stamp(q) \in Int
        /\ new = HeaderAndBinary(v, m)
    BY <1>4, <2>1, <2>4, Stamps
  <2>6. LinesOk(new, Q \cup {m}) /\ \E key : Added(new, v, m, key)
    BY <2>3, <2>5, LineAdded
  <2>7. PICK key : Added(new, v, m, key)
    BY <2>6
  <2>8. Q \cup {m} = P \cup Among(s, n)
    <3>1. Among(s, n) = Among(s, n - 1) \cup {m}
      BY <1>1, <1>2, <1>4, <2>1 DEF Among
    <3> QED
      BY <2>1, <3>1
  <2>9. GoesOn(new, v)
    BY <2>7 DEF Added, GoesOn
  <2>10. ASSUME NEW i \in 1 .. n, NEW j \in 1 .. n, i < j, s[i] # Torn, s[j] # Torn,
                Stamp(s[i]) <= Stamp(s[j]),
                NEW k \in DOMAIN new, NEW l \in DOMAIN new, new[k] = s[i], new[l] = s[j]
         PROVE  k < l
    <3>1. i \in 1 .. n - 1
      BY <1>1, <2>10
    <3>2. k \in DOMAIN v /\ v[k] = s[i]
      BY <2>2, <2>7, <2>10, <3>1 DEF Added
    <3>3. CASE j = n
      <4>1. l = key
        <5>1. l \in DOMAIN v => v[l] \in Q /\ v[l] = m
          BY <2>1, <2>5, <2>7, <2>10, <3>3 DEF Added, LinesOk
        <5> QED
          BY <2>3, <2>7, <5>1 DEF Added
      <4> QED
        BY <2>1, <2>7, <2>10, <3>2, <3>3, <4>1 DEF Added
    <3>4. CASE j # n
      <4>1. j \in 1 .. n - 1
        BY <1>1, <3>4
      <4>2. l \in DOMAIN v /\ v[l] = s[j]
        BY <2>2, <2>7, <2>10, <4>1 DEF Added
      <4> QED
        BY <2>10, <3>1, <3>2, <4>1, <4>2 DEF OrderedUpto
    <3> QED
      BY <3>3, <3>4
  <2>11. OrderedUpto(new, s, n)
    BY <2>10 DEF OrderedUpto
  <2> QED
    BY <2>6, <2>8, <2>9, <2>11
<1> QED
  BY <1>3, <1>4

\* Whatever lines there may be
AllLines == UNION {[D -> Nat] : D \in SUBSET Int}

LEMMA LinesAre ==
  ASSUME NEW lines, NEW P, P \subseteq Nat, LinesOk(lines, P)
  PROVE  lines \in AllLines
<1>1. lines \in [DOMAIN lines -> Nat] /\ DOMAIN lines \in SUBSET Int
  BY DEF LinesOk
<1> QED
  BY <1>1 DEF AllLines

LEMMA GoesOnFurther ==
  ASSUME NEW a, NEW b, NEW c, GoesOn(b, a), GoesOn(c, b)
  PROVE  GoesOn(c, a)
BY DEF GoesOn

\* A file adds its messages to the lines.
LEMMA FileAdded ==
  ASSUME CInv, NEW s, FoundOnce(s), NEW P, P \subseteq 1 .. Len(sent), P \cap Among(s, Len(s)) = {},
         NEW lines, LinesOk(lines, P), NEW new, new = WithFile(lines, s)
  PROVE  LinesOk(new, P \cup Among(s, Len(s))) /\ OrderedUpto(new, s, Len(s)) /\ GoesOn(new, lines)
<1>1. PICK N \in Nat : N = Len(s)
  BY DEF FoundOnce
<1> DEFINE Body(f, n) == IF n = 0 THEN lines
                         ELSE IF s[n] = Torn THEN f[n - 1] ELSE HeaderAndBinary(f[n - 1], s[n])
           Upto(f) == f = [n \in 0 .. N |-> Body(f, n)]
           upto == CHOOSE f : Upto(f)
           Made(v, n) == LinesOk(v, P \cup Among(s, n)) /\ OrderedUpto(v, s, n) /\ GoesOn(v, lines)
           J == [n \in 0 .. N |-> {v \in AllLines : Made(v, n)}]
           turn == [n \in 1 .. N |-> [v \in AllLines |-> IF s[n] = Torn THEN v ELSE HeaderAndBinary(v, s[n])]]
<1>2. new = upto[N]
  BY <1>1 DEF WithFile
<1>3. J \in [0 .. N -> SUBSET AllLines]
  OBVIOUS
<1>4. \A n \in 0 .. N : P \cup Among(s, n) \subseteq Nat
  <2> SUFFICES ASSUME NEW n \in 0 .. N PROVE P \cup Among(s, n) \subseteq Nat
    OBVIOUS
  <2>1. P \subseteq Nat
    BY Stamps
  <2>2. \A i \in 1 .. n : s[i] \in Nat
    BY <1>1 DEF FoundOnce
  <2> QED
    BY <2>1, <2>2 DEF Among
<1>5. lines \in J[0]
  <2>1. P \cup Among(s, 0) = P
    BY DEF Among
  <2>2. 0 \in 0 .. N /\ P \subseteq Nat
    BY <1>4
  <2>3. lines \in AllLines
    BY <2>2, LinesAre
  <2>4. OrderedUpto(lines, s, 0) /\ GoesOn(lines, lines)
    BY DEF OrderedUpto, GoesOn
  <2> QED
    BY <2>1, <2>2, <2>3, <2>4
<1>6. \A n \in 1 .. N : \A v \in J[n - 1] : turn[n][v] \in J[n]
  <2> SUFFICES ASSUME NEW n \in 1 .. N, NEW v \in J[n - 1] PROVE turn[n][v] \in J[n]
    OBVIOUS
  <2>1. n - 1 \in 0 .. N /\ n \in 0 .. N
    OBVIOUS
  <2>2. v \in AllLines /\ Made(v, n - 1)
    BY <2>1
  <2>3. PICK w : w = IF s[n] = Torn THEN v ELSE HeaderAndBinary(v, s[n])
    OBVIOUS
  <2>4. LinesOk(w, P \cup Among(s, n)) /\ OrderedUpto(w, s, n) /\ GoesOn(w, v)
    <3>1. n \in 1 .. Len(s)
      BY <1>1
    <3> QED
      BY <2>2, <2>3, <3>1, LineRound
  <2>5. Made(w, n)
    BY <2>2, <2>4, GoesOnFurther
  <2>6. w \in AllLines
    BY <1>4, <2>1, <2>4, LinesAre
  <2>7. turn[n][v] = w
    BY <2>2, <2>3
  <2> QED
    BY <2>1, <2>5, <2>6, <2>7
<1>7. \A n \in 1 .. N : \A v \in AllLines : turn[n][v] = IF s[n] = Torn THEN v ELSE HeaderAndBinary(v, s[n])
  OBVIOUS
<1>8. \A n \in 0 .. N : J[n] = {v \in AllLines : Made(v, n)}
  OBVIOUS
<1> HIDE DEF J, turn, Made
<1>9. PICK g : LoopValues(g, N, AllLines, J, lines, turn)
  BY <1>3, <1>5, <1>6, LoopKeeps
<1>10. g \in [0 .. N -> AllLines] /\ g[0] = lines /\ \A n \in 1 .. N : g[n] = turn[n][g[n - 1]]
  BY <1>9 DEF LoopValues
<1>11. Upto(g)
  <2>1. \A n \in 0 .. N : g[n] = Body(g, n)
    <3> SUFFICES ASSUME NEW n \in 0 .. N, n # 0
                 PROVE  g[n] = IF s[n] = Torn THEN g[n - 1] ELSE HeaderAndBinary(g[n - 1], s[n])
      BY <1>10
    <3>1. n \in 1 .. N /\ n - 1 \in 0 .. N
      OBVIOUS
    <3>2. g[n - 1] \in AllLines
      BY <1>10, <3>1
    <3> QED
      BY <1>7, <1>10, <3>1, <3>2
  <2> HIDE DEF Body
  <2> QED
    BY <1>10, <2>1, Zenon
<1>12. Upto(upto)
  BY <1>11
<1> HIDE DEF upto
<1>13. \A n \in 0 .. N : upto[n] = Body(upto, n)
  <2> HIDE DEF Body
  <2> QED
    BY <1>12, Zenon
<1> HIDE DEF Upto
<1>14. upto[0] \in J[0]
  BY <1>1, <1>5, <1>13
<1>15. \A n \in 1 .. N : upto[n - 1] \in J[n - 1] => upto[n] \in J[n]
  <2> SUFFICES ASSUME NEW n \in 1 .. N, upto[n - 1] \in J[n - 1] PROVE upto[n] \in J[n]
    OBVIOUS
  <2>1. n \in 0 .. N /\ n # 0 /\ n - 1 \in 0 .. N
    OBVIOUS
  <2>2. upto[n - 1] \in AllLines
    BY <1>8, <2>1
  <2>3. upto[n] = turn[n][upto[n - 1]]
    BY <1>7, <1>13, <2>1, <2>2
  <2> QED
    BY <1>6, <2>3
<1>16. upto[N] \in J[N]
  <2>1. \A n \in 0 .. N : upto[n] \in J[n]
    BY <1>14, <1>15, LoopInduction
  <2>2. N \in 0 .. N
    OBVIOUS
  <2> QED
    BY <2>1, <2>2
<1>17. Made(upto[N], N)
  <2>1. N \in 0 .. N
    OBVIOUS
  <2> QED
    BY <1>8, <1>16, <2>1
<1> QED
  BY <1>1, <1>2, <1>17 DEF Made

\* What is parsed from the i-th file, from the first n, and that each of these
\* keeps its order
FileMessages(i) == Parsed(CpuFile(i))
AmongFiles(n) == UNION {Among(FileMessages(f), Len(FileMessages(f))) : f \in 1 .. n}
FilesOrdered(lines, n) == \A f \in 1 .. n : OrderedUpto(lines, FileMessages(f), Len(FileMessages(f)))

\* Each CPU has one file.
LEMMA FilesAre ==
  /\ Len(Files) \in Nat /\ DOMAIN Files = 1 .. Len(Files)
  /\ \A i \in 1 .. Len(Files) : Files[i] \in Cpu
  /\ \A i, j \in 1 .. Len(Files) : Files[i] = Files[j] => i = j
  /\ \A c \in Cpu : \E i \in 1 .. Len(Files) : Files[i] = c
BY FilesAssumption

\* No message is in two files.
LEMMA FilesApart ==
  ASSUME CInv, HomeInv, ~ring, InMemory, NEW i \in 1 .. Len(Files)
  PROVE  /\ FoundOnce(FileMessages(i))
         /\ AmongFiles(i - 1) \cap Among(FileMessages(i), Len(FileMessages(i))) = {}
<1>1. \A f \in 1 .. Len(Files) : FoundOnce(FileMessages(f)) /\ HeadsIn(Files[f], FileMessages(f))
  BY FilesAre, ParsedIs DEF FileMessages, CpuFile
<1>2. ASSUME NEW m \in AmongFiles(i - 1), m \in Among(FileMessages(i), Len(FileMessages(i)))
      PROVE  FALSE
  <2>1. PICK f \in 1 .. i - 1 : m \in Among(FileMessages(f), Len(FileMessages(f)))
    BY DEF AmongFiles
  <2>2. f \in 1 .. Len(Files) /\ f # i
    BY FilesAre
  <2>3. PICK s, t : s = FileMessages(f) /\ t = FileMessages(i)
    OBVIOUS
  <2>4. PICK a \in 1 .. Len(s), b \in 1 .. Len(t) : s[a] = m /\ t[b] = m /\ m # Torn
    BY <1>2, <2>1, <2>3 DEF Among
  <2>5. m \in Nat /\ Files[f] \in Cpu /\ Files[i] \in Cpu
    <3>1. s \in Seq(Nat)
      BY <1>1, <2>2, <2>3 DEF FoundOnce
    <3> QED
      BY <2>2, <2>4, <3>1, FilesAre
  <2>6. Files[f] = Files[i]
    BY <1>1, <2>2, <2>3, <2>4, <2>5, FilesDiffer
  <2> QED
    BY <2>2, <2>6, FilesAre
<1> QED
  BY <1>1, <1>2

\* What was in order before stays in order.
LEMMA OrderKept ==
  ASSUME NEW lines, NEW P, LinesOk(lines, P), NEW new, NEW Q, LinesOk(new, Q), GoesOn(new, lines),
         NEW s, NEW n, Among(s, n) \subseteq P, OrderedUpto(lines, s, n)
  PROVE  OrderedUpto(new, s, n)
<1>1. ASSUME NEW i \in 1 .. n, s[i] # Torn, NEW k \in DOMAIN new, new[k] = s[i]
      PROVE  k \in DOMAIN lines /\ lines[k] = s[i]
  <2>1. s[i] \in P
    BY <1>1 DEF Among
  <2>2. PICK l \in DOMAIN lines : lines[l] = s[i]
    BY <2>1 DEF LinesOk, HasLine
  <2>3. l \in DOMAIN new /\ new[l] = s[i]
    BY <2>2 DEF GoesOn
  <2>4. l = k
    BY <1>1, <2>3 DEF LinesOk
  <2> QED
    BY <2>2, <2>4
<1>2. ASSUME NEW i \in 1 .. n, NEW j \in 1 .. n, i < j, s[i] # Torn, s[j] # Torn,
             Stamp(s[i]) <= Stamp(s[j]),
             NEW k \in DOMAIN new, NEW l \in DOMAIN new, new[k] = s[i], new[l] = s[j]
      PROVE  k < l
  BY <1>1, <1>2 DEF OrderedUpto
<1> QED
  BY <1>2 DEF OrderedUpto

\* A round of the loop over the files
LEMMA FileRound ==
  ASSUME CInv, HomeInv, ~ring, InMemory, NEW i \in 1 .. Len(Files),
         NEW v, LinesOk(v, AmongFiles(i - 1)), FilesOrdered(v, i - 1),
         NEW new, new = WithFile(v, FileMessages(i))
  PROVE  LinesOk(new, AmongFiles(i)) /\ FilesOrdered(new, i)
<1>1. PICK s, P : s = FileMessages(i) /\ P = AmongFiles(i - 1)
  OBVIOUS
<1>2. FoundOnce(s) /\ P \cap Among(s, Len(s)) = {}
  BY <1>1, FilesApart
<1>3. \A f \in 1 .. i : f \in 1 .. Len(Files) /\ (f = i \/ f \in 1 .. i - 1)
  BY FilesAre
<1>4. \A f \in 1 .. i - 1 : f \in 1 .. i
  BY FilesAre
<1>5. P \subseteq 1 .. Len(sent)
  <2> SUFFICES ASSUME NEW m \in P PROVE m \in 1 .. Len(sent)
    OBVIOUS
  <2>1. PICK f \in 1 .. i - 1 : m \in Among(FileMessages(f), Len(FileMessages(f)))
    BY <1>1 DEF AmongFiles
  <2>2. FoundOnce(FileMessages(f))
    BY <1>3, <1>4, FilesApart
  <2> QED
    BY <2>1, <2>2 DEF FoundOnce, Among
<1>6. LinesOk(v, P)
  BY <1>1
<1>7. LinesOk(new, P \cup Among(s, Len(s))) /\ OrderedUpto(new, s, Len(s)) /\ GoesOn(new, v)
  BY <1>1, <1>2, <1>5, <1>6, FileAdded
<1>8. P \cup Among(s, Len(s)) = AmongFiles(i)
  <2>1. i \in 1 .. i
    BY FilesAre
  <2> QED
    BY <1>1, <1>3, <1>4, <2>1 DEF AmongFiles
<1>9. ASSUME NEW f \in 1 .. i PROVE OrderedUpto(new, FileMessages(f), Len(FileMessages(f)))
  <2>1. CASE f = i
    BY <1>1, <1>7, <2>1
  <2>2. CASE f \in 1 .. i - 1
    <3>1. PICK t, n : t = FileMessages(f) /\ n = Len(t)
      OBVIOUS
    <3>2. Among(t, n) \subseteq P /\ OrderedUpto(v, t, n)
      BY <1>1, <2>2, <3>1 DEF AmongFiles, FilesOrdered
    <3>3. OrderedUpto(new, t, n)
      BY <1>6, <1>7, <3>2, OrderKept
    <3> QED
      BY <3>1, <3>3
  <2> QED
    BY <1>3, <2>1, <2>2
<1> QED
  BY <1>7, <1>8, <1>9 DEF FilesOrdered

\* combine: all messages that are found have a line, and those of one file are
\* in order.
LEMMA AllAdded ==
  ASSUME CInv, HomeInv, ~ring, InMemory
  PROVE  LinesOk(SbLines, AmongFiles(Len(Files))) /\ FilesOrdered(SbLines, Len(Files))
<1>1. PICK N \in Nat : N = Len(Files)
  BY FilesAre
<1> DEFINE none == <<>>
           Body(f, i) == IF i = 0 THEN none ELSE WithFile(f[i - 1], FileMessages(i))
           Upto(f) == f = [i \in 0 .. N |-> Body(f, i)]
           upto == CHOOSE f : Upto(f)
           Made(v, i) == LinesOk(v, AmongFiles(i)) /\ FilesOrdered(v, i)
           J == [i \in 0 .. N |-> {v \in AllLines : Made(v, i)}]
           turn == [i \in 1 .. N |-> [v \in AllLines |-> WithFile(v, FileMessages(i))]]
<1>2. SbLines = upto[N]
  BY <1>1 DEF SbLines, FileMessages
<1>3. J \in [0 .. N -> SUBSET AllLines]
  OBVIOUS
<1>4. ASSUME NEW i \in 0 .. N PROVE AmongFiles(i) \subseteq Nat
  <2> SUFFICES ASSUME NEW m \in AmongFiles(i) PROVE m \in Nat
    OBVIOUS
  <2>1. PICK f \in 1 .. i : m \in Among(FileMessages(f), Len(FileMessages(f)))
    BY DEF AmongFiles
  <2>2. f \in 1 .. Len(Files)
    BY <1>1
  <2>3. FoundOnce(FileMessages(f))
    BY <2>2, FilesApart
  <2> QED
    BY <2>1, <2>3 DEF FoundOnce, Among
<1>5. none \in J[0]
  <2>1. DOMAIN none = {}
    OBVIOUS
  <2>2. none \in [{} -> Nat]
    BY <2>1
  <2>3. none \in AllLines
    BY <2>2 DEF AllLines
  <2>4. AmongFiles(0) = {}
    BY DEF AmongFiles
  <2>5. LinesOk(none, {})
    <3>1. IsFiniteSet(DOMAIN none) /\ DOMAIN none \subseteq Int
      BY <2>1, FS_EmptySet
    <3>2. none \in [DOMAIN none -> {}]
      BY <2>1
    <3> QED
      BY <2>1, <3>1, <3>2 DEF LinesOk
  <2>6. FilesOrdered(none, 0)
    BY DEF FilesOrdered
  <2>7. 0 \in 0 .. N
    OBVIOUS
  <2> HIDE DEF none
  <2> QED
    BY <2>3, <2>4, <2>5, <2>6, <2>7
<1>6. \A i \in 1 .. N : \A v \in J[i - 1] : turn[i][v] \in J[i]
  <2> SUFFICES ASSUME NEW i \in 1 .. N, NEW v \in J[i - 1] PROVE turn[i][v] \in J[i]
    OBVIOUS
  <2>1. i - 1 \in 0 .. N /\ i \in 0 .. N /\ i \in 1 .. Len(Files)
    BY <1>1
  <2>2. v \in AllLines /\ Made(v, i - 1)
    BY <2>1
  <2>3. PICK w : w = WithFile(v, FileMessages(i))
    OBVIOUS
  <2>4. Made(w, i)
    BY <2>1, <2>2, <2>3, FileRound
  <2>5. w \in AllLines
    BY <1>4, <2>1, <2>4, LinesAre
  <2>6. turn[i][v] = w
    BY <2>2, <2>3
  <2> QED
    BY <2>1, <2>4, <2>5, <2>6
<1>7. \A i \in 1 .. N : \A v \in AllLines : turn[i][v] = WithFile(v, FileMessages(i))
  OBVIOUS
<1>8. \A i \in 0 .. N : J[i] = {v \in AllLines : Made(v, i)}
  OBVIOUS
<1> HIDE DEF J, turn, Made, none
<1>9. PICK g : LoopValues(g, N, AllLines, J, none, turn)
  BY <1>3, <1>5, <1>6, LoopKeeps
<1>10. g \in [0 .. N -> AllLines] /\ g[0] = none /\ \A i \in 1 .. N : g[i] = turn[i][g[i - 1]]
  BY <1>9 DEF LoopValues
<1>11. Upto(g)
  <2>1. \A i \in 0 .. N : g[i] = Body(g, i)
    <3> SUFFICES ASSUME NEW i \in 0 .. N, i # 0 PROVE g[i] = WithFile(g[i - 1], FileMessages(i))
      BY <1>10
    <3>1. i \in 1 .. N /\ i - 1 \in 0 .. N
      OBVIOUS
    <3>2. g[i - 1] \in AllLines
      BY <1>10, <3>1
    <3> QED
      BY <1>7, <1>10, <3>1, <3>2
  <2> HIDE DEF Body
  <2> QED
    BY <1>10, <2>1, Zenon
<1>12. Upto(upto)
  BY <1>11
<1> HIDE DEF upto
<1>13. \A i \in 0 .. N : upto[i] = Body(upto, i)
  <2> HIDE DEF Body
  <2> QED
    BY <1>12, Zenon
<1> HIDE DEF Upto
<1>14. upto[0] \in J[0]
  BY <1>1, <1>5, <1>13
<1>15. \A i \in 1 .. N : upto[i - 1] \in J[i - 1] => upto[i] \in J[i]
  <2> SUFFICES ASSUME NEW i \in 1 .. N, upto[i - 1] \in J[i - 1] PROVE upto[i] \in J[i]
    OBVIOUS
  <2>1. i \in 0 .. N /\ i # 0 /\ i - 1 \in 0 .. N
    OBVIOUS
  <2>2. upto[i - 1] \in AllLines
    BY <1>8, <2>1
  <2>3. upto[i] = turn[i][upto[i - 1]]
    BY <1>7, <1>13, <2>1, <2>2
  <2> QED
    BY <1>6, <2>3
<1>16. Made(upto[N], N)
  <2>1. \A i \in 0 .. N : upto[i] \in J[i]
    BY <1>14, <1>15, LoopInduction
  <2>2. N \in 0 .. N
    OBVIOUS
  <2> QED
    BY <1>8, <2>1, <2>2
<1> QED
  BY <1>1, <1>2, <1>16 DEF Made

-----------------------------------------------------------------------------
(* The combined file *)

\* The place of the line of timestamp k
Rank(lines, k) == Cardinality({t \in DOMAIN lines : t <= k})

WrittenInOrder(lines) ==
  /\ DOMAIN Written(lines) = 1 .. Cardinality(DOMAIN lines)
  /\ \A k \in DOMAIN lines :
       Rank(lines, k) \in DOMAIN Written(lines) /\ Written(lines)[Rank(lines, k)] = lines[k]
  /\ \A i \in DOMAIN Written(lines) : \E k \in DOMAIN lines : i = Rank(lines, k)
  /\ \A k, l \in DOMAIN lines : k < l => Rank(lines, k) < Rank(lines, l)

\* The lines are written once each, in the order of their timestamps.
LEMMA WrittenAre ==
  ASSUME NEW lines, IsFiniteSet(DOMAIN lines), DOMAIN lines \subseteq Int
  PROVE  WrittenInOrder(lines)
<1> DEFINE D == DOMAIN lines
           upto(k) == {t \in D : t <= k}
           n == Cardinality(D)
           rank == [k \in D |-> Cardinality(upto(k))]
<1>1. n \in Nat
  BY FS_CardinalityType
<1>2. ASSUME NEW k \in D
      PROVE  IsFiniteSet(upto(k)) /\ Cardinality(upto(k)) \in 1 .. n
  <2>1. upto(k) \in SUBSET D
    OBVIOUS
  <2>2. IsFiniteSet(upto(k)) /\ Cardinality(upto(k)) <= n
    BY <2>1, FS_Subset
  <2>3. Cardinality(upto(k)) \in Nat /\ Cardinality(upto(k)) # 0
    <3>1. k \in upto(k)
      OBVIOUS
    <3> QED
      BY <2>2, <3>1, FS_CardinalityType, FS_EmptySet
  <2> QED
    BY <1>1, <2>2, <2>3
<1>3. ASSUME NEW k \in D, NEW l \in D, k < l PROVE Cardinality(upto(k)) < Cardinality(upto(l))
  <2>1. k \in Int /\ l \in Int
    OBVIOUS
  <2>2. upto(k) \in SUBSET upto(l) /\ upto(k) # upto(l)
    <3>1. l \in upto(l) /\ l \notin upto(k)
      BY <1>3, <2>1
    <3>2. \A t \in upto(k) : t \in upto(l)
      BY <1>3, <2>1
    <3> QED
      BY <3>1, <3>2
  <2>3. Cardinality(upto(k)) <= Cardinality(upto(l)) /\ Cardinality(upto(k)) # Cardinality(upto(l))
    BY <1>2, <2>2, FS_Subset
  <2>4. Cardinality(upto(k)) \in Int /\ Cardinality(upto(l)) \in Int
    BY <1>2
  <2> HIDE DEF upto
  <2> QED
    BY <2>3, <2>4
<1>4. \A k \in D : rank[k] = Cardinality(upto(k)) /\ rank[k] \in 1 .. n
  BY <1>2
<1>5. \A k, l \in D : rank[k] = rank[l] => k = l
  <2> SUFFICES ASSUME NEW k \in D, NEW l \in D, rank[k] = rank[l], k # l PROVE FALSE
    OBVIOUS
  <2>1. k < l \/ l < k
    OBVIOUS
  <2>2. rank[k] < rank[l] \/ rank[l] < rank[k]
    BY <1>3, <1>4, <2>1
  <2> QED
    BY <1>1, <1>4, <2>2
<1>6. rank \in [D -> 1 .. n]
  BY <1>4
<1> HIDE DEF rank
<1>7. rank \in Surjection(D, 1 .. n)
  <2>1. rank \in Injection(D, 1 .. n)
    BY <1>5, <1>6 DEF Injection, IsInjective
  <2>2. IsFiniteSet(1 .. n) /\ Cardinality(1 .. n) = n
    <3>1. 1 \in Int /\ n \in Int
      BY <1>1
    <3>2. /\ IsFiniteSet(1 .. n)
          /\ Cardinality(1 .. n) = IF 1 > n THEN 0 ELSE n - 1 + 1
      BY ONLY <3>1, FS_Interval
    <3>3. (IF 1 > n THEN 0 ELSE n - 1 + 1) = n
      BY <1>1
    <3> QED
      BY <3>2, <3>3
  <2>3. Cardinality(D) = Cardinality(1 .. n)
    BY <2>2
  <2> HIDE DEF D, n
  <2> QED
    BY <2>1, <2>2, <2>3, FS_Injection
<1>8. \A i \in 1 .. n : \E k \in D : rank[k] = i
  BY <1>7 DEF Surjection
<1>9. \A k \in D : rank[k] = Rank(lines, k)
  BY <1>4 DEF Rank
<1>10. PICK new : new = Written(lines)
  OBVIOUS
<1>11. new = [i \in 1 .. n |-> lines[CHOOSE k \in D : Rank(lines, k) = i]]
  BY <1>10 DEF Written, Rank
<1> HIDE DEF n, D
<1>12. DOMAIN new = 1 .. n
  BY <1>11
<1>13. ASSUME NEW k \in D PROVE Rank(lines, k) \in 1 .. n /\ new[Rank(lines, k)] = lines[k]
  <2>1. PICK i : i = Rank(lines, k)
    OBVIOUS
  <2>2. i \in 1 .. n
    BY <1>4, <1>9, <2>1
  <2>3. PICK l : l = CHOOSE j \in D : Rank(lines, j) = i
    OBVIOUS
  <2>4. l \in D /\ Rank(lines, l) = i
    BY <2>1, <2>3
  <2>5. l = k
    BY <1>5, <1>9, <2>1, <2>4
  <2>6. new[i] = lines[l]
    BY <1>11, <2>2, <2>3
  <2> QED
    BY <2>1, <2>2, <2>5, <2>6
<1>14. \A i \in 1 .. n : \E k \in D : i = Rank(lines, k)
  BY <1>8, <1>9
<1>15. \A k, l \in D : k < l => Rank(lines, k) < Rank(lines, l)
  BY <1>3, <1>4, <1>9
<1> QED
  BY <1>10, <1>12, <1>13, <1>14, <1>15 DEF WrittenInOrder, n, D

\* CombinedKeepsStreams, of one CPU
Kept(combined, log) ==
  LET At(i) == {k \in DOMAIN combined : combined[k] = log[i]}
  IN  /\ \A i \in DOMAIN log : \E k \in DOMAIN combined : At(i) = {k}
      /\ \A i, j \in DOMAIN log :
           i < j /\ sent[log[i]].tscp <= sent[log[j]].tscp =>
             \A k \in At(i), l \in At(j) : k < l

LEMMA CombinedKeeps ==
  ASSUME CInv, HomeInv, ~ring, InMemory, NEW c \in Cpu, Cleared(c), NEW combined, combined = Combined
  PROVE  Kept(combined, logged[c])
<1>1. PICK f \in 1 .. Len(Files) : Files[f] = c
  BY FilesAre
<1>2. PICK s, log, lines : s = FileMessages(f) /\ log = logged[c] /\ lines = SbLines
  OBVIOUS
<1>3. FoundOnce(s) /\ s \in Seq(Nat) /\ Len(s) \in Nat
  <2>1. FoundOnce(s)
    BY <1>2, FilesApart
  <2> QED
    BY <2>1 DEF FoundOnce
<1>4. /\ log \in Seq(Nat) /\ DOMAIN log = 1 .. Len(log)
      /\ \A i \in DOMAIN log : log[i] \in 1 .. Len(sent)
  BY <1>2 DEF CInv, LogInv, LogTypes
<1>5. \A i \in DOMAIN log : i \in 1 .. Len(s) /\ log[i] = s[i] /\ s[i] # Torn
  <2>1. IF intact[c] THEN s = log ELSE log = SubSeq(s, 1, Less(Len(log), Len(s)))
    BY <1>1, <1>2, StreamOfCpu DEF FileMessages, CpuFile
  <2>2. CASE intact[c]
    BY <1>3, <1>4, <2>1, <2>2 DEF Torn
  <2>3. CASE ~intact[c]
    <3>1. PICK n \in Nat : n = Less(Len(log), Len(s)) /\ n <= Len(s)
      <4>1. Len(log) \in Nat /\ Len(s) \in Nat
        BY <1>3, <1>4
      <4>2. PICK x \in Nat, y \in Nat : x = Len(log) /\ y = Len(s)
        BY <4>1
      <4>3. Less(x, y) \in Nat /\ Less(x, y) <= y
        BY <4>2 DEF Less
      <4> QED
        BY <4>2, <4>3
    <3>2. Len(SubSeq(s, 1, n)) = n /\ \A i \in 1 .. n : SubSeq(s, 1, n)[i] = s[i]
      BY <1>3, <3>1
    <3>3. DOMAIN log = 1 .. n /\ \A i \in 1 .. n : log[i] = s[i]
      BY <1>4, <2>1, <2>3, <3>1, <3>2
    <3> QED
      BY <1>3, <1>4, <3>1, <3>3 DEF Torn
  <2> QED
    BY <2>2, <2>3
<1>6. LinesOk(lines, AmongFiles(Len(Files))) /\ OrderedUpto(lines, s, Len(s))
  BY <1>2, AllAdded DEF FilesOrdered
<1>7. /\ DOMAIN lines \subseteq Int /\ WrittenInOrder(lines)
      /\ combined = Written(lines)
      /\ \A k, l \in DOMAIN lines : lines[k] = lines[l] => k = l
  BY <1>2, <1>6, WrittenAre DEF LinesOk, Combined
<1>8. \A i \in DOMAIN log : \E k \in DOMAIN lines : lines[k] = log[i]
  <2> SUFFICES ASSUME NEW i \in DOMAIN log PROVE \E k \in DOMAIN lines : lines[k] = log[i]
    OBVIOUS
  <2>1. log[i] \in Among(s, Len(s))
    BY <1>5 DEF Among
  <2>2. log[i] \in AmongFiles(Len(Files))
    BY <1>2, <2>1 DEF AmongFiles
  <2> QED
    BY <1>6, <2>2 DEF LinesOk, HasLine
<1> DEFINE At(i) == {k \in DOMAIN combined : combined[k] = log[i]}
<1>9. ASSUME NEW i \in DOMAIN log, NEW k \in DOMAIN lines, lines[k] = log[i]
      PROVE  Rank(lines, k) \in DOMAIN combined /\ At(i) = {Rank(lines, k)}
  <2>1. Rank(lines, k) \in DOMAIN combined /\ combined[Rank(lines, k)] = lines[k]
    BY <1>7 DEF WrittenInOrder
  <2>2. ASSUME NEW p \in DOMAIN combined, combined[p] = log[i] PROVE p = Rank(lines, k)
    <3>1. PICK l \in DOMAIN lines : p = Rank(lines, l)
      BY <1>7 DEF WrittenInOrder
    <3>2. combined[p] = lines[l]
      BY <1>7, <3>1 DEF WrittenInOrder
    <3>3. l = k
      BY <1>7, <1>9, <2>2, <3>2
    <3> QED
      BY <3>1, <3>3
  <2> QED
    BY <1>9, <2>1, <2>2
<1>10. ASSUME NEW i \in DOMAIN log PROVE \E k \in DOMAIN combined : At(i) = {k}
  BY <1>8, <1>9
<1>11. ASSUME NEW i \in DOMAIN log, NEW j \in DOMAIN log, i < j,
              sent[log[i]].tscp <= sent[log[j]].tscp, NEW p \in At(i), NEW q \in At(j)
       PROVE  p < q
  <2>1. PICK k \in DOMAIN lines : lines[k] = log[i]
    BY <1>8
  <2>2. PICK l \in DOMAIN lines : lines[l] = log[j]
    BY <1>8
  <2>3. p = Rank(lines, k) /\ q = Rank(lines, l)
    BY <1>9, <2>1, <2>2
  <2>4. /\ i \in 1 .. Len(s) /\ j \in 1 .. Len(s) /\ s[i] # Torn /\ s[j] # Torn
        /\ lines[k] = s[i] /\ lines[l] = s[j] /\ Stamp(s[i]) <= Stamp(s[j])
    BY <1>5, <1>11, <2>1, <2>2 DEF Stamp
  <2>5. k < l
    BY <1>6, <1>11, <2>4 DEF OrderedUpto
  <2> QED
    BY <1>7, <2>3, <2>5 DEF WrittenInOrder
<1> QED
  BY <1>2, <1>10, <1>11 DEF Kept

\* Where nothing came between two writers, no exception keeps the combined file
\* from being written; and where it is written, it has what was logged on each CPU
\* before anything came between two writers, once, and in the order of its CPU
\* where the timestamps have that order: no message is lost to one of the same time.
THEOREM CombinerKeepsStreams == Spec => []CombinedKeepsStreams
<1>1. ASSUME CInv, HomeInv PROVE CombinedKeepsStreams
  <2> SUFFICES ASSUME ~ring, ~trace_active, InMemory
               PROVE  /\ (\A c \in Cpu : Cleared(c) /\ intact[c]) => ~MayRaise
                      /\ \A c \in Cpu : Cleared(c) => Kept(Combined, logged[c])
    BY DEF CombinedKeepsStreams, Kept
  <2>1. ASSUME \A c \in Cpu : Cleared(c) /\ intact[c] PROVE ~MayRaise
    <3>1. ASSUME NEW i \in DOMAIN Files PROVE Endings(CpuFile(i)) = {"ends"}
      <4>1. Files[i] \in Cpu
        BY FilesAssumption
      <4> QED
        BY <1>1, <2>1, <4>1, IntactEnds DEF CpuFile
    <3> QED
      BY <3>1 DEF MayRaise
  <2> QED
    BY <1>1, <2>1, CombinedKeeps
<1> QED
  BY <1>1, OnePlace, PTL
=============================================================================
