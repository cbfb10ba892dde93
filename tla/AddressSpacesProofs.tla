------------------------- MODULE AddressSpacesProofs -------------------------
(***************************************************************************)
(* Every process becomes known to the collector (AllKnown), and what it    *)
(* had mapped is found at any later time (MappedIsFound) unless the        *)
(* collector was misled of it or an insert met several ranges; what is     *)
(* found was mapped at some time even then (FoundWasMapped). For any       *)
(* number of processes, pages and events.                                  *)
(*                                                                         *)
(* While tasks are scanned a fork may be announced by a parent that is not *)
(* known, and is lost then; but the child came to the end of the list the  *)
(* scan goes through. What is scanned is known (ScannedKnown). After the   *)
(* scan there is only the announcement: it counts because the parent of a  *)
(* child on its way is known, and is the only one (Children).              *)
(*                                                                         *)
(* What the list of a process says of an address at a time is the latest   *)
(* of its mappings before it that covers the address (Newest). The scan    *)
(* makes that right for what it has passed (ScanInv), messages keep it     *)
(* right and leave the past as it was (RunInv), and a child's copy of its  *)
(* parent's list is right because the parent's is and neither changed      *)
(* since the fork (PendingInv). A lookup's ranges say at each address what *)
(* the list says, and go on doing so for all times in its slot, as long as *)
(* every insert met one range at most (LookupInv).                         *)
(*                                                                         *)
(* Whatever insert_hole leaves in, every range ever kept is a part of a    *)
(* mapping of a list, and says of its addresses what was mapped there      *)
(* (TruthInv).                                                             *)
(***************************************************************************)
EXTENDS AddressSpaces, LoopLemmas, TLAPS

Types ==
  /\ tasks \in Seq(Pid)
  /\ child \in [Pid -> Pid \cup {None}]
  /\ scanTask \in 1 .. Len(tasks) + 1
  /\ pids \subseteq Pid

\* A child that is to be announced is in the list, and has one parent.
Children ==
  \A p, q \in Pid : child[p] # None =>
    /\ child[p] \in Alive
    /\ child[q] = child[p] => q = p

\* What the scan has passed is known.
ScannedKnown == \A i \in DOMAIN tasks : i < scanTask => Known(tasks[i])

\* A vma that is about to be sent is of a task.
VmaOfTask == scanVma # None => IsTask(scanTask)

IInv == Types /\ VmaOfTask /\ Children /\ ScannedKnown /\ AllKnown

LEMMA InitIInv == Init => IInv
  BY SpacesAssumption DEF Init, IInv, Types, VmaOfTask, Children, ScannedKnown, AllKnown

-----------------------------------------------------------------------------
(* Steps that leave the tasks and their children alone *)

\* Learning of more processes keeps the invariant.
LEMMA KnowingMore ==
  ASSUME IInv, UNCHANGED <<tasks, child, scanTask>>,
         pids \subseteq pids', pids' \subseteq Pid,
         scanVma' # None => IsTask(scanTask),
         phase' = "run" => phase = "run"
  PROVE  IInv'
  BY DEF IInv, Types, VmaOfTask, IsTask, Children, ScannedKnown, AllKnown, Alive, Known

\* mmap and munmap tell nothing of processes.
LEMMA MappingStep ==
  ASSUME IInv, NEW p \in Pid,
         \/ \E start, end, exe : MmapCalled(p, start, end, exe)
         \/ \E start, end, done : MunmapCalled(p, start, end, done)
         \/ Exec(p)
  PROVE  IInv'
  BY KnowingMore DEF IInv, Types, VmaOfTask, MmapCalled, MunmapCalled, Exec, Mmap, Event, scanVars, modelVars

LEMMA QuietStep ==
  ASSUME IInv,
         \/ SendModuleList \/ ReadVma \/ UNCHANGED vars
         \/ \E p \in Pid : BeginLookup(p)
         \/ \E tsc : GetMmap(tsc)
  PROVE  IInv'
  BY KnowingMore
     DEF IInv, Types, VmaOfTask, SendModuleList, ReadVma, BeginLookup, GetMmap, vars, kernelVars, scanVars, modelVars

-----------------------------------------------------------------------------
(* The scan *)

LEMMA SendVmaStep == ASSUME IInv, SendVma PROVE IInv'
<1>1. Scanned \in Pid
  BY DEF IInv, Types, VmaOfTask, SendVma, Scanned, IsTask
<1>2. /\ UNCHANGED <<tasks, child, scanTask, phase>> /\ pids' = pids \cup {Scanned} /\ scanVma' = None
  BY DEF SendVma, InitMmap
<1> QED
  BY <1>1, <1>2, KnowingMore DEF IInv, Types

LEMMA SendProcessStep == ASSUME IInv, SendProcess PROVE IInv'
<1>1. /\ UNCHANGED <<tasks, child, phase, scanVma>> /\ phase = "scan" /\ scanVma = None
      /\ scanTask \in DOMAIN tasks /\ scanTask' = scanTask + 1
      /\ pids' = pids \cup {tasks[scanTask]}
  BY DEF SendProcess, InitProcess, Scanned, IsTask, kernelVars, IInv, Types
<1>2. Types'
  BY <1>1 DEF IInv, Types
<1>3. Children'
  BY <1>1 DEF IInv, Children, Alive
<1>4. ScannedKnown'
  <2> SUFFICES ASSUME NEW i \in DOMAIN tasks, i < scanTask + 1
               PROVE  tasks[i] \in pids'
    BY <1>1 DEF ScannedKnown, Known
  <2>1. i < scanTask \/ i = scanTask
    BY DEF IInv, Types
  <2> QED
    BY <2>1, <1>1 DEF IInv, ScannedKnown, Known
<1> QED
  BY <1>1, <1>2, <1>3, <1>4 DEF IInv, VmaOfTask, AllKnown

\* The scan ends behind the last task of the list.
LEMMA ScanDoneStep == ASSUME IInv, ScanDone PROVE IInv'
<1>1. UNCHANGED <<tasks, child, scanTask, scanVma, pids>> /\ scanTask > Len(tasks)
  BY DEF ScanDone, IsTask, modelVars, IInv, Types
<1>2. \A i \in DOMAIN tasks : Known(tasks[i])
  BY <1>1 DEF IInv, Types, ScannedKnown
<1> QED
  BY <1>1, <1>2 DEF IInv, Types, VmaOfTask, IsTask, Children, ScannedKnown, AllKnown, Alive, Known

-----------------------------------------------------------------------------
(* Forks *)

LEMMA ForkStep == ASSUME IInv, NEW p \in Pid, NEW q \in Pid, Fork(p, q) PROVE IInv'
<1>1. /\ p \in Alive /\ q \notin Alive /\ Announced(p) /\ child[p] = None
      /\ tasks' = Append(tasks, q) /\ child' = [child EXCEPT ![p] = q]
      /\ UNCHANGED <<phase, scanTask, scanVma, pids>>
  BY DEF Fork, Event, scanVars, modelVars
<1>2. Alive' = Alive \cup {q}
  BY SMTT(30), <1>1 DEF IInv, Types, Alive
<1>3. Types'
  BY <1>1 DEF IInv, Types
<1>4. Children'
  <2> SUFFICES ASSUME NEW a \in Pid, NEW b \in Pid, child'[a] # None
               PROVE  child'[a] \in Alive' /\ (child'[b] = child'[a] => b = a)
    BY DEF Children
  <2>1. child'[a] = (IF a = p THEN q ELSE child[a]) /\ child'[b] = (IF b = p THEN q ELSE child[b])
    BY <1>1 DEF IInv, Types
  <2>2. CASE a = p
    <3>1. b # p => child[b] # q
      BY <1>1, SpacesAssumption DEF IInv, Children
    <3> QED
      BY <2>1, <2>2, <3>1, <1>2
  <2>3. CASE a # p
    BY <2>1, <2>3, <1>1, <1>2 DEF IInv, Children
  <2> QED
    BY <2>2, <2>3
<1>5. ScannedKnown'
  <2> SUFFICES ASSUME NEW i \in DOMAIN tasks', i < scanTask
               PROVE  tasks'[i] \in pids
    BY <1>1 DEF ScannedKnown, Known
  <2>1. i \in DOMAIN tasks /\ tasks'[i] = tasks[i]
    BY <1>1 DEF IInv, Types
  <2> QED
    BY <2>1 DEF IInv, ScannedKnown, Known
<1>6. AllKnown'
  <2> SUFFICES ASSUME phase = "run", NEW r \in Alive'
               PROVE  r \in pids \/ \E s \in pids : child'[s] = r
    BY <1>1 DEF AllKnown, Known
  <2>1. CASE r = q
    <3>1. p \in pids
      BY <1>1 DEF IInv, Types, AllKnown, Known, Announced
    <3> QED
      BY <2>1, <3>1, <1>1 DEF IInv, Types
  <2>2. CASE r \in Alive
    <3>1. ASSUME NEW s \in pids, child[s] = r
          PROVE  child'[s] = r
      BY <3>1, <1>1, <2>2, SpacesAssumption DEF IInv, Types, Announced, Alive
    <3> QED
      BY <2>2, <3>1 DEF IInv, AllKnown, Known
  <2> QED
    BY <1>2, <2>1, <2>2
<1>7. VmaOfTask'
  BY <1>1 DEF IInv, Types, VmaOfTask, IsTask
<1> QED
  BY <1>3, <1>4, <1>5, <1>6, <1>7 DEF IInv

\* The parent of an unknown child is known when it calls the hook, or else the
\* scan has still to come to the child.
LEMMA AnnounceStep == ASSUME IInv, NEW p \in Pid, TaskForkFairWrapper(p) PROVE IInv'
<1>1. /\ UNCHANGED <<phase, tasks, scanTask, scanVma>> /\ child[p] # None
      /\ child' = [child EXCEPT ![p] = None]
      /\ pids' = IF p \in pids THEN pids \cup {child[p]} ELSE pids
  BY DEF TaskForkFairWrapper, ForkProcess, Known, scanVars, modelVars
<1>2. Types'
  BY <1>1 DEF IInv, Types
<1>3. Children'
  BY <1>1 DEF IInv, Types, Children, Alive
<1>4. ScannedKnown'
  BY <1>1 DEF IInv, ScannedKnown, Known
<1>5. AllKnown'
  <2> SUFFICES ASSUME phase = "run", NEW r \in Alive
               PROVE  r \in pids' \/ \E s \in pids' : child'[s] = r
    BY <1>1 DEF AllKnown, Alive, Known
  <2>1. CASE r \in pids
    BY <2>1, <1>1
  <2>2. CASE r \notin pids
    <3>1. PICK s \in pids : child[s] = r
      BY <2>2 DEF IInv, AllKnown, Known
    <3>2. CASE s = p
      BY <3>1, <3>2, <1>1
    <3>3. CASE s # p
      BY <3>1, <3>3, <1>1 DEF IInv, Types
    <3> QED
      BY <3>2, <3>3
  <2> QED
    BY <2>1, <2>2
<1> QED
  BY <1>1, <1>2, <1>3, <1>4, <1>5 DEF IInv, VmaOfTask, IsTask

-----------------------------------------------------------------------------
(* The theorem *)

LEMMA Preserved == IInv /\ [Next]_vars => IInv'
<1> SUFFICES ASSUME IInv, [Next]_vars PROVE IInv'
  OBVIOUS
<1>1. CASE SendModuleList \/ ReadVma \/ UNCHANGED vars
  BY <1>1, QuietStep
<1>2. CASE SendVma
  BY <1>2, SendVmaStep
<1>3. CASE SendProcess
  BY <1>3, SendProcessStep
<1>4. CASE ScanDone
  BY <1>4, ScanDoneStep
<1>5. ASSUME NEW p \in Pid,
             NEW start \in UserAddr, NEW last \in UserAddr,
             \/ \E exe \in NewExe : MmapCalled(p, start, last + 1, exe)
             \/ \E done \in BOOLEAN : MunmapCalled(p, start, last + 1, done)
      PROVE  IInv'
  BY <1>5, MappingStep
<1>6. ASSUME NEW p \in Pid, Exec(p) PROVE IInv'
  BY <1>6, MappingStep
<1>7. ASSUME NEW p \in Pid, NEW q \in Pid, Fork(p, q) PROVE IInv'
  BY <1>7, ForkStep
<1>8. ASSUME NEW p \in Pid, TaskForkFairWrapper(p) PROVE IInv'
  BY <1>8, AnnounceStep
<1>9. ASSUME NEW p \in Pid, BeginLookup(p) PROVE IInv'
  BY <1>9, QuietStep
<1>10. ASSUME NEW tsc, GetMmap(tsc) PROVE IInv'
  BY <1>10, QuietStep
<1> QED
  BY <1>1, <1>2, <1>3, <1>4, <1>5, <1>6, <1>7, <1>8, <1>9, <1>10 DEF Next

\* The invariant of the task list, the forks under way and the scan
\* (print_all_tasks, task_fork_fair_wrapper, sideband_collector::process).
THEOREM SpacesInvariance == Spec => []IInv
<1> QED
  BY InitIInv, Preserved, PTL DEF Spec

\* Once the tasks have been scanned, every process is known to the collector or
\* is going to be by the message its parent is about to send.
THEOREM ProcessesKnown == Spec => []AllKnown
<1>1. IInv => AllKnown
  BY DEF IInv
<1> QED
  BY <1>1, SpacesInvariance, PTL

-----------------------------------------------------------------------------
(* range_map *)

IsRange(r) == r = Range(r.start, r.end, r.id) /\ r.start \in Nat /\ r.end \in Nat /\ r.start < r.end
Apart(r, s) == r.end <= s.start \/ s.end <= r.start

\* Ranges none of which is empty and no two of which overlap.
Disjoint(map) ==
  /\ \A r \in map : IsRange(r)
  /\ \A r, s \in map : r # s => Apart(r, s)

Covers(r, at) == r.start <= at /\ at < r.end

\* The hole meets one range or none: insert_hole has nothing to go on with.
Straight(map, start, end) == \A q, r \in Met(map, start, end) : q = r

\* The range that is inserted, and what is kept or left of the others
Overwritten(map, start, end, id) ==
  (map \ Met(map, start, end)) \cup (UNION {Left(r, start, end) : r \in Met(map, start, end)})
    \cup {Range(start, end, id)}

\* What insert_hole leaves of a range is at most two ranges, in it and not in
\* the hole.
LEMMA LeftOutsideHole ==
  ASSUME NEW r, IsRange(r), NEW start \in Nat, NEW end \in Nat, start < end,
         Meets(r, start, end), NEW s \in Left(r, start, end)
  PROVE  /\ IsRange(s) /\ s.id = r.id
         /\ r.start <= s.start /\ s.end <= r.end
         /\ s.end <= start \/ end <= s.start
<1>1. CASE r.start < start /\ s = Range(r.start, start, r.id)
  BY <1>1 DEF IsRange, Meets, Range
<1>2. CASE r.end > end /\ s = Range(end, r.end, r.id)
  BY <1>2 DEF IsRange, Meets, Range
<1> QED
  BY <1>1, <1>2 DEF Left

\* When one range meets the hole it is erased and what is left of it is put, as
\* no key of that is in the map.
LEMMA HoleStraight ==
  ASSUME NEW map, Disjoint(map), NEW start \in Nat, NEW end \in Nat, start < end,
         Straight(map, start, end)
  PROVE  InsertHole(map, start, end) =
           {(map \ Met(map, start, end)) \cup (UNION {Left(r, start, end) : r \in Met(map, start, end)})}
<1> DEFINE met == Met(map, start, end)
           first == {r \in met : \A s \in met : s = r \/ Before(r, s)}
           left == UNION {Left(r, start, end) : r \in met}
           new == {q \in left : \A s \in map : ~SameKey(q, s)}
           Kept(k) == \A q \in new : \E r \in k : SameKey(q, r) /\ \A s \in k : SameKey(q, s) => s = r
<1>1. first = met
  BY DEF Straight
<1>2. \A others \in SUBSET met : first \cup others = met
  BY <1>1
<1>3. met \subseteq map /\ \A r \in met : IsRange(r) /\ Meets(r, start, end)
  BY DEF Met, Disjoint
<1>4. new = left
  <2> SUFFICES ASSUME NEW q \in left, NEW s \in map, SameKey(q, s) PROVE FALSE
    OBVIOUS
  <2>1. PICK r \in met : q \in Left(r, start, end)
    OBVIOUS
  <2>2. IsRange(r) /\ IsRange(s) /\ (r = s \/ Apart(r, s))
    BY <1>3 DEF Disjoint
  <2>3. IsRange(q) /\ r.start <= q.start /\ q.end <= r.end /\ (q.end <= start \/ end <= q.start)
    BY <1>3, <2>1, LeftOutsideHole
  <2>4. CASE r = s
    BY <1>3, <2>2, <2>3, <2>4 DEF SameKey, Meets, IsRange
  <2>5. CASE Apart(r, s)
    BY <2>2, <2>3, <2>5 DEF SameKey, Apart, IsRange
  <2> QED
    BY <2>2, <2>4, <2>5
<1>5. \A q, s \in left : SameKey(q, s) => q = s
  <2> SUFFICES ASSUME NEW q \in left, NEW s \in left, SameKey(q, s) PROVE q = s
    OBVIOUS
  <2>1. PICK r \in met : q \in Left(r, start, end) /\ s \in Left(r, start, end)
    BY DEF Straight
  <2>2. IsRange(r) /\ Meets(r, start, end)
    BY <1>3
  <2> QED
    BY <2>1, <2>2 DEF Left, SameKey, Range, IsRange, Meets
<1> HIDE DEF met, left, first
<1> DEFINE keeps == {k \in SUBSET new : Kept(k)}
<1>6. keeps = {left}
  <2>1. Kept(left)
    BY <1>4, <1>5 DEF SameKey
  <2>2. ASSUME NEW k \in SUBSET new, Kept(k) PROVE k = left
    <3> SUFFICES ASSUME NEW q \in left PROVE q \in k
      BY <1>4, <2>2
    <3>1. PICK r \in k : SameKey(q, r)
      BY <1>4, <2>2
    <3> QED
      BY <1>4, <1>5, <2>2, <3>1
  <2> QED
    BY <1>4, <2>1, <2>2
<1>7. Holed(map, met, start, end) = {(map \ met) \cup kept : kept \in keeps}
  BY DEF Holed, left
<1> HIDE DEF keeps, new
<1>8. Holed(map, met, start, end) = {(map \ met) \cup left}
  BY <1>6, <1>7
<1>9. \A h : h \in InsertHole(map, start, end) <=>
               \E others \in SUBSET met : h \in Holed(map, first \cup others, start, end)
  BY DEF InsertHole, met, first
<1>10. \A h : h \in InsertHole(map, start, end) <=> h \in Holed(map, met, start, end)
  <2>1. {} \in SUBSET met
    OBVIOUS
  <2> QED
    BY <1>2, <1>9, <2>1
<1>11. InsertHole(map, start, end) = {(map \ met) \cup left}
  BY <1>8, <1>10
<1> QED
  BY <1>11 DEF met, left

\* And the range is put, as its key is not in the map either.
LEMMA InsertStraight ==
  ASSUME NEW map, Disjoint(map), NEW start \in Nat, NEW end \in Nat, start < end, NEW id,
         Straight(map, start, end)
  PROVE  InsertRange(map, start, end, id) = {Overwritten(map, start, end, id)}
<1> DEFINE met == Met(map, start, end)
           holed == (map \ met) \cup (UNION {Left(r, start, end) : r \in met})
           new == Range(start, end, id)
<1>1. InsertHole(map, start, end) = {holed}
  BY HoleStraight
<1>2. \A s \in holed : ~SameKey(s, new)
  <2> SUFFICES ASSUME NEW s \in holed, SameKey(s, new) PROVE FALSE
    OBVIOUS
  <2>1. CASE s \in map \ met
    BY <2>1 DEF Disjoint, Met, Meets, IsRange, SameKey, Range
  <2>2. CASE \E r \in met : s \in Left(r, start, end)
    <3>1. PICK r \in met : s \in Left(r, start, end)
      BY <2>2
    <3>2. IsRange(r) /\ Meets(r, start, end)
      BY DEF Met, Disjoint
    <3>3. IsRange(s) /\ (s.end <= start \/ end <= s.start)
      BY <3>1, <3>2, LeftOutsideHole
    <3> QED
      BY <3>3 DEF SameKey, Range, IsRange
  <2> QED
    BY <2>1, <2>2
<1> HIDE DEF holed, new
<1>3. Put(holed, new) = holed \cup {new}
  BY <1>2 DEF Put
<1>4. InsertRange(map, start, end, id) = {Put(h, new) : h \in {holed}}
  BY <1>1 DEF InsertRange, new
<1> QED
  BY <1>3, <1>4 DEF Overwritten, holed, new

LEMMA InsertMembers ==
  ASSUME NEW map, NEW start, NEW end, NEW id, NEW s
  PROVE  s \in Overwritten(map, start, end, id) <=>
           \/ s \in map /\ ~Meets(s, start, end)
           \/ \E r \in map : Meets(r, start, end) /\ s \in Left(r, start, end)
           \/ s = Range(start, end, id)
  BY DEF Overwritten, Met

LEMMA OverwrittenDisjoint ==
  ASSUME NEW map, Disjoint(map), NEW id,
         NEW start \in Nat, NEW end \in Nat, start < end
  PROVE  Disjoint(Overwritten(map, start, end, id))
<1> DEFINE new == Range(start, end, id)
           \* what is kept or left of r
           Parts(r) == IF Meets(r, start, end) THEN Left(r, start, end) ELSE {r}
<1>1. \A s \in Overwritten(map, start, end, id) : s = new \/ \E r \in map : s \in Parts(r)
  BY InsertMembers
<1>2. \A r \in map : \A s \in Parts(r) :
        IsRange(s) /\ r.start <= s.start /\ s.end <= r.end /\ Apart(s, new)
  <2> SUFFICES ASSUME NEW r \in map, NEW s \in Parts(r)
               PROVE  IsRange(s) /\ r.start <= s.start /\ s.end <= r.end /\ Apart(s, new)
    OBVIOUS
  <2>1. IsRange(r)
    BY DEF Disjoint
  <2>2. CASE Meets(r, start, end)
    BY <2>1, <2>2, LeftOutsideHole DEF Apart, Range
  <2>3. CASE ~Meets(r, start, end)
    BY <2>1, <2>3 DEF Meets, Apart, Range, IsRange
  <2> QED
    BY <2>2, <2>3
<1>3. IsRange(new)
  BY DEF IsRange, Range
<1>4. \A r \in map : \A s, t \in Parts(r) : s # t => Apart(s, t)
  <2> SUFFICES ASSUME NEW r \in map, NEW s \in Parts(r), NEW t \in Parts(r), s # t
               PROVE  Apart(s, t)
    OBVIOUS
  <2>1. IsRange(r) /\ Meets(r, start, end)
    BY DEF Disjoint
  <2> QED
    BY <2>1 DEF Left, Apart, Range, IsRange
<1>5. \A q, r \in map : q # r => \A s \in Parts(q), t \in Parts(r) : Apart(s, t)
  <2> SUFFICES ASSUME NEW q \in map, NEW r \in map, q # r, NEW s \in Parts(q), NEW t \in Parts(r)
               PROVE  Apart(s, t)
    OBVIOUS
  <2>1. IsRange(q) /\ IsRange(r) /\ Apart(q, r)
    BY DEF Disjoint
  <2> HIDE DEF Parts
  <2> QED
    BY <2>1, <1>2 DEF Apart, IsRange
<1> HIDE DEF Parts, new
<1>6. \A s \in Overwritten(map, start, end, id) : IsRange(s)
  BY <1>1, <1>2, <1>3
<1>7. ASSUME NEW s \in Overwritten(map, start, end, id),
             NEW t \in Overwritten(map, start, end, id), s # t
      PROVE  Apart(s, t)
  <2>1. CASE s = new
    BY <2>1, <1>7, <1>1, <1>2 DEF Apart
  <2>2. CASE t = new
    BY <2>2, <1>7, <1>1, <1>2
  <2>3. CASE s # new /\ t # new
    BY <2>3, <1>7, <1>1, <1>4, <1>5
  <2> QED
    BY <2>1, <2>2, <2>3
<1> QED
  BY <1>6, <1>7 DEF Disjoint

\* Where insert_hole has at most one range to erase, the new range and what is left
\* of the old ones do not overlap, whether it cuts, splits or covers one
\* (range_map::insert).
THEOREM InsertKeepsDisjoint ==
  ASSUME NEW map, Disjoint(map), NEW id,
         NEW start \in Nat, NEW end \in Nat, start < end,
         Straight(map, start, end)
  PROVE  \A after \in InsertRange(map, start, end, id) : Disjoint(after)
BY InsertStraight, OverwrittenDisjoint

\* Of ranges that do not overlap, find returns the one the address is in although
\* it looks at two at most (range_map::find).
THEOREM FindFindsCovering ==
  ASSUME NEW map, Disjoint(map), NEW at \in Nat, NEW r \in map, Covers(r, at)
  PROVE  FindRange(map, at) = r.id
<1> DEFINE here == {s \in map : s.start = at}
           before == {s \in map : s.start < at}
<1>1. IsRange(r) /\ \A s \in map : IsRange(s) /\ (s = r \/ Apart(r, s))
  BY DEF Disjoint
<1>2. \A s \in map : s # r => s.start >= r.end \/ s.end <= r.start
  BY <1>1 DEF Apart
<1>3. \A s \in here : s = r
  BY <1>1, <1>2 DEF Covers, IsRange
<1>4. CASE r.start = at
  <2>1. here = {r}
    BY <1>3, <1>4
  <2>2. Lowest(here) = r
    <3>1. ~Before(r, r)
      BY <1>1 DEF Before, IsRange
    <3> QED
      BY <2>1, <3>1 DEF Lowest
  <2> QED
    BY <2>1, <2>2 DEF FindRange
<1>5. CASE r.start < at
  <2>1. here = {}
    BY <1>3, <1>5, <1>1 DEF IsRange
  <2>2. r \in before
    BY <1>5
  <2>3. \A s \in before : s = r \/ (Before(s, r) /\ ~Before(r, s))
    BY <1>1, <1>2 DEF Covers, IsRange, Before
  <2>4. Highest(before) = r
    <3>1. ~Before(r, r)
      BY <1>1 DEF Before, IsRange
    <3>2. \A s \in before : s # r => Before(s, r)
      BY <2>3
    <3>3. \A s \in before : ~Before(r, s)
      BY <2>3, <3>1
    <3> HIDE DEF before
    <3> QED
      BY <2>2, <3>2, <3>3 DEF Highest
  <2>5. r.end > at
    BY <1>1 DEF Covers, IsRange
  <2> QED
    BY <2>1, <2>2, <2>4, <2>5 DEF FindRange
<1> QED
  BY <1>1, <1>4, <1>5 DEF Covers, IsRange

\* A range of the map has the address.
Has(map, at, id) == \E r \in map : Covers(r, at) /\ r.id = id

\* An insert has its own addresses, and what was at the others stays there.
LEMMA InsertHas ==
  ASSUME NEW map, Disjoint(map), NEW id,
         NEW start \in Nat, NEW end \in Nat, start < end,
         NEW at \in Nat
  PROVE  /\ start <= at /\ at < end => Has(Overwritten(map, start, end, id), at, id)
         /\ ~(start <= at /\ at < end) => \A other :
              Has(map, at, other) => Has(Overwritten(map, start, end, id), at, other)
<1>1. ASSUME start <= at, at < end PROVE Has(Overwritten(map, start, end, id), at, id)
  <2>1. Range(start, end, id) \in Overwritten(map, start, end, id)
    BY InsertMembers
  <2>2. Covers(Range(start, end, id), at) /\ Range(start, end, id).id = id
    BY <1>1 DEF Covers, Range
  <2> QED
    BY <2>1, <2>2 DEF Has
<1>2. ASSUME NEW other, Has(map, at, other), ~(start <= at /\ at < end)
      PROVE  Has(Overwritten(map, start, end, id), at, other)
  <2>1. PICK r \in map : Covers(r, at) /\ r.id = other
    BY <1>2 DEF Has
  <2>2. CASE ~Meets(r, start, end)
    BY <2>1, <2>2, InsertMembers DEF Has
  <2>3. CASE Meets(r, start, end)
    <3>1. IsRange(r)
      BY DEF Disjoint
    <3>2. PICK s \in Left(r, start, end) : Covers(s, at) /\ s.id = r.id
      <4>1. CASE at < start
        <5>1. Range(r.start, start, r.id) \in Left(r, start, end)
          BY <2>1, <3>1, <4>1 DEF Left, Covers, IsRange
        <5> QED
          BY <2>1, <3>1, <4>1, <5>1 DEF Covers, Range, IsRange
      <4>2. CASE end <= at
        <5>1. Range(end, r.end, r.id) \in Left(r, start, end)
          BY <2>1, <3>1, <4>2 DEF Left, Covers, IsRange
        <5> QED
          BY <2>1, <3>1, <4>2, <5>1 DEF Covers, Range, IsRange
      <4> QED
        BY <1>2, <4>1, <4>2
    <3>3. s \in Overwritten(map, start, end, id)
      BY <2>3, <3>2, InsertMembers
    <3> QED
      BY <2>1, <3>2, <3>3 DEF Has
  <2> QED
    BY <2>2, <2>3
<1> QED
  BY <1>1, <1>2

\* What a map has is found in it.
LEMMA HasIsFound ==
  ASSUME NEW map, Disjoint(map), NEW at \in Nat, NEW id, Has(map, at, id)
  PROVE  FindRange(map, at) = id
BY FindFindsCovering DEF Has

\* A mapping that meets one older range at most hides what was mapped at its
\* addresses, and nothing else: find returns the new executable there, and what it
\* was elsewhere.
THEOREM InsertOverwrites ==
  ASSUME NEW map, Disjoint(map), NEW id,
         NEW start \in Nat, NEW end \in Nat, start < end,
         Straight(map, start, end),
         NEW after \in InsertRange(map, start, end, id),
         NEW at \in Nat
  PROVE  /\ start <= at /\ at < end => FindRange(after, at) = id
         /\ \A r \in map : Covers(r, at) /\ ~(start <= at /\ at < end)
              => FindRange(after, at) = r.id
<1>1. after = Overwritten(map, start, end, id)
  BY InsertStraight
<1>2. Disjoint(after)
  BY <1>1, OverwrittenDisjoint
<1>3. start <= at /\ at < end => Has(after, at, id)
  BY <1>1, InsertHas
<1>4. ASSUME NEW r \in map, Covers(r, at), ~(start <= at /\ at < end)
      PROVE  Has(after, at, r.id)
  <2>1. Has(map, at, r.id)
    BY <1>4 DEF Has
  <2> QED
    BY <1>1, <1>4, <2>1, InsertHas
<1> HIDE DEF Has
<1>5. \A other : Has(after, at, other) => FindRange(after, at) = other
  BY <1>2, HasIsFound
<1> QED
  BY <1>3, <1>4, <1>5

-----------------------------------------------------------------------------
(* What the lists say *)

\* The mapping of a list that counts for address a at time tsc: the latest one
\* before it that covers the address.
Newest(list, tsc, a, m) ==
  /\ m \in list /\ m.tsc < tsc /\ Covers(m, a)
  /\ \A n \in list : n.tsc < tsc /\ Covers(n, a) => n.tsc <= m.tsc

\* A list of mappings has one per time.
Mappings(list) ==
  /\ \A m \in list : /\ m.tsc \in Nat /\ m.tsc >= 1
                     /\ m.start \in Nat /\ m.end \in Nat /\ m.start <= m.end
  /\ \A m, n \in list : m.tsc = n.tsc => m = n

\* No length was cut to nothing.
NonEmpty(list) == \A m \in list : m.start < m.end

Says(list, tsc, a, exe) == \E m \in list : Newest(list, tsc, a, m) /\ m.exe = exe

\* None is of the future, and only the module is at the module's address.
ListOk(list) ==
  /\ Mappings(list)
  /\ \A m \in list : m.tsc <= time /\ (Covers(m, ModuleAddr) => m.exe = Module)

\* The list of a known process starts with the modules.
ListInv ==
  /\ DOMAIN mmaps_over_time = Pid
  /\ \A p \in Pid :
       /\ ListOk(mmaps_over_time[p])
       /\ IF Known(p) THEN ModuleMaps \subseteq mmaps_over_time[p]
                      ELSE mmaps_over_time[p] = {}

LengthsInv == \A p \in Pid \ misled : NonEmpty(mmaps_over_time[p])

Maps == [UserAddr -> Exe \cup {None}]

\* What was mapped when.
HistoryInv ==
  /\ time \in Nat /\ time >= 2 /\ scanEnd \in Nat /\ scanEnd <= time
  /\ phase \in {"run", "lookup"} => scanEnd >= 2
  /\ mm \in [Pid -> Maps]
  /\ DOMAIN mmAt \subseteq 2 .. time /\ 2 \in DOMAIN mmAt /\ time \in DOMAIN mmAt
  /\ mmAt \in [DOMAIN mmAt -> [Pid -> Maps]]
  /\ mmAt[time] = mm
  /\ misled \subseteq Pid

\* What is mapped at a now is what the list of p says.
SaysNow(p, a) ==
  mm[p][a] # None => Says(mmaps_over_time[p], time + 1, a, mm[p][a])

\* What was mapped at the time tsc is what the list says.
SaysAt(p, tsc) ==
  \A a \in UserAddr : MappedAt(p, tsc)[a] # None =>
    Says(mmaps_over_time[p], tsc, a, MappedAt(p, tsc)[a])

\* The task the scan is at, and what it has read of it.
ScanTypes ==
  /\ phase \in {"modules", "scan", "run", "lookup"}
  /\ phase = "modules" => scanTask = 1
  /\ scanAddr \in Nat
  /\ scanAddr > 0 \/ scanVma # None => phase = "scan" /\ IsTask(scanTask)
  /\ scanVma # None => scanVma \in Exe /\ scanAddr \in UserAddr

\* What the scan has passed is in the lists.
ScanInv ==
  phase = "scan" =>
    /\ \A i \in DOMAIN tasks : i < scanTask /\ tasks[i] \notin misled =>
         \A a \in UserAddr : SaysNow(tasks[i], a)
    /\ IsTask(scanTask) /\ Scanned \notin misled =>
         /\ \A a \in UserAddr : a < scanAddr => SaysNow(Scanned, a)
         /\ scanVma # None => mm[Scanned][scanAddr] = scanVma

\* A process that is not there yet has nothing mapped, and is not known.
Unborn ==
  \A q \in Pid : q \notin Alive =>
    ~Known(q) /\ mm[q] = Nothing /\ \A t \in DOMAIN mmAt : mmAt[t][q] = Nothing

\* Nobody who is to be announced is a parent.
Parents == \A p \in Pid : child[p] # None => p \in Alive /\ Announced(p)

\* A child that is to be announced has its parent's mappings.
PendingInv ==
  \A p, q \in Pid : child[p] = q /\ q \notin misled =>
    /\ p \notin misled /\ mm[q] = mm[p]
    /\ phase = "run" => \A tsc \in scanEnd + 1 .. time + 1 : \A a \in UserAddr :
         MappedAt(q, tsc)[a] \in {None, MappedAt(p, tsc)[a]}

\* After the scan the lists of the known processes are right, for all times.
RunInv ==
  phase \in {"run", "lookup"} =>
    \A p \in pids \ misled : \A tsc \in scanEnd + 1 .. time + 1 : SaysAt(p, tsc)

\* What is kept of a lookup is what the list says for all times in its slot,
\* unless the process was misled or an insert met more than one range.
LookupInv ==
  /\ phase = "lookup" => the_process \in pids
  /\ phase # "lookup" => asked = 0 /\ ranges = {}
  /\ straight \in BOOLEAN /\ \A r \in ranges : r = Range(r.start, r.end, r.id) /\ r.start \in Nat /\ r.end \in Nat
  /\ phase = "lookup" /\ straight /\ the_process \notin misled => Disjoint(ranges)
  /\ slot[1] \in Nat /\ slot[2] \in Nat
  /\ asked = 0 => slot = <<0, 0>>
  /\ asked # 0 => asked \in scanEnd + 1 .. time + 1
  /\ asked # 0 /\ forward =>
       /\ slot[1] < asked
       /\ \A m \in mmaps_over_time[the_process] :
            IF m.tsc < asked THEN m.tsc <= slot[1] ELSE m.tsc >= slot[2]
  /\ asked # 0 /\ forward /\ straight /\ the_process \notin misled =>
       \A a \in Addr : \A m \in mmaps_over_time[the_process] :
         Newest(mmaps_over_time[the_process], asked, a, m) => Has(ranges, a, m.exe)

MapInv == /\ ListInv /\ LengthsInv /\ HistoryInv /\ ScanTypes /\ ScanInv /\ Unborn /\ Parents
          /\ PendingInv /\ RunInv /\ LookupInv
MInv == IInv /\ MapInv

-----------------------------------------------------------------------------
(* The rebuilding of current_mmaps_ *)

\* The maps insert_hole and insert work on hold ranges of G, and so do theirs.
Within(G) ==
  /\ \A m \in mmaps_over_time[the_process] : Range(m.start, m.end, m.exe) \in G
  /\ \A r \in G : \A start, end \in Nat : Meets(r, start, end) => Left(r, start, end) \subseteq G

States(G) == [ranges : SUBSET G, straight : BOOLEAN]

LEMMA InsertsAre ==
  ASSUME NEW s, NEW m, NEW after \in Inserts(s, m)
  PROVE  /\ after.ranges \in InsertRange(s.ranges, m.start, m.end, m.exe)
         /\ after.straight <=> s.straight /\ Straight(s.ranges, m.start, m.end)
         /\ after = [ranges |-> after.ranges, straight |-> after.straight]
         /\ after.straight \in BOOLEAN
<1>1. PICK map \in InsertRange(s.ranges, m.start, m.end, m.exe) :
        after = [ranges |-> map, straight |-> (s.straight /\ Straight(s.ranges, m.start, m.end))]
  BY Zenon DEF Inserts, Straight
<1>2. after.ranges = map
  BY <1>1, Zenon
<1>3. after.straight = (s.straight /\ Straight(s.ranges, m.start, m.end))
  BY <1>1, Zenon
<1>4. (s.straight /\ Straight(s.ranges, m.start, m.end)) \in BOOLEAN
  BY Zenon
<1>5. after = [ranges |-> after.ranges, straight |-> after.straight]
  BY <1>1, <1>2, <1>3, Zenon
<1> QED
  BY <1>2, <1>3, <1>4, <1>5, Zenon

LEMMA InsertsWithin ==
  ASSUME NEW G, Within(G), Mappings(mmaps_over_time[the_process]),
         NEW m \in mmaps_over_time[the_process],
         NEW s \in States(G)
  PROVE  Inserts(s, m) \subseteq States(G)
<1>1. m.start \in Nat /\ m.end \in Nat /\ Range(m.start, m.end, m.exe) \in G /\ s.ranges \subseteq G
  BY DEF Within, Mappings, States
<1>2. ASSUME NEW gone, gone \subseteq Met(s.ranges, m.start, m.end),
             NEW holed \in Holed(s.ranges, gone, m.start, m.end)
      PROVE  holed \subseteq G
  <2> SUFFICES ASSUME NEW r \in holed, r \notin s.ranges PROVE r \in G
    BY <1>1
  <2>1. r \in UNION {Left(q, m.start, m.end) : q \in gone}
    BY DEF Holed
  <2>2. PICK q \in gone : r \in Left(q, m.start, m.end)
    BY <2>1
  <2>3. q \in G /\ Meets(q, m.start, m.end)
    BY <1>1, <1>2 DEF Met
  <2> QED
    BY <1>1, <2>2, <2>3 DEF Within
<1>3. \A holed \in InsertHole(s.ranges, m.start, m.end) : holed \subseteq G
  <2> SUFFICES ASSUME NEW holed \in InsertHole(s.ranges, m.start, m.end) PROVE holed \subseteq G
    OBVIOUS
  <2> DEFINE met == Met(s.ranges, m.start, m.end)
             first == {r \in met : \A q \in met : q = r \/ Before(r, q)}
  <2>1. PICK others \in SUBSET met : holed \in Holed(s.ranges, first \cup others, m.start, m.end)
    BY DEF InsertHole
  <2>2. first \cup others \subseteq met
    BY <2>1
  <2> HIDE DEF met, first
  <2> QED
    BY <1>2, <2>1, <2>2 DEF met
<1>4. \A map \in InsertRange(s.ranges, m.start, m.end, m.exe) : map \subseteq G
  BY <1>1, <1>3 DEF InsertRange, Put
<1> SUFFICES ASSUME NEW after \in Inserts(s, m) PROVE after \in States(G)
  OBVIOUS
<1>5. PICK map, b : map = after.ranges /\ b = after.straight /\ after = [ranges |-> map, straight |-> b]
                    /\ b \in BOOLEAN /\ map \subseteq G
  BY <1>4, InsertsAre, Zenon
<1> QED
  BY <1>5 DEF States

Times(tsc) == {m.tsc : m \in {n \in mmaps_over_time[the_process] : n.tsc < tsc}}
MappingOf(t) == CHOOSE m \in mmaps_over_time[the_process] : m.tsc = t

\* The states after the mapping of time t, of those before it
Round(t, tsc, before) ==
  IF t \in Times(tsc) THEN UNION {Inserts(s, MappingOf(t)) : s \in before} ELSE before

LEMMA TimesFacts ==
  ASSUME Mappings(mmaps_over_time[the_process]), NEW tsc
  PROVE  /\ \A t \in Times(tsc) : /\ MappingOf(t) \in mmaps_over_time[the_process]
                                  /\ MappingOf(t).tsc = t /\ t \in Nat /\ t >= 1 /\ t < tsc
         /\ \A m \in mmaps_over_time[the_process] : m.tsc < tsc => m.tsc \in Times(tsc) /\ MappingOf(m.tsc) = m
BY DEF Mappings, Times, MappingOf

IsLoop(f, tsc, G, before) ==
  /\ f \in [0 .. tsc -> SUBSET States(G)]
  /\ f[0] = {before} /\ \A t \in 1 .. tsc : f[t] = Round(t, tsc, f[t - 1])

\* The loop of the rebuilding has a result, of ranges of G.
LEMMA RebuiltLoop ==
  ASSUME Mappings(mmaps_over_time[the_process]), NEW tsc \in Nat,
         NEW G, Within(G), NEW before \in States(G)
  PROVE  \E f : Rebuilt(before, tsc) = f[tsc] /\ IsLoop(f, tsc, G, before)
<1> DEFINE IsUpTo(f) == f = [t \in 0 .. tsc |-> IF t = 0 THEN {before} ELSE Round(t, tsc, f[t - 1])]
           upTo == CHOOSE f : IsUpTo(f)
           T == SUBSET States(G)
           step == [t \in 1 .. tsc |-> [v \in T |-> Round(t, tsc, v)]]
<1>1. Rebuilt(before, tsc) = upTo[tsc]
  BY DEF Rebuilt, Round, Times, MappingOf
<1>2. \A t \in 1 .. tsc, v \in T : Round(t, tsc, v) \in T
  <2> SUFFICES ASSUME NEW t \in Times(tsc), NEW v \in T, NEW s \in v
               PROVE  Inserts(s, MappingOf(t)) \subseteq States(G)
    BY DEF Round
  <2>1. MappingOf(t) \in mmaps_over_time[the_process]
    BY TimesFacts
  <2>2. s \in States(G)
    OBVIOUS
  <2> QED
    BY <2>1, <2>2, InsertsWithin
<1>3. {before} \in T
  OBVIOUS
<1> HIDE DEF T
<1>4. step \in [1 .. tsc -> [T -> T]]
  BY <1>2
<1> HIDE DEF step
<1>5. PICK g \in [0 .. tsc -> T] : Rounds(g, tsc, {before}, step)
  BY <1>3, <1>4, LoopExists
<1>6. \A t \in 0 .. tsc : g[t] = IF t = 0 THEN {before} ELSE Round(t, tsc, g[t - 1])
  <2> SUFFICES ASSUME NEW t \in 0 .. tsc PROVE g[t] = IF t = 0 THEN {before} ELSE Round(t, tsc, g[t - 1])
    OBVIOUS
  <2>1. CASE t = 0
    BY <1>5, <2>1 DEF Rounds
  <2>2. CASE t # 0
    <3>1. t \in 1 .. tsc /\ g[t - 1] \in T
      BY <1>5, <2>2
    <3>2. g[t] = step[t][g[t - 1]]
      BY <1>5, <3>1 DEF Rounds
    <3> QED
      BY <2>2, <3>1, <3>2 DEF step
  <2> QED
    BY <2>1, <2>2
<1>7. IsUpTo(upTo)
  <2>1. IsUpTo(g)
    BY <1>6, Zenon
  <2> QED
    BY <2>1
<1> HIDE DEF upTo
<1>8. upTo[0] = {before} /\ \A t \in 1 .. tsc : upTo[t] = Round(t, tsc, upTo[t - 1])
  <2>1. \A t \in 0 .. tsc : upTo[t] = IF t = 0 THEN {before} ELSE Round(t, tsc, upTo[t - 1])
    BY <1>7, Zenon
  <2>2. \A t \in 1 .. tsc : t \in 0 .. tsc /\ t # 0
    OBVIOUS
  <2>3. 0 \in 0 .. tsc
    OBVIOUS
  <2> QED
    BY <2>1, <2>2, <2>3, Zenon
<1> DEFINE S == {t \in Nat : t <= tsc => upTo[t] \in T}
<1>9. 0 \in S
  BY <1>3, <1>8
<1>10. \A t \in Nat : t \in S => t + 1 \in S
  <2> SUFFICES ASSUME NEW t \in Nat, t \in S, t + 1 <= tsc PROVE upTo[t + 1] \in T
    OBVIOUS
  <2>1. t + 1 \in 1 .. tsc /\ upTo[t] \in T /\ upTo[t + 1] = Round(t + 1, tsc, upTo[t])
    BY <1>8
  <2> QED
    BY <1>2, <2>1
<1> HIDE DEF S
<1>11. \A t \in 0 .. tsc : upTo[t] \in T
  <2>1. Nat \subseteq S
    BY <1>9, <1>10, SetInduction
  <2> QED
    BY <2>1 DEF S
<1>12. upTo \in [0 .. tsc -> T]
  BY <1>7, <1>11
<1> QED
  BY <1>1, <1>8, <1>12 DEF T, IsLoop

LEMMA RebuiltWithin ==
  ASSUME Mappings(mmaps_over_time[the_process]), NEW tsc \in Nat,
         NEW G, Within(G), NEW before \in States(G)
  PROVE  Rebuilt(before, tsc) \subseteq States(G)
<1>1. PICK f : Rebuilt(before, tsc) = f[tsc] /\ IsLoop(f, tsc, G, before)
  BY RebuiltLoop
<1> QED
  BY <1>1 DEF IsLoop

\* The mapping that counts for an address after the mappings until t of those
\* before tsc
Latest(m, t, tsc, at) ==
  /\ m \in mmaps_over_time[the_process] /\ m.tsc < tsc /\ m.tsc <= t /\ Covers(m, at)
  /\ \A n \in mmaps_over_time[the_process] : n.tsc < tsc /\ n.tsc <= t /\ Covers(n, at) => n.tsc <= m.tsc

\* A state all inserts of which were straight has ranges that do not overlap, and
\* at each address what the mappings until t say.
Right(s, t, tsc, before) ==
  s.straight =>
    /\ before.straight
    /\ Disjoint(s.ranges)
    /\ \A at \in Nat : \A m : Latest(m, t, tsc, at) => Has(s.ranges, at, m.exe)

\* An insert keeps that.
LEMMA RoundRight ==
  ASSUME Mappings(mmaps_over_time[the_process]), NonEmpty(mmaps_over_time[the_process]),
         NEW tsc \in Nat, NEW before, NEW G, NEW old \in States(G), NEW t \in Nat, Right(old, t, tsc, before),
         t + 1 \in Times(tsc), NEW s \in Inserts(old, MappingOf(t + 1))
  PROVE  Right(s, t + 1, tsc, before)
<1> SUFFICES ASSUME s.straight PROVE Right(s, t + 1, tsc, before)
  BY DEF Right
<1> DEFINE list == mmaps_over_time[the_process]
<1>1. PICK n \in list : n = MappingOf(t + 1) /\ n.tsc = t + 1 /\ n.tsc < tsc
  BY TimesFacts
<1>2. n.start \in Nat /\ n.end \in Nat /\ n.start < n.end
  BY <1>1 DEF Mappings, NonEmpty
<1>3. /\ s.ranges \in InsertRange(old.ranges, n.start, n.end, n.exe)
      /\ old.straight /\ Straight(old.ranges, n.start, n.end)
  BY <1>1, InsertsAre, Zenon
<1>4. before.straight /\ Disjoint(old.ranges)
  BY <1>3 DEF Right
<1>5. s.ranges = Overwritten(old.ranges, n.start, n.end, n.exe) /\ Disjoint(s.ranges)
  BY <1>2, <1>3, <1>4, InsertStraight, OverwrittenDisjoint
<1>6. ASSUME NEW at \in Nat, NEW m, Latest(m, t + 1, tsc, at)
      PROVE  Has(s.ranges, at, m.exe)
  <2>1. m \in list /\ m.tsc \in Nat /\ m.tsc <= t + 1
    BY <1>6 DEF Latest, Mappings
  <2>2. CASE Covers(n, at)
    <3>1. n.tsc <= m.tsc
      BY <1>1, <1>6, <2>2 DEF Latest
    <3>2. m = n
      BY <1>1, <2>1, <3>1 DEF Mappings
    <3> QED
      BY <1>2, <1>4, <1>5, <2>2, <3>2, InsertHas DEF Covers
  <2>3. CASE ~Covers(n, at)
    <3>1. m # n
      BY <1>6, <2>3 DEF Latest
    <3>2. m.tsc # n.tsc
      BY <1>1, <2>1, <3>1 DEF Mappings
    <3>3. m.tsc <= t
      BY <1>1, <2>1, <3>2
    <3>4. \A l \in list : l.tsc \in Nat
      BY DEF Mappings
    <3>5. Latest(m, t, tsc, at)
      BY <1>6, <3>3, <3>4 DEF Latest
    <3>6. Has(old.ranges, at, m.exe)
      BY <1>3, <3>5 DEF Right
    <3> QED
      BY <1>2, <1>4, <1>5, <2>3, <3>6, InsertHas DEF Covers
  <2> QED
    BY <2>2, <2>3
<1> QED
  BY <1>4, <1>5, <1>6 DEF Right

\* Of a map that was right, or was empty, the rebuilding makes maps of which those
\* with straight inserts have, at each address, the latest of the list's mappings
\* before tsc that covers it.
LEMMA RebuiltFacts ==
  ASSUME Mappings(mmaps_over_time[the_process]), NonEmpty(mmaps_over_time[the_process]),
         NEW tsc \in Nat, NEW G, Within(G), NEW before \in States(G),
         before.straight => Disjoint(before.ranges),
         NEW after \in Rebuilt(before, tsc), after.straight
  PROVE  /\ before.straight /\ Disjoint(after.ranges)
         /\ \A at \in Nat : \A m : Newest(mmaps_over_time[the_process], tsc, at, m) =>
              Has(after.ranges, at, m.exe)
<1> DEFINE list == mmaps_over_time[the_process]
<1>0. PICK f : Rebuilt(before, tsc) = f[tsc] /\ IsLoop(f, tsc, G, before)
  BY RebuiltLoop
<1>1. /\ f \in [0 .. tsc -> SUBSET States(G)]
      /\ Rebuilt(before, tsc) = f[tsc]
      /\ f[0] = {before} /\ \A t \in 1 .. tsc : f[t] = Round(t, tsc, f[t - 1])
  BY <1>0 DEF IsLoop
<1> DEFINE S == {t \in Nat : t <= tsc => \A s \in f[t] : Right(s, t, tsc, before)}
<1>2. 0 \in S
  <2>1. \A at \in Nat : \A m : ~Latest(m, 0, tsc, at)
    BY DEF Latest, Mappings
  <2> QED
    BY <1>1, <2>1 DEF Right
<1>3. \A t \in Nat : t \in S => t + 1 \in S
  <2> SUFFICES ASSUME NEW t \in Nat, t \in S, t + 1 <= tsc, NEW s \in f[t + 1]
               PROVE  Right(s, t + 1, tsc, before)
    OBVIOUS
  <2>1. t \in 0 .. tsc /\ f[t] \subseteq States(G) /\ f[t + 1] = Round(t + 1, tsc, f[t])
        /\ \A old \in f[t] : Right(old, t, tsc, before)
    BY <1>1
  <2>2. CASE t + 1 \in Times(tsc)
    <3>1. PICK old \in f[t] : s \in Inserts(old, MappingOf(t + 1))
      BY <2>1, <2>2 DEF Round
    <3> QED
      BY <2>1, <2>2, <3>1, RoundRight
  <2>3. CASE t + 1 \notin Times(tsc)
    <3>1. Right(s, t, tsc, before)
      BY <2>1, <2>3 DEF Round
    <3>2. \A at \in Nat : \A m : Latest(m, t + 1, tsc, at) => Latest(m, t, tsc, at)
      <4>1. \A m \in list : m.tsc < tsc /\ m.tsc <= t + 1 => m.tsc <= t
        BY <2>3, TimesFacts DEF Mappings
      <4>2. \A m \in list : m.tsc \in Nat
        BY DEF Mappings
      <4> QED
        BY <4>1, <4>2 DEF Latest
    <3> QED
      BY <3>1, <3>2 DEF Right
  <2> QED
    BY <2>2, <2>3
<1> HIDE DEF S
<1>4. tsc \in S
  BY <1>2, <1>3, SetInduction
<1>5. Right(after, tsc, tsc, before)
  BY <1>1, <1>4 DEF S
<1>6. \A at \in Nat : \A m : Newest(list, tsc, at, m) => Latest(m, tsc, tsc, at)
  BY DEF Newest, Latest, Mappings
<1> QED
  BY <1>5, <1>6 DEF Right

-----------------------------------------------------------------------------
(* The past *)

\* What the constants are.
LEMMA ConstantFacts ==
  /\ Addr \subseteq Nat /\ UserAddr \subseteq Nat /\ ModuleAddr \in Nat
  /\ ModuleAddr \notin UserAddr
  /\ \A a, b \in UserAddr : a .. b \subseteq UserAddr
  /\ None \notin Exe /\ None \notin Pid /\ None # Unmapped /\ None # Module
  /\ NewExe \subseteq Exe
  /\ First \in Seq(Pid)
  /\ Mapped \in [Pid -> Maps]
  /\ Nothing \in Maps
BY SpacesAssumption DEF UserAddr, Nothing, Maps

\* The latest of the times before tsc.
LEMMA LastTime ==
  ASSUME NEW T, T \subseteq Nat, NEW x \in T, NEW tsc \in Nat, x < tsc
  PROVE  \E t \in T : t < tsc /\ \A u \in T : u < tsc => u <= t
<1> DEFINE D == {d \in Nat : tsc - d \in T /\ d >= 1}
<1>1. tsc - x \in D
  OBVIOUS
<1>2. PICK d \in D : \A e \in D : d <= e
  BY <1>1, LeastElement
<1>3. tsc - d \in T /\ tsc - d < tsc
  BY <1>2
<1>4. \A u \in T : u < tsc => u <= tsc - d
  <2> SUFFICES ASSUME NEW u \in T, u < tsc PROVE u <= tsc - d
    OBVIOUS
  <2>1. u \in Nat /\ tsc - u \in Nat /\ tsc - (tsc - u) = u /\ tsc - u >= 1
    OBVIOUS
  <2>2. d <= tsc - u
    BY <1>2, <2>1
  <2> QED
    BY <2>1, <2>2
<1> QED
  BY <1>3, <1>4

\* The time whose mappings count at tsc.
TimeBefore(f, tsc) ==
  CHOOSE t \in {t \in DOMAIN f : t < tsc} : \A u \in {u \in DOMAIN f : u < tsc} : u <= t

LEMMA TimeBeforeFacts ==
  ASSUME NEW f, DOMAIN f \subseteq Nat, 2 \in DOMAIN f, NEW tsc \in Nat, tsc > 2
  PROVE  /\ TimeBefore(f, tsc) \in DOMAIN f /\ TimeBefore(f, tsc) < tsc
         /\ \A u \in DOMAIN f : u < tsc => u <= TimeBefore(f, tsc)
         /\ \A t \in DOMAIN f : t < tsc /\ (\A u \in DOMAIN f : u < tsc => u <= t) => t = TimeBefore(f, tsc)
<1> DEFINE times == {t \in DOMAIN f : t < tsc}
<1>1. \E t \in times : \A u \in times : u <= t
  <2>1. PICK t \in DOMAIN f : t < tsc /\ \A u \in DOMAIN f : u < tsc => u <= t
    BY LastTime
  <2> QED
    BY <2>1
<1>2. /\ TimeBefore(f, tsc) \in times /\ \A u \in times : u <= TimeBefore(f, tsc)
  BY <1>1 DEF TimeBefore
<1> QED
  BY <1>2

LEMMA MappedAtIs == \A p, tsc : MappedAt(p, tsc) = mmAt[TimeBefore(mmAt, tsc)][p]
BY DEF MappedAt, TimeBefore

\* What is mapped at a time is a map, and after the latest time it is mm.
LEMMA MappedAtFacts ==
  ASSUME HistoryInv, NEW p \in Pid, NEW tsc \in Nat, tsc > 2
  PROVE  /\ MappedAt(p, tsc) \in Maps
         /\ tsc > time => MappedAt(p, tsc) = mm[p]
<1>1. DOMAIN mmAt \subseteq Nat /\ 2 \in DOMAIN mmAt /\ time \in DOMAIN mmAt /\ time \in Nat
      /\ \A t \in DOMAIN mmAt : t <= time
  BY DEF HistoryInv
<1>2. TimeBefore(mmAt, tsc) \in DOMAIN mmAt
  BY <1>1, TimeBeforeFacts
<1>3. tsc > time => TimeBefore(mmAt, tsc) = time
  BY <1>1, TimeBeforeFacts
<1> QED
  BY <1>2, <1>3, MappedAtIs DEF HistoryInv

\* A new point in time.
TimeStep ==
  /\ time' = time + 2
  /\ mmAt' = [t \in DOMAIN mmAt \cup {time'} |-> IF t = time' THEN mm' ELSE mmAt[t]]
  /\ mm' \in [Pid -> Maps]
  /\ UNCHANGED <<phase, scanEnd>>
  /\ misled' \subseteq Pid

\* It leaves the past alone.
LEMMA TimeStepFacts ==
  ASSUME HistoryInv, TimeStep
  PROVE  /\ HistoryInv'
         /\ \A p \in Pid : \A tsc \in Nat : tsc > 2 =>
              /\ tsc <= time + 2 => MappedAt(p, tsc)' = MappedAt(p, tsc)
              /\ tsc = time + 2 => MappedAt(p, tsc)' = mm[p]
              /\ tsc = time + 3 => MappedAt(p, tsc)' = mm'[p]
<1>1. DOMAIN mmAt \subseteq Nat /\ 2 \in DOMAIN mmAt /\ time \in DOMAIN mmAt /\ time \in Nat
      /\ time >= 2 /\ \A t \in DOMAIN mmAt : t <= time
  BY DEF HistoryInv
<1>2. PICK new, old, D :
        /\ new = time + 2 /\ old = mmAt /\ D = DOMAIN mmAt \cup {time + 2}
  OBVIOUS
<1>3. /\ DOMAIN mmAt' = D /\ D \subseteq Nat /\ new \in D /\ 2 \in D
      /\ mmAt'[new] = mm' /\ \A t \in DOMAIN old : mmAt'[t] = old[t]
  BY <1>1, <1>2 DEF TimeStep
<1>4. HistoryInv'
  <2>1. mmAt' \in [DOMAIN mmAt' -> [Pid -> Maps]]
    BY <1>1, <1>2, <1>3 DEF TimeStep, HistoryInv
  <2> QED
    BY <1>1, <1>2, <1>3, <2>1 DEF TimeStep, HistoryInv
<1>5. ASSUME NEW p \in Pid, NEW tsc \in Nat, tsc > 2, tsc <= new
      PROVE  MappedAt(p, tsc)' = MappedAt(p, tsc)
  <2>1. PICK t : t = TimeBefore(mmAt, tsc) /\ t \in DOMAIN mmAt /\ t < tsc
                 /\ \A u \in DOMAIN mmAt : u < tsc => u <= t
    BY <1>1, <1>5, TimeBeforeFacts
  <2>2. \A u \in D : u < tsc => u <= t
    BY <1>2, <1>5, <2>1
  <2>3. TimeBefore(mmAt', tsc) = t
    BY <1>2, <1>3, <1>5, <2>1, <2>2, TimeBeforeFacts
  <2>4. MappedAt(p, tsc)' = mmAt'[TimeBefore(mmAt', tsc)][p]
    BY DEF MappedAt, TimeBefore
  <2> QED
    BY <1>2, <1>3, <2>1, <2>3, <2>4, MappedAtIs
<1>6. ASSUME NEW p \in Pid, NEW tsc \in Nat, tsc > 2, tsc = time + 2
      PROVE  MappedAt(p, tsc)' = mm[p]
  BY <1>1, <1>2, <1>5, <1>6, MappedAtFacts
<1>7. ASSUME NEW p \in Pid, NEW tsc \in Nat, tsc > 2, tsc = time + 3
      PROVE  MappedAt(p, tsc)' = mm'[p]
  <2>1. new < tsc /\ \A u \in D : u < tsc => u <= new
    BY <1>1, <1>2, <1>7
  <2>2. TimeBefore(mmAt', tsc) = new
    BY <1>3, <1>7, <2>1, TimeBeforeFacts
  <2>3. MappedAt(p, tsc)' = mmAt'[TimeBefore(mmAt', tsc)][p]
    BY DEF MappedAt, TimeBefore
  <2> QED
    BY <1>3, <2>2, <2>3
<1> QED
  BY <1>1, <1>2, <1>4, <1>5, <1>6, <1>7

-----------------------------------------------------------------------------
(* Lists grow *)

\* A list says the same at all times that are later than its own.
LEMMA SaysLater ==
  ASSUME NEW list, NEW now \in Nat, \A m \in list : m.tsc \in Nat /\ m.tsc <= now,
         NEW t \in Nat, t > now, NEW u \in Nat, u > now,
         NEW a, NEW exe, Says(list, t, a, exe)
  PROVE  Says(list, u, a, exe)
<1>1. \A m \in list : Newest(list, t, a, m) => Newest(list, u, a, m)
  BY DEF Newest
<1> QED
  BY <1>1 DEF Says

\* A mapping that is added counts from its time on, where it is.
LEMMA AddedSays ==
  ASSUME NEW list, NEW now \in Nat, \A m \in list : m.tsc \in Nat /\ m.tsc <= now,
         NEW new, new.tsc \in Nat, new.tsc > now, NEW a, NEW t \in Nat, NEW exe
  PROVE  LET after == list \cup {new}
         IN  /\ t <= new.tsc /\ Says(list, t, a, exe) => Says(after, t, a, exe)
             /\ t > new.tsc /\ Covers(new, a) => Says(after, t, a, new.exe)
             /\ ~Covers(new, a) /\ Says(list, t, a, exe) => Says(after, t, a, exe)
<1> DEFINE after == list \cup {new}
<1>1. ASSUME t <= new.tsc \/ ~Covers(new, a), Says(list, t, a, exe)
      PROVE  Says(after, t, a, exe)
  <2>1. PICK m \in list : Newest(list, t, a, m) /\ m.exe = exe
    BY <1>1 DEF Says
  <2>2. Newest(after, t, a, m)
    BY <1>1, <2>1 DEF Newest
  <2> QED
    BY <2>1, <2>2 DEF Says
<1>2. ASSUME t > new.tsc, Covers(new, a)
      PROVE  Says(after, t, a, new.exe)
  <2>1. Newest(after, t, a, new)
    BY <1>2 DEF Newest
  <2> QED
    BY <2>1 DEF Says
<1> QED
  BY <1>1, <1>2

Entry(tsc, start, end, exe) == [tsc |-> tsc, start |-> start, end |-> end, exe |-> exe]

\* A length that is cut is less than it was, and one that fits is not cut.
LEMMA CutEndFacts ==
  ASSUME NEW start \in Nat, NEW end \in Nat, start < end
  PROVE  /\ CutEnd(start, end) \in Nat
         /\ start <= CutEnd(start, end) /\ CutEnd(start, end) <= end
         /\ end - start < LenLimit => CutEnd(start, end) = end
<1> DEFINE len == end - start
           rest == len % LenLimit
<1>1. LenLimit \in Nat /\ LenLimit > 1 /\ len \in Nat
  BY SpacesAssumption
<1>2. rest \in Nat /\ rest < LenLimit /\ (len < LenLimit => rest = len)
  BY <1>1
<1>3. rest <= len
  BY <1>1, <1>2
<1>4. CutEnd(start, end) = start + rest /\ end = start + len
  BY DEF CutEnd
<1> HIDE DEF len, rest
<1> QED
  BY <1>1, <1>2, <1>3, <1>4

\* What mmappings::insert makes of a list, with a mapping of the time after the
\* latest.
LEMMA InsertedIs ==
  ASSUME HistoryInv, NEW list, ListOk(list), NEW start, NEW end,
         NEW exe, NEW tsc \in Nat, tsc > time
  PROVE  Inserted(list, tsc, start, end, exe) = list \cup {Entry(tsc, start, CutEnd(start, end), exe)}
<1>1. \A m \in list : m.tsc # tsc
  BY DEF HistoryInv, ListOk, Mappings
<1> QED
  BY <1>1 DEF Inserted, Entry

\* The mappings until now are a list.
OkUntil(list, now) ==
  Mappings(list) /\ \A m \in list : m.tsc <= now /\ (Covers(m, ModuleAddr) => m.exe = Module)

LEMMA InsertedOk ==
  ASSUME HistoryInv, NEW list, ListOk(list), NEW start \in Nat, NEW end \in Nat, start < end,
         NEW exe, NEW tsc \in Nat, tsc > time, ModuleAddr \in start .. end - 1 => exe = Module
  PROVE  OkUntil(list \cup {Entry(tsc, start, CutEnd(start, end), exe)}, tsc)
<1>1. time \in Nat /\ \A m \in list : m.tsc \in Nat /\ m.tsc <= time /\ m.tsc < tsc
  BY DEF HistoryInv, ListOk, Mappings
<1>2. ~\E m \in list : m.tsc = tsc
  BY <1>1
<1> DEFINE new == Entry(tsc, start, CutEnd(start, end), exe)
<1>3. /\ new.tsc = tsc /\ new.start = start /\ new.exe = exe
      /\ new.end \in Nat /\ start <= new.end /\ new.end <= end
  BY CutEndFacts DEF Entry
<1> HIDE DEF new
<1>4. Mappings(list \cup {new})
  BY <1>1, <1>2, <1>3 DEF ListOk, Mappings
<1>5. \A m \in list \cup {new} : m.tsc <= tsc /\ (Covers(m, ModuleAddr) => m.exe = Module)
  BY <1>1, <1>3, ConstantFacts DEF ListOk, Covers
<1> QED
  BY <1>4, <1>5 DEF new, OkUntil

\* The modules are a list.
LEMMA ModuleListOk ==
  ASSUME HistoryInv PROVE ListOk(ModuleMaps)
BY ConstantFacts DEF HistoryInv, ListOk, Mappings, ModuleMaps, Covers

\* A list that is left as it is goes on saying what it says.
LEMMA NowKept ==
  ASSUME HistoryInv, HistoryInv', ListInv, time' >= time, NEW p \in Pid, NEW a \in UserAddr, SaysNow(p, a),
         mm'[p] = mm[p], mmaps_over_time'[p] = mmaps_over_time[p]
  PROVE  SaysNow(p, a)'
<1>1. PICK list, e, t, u :
        /\ list = mmaps_over_time[p] /\ e = mm[p][a] /\ t = time + 1 /\ u = time' + 1
        /\ t \in Nat /\ u \in Nat /\ t > time /\ u > time
  BY DEF HistoryInv
<1>2. \A m \in list : m.tsc \in Nat /\ m.tsc <= time
  BY <1>1 DEF ListInv, ListOk, Mappings
<1>3. e # None => Says(list, t, a, e)
  BY <1>1 DEF SaysNow
<1>4. e # None => Says(list, u, a, e)
  BY <1>1, <1>2, <1>3, SaysLater DEF HistoryInv
<1> QED
  BY <1>1, <1>4 DEF SaysNow

\* The list of p is the same, or has one mapping more, of the new time.
Grows(p) ==
  \/ mmaps_over_time'[p] = mmaps_over_time[p]
  \/ \E new : new.tsc = time' /\ mmaps_over_time'[p] = mmaps_over_time[p] \cup {new}

\* What a list said of the past it still says.
LEMMA PastKept ==
  ASSUME HistoryInv, ListInv, TimeStep, NEW p \in Pid, Grows(p),
         scanEnd >= 2,
         \A tsc \in scanEnd + 1 .. time + 1 : SaysAt(p, tsc),
         \A a \in UserAddr : SaysNow(p, a)'
  PROVE  (\A tsc \in scanEnd + 1 .. time + 1 : SaysAt(p, tsc))'
<1>1. time \in Nat /\ scanEnd \in Nat /\ time' = time + 2 /\ scanEnd' = scanEnd /\ scanEnd <= time
  BY DEF HistoryInv, TimeStep
<1> SUFFICES ASSUME NEW tsc \in scanEnd + 1 .. time + 3 PROVE SaysAt(p, tsc)'
  BY <1>1
<1>2. tsc \in Nat /\ tsc > 2
  BY <1>1
<1>3. PICK list : list = mmaps_over_time[p] /\ \A m \in list : m.tsc \in Nat /\ m.tsc <= time
  BY DEF ListInv, ListOk, Mappings
<1>4. CASE tsc <= time + 2
  <2>1. PICK s \in scanEnd + 1 .. time + 1 :
          s \in Nat /\ (s = tsc \/ (s > time /\ tsc > time)) /\ MappedAt(p, tsc)' = MappedAt(p, s)
    <3>1. CASE tsc <= time + 1
      BY <1>1, <1>2, <3>1, TimeStepFacts
    <3>2. CASE tsc = time + 2
      <4>1. MappedAt(p, time + 1) = mm[p]
        BY <1>1, MappedAtFacts
      <4>2. MappedAt(p, tsc)' = mm[p]
        BY <1>1, <1>2, <3>2, TimeStepFacts
      <4>3. PICK s : s = time + 1 /\ s \in scanEnd + 1 .. time + 1 /\ s \in Nat /\ s > time
        BY <1>1
      <4> QED
        BY <1>1, <3>2, <4>1, <4>2, <4>3
    <3> QED
      BY <1>1, <1>4, <3>1, <3>2
  <2> SUFFICES ASSUME NEW a \in UserAddr, NEW e, e = MappedAt(p, s)[a], e # None
               PROVE  Says(mmaps_over_time'[p], tsc, a, e)
    BY <2>1 DEF SaysAt
  <2>2. Says(list, s, a, e)
    BY <1>3, <2>1 DEF SaysAt
  <2>3. Says(list, tsc, a, e)
    BY <1>1, <1>2, <1>3, <2>1, <2>2, SaysLater
  <2>4. CASE mmaps_over_time'[p] = list
    BY <2>3, <2>4
  <2>5. CASE \E new : new.tsc = time' /\ mmaps_over_time'[p] = list \cup {new}
    <3>1. PICK new : new.tsc = time' /\ mmaps_over_time'[p] = list \cup {new}
      BY <2>5
    <3>2. new.tsc \in Nat /\ new.tsc > time /\ tsc <= new.tsc
      BY <1>1, <1>4, <3>1
    <3>3. Says(list \cup {new}, tsc, a, e)
      BY <1>1, <1>2, <1>3, <2>3, <3>2, AddedSays
    <3> QED
      BY <3>1, <3>3
  <2> QED
    BY <1>3, <2>4, <2>5 DEF Grows
<1>5. CASE tsc = time + 3
  <2>1. MappedAt(p, tsc)' = mm'[p]
    BY <1>2, <1>5, TimeStepFacts
  <2>2. tsc = time' + 1
    BY <1>1, <1>5
  <2> QED
    BY <2>1, <2>2 DEF SaysAt, SaysNow
<1> QED
  BY <1>1, <1>4, <1>5

-----------------------------------------------------------------------------
(* mmap, munmap and exec *)

\* After the scan the list of a known process is right now.
LEMMA RunNow ==
  ASSUME MapInv, phase = "run", NEW p \in pids \ misled, pids \subseteq Pid, NEW a \in UserAddr
  PROVE  SaysNow(p, a)
<1>1. time + 1 \in scanEnd + 1 .. time + 1 /\ time + 1 \in Nat /\ time + 1 > 2 /\ time + 1 > time
  BY DEF MapInv, HistoryInv
<1>2. SaysAt(p, time + 1)
  BY <1>1 DEF MapInv, RunInv
<1>3. MappedAt(p, time + 1) = mm[p]
  BY <1>1, MappedAtFacts DEF MapInv
<1> QED
  BY <1>2, <1>3 DEF SaysAt, SaysNow

\* Before lookups there is nothing kept of them.
LEMMA NoLookup ==
  ASSUME MapInv, phase # "lookup", phase' # "lookup", UNCHANGED lookupVars
  PROVE  LookupInv'
<1>1. asked = 0 /\ ranges = {} /\ slot = <<0, 0>> /\ straight \in BOOLEAN
      /\ asked' = 0 /\ ranges' = {} /\ slot' = <<0, 0>> /\ UNCHANGED <<the_process, forward, straight>>
  BY DEF MapInv, LookupInv, lookupVars
<1> QED
  BY <1>1 DEF LookupInv, Disjoint

\* The lists of others stay well formed as time passes.
LEMMA ListKept ==
  ASSUME HistoryInv, HistoryInv', time' >= time, NEW list, ListOk(list)
  PROVE  ListOk(list)'
BY DEF HistoryInv, ListOk, Mappings

\* A child and its parent that change no more had the same mappings since.
LEMMA PendingKept ==
  ASSUME MapInv, TimeStep, phase = "run", NEW p \in Pid, NEW q \in Pid,
         mm[q] = mm[p], mm'[q] = mm'[p],
         \A tsc \in scanEnd + 1 .. time + 1 : \A a \in UserAddr :
            MappedAt(q, tsc)[a] \in {None, MappedAt(p, tsc)[a]}
  PROVE  (\A tsc \in scanEnd + 1 .. time + 1 : \A a \in UserAddr :
            MappedAt(q, tsc)[a] \in {None, MappedAt(p, tsc)[a]})'
<1>1. HistoryInv /\ time \in Nat /\ scanEnd \in Nat /\ scanEnd >= 2 /\ time' = time + 2 /\ scanEnd' = scanEnd
  BY DEF MapInv, HistoryInv, TimeStep
<1> SUFFICES ASSUME NEW tsc \in scanEnd + 1 .. time + 3, NEW a \in UserAddr
             PROVE  (MappedAt(q, tsc)[a])' \in {None, (MappedAt(p, tsc)[a])'}
  BY <1>1
<1>2. tsc \in Nat /\ tsc > 2
  BY <1>1
<1>3. CASE tsc <= time + 1
  <2>1. MappedAt(q, tsc)' = MappedAt(q, tsc) /\ MappedAt(p, tsc)' = MappedAt(p, tsc)
    BY <1>1, <1>2, <1>3, TimeStepFacts
  <2> QED
    BY <1>1, <1>3, <2>1
<1>4. CASE tsc = time + 2
  <2>1. MappedAt(q, tsc)' = mm[q] /\ MappedAt(p, tsc)' = mm[p]
    BY <1>1, <1>2, <1>4, TimeStepFacts
  <2> QED
    BY <2>1
<1>5. CASE tsc = time + 3
  <2>1. MappedAt(q, tsc)' = mm'[q] /\ MappedAt(p, tsc)' = mm'[p]
    BY <1>1, <1>2, <1>5, TimeStepFacts
  <2> QED
    BY <2>1
<1> QED
  BY <1>1, <1>3, <1>4, <1>5

\* What mmap, munmap and exec have in common: the mappings and the list of one
\* process change.
EventOf(p) ==
  /\ phase \in {"scan", "run"} /\ p \in Alive /\ Announced(p)
  /\ TimeStep
  /\ \A q \in Pid \ {p} : mm'[q] = mm[q] /\ mmaps_over_time'[q] = mmaps_over_time[q]
  /\ misled \cup Races(p) \subseteq misled' /\ misled' \subseteq misled \cup Races(p) \cup {p}
  /\ UNCHANGED <<tasks, child, pids, scanTask, scanAddr, scanVma, lookupVars>>
  /\ DOMAIN mmaps_over_time' = Pid

LEMMA EventStep ==
  ASSUME MInv, NEW p \in Pid, EventOf(p),
         ListOk(mmaps_over_time[p])',
         Grows(p),
         mmaps_over_time[p] \subseteq mmaps_over_time'[p],
         ~Known(p) => mmaps_over_time'[p] = mmaps_over_time[p],
         p \notin misled' => NonEmpty(mmaps_over_time'[p]),
         Known(p) /\ p \notin misled' /\ (\A a \in UserAddr : SaysNow(p, a)) =>
           \A a \in UserAddr : SaysNow(p, a)'
  PROVE  MapInv'
<1>1. MapInv /\ IInv /\ HistoryInv /\ ListInv /\ TimeStep /\ HistoryInv' /\ phase' = phase /\ scanEnd' = scanEnd
      /\ time' = time + 2 /\ time \in Nat /\ time' >= time
  BY TimeStepFacts DEF MInv, MapInv, EventOf, TimeStep, HistoryInv
<1>2. pids \subseteq Pid /\ Alive \subseteq Pid /\ Alive' = Alive /\ misled \subseteq misled'
  BY <1>1 DEF IInv, Types, Alive, EventOf
<1>3. \A q \in Pid \ {p}, a \in UserAddr : SaysNow(q, a) => SaysNow(q, a)'
  BY <1>1, NowKept DEF EventOf
<1>4. ListInv' /\ LengthsInv'
  <2>1. ListInv'
    BY <1>1, ListKept DEF EventOf, ListInv, Known
  <2>2. LengthsInv'
    BY <1>1, <1>2 DEF EventOf, MapInv, LengthsInv
  <2> QED
    BY <2>1, <2>2
<1>5. ScanTypes'
  BY <1>1 DEF EventOf, MapInv, ScanTypes, IsTask
<1>6. ScanInv'
  <2> SUFFICES ASSUME phase = "scan" PROVE ScanInv'
    BY <1>1 DEF ScanInv
  <2>1. ASSUME NEW i \in DOMAIN tasks, i < scanTask, tasks[i] \notin misled', NEW a \in UserAddr
        PROVE  SaysNow(tasks[i], a)'
    <3>1. PICK r \in Pid : r = tasks[i] /\ r \notin misled /\ r \notin misled'
      BY <1>1, <1>2, <2>1 DEF IInv, Types
    <3>2. Known(r) /\ \A b \in UserAddr : SaysNow(r, b)
      BY <1>1, <2>1, <3>1 DEF IInv, ScannedKnown, MapInv, ScanInv
    <3>3. SaysNow(r, a)'
      BY <1>3, <3>1, <3>2
    <3> QED
      BY <3>1, <3>3 DEF EventOf
  <2>2. ASSUME IsTask(scanTask), Scanned \notin misled'
        PROVE  /\ \A a \in UserAddr : a < scanAddr => SaysNow(Scanned, a)'
               /\ scanVma # None => mm'[Scanned'][scanAddr] = scanVma
    <3>1. PICK r \in Pid : r = Scanned /\ r \notin misled
      BY <1>1, <1>2, <2>2 DEF IInv, Types, Scanned, IsTask
    <3>2. /\ \A b \in UserAddr : b < scanAddr => SaysNow(r, b)
          /\ scanVma # None => mm[r][scanAddr] = scanVma
      BY <1>1, <2>2, <3>1 DEF MapInv, ScanInv
    <3>3. ASSUME r = p PROVE scanAddr = 0 /\ scanVma = None
      <4>1. ~(scanAddr > 0 \/ scanVma # None)
        BY <2>2, <3>1, <3>3 DEF EventOf, Races, Scanned, IsTask
      <4> QED
        BY <1>1, <4>1 DEF MapInv, ScanTypes
    <3>4. ASSUME NEW a \in UserAddr, a < scanAddr PROVE SaysNow(r, a)'
      <4>1. r # p
        BY <3>3, <3>4, ConstantFacts
      <4> QED
        BY <1>3, <3>2, <3>4, <4>1
    <3>5. scanVma # None => mm'[r][scanAddr] = scanVma
      BY <3>2, <3>3 DEF EventOf
    <3>6. Scanned' = r
      BY <3>1 DEF EventOf, Scanned
    <3> QED
      BY <3>4, <3>5, <3>6
  <2>3. UNCHANGED <<tasks, scanTask, scanAddr, scanVma>> /\ Scanned' = Scanned
    BY DEF EventOf, Scanned
  <2> QED
    BY <1>1, <2>1, <2>2, <2>3 DEF ScanInv, IsTask
<1>7. Unborn'
  <2> SUFFICES ASSUME NEW q \in Pid, q \notin Alive
               PROVE  ~Known(q)' /\ mm'[q] = Nothing /\ \A t \in DOMAIN mmAt' : mmAt'[t][q] = Nothing
    BY <1>2 DEF Unborn, Nothing
  <2>1. q # p /\ mm'[q] = Nothing /\ ~Known(q)'
    BY <1>1 DEF EventOf, MapInv, Unborn, Known
  <2> QED
    BY <1>1, <2>1 DEF TimeStep, MapInv, Unborn
<1>8. Parents'
  BY <1>1, <1>2 DEF MapInv, Parents, EventOf, Announced
<1>9. PendingInv'
  <2> SUFFICES ASSUME NEW r \in Pid, NEW q \in Pid, child[r] = q, q \notin misled'
               PROVE  /\ r \notin misled' /\ mm'[q] = mm'[r]
                      /\ phase = "run" => (\A tsc \in scanEnd + 1 .. time + 1 : \A a \in UserAddr :
                            MappedAt(q, tsc)[a] \in {None, MappedAt(r, tsc)[a]})'
    BY <1>1 DEF PendingInv, EventOf
  <2>1. q # None /\ q # p /\ r # p
    BY ConstantFacts DEF EventOf, Races, Announced
  <2>2. q \notin misled /\ mm'[q] = mm[q] /\ mm'[r] = mm[r]
    BY <1>2, <2>1 DEF EventOf
  <2>3. r \notin misled /\ mm[q] = mm[r]
    BY <1>1, <2>2 DEF MapInv, PendingInv
  <2>4. r \notin Races(p)
    <3>1. child[r] # None /\ child[p] # r
      BY <1>1, <2>1 DEF MapInv, Parents, Announced
    <3> QED
      BY <2>1, <3>1 DEF Races
  <2>5. ASSUME phase = "run"
        PROVE  (\A tsc \in scanEnd + 1 .. time + 1 : \A a \in UserAddr :
                  MappedAt(q, tsc)[a] \in {None, MappedAt(r, tsc)[a]})'
    <3>1. \A tsc \in scanEnd + 1 .. time + 1 : \A a \in UserAddr :
                  MappedAt(q, tsc)[a] \in {None, MappedAt(r, tsc)[a]}
      BY <1>1, <2>2, <2>5 DEF MapInv, PendingInv
    <3> QED
      BY <1>1, <2>2, <2>3, <2>5, <3>1, PendingKept
  <2> QED
    BY <2>1, <2>2, <2>3, <2>4, <2>5 DEF EventOf
<1>10. RunInv'
  <2> SUFFICES ASSUME phase = "run", NEW r \in pids \ misled'
               PROVE  (\A tsc \in scanEnd + 1 .. time + 1 : SaysAt(r, tsc))'
    BY <1>1 DEF RunInv, EventOf
  <2>1. r \in Pid /\ r \in pids \ misled /\ \A a \in UserAddr : SaysNow(r, a)
    BY <1>1, <1>2, RunNow
  <2>2. \A a \in UserAddr : SaysNow(r, a)'
    BY <1>3, <2>1 DEF Known
  <2>3. \A tsc \in scanEnd + 1 .. time + 1 : SaysAt(r, tsc)
    BY <1>1, <2>1 DEF MapInv, RunInv
  <2>4. scanEnd >= 2 /\ Grows(r)
    BY <1>1, <2>1 DEF HistoryInv, Grows, EventOf
  <2> QED
    BY <1>1, <2>1, <2>2, <2>3, <2>4, PastKept
<1>11. LookupInv'
  BY <1>1, NoLookup DEF EventOf
<1> QED
  BY <1>1, <1>4, <1>5, <1>6, <1>7, <1>8, <1>9, <1>10, <1>11 DEF MapInv

\* An event of a process is a step of time.
LEMMA IsEvent ==
  ASSUME MInv, NEW p \in Pid, NEW maps \in Maps, Event(p), Announced(p), MappedNow(p, maps),
         misled \cup Races(p) \subseteq misled', misled' \subseteq misled \cup Races(p) \cup {p},
         UNCHANGED <<tasks, child, scanVars, lookupVars>>, pids' = pids,
         DOMAIN mmaps_over_time' = Pid,
         \A q \in Pid \ {p} : mmaps_over_time'[q] = mmaps_over_time[q]
  PROVE  EventOf(p) /\ mm'[p] = maps
<1>1. HistoryInv /\ ListInv /\ child \in [Pid -> Pid \cup {None}] /\ p \in Pid
  BY DEF MInv, MapInv, IInv, Types
<1>2. mm' = [mm EXCEPT ![p] = maps] /\ mm' \in [Pid -> Maps] /\ mm'[p] = maps
      /\ \A q \in Pid \ {p} : mm'[q] = mm[q]
  BY <1>1 DEF MappedNow, HistoryInv
<1>3. Races(p) \subseteq Pid
  <2>1. child[p] # None => child[p] \in Pid
    BY <1>1
  <2> QED
    BY <2>1 DEF Races
<1>4. TimeStep
  BY <1>1, <1>2, <1>3 DEF TimeStep, MappedNow, Event, scanVars, HistoryInv
<1> QED
  BY <1>2, <1>4 DEF EventOf, Event, Recording, scanVars

\* mmap and munmap: something is mapped at the addresses from start to last, or
\* nothing is, and the list of a known process tells it, or else it was misled.
LEMMA MapStep ==
  ASSUME MInv, NEW p \in Pid, NEW start \in UserAddr, NEW last \in UserAddr, start <= last,
         NEW exe, NEW now \in Exe \cup {None}, now = None \/ now = exe, NEW maps \in Maps,
         p \notin misled' =>
           /\ maps = [a \in UserAddr |-> IF a \in start .. last THEN now ELSE mm[p][a]]
           /\ (last + 1) - start < LenLimit,
         Event(p), Announced(p), MappedNow(p, maps),
         Mmap(p, time', start, last + 1, exe),
         misled \cup Races(p) \subseteq misled', misled' \subseteq misled \cup Races(p) \cup {p},
         UNCHANGED <<tasks, child, scanVars, lookupVars>>
  PROVE  MapInv'
<1>1. HistoryInv /\ ListInv /\ LengthsInv /\ time \in Nat /\ ListOk(mmaps_over_time[p])
  BY DEF MInv, MapInv, HistoryInv, ListInv
<1>2. start \in Nat /\ last \in Nat /\ last + 1 \in Nat /\ start < last + 1
      /\ ModuleAddr \notin start .. last
  BY ConstantFacts
<1>3. PICK cut : /\ cut = CutEnd(start, last + 1) /\ cut \in Nat /\ start <= cut /\ cut <= last + 1
                 /\ (last + 1) - start < LenLimit => cut = last + 1
  BY <1>2, CutEndFacts
<1>4. PICK list : list = IF Known(p) THEN Inserted(mmaps_over_time[p], time + 2, start, last + 1, exe)
                                     ELSE mmaps_over_time[p]
  OBVIOUS
<1>5. time' = time + 2
  BY DEF MappedNow
<1>6. mmaps_over_time' = [mmaps_over_time EXCEPT ![p] = list] /\ pids' = pids
  BY <1>4, <1>5 DEF Mmap
<1>7. EventOf(p) /\ mm'[p] = maps /\ mmaps_over_time'[p] = list
  <2>1. DOMAIN mmaps_over_time' = Pid /\ mmaps_over_time'[p] = list
        /\ \A q \in Pid \ {p} : mmaps_over_time'[q] = mmaps_over_time[q]
    BY <1>1, <1>6 DEF ListInv
  <2> QED
    BY <1>6, <2>1, IsEvent
<1>8. PICK new : new = Entry(time + 2, start, cut, exe)
  OBVIOUS
<1>9. new.tsc = time + 2 /\ new.start = start /\ new.end = cut /\ new.exe = exe
  BY <1>8 DEF Entry
<1>10. ASSUME Known(p)
      PROVE  /\ list = mmaps_over_time[p] \cup {new}
             /\ Mappings(list)
             /\ \A m \in list : m.tsc <= time + 2 /\ (Covers(m, ModuleAddr) => m.exe = Module)
  <2>1. PICK tsc, end : /\ tsc = time + 2 /\ tsc \in Nat /\ tsc > time
                        /\ end = last + 1 /\ end \in Nat /\ start < end /\ start \in Nat
                        /\ (ModuleAddr \in start .. end - 1 => exe = Module)
                        /\ cut = CutEnd(start, end)
    BY <1>1, <1>2, <1>3, ConstantFacts
  <2>2. list = Inserted(mmaps_over_time[p], tsc, start, end, exe)
    BY <1>4, <1>10, <2>1
  <2>3. new = Entry(tsc, start, CutEnd(start, end), exe)
    BY <1>8, <2>1
  <2>4. PICK old : old = mmaps_over_time[p] /\ ListOk(old) /\ HistoryInv
    BY <1>1
  <2>5. Inserted(old, tsc, start, end, exe) = old \cup {Entry(tsc, start, CutEnd(start, end), exe)}
    BY <2>1, <2>4, InsertedIs
  <2>6. OkUntil(old \cup {Entry(tsc, start, CutEnd(start, end), exe)}, tsc)
    BY <2>1, <2>4, InsertedOk
  <2> QED
    BY <2>1, <2>2, <2>3, <2>4, <2>5, <2>6 DEF OkUntil
<1>11. ListOk(mmaps_over_time[p])'
  <2>1. CASE Known(p)
    BY <1>5, <1>7, <1>10, <2>1 DEF ListOk, Mappings
  <2>2. CASE ~Known(p)
    BY <1>1, <1>4, <1>5, <1>7, <2>2 DEF ListOk, Mappings
  <2> QED
    BY <2>1, <2>2
<1>12. Grows(p) /\ mmaps_over_time[p] \subseteq mmaps_over_time'[p]
       /\ (~Known(p) => mmaps_over_time'[p] = mmaps_over_time[p])
  BY <1>4, <1>5, <1>7, <1>9, <1>10 DEF Grows
<1>13. p \notin misled' => NonEmpty(mmaps_over_time'[p])
  BY <1>1, <1>2, <1>3, <1>4, <1>7, <1>9, <1>10 DEF LengthsInv, NonEmpty
<1>14. ASSUME Known(p), p \notin misled', \A a \in UserAddr : SaysNow(p, a), NEW a \in UserAddr
       PROVE  SaysNow(p, a)'
  <2>1. PICK before, e, t, u :
          /\ before = mmaps_over_time[p] /\ e = mm[p][a] /\ t = time + 1 /\ u = time + 3
          /\ t \in Nat /\ u \in Nat /\ t > time /\ u > time /\ u = time' + 1
    BY <1>1, <1>5
  <2>2. \A m \in before : m.tsc \in Nat /\ m.tsc <= time
    BY <1>1, <2>1 DEF ListOk, Mappings
  <2>3. a \in Nat /\ cut = last + 1
    BY <1>3, <1>14, ConstantFacts
  <2>4. new.tsc \in Nat /\ new.tsc > time /\ u > new.tsc /\ new.exe = exe
        /\ (Covers(new, a) <=> a \in start .. last)
    BY <1>1, <1>2, <1>9, <2>1, <2>3 DEF Covers
  <2>5. mm'[p][a] = IF a \in start .. last THEN now ELSE e
    BY <1>7, <1>14, <2>1
  <2>6. CASE a \in start .. last
    <3>1. Says(before \cup {new}, u, a, exe)
      BY <1>1, <2>1, <2>2, <2>4, <2>6, AddedSays
    <3> QED
      BY <1>7, <1>10, <1>14, <2>1, <2>5, <2>6, <3>1 DEF SaysNow
  <2>7. CASE a \notin start .. last
    <3>1. e # None => Says(before, t, a, e)
      BY <1>14, <2>1 DEF SaysNow
    <3>2. e # None => Says(before, u, a, e)
      BY <1>1, <2>1, <2>2, <3>1, SaysLater
    <3>3. e # None => Says(before \cup {new}, u, a, e)
      BY <1>1, <2>1, <2>2, <2>4, <2>7, <3>2, AddedSays
    <3> QED
      BY <1>7, <1>10, <1>14, <2>1, <2>5, <2>7, <3>3 DEF SaysNow
  <2> QED
    BY <2>6, <2>7
<1> QED
  BY <1>7, <1>11, <1>12, <1>13, <1>14, EventStep

LEMMA MmapMaps ==
  ASSUME MInv, NEW p \in Pid, NEW start \in UserAddr, NEW last \in UserAddr, start <= last,
         NEW exe \in NewExe, MmapCalled(p, start, last + 1, exe)
  PROVE  MapInv'
<1>1. start .. (last + 1) - 1 = start .. last /\ exe \in Exe \cup {None}
  BY ConstantFacts
<1>2. PICK maps : maps = [a \in UserAddr |-> IF a \in start .. last THEN exe ELSE mm[p][a]]
  OBVIOUS
<1>3. maps \in Maps
  BY <1>1, <1>2 DEF Maps, MInv, MapInv, HistoryInv
<1>4. MappedNow(p, maps)
  BY <1>1, <1>2 DEF MmapCalled
<1>5. /\ Event(p) /\ Announced(p) /\ Mmap(p, time', start, last + 1, exe)
      /\ misled' = misled \cup Races(p) \cup Misleads(p, start, last + 1, TRUE)
      /\ UNCHANGED <<tasks, child, scanVars, lookupVars>>
  BY DEF MmapCalled
<1>6. misled \cup Races(p) \subseteq misled' /\ misled' \subseteq misled \cup Races(p) \cup {p}
      /\ (p \notin misled' => (last + 1) - start < LenLimit)
  BY <1>5 DEF Misleads
<1> QED
  BY ZenonT(30), <1>1, <1>2, <1>3, <1>4, <1>5, <1>6, MapStep

LEMMA MunmapMaps ==
  ASSUME MInv, NEW p \in Pid, NEW start \in UserAddr, NEW last \in UserAddr, start <= last,
         NEW done \in BOOLEAN, MunmapCalled(p, start, last + 1, done)
  PROVE  MapInv'
<1>1. start .. (last + 1) - 1 = start .. last /\ None \in Exe \cup {None}
  BY ConstantFacts
<1>2. PICK maps : maps = [a \in UserAddr |-> IF done /\ a \in start .. last THEN None ELSE mm[p][a]]
  OBVIOUS
<1>3. maps \in Maps
  BY <1>1, <1>2 DEF Maps, MInv, MapInv, HistoryInv
<1>4. MappedNow(p, maps)
  BY <1>1, <1>2 DEF MunmapCalled
<1>5. /\ Event(p) /\ Announced(p) /\ Mmap(p, time', start, last + 1, Unmapped)
      /\ misled' = misled \cup Races(p) \cup Misleads(p, start, last + 1, done)
      /\ UNCHANGED <<tasks, child, scanVars, lookupVars>>
  BY DEF MunmapCalled
<1>6. misled \cup Races(p) \subseteq misled' /\ misled' \subseteq misled \cup Races(p) \cup {p}
      /\ (p \notin misled' => done /\ (last + 1) - start < LenLimit)
  BY <1>5 DEF Misleads
<1>7. p \notin misled' => maps = [a \in UserAddr |-> IF a \in start .. last THEN None ELSE mm[p][a]]
  BY <1>2, <1>6
<1> QED
  BY ZenonT(30), <1>1, <1>3, <1>4, <1>5, <1>6, <1>7, MapStep

\* What is mapped no more is nothing that has to be found.
LEMMA ExecMaps ==
  ASSUME MInv, NEW p \in Pid, Exec(p) PROVE MapInv'
<1>1. HistoryInv /\ ListInv /\ LengthsInv /\ time \in Nat /\ ListOk(mmaps_over_time[p])
  BY DEF MInv, MapInv, HistoryInv, ListInv
<1>2. mmaps_over_time' = mmaps_over_time /\ DOMAIN mmaps_over_time = Pid
  BY <1>1 DEF Exec, modelVars, ListInv
<1>3. EventOf(p) /\ mm'[p] = Nothing
  <2>1. misled \cup Races(p) \subseteq misled' /\ misled' \subseteq misled \cup Races(p) \cup {p}
    BY DEF Exec
  <2> QED
    BY <1>2, <2>1, IsEvent, ConstantFacts DEF Exec, modelVars
<1>4. \A a \in UserAddr : SaysNow(p, a)'
  BY <1>3 DEF SaysNow, Nothing
<1>5. ListOk(mmaps_over_time[p])'
  BY <1>1, <1>2, <1>3 DEF ListOk, Mappings, Exec, MappedNow
<1>6. p \notin misled' => NonEmpty(mmaps_over_time'[p])
  BY <1>1, <1>2, <1>3 DEF LengthsInv, EventOf
<1> QED
  BY <1>2, <1>3, <1>4, <1>5, <1>6, EventStep DEF Grows

-----------------------------------------------------------------------------
(* The scan *)

\* The past is that of mmAt.
LEMMA MappedAtKept ==
  ASSUME UNCHANGED mmAt PROVE \A p, tsc : MappedAt(p, tsc)' = MappedAt(p, tsc)
<1>1. \A p, tsc : MappedAt(p, tsc)' = mmAt'[TimeBefore(mmAt', tsc)][p]
  BY DEF MappedAt, TimeBefore
<1> QED
  BY <1>1, MappedAtIs

LEMMA ModulesMaps == ASSUME MInv, SendModuleList PROVE MapInv'
<1>1. /\ phase = "modules" /\ phase' = "scan"
      /\ UNCHANGED <<time, tasks, mm, child, scanTask, scanAddr, scanVma, scanEnd, pids,
                     mmaps_over_time, mmAt, misled>> /\ UNCHANGED lookupVars
  BY DEF SendModuleList, scanVars, modelVars
<1>2. MapInv /\ IInv
  BY DEF MInv
<1>3. scanTask = 1 /\ scanAddr = 0 /\ scanVma = None
  BY <1>1, <1>2 DEF MapInv, ScanTypes
<1>4. ListInv' /\ LengthsInv' /\ HistoryInv' /\ Unborn' /\ Parents'
  BY <1>1, <1>2 DEF MapInv, ListInv, LengthsInv, ListOk, Known, HistoryInv, Unborn, Alive, Parents, Announced
<1>5. ScanTypes'
  BY <1>1, <1>2, <1>3 DEF MapInv, ScanTypes
<1>6. ScanInv'
  <2>1. \A i \in DOMAIN tasks' : ~(i < scanTask')
    BY <1>1, <1>2, <1>3 DEF IInv, Types
  <2>2. \A a \in UserAddr : ~(a < scanAddr') 
    BY <1>1, <1>3, ConstantFacts
  <2> QED
    BY <1>1, <1>3, <2>1, <2>2 DEF ScanInv
<1>7. PendingInv' /\ RunInv'
  BY <1>1, <1>2 DEF MapInv, PendingInv, RunInv
<1>8. LookupInv'
  BY <1>1, <1>2, NoLookup
<1> QED
  BY <1>4, <1>5, <1>6, <1>7, <1>8 DEF MapInv

LEMMA ReadMaps == ASSUME MInv, ReadVma PROVE MapInv'
<1>1. PICK a \in UserAddr :
        /\ AtVma(a) /\ \A b \in UserAddr : AtVma(b) => a <= b
        /\ scanAddr' = a /\ scanVma' = mm[Scanned][a]
  BY DEF ReadVma
<1>2. /\ phase = "scan" /\ IsTask(scanTask)
      /\ UNCHANGED <<phase, time, tasks, mm, child, scanTask, scanEnd, pids,
                     mmaps_over_time, mmAt, misled>> /\ UNCHANGED lookupVars
  BY DEF ReadVma, kernelVars, modelVars
<1>3. MapInv /\ IInv
  BY DEF MInv
<1>4. Scanned \in Pid /\ Scanned' = Scanned
  BY <1>2, <1>3 DEF IInv, Types, Scanned, IsTask
<1>5. ListInv' /\ LengthsInv' /\ HistoryInv' /\ Unborn' /\ Parents'
  BY <1>2, <1>3 DEF MapInv, ListInv, LengthsInv, ListOk, Known, HistoryInv, Unborn, Alive, Parents, Announced
<1>6. ScanTypes'
  <2>1. mm[Scanned][a] \in Exe
    BY <1>1, <1>3, <1>4 DEF MapInv, HistoryInv, Maps, AtVma
  <2> QED
    BY <1>1, <1>2, <1>3, <2>1, ConstantFacts DEF MapInv, ScanTypes, IsTask
<1>7. ScanInv'
  <2>1. \A r \in Pid, b \in UserAddr : SaysNow(r, b) => SaysNow(r, b)'
    BY <1>2 DEF SaysNow
  <2>2. ASSUME NEW b \in UserAddr, b < a, Scanned \notin misled
        PROVE  SaysNow(Scanned, b)'
    <3>1. PICK r \in Pid : r = Scanned /\ r = Scanned'
      BY <1>4
    <3>2. CASE b < scanAddr
      <4>1. SaysNow(r, b)
        BY <1>2, <1>3, <2>2, <3>1, <3>2 DEF MapInv, ScanInv
      <4> QED
        BY <2>1, <3>1, <4>1
    <3>3. CASE b >= scanAddr
      <4>1. ~(a <= b)
        BY <2>2, ConstantFacts
      <4>2. mm[r][b] = None
        BY <1>1, <3>1, <3>3, <4>1 DEF AtVma
      <4>3. SaysNow(r, b)
        BY <4>2 DEF SaysNow
      <4> QED
        BY <2>1, <3>1, <4>3
    <3>4. scanAddr \in Nat /\ b \in Nat
      BY <1>3, ConstantFacts DEF MapInv, ScanTypes
    <3> QED
      BY <3>2, <3>3, <3>4
  <2>3. \A i \in DOMAIN tasks' : i < scanTask' /\ tasks'[i] \notin misled' =>
          \A b \in UserAddr : SaysNow(tasks[i], b)'
    <3> SUFFICES ASSUME NEW i \in DOMAIN tasks, i < scanTask, tasks[i] \notin misled, NEW b \in UserAddr
                 PROVE  SaysNow(tasks[i], b)'
      BY <1>2
    <3>1. PICK r \in Pid : r = tasks[i] /\ r = tasks'[i]
      BY <1>2, <1>3 DEF IInv, Types
    <3>2. SaysNow(r, b)
      BY <1>2, <1>3, <3>1 DEF MapInv, ScanInv
    <3> QED
      BY <2>1, <3>1, <3>2
  <2> QED
    BY <1>1, <1>2, <1>4, <2>2, <2>3 DEF ScanInv
<1>8. PendingInv' /\ RunInv'
  BY <1>2, <1>3 DEF MapInv, PendingInv, RunInv
<1>9. LookupInv'
  BY <1>2, <1>3, NoLookup
<1> QED
  BY <1>5, <1>6, <1>7, <1>8, <1>9 DEF MapInv

LEMMA DoneMaps == ASSUME MInv, ScanDone PROVE MapInv'
<1>1. /\ phase = "scan" /\ phase' = "run" /\ ~IsTask(scanTask) /\ scanEnd' = time
      /\ UNCHANGED <<time, tasks, mm, child, scanTask, scanAddr, scanVma, pids,
                     mmaps_over_time, mmAt, misled>> /\ UNCHANGED lookupVars
  BY DEF ScanDone, modelVars
<1>2. MapInv /\ IInv /\ HistoryInv /\ time \in Nat /\ time >= 2
  BY DEF MInv, MapInv, HistoryInv
<1>3. ListInv' /\ LengthsInv' /\ HistoryInv' /\ Unborn' /\ Parents'
  BY <1>1, <1>2 DEF MapInv, ListInv, LengthsInv, ListOk, Known, HistoryInv, Unborn, Alive, Parents, Announced
<1>4. ScanTypes' /\ ScanInv'
  BY <1>1, <1>2 DEF MapInv, ScanTypes, ScanInv
<1>5. \A p \in Pid : MappedAt(p, time + 1)' = mm[p]
  <2>1. time + 1 \in Nat /\ time + 1 > 2 /\ time + 1 > time
    BY <1>2
  <2>2. \A p \in Pid : MappedAt(p, time + 1) = mm[p]
    BY <1>2, <2>1, MappedAtFacts
  <2>3. \A p, tsc : tsc = time + 1 => MappedAt(p, tsc)' = MappedAt(p, tsc)
    BY <1>1, MappedAtKept
  <2> QED
    BY <1>1, <2>2, <2>3
<1>6. \A tsc \in (scanEnd + 1 .. time + 1)' : tsc = time' + 1
  BY <1>1, <1>2
<1>7. PendingInv'
  BY <1>1, <1>2, <1>5, <1>6 DEF MapInv, PendingInv
<1>8. RunInv'
  <2> SUFFICES ASSUME NEW p \in pids \ misled, NEW a \in UserAddr
               PROVE  mm[p][a] # None => Says(mmaps_over_time[p], time + 1, a, mm[p][a])
    BY <1>1, <1>2, <1>5, <1>6 DEF RunInv, SaysAt, IInv, Types
  <2>1. PICK i \in DOMAIN tasks : tasks[i] = p
    BY <1>2 DEF IInv, Types, MapInv, Unborn, Known, Alive
  <2>2. i < scanTask
    BY <1>1, <1>2, <2>1 DEF IInv, Types, IsTask
  <2>3. SaysNow(p, a)
    BY <1>1, <1>2, <2>1, <2>2 DEF MapInv, ScanInv
  <2> QED
    BY <2>3 DEF SaysNow
<1>9. LookupInv'
  BY <1>1, <1>2, NoLookup
<1> QED
  BY <1>3, <1>4, <1>7, <1>8, <1>9 DEF MapInv

\* What the scan adds to the lists takes away nothing that was right.
LEMMA ScannedStays ==
  ASSUME ScanInv, phase = "scan",
         \A r \in Pid, b \in UserAddr : r \notin misled /\ SaysNow(r, b) => SaysNow(r, b)',
         tasks \in Seq(Pid), UNCHANGED <<tasks, misled>>
  PROVE  \A i \in DOMAIN tasks : i < scanTask /\ tasks[i] \notin misled =>
           \A b \in UserAddr : SaysNow(tasks[i], b)'
<1> SUFFICES ASSUME NEW i \in DOMAIN tasks, i < scanTask, tasks[i] \notin misled, NEW b \in UserAddr
             PROVE  SaysNow(tasks[i], b)'
  OBVIOUS
<1>1. PICK r \in Pid : r = tasks[i] /\ r = tasks'[i]
  OBVIOUS
<1>2. SaysNow(r, b)
  BY <1>1 DEF ScanInv
<1> QED
  BY <1>1, <1>2

LEMMA VmaMaps == ASSUME MInv, SendVma PROVE MapInv'
<1>1. MapInv /\ IInv /\ HistoryInv /\ ListInv /\ LengthsInv /\ time \in Nat
  BY DEF MInv, MapInv, HistoryInv
<1>2. PICK p \in Pid : p = Scanned /\ IsTask(scanTask) /\ tasks[scanTask] = p /\ scanTask \in DOMAIN tasks
  BY <1>1 DEF IInv, Types, VmaOfTask, SendVma, Scanned, IsTask
<1>3. PICK addr \in UserAddr : addr = scanAddr
  BY <1>1 DEF MapInv, ScanTypes, SendVma
<1>4. PICK exe \in Exe : exe = scanVma
  BY <1>1 DEF MapInv, ScanTypes, SendVma
<1>5. PICK base : base = IF Known(p) THEN mmaps_over_time[p] ELSE ModuleMaps
  OBVIOUS
<1>6. PICK tsc \in Nat : tsc = time + 2 /\ tsc > time /\ tsc = time'
  BY <1>1 DEF SendVma
<1>7. PICK list : list = Inserted(base, tsc, addr, addr + 1, exe)
  OBVIOUS
<1>8. /\ phase = "scan" /\ scanVma' = None /\ scanAddr' = addr + 1
      /\ pids' = pids \cup {p}
      /\ mmaps_over_time' = [mmaps_over_time EXCEPT ![p] = list]
      /\ UNCHANGED <<phase, tasks, mm, child, scanTask, scanEnd, misled>> /\ UNCHANGED lookupVars
  BY <1>2, <1>3, <1>4, <1>5, <1>6, <1>7 DEF SendVma, InitMmap
<1>9. mmaps_over_time'[p] = list /\ DOMAIN mmaps_over_time' = Pid
      /\ \A q \in Pid \ {p} : mmaps_over_time'[q] = mmaps_over_time[q]
  BY <1>1, <1>8 DEF ListInv
<1>10. TimeStep /\ HistoryInv' /\ time' >= time
  <2>1. TimeStep
    BY <1>1, <1>8 DEF TimeStep, SendVma, HistoryInv
  <2> QED
    BY <1>1, <1>6, <2>1, TimeStepFacts
<1>11. /\ addr \in Nat /\ addr + 1 \in Nat /\ addr < addr + 1 /\ ModuleAddr \notin addr .. (addr + 1) - 1
       /\ CutEnd(addr, addr + 1) = addr + 1
  <2>1. addr \in Nat /\ addr + 1 \in Nat /\ addr < addr + 1 /\ ModuleAddr \notin addr .. (addr + 1) - 1
    BY ConstantFacts
  <2>2. (addr + 1) - addr < LenLimit
    BY <2>1, SpacesAssumption
  <2> QED
    BY <2>1, <2>2, CutEndFacts
<1>12. ListOk(base) /\ (\A m \in base : m.tsc \in Nat /\ m.tsc <= time)
       /\ ModuleMaps \subseteq base
       /\ (~Known(p) => mmaps_over_time[p] = {})
  <2>1. ListOk(base)
    BY <1>1, <1>5, ModuleListOk DEF ListInv
  <2> QED
    BY <1>1, <1>5, <2>1 DEF ListInv, ListOk, Mappings
<1>13. PICK new : new = Entry(tsc, addr, addr + 1, exe)
  OBVIOUS
<1>14. new.tsc = tsc /\ new.start = addr /\ new.end = addr + 1 /\ new.exe = exe
  BY <1>13 DEF Entry
<1>15. list = base \cup {new}
  BY <1>1, <1>6, <1>7, <1>11, <1>12, <1>13, InsertedIs
<1>16. OkUntil(list, tsc)
  <2>1. list = base \cup {Entry(tsc, addr, CutEnd(addr, addr + 1), exe)}
    BY <1>11, <1>13, <1>15
  <2> QED
    BY <1>1, <1>6, <1>11, <1>12, <2>1, InsertedOk
<1>17. ListInv'
  <2>1. ListOk(mmaps_over_time[p])'
    BY <1>6, <1>9, <1>16 DEF ListOk, OkUntil, Mappings
  <2>2. \A q \in Pid \ {p} : ListOk(mmaps_over_time[q])'
    BY <1>1, <1>9, <1>10, ListKept DEF ListInv
  <2> QED
    BY <1>1, <1>8, <1>9, <1>12, <1>15, <2>1, <2>2 DEF ListInv, Known
<1>26. LengthsInv'
  <2>1. NonEmpty(ModuleMaps)
    BY ConstantFacts DEF NonEmpty, ModuleMaps
  <2>2. p \notin misled => NonEmpty(base)
    BY <1>1, <1>5, <2>1 DEF LengthsInv
  <2>3. p \notin misled => NonEmpty(list)
    BY <1>11, <1>14, <1>15, <2>2 DEF NonEmpty
  <2> QED
    BY <1>1, <1>8, <1>9, <2>3 DEF LengthsInv
<1>18. p \notin misled => mm[p][addr] = exe
  BY <1>1, <1>2, <1>3, <1>4, <1>8, ConstantFacts DEF MapInv, ScanInv
<1>19. ASSUME NEW b \in UserAddr, p \notin misled, b = addr \/ SaysNow(p, b)
       PROVE  SaysNow(p, b)'
  <2>1. PICK e, t, u : /\ e = mm[p][b] /\ t = time + 1 /\ u = time + 3
                       /\ t \in Nat /\ u \in Nat /\ t > time /\ u > time /\ u = time' + 1
                       /\ u > new.tsc
    BY <1>1, <1>6, <1>14
  <2>2. b \in Nat /\ (Covers(new, b) <=> b = addr)
    BY <1>11, <1>14, ConstantFacts DEF Covers
  <2>3. new.tsc \in Nat /\ new.tsc > time
    BY <1>6, <1>14
  <2>4. CASE b = addr
    <3>1. Says(list, u, b, exe)
      BY <1>1, <1>12, <1>14, <1>15, <2>1, <2>2, <2>3, <2>4, AddedSays
    <3> QED
      BY <1>8, <1>9, <1>18, <1>19, <2>1, <2>4, <3>1 DEF SaysNow
  <2>5. CASE b # addr
    <3>1. e # None => Says(mmaps_over_time[p], t, b, e)
      BY <1>19, <2>1, <2>5 DEF SaysNow
    <3>2. e # None => Known(p)
      BY <1>12, <3>1 DEF Says
    <3>3. e # None => Says(base, u, b, e)
      BY <1>1, <1>5, <1>12, <2>1, <3>1, <3>2, SaysLater
    <3>4. e # None => Says(list, u, b, e)
      BY <1>1, <1>12, <1>15, <2>1, <2>2, <2>3, <2>5, <3>3, AddedSays
    <3> QED
      BY <1>8, <1>9, <2>1, <3>4 DEF SaysNow
  <2> QED
    BY <2>4, <2>5
<1>20. \A r \in Pid, b \in UserAddr : r \notin misled /\ SaysNow(r, b) => SaysNow(r, b)'
  <2>1. \A r \in Pid \ {p}, b \in UserAddr : SaysNow(r, b) => SaysNow(r, b)'
    BY <1>1, <1>8, <1>9, <1>10, NowKept
  <2> QED
    BY <1>19, <2>1
<1>21. ScanTypes'
  BY <1>1, <1>2, <1>8, <1>11 DEF MapInv, ScanTypes, IsTask
<1>22. ScanInv'
  <2>1. ASSUME NEW b \in UserAddr, b < addr + 1, p \notin misled PROVE SaysNow(p, b)'
    <3>1. b \in Nat /\ (b < addr \/ b = addr)
      BY <1>11, <2>1, ConstantFacts
    <3>2. b < addr => SaysNow(p, b)
      BY <1>1, <1>2, <1>3, <1>8, <2>1 DEF MapInv, ScanInv
    <3> QED
      BY <1>19, <2>1, <3>1, <3>2
  <2>2. Scanned' = p
    BY <1>2, <1>8 DEF Scanned
  <2>3. \A i \in DOMAIN tasks : i < scanTask /\ tasks[i] \notin misled =>
          \A b \in UserAddr : SaysNow(tasks[i], b)'
    <3>1. ScanInv /\ tasks \in Seq(Pid)
      BY <1>1 DEF MapInv, IInv, Types
    <3> QED
      BY <1>8, <1>20, <3>1, ScannedStays
  <2> QED
    BY <1>8, <2>1, <2>2, <2>3 DEF ScanInv
<1>23. Unborn'
  <2>1. Alive' = Alive /\ p \in Alive
    BY <1>2, <1>8 DEF Alive
  <2> QED
    BY <1>1, <1>8, <1>10, <2>1 DEF MapInv, Unborn, TimeStep, Known
<1>24. Parents' /\ PendingInv' /\ RunInv'
  BY <1>1, <1>8 DEF MapInv, Parents, Announced, Alive, PendingInv, RunInv
<1>25. LookupInv'
  BY <1>1, <1>8, NoLookup
<1> QED
  BY <1>10, <1>17, <1>21, <1>22, <1>23, <1>24, <1>25, <1>26 DEF MapInv

LEMMA ProcessMaps == ASSUME MInv, SendProcess PROVE MapInv'
<1>1. MapInv /\ IInv /\ HistoryInv /\ ListInv /\ time \in Nat
  BY DEF MInv, MapInv, HistoryInv
<1>2. PICK p \in Pid : p = Scanned /\ tasks[scanTask] = p /\ scanTask \in DOMAIN tasks
  BY <1>1 DEF IInv, Types, SendProcess, Scanned, IsTask
<1>3. PICK list : list = IF Known(p) THEN mmaps_over_time[p] ELSE ModuleMaps
  OBVIOUS
<1>4. /\ phase = "scan" /\ scanVma = None /\ scanVma' = None /\ scanAddr' = 0 /\ scanTask' = scanTask + 1
      /\ IsTask(scanTask)
      /\ \A a \in UserAddr : ~AtVma(a)
      /\ pids' = pids \cup {p}
      /\ mmaps_over_time' = [mmaps_over_time EXCEPT ![p] = list]
      /\ UNCHANGED <<phase, time, tasks, mm, child, scanEnd, mmAt, misled>> /\ UNCHANGED lookupVars
  BY <1>2, <1>3 DEF SendProcess, InitProcess, kernelVars
<1>5. mmaps_over_time'[p] = list /\ DOMAIN mmaps_over_time' = Pid
      /\ \A q \in Pid \ {p} : mmaps_over_time'[q] = mmaps_over_time[q]
  BY <1>1, <1>4 DEF ListInv
<1>6. ListOk(list) /\ ModuleMaps \subseteq list
  BY <1>1, <1>3, ModuleListOk DEF ListInv
<1>7. HistoryInv'
  BY <1>1, <1>4 DEF HistoryInv
<1>8. ListInv' /\ LengthsInv'
  <2>1. ListInv'
    BY <1>1, <1>4, <1>5, <1>6 DEF ListInv, ListOk, Known
  <2>2. NonEmpty(ModuleMaps)
    BY ConstantFacts DEF NonEmpty, ModuleMaps
  <2>3. LengthsInv'
    BY <1>1, <1>3, <1>4, <1>5, <2>2 DEF MapInv, LengthsInv
  <2> QED
    BY <2>1, <2>3
<1>9. \A r \in Pid, b \in UserAddr : SaysNow(r, b) => SaysNow(r, b)'
  <2> SUFFICES ASSUME NEW r \in Pid, NEW b \in UserAddr, SaysNow(r, b) PROVE SaysNow(r, b)'
    OBVIOUS
  <2>1. CASE mmaps_over_time'[r] = mmaps_over_time[r]
    BY <1>4, <2>1 DEF SaysNow
  <2>2. CASE mmaps_over_time[r] = {}
    <3>1. mm[r][b] = None
      BY <2>2 DEF SaysNow, Says
    <3> QED
      BY <1>4, <3>1 DEF SaysNow
  <2> QED
    BY <1>1, <1>3, <1>5, <2>1, <2>2 DEF ListInv
<1>10. ScanTypes'
  BY <1>1, <1>4 DEF MapInv, ScanTypes
<1>11. ScanInv'
  <2>1. \A i \in DOMAIN tasks : i < scanTask /\ tasks[i] \notin misled =>
          \A b \in UserAddr : SaysNow(tasks[i], b)'
    <3>1. ScanInv /\ tasks \in Seq(Pid)
      BY <1>1 DEF MapInv, IInv, Types
    <3> QED
      BY <1>4, <1>9, <3>1, ScannedStays
  <2>2. ASSUME NEW b \in UserAddr, p \notin misled PROVE SaysNow(p, b)'
    <3>1. b \in Nat /\ scanAddr \in Nat
      BY <1>1, ConstantFacts DEF MapInv, ScanTypes
    <3>2. CASE b < scanAddr
      BY <1>1, <1>2, <1>4, <1>9, <2>2, <3>2 DEF MapInv, ScanInv
    <3>3. CASE b >= scanAddr
      <4>1. mm[p][b] = None
        BY <1>2, <1>4, <3>3 DEF AtVma
      <4> QED
        BY <1>4, <4>1 DEF SaysNow
    <3> QED
      BY <3>1, <3>2, <3>3
  <2>3. ASSUME NEW i \in DOMAIN tasks, i < scanTask + 1, tasks[i] \notin misled, NEW b \in UserAddr
        PROVE  SaysNow(tasks[i], b)'
    <3>1. PICK r \in Pid : r = tasks[i] /\ r = tasks'[i]
      BY <1>1, <1>4 DEF IInv, Types
    <3>2. i < scanTask \/ i = scanTask
      BY <1>1, <2>3 DEF IInv, Types
    <3>3. CASE i < scanTask
      BY <2>1, <2>3, <3>3
    <3>4. CASE i = scanTask
      BY <1>2, <2>2, <2>3, <3>1, <3>4
    <3> QED
      BY <3>2, <3>3, <3>4
  <2>4. \A b \in UserAddr : ~(b < scanAddr')
    BY <1>4, ConstantFacts
  <2> QED
    BY <1>4, <2>3, <2>4 DEF ScanInv
<1>12. Unborn'
  <2>1. Alive' = Alive /\ p \in Alive
    BY <1>2, <1>4 DEF Alive
  <2> QED
    BY <1>1, <1>4, <2>1 DEF MapInv, Unborn, Known
<1>13. Parents' /\ PendingInv' /\ RunInv'
  BY <1>1, <1>4 DEF MapInv, Parents, Announced, Alive, PendingInv, RunInv
<1>14. LookupInv'
  BY <1>1, <1>4, NoLookup
<1> QED
  BY <1>7, <1>8, <1>10, <1>11, <1>12, <1>13, <1>14 DEF MapInv

-----------------------------------------------------------------------------
(* Forks *)

LEMMA ForkMaps == ASSUME MInv, NEW p \in Pid, NEW q \in Pid, Fork(p, q) PROVE MapInv'
<1>1. MapInv /\ IInv /\ HistoryInv /\ ListInv /\ time \in Nat /\ tasks \in Seq(Pid)
      /\ child \in [Pid -> Pid \cup {None}]
  BY DEF MInv, MapInv, HistoryInv, IInv, Types
<1>2. /\ phase \in {"scan", "run"} /\ p \in Alive /\ q \notin Alive /\ Announced(p) /\ child[p] = None
      /\ tasks' = Append(tasks, q) /\ child' = [child EXCEPT ![p] = q]
      /\ mm' = [mm EXCEPT ![q] = mm[p]]
      /\ misled' = IF p \in misled THEN misled \cup {q} ELSE misled
      /\ time' = time + 2
      /\ UNCHANGED <<phase, scanTask, scanAddr, scanVma, scanEnd, pids, mmaps_over_time>>
      /\ UNCHANGED lookupVars
  BY DEF Fork, Event, Recording, MappedNow, scanVars, modelVars
<1>3. p # q /\ mm'[q] = mm[p] /\ mm' \in [Pid -> Maps] /\ (\A r \in Pid \ {q} : mm'[r] = mm[r])
      /\ child'[p] = q /\ \A r \in Pid \ {p} : child'[r] = child[r]
  BY <1>1, <1>2 DEF HistoryInv
<1>4. TimeStep /\ HistoryInv' /\ time' >= time /\ misled \subseteq misled'
  <2>1. TimeStep
    BY <1>1, <1>2, <1>3 DEF TimeStep, Fork, MappedNow, HistoryInv
  <2> QED
    BY <1>1, <1>2, <2>1, TimeStepFacts
<1>5. Alive' = Alive \cup {q} /\ (\A i \in DOMAIN tasks : tasks'[i] = tasks[i])
      /\ Len(tasks') = Len(tasks) + 1
  <2>1. /\ DOMAIN tasks' = DOMAIN tasks \cup {Len(tasks) + 1} /\ Len(tasks') = Len(tasks) + 1
        /\ tasks'[Len(tasks) + 1] = q /\ \A i \in DOMAIN tasks : tasks'[i] = tasks[i]
    BY <1>1, <1>2
  <2>2. Alive' = {tasks'[i] : i \in DOMAIN tasks'}
    BY DEF Alive
  <2> QED
    BY <2>1, <2>2 DEF Alive
<1>6. ListInv' /\ LengthsInv'
  BY <1>1, <1>2, <1>4, ListKept DEF MapInv, ListInv, LengthsInv, Known
<1>7. ScanTypes'
  BY <1>1, <1>2, <1>5 DEF MapInv, ScanTypes, IsTask, IInv, Types
<1>8. \A r \in Pid \ {q}, b \in UserAddr : SaysNow(r, b) => SaysNow(r, b)'
  BY <1>1, <1>2, <1>3, <1>4, NowKept
<1>9. ScanInv'
  <2> SUFFICES ASSUME phase = "scan" PROVE ScanInv'
    BY <1>2 DEF ScanInv
  <2>1. ASSUME NEW i \in DOMAIN tasks', i < scanTask, tasks'[i] \notin misled', NEW b \in UserAddr
        PROVE  SaysNow(tasks[i], b)'
    <3>1. i \in DOMAIN tasks
      BY <1>1, <1>2, <2>1 DEF IInv, Types
    <3>2. PICK r \in Pid : r = tasks[i] /\ r = tasks'[i] /\ r # q
      BY <1>1, <1>2, <1>5, <3>1 DEF Alive
    <3>3. SaysNow(r, b)
      BY <1>1, <1>4, <2>1, <3>1, <3>2 DEF MapInv, ScanInv
    <3> QED
      BY <1>8, <3>2, <3>3
  <2>2. ASSUME IsTask(scanTask)', Scanned' \notin misled'
        PROVE  /\ \A b \in UserAddr : b < scanAddr => SaysNow(Scanned, b)'
               /\ scanVma # None => mm'[Scanned'][scanAddr] = scanVma
    <3>1. CASE IsTask(scanTask)
      <4>1. PICK r \in Pid : r = Scanned /\ r = Scanned' /\ r # q
        BY <1>1, <1>2, <1>5, <3>1 DEF Alive, Scanned, IsTask, IInv, Types
      <4>2. /\ \A b \in UserAddr : b < scanAddr => SaysNow(r, b)
            /\ scanVma # None => mm[r][scanAddr] = scanVma
        BY <1>1, <1>4, <2>2, <3>1, <4>1 DEF MapInv, ScanInv
      <4> QED
        BY <1>3, <1>8, <4>1, <4>2
    <3>2. CASE ~IsTask(scanTask)
      <4>1. scanAddr = 0 /\ scanVma = None
        BY <1>1, <3>2 DEF MapInv, ScanTypes
      <4>2. \A b \in UserAddr : ~(b < scanAddr)
        BY <4>1, ConstantFacts
      <4> QED
        BY <4>1, <4>2
    <3> QED
      BY <3>1, <3>2
  <2> QED
    BY <1>2, <2>1, <2>2 DEF ScanInv
<1>10. Unborn'
  <2> SUFFICES ASSUME NEW r \in Pid, r \notin Alive, r # q
               PROVE  ~Known(r)' /\ mm'[r] = Nothing /\ \A t \in DOMAIN mmAt' : mmAt'[t][r] = Nothing
    BY <1>5 DEF Unborn
  <2>1. mm'[r] = Nothing /\ ~Known(r)'
    BY <1>1, <1>2, <1>3 DEF MapInv, Unborn, Known
  <2> QED
    BY <1>1, <1>4, <2>1 DEF TimeStep, MapInv, Unborn
<1>11. Parents'
  <2> SUFFICES ASSUME NEW r \in Pid, child'[r] # None
               PROVE  r \in Alive' /\ \A s \in Pid : child'[s] # r
    BY DEF Parents, Announced
  <2>1. r \in Alive /\ Announced(r)
    BY <1>1, <1>2, <1>3 DEF MapInv, Parents
  <2> QED
    BY <1>2, <1>3, <1>5, <2>1 DEF Announced
<1>12. PendingInv'
  <2> SUFFICES ASSUME NEW r \in Pid, NEW s \in Pid, child'[r] = s, s \notin misled'
               PROVE  /\ r \notin misled' /\ mm'[s] = mm'[r]
                      /\ phase = "run" => (\A tsc \in scanEnd + 1 .. time + 1 : \A a \in UserAddr :
                            MappedAt(s, tsc)[a] \in {None, MappedAt(r, tsc)[a]})'
    BY <1>2 DEF PendingInv
  <2>1. CASE r = p
    <3>1. s = q /\ r \notin misled' /\ mm'[s] = mm'[r]
      BY <1>2, <1>3, <2>1
    <3>2. ASSUME phase = "run", NEW tsc \in (scanEnd + 1 .. time + 1)', NEW a \in UserAddr
          PROVE  (MappedAt(q, tsc)[a])' \in {None, (MappedAt(p, tsc)[a])'}
      <4>1. tsc \in Nat /\ tsc > 2 /\ (tsc <= time + 2 \/ tsc = time + 3)
        BY <1>1, <1>2, <3>2 DEF HistoryInv
      <4>2. CASE tsc <= time + 2
        <5>1. MappedAt(q, tsc)' = MappedAt(q, tsc)
          BY <1>1, <1>4, <4>1, <4>2, TimeStepFacts
        <5>2. TimeBefore(mmAt, tsc) \in DOMAIN mmAt
          BY <1>1, <4>1, TimeBeforeFacts DEF HistoryInv
        <5>3. MappedAt(q, tsc) = Nothing
          BY <1>1, <1>2, <5>2, MappedAtIs DEF MapInv, Unborn
        <5> QED
          BY <5>1, <5>3 DEF Nothing
      <4>3. CASE tsc = time + 3
        <5>1. MappedAt(q, tsc)' = mm'[q] /\ MappedAt(p, tsc)' = mm'[p]
          BY <1>1, <1>4, <4>1, <4>3, TimeStepFacts
        <5> QED
          BY <2>1, <3>1, <5>1
      <4> QED
        BY <4>1, <4>2, <4>3
    <3> QED
      BY <2>1, <3>1, <3>2
  <2>2. CASE r # p
    <3>1. child[r] = s /\ s # None /\ s \notin misled
      BY <1>3, <1>4, <2>2, ConstantFacts
    <3>2. r # q /\ s # q
      BY <1>1, <1>2, <3>1 DEF MapInv, Parents, IInv, Children
    <3>3. r \notin misled /\ r \notin misled' /\ mm[s] = mm[r] /\ mm'[s] = mm'[r]
      BY <1>1, <1>2, <1>3, <3>1, <3>2 DEF MapInv, PendingInv
    <3>4. ASSUME phase = "run"
          PROVE  (\A tsc \in scanEnd + 1 .. time + 1 : \A a \in UserAddr :
                    MappedAt(s, tsc)[a] \in {None, MappedAt(r, tsc)[a]})'
      <4>1. \A tsc \in scanEnd + 1 .. time + 1 : \A a \in UserAddr :
                    MappedAt(s, tsc)[a] \in {None, MappedAt(r, tsc)[a]}
        BY <1>1, <3>1, <3>4 DEF MapInv, PendingInv
      <4> QED
        BY <1>1, <1>4, <3>3, <3>4, <4>1, PendingKept
    <3> QED
      BY <3>3, <3>4
  <2> QED
    BY <2>1, <2>2
<1>13. RunInv'
  <2> SUFFICES ASSUME phase = "run", NEW r \in pids \ misled'
               PROVE  (\A tsc \in scanEnd + 1 .. time + 1 : SaysAt(r, tsc))'
    BY <1>2 DEF RunInv
  <2>1. r \in Pid \ {q} /\ r \in pids \ misled /\ pids \subseteq Pid
    BY <1>1, <1>2, <1>4 DEF IInv, Types, MapInv, Unborn, Known
  <2>2. \A a \in UserAddr : SaysNow(r, a)'
    BY <1>1, <1>8, <2>1, RunNow
  <2>3. \A tsc \in scanEnd + 1 .. time + 1 : SaysAt(r, tsc)
    BY <1>1, <2>1 DEF MapInv, RunInv
  <2>4. scanEnd >= 2 /\ Grows(r)
    BY <1>1, <1>2 DEF HistoryInv, Grows
  <2> QED
    BY <1>1, <1>4, <2>1, <2>2, <2>3, <2>4, PastKept
<1>14. LookupInv'
  BY <1>1, <1>2, NoLookup
<1> QED
  BY <1>4, <1>6, <1>7, <1>9, <1>10, <1>11, <1>12, <1>13, <1>14 DEF MapInv

LEMMA AnnounceMaps == ASSUME MInv, NEW p \in Pid, TaskForkFairWrapper(p) PROVE MapInv'
<1>1. MapInv /\ IInv /\ HistoryInv /\ ListInv /\ time \in Nat /\ tasks \in Seq(Pid)
      /\ child \in [Pid -> Pid \cup {None}]
  BY DEF MInv, MapInv, HistoryInv, IInv, Types
<1>2. PICK q \in Pid : q = child[p]
  BY <1>1 DEF TaskForkFairWrapper
<1>3. /\ phase \in {"scan", "run"} /\ child' = [child EXCEPT ![p] = None]
      /\ time' = time + 2
      /\ UNCHANGED <<phase, tasks, mm, scanTask, scanAddr, scanVma, scanEnd, misled>>
      /\ UNCHANGED lookupVars
  BY DEF TaskForkFairWrapper, Recording, scanVars
<1>4. /\ q \in Alive /\ p \in Alive /\ p # q
      /\ child'[p] = None /\ \A r \in Pid \ {p} : child'[r] = child[r]
  BY <1>1, <1>2, <1>3 DEF IInv, Children, MapInv, Parents, Announced, TaskForkFairWrapper
<1>5. TimeStep /\ HistoryInv' /\ time' >= time
  <2>1. TimeStep
    BY <1>1, <1>3 DEF TimeStep, TaskForkFairWrapper, HistoryInv
  <2> QED
    BY <1>1, <1>3, <2>1, TimeStepFacts
<1>6. \/ pids' = pids /\ mmaps_over_time' = mmaps_over_time
      \/ /\ Known(p) /\ ~Known(q) /\ pids' = pids \cup {q}
         /\ mmaps_over_time'[q] = mmaps_over_time[p]
         /\ DOMAIN mmaps_over_time' = Pid
         /\ \A r \in Pid \ {q} : mmaps_over_time'[r] = mmaps_over_time[r]
  BY <1>1, <1>2 DEF TaskForkFairWrapper, ForkProcess, modelVars, ListInv
<1>7. ListInv' /\ LengthsInv'
  <2>1. ListInv'
    BY <1>1, <1>5, <1>6, ListKept DEF ListInv, Known
  <2>2. q \notin misled => p \notin misled
    BY <1>1, <1>2 DEF MapInv, PendingInv
  <2>3. LengthsInv'
    BY <1>1, <1>3, <1>6, <2>2 DEF MapInv, LengthsInv
  <2> QED
    BY <2>1, <2>3
<1>8. ASSUME NEW r \in Pid, NEW b \in UserAddr, SaysNow(r, b) PROVE SaysNow(r, b)'
  <2>1. CASE mmaps_over_time'[r] = mmaps_over_time[r]
    BY <1>1, <1>3, <1>5, <1>8, <2>1, NowKept
  <2>2. CASE r = q /\ ~Known(q)
    <3>1. mmaps_over_time[r] = {}
      BY <1>1, <2>2 DEF ListInv
    <3>2. mm[r][b] = None
      BY <1>8, <3>1 DEF SaysNow, Says
    <3> QED
      BY <1>3, <3>2 DEF SaysNow
  <2> QED
    BY <1>6, <2>1, <2>2
<1>9. ScanTypes'
  BY <1>1, <1>3 DEF MapInv, ScanTypes, IsTask
<1>10. ScanInv'
  <2> SUFFICES ASSUME phase = "scan" PROVE ScanInv'
    BY <1>3 DEF ScanInv
  <2>1. \A i \in DOMAIN tasks : i < scanTask /\ tasks[i] \notin misled =>
          \A b \in UserAddr : SaysNow(tasks[i], b)'
    <3>1. ScanInv
      BY <1>1 DEF MapInv
    <3> QED
      BY <1>1, <1>3, <1>8, <3>1, ScannedStays
  <2>2. ASSUME IsTask(scanTask), Scanned \notin misled
        PROVE  /\ \A b \in UserAddr : b < scanAddr => SaysNow(Scanned, b)'
               /\ scanVma # None => mm[Scanned][scanAddr] = scanVma
    <3>1. PICK r \in Pid : r = Scanned /\ r = Scanned'
      BY <1>1, <1>3, <2>2 DEF Scanned, IsTask, IInv, Types
    <3>2. /\ \A b \in UserAddr : b < scanAddr => SaysNow(r, b)
          /\ scanVma # None => mm[r][scanAddr] = scanVma
      BY <1>1, <2>2, <3>1 DEF MapInv, ScanInv
    <3> QED
      BY <1>8, <3>1, <3>2
  <2>3. Scanned' = Scanned
    BY <1>3 DEF Scanned
  <2> QED
    BY <1>3, <2>1, <2>2, <2>3 DEF ScanInv, IsTask
<1>11. Unborn'
  <2> SUFFICES ASSUME NEW r \in Pid, r \notin Alive
               PROVE  ~Known(r)' /\ mm'[r] = Nothing /\ \A t \in DOMAIN mmAt' : mmAt'[t][r] = Nothing
    BY <1>3 DEF Unborn, Alive
  <2>1. mm'[r] = Nothing /\ ~Known(r)'
    BY <1>1, <1>3, <1>4, <1>6 DEF MapInv, Unborn, Known
  <2> QED
    BY <1>1, <1>5, <2>1 DEF TimeStep, MapInv, Unborn
<1>12. Parents'
  BY <1>1, <1>3, <1>4 DEF MapInv, Parents, Announced, Alive
<1>13. \A r \in Pid, s \in Pid : child[r] = s /\ s \notin misled =>
         /\ r \notin misled /\ mm[s] = mm[r]
         /\ phase = "run" => (\A tsc \in scanEnd + 1 .. time + 1 : \A a \in UserAddr :
               MappedAt(s, tsc)[a] \in {None, MappedAt(r, tsc)[a]})'
  <2> SUFFICES ASSUME NEW r \in Pid, NEW s \in Pid, child[r] = s, s \notin misled
               PROVE  /\ r \notin misled /\ mm[s] = mm[r]
                      /\ phase = "run" => (\A tsc \in scanEnd + 1 .. time + 1 : \A a \in UserAddr :
                            MappedAt(s, tsc)[a] \in {None, MappedAt(r, tsc)[a]})'
    OBVIOUS
  <2>1. r \notin misled /\ mm[s] = mm[r] /\ mm'[s] = mm'[r]
    BY <1>1, <1>3 DEF MapInv, PendingInv
  <2>2. ASSUME phase = "run"
        PROVE  (\A tsc \in scanEnd + 1 .. time + 1 : \A a \in UserAddr :
                  MappedAt(s, tsc)[a] \in {None, MappedAt(r, tsc)[a]})'
    <3>1. \A tsc \in scanEnd + 1 .. time + 1 : \A a \in UserAddr :
                  MappedAt(s, tsc)[a] \in {None, MappedAt(r, tsc)[a]}
      BY <1>1, <2>2 DEF MapInv, PendingInv
    <3> QED
      BY <1>1, <1>5, <2>1, <2>2, <3>1, PendingKept
  <2> QED
    BY <2>1, <2>2
<1>14. PendingInv'
  <2>1. \A r, s \in Pid : child'[r] = s => child[r] = s
    BY <1>4, ConstantFacts
  <2> QED
    BY <1>3, <1>13, <2>1 DEF PendingInv
<1>15. RunInv'
  <2> SUFFICES ASSUME phase = "run", NEW r \in pids' \ misled
               PROVE  (\A tsc \in scanEnd + 1 .. time + 1 : SaysAt(r, tsc))'
    BY <1>3 DEF RunInv
  <2>1. pids \subseteq Pid /\ scanEnd >= 2
    BY <1>1 DEF IInv, Types, HistoryInv
  <2>2. ASSUME NEW s \in pids \ misled, mmaps_over_time'[s] = mmaps_over_time[s]
        PROVE  (\A tsc \in scanEnd + 1 .. time + 1 : SaysAt(s, tsc))'
    <3>1. \A a \in UserAddr : SaysNow(s, a)'
      BY <1>1, <1>8, <2>1, <2>2, RunNow
    <3>2. \A tsc \in scanEnd + 1 .. time + 1 : SaysAt(s, tsc)
      BY <1>1, <2>2 DEF MapInv, RunInv
    <3>3. Grows(s)
      BY <2>2 DEF Grows
    <3> QED
      BY <1>1, <1>5, <2>1, <2>2, <3>1, <3>2, <3>3, PastKept
  <2>3. CASE r \in pids
    <3>1. mmaps_over_time'[r] = mmaps_over_time[r]
      BY <1>6, <2>1, <2>3 DEF Known
    <3> QED
      BY <2>2, <2>3, <3>1
  <2>4. CASE r \notin pids
    <3>1. r = q /\ p \in pids /\ mmaps_over_time'[q] = mmaps_over_time[p]
          /\ mmaps_over_time'[p] = mmaps_over_time[p]
      BY <1>4, <1>6, <2>4 DEF Known
    <3>2. p \notin misled /\ (\A tsc \in scanEnd + 1 .. time + 1 : \A a \in UserAddr :
             MappedAt(q, tsc)[a] \in {None, MappedAt(p, tsc)[a]})'
      BY <1>2, <1>13, <3>1
    <3>3. (\A tsc \in scanEnd + 1 .. time + 1 : SaysAt(p, tsc))'
      BY <2>2, <3>1, <3>2
    <3>4. ASSUME NEW tsc \in (scanEnd + 1 .. time + 1)', NEW a \in UserAddr, (MappedAt(q, tsc)[a])' # None
          PROVE  Says(mmaps_over_time'[q], tsc, a, (MappedAt(q, tsc)[a])')
      <4>1. (MappedAt(q, tsc)[a])' = (MappedAt(p, tsc)[a])'
        BY <3>2, <3>4
      <4>2. SaysAt(p, tsc)'
        BY <3>3
      <4>3. Says(mmaps_over_time'[p], tsc, a, (MappedAt(p, tsc)[a])')
        BY <3>4, <4>1, <4>2 DEF SaysAt
      <4> QED
        BY <3>1, <4>1, <4>3
    <3>5. ASSUME NEW tsc \in (scanEnd + 1 .. time + 1)' PROVE SaysAt(r, tsc)'
      BY <3>1, <3>4 DEF SaysAt
    <3> QED
      BY <3>5
  <2> QED
    BY <2>3, <2>4
<1>16. LookupInv'
  BY <1>1, <1>3, NoLookup
<1> QED
  BY <1>5, <1>7, <1>9, <1>10, <1>11, <1>12, <1>14, <1>15, <1>16 DEF MapInv

-----------------------------------------------------------------------------
(* Lookups *)

\* The first question finds nothing kept.
LEMMA BeginMaps == ASSUME MInv, NEW p \in Pid, BeginLookup(p) PROVE MapInv'
<1>1. /\ phase = "run" /\ phase' = "lookup" /\ Known(p) /\ the_process' = p
      /\ UNCHANGED <<time, tasks, mm, child, scanTask, scanAddr, scanVma, scanEnd, pids,
                     mmaps_over_time, ranges, slot, asked, forward, straight, mmAt, misled>>
  BY DEF BeginLookup, scanVars, modelVars
<1>2. MapInv /\ IInv
  BY DEF MInv
<1>3. ListInv' /\ LengthsInv' /\ HistoryInv' /\ Unborn' /\ Parents'
  BY <1>1, <1>2 DEF MapInv, ListInv, LengthsInv, ListOk, Known, HistoryInv, Unborn, Alive, Parents, Announced
<1>4. ScanTypes' /\ ScanInv' /\ PendingInv'
  BY <1>1, <1>2 DEF MapInv, ScanTypes, ScanInv, PendingInv
<1>5. RunInv'
  <2>1. \A r, tsc : MappedAt(r, tsc)' = MappedAt(r, tsc)
    BY <1>1, MappedAtKept
  <2> QED
    BY <1>1, <1>2, <2>1 DEF MapInv, RunInv, SaysAt
<1>6. LookupInv'
  <2>1. asked = 0 /\ ranges = {} /\ slot = <<0, 0>> /\ straight \in BOOLEAN
    BY <1>1, <1>2 DEF MapInv, LookupInv
  <2> QED
    BY <1>1, <2>1 DEF LookupInv, Disjoint, Known
<1> QED
  BY <1>3, <1>4, <1>5, <1>6 DEF MapInv

\* The slot of a time lies between two mappings.
LEMMA SlotFacts ==
  ASSUME NEW list, Mappings(list), list = mmaps_over_time[the_process], NEW tsc \in Nat, tsc > 0
  PROVE  /\ SlotOf(tsc)[1] < tsc /\ SlotOf(tsc)[1] \in Nat /\ SlotOf(tsc)[2] \in Nat
         /\ \A m \in list : IF m.tsc < tsc THEN m.tsc <= SlotOf(tsc)[1] ELSE m.tsc >= SlotOf(tsc)[2]
<1> DEFINE times == {m.tsc : m \in list}
           before == {t \in times : t < tsc} \cup {0}
           after == {t \in times : t >= tsc} \cup {Forever}
           low == CHOOSE t \in before : \A u \in before : u <= t
           high == CHOOSE t \in after : \A u \in after : t <= u
<1>1. SlotOf(tsc) = <<low, high>>
  BY DEF SlotOf
<1>2. times \subseteq Nat
  BY DEF Mappings
<1>3. \A m \in list : m.tsc \in times
  OBVIOUS
<1> HIDE DEF times, low, high
<1>4. before \subseteq Nat /\ after \subseteq Nat /\ 0 \in before /\ Forever \in after
  <2>1. \A t \in before : t \in Nat
    BY <1>2
  <2>2. Forever \in Nat
    BY DEF Forever
  <2>3. \A t \in after : t \in Nat
    BY <1>2, <2>2
  <2> QED
    BY <2>1, <2>3
<1>5. low \in before /\ \A u \in before : u <= low
  <2>1. before \subseteq Nat /\ 0 \in before /\ 0 < tsc
    BY <1>4
  <2>2. \E t \in before : t < tsc /\ \A u \in before : u < tsc => u <= t
    <3> HIDE DEF before
    <3> QED
      BY <2>1, LastTime
  <2>3. \E t \in before : \A u \in before : u <= t
    BY <2>2
  <2> HIDE DEF before
  <2> QED
    BY <2>3 DEF low
<1>6. high \in after /\ \A u \in after : high <= u
  <2>1. after \subseteq Nat /\ after # {}
    BY <1>4
  <2> HIDE DEF after
  <2>2. \E t \in after : \A u \in after : t <= u
    BY <2>1, LeastElement
  <2> QED
    BY <2>2 DEF high
<1>7. low < tsc /\ low \in Nat /\ high \in Nat
  BY <1>4, <1>5, <1>6
<1>8. ASSUME NEW m \in list
      PROVE  IF m.tsc < tsc THEN m.tsc <= low ELSE m.tsc >= high
  <2>1. m.tsc \in times /\ m.tsc \in Nat
    BY <1>2, <1>3
  <2>2. m.tsc < tsc => m.tsc <= low
    BY <1>5, <2>1
  <2>3. m.tsc >= tsc => high <= m.tsc
    BY <1>6, <2>1
  <2> QED
    BY <1>7, <2>1, <2>2, <2>3
<1> QED
  BY <1>1, <1>7, <1>8

LEMMA LookupMaps == ASSUME MInv, NEW tsc \in scanEnd + 1 .. time + 1, GetMmap(tsc) PROVE MapInv'
<1>1. /\ phase = "lookup" /\ phase' = "lookup"
      /\ asked' = tsc /\ forward' = (forward /\ tsc >= asked)
      /\ UNCHANGED <<time, tasks, mm, child, scanTask, scanAddr, scanVma, scanEnd, pids,
                     mmaps_over_time, the_process, mmAt, misled>>
  BY DEF GetMmap, kernelVars, scanVars, modelVars
<1>2. MapInv /\ IInv /\ LookupInv /\ HistoryInv /\ ListInv
  BY DEF MInv, MapInv
<1>3. ListInv' /\ LengthsInv' /\ HistoryInv' /\ Unborn' /\ Parents'
  BY <1>1, <1>2 DEF MapInv, ListInv, LengthsInv, ListOk, Known, HistoryInv, Unborn, Alive, Parents, Announced
<1>4. ScanTypes' /\ ScanInv' /\ PendingInv'
  BY <1>1, <1>2 DEF MapInv, ScanTypes, ScanInv, PendingInv
<1>5. RunInv'
  <2>1. \A r, t : MappedAt(r, t)' = MappedAt(r, t)
    BY <1>1, MappedAtKept
  <2> QED
    BY <1>1, <1>2, <2>1 DEF MapInv, RunInv, SaysAt
<1>6. tsc \in Nat /\ tsc > 2
  BY <1>1, <1>2 DEF HistoryInv
<1>7. PICK list : list = mmaps_over_time[the_process] /\ Mappings(list) /\ list = mmaps_over_time'[the_process']
                  /\ (\A m \in list : m.tsc \in Nat)
                  /\ (the_process \notin misled => NonEmpty(list))
  BY <1>1, <1>2 DEF MapInv, LookupInv, IInv, Types, ListInv, LengthsInv, ListOk, Mappings
<1> DEFINE Slot(low, high) == /\ low < tsc /\ low \in Nat /\ high \in Nat
                              /\ \A m \in list : IF m.tsc < tsc THEN m.tsc <= low ELSE m.tsc >= high
           Told(map) == \A a \in Addr : \A m \in list : Newest(list, tsc, a, m) => Has(map, a, m.exe)
           Typed(map) == \A r \in map : r = Range(r.start, r.end, r.id) /\ r.start \in Nat /\ r.end \in Nat
<1>8. CASE InSlot(tsc)
  <2>1. UNCHANGED <<ranges, straight, slot>>
    BY <1>8 DEF GetMmap
  <2>2. asked # 0
    BY <1>2, <1>6, <1>8 DEF InSlot, LookupInv
  <2>3. ASSUME forward, tsc >= asked
        PROVE  /\ Slot(slot[1], slot[2])
               /\ straight /\ the_process \notin misled => Told(ranges)
    <3>1. /\ slot[1] < asked /\ asked \in Nat /\ slot[1] \in Nat /\ slot[2] \in Nat
          /\ \A m \in list : IF m.tsc < asked THEN m.tsc <= slot[1] ELSE m.tsc >= slot[2]
      BY <1>2, <1>7, <2>2, <2>3 DEF LookupInv, HistoryInv
    <3>2. slot[1] <= tsc /\ tsc < slot[2]
      BY <1>8 DEF InSlot
    <3>3. \A m \in list : (m.tsc < tsc <=> m.tsc < asked)
      <4> SUFFICES ASSUME NEW m \in list PROVE m.tsc < tsc <=> m.tsc < asked
        OBVIOUS
      <4>1. m.tsc \in Nat
        BY <1>7
      <4> QED
        BY <1>6, <2>3, <3>1, <3>2, <4>1
    <3>4. Slot(slot[1], slot[2])
      BY <1>6, <1>7, <2>3, <3>1, <3>2, <3>3
    <3>5. \A a, m : Newest(list, tsc, a, m) => Newest(list, asked, a, m)
      BY <3>3 DEF Newest
    <3>6. straight /\ the_process \notin misled =>
            \A a \in Addr : \A m \in list : Newest(list, asked, a, m) => Has(ranges, a, m.exe)
      BY <1>2, <1>7, <2>2, <2>3 DEF LookupInv
    <3> QED
      BY <3>4, <3>5, <3>6
  <2>4. forward' => /\ Slot(slot'[1], slot'[2])
                    /\ straight' /\ the_process \notin misled => Told(ranges')
    BY <1>1, <2>1, <2>3
  <2>5. LookupInv'
    BY <1>1, <1>2, <1>6, <1>7, <2>1, <2>4 DEF LookupInv, HistoryInv
  <2> QED
    BY <1>3, <1>4, <1>5, <2>5 DEF MapInv
<1>9. CASE ~InSlot(tsc)
  <2> DEFINE before == [ranges |-> ranges, straight |-> straight]
             ids == {r.id : r \in ranges} \cup {m.exe : m \in list}
             G == [start : Nat, end : Nat, id : ids]
  <2>1. PICK after \in Rebuilt(before, tsc) :
          ranges' = after.ranges /\ straight' = after.straight /\ slot' = SlotOf(tsc)
    BY <1>9 DEF GetMmap
  <2>2. Within(G)
    <3>1. \A m \in list : Range(m.start, m.end, m.exe) \in G
      BY <1>7 DEF Mappings, Range
    <3>2. ASSUME NEW r \in G, NEW start \in Nat, NEW end \in Nat, NEW s \in Left(r, start, end)
          PROVE  s \in G
      BY DEF Left, Range
    <3> HIDE DEF G
    <3> QED
      BY <1>7, <3>1, <3>2 DEF Within
  <2>3. ranges \subseteq G
    <3> SUFFICES ASSUME NEW r \in ranges PROVE r \in G
      OBVIOUS
    <3>1. r = Range(r.start, r.end, r.id) /\ r.start \in Nat /\ r.end \in Nat /\ r.id \in ids
      BY <1>2 DEF LookupInv
    <3> HIDE DEF ids
    <3> QED
      BY <3>1 DEF Range
  <2>4. \A g \in G : g = Range(g.start, g.end, g.id) /\ g.start \in Nat /\ g.end \in Nat
    BY DEF Range
  <2> HIDE DEF G
  <2>5. before \in States(G) /\ before.ranges = ranges /\ before.straight = straight
    <3>1. PICK b \in BOOLEAN : b = straight
      BY <1>2 DEF LookupInv
    <3> QED
      BY <2>3, <3>1 DEF States
  <2> HIDE DEF before
  <2>6. after \in States(G)
    BY <1>6, <1>7, <2>1, <2>2, <2>5, RebuiltWithin
  <2>7. Typed(ranges') /\ straight' \in BOOLEAN
    BY <2>1, <2>4, <2>6 DEF States
  <2>8. ASSUME straight', the_process \notin misled
        PROVE  Disjoint(ranges') /\ Told(ranges')
    <3>1. before.straight => Disjoint(before.ranges)
      BY <1>1, <1>2, <2>5, <2>8 DEF LookupInv
    <3>2. NonEmpty(mmaps_over_time[the_process]) /\ Mappings(mmaps_over_time[the_process])
      BY <1>7, <2>8
    <3>3. after.straight
      BY <2>1, <2>8
    <3>4. /\ Disjoint(after.ranges)
          /\ \A at \in Nat : \A m : Newest(mmaps_over_time[the_process], tsc, at, m) =>
               Has(after.ranges, at, m.exe)
      BY <1>6, <2>1, <2>2, <2>5, <3>1, <3>2, <3>3, RebuiltFacts
    <3> QED
      BY <1>7, <2>1, <3>4, ConstantFacts
  <2>9. Slot(slot'[1], slot'[2])
    BY <1>6, <1>7, <2>1, SlotFacts
  <2>10. LookupInv'
    BY <1>1, <1>2, <1>6, <1>7, <2>7, <2>8, <2>9 DEF LookupInv
  <2> QED
    BY <1>3, <1>4, <1>5, <2>10 DEF MapInv
<1> QED
  BY <1>8, <1>9

LEMMA IdleMaps == ASSUME MInv, UNCHANGED vars PROVE MapInv'
<1>1. /\ UNCHANGED <<phase, time, tasks, mm, child, scanTask, scanAddr, scanVma, scanEnd, pids,
                     mmaps_over_time, mmAt, misled, the_process, ranges, slot, asked, forward, straight>>
  BY DEF vars, kernelVars, scanVars, modelVars, lookupVars
<1>2. MapInv /\ IInv
  BY DEF MInv
<1>3. ListInv' /\ LengthsInv' /\ HistoryInv' /\ Unborn' /\ Parents'
  BY <1>1, <1>2 DEF MapInv, ListInv, LengthsInv, ListOk, Known, HistoryInv, Unborn, Alive, Parents, Announced
<1>4. ScanTypes' /\ ScanInv' /\ LookupInv'
  BY <1>1, <1>2 DEF MapInv, ScanTypes, ScanInv, IsTask, Scanned, SaysNow, LookupInv
<1>5. PendingInv' /\ RunInv'
  <2>1. \A r, tsc : MappedAt(r, tsc)' = MappedAt(r, tsc)
    BY <1>1, MappedAtKept
  <2> QED
    BY <1>1, <1>2, <2>1 DEF MapInv, PendingInv, RunInv, SaysAt
<1> QED
  BY <1>3, <1>4, <1>5 DEF MapInv

LEMMA InitMaps == Init => MapInv
<1> SUFFICES ASSUME Init PROVE MapInv
  OBVIOUS
<1>1. /\ phase = "modules" /\ time = 2 /\ tasks = First /\ scanTask = 1 /\ scanAddr = 0
      /\ scanVma = None /\ scanEnd = 0 /\ pids = {} /\ the_process = None /\ ranges = {}
      /\ slot = <<0, 0>> /\ asked = 0 /\ forward = TRUE /\ straight = TRUE /\ misled = {}
      /\ mmaps_over_time = [p \in Pid |-> {}] /\ child = [p \in Pid |-> None]
      /\ mmAt = [t \in {2} |-> mm]
  BY DEF Init
<1>2. \A p \in Pid : mm[p] = IF p \in Alive THEN Mapped[p] ELSE Nothing
  BY <1>1 DEF Init, Alive
<1>3. mm \in [Pid -> Maps]
  BY ConstantFacts DEF Init
<1>4. HistoryInv
  BY <1>1, <1>3 DEF HistoryInv
<1>5. ListInv /\ LengthsInv
  BY <1>1 DEF ListInv, LengthsInv, NonEmpty, ListOk, Mappings, Known
<1>6. ScanTypes /\ ScanInv
  BY <1>1 DEF ScanTypes, ScanInv
<1>7. Unborn /\ Parents /\ PendingInv /\ RunInv
  BY <1>1, <1>2, ConstantFacts DEF Unborn, Known, Parents, PendingInv, RunInv
<1>8. LookupInv
  BY <1>1 DEF LookupInv, Disjoint
<1> QED
  BY <1>4, <1>5, <1>6, <1>7, <1>8 DEF MapInv

-----------------------------------------------------------------------------
(* The theorems *)

LEMMA MapsPreserved == MInv /\ [Next]_vars => MInv'
<1> SUFFICES ASSUME MInv, [Next]_vars PROVE MInv'
  OBVIOUS
<1>1. IInv'
  BY Preserved DEF MInv
<1>2. MapInv'
  <2>1. CASE SendModuleList
    BY <2>1, ModulesMaps
  <2>2. CASE ReadVma
    BY <2>2, ReadMaps
  <2>3. CASE SendVma
    BY <2>3, VmaMaps
  <2>4. CASE SendProcess
    BY <2>4, ProcessMaps
  <2>5. CASE ScanDone
    BY <2>5, DoneMaps
  <2>6. ASSUME NEW p \in Pid, NEW start \in UserAddr, NEW last \in UserAddr, start <= last,
               \/ \E exe \in NewExe : MmapCalled(p, start, last + 1, exe)
               \/ \E done \in BOOLEAN : MunmapCalled(p, start, last + 1, done)
        PROVE  MapInv'
    BY <2>6, MmapMaps, MunmapMaps
  <2>7. ASSUME NEW p \in Pid, Exec(p) PROVE MapInv'
    BY <2>7, ExecMaps
  <2>8. ASSUME NEW p \in Pid, NEW q \in Pid, Fork(p, q) PROVE MapInv'
    BY <2>8, ForkMaps
  <2>9. ASSUME NEW p \in Pid, TaskForkFairWrapper(p) PROVE MapInv'
    BY <2>9, AnnounceMaps
  <2>10. ASSUME NEW p \in Pid, BeginLookup(p) PROVE MapInv'
    BY <2>10, BeginMaps
  <2>11. ASSUME NEW tsc \in scanEnd + 1 .. time + 1, GetMmap(tsc) PROVE MapInv'
    BY <2>11, LookupMaps
  <2>12. CASE UNCHANGED vars
    BY <2>12, IdleMaps
  <2> QED
    BY <2>1, <2>2, <2>3, <2>4, <2>5, <2>6, <2>7, <2>8, <2>9, <2>10, <2>11, <2>12 DEF Next
<1> QED
  BY <1>1, <1>2 DEF MInv

\* The invariant of the lists of mappings, the scan and the lookups (the hooks,
\* print_all_tasks, sideband_collector, mmappings).
THEOREM MapsInvariance == Spec => []MInv
<1>1. Init => MInv
  BY InitIInv, InitMaps DEF MInv
<1> QED
  BY <1>1, MapsPreserved, PTL DEF Spec

\* Of mappings that cover an address before a time, one is the latest.
LEMMA NewestExists ==
  ASSUME NEW list, Mappings(list), NEW tsc \in Nat, NEW a, NEW n \in list, n.tsc < tsc, Covers(n, a)
  PROVE  \E m \in list : Newest(list, tsc, a, m)
<1> DEFINE T == {m.tsc : m \in {l \in list : Covers(l, a)}}
<1>1. T \subseteq Nat /\ n.tsc \in T
  BY DEF Mappings
<1>2. \A m \in list : Covers(m, a) => m.tsc \in T
  OBVIOUS
<1>3. \A t \in T : \E m \in list : Covers(m, a) /\ m.tsc = t
  OBVIOUS
<1> HIDE DEF T
<1>4. PICK t \in T : t < tsc /\ \A u \in T : u < tsc => u <= t
  BY <1>1, LastTime
<1>5. PICK m \in list : Covers(m, a) /\ m.tsc = t
  BY <1>3
<1> QED
  BY <1>2, <1>4, <1>5 DEF Newest

\* Every address that was mapped in a process at the time of the lookup is found
\* to be of the executable that was mapped there then, where the collector was told
\* what happened and no insert met several ranges (mmappings::find).
THEOREM MappingsFound == Spec => []MappedIsFound
<1>1. MInv => MappedIsFound
  <2> SUFFICES ASSUME MInv, phase = "lookup", asked > 0, forward, straight, the_process \notin misled
               PROVE  FoundAsMapped(the_process)
    BY DEF MappedIsFound
  <2>1. MapInv /\ LookupInv /\ HistoryInv /\ ListInv /\ RunInv /\ pids \subseteq Pid
    BY DEF MInv, MapInv, IInv, Types
  <2>2. PICK p \in pids \ misled : p = the_process
    BY <2>1 DEF LookupInv
  <2>3. asked # 0
    <3>1. asked = 0 \/ asked \in scanEnd + 1 .. time + 1
      BY <2>1 DEF LookupInv
    <3> QED
      BY <3>1
  <2>4. PICK t \in scanEnd + 1 .. time + 1 : t = asked /\ t \in Nat /\ t > 2
    BY <2>1, <2>3 DEF LookupInv, HistoryInv
  <2>5. PICK list : /\ list = mmaps_over_time[p] /\ ModuleMaps \subseteq list /\ Mappings(list)
                    /\ \A m \in list : Covers(m, ModuleAddr) => m.exe = Module
    BY <2>1, <2>2 DEF ListInv, Known, ListOk
  <2>6. PICK map : map = ranges /\ Disjoint(map)
    BY <2>1 DEF LookupInv
  <2>7. ASSUME NEW a \in Addr, NEW m \in list, Newest(list, t, a, m)
        PROVE  FindRange(map, a) = m.exe
    <3>1. Has(map, a, m.exe)
      BY <2>1, <2>2, <2>3, <2>4, <2>5, <2>6, <2>7 DEF LookupInv
    <3>2. a \in Nat
      BY ConstantFacts
    <3> QED
      BY <2>6, <3>1, <3>2, HasIsFound
  <2>8. FindRange(map, ModuleAddr) = Module
    <3>1. PICK n \in list : n.tsc < t /\ Covers(n, ModuleAddr)
      BY <2>4, <2>5, ConstantFacts DEF ModuleMaps, Covers
    <3>2. PICK m \in list : Newest(list, t, ModuleAddr, m)
      BY <2>4, <2>5, <3>1, NewestExists
    <3> QED
      BY <2>5, <2>7, <3>2, SpacesAssumption DEF Newest
  <2>9. ASSUME NEW a \in UserAddr, MappedAt(p, t)[a] # None
        PROVE  FindRange(map, a) = MappedAt(p, t)[a]
    <3>1. Says(list, t, a, MappedAt(p, t)[a])
      BY <2>1, <2>4, <2>5, <2>9 DEF RunInv, SaysAt
    <3>2. PICK m \in list : Newest(list, t, a, m) /\ m.exe = MappedAt(p, t)[a]
      BY <3>1 DEF Says
    <3> QED
      BY <2>7, <3>2 DEF UserAddr
  <2> QED
    BY <2>2, <2>4, <2>6, <2>8, <2>9 DEF FoundAsMapped
<1> QED
  BY <1>1, MapsInvariance, PTL
-----------------------------------------------------------------------------
(* What is found was mapped *)

WasMapped(a, exe) == \E t \in DOMAIN mmAt, p \in Pid : mmAt[t][p][a] = exe

\* At the addresses of a range its executable was mapped, at its start even when it
\* is empty: find does not look at the end of a range it finds by its start.
IsTrue(start, end, exe) ==
  exe \in Exe => \A a \in UserAddr : a = start \/ (start <= a /\ a < end) => WasMapped(a, exe)

\* What is kept anywhere is true, and ends somewhere.
TruthInv ==
  /\ \A p \in Pid : \A m \in mmaps_over_time[p] : IsTrue(m.start, m.end, m.exe)
  /\ scanVma # None => WasMapped(scanAddr, scanVma)
  /\ \A r \in ranges : IsTrue(r.start, r.end, r.id)

EndsAt(n) ==
  /\ \A p \in Pid : \A m \in mmaps_over_time[p] : m.end <= n
  /\ \A r \in ranges : r.end <= n

FInv == TruthInv /\ \E n \in Nat : EndsAt(n)

\* The past stays, and the present becomes part of it.
LEMMA HistoryKept ==
  ASSUME HistoryInv,
         \/ UNCHANGED mmAt
         \/ /\ time' = time + 2
            /\ mmAt' = [t \in DOMAIN mmAt \cup {time'} |-> IF t = time' THEN mm' ELSE mmAt[t]]
  PROVE  /\ \A a, exe : WasMapped(a, exe) => WasMapped(a, exe)'
         /\ \A start, end, exe : IsTrue(start, end, exe) => IsTrue(start, end, exe)'
         /\ time' = time + 2 /\ ~UNCHANGED mmAt => \A p \in Pid : \A a, exe : mm'[p][a] = exe => WasMapped(a, exe)'
<1>1. \A t \in DOMAIN mmAt : t # time + 2
  BY DEF HistoryInv
<1>2. \A t \in DOMAIN mmAt : t \in DOMAIN mmAt' /\ mmAt'[t] = mmAt[t]
  BY <1>1
<1>3. \A a, exe : WasMapped(a, exe) => WasMapped(a, exe)'
  BY <1>2 DEF WasMapped
<1>4. \A start, end, exe : IsTrue(start, end, exe) => IsTrue(start, end, exe)'
  BY <1>3 DEF IsTrue
<1>5. ASSUME time' = time + 2, ~UNCHANGED mmAt, NEW p \in Pid, NEW a, NEW exe, mm'[p][a] = exe
      PROVE  WasMapped(a, exe)'
  <2>1. time' \in DOMAIN mmAt' /\ mmAt'[time'] = mm'
    BY <1>5
  <2> QED
    BY <1>5, <2>1 DEF WasMapped
<1> QED
  BY <1>3, <1>4, <1>5

\* The lists may get a mapping that is true, the modules, or one another's.
LEMMA ListsTrue ==
  ASSUME FInv, NEW new, new.end \in Nat, IsTrue(new.start, new.end, new.exe)',
         \A start, end, exe : IsTrue(start, end, exe) => IsTrue(start, end, exe)',
         \A p \in Pid : \A m \in mmaps_over_time'[p] :
           m = new \/ m \in ModuleMaps \/ \E q \in Pid : m \in mmaps_over_time[q],
         ListInv,
         ranges' = ranges, \A r \in ranges : r.end \in Nat,
         (scanVma # None => WasMapped(scanAddr, scanVma))'
  PROVE  FInv'
<1>1. \A m \in ModuleMaps : m.end = ModuleAddr + 1 /\ m.exe = Module /\ ModuleAddr + 1 \in Nat
  BY ConstantFacts DEF ModuleMaps
<1>2. TruthInv'
  <2>1. \A m \in ModuleMaps : IsTrue(m.start, m.end, m.exe)'
    BY <1>1, SpacesAssumption DEF IsTrue
  <2>2. \A p \in Pid : \A m \in mmaps_over_time'[p] : IsTrue(m.start, m.end, m.exe)'
    BY <2>1 DEF FInv, TruthInv
  <2>3. \A r \in ranges' : IsTrue(r.start, r.end, r.id)'
    BY DEF FInv, TruthInv
  <2> QED
    BY <2>2, <2>3 DEF TruthInv
<1>3. PICK n \in Nat : EndsAt(n)
  BY DEF FInv
<1>4. PICK k \in Nat : k = n + new.end + (ModuleAddr + 1)
  BY <1>1, ConstantFacts
<1>5. k >= n /\ k >= new.end /\ k >= ModuleAddr + 1
  BY <1>4, ConstantFacts
<1>6. ASSUME NEW p \in Pid, NEW m \in mmaps_over_time'[p] PROVE m.end <= k
  <2>1. CASE \E q \in Pid : m \in mmaps_over_time[q]
    <3>1. PICK q \in Pid : m \in mmaps_over_time[q]
      BY <2>1
    <3>2. m.end \in Nat /\ m.end <= n
      BY <1>3, <3>1 DEF EndsAt, ListInv, ListOk, Mappings
    <3> QED
      BY <1>5, <3>2
  <2> QED
    BY <1>1, <1>5, <1>6, <2>1
<1>7. \A r \in ranges' : r.end <= k
  BY <1>3, <1>5 DEF EndsAt
<1> QED
  BY <1>2, <1>6, <1>7 DEF FInv, EndsAt

\* A mapping of the new time that is true of what is mapped now.
LEMMA EventTrue ==
  ASSUME MInv, FInv, NEW p \in Pid, NEW maps \in Maps, NEW start \in Nat, NEW end \in Nat, start < end,
         NEW exe, MappedNow(p, maps),
         exe \in Exe => \A a \in UserAddr : start <= a /\ a < end => maps[a] = exe,
         Mmap(p, time', start, end, exe),
         UNCHANGED <<scanVars, lookupVars>>
  PROVE  FInv'
<1>1. HistoryInv /\ ListInv /\ LookupInv
  BY DEF MInv, MapInv
<1>2. /\ time' = time + 2 /\ time' # time
      /\ mmAt' = [t \in DOMAIN mmAt \cup {time'} |-> IF t = time' THEN mm' ELSE mmAt[t]]
      /\ mm'[p] = maps /\ ~UNCHANGED mmAt
  <2>1. time + 2 \notin DOMAIN mmAt /\ time + 2 # time /\ mm' = [mm EXCEPT ![p] = maps]
    BY <1>1 DEF HistoryInv, MappedNow
  <2> QED
    BY <1>1, <2>1 DEF MappedNow, HistoryInv
<1>3. /\ \A a, e : WasMapped(a, e) => WasMapped(a, e)'
      /\ \A s, u, e : IsTrue(s, u, e) => IsTrue(s, u, e)'
      /\ \A a : WasMapped(a, maps[a])'
  BY <1>1, <1>2, HistoryKept
<1>4. PICK cut : cut = CutEnd(start, end) /\ cut \in Nat /\ start <= cut /\ cut <= end
  BY CutEndFacts
<1>5. PICK new : new = [tsc |-> time', start |-> start, end |-> cut, exe |-> exe]
  OBVIOUS
<1>6. new.end \in Nat /\ new.start = start /\ new.end = cut /\ new.exe = exe
  BY <1>4, <1>5
<1>7. IsTrue(new.start, new.end, new.exe)'
  <2> SUFFICES ASSUME exe \in Exe, NEW a \in UserAddr, a = start \/ (start <= a /\ a < cut)
               PROVE  WasMapped(a, exe)'
    BY <1>6 DEF IsTrue
  <2>1. maps[a] = exe
    BY <1>4, ConstantFacts
  <2> QED
    BY <1>3, <2>1
<1>8. \A q \in Pid : \A m \in mmaps_over_time'[q] : m = new \/ \E r \in Pid : m \in mmaps_over_time[r]
  <2>1. mmaps_over_time' = [mmaps_over_time EXCEPT ![p] =
          IF Known(p) THEN Inserted(mmaps_over_time[p], time', start, end, exe) ELSE mmaps_over_time[p]]
    BY DEF Mmap
  <2>2. \A m \in Inserted(mmaps_over_time[p], time', start, end, exe) : m = new \/ m \in mmaps_over_time[p]
    BY <1>4, <1>5 DEF Inserted
  <2> QED
    BY <1>1, <2>1, <2>2 DEF ListInv
<1>9. (scanVma # None => WasMapped(scanAddr, scanVma))'
  BY <1>3 DEF FInv, TruthInv, scanVars
<1>10. ranges' = ranges /\ \A r \in ranges : r.end \in Nat
  BY <1>1 DEF lookupVars, LookupInv
<1> QED
  BY <1>1, <1>3, <1>6, <1>7, <1>8, <1>9, <1>10, ListsTrue

\* Other steps leave the lists alone, or give one list the mappings of another.
LEMMA QuietTrue ==
  ASSUME MInv, FInv,
         \/ UNCHANGED mmAt
         \/ /\ time' = time + 2
            /\ mmAt' = [t \in DOMAIN mmAt \cup {time'} |-> IF t = time' THEN mm' ELSE mmAt[t]],
         \A p \in Pid : \A m \in mmaps_over_time'[p] :
           m \in ModuleMaps \/ \E q \in Pid : m \in mmaps_over_time[q],
         ranges' = ranges,
         UNCHANGED <<scanAddr, scanVma>> \/ (scanVma # None => WasMapped(scanAddr, scanVma))'
  PROVE  FInv'
<1>1. HistoryInv /\ ListInv /\ LookupInv
  BY DEF MInv, MapInv
<1>2. /\ \A a, e : WasMapped(a, e) => WasMapped(a, e)'
      /\ \A s, u, e : IsTrue(s, u, e) => IsTrue(s, u, e)'
  BY <1>1, HistoryKept
<1>3. PICK new : new = [start |-> 0, end |-> 0, exe |-> Unmapped]
  OBVIOUS
<1>4. new.end \in Nat /\ new.exe = Unmapped
  BY <1>3
<1>5. IsTrue(new.start, new.end, new.exe)'
  BY <1>4, SpacesAssumption DEF IsTrue
<1>6. (scanVma # None => WasMapped(scanAddr, scanVma))'
  BY <1>2 DEF FInv, TruthInv
<1>7. \A r \in ranges : r.end \in Nat
  BY <1>1 DEF LookupInv
<1> QED
  BY <1>1, <1>2, <1>4, <1>5, <1>6, <1>7, ListsTrue

LEMMA MmapTrue ==
  ASSUME MInv, FInv, NEW p \in Pid, NEW start \in UserAddr, NEW last \in UserAddr, start <= last,
         \/ \E exe \in NewExe : MmapCalled(p, start, last + 1, exe)
         \/ \E done \in BOOLEAN : MunmapCalled(p, start, last + 1, done)
  PROVE  FInv'
<1>1. start \in Nat /\ last + 1 \in Nat /\ start < last + 1
      /\ \A a \in UserAddr : start <= a /\ a < last + 1 => a \in start .. (last + 1) - 1
  BY ConstantFacts
<1>2. ASSUME NEW exe \in NewExe, MmapCalled(p, start, last + 1, exe) PROVE FInv'
  <2>1. PICK maps : maps = [a \in UserAddr |-> IF a \in start .. (last + 1) - 1 THEN exe ELSE mm[p][a]]
    OBVIOUS
  <2>2. maps \in Maps
    BY <2>1, ConstantFacts DEF Maps, MInv, MapInv, HistoryInv
  <2>3. /\ MappedNow(p, maps) /\ Mmap(p, time', start, last + 1, exe) /\ UNCHANGED <<scanVars, lookupVars>>
    BY <1>2, <2>1 DEF MmapCalled
  <2>4. \A a \in UserAddr : start <= a /\ a < last + 1 => maps[a] = exe
    BY <1>1, <2>1
  <2> QED
    BY <1>1, <2>2, <2>3, <2>4, EventTrue
<1>3. ASSUME NEW done \in BOOLEAN, MunmapCalled(p, start, last + 1, done) PROVE FInv'
  <2>1. PICK maps : maps = [a \in UserAddr |-> IF done /\ a \in start .. (last + 1) - 1 THEN None ELSE mm[p][a]]
    OBVIOUS
  <2>2. maps \in Maps
    BY <2>1, ConstantFacts DEF Maps, MInv, MapInv, HistoryInv
  <2>3. /\ MappedNow(p, maps) /\ Mmap(p, time', start, last + 1, Unmapped) /\ UNCHANGED <<scanVars, lookupVars>>
    BY <1>3, <2>1 DEF MunmapCalled
  <2>4. Unmapped \notin Exe
    BY SpacesAssumption
  <2> QED
    BY <1>1, <2>2, <2>3, <2>4, EventTrue
<1> QED
  BY <1>2, <1>3

\* What the scan sends was mapped when it was read.
LEMMA ReadTrue == ASSUME MInv, FInv, ReadVma PROVE FInv'
<1>1. MapInv /\ IInv /\ HistoryInv
  BY DEF MInv, MapInv
<1>2. PICK a \in UserAddr : scanAddr' = a /\ scanVma' = mm[Scanned][a]
  BY DEF ReadVma
<1>3. UNCHANGED <<mmAt, mmaps_over_time, ranges>>
  BY DEF ReadVma, modelVars, lookupVars
<1>4. Scanned \in Pid
  BY <1>1 DEF ReadVma, IInv, Types, Scanned, IsTask
<1>5. WasMapped(scanAddr, scanVma)'
  <2>1. time \in DOMAIN mmAt /\ mmAt[time] = mm
    BY <1>1 DEF HistoryInv
  <2> QED
    BY <1>2, <1>3, <1>4, <2>1 DEF WasMapped
<1> QED
  BY <1>3, <1>5, QuietTrue

LEMMA SendTrue == ASSUME MInv, FInv, SendVma PROVE FInv'
<1>1. MapInv /\ IInv /\ HistoryInv /\ ListInv /\ LookupInv
  BY DEF MInv, MapInv
<1>2. PICK p, exe : p = Scanned /\ exe = scanVma
  OBVIOUS
<1>3. PICK addr \in UserAddr : addr = scanAddr
  BY <1>1 DEF MapInv, ScanTypes, SendVma
<1>4. /\ scanVma # None /\ scanVma' = None /\ UNCHANGED <<mm, ranges>>
      /\ time' = time + 2
      /\ mmAt' = [t \in DOMAIN mmAt \cup {time'} |-> IF t = time' THEN mm' ELSE mmAt[t]]
  BY DEF SendVma, lookupVars
<1>5. /\ \A a, e : WasMapped(a, e) => WasMapped(a, e)'
      /\ \A s, u, e : IsTrue(s, u, e) => IsTrue(s, u, e)'
  BY <1>1, <1>4, HistoryKept
<1>6. addr \in Nat /\ addr + 1 \in Nat /\ addr < addr + 1
  BY ConstantFacts
<1>7. PICK cut : cut = CutEnd(addr, addr + 1) /\ cut \in Nat /\ addr <= cut /\ cut <= addr + 1
  BY <1>6, CutEndFacts
<1>8. PICK new : new = [tsc |-> time', start |-> addr, end |-> cut, exe |-> exe]
  OBVIOUS
<1>9. new.end \in Nat /\ new.start = addr /\ new.end = cut /\ new.exe = exe
  BY <1>7, <1>8
<1>10. IsTrue(new.start, new.end, new.exe)'
  <2> SUFFICES ASSUME NEW a \in UserAddr, a = addr \/ (addr <= a /\ a < cut)
               PROVE  WasMapped(a, exe)'
    BY <1>9 DEF IsTrue
  <2>1. a = addr
    BY <1>6, <1>7, ConstantFacts
  <2>2. WasMapped(addr, exe)
    BY <1>2, <1>3, <1>4 DEF FInv, TruthInv
  <2> QED
    BY <1>5, <2>1, <2>2
<1>11. \A q \in Pid : \A m \in mmaps_over_time'[q] :
         m = new \/ m \in ModuleMaps \/ \E r \in Pid : m \in mmaps_over_time[r]
  <2>1. mmaps_over_time' = [mmaps_over_time EXCEPT ![p] =
          Inserted(IF Known(p) THEN mmaps_over_time[p] ELSE ModuleMaps, time', addr, addr + 1, exe)]
    BY <1>2, <1>3 DEF SendVma, InitMmap
  <2>2. \A list : \A m \in Inserted(list, time', addr, addr + 1, exe) : m = new \/ m \in list
    BY <1>7, <1>8 DEF Inserted
  <2>3. ASSUME NEW q \in Pid, NEW m \in mmaps_over_time'[q]
        PROVE  m = new \/ m \in ModuleMaps \/ \E r \in Pid : m \in mmaps_over_time[r]
    <3>1. CASE q # p
      BY <1>1, <2>1, <2>3, <3>1 DEF ListInv
    <3>2. CASE q = p /\ Known(p)
      BY <1>1, <2>1, <2>2, <2>3, <3>2 DEF ListInv
    <3>3. CASE q = p /\ ~Known(p)
      BY <1>1, <2>1, <2>2, <2>3, <3>3 DEF ListInv
    <3> QED
      BY <3>1, <3>2, <3>3
  <2> QED
    BY <2>3
<1>12. \A r \in ranges : r.end \in Nat
  BY <1>1 DEF LookupInv
<1> QED
  BY <1>1, <1>4, <1>5, <1>9, <1>10, <1>11, <1>12, ListsTrue

LEMMA OthersTrue ==
  ASSUME MInv, FInv,
         \/ SendModuleList \/ SendProcess \/ ScanDone \/ UNCHANGED vars
         \/ \E p \in Pid : Exec(p) \/ TaskForkFairWrapper(p) \/ BeginLookup(p)
         \/ \E p, q \in Pid : Fork(p, q)
  PROVE  FInv'
<1>1. MapInv /\ IInv /\ ListInv
  BY DEF MInv, MapInv
<1>2. CASE SendModuleList \/ ScanDone \/ UNCHANGED vars \/ \E p \in Pid : BeginLookup(p)
  <2>1. UNCHANGED <<mmAt, mmaps_over_time, ranges, scanAddr, scanVma>>
    BY <1>2 DEF SendModuleList, ScanDone, BeginLookup, vars, scanVars, modelVars, lookupVars
  <2> QED
    BY <2>1, QuietTrue
<1>3. CASE SendProcess
  <2>1. UNCHANGED <<mmAt, ranges, scanVma>> /\ scanVma = None /\ None = None
        /\ mmaps_over_time' = [mmaps_over_time EXCEPT ![Scanned] = IF Known(Scanned) THEN @ ELSE ModuleMaps]
    BY <1>3 DEF SendProcess, InitProcess, lookupVars
  <2>2. \A q \in Pid : \A m \in mmaps_over_time'[q] :
          m \in ModuleMaps \/ \E r \in Pid : m \in mmaps_over_time[r]
    BY <1>1, <2>1 DEF ListInv
  <2> QED
    BY <2>1, <2>2, QuietTrue
<1>4. ASSUME NEW p \in Pid, Exec(p) PROVE FInv'
  <2>1. /\ UNCHANGED <<mmaps_over_time, ranges, scanAddr, scanVma>> /\ time' = time + 2
        /\ mmAt' = [t \in DOMAIN mmAt \cup {time'} |-> IF t = time' THEN mm' ELSE mmAt[t]]
    BY <1>4 DEF Exec, MappedNow, scanVars, modelVars, lookupVars
  <2> QED
    BY <2>1, QuietTrue
<1>5. ASSUME NEW p \in Pid, NEW q \in Pid, Fork(p, q) PROVE FInv'
  <2>1. /\ UNCHANGED <<mmaps_over_time, ranges, scanAddr, scanVma>> /\ time' = time + 2
        /\ mmAt' = [t \in DOMAIN mmAt \cup {time'} |-> IF t = time' THEN mm' ELSE mmAt[t]]
    BY <1>5 DEF Fork, MappedNow, scanVars, modelVars, lookupVars
  <2> QED
    BY <2>1, QuietTrue
<1>6. ASSUME NEW p \in Pid, TaskForkFairWrapper(p) PROVE FInv'
  <2>1. /\ UNCHANGED <<ranges, scanAddr, scanVma>> /\ time' = time + 2
        /\ mmAt' = [t \in DOMAIN mmAt \cup {time'} |-> IF t = time' THEN mm' ELSE mmAt[t]]
    BY <1>6 DEF TaskForkFairWrapper, scanVars, lookupVars
  <2>2. \/ mmaps_over_time' = mmaps_over_time
        \/ mmaps_over_time' = [mmaps_over_time EXCEPT ![child[p]] = mmaps_over_time[p]]
    BY <1>6 DEF TaskForkFairWrapper, ForkProcess, modelVars
  <2>3. \A q \in Pid : \A m \in mmaps_over_time'[q] : \E r \in Pid : m \in mmaps_over_time[r]
    BY <1>1, <2>2 DEF ListInv
  <2> QED
    BY <2>1, <2>3, QuietTrue
<1> QED
  BY <1>2, <1>3, <1>4, <1>5, <1>6

\* Whatever insert_hole leaves is a part of what was there.
LEMMA LookupTrue == ASSUME MInv, FInv, NEW tsc \in scanEnd + 1 .. time + 1, GetMmap(tsc) PROVE FInv'
<1>1. MapInv /\ IInv /\ HistoryInv /\ ListInv /\ LookupInv /\ phase = "lookup"
      /\ UNCHANGED <<mmAt, mmaps_over_time, scanAddr, scanVma>>
  BY DEF MInv, MapInv, GetMmap, scanVars, modelVars
<1>2. PICK n \in Nat : EndsAt(n)
  BY DEF FInv
<1>3. PICK list : list = mmaps_over_time[the_process] /\ Mappings(list) /\ the_process \in Pid
  BY <1>1 DEF LookupInv, IInv, Types, ListInv, ListOk
<1>4. tsc \in Nat
  BY <1>1 DEF HistoryInv
<1> DEFINE ids == {r.id : r \in ranges} \cup {m.exe : m \in list}
           G == {r \in [start : Nat, end : Nat, id : ids] : IsTrue(r.start, r.end, r.id) /\ r.end <= n}
           before == [ranges |-> ranges, straight |-> straight]
<1>5. \A m \in list : Range(m.start, m.end, m.exe) \in G
  BY <1>2, <1>3 DEF Range, Mappings, FInv, TruthInv, EndsAt
<1>6. ASSUME NEW r \in G, NEW start \in Nat, NEW end \in Nat, Meets(r, start, end), NEW s \in Left(r, start, end)
      PROVE  s \in G
  <2>1. r.start \in Nat /\ r.end \in Nat /\ r.id \in ids /\ IsTrue(r.start, r.end, r.id) /\ r.end <= n
    OBVIOUS
  <2>2. /\ s = Range(s.start, s.end, r.id) /\ s.start \in Nat /\ s.end \in Nat
        /\ r.start <= s.start /\ s.start < r.end /\ s.end <= r.end /\ s.id = r.id
    BY <1>6, <2>1 DEF Left, Meets, Range
  <2>3. IsTrue(s.start, s.end, s.id)
    BY <2>1, <2>2, ConstantFacts DEF IsTrue
  <2>4. s.end <= n
    BY <2>1, <2>2
  <2> HIDE DEF ids
  <2> QED
    BY <2>1, <2>2, <2>3, <2>4 DEF Range
<1>7. \A r \in ranges : r \in G
  <2> SUFFICES ASSUME NEW r \in ranges PROVE r \in G
    OBVIOUS
  <2>1. /\ r = Range(r.start, r.end, r.id) /\ r.start \in Nat /\ r.end \in Nat /\ r.id \in ids
        /\ IsTrue(r.start, r.end, r.id) /\ r.end <= n
    BY <1>1, <1>2 DEF LookupInv, FInv, TruthInv, EndsAt
  <2> HIDE DEF ids
  <2> QED
    BY <2>1 DEF Range
<1>8. \A r \in G : IsTrue(r.start, r.end, r.id) /\ r.end <= n
  OBVIOUS
<1> HIDE DEF G
<1>9. Within(G)
  BY <1>3, <1>5, <1>6 DEF Within
<1>10. before \in States(G)
  <2>1. PICK b \in BOOLEAN : b = straight
    BY <1>1 DEF LookupInv
  <2> QED
    BY <1>7, <2>1 DEF States
<1> HIDE DEF before
<1>11. ranges' \subseteq G
  <2>1. CASE InSlot(tsc)
    BY <1>7, <2>1 DEF GetMmap
  <2>2. CASE ~InSlot(tsc)
    <3>1. PICK after \in Rebuilt(before, tsc) : ranges' = after.ranges
      BY <2>2 DEF GetMmap, before
    <3>2. after \in States(G)
      BY <1>3, <1>4, <1>9, <1>10, <3>1, RebuiltWithin
    <3> QED
      BY <3>1, <3>2 DEF States
  <2> QED
    BY <2>1, <2>2
<1>12. \A start, end, exe : IsTrue(start, end, exe) => IsTrue(start, end, exe)'
  BY <1>1 DEF IsTrue, WasMapped
<1>13. TruthInv'
  BY <1>1, <1>8, <1>11, <1>12 DEF FInv, TruthInv, WasMapped
<1>14. EndsAt(n)'
  BY <1>1, <1>2, <1>8, <1>11 DEF EndsAt
<1> QED
  BY <1>13, <1>14 DEF FInv

\* One of the ranges that start at an address is the first, and one of those that
\* start before it is the last.
LEMMA FoundIsThere ==
  ASSUME NEW map, \A r \in map : r.start \in Nat /\ r.end \in Nat,
         NEW n \in Nat, \A r \in map : r.end <= n, NEW at \in Nat,
         FindRange(map, at) # None
  PROVE  \E r \in map : FindRange(map, at) = r.id /\ (r.start = at \/ (r.start < at /\ r.end > at))
<1> DEFINE here == {r \in map : r.start = at}
           before == {r \in map : r.start < at}
<1>1. CASE here # {}
  <2> DEFINE ends == {r.end : r \in here}
  <2>1. ends \subseteq Nat /\ ends # {}
    BY <1>1
  <2>2. PICK x \in ends : \A y \in ends : x <= y
    <3> HIDE DEF ends
    <3> QED
      BY <2>1, LeastElement
  <2>3. PICK r \in here : r.end = x
    OBVIOUS
  <2>4. \A s \in here : ~Before(s, r)
    BY <2>2, <2>3 DEF Before
  <2>5. Lowest(here) \in here
    <3> HIDE DEF here
    <3> QED
      BY <2>4 DEF Lowest
  <2>6. FindRange(map, at) = Lowest(here).id
    BY <1>1 DEF FindRange
  <2> HIDE DEF here
  <2>7. PICK l : l = Lowest(here) /\ l \in here
    BY <2>5
  <2> QED
    BY <2>6, <2>7 DEF here
<1>2. CASE here = {}
  <2>1. before # {} /\ Highest(before).end > at /\ FindRange(map, at) = Highest(before).id
    BY <1>2 DEF FindRange
  <2> DEFINE starts == {r.start : r \in before}
  <2>2. starts \subseteq Nat /\ starts # {} /\ \A x \in starts : x < at
    BY <2>1
  <2>3. PICK x \in starts : \A y \in starts : y <= x
    <3> HIDE DEF starts
    <3>1. PICK y \in starts : y < at
      BY <2>2
    <3>2. \E t \in starts : t < at /\ \A u \in starts : u < at => u <= t
      BY <2>2, <3>1, LastTime
    <3> QED
      BY <2>2, <3>2
  <2> DEFINE ends == {r.end : r \in {s \in before : s.start = x}}
  <2>4. ends \subseteq Nat /\ ends # {} /\ \A y \in ends : y < n + 1
    <3>1. PICK r \in before : r.start = x
      OBVIOUS
    <3> QED
      BY <3>1
  <2>5. PICK z \in ends : \A y \in ends : y <= z
    <3> HIDE DEF ends
    <3>1. PICK y \in ends : y < n + 1
      BY <2>4
    <3>2. n + 1 \in Nat
      OBVIOUS
    <3>3. \E t \in ends : t < n + 1 /\ \A u \in ends : u < n + 1 => u <= t
      BY <2>4, <3>1, <3>2, LastTime
    <3> QED
      BY <2>4, <3>3
  <2>6. PICK r \in before : r.start = x /\ r.end = z
    OBVIOUS
  <2>7. \A s \in before : s.start <= r.start /\ (s.start = r.start => s.end <= r.end)
    BY <2>3, <2>5, <2>6
  <2>8. \A s \in before : ~Before(r, s)
    BY <2>7 DEF Before
  <2>9. Highest(before) \in before
    <3> HIDE DEF before
    <3> QED
      BY <2>8 DEF Highest
  <2>10. PICK h : h = Highest(before) /\ h \in before
    BY <2>9
  <2> QED
    BY <2>1, <2>10
<1> QED
  BY <1>1, <1>2

\* No lookup finds an executable where no process ever had it: whatever insert_hole
\* leaves in, in any order of lookups, and of processes the collector was misled of
\* (range_map, mmappings::find).
THEOREM FoundOnlyMapped == Spec => []FoundWasMapped
<1>1. Init => FInv
  <2> SUFFICES ASSUME Init PROVE FInv
    OBVIOUS
  <2>1. /\ mmaps_over_time = [p \in Pid |-> {}] /\ ranges = {} /\ scanVma = None
    BY DEF Init
  <2> QED
    BY <2>1 DEF FInv, TruthInv, EndsAt
<1>2. MInv /\ FInv /\ [Next]_vars => FInv'
  <2> SUFFICES ASSUME MInv, FInv, [Next]_vars PROVE FInv'
    OBVIOUS
  <2>1. CASE ReadVma
    BY <2>1, ReadTrue
  <2>2. CASE SendVma
    BY <2>2, SendTrue
  <2>3. ASSUME NEW p \in Pid, NEW start \in UserAddr, NEW last \in UserAddr, start <= last,
               \/ \E exe \in NewExe : MmapCalled(p, start, last + 1, exe)
               \/ \E done \in BOOLEAN : MunmapCalled(p, start, last + 1, done)
        PROVE  FInv'
    BY <2>3, MmapTrue
  <2>4. ASSUME NEW tsc \in scanEnd + 1 .. time + 1, GetMmap(tsc) PROVE FInv'
    BY <2>4, LookupTrue
  <2>5. CASE \/ SendModuleList \/ SendProcess \/ ScanDone \/ UNCHANGED vars
             \/ \E p \in Pid : Exec(p) \/ TaskForkFairWrapper(p) \/ BeginLookup(p)
             \/ \E p, q \in Pid : Fork(p, q)
    BY <2>5, OthersTrue
  <2> QED
    BY <2>1, <2>2, <2>3, <2>4, <2>5 DEF Next
<1>3. MInv /\ FInv => FoundWasMapped
  <2> SUFFICES ASSUME MInv, FInv, NEW a \in UserAddr, FindRange(ranges, a) \in Exe
               PROVE  WasMapped(a, FindRange(ranges, a))
    BY DEF FoundWasMapped, WasMapped
  <2>1. (\A r \in ranges : r.start \in Nat /\ r.end \in Nat) /\ a \in Nat /\ FindRange(ranges, a) # None
    BY ConstantFacts DEF MInv, MapInv, LookupInv
  <2>2. PICK n \in Nat : \A r \in ranges : r.end <= n
    BY DEF FInv, EndsAt
  <2>3. PICK r \in ranges : FindRange(ranges, a) = r.id /\ (r.start = a \/ (r.start < a /\ r.end > a))
    BY <2>1, <2>2, FoundIsThere
  <2> QED
    BY <2>1, <2>3 DEF FInv, TruthInv, IsTrue
<1> QED
  BY <1>1, <1>2, <1>3, MapsInvariance, PTL DEF Spec
=============================================================================
