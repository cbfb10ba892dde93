--------------------------- MODULE PathCacheProofs ---------------------------
(***************************************************************************)
(* Proofs about PathCache, for any processes, paths, needs and kills.       *)
(*                                                                         *)
(* Nothing of it rests on the lock files: two processes may hold "the" lock *)
(* of a path.  What keeps a path from being resolved twice is the lock of   *)
(* the cache file, from the check of a path to its entry.                   *)
(***************************************************************************)
EXTENDS PathCache, TLAPS

\* The steps of the process that has made a lock file.
Owning == {"own", "check", "resolve", "release", "unlink"}

TargetsKnown ==
  \A p \in Task : step[p] \notin {"ready", "gone"} => target[p] \in Target

\* Who is between the check and the release has the cache file to itself,
CacheIsLocked ==
  \A p \in Task : step[p] \in {"resolve", "release"} => cacheLock = {p}

\* and what it is about to resolve is new.
ResolvesNew ==
  \A p \in Task :
    step[p] = "resolve" => \A i \in DOMAIN cache : cache[i].target # target[p]

CacheIsTrue ==
  \A i \in DOMAIN cache : cache[i].result = Result(cache[i].target)

\* A lock file has an owner that has yet to unlink it, or one was killed.
OwnerLeft ==
  \A t \in Target :
    name[t] # NoInode => kills > 0 \/ \E p \in Task : target[p] = t /\ step[p] \in Owning

CacheInv == CacheIsLocked /\ ResolvesNew /\ CacheIsTrue /\ ResolvedOnce /\ RamIsCached

IInv == TypeOK /\ TargetsKnown /\ CacheInv /\ OwnerLeft

-----------------------------------------------------------------------------
(* The initial states *)

LEMMA InitIInv == Init => IInv
<1> SUFFICES ASSUME Init PROVE IInv
  OBVIOUS
<1> USE CacheAssumption
<1>1. TypeOK
  BY DEF Init, TypeOK, Unknown
<1>2. TargetsKnown /\ OwnerLeft
  BY DEF Init, TargetsKnown, OwnerLeft
<1>3. CacheIsLocked /\ ResolvesNew /\ CacheIsTrue /\ ResolvedOnce
  BY DEF Init, CacheIsLocked, ResolvesNew, CacheIsTrue, ResolvedOnce
<1>4. RamIsCached
  BY DEF Init, RamIsCached, Unknown
<1>5. QED
  BY <1>1, <1>2, <1>3, <1>4 DEF IInv, CacheInv

LEMMA EntryInSet ==
  ASSUME NEW S, NEW s \in Seq(S), NEW i \in DOMAIN s
  PROVE  s[i] \in S
OBVIOUS

-----------------------------------------------------------------------------
(* What a process knows after it has read the cache file *)

\* Reading keeps the type, and what is known is on file and true.
LEMMA ReadingIsCached ==
  ASSUME TypeOK, CacheIsTrue, RamIsCached, NEW p \in Task
  PROVE  /\ ReadNewEntries(p) \in [Target -> {"unknown", "found", "missing"}]
         /\ \A t \in Target :
              ReadNewEntries(p)[t] # "unknown" =>
                /\ ReadNewEntries(p)[t] = Result(t)
                /\ \E i \in DOMAIN cache : cache[i] = [target |-> t, result |-> ReadNewEntries(p)[t]]
         /\ \A t \in Target :
              ReadNewEntries(p)[t] = "unknown" => \A i \in DOMAIN cache : cache[i].target # t
<1> DEFINE Known(t) == ReadNewEntries(p)[t]
<1>1. ASSUME NEW t \in Target
      PROVE  /\ Known(t) \in {"unknown", "found", "missing"}
             /\ Known(t) # "unknown" =>
                  /\ Known(t) = Result(t)
                  /\ \E i \in DOMAIN cache : cache[i] = [target |-> t, result |-> Known(t)]
             /\ Known(t) = "unknown" => \A i \in DOMAIN cache : cache[i].target # t
  <2>1. CASE ram[p][t] # "unknown"
    <3>1. Known(t) = ram[p][t]
      BY <2>1 DEF ReadNewEntries
    <3>2. QED
      BY <2>1, <3>1 DEF TypeOK, RamIsCached
  <2>2. CASE ram[p][t] = "unknown" /\ \E i \in DOMAIN cache : cache[i].target = t
    <3>1. PICK i \in DOMAIN cache :
            /\ cache[i].target = t
            /\ Known(t) = cache[i].result
      BY <2>2 DEF ReadNewEntries
    <3>2. cache[i] \in [target : Target, result : {"found", "missing"}]
      BY <3>1, EntryInSet DEF TypeOK
    <3>3. cache[i] = [target |-> t, result |-> Known(t)]
      BY <3>1, <3>2
    <3>4. Known(t) = Result(t) /\ Known(t) \in {"found", "missing"}
      BY <3>1, <3>2 DEF CacheIsTrue
    <3>5. QED
      BY <3>3, <3>4
  <2>3. CASE ram[p][t] = "unknown" /\ ~ \E i \in DOMAIN cache : cache[i].target = t
    BY <2>3 DEF ReadNewEntries
  <2>4. QED
    BY <2>1, <2>2, <2>3
<1>2. ReadNewEntries(p) = [t \in Target |-> Known(t)]
  BY DEF ReadNewEntries
<1>3. QED
  BY <1>1, <1>2

-----------------------------------------------------------------------------
(* Types and targets *)

LEMMA NextTypes ==
  ASSUME TypeOK, TargetsKnown, CacheIsTrue, RamIsCached, Next
  PROVE  TypeOK' /\ TargetsKnown'
<1> USE CacheAssumption DEF TypeOK
<1> PICK p \in Task : (\E t \in Needs[p] : FindFile(p, t)) \/ InCall(p) \/ Killed(p)
  BY DEF Next
<1>1. ASSUME NEW t \in Needs[p], FindFile(p, t)
      PROVE  TypeOK' /\ TargetsKnown'
  <2>1. t \in Target
    BY <1>1
  <2>2. QED
    BY <1>1, <2>1 DEF FindFile, Goes, fileVars, lockVars, TargetsKnown
<1>2. CASE CreateLock(p)
  <2> DEFINE i == CHOOSE i \in Inode : Unused(i)
  <2>1. i \in Inode
    BY <1>2 DEF CreateLock
  <2>2. /\ name' = [name EXCEPT ![target[p]] = i]
        /\ fd' = [fd EXCEPT ![p] = i]
        /\ step' = [step EXCEPT ![p] = "own"]
        /\ step[p] = "create"
        /\ UNCHANGED <<cache, cacheLock, locked, ram, target, kills>>
    BY <1>2 DEF CreateLock, Goes, fileVars
  <2> HIDE DEF i
  <2>3. QED
    BY <2>1, <2>2 DEF TargetsKnown
<1>3. CASE LockExists(p) \/ OpenFails(p)
  BY ZenonT(30), <1>3 DEF LockExists, OpenFails, Goes, fileVars, lockVars, TargetsKnown
<1>4. CASE OpenLock(p)
  BY <1>4 DEF OpenLock, Goes, fileVars, TargetsKnown
<1>5. CASE WaitForLock(p)
  BY <1>5 DEF WaitForLock, Goes, fileVars, TargetsKnown
<1>6. CASE RemoveLock(p)
  BY <1>6 DEF RemoveLock, NameRemoved, Goes, fileVars, TargetsKnown
<1>7. CASE ReadCache(p)
  BY <1>7, ReadingIsCached DEF ReadCache, Returns, Goes, fileVars, lockVars, TargetsKnown
<1>8. CASE LockOwn(p)
  BY <1>8 DEF LockOwn, Goes, fileVars, TargetsKnown
<1>9. CASE CheckCache(p)
  BY <1>9, ReadingIsCached DEF CheckCache, Goes, lockVars, TargetsKnown
<1>10. CASE Resolve(p)
  <2>1. target[p] \in Target /\ Resolved(target[p]) \in {"found", "missing"}
    BY <1>10 DEF Resolve, Goes, TargetsKnown, Resolved, Result
  <2> DEFINE entry == [target |-> target[p], result |-> Resolved(target[p])]
             Entries == [target : Target, result : {"found", "missing"}]
  <2>2. entry \in Entries
    BY <2>1
  <2>3. cache' \in Seq(Entries)
    <3>1. cache' = Append(cache, entry) /\ cache \in Seq(Entries)
      BY <1>10 DEF Resolve
    <3> HIDE DEF entry, Entries
    <3>2. QED
      BY <2>2, <3>1
  <2>4. QED
    BY <1>10, <2>1, <2>3 DEF Resolve, Goes, lockVars, TargetsKnown
<1>11. CASE Release(p)
  BY <1>11 DEF Release, CacheUnlocked, Goes, TargetsKnown
<1>12. CASE UnlinkLock(p)
  BY <1>12 DEF UnlinkLock, NameRemoved, Returns, Goes, fileVars, TargetsKnown
<1>13. CASE Killed(p)
  BY <1>13 DEF Killed, Returns, Unknown, TargetsKnown
<1>14. QED
  BY <1>1, <1>2, <1>3, <1>4, <1>5, <1>6, <1>7, <1>8, <1>9, <1>10, <1>11, <1>12, <1>13 DEF InCall

-----------------------------------------------------------------------------
(* The cache file *)

\* Steps that neither write the cache file nor learn from it.
LEMMA LockStepsKeepCache ==
  ASSUME CacheInv, NEW p \in Task,
         UNCHANGED <<cache, cacheLock, ram>>,
         step'[p] \notin {"resolve", "release"},
         \A q \in Task : q # p => step'[q] = step[q] /\ target'[q] = target[q]
  PROVE  CacheInv'
<1> USE DEF CacheInv
<1>1. CacheIsLocked'
  BY DEF CacheIsLocked
<1>2. ResolvesNew'
  BY DEF ResolvesNew
<1>3. CacheIsTrue' /\ ResolvedOnce' /\ RamIsCached'
  BY DEF CacheIsTrue, ResolvedOnce, RamIsCached, Result
<1>4. QED
  BY <1>1, <1>2, <1>3

LEMMA CheckKeepsCache ==
  ASSUME TypeOK, TargetsKnown, CacheInv, NEW p \in Task, CheckCache(p)
  PROVE  CacheInv'
<1> USE DEF CacheInv
<1>1. /\ ram' = [ram EXCEPT ![p] = ReadNewEntries(p)]
      /\ cache' = cache /\ target' = target /\ cacheLock = {} /\ cacheLock' = {p}
      /\ step[p] = "check" /\ target[p] \in Target
      /\ step' = [step EXCEPT ![p] = IF ReadNewEntries(p)[target[p]] = "unknown"
                                     THEN "resolve" ELSE "release"]
  BY DEF CheckCache, Goes, TargetsKnown
<1>2. CacheIsLocked'
  BY <1>1 DEF CacheIsLocked, TypeOK
<1>3. ResolvesNew'
  BY <1>1, ReadingIsCached DEF ResolvesNew, CacheIsLocked, TypeOK
<1>4. CacheIsTrue' /\ ResolvedOnce'
  BY <1>1 DEF CacheIsTrue, ResolvedOnce, Result
<1>5. RamIsCached'
  <2> SUFFICES ASSUME NEW q \in Task, NEW t \in Target, ram'[q][t] # "unknown"
               PROVE  /\ ram'[q][t] = Result(t)
                      /\ \E i \in DOMAIN cache : cache[i] = [target |-> t, result |-> ram'[q][t]]
    BY <1>1 DEF RamIsCached, Result
  <2>1. CASE q = p
    BY <1>1, <2>1, ReadingIsCached DEF TypeOK
  <2>2. CASE q # p
    BY <1>1, <2>2 DEF TypeOK, RamIsCached
  <2>3. QED
    BY <2>1, <2>2
<1>6. QED
  BY <1>2, <1>3, <1>4, <1>5

LEMMA ReadKeepsCache ==
  ASSUME TypeOK, CacheInv, NEW p \in Task, ReadCache(p)
  PROVE  CacheInv'
<1> USE DEF CacheInv
<1>1. /\ ram' = [ram EXCEPT ![p] = ReadNewEntries(p)]
      /\ cache' = cache /\ cacheLock' = cacheLock
      /\ target' = [target EXCEPT ![p] = NoTarget]
      /\ step' = [step EXCEPT ![p] = "ready"]
  BY DEF ReadCache, Goes, Returns, fileVars
<1>2. CacheIsLocked' /\ ResolvesNew'
  BY <1>1 DEF CacheIsLocked, ResolvesNew, TypeOK
<1>3. CacheIsTrue' /\ ResolvedOnce'
  BY <1>1 DEF CacheIsTrue, ResolvedOnce, Result
<1>4. RamIsCached'
  <2> SUFFICES ASSUME NEW q \in Task, NEW t \in Target, ram'[q][t] # "unknown"
               PROVE  /\ ram'[q][t] = Result(t)
                      /\ \E i \in DOMAIN cache : cache[i] = [target |-> t, result |-> ram'[q][t]]
    BY <1>1 DEF RamIsCached, Result
  <2>1. CASE q = p
    BY <1>1, <2>1, ReadingIsCached DEF TypeOK
  <2>2. CASE q # p
    BY <1>1, <2>2 DEF TypeOK, RamIsCached
  <2>3. QED
    BY <2>1, <2>2
<1>5. QED
  BY <1>2, <1>3, <1>4

\* The entry is new, for its path was, and nobody else is about to add one.
LEMMA ResolveKeepsCache ==
  ASSUME TypeOK, TargetsKnown, CacheInv, NEW p \in Task, Resolve(p)
  PROVE  CacheInv'
<1> USE DEF CacheInv
<1> DEFINE t == target[p]
           entry == [target |-> t, result |-> Result(t)]
<1>1. /\ step[p] = "resolve" /\ step' = [step EXCEPT ![p] = "release"]
      /\ ram' = [ram EXCEPT ![p][t] = Result(t)]
      /\ cache' = Append(cache, entry)
      /\ cacheLock' = cacheLock /\ target' = target
      /\ t \in Target
  BY DEF Resolve, Goes, Resolved, TargetsKnown
<1>2. cache \in Seq([target : Target, result : {"found", "missing"}])
  BY DEF TypeOK
<1>3. /\ DOMAIN cache' = DOMAIN cache \cup {Len(cache) + 1}
      /\ \A i \in DOMAIN cache : cache'[i] = cache[i] /\ i # Len(cache) + 1
      /\ cache'[Len(cache) + 1] = entry
  <2> DEFINE Entries == [target : Target, result : {"found", "missing"}]
  <2>1. cache \in Seq(Entries)
    BY <1>2
  <2> HIDE DEF entry, Entries
  <2>2. QED
    BY <1>1, <2>1
<1>4. \A i \in DOMAIN cache : cache[i].target # t
  BY <1>1 DEF ResolvesNew
<1>5. \A q \in Task : q # p => step[q] \notin {"resolve", "release"}
  BY <1>1 DEF CacheIsLocked
<1>6. CacheIsLocked' /\ ResolvesNew'
  BY <1>1, <1>5 DEF CacheIsLocked, ResolvesNew, TypeOK
<1>7. CacheIsTrue'
  BY <1>3 DEF CacheIsTrue, Result
<1>8. ResolvedOnce'
  BY <1>3, <1>4 DEF ResolvedOnce
<1>9. RamIsCached'
  <2> SUFFICES ASSUME NEW q \in Task, NEW u \in Target, ram'[q][u] # "unknown"
               PROVE  /\ ram'[q][u] = Result(u)
                      /\ \E i \in DOMAIN cache' : cache'[i] = [target |-> u, result |-> ram'[q][u]]
    BY DEF RamIsCached, Result
  <2>1. CASE q = p /\ u = t
    <3>1. ram'[q][u] = Result(t)
      BY <1>1, <2>1 DEF TypeOK
    <3>2. QED
      BY <1>3, <2>1, <3>1
  <2>2. CASE ~(q = p /\ u = t)
    <3>1. ram'[q][u] = ram[q][u]
      BY <1>1, <2>2 DEF TypeOK
    <3>2. QED
      BY <1>3, <3>1 DEF RamIsCached
  <2>3. QED
    BY <2>1, <2>2
<1>10. QED
  BY <1>6, <1>7, <1>8, <1>9

LEMMA ReleaseKeepsCache ==
  ASSUME TypeOK, CacheInv, NEW p \in Task, Release(p)
  PROVE  CacheInv'
<1> USE DEF CacheInv
<1>1. /\ cache' = cache /\ ram' = ram /\ target' = target
      /\ step[p] = "release" /\ step' = [step EXCEPT ![p] = "unlink"]
  BY DEF Release, Goes
<1>2. \A q \in Task : q # p => step[q] \notin {"resolve", "release"}
  BY <1>1 DEF CacheIsLocked
<1>3. CacheIsLocked' /\ ResolvesNew'
  BY <1>1, <1>2 DEF CacheIsLocked, ResolvesNew, TypeOK
<1>4. CacheIsTrue' /\ ResolvedOnce' /\ RamIsCached'
  BY <1>1 DEF CacheIsTrue, ResolvedOnce, RamIsCached, Result
<1>5. QED
  BY <1>3, <1>4

LEMMA KillKeepsCache ==
  ASSUME TypeOK, CacheInv, NEW p \in Task, Killed(p)
  PROVE  CacheInv'
<1> USE DEF CacheInv
<1>1. /\ cache' = cache /\ cacheLock' = cacheLock \ {p}
      /\ ram' = [ram EXCEPT ![p] = Unknown]
      /\ step' = [step EXCEPT ![p] = "gone"]
      /\ target' = [target EXCEPT ![p] = NoTarget]
  BY DEF Killed, Returns
<1>2. CacheIsLocked'
  BY <1>1 DEF CacheIsLocked, TypeOK
<1>3. ResolvesNew'
  BY <1>1 DEF ResolvesNew, TypeOK
<1>4. CacheIsTrue' /\ ResolvedOnce'
  BY <1>1 DEF CacheIsTrue, ResolvedOnce, Result
<1>5. RamIsCached'
  BY <1>1 DEF RamIsCached, Result, TypeOK, Unknown
<1>6. QED
  BY <1>2, <1>3, <1>4, <1>5

LEMMA NextCache ==
  ASSUME TypeOK, TargetsKnown, CacheInv, Next
  PROVE  CacheInv'
<1> PICK p \in Task : (\E t \in Needs[p] : FindFile(p, t)) \/ InCall(p) \/ Killed(p)
  BY DEF Next
<1>1. CASE \/ \E t \in Needs[p] : FindFile(p, t)
           \/ CreateLock(p) \/ LockExists(p) \/ OpenLock(p) \/ OpenFails(p) \/ WaitForLock(p)
           \/ RemoveLock(p) \/ LockOwn(p) \/ UnlinkLock(p)
  <2>1. UNCHANGED <<cache, cacheLock, ram>>
    BY <1>1 DEF FindFile, CreateLock, LockExists, OpenLock, OpenFails, WaitForLock, RemoveLock,
                LockOwn, UnlinkLock, fileVars
  <2>2. step'[p] \notin {"resolve", "release"} /\ \A q \in Task : q # p => step'[q] = step[q]
    BY <1>1 DEF FindFile, CreateLock, LockExists, OpenLock, OpenFails, WaitForLock, RemoveLock,
                LockOwn, UnlinkLock, Goes, TypeOK
  <2>3. \A q \in Task : q # p => target'[q] = target[q]
    BY <1>1 DEF FindFile, CreateLock, LockExists, OpenLock, OpenFails, WaitForLock, RemoveLock,
                LockOwn, UnlinkLock, Returns, TypeOK
  <2>4. QED
    BY <2>1, <2>2, <2>3, LockStepsKeepCache
<1>2. CASE ReadCache(p)
  BY <1>2, ReadKeepsCache
<1>3. CASE CheckCache(p)
  BY <1>3, CheckKeepsCache
<1>4. CASE Resolve(p)
  BY <1>4, ResolveKeepsCache
<1>5. CASE Release(p)
  BY <1>5, ReleaseKeepsCache
<1>6. CASE Killed(p)
  BY <1>6, KillKeepsCache
<1>7. QED
  BY <1>1, <1>2, <1>3, <1>4, <1>5, <1>6 DEF InCall

-----------------------------------------------------------------------------
(* Lock files *)

\* Their owner loses the name only with its file, or is killed.
LEMMA NextOwner ==
  ASSUME TypeOK, TargetsKnown, OwnerLeft, Next
  PROVE  OwnerLeft'
<1> USE DEF TypeOK, OwnerLeft, Owning
<1> PICK p \in Task : (\E t \in Needs[p] : FindFile(p, t)) \/ InCall(p) \/ Killed(p)
  BY DEF Next
<1>1. ASSUME NEW t \in Needs[p], FindFile(p, t)
      PROVE  OwnerLeft'
  BY <1>1 DEF FindFile, Goes, lockVars
<1>2. CASE CreateLock(p)
  <2>1. /\ \E i : name' = [name EXCEPT ![target[p]] = i]
        /\ step[p] = "create" /\ step' = [step EXCEPT ![p] = "own"]
        /\ target' = target /\ kills' = kills
    BY <1>2 DEF CreateLock, Goes
  <2>2. QED
    BY <2>1
<1>3. CASE LockExists(p) \/ OpenFails(p)
  BY <1>3 DEF LockExists, OpenFails, Goes, lockVars
<1>4. CASE OpenLock(p) \/ WaitForLock(p) \/ LockOwn(p)
  BY <1>4 DEF OpenLock, WaitForLock, LockOwn, Goes
<1>5. CASE RemoveLock(p)
  BY <1>5 DEF RemoveLock, NameRemoved, Goes
<1>6. CASE ReadCache(p)
  BY <1>6 DEF ReadCache, Returns, Goes, lockVars
<1>7. CASE CheckCache(p) \/ Resolve(p)
  BY <1>7 DEF CheckCache, Resolve, Goes, lockVars
<1>8. CASE Release(p)
  BY <1>8 DEF Release, Goes
<1>9. CASE UnlinkLock(p)
  BY <1>9 DEF UnlinkLock, NameRemoved, Returns, Goes
<1>10. CASE Killed(p)
  BY <1>10 DEF Killed
<1>11. QED
  BY <1>1, <1>2, <1>3, <1>4, <1>5, <1>6, <1>7, <1>8, <1>9, <1>10 DEF InCall

-----------------------------------------------------------------------------
(* The theorems *)

LEMMA StutterIInv ==
  ASSUME IInv, UNCHANGED vars
  PROVE  IInv'
BY DEF IInv, TypeOK, TargetsKnown, CacheInv, CacheIsLocked, ResolvesNew, CacheIsTrue,
       ResolvedOnce, RamIsCached, OwnerLeft, Result, vars, fileVars, lockVars

LEMMA NextIInv ==
  ASSUME IInv, [Next]_vars
  PROVE  IInv'
<1>1. CASE Next
  BY <1>1, NextTypes, NextCache, NextOwner DEF IInv, CacheInv
<1>2. CASE UNCHANGED vars
  BY <1>2, StutterIInv
<1>3. QED
  BY <1>1, <1>2

\* The inductive invariant.
THEOREM CacheInvariance == Spec => []IInv
<1>1. Init => IInv
  BY InitIInv
<1>2. IInv /\ [Next]_vars => IInv'
  BY NextIInv
<1>3. QED
  BY <1>1, <1>2, PTL DEF Spec

\* The variables keep their types.
THEOREM CacheTypes == Spec => []TypeOK
<1>1. IInv => TypeOK
  BY DEF IInv
<1>2. QED
  BY <1>1, CacheInvariance, PTL

\* However many processes ask for however many paths, and whoever is killed when,
\* no path is resolved twice: the helper is run by one process only.
THEOREM PathsResolvedOnce == Spec => []ResolvedOnce
<1>1. IInv => ResolvedOnce
  BY DEF IInv, CacheInv
<1>2. QED
  BY <1>1, CacheInvariance, PTL

\* What processes remember never differs from the cache file, nor from the truth.
THEOREM MemoryIsCached == Spec => []RamIsCached
<1>1. IInv => RamIsCached
  BY DEF IInv, CacheInv
<1>2. QED
  BY <1>1, CacheInvariance, PTL

\* Without a kill every lock file has a call in progress that will unlink it.
THEOREM LockFilesOwned == Spec => []LockFilesGo
<1>1. IInv => LockFilesGo
  BY DEF IInv, OwnerLeft, LockFilesGo
<1>2. QED
  BY <1>1, CacheInvariance, PTL
=============================================================================
