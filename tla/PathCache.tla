------------------------------ MODULE PathCache ------------------------------
(***************************************************************************)
(* caching_path_mapper of sat-ipt-model: processes look up the host path   *)
(* of a target path in a table of their own and in a cache file they       *)
(* share; the first to need a path has a helper program resolve it.  The   *)
(* others are meant to wait for it on a lock file of that path.            *)
(*                                                                         *)
(* open(), flock(), close() and unlink() on the lock file are one step     *)
(* each where another process can come between; the lock file's name and   *)
(* the inode behind it are told apart, for a name can be unlinked while    *)
(* its inode is locked.  The cache file is read and appended to under its  *)
(* own flock().                                                            *)
(***************************************************************************)
EXTENDS Integers, Sequences, FiniteSets

CONSTANTS
  Task,          \* the processes
  Target,        \* target paths
  Needs,         \* the paths each process comes to look up
  OnHost,        \* those for which the helper finds a host path
  Inode,         \* lock files, opened or not
  NoInode,
  NoTarget,
  MaxKills       \* bound: processes killed

ASSUME CacheAssumption ==
  /\ IsFiniteSet(Target)
  /\ Needs \in [Task -> SUBSET Target]
  /\ OnHost \subseteq Target
  /\ NoTarget \notin Target
  /\ NoInode \notin Inode
  /\ MaxKills \in Nat

VARIABLES
  cache,         \* lines of the cache file: a target path, is it on the host?
  cacheLock,     \* who has the cache file locked: nobody or one process
  name,          \* per target path, the inode its lock file's name leads to
  locked,        \* per inode, who has it locked: nobody or one process
  fd,            \* per process, the inode of its lock_fd
  ram,           \* ram_cache_ of each process
  step,          \* where in find_file each process is
  target,        \* target_path of its call
  kills          \* processes killed so far

fileVars == <<cache, cacheLock>>
lockVars == <<name, locked, fd>>
vars == <<fileVars, lockVars, ram, step, target, kills>>

\* What ram_cache_ knows of a path.
Unknown == [t \in Target |-> "unknown"]
Result(t) == IF t \in OnHost THEN "found" ELSE "missing"

Init ==
  /\ cache = <<>>
  /\ cacheLock = {}
  /\ name = [t \in Target |-> NoInode]
  /\ locked = [i \in Inode |-> {}]
  /\ fd = [p \in Task |-> NoInode]
  /\ ram = [p \in Task |-> Unknown]
  /\ step = [p \in Task |-> "ready"]
  /\ target = [p \in Task |-> NoTarget]
  /\ kills = 0

\* Process p goes from one place in its call to another.
Goes(p, from, to) == step[p] = from /\ step' = [step EXCEPT ![p] = to]

\* The call returns.
Returns(p) == target' = [target EXCEPT ![p] = NoTarget]

-----------------------------------------------------------------------------
\* Mutant: the cache file is not read again.
ReadNothing(p) == ram[p]

\* read_new_entries: what is known stays (map::insert).
ReadNewEntries(p) ==
  [t \in Target |->
     IF ram[p][t] # "unknown" THEN ram[p][t]
     ELSE IF \E i \in DOMAIN cache : cache[i].target = t
          THEN cache[CHOOSE i \in DOMAIN cache : cache[i].target = t].result
          ELSE "unknown"]

\* find_file of a path not in ram_cache_.  (With one that is there it returns
\* at once and changes nothing.)
FindFile(p, t) ==
  /\ Goes(p, "ready", "create")
  /\ ram[p][t] = "unknown"
  /\ target' = [target EXCEPT ![p] = t]
  /\ UNCHANGED <<fileVars, lockVars, ram, kills>>

\* An inode no name and no process refers to.
Unused(i) == (\A t \in Target : name[t] # i) /\ (\A p \in Task : fd[p] # i)

\* open(O_CREAT | O_EXCL) makes the lock file...
CreateLock(p) ==
  /\ Goes(p, "create", "own")
  /\ name[target[p]] = NoInode
  /\ \E i \in Inode : Unused(i)
  /\ LET i == CHOOSE i \in Inode : Unused(i)
     IN  /\ name' = [name EXCEPT ![target[p]] = i]
         /\ fd' = [fd EXCEPT ![p] = i]
  /\ UNCHANGED <<fileVars, locked, ram, target, kills>>

\* ... or finds it there,
LockExists(p) ==
  /\ Goes(p, "create", "open")
  /\ name[target[p]] # NoInode
  /\ UNCHANGED <<fileVars, lockVars, ram, target, kills>>

\* and opens it...
OpenLock(p) ==
  /\ Goes(p, "open", "wait")
  /\ name[target[p]] # NoInode
  /\ fd' = [fd EXCEPT ![p] = name[target[p]]]
  /\ UNCHANGED <<fileVars, name, locked, ram, target, kills>>

\* ... unless it has gone meanwhile.
OpenFails(p) ==
  /\ Goes(p, "open", "read")
  /\ name[target[p]] = NoInode
  /\ UNCHANGED <<fileVars, lockVars, ram, target, kills>>

\* Wait for the lock, drop it and close the file,
WaitForLock(p) ==
  /\ Goes(p, "wait", "remove")
  /\ locked[fd[p]] = {}
  /\ fd' = [fd EXCEPT ![p] = NoInode]
  /\ UNCHANGED <<fileVars, name, locked, ram, target, kills>>

\* unlink whatever the name now leads to.  Mutant: it is left there.
NameKept(t) == name
NameRemoved(t) == [name EXCEPT ![t] = NoInode]
RemoveLock(p) ==
  /\ Goes(p, "remove", "read")
  /\ name' = NameRemoved(target[p])
  /\ UNCHANGED <<fileVars, locked, fd, ram, target, kills>>

\* and return what the cache file says by now.
ReadCache(p) ==
  /\ Goes(p, "read", "ready")
  /\ cacheLock = {}
  /\ ram' = [ram EXCEPT ![p] = ReadNewEntries(p)]
  /\ Returns(p)
  /\ UNCHANGED <<fileVars, lockVars, kills>>

\* The one that made the lock file locks it,
LockOwn(p) ==
  /\ Goes(p, "own", "check")
  /\ locked[fd[p]] = {}
  /\ locked' = [locked EXCEPT ![fd[p]] = {p}]
  /\ UNCHANGED <<fileVars, name, fd, ram, target, kills>>

\* locks and reads the cache file,
CheckCache(p) ==
  LET known == ReadNewEntries(p)
  IN  /\ Goes(p, "check", IF known[target[p]] = "unknown" THEN "resolve" ELSE "release")
      /\ cacheLock = {}
      /\ cacheLock' = {p}
      /\ ram' = [ram EXCEPT ![p] = known]
      /\ UNCHANGED <<cache, lockVars, target, kills>>

\* Mutant: a path that is not on the host is remembered as found.
AlwaysFound(t) == "found"
\* Mutant: the helper's failure is not a result.
FailureForgotten(t) == IF t \in OnHost THEN "found" ELSE "unknown"
Resolved(t) == Result(t)

\* runs the helper if the path is new, and caches what it says;
Resolve(p) ==
  LET t == target[p]
  IN  /\ Goes(p, "resolve", "release")
      /\ ram' = [ram EXCEPT ![p][t] = Resolved(t)]
      /\ cache' = Append(cache, [target |-> t, result |-> Resolved(t)])
      /\ UNCHANGED <<cacheLock, lockVars, target, kills>>

\* Mutant: the cache file stays locked.
CacheLockKept == cacheLock
CacheUnlocked == {}

\* unlocks both files,
Release(p) ==
  /\ Goes(p, "release", "unlink")
  /\ cacheLock' = CacheUnlocked
  /\ locked' = [locked EXCEPT ![fd[p]] = {}]
  /\ fd' = [fd EXCEPT ![p] = NoInode]
  /\ UNCHANGED <<cache, name, ram, target, kills>>

\* and unlinks the name.
UnlinkLock(p) ==
  /\ Goes(p, "unlink", "ready")
  /\ name' = NameRemoved(target[p])
  /\ Returns(p)
  /\ UNCHANGED <<fileVars, locked, fd, ram, kills>>

\* A process killed: the system closes its files, a lock file stays.
Killed(p) ==
  /\ kills < MaxKills
  /\ step[p] # "gone"
  /\ kills' = kills + 1
  /\ step' = [step EXCEPT ![p] = "gone"]
  /\ cacheLock' = cacheLock \ {p}
  /\ locked' = [i \in Inode |-> locked[i] \ {p}]
  /\ fd' = [fd EXCEPT ![p] = NoInode]
  /\ ram' = [ram EXCEPT ![p] = Unknown]
  /\ Returns(p)
  /\ UNCHANGED <<cache, name>>

\* A step of a call in progress.
InCall(p) ==
  \/ CreateLock(p) \/ LockExists(p) \/ OpenLock(p) \/ OpenFails(p)
  \/ WaitForLock(p) \/ RemoveLock(p) \/ ReadCache(p)
  \/ LockOwn(p) \/ CheckCache(p) \/ Resolve(p) \/ Release(p) \/ UnlinkLock(p)

Next ==
  \E p \in Task :
    \/ \E t \in Needs[p] : FindFile(p, t)
    \/ InCall(p)
    \/ Killed(p)

Spec == Init /\ [][Next]_vars

\* The system schedules every process, and a lock that is free is granted.
FairSpec == Spec /\ \A p \in Task : WF_vars(InCall(p))

-----------------------------------------------------------------------------
(* Properties *)

TypeOK ==
  /\ cache \in Seq([target : Target, result : {"found", "missing"}])
  /\ cacheLock \in SUBSET Task
  /\ name \in [Target -> Inode \cup {NoInode}]
  /\ locked \in [Inode -> SUBSET Task]
  /\ fd \in [Task -> Inode \cup {NoInode}]
  /\ ram \in [Task -> [Target -> {"unknown", "found", "missing"}]]
  /\ step \in [Task -> {"ready", "create", "own", "open", "wait", "remove", "read",
                        "check", "resolve", "release", "unlink", "gone"}]
  /\ target \in [Task -> Target \cup {NoTarget}]
  /\ kills \in 0 .. MaxKills

\* The helper resolves a path once, whoever asks for it when and is killed
\* when: although two processes can hold "the" lock of one path, on inodes
\* unlinked under each other, no path is in the cache file twice.
ResolvedOnce ==
  \A i, j \in DOMAIN cache : cache[i].target = cache[j].target => i = j

\* What a process remembers of a path is in the cache file, and true.
RamIsCached ==
  \A p \in Task, t \in Target :
    ram[p][t] # "unknown" =>
      /\ ram[p][t] = Result(t)
      /\ \E i \in DOMAIN cache : cache[i] = [target |-> t, result |-> ram[p][t]]

\* A lock file is there only while a call for its path is, unless a process
\* was killed: nobody removes the name before its maker does, and then leaves
\* another behind.
LockFilesGo ==
  \A t \in Target :
    name[t] # NoInode => kills > 0 \/ \E p \in Task : target[p] = t

\* find_file returns, with locks of two kinds taken in turn by many and with
\* holders killed.
CallsReturn ==
  \A p \in Task : step[p] \notin {"ready", "gone"} ~> step[p] \in {"ready", "gone"}

\* "path resolution done; remove the lock": a process that has waited for the
\* lock of a path finds the path in the cache file.
WaitedForResolution ==
  \A p \in Task :
    step[p] = "remove" => \E i \in DOMAIN cache : cache[i].target = target[p]
=============================================================================
