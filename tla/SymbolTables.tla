---------------------------- MODULE SymbolTables ----------------------------
(***************************************************************************)
(* The files in which the processes of sat-ipt-model number the symbols    *)
(* and the executables they meet (sat-symbol-table-file.cpp,               *)
(* sat-ipt-model.cpp): .satsym, .satmod and .satmodh.  Every process keeps *)
(* its own table of what it has read or added; the file is read and        *)
(* appended to under flock(), and the id it gives is what the process      *)
(* prints into its model.                                                  *)
(*                                                                         *)
(* An insert is two steps: lock, read the others' entries and choose the   *)
(* id; flush the entry and unlock.  It does nothing when flock() fails.    *)
(* Symbols have no white space in them.                                    *)
(***************************************************************************)
EXTENDS Integers, Sequences, FiniteSets

CONSTANTS
  Task,          \* the traced tasks: one process each
  Name,          \* names of functions
  Target,        \* paths of executables on the target
  Host,          \* paths of executables on the host
  HostPath,      \* the host path of each target path (find_file)
  NoSymbol,      \* none of them
  Unlockable,    \* the files whose lock flock() may fail to give
  Leftover       \* host paths in .satmodh from an earlier processing, if any

ASSUME TablesAssumption ==
  /\ IsFiniteSet(Name \cup Target \cup Host)
  /\ Name \cap Target = {}
  /\ NoSymbol \notin Name \cup Target \cup Host
  /\ HostPath \in [Target -> Host]
  /\ Unlockable \subseteq {"symbols", "executables", "host_executables"}
  /\ Leftover \in Seq(Host)
  /\ \A i, j \in DOMAIN Leftover : Leftover[i] = Leftover[j] => i = j

Symbol == Name \cup Target \cup Host
File == {"symbols", "executables", "host_executables"}

Entry(i, s) == [id |-> i, symbol |-> s]

VARIABLES
  file,          \* the entries in each file
  lock,          \* who has each file locked: nobody or one process
  table,         \* table_ of each process and file: symbol to id, 0 if absent
  step,          \* where each process is
  call,          \* its insert in progress: file, symbol, id, is_new, and the
                 \* target path the host path is stored for
  printed        \* the ids in its model: of names and of executables; a 0
                 \* in the place of one (no lock) is not an id

vars == <<file, lock, table, step, call, printed>>

NoCall == [file |-> "symbols", symbol |-> NoSymbol, id |-> 0, is_new |-> FALSE,
           target |-> NoSymbol]

-----------------------------------------------------------------------------
EmptyTables == [k \in File |-> [s \in Symbol |-> 0]]

\* main empties .satsym and .satmod, not .satmodh.
Init ==
  /\ file = [k \in File |->
               IF k = "host_executables"
               THEN [i \in DOMAIN Leftover |-> Entry(i, Leftover[i])]
               ELSE <<>>]
  /\ lock = [k \in File |-> {}]
  /\ table = [t \in Task |-> EmptyTables]
  /\ step = [t \in Task |-> "ready"]
  /\ call = [t \in Task |-> NoCall]
  /\ printed = [t \in Task |-> {}]

\* The id of symbol s in the file, 0 if it is not there.
InFile(k, s) ==
  IF \E i \in DOMAIN file[k] : file[k][i].symbol = s
  THEN file[k][CHOOSE i \in DOMAIN file[k] : file[k][i].symbol = s].id
  ELSE 0

\* Mutant: the entries of the others are not read.
ReadNothing(t, k) == table[t][k]

\* read_new_entries: what is known keeps its id (map::insert).
ReadNewEntries(t, k) ==
  [s \in Symbol |-> IF table[t][k][s] # 0 THEN table[t][k][s] ELSE InFile(k, s)]

\* Mutant: ids start at 0.
NewIdFromZero(known) == Cardinality({s \in Symbol : known[s] # 0})

\* table_.size() + 1
NewId(known) == Cardinality({s \in Symbol : known[s] # 0}) + 1

\* Mutant: the insert does not wait for the lock.
AnyLock(k) == TRUE
CanLock(k) == lock[k] = {}

\* symbol_table_file::insert, up to the append: lock, read, find or add.
InsertLocked(t) ==
  LET k == call[t].file
      s == call[t].symbol
      known == ReadNewEntries(t, k)
  IN  /\ step[t] = "insert"
      /\ CanLock(k)
      /\ lock' = [lock EXCEPT ![k] = {t}]
      /\ IF known[s] # 0
         THEN /\ call' = [call EXCEPT ![t].id = known[s], ![t].is_new = FALSE]
              /\ table' = [table EXCEPT ![t][k] = known]
         ELSE /\ call' = [call EXCEPT ![t].id = NewId(known), ![t].is_new = TRUE]
              /\ table' = [table EXCEPT ![t][k] = [known EXCEPT ![s] = NewId(known)]]
      /\ step' = [step EXCEPT ![t] = "flush"]
      /\ UNCHANGED <<file, printed>>

\* A new executable's host path is stored as well, and the id is then that of
\* the host path's entry.
StoresHostPath(c) == c.file = "executables" /\ c.is_new

HostCall(c) ==
  [file |-> "host_executables", symbol |-> HostPath[c.symbol], id |-> 0,
   is_new |-> FALSE, target |-> c.symbol]

\* Its caller has insert c of process t done and goes on: to the host path, or
\* with the trace.
GoOn(t, c) ==
  IF StoresHostPath(c)
  THEN call' = [call EXCEPT ![t] = HostCall(c)] /\ step' = [step EXCEPT ![t] = "insert"]
  ELSE call' = [call EXCEPT ![t] = NoCall] /\ step' = [step EXCEPT ![t] = "ready"]

Prints(t, s, id) == printed' = [printed EXCEPT ![t] = @ \cup {Entry(id, s)}]

\* insert without the lock: nothing is read or stored, and the symbol is said
\* to be new, with id 0.
InsertFails(t) ==
  /\ step[t] = "insert"
  /\ call[t].file \in Unlockable
  /\ GoOn(t, [call[t] EXCEPT !.is_new = TRUE])
  /\ UNCHANGED <<file, lock, table, printed>>

\* ... fflush, unlock and return.
FlushAndUnlock(t) ==
  LET c == call[t]
  IN  /\ step[t] = "flush"
      /\ file' = [file EXCEPT ![c.file] =
                    IF c.is_new THEN Append(@, Entry(c.id, c.symbol)) ELSE @]
      /\ lock' = [lock EXCEPT ![c.file] = {}]
      /\ GoOn(t, c)
      /\ IF StoresHostPath(c)
         THEN UNCHANGED printed
         ELSE Prints(t, IF c.file = "host_executables" THEN c.target ELSE c.symbol, c.id)
      /\ UNCHANGED table

\* file_backed_symbol_table::get_new_id: from the own table, or insert.
GetNewId(t, k, s) ==
  /\ step[t] = "ready"
  /\ IF table[t][k][s] # 0
     THEN /\ Prints(t, s, table[t][k][s])
          /\ UNCHANGED <<step, call>>
     ELSE /\ call' = [call EXCEPT ![t] = [NoCall EXCEPT !.file = k, !.symbol = s]]
          /\ step' = [step EXCEPT ![t] = "insert"]
          /\ UNCHANGED printed
  /\ UNCHANGED <<file, lock, table>>

\* symbol_id: the function at which execution enters a stream of instructions.
SymbolId(t) == \E s \in Name : GetNewId(t, "symbols", s)

\* Execution enters another executable (execute_until_ipt_packet).
EnterExecutable(t) == \E s \in Target : GetNewId(t, "executables", s)

\* What flock() makes of a process that ends.  Mutant: a lock that stays.
LocksKept(t) == lock
LocksDropped(t) == [k \in File |-> lock[k] \ {t}]

\* The process ends and its memory is gone; an entry not flushed is lost.
Ends(t) ==
  /\ step' = [step EXCEPT ![t] = "gone"]
  /\ lock' = LocksDropped(t)
  /\ table' = [table EXCEPT ![t] = EmptyTables]
  /\ call' = [call EXCEPT ![t] = NoCall]
  /\ UNCHANGED <<file, printed>>

\* It has run its task.
Finish(t) == step[t] = "ready" /\ Ends(t)

\* It is killed in an insert.
Killed(t) == step[t] \in {"insert", "flush"} /\ Ends(t)

Next ==
  \E t \in Task :
    \/ SymbolId(t)
    \/ EnterExecutable(t)
    \/ InsertLocked(t)
    \/ InsertFails(t)
    \/ FlushAndUnlock(t)
    \/ Finish(t)
    \/ Killed(t)

Spec == Init /\ [][Next]_vars

-----------------------------------------------------------------------------
(* Properties *)

Id == 1 .. Cardinality(Symbol)

CallType ==
  [file : File, symbol : Symbol \cup {NoSymbol}, id : Id \cup {0}, is_new : BOOLEAN,
   target : Target \cup {NoSymbol}]

TypeOK ==
  /\ file \in [File -> Seq([id : Id, symbol : Symbol])]
  /\ lock \in [File -> SUBSET Task]
  /\ table \in [Task -> [File -> [Symbol -> Id \cup {0}]]]
  /\ step \in [Task -> {"ready", "insert", "flush", "gone"}]
  /\ call \in [Task -> CallType]
  /\ printed \in [Task -> SUBSET [id : Id, symbol : Symbol]]

\* However the processes interleave and wherever they are killed, a file
\* numbers its symbols 1, 2, 3... in the order of its lines and has none
\* twice: the readers of .satsym and .satmod take an id for one symbol.
UniqueIds ==
  \A k \in File :
    /\ \A i \in DOMAIN file[k] : file[k][i].id = i
    /\ \A i, j \in DOMAIN file[k] : file[k][i].symbol = file[k][j].symbol => i = j

\* What a process prints for a name is in .satsym by then, under that id, the
\* same in every process; what it prints for an executable is the id of its
\* target path or of its host path.
PrintedIsOnFile ==
  \A t \in Task : \A e \in printed[t] :
    IF e.symbol \in Name
    THEN e.id = InFile("symbols", e.symbol)
    ELSE \/ e.id = InFile("executables", e.symbol)
         \/ e.id = InFile("host_executables", HostPath[e.symbol])

\* "store the corresponding host path with id as well": the host path of an
\* executable has the executable's id, and so has its module in the model.
HostPathHasId ==
  \A t \in Task : \A e \in printed[t] :
    e.symbol \in Target => e.id = InFile("executables", e.symbol)

\* The symbols of a file, line by line.
Lines(k) == [i \in DOMAIN file[k] |-> file[k][i].symbol]

\* The registry of ids that each file is to its readers and writers.
SymbolIds == INSTANCE IdRegistry WITH given <- Lines("symbols")
ExecutableIds == INSTANCE IdRegistry WITH given <- Lines("executables")
HostIds == INSTANCE IdRegistry WITH given <- Lines("host_executables")

\* Each file implements a registry: ids are given once, in order, for good.
FilesAreRegistries == SymbolIds!Spec /\ ExecutableIds!Spec /\ HostIds!Spec
=============================================================================
