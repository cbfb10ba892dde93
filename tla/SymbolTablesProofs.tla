------------------------- MODULE SymbolTablesProofs -------------------------
(***************************************************************************)
(* Proofs about SymbolTables for any number of processes and symbols: the  *)
(* ids in a file are the numbers of its lines, no symbol has two, what is  *)
(* printed is on file, and every file implements a registry.               *)
(*                                                                         *)
(* At the end, ModelProcesses: main's pool of processes is one of the ways *)
(* SymbolTables can run, so all that is proved here holds of it; and main  *)
(* keeps its bound and leaves no process behind, for any number of tasks   *)
(* and any bound.                                                          *)
(***************************************************************************)
EXTENDS ModelProcesses, FiniteSetTheorems, TLAPS

\* Line n of file k is for symbol s.
OnFile(k, n, s) == n \in DOMAIN file[k] /\ file[k][n].symbol = s

\* The process that is about to flush and unlock a file has it locked.
LockInv == \A t \in Task : step[t] = "flush" => lock[call[t].file] = {t}

\* The insert in progress is one of the three the program makes.
CallInv ==
  \A t \in Task : step[t] \in {"insert", "flush"} =>
    /\ call[t].file = "symbols" => call[t].symbol \in Name
    /\ call[t].file = "executables" => call[t].symbol \in Target
    /\ call[t].file = "host_executables" =>
         call[t].target \in Target /\ call[t].symbol = HostPath[call[t].target]

\* The id chosen is that of the symbol's line, or of the line to be added.
FlushOK(t) ==
  LET k == call[t].file
  IN  IF call[t].is_new
      THEN /\ call[t].id = Len(file[k]) + 1
           /\ \A i \in DOMAIN file[k] : file[k][i].symbol # call[t].symbol
      ELSE OnFile(k, call[t].id, call[t].symbol)

FlushInv == \A t \in Task : step[t] = "flush" => FlushOK(t)

\* A process knows nothing that is not on file, but for the entry it is about
\* to flush.
Known(t, k, s, n) ==
  \/ OnFile(k, n, s)
  \/ /\ step[t] = "flush"
     /\ call[t].file = k
     /\ call[t].symbol = s
     /\ call[t].id = n
     /\ call[t].is_new

Sound(t, k, s) == table[t][k][s] # 0 => Known(t, k, s, table[t][k][s])

TableInv == \A t \in Task, k \in File, s \in Symbol : Sound(t, k, s)

PrintedInv ==
  \A t \in Task : \A e \in printed[t] :
    IF e.symbol \in Name
    THEN OnFile("symbols", e.id, e.symbol)
    ELSE /\ e.symbol \in Target
         /\ \/ OnFile("executables", e.id, e.symbol)
            \/ OnFile("host_executables", e.id, HostPath[e.symbol])

IInv ==
  TypeOK /\ UniqueIds /\ LockInv /\ CallInv /\ FlushInv /\ TableInv /\ PrintedInv

-----------------------------------------------------------------------------
(* Facts about the operators *)

\* There are finitely many symbols.
LEMMA SymbolsFinite ==
  /\ IsFiniteSet(Symbol)
  /\ Cardinality(Symbol) \in Nat
  /\ Name \subseteq Symbol
  /\ Target \subseteq Symbol
  /\ \A s \in Target : HostPath[s] \in Symbol
BY TablesAssumption, FS_CardinalityType DEF Symbol

\* The lines of a file.
LEMMA FileFacts ==
  ASSUME TypeOK, NEW k \in File
  PROVE  /\ file[k] \in Seq([id : Id, symbol : Symbol])
         /\ Len(file[k]) \in Nat
         /\ DOMAIN file[k] = 1 .. Len(file[k])
         /\ \A i \in DOMAIN file[k] :
              file[k][i] \in [id : Id, symbol : Symbol]
<1> DEFINE R == [id : Id, symbol : Symbol]
<1>1. file[k] \in Seq(R)
  BY DEF TypeOK
<1> HIDE DEF R
<1>2. /\ Len(file[k]) \in Nat
      /\ DOMAIN file[k] = 1 .. Len(file[k])
      /\ \A i \in DOMAIN file[k] : file[k][i] \in R
  BY <1>1
<1> QED
  BY <1>1, <1>2 DEF R

\* A symbol is found under the number of its line, if it has one.
LEMMA InFileFacts ==
  ASSUME TypeOK, UniqueIds, NEW k \in File, NEW s \in Symbol
  PROVE  /\ InFile(k, s) \in Id \cup {0}
         /\ InFile(k, s) # 0 => OnFile(k, InFile(k, s), s)
         /\ \A n : OnFile(k, n, s) => InFile(k, s) = n /\ n # 0
<1>1. CASE \E i \in DOMAIN file[k] : file[k][i].symbol = s
  <2> DEFINE i == CHOOSE i \in DOMAIN file[k] : file[k][i].symbol = s
  <2>1. i \in DOMAIN file[k] /\ file[k][i].symbol = s
    BY <1>1
  <2>2. InFile(k, s) = file[k][i].id
    BY <1>1 DEF InFile
  <2>3. file[k][i].id = i /\ file[k][i].id \in Id
    BY <2>1, FileFacts DEF UniqueIds
  <2>4. \A n : OnFile(k, n, s) => n = i
    BY <2>1 DEF UniqueIds, OnFile
  <2> HIDE DEF i
  <2>5. i # 0
    BY <2>1, FileFacts
  <2> QED
    BY <2>1, <2>2, <2>3, <2>4, <2>5 DEF OnFile
<1>2. CASE ~ \E i \in DOMAIN file[k] : file[k][i].symbol = s
  BY <1>2 DEF InFile, OnFile
<1> QED
  BY <1>1, <1>2

\* What a process that is not between insert and flush knows after reading
\* the new entries of a file is what the file says.
LEMMA ReadFacts ==
  ASSUME IInv, NEW t \in Task, NEW k \in File, step[t] # "flush"
  PROVE  /\ ReadNewEntries(t, k) \in [Symbol -> Id \cup {0}]
         /\ \A s \in Symbol :
              /\ ReadNewEntries(t, k)[s] # 0 => OnFile(k, ReadNewEntries(t, k)[s], s)
              /\ ReadNewEntries(t, k)[s] = 0 =>
                   \A i \in DOMAIN file[k] : file[k][i].symbol # s
<1>1. \A s \in Symbol : table[t][k][s] \in Id \cup {0}
  BY DEF IInv, TypeOK
<1>2. \A s \in Symbol :
        ReadNewEntries(t, k)[s] = IF table[t][k][s] # 0 THEN table[t][k][s] ELSE InFile(k, s)
  BY DEF ReadNewEntries
<1>3. ReadNewEntries(t, k) \in [Symbol -> Id \cup {0}]
  BY <1>1, InFileFacts DEF ReadNewEntries, IInv
<1>4. ASSUME NEW s \in Symbol, ReadNewEntries(t, k)[s] # 0
      PROVE  OnFile(k, ReadNewEntries(t, k)[s], s)
  BY <1>2, <1>4, InFileFacts DEF IInv, TableInv, Sound, Known
<1>5. ASSUME NEW s \in Symbol, ReadNewEntries(t, k)[s] = 0,
             NEW i \in DOMAIN file[k], file[k][i].symbol = s
      PROVE  FALSE
  <2>1. InFile(k, s) = 0
    BY <1>2, <1>5
  <2>2. OnFile(k, i, s)
    BY <1>5 DEF OnFile
  <2> QED
    BY <2>1, <2>2, InFileFacts DEF IInv
<1> QED
  BY <1>3, <1>4, <1>5

\* table_.size() + 1 is the number of the next line, and it is an id.
LEMMA NewIdFacts ==
  ASSUME IInv, NEW t \in Task, NEW k \in File, step[t] # "flush",
         NEW s \in Symbol, ReadNewEntries(t, k)[s] = 0
  PROVE  /\ NewId(ReadNewEntries(t, k)) = Len(file[k]) + 1
         /\ NewId(ReadNewEntries(t, k)) \in Id
<1> DEFINE known == ReadNewEntries(t, k)
           K == {x \in Symbol : known[x] # 0}
           f == [i \in 1 .. Len(file[k]) |-> file[k][i].symbol]
<1>1. Len(file[k]) \in Nat /\ DOMAIN file[k] = 1 .. Len(file[k])
  BY FileFacts DEF IInv
<1>2. \A i \in 1 .. Len(file[k]) : f[i] \in K
  <2> SUFFICES ASSUME NEW i \in 1 .. Len(file[k]) PROVE f[i] \in K
    OBVIOUS
  <2>1. f[i] = file[k][i].symbol /\ f[i] \in Symbol
    BY <1>1, FileFacts DEF IInv
  <2>2. known[f[i]] # 0
    BY <1>1, <2>1, ReadFacts
  <2> QED
    BY <2>1, <2>2
<1>3. \A i, j \in 1 .. Len(file[k]) : f[i] = f[j] => i = j
  BY <1>1 DEF IInv, UniqueIds
<1>4. \A x \in K : \E i \in 1 .. Len(file[k]) : f[i] = x
  BY <1>1, ReadFacts DEF OnFile
<1>5. f \in Bijection(1 .. Len(file[k]), K)
  <2> HIDE DEF K
  <2>1. f \in [1 .. Len(file[k]) -> K]
    BY <1>2
  <2> HIDE DEF f
  <2> QED
    BY <1>3, <1>4, <2>1 DEF Bijection, Injection, Surjection, IsInjective
<1>6. IsFiniteSet(K) /\ Cardinality(K) = Len(file[k])
  <2>1. IsFiniteSet(1 .. Len(file[k])) /\ Cardinality(1 .. Len(file[k])) = Len(file[k])
    BY <1>1, FS_Interval
  <2>2. ExistsBijection(1 .. Len(file[k]), K)
    BY <1>5 DEF ExistsBijection
  <2> HIDE DEF K
  <2> QED
    BY <2>1, <2>2, FS_Bijection
<1>7. Cardinality(K) <= Cardinality(Symbol \ {s})
  <2>1. K \subseteq Symbol \ {s}
    OBVIOUS
  <2>2. IsFiniteSet(Symbol \ {s})
    BY SymbolsFinite, FS_RemoveElement
  <2> HIDE DEF K
  <2> QED
    BY <2>1, <2>2, FS_Subset
<1>8. Cardinality(Symbol \ {s}) = Cardinality(Symbol) - 1
  BY SymbolsFinite, FS_RemoveElement
<1>9. NewId(known) = Cardinality(K) + 1
  BY DEF NewId
<1> HIDE DEF K, known, f
<1>10. NewId(known) = Len(file[k]) + 1 /\ NewId(known) \in Id
  BY <1>1, <1>6, <1>7, <1>8, <1>9, SymbolsFinite DEF Id
<1> QED
  BY <1>10 DEF known

-----------------------------------------------------------------------------
(* The invariant is inductive *)

\* It holds of empty files, and of a .satmodh left by an earlier processing.
LEMMA InitInv == Init => IInv
<1> SUFFICES ASSUME Init PROVE IInv
  OBVIOUS
<1>1. \A i \in DOMAIN Leftover : i \in Id /\ Leftover[i] \in Symbol
  <2> DEFINE f == [i \in 1 .. Len(Leftover) |-> Leftover[i]]
  <2>1. /\ Len(Leftover) \in Nat
        /\ DOMAIN Leftover = 1 .. Len(Leftover)
        /\ \A i \in DOMAIN Leftover : Leftover[i] \in Host
    BY TablesAssumption
  <2>2. \A i \in DOMAIN Leftover : Leftover[i] \in Symbol
    BY <2>1 DEF Symbol
  <2>3. f \in Injection(1 .. Len(Leftover), Symbol)
    <3>1. f \in [1 .. Len(Leftover) -> Symbol]
      BY <2>1, <2>2
    <3>2. \A i, j \in 1 .. Len(Leftover) : f[i] = f[j] => i = j
      BY <2>1, TablesAssumption
    <3> HIDE DEF f
    <3> QED
      BY <3>1, <3>2 DEF Injection, IsInjective
  <2>4. Cardinality(1 .. Len(Leftover)) <= Cardinality(Symbol)
    <3> HIDE DEF f
    <3> QED
      BY <2>3, SymbolsFinite, FS_Injection
  <2>5. Cardinality(1 .. Len(Leftover)) = Len(Leftover)
    BY <2>1, FS_Interval
  <2> QED
    BY <2>1, <2>2, <2>4, <2>5, SymbolsFinite DEF Id
<1> DEFINE R == [id : Id, symbol : Symbol]
           L == [i \in DOMAIN Leftover |-> Entry(i, Leftover[i])]
<1>2. L \in Seq(R)
  <2>1. Len(Leftover) \in Nat /\ DOMAIN Leftover = 1 .. Len(Leftover)
    BY TablesAssumption
  <2>2. \A i \in DOMAIN Leftover : Entry(i, Leftover[i]) \in R
    BY <1>1 DEF Entry
  <2>3. L \in [1 .. Len(Leftover) -> R]
    BY <2>1, <2>2
  <2> HIDE DEF L, R
  <2> QED
    BY <2>1, <2>3
<1>3. \A k \in File : file[k] = IF k = "host_executables" THEN L ELSE <<>>
  BY DEF Init
<1>4. TypeOK
  <2>1. file \in [File -> Seq(R)]
    <3>1. <<>> \in Seq(R)
      OBVIOUS
    <3>2. \A k \in File : file[k] \in Seq(R)
      BY <1>2, <1>3, <3>1
    <3>3. file = [k \in File |-> file[k]]
      BY DEF Init
    <3> HIDE DEF L, R
    <3> QED
      BY <3>2, <3>3
  <2>2. lock \in [File -> SUBSET Task]
    BY DEF Init
  <2>3. table \in [Task -> [File -> [Symbol -> Id \cup {0}]]]
    BY DEF Init, EmptyTables
  <2>4. call \in [Task -> CallType]
    BY DEF Init, NoCall, CallType, File
  <2>5. step \in [Task -> {"ready", "insert", "flush", "gone"}]
    BY DEF Init
  <2>6. printed \in [Task -> SUBSET R]
    BY DEF Init
  <2> QED
    BY <2>1, <2>2, <2>3, <2>4, <2>5, <2>6 DEF TypeOK
<1>5. UniqueIds
  <2> SUFFICES ASSUME NEW k \in File
               PROVE  /\ \A i \in DOMAIN file[k] : file[k][i].id = i
                      /\ \A i, j \in DOMAIN file[k] :
                           file[k][i].symbol = file[k][j].symbol => i = j
    BY DEF UniqueIds
  <2>1. CASE k = "host_executables"
    <3>1. /\ file[k] = L
          /\ DOMAIN L = DOMAIN Leftover
          /\ \A i \in DOMAIN L : L[i].id = i /\ L[i].symbol = Leftover[i]
      BY <1>3, <2>1 DEF Entry
    <3> HIDE DEF L
    <3> QED
      BY <3>1, TablesAssumption
  <2>2. CASE k # "host_executables"
    <3>1. file[k] = <<>>
      BY <1>3, <2>2
    <3> QED
      BY <3>1
  <2> QED
    BY <2>1, <2>2
<1>6. LockInv /\ CallInv /\ FlushInv
  BY DEF Init, LockInv, CallInv, FlushInv
<1>7. TableInv /\ PrintedInv
  BY DEF Init, EmptyTables, TableInv, Sound, PrintedInv
<1> QED
  BY <1>4, <1>5, <1>6, <1>7 DEF IInv

\* What a process inserts is a symbol.
LEMMA CallFacts ==
  ASSUME IInv, NEW t \in Task, step[t] \in {"insert", "flush"}
  PROVE  call[t].file \in File /\ call[t].symbol \in Symbol
<1>1. call[t].file \in File
  BY DEF IInv, TypeOK, CallType
<1> QED
  BY <1>1, SymbolsFinite DEF IInv, CallInv, File

\* insert up to the append.
LEMMA InsertLockedInv ==
  ASSUME IInv, NEW t \in Task, InsertLocked(t)
  PROVE  IInv'
<1> DEFINE k == call[t].file
           s == call[t].symbol
           known == ReadNewEntries(t, k)
           new == known[s] = 0
           id == IF new THEN NewId(known) ELSE known[s]
<1>1. k \in File /\ s \in Symbol /\ step[t] = "insert"
  BY CallFacts DEF InsertLocked
<1>2. /\ known \in [Symbol -> Id \cup {0}]
      /\ \A x \in Symbol :
           /\ known[x] # 0 => OnFile(k, known[x], x)
           /\ known[x] = 0 => \A i \in DOMAIN file[k] : file[k][i].symbol # x
  BY <1>1, ReadFacts
<1>3. new => id = Len(file[k]) + 1 /\ id \in Id
  BY <1>1, NewIdFacts
<1>4. id \in Id /\ id # 0
  <2>1. CASE new
    BY <1>3, <2>1, SymbolsFinite DEF Id
  <2>2. CASE ~new
    BY <1>1, <1>2, <2>2
  <2> QED
    BY <2>1, <2>2
<1>5. /\ lock[k] = {}
      /\ lock' = [lock EXCEPT ![k] = {t}]
      /\ step' = [step EXCEPT ![t] = "flush"]
      /\ call' = [call EXCEPT ![t].id = id, ![t].is_new = new]
      /\ table' = [table EXCEPT ![t][k] = [known EXCEPT ![s] = id]]
      /\ file' = file /\ printed' = printed
  <2>1. CASE new
    BY <2>1, <1>1, <1>2 DEF InsertLocked, CanLock
  <2>2. CASE ~new
    <3>1. [known EXCEPT ![s] = id] = known
      <4> HIDE DEF known
      <4> QED
        BY <1>1, <1>2, <2>2
    <3> QED
      BY <2>2, <3>1 DEF InsertLocked, CanLock
  <2> QED
    BY <2>1, <2>2
<1> HIDE DEF id, known
<1>6. /\ call'[t].file = k /\ call'[t].symbol = s /\ call'[t].id = id
      /\ call'[t].is_new = new /\ call'[t].target = call[t].target
      /\ call' \in [Task -> CallType]
      /\ \A u \in Task : u # t => call'[u] = call[u]
  <2>1. call \in [Task -> CallType]
    BY DEF IInv, TypeOK
  <2>2. new \in BOOLEAN
    OBVIOUS
  <2> HIDE DEF new, k, s
  <2>3. call'[t] = [call[t] EXCEPT !.id = id, !.is_new = new]
    BY <1>5, <2>1
  <2>4. call[t] \in CallType
    BY <2>1
  <2>5. call'[t] \in CallType
    BY <2>2, <2>3, <2>4, <1>4 DEF CallType
  <2>6. call'[t].id = id /\ call'[t].is_new = new /\ call'[t].target = call[t].target
        /\ call'[t].file = call[t].file /\ call'[t].symbol = call[t].symbol
    BY <2>3, <2>4 DEF CallType
  <2>7. call' = [call EXCEPT ![t] = [call[t] EXCEPT !.id = id, !.is_new = new]]
    BY <1>5, <2>1
  <2> QED
    BY <2>1, <2>3, <2>5, <2>6, <2>7 DEF k, s
<1>7. /\ step'[t] = "flush" /\ \A u \in Task : u # t => step'[u] = step[u]
      /\ lock'[k] = {t} /\ \A j \in File : j # k => lock'[j] = lock[j]
  BY <1>1, <1>5 DEF IInv, TypeOK
<1>8. /\ table'[t][k] = [known EXCEPT ![s] = id]
      /\ \A j \in File : j # k => table'[t][j] = table[t][j]
      /\ \A u \in Task : u # t => table'[u] = table[u]
  BY <1>1, <1>5 DEF IInv, TypeOK
<1>9. TypeOK'
  <2>1. table' \in [Task -> [File -> [Symbol -> Id \cup {0}]]]
    <3>1. [known EXCEPT ![s] = id] \in [Symbol -> Id \cup {0}]
      BY <1>1, <1>2, <1>4
    <3> HIDE DEF k, s
    <3> QED
      BY <1>1, <1>5, <3>1 DEF IInv, TypeOK
  <2>2. lock' \in [File -> SUBSET Task]
    BY <1>5, <1>1 DEF IInv, TypeOK
  <2>3. step' \in [Task -> {"ready", "insert", "flush", "gone"}]
    BY <1>5 DEF IInv, TypeOK
  <2> QED
    BY <1>5, <1>6, <2>1, <2>2, <2>3 DEF IInv, TypeOK
<1>10. UniqueIds' /\ PrintedInv'
  BY <1>5 DEF IInv, UniqueIds, PrintedInv, OnFile
<1>11. LockInv'
  <2> SUFFICES ASSUME NEW u \in Task, step'[u] = "flush"
               PROVE  lock'[call'[u].file] = {u}
    BY DEF LockInv
  <2>1. CASE u = t
    BY <1>6, <1>7, <2>1
  <2>2. CASE u # t
    <3>1. lock[call[u].file] = {u} /\ call[u].file \in File
      BY <2>2, <1>7, CallFacts DEF IInv, LockInv
    <3>2. call[u].file # k
      BY <1>5, <3>1
    <3> QED
      BY <1>6, <1>7, <2>2, <3>1, <3>2
  <2> QED
    BY <2>1, <2>2
<1>12. CallInv'
  <2> SUFFICES ASSUME NEW u \in Task, step'[u] \in {"insert", "flush"}
               PROVE  /\ call'[u].file = "symbols" => call'[u].symbol \in Name
                      /\ call'[u].file = "executables" => call'[u].symbol \in Target
                      /\ call'[u].file = "host_executables" =>
                           /\ call'[u].target \in Target
                           /\ call'[u].symbol = HostPath[call'[u].target]
    BY DEF CallInv
  <2>1. step[u] \in {"insert", "flush"}
    BY <1>1, <1>7
  <2>2. call'[u].file = call[u].file /\ call'[u].symbol = call[u].symbol
        /\ call'[u].target = call[u].target
    BY <1>6
  <2> QED
    BY <2>1, <2>2 DEF IInv, CallInv
<1>13. FlushInv'
  <2> SUFFICES ASSUME NEW u \in Task, step'[u] = "flush"
               PROVE  IF call'[u].is_new
                      THEN /\ call'[u].id = Len(file[call'[u].file]) + 1
                           /\ \A i \in DOMAIN file[call'[u].file] :
                                file[call'[u].file][i].symbol # call'[u].symbol
                      ELSE OnFile(call'[u].file, call'[u].id, call'[u].symbol)
    BY <1>5 DEF FlushInv, FlushOK, OnFile
  <2>1. CASE u = t
    <3>1. CASE new
      <4>1. call'[u].is_new
        BY <1>6, <2>1, <3>1
      <4>2. /\ call'[u].id = Len(file[call'[u].file]) + 1
            /\ \A i \in DOMAIN file[call'[u].file] :
                 file[call'[u].file][i].symbol # call'[u].symbol
        BY <1>1, <1>2, <1>3, <1>6, <2>1, <3>1
      <4> QED
        BY <4>1, <4>2, Zenon
    <3>2. CASE ~new
      <4>1. OnFile(k, id, s)
        BY <1>1, <1>2, <3>2 DEF id
      <4>2. ~call'[u].is_new
        BY <1>6, <2>1, <3>2
      <4>3. OnFile(call'[u].file, call'[u].id, call'[u].symbol)
        BY <1>6, <2>1, <4>1
      <4> QED
        BY <4>2, <4>3, Zenon
    <3> QED
      BY <3>1, <3>2
  <2>2. CASE u # t
    <3>1. step[u] = "flush" /\ call'[u] = call[u]
      BY <1>6, <1>7, <2>2
    <3>2. IF call[u].is_new
          THEN /\ call[u].id = Len(file[call[u].file]) + 1
               /\ \A i \in DOMAIN file[call[u].file] :
                    file[call[u].file][i].symbol # call[u].symbol
          ELSE OnFile(call[u].file, call[u].id, call[u].symbol)
      BY <3>1, Zenon DEF IInv, FlushInv, FlushOK
    <3> QED
      BY <3>1, <3>2, Zenon
  <2> QED
    BY <2>1, <2>2
<1>14. TableInv'
  <2> SUFFICES ASSUME NEW u \in Task, NEW j \in File, NEW x \in Symbol, table'[u][j][x] # 0
               PROVE  Known(u, j, x, table[u][j][x])'
    BY DEF TableInv, Sound
  <2>0. OnFile(j, table'[u][j][x], x) => Known(u, j, x, table[u][j][x])'
    BY <1>5 DEF Known, OnFile
  <2>1. CASE u # t
    <3>1. Sound(u, j, x) /\ table'[u] = table[u] /\ step'[u] = step[u] /\ call'[u] = call[u]
      BY <1>6, <1>7, <1>8, <2>1 DEF IInv, TableInv
    <3> QED
      BY <2>0, <3>1 DEF Sound, Known
  <2>2. CASE u = t /\ j # k
    <3>1. Sound(t, j, x) /\ table'[t][j] = table[t][j]
      BY <1>8, <2>2 DEF IInv, TableInv
    <3> QED
      BY <1>1, <2>0, <2>2, <3>1 DEF Sound, Known
  <2>3. CASE u = t /\ j = k /\ x # s
    BY <1>1, <1>2, <1>8, <2>0, <2>3
  <2>4. CASE u = t /\ j = k /\ x = s
    <3>1. table'[u][j][x] = id
      BY <1>1, <1>2, <1>8, <2>4
    <3>2. CASE new
      BY <1>6, <1>7, <2>4, <3>1, <3>2 DEF Known
    <3>3. CASE ~new
      <4>1. id = known[s]
        BY <3>3 DEF id
      <4> QED
        BY <1>1, <1>2, <2>0, <2>4, <3>1, <3>3, <4>1
    <3> QED
      BY <3>2, <3>3
  <2> QED
    BY <2>1, <2>2, <2>3, <2>4
<1> QED
  BY <1>9, <1>10, <1>11, <1>12, <1>13, <1>14 DEF IInv

\* Where process t is in its insert, and which one it is, matters to t alone:
\* with files, locks and tables unchanged only its own call is to be looked at.
LEMMA GetNewIdInv ==
  ASSUME IInv, NEW t \in Task,
         NEW k \in {"symbols", "executables"},
         NEW s \in IF k = "symbols" THEN Name ELSE Target,
         GetNewId(t, k, s)
  PROVE  IInv'
<1>1. step[t] = "ready" /\ file' = file /\ lock' = lock /\ table' = table
  BY DEF GetNewId
<1>2. k \in File /\ s \in Symbol
  BY SymbolsFinite DEF File
<1>3. CASE table[t][k][s] # 0
  <2>1. step' = step /\ call' = call /\ Prints(t, s, table[t][k][s])
    BY <1>3 DEF GetNewId
  <2>2. OnFile(k, table[t][k][s], s)
    BY <1>1, <1>2, <1>3 DEF IInv, TableInv, Sound, Known
  <2>3. Entry(table[t][k][s], s) \in [id : Id, symbol : Symbol]
    <3>1. table[t][k][s] \in Id
      BY <1>2, <1>3 DEF IInv, TypeOK
    <3> QED
      BY <1>2, <3>1 DEF Entry
  <2>4. printed' = [printed EXCEPT ![t] = @ \cup {Entry(table[t][k][s], s)}]
    BY <2>1 DEF Prints
  <2>5. TypeOK'
    <3>1. printed' \in [Task -> SUBSET [id : Id, symbol : Symbol]]
      BY <2>3, <2>4 DEF IInv, TypeOK
    <3> QED
      BY <1>1, <2>1, <3>1 DEF IInv, TypeOK
  <2>6. UniqueIds' /\ LockInv' /\ CallInv'
    BY <1>1, <2>1 DEF IInv, UniqueIds, LockInv, CallInv
  <2>7. FlushInv' /\ TableInv'
    BY <1>1, <2>1 DEF IInv, FlushInv, FlushOK, TableInv, Sound, Known, OnFile
  <2>8. PrintedInv'
    <3> SUFFICES ASSUME NEW u \in Task, NEW e \in printed'[u]
                 PROVE  IF e.symbol \in Name
                        THEN OnFile("symbols", e.id, e.symbol)
                        ELSE /\ e.symbol \in Target
                             /\ \/ OnFile("executables", e.id, e.symbol)
                                \/ OnFile("host_executables", e.id, HostPath[e.symbol])
      BY <1>1 DEF PrintedInv, OnFile
    <3>1. CASE e \in printed[u]
      BY <3>1 DEF IInv, PrintedInv
    <3>2. CASE e \notin printed[u]
      <4>1. e = Entry(table[t][k][s], s)
        BY <2>4, <3>2 DEF IInv, TypeOK
      <4>2. e.id = table[t][k][s] /\ e.symbol = s
        BY <4>1 DEF Entry
      <4> QED
        BY <2>2, <4>2, TablesAssumption
    <3> QED
      BY <3>1, <3>2
  <2> QED
    BY <2>5, <2>6, <2>7, <2>8 DEF IInv
<1>4. CASE table[t][k][s] = 0
  <2> DEFINE c == [NoCall EXCEPT !.file = k, !.symbol = s]
  <2>1. /\ step' = [step EXCEPT ![t] = "insert"]
        /\ call' = [call EXCEPT ![t] = c]
        /\ printed' = printed
    BY <1>4 DEF GetNewId
  <2>2. c \in CallType /\ c.file = k /\ c.symbol = s
    BY <1>2 DEF NoCall, CallType, File
  <2> HIDE DEF c
  <2>3. /\ step'[t] = "insert" /\ call'[t] = c
        /\ \A u \in Task : u # t => step'[u] = step[u] /\ call'[u] = call[u]
    BY <2>1 DEF IInv, TypeOK
  <2>4. TypeOK'
    BY <1>1, <2>1, <2>2 DEF IInv, TypeOK
  <2>5. UniqueIds' /\ LockInv' /\ PrintedInv'
    BY <1>1, <2>1, <2>3 DEF IInv, UniqueIds, LockInv, PrintedInv, OnFile
  <2>6. CallInv'
    BY <2>2, <2>3 DEF IInv, CallInv
  <2>7. FlushInv'
    <3>1. \A u \in Task : step'[u] = "flush" => step[u] = "flush" /\ call'[u] = call[u]
      BY <2>3
    <3> QED
      BY <1>1, <3>1 DEF IInv, FlushInv, FlushOK, OnFile
  <2>8. TableInv'
    BY <1>1, <2>3 DEF IInv, TableInv, Sound, Known, OnFile
  <2> QED
    BY <2>4, <2>5, <2>6, <2>7, <2>8 DEF IInv
<1> QED
  BY <1>3, <1>4

\* insert without the lock: only where the process is changes.
LEMMA InsertFailsInv ==
  ASSUME IInv, NEW t \in Task, InsertFails(t)
  PROVE  IInv'
<1> DEFINE c == [call[t] EXCEPT !.is_new = TRUE]
           on == IF StoresHostPath(c) THEN HostCall(c) ELSE NoCall
<1>1. /\ step[t] = "insert"
      /\ file' = file /\ lock' = lock /\ table' = table /\ printed' = printed
  BY DEF InsertFails
<1>2. call[t].file \in File /\ call[t].symbol \in Symbol /\ call[t] \in CallType
  BY <1>1, CallFacts DEF IInv, TypeOK
<1>3. c.file = call[t].file /\ c.symbol = call[t].symbol
  BY <1>2 DEF CallType
<1>4. StoresHostPath(c) => c.symbol \in Target
  BY <1>1, <1>3 DEF StoresHostPath, IInv, CallInv
<1>5. NoCall \in CallType
  BY DEF NoCall, CallType, File
<1>6. StoresHostPath(c) => HostCall(c) \in CallType
  BY <1>4, SymbolsFinite DEF HostCall, CallType, File
<1>7. /\ on \in CallType
      /\ StoresHostPath(c) => /\ on.file = "host_executables" /\ on.target \in Target
                              /\ on.symbol = HostPath[on.target]
  <2>1. StoresHostPath(c) => on = HostCall(c)
    OBVIOUS
  <2>2. ~StoresHostPath(c) => on = NoCall
    OBVIOUS
  <2>3. /\ HostCall(c).file = "host_executables" /\ HostCall(c).target = c.symbol
        /\ HostCall(c).symbol = HostPath[c.symbol]
    BY DEF HostCall
  <2> HIDE DEF on, c
  <2> QED
    BY <1>4, <1>5, <1>6, <2>1, <2>2, <2>3
<1> DEFINE next == IF StoresHostPath(c) THEN "insert" ELSE "ready"
<1>8. step' = [step EXCEPT ![t] = next] /\ call' = [call EXCEPT ![t] = on]
  BY DEF InsertFails, GoOn
<1>9. /\ step'[t] = next /\ next \in {"insert", "ready"} /\ call'[t] = on
      /\ next = "insert" => StoresHostPath(c)
      /\ \A u \in Task : u # t => step'[u] = step[u] /\ call'[u] = call[u]
  BY <1>8 DEF IInv, TypeOK
<1> HIDE DEF on, next, c
<1>10. TypeOK'
  BY <1>1, <1>7, <1>8, <1>9 DEF IInv, TypeOK
<1>11. UniqueIds' /\ LockInv' /\ PrintedInv'
  BY <1>1, <1>9 DEF IInv, UniqueIds, LockInv, PrintedInv, OnFile
<1>12. CallInv'
  <2> SUFFICES ASSUME NEW u \in Task, step'[u] \in {"insert", "flush"}
               PROVE  /\ call'[u].file = "symbols" => call'[u].symbol \in Name
                      /\ call'[u].file = "executables" => call'[u].symbol \in Target
                      /\ call'[u].file = "host_executables" =>
                           /\ call'[u].target \in Target
                           /\ call'[u].symbol = HostPath[call'[u].target]
    BY DEF CallInv
  <2>1. CASE u = t
    BY <1>7, <1>9, <2>1
  <2>2. CASE u # t
    BY <1>9, <2>2 DEF IInv, CallInv
  <2> QED
    BY <2>1, <2>2
<1>13. FlushInv'
  <2>1. \A u \in Task : step'[u] = "flush" => step[u] = "flush" /\ call'[u] = call[u]
    BY <1>9
  <2> QED
    BY <1>1, <2>1 DEF IInv, FlushInv, FlushOK, OnFile
<1>14. TableInv'
  BY <1>1, <1>9 DEF IInv, TableInv, Sound, Known, OnFile
<1> QED
  BY <1>10, <1>11, <1>12, <1>13, <1>14 DEF IInv

\* The end of a process, whatever it was doing: what it has not flushed is
\* nobody's.
LEMMA EndsInv ==
  ASSUME IInv, NEW t \in Task, Ends(t)
  PROVE  IInv'
<1>1. /\ file' = file /\ printed' = printed
      /\ step' = [step EXCEPT ![t] = "gone"]
      /\ lock' = [k \in File |-> lock[k] \ {t}]
      /\ table' = [table EXCEPT ![t] = EmptyTables]
      /\ call' = [call EXCEPT ![t] = NoCall]
  BY DEF Ends, LocksDropped
<1>2. /\ step'[t] = "gone"
      /\ table'[t] = EmptyTables
      /\ \A u \in Task :
           u # t => step'[u] = step[u] /\ call'[u] = call[u] /\ table'[u] = table[u]
  BY <1>1 DEF IInv, TypeOK
<1>3. TypeOK'
  <2>1. NoCall \in CallType
    BY DEF NoCall, CallType, File
  <2>2. call' \in [Task -> CallType]
    BY <1>1, <2>1 DEF IInv, TypeOK
  <2>3. EmptyTables \in [File -> [Symbol -> Id \cup {0}]]
    BY DEF EmptyTables
  <2>4. table' \in [Task -> [File -> [Symbol -> Id \cup {0}]]]
    BY <1>1, <2>3 DEF IInv, TypeOK
  <2>5. lock' \in [File -> SUBSET Task]
    BY <1>1 DEF IInv, TypeOK
  <2>6. step' \in [Task -> {"ready", "insert", "flush", "gone"}]
    BY <1>1 DEF IInv, TypeOK
  <2> QED
    BY <1>1, <2>2, <2>4, <2>5, <2>6 DEF IInv, TypeOK
<1>4. UniqueIds' /\ PrintedInv'
  BY <1>1 DEF IInv, UniqueIds, PrintedInv, OnFile
<1>5. LockInv'
  <2> SUFFICES ASSUME NEW u \in Task, step'[u] = "flush"
               PROVE  lock'[call'[u].file] = {u}
    BY DEF LockInv
  <2>1. u # t /\ step[u] = "flush" /\ call'[u] = call[u]
    BY <1>2
  <2>2. call[u].file \in File /\ lock[call[u].file] = {u}
    BY <2>1, CallFacts DEF IInv, LockInv
  <2> QED
    BY <1>1, <2>1, <2>2
<1>6. CallInv'
  BY <1>2 DEF IInv, CallInv
<1>7. FlushInv'
  BY SMTT(30), <1>1, <1>2 DEF IInv, FlushInv, FlushOK, OnFile
<1>8. TableInv'
  <2> SUFFICES ASSUME NEW u \in Task, NEW k \in File, NEW s \in Symbol, table'[u][k][s] # 0
               PROVE  Known(u, k, s, table[u][k][s])'
    BY DEF TableInv, Sound
  <2>1. u # t
    BY <1>2 DEF EmptyTables
  <2>2. Sound(u, k, s)
    BY DEF IInv, TableInv
  <2> QED
    BY <1>1, <1>2, <2>1, <2>2 DEF Sound, Known, OnFile
<1> QED
  BY <1>3, <1>4, <1>5, <1>6, <1>7, <1>8 DEF IInv

\* fflush, unlock and what follows: the file has one line more at most, and
\* nothing before it changes.
LEMMA FlushAndUnlockInv ==
  ASSUME IInv, NEW t \in Task, FlushAndUnlock(t)
  PROVE  IInv'
<1> DEFINE c == call[t]
           k == c.file
           R == [id : Id, symbol : Symbol]
           lines == IF c.is_new THEN Append(file[k], Entry(c.id, c.symbol)) ELSE file[k]
           host == [file |-> "host_executables", symbol |-> HostPath[c.symbol],
                    id |-> 0, is_new |-> FALSE, target |-> c.symbol]
           printedSymbol == IF k = "host_executables" THEN c.target ELSE c.symbol
<1>1. /\ step[t] = "flush"
      /\ k \in File /\ c.symbol \in Symbol /\ c \in CallType
      /\ c.id \in Id \cup {0} /\ c.is_new \in BOOLEAN
      /\ lock[k] = {t}
  <2>1. step[t] = "flush"
    BY DEF FlushAndUnlock
  <2>2. c \in CallType
    BY DEF IInv, TypeOK
  <2> QED
    BY <2>1, <2>2, CallFacts DEF IInv, LockInv, CallType
<1>2. /\ file' = [file EXCEPT ![k] = lines]
      /\ lock' = [lock EXCEPT ![k] = {}]
      /\ table' = table
  BY DEF FlushAndUnlock
<1>3. /\ file[k] \in Seq(R) /\ Len(file[k]) \in Nat
      /\ DOMAIN file[k] = 1 .. Len(file[k])
  BY <1>1, FileFacts DEF IInv
<1>4. /\ c.is_new =>
           /\ c.id = Len(file[k]) + 1
           /\ \A i \in DOMAIN file[k] : file[k][i].symbol # c.symbol
      /\ ~c.is_new => OnFile(k, c.id, c.symbol)
  BY <1>1, Zenon DEF IInv, FlushInv, FlushOK
<1>5. c.id \in Id
  <2>1. CASE c.is_new
    BY <1>1, <1>3, <1>4, <2>1
  <2>2. CASE ~c.is_new
    BY <1>1, <1>3, <1>4, <2>2 DEF OnFile
  <2> QED
    BY <2>1, <2>2
<1>6. /\ lines \in Seq(R)
      /\ \A i \in DOMAIN file[k] : i \in DOMAIN lines /\ lines[i] = file[k][i]
      /\ \A i \in DOMAIN lines \ DOMAIN file[k] :
           c.is_new /\ i = c.id /\ lines[i].id = c.id /\ lines[i].symbol = c.symbol
      /\ c.id \in DOMAIN lines /\ lines[c.id].symbol = c.symbol
  <2> DEFINE e == Entry(c.id, c.symbol)
  <2>1. e \in R /\ e.id = c.id /\ e.symbol = c.symbol
    BY <1>1, <1>5 DEF Entry
  <2>2. CASE c.is_new
    <3> HIDE DEF e, R
    <3>1. lines = Append(file[k], e)
      BY <2>2 DEF e
    <3> HIDE DEF lines, c, k
    <3> QED
      BY <1>3, <1>4, <2>1, <2>2, <3>1
  <2>3. CASE ~c.is_new
    BY <1>3, <1>4, <2>3 DEF OnFile
  <2> QED
    BY <2>2, <2>3, <1>1
<1>7. file'[k] = lines /\ \A j \in File : j # k => file'[j] = file[j]
  BY <1>1, <1>2 DEF IInv, TypeOK
<1> HIDE DEF lines, R
<1>8. \A n, s : \A j \in File : OnFile(j, n, s) => n \in DOMAIN file'[j] /\ file'[j][n].symbol = s
  BY <1>6, <1>7 DEF OnFile
<1>9. c.id \in DOMAIN file'[k] /\ file'[k][c.id].symbol = c.symbol
  BY <1>6, <1>7
<1>10. UniqueIds'
  <2> SUFFICES ASSUME NEW j \in File
               PROVE  /\ \A i \in DOMAIN file'[j] : file'[j][i].id = i
                      /\ \A m, i \in DOMAIN file'[j] :
                           file'[j][m].symbol = file'[j][i].symbol => m = i
    BY DEF UniqueIds
  <2>1. /\ \A i \in DOMAIN file[j] : file[j][i].id = i
        /\ \A m, i \in DOMAIN file[j] : file[j][m].symbol = file[j][i].symbol => m = i
    BY DEF IInv, UniqueIds
  <2>2. CASE j # k
    BY <1>7, <2>1, <2>2
  <2>3. CASE j = k
    BY <1>4, <1>6, <1>7, <2>1, <2>3
  <2> QED
    BY <2>2, <2>3
<1>11. \/ /\ StoresHostPath(c)
          /\ call' = [call EXCEPT ![t] = host]
          /\ step' = [step EXCEPT ![t] = "insert"]
          /\ printed' = printed
       \/ /\ ~StoresHostPath(c)
          /\ call' = [call EXCEPT ![t] = NoCall]
          /\ step' = [step EXCEPT ![t] = "ready"]
          /\ printed' = [printed EXCEPT ![t] = @ \cup {Entry(c.id, printedSymbol)}]
  BY DEF FlushAndUnlock, GoOn, HostCall, Prints
<1> HIDE DEF host
<1>12. StoresHostPath(c) =>
         /\ host \in CallType /\ c.symbol \in Target
         /\ host.file = "host_executables" /\ host.target = c.symbol
         /\ host.symbol = HostPath[c.symbol]
  <2> SUFFICES ASSUME StoresHostPath(c)
               PROVE  /\ host \in CallType /\ c.symbol \in Target
                      /\ host.file = "host_executables" /\ host.target = c.symbol
                      /\ host.symbol = HostPath[c.symbol]
    OBVIOUS
  <2>1. c.symbol \in Target
    BY <1>1 DEF StoresHostPath, IInv, CallInv
  <2> QED
    BY <2>1, SymbolsFinite DEF host, CallType, File
<1>13. /\ step'[t] \in {"insert", "ready"}
       /\ \A u \in Task : u # t => step'[u] = step[u] /\ call'[u] = call[u]
       /\ step' \in [Task -> {"ready", "insert", "flush", "gone"}]
       /\ call' \in [Task -> CallType]
  <2> DEFINE next == IF StoresHostPath(c) THEN "insert" ELSE "ready"
             nextCall == IF StoresHostPath(c) THEN host ELSE NoCall
  <2>1. NoCall \in CallType
    BY DEF NoCall, CallType, File
  <2>2. step' = [step EXCEPT ![t] = next] /\ call' = [call EXCEPT ![t] = nextCall]
    BY <1>11
  <2>3. next \in {"insert", "ready"} /\ nextCall \in CallType
    BY <1>12, <2>1
  <2> HIDE DEF next, nextCall
  <2> QED
    BY <2>2, <2>3 DEF IInv, TypeOK
<1>14. \/ printed' = printed
       \/ /\ printed' = [printed EXCEPT ![t] = @ \cup {Entry(c.id, printedSymbol)}]
          /\ printedSymbol \in Symbol
          /\ IF printedSymbol \in Name
             THEN k = "symbols" /\ printedSymbol = c.symbol
             ELSE /\ printedSymbol \in Target
                  /\ \/ k = "executables" /\ printedSymbol = c.symbol
                     \/ k = "host_executables" /\ HostPath[printedSymbol] = c.symbol
  <2>1. CASE k = "symbols"
    <3>1. c.symbol \in Name
      BY <1>1, <2>1 DEF IInv, CallInv
    <3> QED
      BY <1>1, <1>11, <2>1, <3>1
  <2>2. CASE k = "executables"
    <3>1. c.symbol \in Target /\ c.symbol \notin Name
      BY <1>1, <2>2, TablesAssumption DEF IInv, CallInv
    <3> QED
      BY <1>1, <1>11, <2>2, <3>1
  <2>3. CASE k = "host_executables"
    <3>1. c.target \in Target /\ c.target \notin Name /\ c.symbol = HostPath[c.target]
      BY <1>1, <2>3, TablesAssumption DEF IInv, CallInv
    <3> QED
      BY <1>1, <1>11, <2>3, <3>1, SymbolsFinite
  <2> QED
    BY <1>1, <2>1, <2>2, <2>3 DEF File
<1>15. TypeOK'
  <2>1. file' \in [File -> Seq([id : Id, symbol : Symbol])]
    BY <1>1, <1>2, <1>6 DEF IInv, TypeOK, R
  <2>2. lock' \in [File -> SUBSET Task]
    BY <1>2 DEF IInv, TypeOK
  <2>3. printed' \in [Task -> SUBSET [id : Id, symbol : Symbol]]
    <3>1. CASE printed' = printed
      BY <3>1 DEF IInv, TypeOK
    <3>2. CASE printed' # printed
      <4>1. Entry(c.id, printedSymbol) \in [id : Id, symbol : Symbol]
        BY <1>5, <1>14, <3>2 DEF Entry
      <4>2. printed' = [printed EXCEPT ![t] = @ \cup {Entry(c.id, printedSymbol)}]
        BY <1>14, <3>2
      <4> HIDE DEF c, printedSymbol
      <4> QED
        BY <4>1, <4>2 DEF IInv, TypeOK
    <3> QED
      BY <3>1, <3>2
  <2> QED
    BY <1>2, <1>13, <2>1, <2>2, <2>3 DEF IInv, TypeOK
<1>16. LockInv'
  <2> SUFFICES ASSUME NEW u \in Task, step'[u] = "flush"
               PROVE  lock'[call'[u].file] = {u}
    BY DEF LockInv
  <2>1. u # t /\ step[u] = "flush" /\ call'[u] = call[u]
    BY <1>13
  <2>2. call[u].file \in File /\ lock[call[u].file] = {u}
    BY <2>1, CallFacts DEF IInv, LockInv
  <2>3. call[u].file # k
    BY <1>1, <2>1, <2>2
  <2> QED
    BY <1>2, <2>1, <2>2, <2>3 DEF IInv, TypeOK
<1>17. CallInv'
  <2> SUFFICES ASSUME NEW u \in Task, step'[u] \in {"insert", "flush"}
               PROVE  /\ call'[u].file = "symbols" => call'[u].symbol \in Name
                      /\ call'[u].file = "executables" => call'[u].symbol \in Target
                      /\ call'[u].file = "host_executables" =>
                           /\ call'[u].target \in Target
                           /\ call'[u].symbol = HostPath[call'[u].target]
    BY DEF CallInv
  <2>1. CASE u # t
    BY <1>13, <2>1 DEF IInv, CallInv
  <2>2. CASE u = t
    <3>1. StoresHostPath(c) /\ call'[t] = host
      BY <1>11, <2>2 DEF IInv, TypeOK
    <3> QED
      BY <1>12, <2>2, <3>1
  <2> QED
    BY <2>1, <2>2
<1>18. FlushInv'
  <2> SUFFICES ASSUME NEW u \in Task, step'[u] = "flush" PROVE FlushOK(u)'
    BY DEF FlushInv
  <2>1. u # t /\ step[u] = "flush" /\ call'[u] = call[u]
    BY <1>13
  <2>2. call[u].file \in File /\ lock[call[u].file] = {u}
    BY <2>1, CallFacts DEF IInv, LockInv
  <2>3. call[u].file # k
    BY <1>1, <2>1, <2>2
  <2>4. file'[call[u].file] = file[call[u].file]
    BY <1>7, <2>2, <2>3
  <2>5. FlushOK(u)
    BY <2>1 DEF IInv, FlushInv
  <2> QED
    BY <2>1, <2>4, <2>5, Zenon DEF FlushOK, OnFile
<1>19. TableInv'
  <2> SUFFICES ASSUME NEW u \in Task, NEW j \in File, NEW s \in Symbol, table'[u][j][s] # 0
               PROVE  Known(u, j, s, table[u][j][s])'
    BY DEF TableInv, Sound
  <2>1. Known(u, j, s, table[u][j][s]) /\ table' = table
    BY <1>2 DEF IInv, TableInv, Sound
  <2>2. CASE OnFile(j, table[u][j][s], s)
    BY <1>8, <2>1, <2>2 DEF Known, OnFile
  <2>3. CASE ~OnFile(j, table[u][j][s], s) /\ u # t
    BY <1>13, <2>1, <2>3 DEF Known
  <2>4. CASE ~OnFile(j, table[u][j][s], s) /\ u = t
    <3>1. j = k /\ c.symbol = s /\ c.id = table[u][j][s]
      BY <2>1, <2>4 DEF Known
    <3> QED
      BY <1>9, <2>1, <3>1 DEF Known, OnFile
  <2> QED
    BY <2>2, <2>3, <2>4
<1>20. PrintedInv'
  <2> DEFINE Line(j, n, s) == n \in DOMAIN file'[j] /\ file'[j][n].symbol = s
  <2> SUFFICES ASSUME NEW u \in Task, NEW e \in printed'[u]
               PROVE  IF e.symbol \in Name
                      THEN Line("symbols", e.id, e.symbol)
                      ELSE /\ e.symbol \in Target
                           /\ \/ Line("executables", e.id, e.symbol)
                              \/ Line("host_executables", e.id, HostPath[e.symbol])
    BY DEF PrintedInv, OnFile
  <2>1. CASE e \in printed[u]
    <3>1. IF e.symbol \in Name
          THEN OnFile("symbols", e.id, e.symbol)
          ELSE /\ e.symbol \in Target
               /\ \/ OnFile("executables", e.id, e.symbol)
                  \/ OnFile("host_executables", e.id, HostPath[e.symbol])
      BY <2>1 DEF IInv, PrintedInv
    <3>2. \A n, s : \A j \in File : OnFile(j, n, s) => Line(j, n, s)
      BY <1>8
    <3> HIDE DEF Line
    <3> QED
      BY <3>1, <3>2 DEF File
  <2>2. CASE e \notin printed[u]
    <3>1. e = Entry(c.id, printedSymbol)
      <4>1. printed \in [Task -> SUBSET [id : Id, symbol : Symbol]]
        BY DEF IInv, TypeOK
      <4>2. printed' # printed
        BY <2>2
      <4>3. printed' = [printed EXCEPT ![t] = @ \cup {Entry(c.id, printedSymbol)}]
        BY <1>14, <4>2
      <4> HIDE DEF c, printedSymbol
      <4> QED
        BY <2>2, <4>1, <4>3
    <3>2. e.id = c.id /\ e.symbol = printedSymbol
      BY <3>1 DEF Entry
    <3>3. Line(k, c.id, c.symbol)
      BY <1>9
    <3>4. printed' # printed
      BY <2>2
    <3> HIDE DEF Line, c, printedSymbol
    <3> QED
      BY <1>14, <3>2, <3>3, <3>4
  <2> QED
    BY <2>1, <2>2
<1> QED
  BY <1>10, <1>15, <1>16, <1>17, <1>18, <1>19, <1>20 DEF IInv

-----------------------------------------------------------------------------
(* The theorems *)

\* Every step of a process keeps the invariant.
LEMMA StepInv == IInv /\ [Next]_vars => IInv'
<1> SUFFICES ASSUME IInv, [Next]_vars PROVE IInv'
  OBVIOUS
<1>1. ASSUME NEW t \in Task, SymbolId(t) PROVE IInv'
  <2>1. PICK s \in Name : GetNewId(t, "symbols", s)
    BY <1>1 DEF SymbolId
  <2> QED
    BY <2>1, GetNewIdInv
<1>2. ASSUME NEW t \in Task, EnterExecutable(t) PROVE IInv'
  <2>1. PICK s \in Target : GetNewId(t, "executables", s)
    BY <1>2 DEF EnterExecutable
  <2> QED
    BY <2>1, GetNewIdInv
<1>3. ASSUME NEW t \in Task, InsertLocked(t) PROVE IInv'
  BY <1>3, InsertLockedInv
<1>4. ASSUME NEW t \in Task, FlushAndUnlock(t) PROVE IInv'
  BY <1>4, FlushAndUnlockInv
<1>5. ASSUME NEW t \in Task, InsertFails(t) PROVE IInv'
  BY <1>5, InsertFailsInv
<1>6. ASSUME NEW t \in Task, Ends(t) PROVE IInv'
  BY <1>6, EndsInv
<1>7. CASE UNCHANGED vars
  <2>1. /\ file' = file /\ lock' = lock /\ table' = table /\ step' = step
        /\ call' = call /\ printed' = printed
    BY <1>7 DEF vars
  <2>2. TypeOK' /\ UniqueIds' /\ LockInv' /\ CallInv'
    BY <2>1 DEF IInv, TypeOK, UniqueIds, LockInv, CallInv
  <2>3. FlushInv' /\ PrintedInv'
    BY <2>1 DEF IInv, FlushInv, FlushOK, PrintedInv, OnFile
  <2>4. TableInv'
    BY <2>1 DEF IInv, TableInv, Sound, Known, OnFile
  <2> QED
    BY <2>2, <2>3, <2>4 DEF IInv
<1> QED
  BY <1>1, <1>2, <1>3, <1>4, <1>5, <1>6, <1>7 DEF Next, Finish, Killed

\* The inductive invariant: who has a file locked, what it is about to add,
\* and that nobody's table says more than the file.
THEOREM TablesInvariance == Spec => []IInv
<1> QED
  BY InitInv, StepInv, PTL DEF Spec

\* Ids stay between 1 and the number of symbols, for any number of processes.
THEOREM TablesTypes == Spec => []TypeOK
<1>1. IInv => TypeOK
  BY DEF IInv
<1> QED
  BY <1>1, TablesInvariance, PTL

\* No file ever has two ids for a symbol or two symbols for an id, for any
\* number of processes, killed at any time.
THEOREM IdsAreUnique == Spec => []UniqueIds
<1>1. IInv => UniqueIds
  BY DEF IInv
<1> QED
  BY <1>1, TablesInvariance, PTL

\* The ids in the models are those of the files.
THEOREM PrintedOnFile == Spec => []PrintedIsOnFile
<1>1. IInv => PrintedIsOnFile
  <2> SUFFICES ASSUME IInv, NEW t \in Task, NEW e \in printed[t]
               PROVE  IF e.symbol \in Name
                      THEN e.id = InFile("symbols", e.symbol)
                      ELSE \/ e.id = InFile("executables", e.symbol)
                           \/ e.id = InFile("host_executables", HostPath[e.symbol])
    BY DEF PrintedIsOnFile
  <2>1. \A k \in File, s \in Symbol : \A n : OnFile(k, n, s) => n = InFile(k, s)
    BY InFileFacts DEF IInv
  <2>2. IF e.symbol \in Name
        THEN OnFile("symbols", e.id, e.symbol)
        ELSE /\ e.symbol \in Target
             /\ \/ OnFile("executables", e.id, e.symbol)
                \/ OnFile("host_executables", e.id, HostPath[e.symbol])
    BY DEF IInv, PrintedInv
  <2> QED
    BY <2>1, <2>2, SymbolsFinite DEF File
<1> QED
  BY <1>1, TablesInvariance, PTL

-----------------------------------------------------------------------------
(* Every file implements a registry *)

\* The lines of a file are distinct symbols.
LEMMA LinesFacts ==
  ASSUME IInv, NEW k \in File
  PROVE  /\ Lines(k) \in Seq(Symbol)
         /\ DOMAIN Lines(k) = DOMAIN file[k]
         /\ \A i \in DOMAIN file[k] : Lines(k)[i] = file[k][i].symbol
         /\ \A i, j \in DOMAIN Lines(k) : Lines(k)[i] = Lines(k)[j] => i = j
<1>1. /\ Len(file[k]) \in Nat
      /\ DOMAIN file[k] = 1 .. Len(file[k])
      /\ \A i \in DOMAIN file[k] : file[k][i].symbol \in Symbol
  BY FileFacts DEF IInv
<1>2. Lines(k) \in [1 .. Len(file[k]) -> Symbol]
  BY <1>1 DEF Lines
<1>3. Lines(k) \in Seq(Symbol)
  BY <1>1, <1>2
<1>4. /\ DOMAIN Lines(k) = DOMAIN file[k]
      /\ \A i \in DOMAIN file[k] : Lines(k)[i] = file[k][i].symbol
  BY DEF Lines
<1> QED
  BY <1>3, <1>4 DEF IInv, UniqueIds

\* Adding a line is giving an id.
LEMMA FlushGives ==
  ASSUME IInv, NEW t \in Task, FlushAndUnlock(t), NEW k \in File
  PROVE  \/ Lines(k)' = Lines(k)
         \/ \E s \in Symbol :
              /\ \A i \in DOMAIN Lines(k) : Lines(k)[i] # s
              /\ Lines(k)' = Append(Lines(k), s)
<1> DEFINE c == call[t]
           e == Entry(c.id, c.symbol)
<1>1. /\ step[t] = "flush"
      /\ file' = [file EXCEPT ![c.file] = IF c.is_new THEN Append(@, e) ELSE @]
  BY DEF FlushAndUnlock
<1>2. c.file \in File /\ c.symbol \in Symbol
  BY <1>1, CallFacts
<1>3. CASE k # c.file \/ ~c.is_new
  <2>1. file'[k] = file[k]
    BY <1>1, <1>2, <1>3 DEF IInv, TypeOK
  <2> QED
    BY <2>1 DEF Lines
<1>4. CASE k = c.file /\ c.is_new
  <2>1. file'[k] = Append(file[k], e)
    BY <1>1, <1>2, <1>4 DEF IInv, TypeOK
  <2>2. \A i \in DOMAIN file[k] : file[k][i].symbol # c.symbol
    BY <1>1, <1>4, Zenon DEF IInv, FlushInv, FlushOK
  <2>3. e.symbol = c.symbol
    BY DEF Entry
  <2>4. Lines(k) \in Seq(Symbol) /\ DOMAIN Lines(k) = DOMAIN file[k]
        /\ \A i \in DOMAIN file[k] : Lines(k)[i] = file[k][i].symbol
    BY LinesFacts
  <2>5. Lines(k)' = [i \in DOMAIN file'[k] |-> file'[k][i].symbol]
    BY DEF Lines
  <2>6. file[k] \in Seq([id : Id, symbol : Symbol]) /\ Len(file[k]) \in Nat
        /\ DOMAIN file[k] = 1 .. Len(file[k])
    BY FileFacts DEF IInv
  <2>7. Lines(k)' = Append(Lines(k), c.symbol)
    <3> DEFINE x == c.symbol
    <3>1. Len(Lines(k)) = Len(file[k])
      BY <2>4, <2>6
    <3>2. /\ DOMAIN file'[k] = 1 .. Len(file[k]) + 1
          /\ file'[k][Len(file[k]) + 1] = e
          /\ \A i \in 1 .. Len(file[k]) : file'[k][i] = file[k][i]
      <4> HIDE DEF e, c
      <4> QED
        BY <2>1, <2>6
    <3>3. /\ DOMAIN Append(Lines(k), x) = 1 .. Len(file[k]) + 1
          /\ Append(Lines(k), x)[Len(file[k]) + 1] = x
          /\ \A i \in 1 .. Len(file[k]) : Append(Lines(k), x)[i] = Lines(k)[i]
      <4> HIDE DEF x
      <4> QED
        BY <2>4, <2>6, <3>1
    <3>4. Append(Lines(k), x) = [i \in 1 .. Len(file[k]) + 1 |-> Append(Lines(k), x)[i]]
      <4> DEFINE A == Append(Lines(k), x)
      <4>1. A \in [1 .. Len(file[k]) + 1 -> Symbol]
        <5> HIDE DEF x
        <5>1. x \in Symbol
          BY <1>2 DEF x
        <5>2. A \in Seq(Symbol) /\ Len(A) = Len(file[k]) + 1
          BY <2>4, <2>6, <3>1, <5>1
        <5> HIDE DEF A
        <5> QED
          BY <5>2
      <4> HIDE DEF A
      <4>2. A = [i \in 1 .. Len(file[k]) + 1 |-> A[i]]
        BY <4>1
      <4> QED
        BY <4>2 DEF A
    <3>5. \A i \in 1 .. Len(file[k]) + 1 : file'[k][i].symbol = Append(Lines(k), x)[i]
      <4> SUFFICES ASSUME NEW i \in 1 .. Len(file[k]) + 1
                   PROVE  file'[k][i].symbol = Append(Lines(k), x)[i]
        OBVIOUS
      <4>1. CASE i = Len(file[k]) + 1
        BY <2>3, <3>2, <3>3, <4>1
      <4>2. CASE i # Len(file[k]) + 1
        <5>1. i \in 1 .. Len(file[k])
          BY <2>6, <4>2
        <5>2. file'[k][i] = file[k][i] /\ Append(Lines(k), x)[i] = Lines(k)[i]
          BY <3>2, <3>3, <5>1
        <5> QED
          BY <2>4, <2>6, <5>1, <5>2
      <4> QED
        BY <4>1, <4>2
    <3> HIDE DEF x
    <3>6. Lines(k)' = Append(Lines(k), x)
      BY <2>5, <3>2, <3>4, <3>5
    <3> QED
      BY <3>6 DEF x
  <2> QED
    BY <1>2, <2>2, <2>4, <2>7
<1> QED
  BY <1>3, <1>4

\* A step of the processes gives at most one id in each file.
LEMMA StepGives ==
  ASSUME IInv, [Next]_vars, NEW k \in File
  PROVE  \/ Lines(k)' = Lines(k)
         \/ \E s \in Symbol :
              /\ \A i \in DOMAIN Lines(k) : Lines(k)[i] # s
              /\ Lines(k)' = Append(Lines(k), s)
<1>1. CASE \E t \in Task : FlushAndUnlock(t)
  BY <1>1, FlushGives
<1>2. CASE ~ \E t \in Task : FlushAndUnlock(t)
  <2>1. file' = file
    BY <1>2 DEF Next, vars, SymbolId, EnterExecutable, GetNewId, InsertLocked, InsertFails, GoOn,
           Finish, Killed, Ends
  <2> QED
    BY <2>1 DEF Lines
<1> QED
  BY <1>1, <1>2

\* The three symbol table files implement registries of ids, for any number
\* of processes and symbols.
THEOREM RegistriesImplemented == Spec => FilesAreRegistries
<1>1. Init => SymbolIds!Init /\ ExecutableIds!Init /\ HostIds!Init
  <2> SUFFICES ASSUME Init PROVE SymbolIds!Init /\ ExecutableIds!Init /\ HostIds!Init
    OBVIOUS
  <2>1. IInv
    BY InitInv
  <2>2. \A k \in File : /\ Lines(k) \in Seq(Symbol)
                       /\ \A i, j \in DOMAIN Lines(k) : Lines(k)[i] = Lines(k)[j] => i = j
    BY <2>1, LinesFacts
  <2> QED
    BY <2>2 DEF File, SymbolIds!Init, ExecutableIds!Init, HostIds!Init, SymbolIds!Distinct,
       ExecutableIds!Distinct, HostIds!Distinct
<1>2. IInv /\ [Next]_vars => /\ [SymbolIds!Next]_(Lines("symbols"))
                            /\ [ExecutableIds!Next]_(Lines("executables"))
                            /\ [HostIds!Next]_(Lines("host_executables"))
  <2> SUFFICES ASSUME IInv, [Next]_vars
               PROVE  /\ [SymbolIds!Next]_(Lines("symbols"))
                      /\ [ExecutableIds!Next]_(Lines("executables"))
                      /\ [HostIds!Next]_(Lines("host_executables"))
    OBVIOUS
  <2>1. "symbols" \in File /\ "executables" \in File /\ "host_executables" \in File
    BY DEF File
  <2>2. [SymbolIds!Next]_(Lines("symbols"))
    BY <2>1, StepGives DEF SymbolIds!Next, SymbolIds!Give
  <2>3. [ExecutableIds!Next]_(Lines("executables"))
    BY <2>1, StepGives DEF ExecutableIds!Next, ExecutableIds!Give
  <2>4. [HostIds!Next]_(Lines("host_executables"))
    BY <2>1, StepGives DEF HostIds!Next, HostIds!Give
  <2> QED
    BY <2>2, <2>3, <2>4
<1> QED
  BY <1>1, <1>2, TablesInvariance, PTL
  DEF Spec, FilesAreRegistries, SymbolIds!Spec, ExecutableIds!Spec, HostIds!Spec

-----------------------------------------------------------------------------
(* main's pool of processes *)

PoolType ==
  /\ parent \in {"fork", "reap", "wait", "done"}
  /\ child \in [Task -> {"unborn", "forked", "skipped", "waited"}]
  /\ running \in Nat
  /\ step \in [Task -> {"ready", "insert", "flush", "gone"}]

CountInv == running = Cardinality(Children)

\* Between forks there is room for one more process.
RoomInv ==
  /\ running <= max_processes \/ running = 1
  /\ parent = "fork" => running < max_processes \/ running = 0

EndInv ==
  /\ parent \in {"wait", "done"} => \A t \in Task : child[t] # "unborn"
  /\ parent = "done" => running = 0
  /\ \A t \in Task : child[t] = "waited" => step[t] = "gone"

PoolInv == PoolType /\ CountInv /\ RoomInv /\ EndInv

-----------------------------------------------------------------------------
\* A step of main or of a process is a step of SymbolTables or none.
LEMMA PoolStep == PoolNext => [Next]_vars
<1> SUFFICES ASSUME PoolNext PROVE [Next]_vars
  OBVIOUS
<1>1. CASE \E t \in Task : Fork(t) \/ ForkFails(t)
  BY <1>1, Zenon DEF Fork, ForkFails
<1>2. CASE Reap \/ Wait
  BY <1>2, Zenon DEF Reap, Wait, WaitFor
<1>3. CASE ReapNone \/ AllForked \/ Return
  BY <1>3, Zenon DEF ReapNone, AllForked, Return
<1>4. ASSUME NEW t \in Task,
             \/ Runs(t, SymbolId(t)) \/ Runs(t, EnterExecutable(t)) \/ Runs(t, InsertLocked(t))
             \/ Runs(t, InsertFails(t)) \/ Runs(t, FlushAndUnlock(t)) \/ Runs(t, Finish(t)) \/ Runs(t, Killed(t))
      PROVE  Next
  BY <1>4, Zenon DEF Runs, Next
<1> QED
  BY <1>1, <1>2, <1>3, <1>4, Zenon DEF PoolNext

\* The pool of processes implements the processes of SymbolTables, forked in
\* any order and number.
THEOREM PoolImplementsTables == PoolSpec => Spec
<1>1. PoolInit => Init
  BY DEF PoolInit
<1>2. [PoolNext]_allVars => [Next]_vars
  <2>1. UNCHANGED allVars => UNCHANGED vars
    BY DEF allVars
  <2> QED
    BY <2>1, PoolStep, Zenon
<1> QED
  BY <1>1, <1>2, PTL DEF PoolSpec, Spec

\* main's processes never give one id twice.
THEOREM PoolIdsAreUnique == PoolSpec => []UniqueIds
BY PoolImplementsTables, IdsAreUnique, PTL

-----------------------------------------------------------------------------
(* The pool's own invariant *)

\* There are finitely many children.
LEMMA ChildrenFinite ==
  /\ IsFiniteSet(Children)
  /\ Cardinality(Children) \in Nat
  /\ Cardinality(Children) = 0 <=> Children = {}
<1>1. Children \in SUBSET Task
  BY DEF Children
<1>2. IsFiniteSet(Children)
  BY <1>1, PoolAssumption, FS_Subset
<1> QED
  BY <1>2, FS_CardinalityType, FS_EmptySet

\* It holds before the first fork.
LEMMA PoolInitInv == PoolInit => PoolInv
<1> SUFFICES ASSUME PoolInit PROVE PoolInv
  OBVIOUS
<1>1. PoolType
  BY DEF PoolInit, Init, PoolType
<1>2. Children = {}
  BY DEF PoolInit, Children
<1>3. CountInv
  BY <1>2, ChildrenFinite DEF PoolInit, CountInv
<1>4. RoomInv /\ EndInv
  BY PoolAssumption DEF PoolInit, RoomInv, EndInv
<1> QED
  BY <1>1, <1>3, <1>4 DEF PoolInv

\* A fork: one child more, and there was room for it.
LEMMA ForkInv ==
  ASSUME PoolInv, NEW t \in Task, Fork(t)
  PROVE  PoolInv'
<1>1. /\ parent = "fork" /\ child[t] = "unborn"
      /\ child' = [child EXCEPT ![t] = "forked"]
      /\ running' = running + 1 /\ parent' = "reap"
  BY PoolAssumption DEF Fork, AtTask
<1>2. step' = step
  BY DEF Fork, vars
<1>3. Children' = Children \cup {t} /\ t \notin Children
  BY <1>1 DEF Children, PoolInv, PoolType
<1>4. PoolType'
  BY <1>1, <1>2 DEF PoolInv, PoolType
<1>5. CountInv'
  <2>1. Cardinality(Children \cup {t}) = Cardinality(Children) + 1
    BY <1>3, ChildrenFinite, FS_AddElement
  <2> QED
    BY <1>1, <1>3, <2>1 DEF PoolInv, CountInv
<1>6. RoomInv'
  BY <1>1, PoolAssumption DEF PoolInv, PoolType, RoomInv
<1>7. EndInv'
  BY <1>1, <1>2 DEF PoolInv, PoolType, EndInv
<1> QED
  BY <1>4, <1>5, <1>6, <1>7 DEF PoolInv

\* A failed fork changes the task only.
LEMMA ForkFailsInv ==
  ASSUME PoolInv, NEW t \in Task, ForkFails(t)
  PROVE  PoolInv'
<1>1. /\ parent = "fork" /\ child[t] = "unborn"
      /\ child' = [child EXCEPT ![t] = "skipped"]
      /\ running' = running /\ parent' = parent
  BY PoolAssumption DEF ForkFails, AtTask
<1>2. step' = step
  BY DEF ForkFails, vars
<1>3. Children' = Children
  BY <1>1 DEF Children, PoolInv, PoolType
<1> QED
  BY <1>1, <1>2, <1>3 DEF PoolInv, PoolType, CountInv, RoomInv, EndInv

\* A child waited for: one less, and it has ended.
LEMMA WaitForInv ==
  ASSUME PoolInv, NEW t \in Task, parent \in {"reap", "wait"}, WaitFor(t)
  PROVE  PoolInv'
<1>1. /\ child[t] = "forked" /\ step[t] = "gone"
      /\ child' = [child EXCEPT ![t] = "waited"]
      /\ running' = running - 1 /\ parent' = parent
  BY DEF WaitFor, Zombies, Children
<1>2. step' = step
  BY DEF WaitFor, vars
<1>3. Children' = Children \ {t} /\ t \in Children
  BY <1>1 DEF Children, PoolInv, PoolType
<1>4. Cardinality(Children \ {t}) = Cardinality(Children) - 1
  BY <1>3, ChildrenFinite, FS_RemoveElement
<1>5. Cardinality(Children) # 0
  BY <1>3, ChildrenFinite
<1>6. CountInv' /\ running' \in Nat
  BY <1>1, <1>3, <1>4, <1>5, ChildrenFinite DEF PoolInv, CountInv
<1>7. PoolType'
  BY <1>1, <1>2, <1>6 DEF PoolInv, PoolType
<1>8. RoomInv'
  BY <1>1, PoolAssumption DEF PoolInv, PoolType, RoomInv
<1>9. EndInv'
  BY <1>1, <1>2 DEF PoolInv, PoolType, EndInv
<1> QED
  BY <1>6, <1>7, <1>8, <1>9 DEF PoolInv

\* The steps of main that neither fork nor wait for a child.
LEMMA MainInv ==
  ASSUME PoolInv, ReapNone \/ AllForked \/ Return
  PROVE  PoolInv'
<1>1. step' = step /\ child' = child /\ running' = running
  BY DEF ReapNone, AllForked, Return, vars
<1>2. Children' = Children
  BY <1>1 DEF Children
<1>3. CASE ReapNone
  <2>1. parent' = "fork" /\ (running < max_processes \/ running = 0)
    BY <1>3, ChildrenFinite DEF ReapNone, WNoHang, PoolInv, CountInv
  <2> QED
    BY <1>1, <1>2, <2>1 DEF PoolInv, PoolType, CountInv, RoomInv, EndInv
<1>4. CASE AllForked
  BY <1>1, <1>2, <1>4 DEF AllForked, PoolInv, PoolType, CountInv, RoomInv, EndInv
<1>5. CASE Return
  <2>1. running = 0
    BY <1>5 DEF Return, StillRunning, PoolInv, PoolType
  <2> QED
    BY <1>1, <1>2, <1>5, <2>1 DEF Return, PoolInv, PoolType, CountInv, RoomInv, EndInv
<1> QED
  BY <1>3, <1>4, <1>5

\* A process that takes a step has not ended before it.
LEMMA RunsInv ==
  ASSUME PoolInv, NEW t \in Task, t \in Children, UNCHANGED poolVars,
         \/ SymbolId(t) \/ EnterExecutable(t) \/ InsertLocked(t)
         \/ InsertFails(t) \/ FlushAndUnlock(t) \/ Finish(t) \/ Killed(t)
  PROVE  PoolInv'
<1>1. parent' = parent /\ child' = child /\ running' = running
  BY DEF poolVars
<1>2. child[t] = "forked"
  BY DEF Children
<1>3. \/ step' = step
      \/ \E s \in {"ready", "insert", "flush", "gone"} : step' = [step EXCEPT ![t] = s]
  BY DEF SymbolId, EnterExecutable, GetNewId, InsertLocked, InsertFails, FlushAndUnlock, GoOn,
         Finish, Killed, Ends
<1>4. /\ step' \in [Task -> {"ready", "insert", "flush", "gone"}]
      /\ \A u \in Task : u # t => step'[u] = step[u]
  BY <1>3 DEF PoolInv, PoolType
<1>5. Children' = Children
  BY <1>1 DEF Children
<1> QED
  BY <1>1, <1>2, <1>4, <1>5 DEF PoolInv, PoolType, CountInv, RoomInv, EndInv

\* Every step keeps the invariant.
LEMMA PoolStepInv == PoolInv /\ [PoolNext]_allVars => PoolInv'
<1> SUFFICES ASSUME PoolInv, [PoolNext]_allVars PROVE PoolInv'
  OBVIOUS
<1>1. ASSUME NEW t \in Task, Fork(t) PROVE PoolInv'
  BY <1>1, ForkInv
<1>2. ASSUME NEW t \in Task, ForkFails(t) PROVE PoolInv'
  BY <1>2, ForkFailsInv
<1>3. CASE Reap \/ Wait
  BY <1>3, WaitForInv DEF Reap, Wait
<1>4. CASE ReapNone \/ AllForked \/ Return
  BY <1>4, MainInv
<1>5. ASSUME NEW t \in Task,
             \/ Runs(t, SymbolId(t)) \/ Runs(t, EnterExecutable(t)) \/ Runs(t, InsertLocked(t))
             \/ Runs(t, InsertFails(t)) \/ Runs(t, FlushAndUnlock(t)) \/ Runs(t, Finish(t)) \/ Runs(t, Killed(t))
      PROVE  PoolInv'
  <2>1. /\ t \in Children /\ UNCHANGED poolVars
        /\ \/ SymbolId(t) \/ EnterExecutable(t) \/ InsertLocked(t)
           \/ InsertFails(t) \/ FlushAndUnlock(t) \/ Finish(t) \/ Killed(t)
    BY <1>5, Zenon DEF Runs
  <2> QED
    BY <2>1, RunsInv
<1>6. CASE UNCHANGED allVars
  <2>1. step' = step /\ child' = child /\ running' = running /\ parent' = parent
    BY <1>6 DEF allVars, vars, poolVars
  <2> QED
    BY <2>1 DEF PoolInv, PoolType, CountInv, RoomInv, EndInv, Children
<1> QED
  BY <1>1, <1>2, <1>3, <1>4, <1>5, <1>6, Zenon DEF PoolNext

-----------------------------------------------------------------------------
(* The theorems *)

\* The pool's invariant holds in every state.
THEOREM PoolInvariance == PoolSpec => []PoolInv
BY PoolInitInv, PoolStepInv, PTL DEF PoolSpec

\* main's count is the number of its children, and within the bound, for any
\* number of tasks and any bound, whatever forks fail.
THEOREM BoundKept == PoolSpec => []PoolBound
<1>1. PoolInv => PoolBound
  BY DEF PoolInv, CountInv, RoomInv, PoolBound
<1> QED
  BY <1>1, PoolInvariance, PTL

\* When main has returned, no process of it is left.
THEOREM NobodyLeft == PoolSpec => []NoneLeftBehind
<1>1. PoolInv => NoneLeftBehind
  <2> SUFFICES ASSUME PoolInv, parent = "done", NEW t \in Task
               PROVE  child[t] = "skipped" \/ (child[t] = "waited" /\ step[t] = "gone")
    BY DEF NoneLeftBehind
  <2>1. Children = {}
    BY ChildrenFinite DEF PoolInv, EndInv, CountInv
  <2>2. child[t] \in {"unborn", "forked", "skipped", "waited"} /\ child[t] # "unborn"
    BY DEF PoolInv, PoolType, EndInv
  <2>3. child[t] # "forked"
    BY <2>1 DEF Children
  <2> QED
    BY <2>2, <2>3 DEF PoolInv, EndInv
<1> QED
  BY <1>1, PoolInvariance, PTL
=============================================================================
