-------------------------- MODULE SidebandCombiner --------------------------
(***************************************************************************)
(* sbcombiner.py: the sideband files of the CPUs are put together into one, *)
(* by the timestamps of their messages.  The lines of the new file are kept *)
(* in a dictionary, so that a timestamp that is taken must give way.  It is *)
(* written only if every file can be parsed.                               *)
(***************************************************************************)
EXTENDS SidebandBuffer, FiniteSets

CONSTANT Files   \* the CPUs in the order in which ls lists their files

ASSUME FilesAssumption ==
  /\ Files \in Seq(Cpu)
  /\ \A i, j \in DOMAIN Files : Files[i] = Files[j] => i = j
  /\ \A c \in Cpu : \E i \in DOMAIN Files : Files[i] = c

\* Mutant: a message takes the line of another one of its time.
SameKey(lines, t) == t
\* header_and_binary: the first timestamp from t on that is free
FreeKey(lines, t) ==
  CHOOSE k \in t .. t + Cardinality(DOMAIN lines) :
    k \notin DOMAIN lines /\ t .. k - 1 \subseteq DOMAIN lines

HeaderAndBinary(lines, m) ==
  LET key == FreeKey(lines, sent[m].tscp)
  IN  [k \in DOMAIN lines \cup {key} |-> IF k = key THEN m ELSE lines[k]]

\* The messages of one file, as far as it can be parsed; of a torn one nothing
\* is said.
WithFile(lines, messages) ==
  LET upto[n \in 0 .. Len(messages)] ==
        IF n = 0 THEN lines
        ELSE IF messages[n] = Torn THEN upto[n - 1]
        ELSE HeaderAndBinary(upto[n - 1], messages[n])
  IN  upto[Len(messages)]

\* get_per_cpu_sideband: the files are copied one by one,
CpuFile(i) == File(Files[i], 2)

\* combine: and parsed one after another.  Nothing catches an exception of a
\* parser: it ends combine before the combined file is opened.
MayRaise == \E i \in DOMAIN Files : "raises" \in Endings(CpuFile(i))
MayWrite == \A i \in DOMAIN Files : "ends" \in Endings(CpuFile(i))

\* The lines there are when all files are parsed.
SbLines ==
  LET upto[i \in 0 .. Len(Files)] ==
        IF i = 0 THEN <<>> ELSE WithFile(upto[i - 1], Parsed(CpuFile(i)))
  IN  upto[Len(Files)]

\* The lines are written in the order of their timestamps: the i-th is the one
\* with i timestamps up to its own.
Written(lines) ==
  [i \in 1 .. Cardinality(DOMAIN lines) |->
     lines[CHOOSE k \in DOMAIN lines : Cardinality({t \in DOMAIN lines : t <= k}) = i]]
\* The combined file, if it is written
Combined == Written(SbLines)

-----------------------------------------------------------------------------
(* Properties *)

\* No buffer that was overrun is longer than what the model has of the memory.
InMemory == \A c \in Cpu : TotalSize(c) <= MemSize + 1

\* Nothing keeps the combined file from being written if on no CPU anything came
\* between two writers.  And if it is written, although this happened on some, it
\* has every message that was logged before it happened, of each CPU, once, and
\* those of one CPU in the order of their timestamps or, where these are the
\* same, in that they were logged in: although a message moved by another CPU's
\* may come to lie behind later ones, it does not pass a later one of its own CPU.
CombinedKeepsStreams ==
  ~ring /\ ~trace_active /\ InMemory =>
    /\ (\A c \in Cpu : Cleared(c) /\ intact[c]) => ~MayRaise
    /\ MayWrite =>
         LET combined == Combined IN
         \A c \in Cpu : Cleared(c) =>
           LET log == logged[c]
               At(i) == {k \in DOMAIN combined : combined[k] = log[i]}
           IN  /\ \A i \in DOMAIN log : \E k \in DOMAIN combined : At(i) = {k}
               /\ \A i, j \in DOMAIN log :
                    i < j /\ sent[log[i]].tscp <= sent[log[j]].tscp =>
                      \A k \in At(i), l \in At(j) : k < l
=============================================================================
