\* Two processes, three pages and a module, two executables.
CONSTANTS
  x = x
  y = y
  Pid = {1, 2}
  First <- MCFirst
  Addr = {0, 1, 2, 3}
  ModuleAddr = 0
  Exe = {x, y}
  NewExe = {y}
  Mapped <- MCMapped
  Module = module
  Unmapped = unmapped
  None = none
  LenLimit = 3
  MaxEvents = 3
  MaxLookups = 2
SPECIFICATION Spec
INVARIANTS
  AllKnown
  MappedIsFound
  FoundWasMapped
\* A process ends when it has looked up what it asks for.
CHECK_DEADLOCK FALSE
