\* A CPU whose start finds the pool already empty traces all the same.
CONSTANTS
  NCPU = 2
  PoolSize = 2
  BufSize = 3
  MaxEmitted = 6
SPECIFICATION Spec
INVARIANT NoBufferNoTrace
