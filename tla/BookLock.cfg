SPECIFICATION FairSpec
CONSTANTS
  p = p  q = q  a = a  b = b  c = c
  None = None
  Procs = {p, q}
  Tasks = {a, b, c}
  ProcOf <- TaskProcess
  Tokens = {1, 2, 3, 4, 5, 6, 7}
  MaxTries = 2
  MaxMishaps = 1
INVARIANTS OneWriterPerProcess HolderOwnsFile
PROPERTIES DeadLocksRecover
