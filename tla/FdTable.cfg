\* Two threads, four numbers; the allocation of a table node may fail.
CONSTANTS
  t1 = t1  t2 = t2
  dir = dir  vault = vault  reg = reg  lnk = lnk  host = host
  Thread = {t1, t2}
  MaxFd = 3
  File <- MCFile
  Kind <- MCKind
  Searchable <- MCSearchable
  HostFile <- MCHostFile
  Std = Std
  None = None
  Garbage <- NoGarbage
  ThrowRace = FALSE
SPECIFICATION Spec
SYMMETRY ThreadSymmetry
INVARIANTS HeldRoutes HostCallsRoute NoDescriptorLeaks
PROPERTIES FreshNumbers OneNamespace
