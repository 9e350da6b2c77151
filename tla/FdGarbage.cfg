\* An uninitialised int may read as an open descriptor.
CONSTANTS
  t1 = t1  t2 = t2
  dir = dir  vault = vault  reg = reg  lnk = lnk  host = host
  Thread = {t1}
  MaxFd = 2
  File <- MCSmallFile
  Kind <- MCSmallKind
  Searchable <- MCSearchable
  HostFile <- MCHostFile
  Std = Std
  None = None
  Garbage <- AnyGarbage
  ThrowRace = FALSE
SPECIFICATION Spec
PROPERTY OpenedFilesStayMapped
