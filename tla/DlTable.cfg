\* Two threads, three kinds of program.  The program ends: the system may stop.
CONSTANTS
  l1 = l1  l2 = l2
  Thread = {t1, t2}
  Lib = {l1, l2}
  Length <- MCLength
  File = {f1, f2, f3}
  None = None
  Program <- MCProgram
SPECIFICATION Spec
INVARIANTS LoadedLibrariesAreWhole FailuresAreExplained NoStrayFiles CopiesGoToTheName
PROPERTY CallsReturn
CHECK_DEADLOCK FALSE
