\* A file: two threads, one call at a time; every offset but the smallest from the end.
\* A directory stream: eight entries in pages of three; the program may close the
\* descriptor and open its number again, on the directory or on one of four entries.
CONSTANTS
  t1 = t1  t2 = t2
  Thread = {t1, t2}
  Size = 4
  OffMax = 7
  IntMax = 7
  Count = {0, 1, 2, 5}
  MaxIov = 3
  Offset <- MCOffset
  EndOffset <- MCEndOffset
  Serial = TRUE
  Own = Own  other = other
  Directory = {Own, other}
  DirSize <- MCDirSize
  PageSize = 3
  SizeMax = 255
  Nowhere = Nowhere
  End = End
  Failed = Failed
  Wild = Wild
SPECIFICATION CursorsSpec
INVARIANTS OffsetIsRepresentable ReadsInsidePage
PROPERTIES ReadsAreSequential ReadsInOrder
