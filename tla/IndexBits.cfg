\* As the run Mounts: one bit for the index, as in the code, and two indices besides that of the root.
CONSTANTS
  t1 = t1  t2 = t2  app = app  ext = ext  lib = lib  bin = bin
  Thread = {t1, t2}
  Image = {app, ext}
  Name = {lib, bin}
  None = None
  MaxIndex = 2
  Images = 2
  Block = 2
  MaxKnown = 1
  MaxMount = 2
SPECIFICATION Spec
SYMMETRY Symmetry
INVARIANT InodesRoute
