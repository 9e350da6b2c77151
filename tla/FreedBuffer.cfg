\* The same instance, with the memory of the images for a property.
CONSTANTS
  prog = prog  word = word  dash = dash  empty = empty  copy = copy  dashe = dashe
  source = source  folder = folder  app = app  cut = cut  long = long  gone = gone
  rule = rule  same = same  image = image  over = over  bad = bad  target = target
  other = other  name = name  top = top  sub = sub  out = out
  Base = 2
  Signature <- MCSignature
  None = None
  Text <- MCText
  Empty = empty
  Dashed = {dash}
  Letters <- MCLetters
  CopyEntry = copy
  DashE = dashe
  SourceFilesystem = source
  RuleOf <- MCRuleOf
  Folder <- MCFolder
  ImageFile = {app, target}
  Made <- MCMade
  Argv <- MCArgv
  Point <- MCPoint
  Address = {1, 2}
SPECIFICATION CmdSpec
INVARIANT ImagesKeepTheirMemory
CHECK_DEADLOCK FALSE
