\* The same instance, with the comment on O_NOFOLLOW in tebako-fd.cpp for a property.
CONSTANTS
  a = a  b = b  l = l  p = p  up = up  here = here  slash = slash  home = home  out = out
  root = root  dir = dir  file = file  outer = outer  inner = inner
  root1 = root1  file1 = file1
  Name = {a, b, l, p, out}
  Home = home
  Up = up
  Here = here
  Slash = slash
  Dir = {root, dir, root1}
  File = {file, file1}
  Link = {outer, inner}
  Index = {0, 1}
  RootOf <- RootOfDef
  Entry <- EntryDef
  Text <- TextDef
  Links <- LinksDef
  Points <- PointsDef
  HostPath <- HostPathDef
  Path <- PathDef
  RawPath <- RawPathDef
  OpenDir = {dir}
  Parent <- ParentDef
  MountName = {p}
  MaxPoint = 1
  MaxLen = 8
  None = None
SPECIFICATION Spec
INVARIANT OnlyTheLastLinkIsRefused
