\* Careful, walking, competing and climbing programs.
CONSTANTS
  t1 = t1  t2 = t2
  m = m  a = a  f = f  link = link  u = u  v = v  up = up
  Thread = {t1, t2}
  Name <- MCName
  Up = up
  Mount = m
  Image <- MCImage
  ImageFile <- MCImageFile
  LinkTo <- MCLinkTo
  HostDir <- MCHostDir
  Nothing = Nothing
  Program <- MCProgram
SPECIFICATION Spec
INVARIANTS TypeOK CwdIsADirectory DirectoryIsAsMeant RelativePathsAreAnchored
PROPERTY OneDirectory
