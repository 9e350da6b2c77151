\* Three threads, one of which uses the host, which open nothing of an image that is released;
\* two threads, allocations that fail, and an image released at any moment.
CONSTANTS
  t1 = t1  t2 = t2  t3 = t3  p1 = p1  p2 = p2  p3 = p3  p4 = p4  p5 = p5  v1 = v1  v2 = v2  v3 = v3
  Thread = {t1, t2, t3}
  HostThread = {t1}
  Ptr = {p1, p2, p3}
  Vfd = {v1, v2}
  None = None
  MaxHostDir = 2
  MaxGen = 2
  Program <- MCProgram
SPECIFICATION Spec
SYMMETRY PtrSymmetry
INVARIANTS ClosesAreTheirOwn StreamsRoute HostCallsAreLive StreamOwnsFd KfdIsLive NoFdLeaks DeadAfterUnmount
