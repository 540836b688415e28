SPECIFICATION Spec
CONSTANTS
  Rank = {0, 1, 2}
  MaxNb = 2
  MaxAddr = 1
  x = x
  y = y
  seg = seg
  tmp = tmp
  Segment = {seg, tmp}
  Name = {x, y}
  Jobs <- DestroyJobs
INVARIANT DestroyedUnused
