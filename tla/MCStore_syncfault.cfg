SPECIFICATION Spec
CONSTANTS
  Sources = {s1, s2}
  s1 = s1
  s2 = s2
  Seqs = {1, 2}
  Bodies = {ok, big}
  ok = ok
  big = big
  Oversized = {big}
  Times = {1, 2}
  Environments = {{"crash", "syncFault"}}
  MaxFrames = 3
  MaxLack = 2
SYMMETRY SourceSymmetry
INVARIANTS
  RefusalLeavesChainsUnbroken
CHECK_DEADLOCK FALSE
