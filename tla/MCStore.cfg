SPECIFICATION Spec
CONSTANTS
  Sources = {s1, s2}
  s1 = s1
  s2 = s2
  Seqs = {1, 2}
  Bodies = {ok, big}
  ok = ok
  big = big
  Oversized = {big}
  Times = {1, 2}
  Environments = {{"crash", "ackLost", "unsyncedFrame", "tornFrame", "syncFault", "writeFault", "powerLoss"}, {"crash", "ackLost", "unsyncedFrame"}, {"crash", "ackLost", "powerLoss"}, {"crash", "ackLost", "unsyncedFrame", "powerLoss"}}
  MaxFrames = 3
  MaxLack = 2
SYMMETRY SourceSymmetry
INVARIANTS
  TypeOK
  ServingConsistent
  FileMatchesServing
  BootNeverRefused
  AckedKept
PROPERTIES
  ImplementsDurableLog
CHECK_DEADLOCK FALSE
