SPECIFICATION FairSpec
CONSTANTS
  i1 = i1
  i2 = i2
  p1 = p1
  p2 = p2
  p3 = p3
  p4 = p4
  Instances = {i1, i2}
  Pids = {p1, p2, p3, p4}
  Containers = FALSE
  NoFile = NoFile
INVARIANTS
  SharedOnlyBySlips
PROPERTY RestartSucceeds
