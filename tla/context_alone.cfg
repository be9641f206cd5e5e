SPECIFICATION FairSpec
CONSTANTS
  Commands = {c}
  Keys = {a, b}
  Values = {v, w}
  Absent = Absent
  Failure = Failure
  Apps <- AllApps
INVARIANTS
  StuckInv
  SynthesisIsCached
PROPERTIES
  CachedValuesStay
  SynthesisEnds
