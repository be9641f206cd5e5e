SPECIFICATION FairSpec
CONSTANTS
  Templates = {t1, t2}
  Inputs = {i1, i2}
  ChangeSetNames = {default}
  Owners = {a}
  CLI = {a}
  NoTemplate = NoTemplate
  NoInputs = NoInputs
  NoOwner = NoOwner
  DefaultName = default
  Unnamed = Unnamed
  Requests <- CommandLineRequests
INVARIANTS
  ReportsAreTrue
  DeployedIsInPlace
  CallsAreLegal
PROPERTIES
  InvocationEnds
