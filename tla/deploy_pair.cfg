SPECIFICATION Spec
CONSTANTS
  Templates = {t1, t2}
  Inputs = {i1}
  ChangeSetNames = {default}
  Owners = {a, b}
  CLI = {a, b}
  NoTemplate = NoTemplate
  NoInputs = NoInputs
  NoOwner = NoOwner
  DefaultName = default
  Unnamed = Unnamed
  Requests <- RivalRequests
INVARIANTS
  DeployAwaitsCompletion
  DeployedWasAskedFor
