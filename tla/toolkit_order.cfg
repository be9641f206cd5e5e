SPECIFICATION FairSpec
CONSTANTS
  Stacks <- McStacks
  Names <- McNames
  Envs <- McEnvs
  Apps <- McApps
  Commands <- McCommands
INVARIANTS
  SelectionInv
  OutputsFileIsComplete
PROPERTIES
  StacksInOrder
  EmptyStackIsDestroyed
  CommandEnds
CHECK_DEADLOCK FALSE
