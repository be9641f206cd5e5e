\* Small apps over the stacks of MCStackReferences: two references, a reference
\* and a dependency, three dependencies.  A prepared or refused app stops.
SPECIFICATION FairSpec
CONSTANTS
  None = None
  P = P A = A C = C B = B Q = Q D = D S = S R = R
  env1 = env1 env2 = env2 stage1 = stage1 stage2 = stage2
  Stacks <- MCStacks
  Parent <- MCParent
  Env <- MCEnv
  Stage <- MCStage
  Apps <- MCApps
INVARIANTS AssemblyInv TemplatesAreComplete DependenciesAreKept RefusedForCause
PROPERTY PrepareEnds
CHECK_DEADLOCK FALSE
