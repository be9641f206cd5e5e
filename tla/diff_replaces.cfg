\* Changes of templates of three resources.  A finished comparison stops.
SPECIFICATION FairDiffSpec
CONSTANTS
  a = a b = b c = c T = T U = U p = p q = q r = r
  ten = ten net = net word = word NaN = NaN
  Ids <- MCIds
  Types = {T, U}
  Props = {p, q, r}
  UpdateType <- MCUpdateType
  Texts = {ten, net, word}
  Number <- MCNumber
  Changes <- MCChanges
INVARIANT ReplacementsAreClosed
PROPERTY DiffEnds
CHECK_DEADLOCK FALSE
