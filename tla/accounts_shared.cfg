SPECIFICATION Spec
CONSTANTS
  here = here
  there = there
  hereKey = hereKey
  otherKey = otherKey
  thereKey = thereKey
  Keys = {hereKey, otherKey, thereKey}
  Accounts = {here, there}
  MaxEntries = 2
  Processes = {p1, p2}
  AccountOf <- MCAccountOf
  Modes = {"read", "write"}
  Unknown = Unknown
  None = None
  Unset = Unset
  Roles = {there}
  Plugins <- MCPlugins
  MaxOps = 2
  MaxTroubles = 1
SYMMETRY Interchangeable
INVARIANT CacheInv
PROPERTIES CredentialsAreRight FailsForCause
CHECK_DEADLOCK FALSE
