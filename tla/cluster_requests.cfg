SPECIFICATION Spec
CONSTANTS
  Configs <- MCConfigs
  Mine = Mine
  Names = {Mine}
  Places = {"vpc", "other"}
  Loggings = {"off", "on"}
  Endpoints = {"public", "both"}
  Cidrs = {"a", "b"}
  Keys = {"none", "key"}
  MaxVersion = 2
  DefaultVersion = 1
  NoName = NoName
  MaxRequests = 5
  MaxRefusals = 1
INVARIANTS ClusterInv SettledIsApplied
PROPERTY ReplacedOnlyWhenActive
CHECK_DEADLOCK FALSE
