SPECIFICATION Spec
CONSTANTS
  Configs <- MCBlocks
  Mine = Mine
  Names = {Mine}
  Places = {"vpc", "other"}
  Loggings = {"off", "on"}
  Endpoints = {"public", "both"}
  Cidrs = {"a", "b"}
  Keys = {"none", "key"}
  MaxVersion = 2
  DefaultVersion = 1
  NoName = NoName
  MaxRequests = 3
  MaxRefusals = 1
INVARIANT AccessIsAsAsked
CHECK_DEADLOCK FALSE
