SPECIFICATION FairSpec
CONSTANTS
  Publishers = {p}
  Assets = {"file", "zip", "executable", "image", "imageExecutable"}
  Destinations = {d}
  Kind <- OwnKind
  Manifests <- ShortManifests
  Mishaps = {"killed", "zipError", "unreadable"}
INVARIANTS
  AccountInv
  PublishedAsRequired
PROPERTIES
  PublishingEnds
