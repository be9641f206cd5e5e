------------------------- MODULE MCAssetPublishing -------------------------
(* Manifests for the module AssetPublishing.  Every asset is named after   *)
(* the way it is made.                                                     *)
EXTENDS AssetPublishing

OwnKind == [a \in Assets |-> a]

\* One or two entries: two assets, or one asset for two destinations.
ShortManifests ==
  {<<e>> : e \in Entry} \cup {s \in Entry \X Entry : s[1] # s[2]}

=============================================================================
