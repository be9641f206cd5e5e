----------------------------- MODULE MCSdkProvider -----------------------------
(* An instance of SdkProvider for TLC.                                        *)
EXTENDS SdkProvider, TLC

CONSTANTS here, there,             \* accounts
          hereKey, otherKey, thereKey

MCAccountOf == hereKey :> here @@ otherKey :> here @@ thereKey :> there

\* No plugin, and one that has credentials of its own for each mode, or for one.
MCPlugins ==
  {[x \in Accounts \X Modes |-> None],
   [x \in Accounts \X Modes |-> IF x[1] = there THEN thereKey
                               ELSE IF x[2] = "read" THEN otherKey ELSE None],
   [x \in Accounts \X Modes |-> IF x[1] = there THEN None
                               ELSE IF x[2] = "read" THEN otherKey ELSE hereKey]}

Interchangeable == Permutations(Processes)

=============================================================================
