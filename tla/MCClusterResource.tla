-------------------------- MODULE MCClusterResource --------------------------
(* Instances of ClusterResource for TLC.                                    *)
EXTENDS ClusterResource

CONSTANT Mine   \* a name given in a template

Base == [name |-> NoName, place |-> "vpc", version |-> 1, logging |-> "off",
         access |-> [endpoints |-> "public", cidrs |-> {"a"}], encryption |-> "none"]

\* Each aspect on its own, the version along with others, and two replacements:
\* one of a cluster with a name of its own.
MCConfigs ==
  {Base,
   [Base EXCEPT !.version = 2, !.logging = "on"],
   [Base EXCEPT !.version = 2, !.logging = "on", !.access.cidrs = {"a", "b"}],
   [Base EXCEPT !.version = 0],
   [Base EXCEPT !.logging = "on", !.access.endpoints = "both"],
   [Base EXCEPT !.access.cidrs = {"b"}],
   [Base EXCEPT !.access.cidrs = {"a", "b"}],
   [Base EXCEPT !.name = Mine, !.place = "other"],
   [Base EXCEPT !.name = Mine, !.encryption = "key"]}

MCBlocks == {Base, [Base EXCEPT !.access.cidrs = {"b"}], [Base EXCEPT !.access.cidrs = {"a", "b"}]}

=============================================================================
