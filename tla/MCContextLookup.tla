-------------------------- MODULE MCContextLookup --------------------------
(* Small apps for the module ContextLookup.                                *)
EXTENDS ContextLookup

\* Every app of two keys, sensible or not.
AllApps == [SUBSET Keys -> SUBSET Keys]

===========================================================================
