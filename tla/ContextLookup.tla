---------------------------- MODULE ContextLookup ----------------------------
(***************************************************************************)
(* Environmental context: the values an app needs to know about accounts   *)
(* and regions, which the CLI looks up and keeps in cdk.context.json.      *)
(*   - CloudExecutable.synthesize() runs the app, looks up what it reports *)
(*     missing, saves it and runs the app again, until nothing is missing  *)
(*     or nothing improves (aws-cdk/lib/api/cxapp/cloud-executable.ts,     *)
(*     aws-cdk/lib/context-providers/index.ts, aws-cdk/lib/settings.ts);   *)
(*   - `cdk context --reset` and `--clear` forget values                   *)
(*     (aws-cdk/lib/commands/context.ts).                                  *)
(*                                                                         *)
(* Several commands may run at once; they share the file.  What an app     *)
(* asks for depends on the values it has been given.  The values in        *)
(* cdk.json, which no command writes, are part of the app here.            *)
(***************************************************************************)
EXTENDS FiniteSets

CONSTANTS Commands,   \* CLI processes
          Keys,
          Values,
          Absent,     \* no value
          Failure,    \* { $providerError, $dontSaveContext }: a failed lookup
          Apps        \* apps: what each asks for, given the keys it knows

ASSUME ContextAssumption ==
  /\ Absent \notin Values /\ Failure \notin Values /\ Absent # Failure
  /\ Absent \notin Keys
  /\ Apps \subseteq [SUBSET Keys -> SUBSET Keys]

VARIABLES
  app,
  world,       \* the value a lookup of a key would find now
  file,        \* cdk.context.json
  pc, lookups, \* per command; whether lookups are allowed
  context,     \* the project context it has in memory
  target,      \* the keys a reset or clear is about
  missing,     \* manifest.missing of the last synthesis
  previously,  \* previouslyMissingKeys
  todo,        \* the keys still to look up
  result

vars == <<app, world, file, pc, lookups, context, target, missing, previously, todo, result>>

NoKeys == {Absent}   \* previouslyMissingKeys is undefined

TypeOK ==
  /\ app \in Apps
  /\ world \in [Keys -> Values]
  /\ file \in [Keys -> Values \cup {Absent}]
  /\ pc \in [Commands -> {"idle", "synthesize", "lookup", "save", "forget"}]
  /\ lookups \in [Commands -> BOOLEAN]
  /\ context \in [Commands -> [Keys -> Values \cup {Absent, Failure}]]
  /\ target \in [Commands -> SUBSET Keys]
  /\ missing \in [Commands -> SUBSET Keys]
  /\ previously \in [Commands -> (SUBSET Keys) \cup {NoKeys}]
  /\ todo \in [Commands -> SUBSET Keys]
  /\ result \in [Commands -> {"none", "complete", "incomplete", "failed", "forgotten"}]

Init ==
  /\ app \in Apps
  /\ world \in [Keys -> Values]
  /\ file = [k \in Keys |-> Absent]
  /\ pc = [c \in Commands |-> "idle"]
  /\ lookups = [c \in Commands |-> TRUE]
  /\ context = [c \in Commands |-> file]
  /\ target = [c \in Commands |-> {}]
  /\ missing = [c \in Commands |-> {}]
  /\ previously = [c \in Commands |-> NoKeys]
  /\ todo = [c \in Commands |-> {}]
  /\ result = [c \in Commands |-> "none"]

\* The keys whose value the app is given.  A failure counts as no value.
Known(c) == {k \in Keys : context[c][k] \in Values}
Missing(c) == app[Known(c)] \ Known(c)

\* What is written: transient values are stripped.
Saved(values) == [k \in Keys |-> IF values[k] = Failure THEN Absent ELSE values[k]]

Goto(c, p) == pc' = [pc EXCEPT ![c] = p] /\ UNCHANGED result
End(c, r) == pc' = [pc EXCEPT ![c] = "idle"] /\ result' = [result EXCEPT ![c] = r]

\* The environment changes: a new AMI, another availability zone.
WorldChanges ==
  /\ \E k \in Keys, v \in Values : world' = [world EXCEPT ![k] = v]
  /\ UNCHANGED <<app, file, pc, lookups, context, target, missing, previously, todo, result>>

-----------------------------------------------------------------------------
(* A command starts by loading the configuration.                          *)

\* Mutant: cdk.context.json is not read.
LoadNothing(c, p) ==
  /\ pc[c] = "idle"
  /\ pc' = [pc EXCEPT ![c] = p]
  /\ context' = [context EXCEPT ![c] = [k \in Keys |-> Absent]]
  /\ previously' = [previously EXCEPT ![c] = NoKeys]
  /\ missing' = [missing EXCEPT ![c] = {}]
  /\ result' = [result EXCEPT ![c] = "none"]
  /\ UNCHANGED <<app, world, file, todo>>

Load(c, p) ==
  /\ pc[c] = "idle"
  /\ pc' = [pc EXCEPT ![c] = p]
  /\ context' = [context EXCEPT ![c] = file]
  /\ previously' = [previously EXCEPT ![c] = NoKeys]
  /\ missing' = [missing EXCEPT ![c] = {}]
  /\ result' = [result EXCEPT ![c] = "none"]
  /\ UNCHANGED <<app, world, file, todo>>

StartSynth(c) ==
  /\ Load(c, "synthesize")
  /\ \E allowed \in BOOLEAN : lookups' = [lookups EXCEPT ![c] = allowed]
  /\ UNCHANGED target

\* --reset names one key, --clear means all there are.
StartForget(c) ==
  /\ Load(c, "forget")
  /\ \E keys \in {{k} : k \in Keys} \cup {Keys} : target' = [target EXCEPT ![c] = keys]
  /\ UNCHANGED lookups

-----------------------------------------------------------------------------
(* doSynthesize                                                            *)

\* Mutant: only the sizes are compared.
SetsEqualInSize(a, b) == Cardinality(a) = Cardinality(b)

\* Mutant: the sets are compared by identity.
SetsIdentical(a, b) == FALSE

SetsEqual(a, b) == a = b

AppFails(c) ==
  /\ pc[c] = "synthesize"
  /\ End(c, "failed")
  /\ UNCHANGED <<app, world, file, lookups, context, target, missing, previously, todo>>

NothingMissing(c) ==
  /\ pc[c] = "synthesize" /\ Missing(c) = {}
  /\ missing' = [missing EXCEPT ![c] = {}]
  /\ End(c, "complete")
  /\ UNCHANGED <<app, world, file, lookups, context, target, previously, todo>>

LookupsDisabled(c) ==
  /\ pc[c] = "synthesize" /\ Missing(c) # {} /\ ~lookups[c]
  /\ missing' = [missing EXCEPT ![c] = Missing(c)]
  /\ End(c, "failed")
  /\ UNCHANGED <<app, world, file, lookups, context, target, previously, todo>>

GiveUp(c) ==
  /\ pc[c] = "synthesize" /\ Missing(c) # {} /\ lookups[c]
  /\ previously[c] # NoKeys /\ SetsEqual(Missing(c), previously[c])
  /\ missing' = [missing EXCEPT ![c] = Missing(c)]
  /\ previously' = [previously EXCEPT ![c] = Missing(c)]
  /\ End(c, "incomplete")
  /\ UNCHANGED <<app, world, file, lookups, context, target, todo>>

TryLookup(c) ==
  /\ pc[c] = "synthesize" /\ Missing(c) # {} /\ lookups[c]
  /\ ~(previously[c] # NoKeys /\ SetsEqual(Missing(c), previously[c]))
  /\ missing' = [missing EXCEPT ![c] = Missing(c)]
  /\ previously' = [previously EXCEPT ![c] = Missing(c)]
  /\ todo' = [todo EXCEPT ![c] = Missing(c)]
  /\ Goto(c, "lookup")
  /\ UNCHANGED <<app, world, file, lookups, context, target>>

\* provideContextValues looks the keys up one by one; one that fails gets an
\* error for its value.
Lookup(c, k) ==
  /\ pc[c] = "lookup" /\ k \in todo[c]
  /\ \E v \in {world[k], Failure} : context' = [context EXCEPT ![c][k] = v]
  /\ todo' = [todo EXCEPT ![c] = @ \ {k}]
  /\ Goto(c, IF todo[c] = {k} THEN "save" ELSE "lookup")
  /\ UNCHANGED <<app, world, file, lookups, target, missing, previously>>

\* A provider this CLI does not have: nothing of this round is saved.
UnknownProvider(c) ==
  /\ pc[c] = "lookup"
  /\ todo' = [todo EXCEPT ![c] = {}]
  /\ End(c, "failed")
  /\ UNCHANGED <<app, world, file, lookups, context, target, missing, previously>>

\* Mutant: nothing is saved if a lookup failed.
SaveUnlessFailed(c) ==
  /\ pc[c] = "save"
  /\ file' = IF \E k \in Keys : context[c][k] = Failure THEN file ELSE Saved(context[c])
  /\ Goto(c, "synthesize")
  /\ UNCHANGED <<app, world, lookups, context, target, missing, previously, todo>>

Save(c) ==
  /\ pc[c] = "save"
  /\ file' = Saved(context[c])
  /\ Goto(c, "synthesize")
  /\ UNCHANGED <<app, world, lookups, context, target, missing, previously, todo>>

-----------------------------------------------------------------------------
(* cdk context: values are erased from the project context only.           *)

Forget(c) ==
  /\ pc[c] = "forget"
  /\ context' = [context EXCEPT ![c] =
       [k \in Keys |-> IF k \in target[c] THEN Absent ELSE context[c][k]]]
  /\ file' = Saved(context'[c])
  /\ End(c, "forgotten")
  /\ UNCHANGED <<app, world, lookups, target, missing, previously, todo>>

-----------------------------------------------------------------------------
Step(c) ==
  \/ AppFails(c) \/ NothingMissing(c) \/ LookupsDisabled(c) \/ GiveUp(c) \/ TryLookup(c)
  \/ \E k \in Keys : Lookup(c, k)
  \/ UnknownProvider(c) \/ Save(c) \/ Forget(c)

Next ==
  \/ WorldChanges
  \/ \E c \in Commands : StartSynth(c) \/ StartForget(c) \/ Step(c)

Spec == Init /\ [][Next]_vars

\* The app and every lookup end, the file can be written.
FairSpec == Spec /\ \A c \in Commands : WF_vars(Step(c))

-----------------------------------------------------------------------------
(* Properties.                                                             *)

Alone == \A c, d \in Commands : c = d

\* The loop gives up, and the app is used with dummy values, only if there is
\* nothing left to try: the lookup of every key still missing has failed
\* (doSynthesize, lines 79-98).
GivesUpOnlyWhenStuck ==
  \A c \in Commands : result[c] = "incomplete" =>
    missing[c] # {} /\ \A k \in missing[c] : context[c][k] = Failure

\* Why: from the second pass on every key of the previous one has been tried.
Tried(c) ==
  pc[c] \in {"synthesize", "lookup", "save"} /\ previously[c] # NoKeys =>
    \A k \in previously[c] \ todo[c] : context[c][k] # Absent
AllTried(c) == /\ pc[c] # "lookup" => todo[c] = {}
               /\ pc[c] # "idle" => result[c] = "none"
StuckInv ==
  TypeOK /\ GivesUpOnlyWhenStuck /\ \A c \in Commands : Tried(c) /\ AllTried(c)

\* After a synthesis that was not cut short the file holds every value the app
\* was given, and no failure: the next synthesis looks up nothing it knows.
SynthesisIsCached ==
  Alone => \A c \in Commands : result[c] \in {"complete", "incomplete"} =>
    file = Saved(context[c])

\* A value once in the file stays the same, whatever the environment does, until
\* it is reset; the file makes synthesis repeatable.
CachedValuesStay ==
  [][Alone => \A k \in Keys : file[k] # Absent /\ file'[k] # file[k] =>
       \E c \in Commands : pc[c] = "forget" /\ k \in target[c]]_vars

\* Why: a lone command has the file in memory, and looks up only what is not in it.
HasFile(c) ==
  /\ pc[c] \in {"synthesize", "forget"} \/ result[c] \in {"complete", "incomplete"} =>
       file = Saved(context[c])
  /\ pc[c] \in {"lookup", "save"} =>
       \A k \in Keys : file[k] # Absent => context[c][k] = file[k] /\ k \notin todo[c]
CachedInv == Alone => \A c \in Commands : HasFile(c)

\* The loop ends for every app, although lookups may fail or succeed later.
SynthesisEnds == \A c \in Commands : pc[c] # "idle" ~> pc[c] = "idle"

=============================================================================
