------------------------------ MODULE Toolkit ------------------------------
(***************************************************************************)
(* `cdk deploy` and `cdk destroy` over the stacks of a cloud assembly:     *)
(*   - the assembly sorts its artifacts (cx-api/lib/toposort.ts);          *)
(*   - the patterns on the command line select stacks, and the selection   *)
(*     is extended along the dependencies (CloudAssembly.selectStacks,     *)
(*     aws-cdk/lib/api/cxapp/cloud-assembly.ts);                           *)
(*   - the selected stacks are deployed one after the other, or destroyed  *)
(*     in the opposite order, until one fails (aws-cdk/lib/cdk-toolkit.ts).*)
(*                                                                         *)
(* Artifact ids and stack names are numbers; the sort compares ids by <.   *)
(* A pattern is the set of the ids it matches.  Deploying or destroying    *)
(* one stack, which DeployStack models, is one step here; every deployment *)
(* executes its change set and an outputs file is asked for.               *)
(***************************************************************************)
EXTENDS Integers, Sequences, FiniteSets

CONSTANTS Stacks,    \* the artifact ids of the app's stacks
          Names,     \* stack names, from the same alphabet as the ids
          Envs,      \* environments: an account and a region
          Apps,      \* the assemblies considered
          Commands   \* the command lines considered

ASSUME StacksAssumption == Stacks \subseteq Nat /\ IsFiniteSet(Stacks) /\ Stacks # {}

\* What matters of an assembly: for every stack its name, environment and
\* dependencies, whether its template is empty and whether it has outputs.
App == [name : [Stacks -> Names], env : [Stacks -> Envs],
        deps : [Stacks -> SUBSET Stacks], empty : SUBSET Stacks, outputs : SUBSET Stacks]

\* The patterns are unique as texts (line 72), not as sets.
Command == [op : {"deploy", "destroy"}, patterns : Seq(SUBSET Stacks), exclusively : BOOLEAN]

ASSUME InputsAssumption == Apps \subseteq App /\ Commands \subseteq Command

VARIABLES
  app, command,
  phase,      \* "sort", "select", "extend", "run", "end"
  passes,     \* how many passes the sort has made
  round,      \* the pass that placed a stack; 0: not placed yet
  picked,     \* how many patterns have been looked at
  selected,   \* selectedStacks
  done,       \* the stacks the command has dealt with
  cloud,      \* the deployed stacks: which artifact stands under a name, where
  outputs,    \* stackOutputs: the artifact whose outputs a name stands for
  file,       \* the outputs file
  result      \* "", or how the command ended

vars == <<app, command, phase, passes, round, picked, selected, done, cloud, outputs, file, result>>
inputs == <<app, command>>

None == -1
Slot(s) == <<app.name[s], app.env[s]>>
Slots == Names \X Envs

TypeOK ==
  /\ app \in Apps /\ command \in Commands
  /\ phase \in {"sort", "select", "extend", "run", "end"}
  /\ passes \in Nat /\ round \in [Stacks -> Nat]
  /\ picked \in Nat
  /\ selected \subseteq Stacks /\ done \subseteq Stacks
  /\ cloud \in [Slots -> Stacks \cup {None}]
  /\ outputs \in [Names -> Stacks \cup {None}]
  /\ file \in [Names -> Stacks \cup {None}]
  /\ result \in
       {"", "unsortable", "ambiguous", "noMatch", "nestedNoMatch", "failed", "declined", "ok"}

\* Any of the app's stacks may have been deployed by an earlier command.
Init ==
  /\ app \in Apps /\ command \in Commands
  /\ phase = "sort" /\ result = ""
  /\ passes = 0 /\ round = [s \in Stacks |-> 0]
  /\ picked = 0 /\ selected = {} /\ done = {}
  /\ \E before \in SUBSET Stacks :
       cloud = [k \in Slots |-> IF \E s \in before : Slot(s) = k
                                THEN CHOOSE s \in before : Slot(s) = k ELSE None]
  /\ outputs = [n \in Names |-> None]
  /\ file = [n \in Names |-> None]

End(r) == phase' = "end" /\ result' = r

-----------------------------------------------------------------------------
(* The order of the artifacts.                                             *)

Remaining == {s \in Stacks : round[s] = 0}

\* Mutant: the sort does not look at the dependencies.
SelectableInAnyOrder == Remaining

Selectable == {s \in Remaining : app.deps[s] \cap Remaining = {}}

\* One pass of the sort places everything whose dependencies are placed.
SortPass ==
  /\ phase = "sort" /\ Selectable # {}
  /\ passes' = passes + 1
  /\ round' = [s \in Stacks |-> IF s \in Selectable THEN passes + 1 ELSE round[s]]
  /\ UNCHANGED <<inputs, phase, picked, selected, done, cloud, outputs, file, result>>

\* Mutant: the sort does not notice that it makes no progress.
UnsortableGoesOn ==
  /\ phase = "sort" /\ Remaining # {} /\ Selectable = {}
  /\ UNCHANGED vars

\* There is a circle.
Unsortable ==
  /\ phase = "sort" /\ Remaining # {} /\ Selectable = {}
  /\ End("unsortable")
  /\ UNCHANGED <<inputs, passes, round, picked, selected, done, cloud, outputs, file>>

\* The position in the sorted array: by pass, and by id within a pass.
Before(s, t) == round[s] < round[t] \/ (round[s] = round[t] /\ s < t)

Sorted ==
  /\ phase = "sort" /\ Remaining = {}
  /\ phase' = "select"
  /\ UNCHANGED <<inputs, passes, round, picked, selected, done, cloud, outputs, file, result>>

-----------------------------------------------------------------------------
(* selectStacks                                                            *)

\* Without patterns the app must have a single stack, which is taken as it is.
SelectDefault ==
  /\ phase = "select" /\ command.patterns = <<>>
  /\ IF Cardinality(Stacks) = 1
     THEN selected' = Stacks /\ phase' = "run" /\ UNCHANGED result
     ELSE End("ambiguous") /\ UNCHANGED selected
  /\ UNCHANGED <<inputs, passes, round, picked, done, cloud, outputs, file>>

\* A pattern counts as found only if it adds a stack.
Found == command.patterns[picked + 1] \ selected

SelectPattern ==
  /\ phase = "select" /\ picked < Len(command.patterns) /\ Found # {}
  /\ selected' = selected \cup Found
  /\ picked' = picked + 1
  /\ UNCHANGED <<inputs, phase, passes, round, done, cloud, outputs, file, result>>

NoStackFound ==
  /\ phase = "select" /\ picked < Len(command.patterns) /\ Found = {}
  /\ End("noMatch")
  /\ UNCHANGED <<inputs, passes, round, picked, selected, done, cloud, outputs, file>>

Selected ==
  /\ phase = "select" /\ command.patterns # <<>> /\ picked = Len(command.patterns)
  /\ phase' = IF command.exclusively THEN "run" ELSE "extend"
  /\ UNCHANGED <<inputs, passes, round, picked, selected, done, cloud, outputs, file, result>>

\* The stacks the extension would still add: dependencies of selected stacks to
\* deploy them, dependents to destroy them.
Missing ==
  {s \in Stacks \ selected :
     IF command.op = "deploy" THEN \E t \in selected : s \in app.deps[t]
                              ELSE app.deps[s] \cap selected # {}}

\* Mutant: one pass over the stacks instead of a loop.
ExtendOnce ==
  /\ phase = "extend"
  /\ selected' = selected \cup Missing
  /\ phase' = "run"
  /\ UNCHANGED <<inputs, passes, round, picked, done, cloud, outputs, file, result>>

\* The loops add them one at a time, until a pass makes no progress.
Extend ==
  /\ phase = "extend"
  /\ IF Missing = {}
     THEN phase' = "run" /\ UNCHANGED selected
     ELSE \E s \in Missing : selected' = selected \cup {s} /\ UNCHANGED phase
  /\ UNCHANGED <<inputs, passes, round, picked, done, cloud, outputs, file, result>>

-----------------------------------------------------------------------------
(* deploy and destroy                                                      *)

Todo == selected \ done
IsFirst(s) == s \in Todo /\ \A t \in Todo \ {s} : Before(s, t)

\* Mutant: the stacks to destroy are not reversed.
IsLastUnreversed(s) == IsFirst(s)

IsLast(s) == s \in Todo /\ \A t \in Todo \ {s} : Before(t, s)

Running(op) == phase = "run" /\ command.op = op

\* Mutant: the outputs of the stacks before are dropped.
DeployOneForgets(s) ==
  /\ Running("deploy") /\ IsFirst(s) /\ s \notin app.empty
  /\ cloud' = [cloud EXCEPT ![Slot(s)] = s]
  /\ outputs' = [n \in Names |-> IF s \in app.outputs /\ n = app.name[s] THEN s ELSE None]
  /\ file' = outputs'
  /\ done' = done \cup {s}
  /\ UNCHANGED <<inputs, phase, passes, round, picked, selected, result>>

\* A stack with resources is deployed; then its outputs are noted under its
\* name, and the outputs file is written.
DeployOne(s) ==
  /\ Running("deploy") /\ IsFirst(s) /\ s \notin app.empty
  /\ cloud' = [cloud EXCEPT ![Slot(s)] = s]
  /\ outputs' = IF s \in app.outputs THEN [outputs EXCEPT ![app.name[s]] = s] ELSE outputs
  /\ file' = outputs'
  /\ done' = done \cup {s}
  /\ UNCHANGED <<inputs, phase, passes, round, picked, selected, result>>

\* Its deployment fails: the outputs so far are written and the command ends.
DeployOneFails(s) ==
  /\ Running("deploy") /\ IsFirst(s) /\ s \notin app.empty
  /\ file' = outputs
  /\ End("failed")
  /\ UNCHANGED <<inputs, passes, round, picked, selected, done, cloud, outputs>>

\* It never starts: no environment, no approval by the user, or, before the
\* first one, errors in the metadata of the selected stacks.
Refused(s) ==
  /\ Running("deploy") /\ IsFirst(s)
  /\ End("failed")
  /\ UNCHANGED <<inputs, passes, round, picked, selected, done, cloud, outputs, file>>

\* Mutant: the nested destroy() is not exclusive.
SelectedWithDependents(s) == {t \in Stacks : t = app.name[s] \/ app.name[s] \in app.deps[t]}

\* A stack without resources is not deployed; if it exists it is destroyed, by a
\* nested destroy() that gets its name as the pattern.
SelectedByName(s) == {t \in Stacks : t = app.name[s]}

DeployEmpty(s) ==
  /\ Running("deploy") /\ IsFirst(s) /\ s \in app.empty
  /\ LET targets == IF cloud[Slot(s)] = None THEN {} ELSE SelectedByName(s) IN
       cloud' = [k \in Slots |-> IF \E t \in targets : Slot(t) = k THEN None ELSE cloud[k]]
  /\ cloud[Slot(s)] # None => SelectedByName(s) # {}
  /\ done' = done \cup {s}
  /\ UNCHANGED <<inputs, phase, passes, round, picked, selected, outputs, file, result>>

\* The nested destroy() selects nothing, or fails.
DeployEmptyFails(s) ==
  /\ Running("deploy") /\ IsFirst(s) /\ s \in app.empty /\ cloud[Slot(s)] # None
  /\ End(IF SelectedByName(s) = {} THEN "nestedNoMatch" ELSE "failed")
  /\ UNCHANGED <<inputs, passes, round, picked, selected, done, cloud, outputs, file>>

DestroyOne(s) ==
  /\ Running("destroy") /\ IsLast(s)
  /\ cloud' = [cloud EXCEPT ![Slot(s)] = None]
  /\ done' = done \cup {s}
  /\ UNCHANGED <<inputs, phase, passes, round, picked, selected, outputs, file, result>>

DestroyOneFails(s) ==
  /\ Running("destroy") /\ IsLast(s)
  /\ End("failed")
  /\ UNCHANGED <<inputs, passes, round, picked, selected, done, cloud, outputs, file>>

\* The user does not confirm the destruction.
Declined ==
  /\ Running("destroy") /\ done = {}
  /\ End("declined")
  /\ UNCHANGED <<inputs, passes, round, picked, selected, done, cloud, outputs, file>>

Finish ==
  /\ phase = "run" /\ Todo = {}
  /\ End("ok")
  /\ UNCHANGED <<inputs, passes, round, picked, selected, done, cloud, outputs, file>>

Next ==
  \/ SortPass \/ Unsortable \/ Sorted
  \/ SelectDefault \/ SelectPattern \/ NoStackFound \/ Selected \/ Extend
  \/ \E s \in Stacks : \/ DeployOne(s) \/ DeployOneFails(s) \/ Refused(s)
                       \/ DeployEmpty(s) \/ DeployEmptyFails(s)
                       \/ DestroyOne(s) \/ DestroyOneFails(s)
  \/ Declined \/ Finish

Spec == Init /\ [][Next]_vars

\* A command is a single thread that goes on until it ends.
FairSpec == Spec /\ WF_vars(Next)

-----------------------------------------------------------------------------
(* Properties.                                                             *)

\* No stack is deployed before a stack it depends on: with the whole app at hand
\* all its dependencies come first, with --exclusively those that were selected
\* (deploy, lines 133-232, over the sorted and extended selection).
AfterDependencies(s) ==
  /\ app.deps[s] \cap selected \subseteq done
  /\ ~command.exclusively => app.deps[s] \subseteq selected

\* No stack is destroyed before the stacks that depend on it (destroy, lines
\* 235-264).
AfterDependents(s) ==
  \A t \in Stacks : s \in app.deps[t] =>
    /\ t \in selected => t \in done
    /\ ~command.exclusively => t \in selected

\* Both orders, across the sort, the extension of the selection and its reversal.
StacksInOrder ==
  [][\A s \in done' \ done :
       IF command.op = "deploy" THEN AfterDependencies(s) ELSE AfterDependents(s)]_vars

\* The extended selection is the least one that holds what the patterns match
\* and is closed under dependencies (or dependents): the loops of
\* includeUpstreamStacks and includeDownstreamStacks neither stop early nor
\* overshoot.
Matched == UNION {command.patterns[i] : i \in 1..Len(command.patterns)}
Closed(T) ==
  IF command.op = "deploy" THEN \A s \in T : app.deps[s] \subseteq T
                           ELSE \A s \in Stacks : app.deps[s] \cap T # {} => s \in T
SelectionIsClosure ==
  phase = "run" /\ command.patterns # <<>> =>
    IF command.exclusively THEN selected = Matched
    ELSE /\ Matched \subseteq selected /\ Closed(selected)
         /\ \A T \in SUBSET selected : Matched \subseteq T /\ Closed(T) => T = selected

\* A selector is rejected as matching no stack only if it matches none, or none
\* that an earlier selector does not match as well (selectStacks, lines 102-117:
\* for the latter the error is wrong).  What the extension will add does not count.
Earlier == UNION {command.patterns[i] : i \in 1..picked}
RejectedPatternAddsNothing ==
  result = "noMatch" => command.patterns[picked + 1] \subseteq Earlier

\* The outputs of every stack that was deployed are in the outputs file, also
\* when a later stack failed (deploy, lines 203-231); two stacks of one name
\* overwrite each other.
HasOwnName(s) == \A t \in Stacks \ {s} : app.name[t] # app.name[s]
OutputsFileIsComplete ==
  \A s \in done \cap app.outputs :
    command.op = "deploy" /\ s \notin app.empty /\ HasOwnName(s) => file[app.name[s]] = s

\* Deploying a stack that has lost its resources destroys this stack, if it is
\* there, and no other (deploy, lines 140-154); so it does if the stack is named
\* after its id.
EmptyStackIsDestroyed ==
  [][\A s \in (done' \ done) \cap app.empty :
       command.op = "deploy" /\ app.name[s] = s =>
         cloud' = [cloud EXCEPT ![Slot(s)] = None]]_vars

\* Why the stacks are in order.  A pass of the sort places a stack only
\* after all its dependencies; nothing is selected before all are placed; and the
\* selection that is run is closed, unless it is exclusive.
SortedSoFar ==
  \A s \in Stacks : round[s] # 0 =>
    /\ round[s] <= passes
    /\ \A d \in app.deps[s] : round[d] # 0 /\ round[d] < round[s]
AllPlaced == phase \in {"select", "extend", "run"} => Remaining = {}
ClosedWhenRun == phase = "run" /\ ~command.exclusively => Closed(selected)
OrderInv == TypeOK /\ SortedSoFar /\ AllPlaced /\ ClosedWhenRun

\* Why the selection is right.  While the patterns are looked at it is what those
\* so far match; the extension adds nothing that a closed selection could miss.
SelectedSoFar ==
  /\ phase # "end" => result = ""
  /\ phase = "sort" => picked = 0 /\ selected = {}
  /\ phase = "select" => picked <= Len(command.patterns) /\ selected = Earlier
LeastSelection ==
  /\ phase = "extend" => ~command.exclusively
  /\ phase \in {"extend", "run"} /\ command.patterns # <<>> =>
       /\ Matched \subseteq selected
       /\ IF command.exclusively THEN selected = Matched
          ELSE \A T \in SUBSET Stacks : Matched \subseteq T /\ Closed(T) => selected \subseteq T
PatternsInv == SelectedSoFar /\ LeastSelection /\ RejectedPatternAddsNothing

\* Why the file is complete: it never lags behind the outputs noted.
OutputsInv ==
  \A s \in done \cap app.outputs :
    command.op = "deploy" /\ s \notin app.empty /\ HasOwnName(s) =>
      outputs[app.name[s]] = s /\ file[app.name[s]] = s

\* What a run of the command rests on: the sorted stacks and their selection.
SelectionInv == OrderInv /\ SelectionIsClosure /\ RejectedPatternAddsNothing

\* Every command ends, whatever the dependencies: the sort and the extension of
\* the selection make progress or stop.
CommandEnds == <>(phase = "end")

=============================================================================
