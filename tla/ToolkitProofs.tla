--------------------------- MODULE ToolkitProofs ---------------------------
(***************************************************************************)
(* The order in which a command deals with the stacks, proved for every    *)
(* assembly and every command line: nothing is deployed before what it     *)
(* depends on, nothing destroyed before what depends on it.  The inductive *)
(* invariant is Toolkit!OrderInv.  Then what is selected (PatternsInv) and *)
(* what is left in the outputs file and in the cloud (OutputsInv).  Last,  *)
(* the command that only compares, `cdk diff': what it reports as replaced *)
(* (TemplateDiff!DiffInv).                                                 *)
(***************************************************************************)
EXTENDS Toolkit, TemplateDiff, SequenceTheorems, TLAPS

\* What an assembly and a command are, and where a stack stands.
LEMMA InputTypes ==
  ASSUME TypeOK
  PROVE  /\ app.name \in [Stacks -> Names]
         /\ app.env \in [Stacks -> Envs]
         /\ app.deps \in [Stacks -> SUBSET Stacks]
         /\ \A s \in Stacks : Slot(s) \in Slots
         /\ command.op \in {"deploy", "destroy"}
         /\ command.exclusively \in BOOLEAN
         /\ command.patterns \in Seq(SUBSET Stacks)
<1>1. app \in App /\ command \in Command
  BY InputsAssumption DEF TypeOK
<1>2. app.name \in [Stacks -> Names] /\ app.env \in [Stacks -> Envs]
  BY <1>1 DEF App
<1>3. \A s \in Stacks : Slot(s) \in Slots
  BY <1>2 DEF Slot, Slots
<1> QED BY <1>1, <1>2, <1>3 DEF App, Command

\* The numbers of the state, apart from its strings.
LEMMA NumberTypes ==
  ASSUME TypeOK
  PROVE  /\ passes \in Nat /\ picked \in Nat
         /\ round \in [Stacks -> Nat]
BY DEF TypeOK

\* What a pass of the sort and a pattern do to the numbers.
LEMMA NumberSteps ==
  ASSUME TypeOK
  PROVE  /\ SortPass => passes' \in Nat /\ round' \in [Stacks -> Nat]
         /\ SelectPattern => picked' \in Nat /\ picked + 1 \in 1..Len(command.patterns)
<1>1. ASSUME SortPass PROVE passes' \in Nat /\ round' \in [Stacks -> Nat]
  <2>1. passes' = passes + 1 BY <1>1 DEF SortPass
  <2>2. round' = [s \in Stacks |-> IF s \in Selectable THEN passes + 1 ELSE round[s]]
    BY <1>1 DEF SortPass
  <2>3. passes + 1 \in Nat BY NumberTypes
  <2>4. round' \in [Stacks -> Nat] BY <2>2, <2>3, NumberTypes
  <2> QED BY <2>1, <2>3, <2>4
<1>2. ASSUME SelectPattern
      PROVE  picked' \in Nat /\ picked + 1 \in 1..Len(command.patterns)
  <2>1. picked' = picked + 1 /\ picked < Len(command.patterns)
    BY <1>2 DEF SelectPattern
  <2>2. Len(command.patterns) \in Nat BY InputTypes, LenProperties
  <2> QED BY <2>1, <2>2, NumberTypes
<1> QED BY <1>1, <1>2

\* The state stays well typed.
LEMMA TypeStep == TypeOK /\ [Next]_vars => TypeOK'
<1> SUFFICES ASSUME TypeOK, [Next]_vars PROVE TypeOK'
  OBVIOUS
<1> USE InputTypes, StacksAssumption DEF TypeOK, inputs
<1>1. CASE SortPass
  <2>1. passes' \in Nat BY <1>1, NumberSteps
  <2>2. round' \in [Stacks -> Nat] BY <1>1, NumberSteps
  <2>3. UNCHANGED <<app, command, phase, picked, selected, done, cloud, outputs, file, result>>
    BY <1>1 DEF SortPass
  <2> QED BY <2>1, <2>2, <2>3
<1>2. CASE Unsortable \/ Sorted BY <1>2 DEF Unsortable, Sorted, End
<1>3. CASE SelectDefault BY <1>3 DEF SelectDefault, End
<1>4. CASE SelectPattern
  <2>1. command.patterns[picked + 1] \in SUBSET Stacks
    BY <1>4, NumberSteps, ElementOfSeq
  <2>2. selected' \subseteq Stacks BY <1>4, <2>1 DEF SelectPattern, Found
  <2>3. picked' \in Nat BY <1>4, NumberSteps
  <2>4. UNCHANGED <<app, command, phase, passes, round, done, cloud, outputs, file, result>>
    BY <1>4 DEF SelectPattern
  <2> QED BY <2>2, <2>3, <2>4
<1>5. CASE NoStackFound \/ Selected BY <1>5 DEF NoStackFound, Selected, End
<1>6. CASE Extend BY <1>6 DEF Extend, Missing
<1>7. ASSUME NEW s \in Stacks, DeployOne(s) PROVE TypeOK' BY <1>7 DEF DeployOne
<1>8. ASSUME NEW s \in Stacks, DeployOneFails(s) PROVE TypeOK'
  BY <1>8 DEF DeployOneFails, End
<1>9. ASSUME NEW s \in Stacks, Refused(s) PROVE TypeOK' BY <1>9 DEF Refused, End
<1>10. ASSUME NEW s \in Stacks, DeployEmpty(s) PROVE TypeOK' BY <1>10 DEF DeployEmpty
<1>11. ASSUME NEW s \in Stacks, DeployEmptyFails(s) PROVE TypeOK'
  BY <1>11 DEF DeployEmptyFails, End
<1>12. ASSUME NEW s \in Stacks, DestroyOne(s) PROVE TypeOK' BY <1>12 DEF DestroyOne
<1>13. ASSUME NEW s \in Stacks, DestroyOneFails(s) PROVE TypeOK'
  BY <1>13 DEF DestroyOneFails, End
<1>14. CASE Declined BY <1>14 DEF Declined, End
<1>15. CASE Finish BY <1>15 DEF Finish, End
<1>16. CASE UNCHANGED vars BY <1>16 DEF vars
<1> QED
  BY <1>1, <1>2, <1>3, <1>4, <1>5, <1>6, <1>7, <1>8, <1>9, <1>10, <1>11, <1>12, <1>13,
     <1>14, <1>15, <1>16 DEF Next

\* The steps after the sort leave the order alone, the steps of the run also the
\* selection.
LEMMA StepKinds ==
  ASSUME TypeOK, [Next]_vars
  PROVE  \/ SortPass
         \/ UNCHANGED <<inputs, passes, round>> /\ (Sorted \/ SelectDefault)
         \/ UNCHANGED <<inputs, passes, round>> /\ (SelectPattern \/ Selected \/ Extend)
         \/ /\ UNCHANGED <<inputs, passes, round, selected>>
            /\ phase' = phase \/ phase' = "end"
<1>1. CASE Unsortable \/ Sorted BY <1>1 DEF Unsortable, Sorted, End
<1>2. CASE SelectDefault BY <1>2 DEF SelectDefault
<1>3. CASE SelectPattern \/ NoStackFound BY <1>3 DEF SelectPattern, NoStackFound, End
<1>4. CASE Selected BY <1>4 DEF Selected
<1>5. CASE Extend BY <1>5 DEF Extend
<1>6. ASSUME NEW s \in Stacks,
             DeployOne(s) \/ DeployOneFails(s) \/ Refused(s) \/ DeployEmpty(s)
               \/ DeployEmptyFails(s) \/ DestroyOne(s) \/ DestroyOneFails(s)
      PROVE  UNCHANGED <<inputs, passes, round, selected>> /\ (phase' = phase \/ phase' = "end")
  BY <1>6 DEF DeployOne, DeployOneFails, Refused, DeployEmpty, DeployEmptyFails,
              DestroyOne, DestroyOneFails, End
<1>7. CASE Declined BY <1>7 DEF Declined, End
<1>8. CASE Finish BY <1>8 DEF Finish, End
<1>9. CASE UNCHANGED vars BY <1>9 DEF vars, inputs
<1> QED BY <1>1, <1>2, <1>3, <1>4, <1>5, <1>6, <1>7, <1>8, <1>9 DEF Next

\* A pass of the sort places after all their dependencies the stacks it places.
LEMMA SortStep ==
  ASSUME TypeOK, SortedSoFar, [Next]_vars
  PROVE  SortedSoFar'
<1>1. CASE SortPass
  <2>1. /\ app' = app /\ passes' = passes + 1
        /\ round' = [s \in Stacks |-> IF s \in Selectable THEN passes + 1 ELSE round[s]]
    BY <1>1 DEF SortPass, inputs
  <2> SUFFICES ASSUME NEW s \in Stacks, round'[s] # 0
               PROVE  /\ round'[s] <= passes'
                      /\ \A d \in app.deps[s] : round'[d] # 0 /\ round'[d] < round'[s]
    BY <2>1 DEF SortedSoFar
  <2>2. app.deps[s] \subseteq Stacks BY InputTypes
  <2>3. \A d \in Stacks : round[d] \in Nat /\ round[d] <= passes
    BY NumberTypes DEF SortedSoFar
  <2>4. CASE s \in Selectable
    <3>1. \A d \in app.deps[s] : round[d] # 0 /\ d \notin Selectable
      BY <2>2, <2>4 DEF Selectable, Remaining
    <3>2. \A d \in app.deps[s] : round'[d] = round[d] BY <2>1, <2>2, <3>1
    <3>3. round'[s] = passes + 1 BY <2>1, <2>4
    <3>4. \A d \in app.deps[s] : round[d] \in Nat /\ round[d] <= passes BY <2>2, <2>3
    <3> QED BY <2>1, <3>1, <3>2, <3>3, <3>4, NumberTypes
  <2>5. CASE s \notin Selectable
    <3>1. round[s] # 0 /\ round'[s] = round[s] BY <2>1, <2>5
    <3>2. \A d \in app.deps[s] : round[d] # 0 /\ round[d] < round[s]
      BY <3>1 DEF SortedSoFar
    <3>3. \A d \in app.deps[s] : round'[d] = round[d]
      BY <2>1, <2>2, <3>2 DEF Selectable, Remaining
    <3> QED BY <2>1, <2>3, <3>1, <3>2, <3>3, <2>2, NumberTypes
  <2> QED BY <2>4, <2>5
<1>2. CASE UNCHANGED <<app, passes, round>> BY <1>2 DEF SortedSoFar
<1> QED BY <1>1, <1>2, StepKinds DEF SortPass, inputs

\* Once the sort is over every stack has its place.
LEMMA PlacedStep ==
  ASSUME TypeOK, AllPlaced, [Next]_vars
  PROVE  AllPlaced'
<1>1. CASE SortPass
  BY <1>1 DEF SortPass, AllPlaced
<1>2. CASE UNCHANGED round
  <2>1. Remaining' = Remaining BY <1>2 DEF Remaining
  <2>2. CASE Sorted BY <2>1, <2>2 DEF Sorted, AllPlaced
  <2>3. CASE SelectDefault BY <2>1, <2>3 DEF SelectDefault, AllPlaced, End
  <2>4. CASE SelectPattern BY <2>1, <2>4 DEF SelectPattern, AllPlaced, End
  <2>5. CASE Selected BY <2>1, <2>5 DEF Selected, AllPlaced
  <2>6. CASE Extend BY <2>1, <2>6 DEF Extend, AllPlaced
  <2>7. CASE phase' = phase \/ phase' = "end" BY <2>1, <2>7 DEF AllPlaced
  <2> QED BY <1>1, <2>2, <2>3, <2>4, <2>5, <2>6, <2>7, StepKinds
<1> QED BY <1>1, <1>2, StepKinds

\* The selection is closed when the extension stops.
LEMMA ClosedStep ==
  ASSUME TypeOK, ClosedWhenRun, [Next]_vars
  PROVE  ClosedWhenRun'
<1> USE InputTypes
<1>1. CASE SortPass BY <1>1 DEF SortPass, ClosedWhenRun
<1>2. CASE Sorted BY <1>2 DEF Sorted, ClosedWhenRun
<1>3. CASE SelectDefault
  BY <1>3 DEF SelectDefault, ClosedWhenRun, Closed, End, inputs
<1>4. CASE SelectPattern BY <1>4 DEF SelectPattern, ClosedWhenRun, End
<1>5. CASE Selected BY <1>5 DEF Selected, ClosedWhenRun, inputs
<1>6. CASE Extend
  BY <1>6 DEF Extend, Missing, ClosedWhenRun, Closed, inputs, TypeOK
<1>7. CASE UNCHANGED <<inputs, selected>> /\ (phase' = phase \/ phase' = "end")
  BY <1>7 DEF ClosedWhenRun, Closed, inputs
<1> QED BY <1>1, <1>2, <1>3, <1>4, <1>5, <1>6, <1>7, StepKinds

\* OrderInv holds at the start and every step keeps it.
LEMMA OrderInvariant == Spec => []OrderInv
<1>1. Init => OrderInv
  <2> SUFFICES ASSUME Init PROVE OrderInv
    OBVIOUS
  <2>1. app \in App BY InputsAssumption DEF Init
  <2>2. \A s \in Stacks : Slot(s) \in Slots BY <2>1 DEF App, Slot, Slots
  <2>3. cloud \in [Slots -> Stacks \cup {None}]
    BY <2>2 DEF Init
  <2>4. TypeOK BY <2>3 DEF Init, TypeOK
  <2> QED BY <2>4 DEF Init, OrderInv, SortedSoFar, AllPlaced, ClosedWhenRun
<1>2. OrderInv /\ [Next]_vars => OrderInv'
  BY TypeStep, SortStep, PlacedStep, ClosedStep DEF OrderInv
<1> QED BY <1>1, <1>2, PTL DEF Spec

\* Every state of every run has the types TypeOK gives the variables.
THEOREM ToolkitTypeCorrect == Spec => []TypeOK
<1>1. OrderInv => TypeOK BY DEF OrderInv
<1> QED BY <1>1, OrderInvariant, PTL

\* A step that deals with a stack: it is the first or the last of those left.
LEMMA DealsWith ==
  ASSUME OrderInv, [Next]_vars, NEW s \in done' \ done
  PROVE  /\ s \in Stacks /\ phase = "run" /\ UNCHANGED <<app, command, selected, round>>
         /\ command.op = "deploy" => IsFirst(s)
         /\ command.op = "destroy" => IsLast(s)
<1>1. ASSUME NEW t \in Stacks, DeployOne(t) \/ DeployEmpty(t) \/ DestroyOne(t)
      PROVE  /\ s = t /\ phase = "run" /\ UNCHANGED <<app, command, selected, round>>
             /\ command.op = "deploy" => IsFirst(s)
             /\ command.op = "destroy" => IsLast(s)
  BY <1>1 DEF DeployOne, DeployEmpty, DestroyOne, Running, inputs
<1>2. CASE UNCHANGED done BY <1>2
<1> QED
  BY <1>1, <1>2 DEF Next, SortPass, Unsortable, Sorted, SelectDefault, SelectPattern,
    NoStackFound, Selected, Extend, DeployOneFails, Refused, DeployEmptyFails, DestroyOneFails, Declined, Finish, vars

\* No stack is deployed before a stack it depends on, and none is destroyed before
\* the stacks that depend on it, in any app with any dependencies, under any
\* command line.
THEOREM CommandsKeepOrder == Spec => StacksInOrder
<1> DEFINE Step ==
      \A s \in done' \ done :
        IF command.op = "deploy" THEN AfterDependencies(s) ELSE AfterDependents(s)
<1>1. OrderInv /\ [Next]_vars => Step
  <2> SUFFICES ASSUME OrderInv, [Next]_vars, NEW s \in done' \ done
               PROVE  IF command.op = "deploy" THEN AfterDependencies(s) ELSE AfterDependents(s)
    OBVIOUS
  <2>0. command.op \in {"deploy", "destroy"} BY InputTypes DEF OrderInv
  <2>1. s \in Stacks /\ phase = "run" /\ s \in Todo
    BY <2>0, DealsWith DEF IsFirst, IsLast
  <2>2. CASE command.op = "deploy"
    <3>1. IsFirst(s) BY DealsWith, <2>2
    <3>2. \A d \in app.deps[s] : d \in Stacks /\ round[d] \in Nat /\ round[d] < round[s]
      BY <2>1, InputTypes DEF OrderInv, SortedSoFar, AllPlaced, Remaining, TypeOK
    <3>3. round[s] \in Nat BY <2>1 DEF OrderInv, TypeOK
    <3>4. ASSUME NEW d \in app.deps[s], d \in selected, d \notin done PROVE FALSE
      <4>1. d \in Todo /\ d # s BY <3>2, <3>3, <3>4 DEF Todo
      <4>2. Before(s, d) BY <3>1, <4>1 DEF IsFirst
      <4> QED BY <3>2, <3>3, <4>2 DEF Before
    <3>5. ~command.exclusively => app.deps[s] \subseteq selected
      BY <2>1, <2>2 DEF OrderInv, ClosedWhenRun, Closed, Todo
    <3> QED BY <2>2, <3>4, <3>5 DEF AfterDependencies
  <2>3. CASE command.op # "deploy"
    <3>1. command.op = "destroy" BY <2>0, <2>3
    <3>2. IsLast(s) BY DealsWith, <3>1
    <3> SUFFICES ASSUME NEW t \in Stacks, s \in app.deps[t]
                 PROVE  /\ t \in selected => t \in done
                        /\ ~command.exclusively => t \in selected
      BY <2>3 DEF AfterDependents
    <3>3. round[s] \in Nat /\ round[t] \in Nat /\ round[s] < round[t]
      BY <2>1 DEF OrderInv, SortedSoFar, AllPlaced, Remaining, TypeOK
    <3>4. ASSUME t \in selected, t \notin done PROVE FALSE
      <4>1. t \in Todo /\ t # s BY <3>3, <3>4 DEF Todo
      <4>2. Before(t, s) BY <3>2, <4>1 DEF IsLast
      <4> QED BY <3>3, <4>2 DEF Before
    <3>5. ~command.exclusively => t \in selected
      BY <2>1, <3>1 DEF OrderInv, ClosedWhenRun, Closed, Todo
    <3> QED BY <3>4, <3>5
  <2> QED BY <2>2, <2>3
<1>2. OrderInv /\ [Next]_vars => [Step]_vars BY <1>1
<1> QED BY <1>2, OrderInvariant, PTL DEF Spec, StacksInOrder

-----------------------------------------------------------------------------
(* What is selected.                                                       *)

\* What the next pattern adds to what those before it match.
LEMMA NextPattern ==
  ASSUME TypeOK, picked < Len(command.patterns)
  PROVE  UNION {command.patterns[i] : i \in 1..(picked + 1)} = Earlier \cup command.patterns[picked + 1]
<1>1. picked \in Nat BY NumberTypes
<1>2. 1..(picked + 1) = (1..picked) \cup {picked + 1} BY <1>1
<1> QED BY <1>2 DEF Earlier

\* While the patterns are looked at.
LEMMA SelectedSoFarStep ==
  ASSUME TypeOK, SelectedSoFar, [Next]_vars
  PROVE  SelectedSoFar'
<1>0. command.patterns \in Seq(SUBSET Stacks) /\ picked \in Nat BY InputTypes, NumberTypes
<1>1. CASE SortPass BY <1>1 DEF SortPass, SelectedSoFar
<1>2. CASE Sorted
  <2>1. picked' = 0 /\ selected' = {} /\ phase' = "select" /\ result' = "" /\ command' = command
    BY <1>2 DEF Sorted, SelectedSoFar, inputs
  <2>2. Earlier' = {}
    <3>1. 1..0 = {} OBVIOUS
    <3>2. Earlier' = UNION {command.patterns[i] : i \in 1..0} BY <2>1 DEF Earlier
    <3> QED BY <3>1, <3>2
  <2>3. 0 <= Len(command.patterns) BY <1>0, LenProperties
  <2> QED BY <2>1, <2>2, <2>3 DEF SelectedSoFar
<1>3. CASE SelectPattern
  <2>1. /\ phase = "select" /\ phase' = phase /\ result' = result /\ command' = command
        /\ picked < Len(command.patterns) /\ picked' = picked + 1
        /\ selected' = selected \cup command.patterns[picked + 1]
    BY <1>3 DEF SelectPattern, Found, inputs
  <2>2. Earlier' = selected'
    <3>1. Earlier' = UNION {command.patterns[i] : i \in 1..(picked + 1)} BY <2>1 DEF Earlier
    <3>2. selected = Earlier BY <2>1 DEF SelectedSoFar
    <3>3. UNION {command.patterns[i] : i \in 1..(picked + 1)} = Earlier \cup command.patterns[picked + 1]
      BY <2>1, NextPattern
    <3> QED BY <2>1, <3>1, <3>2, <3>3, Zenon
  <2>3. picked + 1 <= Len(command.patterns) BY <1>0, <2>1, LenProperties
  <2> QED BY <2>1, <2>2, <2>3 DEF SelectedSoFar
<1>4. ASSUME phase' \in {"run", "extend"}, result' = result, phase # "end" PROVE SelectedSoFar'
  BY <1>4 DEF SelectedSoFar
<1>5. CASE phase' = "end" BY <1>5 DEF SelectedSoFar
<1>6. CASE UNCHANGED vars BY <1>6 DEF SelectedSoFar, Earlier, vars, inputs
<1>7. CASE SelectDefault \/ Selected \/ Extend
  BY <1>4, <1>5, <1>7 DEF SelectDefault, Selected, Extend, End
<1>8. CASE Unsortable \/ NoStackFound \/ Declined \/ Finish
  BY <1>5, <1>8 DEF Unsortable, NoStackFound, Declined, Finish, End
<1>9. ASSUME NEW s \in Stacks,
             DeployOne(s) \/ DeployOneFails(s) \/ Refused(s) \/ DeployEmpty(s)
               \/ DeployEmptyFails(s) \/ DestroyOne(s) \/ DestroyOneFails(s)
      PROVE  SelectedSoFar'
  BY <1>4, <1>5, <1>9 DEF DeployOne, DeployOneFails, Refused, DeployEmpty, DeployEmptyFails,
                          DestroyOne, DestroyOneFails, End, Running
<1> QED BY <1>1, <1>2, <1>3, <1>6, <1>7, <1>8, <1>9 DEF Next

\* While the selection is extended, and then.
LEMMA LeastSelectionStep ==
  ASSUME TypeOK, SelectedSoFar, LeastSelection, [Next]_vars
  PROVE  LeastSelection'
<1>1. CASE phase' \notin {"extend", "run"} BY <1>1 DEF LeastSelection
<1>2. CASE SortPass BY <1>1, <1>2 DEF SortPass
<1>3. CASE Sorted BY <1>1, <1>3 DEF Sorted
<1>4. CASE SelectDefault
  BY <1>1, <1>4 DEF SelectDefault, LeastSelection, End, inputs
<1>5. CASE SelectPattern BY <1>1, <1>5 DEF SelectPattern
<1>6. CASE Selected
  <2>1. /\ phase = "select" /\ picked = Len(command.patterns) /\ UNCHANGED <<app, command, selected>>
        /\ phase' = IF command.exclusively THEN "run" ELSE "extend"
    BY <1>6 DEF Selected, inputs
  <2>2. selected = Matched BY <2>1 DEF SelectedSoFar, Earlier, Matched
  <2>3. Matched' = Matched BY <2>1 DEF Matched
  <2> QED BY <2>1, <2>2, <2>3 DEF LeastSelection
<1>7. CASE Extend
  <2>1. /\ phase = "extend" /\ UNCHANGED <<app, command>> /\ ~command.exclusively
        /\ \/ UNCHANGED selected
           \/ \E s \in Missing : selected' = selected \cup {s}
    BY <1>7 DEF Extend, inputs, LeastSelection
  <2>2. Matched' = Matched /\ \A T : Closed(T)' <=> Closed(T) BY <2>1 DEF Matched, Closed
  <2>3. ASSUME command.patterns # <<>>, NEW T \in SUBSET Stacks, Matched \subseteq T, Closed(T)
        PROVE  selected' \subseteq T
    <3>1. selected \subseteq T BY <2>1, <2>3 DEF LeastSelection
    <3>2. Missing \subseteq T BY <2>3, <3>1, InputTypes DEF Missing, Closed
    <3> QED BY <2>1, <3>1, <3>2
  <2>4. command.patterns # <<>> => Matched \subseteq selected' BY <2>1 DEF LeastSelection
  <2> QED BY <2>1, <2>2, <2>3, <2>4 DEF LeastSelection
<1>8. CASE UNCHANGED <<inputs, selected>> /\ (phase' = phase \/ phase' = "end")
  BY <1>8 DEF LeastSelection, Matched, Closed, inputs
<1> QED BY <1>2, <1>3, <1>4, <1>5, <1>6, <1>7, <1>8, StepKinds

\* A pattern is rejected when those before it have selected all it matches, and the
\* command ends with that.
LEMMA RejectedStep ==
  ASSUME TypeOK, SelectedSoFar, RejectedPatternAddsNothing, [Next]_vars
  PROVE  RejectedPatternAddsNothing'
<1>1. CASE NoStackFound
  <2>1. /\ phase = "select" /\ command.patterns[picked + 1] \subseteq selected
        /\ UNCHANGED <<command, picked>>
    BY <1>1 DEF NoStackFound, Found, inputs
  <2> QED BY <2>1 DEF SelectedSoFar, RejectedPatternAddsNothing, Earlier
<1>2. CASE result' # "noMatch" BY <1>2 DEF RejectedPatternAddsNothing
<1>3. CASE UNCHANGED vars BY <1>3 DEF RejectedPatternAddsNothing, Earlier, vars, inputs
<1>4. phase # "end" => result # "noMatch" BY DEF SelectedSoFar
<1>5. CASE SortPass \/ Sorted \/ SelectPattern \/ Selected \/ Extend
  BY <1>2, <1>4, <1>5 DEF SortPass, Sorted, SelectPattern, Selected, Extend
<1>6. CASE SelectDefault \/ Unsortable \/ Declined \/ Finish
  BY <1>2, <1>4, <1>6 DEF SelectDefault, Unsortable, Declined, Finish, End
<1>7. ASSUME NEW s \in Stacks,
             DeployOne(s) \/ DeployOneFails(s) \/ Refused(s) \/ DeployEmpty(s)
               \/ DeployEmptyFails(s) \/ DestroyOne(s) \/ DestroyOneFails(s)
      PROVE  RejectedPatternAddsNothing'
  BY <1>2, <1>4, <1>7 DEF DeployOne, DeployOneFails, Refused, DeployEmpty, DeployEmptyFails,
                          DestroyOne, DestroyOneFails, End, Running
<1> QED BY <1>1, <1>3, <1>5, <1>6, <1>7 DEF Next

\* The stacks that are deployed or destroyed are those the patterns match and what
\* they need (or what needs them), and no others; and a pattern is called unmatched
\* only if it adds nothing, in any app, under any command line.
THEOREM SelectsRight == Spec => []SelectionInv
<1>1. Init => PatternsInv
  BY DEF Init, PatternsInv, SelectedSoFar, LeastSelection, RejectedPatternAddsNothing
<1>2. OrderInv /\ PatternsInv /\ [Next]_vars => PatternsInv'
  BY SelectedSoFarStep, LeastSelectionStep, RejectedStep DEF OrderInv, PatternsInv
<1>3. OrderInv /\ PatternsInv => SelectionInv
  <2> SUFFICES ASSUME OrderInv, PatternsInv PROVE SelectionIsClosure
    BY DEF SelectionInv, PatternsInv
  <2>1. selected \subseteq Stacks BY DEF OrderInv, TypeOK
  <2>2. ASSUME phase = "run", command.patterns # <<>>
        PROVE  IF command.exclusively THEN selected = Matched
               ELSE /\ Matched \subseteq selected /\ Closed(selected)
                    /\ \A T \in SUBSET selected : Matched \subseteq T /\ Closed(T) => T = selected
    <3>1. /\ Matched \subseteq selected
          /\ IF command.exclusively THEN selected = Matched
             ELSE \A T \in SUBSET Stacks : Matched \subseteq T /\ Closed(T) => selected \subseteq T
      BY <2>2 DEF PatternsInv, LeastSelection
    <3>2. ~command.exclusively => Closed(selected) BY <2>2 DEF OrderInv, ClosedWhenRun
    <3> QED BY <2>1, <3>1, <3>2
  <2> QED BY <2>2 DEF SelectionIsClosure
<1> QED BY <1>1, <1>2, <1>3, OrderInvariant, PTL DEF Spec

-----------------------------------------------------------------------------
(* What is left behind.                                                    *)

\* The steps that deal with a stack, and those that do not touch the outputs.
LEMMA OutputsStep ==
  ASSUME TypeOK, OutputsInv, [Next]_vars
  PROVE  OutputsInv'
<1>1. ASSUME UNCHANGED <<app, command, done, outputs>>, file' = file \/ file' = outputs
      PROVE  OutputsInv'
  BY <1>1 DEF OutputsInv, HasOwnName
<1>2. ASSUME NEW s \in Stacks, DeployOne(s) PROVE OutputsInv'
  <2>1. /\ UNCHANGED <<app, command>> /\ done' = done \cup {s} /\ file' = outputs'
        /\ outputs' = IF s \in app.outputs THEN [outputs EXCEPT ![app.name[s]] = s] ELSE outputs
    BY <1>2 DEF DeployOne, inputs
  <2>2. outputs \in [Names -> Stacks \cup {None}] /\ done \subseteq Stacks BY DEF TypeOK
  <2>3. \A t \in Stacks : app.name[t] \in Names BY InputTypes
  <2> SUFFICES ASSUME NEW t \in done' \cap app.outputs, t \notin app.empty, HasOwnName(t),
                      command.op = "deploy"
               PROVE  outputs'[app.name[t]] = t
    BY <2>1 DEF OutputsInv, HasOwnName
  <2>4. CASE t = s BY <2>1, <2>2, <2>3, <2>4
  <2>5. CASE t # s
    <3>1. outputs[app.name[t]] = t BY <2>1, <2>5 DEF OutputsInv
    <3>2. app.name[s] # app.name[t] BY <2>1, <2>2, <2>5 DEF HasOwnName
    <3> QED BY <2>1, <2>2, <2>3, <3>1, <3>2
  <2> QED BY <2>4, <2>5
<1>3. ASSUME NEW s \in Stacks, DeployEmpty(s) PROVE OutputsInv'
  BY <1>3 DEF DeployEmpty, OutputsInv, HasOwnName, inputs
<1>4. ASSUME NEW s \in Stacks, DestroyOne(s) PROVE OutputsInv'
  BY <1>4 DEF DestroyOne, Running, OutputsInv, inputs
<1>5. ASSUME NEW s \in Stacks,
             DeployOneFails(s) \/ Refused(s) \/ DeployEmptyFails(s) \/ DestroyOneFails(s)
      PROVE  OutputsInv'
  BY <1>1, <1>5 DEF DeployOneFails, Refused, DeployEmptyFails, DestroyOneFails, inputs
<1>6. CASE SortPass \/ Unsortable \/ Sorted \/ SelectDefault \/ SelectPattern \/ NoStackFound
             \/ Selected \/ Extend
  BY <1>1, <1>6 DEF SortPass, Unsortable, Sorted, SelectDefault, SelectPattern, NoStackFound, Selected,
                    Extend, inputs
<1>7. CASE Declined \/ Finish BY <1>1, <1>7 DEF Declined, Finish, inputs
<1>8. CASE UNCHANGED vars BY <1>1, <1>8 DEF vars, inputs
<1> QED BY <1>2, <1>3, <1>4, <1>5, <1>6, <1>7, <1>8 DEF Next

\* The outputs file has the outputs of every stack that was deployed, whatever
\* fails later.
THEOREM OutputsAreWritten == Spec => []OutputsFileIsComplete
<1>1. Init => OutputsInv BY DEF Init, OutputsInv
<1>2. OutputsInv => OutputsFileIsComplete BY DEF OutputsInv, OutputsFileIsComplete
<1> QED BY <1>1, <1>2, OutputsStep, ToolkitTypeCorrect, PTL DEF Spec

\* The nested destroy removes a stack that has lost its resources, if it is named
\* after its id, and nothing else.
THEOREM EmptyStacksGo == Spec => EmptyStackIsDestroyed
<1> DEFINE Step == \A s \in (done' \ done) \cap app.empty :
                     command.op = "deploy" /\ app.name[s] = s =>
                       cloud' = [cloud EXCEPT ![Slot(s)] = None]
<1>1. OrderInv /\ [Next]_vars => Step
  <2> SUFFICES ASSUME OrderInv, [Next]_vars, NEW s \in (done' \ done) \cap app.empty,
                      command.op = "deploy", app.name[s] = s
               PROVE  cloud' = [cloud EXCEPT ![Slot(s)] = None]
    OBVIOUS
  <2>0. TypeOK BY DEF OrderInv
  <2>1. s \in Stacks /\ DeployEmpty(s)
    <3>1. ASSUME NEW t \in Stacks, DeployOne(t) \/ DeployEmpty(t) \/ DestroyOne(t)
          PROVE  s \in Stacks /\ DeployEmpty(s)
      <4>1. s = t BY <3>1 DEF DeployOne, DeployEmpty, DestroyOne
      <4> QED BY <3>1, <4>1 DEF DeployOne, DestroyOne, Running
    <3>2. CASE UNCHANGED done BY <3>2
    <3> QED
      BY <3>1, <3>2 DEF Next, SortPass, Unsortable, Sorted, SelectDefault, SelectPattern, NoStackFound,
        Selected, Extend, DeployOneFails, Refused, DeployEmptyFails, DestroyOneFails, Declined, Finish,
        vars
  <2>2. SelectedByName(s) = {s} BY <2>1 DEF SelectedByName
  <2>3. cloud' = [k \in Slots |-> IF k = Slot(s) /\ cloud[Slot(s)] # None THEN None ELSE cloud[k]]
    BY <2>1, <2>2 DEF DeployEmpty
  <2>4. cloud \in [Slots -> Stacks \cup {None}] /\ Slot(s) \in Slots
    BY <2>0, <2>1, InputTypes DEF TypeOK
  <2> QED BY <2>3, <2>4
<1>2. OrderInv /\ [Next]_vars => [Step]_vars BY <1>1
<1> QED BY <1>2, OrderInvariant, PTL DEF Spec, EmptyStackIsDestroyed

-----------------------------------------------------------------------------
(* The difference of two templates (diffTemplate).                         *)

\* What is known of the templates and the copy.
LEMMA CopyOfNew ==
  ASSUME DiffInv, NEW i \in Ids
  PROVE  /\ old[i] \in Resource /\ new[i] \in Resource
         /\ copy[i].type = new[i].type /\ copy[i].retain = new[i].retain
         /\ copy[i].dependsOn = new[i].dependsOn
         /\ \A p \in Props :
              /\ old[i].props[p] \in Value /\ ~old[i].props[p].marked
              /\ new[i].props[p] \in Value /\ ~new[i].props[p].marked
              /\ Unchanged(i, p) \/ MarkedForCause(i, p)
<1>1. PICK c \in Changes : old = c.old /\ new = c.new BY DEF DiffInv
<1>2. /\ old \in [Ids -> Resource] /\ new \in [Ids -> Resource]
      /\ \A p \in Props : ~old[i].props[p].marked /\ ~new[i].props[p].marked
  BY <1>1, TemplatesAssumption
<1>3. old[i] \in Resource /\ new[i] \in Resource BY <1>2
<1>4. copy[i] = [new[i] EXCEPT !.props = copy[i].props] BY DEF DiffInv
<1>5. copy[i].type = new[i].type /\ copy[i].retain = new[i].retain /\ copy[i].dependsOn = new[i].dependsOn
  BY <1>3, <1>4 DEF Resource
<1>6. \A p \in Props : old[i].props[p] \in Value /\ new[i].props[p] \in Value
  BY <1>3 DEF Resource
<1>7. \A p \in Props : Unchanged(i, p) \/ MarkedForCause(i, p) BY DEF DiffInv
<1> QED BY <1>2, <1>3, <1>5, <1>6, <1>7

\* A value that is marked differs from that of the old template, by its type.
LEMMA MarkedDiffers ==
  ASSUME DiffInv, NEW i \in Ids, NEW p \in Props, ~Unchanged(i, p)
  PROVE  /\ MarkedForCause(i, p) /\ copy[i].props[p].kind = "ref" /\ copy[i].props[p].marked
         /\ copy[i].props[p].id = new[i].props[p].id
         /\ ~DeepEqual(old[i].props[p], copy[i].props[p])
<1>1. /\ MarkedForCause(i, p) /\ new[i].props[p] \in Value
      /\ old[i].props[p] \in Value /\ ~old[i].props[p].marked
  BY CopyOfNew
<1>2. /\ copy[i].props[p] = [new[i].props[p] EXCEPT !.marked = TRUE] /\ new[i].props[p].kind = "ref"
  BY <1>1 DEF MarkedForCause
<1>3. /\ copy[i].props[p].kind = "ref" /\ copy[i].props[p].marked
      /\ copy[i].props[p].id = new[i].props[p].id
  BY <1>1, <1>2 DEF Value
<1> QED BY <1>1, <1>3 DEF DeepEqual

\* What is the same as in the copy is the same as in the new template.
LEMMA SameAsCopy == ASSUME DiffInv, SameSection(old, copy) PROVE SameSection(old, new)
<1> SUFFICES ASSUME NEW i \in Ids PROVE SameResource(old[i], new[i])
  BY DEF SameSection
<1>1. SameResource(old[i], copy[i]) BY DEF SameSection
<1>2. ASSUME NEW p \in Props PROVE DeepEqual(old[i].props[p], new[i].props[p])
  <2>1. DeepEqual(old[i].props[p], copy[i].props[p]) BY <1>1 DEF SameResource
  <2>2. Unchanged(i, p) BY <2>1, MarkedDiffers
  <2> QED BY <2>1, <2>2 DEF Unchanged
<1> QED BY <1>1, <1>2, CopyOfNew DEF SameResource

\* The parts of a difference.
LEMMA Compared ==
  ASSUME NEW r, NEW s
  PROVE  /\ DiffResource(r, s).oldType = r.type /\ DiffResource(r, s).newType = s.type
         /\ DiffResource(r, s).retain = r.retain
         /\ DiffResource(r, s).other =
              ((r.type = s.type /\ r.type # NaN) /\ (r.dependsOn # s.dependsOn \/ r.retain # s.retain))
         /\ \A p \in Props : DiffResource(r, s).props[p] =
              IF r.type = s.type /\ r.type # NaN
              THEN PropertyImpact(p, r.props[p], s.props[p]) ELSE "NO_CHANGE"
BY DEF DiffResource

\* When a difference is a replacement.
LEMMA ReplacedWhen ==
  ASSUME NEW d
  PROVE  /\ ChangeImpact(d) = "WILL_REPLACE" <=>
              /\ d.oldType # NaN /\ d.newType # NaN
              /\ d.oldType # d.newType \/ \E p \in Props : d.props[p] = "WILL_REPLACE"
         /\ ChangeImpact(d) = "MAY_REPLACE" <=>
              /\ d.oldType # NaN /\ d.newType # NaN /\ d.oldType = d.newType
              /\ \A p \in Props : d.props[p] # "WILL_REPLACE"
              /\ \E p \in Props : d.props[p] = "MAY_REPLACE"
<1> DEFINE impacts == {d.props[p] : p \in Props}
<1>1. /\ "WILL_REPLACE" \in impacts <=> \E p \in Props : d.props[p] = "WILL_REPLACE"
      /\ "MAY_REPLACE" \in impacts <=> \E p \in Props : d.props[p] = "MAY_REPLACE"
  OBVIOUS
<1>2. ASSUME d.oldType = NaN \/ d.newType = NaN
      PROVE  ChangeImpact(d) \in {"NO_CHANGE", "WILL_CREATE", "WILL_ORPHAN", "WILL_DESTROY"}
  BY <1>2 DEF ChangeImpact
<1>3. ASSUME d.oldType # NaN, d.newType # NaN, d.oldType # d.newType
      PROVE  ChangeImpact(d) = "WILL_REPLACE"
  BY <1>3 DEF ChangeImpact
<1>4. ASSUME d.oldType # NaN, d.newType # NaN, d.oldType = d.newType
      PROVE  ChangeImpact(d) = IF "WILL_REPLACE" \in impacts THEN "WILL_REPLACE"
                               ELSE IF "MAY_REPLACE" \in impacts THEN "MAY_REPLACE"
                               ELSE IF d.other \/ "WILL_UPDATE" \in impacts THEN "WILL_UPDATE"
                               ELSE "NO_CHANGE"
  BY <1>4 DEF ChangeImpact
<1> HIDE DEF impacts
<1> QED BY <1>1, <1>2, <1>3, <1>4

\* The difference to the copy, resource by resource, if there is one at all.
LEMMA DifferenceOf ==
  ASSUME NEW t, NEW u, ~SameSection(t, u), NEW i \in Ids
  PROVE  Difference(t, u)[i] = DiffResource(t[i], u[i])
BY DEF Difference

LEMMA NoDifferences ==
  ASSUME NEW t, NEW u, SameSection(t, u), NEW i \in Ids
  PROVE  ChangeImpact(Difference(t, u)[i]) \notin {"WILL_REPLACE", "MAY_REPLACE"}
<1>1. Difference(t, u)[i] = DiffResource(NoResource, NoResource) BY DEF Difference
<1>2. Difference(t, u)[i].oldType = NaN BY <1>1, Compared DEF NoResource
<1> QED BY <1>2, ReplacedWhen

\* How the difference to the copy is related to that to the new template.
LEMMA CopyCompared ==
  ASSUME DiffInv, ~SameSection(old, new), NEW i \in Ids,
         NEW d, d = Difference(old, new)[i], NEW e, e = Difference(old, copy)[i]
  PROVE  /\ d = DiffResource(old[i], new[i]) /\ e = DiffResource(old[i], copy[i])
         /\ d.oldType = old[i].type /\ e.oldType = old[i].type
         /\ d.newType = new[i].type /\ e.newType = new[i].type
         /\ \A p \in Props :
              /\ Unchanged(i, p) => e.props[p] = d.props[p]
              /\ ~Unchanged(i, p) => d.props[p] = e.props[p] \/ d.props[p] = "NO_CHANGE"
              /\ ~Unchanged(i, p) /\ old[i].type = new[i].type /\ old[i].type # NaN =>
                   e.props[p] = (CASE UpdateType[p] = "Immutable"   -> "WILL_REPLACE"
                                   [] UpdateType[p] = "Conditional" -> "MAY_REPLACE"
                                   [] OTHER                         -> "WILL_UPDATE")
              /\ old[i].type # new[i].type \/ old[i].type = NaN => e.props[p] = "NO_CHANGE"
<1>1. d = DiffResource(old[i], new[i]) /\ e = DiffResource(old[i], copy[i])
  BY DifferenceOf, SameAsCopy
<1>2. copy[i].type = new[i].type BY CopyOfNew
<1>3. /\ d.oldType = old[i].type /\ e.oldType = old[i].type
      /\ d.newType = new[i].type /\ e.newType = new[i].type
  BY <1>1, <1>2, Compared
<1>4. ASSUME NEW p \in Props
      PROVE  /\ Unchanged(i, p) => e.props[p] = d.props[p]
             /\ ~Unchanged(i, p) => d.props[p] = e.props[p] \/ d.props[p] = "NO_CHANGE"
             /\ ~Unchanged(i, p) /\ old[i].type = new[i].type /\ old[i].type # NaN =>
                  e.props[p] = (CASE UpdateType[p] = "Immutable"   -> "WILL_REPLACE"
                                  [] UpdateType[p] = "Conditional" -> "MAY_REPLACE"
                                  [] OTHER                         -> "WILL_UPDATE")
             /\ old[i].type # new[i].type \/ old[i].type = NaN => e.props[p] = "NO_CHANGE"
  <2>1. /\ d.props[p] = IF old[i].type = new[i].type /\ old[i].type # NaN
                        THEN PropertyImpact(p, old[i].props[p], new[i].props[p]) ELSE "NO_CHANGE"
        /\ e.props[p] = IF old[i].type = new[i].type /\ old[i].type # NaN
                        THEN PropertyImpact(p, old[i].props[p], copy[i].props[p]) ELSE "NO_CHANGE"
    BY <1>1, <1>2, Compared
  <2>2. ~Unchanged(i, p) => ~DeepEqual(old[i].props[p], copy[i].props[p]) BY MarkedDiffers
  <2> QED BY <2>1, <2>2 DEF Unchanged, PropertyImpact
<1> QED BY <1>1, <1>3, <1>4

\* What the new template replaces, the copy does too.
LEMMA DirectIsFound ==
  ASSUME DiffInv
  PROVE  Direct("WILL_REPLACE") \subseteq WillBeReplaced(Difference(old, copy))
<1> SUFFICES ASSUME NEW i \in Ids, ChangeImpact(Difference(old, new)[i]) = "WILL_REPLACE"
             PROVE  ChangeImpact(Difference(old, copy)[i]) = "WILL_REPLACE"
  BY DEF Direct, WillBeReplaced
<1>1. ~SameSection(old, new) BY NoDifferences
<1> DEFINE d == Difference(old, new)[i]
           e == Difference(old, copy)[i]
<1>2. /\ d.oldType = e.oldType /\ d.newType = e.newType
      /\ \A p \in Props : d.props[p] = e.props[p] \/ d.props[p] = "NO_CHANGE"
  BY <1>1, CopyCompared
<1> HIDE DEF d, e
<1>3. ChangeImpact(d) = "WILL_REPLACE" BY DEF d
<1>4. ChangeImpact(e) = "WILL_REPLACE" BY <1>2, <1>3, ReplacedWhen
<1> QED BY <1>4 DEF e

\* Nothing is marked if nothing has changed.
LEMMA NothingToMark == ASSUME DiffInv, SameSection(old, new) PROVE SameSection(old, copy)
<1>1. Direct("WILL_REPLACE") = {} BY NoDifferences DEF Direct
<1>2. ClosedUnderReferences({}) BY <1>1 DEF ClosedUnderReferences, RefersInto
<1>3. ASSUME NEW j \in Ids PROVE SameResource(old[j], copy[j])
  <2>1. \A p \in Props : Unchanged(j, p) BY <1>2, CopyOfNew DEF MarkedForCause
  <2>2. SameResource(old[j], new[j]) BY DEF SameSection
  <2> QED BY <2>1, <2>2, CopyOfNew DEF SameResource, Unchanged
<1> QED BY <1>3 DEF SameSection

\* What the copy replaces is in every closed set: it is replaced directly, or by
\* a mark, which leads back to the set.
LEMMA FoundIsNeeded ==
  ASSUME DiffInv, NEW T \in SUBSET Ids, ClosedUnderReferences(T)
  PROVE  WillBeReplaced(Difference(old, copy)) \subseteq T
<1> SUFFICES ASSUME NEW i \in Ids, ChangeImpact(Difference(old, copy)[i]) = "WILL_REPLACE"
             PROVE  i \in T
  BY DEF WillBeReplaced
<1>1. ~SameSection(old, copy) BY NoDifferences
<1> DEFINE d == Difference(old, new)[i]
           e == Difference(old, copy)[i]
<1>2. CASE SameSection(old, new) BY <1>1, <1>2, NothingToMark
<1>3. CASE ~SameSection(old, new)
  <2>1. CASE ChangeImpact(d) = "WILL_REPLACE"
    BY <2>1 DEF ClosedUnderReferences, Direct
  <2>2. CASE ChangeImpact(d) # "WILL_REPLACE"
    <3>1. /\ e.oldType # NaN /\ e.newType # NaN
          /\ e.oldType # e.newType \/ \E p \in Props : e.props[p] = "WILL_REPLACE"
      BY ReplacedWhen
    <3>2. /\ d.oldType = e.oldType /\ d.newType = e.newType
          /\ e.oldType = old[i].type /\ e.newType = new[i].type
      BY <1>3, CopyCompared
    <3>3. PICK p \in Props : e.props[p] = "WILL_REPLACE" /\ d.props[p] # "WILL_REPLACE"
      <4> HIDE DEF d, e
      <4> QED BY <2>2, <3>1, <3>2, ReplacedWhen
    <3>4. ~Unchanged(i, p) BY <1>3, <3>3, CopyCompared
    <3>5. old[i].type = new[i].type /\ old[i].type # NaN
      BY <1>3, <3>3, CopyCompared
    <3>6. UpdateType[p] = "Immutable"
      <4>1. e.props[p] = (CASE UpdateType[p] = "Immutable"   -> "WILL_REPLACE"
                           [] UpdateType[p] = "Conditional" -> "MAY_REPLACE"
                           [] OTHER                         -> "WILL_UPDATE")
        BY <1>3, <3>4, <3>5, CopyCompared
      <4> HIDE DEF e
      <4> QED BY <3>3, <4>1
    <3>7. new[i].props[p].kind = "ref" /\ new[i].props[p].id \in T
      BY <3>4, MarkedDiffers DEF MarkedForCause
    <3> QED BY <3>5, <3>6, <3>7 DEF ClosedUnderReferences, RefersInto
  <2> QED BY <2>1, <2>2
<1> QED BY <1>2, <1>3

\* With what the loop has found, a replacement is reported as the copy has it.
LEMMA ReportedAsFound ==
  ASSUME DiffInv, NEW i \in Ids,
         NEW d, d = Difference(old, new)[i], NEW e, e = Difference(old, copy)[i],
         NEW f, f = IF IsReplacement(ChangeImpact(e)) /\ ChangeImpact(d) # ChangeImpact(e)
                    THEN WithReplacements(d, e) ELSE d
  PROVE  /\ ChangeImpact(f) = "WILL_REPLACE" <=> ChangeImpact(e) = "WILL_REPLACE"
         /\ ChangeImpact(f) = "MAY_REPLACE" <=> ChangeImpact(e) = "MAY_REPLACE"
<1>1. CASE SameSection(old, new)
  <2>1. /\ ChangeImpact(d) \notin {"WILL_REPLACE", "MAY_REPLACE"}
        /\ ChangeImpact(e) \notin {"WILL_REPLACE", "MAY_REPLACE"}
    BY <1>1, NothingToMark, NoDifferences
  <2> QED BY <2>1 DEF IsReplacement
<1>2. CASE ~SameSection(old, new)
  <2>1. /\ d = DiffResource(old[i], new[i])
        /\ d.oldType = e.oldType /\ d.newType = e.newType
        /\ \A p \in Props : d.props[p] = e.props[p] \/ d.props[p] = "NO_CHANGE"
    BY <1>2, CopyCompared
  <2>2. CASE ~IsReplacement(ChangeImpact(e))
    <3>1. ChangeImpact(d) \notin {"WILL_REPLACE", "MAY_REPLACE"}
      BY <2>1, <2>2, ReplacedWhen DEF IsReplacement
    <3> QED BY <2>2, <3>1 DEF IsReplacement
  <2>3. CASE ChangeImpact(d) = ChangeImpact(e)
    BY <2>3
  <2>4. CASE IsReplacement(ChangeImpact(e)) /\ ChangeImpact(d) # ChangeImpact(e)
    <3>1. /\ f.oldType = d.oldType /\ f.newType = d.newType
          /\ \A p \in Props : f.props[p] = IF IsReplacement(e.props[p]) THEN e.props[p] ELSE d.props[p]
      BY <2>1, <2>4 DEF WithReplacements, DiffResource
    <3>2. \A p \in Props : /\ f.props[p] = "WILL_REPLACE" <=> e.props[p] = "WILL_REPLACE"
                           /\ f.props[p] = "MAY_REPLACE" <=> e.props[p] = "MAY_REPLACE"
      BY <2>1, <3>1 DEF IsReplacement
    <3> QED BY <2>1, <3>1, <3>2, ReplacedWhen
  <2> QED BY <2>2, <2>3, <2>4
<1> QED BY <1>1, <1>2

\* When the loop ends, its replacements are closed under references.
LEMMA FoundIsClosed ==
  ASSUME DiffInv, References(WillBeReplaced(Difference(old, copy))) = {}
  PROVE  /\ ClosedUnderReferences(WillBeReplaced(Difference(old, copy)))
         /\ ~SameSection(old, copy) =>
              \A i \in Ids, p \in Props :
                new[i].props[p].kind = "ref"
                  /\ new[i].props[p].id \in WillBeReplaced(Difference(old, copy)) => ~Unchanged(i, p)
<1> DEFINE R == WillBeReplaced(Difference(old, copy))
<1>1. ASSUME NEW i \in Ids, NEW p \in Props, new[i].props[p].kind = "ref", new[i].props[p].id \in R
      PROVE  ~Unchanged(i, p)
  <2> SUFFICES ASSUME Unchanged(i, p) PROVE FALSE
    OBVIOUS
  <2>1. ~new[i].props[p].marked BY CopyOfNew
  <2>2. IsReference(copy[i].props[p], R) BY <1>1, <2>1 DEF IsReference, Unchanged
  <2>3. <<i, p>> \in References(R) BY <2>2 DEF References
  <2> QED BY <2>3
<1>2. ASSUME NEW i \in Ids, RefersInto(i, "Immutable", R) PROVE i \in R
  <2>1. PICK p \in Props : /\ UpdateType[p] = "Immutable" /\ new[i].props[p].kind = "ref"
                           /\ new[i].props[p].id \in R
    BY <1>2 DEF RefersInto
  <2>2. old[i].type # NaN /\ old[i].type = new[i].type BY <1>2 DEF RefersInto
  <2>3. ~SameSection(old, copy) BY <2>1, NoDifferences DEF WillBeReplaced
  <2>4. ~SameSection(old, new) BY <2>3, NothingToMark
  <2>5. ~Unchanged(i, p) BY <1>1, <2>1
  <2>6. PICK e : e = Difference(old, copy)[i] OBVIOUS
  <2>7. /\ e.oldType # NaN /\ e.newType # NaN /\ e.props[p] = "WILL_REPLACE"
    BY <2>1, <2>2, <2>4, <2>5, <2>6, CopyCompared
  <2>8. ChangeImpact(e) = "WILL_REPLACE" BY <2>7, ReplacedWhen
  <2> QED BY <2>6, <2>8 DEF WillBeReplaced
<1> QED BY <1>1, <1>2, DirectIsFound DEF ClosedUnderReferences

\* Which of the others may be replaced.
LEMMA MayBeReplacedWhen ==
  ASSUME DiffInv, References(WillBeReplaced(Difference(old, copy))) = {},
         NEW R, R = WillBeReplaced(Difference(old, copy)), NEW i \in Ids \ R
  PROVE  ChangeImpact(Difference(old, copy)[i]) = "MAY_REPLACE" <=>
           i \in Direct("MAY_REPLACE") \/ RefersInto(i, "Conditional", R)
<1>1. ClosedUnderReferences(R) /\ R \in SUBSET Ids BY FoundIsClosed DEF WillBeReplaced
<1>2. PICK d, e : d = Difference(old, new)[i] /\ e = Difference(old, copy)[i] OBVIOUS
<1>3. ChangeImpact(e) # "WILL_REPLACE" BY <1>2 DEF WillBeReplaced
<1>4. CASE SameSection(old, new)
  <2>1. ChangeImpact(e) # "MAY_REPLACE" /\ i \notin Direct("MAY_REPLACE")
    BY <1>2, <1>4, NothingToMark, NoDifferences DEF Direct
  <2>2. R = {} BY <1>4, NothingToMark, NoDifferences DEF WillBeReplaced
  <2> QED BY <1>2, <2>1, <2>2 DEF RefersInto
<1>5. CASE ~SameSection(old, new)
  <2>0. /\ d.oldType = e.oldType /\ d.newType = e.newType
        /\ e.oldType = old[i].type /\ e.newType = new[i].type
        /\ \A p \in Props : d.props[p] = e.props[p] \/ d.props[p] = "NO_CHANGE"
    BY <1>2, <1>5, CopyCompared
  <2>1. ASSUME ChangeImpact(e) = "MAY_REPLACE"
        PROVE  ChangeImpact(d) = "MAY_REPLACE" \/ RefersInto(i, "Conditional", R)
    <3>1. PICK p \in Props : e.props[p] = "MAY_REPLACE" BY <2>1, ReplacedWhen
    <3>2. /\ e.oldType # NaN /\ e.newType # NaN /\ e.oldType = e.newType
          /\ \A q \in Props : e.props[q] # "WILL_REPLACE"
      BY <2>1, ReplacedWhen
    <3>3. CASE Unchanged(i, p)
      <4>1. d.props[p] = "MAY_REPLACE" BY <1>2, <1>5, <3>1, <3>3, CopyCompared
      <4> QED BY <2>0, <3>2, <4>1, ReplacedWhen
    <3>4. CASE ~Unchanged(i, p)
      <4>1. e.props[p] = (CASE UpdateType[p] = "Immutable"   -> "WILL_REPLACE"
                           [] UpdateType[p] = "Conditional" -> "MAY_REPLACE"
                           [] OTHER                         -> "WILL_UPDATE")
        BY <1>2, <1>5, <2>0, <3>2, <3>4, CopyCompared
      <4>2. UpdateType[p] = "Conditional" BY <3>1, <4>1
      <4>3. new[i].props[p].kind = "ref" /\ new[i].props[p].id \in R
        BY <1>1, <3>4, MarkedDiffers DEF MarkedForCause
      <4> QED BY <2>0, <3>2, <4>2, <4>3 DEF RefersInto
    <3> QED BY <3>3, <3>4
  <2>2. ASSUME ChangeImpact(d) = "MAY_REPLACE" PROVE ChangeImpact(e) = "MAY_REPLACE"
    BY <1>3, <2>0, <2>2, ReplacedWhen
  <2>3. ASSUME RefersInto(i, "Conditional", R) PROVE ChangeImpact(e) = "MAY_REPLACE"
    <3>1. PICK p \in Props : /\ UpdateType[p] = "Conditional" /\ new[i].props[p].kind = "ref"
                             /\ new[i].props[p].id \in R
      BY <2>3 DEF RefersInto
    <3>2. old[i].type # NaN /\ old[i].type = new[i].type BY <2>3 DEF RefersInto
    <3>3. ~Unchanged(i, p) BY <1>5, <3>1, FoundIsClosed, SameAsCopy
    <3>4. e.props[p] = (CASE UpdateType[p] = "Immutable"   -> "WILL_REPLACE"
                         [] UpdateType[p] = "Conditional" -> "MAY_REPLACE"
                         [] OTHER                         -> "WILL_UPDATE")
      BY <1>2, <1>5, <3>2, <3>3, CopyCompared
    <3>5. e.props[p] = "MAY_REPLACE" BY <3>1, <3>4
    <3> QED BY <1>3, <2>0, <3>2, <3>5, ReplacedWhen
  <2> QED BY <1>2, <2>1, <2>2, <2>3 DEF Direct
<1> QED BY <1>4, <1>5

\* What is said of the templates stays while they do.
LEMMA SameTemplates ==
  ASSUME UNCHANGED <<old, new>>
  PROVE  /\ Difference(old, new)' = Difference(old, new)
         /\ \A T \in SUBSET Ids : ClosedUnderReferences(T)' <=> ClosedUnderReferences(T)
         /\ \A type : \A T \in SUBSET Ids, i \in Ids : RefersInto(i, type, T)' <=> RefersInto(i, type, T)
         /\ \A impact : Direct(impact)' = Direct(impact)
<1>1. Difference(old, new)' = Difference(old, new)
  BY DEF Difference, SameSection, SameResource, DeepEqual, SameText, DependsOnEqual, DiffResource,
     NoResource, NoValue, PropertyImpact
<1>2. \A impact : Direct(impact)' = Direct(impact)
  BY <1>1 DEF Direct, ChangeImpact
<1>3. \A type : \A T \in SUBSET Ids, i \in Ids : RefersInto(i, type, T)' <=> RefersInto(i, type, T)
  BY DEF RefersInto
<1>4. \A T \in SUBSET Ids : ClosedUnderReferences(T)' <=> ClosedUnderReferences(T)
  BY <1>2, <1>3 DEF ClosedUnderReferences
<1> QED BY <1>1, <1>2, <1>3, <1>4

\* And what is found in the copy, while it stays.
LEMMA SameCopy ==
  ASSUME old' = old, \A i \in Ids : copy'[i] = copy[i]
  PROVE  /\ Difference(old, copy)' = Difference(old, copy)
         /\ \A R \in SUBSET Ids : References(R)' = References(R)
<1>1. Difference(old, copy)' = Difference(old, copy)
  <2>1. SameSection(old, copy)' <=> SameSection(old, copy)
    BY DEF SameSection, SameResource, DeepEqual, SameText, DependsOnEqual
  <2>2. ASSUME NEW i \in Ids PROVE DiffResource(old[i], copy[i])' = DiffResource(old[i], copy[i])
    BY <2>2 DEF DiffResource, PropertyImpact, DeepEqual, SameText
  <2>3. [i \in Ids |-> DiffResource(old[i], copy[i])]' = [i \in Ids |-> DiffResource(old[i], copy[i])]
    BY <2>2
  <2>4. DiffResource(NoResource, NoResource)' = DiffResource(NoResource, NoResource)
    BY DEF DiffResource, NoResource, NoValue, PropertyImpact, DeepEqual, SameText
  <2> QED BY <2>1, <2>3, <2>4 DEF Difference
<1>2. ASSUME NEW R \in SUBSET Ids PROVE References(R)' = References(R)
  BY DEF References, IsReference
<1> QED BY <1>1, <1>2

\* What the copying at the end reports is what the loop has found.
LEMMA CopyReports == ASSUME DiffInv, CopyReplacements PROVE ReplacementsAreClosed'
<1> DEFINE R == WillBeReplaced(Difference(old, copy))
<1>1. /\ UNCHANGED <<old, new, copy, downstream>>
      /\ diff = Difference(old, new) /\ downstream = Difference(old, copy) /\ References(R) = {}
  BY DEF DiffInv, CopyReplacements, templates
<1>2. ASSUME NEW i \in Ids
      PROVE  /\ ChangeImpact(diff'[i]) = "WILL_REPLACE" <=> i \in R
             /\ ChangeImpact(diff'[i]) = "MAY_REPLACE" <=>
                  ChangeImpact(Difference(old, copy)[i]) = "MAY_REPLACE"
  <2>1. PICK d, e : d = Difference(old, new)[i] /\ e = Difference(old, copy)[i] OBVIOUS
  <2>2. diff'[i] = IF IsReplacement(ChangeImpact(e)) /\ ChangeImpact(d) # ChangeImpact(e)
                   THEN WithReplacements(d, e) ELSE d
    BY <1>1, <2>1 DEF CopyReplacements
  <2>3. /\ ChangeImpact(diff'[i]) = "WILL_REPLACE" <=> ChangeImpact(e) = "WILL_REPLACE"
        /\ ChangeImpact(diff'[i]) = "MAY_REPLACE" <=> ChangeImpact(e) = "MAY_REPLACE"
    BY <2>1, <2>2, ReportedAsFound
  <2> QED BY <2>1, <2>3 DEF WillBeReplaced
<1>3. WillBeReplaced(diff') = R
  BY <1>2 DEF WillBeReplaced
<1>4. /\ ClosedUnderReferences(R)
      /\ \A T \in SUBSET R : ClosedUnderReferences(T) => T = R
      /\ \A i \in Ids \ R : ChangeImpact(diff'[i]) = "MAY_REPLACE" <=>
           i \in Direct("MAY_REPLACE") \/ RefersInto(i, "Conditional", R)
  <2>1. ClosedUnderReferences(R) BY <1>1, FoundIsClosed
  <2>2. R \in SUBSET Ids BY DEF WillBeReplaced
  <2>3. ASSUME NEW T \in SUBSET R, ClosedUnderReferences(T) PROVE T = R
    <3>1. R \subseteq T BY <2>2, <2>3, FoundIsNeeded
    <3> QED BY <3>1
  <2>4. ASSUME NEW i \in Ids \ R
        PROVE  ChangeImpact(diff'[i]) = "MAY_REPLACE" <=>
                 i \in Direct("MAY_REPLACE") \/ RefersInto(i, "Conditional", R)
    BY <1>1, <1>2, MayBeReplacedWhen
  <2> QED BY <2>1, <2>3, <2>4
<1>5. PICK S : S = R OBVIOUS
<1> HIDE DEF R
<1>6. WillBeReplaced(diff)' = S
  BY <1>3, <1>5 DEF WillBeReplaced, ChangeImpact
<1>7. S \in SUBSET Ids BY <1>5 DEF R, WillBeReplaced
<1>8. /\ ClosedUnderReferences(S)'
      /\ \A T \in SUBSET S : ClosedUnderReferences(T)' => T = S
  BY <1>1, <1>4, <1>5, <1>7, SameTemplates
<1>9. ASSUME NEW i \in Ids \ S
      PROVE  (ChangeImpact(diff[i]) = "MAY_REPLACE")' <=>
               (i \in Direct("MAY_REPLACE"))' \/ RefersInto(i, "Conditional", S)'
  <2>1. ChangeImpact(diff'[i]) = "MAY_REPLACE" <=>
          i \in Direct("MAY_REPLACE") \/ RefersInto(i, "Conditional", S)
    BY <1>4, <1>5, <1>9
  <2>2. (ChangeImpact(diff[i]) = "MAY_REPLACE")' <=> ChangeImpact(diff'[i]) = "MAY_REPLACE"
    BY DEF ChangeImpact
  <2>3. Direct("MAY_REPLACE")' = Direct("MAY_REPLACE")
    BY <1>1, SameTemplates
  <2>4. RefersInto(i, "Conditional", S)' <=> RefersInto(i, "Conditional", S)
    BY <1>1, <1>7, <1>9, SameTemplates
  <2> QED BY <2>1, <2>2, <2>3, <2>4
<1> QED BY <1>6, <1>8, <1>9 DEF ReplacementsAreClosed

\* A pass marks only references to what every closed set contains.
LEMMA PassMarksForCause ==
  ASSUME DiffInv, Propagate, NEW i \in Ids
  PROVE  /\ copy'[i] = [new[i] EXCEPT !.props = copy'[i].props]
         /\ copy'[i].props \in [Props -> Value]
         /\ \A p \in Props : Unchanged(i, p)' \/ MarkedForCause(i, p)'
<1> DEFINE R == WillBeReplaced(Difference(old, copy))
           Value2(p) == IF <<i, p>> \in References(R)
                        THEN [copy[i].props[p] EXCEPT !.marked = TRUE] ELSE copy[i].props[p]
<1>1. /\ UNCHANGED <<old, new>>
      /\ copy'[i] = [copy[i] EXCEPT !.props = [p \in Props |-> Value2(p)]]
  BY DEF Propagate, Marked, templates
<1>2. /\ new[i] \in Resource /\ copy[i] = [new[i] EXCEPT !.props = copy[i].props]
      /\ copy[i].props \in [Props -> Value]
  BY CopyOfNew DEF DiffInv
<1>3. copy'[i].props = [p \in Props |-> Value2(p)]
  <2> HIDE DEF Value2
  <2> QED BY <1>1, <1>2 DEF Resource
<1>4. copy'[i] = [new[i] EXCEPT !.props = copy'[i].props]
  <2> HIDE DEF Value2
  <2> QED BY <1>1, <1>2, <1>3 DEF Resource
<1>5. \A p \in Props : Value2(p) \in Value BY <1>2 DEF Value
<1>6. \A T \in SUBSET Ids : ClosedUnderReferences(T)' <=> ClosedUnderReferences(T)
  BY <1>1, SameTemplates
<1>7. ASSUME NEW p \in Props PROVE Unchanged(i, p)' \/ MarkedForCause(i, p)'
  <2>1. copy'[i].props[p] = Value2(p) BY <1>3
  <2>2. CASE <<i, p>> \in References(R)
    <3>1. /\ copy[i].props[p].kind = "ref" /\ ~copy[i].props[p].marked
          /\ copy[i].props[p].id \in R
      BY <2>2 DEF References, IsReference
    <3>2. Unchanged(i, p) BY <3>1, MarkedDiffers
    <3>3. \A T \in SUBSET Ids : ClosedUnderReferences(T) => new[i].props[p].id \in T
      BY <3>1, <3>2, FoundIsNeeded DEF Unchanged
    <3> QED BY <1>1, <1>6, <2>1, <2>2, <3>1, <3>2, <3>3 DEF MarkedForCause, Unchanged
  <2>3. CASE <<i, p>> \notin References(R)
    <3>1. Unchanged(i, p) \/ MarkedForCause(i, p) BY CopyOfNew
    <3> QED BY <1>1, <1>6, <2>1, <2>3, <3>1 DEF MarkedForCause, Unchanged
  <2> QED BY <2>2, <2>3
<1> QED BY <1>3, <1>4, <1>5, <1>7

LEMMA DiffStarts == DiffInit => DiffInv /\ ReplacementsAreClosed
<1> SUFFICES ASSUME DiffInit PROVE DiffInv /\ ReplacementsAreClosed
  OBVIOUS
<1>1. PICK c \in Changes : old = c.old /\ new = c.new BY DEF DiffInit
<1>2. new \in [Ids -> Resource] BY <1>1, TemplatesAssumption
<1>3. copy = new /\ progress = "begin" BY DEF DiffInit
<1>4. \A i \in Ids : new[i] = [new[i] EXCEPT !.props = new[i].props] /\ new[i].props \in [Props -> Value]
  BY <1>2 DEF Resource
<1> QED BY <1>1, <1>3, <1>4 DEF DiffInv, Unchanged, ReplacementsAreClosed

LEMMA DiffStep == DiffInv /\ ReplacementsAreClosed /\ [DiffNext]_diffVars
                    => (DiffInv /\ ReplacementsAreClosed)'
<1> SUFFICES ASSUME DiffInv, ReplacementsAreClosed, [DiffNext]_diffVars
             PROVE  DiffInv' /\ ReplacementsAreClosed'
  OBVIOUS
<1>1. CASE Begin
  <2>1. /\ UNCHANGED <<old, new>> /\ copy' = new /\ progress' = "propagate"
        /\ diff' = Difference(old, new)
    BY <1>1 DEF Begin, templates
  <2>2. PICK c \in Changes : old = c.old /\ new = c.new BY DEF DiffInv
  <2>3. new \in [Ids -> Resource] BY <2>2, TemplatesAssumption
  <2>4. \A i \in Ids : new[i] = [new[i] EXCEPT !.props = new[i].props] /\ new[i].props \in [Props -> Value]
    BY <2>3 DEF Resource
  <2>5. diff' = Difference(old, new)' BY <2>1, SameTemplates
  <2> QED BY <2>1, <2>2, <2>4, <2>5 DEF DiffInv, Unchanged, ReplacementsAreClosed
<1>2. CASE Propagate
  <2>1. /\ UNCHANGED <<old, new, diff>> /\ progress = "propagate"
        /\ progress' \in {"propagate", "copy"} /\ downstream' = Difference(old, copy)
        /\ progress' = "copy" => References(WillBeReplaced(downstream')) = {}
        /\ copy' = Marked(WillBeReplaced(downstream'))
    BY <1>2 DEF Propagate, templates
  <2>2. \A i \in Ids :
          /\ copy'[i] = [new'[i] EXCEPT !.props = copy'[i].props]
          /\ copy'[i].props \in [Props -> Value]
          /\ \A p \in Props : Unchanged(i, p)' \/ MarkedForCause(i, p)'
    BY <1>2, <2>1, PassMarksForCause
  <2>3. diff' = Difference(old, new)' BY <2>1, SameTemplates DEF DiffInv
  <2>4. ASSUME progress' = "copy"
        PROVE  downstream' = Difference(old, copy)' /\ References(WillBeReplaced(downstream))' = {}
    <3>1. PICK R : R = WillBeReplaced(downstream') OBVIOUS
    <3>2. R \in SUBSET Ids /\ References(R) = {} BY <2>1, <2>4, <3>1 DEF WillBeReplaced
    <3>3. ASSUME NEW i \in Ids PROVE copy'[i] = copy[i]
      <4>1. copy'[i] = [copy[i] EXCEPT !.props = [p \in Props |-> copy[i].props[p]]]
        BY <2>1, <3>1, <3>2 DEF Marked
      <4>2. /\ new[i] \in Resource /\ copy[i] = [new[i] EXCEPT !.props = copy[i].props]
            /\ copy[i].props \in [Props -> Value]
        BY CopyOfNew DEF DiffInv
      <4>3. [p \in Props |-> copy[i].props[p]] = copy[i].props BY <4>2
      <4> QED BY <4>1, <4>2, <4>3 DEF Resource
    <3>4. Difference(old, copy)' = Difference(old, copy) /\ References(R)' = {}
      BY <2>1, <3>2, <3>3, SameCopy
    <3>5. WillBeReplaced(downstream)' = R BY <3>1 DEF WillBeReplaced, ChangeImpact
    <3>6. References(WillBeReplaced(downstream))' = {}
      BY <3>4, <3>5 DEF References, IsReference
    <3> QED BY <2>1, <3>4, <3>6
  <2>5. \E c \in Changes : old' = c.old /\ new' = c.new BY <2>1 DEF DiffInv
  <2> QED BY <2>1, <2>2, <2>3, <2>4, <2>5 DEF DiffInv, ReplacementsAreClosed
<1>3. CASE CopyReplacements
  <2>1. /\ UNCHANGED <<old, new, copy, downstream>> /\ progress' = "done"
    BY <1>3 DEF CopyReplacements, templates
  <2>2. DiffInv'
    <3>1. \A i \in Ids, p \in Props : /\ Unchanged(i, p) => Unchanged(i, p)'
                                      /\ MarkedForCause(i, p) => MarkedForCause(i, p)'
      BY <2>1, SameTemplates DEF Unchanged, MarkedForCause
    <3> QED BY <2>1, <3>1 DEF DiffInv
  <2> QED BY <1>3, <2>2, CopyReports
<1>4. CASE UNCHANGED diffVars
  <2>1. UNCHANGED <<old, new, copy, downstream, progress, diff>> BY <1>4 DEF diffVars
  <2>2. \A i \in Ids, p \in Props : /\ Unchanged(i, p) => Unchanged(i, p)'
                                    /\ MarkedForCause(i, p) => MarkedForCause(i, p)'
    BY <2>1, SameTemplates DEF Unchanged, MarkedForCause
  <2>3. PICK R, S : R = WillBeReplaced(downstream) /\ S = WillBeReplaced(diff) OBVIOUS
  <2>4. WillBeReplaced(downstream)' = R /\ WillBeReplaced(diff)' = S /\ R \in SUBSET Ids /\ S \in SUBSET Ids
    BY <2>1, <2>3 DEF WillBeReplaced, ChangeImpact
  <2>5. Difference(old, copy)' = Difference(old, copy) /\ Difference(old, new)' = Difference(old, new)
    BY <2>1, SameCopy, SameTemplates
  <2>6. References(WillBeReplaced(downstream))' = References(R)
    <3>1. References(R)' = References(R) BY <2>1, <2>4, SameCopy
    <3> QED BY <2>1, <2>4, <3>1 DEF References, IsReference
  <2>7. DiffInv' BY <2>1, <2>2, <2>3, <2>5, <2>6 DEF DiffInv
  <2>8. ReplacementsAreClosed'
    <3>1. \A i \in Ids : (ChangeImpact(diff[i]) = "MAY_REPLACE")' <=> ChangeImpact(diff[i]) = "MAY_REPLACE"
      BY <2>1 DEF ChangeImpact
    <3>2. /\ \A T \in SUBSET Ids : ClosedUnderReferences(T)' <=> ClosedUnderReferences(T)
          /\ \A i \in Ids : RefersInto(i, "Conditional", S)' <=> RefersInto(i, "Conditional", S)
          /\ Direct("MAY_REPLACE")' = Direct("MAY_REPLACE")
      BY <2>1, <2>4, SameTemplates
    <3>3. CASE progress = "done"
      <4>1. /\ ClosedUnderReferences(S) /\ \A T \in SUBSET S : ClosedUnderReferences(T) => T = S
            /\ \A i \in Ids \ S : ChangeImpact(diff[i]) = "MAY_REPLACE" <=>
                 i \in Direct("MAY_REPLACE") \/ RefersInto(i, "Conditional", S)
        BY <2>3, <3>3 DEF ReplacementsAreClosed
      <4>2. /\ ClosedUnderReferences(S)' /\ \A T \in SUBSET S : ClosedUnderReferences(T)' => T = S
            /\ \A i \in Ids \ S : (ChangeImpact(diff[i]) = "MAY_REPLACE")' <=>
                 (i \in Direct("MAY_REPLACE"))' \/ RefersInto(i, "Conditional", S)'
        BY <2>4, <3>1, <3>2, <4>1
      <4> QED BY <2>4, <4>2 DEF ReplacementsAreClosed
    <3>4. CASE progress # "done" BY <2>1, <3>4 DEF ReplacementsAreClosed
    <3> QED BY <3>3, <3>4
  <2> QED BY <2>7, <2>8
<1> QED BY <1>1, <1>2, <1>3, <1>4 DEF DiffNext

\* For any two templates: the replacements `cdk diff' reports are the least set
\* with what the change itself replaces that is closed under references in
\* immutable properties (diffTemplate, propagateReplacedReferences).
THEOREM ReplacementsClosed == DiffSpec => []ReplacementsAreClosed
BY DiffStarts, DiffStep, PTL DEF DiffSpec
=============================================================================
