------------------------- MODULE DeployStackProofs -------------------------
(***************************************************************************)
(* Theorems of DeployStack: type correctness, and what a deployment may    *)
(* report when any number of invocations work on the stack.  And of        *)
(* StackMonitor, which shows the events of the deployment meanwhile, for   *)
(* any number of events, page size, start and failures.                    *)
(***************************************************************************)
EXTENDS DeployStack, StackMonitor, SequenceTheorems, WellFoundedInduction, TLAPS

\* The service's values: what the null records and the calls are made of.
LEMMA CfnValues ==
  /\ NoConfig \in Config
  /\ NoStack \in Stack
  /\ NoChangeSet \in ChangeSet
  /\ CreationFailureStatus \cup DeploySuccessStatus \cup InProgressStatus
       \cup FailureStatus \cup {NotFound} \subseteq Status
  BY DEF NoConfig, Config, NoStack, Stack, NoChangeSet, ChangeSet, ChangeSetStatus, Status

\* An operation goes from one status to another.
LEMMA SuccessorsAreStatuses ==
  ASSUME NEW s \in Status
  PROVE  Successors(s) \subseteq Status
  BY DEF Successors, Status, InProgressStatus, FailureStatus, CreationFailureStatus,
         DeploySuccessStatus, NotFound

\* A stack that is taken for gone at the end of a deletion is gone.
LEMMA GoneMeansGone ==
  ASSUME NEW s, s.status \notin InProgressStatus, Gone(s)
  PROVE  s.status = NotFound
  BY DEF Gone, InProgressStatus, FailureStatus, DeletedStatus

\* What an invocation asks for is a configuration.
LEMMA RequestedConfigType ==
  ASSUME TypeOK, NEW c \in CLI
  PROVE  /\ RequestedConfig(c) \in Config
         /\ ChangeSetName(c) \in ChangeSetNames
  BY NameAssumption DEF TypeOK, RequestedConfig, Config, ChangeSetName, Request

-----------------------------------------------------------------------------
(* Type correctness, one lemma for the calls to the service and one step   *)
(* per action.                                                             *)

LEMMA CallTypes ==
  ASSUME CfnTypeOK, NEW n \in ChangeSetNames, NEW k \in Config, NEW o \in Owners
  PROVE  /\ CreateChangeSetCall(n, k, o) => CfnTypeOK'
         /\ DeleteChangeSetCall(n) => CfnTypeOK'
         /\ ExecuteChangeSetCall(n) => CfnTypeOK'
         /\ DeleteStackCall => CfnTypeOK'
         /\ ComputeChangeSet(n) => CfnTypeOK'
         /\ UNCHANGED cfnVars => CfnTypeOK'
<1>1. CreateChangeSetCall(n, k, o) => CfnTypeOK'
  BY CfnValues DEF CfnTypeOK, CreateChangeSetCall, ChangeSet, ChangeSetStatus, Stack,
                   Status, InProgressStatus
<1>2. DeleteChangeSetCall(n) => CfnTypeOK'
  BY CfnValues DEF CfnTypeOK, DeleteChangeSetCall
<1>3. ExecuteChangeSetCall(n) => CfnTypeOK'
  <2> SUFFICES ASSUME ExecuteChangeSetCall(n) PROVE CfnTypeOK'
    OBVIOUS
  <2>1. changeSets[n].config \in Config
    BY DEF CfnTypeOK, ChangeSet
  <2>2. {"CREATE_IN_PROGRESS", "UPDATE_IN_PROGRESS"} \subseteq Status
    BY DEF Status, InProgressStatus
  <2>3. stack' \in Stack
    BY <2>1, <2>2 DEF CfnTypeOK, ExecuteChangeSetCall, Stack
  <2>4. changeSets' \in [ChangeSetNames -> ChangeSet]
    BY CfnValues DEF CfnTypeOK, ExecuteChangeSetCall
  <2> QED BY <2>3, <2>4 DEF CfnTypeOK
<1>4. DeleteStackCall => CfnTypeOK'
  BY CfnValues DEF CfnTypeOK, DeleteStackCall, Stack, Status, InProgressStatus
<1>5. ComputeChangeSet(n) => CfnTypeOK'
  BY DEF CfnTypeOK, ComputeChangeSet, ChangeSet, ChangeSetStatus
<1>6. UNCHANGED cfnVars => CfnTypeOK'
  BY DEF CfnTypeOK, cfnVars
<1> QED BY <1>1, <1>2, <1>3, <1>4, <1>5, <1>6

LEMMA ProgressType == CfnTypeOK /\ ProgressStack => CfnTypeOK'
<1> SUFFICES ASSUME CfnTypeOK, ProgressStack PROVE CfnTypeOK'
  OBVIOUS
<1>1. PICK s \in Successors(stack.status) :
        IF s = NotFound
        THEN /\ stack' = NoStack
             /\ changeSets' = [n \in ChangeSetNames |-> NoChangeSet]
        ELSE /\ stack' = [stack EXCEPT
                            !.status = s,
                            !.config = IF s = "UPDATE_ROLLBACK_COMPLETE"
                                       THEN stack.previous ELSE stack.config]
             /\ UNCHANGED changeSets
  BY DEF ProgressStack
<1>2. s \in Status
  BY SuccessorsAreStatuses DEF CfnTypeOK, Stack
<1>3. CASE s = NotFound
  BY <1>1, <1>3, CfnValues DEF CfnTypeOK
<1>4. CASE s # NotFound
  BY <1>1, <1>2, <1>4 DEF CfnTypeOK, Stack
<1> QED BY <1>3, <1>4

\* What an action does to the invocation's own variables: it moves on or ends.
LEMMA MoveTypes ==
  ASSUME TypeOK, NEW c \in CLI
  PROVE  /\ \A p \in Await : Goto(c, p) => /\ pc' \in [CLI -> Await]
                                           /\ result' \in [CLI -> Result]
         /\ \A r \in Result : End(c, r) => /\ pc' \in [CLI -> Await]
                                           /\ result' \in [CLI -> Result]
<1>1. "idle" \in Await
  BY DEF Await
<1> QED BY <1>1 DEF TypeOK, Goto, End

THEOREM TypeCorrect == Spec => []TypeOK
<1>1. Init => TypeOK
  <2> SUFFICES ASSUME Init PROVE TypeOK
    OBVIOUS
  <2>1. CfnTypeOK
    BY CfnValues DEF Init, CfnInit, CfnTypeOK
  <2>2. request \in [CLI -> Request]
    BY RequestAssumption DEF Init
  <2> QED BY <2>1, <2>2, CfnValues DEF Init, TypeOK, Await, Result
<1>2. TypeOK /\ [Next]_vars => TypeOK'
  <2> SUFFICES ASSUME TypeOK, [Next]_vars PROVE TypeOK'
    OBVIOUS
  <2> USE MoveTypes
  <2>s. CfnTypeOK /\ stack \in Stack
    BY DEF TypeOK, CfnTypeOK
  <2>1. ASSUME NEW c \in CLI, Start(c) PROVE TypeOK'
    <3>1. PICK r \in Requests[c] : request' = [request EXCEPT ![c] = r]
      BY <2>1 DEF Start
    <3>2. r \in Request
      BY RequestAssumption
    <3>3. request' \in [CLI -> Request]
      BY <3>1, <3>2 DEF TypeOK
    <3>4. CfnTypeOK'
      BY <2>1, <2>s DEF Start, cfnVars, CfnTypeOK
    <3>5. \A d \in CLI : AskedBy(d)' \in SUBSET Config
      BY <3>3 DEF AskedBy, RequestedConfig, Request, Config
    <3>6. asked' \in [CLI -> SUBSET Config]
      BY <2>1, <3>5 DEF Start, TypeOK
    <3> QED BY <2>1, <3>3, <3>4, <3>6, CfnValues DEF Start, TypeOK, Await, Result
  <2>2. ASSUME NEW c \in CLI, Interrupted(c) PROVE TypeOK'
    <3>1. "error" \in Result
      BY DEF Result
    <3> QED BY <2>2, <3>1 DEF Interrupted, TypeOK, CfnTypeOK
  <2>3. ASSUME NEW c \in CLI, Lookup(c) PROVE TypeOK'
    <3>1. {"deleteFailedStack", "checkSkip"} \subseteq Await
      BY DEF Await
    <3> QED BY <2>3, <2>s, <3>1 DEF Lookup, TypeOK, CfnTypeOK
  <2>4. ASSUME NEW c \in CLI, DeleteFailedStack(c) PROVE TypeOK'
    <3>1. "waitFailedStackDelete" \in Await /\ "refused" \in Result
      BY DEF Await, Result
    <3>2. CfnTypeOK'
      BY <2>4, <2>s, CallTypes, RequestedConfigType, CliAssumption DEF DeleteFailedStack
    <3> QED BY <2>4, <3>1, <3>2 DEF DeleteFailedStack, TypeOK
  <2>5. ASSUME NEW c \in CLI, WaitFailedStackDelete(c) PROVE TypeOK'
    <3>1. "checkSkip" \in Await /\ "error" \in Result
      BY DEF Await, Result
    <3> QED BY <2>5, <3>1, CfnValues DEF WaitFailedStackDelete, TypeOK, CfnTypeOK
  <2>6. ASSUME NEW c \in CLI, CheckSkip(c) PROVE TypeOK'
    <3>1. /\ {"removeChangeSet", "createChangeSet"} \subseteq Await
          /\ {"error", "noOp"} \subseteq Result
      BY DEF Await, Result
    <3> QED BY <2>6, <3>1 DEF CheckSkip, TypeOK, CfnTypeOK
  <2>7. ASSUME NEW c \in CLI, RemoveChangeSet(c) PROVE TypeOK'
    <3>1. "createChangeSet" \in Await /\ "refused" \in Result
      BY DEF Await, Result
    <3>2. CfnTypeOK'
      BY <2>7, <2>s, CallTypes, RequestedConfigType, CliAssumption DEF RemoveChangeSet
    <3> QED BY <2>7, <3>1, <3>2 DEF RemoveChangeSet, TypeOK
  <2>8. ASSUME NEW c \in CLI, CreateChangeSet(c) PROVE TypeOK'
    <3>1. "waitChangeSet" \in Await /\ "refused" \in Result
      BY DEF Await, Result
    <3>2. CfnTypeOK'
      BY <2>8, <2>s, CallTypes, RequestedConfigType, CliAssumption DEF CreateChangeSet
    <3> QED BY <2>8, <3>1, <3>2 DEF CreateChangeSet, TypeOK
  <2>9. ASSUME NEW c \in CLI, WaitChangeSet(c) PROVE TypeOK'
    <3>1. "protect" \in Await /\ "error" \in Result
      BY DEF Await, Result
    <3> QED BY <2>9, <3>1 DEF WaitChangeSet, TypeOK, CfnTypeOK
  <2>10. ASSUME NEW c \in CLI, Protect(c) PROVE TypeOK'
    <3>1. /\ {"removeEmpty", "execute"} \subseteq Await
          /\ {"noOp", "created", "refused"} \subseteq Result
      BY DEF Await, Result
    <3>2. AfterProtect(c) => pc' \in [CLI -> Await] /\ result' \in [CLI -> Result]
      BY <3>1 DEF AfterProtect, TypeOK
    <3>3. request[c].tp \in BOOLEAN
      BY DEF TypeOK, Request
    <3>4. CfnTypeOK'
      BY <2>10, <2>s, <3>3 DEF Protect, CfnTypeOK, Stack
    <3> QED BY <2>10, <3>1, <3>2, <3>4 DEF Protect, TypeOK
  <2>11. ASSUME NEW c \in CLI, RemoveEmpty(c) PROVE TypeOK'
    <3>1. {"noOp", "refused"} \subseteq Result
      BY DEF Result
    <3>2. CfnTypeOK'
      BY <2>11, <2>s, CallTypes, RequestedConfigType, CliAssumption DEF RemoveEmpty
    <3> QED BY <2>11, <3>1, <3>2 DEF RemoveEmpty, TypeOK
  <2>12. ASSUME NEW c \in CLI, Execute(c) PROVE TypeOK'
    <3>1. "waitDeploy" \in Await /\ "refused" \in Result
      BY DEF Await, Result
    <3>2. CfnTypeOK'
      BY <2>12, <2>s, CallTypes, RequestedConfigType, CliAssumption DEF Execute
    <3> QED BY <2>12, <3>1, <3>2 DEF Execute, TypeOK
  <2>13. ASSUME NEW c \in CLI, WaitDeploy(c) PROVE TypeOK'
    <3>1. {"deployed", "error"} \subseteq Result
      BY DEF Result
    <3> QED BY <2>13, <3>1 DEF WaitDeploy, TypeOK, CfnTypeOK
  <2>14. ASSUME NEW c \in CLI, DestroyLookup(c) PROVE TypeOK'
    <3>1. "destroy" \in Await /\ "destroyed" \in Result
      BY DEF Await, Result
    <3> QED BY <2>14, <2>s, <3>1 DEF DestroyLookup, TypeOK, CfnTypeOK
  <2>15. ASSUME NEW c \in CLI, Destroy(c) PROVE TypeOK'
    <3>1. "waitDestroy" \in Await /\ "refused" \in Result
      BY DEF Await, Result
    <3>2. CfnTypeOK'
      BY <2>15, <2>s, CallTypes, RequestedConfigType, CliAssumption DEF Destroy
    <3> QED BY <2>15, <3>1, <3>2 DEF Destroy, TypeOK
  <2>16. ASSUME NEW c \in CLI, WaitDestroy(c) PROVE TypeOK'
    <3>1. {"destroyed", "error"} \subseteq Result
      BY DEF Result
    <3> QED BY <2>16, <3>1 DEF WaitDestroy, TypeOK, CfnTypeOK
  <2>17. CASE Progress
    <3>1. CfnTypeOK'
      BY <2>17, <2>s, ProgressType DEF Progress
    <3>2. stack'.config \in Config
      BY <3>1 DEF CfnTypeOK, Stack
    <3>3. completed' \in [CLI -> SUBSET Config]
      BY <2>17, <3>2 DEF Progress, TypeOK
    <3> QED BY <2>17, <3>1, <3>3 DEF Progress, TypeOK
  <2>18. ASSUME NEW n \in ChangeSetNames, Compute(n) PROVE TypeOK'
    <3>1. CfnTypeOK'
      BY <2>18, <2>s DEF Compute, ComputeChangeSet, CfnTypeOK, ChangeSet, ChangeSetStatus
    <3> QED BY <2>18, <3>1 DEF Compute, cliVars, TypeOK
  <2>19. CASE UNCHANGED vars
    BY <2>19 DEF vars, TypeOK, CfnTypeOK
  <2> QED
    BY <2>1, <2>2, <2>3, <2>4, <2>5, <2>6, <2>7, <2>8, <2>9, <2>10, <2>11, <2>12,
       <2>13, <2>14, <2>15, <2>16, <2>17, <2>18, <2>19
       DEF Next, CliStep, ServiceStep
<1> QED BY <1>1, <1>2, PTL DEF Spec

-----------------------------------------------------------------------------
(* Any number of invocations on one stack.                                 *)

\* An operation in progress ends in success only from a status that is not a
\* success itself, so the step that gets there is noted by the history.
LEMMA ProgressIsNoted ==
  ASSUME TypeOK, Progress, NEW c \in CLI, pc[c] = "waitDeploy", completed'[c] = {}
  PROVE  stack'.status \notin DeploySuccessStatus /\ completed[c] = {}
  BY DEF Progress, TypeOK

\* For every set of invocations and every set of requests: a deployment is
\* reported as done only after an operation finished successfully since its
\* change set was executed.
THEOREM DeploymentsAwaitCompletion == Spec => []DeployAwaitsCompletion
<1> DEFINE Inv == SharedInv /\ DeployAwaitsCompletion
<1>1. Init => Inv
  BY DEF Init, SharedInv, Reported, AwaitsOperation, DeployAwaitsCompletion
<1>2. TypeOK /\ Inv /\ [Next]_vars => Inv'
  <2> SUFFICES ASSUME TypeOK, Inv, [Next]_vars, NEW d \in CLI
               PROVE  /\ Reported(d)' /\ AwaitsOperation(d)'
                      /\ (result[d] = "deployed" => completed[d] # {})'
    BY DEF SharedInv, DeployAwaitsCompletion
  <2> DEFINE Goal == /\ Reported(d)' /\ AwaitsOperation(d)'
                     /\ (result[d] = "deployed" => completed[d] # {})'
  <2>h. Reported(d) /\ AwaitsOperation(d) /\ (result[d] = "deployed" => completed[d] # {})
    BY DEF SharedInv, DeployAwaitsCompletion
  <2>t. /\ pc \in [CLI -> Await] /\ result \in [CLI -> Result]
        /\ completed \in [CLI -> SUBSET Config]
    BY DEF TypeOK
  <2> USE <2>h, <2>t DEF Reported, AwaitsOperation
  <2>1. ASSUME NEW c \in CLI, Start(c) PROVE Goal
    BY <2>1 DEF Start, cfnVars
  <2>2. ASSUME NEW c \in CLI, Interrupted(c) PROVE Goal
    BY <2>2 DEF Interrupted, End
  <2>3. ASSUME NEW c \in CLI, Lookup(c) PROVE Goal
    BY <2>3 DEF Lookup, Goto
  <2>4. ASSUME NEW c \in CLI, DeleteFailedStack(c) PROVE Goal
    BY <2>4 DEF DeleteFailedStack, DeleteStackCall, Goto, End, cfnVars, DeploySuccessStatus,
                TypeOK, CfnTypeOK, Stack
  <2>5. ASSUME NEW c \in CLI, WaitFailedStackDelete(c) PROVE Goal
    BY <2>5 DEF WaitFailedStackDelete, Goto, End
  <2>6. ASSUME NEW c \in CLI, CheckSkip(c) PROVE Goal
    BY <2>6 DEF CheckSkip, Goto, End
  <2>7. ASSUME NEW c \in CLI, RemoveChangeSet(c) PROVE Goal
    BY <2>7 DEF RemoveChangeSet, DeleteChangeSetCall, Goto, End, cfnVars
  <2>8. ASSUME NEW c \in CLI, CreateChangeSet(c) PROVE Goal
    BY <2>8 DEF CreateChangeSet, CreateChangeSetCall, Goto, End, cfnVars, NoStack,
                DeploySuccessStatus
  <2>9. ASSUME NEW c \in CLI, WaitChangeSet(c) PROVE Goal
    BY <2>9 DEF WaitChangeSet, Goto, End
  <2>10. ASSUME NEW c \in CLI, Protect(c) PROVE Goal
    BY <2>10 DEF Protect, AfterProtect, Goto, End, TypeOK, CfnTypeOK, Stack
  <2>11. ASSUME NEW c \in CLI, RemoveEmpty(c) PROVE Goal
    BY <2>11 DEF RemoveEmpty, DeleteChangeSetCall, Goto, End, cfnVars
  <2>12. ASSUME NEW c \in CLI, Execute(c) PROVE Goal
    BY <2>12 DEF Execute, ExecuteChangeSetCall, Goto, End, cfnVars, DeploySuccessStatus,
                 TypeOK, CfnTypeOK, Stack
  <2>13. ASSUME NEW c \in CLI, WaitDeploy(c) PROVE Goal
    BY <2>13 DEF WaitDeploy, End
  <2>14. ASSUME NEW c \in CLI, DestroyLookup(c) PROVE Goal
    BY <2>14 DEF DestroyLookup, Goto, End
  <2>15. ASSUME NEW c \in CLI, Destroy(c) PROVE Goal
    BY <2>15 DEF Destroy, DeleteStackCall, Goto, End, cfnVars, DeploySuccessStatus,
                 TypeOK, CfnTypeOK, Stack
  <2>16. ASSUME NEW c \in CLI, WaitDestroy(c) PROVE Goal
    BY <2>16 DEF WaitDestroy, End
  <2>17. CASE Progress
    BY <2>17, ProgressIsNoted DEF Progress
  <2>18. ASSUME NEW n \in ChangeSetNames, Compute(n) PROVE Goal
    BY <2>18 DEF Compute, ComputeChangeSet, cliVars
  <2>19. CASE UNCHANGED vars
    BY <2>19 DEF vars
  <2> QED
    BY <2>1, <2>2, <2>3, <2>4, <2>5, <2>6, <2>7, <2>8, <2>9, <2>10, <2>11, <2>12,
       <2>13, <2>14, <2>15, <2>16, <2>17, <2>18, <2>19
       DEF Next, CliStep, ServiceStep
<1> QED BY <1>1, <1>2, TypeCorrect, PTL DEF Spec

-----------------------------------------------------------------------------
(* One invocation at a time.                                               *)

\* The statuses a stack rests in, where no operation moves it on.
LEMMA RestingStatuses ==
  ASSUME NEW s \in UpdatableStatus \cup {"REVIEW_IN_PROGRESS"}
  PROVE  Successors(s) = {}
  BY DEF Successors, UpdatableStatus, DeploySuccessStatus

\* A step of the service keeps what the lone invocation relies on.
LEMMA ServiceKeepsAloneInv ==
  TypeOK /\ AloneInv /\ ServiceStep => AloneInv'
<1> SUFFICES ASSUME TypeOK, AloneInv, ServiceStep PROVE AloneInv'
  OBVIOUS
<1>1. CASE Progress
  <2>1. PICK s \in Successors(stack.status) :
          IF s = NotFound
          THEN /\ stack' = NoStack
               /\ changeSets' = [n \in ChangeSetNames |-> NoChangeSet]
          ELSE /\ stack' = [stack EXCEPT
                              !.status = s,
                              !.config = IF s = "UPDATE_ROLLBACK_COMPLETE"
                                         THEN stack.previous ELSE stack.config]
               /\ UNCHANGED changeSets
    BY <1>1 DEF Progress, ProgressStack
  <2>2. stack \in Stack
    BY DEF TypeOK, CfnTypeOK
  <2>3. /\ s = NotFound => stack.status = "DELETE_IN_PROGRESS" /\ stack' = NoStack
        /\ s # NotFound => /\ stack'.status = s /\ stack'.tp = stack.tp
                           /\ s # "UPDATE_ROLLBACK_COMPLETE" => stack'.config = stack.config
    BY <2>1, <2>2 DEF Successors, Stack, NotFound
  <2>4. s # "DELETE_IN_PROGRESS"
    BY <2>1 DEF Successors, NotFound
  <2>5. StackInv'
    <3>1. CASE s = NotFound
      BY <2>3, <3>1 DEF StackInv, NoStack, NotFound
    <3>2. CASE s # NotFound
      BY <2>3, <2>4, <3>2 DEF StackInv
    <3> QED BY <3>1, <3>2
  <2>6. ASSUME NEW c \in CLI
        PROVE  (Reported(c) /\ SnapshotHolds(c) /\ ChangeSetIsMine(c) /\ PutsInPlace(c))'
    <3>0. Reported(c) /\ SnapshotHolds(c) /\ ChangeSetIsMine(c) /\ PutsInPlace(c)
      BY DEF AloneInv
    <3>u. UNCHANGED <<pc, request, seen, result>>
      BY <1>1 DEF Progress
    <3>1. Reported(c)'
      BY <3>0, <3>u DEF Reported
    <3>2. SnapshotHolds(c)'
      <4>1. stack'.tp = stack.tp
        <5>1. CASE s = NotFound
          <6>1. stack.tp = FALSE
            BY <2>2, <2>3, <5>1 DEF AloneInv, StackInv, Stack
          <6>2. NoStack.tp = FALSE
            BY DEF NoStack
          <6>3. stack' = NoStack
            BY <2>3, <5>1
          <6> QED BY <6>1, <6>2, <6>3, Zenon
        <5> QED BY <2>3, <5>1
      <4> QED BY <3>0, <3>u, <4>1 DEF SnapshotHolds
    <3>3. ChangeSetIsMine(c)'
      BY <2>1, <3>0, <3>u, RestingStatuses DEF ChangeSetIsMine
    <3>4. PutsInPlace(c)'
      <4>1. pc[c] # "execute"
        BY <2>1, <3>0, RestingStatuses DEF ChangeSetIsMine
      <4>2. CASE pc[c] = "waitDeploy"
        <5>1. stack.status # "DELETE_IN_PROGRESS" /\ s # NotFound
          BY <2>3, <3>0, <4>2 DEF PutsInPlace
        <5>2. s \in DeploySuccessStatus \cup {"CREATE_IN_PROGRESS", "UPDATE_IN_PROGRESS",
                      "UPDATE_COMPLETE_CLEANUP_IN_PROGRESS"} =>
                stack.status \in {"CREATE_IN_PROGRESS", "UPDATE_IN_PROGRESS",
                      "UPDATE_COMPLETE_CLEANUP_IN_PROGRESS"}
          BY <2>1 DEF Successors, DeploySuccessStatus, NotFound
        <5>3. RequestedConfig(c)' = RequestedConfig(c)
          BY <3>u DEF RequestedConfig
        <5>4. stack'.status = s /\ stack'.tp = stack.tp
          BY <2>3, <5>1
        <5>5. s \in DeploySuccessStatus \cup {"CREATE_IN_PROGRESS", "UPDATE_IN_PROGRESS",
                      "UPDATE_COMPLETE_CLEANUP_IN_PROGRESS"} =>
                stack'.config = RequestedConfig(c)
          BY <2>3, <3>0, <4>2, <5>1, <5>2 DEF PutsInPlace, DeploySuccessStatus
        <5> QED BY <2>4, <3>0, <3>u, <4>2, <5>1, <5>3, <5>4, <5>5 DEF PutsInPlace
      <4> QED BY <3>u, <4>1, <4>2 DEF PutsInPlace
    <3> QED BY <3>1, <3>2, <3>3, <3>4
  <2> QED BY <2>5, <2>6 DEF AloneInv
<1>2. ASSUME NEW n \in ChangeSetNames, Compute(n) PROVE AloneInv'
  <2>1. UNCHANGED <<stack, pc, request, seen, result>>
    BY <1>2 DEF Compute, ComputeChangeSet, cliVars
  <2>2. \A m \in ChangeSetNames : changeSets'[m].status # "NONE" =>
          changeSets[m].status # "NONE" /\ changeSets'[m].config = changeSets[m].config
    BY <1>2 DEF Compute, ComputeChangeSet, TypeOK, CfnTypeOK, ChangeSet
  <2>3. \A c \in CLI : ChangeSetName(c) \in ChangeSetNames
    BY RequestedConfigType
  <2>4. \A c \in CLI : ChangeSetIsMine(c)'
    BY <2>1, <2>2, <2>3 DEF AloneInv, ChangeSetIsMine, ChangeSetName, RequestedConfig
  <2> QED
    BY <2>1, <2>4 DEF AloneInv, StackInv, Reported, SnapshotHolds, PutsInPlace, RequestedConfig
<1> QED BY <1>1, <1>2 DEF ServiceStep

\* What a step of the lone invocation has to keep of its own part.
LoneInv(c) == Reported(c) /\ SnapshotHolds(c) /\ ChangeSetIsMine(c) /\ PutsInPlace(c)

\* A step of the invocation, a start or an interruption keeps what it relies on.
LEMMA CliKeepsAloneInv ==
  ASSUME Alone, TypeOK, AloneInv, NEW c \in CLI, Start(c) \/ CliStep(c) \/ Interrupted(c)
  PROVE  AloneInv'
<1> SUFFICES StackInv' /\ LoneInv(c)'
  BY DEF Alone, AloneInv, LoneInv
<1>h. StackInv /\ LoneInv(c)
  BY DEF AloneInv, LoneInv
<1>t. /\ stack \in Stack /\ changeSets \in [ChangeSetNames -> ChangeSet]
      /\ pc \in [CLI -> Await] /\ result \in [CLI -> Result] /\ seen \in [CLI -> Stack]
      /\ request \in [CLI -> Request]
      /\ ChangeSetName(c) \in ChangeSetNames /\ RequestedConfig(c) \in Config
  BY RequestedConfigType DEF TypeOK, CfnTypeOK
<1> USE <1>h, <1>t
<1>1. CASE Start(c)
  BY <1>1 DEF Start, cfnVars, LoneInv, StackInv, Reported, SnapshotHolds, BeforeProtect,
              ChangeSetIsMine, PutsInPlace
<1>2. CASE Interrupted(c)
  BY <1>2 DEF Interrupted, End, LoneInv, StackInv, Reported, SnapshotHolds, BeforeProtect,
              ChangeSetIsMine, PutsInPlace
<1>3. CASE Lookup(c)
  BY <1>3 DEF Lookup, Goto, LoneInv, StackInv, Reported, SnapshotHolds, BeforeProtect,
              ChangeSetIsMine, PutsInPlace
<1>4. CASE DeleteFailedStack(c)
  BY <1>4 DEF DeleteFailedStack, DeleteStackCall, AcceptsDelete, Goto, End, cfnVars, LoneInv,
              StackInv, Reported, SnapshotHolds, BeforeProtect, ChangeSetIsMine, PutsInPlace,
              Stack, NotFound, NoStack
<1>5. CASE WaitFailedStackDelete(c)
  BY <1>5, GoneMeansGone DEF WaitFailedStackDelete, Goto, End, LoneInv, StackInv, Reported, SnapshotHolds,
              BeforeProtect, ChangeSetIsMine, PutsInPlace
<1>6. CASE CheckSkip(c)
  BY <1>6 DEF CheckSkip, Goto, End, LoneInv, StackInv, Reported, SnapshotHolds,
              BeforeProtect, ChangeSetIsMine, PutsInPlace
<1>7. CASE RemoveChangeSet(c)
  BY <1>7 DEF RemoveChangeSet, DeleteChangeSetCall, Goto, End, cfnVars, LoneInv, StackInv,
              Reported, SnapshotHolds, BeforeProtect, ChangeSetIsMine, PutsInPlace
<1>8. CASE CreateChangeSet(c)
  <2>1. CASE AcceptsCreate(ChangeSetName(c), IsUpdate(c))
    <3>1. /\ CreateChangeSetCall(ChangeSetName(c), RequestedConfig(c), c)
          /\ Goto(c, "waitChangeSet") /\ UNCHANGED <<request, seen>>
      BY <1>8, <2>1 DEF CreateChangeSet
    <3>2. /\ stack'.status \in UpdatableStatus \cup {"REVIEW_IN_PROGRESS"}
          /\ stack'.tp = stack.tp
      BY <2>1, <3>1 DEF AcceptsCreate, CreateChangeSetCall, UpdatableStatus, NoStack,
                        StackInv, Stack
    <3>3. StackInv'
      BY <3>2 DEF StackInv, UpdatableStatus, DeploySuccessStatus, NotFound
    <3>4. changeSets'[ChangeSetName(c)].config = RequestedConfig(c)
      BY <3>1 DEF CreateChangeSetCall
    <3>5. pc'[c] = "waitChangeSet" /\ result' = result /\ pc[c] # "idle"
      BY <1>8, <3>1 DEF CreateChangeSet, Goto
    <3>6. ChangeSetName(c)' = ChangeSetName(c) /\ RequestedConfig(c)' = RequestedConfig(c)
      BY <3>1 DEF ChangeSetName, RequestedConfig
    <3>7. SnapshotHolds(c)'
      BY <1>8, <3>1, <3>2 DEF CreateChangeSet, SnapshotHolds, BeforeProtect, LoneInv
    <3> QED BY <3>1, <3>2, <3>3, <3>4, <3>5, <3>6, <3>7
            DEF LoneInv, Reported, ChangeSetIsMine, PutsInPlace
  <2>2. CASE ~AcceptsCreate(ChangeSetName(c), IsUpdate(c))
    BY <1>8, <2>2 DEF CreateChangeSet, End, cfnVars, LoneInv, StackInv, Reported,
                      SnapshotHolds, BeforeProtect, ChangeSetIsMine, PutsInPlace
  <2> QED BY <2>1, <2>2
<1>9. CASE WaitChangeSet(c)
  BY <1>9 DEF WaitChangeSet, Goto, End, LoneInv, StackInv, Reported, SnapshotHolds,
              BeforeProtect, ChangeSetIsMine, PutsInPlace, ChangeSetName, RequestedConfig
<1>10. CASE Protect(c)
  <2>1. /\ pc[c] = "protect" /\ seen[c].tp = stack.tp /\ stack.status # "DELETE_IN_PROGRESS"
        /\ stack.status # NotFound
    BY <1>10 DEF Protect, LoneInv, SnapshotHolds, BeforeProtect, ChangeSetIsMine,
                 UpdatableStatus, DeploySuccessStatus, NotFound
  <2>2. /\ stack'.tp = request[c].tp /\ stack'.status = stack.status
        /\ AfterProtect(c) /\ UNCHANGED <<changeSets, request, seen>>
    BY <1>10, <2>1 DEF Protect, Exists, Stack
  <2>3. pc'[c] \in {"removeEmpty", "idle", "execute"} /\ (result'[c] # "none" => pc'[c] = "idle")
    BY <2>1, <2>2 DEF AfterProtect, Goto, End, LoneInv, Reported
  <2>4. StackInv'
    BY <2>1, <2>2 DEF StackInv
  <2>5. ChangeSetIsMine(c)'
    BY <2>1, <2>2 DEF LoneInv, ChangeSetIsMine, ChangeSetName, RequestedConfig
  <2> QED BY <2>2, <2>3, <2>4, <2>5
          DEF LoneInv, Reported, SnapshotHolds, BeforeProtect, PutsInPlace
<1>11. CASE RemoveEmpty(c)
  BY <1>11 DEF RemoveEmpty, DeleteChangeSetCall, End, cfnVars, LoneInv, StackInv,
               Reported, SnapshotHolds, BeforeProtect, ChangeSetIsMine, PutsInPlace
<1>12. CASE Execute(c)
  <2>1. CASE AcceptsExecute(ChangeSetName(c))
    <3>1. /\ ExecuteChangeSetCall(ChangeSetName(c)) /\ Goto(c, "waitDeploy")
          /\ UNCHANGED <<request, seen>> /\ pc[c] = "execute"
      BY <1>12, <2>1 DEF Execute
    <3>2. changeSets[ChangeSetName(c)].config = RequestedConfig(c) /\ stack.tp = request[c].tp
      BY <2>1, <3>1 DEF AcceptsExecute, LoneInv, ChangeSetIsMine, PutsInPlace
    <3>3. /\ stack'.status \in {"CREATE_IN_PROGRESS", "UPDATE_IN_PROGRESS"}
          /\ stack'.config = RequestedConfig(c) /\ stack'.tp = request[c].tp
      BY <3>1, <3>2 DEF ExecuteChangeSetCall, Stack
    <3>4. pc'[c] = "waitDeploy" /\ result' = result
      BY <3>1 DEF Goto
    <3>5. RequestedConfig(c)' = RequestedConfig(c)
      BY <3>1 DEF RequestedConfig
    <3> QED BY <3>1, <3>3, <3>4, <3>5 DEF StackInv, LoneInv, Reported, SnapshotHolds,
                 BeforeProtect, ChangeSetIsMine, PutsInPlace, NotFound
  <2>2. CASE ~AcceptsExecute(ChangeSetName(c))
    BY <1>12, <2>2 DEF Execute, End, cfnVars, LoneInv, StackInv, Reported,
                       SnapshotHolds, BeforeProtect, ChangeSetIsMine, PutsInPlace
  <2> QED BY <2>1, <2>2
<1>13. CASE WaitDeploy(c)
  BY <1>13 DEF WaitDeploy, End, LoneInv, StackInv, Reported, SnapshotHolds, BeforeProtect,
               ChangeSetIsMine, PutsInPlace
<1>14. CASE DestroyLookup(c)
  BY <1>14 DEF DestroyLookup, Goto, End, LoneInv, StackInv, Reported, SnapshotHolds,
               BeforeProtect, ChangeSetIsMine, PutsInPlace
<1>15. CASE Destroy(c)
  BY <1>15 DEF Destroy, DeleteStackCall, AcceptsDelete, Goto, End, cfnVars, LoneInv, StackInv,
               Reported, SnapshotHolds, BeforeProtect, ChangeSetIsMine, PutsInPlace,
               Stack, NotFound, NoStack
<1>16. CASE WaitDestroy(c)
  BY <1>16 DEF WaitDestroy, End, LoneInv, StackInv, Reported, SnapshotHolds, BeforeProtect,
               ChangeSetIsMine, PutsInPlace
<1> QED
  BY <1>1, <1>2, <1>3, <1>4, <1>5, <1>6, <1>7, <1>8, <1>9, <1>10, <1>11, <1>12, <1>13,
     <1>14, <1>15, <1>16 DEF CliStep

\* For every template, every set of inputs and every request: when invocations do
\* not overlap, a deployment reported as done has left the stack as asked for.
THEOREM DeploymentsAreInPlace == Alone => (Spec => []DeployedIsInPlace)
<1> SUFFICES ASSUME Alone PROVE Spec => []DeployedIsInPlace
  OBVIOUS
<1> DEFINE Inv == AloneInv /\ DeployedIsInPlace
<1>1. Init => Inv
  BY DEF Init, CfnInit, AloneInv, DeployedIsInPlace, StackInv, Reported, SnapshotHolds,
         BeforeProtect, ChangeSetIsMine, PutsInPlace, NoStack, NotFound
<1>2. TypeOK /\ Inv /\ [Next]_vars => Inv'
  <2> SUFFICES ASSUME TypeOK, Inv, [Next]_vars PROVE Inv'
    OBVIOUS
  <2>1. ASSUME NEW c \in CLI, Start(c) \/ CliStep(c) \/ Interrupted(c) PROVE Inv'
    <3>1. AloneInv'
      BY <2>1, CliKeepsAloneInv
    <3>2. ASSUME result'[c] = "deployed" PROVE WaitDeploy(c)
      BY <2>1, <3>2 DEF AloneInv, Reported, TypeOK, Goto, End, AfterProtect, Start, Interrupted,
            CliStep, Lookup, DeleteFailedStack, WaitFailedStackDelete, CheckSkip, RemoveChangeSet,
            CreateChangeSet, WaitChangeSet, Protect, RemoveEmpty, Execute, DestroyLookup,
            Destroy, WaitDestroy
    <3>3. result'[c] = "deployed" =>
            /\ stack'.status \in DeploySuccessStatus
            /\ stack'.config = RequestedConfig(c)'
             /\ stack'.tp = request'[c].tp
      BY <3>2 DEF WaitDeploy, End, AloneInv, PutsInPlace, RequestedConfig, TypeOK
    <3>4. \A d \in CLI : d = c
      BY DEF Alone
    <3> QED BY <3>1, <3>3, <3>4 DEF DeployedIsInPlace
  <2>2. CASE ServiceStep
    <3>1. AloneInv'
      BY <2>2, ServiceKeepsAloneInv
    <3>2. stack.status \in DeploySuccessStatus => UNCHANGED stack
      BY <2>2, RestingStatuses
         DEF ServiceStep, Progress, ProgressStack, Compute, ComputeChangeSet, UpdatableStatus
    <3>3. UNCHANGED <<request, result>>
      BY <2>2 DEF ServiceStep, Progress, Compute, cliVars
    <3> QED BY <3>1, <3>2, <3>3 DEF DeployedIsInPlace, RequestedConfig
  <2>3. CASE UNCHANGED vars
    BY <2>3 DEF vars, AloneInv, StackInv, Reported, SnapshotHolds, BeforeProtect, ChangeSetIsMine,
                PutsInPlace, DeployedIsInPlace, RequestedConfig, ChangeSetName
  <2> QED BY <2>1, <2>2, <2>3 DEF Next
<1> QED BY <1>1, <1>2, TypeCorrect, PTL DEF Spec

-----------------------------------------------------------------------------
(* What an invocation reports without having deployed, and the calls it    *)
(* makes.                                                                  *)

\* However many invocations there are: change sets are registered on a resting
\* stack or one that is being deleted, and an empty one asks for what the stack has.
LEMMA CallsKeepRegisteredInv ==
  ASSUME TypeOK, RegisteredInv, NEW n \in ChangeSetNames, NEW k \in Config, NEW o \in Owners
  PROVE  /\ \A u \in BOOLEAN :
              AcceptsCreate(n, u) /\ CreateChangeSetCall(n, k, o) => RegisteredInv'
         /\ DeleteChangeSetCall(n) => RegisteredInv'
         /\ ExecuteChangeSetCall(n) => RegisteredInv'
         /\ DeleteStackCall => RegisteredInv'
         /\ ComputeChangeSet(n) => RegisteredInv'
<1>t. stack \in Stack /\ changeSets \in [ChangeSetNames -> ChangeSet]
  BY DEF TypeOK, CfnTypeOK
<1>1. ASSUME NEW u \in BOOLEAN, AcceptsCreate(n, u), CreateChangeSetCall(n, k, o)
      PROVE  RegisteredInv'
  BY <1>1, <1>t DEF AcceptsCreate, CreateChangeSetCall, RegisteredInv, NoStack, NotFound,
                    UpdatableStatus, DeploySuccessStatus, Stack, ChangeSet
<1>2. ASSUME DeleteChangeSetCall(n) PROVE RegisteredInv'
  BY <1>2, <1>t DEF DeleteChangeSetCall, RegisteredInv, NoChangeSet
<1>3. ASSUME ExecuteChangeSetCall(n) PROVE RegisteredInv'
  BY <1>3 DEF ExecuteChangeSetCall, RegisteredInv, NoChangeSet
<1>4. ASSUME DeleteStackCall PROVE RegisteredInv'
  BY <1>4, <1>t DEF DeleteStackCall, RegisteredInv, Stack
<1>5. ASSUME ComputeChangeSet(n) PROVE RegisteredInv'
  BY <1>5, <1>t DEF ComputeChangeSet, RegisteredInv, ChangeSet
<1> QED BY <1>1, <1>2, <1>3, <1>4, <1>5

LEMMA ProgressKeepsRegisteredInv ==
  ASSUME TypeOK, RegisteredInv, ProgressStack
  PROVE  RegisteredInv'
<1>1. PICK s \in Successors(stack.status) :
        IF s = NotFound
        THEN /\ stack' = NoStack
             /\ changeSets' = [n \in ChangeSetNames |-> NoChangeSet]
        ELSE /\ stack' = [stack EXCEPT
                            !.status = s,
                            !.config = IF s = "UPDATE_ROLLBACK_COMPLETE"
                                       THEN stack.previous ELSE stack.config]
             /\ UNCHANGED changeSets
  BY DEF ProgressStack
<1>2. CASE s = NotFound
  BY <1>1, <1>2 DEF RegisteredInv, NoChangeSet
<1>3. CASE s # NotFound
  <2>1. ASSUME NEW n \in ChangeSetNames, changeSets[n].status # "NONE"
        PROVE  stack.status = "DELETE_IN_PROGRESS" /\ s = "DELETE_FAILED"
    BY <1>1, <1>3, <2>1
       DEF RegisteredInv, Successors, NotFound, UpdatableStatus, DeploySuccessStatus
  <2>2. stack'.status = s /\ (s # "UPDATE_ROLLBACK_COMPLETE" => stack'.config = stack.config)
    BY <1>1, <1>3 DEF TypeOK, CfnTypeOK, Stack
  <2> QED BY <1>1, <1>3, <2>1, <2>2 DEF RegisteredInv
<1> QED BY <1>2, <1>3

\* A stack that no operation works on stays as it is.
LEMMA RestingStays ==
  ASSUME TypeOK, ProgressStack
  PROVE  /\ stack.status \in InProgressStatus \ {"REVIEW_IN_PROGRESS"}
         /\ stack.status = "DELETE_IN_PROGRESS" \/ stack'.tp = stack.tp
         /\ stack.status # NotFound
  BY DEF ProgressStack, Successors, InProgressStatus, NotFound, TypeOK, CfnTypeOK, Stack

LEMMA ServiceKeepsReportsInv ==
  TypeOK /\ AloneInv /\ ReportsInv /\ ServiceStep => ReportsInv'
<1> SUFFICES ASSUME TypeOK, AloneInv, ReportsInv, ServiceStep PROVE ReportsInv'
  OBVIOUS
<1>1. CASE Progress
  <2>1. RegisteredInv'
    BY <1>1, ProgressKeepsRegisteredInv DEF Progress, ReportsInv
  <2>2. /\ stack.status \in InProgressStatus \ {"REVIEW_IN_PROGRESS"}
        /\ stack'.tp = stack.tp
        /\ stack.status # NotFound
    <3>1. ProgressStack
      BY <1>1 DEF Progress
    <3>2. stack.status = "DELETE_IN_PROGRESS" => stack.tp = FALSE
      BY DEF AloneInv, StackInv, TypeOK, CfnTypeOK, Stack
    <3>3. stack.status = "DELETE_IN_PROGRESS" => stack'.tp = stack.tp
      <4>1. PICK s \in Successors(stack.status) :
              IF s = NotFound
              THEN stack' = NoStack
              ELSE stack' = [stack EXCEPT
                               !.status = s,
                               !.config = IF s = "UPDATE_ROLLBACK_COMPLETE"
                                          THEN stack.previous ELSE stack.config]
        BY <3>1 DEF ProgressStack
      <4>2. CASE s = NotFound
        <5>1. NoStack.tp = FALSE
          BY DEF NoStack
        <5>2. stack' = NoStack
          BY <4>1, <4>2
        <5> QED BY <3>2, <5>1, <5>2, Zenon
      <4>3. CASE s # NotFound
        BY <4>1, <4>3 DEF TypeOK, CfnTypeOK, Stack
      <4> QED BY <4>2, <4>3
    <3> QED BY <3>1, <3>3, RestingStays
  <2>3. UNCHANGED <<pc, request, seen, noChanges, result>>
    BY <1>1 DEF Progress
  <2>4. stack.status \notin UpdatableStatus \cup CreationFailureStatus \cup {"REVIEW_IN_PROGRESS"}
    BY <2>2 DEF InProgressStatus, UpdatableStatus, DeploySuccessStatus, CreationFailureStatus
  <2>5. \A n \in ChangeSetNames : changeSets[n].status = "NONE" => changeSets'[n].status = "NONE"
    BY <1>1 DEF Progress, ProgressStack, NoChangeSet
  <2>6. ASSUME NEW c \in CLI
        PROVE  (SnapshotIsCurrent(c) /\ ChangeSetIsKnown(c) /\ ReportHolds(c))'
    <3>1. SnapshotIsCurrent(c) /\ ChangeSetIsKnown(c) /\ ReportHolds(c) /\ ChangeSetIsMine(c)
      BY DEF ReportsInv, AloneInv
    <3>2. SnapshotIsCurrent(c)'
      BY <2>2, <2>3, <2>4, <2>5, <3>1, RequestedConfigType
         DEF SnapshotIsCurrent, FoundAtRest, Exists, ChangeSetName
    <3>3. ChangeSetIsKnown(c)'
      BY <2>3, <2>4, <3>1 DEF ChangeSetIsKnown, ChangeSetIsMine
    <3>4. ReportHolds(c)'
      BY <2>2, <2>3, <2>4, <3>1 DEF ReportHolds, FoundAtRest, Exists
    <3> QED BY <3>2, <3>3, <3>4
  <2> QED BY <2>1, <2>6 DEF ReportsInv
<1>2. ASSUME NEW n \in ChangeSetNames, Compute(n) PROVE ReportsInv'
  <2>1. UNCHANGED <<stack, pc, request, seen, noChanges, result>>
    BY <1>2 DEF Compute, ComputeChangeSet, cliVars
  <2>2. RegisteredInv'
    <3>1. ComputeChangeSet(n) /\ RegisteredInv
      BY <1>2 DEF Compute, ReportsInv
    <3> QED BY <3>1, CfnValues DEF ComputeChangeSet, RegisteredInv, TypeOK, CfnTypeOK, ChangeSet
  <2>3. \A m \in ChangeSetNames :
          /\ changeSets'[m].status = "NONE" <=> changeSets[m].status = "NONE"
          /\ changeSets'[m].by = changeSets[m].by
          /\ changeSets[m].status = "CREATE_COMPLETE" => changeSets'[m] = changeSets[m]
    BY <1>2 DEF Compute, ComputeChangeSet, TypeOK, CfnTypeOK, ChangeSet
  <2>4. ASSUME NEW c \in CLI
        PROVE  (SnapshotIsCurrent(c) /\ ChangeSetIsKnown(c) /\ ReportHolds(c))'
    <3>1. SnapshotIsCurrent(c) /\ ChangeSetIsKnown(c) /\ ReportHolds(c)
      BY DEF ReportsInv
    <3>2. /\ ChangeSetName(c)' = ChangeSetName(c) /\ RequestedConfig(c)' = RequestedConfig(c)
          /\ ChangeSetName(c) \in ChangeSetNames
      BY <2>1, RequestedConfigType DEF ChangeSetName, RequestedConfig
    <3>3. SnapshotIsCurrent(c)'
      BY <2>1, <2>3, <3>1, <3>2 DEF SnapshotIsCurrent, FoundAtRest, Exists
    <3>4. ChangeSetIsKnown(c)'
      BY <2>1, <2>3, <3>1, <3>2 DEF ChangeSetIsKnown
    <3>5. ReportHolds(c)'
      BY <2>1, <2>3, <3>1, <3>2 DEF ReportHolds, FoundAtRest, Exists
    <3> QED BY <3>3, <3>4, <3>5
  <2> QED BY <2>2, <2>4 DEF ReportsInv
<1> QED BY <1>1, <1>2 DEF ServiceStep

\* What a step of the lone invocation has to keep of its own part.
LoneReport(c) == SnapshotIsCurrent(c) /\ ChangeSetIsKnown(c) /\ ReportHolds(c)

\* A step of the invocation, a start or an interruption keeps what its report
\* and its next call rely on.
LEMMA CliKeepsReportsInv ==
  ASSUME Alone, TypeOK, AloneInv, ReportsInv, NEW c \in CLI,
         Start(c) \/ CliStep(c) \/ Interrupted(c)
  PROVE  ReportsInv'
<1> SUFFICES RegisteredInv' /\ LoneReport(c)'
  BY DEF Alone, ReportsInv, LoneReport
<1>h. /\ RegisteredInv /\ SnapshotIsCurrent(c) /\ ChangeSetIsKnown(c) /\ ReportHolds(c)
      /\ StackInv /\ Reported(c) /\ SnapshotHolds(c) /\ ChangeSetIsMine(c) /\ PutsInPlace(c)
  BY DEF AloneInv, ReportsInv
<1>t. /\ stack \in Stack /\ changeSets \in [ChangeSetNames -> ChangeSet]
      /\ pc \in [CLI -> Await] /\ result \in [CLI -> Result] /\ seen \in [CLI -> Stack]
      /\ request \in [CLI -> Request] /\ noChanges \in [CLI -> BOOLEAN]
      /\ ChangeSetName(c) \in ChangeSetNames /\ RequestedConfig(c) \in Config /\ c \in Owners
  BY RequestedConfigType, CliAssumption DEF TypeOK, CfnTypeOK
<1> USE <1>h, <1>t
<1>e. pc'[c] = "idle" => SnapshotIsCurrent(c)' /\ ChangeSetIsKnown(c)'
  BY DEF SnapshotIsCurrent, ChangeSetIsKnown, BeforeProtect
<1>r. result'[c] \in {"none", "error", "deployed"} => ReportHolds(c)'
  BY DEF ReportHolds
<1>n. pc[c] # "idle" => result[c] = "none"
  BY DEF Reported
<1>1. CASE Start(c)
  <2>1. RegisteredInv'
    BY <1>1 DEF Start, cfnVars, RegisteredInv
  <2>2. pc'[c] = "lookup" /\ result'[c] = "none" /\ ~noChanges'[c]
    BY <1>1 DEF Start
  <2> QED BY <2>1, <2>2, <1>r DEF LoneReport, SnapshotIsCurrent, ChangeSetIsKnown, BeforeProtect
<1>2. CASE Interrupted(c)
  <2>1. RegisteredInv'
    BY <1>2 DEF Interrupted, RegisteredInv
  <2>2. pc'[c] = "idle" /\ result'[c] = "error"
    BY <1>2 DEF Interrupted, End
  <2> QED BY <2>1, <2>2, <1>e, <1>r DEF LoneReport
<1>3. CASE Lookup(c)
  <2>1. RegisteredInv'
    BY <1>3 DEF Lookup, RegisteredInv
  <2>2. /\ UNCHANGED <<stack, changeSets, request, noChanges, result>>
        /\ seen'[c] = stack /\ pc[c] = "lookup"
        /\ pc'[c] = IF stack.status \in CreationFailureStatus
                    THEN "deleteFailedStack" ELSE "checkSkip"
    BY <1>3 DEF Lookup, Goto
  <2>3. SnapshotIsCurrent(c)'
    BY <2>2 DEF SnapshotIsCurrent
  <2>4. ~noChanges'[c] /\ pc'[c] \in {"deleteFailedStack", "checkSkip"}
    BY <2>2 DEF ChangeSetIsKnown
  <2>5. ChangeSetIsKnown(c)'
    BY <2>4 DEF ChangeSetIsKnown
  <2> QED BY <2>1, <2>2, <2>3, <2>5, <1>r, <1>n DEF LoneReport
<1>4. CASE DeleteFailedStack(c)
  <2>1. RegisteredInv'
    BY <1>4, CallsKeepRegisteredInv DEF DeleteFailedStack, RegisteredInv, cfnVars
  <2>2. CASE AcceptsDelete
    <3>1. pc'[c] = "waitFailedStackDelete" /\ result'[c] = "none" /\ ~noChanges'[c]
      BY <1>4, <2>2, <1>n DEF DeleteFailedStack, Goto, ChangeSetIsKnown, BeforeProtect
    <3> QED BY <2>1, <3>1, <1>r DEF LoneReport, SnapshotIsCurrent, ChangeSetIsKnown
  <2>3. CASE ~AcceptsDelete
    <3>1. /\ pc'[c] = "idle" /\ result'[c] = "refused" /\ UNCHANGED <<stack, seen>>
          /\ seen[c].tp
      BY <1>4, <2>3 DEF DeleteFailedStack, End, cfnVars, AcceptsDelete, SnapshotHolds, BeforeProtect
    <3>2. ReportHolds(c)'
      BY <3>1 DEF ReportHolds
    <3> QED BY <2>1, <3>1, <3>2, <1>e DEF LoneReport
  <2> QED BY <2>2, <2>3
<1>5. CASE WaitFailedStackDelete(c)
  <2>1. RegisteredInv'
    BY <1>5 DEF WaitFailedStackDelete, RegisteredInv
  <2>2. CASE Gone(stack)
    <3>1. /\ pc'[c] = "checkSkip" /\ result'[c] = "none" /\ seen'[c] = NoStack
          /\ UNCHANGED <<stack, changeSets, noChanges>> /\ pc[c] = "waitFailedStackDelete"
      BY <1>5, <2>2, <1>n DEF WaitFailedStackDelete, Goto
    <3>2. stack = NoStack
      BY <1>5, <2>2, GoneMeansGone DEF WaitFailedStackDelete, StackInv
    <3>3. NoStack.status \notin CreationFailureStatus
      BY DEF NoStack, NotFound, CreationFailureStatus
    <3>4. SnapshotIsCurrent(c)'
      BY <3>1, <3>2, <3>3 DEF SnapshotIsCurrent
    <3>5. ChangeSetIsKnown(c)'
      BY <3>1 DEF ChangeSetIsKnown, BeforeProtect
    <3> QED BY <2>1, <3>1, <3>4, <3>5, <1>r DEF LoneReport
  <2>3. CASE ~Gone(stack)
    <3>1. pc'[c] = "idle" /\ result'[c] = "error"
      BY <1>5, <2>3 DEF WaitFailedStackDelete, End
    <3> QED BY <2>1, <3>1, <1>e, <1>r DEF LoneReport
  <2> QED BY <2>2, <2>3
<1>6. CASE CheckSkip(c)
  <2>1. RegisteredInv'
    BY <1>6 DEF CheckSkip, RegisteredInv
  <2>2. /\ pc[c] = "checkSkip"
        /\ UNCHANGED <<stack, changeSets, request, seen, noChanges>>
    BY <1>6 DEF CheckSkip
  <2>3. ASSUME End(c, "error") PROVE LoneReport(c)'
    BY <2>3, <1>e, <1>r DEF End, LoneReport
  <2>4. ASSUME CanSkip(c), End(c, "noOp") PROVE LoneReport(c)'
    <3>1. pc'[c] = "idle" /\ result'[c] = "noOp"
      BY <2>4 DEF End
    <3>2. ASSUME seen[c].status \notin InProgressStatus
          PROVE  /\ stack.status \notin InProgressStatus
                 /\ stack.config = RequestedConfig(c) /\ stack.tp = request[c].tp
      <4>1. stack.status = seen[c].status /\ stack.config = seen[c].config
        BY <2>2, <3>2 DEF SnapshotIsCurrent, FoundAtRest
      <4>2. stack.tp = seen[c].tp
        BY <2>2 DEF SnapshotHolds, BeforeProtect
      <4>3. stack.config = [template |-> stack.config.template, inputs |-> stack.config.inputs]
        BY DEF Stack, Config
      <4> QED BY <2>4, <3>2, <4>1, <4>2, <4>3 DEF CanSkip, RequestedConfig
    <3>3. ~noChanges[c]
      BY <2>2 DEF ChangeSetIsKnown, BeforeProtect
    <3>4. ReportHolds(c)'
      BY <2>2, <3>1, <3>2, <3>3 DEF ReportHolds, RequestedConfig
    <3> QED BY <3>1, <3>4, <1>e DEF LoneReport
  <2>5. ASSUME Goto(c, IF Exists(seen[c]) THEN "removeChangeSet" ELSE "createChangeSet")
        PROVE  LoneReport(c)'
    <3>1. /\ pc'[c] = IF Exists(seen[c]) THEN "removeChangeSet" ELSE "createChangeSet"
          /\ result'[c] = "none"
      BY <2>2, <2>5, <1>n DEF Goto
    <3>2. ASSUME ~Exists(seen[c]) PROVE changeSets[ChangeSetName(c)].status = "NONE"
      <4>1. stack.status = NotFound
        BY <2>2, <3>2 DEF SnapshotIsCurrent, FoundAtRest, Exists, InProgressStatus, NotFound
      <4> QED BY <4>1 DEF RegisteredInv, NotFound, UpdatableStatus, DeploySuccessStatus
    <3>3. SnapshotIsCurrent(c)'
      BY <2>2, <3>1, <3>2 DEF SnapshotIsCurrent, FoundAtRest, Exists, ChangeSetName
    <3>4. ChangeSetIsKnown(c)'
      BY <2>2, <3>1 DEF ChangeSetIsKnown, BeforeProtect
    <3> QED BY <3>1, <3>3, <3>4, <1>r DEF LoneReport
  <2> QED BY <2>1, <2>3, <2>4, <2>5, <1>6 DEF CheckSkip
<1>7. CASE RemoveChangeSet(c)
  <2>1. RegisteredInv'
    BY <1>7, CallsKeepRegisteredInv, CfnValues DEF RemoveChangeSet, RegisteredInv, cfnVars
  <2>2. pc[c] = "removeChangeSet" /\ UNCHANGED <<stack, request, seen, noChanges>>
    BY <1>7 DEF RemoveChangeSet, DeleteChangeSetCall, cfnVars
  <2>3. CASE Exists(stack)
    <3>1. /\ pc'[c] = "createChangeSet" /\ result'[c] = "none"
          /\ changeSets'[ChangeSetName(c)].status = "NONE"
      BY <1>7, <2>3, <1>n DEF RemoveChangeSet, Goto, DeleteChangeSetCall, NoChangeSet
    <3>2. SnapshotIsCurrent(c)'
      BY <2>2, <3>1 DEF SnapshotIsCurrent, FoundAtRest, ChangeSetName
    <3>3. ChangeSetIsKnown(c)'
      BY <2>2, <3>1 DEF ChangeSetIsKnown, BeforeProtect
    <3> QED BY <2>1, <3>1, <3>2, <3>3, <1>r DEF LoneReport
  <2>4. CASE ~Exists(stack)
    <3>1. pc'[c] = "idle" /\ result'[c] = "refused" /\ ~FoundAtRest(c)
      BY <1>7, <2>2, <2>4 DEF RemoveChangeSet, End, SnapshotIsCurrent, Exists
    <3>2. ReportHolds(c)'
      BY <2>2, <3>1 DEF ReportHolds, FoundAtRest
    <3> QED BY <2>1, <3>1, <3>2, <1>e DEF LoneReport
  <2> QED BY <2>3, <2>4
<1>8. CASE CreateChangeSet(c)
  <2>2. pc[c] = "createChangeSet" /\ UNCHANGED <<request, seen, noChanges>>
    BY <1>8 DEF CreateChangeSet
  <2>3. CASE AcceptsCreate(ChangeSetName(c), IsUpdate(c))
    <3>1. /\ pc'[c] = "waitChangeSet" /\ result'[c] = "none"
          /\ CreateChangeSetCall(ChangeSetName(c), RequestedConfig(c), c)
      BY <1>8, <2>2, <2>3, <1>n DEF CreateChangeSet, Goto
    <3>2. RegisteredInv'
      BY <2>3, <3>1, CallsKeepRegisteredInv DEF IsUpdate
    <3>3. changeSets'[ChangeSetName(c)] =
            [status |-> "CREATE_IN_PROGRESS", config |-> RequestedConfig(c), by |-> c]
      BY <3>1 DEF CreateChangeSetCall
    <3>4. SnapshotIsCurrent(c)'
      BY <3>1 DEF SnapshotIsCurrent
    <3>5. ChangeSetIsKnown(c)'
      BY <2>2, <3>1, <3>3 DEF ChangeSetIsKnown, BeforeProtect, ChangeSetName
    <3> QED BY <3>1, <3>2, <3>4, <3>5, <1>r DEF LoneReport
  <2>4. CASE ~AcceptsCreate(ChangeSetName(c), IsUpdate(c))
    <3>1. /\ pc'[c] = "idle" /\ result'[c] = "refused"
          /\ UNCHANGED <<stack, changeSets>>
      BY <1>8, <2>4 DEF CreateChangeSet, End, cfnVars
    <3>2. ASSUME FoundAtRest(c), seen[c].status \notin FailureStatus PROVE FALSE
      <4>1. stack.status = seen[c].status /\ seen[c].status \notin CreationFailureStatus
        BY <2>2, <3>2 DEF SnapshotIsCurrent
      <4>2. stack.status \in {NotFound, "REVIEW_IN_PROGRESS"} \cup UpdatableStatus
        BY <3>2, <4>1 DEF FoundAtRest, Stack, Status, UpdatableStatus
      <4>3. changeSets[ChangeSetName(c)].status = "NONE"
        BY <2>2 DEF SnapshotIsCurrent
      <4> QED BY <2>4, <4>1, <4>2, <4>3
              DEF AcceptsCreate, IsUpdate, Exists, UpdatableStatus, DeploySuccessStatus, NotFound
    <3>3. ReportHolds(c)'
      BY <2>2, <3>1, <3>2 DEF ReportHolds, FoundAtRest
    <3> QED BY <3>1, <3>3, <1>e DEF LoneReport, RegisteredInv
  <2> QED BY <2>3, <2>4
<1>9. CASE WaitChangeSet(c)
  <2>1. RegisteredInv'
    BY <1>9 DEF WaitChangeSet, RegisteredInv
  <2>2. pc[c] = "waitChangeSet" /\ UNCHANGED <<stack, changeSets, request, seen>>
    BY <1>9 DEF WaitChangeSet
  <2>3. /\ changeSets[ChangeSetName(c)].by = c
        /\ changeSets[ChangeSetName(c)].config = RequestedConfig(c)
        /\ stack.status \in UpdatableStatus \cup {"REVIEW_IN_PROGRESS"}
        /\ changeSets[ChangeSetName(c)].status = "EMPTY" => stack.config = RequestedConfig(c)
    BY <2>2 DEF ChangeSetIsKnown, ChangeSetIsMine, RegisteredInv
  <2>4. CASE changeSets[ChangeSetName(c)].status \in {"CREATE_COMPLETE", "EMPTY"}
    <3>1. /\ pc'[c] = "protect" /\ result'[c] = "none"
          /\ noChanges'[c] = (changeSets[ChangeSetName(c)].status = "EMPTY")
      BY <1>9, <2>2, <2>4, <1>n DEF WaitChangeSet, Goto
    <3>2. changeSets[ChangeSetName(c)].status = "CREATE_COMPLETE" =>
            changeSets[ChangeSetName(c)] =
              [status |-> "CREATE_COMPLETE", config |-> RequestedConfig(c), by |-> c]
      BY <2>3 DEF ChangeSet
    <3>3. ChangeSetIsKnown(c)'
      BY <2>2, <2>3, <2>4, <3>1, <3>2
         DEF ChangeSetIsKnown, BeforeProtect, ChangeSetName, RequestedConfig
    <3>4. SnapshotIsCurrent(c)'
      BY <3>1 DEF SnapshotIsCurrent
    <3> QED BY <2>1, <3>1, <3>3, <3>4, <1>r DEF LoneReport
  <2>5. CASE changeSets[ChangeSetName(c)].status \notin {"CREATE_COMPLETE", "EMPTY"}
    <3>1. pc'[c] = "idle" /\ result'[c] = "error"
      BY <1>9, <2>5 DEF WaitChangeSet, End
    <3> QED BY <2>1, <3>1, <1>e, <1>r DEF LoneReport
  <2> QED BY <2>4, <2>5
<1>10. CASE Protect(c)
  <2>1. /\ pc[c] = "protect" /\ seen[c].tp = stack.tp /\ Exists(stack)
        /\ stack.status \in UpdatableStatus \cup {"REVIEW_IN_PROGRESS"}
    BY <1>10 DEF Protect, SnapshotHolds, BeforeProtect, ChangeSetIsMine, Exists,
             UpdatableStatus, DeploySuccessStatus, NotFound
  <2>2. /\ stack'.tp = request[c].tp /\ stack'.status = stack.status
        /\ stack'.config = stack.config
        /\ AfterProtect(c) /\ UNCHANGED <<changeSets, request, seen, noChanges>>
    BY <1>10, <2>1 DEF Protect, Stack
  <2>3. RegisteredInv'
    BY <2>2 DEF RegisteredInv
  <2>4. ChangeSetName(c)' = ChangeSetName(c) /\ RequestedConfig(c)' = RequestedConfig(c)
    BY <2>2 DEF ChangeSetName, RequestedConfig
  <2>5. CASE noChanges[c] /\ request[c].execute = "yes"
    <3>1. pc'[c] = "removeEmpty" /\ result'[c] = "none"
      BY <2>1, <2>2, <2>5, <1>n DEF AfterProtect, Goto
    <3>2. ChangeSetIsKnown(c)'
      BY <2>1, <2>2, <2>4, <2>5, <3>1 DEF ChangeSetIsKnown, BeforeProtect
    <3> QED BY <2>3, <3>1, <3>2, <1>r DEF LoneReport, SnapshotIsCurrent
  <2>6. CASE noChanges[c] /\ request[c].execute # "yes"
    <3>1. pc'[c] = "idle" /\ result'[c] = "noOp"
      BY <2>2, <2>6 DEF AfterProtect, End
    <3>2. stack.config = RequestedConfig(c)
      BY <2>1, <2>6 DEF ChangeSetIsKnown
    <3>3. stack.status \notin InProgressStatus \ {"REVIEW_IN_PROGRESS"}
      BY <2>1 DEF UpdatableStatus, DeploySuccessStatus, InProgressStatus
    <3>4. ReportHolds(c)'
      BY <2>2, <2>4, <3>1, <3>2, <3>3 DEF ReportHolds
    <3> QED BY <2>3, <3>1, <3>4, <1>e DEF LoneReport
  <2>7. CASE ~noChanges[c] /\ request[c].execute # "no"
    <3>1. pc'[c] = "execute" /\ result'[c] = "none"
      BY <2>1, <2>2, <2>7, <1>n DEF AfterProtect, Goto
    <3>2. ChangeSetIsKnown(c)'
      BY <2>1, <2>2, <2>4, <2>7, <3>1 DEF ChangeSetIsKnown, BeforeProtect
    <3> QED BY <2>3, <3>1, <3>2, <1>r DEF LoneReport, SnapshotIsCurrent
  <2>8. CASE ~noChanges[c] /\ request[c].execute = "no"
    <3>1. pc'[c] = "idle" /\ result'[c] = "created"
      BY <2>2, <2>8 DEF AfterProtect, End
    <3>2. changeSets[ChangeSetName(c)] =
            [status |-> "CREATE_COMPLETE", config |-> RequestedConfig(c), by |-> c]
      BY <2>1, <2>8 DEF ChangeSetIsKnown
    <3>3. ReportHolds(c)'
      BY <2>1, <2>2, <2>4, <3>1, <3>2 DEF ReportHolds
    <3> QED BY <2>3, <3>1, <3>3, <1>e DEF LoneReport
  <2> QED BY <2>5, <2>6, <2>7, <2>8
<1>11. CASE RemoveEmpty(c)
  <2>1. RegisteredInv'
    BY <1>11, CallsKeepRegisteredInv, CfnValues DEF RemoveEmpty, RegisteredInv, cfnVars
  <2>2. /\ pc[c] = "removeEmpty" /\ UNCHANGED <<stack, request, seen, noChanges>>
        /\ stack.status \in UpdatableStatus \cup {"REVIEW_IN_PROGRESS"}
        /\ stack.config = RequestedConfig(c) /\ stack.tp = request[c].tp
    BY <1>11 DEF RemoveEmpty, DeleteChangeSetCall, cfnVars, ChangeSetIsKnown
  <2>3. Exists(stack) /\ stack.status \notin InProgressStatus \ {"REVIEW_IN_PROGRESS"}
    BY <2>2 DEF Exists, UpdatableStatus, DeploySuccessStatus, NotFound, InProgressStatus
  <2>4. pc'[c] = "idle" /\ result'[c] = "noOp"
    BY <1>11, <2>3 DEF RemoveEmpty, End
  <2>5. ReportHolds(c)'
    BY <2>2, <2>3, <2>4 DEF ReportHolds, RequestedConfig
  <2> QED BY <2>1, <2>4, <2>5, <1>e DEF LoneReport
<1>12. CASE Execute(c)
  <2>1. RegisteredInv'
    BY <1>12, CallsKeepRegisteredInv, CfnValues DEF Execute, RegisteredInv, cfnVars
  <2>2. AcceptsExecute(ChangeSetName(c))
    BY <1>12 DEF Execute, ChangeSetIsKnown, ChangeSetIsMine, AcceptsExecute
  <2>3. pc'[c] = "waitDeploy" /\ result'[c] = "none"
    BY <1>12, <2>2, <1>n DEF Execute, Goto
  <2> QED BY <2>1, <2>3, <1>r DEF LoneReport, SnapshotIsCurrent, ChangeSetIsKnown, BeforeProtect
<1>13. CASE WaitDeploy(c)
  <2>1. RegisteredInv'
    BY <1>13 DEF WaitDeploy, RegisteredInv
  <2>2. pc'[c] = "idle" /\ result'[c] \in {"deployed", "error"}
    BY <1>13 DEF WaitDeploy, End
  <2> QED BY <2>1, <2>2, <1>e, <1>r DEF LoneReport
<1>14. CASE DestroyLookup(c)
  <2>1. RegisteredInv'
    BY <1>14 DEF DestroyLookup, RegisteredInv
  <2>2. /\ pc[c] = "lookup" /\ seen'[c] = stack /\ UNCHANGED <<stack, changeSets>>
    BY <1>14 DEF DestroyLookup
  <2>3. CASE Exists(stack)
    <3>1. pc'[c] = "destroy" /\ result'[c] = "none"
      BY <1>14, <2>2, <2>3, <1>n DEF DestroyLookup, Goto
    <3> QED BY <2>1, <2>2, <3>1, <1>r DEF LoneReport, SnapshotIsCurrent, ChangeSetIsKnown,
              BeforeProtect
  <2>4. CASE ~Exists(stack)
    <3>1. pc'[c] = "idle" /\ result'[c] = "destroyed"
      BY <1>14, <2>4 DEF DestroyLookup, End
    <3>2. ReportHolds(c)'
      BY <2>2, <2>4, <3>1 DEF ReportHolds, Exists
    <3> QED BY <2>1, <3>1, <3>2, <1>e DEF LoneReport
  <2> QED BY <2>3, <2>4
<1>15. CASE Destroy(c)
  <2>1. RegisteredInv'
    BY <1>15, CallsKeepRegisteredInv, CfnValues DEF Destroy, RegisteredInv, cfnVars
  <2>2. CASE AcceptsDelete
    <3>1. pc'[c] = "waitDestroy" /\ result'[c] = "none"
      BY <1>15, <2>2, <1>n DEF Destroy, Goto
    <3> QED BY <2>1, <3>1, <1>r DEF LoneReport, SnapshotIsCurrent, ChangeSetIsKnown, BeforeProtect
  <2>3. CASE ~AcceptsDelete
    <3>1. pc'[c] = "idle" /\ result'[c] = "refused" /\ UNCHANGED <<stack, seen>> /\ seen[c].tp
      BY <1>15, <2>3 DEF Destroy, End, cfnVars, AcceptsDelete, SnapshotIsCurrent
    <3>2. ReportHolds(c)'
      BY <3>1 DEF ReportHolds
    <3> QED BY <2>1, <3>1, <3>2, <1>e DEF LoneReport
  <2> QED BY <2>2, <2>3
<1>16. CASE WaitDestroy(c)
  <2>1. RegisteredInv'
    BY <1>16 DEF WaitDestroy, RegisteredInv
  <2>2. /\ pc'[c] = "idle" /\ UNCHANGED stack
        /\ result'[c] = "error" \/ (result'[c] = "destroyed" /\ Gone(stack))
    BY <1>16 DEF WaitDestroy, End
  <2>3. ReportHolds(c)'
    BY <1>16, <2>2, GoneMeansGone, <1>r DEF WaitDestroy, ReportHolds, Exists
  <2> QED BY <2>1, <2>2, <2>3, <1>e DEF LoneReport
<1> QED
  BY <1>1, <1>2, <1>3, <1>4, <1>5, <1>6, <1>7, <1>8, <1>9, <1>10, <1>11, <1>12, <1>13,
     <1>14, <1>15, <1>16 DEF CliStep

\* For every set of requests, when invocations do not overlap: both invariants
\* hold of every state, whatever was interrupted before.
LEMMA AloneInvariants == Alone => (Spec => [](AloneInv /\ ReportsInv))
<1> SUFFICES ASSUME Alone PROVE Spec => [](AloneInv /\ ReportsInv)
  OBVIOUS
<1>1. Init => AloneInv /\ ReportsInv
  <2> SUFFICES ASSUME Init PROVE AloneInv /\ ReportsInv
    OBVIOUS
  <2>1. AloneInv
    BY DEF Init, CfnInit, AloneInv, StackInv, Reported, SnapshotHolds, BeforeProtect,
           ChangeSetIsMine, PutsInPlace, NoStack, NotFound
  <2>2. RegisteredInv
    BY DEF Init, CfnInit, RegisteredInv, NoChangeSet
  <2>3. ASSUME NEW c \in CLI PROVE SnapshotIsCurrent(c) /\ ChangeSetIsKnown(c) /\ ReportHolds(c)
    <3>1. pc[c] = "idle" /\ result[c] = "none"
      BY DEF Init
    <3> QED BY <3>1 DEF SnapshotIsCurrent, ChangeSetIsKnown, ReportHolds, BeforeProtect
  <2> QED BY <2>1, <2>2, <2>3 DEF ReportsInv
<1>2. TypeOK /\ AloneInv /\ ReportsInv /\ [Next]_vars => (AloneInv /\ ReportsInv)'
  <2> SUFFICES ASSUME TypeOK, AloneInv, ReportsInv, [Next]_vars
               PROVE  (AloneInv /\ ReportsInv)'
    OBVIOUS
  <2>1. ASSUME NEW c \in CLI, Start(c) \/ CliStep(c) \/ Interrupted(c)
        PROVE  (AloneInv /\ ReportsInv)'
    BY <2>1, CliKeepsAloneInv, CliKeepsReportsInv
  <2>2. CASE ServiceStep
    BY <2>2, ServiceKeepsAloneInv, ServiceKeepsReportsInv
  <2>3. CASE UNCHANGED vars
    <3>1. AloneInv'
      BY <2>3 DEF vars, AloneInv, StackInv, Reported, SnapshotHolds, BeforeProtect,
                  ChangeSetIsMine, PutsInPlace, RequestedConfig, ChangeSetName
    <3>2. ReportsInv'
      BY <2>3 DEF vars, ReportsInv, RegisteredInv, SnapshotIsCurrent, ChangeSetIsKnown,
                  ReportHolds, FoundAtRest, BeforeProtect, RequestedConfig, ChangeSetName, Exists
    <3> QED BY <3>1, <3>2
  <2> QED BY <2>1, <2>2, <2>3 DEF Next
<1> QED BY <1>1, <1>2, TypeCorrect, PTL DEF Spec

\* A no-op changed nothing because there was nothing to change, a change set left
\* for review can be executed and is the one asked for, and a stack reported as
\* destroyed is gone: for every set of templates and requests, when invocations do
\* not overlap.
THEOREM ReportsHold == Alone => (Spec => []ReportsAreTrue)
<1>1. TypeOK /\ AloneInv /\ ReportsInv => ReportsAreTrue
  BY DEF ReportsInv, ReportHolds, ReportsAreTrue, NoOpIsUpToDate, ReviewedChangeSetIsReady,
         DestroyedIsGone
<1> QED BY <1>1, AloneInvariants, TypeCorrect, PTL

\* CloudFormation finds no call of a lone invocation illegal, unless the stack was
\* busy, in a failed status or protected when the invocation began.
THEOREM LoneCallsAreLegal == Alone => (Spec => []CallsAreLegal)
<1>1. ReportsInv => CallsAreLegal
  BY DEF ReportsInv, ReportHolds, FoundAtRest, CallsAreLegal
<1> QED BY <1>1, AloneInvariants, PTL

-----------------------------------------------------------------------------
(* What overlapping invocations put in place for one another.              *)

\* What an invocation under way asks for, and the record of it, stay when it ends
\* or goes on.
LEMMA AskedStays ==
  ASSUME TypeOK, UNCHANGED request, NEW d \in CLI, pc'[d] # "idle" => pc[d] # "idle"
  PROVE  AskedBy(d)' \subseteq AskedBy(d)
  BY DEF AskedBy, RequestedConfig

\* An invocation begins: the records on both sides have what the other asks for.
LEMMA StartKeepsOverlapInv ==
  ASSUME TypeOK, OverlapInv, NEW c \in CLI, Start(c)
  PROVE  OverlapInv'
<1> SUFFICES ASSUME NEW d \in CLI
             PROVE  /\ completed'[d] \subseteq asked'[d]
                    /\ pc'[d] # "idle" => \A e \in CLI : AskedBy(e)' \subseteq asked'[d]
                    /\ pc'[d] \notin {"idle", "lookup", "destroy", "waitDestroy"} =>
                         request'[d].op = "deploy"
                    /\ pc'[d] \in {"waitChangeSet", "protect", "execute"} =>
                         WasAsked(d, ChangeSetName(d))'
                    /\ pc'[d] = "waitDeploy" =>
                         /\ \A n \in ChangeSetNames : WasAsked(d, n)'
                         /\ stack'.status \in {"CREATE_IN_PROGRESS", "UPDATE_IN_PROGRESS",
                                               "UPDATE_COMPLETE_CLEANUP_IN_PROGRESS"} =>
                              stack'.config \in asked'[d]
  BY DEF OverlapInv
<1>1. /\ pc' = [pc EXCEPT ![c] = "lookup"] /\ pc \in [CLI -> Await]
      /\ UNCHANGED <<stack, changeSets>>
      /\ completed' = [completed EXCEPT ![c] = {}] /\ completed \in [CLI -> SUBSET Config]
  BY DEF Start, cfnVars, TypeOK
<1>2. PICK r \in Requests[c] : request' = [request EXCEPT ![c] = r]
  BY DEF Start
<1>3. asked' = [e \in CLI |->
         CASE e = c -> UNION {AskedBy(f)' : f \in CLI}
           [] e # c /\ pc[e] # "idle" -> asked[e] \cup AskedBy(c)'
           [] e # c /\ pc[e] = "idle" -> asked[e]]
  BY DEF Start
<1>4. CASE d = c
  BY <1>1, <1>3, <1>4
<1>5. CASE d # c
  <2>1. asked[d] \subseteq asked'[d] /\ (pc[d] # "idle" => AskedBy(c)' \subseteq asked'[d])
    BY <1>3, <1>5
  <2>2. completed'[d] = completed[d] /\ pc'[d] = pc[d] /\ request'[d] = request[d]
    BY <1>1, <1>2, <1>5 DEF TypeOK
  <2>3. \A e \in CLI : e # c => AskedBy(e)' = AskedBy(e)
    BY <1>1, <1>2 DEF AskedBy, RequestedConfig, TypeOK
  <2>4. \A n : WasAsked(d, n) => WasAsked(d, n)'
    BY <1>1, <2>1 DEF WasAsked
  <2>5. ChangeSetName(d)' = ChangeSetName(d)
    BY <2>2 DEF ChangeSetName
  <2>6. WasAsked(d, ChangeSetName(d)) => WasAsked(d, ChangeSetName(d))'
    BY <1>1, <2>1, <2>5 DEF WasAsked
  <2> QED BY <1>1, <2>1, <2>2, <2>3, <2>4, <2>6 DEF OverlapInv
<1> QED BY <1>4, <1>5

\* An invocation goes on, but neither creates a change set nor executes one.
MovesOn(d) ==
  /\ pc[d] # "idle" /\ pc'[d] # "waitDeploy"
  /\ pc'[d] \in {"waitChangeSet", "protect", "execute"} =>
       pc[d] \in {"waitChangeSet", "protect", "execute"}
  /\ pc'[d] \in {"destroy", "waitDestroy"} \/ request[d].op = "deploy"

\* Steps that register no change set and begin no operation.
LEMMA MovesKeepOverlapInv ==
  ASSUME TypeOK, OverlapInv, UNCHANGED <<request, completed, asked>>,
         \A d \in CLI :
           pc'[d] = "idle" \/ pc'[d] = pc[d] \/ MovesOn(d),
         \A n \in ChangeSetNames :
           \/ changeSets'[n].status = "NONE"
           \/ changeSets[n].status # "NONE" /\ changeSets'[n].config = changeSets[n].config,
         \/ stack'.config = stack.config /\ stack'.status = stack.status
         \/ stack'.status \notin {"CREATE_IN_PROGRESS", "UPDATE_IN_PROGRESS",
                                  "UPDATE_COMPLETE_CLEANUP_IN_PROGRESS"}
  PROVE  OverlapInv'
<1> SUFFICES ASSUME NEW d \in CLI
             PROVE  /\ completed'[d] \subseteq asked'[d]
                    /\ pc'[d] # "idle" => \A e \in CLI : AskedBy(e)' \subseteq asked'[d]
                    /\ pc'[d] \notin {"idle", "lookup", "destroy", "waitDestroy"} =>
                         request'[d].op = "deploy"
                    /\ pc'[d] \in {"waitChangeSet", "protect", "execute"} =>
                         WasAsked(d, ChangeSetName(d))'
                    /\ pc'[d] = "waitDeploy" =>
                         /\ \A n \in ChangeSetNames : WasAsked(d, n)'
                         /\ stack'.status \in {"CREATE_IN_PROGRESS", "UPDATE_IN_PROGRESS",
                                               "UPDATE_COMPLETE_CLEANUP_IN_PROGRESS"} =>
                              stack'.config \in asked'[d]
  BY DEF OverlapInv
<1>1. \A e \in CLI : AskedBy(e)' \subseteq AskedBy(e)
  BY AskedStays DEF MovesOn
<1>2. ChangeSetName(d)' = ChangeSetName(d) /\ ChangeSetName(d) \in ChangeSetNames
  BY RequestedConfigType DEF ChangeSetName
<1>3. \A n \in ChangeSetNames : WasAsked(d, n) => WasAsked(d, n)'
  BY DEF WasAsked
<1>4. WasAsked(d, ChangeSetName(d)) => WasAsked(d, ChangeSetName(d))'
  BY <1>2 DEF WasAsked
<1> QED BY <1>1, <1>3, <1>4 DEF OverlapInv, MovesOn

\* A change set is created: whoever is under way has it in the record.
LEMMA CreateKeepsOverlapInv ==
  ASSUME TypeOK, OverlapInv, NEW c \in CLI, CreateChangeSet(c),
         AcceptsCreate(ChangeSetName(c), IsUpdate(c))
  PROVE  OverlapInv'
<1>1. /\ changeSets' = [changeSets EXCEPT ![ChangeSetName(c)] =
               [status |-> "CREATE_IN_PROGRESS", config |-> RequestedConfig(c), by |-> c]]
      /\ changeSets \in [ChangeSetNames -> ChangeSet]
      /\ stack' = stack \/ stack'.status = "REVIEW_IN_PROGRESS"
      /\ pc[c] = "createChangeSet" /\ pc' = [pc EXCEPT ![c] = "waitChangeSet"]
      /\ pc \in [CLI -> Await] /\ UNCHANGED <<request, completed, asked>>
  BY DEF CreateChangeSet, CreateChangeSetCall, Goto, TypeOK, CfnTypeOK, NoStack
<1>2. AskedBy(c) = {RequestedConfig(c)}
  BY <1>1 DEF AskedBy, OverlapInv
<1>3. ASSUME NEW d \in CLI, pc[d] # "idle" PROVE RequestedConfig(c) \in asked[d]
  BY <1>2, <1>3 DEF OverlapInv
<1>4. ASSUME NEW d \in CLI, pc[d] # "idle", NEW n \in ChangeSetNames,
             WasAsked(d, n) \/ n = ChangeSetName(c)
      PROVE  WasAsked(d, n)'
  BY <1>1, <1>3, <1>4 DEF WasAsked
<1>5. ASSUME NEW d \in CLI
      PROVE  /\ ChangeSetName(d)' = ChangeSetName(d) /\ ChangeSetName(d) \in ChangeSetNames
             /\ AskedBy(d)' \subseteq AskedBy(d)
  BY <1>1, AskedStays, RequestedConfigType DEF ChangeSetName
<1>6. ASSUME NEW d \in CLI, pc[d] # "idle",
             WasAsked(d, ChangeSetName(d)) \/ ChangeSetName(d) = ChangeSetName(c)
      PROVE  WasAsked(d, ChangeSetName(d))'
  BY <1>1, <1>3, <1>5, <1>6 DEF WasAsked
<1> QED BY <1>1, <1>4, <1>5, <1>6 DEF OverlapInv

\* A change set is executed: it is registered under a name of somebody under way, and
\* with it go all others.
LEMMA ExecuteKeepsOverlapInv ==
  ASSUME TypeOK, OverlapInv, NEW c \in CLI, Execute(c), AcceptsExecute(ChangeSetName(c))
  PROVE  OverlapInv'
<1> DEFINE n == ChangeSetName(c)
<1>0. n \in ChangeSetNames
  BY RequestedConfigType
<1>1. /\ stack' = [stack EXCEPT
             !.status = IF stack.status = "REVIEW_IN_PROGRESS"
                        THEN "CREATE_IN_PROGRESS" ELSE "UPDATE_IN_PROGRESS",
             !.previous = stack.config,
             !.config = changeSets[n].config]
      /\ \A m \in ChangeSetNames : changeSets'[m].status = "NONE"
      /\ changeSets[n].status # "NONE"
      /\ pc[c] = "execute" /\ pc' = [pc EXCEPT ![c] = "waitDeploy"]
      /\ completed' = [completed EXCEPT ![c] = {}]
      /\ pc \in [CLI -> Await] /\ completed \in [CLI -> SUBSET Config]
      /\ UNCHANGED <<request, asked>>
  BY DEF Execute, AcceptsExecute, ExecuteChangeSetCall, Goto, TypeOK, NoChangeSet
<1>2. stack'.config = changeSets[n].config
  BY <1>1 DEF TypeOK, CfnTypeOK, Stack
<1>3. ASSUME NEW d \in CLI, d = c \/ pc[d] = "waitDeploy" PROVE stack'.config \in asked[d]
  BY <1>0, <1>1, <1>2, <1>3 DEF OverlapInv, WasAsked
<1>4. ASSUME NEW d \in CLI
      PROVE  ChangeSetName(d)' \in ChangeSetNames /\ AskedBy(d)' \subseteq AskedBy(d)
  <2>1. ChangeSetName(d)' = ChangeSetName(d)
    BY <1>1 DEF ChangeSetName
  <2>2. pc'[d] # "idle" => pc[d] # "idle"
    BY <1>1
  <2> QED BY <1>1, <2>1, <2>2, AskedStays, RequestedConfigType
<1>5. ASSUME NEW d \in CLI PROVE WasAsked(d, ChangeSetName(d))'
  BY <1>1, <1>4 DEF WasAsked
<1>6. ASSUME NEW d \in CLI, NEW m \in ChangeSetNames PROVE WasAsked(d, m)'
  BY <1>1 DEF WasAsked
<1> QED BY <1>1, <1>3, <1>4, <1>5, <1>6 DEF OverlapInv

\* The operation under way goes on, and may be noted as finished.
LEMMA ProgressKeepsOverlapInv ==
  ASSUME TypeOK, OverlapInv, Progress
  PROVE  OverlapInv'
<1>1. /\ UNCHANGED <<pc, request, asked>>
      /\ completed' = [c \in CLI |->
           IF pc[c] = "waitDeploy" /\ stack'.status \in DeploySuccessStatus
           THEN completed[c] \cup {stack'.config} ELSE completed[c]]
  BY DEF Progress
<1>2. PICK s \in Successors(stack.status) :
        IF s = NotFound
        THEN /\ stack' = NoStack
             /\ changeSets' = [n \in ChangeSetNames |-> NoChangeSet]
        ELSE /\ stack' = [stack EXCEPT
                            !.status = s,
                            !.config = IF s = "UPDATE_ROLLBACK_COMPLETE"
                                       THEN stack.previous ELSE stack.config]
             /\ UNCHANGED changeSets
  BY DEF Progress, ProgressStack
<1>3. stack'.status = s /\ (s # NotFound /\ s # "UPDATE_ROLLBACK_COMPLETE" =>
                              stack'.config = stack.config)
  <2>1. stack \in Stack
    BY DEF TypeOK, CfnTypeOK
  <2>2. CASE s = NotFound
    BY <1>2, <2>2 DEF NoStack
  <2>3. CASE s # NotFound
    <3>1. stack' = [stack EXCEPT !.status = s,
                                 !.config = IF s = "UPDATE_ROLLBACK_COMPLETE"
                                            THEN stack.previous ELSE stack.config]
      BY <1>2, <2>3
    <3> QED BY <2>1, <2>3, <3>1 DEF Stack
  <2> QED BY <2>2, <2>3
<1>4. s \in DeploySuccessStatus \cup {"CREATE_IN_PROGRESS", "UPDATE_IN_PROGRESS",
                                      "UPDATE_COMPLETE_CLEANUP_IN_PROGRESS"} =>
        /\ s # NotFound /\ s # "UPDATE_ROLLBACK_COMPLETE"
        /\ stack.status \in {"CREATE_IN_PROGRESS", "UPDATE_IN_PROGRESS",
                             "UPDATE_COMPLETE_CLEANUP_IN_PROGRESS"}
  BY <1>2 DEF Successors, DeploySuccessStatus, NotFound
<1>5. ASSUME NEW d \in CLI, NEW n \in ChangeSetNames, WasAsked(d, n) PROVE WasAsked(d, n)'
  <2>1. changeSets'[n] = changeSets[n] \/ changeSets'[n].status = "NONE"
    BY <1>2 DEF NoChangeSet
  <2> QED BY <1>1, <1>5, <2>1 DEF WasAsked
<1>6. ASSUME NEW d \in CLI, WasAsked(d, ChangeSetName(d)) PROVE WasAsked(d, ChangeSetName(d))'
  <2>1. ChangeSetName(d)' = ChangeSetName(d) /\ ChangeSetName(d) \in ChangeSetNames
    BY <1>1, RequestedConfigType DEF ChangeSetName
  <2>2. changeSets'[ChangeSetName(d)] = changeSets[ChangeSetName(d)]
        \/ changeSets'[ChangeSetName(d)].status = "NONE"
    BY <1>2, <2>1 DEF NoChangeSet
  <2> QED BY <1>1, <1>6, <2>1, <2>2 DEF WasAsked
<1>7. \A d \in CLI : AskedBy(d)' = AskedBy(d)
  BY <1>1 DEF AskedBy, RequestedConfig
<1>8. ASSUME NEW d \in CLI, pc[d] = "waitDeploy",
             s \in DeploySuccessStatus \cup {"CREATE_IN_PROGRESS", "UPDATE_IN_PROGRESS",
                                             "UPDATE_COMPLETE_CLEANUP_IN_PROGRESS"}
      PROVE  stack'.config \in asked[d]
  BY <1>3, <1>4, <1>8 DEF OverlapInv
<1>9. ASSUME NEW d \in CLI PROVE completed'[d] \subseteq asked[d]
  BY <1>1, <1>3, <1>8 DEF OverlapInv
<1> QED BY <1>1, <1>3, <1>5, <1>6, <1>7, <1>8, <1>9 DEF OverlapInv

\* However many invocations overlap, with whatever change set names: what was put in
\* place for a deployment reported as done was asked for by one that overlapped with it.
THEOREM DeploymentsWereAskedFor == Spec => []DeployedWasAskedFor
<1>1. Init => OverlapInv
  BY DEF Init, CfnInit, OverlapInv, AskedBy
<1>2. TypeOK /\ OverlapInv /\ [Next]_vars => OverlapInv'
  <2> SUFFICES ASSUME TypeOK, OverlapInv, [Next]_vars PROVE OverlapInv'
    OBVIOUS
  <2> USE MovesKeepOverlapInv
  <2>t. /\ stack \in Stack /\ changeSets \in [ChangeSetNames -> ChangeSet]
        /\ pc \in [CLI -> Await]
    BY DEF TypeOK, CfnTypeOK
  <2>o. \A c \in CLI : pc[c] \notin {"idle", "lookup", "destroy", "waitDestroy"} =>
          request[c].op = "deploy"
    BY DEF OverlapInv
  <2>n. \A c \in CLI : ChangeSetName(c) \in ChangeSetNames
    BY RequestedConfigType
  <2> USE <2>t, <2>o DEF MovesOn, Goto, End
  <2>1. ASSUME NEW c \in CLI, Start(c) PROVE OverlapInv'
    BY <2>1, StartKeepsOverlapInv
  <2>2. ASSUME NEW c \in CLI, Interrupted(c) PROVE OverlapInv'
    BY <2>2 DEF Interrupted
  <2>3. ASSUME NEW c \in CLI, Lookup(c) PROVE OverlapInv'
    BY <2>3 DEF Lookup
  <2>4. ASSUME NEW c \in CLI, DeleteFailedStack(c) PROVE OverlapInv'
    BY <2>4 DEF DeleteFailedStack, DeleteStackCall, Stack, cfnVars
  <2>5. ASSUME NEW c \in CLI, WaitFailedStackDelete(c) PROVE OverlapInv'
    BY <2>5 DEF WaitFailedStackDelete
  <2>6. ASSUME NEW c \in CLI, CheckSkip(c) PROVE OverlapInv'
    BY <2>6 DEF CheckSkip
  <2>7. ASSUME NEW c \in CLI, RemoveChangeSet(c) PROVE OverlapInv'
    BY <2>7, <2>n DEF RemoveChangeSet, DeleteChangeSetCall, NoChangeSet, cfnVars
  <2>8. ASSUME NEW c \in CLI, CreateChangeSet(c) PROVE OverlapInv'
    <3>1. CASE ~AcceptsCreate(ChangeSetName(c), IsUpdate(c))
      BY <2>8, <3>1 DEF CreateChangeSet, cfnVars
    <3> QED BY <2>8, <3>1, CreateKeepsOverlapInv
  <2>9. ASSUME NEW c \in CLI, WaitChangeSet(c) PROVE OverlapInv'
    BY <2>9 DEF WaitChangeSet
  <2>10. ASSUME NEW c \in CLI, Protect(c) PROVE OverlapInv'
    BY <2>10 DEF Protect, AfterProtect, Stack
  <2>11. ASSUME NEW c \in CLI, RemoveEmpty(c) PROVE OverlapInv'
    BY <2>11, <2>n DEF RemoveEmpty, DeleteChangeSetCall, NoChangeSet, cfnVars
  <2>12. ASSUME NEW c \in CLI, Execute(c) PROVE OverlapInv'
    <3>1. CASE ~AcceptsExecute(ChangeSetName(c))
      BY <2>12, <3>1 DEF Execute, cfnVars
    <3> QED BY <2>12, <3>1, ExecuteKeepsOverlapInv
  <2>13. ASSUME NEW c \in CLI, WaitDeploy(c) PROVE OverlapInv'
    BY <2>13 DEF WaitDeploy
  <2>14. ASSUME NEW c \in CLI, DestroyLookup(c) PROVE OverlapInv'
    BY <2>14 DEF DestroyLookup
  <2>15. ASSUME NEW c \in CLI, Destroy(c) PROVE OverlapInv'
    BY <2>15 DEF Destroy, DeleteStackCall, Stack, cfnVars
  <2>16. ASSUME NEW c \in CLI, WaitDestroy(c) PROVE OverlapInv'
    BY <2>16 DEF WaitDestroy
  <2>17. CASE Progress
    BY <2>17, ProgressKeepsOverlapInv
  <2>18. ASSUME NEW n \in ChangeSetNames, Compute(n) PROVE OverlapInv'
    BY <2>18 DEF Compute, ComputeChangeSet, ChangeSet, cliVars
  <2>19. CASE UNCHANGED vars
    BY <2>19 DEF vars
  <2> QED
    BY <2>1, <2>2, <2>3, <2>4, <2>5, <2>6, <2>7, <2>8, <2>9, <2>10, <2>11, <2>12,
       <2>13, <2>14, <2>15, <2>16, <2>17, <2>18, <2>19
       DEF Next, CliStep, ServiceStep
<1>3. OverlapInv => DeployedWasAskedFor
  BY DEF OverlapInv, DeployedWasAskedFor
<1> QED BY <1>1, <1>2, <1>3, TypeCorrect, PTL DEF Spec

-----------------------------------------------------------------------------
(* StackMonitor implements EventFeed: the inductive invariant is           *)
(* StackMonitor!FeedInv.  The poll of stop() shows the rest:               *)
(* StackMonitor!RestInv.  First, the order of sequences of events.         *)

\* The least of a set of numbers.
LEMMA LeastNumber ==
  ASSUME NEW T \in SUBSET Nat, T # {}
  PROVE  \E m \in T : \A n \in T : m <= n
<1>1. PICK m \in T : \A n \in T : ~(<<n, m>> \in OpToRel(<, Nat))
  BY NatLessThanWellFounded, WFMin
<1>2. ASSUME NEW n \in T PROVE m <= n
  <2>1. <<n, m>> \in Nat \X Nat
    OBVIOUS
  <2>2. ~(n < m)
    BY <1>1, <2>1 DEF OpToRel
  <2> QED BY <2>2
<1> QED BY <1>2

\* Positions of which none is left out are those of a sequence.
LEMMA NoneLeftOut ==
  ASSUME NEW n \in Nat, NEW S \in SUBSET (1..n), \A j \in S : 1..j \subseteq S
  PROVE  \E m \in 0..n : S = 1..m
<1> DEFINE T == {k \in Nat : k >= 1 /\ k \notin S}
<1>1. n + 1 \in T
  OBVIOUS
<1>2. PICK k \in T : \A l \in T : k <= l
  BY <1>1, LeastNumber
<1>3. k - 1 \in 0..n
  BY <1>1, <1>2
<1>4. ASSUME NEW j \in 1..(k - 1) PROVE j \in S
  <2>1. j \in Nat /\ j >= 1 /\ ~(k <= j)
    BY <1>2
  <2> QED BY <1>2, <2>1
<1>5. ASSUME NEW j \in S PROVE j \in 1..(k - 1)
  <2>1. k \notin 1..j
    BY <1>2, <1>5
  <2>2. j \in Nat /\ j >= 1 /\ k \in Nat /\ k >= 1
    BY <1>2, <1>5
  <2> QED BY <2>1, <2>2
<1> QED BY <1>3, <1>4, <1>5

\* What is reversed is the same, the other way round.
LEMMA ReverseProperties ==
  ASSUME NEW S, NEW s \in Seq(S)
  PROVE  /\ Reverse(s) \in Seq(S) /\ Len(Reverse(s)) = Len(s) /\ Range(Reverse(s)) = Range(s)
         /\ \A i \in 1..Len(s) : Reverse(s)[i] = s[Len(s) - i + 1]
<1>1. Len(s) \in Nat /\ DOMAIN s = 1..Len(s) /\ \A i \in 1..Len(s) : s[i] \in S
  BY ElementOfSeq, LenProperties
<1>2. \A i \in 1..Len(s) : Len(s) - i + 1 \in 1..Len(s)
  BY <1>1
<1>3. Reverse(s) = [i \in 1..Len(s) |-> s[Len(s) - i + 1]]
  BY DEF Reverse
<1>4. Reverse(s) \in [1..Len(s) -> S]
  BY <1>1, <1>2, <1>3
<1>5. Reverse(s) \in Seq(S)
  BY <1>1, <1>4, SeqDef
<1>6. DOMAIN Reverse(s) = 1..Len(s) /\ Len(Reverse(s)) = Len(s)
  BY <1>1, <1>3, <1>5, LenProperties
<1>7. ASSUME NEW e \in Range(Reverse(s)) PROVE e \in Range(s)
  BY <1>1, <1>2, <1>3, <1>6 DEF Range
<1>8. ASSUME NEW e \in Range(s) PROVE e \in Range(Reverse(s))
  <2>1. PICK i \in 1..Len(s) : e = s[i]
    BY <1>1 DEF Range
  <2>2. DEFINE j == Len(s) - i + 1
  <2>3. j \in 1..Len(s) /\ Len(s) - j + 1 = i
    BY <1>1, <1>2
  <2>4. Reverse(s)[j] = e
    BY <1>3, <2>1, <2>3
  <2> QED BY <1>6, <2>3, <2>4 DEF Range
<1> QED BY <1>3, <1>5, <1>6, <1>7, <1>8

\* One after the other: in order are both, and all of the first are before the second.
LEMMA ConcatInOrder ==
  ASSUME NEW s \in Seq(Int), NEW t \in Seq(Int)
  PROVE  Feed!InOrder(s \o t) <=>
           Feed!InOrder(s) /\ Feed!InOrder(t) /\ \A e \in Range(s), f \in Range(t) : e < f
<1> DEFINE c == s \o t
           m == Len(s)
           n == Len(t)
<1>1. /\ m \in Nat /\ n \in Nat
      /\ DOMAIN s = 1..m /\ DOMAIN t = 1..n /\ DOMAIN c = 1..(m + n)
      /\ \A i \in 1..(m + n) : c[i] = IF i <= m THEN s[i] ELSE t[i - m]
  BY ConcatProperties, LenProperties
<1>2. \A i \in 1..m : i \in DOMAIN c /\ c[i] = s[i]
  BY <1>1
<1>3. \A i \in 1..n : i + m \in DOMAIN c /\ c[i + m] = t[i]
  BY <1>1
<1>4. /\ \A e \in Range(s) : \E i \in 1..m : e = s[i]
      /\ \A e \in Range(t) : \E i \in 1..n : e = t[i]
      /\ \A i \in 1..m : s[i] \in Range(s)
      /\ \A i \in 1..n : t[i] \in Range(t)
  BY <1>1 DEF Range
<1> HIDE DEF c, m, n
<1>5. ASSUME Feed!InOrder(c)
      PROVE  Feed!InOrder(s) /\ Feed!InOrder(t) /\ \A e \in Range(s), f \in Range(t) : e < f
  <2>1. \A i, j \in DOMAIN c : i < j => c[i] < c[j]
    BY <1>5 DEF Feed!InOrder
  <2>2. Feed!InOrder(s)
    BY <1>1, <1>2, <2>1 DEF Feed!InOrder
  <2>3. ASSUME NEW i \in 1..n, NEW j \in 1..n, i < j PROVE t[i] < t[j]
    <3>1. i + m < j + m
      BY <1>1, <2>3
    <3> QED BY <1>3, <2>1, <3>1
  <2>4. Feed!InOrder(t)
    BY <1>1, <2>3 DEF Feed!InOrder
  <2>5. ASSUME NEW i \in 1..m, NEW j \in 1..n PROVE s[i] < t[j]
    <3>1. i < j + m
      BY <1>1
    <3> QED BY <1>2, <1>3, <2>1, <3>1
  <2> QED BY <1>4, <2>2, <2>4, <2>5
<1>6. ASSUME Feed!InOrder(s), Feed!InOrder(t), \A e \in Range(s), f \in Range(t) : e < f
      PROVE  Feed!InOrder(c)
  <2>1. SUFFICES ASSUME NEW i \in DOMAIN c, NEW j \in DOMAIN c, i < j PROVE c[i] < c[j]
    BY DEF Feed!InOrder
  <2>2. CASE j <= m
    BY <1>1, <1>6, <2>1, <2>2 DEF Feed!InOrder
  <2>3. CASE i <= m /\ ~(j <= m)
    <3>1. i \in 1..m /\ j - m \in 1..n /\ c[i] = s[i] /\ c[j] = t[j - m]
      BY <1>1, <2>1, <2>3, SMTT(20)
    <3> QED BY <1>4, <1>6, <3>1
  <2>4. CASE ~(i <= m)
    <3>1. i - m \in 1..n /\ j - m \in 1..n /\ i - m < j - m /\ c[i] = t[i - m] /\ c[j] = t[j - m]
      BY <1>1, <2>1, <2>4
    <3> QED BY <1>1, <1>6, <3>1 DEF Feed!InOrder
  <2> QED BY <1>1, <2>1, <2>2, <2>3, <2>4
<1> QED BY <1>5, <1>6 DEF c

\* Reversed as a whole, the second comes first.
LEMMA ReverseConcat ==
  ASSUME NEW S, NEW s \in Seq(S), NEW t \in Seq(S)
  PROVE  Reverse(s \o t) = Reverse(t) \o Reverse(s)
<1> DEFINE c == s \o t
           a == Reverse(c)
           r == Reverse(s)
           q == Reverse(t)
           b == q \o r
<1>1. /\ c \in Seq(S) /\ Len(s) \in Nat /\ Len(t) \in Nat
      /\ Len(c) = Len(s) + Len(t)
      /\ \A i \in 1..(Len(s) + Len(t)) : c[i] = IF i <= Len(s) THEN s[i] ELSE t[i - Len(s)]
  BY ConcatProperties, LenProperties
<1> HIDE DEF c
<1>2. /\ a \in Seq(S) /\ Len(a) = Len(s) + Len(t)
      /\ \A i \in 1..(Len(s) + Len(t)) : a[i] = c[Len(s) + Len(t) - i + 1]
  <2>1. /\ a \in Seq(S) /\ Len(a) = Len(c)
        /\ \A i \in 1..Len(c) : a[i] = c[Len(c) - i + 1]
    BY <1>1, ReverseProperties
  <2> QED BY <1>1, <2>1
<1>3. /\ r \in Seq(S) /\ Len(r) = Len(s) /\ \A i \in 1..Len(s) : r[i] = s[Len(s) - i + 1]
      /\ q \in Seq(S) /\ Len(q) = Len(t) /\ \A i \in 1..Len(t) : q[i] = t[Len(t) - i + 1]
  BY ReverseProperties
<1> HIDE DEF a, r, q
<1>4. /\ b \in Seq(S) /\ Len(b) = Len(s) + Len(t)
      /\ \A i \in 1..(Len(s) + Len(t)) : b[i] = IF i <= Len(t) THEN q[i] ELSE r[i - Len(t)]
  <2>1. /\ b \in Seq(S) /\ Len(b) = Len(q) + Len(r)
        /\ \A i \in 1..(Len(q) + Len(r)) : b[i] = IF i <= Len(q) THEN q[i] ELSE r[i - Len(q)]
    BY <1>3, ConcatProperties
  <2> QED BY <1>1, <1>3, <2>1
<1> HIDE DEF b
<1>5. ASSUME NEW i \in 1..(Len(s) + Len(t)) PROVE a[i] = b[i]
  <2>1. CASE i <= Len(t)
    <3>1. i \in 1..Len(t) /\ Len(s) + Len(t) - i + 1 \in 1..(Len(s) + Len(t))
          /\ ~(Len(s) + Len(t) - i + 1 <= Len(s))
          /\ Len(s) + Len(t) - i + 1 - Len(s) = Len(t) - i + 1
      BY <1>1, <2>1
    <3>2. a[i] = c[Len(s) + Len(t) - i + 1] /\ b[i] = q[i]
      BY <1>2, <1>4, <2>1
    <3>3. c[Len(s) + Len(t) - i + 1] = t[Len(s) + Len(t) - i + 1 - Len(s)]
      BY <1>1, <3>1
    <3>4. q[i] = t[Len(t) - i + 1]
      BY <1>3, <3>1
    <3> QED BY <3>1, <3>2, <3>3, <3>4
  <2>2. CASE ~(i <= Len(t))
    <3>1. i - Len(t) \in 1..Len(s) /\ Len(s) + Len(t) - i + 1 \in 1..(Len(s) + Len(t))
          /\ Len(s) + Len(t) - i + 1 <= Len(s)
          /\ Len(s) - (i - Len(t)) + 1 = Len(s) + Len(t) - i + 1
      BY <1>1, <2>2
    <3>2. a[i] = c[Len(s) + Len(t) - i + 1] /\ b[i] = r[i - Len(t)]
      BY <1>2, <1>4, <2>2
    <3>3. c[Len(s) + Len(t) - i + 1] = s[Len(s) + Len(t) - i + 1]
          /\ r[i - Len(t)] = s[Len(s) - (i - Len(t)) + 1]
      BY <1>1, <1>3, <3>1
    <3> QED BY <3>1, <3>2, <3>3
  <2> QED BY <2>1, <2>2
<1>6. a = b
  BY <1>2, <1>4, <1>5, SeqEqual
<1> QED BY <1>6 DEF a, b, c, q, r

\* Nothing is the same the other way round.
LEMMA NothingReversed == OldestFirst(<<>>) = <<>>
<1>1. <<>> \in Seq({}) /\ Len(<<>>) = 0
  BY EmptySeq
<1>2. Reverse(<<>>) \in Seq({}) /\ Len(Reverse(<<>>)) = 0
  BY <1>1, ReverseProperties
<1> QED BY <1>2, EmptySeq DEF OldestFirst

\* What more is appended to has not changed.
LEMMA PrefixOfConcat ==
  ASSUME NEW S, NEW s \in Seq(S), NEW t \in Seq(S)
  PROVE  IsPrefix(s, s \o t)
<1>1. Len(s) \in Nat /\ Len(t) \in Nat /\ Len(s \o t) = Len(s) + Len(t)
  BY ConcatProperties, LenProperties
<1>2. SubSeq(s \o t, 1, Len(s)) = SubSeq(s, 1, Len(s))
  BY <1>1, SubSeqOfConcat1
<1> QED BY <1>1, <1>2 DEF IsPrefix

LEMMA PrefixOfMore ==
  ASSUME NEW S, NEW r \in Seq(S), NEW s \in Seq(S), NEW t \in Seq(S)
  PROVE  IsPrefix(r \o s, r \o (s \o t))
<1>1. (r \o s) \o t = r \o (s \o t)
  BY ConcatAssociative, SMTT(20)
<1>2. r \o s \in Seq(S)
  BY ConcatProperties
<1>3. IsPrefix(r \o s, (r \o s) \o t)
  BY <1>2, PrefixOfConcat
<1> QED BY <1>1, <1>3

-----------------------------------------------------------------------------
(* One page.                                                               *)

\* The events of a page, and those that the loop over it takes.
PageEvents == {e \in Event : e <= Newest /\ e > Newest - PageSize}
FreshEvents == {e \in PageEvents : \A f \in PageEvents : f >= e => f >= FirstEvent /\ f \notin activity}

\* What the loop over a page takes is a sequence, the newest first, and all of the
\* page unless something on it is too old or known.
LEMMA FreshFacts ==
  ASSUME FeedInv
  PROVE  /\ Fresh \in Seq(Event) /\ Range(Fresh) = FreshEvents
         /\ Feed!InOrder(OldestFirst(Fresh))
         /\ Fresh = Page <=> FreshEvents = PageEvents
<1> USE MonitorAssumption
<1>1. /\ emitted \in Nat /\ emitted <= MaxEvents /\ next \in Nat
      /\ Newest \in Nat /\ Newest <= emitted
  BY DEF FeedInv, MonitorTypeOK, Newest, Event
<1> DEFINE n == IF Newest < PageSize THEN Newest ELSE PageSize
           Takes(e) == e >= FirstEvent /\ e \notin activity
           D == {j \in 1..n : \A k \in 1..j : Takes(Newest + 1 - k)}
<1>2. n \in Nat /\ n <= Newest /\ n <= PageSize /\ (n = Newest \/ n = PageSize)
  BY <1>1
<1> HIDE DEF n
<1>3. Page = [i \in 1..n |-> Newest + 1 - i]
  BY DEF Page, n
<1>4. DOMAIN Page = 1..n /\ \A i \in 1..n : Page[i] = Newest + 1 - i
  BY <1>3
<1>5. \A i \in 1..n : Newest + 1 - i \in PageEvents
  BY <1>1, <1>2 DEF PageEvents, Event
<1>6. \A e \in PageEvents : e \in Int /\ Newest + 1 - e \in 1..n /\ Newest + 1 - (Newest + 1 - e) = e
  BY <1>1, <1>2 DEF PageEvents, Event
<1>7. PICK m \in 0..n : D = 1..m
  <2>1. \A j \in D : 1..j \subseteq D
    BY <1>2
  <2>2. D \in SUBSET (1..n)
    OBVIOUS
  <2> HIDE DEF D
  <2> QED BY <1>2, <2>1, <2>2, NoneLeftOut
<1>8. \A i \in 1..m : i \in 1..n /\ \A k \in 1..i : Takes(Newest + 1 - k)
  BY <1>7
<1>9. ASSUME NEW i \in 1..n, \A k \in 1..i : Takes(Newest + 1 - k) PROVE i \in 1..m
  <2>1. i \in D
    BY <1>9
  <2> QED BY <1>7, <2>1
<1> HIDE DEF Takes
<1>10. Fresh = [i \in 1..m |-> Newest + 1 - i]
  <2>1. {j \in DOMAIN Page : \A k \in 1..j : Page[k] >= FirstEvent /\ Page[k] \notin activity} = 1..m
    <3>1. ASSUME NEW j \in 1..n
          PROVE  (\A k \in 1..j : Page[k] >= FirstEvent /\ Page[k] \notin activity) <=> j \in 1..m
      <4>1. \A k \in 1..j : k \in 1..n
        BY <1>2
      <4>2. \A k \in 1..j : Takes(Newest + 1 - k) <=> (Page[k] >= FirstEvent /\ Page[k] \notin activity)
        BY <1>4, <4>1 DEF Takes
      <4> QED BY <1>8, <1>9, <4>2
    <3>2. 1..m \subseteq 1..n
      BY <1>8
    <3> QED BY <1>4, <3>1, <3>2
  <2>2. \A i \in 1..m : Page[i] = Newest + 1 - i
    BY <1>4, <1>8
  <2> QED BY <2>1, <2>2 DEF Fresh
<1>11. m \in Nat /\ DOMAIN Fresh = 1..m /\ \A i \in 1..m : Fresh[i] = Newest + 1 - i
  BY <1>2, <1>10
<1>12. Fresh \in Seq(Event) /\ Len(Fresh) = m
  <2>1. \A i \in 1..m : Newest + 1 - i \in Event
    BY <1>5, <1>8 DEF PageEvents
  <2>2. Fresh \in Seq(Event)
    BY <1>10, <1>11, <2>1, IsASeq
  <2> QED BY <1>11, <2>2, LenProperties
<1>13. ASSUME NEW e \in FreshEvents PROVE e \in Range(Fresh)
  <2> DEFINE i == Newest + 1 - e
  <2>1. e \in PageEvents /\ i \in 1..n /\ Newest + 1 - i = e
    BY <1>6 DEF FreshEvents
  <2>2. ASSUME NEW k \in 1..i PROVE Takes(Newest + 1 - k)
    <3>1. k \in 1..n /\ Newest + 1 - k >= e
      BY <1>1, <1>2, <1>6, <2>1
    <3>2. Newest + 1 - k \in PageEvents
      BY <1>5, <3>1
    <3> QED BY <3>1, <3>2 DEF FreshEvents, Takes
  <2>3. i \in 1..m
    BY <1>9, <2>1, <2>2
  <2> QED BY <1>11, <2>1, <2>3 DEF Range
<1>14. ASSUME NEW i \in 1..m PROVE Newest + 1 - i \in FreshEvents
  <2>1. Newest + 1 - i \in PageEvents
    BY <1>5, <1>8
  <2>2. ASSUME NEW f \in PageEvents, f >= Newest + 1 - i PROVE Takes(f)
    <3>1. Newest + 1 - f \in 1..i /\ Newest + 1 - (Newest + 1 - f) = f
      BY <1>1, <1>6, <2>2
    <3> QED BY <1>8, <3>1
  <2> QED BY <2>1, <2>2 DEF FreshEvents, Takes
<1>15. Range(Fresh) = FreshEvents
  <2>1. \A e \in Range(Fresh) : \E i \in 1..m : e = Newest + 1 - i
    BY <1>11 DEF Range
  <2> QED BY <1>13, <1>14, <2>1
<1>16. Feed!InOrder(OldestFirst(Fresh))
  <2>1. /\ Reverse(Fresh) \in Seq(Event) /\ Len(Reverse(Fresh)) = Len(Fresh)
        /\ \A i \in 1..Len(Fresh) : Reverse(Fresh)[i] = Fresh[Len(Fresh) - i + 1]
    BY <1>12, ReverseProperties
  <2>2. DOMAIN Reverse(Fresh) = 1..m
    BY <1>12, <2>1, LenProperties
  <2>3. ASSUME NEW i \in 1..m PROVE Reverse(Fresh)[i] = Newest - m + i
    <3>1. m - i + 1 \in 1..m /\ Newest + 1 - (m - i + 1) = Newest - m + i
      BY <1>1, <1>11
    <3>2. Reverse(Fresh)[i] = Fresh[m - i + 1]
      BY <1>12, <2>1
    <3> QED BY <1>11, <3>1, <3>2
  <2>4. \A i, j \in 1..m : i < j => Newest - m + i < Newest - m + j
    BY <1>1, <1>11
  <2> QED BY <2>2, <2>3, <2>4 DEF Feed!InOrder, OldestFirst
<1>17. Fresh = Page <=> FreshEvents = PageEvents
  <2>1. ASSUME Fresh = Page PROVE FreshEvents = PageEvents
    <3>1. 1..m = 1..n
      BY <1>4, <1>11, <2>1
    <3>2. \A e \in PageEvents : e \in FreshEvents
      BY <1>6, <1>14, <3>1
    <3> QED BY <3>2 DEF FreshEvents
  <2>2. ASSUME FreshEvents = PageEvents PROVE Fresh = Page
    <3>1. ASSUME NEW i \in 1..n PROVE i \in 1..m
      <4>1. Newest + 1 - i \in FreshEvents
        BY <1>5, <2>2
      <4>2. ASSUME NEW k \in 1..i PROVE Takes(Newest + 1 - k)
        <5>1. k \in 1..n /\ Newest + 1 - k >= Newest + 1 - i
          BY <1>1, <1>2
        <5>2. Newest + 1 - k \in PageEvents
          BY <1>5, <5>1
        <5> QED BY <4>1, <5>1, <5>2 DEF FreshEvents, Takes
      <4> QED BY <1>9, <4>2
    <3>2. 1..m = 1..n
      BY <1>8, <3>1
    <3> QED BY <1>3, <1>10, <3>2
  <2> QED BY <2>1, <2>2
<1> QED BY <1>12, <1>15, <1>16, <1>17

\* Events are numbers.
LEMMA EventsAreNumbers == \A s \in Seq(Event) : s \in Seq(Int)
<1>1. Event \subseteq Int
  BY DEF Event
<1> QED BY <1>1, SeqMonotonic

\* All that was delivered is older than what a read has collected.
LEMMA CollectedIsNewer ==
  ASSUME FeedInv
  PROVE  \A e \in Delivered, f \in Collected : e < f
<1> DEFINE d == Delivery
           b == OldestFirst(batch)
<1>1. batch \in Seq(Event) /\ printed \in Seq(Event) /\ printable \in Seq(Event)
  BY DEF FeedInv, MonitorTypeOK
<1>2. d \in Seq(Event) /\ b \in Seq(Event) /\ Range(d) = Delivered /\ Range(b) = Collected
  BY <1>1, ConcatProperties, ReverseProperties DEF Delivery, Delivered, Collected, OldestFirst
<1>3. Feed!InOrder(d \o b)
  BY DEF FeedInv
<1> HIDE DEF d, b
<1>4. d \in Seq(Int) /\ b \in Seq(Int)
  BY <1>2, EventsAreNumbers
<1> QED BY <1>2, <1>3, <1>4, ConcatInOrder

\* What the loop over a page takes is newer than all that was delivered, and older
\* than all that the same read has collected from the pages above.
LEMMA FreshIsNewer ==
  ASSUME FeedInv, NEW e \in FreshEvents
  PROVE  /\ e \in Event /\ e <= emitted /\ e \notin activity
         /\ \A f \in Delivered : f < e
         /\ \A f \in Collected : e < f
<1> USE MonitorAssumption
<1>1. emitted \in Nat /\ next \in Nat /\ Newest \in Nat /\ Newest <= emitted
  BY DEF FeedInv, MonitorTypeOK, Newest, Event
<1>2. e \in Event /\ e \in Int /\ e <= Newest /\ e > Newest - PageSize
  BY DEF FreshEvents, PageEvents, Event
<1>3. e \notin activity /\ \A f \in PageEvents : f >= e => f \notin activity
  BY <1>2 DEF FreshEvents
<1>4. ASSUME NEW f \in Delivered, ~(f < e) PROVE FALSE
  <2>0. f \in activity
    BY DEF FeedInv
  <2>1. f \in activity /\ f \in Event /\ f <= emitted
    BY <2>0 DEF FeedInv, MonitorTypeOK
  <2>2. f \in Int /\ e \in Int /\ f >= e
    BY <1>2, <1>4, <2>1 DEF Event
  <2>3. CASE f <= Newest
    <3>1. f \in PageEvents
      BY <1>1, <1>2, <2>1, <2>2, <2>3 DEF PageEvents
    <3> QED BY <1>3, <2>1, <2>2, <3>1
  <2>4. CASE f > Newest
    <3>1. next # 0 /\ f > next
      BY <1>1, <2>1, <2>2, <2>4 DEF Newest
    <3>2. f \in Collected
      BY <2>1, <3>1 DEF FeedInv
    <3>3. f < f
      BY <1>4, <3>2, CollectedIsNewer DEF FeedInv
    <3> QED BY <2>2, <3>3
  <2> QED BY <1>1, <2>2, <2>3, <2>4
<1>5. ASSUME NEW f \in Collected PROVE e < f
  <2>1. f \in activity
    BY DEF FeedInv
  <2>2. f \in Event /\ f \in Int
    BY <2>1 DEF FeedInv, MonitorTypeOK, Event
  <2>3. batch # <<>>
    BY DEF Collected, Range
  <2>4. next # 0 /\ f > next
    BY <2>3 DEF FeedInv
  <2> QED BY <1>1, <1>2, <2>2, <2>4 DEF Newest
<1> QED BY <1>1, <1>2, <1>3, <1>4, <1>5

\* What a poll has collected, the events of one more page included, is all newer than
\* what was delivered, and oldest first it is in order.
LEMMA TakenInOrder ==
  ASSUME FeedInv
  PROVE  /\ batch \o Fresh \in Seq(Event) /\ Range(batch \o Fresh) = Collected \cup FreshEvents
         /\ Feed!InOrder(Delivery \o OldestFirst(batch \o Fresh))
<1>1. batch \in Seq(Event) /\ Delivery \in Seq(Event) /\ Fresh \in Seq(Event)
  BY ConcatProperties, FreshFacts DEF FeedInv, MonitorTypeOK, Delivery
<1>2. /\ batch \o Fresh \in Seq(Event)
      /\ Range(batch \o Fresh) = Collected \cup FreshEvents
  BY <1>1, ConcatProperties, RangeConcatenation, FreshFacts DEF Collected
<1> DEFINE d == Delivery
           b == OldestFirst(batch)
           f == OldestFirst(Fresh)
<1>3. /\ b \in Seq(Event) /\ f \in Seq(Event) /\ d \in Seq(Event)
      /\ Range(b) = Collected /\ Range(f) = FreshEvents /\ Range(d) = Delivered
      /\ OldestFirst(batch \o Fresh) = f \o b
  BY <1>1, ReverseProperties, ReverseConcat, FreshFacts DEF OldestFirst, Collected, Delivered
<1>4. /\ \A e \in FreshEvents, g \in Delivered : g < e
      /\ \A e \in FreshEvents, g \in Collected : e < g
  BY FreshIsNewer
<1>5. Feed!InOrder(d \o b) /\ Feed!InOrder(f)
  BY FreshFacts DEF FeedInv
<1> HIDE DEF d, b, f
<1>6. \A s \in Seq(Event) : s \in Seq(Int)
  BY EventsAreNumbers
<1>7. Feed!InOrder(d) /\ Feed!InOrder(b) /\ \A e \in Delivered, g \in Collected : e < g
  BY <1>3, <1>5, <1>6, ConcatInOrder
<1>8. Feed!InOrder(f \o b) /\ f \o b \in Seq(Event) /\ Range(f \o b) = FreshEvents \cup Collected
  BY <1>3, <1>4, <1>5, <1>6, <1>7, ConcatInOrder, ConcatProperties, RangeConcatenation
<1>9. \A e \in Range(d), g \in Range(f \o b) : e < g
  BY <1>3, <1>4, <1>7, <1>8
<1>10. Feed!InOrder(d \o (f \o b))
  BY <1>3, <1>6, <1>7, <1>8, <1>9, ConcatInOrder
<1> QED BY <1>2, <1>3, <1>10 DEF d

\* What the caller of a read that came to its end does to what was delivered.
LEMMA Returned ==
  ASSUME MonitorTypeOK, NEW events \in Seq(Event), ReadReturns(events)
  PROVE  /\ Delivery' = Delivery \o OldestFirst(events) /\ Delivered' = Delivered \cup Range(events)
         /\ Delivery' \in Seq(Event) /\ printed' \in Seq(Event) /\ printable' \in Seq(Event)
         /\ next' = 0 /\ batch' = <<>> /\ Collected' = {}
<1> DEFINE o == OldestFirst(events)
<1>1. /\ printed \in Seq(Event) /\ printable \in Seq(Event)
      /\ o \in Seq(Event) /\ Range(o) = Range(events)
  BY ReverseProperties DEF MonitorTypeOK, OldestFirst
<1>2. \/ printed' = printed \o (printable \o o) /\ printable' = <<>>
      \/ printed' = printed /\ printable' = printable \o o
  BY DEF ReadReturns
<1> HIDE DEF o
<1>3. /\ printable \o o \in Seq(Event) /\ printed \o (printable \o o) \in Seq(Event)
      /\ (printed \o printable) \o o = printed \o (printable \o o)
      /\ (printed \o (printable \o o)) \o <<>> = printed \o (printable \o o)
      /\ printed \o printable \in Seq(Event) /\ <<>> \in Seq(Event)
  <2>1. printable \o o \in Seq(Event) /\ printed \o printable \in Seq(Event) /\ <<>> \in Seq(Event)
    BY <1>1, ConcatProperties, EmptySeq
  <2>2. printed \o (printable \o o) \in Seq(Event)
    BY <1>1, <2>1, ConcatProperties
  <2>3. (printed \o printable) \o o = printed \o (printable \o o)
    BY <1>1, ConcatAssociative
  <2>4. (printed \o (printable \o o)) \o <<>> = printed \o (printable \o o)
    BY <2>2, ConcatEmptySeq
  <2> QED BY <2>1, <2>2, <2>3, <2>4
<1>4. printed' \in Seq(Event) /\ printable' \in Seq(Event)
      /\ printed' \o printable' = (printed \o printable) \o o
  <2>1. CASE printed' = printed \o (printable \o o) /\ printable' = <<>>
    BY <1>3, <2>1
  <2>2. CASE printed' = printed /\ printable' = printable \o o
    BY <1>1, <1>3, <2>2
  <2> QED BY <1>2, <2>1, <2>2
<1>5. Range((printed \o printable) \o o) = Range(printed \o printable) \cup Range(events)
  <2> DEFINE p == printed \o printable
  <2>1. p \in Seq(Event)
    BY <1>3
  <2> HIDE DEF p
  <2>2. Range(p \o o) = Range(p) \cup Range(o)
    BY <1>1, <2>1, RangeConcatenation
  <2> QED BY <1>1, <2>2 DEF p
<1>6. next' = 0 /\ batch' = <<>>
  BY DEF ReadReturns, BeginRead, EndRead
<1>7. Range(<<>>) = {}
  BY DEF Range
<1>8. (printed \o printable) \o o \in Seq(Event)
  BY <1>1, <1>3, ConcatProperties
<1> QED BY <1>4, <1>5, <1>6, <1>7, <1>8 DEF Delivery, Delivered, Collected, o

\* The caller of a read that came to its end leaves the invariant in place.
LEMMA ReturnStep ==
  ASSUME FeedInv, reader # "none", NEW events \in Seq(Event), ReadReturns(events),
         activity' \subseteq Event, activity \cup Range(events) \subseteq activity',
         \A e \in activity' : e <= emitted, Feed!InOrder(Delivery \o OldestFirst(events)),
         UNCHANGED <<serviceVars, active, errors, errorInStop, stableAtStop>>
  PROVE  FeedInv'
<1>0. MonitorTypeOK /\ ReaderInv
  BY DEF FeedInv
<1>1. ReaderInv'
  BY <1>0 DEF ReaderInv, ReadReturns, BeginRead, EndRead, MonitorTypeOK
<1>2. /\ Delivery' = Delivery \o OldestFirst(events) /\ Delivered' = Delivered \cup Range(events)
      /\ Delivery' \in Seq(Event) /\ printed' \in Seq(Event) /\ printable' \in Seq(Event)
      /\ next' = 0 /\ batch' = <<>> /\ Collected' = {}
  BY <1>0, Returned
<1>3. Feed!InOrder((Delivery \o OldestFirst(batch))')
  <2>1. OldestFirst(<<>>) = <<>>
    BY NothingReversed
  <2>2. Delivery' \o <<>> = Delivery'
    BY <1>2, ConcatEmptySeq
  <2> QED BY <1>2, <2>1, <2>2
<1>4. MonitorTypeOK'
  <2>1. UNCHANGED <<emitted, service>>
    BY DEF serviceVars
  <2>2. next' \in 0..MaxEvents
    BY <1>2, MonitorAssumption
  <2>3. /\ readPromise' \in {"none", "pending", "rejected"} /\ reader' \in {"none", "tick", "stop"}
        /\ stop' \in {"no", "waiting", "polling", "done", "failed"} /\ timer' \in BOOLEAN
    BY <1>0 DEF MonitorTypeOK, ReadReturns, BeginRead, EndRead
  <2>4. batch' \in Seq(Event)
    BY <1>2, EmptySeq
  <2> QED BY <1>0, <1>2, <2>1, <2>2, <2>3, <2>4 DEF MonitorTypeOK
<1>5. (Delivered \cup Collected)' \subseteq activity'
  BY <1>2 DEF FeedInv
<1>6. \A e \in activity' : e <= emitted'
  BY DEF serviceVars
<1> QED BY <1>1, <1>2, <1>3, <1>4, <1>5, <1>6 DEF FeedInv

\* A page that is not the last leaves the invariant in place.
LEMMA PageStep == FeedInv /\ ReadPage => FeedInv'
<1> SUFFICES ASSUME FeedInv, ReadPage PROVE FeedInv'
  OBVIOUS
<1> USE MonitorAssumption
<1>0. MonitorTypeOK /\ ReaderInv
  BY DEF FeedInv
<1>1. emitted \in Nat /\ next \in Nat /\ Newest \in Nat /\ Newest <= emitted /\ emitted <= MaxEvents
  BY <1>0 DEF FeedInv, MonitorTypeOK, Newest, Event
<1>2. /\ FreshEvents = PageEvents /\ Newest - PageSize >= 1
      /\ Fresh \in Seq(Event) /\ Range(Fresh) = FreshEvents
  BY <1>1, FreshFacts DEF ReadPage, LastPage
<1>3. FreshEvents \subseteq Event
  BY DEF FreshEvents, PageEvents
<1>4. /\ Delivery' = Delivery /\ Delivered' = Delivered
      /\ batch' = batch \o Fresh /\ Collected' = Collected \cup FreshEvents
      /\ activity' = activity \cup FreshEvents /\ next' = Newest - PageSize
      /\ UNCHANGED <<emitted, reader>>
  BY <1>2, TakenInOrder DEF ReadPage, Delivery, Delivered, Collected, printerVars, serviceVars
<1>5. MonitorTypeOK'
  <2>1. next' \in 0..MaxEvents
    BY <1>1, <1>2, <1>4
  <2>2. batch' \in Seq(Event)
    BY <1>4, TakenInOrder
  <2>3. activity' \subseteq Event
    BY <1>0, <1>3, <1>4 DEF MonitorTypeOK
  <2> QED BY <1>0, <2>1, <2>2, <2>3 DEF ReadPage, MonitorTypeOK, serviceVars, printerVars
<1>6. ReaderInv'
  BY <1>0 DEF ReadPage, ReaderInv, serviceVars, printerVars
<1>7. /\ (Delivered \cup Collected)' \subseteq activity'
      /\ \A e \in activity' : e <= emitted'
  <2>1. \A e \in FreshEvents : e <= emitted
    BY FreshIsNewer
  <2> QED BY <1>4, <2>1 DEF FeedInv
<1>8. Feed!InOrder((Delivery \o OldestFirst(batch))')
  BY <1>4, TakenInOrder
<1>9. next' <= emitted' /\ next' # 0
  BY <1>1, <1>2, <1>4
<1>10. ASSUME NEW e \in Collected' PROVE e > next'
  <2>1. CASE e \in FreshEvents
    BY <1>1, <1>2, <1>4, <2>1 DEF PageEvents, Event
  <2>2. CASE e \in Collected
    <3>0. e \in activity
      BY <2>2 DEF FeedInv
    <3>1. batch # <<>> /\ e \in Int
      BY <1>0, <2>2, <3>0 DEF Collected, Range, MonitorTypeOK, Event
    <3>2. next # 0 /\ e > next
      BY <2>2, <3>1 DEF FeedInv
    <3>3. Newest = next
      BY <3>2 DEF Newest
    <3> QED BY <1>1, <1>4, <3>1, <3>2, <3>3
  <2> QED BY <1>4, <2>1, <2>2
<1>11. ASSUME NEW e \in activity', e > next' PROVE e \in Collected'
  <2>1. CASE e \in FreshEvents
    BY <1>4, <2>1
  <2>2. CASE e \in activity \ FreshEvents
    <3>0. e \in Event /\ e \in Int /\ e <= emitted
      BY <1>0, <2>2 DEF FeedInv, MonitorTypeOK, Event
    <3>1. e \notin PageEvents
      BY <1>2, <2>2
    <3>2. e > Newest
      BY <1>1, <1>4, <1>11, <3>0, <3>1 DEF PageEvents
    <3>3. next # 0 /\ e > next
      BY <1>1, <3>0, <3>2 DEF Newest
    <3>4. e \in Collected
      BY <2>2, <3>3 DEF FeedInv
    <3> QED BY <1>4, <3>4
  <2> QED BY <1>4, <2>1, <2>2
<1> QED BY <1>5, <1>6, <1>7, <1>8, <1>9, <1>10, <1>11 DEF FeedInv

\* A step that hands nothing on leaves the invariant in place, whether or not a read
\* is given up or begins with it.
LEMMA KeptStep ==
  ASSUME FeedInv, MonitorTypeOK', ReaderInv', UNCHANGED <<printerVars, activity>>,
         emitted' >= emitted, UNCHANGED <<batch, next>> \/ (next' = 0 /\ batch' = <<>>)
  PROVE  FeedInv'
<1>0. MonitorTypeOK /\ emitted \in Int /\ emitted' \in Int /\ next \in Int
  BY MonitorAssumption DEF FeedInv, MonitorTypeOK
<1>1. Delivery' = Delivery /\ Delivered' = Delivered
  BY DEF printerVars, Delivery, Delivered
<1>2. \A e \in activity : e \in Int /\ e <= emitted
  BY <1>0 DEF FeedInv, MonitorTypeOK, Event
<1>3. \A e \in activity' : e <= emitted'
  BY <1>0, <1>2
<1>4. CASE UNCHANGED <<batch, next>>
  <2>1. Collected' = Collected
    BY <1>4 DEF Collected
  <2>2. Feed!InOrder((Delivery \o OldestFirst(batch))')
    BY <1>1, <1>4 DEF FeedInv
  <2>3. next' # 0 => next' <= emitted'
    BY <1>0, <1>4 DEF FeedInv
  <2> QED BY <1>1, <1>3, <1>4, <2>1, <2>2, <2>3 DEF FeedInv
<1>5. CASE next' = 0 /\ batch' = <<>>
  <2>1. Collected' = {}
    BY <1>5 DEF Collected, Range
  <2> DEFINE d == Delivery
             b == OldestFirst(batch)
  <2>2. d \in Seq(Event) /\ b \in Seq(Event)
    BY <1>0, ConcatProperties, ReverseProperties DEF MonitorTypeOK, Delivery, OldestFirst
  <2>3. Feed!InOrder(d \o b)
    BY DEF FeedInv
  <2> HIDE DEF d, b
  <2>4. Feed!InOrder(d) /\ d \o <<>> = d
    BY <2>2, <2>3, ConcatInOrder, EventsAreNumbers, ConcatEmptySeq
  <2>5. Delivery' \o OldestFirst(batch') = d
    BY <1>1, <1>5, <2>4, NothingReversed DEF d
  <2>6. Feed!InOrder((Delivery \o OldestFirst(batch))')
    BY <2>4, <2>5
  <2> QED BY <1>1, <1>3, <1>5, <2>1, <2>6 DEF FeedInv
<1> QED BY <1>4, <1>5

\* A read that finds nothing hands nothing on.
LEMMA NothingTaken ==
  ASSUME FeedInv
  PROVE  <<>> \in Seq(Event) /\ Range(<<>>) = {} /\ Feed!InOrder(Delivery \o OldestFirst(<<>>))
<1> DEFINE d == Delivery
           b == OldestFirst(batch)
<1>1. d \in Seq(Event) /\ b \in Seq(Event)
  BY ConcatProperties, ReverseProperties DEF FeedInv, MonitorTypeOK, Delivery, OldestFirst
<1>2. Feed!InOrder(d \o b)
  BY DEF FeedInv
<1> HIDE DEF d, b
<1>3. Feed!InOrder(d) /\ d \o <<>> = d
  BY <1>1, <1>2, ConcatInOrder, EventsAreNumbers, ConcatEmptySeq
<1>4. Feed!InOrder(Delivery \o OldestFirst(<<>>))
  BY <1>3, NothingReversed DEF d
<1>5. Range(<<>>) = {}
  BY DEF Range
<1> QED BY <1>4, <1>5, EmptySeq

\* Every step leaves the invariant in place.
LEMMA FeedInvStep == FeedInv /\ [MonitorNext]_monitorVars => FeedInv'
<1> SUFFICES ASSUME FeedInv, [MonitorNext]_monitorVars PROVE FeedInv'
  OBVIOUS
<1> USE MonitorAssumption
<1>0. MonitorTypeOK /\ ReaderInv /\ emitted \in Int
  BY DEF FeedInv, MonitorTypeOK
<1>1. CASE Emit
  <2>1. emitted' = emitted + 1 /\ emitted' \in 0..MaxEvents
    BY <1>0, <1>1 DEF Emit, MonitorTypeOK
  <2>2. MonitorTypeOK'
    BY <1>0, <1>1, <2>1 DEF Emit, MonitorTypeOK, printerVars
  <2>3. ReaderInv'
    BY <1>0, <1>1 DEF Emit, ReaderInv
  <2> QED BY <1>0, <1>1, <2>1, <2>2, <2>3, KeptStep DEF Emit
<1>2. CASE Settle
  <2>1. MonitorTypeOK' /\ ReaderInv'
    BY <1>0, <1>2 DEF Settle, MonitorTypeOK, ReaderInv, printerVars
  <2> QED BY <1>0, <1>2, <2>1, KeptStep DEF Settle
<1>3. CASE ReadPage
  BY <1>3, PageStep
<1>4. CASE ReadLastPage
  <2>1. FreshEvents \subseteq Event /\ \A e \in FreshEvents : e <= emitted
    BY FreshIsNewer
  <2>2. Collected \subseteq activity /\ activity \subseteq Event /\ \A e \in activity : e <= emitted
    BY DEF FeedInv, MonitorTypeOK
  <2>3. /\ batch \o Fresh \in Seq(Event) /\ Range(batch \o Fresh) = Collected \cup FreshEvents
        /\ Feed!InOrder(Delivery \o OldestFirst(batch \o Fresh))
    BY TakenInOrder
  <2>4. activity' = activity \cup FreshEvents
    BY <1>4, FreshFacts DEF ReadLastPage
  <2>5. ReadReturns(batch \o Fresh) /\ reader # "none"
        /\ UNCHANGED <<serviceVars, active, errors, errorInStop, stableAtStop>>
    BY <1>4 DEF ReadLastPage
  <2>6. activity' \subseteq Event /\ activity \cup Range(batch \o Fresh) \subseteq activity'
        /\ \A e \in activity' : e <= emitted
    BY <2>1, <2>2, <2>3, <2>4
  <2> QED BY <2>3, <2>5, <2>6, ReturnStep
<1>5. CASE ReadFindsNoStack
  <2>1. activity' = activity /\ activity \subseteq Event /\ \A e \in activity : e <= emitted
    BY <1>5 DEF ReadFindsNoStack, FeedInv, MonitorTypeOK
  <2>2. ReadReturns(<<>>) /\ reader # "none"
        /\ UNCHANGED <<serviceVars, active, errors, errorInStop, stableAtStop>>
    BY <1>5 DEF ReadFindsNoStack
  <2> QED BY <2>1, <2>2, NothingTaken, ReturnStep
<1>6. CASE ReadFails
  <2>1. errors' \in 0..MaxErrors /\ errorInStop' \in BOOLEAN /\ timer' \in BOOLEAN
    BY <1>0, <1>6 DEF ReadFails, MonitorTypeOK
  <2>2. batch' = <<>> /\ batch' \in Seq(Event) /\ next' = 0 /\ next' \in 0..MaxEvents
    BY <1>6, EmptySeq DEF ReadFails, EndRead
  <2>3. MonitorTypeOK'
    BY <1>0, <1>6, <2>1, <2>2 DEF ReadFails, MonitorTypeOK, EndRead, serviceVars, printerVars
  <2>4. ReaderInv'
    BY <1>0, <1>6 DEF ReadFails, ReaderInv, MonitorTypeOK, EndRead
  <2> QED BY <1>0, <1>6, <2>2, <2>3, <2>4, KeptStep DEF ReadFails, serviceVars
<1>7. CASE Tick
  <2>1. /\ next' = 0 /\ batch' = <<>> /\ timer' = FALSE /\ readPromise' = "pending" /\ reader' = "tick"
        /\ batch' \in Seq(Event) /\ next' \in 0..MaxEvents
    BY <1>7, EmptySeq DEF Tick, BeginRead
  <2>2. UNCHANGED <<emitted, service, active, activity, printable, printed, stop, errors,
                    errorInStop, stableAtStop>>
    BY <1>7 DEF Tick, serviceVars, printerVars
  <2>3. MonitorTypeOK'
    BY <1>0, <2>1, <2>2 DEF MonitorTypeOK
  <2>4. ReaderInv'
    BY <1>0, <1>7 DEF Tick, ReaderInv, BeginRead
  <2> QED BY <1>0, <2>1, <2>2, <2>3, <2>4, KeptStep DEF printerVars
<1>8. CASE Stop
  <2> DEFINE Kept == UNCHANGED <<reader, next, batch>>
  <2>1. /\ UNCHANGED <<emitted, service, activity, readPromise, printable, printed,
                       errors, errorInStop>>
        /\ stop = "no" /\ active' = FALSE /\ timer' = FALSE
        /\ stableAtStop' = (service = "stable")
    BY <1>8 DEF Stop, serviceVars, printerVars
  <2>2. \/ readPromise = "none" /\ BeginRead("stop") /\ stop' = "polling"
        \/ readPromise = "pending" /\ Kept /\ stop' = "waiting"
        \/ readPromise = "rejected" /\ Kept /\ stop' = "failed"
    BY <1>0, <1>8 DEF Stop, MonitorTypeOK
  <2>3. \/ reader' = "stop" /\ next' = 0 /\ batch' = <<>>
        \/ Kept
    BY <2>2 DEF BeginRead
  <2>4. MonitorTypeOK'
    <3>1. next' \in 0..MaxEvents /\ batch' \in Seq(Event) /\ reader' \in {"none", "tick", "stop"}
      <4>1. CASE Kept
        BY <1>0, <4>1 DEF MonitorTypeOK
      <4>2. CASE reader' = "stop" /\ next' = 0 /\ batch' = <<>>
        BY <4>2, EmptySeq
      <4> QED BY <2>3, <4>1, <4>2
    <3>2. stop' \in {"no", "waiting", "polling", "done", "failed"}
      BY <2>2
    <3> QED BY <1>0, <2>1, <3>1, <3>2 DEF MonitorTypeOK
  <2>5. ReaderInv'
    BY <1>0, <2>1, <2>2 DEF ReaderInv, MonitorTypeOK, BeginRead
  <2> QED BY <1>0, <2>1, <2>3, <2>4, <2>5, KeptStep DEF printerVars
<1>9. CASE UNCHANGED monitorVars
  <2>1. MonitorTypeOK' /\ ReaderInv'
    BY <1>0, <1>9 DEF monitorVars, MonitorTypeOK, ReaderInv
  <2> QED BY <1>0, <1>9, <2>1, KeptStep DEF monitorVars, printerVars
<1> QED BY <1>1, <1>2, <1>3, <1>4, <1>5, <1>6, <1>7, <1>8, <1>9 DEF MonitorNext, Read

\* The invariant holds from the call of start() on.
THEOREM MonitorInvariant == MonitorSpec => []FeedInv
<1>1. MonitorInit => FeedInv
  <2> SUFFICES ASSUME MonitorInit PROVE FeedInv
    OBVIOUS
  <2>1. MonitorTypeOK
    <3>1. 0 \in 0..MaxEvents /\ 0 \in 0..MaxErrors /\ <<>> \in Seq(Event)
      BY MonitorAssumption, EmptySeq
    <3>2. emitted \in 0..MaxEvents /\ service = "busy" /\ active \in BOOLEAN /\ timer \in BOOLEAN
      BY DEF MonitorInit
    <3> QED BY <3>1, <3>2 DEF MonitorInit, MonitorTypeOK
  <2>2. ReaderInv
    BY DEF MonitorInit, ReaderInv
  <2>3. Delivery = <<>> /\ Delivered = {} /\ Collected = {} /\ OldestFirst(batch) = <<>>
    <3>1. <<>> \o <<>> = <<>>
      BY EmptySeq, ConcatEmptySeq
    <3> QED BY <3>1, NothingReversed DEF MonitorInit, Delivery, Delivered, Collected, Range
  <2>4. Feed!InOrder(Delivery \o OldestFirst(batch))
    <3>1. <<>> \o <<>> = <<>> /\ DOMAIN <<>> = {}
      BY EmptySeq, ConcatEmptySeq
    <3> QED BY <2>3, <3>1 DEF Feed!InOrder
  <2> QED BY <2>1, <2>2, <2>3, <2>4 DEF MonitorInit, FeedInv
<1> QED BY <1>1, FeedInvStep, PTL DEF MonitorSpec

-----------------------------------------------------------------------------
(* The refinement.                                                         *)

\* How a read that came to its end maps to a step of the feed.
LEMMA ReturnMaps ==
  ASSUME FeedInv, reader # "none", NEW events \in Seq(Event), ReadReturns(events),
         Feed!InOrder(Delivery \o OldestFirst(events)),
         \A e \in Range(events) : e <= emitted,
         UNCHANGED <<serviceVars, active>>
  PROVE  Feed!Step
<1> DEFINE o == OldestFirst(events)
<1>0. MonitorTypeOK /\ ReaderInv /\ emitted \in Nat
  BY MonitorAssumption DEF FeedInv, MonitorTypeOK
<1>1. /\ printed \in Seq(Event) /\ printable \in Seq(Event) /\ o \in Seq(Event)
      /\ Delivery = printed \o printable /\ Delivery' = printed' \o printable'
  BY <1>0, ReverseProperties DEF MonitorTypeOK, OldestFirst, Delivery
<1>2. /\ Delivery' = Delivery \o o /\ Delivered' = Delivered \cup Range(events)
      /\ Range(Delivery') = Delivered'
  BY <1>0, Returned DEF Delivered
<1>3. Feed!InOrder(printed' \o printable')
  BY <1>1, <1>2
<1>4. Feed!Range(printed' \o printable') \subseteq 1..emitted
  <2>1. \A e \in Delivered : e \in activity
    BY DEF FeedInv
  <2>2. \A e \in activity : e \in Event /\ e <= emitted
    BY DEF FeedInv, MonitorTypeOK
  <2>3. \A e \in Range(events) : e \in Event
    BY RangeOfSeq
  <2>4. \A e \in Delivered' : e \in Event /\ e <= emitted
    BY <1>2, <2>1, <2>2, <2>3
  <2>5. Range(printed' \o printable') \subseteq 1..emitted
    BY <1>0, <1>1, <1>2, <2>4 DEF Event
  <2> QED BY <2>5 DEF Range, Feed!Range
<1>5. emitted' = emitted
  BY DEF serviceVars
<1>6. stop \in {"no", "waiting", "polling"}
  BY <1>0 DEF ReaderInv, MonitorTypeOK
<1> HIDE DEF o
<1>7. printable \o o \in Seq(Event)
  BY <1>1, ConcatProperties
<1>8. Feed!IsPrefix(printable, printable \o o)
  <2>1. IsPrefix(printable, printable \o o)
    BY <1>1, PrefixOfConcat
  <2> QED BY <2>1 DEF IsPrefix, Feed!IsPrefix
<1>9. Feed!IsPrefix(printed \o printable, printed \o (printable \o o))
  <2>1. IsPrefix(printed \o printable, printed \o (printable \o o))
    BY <1>1, PrefixOfMore
  <2> QED BY <2>1 DEF IsPrefix, Feed!IsPrefix
<1>10. CASE printed' = printed \o (printable \o o) /\ printable' = <<>> /\ (stop' = stop \/ stop' = "done")
  <2>1. Feed!Flush
    BY <1>3, <1>4, <1>5, <1>6, <1>9, <1>10 DEF Feed!Flush, Feed!Feeds
  <2> QED BY <2>1 DEF Feed!Step
<1>11. CASE printable' = printable \o o /\ printed' = printed /\ stop' = "polling"
  <2>1. Feed!Queue
    BY <1>3, <1>4, <1>5, <1>6, <1>8, <1>11 DEF Feed!Queue, Feed!Feeds
  <2> QED BY <2>1 DEF Feed!Step
<1> QED BY <1>10, <1>11 DEF ReadReturns, o

\* Every step is a step of the feed, or changes nothing of it.
LEMMA FeedStep == FeedInv /\ [MonitorNext]_monitorVars => [Feed!Step]_Feed!vars
<1> SUFFICES ASSUME FeedInv, [MonitorNext]_monitorVars PROVE [Feed!Step]_Feed!vars
  OBVIOUS
<1>0. emitted \in Nat
  BY MonitorAssumption DEF FeedInv, MonitorTypeOK
<1>1. CASE Emit
  <2>1. Feed!Happen
    BY <1>1 DEF Emit, printerVars, Feed!Happen
  <2> QED BY <2>1 DEF Feed!Step
<1>2. CASE Settle
  BY <1>2 DEF Settle, printerVars, Feed!vars
<1>3. CASE ReadPage
  BY <1>3 DEF ReadPage, printerVars, serviceVars, Feed!vars
<1>4. CASE ReadLastPage
  <2>1. /\ batch \o Fresh \in Seq(Event) /\ Range(batch \o Fresh) = Collected \cup FreshEvents
        /\ Feed!InOrder(Delivery \o OldestFirst(batch \o Fresh))
    BY TakenInOrder
  <2>2. \A e \in Range(batch \o Fresh) : e <= emitted
    <3>1. \A e \in Collected : e \in activity
      BY DEF FeedInv
    <3>2. \A e \in activity : e <= emitted
      BY DEF FeedInv
    <3> QED BY <2>1, <3>1, <3>2, FreshIsNewer
  <2>3. ReadReturns(batch \o Fresh) /\ reader # "none" /\ UNCHANGED <<serviceVars, active>>
    BY <1>4 DEF ReadLastPage
  <2> QED BY <2>1, <2>2, <2>3, ReturnMaps
<1>5. CASE ReadFindsNoStack
  <2>1. ReadReturns(<<>>) /\ reader # "none" /\ UNCHANGED <<serviceVars, active>>
    BY <1>5 DEF ReadFindsNoStack
  <2>2. \A e \in Range(<<>>) : e <= emitted
    BY NothingTaken
  <2> QED BY <2>1, <2>2, NothingTaken, ReturnMaps
<1>6. CASE ReadFails
  <2>1. stop \in {"no", "waiting", "polling"}
    BY <1>6 DEF ReadFails, FeedInv, ReaderInv, MonitorTypeOK
  <2>2. UNCHANGED <<emitted, printable, printed>>
    BY <1>6 DEF ReadFails, serviceVars, printerVars
  <2>3. CASE active
    BY <1>6, <2>2, <2>3 DEF ReadFails, Feed!vars
  <2>4. CASE ~active
    <3>1. Feed!Break
      BY <1>6, <2>1, <2>2, <2>4 DEF ReadFails, Feed!Break
    <3> QED BY <3>1 DEF Feed!Step
  <2> QED BY <2>3, <2>4
<1>7. CASE Tick
  BY <1>7 DEF Tick, serviceVars, printerVars, Feed!vars
<1>8. CASE Stop
  <2>1. stop = "no" /\ stop' \in {"polling", "waiting", "failed"}
    BY <1>8 DEF Stop, FeedInv, MonitorTypeOK
  <2>2. UNCHANGED <<emitted, printable, printed>>
    BY <1>8 DEF Stop, serviceVars, printerVars
  <2>3. CASE stop' = "failed"
    <3>1. Feed!Break
      BY <2>1, <2>2, <2>3 DEF Feed!Break
    <3> QED BY <3>1 DEF Feed!Step
  <2>4. CASE stop' # "failed"
    BY <2>1, <2>2, <2>4 DEF Feed!vars
  <2> QED BY <2>3, <2>4
<1>9. CASE UNCHANGED monitorVars
  BY <1>9 DEF monitorVars, Feed!vars
<1> QED BY <1>1, <1>2, <1>3, <1>4, <1>5, <1>6, <1>7, <1>8, <1>9 DEF MonitorNext, Read

\* What the printers show is a feed: one after another in the order the events
\* happened, nothing twice, nothing after the end, whatever fails and whenever
\* stop() is called.
THEOREM MonitorFeedsInOrder == MonitorSpec => FedInOrder
<1>1. MonitorInit => Feed!Init
  BY MonitorAssumption DEF MonitorInit, Feed!Init
<1>2. MonitorSpec => []FeedInv
  BY MonitorInvariant
<1> QED BY <1>1, <1>2, FeedStep, PTL DEF MonitorSpec, FedInOrder, Feed!Spec

-----------------------------------------------------------------------------
(* The final poll.                                                         *)

\* What the three kinds of reads do to what was collected and delivered.
LEMMA PageEffect ==
  ASSUME FeedInv, ReadPage
  PROVE  /\ FreshEvents = PageEvents /\ next' = Newest - PageSize
         /\ Delivered' = Delivered /\ Collected' = Collected \cup PageEvents
         /\ activity' = activity \cup PageEvents
<1>1. FreshEvents = PageEvents /\ Range(Fresh) = FreshEvents
  BY FreshFacts DEF ReadPage, LastPage
<1>2. batch' = batch \o Fresh /\ Range(batch \o Fresh) = Collected \cup FreshEvents
  BY TakenInOrder DEF ReadPage
<1> QED BY <1>1, <1>2 DEF ReadPage, printerVars, Delivered, Delivery, Collected

LEMMA LastPageEffect ==
  ASSUME FeedInv, ReadLastPage
  PROVE  /\ Delivered' = Delivered \cup (Collected \cup FreshEvents) /\ Collected' = {} /\ next' = 0
         /\ activity' = activity \cup FreshEvents
<1>1. activity' = activity \cup FreshEvents
  BY FreshFacts DEF ReadLastPage
<1>2. MonitorTypeOK /\ ReadReturns(batch \o Fresh)
  BY DEF FeedInv, ReadLastPage
<1> QED BY <1>1, <1>2, TakenInOrder, Returned

LEMMA NoStackEffect ==
  ASSUME FeedInv, ReadFindsNoStack
  PROVE  Delivered' = Delivered /\ Collected' = {} /\ next' = 0 /\ activity' = activity
<1>1. MonitorTypeOK /\ ReadReturns(<<>>) /\ activity' = activity
  BY DEF FeedInv, ReadFindsNoStack
<1> QED BY <1>1, NothingTaken, Returned

\* When the last page of a read is reached, an event that is not above that page is
\* fresh, was handed on before, or is lost: the loop stops early only at an event
\* that is older than the deployment, or known and with no gap below it.
LEMMA LastPageCovers ==
  ASSUME FeedInv, NoGaps, LastPage, NEW g \in Event, FirstEvent <= g, g <= Newest
  PROVE  g \in FreshEvents \cup Delivered \cup Lost
<1> USE MonitorAssumption
<1>1. /\ emitted \in Nat /\ next \in Nat /\ Newest \in Nat /\ Newest <= emitted
      /\ g \in Nat /\ g >= 1
  BY DEF FeedInv, MonitorTypeOK, Newest, Event
<1>2. SUFFICES ASSUME g \notin FreshEvents PROVE g \in Delivered \cup Lost
  OBVIOUS
<1>3. PICK b \in PageEvents : b \notin FreshEvents /\ b >= g
  <2>1. CASE g \in PageEvents
    BY <1>1, <1>2, <2>1
  <2>2. CASE g \notin PageEvents
    <3>1. g <= Newest - PageSize
      BY <1>1, <2>2 DEF PageEvents
    <3>2. FreshEvents # PageEvents
      BY <1>1, <3>1, FreshFacts DEF LastPage
    <3>3. PICK b \in PageEvents : b \notin FreshEvents
      BY <3>2 DEF FreshEvents
    <3>4. b >= g
      BY <1>1, <3>1, <3>3 DEF PageEvents, Event
    <3> QED BY <3>3, <3>4
  <2> QED BY <2>1, <2>2
<1>4. PICK h \in PageEvents : h >= b /\ (h < FirstEvent \/ h \in activity)
  <2>1. \A f \in PageEvents : f \in Int
    BY DEF PageEvents, Event
  <2> QED BY <1>3, <2>1 DEF FreshEvents
<1>5. h \in Event /\ h \in Int /\ h >= g /\ h <= Newest /\ h \in activity
  BY <1>1, <1>3, <1>4 DEF PageEvents, Event
<1>6. h \notin Collected
  BY <1>1, <1>5 DEF FeedInv, Newest, Collected, Range
<1>7. CASE h \in Delivered
  BY <1>5, <1>7 DEF NoGaps
<1>8. CASE h \notin Delivered
  BY <1>5, <1>6, <1>8 DEF MarkedOnly, Lost
<1> QED BY <1>7, <1>8

\* What is lost stays lost.
LEMMA MarkedStays ==
  ASSUME FeedInv, [MonitorNext]_monitorVars
  PROVE  MarkedOnly \subseteq MarkedOnly'
<1>f. FreshEvents \cap activity = {}
  BY FreshIsNewer
<1>b. Delivered \cup Collected \subseteq activity
  BY DEF FeedInv
<1>1. CASE Emit \/ Settle \/ UNCHANGED monitorVars
  BY <1>1 DEF Emit, Settle, monitorVars, printerVars, MarkedOnly, Delivered, Delivery, Collected
<1>2. CASE ReadPage
  BY <1>2, <1>f, PageEffect DEF MarkedOnly
<1>3. CASE ReadLastPage
  BY <1>3, <1>f, <1>b, LastPageEffect DEF MarkedOnly
<1>4. CASE ReadFindsNoStack
  BY <1>4, NoStackEffect DEF MarkedOnly
<1>5. CASE ReadFails
  BY <1>5 DEF ReadFails, EndRead, printerVars, MarkedOnly, Delivered, Delivery, Collected, Range
<1>6. CASE Tick
  BY <1>6 DEF Tick, BeginRead, printerVars, MarkedOnly, Delivered, Delivery, Collected, Range
<1>7. CASE Stop
  BY <1>7 DEF Stop, BeginRead, FeedInv, ReaderInv, MonitorTypeOK, printerVars, MarkedOnly, Delivered, Delivery, Collected, Range
<1> QED BY <1>1, <1>2, <1>3, <1>4, <1>5, <1>6, <1>7 DEF MonitorNext, Read

\* A step that hands nothing on and starts no page opens no gap.
LEMMA NothingHandedOn ==
  ASSUME FeedInv, NoGaps, MarkedOnly \subseteq MarkedOnly', Delivered' = Delivered,
         next' = 0 \/ UNCHANGED <<next, batch>>
  PROVE  NoGaps'
<1>1. Lost \subseteq Lost'
  BY DEF Lost
<1> QED BY <1>1 DEF NoGaps, Collected

\* RestInv is kept by every step.
LEMMA RestStep == FeedInv /\ RestInv /\ [MonitorNext]_monitorVars => RestInv'
<1> SUFFICES ASSUME FeedInv, RestInv, [MonitorNext]_monitorVars PROVE RestInv'
  OBVIOUS
<1> USE MonitorAssumption
<1>m. MarkedOnly \subseteq MarkedOnly'
  BY MarkedStays
<1>r. NoGaps /\ FinalPollShowsRest
  BY DEF RestInv
<1>t. /\ emitted \in Nat /\ next \in Nat /\ Newest \in Nat /\ Newest <= emitted
      /\ \A e \in Event : e \in Int /\ e >= 1
      /\ stop \in {"no", "waiting", "polling", "done", "failed"}
      /\ errors \in Nat /\ FirstEvent \in Nat
  BY DEF FeedInv, MonitorTypeOK, Newest, Event
<1>1. CASE Emit
  <2>1. service = "busy" /\ ~stableAtStop /\ ~stableAtStop' /\ service' = "busy"
    BY <1>1 DEF Emit, RestInv
  <2>2. NoGaps'
    BY <1>1, <1>m, <1>r, NothingHandedOn DEF Emit, printerVars, Delivered, Delivery
  <2>3. MarkedOnly' = MarkedOnly /\ errors' = errors
    BY <1>1 DEF Emit, printerVars, MarkedOnly, Delivered, Delivery, Collected
  <2> QED BY <2>1, <2>2, <2>3 DEF RestInv, FinalPollShowsRest
<1>2. CASE Settle
  <2>1. service = "busy" /\ ~stableAtStop /\ ~stableAtStop'
    BY <1>2 DEF Settle, RestInv
  <2>2. NoGaps'
    BY <1>2, <1>m, <1>r, NothingHandedOn DEF Settle, printerVars, Delivered, Delivery
  <2>3. MarkedOnly' = MarkedOnly /\ errors' = errors
    BY <1>2 DEF Settle, printerVars, MarkedOnly, Delivered, Delivery, Collected
  <2> QED BY <2>1, <2>2, <2>3 DEF RestInv, FinalPollShowsRest
<1>3. CASE ReadPage
  <2>1. /\ UNCHANGED <<emitted, service, Delivered, errors, stableAtStop, stop>>
        /\ stop # "done" /\ next' = Newest - PageSize
        /\ Collected' = Collected \cup PageEvents /\ activity' = activity \cup PageEvents
    <3>1. stop # "done"
      BY <1>3 DEF ReadPage, FeedInv, ReaderInv, MonitorTypeOK
    <3> QED BY <1>3, <3>1, PageEffect DEF ReadPage, serviceVars
  <2>2. MarkedOnly' = MarkedOnly
    BY <1>m, <2>1 DEF MarkedOnly
  <2>3. Lost' = Lost
    BY <2>1, <2>2 DEF Lost
  <2>4. ASSUME NEW f \in Collected', NEW e \in Event, next' < e, e <= f PROVE e \in Collected'
    <3>1. CASE e <= Newest
      BY <1>t, <2>1, <2>4, <3>1 DEF PageEvents
    <3>2. CASE ~(e <= Newest)
      <4>1. f \in Event /\ f > Newest
        BY <1>t, <2>1, <2>4, <3>2 DEF PageEvents, FeedInv, MonitorTypeOK
      <4>2. f \in Collected
        BY <1>t, <2>1, <4>1 DEF PageEvents
      <4>3. next # 0 /\ Newest = next
        BY <4>2 DEF FeedInv, Newest, Collected, Range
      <4> QED BY <1>r, <1>t, <2>1, <2>4, <3>2, <4>2, <4>3 DEF NoGaps
    <3> QED BY <3>1, <3>2
  <2>5. NoGaps'
    BY <1>r, <2>1, <2>3, <2>4 DEF NoGaps
  <2>6. ASSUME stop = "polling", stableAtStop, NEW e \in Event, next' < e, e <= emitted
        PROVE  e \in Collected'
    <3>1. CASE e <= Newest
      BY <1>t, <2>1, <2>6, <3>1 DEF PageEvents
    <3>2. CASE ~(e <= Newest)
      <4>1. next # 0 /\ next < e
        BY <1>t, <2>6, <3>2 DEF Newest
      <4> QED BY <2>1, <2>6, <4>1 DEF RestInv
    <3> QED BY <3>1, <3>2
  <2> QED BY <2>1, <2>2, <2>5, <2>6 DEF RestInv, FinalPollShowsRest
<1>4. CASE ReadLastPage
  <2> DEFINE events == Collected \cup FreshEvents
  <2>1. /\ UNCHANGED <<emitted, service, errors, stableAtStop>> /\ service # "gone"
        /\ activity' = activity \cup FreshEvents /\ ReadReturns(batch \o Fresh) /\ LastPage
        /\ reader # "none"
    BY <1>4, LastPageEffect DEF ReadLastPage, serviceVars
  <2>2. Delivered' = Delivered \cup events /\ next' = 0 /\ Collected' = {}
    BY <1>4, LastPageEffect
  <2>3. MarkedOnly' = MarkedOnly
    BY <1>m, <2>1, <2>2 DEF MarkedOnly
  <2>4. \A e \in Lost : e \in Delivered' \/ e \in Lost'
    BY <2>2, <2>3 DEF Lost
  <2>5. ASSUME NEW g \in Event, FirstEvent <= g, g <= Newest PROVE g \in Delivered' \cup Lost'
    BY <1>r, <2>1, <2>2, <2>4, <2>5, LastPageCovers
  <2>6. ASSUME NEW f \in Delivered', NEW e \in Event, FirstEvent <= e, e <= f
        PROVE  e \in Delivered' \cup Lost'
    <3>1. CASE f \in Delivered
      BY <1>r, <2>2, <2>4, <2>6, <3>1 DEF NoGaps
    <3>2. CASE e <= Newest
      BY <2>5, <2>6, <3>2
    <3>3. CASE f \in events /\ ~(e <= Newest)
      <4>1. f \in Event /\ f > Newest
        BY <1>t, <2>6, <3>3 DEF FreshEvents, PageEvents, FeedInv, MonitorTypeOK
      <4>2. f \in Collected
        BY <1>t, <3>3, <4>1 DEF FreshEvents, PageEvents
      <4>3. next # 0 /\ Newest = next
        BY <4>2 DEF FeedInv, Newest, Collected, Range
      <4> QED BY <1>r, <1>t, <2>2, <2>6, <3>3, <4>2, <4>3 DEF NoGaps
    <3> QED BY <2>2, <3>1, <3>2, <3>3
  <2>7. NoGaps'
    BY <2>2, <2>6 DEF NoGaps
  <2>8. ASSUME stop' = "done", stableAtStop
        PROVE  /\ {e \in 1..emitted : e >= FirstEvent} \subseteq Range(printed') \cup Lost'
               /\ errors = 0 => Lost' = {}
    <3>0. MonitorTypeOK /\ ReaderInv
      BY DEF FeedInv
    <3>p. reader # "tick"
      BY <2>1, <2>8, <3>0 DEF ReadReturns, ReaderInv
    <3>1. stop = "polling" /\ reader = "stop" /\ Range(printed') = Delivered'
      <4>1. stop = "polling" /\ reader = "stop" /\ printable' = <<>>
        BY <2>1, <3>0, <3>p DEF ReadReturns, ReaderInv, MonitorTypeOK
      <4>2. printed' \in Seq(Event)
        BY <2>1, <3>0, TakenInOrder, Returned
      <4>3. Delivery' = printed'
        BY <4>1, <4>2, ConcatEmptySeq DEF Delivery
      <4> QED BY <4>1, <4>3 DEF Delivered
    <3>2. ASSUME NEW e \in 1..emitted, e >= FirstEvent PROVE e \in Range(printed') \cup Lost'
      <4>0. e \in Event
        BY <1>t DEF FeedInv, MonitorTypeOK, Event
      <4>1. CASE e <= Newest
        BY <1>t, <2>5, <3>1, <3>2, <4>0, <4>1
      <4>2. CASE ~(e <= Newest)
        <5>1. next # 0 /\ next < e
          BY <1>t, <3>2, <4>2 DEF Newest
        <5>2. e \in Collected
          BY <2>8, <3>1, <4>0, <5>1 DEF RestInv
        <5> QED BY <2>2, <3>1, <5>2
      <4> QED BY <4>1, <4>2
    <3>3. errors = 0 => MarkedOnly = {}
      BY <2>1 DEF RestInv
    <3> QED BY <2>3, <3>2, <3>3 DEF Lost
  <2> QED BY <2>1, <2>2, <2>3, <2>7, <2>8 DEF RestInv, FinalPollShowsRest
<1>5. CASE ReadFindsNoStack
  <2>1. /\ UNCHANGED <<service, Delivered, stableAtStop>> /\ service = "gone" /\ next' = 0
    BY <1>5, NoStackEffect DEF ReadFindsNoStack, serviceVars
  <2>2. NoGaps'
    BY <1>m, <1>r, <2>1, NothingHandedOn
  <2> QED BY <2>1, <2>2 DEF RestInv, FinalPollShowsRest
<1>6. CASE ReadFails
  <2>1. /\ UNCHANGED <<service, Delivered, stableAtStop>> /\ next' = 0
        /\ errors' # 0 /\ stop' # "done"
    BY <1>6, <1>t DEF ReadFails, serviceVars, printerVars, EndRead, FeedInv, ReaderInv, Delivered, Delivery
  <2>2. NoGaps'
    BY <1>m, <1>r, <2>1, NothingHandedOn
  <2> QED BY <2>1, <2>2 DEF RestInv, FinalPollShowsRest
<1>7. CASE Tick
  <2>1. /\ UNCHANGED <<service, Delivered, stableAtStop, errors, activity, stop>> /\ next' = 0
        /\ batch' = batch /\ stop # "done"
    BY <1>7 DEF Tick, serviceVars, printerVars, BeginRead, FeedInv, ReaderInv, Delivered, Delivery
  <2>2. NoGaps'
    BY <1>m, <1>r, <2>1, NothingHandedOn
  <2>3. MarkedOnly' = MarkedOnly
    BY <2>1 DEF MarkedOnly, Collected
  <2> QED BY <2>1, <2>2, <2>3 DEF RestInv, FinalPollShowsRest
<1>8. CASE Stop
  <2>1. /\ UNCHANGED <<service, Delivered, errors, activity, batch>>
        /\ next' = 0 \/ (next' = next /\ stop' # "polling")
        /\ stop' # "done" /\ stableAtStop' = (service = "stable")
    <3>1. UNCHANGED <<service, Delivered, errors, activity>> /\ stableAtStop' = (service = "stable")
      BY <1>8 DEF Stop, serviceVars, printerVars, Delivered, Delivery
    <3>2. MonitorTypeOK /\ ReaderInv /\ stop = "no"
      BY <1>8 DEF Stop, FeedInv
    <3>3. CASE readPromise = "none"
      <4>1. batch = <<>>
        BY <3>2, <3>3 DEF ReaderInv, MonitorTypeOK
      <4>2. next' = 0 /\ batch' = <<>> /\ stop' = "polling"
        BY <1>8, <3>3 DEF Stop, BeginRead
      <4> QED BY <3>1, <4>1, <4>2
    <3>4. CASE readPromise # "none"
      <4>1. next' = next /\ batch' = batch /\ stop' \in {"waiting", "failed"}
        BY <1>8, <3>2, <3>4 DEF Stop, MonitorTypeOK
      <4> QED BY <3>1, <4>1
    <3> QED BY <3>3, <3>4
  <2>2. NoGaps'
    BY <1>m, <1>r, <2>1, NothingHandedOn
  <2>3. MarkedOnly' = MarkedOnly
    BY <2>1 DEF MarkedOnly, Collected
  <2> QED BY <2>1, <2>2, <2>3 DEF RestInv, FinalPollShowsRest
<1>9. CASE UNCHANGED monitorVars
  BY <1>9 DEF monitorVars, RestInv, FinalPollShowsRest, NoGaps, Lost, MarkedOnly, printerVars,
           serviceVars, Delivered, Delivery, Collected
<1> QED BY <1>1, <1>2, <1>3, <1>4, <1>5, <1>6, <1>7, <1>8, <1>9 DEF MonitorNext, Read

\* For any number of events, page size, start and failures: once stop() has returned
\* on a stack that was stable when it was called, every event of the deployment has
\* been shown, except those lost to a read that failed after its first page.
THEOREM FinalPollShows == MonitorSpec => []FinalPollShowsRest
<1>1. MonitorInit => RestInv
  <2> SUFFICES ASSUME MonitorInit PROVE RestInv
    OBVIOUS
  <2>1. <<>> \o <<>> = <<>>
    BY EmptySeq, ConcatEmptySeq
  <2>2. Delivered = {}
    BY <2>1 DEF MonitorInit, Delivered, Delivery, Range
  <2> QED BY <2>2, MonitorAssumption DEF MonitorInit, RestInv, FinalPollShowsRest, NoGaps, MarkedOnly
<1>2. RestInv => FinalPollShowsRest
  BY DEF RestInv
<1> QED BY <1>1, <1>2, RestStep, MonitorInvariant, PTL DEF MonitorSpec

=============================================================================
