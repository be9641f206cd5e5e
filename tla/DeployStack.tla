---------------------------- MODULE DeployStack ----------------------------
(***************************************************************************)
(* deployStack() and destroyStack() of aws-cdk/lib/api/deploy-stack.ts,    *)
(* with the polling loops of aws-cdk/lib/api/util/cloudformation.ts, run   *)
(* by any number of CLI invocations against the same stack of the          *)
(* CloudFormation service.                                                 *)
(*                                                                         *)
(* Every await on the service is a step of its own: between two of them    *)
(* the service and the other invocations go on, while the invocation keeps *)
(* deciding on the snapshot of the stack it took first (seen).  Publishing *)
(* assets, which does not touch the stack, has no step.                    *)
(***************************************************************************)
EXTENDS CloudFormation

CONSTANTS CLI,          \* invocations of the CLI; a finished one may start again
          Requests,     \* what each of them may be asked to do
          DefaultName,  \* the change set name 'cdk-deploy-change-set'
          Unnamed       \* the option changeSetName left out

\* An execute of "undefined" is an option left out.
Request ==
  [op : {"deploy", "destroy"}, template : Templates, inputs : Inputs, tp : BOOLEAN,
   force : BOOLEAN, execute : {"yes", "no", "undefined"},
   changeSetName : ChangeSetNames \cup {Unnamed}]

ASSUME CliAssumption == CLI \subseteq Owners
ASSUME NameAssumption == DefaultName \in ChangeSetNames
ASSUME RequestAssumption == Requests \in [CLI -> (SUBSET Request) \ {{}}]

VARIABLES
  pc,         \* the await an invocation is at
  request,    \* what it was asked to do
  seen,       \* the stack as its first lookup saw it (cloudFormationStack)
  noChanges,  \* the change set it created turned out to be empty
  result,     \* how it ended
  completed,  \* history: configurations put in place while it waited for its own
  asked       \* history: those asked for by itself and by whoever overlapped with it

cliVars == <<pc, request, seen, noChanges, result, completed, asked>>
vars == <<stack, changeSets, pc, request, seen, noChanges, result, completed, asked>>

Await ==
  {"idle", "lookup", "deleteFailedStack", "waitFailedStackDelete", "checkSkip",
   "removeChangeSet", "createChangeSet", "waitChangeSet", "protect", "removeEmpty",
   "execute", "waitDeploy", "destroy", "waitDestroy"}

\* "refused" is an error the service answered with because the call was not legal.
Result == {"none", "noOp", "deployed", "created", "destroyed", "error", "refused"}

TypeOK ==
  /\ CfnTypeOK
  /\ pc \in [CLI -> Await]
  /\ request \in [CLI -> Request]
  /\ seen \in [CLI -> Stack]
  /\ noChanges \in [CLI -> BOOLEAN]
  /\ result \in [CLI -> Result]
  /\ completed \in [CLI -> SUBSET Config]
  /\ asked \in [CLI -> SUBSET Config]

Init ==
  /\ CfnInit
  /\ pc = [c \in CLI |-> "idle"]
  /\ request = [c \in CLI |-> CHOOSE r \in Requests[c] : TRUE]
  /\ seen = [c \in CLI |-> NoStack]
  /\ noChanges = [c \in CLI |-> FALSE]
  /\ result = [c \in CLI |-> "none"]
  /\ completed = [c \in CLI |-> {}]
  /\ asked = [c \in CLI |-> {}]

RequestedConfig(c) ==
  [template |-> request[c].template, inputs |-> request[c].inputs]

ChangeSetName(c) ==
  IF request[c].changeSetName = Unnamed THEN DefaultName ELSE request[c].changeSetName

Exists(s) == s.status # NotFound

-----------------------------------------------------------------------------
(* How an invocation moves on: to its next await, or out of the function.  *)

Goto(c, p) ==
  /\ pc' = [pc EXCEPT ![c] = p]
  /\ UNCHANGED result

End(c, r) ==
  /\ pc' = [pc EXCEPT ![c] = "idle"]
  /\ result' = [result EXCEPT ![c] = r]

\* The configuration an invocation under way wants in place.
AskedBy(c) ==
  IF pc[c] # "idle" /\ request[c].op = "deploy" THEN {RequestedConfig(c)} ELSE {}

\* The history notes the overlap on both sides.
Start(c) ==
  /\ pc[c] = "idle"
  /\ \E r \in Requests[c] : request' = [request EXCEPT ![c] = r]
  /\ pc' = [pc EXCEPT ![c] = "lookup"]
  /\ asked' = [d \in CLI |->
       CASE d = c -> UNION {AskedBy(e)' : e \in CLI}
         [] d # c /\ pc[d] # "idle" -> asked[d] \cup AskedBy(c)'
         [] d # c /\ pc[d] = "idle" -> asked[d]]
  /\ result' = [result EXCEPT ![c] = "none"]
  /\ seen' = [seen EXCEPT ![c] = NoStack]
  /\ noChanges' = [noChanges EXCEPT ![c] = FALSE]
  /\ completed' = [completed EXCEPT ![c] = {}]
  /\ UNCHANGED cfnVars

\* A call to the service fails for a reason of its own (throttling, expired
\* credentials), publishing an asset or stopping the monitor does, or the
\* process is killed: the invocation ends there and undoes nothing.
Interrupted(c) ==
  /\ pc[c] # "idle"
  /\ End(c, "error")
  /\ UNCHANGED <<stack, changeSets, request, seen, noChanges, completed, asked>>

-----------------------------------------------------------------------------
(* deployStack                                                             *)

Lookup(c) ==
  /\ pc[c] = "lookup" /\ request[c].op = "deploy"
  /\ seen' = [seen EXCEPT ![c] = stack]
  /\ Goto(c, IF stack.status \in CreationFailureStatus
             THEN "deleteFailedStack" ELSE "checkSkip")
  /\ UNCHANGED <<stack, changeSets, request, noChanges, completed, asked>>

DeleteFailedStack(c) ==
  /\ pc[c] = "deleteFailedStack"
  /\ IF AcceptsDelete
     THEN DeleteStackCall /\ Goto(c, "waitFailedStackDelete")
     ELSE UNCHANGED cfnVars /\ End(c, "refused")
  /\ UNCHANGED <<request, seen, noChanges, completed, asked>>

\* Mutant: waitForStackDelete asks isDeleted before isFailure.
GoneOrFailed(s) == s.status = NotFound \/ s.status \in DeletedStatus

\* waitForStackDelete: a failed deletion (DELETE_FAILED) is no deletion.
Gone(s) == s.status = NotFound \/ (s.status \notin FailureStatus /\ s.status \in DeletedStatus)

\* It throws on a failure, and the caller on anything else that is still there;
\* on success the snapshot becomes that of a missing stack.
WaitFailedStackDelete(c) ==
  /\ pc[c] = "waitFailedStackDelete"
  /\ stack.status \notin InProgressStatus
  /\ IF Gone(stack)
     THEN Goto(c, "checkSkip") /\ seen' = [seen EXCEPT ![c] = NoStack]
     ELSE End(c, "error") /\ UNCHANGED seen
  /\ UNCHANGED <<stack, changeSets, request, noChanges, completed, asked>>

\* Mutant: the termination protection is not compared.
CanSkipProtection(c) ==
  /\ ~request[c].force
  /\ request[c].execute # "no"
  /\ Exists(seen[c])
  /\ stack.config.template = request[c].template
  /\ seen[c].config.inputs = request[c].inputs
  /\ seen[c].status \notin FailureStatus

\* canSkipDeploy: inputs, protection and status come from the snapshot, the
\* template from a call made now.
CanSkip(c) ==
  /\ ~request[c].force
  /\ request[c].execute # "no"
  /\ Exists(seen[c])
  /\ stack.config.template = request[c].template
  /\ seen[c].config.inputs = request[c].inputs
  /\ seen[c].tp = request[c].tp
  /\ seen[c].status \notin FailureStatus

ReadsTemplate(c) ==
  ~request[c].force /\ request[c].execute # "no" /\ Exists(seen[c])

CheckSkip(c) ==
  /\ pc[c] = "checkSkip"
  /\ \/ ReadsTemplate(c) /\ ~Exists(stack) /\ End(c, "error")
     \/ (ReadsTemplate(c) => Exists(stack)) /\ CanSkip(c) /\ End(c, "noOp")
     \/ /\ (ReadsTemplate(c) => Exists(stack)) /\ ~CanSkip(c)
        /\ Goto(c, IF Exists(seen[c]) THEN "removeChangeSet" ELSE "createChangeSet")
  /\ UNCHANGED <<stack, changeSets, request, seen, noChanges, completed, asked>>

\* Mutant: a change set that is there already is made use of.
RemoveChangeSetReuses(c) ==
  /\ pc[c] = "removeChangeSet"
  /\ Goto(c, IF changeSets[ChangeSetName(c)].status = "NONE"
             THEN "createChangeSet" ELSE "waitChangeSet")
  /\ UNCHANGED <<stack, changeSets, request, seen, noChanges, completed, asked>>

RemoveChangeSet(c) ==
  /\ pc[c] = "removeChangeSet"
  /\ IF Exists(stack)
     THEN DeleteChangeSetCall(ChangeSetName(c)) /\ Goto(c, "createChangeSet")
     ELSE UNCHANGED cfnVars /\ End(c, "refused")
  /\ UNCHANGED <<request, seen, noChanges, completed, asked>>

\* Mutant: a stack under review is updated like any other.
IsUpdateOfReview(c) == Exists(seen[c])

IsUpdate(c) == Exists(seen[c]) /\ seen[c].status # "REVIEW_IN_PROGRESS"

CreateChangeSet(c) ==
  /\ pc[c] = "createChangeSet"
  /\ IF AcceptsCreate(ChangeSetName(c), IsUpdate(c))
     THEN /\ CreateChangeSetCall(ChangeSetName(c), RequestedConfig(c), c)
          /\ Goto(c, "waitChangeSet")
     ELSE UNCHANGED cfnVars /\ End(c, "refused")
  /\ UNCHANGED <<request, seen, noChanges, completed, asked>>

\* Mutant: the change set is taken as it is, also while it is being computed.
WaitChangeSetOnce(c) ==
  LET cs == changeSets[ChangeSetName(c)] IN
  /\ pc[c] = "waitChangeSet"
  /\ IF cs.status \in {"CREATE_IN_PROGRESS", "CREATE_COMPLETE", "EMPTY"}
     THEN /\ Goto(c, "protect")
          /\ noChanges' = [noChanges EXCEPT ![c] = (cs.status = "EMPTY")]
     ELSE End(c, "error") /\ UNCHANGED noChanges
  /\ UNCHANGED <<stack, changeSets, request, seen, completed, asked>>

\* waitForChangeSet asks for the change set by its name.
WaitChangeSet(c) ==
  LET cs == changeSets[ChangeSetName(c)] IN
  /\ pc[c] = "waitChangeSet"
  /\ cs.status # "CREATE_IN_PROGRESS"
  /\ IF cs.status \in {"CREATE_COMPLETE", "EMPTY"}
     THEN /\ Goto(c, "protect")
          /\ noChanges' = [noChanges EXCEPT ![c] = (cs.status = "EMPTY")]
     ELSE End(c, "error") /\ UNCHANGED noChanges
  /\ UNCHANGED <<stack, changeSets, request, seen, completed, asked>>

\* Once the termination protection is what was asked for: an empty change set
\* ends the deployment, a change set for review too.
AfterProtect(c) ==
  CASE noChanges[c] /\ request[c].execute = "yes" -> Goto(c, "removeEmpty")
    [] noChanges[c] /\ request[c].execute # "yes" -> End(c, "noOp")
    [] ~noChanges[c] /\ request[c].execute # "no" -> Goto(c, "execute")
    [] ~noChanges[c] /\ request[c].execute = "no" -> End(c, "created")

Protect(c) ==
  /\ pc[c] = "protect"
  /\ \/ /\ seen[c].tp = request[c].tp
        /\ AfterProtect(c)
        /\ UNCHANGED stack
     \/ /\ seen[c].tp # request[c].tp /\ Exists(stack)
        /\ stack' = [stack EXCEPT !.tp = request[c].tp]
        /\ AfterProtect(c)
     \/ /\ seen[c].tp # request[c].tp /\ ~Exists(stack)
        /\ End(c, "refused")
        /\ UNCHANGED stack
  /\ UNCHANGED <<changeSets, request, seen, noChanges, completed, asked>>

RemoveEmpty(c) ==
  /\ pc[c] = "removeEmpty"
  /\ IF Exists(stack)
     THEN DeleteChangeSetCall(ChangeSetName(c)) /\ End(c, "noOp")
     ELSE UNCHANGED cfnVars /\ End(c, "refused")
  /\ UNCHANGED <<request, seen, noChanges, completed, asked>>

Execute(c) ==
  /\ pc[c] = "execute"
  /\ IF AcceptsExecute(ChangeSetName(c))
     THEN /\ ExecuteChangeSetCall(ChangeSetName(c))
          /\ Goto(c, "waitDeploy")
          /\ completed' = [completed EXCEPT ![c] = {}]
     ELSE UNCHANGED cfnVars /\ End(c, "refused") /\ UNCHANGED completed
  /\ UNCHANGED <<request, seen, noChanges, asked>>

\* Mutant: everything that is not a failure is a success, a rollback too.
WaitDeployAcceptsRollback(c) ==
  /\ pc[c] = "waitDeploy"
  /\ stack.status \notin InProgressStatus
  /\ End(c, IF stack.status \notin FailureStatus THEN "deployed" ELSE "error")
  /\ UNCHANGED <<stack, changeSets, request, seen, noChanges, completed, asked>>

\* Mutant: a status that is neither success nor failure is waited out.
WaitDeployForVerdict(c) ==
  /\ pc[c] = "waitDeploy"
  /\ stack.status \in DeploySuccessStatus \cup FailureStatus \cup CreationFailureStatus
  /\ End(c, IF stack.status \in DeploySuccessStatus THEN "deployed" ELSE "error")
  /\ UNCHANGED <<stack, changeSets, request, seen, noChanges, completed, asked>>

\* waitForStackDeploy
WaitDeploy(c) ==
  /\ pc[c] = "waitDeploy"
  /\ stack.status \notin InProgressStatus
  /\ End(c, IF stack.status \in DeploySuccessStatus THEN "deployed" ELSE "error")
  /\ UNCHANGED <<stack, changeSets, request, seen, noChanges, completed, asked>>

-----------------------------------------------------------------------------
(* destroyStack                                                            *)

DestroyLookup(c) ==
  /\ pc[c] = "lookup" /\ request[c].op = "destroy"
  /\ seen' = [seen EXCEPT ![c] = stack]
  /\ IF Exists(stack) THEN Goto(c, "destroy") ELSE End(c, "destroyed")
  /\ UNCHANGED <<stack, changeSets, request, noChanges, completed, asked>>

Destroy(c) ==
  /\ pc[c] = "destroy"
  /\ IF AcceptsDelete
     THEN DeleteStackCall /\ Goto(c, "waitDestroy")
     ELSE UNCHANGED cfnVars /\ End(c, "refused")
  /\ UNCHANGED <<request, seen, noChanges, completed, asked>>

WaitDestroy(c) ==
  /\ pc[c] = "waitDestroy"
  /\ stack.status \notin InProgressStatus
  /\ End(c, IF Gone(stack) THEN "destroyed" ELSE "error")
  /\ UNCHANGED <<stack, changeSets, request, seen, noChanges, completed, asked>>

-----------------------------------------------------------------------------
CliStep(c) ==
  \/ Lookup(c) \/ DeleteFailedStack(c) \/ WaitFailedStackDelete(c) \/ CheckSkip(c)
  \/ RemoveChangeSet(c) \/ CreateChangeSet(c) \/ WaitChangeSet(c) \/ Protect(c)
  \/ RemoveEmpty(c) \/ Execute(c) \/ WaitDeploy(c)
  \/ DestroyLookup(c) \/ Destroy(c) \/ WaitDestroy(c)

Compute(name) == ComputeChangeSet(name) /\ UNCHANGED cliVars

\* The history notes every configuration an operation finished putting in place.
Progress ==
  /\ ProgressStack
  /\ completed' = [c \in CLI |->
       IF pc[c] = "waitDeploy" /\ stack'.status \in DeploySuccessStatus
       THEN completed[c] \cup {stack'.config} ELSE completed[c]]
  /\ UNCHANGED <<pc, request, seen, noChanges, result, asked>>

ServiceStep == Progress \/ \E n \in ChangeSetNames : Compute(n)

Next ==
  \/ \E c \in CLI : Start(c) \/ CliStep(c) \/ Interrupted(c)
  \/ ServiceStep

Spec == Init /\ [][Next]_vars

\* An invocation that is running takes its next step: every await is answered
\* or fails.  The service finishes what it began.  Nobody has to start anything.
Fairness ==
  /\ \A c \in CLI : WF_vars(CliStep(c))
  /\ WF_vars(Progress)
  /\ \A n \in ChangeSetNames : WF_vars(Compute(n))

FairSpec == Spec /\ Fairness

-----------------------------------------------------------------------------
(* Properties.                                                             *)

\* One invocation at a time.  The properties down to DestroyedIsGone are what
\* deployStack and destroyStack promise to somebody who has the stack to
\* themselves, whatever crashed before.
Alone == \A c, d \in CLI : c = d

\* A deployment reported as done has its template, tags and parameters in place,
\* on a stack in a successful status, under the protection asked for: the stale
\* snapshot, a leftover change set of the same name or a crashed predecessor do
\* not show (deployStack, lines 285-310).
DeployedIsInPlace ==
  \A c \in CLI : result[c] = "deployed" =>
    /\ stack.status \in DeploySuccessStatus
    /\ stack.config = RequestedConfig(c)
    /\ stack.tp = request[c].tp

\* A deployment reported as a no-op changed nothing because there was nothing to
\* change: the stack has what was asked for.  Only a skip decided while another
\* operation was under way (canSkipDeploy does not look) says nothing.
NoOpIsUpToDate ==
  \A c \in CLI :
    result[c] = "noOp" /\ (noChanges[c] \/ seen[c].status \notin InProgressStatus) =>
      /\ stack.config = RequestedConfig(c)
      /\ stack.tp = request[c].tp

\* CloudFormation never finds a call of the CLI illegal (a change set name taken,
\* CREATE for UPDATE, a change set gone), except on a stack that was busy, in a
\* failed status or protected from deletion when the invocation began.
CallsAreLegal ==
  \A c \in CLI : result[c] = "refused" =>
    \/ seen[c].status \in (InProgressStatus \ {"REVIEW_IN_PROGRESS"}) \cup FailureStatus
    \/ seen[c].tp

\* A change set announced as "waiting in review for manual execution" can be
\* executed and is the one asked for (lines 306-308).
ReviewedChangeSetIsReady ==
  \A c \in CLI : result[c] = "created" =>
    changeSets[ChangeSetName(c)] =
      [status |-> "CREATE_COMPLETE", config |-> RequestedConfig(c), by |-> c]

\* A stack reported as destroyed is gone (destroyStack, lines 387-398).
DestroyedIsGone == \A c \in CLI : result[c] = "destroyed" => ~Exists(stack)

\* What an invocation says without having deployed is true as well, and every
\* state is well typed.
ReportsAreTrue == TypeOK /\ NoOpIsUpToDate /\ ReviewedChangeSetIsReady /\ DestroyedIsGone

\* However many invocations interfere: a deployment is reported as done only
\* after an operation on the stack finished successfully since it executed its
\* change set (waitForStackDeploy polls a status that was in progress).
DeployAwaitsCompletion ==
  \A c \in CLI : result[c] = "deployed" => completed[c] # {}

\* However many invocations share the stack and the change set names, the default
\* one included (line 237): what was put in place for a deployment reported as done
\* was asked for by an invocation that overlapped with it, and so by itself if there
\* was no other.  It is never a leftover of one that had ended, which the change
\* set executed by name (line 288) might well be.
DeployedWasAskedFor ==
  \A c \in CLI : result[c] = "deployed" => completed[c] \subseteq asked[c]

\* Why the two properties about "deployed" hold, as invariants of every step:
\* what an invocation may rely on while it is at an await.
Reported(c) == result[c] # "none" => pc[c] = "idle"

AwaitsOperation(c) ==
  pc[c] = "waitDeploy" /\ completed[c] = {} => stack.status \notin DeploySuccessStatus

StackInv ==
  /\ stack.status = NotFound => stack = NoStack
  /\ stack.status = "DELETE_IN_PROGRESS" => ~stack.tp

BeforeProtect ==
  {"deleteFailedStack", "waitFailedStackDelete", "checkSkip", "removeChangeSet",
   "createChangeSet", "waitChangeSet", "protect"}

SnapshotHolds(c) == pc[c] \in BeforeProtect => seen[c].tp = stack.tp

ChangeSetIsMine(c) ==
  pc[c] \in {"waitChangeSet", "protect", "execute"} =>
    /\ stack.status \in UpdatableStatus \cup {"REVIEW_IN_PROGRESS"}
    /\ changeSets[ChangeSetName(c)].status # "NONE" =>
         changeSets[ChangeSetName(c)].config = RequestedConfig(c)

PutsInPlace(c) ==
  /\ pc[c] \in {"execute", "waitDeploy"} => stack.tp = request[c].tp
  /\ pc[c] = "waitDeploy" =>
       /\ stack.status \notin {NotFound, "DELETE_IN_PROGRESS"}
       /\ stack.status \in DeploySuccessStatus \cup {"CREATE_IN_PROGRESS",
            "UPDATE_IN_PROGRESS", "UPDATE_COMPLETE_CLEANUP_IN_PROGRESS"} =>
              stack.config = RequestedConfig(c)

SharedInv == \A c \in CLI : Reported(c) /\ AwaitsOperation(c)

AloneInv ==
  /\ StackInv
  /\ \A c \in CLI :
       Reported(c) /\ SnapshotHolds(c) /\ ChangeSetIsMine(c) /\ PutsInPlace(c)

\* Why what a lone invocation says without having deployed is true, and its calls
\* legal: nothing but a deletion is under way on a stack with change sets, and an
\* empty one asks for what the stack has.
RegisteredInv ==
  \A n \in ChangeSetNames : changeSets[n].status # "NONE" =>
    /\ stack.status \in UpdatableStatus \cup
         {"REVIEW_IN_PROGRESS", "DELETE_IN_PROGRESS", "DELETE_FAILED"}
    /\ changeSets[n].status = "EMPTY" => changeSets[n].config = stack.config

\* No operation was under way when the invocation looked the stack up.
FoundAtRest(c) == seen[c].status \notin InProgressStatus \ {"REVIEW_IN_PROGRESS"}

\* The snapshot is the stack, until the invocation itself does something to it.
SnapshotIsCurrent(c) ==
  /\ pc[c] = "deleteFailedStack" => stack.status \in CreationFailureStatus
  /\ pc[c] \in {"checkSkip", "removeChangeSet", "createChangeSet"} =>
       /\ seen[c].status \notin CreationFailureStatus
       /\ FoundAtRest(c) => stack.status = seen[c].status /\ stack.config = seen[c].config
  /\ pc[c] = "removeChangeSet" => Exists(seen[c])
  /\ pc[c] = "createChangeSet" => changeSets[ChangeSetName(c)].status = "NONE"
  /\ pc[c] = "destroy" => seen[c].tp = stack.tp

\* The change set the invocation waits for, and what it found out about it.
ChangeSetIsKnown(c) ==
  /\ pc[c] \in ({"lookup"} \cup BeforeProtect) \ {"protect"} => ~noChanges[c]
  /\ pc[c] = "waitChangeSet" =>
       changeSets[ChangeSetName(c)].status # "NONE" /\ changeSets[ChangeSetName(c)].by = c
  /\ (pc[c] = "protect" /\ ~noChanges[c]) \/ pc[c] = "execute" =>
       changeSets[ChangeSetName(c)] =
         [status |-> "CREATE_COMPLETE", config |-> RequestedConfig(c), by |-> c]
  /\ (pc[c] = "protect" /\ noChanges[c]) \/ pc[c] = "removeEmpty" =>
       /\ stack.status \in UpdatableStatus \cup {"REVIEW_IN_PROGRESS"}
       /\ stack.config = RequestedConfig(c)
  /\ pc[c] = "removeEmpty" => stack.tp = request[c].tp

\* What was reported stays true: the stack rests.
ReportHolds(c) ==
  /\ result[c] = "noOp" /\ (noChanges[c] \/ seen[c].status \notin InProgressStatus) =>
       /\ stack.status \notin InProgressStatus \ {"REVIEW_IN_PROGRESS"}
       /\ stack.config = RequestedConfig(c)
       /\ stack.tp = request[c].tp
  /\ result[c] = "created" =>
       /\ stack.status \in UpdatableStatus \cup {"REVIEW_IN_PROGRESS"}
       /\ changeSets[ChangeSetName(c)] =
            [status |-> "CREATE_COMPLETE", config |-> RequestedConfig(c), by |-> c]
  /\ result[c] = "destroyed" => ~Exists(stack)
  /\ result[c] = "refused" => ~FoundAtRest(c) \/ seen[c].status \in FailureStatus \/ seen[c].tp

ReportsInv ==
  /\ RegisteredInv
  /\ \A c \in CLI : SnapshotIsCurrent(c) /\ ChangeSetIsKnown(c) /\ ReportHolds(c)

\* Why, however many overlap: nothing is registered under the invocation's name, once
\* it has created its change set, but what somebody has asked for since it began; and
\* no change set at all, nor an operation, once its own has been executed, which
\* removes them all.
WasAsked(c, name) ==
  changeSets[name].status # "NONE" => changeSets[name].config \in asked[c]

OverlapInv ==
  \A c \in CLI :
    /\ completed[c] \subseteq asked[c]
    /\ pc[c] # "idle" => \A d \in CLI : AskedBy(d) \subseteq asked[c]
    /\ pc[c] \notin {"idle", "lookup", "destroy", "waitDestroy"} => request[c].op = "deploy"
    /\ pc[c] \in {"waitChangeSet", "protect", "execute"} => WasAsked(c, ChangeSetName(c))
    /\ pc[c] = "waitDeploy" =>
         /\ \A n \in ChangeSetNames : WasAsked(c, n)
         /\ stack.status \in {"CREATE_IN_PROGRESS", "UPDATE_IN_PROGRESS",
                             "UPDATE_COMPLETE_CLEANUP_IN_PROGRESS"} =>
              stack.config \in asked[c]

\* Every invocation ends, whatever the stack goes through.
InvocationEnds == \A c \in CLI : pc[c] # "idle" ~> pc[c] = "idle"

=============================================================================
