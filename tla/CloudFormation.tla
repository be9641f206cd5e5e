--------------------------- MODULE CloudFormation ---------------------------
(***************************************************************************)
(* The CloudFormation service, as far as the CLI drives it: one stack and  *)
(* the change sets registered on it.  The service is not part of the       *)
(* repository; what is assumed of it is what the CLI's calls, its polling  *)
(* loops and their comments rely on:                                       *)
(*   - a change set is computed after the call that creates it returns,    *)
(*     and is found unusable or empty only then;                           *)
(*   - an executed change set puts the stack in an _IN_PROGRESS status     *)
(*     before the call returns, and the stack leaves it on its own;        *)
(*   - executing a change set removes every change set of the stack, and   *)
(*     so does deleting the stack;                                         *)
(*   - a stack under termination protection refuses to be deleted.         *)
(* A template and the stack's tags and parameter values ("inputs") are     *)
(* members of small sets.                                                  *)
(***************************************************************************)
EXTENDS StackStatus

CONSTANTS Templates,       \* the templates an artifact may hold
          Inputs,          \* the tags and parameter values given to a deployment
          ChangeSetNames,  \* the names change sets are registered under
          Owners,          \* who may create a change set
          NoTemplate, NoInputs, NoOwner

ASSUME NullAssumption ==
  NoTemplate \notin Templates /\ NoInputs \notin Inputs /\ NoOwner \notin Owners

VARIABLES
  stack,       \* the stack as the service holds it
  changeSets   \* the change sets registered on the stack, by name

cfnVars == <<stack, changeSets>>

NoConfig == [template |-> NoTemplate, inputs |-> NoInputs]
Config == [template : Templates \cup {NoTemplate}, inputs : Inputs \cup {NoInputs}]

\* config is what the last operation put (or is putting) in place, previous what
\* a rollback goes back to.
Stack == [status : Status, config : Config, previous : Config, tp : BOOLEAN]
NoStack ==
  [status |-> NotFound, config |-> NoConfig, previous |-> NoConfig, tp |-> FALSE]

\* "EMPTY" is status FAILED with one of the no-change reasons.
ChangeSetStatus == {"NONE", "CREATE_IN_PROGRESS", "CREATE_COMPLETE", "EMPTY", "FAILED"}
ChangeSet ==
  [status : ChangeSetStatus, config : Config, by : Owners \cup {NoOwner}]
NoChangeSet == [status |-> "NONE", config |-> NoConfig, by |-> NoOwner]

CfnTypeOK ==
  /\ stack \in Stack
  /\ changeSets \in [ChangeSetNames -> ChangeSet]

CfnInit ==
  /\ stack = NoStack
  /\ changeSets = [n \in ChangeSetNames |-> NoChangeSet]

UpdatableStatus == DeploySuccessStatus \cup {"UPDATE_ROLLBACK_COMPLETE"}

-----------------------------------------------------------------------------
(* What the API calls accept and do.                                       *)

AcceptsCreate(name, update) ==
  /\ changeSets[name].status = "NONE"
  /\ IF update THEN stack.status \in UpdatableStatus
               ELSE stack.status \in {NotFound, "REVIEW_IN_PROGRESS"}

CreateChangeSetCall(name, config, owner) ==
  /\ changeSets' = [changeSets EXCEPT ![name] =
                      [status |-> "CREATE_IN_PROGRESS", config |-> config, by |-> owner]]
  /\ stack' = IF stack.status = NotFound
              THEN [NoStack EXCEPT !.status = "REVIEW_IN_PROGRESS"]
              ELSE stack

\* Succeeds as long as the stack exists, whether or not the change set does.
DeleteChangeSetCall(name) ==
  /\ changeSets' = [changeSets EXCEPT ![name] = NoChangeSet]
  /\ UNCHANGED stack

AcceptsExecute(name) ==
  /\ changeSets[name].status = "CREATE_COMPLETE"
  /\ stack.status \in UpdatableStatus \cup {"REVIEW_IN_PROGRESS"}

ExecuteChangeSetCall(name) ==
  /\ stack' = [stack EXCEPT
                 !.status = IF stack.status = "REVIEW_IN_PROGRESS"
                            THEN "CREATE_IN_PROGRESS" ELSE "UPDATE_IN_PROGRESS",
                 !.previous = stack.config,
                 !.config = changeSets[name].config]
  /\ changeSets' = [n \in ChangeSetNames |-> NoChangeSet]

AcceptsDelete == ~stack.tp

\* Deleting a stack that is not there succeeds and does nothing.
DeleteStackCall ==
  /\ stack' = IF stack.status = NotFound
              THEN stack ELSE [stack EXCEPT !.status = "DELETE_IN_PROGRESS"]
  /\ UNCHANGED changeSets

-----------------------------------------------------------------------------
(* What the service does on its own.                                       *)

\* A change set is found executable, empty or impossible.  It is empty only if
\* it asks for what the stack already has, and even then nested stacks may make
\* it look like a change.
ComputeChangeSet(name) ==
  /\ changeSets[name].status = "CREATE_IN_PROGRESS"
  /\ \E s \in {"CREATE_COMPLETE", "EMPTY", "FAILED"} :
       /\ s = "EMPTY" => /\ stack.status \in UpdatableStatus
                         /\ changeSets[name].config = stack.config
       /\ changeSets' = [changeSets EXCEPT ![name].status = s]
  /\ UNCHANGED stack

\* The statuses an operation may go to from each status it passes through.
Successors(s) ==
  CASE s = "CREATE_IN_PROGRESS"   -> {"CREATE_COMPLETE", "ROLLBACK_IN_PROGRESS"}
    [] s = "ROLLBACK_IN_PROGRESS" -> {"ROLLBACK_COMPLETE", "ROLLBACK_FAILED"}
    [] s = "UPDATE_IN_PROGRESS"   ->
         {"UPDATE_COMPLETE_CLEANUP_IN_PROGRESS", "UPDATE_ROLLBACK_IN_PROGRESS"}
    [] s = "UPDATE_COMPLETE_CLEANUP_IN_PROGRESS" -> {"UPDATE_COMPLETE"}
    [] s = "UPDATE_ROLLBACK_IN_PROGRESS" ->
         {"UPDATE_ROLLBACK_COMPLETE", "UPDATE_ROLLBACK_FAILED"}
    [] s = "DELETE_IN_PROGRESS"   -> {NotFound, "DELETE_FAILED"}
    [] OTHER -> {}

\* The operation in progress takes its next step.  A rolled back update has the
\* previous configuration; a deleted stack takes its change sets along.
ProgressStack ==
  \E s \in Successors(stack.status) :
    IF s = NotFound
    THEN /\ stack' = NoStack
         /\ changeSets' = [n \in ChangeSetNames |-> NoChangeSet]
    ELSE /\ stack' = [stack EXCEPT
                        !.status = s,
                        !.config = IF s = "UPDATE_ROLLBACK_COMPLETE"
                                   THEN stack.previous ELSE stack.config]
         /\ UNCHANGED changeSets

=============================================================================
