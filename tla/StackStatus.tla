---------------------------- MODULE StackStatus ----------------------------
(***************************************************************************)
(* The classification of CloudFormation stack statuses by the CLI's class  *)
(* StackStatus (aws-cdk/lib/api/util/cloudformation/stack-status.ts).  The *)
(* class works on the text of a status ("ends with FAILED"); here a status *)
(* is a name and every predicate is the set of the names it accepts, which *)
(* is what the string tests come to on the statuses CloudFormation has.    *)
(***************************************************************************)

\* What lookup() reports for a stack that does not exist.
NotFound == "NOT_FOUND"

\* endsWith('_IN_PROGRESS')
InProgressStatus ==
  {"REVIEW_IN_PROGRESS", "CREATE_IN_PROGRESS", "ROLLBACK_IN_PROGRESS",
   "UPDATE_IN_PROGRESS", "UPDATE_COMPLETE_CLEANUP_IN_PROGRESS",
   "UPDATE_ROLLBACK_IN_PROGRESS", "DELETE_IN_PROGRESS"}

\* endsWith('FAILED')
FailureStatus == {"ROLLBACK_FAILED", "UPDATE_ROLLBACK_FAILED", "DELETE_FAILED"}

CreationFailureStatus == {"ROLLBACK_COMPLETE", "ROLLBACK_FAILED"}

DeploySuccessStatus == {"CREATE_COMPLETE", "UPDATE_COMPLETE"}

\* startsWith('DELETE_'); DELETE_COMPLETE is not listed, a lookup by name never
\* returns a stack that is gone.
DeletedStatus == {"DELETE_IN_PROGRESS", "DELETE_FAILED"}

Status ==
  {NotFound, "UPDATE_ROLLBACK_COMPLETE"} \cup InProgressStatus \cup FailureStatus
    \cup CreationFailureStatus \cup DeploySuccessStatus

=============================================================================
