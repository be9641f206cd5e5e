-------------------------- MODULE ProviderFramework --------------------------
(***************************************************************************)
(* The custom resource provider framework                                  *)
(* (@aws-cdk/custom-resources/lib/provider-framework): the onEvent         *)
(* function that CloudFormation calls for a lifecycle event of a custom    *)
(* resource, the waiter state machine it starts for an asynchronous        *)
(* provider, and the isComplete and onTimeout functions the waiter calls.  *)
(*                                                                         *)
(* Everything these call is outside: CloudFormation, the handlers the user *)
(* wrote, Lambda and Step Functions.  A call may fail ("rejected"), or     *)
(* take effect and be reported as failed ("lost"); an answer may also have *)
(* no effect and pass as delivered ("refused").  Requests are numbered;    *)
(* the number is the RequestId and the default physical id.  Attributes    *)
(* ("Data"), reasons and CloudFormation's own time limit are left out.     *)
(***************************************************************************)
EXTENDS Naturals, Sequences

CONSTANTS Ids,           \* the physical ids a user's handler may choose
          NoId,
          Marker,        \* CREATE_FAILED_PHYSICAL_ID_MARKER
          MaxAttempts,   \* totalTimeout / queryInterval
          AsyncRetries,  \* how often Lambda calls onEvent again when it throws
          MaxRequests,   \* bound: requests CloudFormation sends
          MaxFaults,     \* bound: outbound calls that fail
          FaultKinds

ASSUME ConstantsAssumption ==
  /\ MaxAttempts \in Nat /\ AsyncRetries \in Nat /\ MaxRequests \in Nat /\ MaxFaults \in Nat
  /\ FaultKinds \subseteq {"rejected", "lost", "refused"}
  /\ NoId # Marker /\ {NoId, Marker} \cap (Ids \cup Nat) = {}

VARIABLES
  async,      \* whether the provider has an isComplete handler
  requests,   \* what CloudFormation sent, in order
  answers,    \* the responses it got to each request, in order
  pending,    \* whether it waits for a response to the last request
  followUp,   \* the id it still has to delete after a rollback or replacement
  resource,   \* the physical id it has on record
  onEvent,    \* for every request, its onEvent invocation; stranded (history):
              \* it failed after the handler had done its work
  waiter,     \* for every request, its execution of the state machine
  real,       \* the physical resources there are
  abandoned,  \* history: those CloudFormation knowingly gave up
  faults,     \* how many calls failed
  lost,       \* history: whether one of them had taken effect
  refused     \* history: the requests with an answer refused unnoticed

cfn == <<requests, pending, followUp, resource, abandoned>>
mishaps == <<faults, lost, refused>>
vars == <<async, cfn, answers, onEvent, waiter, real, mishaps>>

N == 1..MaxRequests
PhysicalId == Ids \cup N
Request == [type : {"Create", "Update", "Delete"}, id : PhysicalId \cup {NoId, Marker}]
Answer == [status : {"SUCCESS", "FAILED"}, id : PhysicalId \cup {Marker}]

\* id is the PhysicalResourceId of the event merged with the handler's result.
OnEventPc == {"none", "handle", "ignore", "start", "success", "failed", "thrown", "done"}
WaiterPc == {"none", "task", "success", "failed", "onTimeout", "thrown", "done"}

TypeOK ==
  /\ async \in BOOLEAN /\ pending \in BOOLEAN
  /\ requests \in Seq(Request) /\ Len(requests) <= MaxRequests
  /\ answers \in [N -> Seq(Answer)]
  /\ followUp \in PhysicalId \cup {NoId, Marker}
  /\ resource \in PhysicalId \cup {NoId}
  /\ onEvent \in [N -> [pc : OnEventPc, id : PhysicalId \cup {NoId}, retries : 0..AsyncRetries,
                       stranded : BOOLEAN]]
  /\ waiter \in [N -> [pc : WaiterPc, id : PhysicalId \cup {NoId},
                       calls : 0..(MaxAttempts + 1), error : {"none", "Retry", "other"}]]
  /\ real \subseteq PhysicalId /\ abandoned \subseteq PhysicalId \cup {Marker}
  /\ faults \in 0..MaxFaults /\ lost \in BOOLEAN /\ refused \subseteq N

Init ==
  /\ async \in BOOLEAN
  /\ requests = <<>> /\ pending = FALSE /\ followUp = NoId /\ resource = NoId
  /\ answers = [n \in N |-> <<>>]
  /\ onEvent = [n \in N |-> [pc |-> "none", id |-> NoId, retries |-> 0, stranded |-> FALSE]]
  /\ waiter = [n \in N |-> [pc |-> "none", id |-> NoId, calls |-> 0, error |-> "none"]]
  /\ real = {} /\ abandoned = {} /\ faults = 0 /\ lost = FALSE /\ refused = {}

-----------------------------------------------------------------------------
(* Outbound calls.                                                         *)

Fault(kind) ==
  /\ kind \in FaultKinds /\ faults < MaxFaults
  /\ faults' = faults + 1
  /\ lost' = (lost \/ kind = "lost") /\ UNCHANGED refused
NoFault == UNCHANGED mishaps

\* The server responds to the PUT with an error.
Refuse(n) ==
  /\ "refused" \in FaultKinds /\ faults < MaxFaults
  /\ faults' = faults + 1
  /\ refused' = refused \cup {n} /\ UNCHANGED lost

\* submitResponse: PUT the answer; resolved tells whether the promise was, which
\* it is on any response, whatever its status.
Submit(n, status, id, resolved) ==
  \/ /\ IF resolved THEN NoFault ELSE Fault("lost")
     /\ answers' = [answers EXCEPT ![n] = Append(@, [status |-> status, id |-> id])]
  \/ ~resolved /\ Fault("rejected") /\ UNCHANGED answers
  \/ resolved /\ Refuse(n) /\ UNCHANGED answers

-----------------------------------------------------------------------------
(* CloudFormation.  It sends one request at a time and waits for its first *)
(* answer.                                                                 *)

Last == Len(requests)

Send(type, id) ==
  /\ Last < MaxRequests /\ ~pending
  /\ requests' = Append(requests, [type |-> type, id |-> id])
  /\ pending' = TRUE
  /\ onEvent' = [onEvent EXCEPT ![Last + 1] =
       [@ EXCEPT !.pc = IF type = "Delete" /\ id = Marker THEN "ignore" ELSE "handle"]]
  /\ UNCHANGED <<async, answers, resource, waiter, real, abandoned, mishaps>>

SendFirst ==
  /\ followUp = NoId
  /\ \/ resource = NoId /\ Send("Create", NoId)
     \/ resource # NoId /\ \E type \in {"Update", "Delete"} : Send(type, resource)
  /\ UNCHANGED followUp

SendFollowUp == followUp # NoId /\ Send("Delete", followUp) /\ followUp' = NoId

Answered(type) ==
  /\ pending /\ requests[Last].type = type /\ answers[Last] # <<>>
  /\ pending' = FALSE
  /\ UNCHANGED <<async, requests, answers, onEvent, waiter, real, mishaps>>

\* A failed creation is rolled back by deleting whatever id the answer had.
CreateAnswered ==
  /\ Answered("Create")
  /\ LET answer == Head(answers[Last]) IN
       IF answer.status = "SUCCESS"
       THEN resource' = answer.id /\ UNCHANGED followUp
       ELSE followUp' = answer.id /\ UNCHANGED resource
  /\ UNCHANGED abandoned

\* The next event will have the id of this answer.  A successful update with
\* another id is a replacement, after which the old one is deleted.
UpdateAnswered ==
  /\ Answered("Update")
  /\ LET answer == Head(answers[Last])
         old == requests[Last].id IN
       /\ resource' = answer.id
       /\ IF answer.id = old THEN UNCHANGED <<followUp, abandoned>>
          ELSE IF answer.status = "SUCCESS"
               THEN followUp' = old /\ UNCHANGED abandoned
               ELSE abandoned' = abandoned \cup {old} /\ UNCHANGED followUp

\* What it fails to delete it abandons.
DeleteAnswered ==
  /\ Answered("Delete")
  /\ LET id == requests[Last].id IN
       /\ resource' = IF resource = id THEN NoId ELSE resource
       /\ abandoned' = IF Head(answers[Last]).status = "FAILED"
                       THEN abandoned \cup {id} ELSE abandoned
  /\ UNCHANGED followUp

-----------------------------------------------------------------------------
(* The function onEvent, inside safeHandler.                               *)

OnEventAt(n, pc) == onEvent[n].pc = pc /\ UNCHANGED <<async, cfn>>
OnEventGoto(n, pc) == onEvent' = [onEvent EXCEPT ![n].pc = pc]

\* Mutant: a failure reports the default physical id.
FailureIdIsDefault(n) == n

\* What the error path reports: the id of the event, the marker if there is none.
FailureId(n) == IF requests[n].type = "Create" THEN Marker ELSE requests[n].id

\* The user's handler did its work and named id; null stands for the default.
Handled(n, id) ==
  onEvent' = [onEvent EXCEPT ![n].pc = IF async THEN "start" ELSE "success", ![n].id = id]

UserCreates(n) ==
  /\ OnEventAt(n, "handle") /\ requests[n].type = "Create"
  /\ \E id \in (Ids \ real) \cup {n} : real' = real \cup {id} /\ Handled(n, id)
  /\ NoFault /\ UNCHANGED <<answers, waiter>>

UserUpdates(n) ==
  /\ OnEventAt(n, "handle") /\ requests[n].type = "Update"
  /\ \E id \in (Ids \ real) \cup {requests[n].id} : real' = real \cup {id} /\ Handled(n, id)
  /\ NoFault /\ UNCHANGED <<answers, waiter>>

\* A deletion must not name another id.
UserDeletes(n) ==
  /\ OnEventAt(n, "handle") /\ requests[n].type = "Delete"
  /\ real' = real \ {requests[n].id}
  /\ Handled(n, requests[n].id) \/ OnEventGoto(n, "failed")
  /\ NoFault /\ UNCHANGED <<answers, waiter>>

\* It throws, having done nothing, or the call fails.
UserFails(n) ==
  /\ OnEventAt(n, "handle")
  /\ NoFault \/ Fault("rejected")
  /\ OnEventGoto(n, "failed")
  /\ UNCHANGED <<answers, waiter, real>>

\* safeHandler catches what a call after the handler's work throws.
Strand(n) == onEvent' = [onEvent EXCEPT ![n].pc = "failed", ![n].stranded = TRUE]

\* Mutant: an asynchronous provider is answered for at once as well.
StartAndAnswer(n) ==
  /\ OnEventAt(n, "start")
  /\ waiter' = [waiter EXCEPT ![n] = [@ EXCEPT !.pc = "task", !.id = onEvent[n].id]]
  /\ OnEventGoto(n, "success") /\ NoFault
  /\ UNCHANGED <<answers, real>>

\* The execution is named after the request; a name can be used once.
StartExecution(n) ==
  LET start == waiter' = [waiter EXCEPT ![n] = [@ EXCEPT !.pc = "task", !.id = onEvent[n].id]]
      isNew == waiter[n].pc = "none" IN
  /\ OnEventAt(n, "start")
  /\ \/ isNew /\ start /\ OnEventGoto(n, "done") /\ NoFault
     \/ isNew /\ start /\ Strand(n) /\ Fault("lost")
     \/ ~isNew /\ Strand(n) /\ NoFault /\ UNCHANGED waiter
     \/ Strand(n) /\ Fault("rejected") /\ UNCHANGED waiter
  /\ UNCHANGED <<answers, real>>

\* Synchronous provider.
SubmitSuccess(n) ==
  /\ OnEventAt(n, "success")
  /\ \E resolved \in BOOLEAN :
       /\ Submit(n, "SUCCESS", onEvent[n].id, resolved)
       /\ IF resolved THEN OnEventGoto(n, "done") ELSE Strand(n)
  /\ UNCHANGED <<waiter, real>>

SubmitFailed(n) ==
  /\ OnEventAt(n, "failed")
  /\ \E resolved \in BOOLEAN :
       /\ Submit(n, "FAILED", FailureId(n), resolved)
       /\ OnEventGoto(n, IF resolved THEN "done" ELSE "thrown")
  /\ UNCHANGED <<waiter, real>>

\* Mutant: the deletion is ignored without an answer.
IgnoreDeleteSilently(n) ==
  /\ OnEventAt(n, "ignore")
  /\ OnEventGoto(n, "done") /\ NoFault
  /\ UNCHANGED <<answers, waiter, real>>

\* The deletion after a failed creation.
IgnoreDelete(n) ==
  /\ OnEventAt(n, "ignore")
  /\ \E resolved \in BOOLEAN :
       /\ Submit(n, "SUCCESS", Marker, resolved)
       /\ OnEventGoto(n, IF resolved THEN "done" ELSE "thrown")
  /\ UNCHANGED <<waiter, real>>

\* Lambda calls a function that threw again, with the same event.
InvokeAgain(n) ==
  /\ OnEventAt(n, "thrown") /\ onEvent[n].retries < AsyncRetries
  /\ onEvent' = [onEvent EXCEPT ![n] =
       [onEvent[n] EXCEPT !.pc = IF requests[n].id = Marker THEN "ignore" ELSE "handle",
                          !.id = NoId, !.retries = @ + 1]]
  /\ UNCHANGED <<answers, waiter, real, mishaps>>

-----------------------------------------------------------------------------
(* The waiter and the functions it calls.                                  *)

WaiterAt(n, pc) == waiter[n].pc = pc /\ UNCHANGED <<async, cfn, onEvent, real>>
WaiterGoto(n, pc) == waiter' = [waiter EXCEPT ![n].pc = pc]

\* Mutant: one attempt too many.
TaskFailsOnceMore(n, error) ==
  waiter' = [waiter EXCEPT ![n] =
    [waiter[n] EXCEPT !.calls = @ + 1, !.error = error,
                      !.pc = IF waiter[n].calls <= MaxAttempts THEN "task" ELSE "onTimeout"]]

\* The task is tried again after any error, MaxAttempts times; then the last
\* error becomes the Cause given to onTimeout.
TaskFails(n, error) ==
  waiter' = [waiter EXCEPT ![n] =
    [waiter[n] EXCEPT !.calls = @ + 1, !.error = error,
                      !.pc = IF waiter[n].calls < MaxAttempts THEN "task" ELSE "onTimeout"]]

\* The handler says it is complete, not complete, or throws (or answers "not
\* complete" with data, or the call to it fails).
IsComplete(n) ==
  /\ WaiterAt(n, "task")
  /\ \/ WaiterGoto(n, "success") /\ NoFault
     \/ TaskFails(n, "Retry") /\ NoFault
     \/ WaiterGoto(n, "failed") /\ (NoFault \/ Fault("rejected"))
  /\ UNCHANGED answers

\* The function itself cannot be called, or crashes.
TaskCrashes(n) ==
  /\ WaiterAt(n, "task")
  /\ TaskFails(n, "other") /\ Fault("rejected")
  /\ UNCHANGED answers

WaiterSubmitsSuccess(n) ==
  /\ WaiterAt(n, "success")
  /\ \E resolved \in BOOLEAN :
       /\ Submit(n, "SUCCESS", waiter[n].id, resolved)
       /\ WaiterGoto(n, IF resolved THEN "done" ELSE "failed")

WaiterSubmitsFailed(n) ==
  /\ WaiterAt(n, "failed")
  /\ \E resolved \in BOOLEAN :
       /\ Submit(n, "FAILED", waiter[n].id, resolved)
       /\ IF resolved THEN WaiterGoto(n, "done") ELSE TaskFails(n, "other")

\* Mutant: a timeout reports what the error path of onEvent would.
OnTimeoutMarks(n) ==
  /\ WaiterAt(n, "onTimeout")
  /\ \/ /\ waiter[n].error = "Retry"
        /\ \E resolved \in BOOLEAN :
             /\ Submit(n, "FAILED", FailureId(n), resolved)
             /\ WaiterGoto(n, IF resolved THEN "done" ELSE "thrown")
     \/ waiter[n].error = "other" /\ WaiterGoto(n, "thrown") /\ NoFault /\ UNCHANGED answers

\* onTimeout takes the event from the error's message, which is the event only
\* if the error is Retry; otherwise parsing throws.  Nobody calls it again.
OnTimeout(n) ==
  /\ WaiterAt(n, "onTimeout")
  /\ \/ /\ waiter[n].error = "Retry"
        /\ \E resolved \in BOOLEAN :
             /\ Submit(n, "FAILED", waiter[n].id, resolved)
             /\ WaiterGoto(n, IF resolved THEN "done" ELSE "thrown")
     \/ waiter[n].error = "other" /\ WaiterGoto(n, "thrown") /\ NoFault /\ UNCHANGED answers

-----------------------------------------------------------------------------
CloudFormationStep ==
  SendFirst \/ SendFollowUp \/ CreateAnswered \/ UpdateAnswered \/ DeleteAnswered

OnEventStep(n) ==
  \/ UserCreates(n) \/ UserUpdates(n) \/ UserDeletes(n) \/ UserFails(n)
  \/ StartExecution(n) \/ SubmitSuccess(n) \/ SubmitFailed(n) \/ IgnoreDelete(n)
  \/ InvokeAgain(n)

WaiterStep(n) ==
  \/ IsComplete(n) \/ TaskCrashes(n)
  \/ WaiterSubmitsSuccess(n) \/ WaiterSubmitsFailed(n) \/ OnTimeout(n)

Next == CloudFormationStep \/ \E n \in N : OnEventStep(n) \/ WaiterStep(n)

Spec == Init /\ [][Next]_vars

\* Lambda and Step Functions run what was called.
FairSpec == Spec /\ \A n \in N : WF_vars(OnEventStep(n)) /\ WF_vars(WaiterStep(n))

-----------------------------------------------------------------------------
(* Properties.                                                             *)

Idle == ~pending /\ followUp = NoId
NoFaultYet == faults = 0

\* Nothing is orphaned, whatever calls are rejected, unless onEvent fails between
\* the work of the handler and its own (framework.ts, lines 36-56): between
\* requests there is no physical resource but the one on record and those
\* CloudFormation gave up itself.  In particular the Delete that safeHandler
\* ignores (lines 57-64) never was for something that exists, a creation that
\* fails in isComplete or times out reports the id that has to be deleted, and
\* calling onEvent again after an error does not do its work twice.
NothingIsOrphaned ==
  ~lost /\ Idle /\ (\A n \in N : ~onEvent[n].stranded) => real \ abandoned \subseteq {resource}

\* What CloudFormation has on record exists, as long as calls fail cleanly.
RecordedResourceExists ==
  ~pending /\ ~lost => resource = NoId \/ resource \in real

\* Both directions: the resource on record is all there is, and it is there.
ResourcesAreTracked == NothingIsOrphaned /\ RecordedResourceExists

\* What CloudFormation sees of the provider.
Protocol == INSTANCE ResourceProtocol WITH
  sent <- Len(requests), waiting <- pending,
  answered <- {n \in N : answers[n] # <<>>}, doubled <- {n \in N : Len(answers[n]) > 1},
  reliable <- ~lost

\* The provider keeps to the protocol however many calls are rejected: the error
\* path of safeHandler (lines 66-95), the retries and the waiter never both
\* answer, nor does anybody after CloudFormation has gone on.
AnswersOnce == Protocol!Spec

\* At most one party is about to answer n, and only if it is the request that is
\* waited for and has no answer yet.
OneTurn(n) ==
  /\ Len(answers[n]) <= 1
  /\ onEvent[n].pc \notin {"none", "done"} =>
       n = Last /\ pending /\ answers[n] = <<>> /\ waiter[n].pc = "none"
  /\ waiter[n].pc \notin {"none", "thrown", "done"} =>
       n = Last /\ pending /\ answers[n] = <<>> /\ onEvent[n].pc = "done"

TurnInv ==
  /\ pending => Last > 0
  /\ \A n \in N : n > Last => onEvent[n].pc = "none" /\ waiter[n].pc = "none" /\ answers[n] = <<>>
  /\ ~lost => \A n \in N : OneTurn(n)

\* The marker is answered to a failed creation and to its deletion, never for a
\* resource that exists; everybody else has a physical id at hand.
RequestId(n) ==
  /\ requests[n].type = "Create" => requests[n].id = NoId
  /\ requests[n].type = "Update" => requests[n].id \in PhysicalId
  /\ requests[n].type = "Delete" => requests[n].id \in PhysicalId \cup {Marker}

PartyId(n) ==
  /\ onEvent[n].pc = "ignore" => requests[n].id = Marker
  /\ onEvent[n].pc = "handle" => requests[n].id # Marker
  /\ onEvent[n].pc \in {"start", "success"} => onEvent[n].id \in PhysicalId
  /\ waiter[n].pc # "none" => waiter[n].id \in PhysicalId
  /\ waiter[n].pc \notin {"onTimeout", "thrown", "done"} => waiter[n].calls <= MaxAttempts

MarkersAreRight(n) ==
  \A k \in 1..Len(answers[n]) : answers[n][k].id = Marker =>
    \/ requests[n].type = "Delete"
    \/ requests[n].type = "Create" /\ answers[n][k].status = "FAILED"

IdInv ==
  /\ \A n \in 1..Last : RequestId(n)
  /\ \A n \in N : PartyId(n) /\ MarkersAreRight(n)

ProtocolInv == TypeOK /\ IdInv /\ TurnInv

\* Which physical resource a request accounts for: the id in its answer, before
\* that the one onEvent holds once the handler has done its work.
Working(n) ==
  onEvent[n].pc \in {"start", "success"} \/ waiter[n].pc \notin {"none", "thrown", "done"}
Named(n) ==
  IF answers[n] # <<>> THEN {answers[n][1].id}
  ELSE IF Working(n) \/ onEvent[n].pc = "done" THEN {onEvent[n].id} ELSE {}

NothingStranded == \A n \in N : ~onEvent[n].stranded

\* What is on record while request n is served.
OnRecord(n) ==
  /\ requests[n].type = "Create" => resource = NoId
  /\ requests[n].type = "Update" => resource = requests[n].id /\ resource \in real
  /\ requests[n].type = "Delete" => resource \in real \cup {NoId, requests[n].id}

\* What is named as the resource exists, and what is reported as deleted does not.
Outcome(n) ==
  /\ waiter[n].pc # "none" => waiter[n].id = onEvent[n].id
  /\ Working(n) => IF requests[n].type = "Delete"
                   THEN onEvent[n].id = requests[n].id /\ requests[n].id \notin real
                   ELSE onEvent[n].id \in real
  /\ answers[n] # <<>> =>
       LET answer == answers[n][1] IN
         /\ requests[n].type = "Update" => answer.id \in real
         /\ requests[n].type = "Create" /\ answer.status = "SUCCESS" => answer.id \in real
         /\ requests[n].type = "Delete" =>
              answer.id = requests[n].id /\ (answer.status = "SUCCESS" => requests[n].id \notin real)

\* Every physical resource is on record, about to be deleted, given up, or
\* accounted for by the request that is served.
Accounted(n) ==
  NothingStranded => real \ abandoned \subseteq {resource, requests[n].id} \cup Named(n)

TrackingInv ==
  ~lost =>
    /\ followUp # NoId => ~pending /\ followUp # resource
    /\ ~pending => /\ resource \in real \cup {NoId}
                   /\ NothingStranded => real \ abandoned \subseteq {resource, followUp}
    /\ pending => OnRecord(Last) /\ Outcome(Last) /\ Accounted(Last)

\* Every request is answered, although calls fail (no more of them than Lambda
\* repeats), but for the two ways in which the code loses an answer for good: the
\* server refuses it and submitResponse takes that for a success (outbound.ts, line
\* 20), or onTimeout throws, since its own call fails or what it got is not the event.
EveryRequestIsAnswered ==
  \A n \in N :
    onEvent[n].pc # "none" ~>
      answers[n] # <<>> \/ n \in refused \/ (waiter[n].pc = "thrown" /\ ~NoFaultYet)

=============================================================================
