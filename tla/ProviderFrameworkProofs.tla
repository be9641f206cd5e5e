------------------------ MODULE ProviderFrameworkProofs ------------------------
(***************************************************************************)
(* ProviderFramework implements ResourceProtocol, for any number of        *)
(* requests, attempts, retries and failing calls.  The inductive invariant *)
(* is ProviderFramework!ProtocolInv.  With TrackingInv it also keeps track *)
(* of every physical resource.                                             *)
(***************************************************************************)
EXTENDS ProviderFramework, TLAPS

USE ConstantsAssumption

\* A call that fails is counted; it is lost or has had no effect.
LEMMA FaultType ==
  ASSUME TypeOK, NEW kind, Fault(kind)
  PROVE  /\ faults' \in 0..MaxFaults /\ lost' \in BOOLEAN /\ refused' \in SUBSET N
         /\ (lost \/ kind = "lost") <=> lost'
<1>1. faults \in Nat /\ faults < MaxFaults /\ faults' = faults + 1 BY DEF Fault, TypeOK
<1>2. faults' \in 0..MaxFaults BY <1>1
<1>3. lost' = (lost \/ kind = "lost") BY DEF Fault
<1>4. refused' \in SUBSET N BY DEF Fault, TypeOK
<1> QED BY <1>2, <1>3, <1>4, Zenon

\* So is an answer that is refused, which loses nothing.
LEMMA RefuseType ==
  ASSUME TypeOK, NEW n \in N, Refuse(n)
  PROVE  faults' \in 0..MaxFaults /\ UNCHANGED lost /\ lost' \in BOOLEAN /\ refused' \in SUBSET N
<1>1. faults \in Nat /\ faults < MaxFaults /\ faults' = faults + 1 BY DEF Refuse, TypeOK
<1>2. faults' \in 0..MaxFaults BY <1>1
<1> QED BY <1>2 DEF Refuse, TypeOK

\* An answer is added for one request, or none is.  Unless something was lost, one
\* is added only by a call that was resolved.
LEMMA SubmitEffect ==
  ASSUME TypeOK, NEW n \in N, NEW status \in {"SUCCESS", "FAILED"},
         NEW id \in PhysicalId \cup {Marker}, NEW resolved \in BOOLEAN,
         Submit(n, status, id, resolved)
  PROVE  /\ answers' \in [N -> Seq(Answer)]
         /\ \A m \in N : m # n => answers'[m] = answers[m]
         /\ \/ answers' = answers
            \/ answers'[n] = Append(answers[n], [status |-> status, id |-> id])
         /\ faults' \in 0..MaxFaults /\ lost' \in BOOLEAN /\ refused' \in SUBSET N
         /\ lost => lost'
         /\ ~lost' /\ ~resolved => answers' = answers
<1>1. answers \in [N -> Seq(Answer)] /\ answers[n] \in Seq(Answer) BY DEF TypeOK
<1>2. [status |-> status, id |-> id] \in Answer BY DEF Answer
<1> DEFINE longer == Append(answers[n], [status |-> status, id |-> id])
<1>3. longer \in Seq(Answer) BY <1>1, <1>2
<1>4. CASE answers' = [answers EXCEPT ![n] = longer] /\ (IF resolved THEN NoFault ELSE Fault("lost"))
  <2>1. /\ answers' \in [N -> Seq(Answer)] /\ answers'[n] = longer
        /\ \A m \in N : m # n => answers'[m] = answers[m]
    BY <1>1, <1>3, <1>4
  <2>3. faults' \in 0..MaxFaults /\ lost' \in BOOLEAN /\ refused' \in SUBSET N
        /\ (lost => lost') /\ (~resolved => lost')
    BY <1>4, FaultType DEF NoFault, mishaps, TypeOK
  <2> QED BY <2>1, <2>3
<1>5. CASE ~resolved /\ Fault("rejected") /\ UNCHANGED answers
  BY <1>1, <1>5, FaultType
<1>6. CASE resolved /\ Refuse(n) /\ UNCHANGED answers
  BY <1>1, <1>6, RefuseType
<1> QED BY <1>4, <1>5, <1>6 DEF Submit

-----------------------------------------------------------------------------
(* The state stays well typed.                                             *)

\* What onEvent, and the waiter, are changed to stays well typed.
LEMMA GotoType ==
  ASSUME TypeOK, NEW n \in N
  PROVE  /\ \A pc \in OnEventPc : OnEventGoto(n, pc) => onEvent' \in
              [N -> [pc : OnEventPc, id : PhysicalId \cup {NoId}, retries : 0..AsyncRetries,
                     stranded : BOOLEAN]]
         /\ \A pc \in WaiterPc : WaiterGoto(n, pc) => waiter' \in
              [N -> [pc : WaiterPc, id : PhysicalId \cup {NoId},
                     calls : 0..(MaxAttempts + 1), error : {"none", "Retry", "other"}]]
         /\ Strand(n) => onEvent' \in
              [N -> [pc : OnEventPc, id : PhysicalId \cup {NoId}, retries : 0..AsyncRetries,
                     stranded : BOOLEAN]]
<1>1. /\ onEvent \in [N -> [pc : OnEventPc, id : PhysicalId \cup {NoId}, retries : 0..AsyncRetries,
                            stranded : BOOLEAN]]
      /\ waiter \in [N -> [pc : WaiterPc, id : PhysicalId \cup {NoId},
                           calls : 0..(MaxAttempts + 1), error : {"none", "Retry", "other"}]]
  BY DEF TypeOK
<1>2. "failed" \in OnEventPc /\ TRUE \in BOOLEAN BY DEF OnEventPc
<1>3. ASSUME NEW pc \in WaiterPc, WaiterGoto(n, pc)
      PROVE  waiter' \in [N -> [pc : WaiterPc, id : PhysicalId \cup {NoId},
                                calls : 0..(MaxAttempts + 1), error : {"none", "Retry", "other"}]]
  BY <1>1, <1>3, ZenonT(40) DEF WaiterGoto
<1> QED BY <1>1, <1>2, <1>3 DEF OnEventGoto, Strand

\* CloudFormation's steps.
LEMMA CloudFormationType == ProtocolInv /\ CloudFormationStep => TypeOK'
<1> SUFFICES ASSUME ProtocolInv, CloudFormationStep PROVE TypeOK'
  OBVIOUS
<1>0. TypeOK /\ IdInv /\ TurnInv BY DEF ProtocolInv
<1>1. requests \in Seq(Request) /\ Last \in Nat /\ Last <= MaxRequests
  BY <1>0 DEF TypeOK, Last
<1>2. ASSUME NEW type \in {"Create", "Update", "Delete"}, NEW id \in PhysicalId \cup {NoId, Marker},
             Send(type, id), followUp' \in {followUp, NoId}
      PROVE  TypeOK'
  <2>1. [type |-> type, id |-> id] \in Request BY <1>2 DEF Request
  <2>2. requests' \in Seq(Request) /\ Len(requests') <= MaxRequests
    BY <1>1, <1>2, <2>1 DEF Send, Last
  <2>3. onEvent' \in [N -> [pc : OnEventPc, id : PhysicalId \cup {NoId}, retries : 0..AsyncRetries,
                            stranded : BOOLEAN]]
    <3>1. "ignore" \in OnEventPc /\ "handle" \in OnEventPc BY DEF OnEventPc
    <3>2. Last + 1 \in N BY <1>1, <1>2 DEF Send, N
    <3>3. onEvent[Last + 1] \in [pc : OnEventPc, id : PhysicalId \cup {NoId},
                                retries : 0..AsyncRetries, stranded : BOOLEAN]
      BY <1>0, <3>2 DEF TypeOK
    <3>4. \E pc \in {"ignore", "handle"} :
            onEvent' = [onEvent EXCEPT ![Last + 1] = [onEvent[Last + 1] EXCEPT !.pc = pc]]
      BY <1>0, <1>2, <3>2 DEF Send, TypeOK
    <3>5. PICK pc \in {"ignore", "handle"} :
            onEvent' = [onEvent EXCEPT ![Last + 1] = [onEvent[Last + 1] EXCEPT !.pc = pc]]
      BY <3>4
    <3>6. [onEvent[Last + 1] EXCEPT !.pc = pc] \in
            [pc : OnEventPc, id : PhysicalId \cup {NoId}, retries : 0..AsyncRetries, stranded : BOOLEAN]
      BY <3>1, <3>3
    <3>7. onEvent \in [N -> [pc : OnEventPc, id : PhysicalId \cup {NoId}, retries : 0..AsyncRetries,
                            stranded : BOOLEAN]]
      BY <1>0 DEF TypeOK
    <3> QED BY <3>2, <3>5, <3>6, <3>7
  <2> QED BY <1>0, <1>2, <2>2, <2>3 DEF Send, TypeOK, mishaps
<1>3. ASSUME pending, answers[Last] # <<>>, Last \in N
      PROVE  Head(answers[Last]) \in Answer /\ Head(answers[Last]) = answers[Last][1]
             /\ 1 \in 1..Len(answers[Last])
  BY <1>0, <1>3 DEF TypeOK
<1>4. ASSUME NEW type, Answered(type) PROVE Last \in N /\ requests[Last] \in Request
                                            /\ requests[Last].type = type
                                            /\ pending' = FALSE
  <2>1. Last \in N BY <1>0, <1>1, <1>4 DEF Answered, TurnInv, N
  <2> QED BY <1>1, <1>4, <2>1 DEF Answered, Last, N
<1>5. CASE SendFirst
  <2>1. UNCHANGED followUp BY <1>5 DEF SendFirst
  <2>2. PICK type \in {"Create", "Update", "Delete"} : Send(type, IF resource = NoId THEN NoId ELSE resource)
    BY <1>5 DEF SendFirst
  <2>3. resource \in PhysicalId \cup {NoId} BY <1>0 DEF TypeOK
  <2> QED BY <1>2, <2>1, <2>2, <2>3
<1>6. CASE SendFollowUp
  <2>1. followUp \in PhysicalId \cup {NoId, Marker} BY <1>0 DEF TypeOK
  <2> QED BY <1>2, <1>6, <2>1 DEF SendFollowUp
<1>7. CASE CreateAnswered
  <2> DEFINE answer == Head(answers[Last])
  <2>1. /\ Answered("Create") /\ UNCHANGED abandoned
        /\ \/ answer.status = "SUCCESS" /\ resource' = answer.id /\ UNCHANGED followUp
           \/ followUp' = answer.id /\ UNCHANGED resource
    BY <1>7 DEF CreateAnswered
  <2>2. Last \in N /\ requests[Last].type = "Create" /\ pending' = FALSE BY <1>4, <2>1
  <2>3. answer \in Answer /\ answer = answers[Last][1] /\ 1 \in 1..Len(answers[Last])
    BY <1>3, <2>1, <2>2 DEF Answered
  <2>4. answer.status = "SUCCESS" => answer.id # Marker
    BY <1>0, <2>2, <2>3 DEF IdInv, MarkersAreRight
  <2>5. answer.id \in PhysicalId \cup {Marker} BY <2>3 DEF Answer
  <2>6. resource' \in PhysicalId \cup {NoId} /\ followUp' \in PhysicalId \cup {NoId, Marker}
    BY <1>0, <2>1, <2>4, <2>5 DEF TypeOK
  <2> QED BY <1>0, <2>1, <2>2, <2>6 DEF Answered, TypeOK, mishaps
<1>8. CASE UpdateAnswered
  <2> DEFINE answer == Head(answers[Last])
  <2>1. /\ Answered("Update") /\ resource' = answer.id
        /\ \/ UNCHANGED <<followUp, abandoned>>
           \/ followUp' = requests[Last].id /\ UNCHANGED abandoned
           \/ abandoned' = abandoned \cup {requests[Last].id} /\ UNCHANGED followUp
    BY <1>8 DEF UpdateAnswered
  <2>2. Last \in N /\ requests[Last].type = "Update" /\ pending' = FALSE BY <1>4, <2>1
  <2>3. answer \in Answer /\ answer = answers[Last][1] /\ 1 \in 1..Len(answers[Last])
    BY <1>3, <2>1, <2>2 DEF Answered
  <2>4. answer.id \in PhysicalId /\ requests[Last].id \in PhysicalId
    <3>1. Last \in 1..Last BY <1>1, <2>2 DEF N
    <3> QED BY <1>0, <2>2, <2>3, <3>1 DEF IdInv, RequestId, MarkersAreRight, Answer
  <2> QED BY <1>0, <2>1, <2>2, <2>4 DEF Answered, TypeOK, mishaps
<1>9. CASE DeleteAnswered
  <2>1. /\ Answered("Delete") /\ UNCHANGED followUp
        /\ resource' \in {NoId, resource}
        /\ abandoned' \in {abandoned, abandoned \cup {requests[Last].id}}
    BY <1>9 DEF DeleteAnswered
  <2>2. Last \in N /\ requests[Last].type = "Delete" /\ pending' = FALSE BY <1>4, <2>1
  <2>3. requests[Last].id \in PhysicalId \cup {Marker}
    <3>1. Last \in 1..Last BY <1>1, <2>2 DEF N
    <3> QED BY <1>0, <2>2, <3>1 DEF IdInv, RequestId
  <2> QED BY <1>0, <2>1, <2>2, <2>3 DEF Answered, TypeOK, mishaps
<1> QED BY <1>5, <1>6, <1>7, <1>8, <1>9 DEF CloudFormationStep

\* The steps of onEvent.
LEMMA OnEventType == ASSUME ProtocolInv, NEW n \in N, OnEventStep(n) PROVE TypeOK'
<1>0. TypeOK /\ IdInv /\ TurnInv BY DEF ProtocolInv
<1> DEFINE OnEventRecord == [pc : OnEventPc, id : PhysicalId \cup {NoId}, retries : 0..AsyncRetries,
                             stranded : BOOLEAN]
           Kept == UNCHANGED <<async, cfn>>
<1>1. ASSUME Kept, UNCHANGED <<waiter, answers, mishaps>>, onEvent' \in [N -> OnEventRecord],
             real' \subseteq PhysicalId
      PROVE  TypeOK'
  BY <1>0, <1>1 DEF TypeOK, cfn, mishaps
<1>2. onEvent[n].pc # "none" => n \in 1..Last
  <2>1. Last \in Nat BY <1>0 DEF TypeOK, Last
  <2> QED BY <1>0, <2>1 DEF TurnInv, N
<1>3. ASSUME NEW id \in PhysicalId, Handled(n, id) PROVE onEvent' \in [N -> OnEventRecord]
  <2>1. "start" \in OnEventPc /\ "success" \in OnEventPc BY DEF OnEventPc
  <2>2. onEvent \in [N -> OnEventRecord] /\ onEvent[n] \in OnEventRecord BY <1>0 DEF TypeOK
  <2>3. \E pc \in {"start", "success"} :
          onEvent' = [onEvent EXCEPT ![n] = [onEvent[n] EXCEPT !.pc = pc, !.id = id]]
    BY <1>3, <2>2 DEF Handled
  <2>4. \A pc \in {"start", "success"} : [onEvent[n] EXCEPT !.pc = pc, !.id = id] \in OnEventRecord
    BY <2>1, <2>2
  <2> QED BY <2>2, <2>3, <2>4
<1>4. CASE UserCreates(n)
  <2>1. PICK id \in (Ids \ real) \cup {n} : real' = real \cup {id} /\ Handled(n, id)
    BY <1>4 DEF UserCreates
  <2>2. id \in PhysicalId BY <2>1 DEF PhysicalId
  <2>3. onEvent' \in [N -> OnEventRecord] BY <1>3, <2>1, <2>2
  <2>4. real' \subseteq PhysicalId BY <1>0, <2>1, <2>2 DEF TypeOK
  <2> QED BY <1>1, <1>4, <2>3, <2>4 DEF UserCreates, OnEventAt, NoFault
<1>5. CASE UserUpdates(n)
  <2>1. PICK id \in (Ids \ real) \cup {requests[n].id} : real' = real \cup {id} /\ Handled(n, id)
    BY <1>5 DEF UserUpdates
  <2>2. requests[n].id \in PhysicalId BY <1>0, <1>2, <1>5 DEF UserUpdates, OnEventAt, IdInv, RequestId
  <2>3. id \in PhysicalId BY <2>1, <2>2 DEF PhysicalId
  <2>4. onEvent' \in [N -> OnEventRecord] BY <1>3, <2>1, <2>3
  <2>5. real' \subseteq PhysicalId BY <1>0, <2>1, <2>3 DEF TypeOK
  <2> QED BY <1>1, <1>5, <2>4, <2>5 DEF UserUpdates, OnEventAt, NoFault
<1>6. CASE UserDeletes(n)
  <2>1. requests[n].id \in PhysicalId
    BY <1>0, <1>2, <1>6 DEF UserDeletes, OnEventAt, IdInv, RequestId, PartyId
  <2>2. "failed" \in OnEventPc BY DEF OnEventPc
  <2>3. onEvent' \in [N -> OnEventRecord] BY <1>0, <1>3, <1>6, <2>1, <2>2, GotoType DEF UserDeletes
  <2>4. real' \subseteq PhysicalId BY <1>0, <1>6 DEF TypeOK, UserDeletes
  <2> QED BY <1>1, <1>6, <2>3, <2>4 DEF UserDeletes, OnEventAt, NoFault
<1>7. CASE UserFails(n)
  <2>1. "failed" \in OnEventPc BY DEF OnEventPc
  <2>2. onEvent' \in [N -> OnEventRecord] BY <1>0, <1>7, <2>1, GotoType DEF UserFails
  <2>3. faults' \in 0..MaxFaults /\ lost' \in BOOLEAN /\ refused' \in SUBSET N
    BY <1>0, <1>7, FaultType DEF UserFails, NoFault, mishaps, TypeOK
  <2> QED BY <1>0, <1>7, <2>2, <2>3 DEF UserFails, OnEventAt, TypeOK, cfn
<1>8. CASE StartExecution(n)
  <2>1. "done" \in OnEventPc /\ "task" \in WaiterPc BY DEF OnEventPc, WaiterPc
  <2>2. onEvent' \in [N -> OnEventRecord] BY <1>0, <1>8, <2>1, GotoType DEF StartExecution
  <2>3. faults' \in 0..MaxFaults /\ lost' \in BOOLEAN /\ refused' \in SUBSET N
    BY <1>0, <1>8, FaultType DEF StartExecution, NoFault, mishaps, TypeOK
  <2>4. waiter' \in [N -> [pc : WaiterPc, id : PhysicalId \cup {NoId},
                           calls : 0..(MaxAttempts + 1), error : {"none", "Retry", "other"}]]
    <3> DEFINE WaiterRecord == [pc : WaiterPc, id : PhysicalId \cup {NoId},
                                calls : 0..(MaxAttempts + 1), error : {"none", "Retry", "other"}]
    <3>1. onEvent[n].id \in PhysicalId \cup {NoId} BY <1>0 DEF TypeOK
    <3>2. waiter \in [N -> WaiterRecord] /\ waiter[n] \in WaiterRecord BY <1>0 DEF TypeOK
    <3>3. [waiter[n] EXCEPT !.pc = "task", !.id = onEvent[n].id] \in WaiterRecord
      BY <2>1, <3>1, <3>2
    <3>4. \/ waiter' = [waiter EXCEPT ![n] = [waiter[n] EXCEPT !.pc = "task", !.id = onEvent[n].id]]
          \/ waiter' = waiter
      BY <1>8, <3>2 DEF StartExecution
    <3> QED BY <3>2, <3>3, <3>4
  <2> QED BY <1>0, <1>8, <2>2, <2>3, <2>4 DEF StartExecution, OnEventAt, TypeOK, cfn
<1>9. ASSUME NEW status \in {"SUCCESS", "FAILED"}, NEW id \in PhysicalId \cup {Marker},
             NEW resolved \in BOOLEAN, Submit(n, status, id, resolved), Kept,
             onEvent' \in [N -> OnEventRecord], UNCHANGED <<waiter, real>>
      PROVE  TypeOK'
  <2>1. answers' \in [N -> Seq(Answer)] /\ faults' \in 0..MaxFaults /\ lost' \in BOOLEAN
        /\ refused' \in SUBSET N
    <3>1. Submit(n, status, id, resolved) BY <1>9
    <3> QED BY <1>0, <3>1, SubmitEffect
  <2> QED BY <1>0, <1>9, <2>1 DEF TypeOK, cfn
<1>10. \A pc \in {"done", "failed", "thrown"} :
         pc \in OnEventPc /\ (OnEventGoto(n, pc) => onEvent' \in [N -> OnEventRecord])
  <2>1. \A pc \in {"done", "failed", "thrown"} : pc \in OnEventPc BY DEF OnEventPc
  <2> QED BY <1>0, <2>1, GotoType
<1>11. CASE SubmitSuccess(n)
  <2>1. PICK resolved \in BOOLEAN :
          /\ Submit(n, "SUCCESS", onEvent[n].id, resolved)
          /\ IF resolved THEN OnEventGoto(n, "done") ELSE Strand(n)
    BY <1>11 DEF SubmitSuccess
  <2>2. onEvent[n].id \in PhysicalId BY <1>0, <1>11 DEF SubmitSuccess, OnEventAt, IdInv, PartyId
  <2>3. onEvent' \in [N -> OnEventRecord] BY <1>0, <1>10, <2>1, GotoType
  <2> QED BY <1>9, <1>11, <2>1, <2>2, <2>3 DEF SubmitSuccess, OnEventAt
<1>12. CASE SubmitFailed(n)
  <2>1. PICK resolved \in BOOLEAN :
          /\ Submit(n, "FAILED", FailureId(n), resolved)
          /\ OnEventGoto(n, IF resolved THEN "done" ELSE "thrown")
    BY <1>12 DEF SubmitFailed
  <2>2. FailureId(n) \in PhysicalId \cup {Marker}
    <3>1. n \in 1..Last BY <1>2, <1>12 DEF SubmitFailed, OnEventAt
    <3>2. requests[n].type \in {"Create", "Update", "Delete"}
      <4>1. requests \in Seq(Request) /\ n \in 1..Len(requests) BY <1>0, <3>1 DEF TypeOK, Last
      <4>2. requests[n] \in Request BY <4>1
      <4> QED BY <4>2 DEF Request
    <3> QED BY <1>0, <3>1, <3>2 DEF FailureId, IdInv, RequestId
  <2>3. onEvent' \in [N -> OnEventRecord] BY <1>10, <2>1
  <2> QED BY <1>9, <1>12, <2>1, <2>2, <2>3 DEF SubmitFailed, OnEventAt
<1>13. CASE IgnoreDelete(n)
  <2>1. PICK resolved \in BOOLEAN :
          /\ Submit(n, "SUCCESS", Marker, resolved)
          /\ OnEventGoto(n, IF resolved THEN "done" ELSE "thrown")
    BY <1>13 DEF IgnoreDelete
  <2>2. onEvent' \in [N -> OnEventRecord] BY <1>10, <2>1
  <2> QED BY <1>9, <1>13, <2>1, <2>2 DEF IgnoreDelete, OnEventAt
<1>14. CASE InvokeAgain(n)
  <2>1. "ignore" \in OnEventPc /\ "handle" \in OnEventPc BY DEF OnEventPc
  <2>2. onEvent[n].retries + 1 \in 0..AsyncRetries
    BY <1>0, <1>14 DEF InvokeAgain, TypeOK
  <2>3. onEvent' \in [N -> OnEventRecord]
    <3>1. onEvent \in [N -> OnEventRecord] /\ onEvent[n] \in OnEventRecord BY <1>0 DEF TypeOK
    <3> DEFINE invoked == [onEvent[n] EXCEPT !.pc = IF requests[n].id = Marker THEN "ignore" ELSE "handle",
                                             !.id = NoId, !.retries = @ + 1]
    <3>2. invoked \in OnEventRecord BY <2>1, <2>2, <3>1
    <3>3. onEvent' = [onEvent EXCEPT ![n] = invoked] BY <1>14 DEF InvokeAgain
    <3> HIDE DEF invoked, OnEventRecord
    <3> QED BY <3>1, <3>2, <3>3
  <2> QED BY <1>0, <1>1, <1>14, <2>3 DEF InvokeAgain, OnEventAt, TypeOK
<1> QED BY <1>4, <1>5, <1>6, <1>7, <1>8, <1>11, <1>12, <1>13, <1>14 DEF OnEventStep

\* The steps of the waiter.
LEMMA WaiterType == ASSUME ProtocolInv, NEW n \in N, WaiterStep(n) PROVE TypeOK'
<1>0. TypeOK /\ IdInv BY DEF ProtocolInv
<1> DEFINE WaiterRecord == [pc : WaiterPc, id : PhysicalId \cup {NoId},
                            calls : 0..(MaxAttempts + 1), error : {"none", "Retry", "other"}]
<1>1. \A pc \in {"done", "thrown", "failed", "success"} :
        WaiterGoto(n, pc) => waiter' \in [N -> WaiterRecord]
  <2>1. \A pc \in {"done", "thrown", "failed", "success"} : pc \in WaiterPc BY DEF WaiterPc
  <2> QED BY <1>0, <2>1, GotoType
<1>2. ASSUME NEW error \in {"Retry", "other"}, waiter[n].pc \in {"task", "failed"}, TaskFails(n, error)
      PROVE  waiter' \in [N -> WaiterRecord]
  <2>1. waiter[n].calls \in Nat /\ waiter[n].calls <= MaxAttempts
    <3>1. PartyId(n) /\ waiter[n].calls \in 0..(MaxAttempts + 1) BY <1>0 DEF IdInv, TypeOK
    <3>2. waiter[n].pc \notin {"onTimeout", "thrown", "done"} BY <1>2
    <3> QED BY <3>1, <3>2 DEF PartyId
  <2>2. waiter[n].calls + 1 \in 0..(MaxAttempts + 1) BY <2>1
  <2>3. "task" \in WaiterPc /\ "onTimeout" \in WaiterPc BY DEF WaiterPc
  <2>4. waiter \in [N -> WaiterRecord] /\ waiter[n] \in WaiterRecord BY <1>0 DEF TypeOK
  <2> DEFINE failed == [waiter[n] EXCEPT !.calls = @ + 1, !.error = error,
                          !.pc = IF waiter[n].calls < MaxAttempts THEN "task" ELSE "onTimeout"]
  <2>5. failed \in WaiterRecord BY <2>2, <2>3, <2>4
  <2>6. waiter' = [waiter EXCEPT ![n] = failed] BY <1>2 DEF TaskFails
  <2> HIDE DEF failed, WaiterRecord
  <2> QED BY <2>4, <2>5, <2>6
<1>3. ASSUME NEW pc, WaiterAt(n, pc), waiter' \in [N -> WaiterRecord],
             answers' \in [N -> Seq(Answer)], faults' \in 0..MaxFaults, lost' \in BOOLEAN,
             refused' \in SUBSET N
      PROVE  TypeOK'
  BY <1>0, <1>3 DEF WaiterAt, TypeOK, cfn
<1>4. ASSUME NEW id, waiter[n].pc # "none", id = waiter[n].id, NEW resolved \in BOOLEAN,
             NEW status \in {"SUCCESS", "FAILED"}, Submit(n, status, id, resolved)
      PROVE  answers' \in [N -> Seq(Answer)] /\ faults' \in 0..MaxFaults /\ lost' \in BOOLEAN
             /\ refused' \in SUBSET N
  <2>1. id \in PhysicalId \cup {Marker} BY <1>0, <1>4 DEF IdInv, PartyId
  <2> QED BY <1>0, <1>4, <2>1, SubmitEffect
<1>5. CASE IsComplete(n)
  <2>1. waiter' \in [N -> WaiterRecord] BY <1>1, <1>2, <1>5 DEF IsComplete, WaiterAt
  <2>2. answers' \in [N -> Seq(Answer)] /\ faults' \in 0..MaxFaults /\ lost' \in BOOLEAN
        /\ refused' \in SUBSET N
    BY <1>0, <1>5, FaultType DEF IsComplete, NoFault, mishaps, TypeOK
  <2> QED BY <1>3, <1>5, <2>1, <2>2 DEF IsComplete
<1>6. CASE TaskCrashes(n)
  <2>1. waiter' \in [N -> WaiterRecord] BY <1>2, <1>6 DEF TaskCrashes, WaiterAt
  <2>2. answers' \in [N -> Seq(Answer)] /\ faults' \in 0..MaxFaults /\ lost' \in BOOLEAN
        /\ refused' \in SUBSET N
    BY <1>0, <1>6, FaultType DEF TaskCrashes, TypeOK
  <2> QED BY <1>3, <1>6, <2>1, <2>2 DEF TaskCrashes
<1>7. CASE WaiterSubmitsSuccess(n)
  <2>1. PICK resolved \in BOOLEAN :
          /\ Submit(n, "SUCCESS", waiter[n].id, resolved)
          /\ WaiterGoto(n, IF resolved THEN "done" ELSE "failed")
    BY <1>7 DEF WaiterSubmitsSuccess
  <2>2. waiter' \in [N -> WaiterRecord] BY <1>1, <2>1
  <2>3. waiter[n].pc # "none" BY <1>7 DEF WaiterSubmitsSuccess, WaiterAt
  <2>4. answers' \in [N -> Seq(Answer)] /\ faults' \in 0..MaxFaults /\ lost' \in BOOLEAN
        /\ refused' \in SUBSET N
    BY <1>4, <2>1, <2>3
  <2> QED BY <1>3, <1>7, <2>2, <2>4 DEF WaiterSubmitsSuccess
<1>8. CASE WaiterSubmitsFailed(n)
  <2>1. PICK resolved \in BOOLEAN :
          /\ Submit(n, "FAILED", waiter[n].id, resolved)
          /\ IF resolved THEN WaiterGoto(n, "done") ELSE TaskFails(n, "other")
    BY <1>8 DEF WaiterSubmitsFailed
  <2>2. waiter' \in [N -> WaiterRecord] BY <1>1, <1>2, <1>8, <2>1 DEF WaiterSubmitsFailed, WaiterAt
  <2>3. waiter[n].pc # "none" BY <1>8 DEF WaiterSubmitsFailed, WaiterAt
  <2>4. answers' \in [N -> Seq(Answer)] /\ faults' \in 0..MaxFaults /\ lost' \in BOOLEAN
        /\ refused' \in SUBSET N
    BY <1>4, <2>1, <2>3
  <2> QED BY <1>3, <1>8, <2>2, <2>4 DEF WaiterSubmitsFailed
<1>9. CASE OnTimeout(n)
  <2>1. waiter' \in [N -> WaiterRecord]
    <3>1. WaiterGoto(n, "done") \/ WaiterGoto(n, "thrown") BY <1>9 DEF OnTimeout
    <3> QED BY <1>1, <3>1
  <2>2. waiter[n].pc # "none" BY <1>9 DEF OnTimeout, WaiterAt
  <2>3. answers' \in [N -> Seq(Answer)] /\ faults' \in 0..MaxFaults /\ lost' \in BOOLEAN
        /\ refused' \in SUBSET N
    <3>1. CASE \E resolved \in BOOLEAN : Submit(n, "FAILED", waiter[n].id, resolved)
      BY <1>4, <2>2, <3>1
    <3>2. CASE NoFault /\ UNCHANGED answers
      BY <1>0, <3>2 DEF NoFault, mishaps, TypeOK
    <3> QED BY <1>9, <3>1, <3>2 DEF OnTimeout
  <2> QED BY <1>3, <1>9, <2>1, <2>3 DEF OnTimeout
<1> QED BY <1>5, <1>6, <1>7, <1>8, <1>9 DEF WaiterStep

-----------------------------------------------------------------------------
(* Whose turn it is, and what ids they have.                               *)

\* A step of one invocation or one execution: only its own request is concerned.
LEMMA LocalStep ==
  ASSUME ProtocolInv, NEW n \in N, n <= Last, UNCHANGED cfn, lost => lost',
         \A m \in N : m # n => UNCHANGED <<onEvent[m], waiter[m], answers[m]>>,
         PartyId(n)', MarkersAreRight(n)',
         ~lost' => OneTurn(n)'
  PROVE  IdInv' /\ TurnInv'
<1>1. TypeOK /\ IdInv /\ TurnInv BY DEF ProtocolInv
<1>2. UNCHANGED <<requests, pending>> BY DEF cfn
<1>3. Last' = Last /\ Last \in Nat BY <1>1, <1>2 DEF Last, TypeOK
<1>4. \A m \in N : PartyId(m)'
  BY <1>1, <1>2 DEF IdInv, PartyId
<1>5. \A m \in N : MarkersAreRight(m)'
  BY <1>1, <1>2 DEF IdInv, MarkersAreRight
<1>6. \A m \in 1..Last : RequestId(m)' BY <1>1, <1>2 DEF IdInv, RequestId
<1>7. ~lost' => \A m \in N : OneTurn(m)'
  BY <1>1, <1>2, <1>3 DEF TurnInv, OneTurn
<1>8. \A m \in N : m > Last => m # n BY <1>3 DEF N
<1> QED BY <1>1, <1>2, <1>3, <1>4, <1>5, <1>6, <1>7, <1>8 DEF IdInv, TurnInv

\* An answer with an id that is allowed leaves the answers' ids in order.
LEMMA MarkerStep ==
  ASSUME ProtocolInv, NEW n \in N, NEW answer \in Answer, UNCHANGED requests,
         answer.id = Marker => \/ requests[n].type = "Delete"
                               \/ requests[n].type = "Create" /\ answer.status = "FAILED",
         answers' \in [N -> Seq(Answer)],
         answers' = answers \/ answers'[n] = Append(answers[n], answer)
  PROVE  MarkersAreRight(n)'
<1>1. answers[n] \in Seq(Answer) /\ MarkersAreRight(n)
  BY DEF ProtocolInv, TypeOK, IdInv
<1>2. CASE answers' = answers BY <1>1, <1>2 DEF MarkersAreRight
<1>3. CASE answers'[n] = Append(answers[n], answer)
  <2>1. ASSUME NEW k \in 1..Len(answers'[n]), answers'[n][k].id = Marker
        PROVE  \/ requests[n].type = "Delete"
               \/ requests[n].type = "Create" /\ answers'[n][k].status = "FAILED"
    <3>1. k \in 1..(Len(answers[n]) + 1) BY <1>1, <1>3
    <3>2. answers'[n][k] = IF k = Len(answers[n]) + 1 THEN answer ELSE answers[n][k]
      BY <1>1, <1>3, <3>1
    <3> QED BY <1>1, <2>1, <3>1, <3>2 DEF MarkersAreRight
  <2> QED BY <2>1 DEF MarkersAreRight
<1> QED BY <1>2, <1>3

\* CloudFormation's steps.
LEMMA CloudFormationTurn == ProtocolInv /\ CloudFormationStep => IdInv' /\ TurnInv'
<1> SUFFICES ASSUME ProtocolInv, CloudFormationStep PROVE IdInv' /\ TurnInv'
  OBVIOUS
<1>0. TypeOK /\ IdInv /\ TurnInv BY DEF ProtocolInv
<1>1. requests \in Seq(Request) /\ Last \in Nat BY <1>0 DEF TypeOK, Last
<1>2. ASSUME NEW type \in {"Create", "Update", "Delete"}, NEW id, Send(type, id),
             type = "Create" => id = NoId,
             type = "Update" => id \in PhysicalId,
             type = "Delete" => id \in PhysicalId \cup {Marker},
             [type |-> type, id |-> id] \in Request
      PROVE  IdInv' /\ TurnInv'
  <2>1. Last' = Last + 1 /\ requests' = Append(requests, [type |-> type, id |-> id])
    BY <1>1, <1>2 DEF Send, Last
  <2>2. /\ \A n \in 1..Last : requests'[n] = requests[n]
        /\ requests'[Last + 1] = [type |-> type, id |-> id]
    BY <1>1, <1>2, <2>1 DEF Last
  <2>3. Last + 1 \in N BY <1>1, <1>2 DEF Send, N
  <2>4. /\ \A n \in N : n # Last + 1 => onEvent'[n] = onEvent[n]
        /\ onEvent'[Last + 1].pc = (IF type = "Delete" /\ id = Marker THEN "ignore" ELSE "handle")
        /\ UNCHANGED <<waiter, answers, lost>> /\ ~pending /\ pending' = TRUE
    BY <1>0, <1>2, <2>3 DEF Send, TypeOK, mishaps
  <2>5. \A n \in N : n > Last => onEvent[n].pc = "none" /\ waiter[n].pc = "none" /\ answers[n] = <<>>
    BY <1>0 DEF TurnInv
  <2>6. ASSUME NEW n \in 1..Last' PROVE RequestId(n)'
    <3>1. CASE n = Last + 1 BY <1>2, <2>2, <3>1 DEF RequestId
    <3>2. CASE n \in 1..Last BY <1>0, <2>2, <3>2 DEF IdInv, RequestId
    <3> QED BY <1>1, <2>1, <3>1, <3>2
  <2>7. ASSUME NEW n \in N PROVE PartyId(n)'
    <3>1. CASE n = Last + 1
      <4>1. waiter[n].pc = "none" BY <1>1, <2>5, <3>1 DEF N
      <4>2. type # "Delete" => id # Marker BY <1>2 DEF PhysicalId, N
      <4>3. PartyId(n) BY <1>0 DEF IdInv
      <4>4. requests'[n].id = id /\ waiter'[n] = waiter[n]
            /\ onEvent'[n].pc = (IF type = "Delete" /\ id = Marker THEN "ignore" ELSE "handle")
        BY <2>2, <2>4, <3>1
      <4> QED BY <1>2, <4>1, <4>2, <4>3, <4>4 DEF PartyId
    <3>2. CASE n \in 1..Last BY <1>0, <1>1, <2>2, <2>4, <3>2 DEF IdInv, PartyId
    <3>3. CASE n > Last + 1
      <4>1. onEvent'[n].pc = "none" /\ waiter'[n] = waiter[n] /\ waiter[n].pc = "none"
        BY <1>1, <2>4, <2>5, <3>3 DEF N
      <4>2. PartyId(n) BY <1>0 DEF IdInv
      <4> QED BY <4>1, <4>2 DEF PartyId
    <3> QED BY <1>1, <3>1, <3>2, <3>3 DEF N
  <2>8. ASSUME NEW n \in N PROVE MarkersAreRight(n)'
    <3>1. CASE n > Last BY <2>4, <2>5, <3>1 DEF MarkersAreRight
    <3>2. CASE n \in 1..Last BY <1>0, <2>2, <2>4, <3>2 DEF IdInv, MarkersAreRight
    <3> QED BY <1>1, <3>1, <3>2 DEF N
  <2>9. ASSUME ~lost', NEW n \in N PROVE OneTurn(n)'
    <3>1. OneTurn(n) BY <1>0, <2>4, <2>9 DEF TurnInv
    <3>2. CASE n = Last + 1
      <4>1. answers[n] = <<>> /\ waiter[n].pc = "none" BY <1>1, <2>5, <3>2 DEF N
      <4> QED BY <2>1, <2>4, <3>2, <4>1 DEF OneTurn
    <3>3. CASE n # Last + 1
      <4>1. onEvent[n].pc \in {"none", "done"} /\ waiter[n].pc \in {"none", "thrown", "done"}
        BY <2>4, <3>1 DEF OneTurn
      <4> QED BY <2>4, <3>1, <3>3, <4>1 DEF OneTurn
    <3> QED BY <3>2, <3>3
  <2>10. \A n \in N : n > Last' =>
           onEvent'[n].pc = "none" /\ waiter'[n].pc = "none" /\ answers'[n] = <<>>
    BY <1>1, <2>1, <2>4, <2>5 DEF N
  <2> QED BY <1>1, <2>1, <2>6, <2>7, <2>8, <2>9, <2>10 DEF IdInv, TurnInv
<1>3. ASSUME NEW type, Answered(type) PROVE IdInv' /\ TurnInv'
  <2>1. /\ UNCHANGED <<requests, answers, onEvent, waiter, lost>>
        /\ pending' = FALSE /\ answers[Last] # <<>> /\ pending
    BY <1>3 DEF Answered, mishaps
  <2>2. Last' = Last BY <2>1 DEF Last
  <2>3. IdInv'
    <3>1. \A n \in 1..Last : RequestId(n)' BY <1>0, <2>1 DEF IdInv, RequestId
    <3>2. \A n \in N : PartyId(n)' BY <1>0, <2>1 DEF IdInv, PartyId
    <3>3. \A n \in N : MarkersAreRight(n)' BY <1>0, <2>1 DEF IdInv, MarkersAreRight
    <3> QED BY <2>2, <3>1, <3>2, <3>3 DEF IdInv
  <2>4. ASSUME ~lost', NEW n \in N PROVE OneTurn(n)'
    <3>1. OneTurn(n) BY <1>0, <2>1, <2>4 DEF TurnInv
    <3>2. onEvent[n].pc \in {"none", "done"} /\ waiter[n].pc \in {"none", "thrown", "done"}
      BY <2>1, <3>1 DEF OneTurn
    <3> QED BY <2>1, <3>1, <3>2 DEF OneTurn
  <2> QED BY <1>0, <2>1, <2>2, <2>3, <2>4 DEF TurnInv
<1>4. CASE SendFirst
  <2>1. PICK type \in {"Create", "Update", "Delete"} :
          Send(type, IF resource = NoId THEN NoId ELSE resource)
          /\ (resource = NoId <=> type = "Create")
    BY <1>4 DEF SendFirst
  <2>2. resource \in PhysicalId \cup {NoId} BY <1>0 DEF TypeOK
  <2>3. [type |-> type, id |-> IF resource = NoId THEN NoId ELSE resource] \in Request
    BY <2>2 DEF Request
  <2> QED BY <1>2, <2>1, <2>2, <2>3
<1>5. CASE SendFollowUp
  <2>1. followUp \in PhysicalId \cup {Marker} BY <1>0, <1>5 DEF SendFollowUp, TypeOK
  <2>2. [type |-> "Delete", id |-> followUp] \in Request BY <2>1 DEF Request
  <2> QED BY <1>2, <1>5, <2>1, <2>2 DEF SendFollowUp
<1>6. CASE CreateAnswered \/ UpdateAnswered \/ DeleteAnswered
  BY <1>3, <1>6 DEF CreateAnswered, UpdateAnswered, DeleteAnswered
<1> QED BY <1>4, <1>5, <1>6 DEF CloudFormationStep

\* A party that is at work is at work on a request that was sent.
LEMMA AtWork ==
  ASSUME ProtocolInv, NEW n \in N, onEvent[n].pc # "none" \/ waiter[n].pc # "none"
  PROVE  n \in 1..Last /\ RequestId(n)
         /\ requests[n].type \in {"Create", "Update", "Delete"}
<1>1. TypeOK /\ IdInv /\ TurnInv BY DEF ProtocolInv
<1>2. requests \in Seq(Request) /\ Last = Len(requests) /\ Last \in Nat BY <1>1 DEF TypeOK, Last
<1>3. n \in 1..Last BY <1>1, <1>2 DEF TurnInv, N
<1>4. requests[n] \in Request BY <1>2, <1>3
<1> QED BY <1>1, <1>3, <1>4 DEF IdInv, Request

\* The steps of onEvent that do not answer.
LEMMA OnEventQuietTurn ==
  ASSUME ProtocolInv, NEW n \in N,
         UserCreates(n) \/ UserUpdates(n) \/ UserDeletes(n) \/ UserFails(n) \/ StartExecution(n)
           \/ InvokeAgain(n)
  PROVE  IdInv' /\ TurnInv'
<1>0. TypeOK /\ IdInv /\ TurnInv BY DEF ProtocolInv
<1>1. onEvent[n].pc \notin {"none", "done"} /\ UNCHANGED <<cfn, answers>>
  BY DEF UserCreates, UserUpdates, UserDeletes, UserFails, StartExecution, InvokeAgain, OnEventAt
<1>2. n \in 1..Last /\ RequestId(n) BY <1>1, AtWork
<1>3. UNCHANGED requests /\ UNCHANGED pending /\ Last' = Last BY <1>1 DEF cfn, Last
<1>4. PartyId(n) /\ MarkersAreRight(n) BY <1>0 DEF IdInv
<1>5. MarkersAreRight(n)' BY <1>1, <1>3, <1>4 DEF MarkersAreRight
<1>6. ~lost => n = Last /\ pending /\ answers[n] = <<>> /\ waiter[n].pc = "none"
  BY <1>0, <1>1 DEF TurnInv, OneTurn
<1>7. ASSUME \A m \in N : m # n => onEvent'[m] = onEvent[m], UNCHANGED waiter, lost => lost',
             PartyId(n)'
      PROVE  IdInv' /\ TurnInv'
  <2>1. ASSUME ~lost' PROVE OneTurn(n)'
    BY <1>1, <1>3, <1>6, <1>7, <2>1 DEF OneTurn
  <2> QED BY <1>1, <1>2, <1>5, <1>7, <2>1, LocalStep
<1>8. onEvent \in [N -> [pc : OnEventPc, id : PhysicalId \cup {NoId}, retries : 0..AsyncRetries,
                         stranded : BOOLEAN]]
  BY <1>0 DEF TypeOK
<1>9. ASSUME NEW id \in PhysicalId, Handled(n, id), UNCHANGED <<waiter, lost>>
      PROVE  IdInv' /\ TurnInv'
  <2>1. /\ \A m \in N : m # n => onEvent'[m] = onEvent[m]
        /\ onEvent'[n].pc \in {"start", "success"} /\ onEvent'[n].id = id
    BY <1>8, <1>9 DEF Handled
  <2>2. PartyId(n)' BY <1>3, <1>4, <1>9, <2>1 DEF PartyId
  <2> QED BY <1>7, <1>9, <2>1, <2>2
<1>10. ASSUME OnEventGoto(n, "failed"), UNCHANGED waiter, lost => lost'
       PROVE  IdInv' /\ TurnInv'
  <2>1. /\ \A m \in N : m # n => onEvent'[m] = onEvent[m]
        /\ onEvent'[n].pc = "failed"
    BY <1>8, <1>10 DEF OnEventGoto
  <2>2. PartyId(n)' BY <1>3, <1>4, <1>10, <2>1 DEF PartyId
  <2> QED BY <1>7, <1>10, <2>1, <2>2
<1>11. CASE UserCreates(n)
  <2>1. PICK id \in (Ids \ real) \cup {n} : Handled(n, id) BY <1>11 DEF UserCreates
  <2>2. id \in PhysicalId BY <2>1 DEF PhysicalId
  <2> QED BY <1>9, <1>11, <2>1, <2>2 DEF UserCreates, NoFault, mishaps
<1>12. CASE UserUpdates(n)
  <2>1. PICK id \in (Ids \ real) \cup {requests[n].id} : Handled(n, id) BY <1>12 DEF UserUpdates
  <2>2. id \in PhysicalId BY <1>2, <1>12, <2>1 DEF UserUpdates, OnEventAt, RequestId, PhysicalId
  <2> QED BY <1>9, <1>12, <2>1, <2>2 DEF UserUpdates, NoFault, mishaps
<1>13. CASE UserDeletes(n)
  <2>1. requests[n].id \in PhysicalId
    BY <1>2, <1>4, <1>13 DEF UserDeletes, OnEventAt, RequestId, PartyId
  <2> QED BY <1>9, <1>10, <1>13, <2>1 DEF UserDeletes, NoFault, mishaps
<1>14. CASE UserFails(n)
  <2>1. lost => lost' BY <1>0, <1>14, FaultType DEF UserFails, NoFault, mishaps
  <2> QED BY <1>10, <1>14, <2>1 DEF UserFails
<1>15. CASE StartExecution(n)
  <2>1. onEvent[n].id \in PhysicalId /\ onEvent[n].pc = "start"
    BY <1>4, <1>15 DEF StartExecution, OnEventAt, PartyId
  <2>2. /\ \A m \in N : m # n => onEvent'[m] = onEvent[m] /\ waiter'[m] = waiter[m]
        /\ onEvent'[n].pc \in {"done", "failed"}
        /\ lost => lost'
    <3>1. lost => lost'
      BY <1>0, <1>15, FaultType DEF StartExecution, NoFault, mishaps
    <3>2. OnEventGoto(n, "done") \/ Strand(n) BY <1>15 DEF StartExecution
    <3>3. waiter' = [waiter EXCEPT ![n] = [@ EXCEPT !.pc = "task", !.id = onEvent[n].id]]
          \/ waiter' = waiter
      BY <1>15 DEF StartExecution
    <3>4. waiter \in [N -> [pc : WaiterPc, id : PhysicalId \cup {NoId},
                            calls : 0..(MaxAttempts + 1), error : {"none", "Retry", "other"}]]
      BY <1>0 DEF TypeOK
    <3> QED BY <1>8, <3>1, <3>2, <3>3, <3>4 DEF OnEventGoto, Strand
  <2>3. \/ waiter' = waiter
        \/ /\ waiter[n].pc = "none"
           /\ waiter' = [waiter EXCEPT ![n] = [@ EXCEPT !.pc = "task", !.id = onEvent[n].id]]
    BY <1>15 DEF StartExecution
  <2>4. waiter[n] \in [pc : WaiterPc, id : PhysicalId \cup {NoId}, calls : 0..(MaxAttempts + 1),
                      error : {"none", "Retry", "other"}]
        /\ waiter \in [N -> [pc : WaiterPc, id : PhysicalId \cup {NoId},
                            calls : 0..(MaxAttempts + 1), error : {"none", "Retry", "other"}]]
    BY <1>0 DEF TypeOK
  <2>5. \/ waiter' = waiter
        \/ /\ waiter'[n].pc = "task" /\ waiter'[n].id = onEvent[n].id
           /\ waiter'[n].calls = waiter[n].calls /\ waiter[n].pc = "none"
    <3> DEFINE started == [waiter[n] EXCEPT !.pc = "task", !.id = onEvent[n].id]
    <3>1. started.pc = "task" /\ started.id = onEvent[n].id /\ started.calls = waiter[n].calls
      BY <2>4
    <3>2. waiter' = [waiter EXCEPT ![n] = started] => waiter'[n] = started BY <2>4
    <3> QED BY <2>3, <3>1, <3>2
  <2>6. PartyId(n)' BY <1>3, <1>4, <2>1, <2>2, <2>5 DEF PartyId
  <2>7. ~lost' => (onEvent'[n].pc = "done" /\ waiter'[n].pc = "task")
                    \/ (onEvent'[n].pc = "failed" /\ waiter' = waiter)
    <3>1. \/ waiter[n].pc = "none" /\ OnEventGoto(n, "done")
             /\ waiter' = [waiter EXCEPT ![n] = [@ EXCEPT !.pc = "task", !.id = onEvent[n].id]]
          \/ Fault("lost")
          \/ waiter[n].pc # "none" /\ UNCHANGED lost
          \/ Strand(n) /\ UNCHANGED waiter
      BY <1>15 DEF StartExecution, NoFault, mishaps
    <3>2. Fault("lost") => lost' BY <1>0, FaultType
    <3>3. Strand(n) => onEvent'[n].pc = "failed" BY <1>8 DEF Strand
    <3>4. OnEventGoto(n, "done") => onEvent'[n].pc = "done" BY <1>8 DEF OnEventGoto
    <3>5. waiter' = [waiter EXCEPT ![n] = [@ EXCEPT !.pc = "task", !.id = onEvent[n].id]]
            => waiter'[n].pc = "task"
      BY <2>4
    <3>6. ASSUME ~lost'
          PROVE  (onEvent'[n].pc = "done" /\ waiter'[n].pc = "task")
                   \/ (onEvent'[n].pc = "failed" /\ waiter' = waiter)
      <4>1. ~lost BY <2>2, <3>6
      <4>2. waiter[n].pc = "none" BY <1>6, <4>1
      <4> QED BY <3>1, <3>2, <3>3, <3>4, <3>5, <3>6, <4>2
    <3> QED BY <3>6
  <2>8. ~lost' => OneTurn(n)'
    BY <1>1, <1>3, <1>6, <2>2, <2>7 DEF OneTurn
  <2>9. n <= Last /\ UNCHANGED cfn
        /\ \A m \in N : m # n => UNCHANGED <<onEvent[m], waiter[m], answers[m]>>
    BY <1>1, <1>2, <2>2
  <2> QED BY <1>5, <2>2, <2>6, <2>8, <2>9, LocalStep
<1>16. CASE InvokeAgain(n)
  <2>1. /\ \A m \in N : m # n => onEvent'[m] = onEvent[m]
        /\ onEvent'[n].pc = IF requests[n].id = Marker THEN "ignore" ELSE "handle"
    BY <1>8, <1>16 DEF InvokeAgain
  <2>2. UNCHANGED <<waiter, lost>> BY <1>16 DEF InvokeAgain, mishaps
  <2>3. PartyId(n)' BY <1>3, <1>4, <2>1, <2>2 DEF PartyId
  <2> QED BY <1>7, <2>1, <2>2, <2>3
<1> QED BY <1>11, <1>12, <1>13, <1>14, <1>15, <1>16

\* The steps of onEvent that answer.
LEMMA OnEventAnswerTurn ==
  ASSUME ProtocolInv, NEW n \in N, SubmitSuccess(n) \/ SubmitFailed(n) \/ IgnoreDelete(n)
  PROVE  IdInv' /\ TurnInv'
<1>0. TypeOK /\ IdInv /\ TurnInv BY DEF ProtocolInv
<1>1. onEvent[n].pc \notin {"none", "done"} /\ UNCHANGED <<cfn, waiter>>
  BY DEF SubmitSuccess, SubmitFailed, IgnoreDelete, OnEventAt
<1>2. n \in 1..Last /\ RequestId(n) /\ requests[n].type \in {"Create", "Update", "Delete"}
  BY <1>1, AtWork
<1>3. UNCHANGED requests /\ UNCHANGED pending /\ Last' = Last BY <1>1 DEF cfn, Last
<1>4. PartyId(n) BY <1>0 DEF IdInv
<1>5. ~lost => n = Last /\ pending /\ answers[n] = <<>> /\ waiter[n].pc = "none"
  BY <1>0, <1>1 DEF TurnInv, OneTurn
<1>6. onEvent \in [N -> [pc : OnEventPc, id : PhysicalId \cup {NoId}, retries : 0..AsyncRetries,
                         stranded : BOOLEAN]]
  BY <1>0 DEF TypeOK
<1>7. ASSUME NEW status \in {"SUCCESS", "FAILED"}, NEW id \in PhysicalId \cup {Marker},
             NEW resolved \in BOOLEAN, Submit(n, status, id, resolved),
             id = Marker => \/ requests[n].type = "Delete"
                            \/ requests[n].type = "Create" /\ status = "FAILED",
             \A m \in N : m # n => onEvent'[m] = onEvent[m],
             onEvent'[n].pc \in {"done", "failed", "thrown"},
             resolved => onEvent'[n].pc = "done",
             ~resolved => onEvent'[n].pc # "done"
      PROVE  IdInv' /\ TurnInv'
  <2> DEFINE answer == [status |-> status, id |-> id]
  <2>1. /\ answers' \in [N -> Seq(Answer)]
        /\ \A m \in N : m # n => answers'[m] = answers[m]
        /\ answers' = answers \/ answers'[n] = Append(answers[n], answer)
        /\ lost => lost'
        /\ ~lost' /\ ~resolved => answers' = answers
    BY <1>0, <1>7, SubmitEffect
  <2>2. answer \in Answer /\ answer.id = id /\ answer.status = status BY <1>7 DEF Answer
  <2>3. MarkersAreRight(n)' BY <1>3, <1>7, <2>1, <2>2, MarkerStep
  <2>4. PartyId(n)' BY <1>1, <1>3, <1>4, <1>7 DEF PartyId
  <2>5. ASSUME ~lost' PROVE OneTurn(n)'
    <3>1. n = Last /\ pending /\ answers[n] = <<>> /\ waiter[n].pc = "none" BY <1>5, <2>1, <2>5
    <3>2. CASE answers' # answers
      <4>1. resolved /\ answers'[n] = Append(<<>>, answer) BY <2>1, <2>5, <3>1, <3>2
      <4>2. Len(answers'[n]) = 1 BY <2>2, <4>1
      <4> QED BY <1>1, <1>7, <3>1, <4>1, <4>2 DEF OneTurn
    <3>3. CASE answers' = answers
      BY <1>1, <1>3, <1>7, <3>1, <3>3 DEF OneTurn
    <3> QED BY <3>2, <3>3
  <2> QED BY <1>1, <1>2, <1>7, <2>1, <2>3, <2>4, <2>5, LocalStep
<1>8. \A pc \in {"done", "thrown"} : OnEventGoto(n, pc) =>
        onEvent'[n].pc = pc /\ \A m \in N : m # n => onEvent'[m] = onEvent[m]
  BY <1>6 DEF OnEventGoto
<1>9. CASE SubmitSuccess(n)
  <2>1. PICK resolved \in BOOLEAN :
          /\ Submit(n, "SUCCESS", onEvent[n].id, resolved)
          /\ IF resolved THEN OnEventGoto(n, "done") ELSE Strand(n)
    BY <1>9 DEF SubmitSuccess
  <2>2. onEvent[n].id \in PhysicalId /\ onEvent[n].id # Marker
    BY <1>4, <1>9 DEF SubmitSuccess, OnEventAt, PartyId, PhysicalId, N
  <2>3. Strand(n) => onEvent'[n].pc = "failed" /\ \A m \in N : m # n => onEvent'[m] = onEvent[m]
    BY <1>6 DEF Strand
  <2> QED BY <1>7, <1>8, <2>1, <2>2, <2>3
<1>10. CASE SubmitFailed(n)
  <2>1. PICK resolved \in BOOLEAN :
          /\ Submit(n, "FAILED", FailureId(n), resolved)
          /\ OnEventGoto(n, IF resolved THEN "done" ELSE "thrown")
    BY <1>10 DEF SubmitFailed
  <2>2. /\ FailureId(n) \in PhysicalId \cup {Marker}
        /\ FailureId(n) = Marker => requests[n].type \in {"Create", "Delete"}
    BY <1>2 DEF FailureId, RequestId, PhysicalId, N
  <2> QED BY <1>7, <1>8, <2>1, <2>2
<1>11. CASE IgnoreDelete(n)
  <2>1. PICK resolved \in BOOLEAN :
          /\ Submit(n, "SUCCESS", Marker, resolved)
          /\ OnEventGoto(n, IF resolved THEN "done" ELSE "thrown")
    BY <1>11 DEF IgnoreDelete
  <2>2. requests[n].type = "Delete"
    <3>1. requests[n].id = Marker BY <1>4, <1>11 DEF IgnoreDelete, OnEventAt, PartyId
    <3> QED BY <1>2, <3>1 DEF RequestId, PhysicalId, N
  <2> QED BY <1>7, <1>8, <2>1, <2>2
<1> QED BY <1>9, <1>10, <1>11

\* The steps of the waiter.
LEMMA WaiterTurn == ASSUME ProtocolInv, NEW n \in N, WaiterStep(n) PROVE IdInv' /\ TurnInv'
<1>0. TypeOK /\ IdInv /\ TurnInv BY DEF ProtocolInv
<1>1. waiter[n].pc \notin {"none", "thrown", "done"} /\ UNCHANGED <<cfn, onEvent>>
  BY DEF WaiterStep, IsComplete, TaskCrashes, WaiterSubmitsSuccess, WaiterSubmitsFailed, OnTimeout,
         WaiterAt
<1>2. n \in 1..Last /\ RequestId(n) BY <1>1, AtWork
<1>3. UNCHANGED requests /\ UNCHANGED pending /\ Last' = Last BY <1>1 DEF cfn, Last
<1>4. PartyId(n) /\ MarkersAreRight(n) BY <1>0 DEF IdInv
<1>5. ~lost => n = Last /\ pending /\ answers[n] = <<>> /\ onEvent[n].pc = "done"
  BY <1>0, <1>1 DEF TurnInv, OneTurn
<1>6. waiter \in [N -> [pc : WaiterPc, id : PhysicalId \cup {NoId},
                        calls : 0..(MaxAttempts + 1), error : {"none", "Retry", "other"}]]
      /\ answers \in [N -> Seq(Answer)]
  BY <1>0 DEF TypeOK
\* What is left of the execution after the step.
<1> DEFINE Kept(pc) ==
      /\ waiter'[n].pc = pc /\ waiter'[n].id = waiter[n].id
      /\ pc \notin {"onTimeout", "thrown", "done"} => waiter'[n].calls <= MaxAttempts
      /\ \A m \in N : m # n => waiter'[m] = waiter[m]
<1>7. \A pc \in {"done", "thrown", "failed", "success"} :
        (waiter[n].pc # "onTimeout" \/ pc \in {"done", "thrown"}) /\ WaiterGoto(n, pc) => Kept(pc)
  BY <1>1, <1>4, <1>6 DEF WaiterGoto, PartyId
<1>8. ASSUME NEW error \in {"Retry", "other"}, waiter[n].pc \in {"task", "failed"}, TaskFails(n, error)
      PROVE  Kept("task") \/ Kept("onTimeout")
  <2>1. waiter[n].calls \in Nat BY <1>6
  <2>2. /\ waiter'[n].id = waiter[n].id /\ waiter'[n].calls = waiter[n].calls + 1
        /\ waiter'[n].pc = (IF waiter[n].calls < MaxAttempts THEN "task" ELSE "onTimeout")
        /\ \A m \in N : m # n => waiter'[m] = waiter[m]
    BY <1>6, <1>8 DEF TaskFails
  <2> QED BY <2>1, <2>2
<1>9. ASSUME NEW pc, Kept(pc), UNCHANGED answers, lost => lost', pc # "none"
      PROVE  IdInv' /\ TurnInv'
  <2>1. PartyId(n)' BY <1>1, <1>3, <1>4, <1>9 DEF PartyId
  <2>2. MarkersAreRight(n)' BY <1>3, <1>4, <1>9 DEF MarkersAreRight
  <2>3. ~lost' => OneTurn(n)' BY <1>1, <1>3, <1>5, <1>9 DEF OneTurn
  <2> QED BY <1>1, <1>2, <1>9, <2>1, <2>2, <2>3, LocalStep
<1>10. ASSUME NEW pc, Kept(pc), pc # "none", NEW status \in {"SUCCESS", "FAILED"},
              NEW resolved \in BOOLEAN, Submit(n, status, waiter[n].id, resolved),
              resolved => pc = "done"
       PROVE  IdInv' /\ TurnInv'
  <2> DEFINE answer == [status |-> status, id |-> waiter[n].id]
  <2>0. waiter[n].id \in PhysicalId /\ waiter[n].id # Marker
    BY <1>1, <1>4 DEF PartyId, PhysicalId, N
  <2>1. /\ answers' \in [N -> Seq(Answer)]
        /\ \A m \in N : m # n => answers'[m] = answers[m]
        /\ answers' = answers \/ answers'[n] = Append(answers[n], answer)
        /\ lost => lost'
        /\ ~lost' /\ ~resolved => answers' = answers
    BY <1>0, <1>10, <2>0, SubmitEffect
  <2>2. answer \in Answer /\ answer.id # Marker BY <1>10, <2>0 DEF Answer
  <2>3. MarkersAreRight(n)' BY <1>3, <2>1, <2>2, MarkerStep
  <2>4. PartyId(n)' BY <1>1, <1>3, <1>4, <1>10 DEF PartyId
  <2>5. ASSUME ~lost' PROVE OneTurn(n)'
    <3>1. n = Last /\ pending /\ answers[n] = <<>> /\ onEvent[n].pc = "done" BY <1>5, <2>1, <2>5
    <3>2. CASE answers' # answers
      <4>1. resolved /\ answers'[n] = Append(<<>>, answer) BY <2>1, <2>5, <3>1, <3>2
      <4>2. Len(answers'[n]) = 1 BY <2>2, <4>1
      <4> QED BY <1>1, <1>10, <3>1, <4>1, <4>2 DEF OneTurn
    <3>3. CASE answers' = answers
      BY <1>1, <1>3, <1>10, <3>1, <3>3 DEF OneTurn
    <3> QED BY <3>2, <3>3
  <2> QED BY <1>1, <1>2, <1>10, <2>1, <2>3, <2>4, <2>5, LocalStep
<1>11. (NoFault => UNCHANGED lost) /\ \A kind : Fault(kind) => (lost => lost')
  BY <1>0, FaultType DEF NoFault, mishaps
<1> HIDE DEF Kept
<1>12. CASE IsComplete(n)
  <2>1. /\ UNCHANGED answers /\ waiter[n].pc = "task" /\ (lost => lost')
        /\ \/ WaiterGoto(n, "success") \/ WaiterGoto(n, "failed") \/ TaskFails(n, "Retry")
    BY <1>11, <1>12 DEF IsComplete, WaiterAt
  <2>2. \E pc \in {"success", "failed", "task", "onTimeout"} : Kept(pc)
    BY <1>7, <1>8, <2>1
  <2> QED BY <1>9, <2>1, <2>2
<1>13. CASE TaskCrashes(n)
  <2>1. UNCHANGED answers /\ waiter[n].pc = "task" /\ (lost => lost') /\ TaskFails(n, "other")
    BY <1>11, <1>13 DEF TaskCrashes, WaiterAt
  <2> QED BY <1>8, <1>9, <2>1
<1>14. CASE WaiterSubmitsSuccess(n)
  <2>1. PICK resolved \in BOOLEAN :
          /\ Submit(n, "SUCCESS", waiter[n].id, resolved)
          /\ WaiterGoto(n, IF resolved THEN "done" ELSE "failed")
    BY <1>14 DEF WaiterSubmitsSuccess
  <2>2. waiter[n].pc = "success" BY <1>14 DEF WaiterSubmitsSuccess, WaiterAt
  <2>3. Kept(IF resolved THEN "done" ELSE "failed") BY <1>7, <2>1, <2>2
  <2> QED BY <1>10, <2>1, <2>3
<1>15. CASE WaiterSubmitsFailed(n)
  <2>1. PICK resolved \in BOOLEAN :
          /\ Submit(n, "FAILED", waiter[n].id, resolved)
          /\ IF resolved THEN WaiterGoto(n, "done") ELSE TaskFails(n, "other")
    BY <1>15 DEF WaiterSubmitsFailed
  <2>2. waiter[n].pc = "failed" BY <1>15 DEF WaiterSubmitsFailed, WaiterAt
  <2>3. \E pc \in {"done", "task", "onTimeout"} : Kept(pc) /\ (resolved => pc = "done")
    BY <1>7, <1>8, <2>1, <2>2
  <2> QED BY <1>10, <2>1, <2>3
<1>16. CASE OnTimeout(n)
  <2>1. CASE \E resolved \in BOOLEAN : /\ Submit(n, "FAILED", waiter[n].id, resolved)
                                       /\ WaiterGoto(n, IF resolved THEN "done" ELSE "thrown")
    <3>1. PICK resolved \in BOOLEAN : /\ Submit(n, "FAILED", waiter[n].id, resolved)
                                      /\ WaiterGoto(n, IF resolved THEN "done" ELSE "thrown")
      BY <2>1
    <3>2. Kept(IF resolved THEN "done" ELSE "thrown") BY <1>7, <3>1
    <3> QED BY <1>10, <3>1, <3>2
  <2>2. CASE WaiterGoto(n, "thrown") /\ NoFault /\ UNCHANGED answers
    <3>1. Kept("thrown") BY <1>7, <2>2
    <3> QED BY <1>9, <1>11, <2>2, <3>1
  <2> QED BY <1>16, <2>1, <2>2 DEF OnTimeout
<1> QED BY <1>12, <1>13, <1>14, <1>15, <1>16 DEF WaiterStep

-----------------------------------------------------------------------------
(* The invariant and the refinement.                                       *)

\* What holds before anything has been sent.
LEMMA ProtocolInit == Init => ProtocolInv
<1> SUFFICES ASSUME Init PROVE ProtocolInv
  OBVIOUS
<1>1. /\ onEvent \in [N -> [pc : OnEventPc, id : PhysicalId \cup {NoId}, retries : 0..AsyncRetries,
                            stranded : BOOLEAN]]
      /\ waiter \in [N -> [pc : WaiterPc, id : PhysicalId \cup {NoId},
                           calls : 0..(MaxAttempts + 1), error : {"none", "Retry", "other"}]]
  <2>1. "none" \in OnEventPc /\ "none" \in WaiterPc /\ 0 \in 0..AsyncRetries
        /\ 0 \in 0..(MaxAttempts + 1)
    BY DEF OnEventPc, WaiterPc
  <2> QED BY <2>1 DEF Init
<1>2. requests \in Seq(Request) /\ Len(requests) = 0 /\ <<>> \in Seq(Answer) BY DEF Init
<1>3. answers \in [N -> Seq(Answer)] /\ \A n \in N : answers[n] = <<>> BY <1>2 DEF Init
<1>4. TypeOK
  <2>1. /\ async \in BOOLEAN /\ pending = FALSE /\ lost = FALSE /\ faults = 0
        /\ followUp = NoId /\ resource = NoId /\ real = {} /\ abandoned = {} /\ refused = {}
    BY DEF Init
  <2>2. Len(requests) <= MaxRequests /\ faults \in 0..MaxFaults BY <1>2, <2>1
  <2> QED BY <1>1, <1>2, <1>3, <2>1, <2>2 DEF TypeOK
<1>5. Last = 0 BY <1>2 DEF Last
<1>6. \A n \in N : /\ onEvent[n].pc = "none" /\ waiter[n].pc = "none"
                   /\ waiter[n].calls = 0 /\ answers[n] = <<>>
  BY <1>3 DEF Init
<1>7. IdInv BY <1>5, <1>6 DEF IdInv, PartyId, MarkersAreRight
<1>8. TurnInv BY <1>6 DEF TurnInv, OneTurn, Init
<1> QED BY <1>4, <1>7, <1>8 DEF ProtocolInv

\* Every step leaves the invariant in place.
LEMMA ProtocolStep == ProtocolInv /\ [Next]_vars => ProtocolInv'
<1> SUFFICES ASSUME ProtocolInv, [Next]_vars PROVE ProtocolInv'
  OBVIOUS
<1>1. CASE CloudFormationStep
  BY <1>1, CloudFormationType, CloudFormationTurn DEF ProtocolInv
<1>2. ASSUME NEW n \in N, OnEventStep(n) PROVE ProtocolInv'
  <2>1. TypeOK' BY <1>2, OnEventType
  <2>2. IdInv' /\ TurnInv' BY <1>2, OnEventQuietTurn, OnEventAnswerTurn DEF OnEventStep
  <2> QED BY <2>1, <2>2 DEF ProtocolInv
<1>3. ASSUME NEW n \in N, WaiterStep(n) PROVE ProtocolInv'
  BY <1>3, WaiterType, WaiterTurn DEF ProtocolInv
<1>4. CASE UNCHANGED vars
  <2>1. TypeOK' BY <1>4 DEF ProtocolInv, TypeOK, vars, cfn, mishaps
  <2>2. IdInv' BY <1>4 DEF ProtocolInv, IdInv, RequestId, PartyId, MarkersAreRight, Last, vars, cfn
  <2>3. TurnInv' BY <1>4 DEF ProtocolInv, TurnInv, OneTurn, Last, vars, cfn, mishaps
  <2> QED BY <2>1, <2>2, <2>3 DEF ProtocolInv
<1> QED BY <1>1, <1>2, <1>3, <1>4 DEF Next

\* The invariant holds for every provider and every run of calls that fail.
THEOREM ProviderInvariant == Spec => []ProtocolInv
BY ProtocolInit, ProtocolStep, PTL DEF Spec

\* How a call that adds at most one answer to one request maps to the protocol.
LEMMA AnswerMaps ==
  ASSUME ProtocolInv, NEW n \in N, NEW answer,
         onEvent[n].pc \notin {"none", "done"} \/ waiter[n].pc \notin {"none", "thrown", "done"},
         UNCHANGED <<requests, pending>>, answers' \in [N -> Seq(Answer)],
         lost => lost', \A m \in N : m # n => answers'[m] = answers[m],
         answers' = answers \/ answers'[n] = Append(answers[n], answer)
  PROVE  Protocol!Next \/ UNCHANGED Protocol!vars
<1> DEFINE Answered0 == {m \in N : answers[m] # <<>>}
           Doubled0 == {m \in N : Len(answers[m]) > 1}
<1>0. TypeOK /\ TurnInv BY DEF ProtocolInv
<1>1. n \in 1..Last /\ Last = Len(requests) BY AtWork DEF Last
<1>2. lost \in BOOLEAN /\ answers[n] \in Seq(Answer) /\ answers \in [N -> Seq(Answer)]
  BY <1>0 DEF TypeOK
<1>3. ~lost => n = Last /\ pending /\ answers[n] = <<>>
  BY <1>0 DEF TurnInv, OneTurn
<1>4. Len(requests)' = Len(requests) /\ pending' = pending OBVIOUS
<1>5. CASE answers' = answers
  <2>1. Answered0' = Answered0 /\ Doubled0' = Doubled0 BY <1>5
  <2>2. CASE lost' <=> lost BY <1>4, <2>1, <2>2 DEF Protocol!vars
  <2>3. CASE ~(lost' <=> lost)
    <3>1. Protocol!LoseCall BY <1>4, <2>1, <2>3 DEF Protocol!LoseCall
    <3> QED BY <3>1 DEF Protocol!Next
  <2> QED BY <2>2, <2>3
<1>6. CASE answers'[n] = Append(answers[n], answer)
  <2>1. answers'[n] # <<>> /\ Len(answers'[n]) = Len(answers[n]) + 1 BY <1>2, <1>6
  <2>2. Answered0' = Answered0 \cup {n} BY <2>1
  <2>3. CASE answers[n] = <<>>
    <3>1. Doubled0' = Doubled0
      <4>1. Len(answers'[n]) = 1 /\ Len(answers[n]) = 0 BY <1>2, <2>1, <2>3
      <4>2. ASSUME NEW m \in N PROVE (Len(answers'[m]) > 1) <=> (Len(answers[m]) > 1)
        <5>1. CASE m = n
          <6>1. Len(answers'[m]) = 1 /\ Len(answers[m]) = 0 BY <4>1, <5>1, Zenon
          <6>2. \A k, l : k = 1 /\ l = 0 => ((k > 1) <=> (l > 1)) BY SMT
          <6> QED BY <6>1, <6>2, Zenon
        <5>2. CASE m # n BY <5>2
        <5> QED BY <5>1, <5>2
      <4> QED BY <4>2
    <3>2. Protocol!Answer(n)
      BY <1>1, <1>3, <1>4, <2>2, <2>3, <3>1 DEF Protocol!Answer
    <3> QED BY <1>1, <3>2 DEF Protocol!Next
  <2>4. CASE answers[n] # <<>>
    <3>1. lost /\ lost' BY <1>3, <2>4
    <3>2. Len(answers[n]) # 0 /\ Len(answers[n]) \in Nat BY <1>2, <2>4
    <3>3. Doubled0' = Doubled0 \cup {n} BY <2>1, <3>2
    <3>4. Answered0' = Answered0 BY <2>2, <2>4
    <3>5. Protocol!AnswerAgain(n)
      BY <1>4, <2>4, <3>1, <3>3, <3>4 DEF Protocol!AnswerAgain
    <3> QED BY <1>1, <3>5 DEF Protocol!Next
  <2> QED BY <2>3, <2>4
<1> QED BY <1>5, <1>6

\* Every step is a step of the protocol, or changes nothing of it.
LEMMA ProtocolMaps == ProtocolInv /\ [Next]_vars => [Protocol!Next]_Protocol!vars
<1> SUFFICES ASSUME ProtocolInv, [Next]_vars PROVE [Protocol!Next]_Protocol!vars
  OBVIOUS
<1>0. TypeOK /\ TurnInv BY DEF ProtocolInv
<1>1. CASE CloudFormationStep
  <2>1. CASE SendFirst \/ SendFollowUp
    <3>1. PICK type, id : Send(type, id) BY <2>1 DEF SendFirst, SendFollowUp
    <3>2. Len(requests)' = Len(requests) + 1 /\ ~pending /\ pending' /\ UNCHANGED <<answers, lost>>
      <4>1. requests \in Seq(Request) BY <1>0 DEF TypeOK
      <4> QED BY <3>1, <4>1 DEF Send, mishaps
    <3>3. Protocol!Send BY <3>2 DEF Protocol!Send
    <3> QED BY <3>3 DEF Protocol!Next
  <2>2. CASE CreateAnswered \/ UpdateAnswered \/ DeleteAnswered
    <3>1. PICK type : Answered(type) BY <2>2 DEF CreateAnswered, UpdateAnswered, DeleteAnswered
    <3>2. /\ pending /\ pending' = FALSE /\ answers[Last] # <<>>
          /\ UNCHANGED <<requests, answers, lost>>
      BY <3>1 DEF Answered, mishaps
    <3>3. Last = Len(requests) /\ Last \in N BY <1>0, <3>2 DEF TurnInv, TypeOK, Last, N
    <3>4. Protocol!Receive BY <3>2, <3>3 DEF Protocol!Receive
    <3> QED BY <3>4 DEF Protocol!Next
  <2> QED BY <1>1, <2>1, <2>2 DEF CloudFormationStep
<1>2. ASSUME NEW n \in N, OnEventStep(n) \/ WaiterStep(n)
      PROVE  Protocol!Next \/ UNCHANGED Protocol!vars
  <2>1. onEvent[n].pc \notin {"none", "done"} \/ waiter[n].pc \notin {"none", "thrown", "done"}
    BY <1>2 DEF OnEventStep, UserCreates, UserUpdates, UserDeletes, UserFails, StartExecution,
                SubmitSuccess, SubmitFailed, IgnoreDelete, InvokeAgain, OnEventAt,
                WaiterStep, IsComplete, TaskCrashes, WaiterSubmitsSuccess, WaiterSubmitsFailed,
                OnTimeout, WaiterAt
  <2>2. UNCHANGED <<requests, pending>>
    BY <1>2 DEF OnEventStep, UserCreates, UserUpdates, UserDeletes, UserFails, StartExecution,
                SubmitSuccess, SubmitFailed, IgnoreDelete, InvokeAgain, OnEventAt,
                WaiterStep, IsComplete, TaskCrashes, WaiterSubmitsSuccess, WaiterSubmitsFailed,
                OnTimeout, WaiterAt, cfn
  <2>3. \/ UNCHANGED answers /\ (NoFault \/ \E kind : Fault(kind))
        \/ \E status \in {"SUCCESS", "FAILED"}, resolved \in BOOLEAN :
             Submit(n, status, onEvent[n].id, resolved) /\ onEvent[n].pc = "success"
        \/ \E resolved \in BOOLEAN :
             Submit(n, "FAILED", FailureId(n), resolved) /\ onEvent[n].pc = "failed"
        \/ \E resolved \in BOOLEAN : Submit(n, "SUCCESS", Marker, resolved)
        \/ \E status \in {"SUCCESS", "FAILED"}, resolved \in BOOLEAN :
             Submit(n, status, waiter[n].id, resolved) /\ waiter[n].pc # "none"
    <3>1. CASE OnEventStep(n)
      BY <3>1 DEF OnEventStep, UserCreates, UserUpdates, UserDeletes, UserFails, StartExecution,
                  SubmitSuccess, SubmitFailed, IgnoreDelete, InvokeAgain, OnEventAt, NoFault
    <3>2. CASE WaiterStep(n)
      BY <3>2 DEF WaiterStep, IsComplete, TaskCrashes, WaiterSubmitsSuccess, WaiterSubmitsFailed,
                  OnTimeout, WaiterAt
    <3> QED BY <1>2, <3>1, <3>2
  <2>4. ASSUME UNCHANGED answers, NoFault \/ \E kind : Fault(kind)
        PROVE  Protocol!Next \/ UNCHANGED Protocol!vars
    <3>1. lost => lost' BY <1>0, <2>4, FaultType DEF NoFault, mishaps
    <3>2. answers' \in [N -> Seq(Answer)] BY <1>0, <2>4 DEF TypeOK
    <3> QED BY <2>1, <2>2, <2>4, <3>1, <3>2, AnswerMaps
  <2>5. ASSUME NEW status \in {"SUCCESS", "FAILED"}, NEW id \in PhysicalId \cup {Marker},
               NEW resolved \in BOOLEAN, Submit(n, status, id, resolved)
        PROVE  Protocol!Next \/ UNCHANGED Protocol!vars
    <3>1. /\ answers' \in [N -> Seq(Answer)] /\ (lost => lost')
          /\ \A m \in N : m # n => answers'[m] = answers[m]
          /\ \/ answers' = answers
             \/ answers'[n] = Append(answers[n], [status |-> status, id |-> id])
      BY <1>0, <2>5, SubmitEffect
    <3> QED BY <2>1, <2>2, <3>1, AnswerMaps
  <2>6. /\ PartyId(n) /\ n \in 1..Last /\ RequestId(n)
        /\ requests[n].type \in {"Create", "Update", "Delete"}
    BY <2>1, AtWork DEF ProtocolInv, IdInv
  <2>7. onEvent[n].pc = "success" => onEvent[n].id \in PhysicalId BY <2>6 DEF PartyId
  <2>8. waiter[n].pc # "none" => waiter[n].id \in PhysicalId BY <2>6 DEF PartyId
  <2>9. FailureId(n) \in PhysicalId \cup {Marker} BY <2>6 DEF FailureId, RequestId
  <2> QED BY <2>3, <2>4, <2>5, <2>7, <2>8, <2>9
<1>3. CASE UNCHANGED vars BY <1>3 DEF vars, cfn, mishaps, Protocol!vars
<1> QED BY <1>1, <1>2, <1>3 DEF Next

\* A provider keeps to the protocol whatever calls are rejected, and after a call
\* that was lost the only thing that goes wrong is an answer too many.
THEOREM ProviderAnswersOnce == Spec => AnswersOnce
<1>1. Init => Protocol!Init
  BY ProtocolInit DEF Init, Protocol!Init
<1>2. Spec => []ProtocolInv BY ProviderInvariant
<1> QED BY <1>1, <1>2, ProtocolMaps, PTL DEF Spec, AnswersOnce, Protocol!Spec

-----------------------------------------------------------------------------
(* No physical resource is lost track of.                                  *)

\* NoId is no physical id, and neither is the marker.
LEMMA NoPhysicalId == NoId \notin PhysicalId /\ Marker \notin PhysicalId
BY DEF PhysicalId, N

\* A step of the party that serves the last request keeps track, if what it leaves
\* behind is in order.
LEMMA PartyTracks ==
  ASSUME ProtocolInv, TrackingInv, ~lost, NEW n \in N, n = Last, pending, UNCHANGED cfn,
         \A m \in N : onEvent[m].stranded => onEvent'[m].stranded,
         real' \subseteq real \cup Named(n)', real \ real' \subseteq {requests[n].id},
         requests[n].type # "Delete" => real \subseteq real',
         Named(n) \subseteq Named(n)' \/ (\E m \in N : onEvent'[m].stranded),
         Outcome(n)'
  PROVE  TrackingInv'
<1>1. Last' = Last /\ UNCHANGED <<requests, pending, followUp, resource, abandoned>>
  BY DEF cfn, Last
<1>2. OnRecord(n) /\ Accounted(n) /\ (followUp # NoId => ~pending) BY DEF TrackingInv
<1>3. requests[n].type \in {"Create", "Update", "Delete"}
  <2>1. requests \in Seq(Request) /\ n \in 1..Len(requests)
    BY DEF ProtocolInv, TypeOK, Last, N
  <2>2. requests[n] \in Request BY <2>1
  <2> QED BY <2>2 DEF Request
<1>4. OnRecord(n)' BY <1>1, <1>2, <1>3 DEF OnRecord
<1>5. Accounted(n)'
  <2>1. NothingStranded' => NothingStranded /\ Named(n) \subseteq Named(n)'
    BY DEF NothingStranded
  <2> HIDE DEF Named
  <2> QED BY <1>1, <1>2, <2>1 DEF Accounted
<1> QED BY <1>1, <1>2, <1>4, <1>5 DEF TrackingInv

\* A call that was lost stays lost.
LEMMA StaysLost == ASSUME ProtocolInv, NEW n \in N, OnEventStep(n) \/ WaiterStep(n) PROVE lost => lost'
<1>1. NoFault \/ Refuse(n) \/ \E kind : Fault(kind)
  BY DEF OnEventStep, UserCreates, UserUpdates, UserDeletes, UserFails, StartExecution, SubmitSuccess,
         SubmitFailed, IgnoreDelete, InvokeAgain, WaiterStep, IsComplete, TaskCrashes,
         WaiterSubmitsSuccess, WaiterSubmitsFailed, OnTimeout, Submit, NoFault
<1> QED BY <1>1, FaultType, RefuseType DEF ProtocolInv, NoFault, mishaps

\* What a response adds, when nothing has been lost: the first and only one, or none.
LEMMA FirstAnswer ==
  ASSUME ProtocolInv, ~lost', NEW n \in N, answers[n] = <<>>, NEW status \in {"SUCCESS", "FAILED"},
         NEW id \in PhysicalId \cup {Marker}, NEW resolved \in BOOLEAN, Submit(n, status, id, resolved)
  PROVE  /\ \/ answers' = answers
            \/ answers'[n] # <<>> /\ answers'[n][1] = [status |-> status, id |-> id]
         /\ ~resolved => answers' = answers
<1>1. /\ \/ answers' = answers
         \/ answers'[n] = Append(<<>>, [status |-> status, id |-> id])
      /\ ~resolved => answers' = answers
  BY SubmitEffect DEF ProtocolInv
<1> QED BY <1>1

\* The steps of onEvent.
LEMMA OnEventTracks ==
  ASSUME ProtocolInv, TrackingInv, ~lost', NEW n \in N, OnEventStep(n) PROVE TrackingInv'
<1>0. TypeOK /\ IdInv /\ TurnInv BY DEF ProtocolInv
<1>1. onEvent[n].pc \notin {"none", "done"} /\ UNCHANGED cfn
  BY DEF OnEventStep, UserCreates, UserUpdates, UserDeletes, UserFails, StartExecution, SubmitSuccess,
         SubmitFailed, IgnoreDelete, InvokeAgain, OnEventAt
<1>2. ~lost BY StaysLost
<1>3. n = Last /\ pending /\ answers[n] = <<>> /\ waiter[n].pc = "none"
  BY <1>0, <1>1, <1>2 DEF TurnInv, OneTurn
<1>4. OnRecord(n) /\ Outcome(n) BY <1>2, <1>3 DEF TrackingInv
<1>5. PartyId(n) /\ RequestId(n) /\ n \in 1..Last
      /\ requests[n].type \in {"Create", "Update", "Delete"}
  BY <1>0, <1>1, AtWork DEF IdInv
<1>6. onEvent \in [N -> [pc : OnEventPc, id : PhysicalId \cup {NoId}, retries : 0..AsyncRetries,
                         stranded : BOOLEAN]]
      /\ waiter \in [N -> [pc : WaiterPc, id : PhysicalId \cup {NoId},
                           calls : 0..(MaxAttempts + 1), error : {"none", "Retry", "other"}]]
      /\ real \subseteq PhysicalId
  BY <1>0 DEF TypeOK
<1>7. UNCHANGED requests BY <1>1 DEF cfn
<1>8. Named(n) = IF onEvent[n].pc \in {"start", "success"} THEN {onEvent[n].id} ELSE {}
  BY <1>1, <1>3 DEF Named, Working
\* The handler does its work.
<1>9. ASSUME NEW id, Handled(n, id), onEvent[n].pc = "handle", UNCHANGED <<answers, waiter>>,
             IF requests[n].type = "Delete" THEN id = requests[n].id /\ real' = real \ {id}
             ELSE real' = real \cup {id}
      PROVE  TrackingInv'
  <2>1. /\ onEvent'[n].pc \in {"start", "success"} /\ onEvent'[n].id = id
        /\ \A m \in N : onEvent'[m].stranded = onEvent[m].stranded
    BY <1>6, <1>9 DEF Handled
  <2>2. Named(n)' = {id} /\ Named(n) = {} BY <1>3, <1>8, <1>9, <2>1 DEF Named, Working
  <2>3. Outcome(n)' BY <1>3, <1>7, <1>9, <2>1 DEF Outcome
  <2> QED BY <1>1, <1>2, <1>3, <1>9, <2>1, <2>2, <2>3, PartyTracks
\* Nothing has been done, or what has been done is forgotten.
<1>10. ASSUME NEW pc, pc \notin {"start", "success", "done"}, onEvent'[n].pc = pc,
              \A m \in N : onEvent[m].stranded => onEvent'[m].stranded,
              onEvent[n].pc \in {"start", "success"} => onEvent'[n].stranded,
              UNCHANGED <<answers, waiter>>,
              real' = real \/ (requests[n].type = "Delete" /\ real' = real \ {requests[n].id})
       PROVE  TrackingInv'
  <2>1. Named(n)' = {} BY <1>3, <1>10 DEF Named, Working
  <2>2. Outcome(n)' BY <1>3, <1>10 DEF Outcome, Working
  <2> QED BY <1>1, <1>2, <1>3, <1>8, <1>10, <2>1, <2>2, PartyTracks
<1>11. \A pc : OnEventGoto(n, pc) =>
         onEvent'[n].pc = pc /\ \A m \in N : onEvent'[m].stranded = onEvent[m].stranded
  BY <1>6 DEF OnEventGoto
<1>12. Strand(n) => /\ onEvent'[n].pc = "failed" /\ onEvent'[n].stranded
                    /\ \A m \in N : onEvent[m].stranded => onEvent'[m].stranded
  BY <1>6 DEF Strand
\* The answer is given.
<1>13. ASSUME NEW status \in {"SUCCESS", "FAILED"}, NEW id \in PhysicalId \cup {Marker},
              NEW resolved \in BOOLEAN, Submit(n, status, id, resolved), OnEventGoto(n, "done"),
              UNCHANGED <<waiter, real>>,
              onEvent[n].pc \in {"start", "success"} => id = onEvent[n].id,
              requests[n].type = "Update" => id \in real,
              requests[n].type = "Create" /\ status = "SUCCESS" => id \in real,
              requests[n].type = "Delete" =>
                id = requests[n].id /\ (status = "SUCCESS" => requests[n].id \notin real)
       PROVE  TrackingInv'
  <2>1. \/ answers' = answers
        \/ answers'[n] # <<>> /\ answers'[n][1] = [status |-> status, id |-> id]
    <3>1. answers[n] = <<>> BY <1>3
    <3>2. Submit(n, status, id, resolved) BY <1>13
    <3> QED BY <3>1, <3>2, FirstAnswer
  <2>2. onEvent'[n].pc = "done" /\ onEvent'[n].id = onEvent[n].id
    BY <1>6, <1>13 DEF OnEventGoto
  <2>3. ~Working(n)' BY <1>3, <1>11, <1>13 DEF Working
  <2>4. Named(n) \subseteq Named(n)'
    <3>1. CASE answers' = answers
      <4>1. Named(n)' = {onEvent[n].id} BY <1>3, <2>2, <3>1 DEF Named
      <4> QED BY <1>8, <4>1
    <3>2. CASE answers'[n] # <<>> /\ answers'[n][1] = [status |-> status, id |-> id]
      <4>1. Named(n)' = {id} BY <3>2 DEF Named
      <4> QED BY <1>8, <1>13, <4>1
    <3> QED BY <2>1, <3>1, <3>2
  <2>5. Outcome(n)' BY <1>3, <1>7, <1>13, <2>1, <2>3 DEF Outcome
  <2> QED BY <1>1, <1>2, <1>3, <1>11, <1>13, <2>4, <2>5, PartyTracks
<1>14. CASE UserCreates(n)
  BY <1>9, <1>14 DEF UserCreates, OnEventAt
<1>15. CASE UserUpdates(n)
  BY <1>9, <1>15 DEF UserUpdates, OnEventAt
<1>16. CASE UserDeletes(n)
  BY <1>9, <1>10, <1>11, <1>16 DEF UserDeletes, OnEventAt
<1>17. CASE UserFails(n)
  BY <1>10, <1>11, <1>17 DEF UserFails, OnEventAt
<1>18. CASE StartExecution(n)
  <2>1. onEvent[n].pc = "start" /\ UNCHANGED <<answers, real>>
    BY <1>18 DEF StartExecution, OnEventAt
  <2>2. CASE Strand(n) /\ UNCHANGED waiter BY <1>10, <1>12, <2>1, <2>2
  <2>3. CASE /\ waiter' = [waiter EXCEPT ![n] = [@ EXCEPT !.pc = "task", !.id = onEvent[n].id]]
             /\ OnEventGoto(n, "done")
    <3>1. waiter'[n].pc = "task" /\ waiter'[n].id = onEvent[n].id BY <1>6, <2>3
    <3>2. onEvent'[n].id = onEvent[n].id BY <1>6, <2>3 DEF OnEventGoto
    <3>3. Working(n) /\ Working(n)' BY <2>1, <3>1 DEF Working
    <3>4. Named(n)' = Named(n) BY <1>3, <2>1, <3>2, <3>3 DEF Named
    <3>5. Outcome(n)' BY <1>3, <1>4, <1>7, <2>1, <3>1, <3>2, <3>3 DEF Outcome
    <3> QED BY <1>1, <1>2, <1>3, <1>11, <2>1, <2>3, <3>4, <3>5, PartyTracks
  <2>4. ~Fault("lost")
    BY <1>0, FaultType
  <2> QED BY <1>3, <1>18, <2>2, <2>3, <2>4 DEF StartExecution
<1>19. CASE SubmitSuccess(n)
  <2>1. PICK resolved \in BOOLEAN :
          /\ Submit(n, "SUCCESS", onEvent[n].id, resolved)
          /\ IF resolved THEN OnEventGoto(n, "done") ELSE Strand(n)
    BY <1>19 DEF SubmitSuccess
  <2>2. onEvent[n].pc = "success" /\ UNCHANGED <<waiter, real>>
        /\ onEvent[n].id \in PhysicalId
    BY <1>5, <1>19 DEF SubmitSuccess, OnEventAt, PartyId
  <2>3. IF requests[n].type = "Delete"
        THEN onEvent[n].id = requests[n].id /\ requests[n].id \notin real
        ELSE onEvent[n].id \in real
    BY <1>4, <2>2 DEF Outcome, Working
  <2>4. CASE resolved
    <3>1. Submit(n, "SUCCESS", onEvent[n].id, resolved) /\ OnEventGoto(n, "done") BY <2>1, <2>4, Zenon
    <3> QED BY <1>5, <1>13, <2>2, <2>3, <3>1
  <2>5. CASE ~resolved
    <3>1. answers[n] = <<>> /\ onEvent[n].id \in PhysicalId \cup {Marker} BY <1>3, <2>2
    <3>2. Submit(n, "SUCCESS", onEvent[n].id, FALSE) BY <2>1, <2>5, Zenon
    <3>3. UNCHANGED answers BY <3>1, <3>2, FirstAnswer, Zenon
    <3> QED BY <1>10, <1>12, <2>1, <2>2, <2>5, <3>3
  <2> QED BY <2>4, <2>5
<1>20. CASE SubmitFailed(n)
  <2>1. PICK resolved \in BOOLEAN :
          /\ Submit(n, "FAILED", FailureId(n), resolved)
          /\ OnEventGoto(n, IF resolved THEN "done" ELSE "thrown")
    BY <1>20 DEF SubmitFailed
  <2>2. onEvent[n].pc = "failed" /\ UNCHANGED <<waiter, real>>
    BY <1>20 DEF SubmitFailed, OnEventAt
  <2>3. /\ FailureId(n) \in PhysicalId \cup {Marker}
        /\ requests[n].type = "Update" => FailureId(n) \in real
        /\ requests[n].type = "Delete" => FailureId(n) = requests[n].id
    BY <1>4, <1>5 DEF FailureId, RequestId, OnRecord
  <2>4. CASE resolved
    <3>1. Submit(n, "FAILED", FailureId(n), resolved) /\ OnEventGoto(n, "done") BY <2>1, <2>4, Zenon
    <3>2. onEvent[n].pc \notin {"start", "success"} /\ "FAILED" # "SUCCESS" BY <2>2
    <3> QED BY <1>13, <2>2, <2>3, <3>1, <3>2, Zenon
  <2>5. CASE ~resolved
    <3>1. Submit(n, "FAILED", FailureId(n), FALSE) /\ OnEventGoto(n, "thrown")
      BY <2>1, <2>5, Zenon
    <3>2. UNCHANGED answers BY <1>3, <2>3, <3>1, FirstAnswer, Zenon
    <3> QED BY <1>10, <1>11, <2>2, <3>1, <3>2
  <2> QED BY <2>4, <2>5
<1>21. CASE IgnoreDelete(n)
  <2>1. PICK resolved \in BOOLEAN :
          /\ Submit(n, "SUCCESS", Marker, resolved)
          /\ OnEventGoto(n, IF resolved THEN "done" ELSE "thrown")
    BY <1>21 DEF IgnoreDelete
  <2>2. onEvent[n].pc = "ignore" /\ UNCHANGED <<waiter, real>> /\ requests[n].id = Marker
    BY <1>5, <1>21 DEF IgnoreDelete, OnEventAt, PartyId
  <2>3. requests[n].type = "Delete" /\ requests[n].id \notin real
    BY <1>5, <1>6, <2>2, NoPhysicalId DEF RequestId
  <2>4. CASE resolved
    <3>1. Submit(n, "SUCCESS", Marker, resolved) /\ OnEventGoto(n, "done") BY <2>1, <2>4, Zenon
    <3>2. onEvent[n].pc \notin {"start", "success"} /\ requests[n].type \notin {"Create", "Update"}
      BY <2>2, <2>3
    <3> QED BY <1>13, <2>2, <2>3, <3>1, <3>2, Zenon
  <2>5. CASE ~resolved
    <3>1. Submit(n, "SUCCESS", Marker, FALSE) /\ OnEventGoto(n, "thrown")
      BY <2>1, <2>5, Zenon
    <3>2. UNCHANGED answers BY <1>3, <3>1, FirstAnswer
    <3> QED BY <1>10, <1>11, <2>2, <3>1, <3>2
  <2> QED BY <2>4, <2>5
<1>22. CASE InvokeAgain(n)
  <2>1. /\ \A m \in N : onEvent'[m].stranded = onEvent[m].stranded
        /\ onEvent'[n].pc \in {"ignore", "handle"}
    BY <1>6, <1>22 DEF InvokeAgain
  <2> QED BY <1>10, <1>22, <2>1 DEF InvokeAgain, OnEventAt
<1> QED BY <1>14, <1>15, <1>16, <1>17, <1>18, <1>19, <1>20, <1>21, <1>22 DEF OnEventStep

\* The steps of the waiter.
LEMMA WaiterTracks ==
  ASSUME ProtocolInv, TrackingInv, ~lost', NEW n \in N, WaiterStep(n) PROVE TrackingInv'
<1>0. TypeOK /\ IdInv /\ TurnInv BY DEF ProtocolInv
<1>1. waiter[n].pc \notin {"none", "thrown", "done"} /\ UNCHANGED <<cfn, onEvent, real>>
  BY DEF WaiterStep, IsComplete, TaskCrashes, WaiterSubmitsSuccess, WaiterSubmitsFailed, OnTimeout,
         WaiterAt
<1>2. ~lost BY StaysLost
<1>3. n = Last /\ pending /\ answers[n] = <<>> /\ onEvent[n].pc = "done"
  BY <1>0, <1>1, <1>2 DEF TurnInv, OneTurn
<1>4. OnRecord(n) /\ Outcome(n) BY <1>2, <1>3 DEF TrackingInv
<1>5. waiter[n].id \in PhysicalId BY <1>0, <1>1 DEF IdInv, PartyId
<1>6. waiter \in [N -> [pc : WaiterPc, id : PhysicalId \cup {NoId},
                        calls : 0..(MaxAttempts + 1), error : {"none", "Retry", "other"}]]
  BY <1>0 DEF TypeOK
<1>7. UNCHANGED requests BY <1>1 DEF cfn
<1>8. Working(n) BY <1>1 DEF Working
<1>9. Named(n) = {onEvent[n].id} /\ waiter[n].id = onEvent[n].id
  BY <1>1, <1>3, <1>4, <1>8 DEF Named, Outcome
<1> DEFINE Kept(pc) == waiter'[n].pc = pc /\ waiter'[n].id = waiter[n].id
<1>10. \A pc : WaiterGoto(n, pc) => Kept(pc) BY <1>6 DEF WaiterGoto
<1>11. \A error : TaskFails(n, error) => Kept("task") \/ Kept("onTimeout") BY <1>6 DEF TaskFails
\* It goes on, or gives up, without an answer.
<1>12. ASSUME NEW pc, pc # "none", Kept(pc), UNCHANGED answers PROVE TrackingInv'
  <2>1. Named(n)' = {onEvent[n].id} BY <1>1, <1>3, <1>12 DEF Named, Working
  <2>2. Outcome(n)' BY <1>1, <1>3, <1>4, <1>7, <1>8, <1>9, <1>12 DEF Outcome
  <2> QED BY <1>1, <1>2, <1>3, <1>9, <2>1, <2>2, PartyTracks
\* It answers, or its answer is refused.
<1>13. ASSUME NEW status \in {"SUCCESS", "FAILED"}, NEW resolved \in BOOLEAN,
              Submit(n, status, waiter[n].id, resolved), Kept("done")
       PROVE  TrackingInv'
  <2>1. \/ answers' = answers
        \/ answers'[n] # <<>> /\ answers'[n][1] = [status |-> status, id |-> waiter[n].id]
    <3>1. waiter[n].id \in PhysicalId \cup {Marker} BY <1>5
    <3> HIDE DEF Kept
    <3> QED BY <1>3, <1>13, <3>1, FirstAnswer
  <2>2. Named(n)' = {onEvent[n].id} BY <1>1, <1>3, <1>9, <2>1 DEF Named
  <2>3. ~Working(n)' BY <1>1, <1>3, <1>13 DEF Working
  <2>4. IF requests[n].type = "Delete"
        THEN waiter[n].id = requests[n].id /\ requests[n].id \notin real
        ELSE waiter[n].id \in real
    BY <1>4, <1>8, <1>9 DEF Outcome
  <2>5. Outcome(n)' BY <1>1, <1>3, <1>7, <1>9, <1>13, <2>1, <2>3, <2>4 DEF Outcome
  <2> QED BY <1>1, <1>2, <1>3, <1>9, <2>2, <2>5, PartyTracks
<1> HIDE DEF Kept
\* It answers, or its call is rejected.
<1>14. ASSUME NEW status \in {"SUCCESS", "FAILED"}, NEW resolved \in BOOLEAN,
              Submit(n, status, waiter[n].id, resolved),
              NEW pc, pc # "none", Kept(pc), resolved => pc = "done"
       PROVE  TrackingInv'
  <2>1. CASE resolved
    <3>1. Kept("done") BY <1>14, <2>1
    <3> QED BY <1>13, <1>14, <3>1
  <2>2. CASE ~resolved
    <3>1. PICK id \in PhysicalId \cup {Marker} : id = waiter[n].id BY <1>5
    <3>2. Submit(n, status, id, resolved) BY <1>14, <3>1
    <3>3. answers[n] = <<>> BY <1>3
    <3>4. /\ \/ answers' = answers
             \/ answers'[n] # <<>> /\ answers'[n][1] = [status |-> status, id |-> id]
          /\ ~resolved => answers' = answers
      BY <3>2, <3>3, FirstAnswer
    <3> QED BY <1>12, <1>14, <2>2, <3>4
  <2> QED BY <2>1, <2>2
<1>15. CASE IsComplete(n)
  <2>1. UNCHANGED answers BY <1>15 DEF IsComplete
  <2>2. Kept("success") \/ Kept("failed") \/ Kept("task") \/ Kept("onTimeout")
    BY <1>10, <1>11, <1>15 DEF IsComplete
  <2> QED BY <1>12, <2>1, <2>2
<1>16. CASE TaskCrashes(n)
  <2>1. UNCHANGED answers /\ (Kept("task") \/ Kept("onTimeout")) BY <1>11, <1>16 DEF TaskCrashes
  <2> QED BY <1>12, <2>1
<1>17. CASE WaiterSubmitsSuccess(n)
  <2>1. PICK resolved \in BOOLEAN :
          /\ Submit(n, "SUCCESS", waiter[n].id, resolved)
          /\ WaiterGoto(n, IF resolved THEN "done" ELSE "failed")
    BY <1>17 DEF WaiterSubmitsSuccess
  <2>2. Kept(IF resolved THEN "done" ELSE "failed") BY <1>10, <2>1
  <2> QED BY <1>14, <2>1, <2>2
<1>18. CASE WaiterSubmitsFailed(n)
  <2>1. PICK resolved \in BOOLEAN :
          /\ Submit(n, "FAILED", waiter[n].id, resolved)
          /\ IF resolved THEN WaiterGoto(n, "done") ELSE TaskFails(n, "other")
    BY <1>18 DEF WaiterSubmitsFailed
  <2>2. \E pc \in {"done", "task", "onTimeout"} : Kept(pc) /\ (resolved => pc = "done")
    BY <1>10, <1>11, <2>1
  <2> QED BY <1>14, <2>1, <2>2
<1>19. CASE OnTimeout(n)
  <2>1. CASE \E resolved \in BOOLEAN : /\ Submit(n, "FAILED", waiter[n].id, resolved)
                                       /\ WaiterGoto(n, IF resolved THEN "done" ELSE "thrown")
    <3>1. PICK resolved \in BOOLEAN : /\ Submit(n, "FAILED", waiter[n].id, resolved)
                                      /\ WaiterGoto(n, IF resolved THEN "done" ELSE "thrown")
      BY <2>1
    <3>2. Kept(IF resolved THEN "done" ELSE "thrown") BY <1>10, <3>1
    <3> QED BY <1>14, <3>1, <3>2
  <2>2. CASE WaiterGoto(n, "thrown") /\ UNCHANGED answers BY <1>10, <1>12, <2>2
  <2> QED BY <1>19, <2>1, <2>2 DEF OnTimeout
<1> QED BY <1>15, <1>16, <1>17, <1>18, <1>19 DEF WaiterStep

\* CloudFormation's steps.
LEMMA CloudFormationTracks ==
  ASSUME ProtocolInv, TrackingInv, ~lost', CloudFormationStep PROVE TrackingInv'
<1>0. TypeOK /\ IdInv /\ TurnInv BY DEF ProtocolInv
<1>1. UNCHANGED <<real, lost, waiter, answers>>
  BY DEF CloudFormationStep, SendFirst, SendFollowUp, CreateAnswered, UpdateAnswered, DeleteAnswered,
         Send, Answered, mishaps
<1>2. /\ followUp # NoId => ~pending /\ followUp # resource
      /\ ~pending => /\ resource \in real \cup {NoId}
                     /\ NothingStranded => real \ abandoned \subseteq {resource, followUp}
      /\ pending => OnRecord(Last) /\ Outcome(Last) /\ Accounted(Last)
  BY <1>1 DEF TrackingInv
<1>3. requests \in Seq(Request) /\ Last \in Nat /\ Last = Len(requests)
      /\ real \subseteq PhysicalId
      /\ onEvent \in [N -> [pc : OnEventPc, id : PhysicalId \cup {NoId}, retries : 0..AsyncRetries,
                            stranded : BOOLEAN]]
  BY <1>0 DEF TypeOK, Last
\* A request is sent.
<1>4. ASSUME NEW type \in {"Create", "Update", "Delete"}, NEW id, Send(type, id),
             followUp' = NoId, UNCHANGED resource,
             type = "Create" => resource = NoId,
             type = "Update" => id = resource /\ resource # NoId,
             {resource, followUp} \subseteq {resource, id, NoId}
      PROVE  TrackingInv'
  <2>1. PICK next \in N : next = Last + 1 BY <1>3, <1>4 DEF Send, N
  <2>2. Last' = next /\ requests'[next] = [type |-> type, id |-> id]
    BY <1>3, <1>4, <2>1 DEF Send, Last
  <2>3. /\ \A m \in N : onEvent'[m].stranded = onEvent[m].stranded
        /\ onEvent'[next].pc \in {"ignore", "handle"}
        /\ ~pending /\ pending' = TRUE /\ UNCHANGED abandoned
    BY <1>3, <1>4, <2>1 DEF Send
  <2>4. waiter[next].pc = "none" /\ answers[next] = <<>>
    BY <1>0, <1>3, <2>1 DEF TurnInv
  <2>5. OnRecord(next)' BY <1>1, <1>2, <1>4, <2>2, <2>3 DEF OnRecord
  <2>6. Outcome(next)' BY <1>1, <2>3, <2>4 DEF Outcome, Working
  <2>7. Accounted(next)'
    <3>1. NothingStranded' => NothingStranded BY <2>3 DEF NothingStranded
    <3>2. real \subseteq PhysicalId /\ NoId \notin real BY <1>3, NoPhysicalId
    <3> QED BY <1>1, <1>2, <1>4, <2>2, <2>3, <3>1, <3>2 DEF Accounted
  <2> QED BY <1>4, <2>2, <2>3, <2>5, <2>6, <2>7 DEF TrackingInv
<1>5. CASE SendFirst
  <2>1. UNCHANGED followUp /\ followUp = NoId BY <1>5 DEF SendFirst
  <2>2. PICK type \in {"Create", "Update", "Delete"} :
          /\ Send(type, IF resource = NoId THEN NoId ELSE resource)
          /\ resource = NoId <=> type = "Create"
    BY <1>5 DEF SendFirst
  <2>3. UNCHANGED resource BY <2>2 DEF Send
  <2> QED BY <1>4, <2>1, <2>2, <2>3
<1>6. CASE SendFollowUp
  BY <1>4, <1>6 DEF SendFollowUp, Send
\* A request is answered: what the answer names, and what is left of the rest.
<1>7. ASSUME NEW type, Answered(type)
      PROVE  /\ OnRecord(Last) /\ pending' = FALSE /\ followUp = NoId
             /\ requests[Last].type = type
             /\ Head(answers[Last]) = answers[Last][1] /\ Head(answers[Last]) \in Answer
             /\ answers[Last] # <<>> /\ Outcome(Last)
             /\ NothingStranded' => real \ abandoned \subseteq
                  {resource, requests[Last].id, Head(answers[Last]).id}
  <2>1. pending /\ pending' = FALSE /\ answers[Last] # <<>> /\ UNCHANGED onEvent
        /\ requests[Last].type = type
    BY <1>7 DEF Answered
  <2>2. Last \in N /\ answers[Last] \in Seq(Answer)
    BY <1>0, <1>3, <2>1 DEF TurnInv, TypeOK, N
  <2>3. Head(answers[Last]) = answers[Last][1] /\ Head(answers[Last]) \in Answer BY <2>1, <2>2
  <2>4. NothingStranded' => NothingStranded BY <2>1 DEF NothingStranded
  <2>5. Named(Last) = {Head(answers[Last]).id} BY <2>1, <2>3 DEF Named
  <2> QED BY <1>2, <2>1, <2>3, <2>4, <2>5 DEF Accounted
\* What is left when a request is answered.
<1>8. ASSUME pending' = FALSE, followUp' # NoId => followUp' # resource',
             resource' \in real \cup {NoId},
             NothingStranded' => real \ abandoned' \subseteq {resource', followUp'}
      PROVE  TrackingInv'
  BY <1>1, <1>8 DEF TrackingInv
<1>9. CASE CreateAnswered
  <2> DEFINE answer == Head(answers[Last])
  <2>1. Answered("Create") /\ UNCHANGED abandoned BY <1>9 DEF CreateAnswered
  <2>2. \/ answer.status = "SUCCESS" /\ resource' = answer.id /\ UNCHANGED followUp
        \/ answer.status # "SUCCESS" /\ followUp' = answer.id /\ UNCHANGED resource
    BY <1>9 DEF CreateAnswered
  <2>3. resource = NoId /\ requests[Last].id = NoId /\ followUp = NoId
    <3>1. Last \in 1..Last BY <1>0, <1>3, <2>1 DEF Answered, TurnInv
    <3> QED BY <1>0, <1>7, <2>1, <3>1 DEF OnRecord, IdInv, RequestId
  <2>4. answer.status = "SUCCESS" => answer.id \in real BY <1>7, <2>1 DEF Outcome
  <2>5. NothingStranded' => real \ abandoned \subseteq {NoId, answer.id} BY <1>7, <2>1, <2>3
  <2>6. pending' = FALSE BY <2>1 DEF Answered
  <2> HIDE DEF answer
  <2> QED BY <1>3, <1>8, <2>1, <2>2, <2>3, <2>4, <2>5, <2>6, NoPhysicalId
<1>10. CASE UpdateAnswered
  <2> DEFINE answer == Head(answers[Last])
             old == requests[Last].id
  <2>1. /\ Answered("Update") /\ resource' = answer.id
        /\ \/ answer.id = old /\ UNCHANGED <<followUp, abandoned>>
           \/ answer.id # old /\ followUp' = old /\ UNCHANGED abandoned
           \/ answer.id # old /\ abandoned' = abandoned \cup {old} /\ UNCHANGED followUp
    BY <1>10 DEF UpdateAnswered
  <2>2. resource = old /\ resource \in real /\ followUp = NoId BY <1>7, <2>1 DEF OnRecord
  <2>3. answer.id \in real BY <1>7, <2>1 DEF Outcome
  <2>4. NothingStranded' => real \ abandoned \subseteq {old, answer.id} BY <1>7, <2>1, <2>2
  <2>5. pending' = FALSE BY <2>1 DEF Answered
  <2> HIDE DEF answer, old
  <2> QED BY <1>8, <2>1, <2>2, <2>3, <2>4, <2>5
<1>11. CASE DeleteAnswered
  <2> DEFINE answer == Head(answers[Last])
             id == requests[Last].id
  <2>1. /\ Answered("Delete") /\ UNCHANGED followUp
        /\ resource' = IF resource = id THEN NoId ELSE resource
        /\ abandoned' = IF answer.status = "FAILED" THEN abandoned \cup {id} ELSE abandoned
    BY <1>11 DEF DeleteAnswered
  <2>2. resource \in real \cup {NoId, id} /\ followUp = NoId BY <1>7, <2>1 DEF OnRecord
  <2>3. answer.id = id /\ (answer.status = "SUCCESS" => id \notin real) BY <1>7, <2>1 DEF Outcome
  <2>4. answer.status \in {"SUCCESS", "FAILED"} BY <1>7, <2>1 DEF Answer
  <2>5. NothingStranded' => real \ abandoned \subseteq {resource, id} BY <1>7, <2>1, <2>3
  <2>6. pending' = FALSE BY <2>1 DEF Answered
  <2>7. id \notin real \ abandoned' BY <2>1, <2>3, <2>4
  <2>8. abandoned \subseteq abandoned' BY <2>1
  <2>9. NothingStranded' => real \ abandoned' \subseteq {resource'} BY <2>1, <2>5, <2>7, <2>8
  <2>10. resource' \in real \cup {NoId} BY <2>1, <2>2
  <2> HIDE DEF answer, id
  <2> QED BY <1>8, <2>1, <2>2, <2>6, <2>9, <2>10
<1> QED BY <1>5, <1>6, <1>9, <1>10, <1>11 DEF CloudFormationStep

\* CloudFormation has on record what exists, and all that exists.
LEMMA TrackedWell == ProtocolInv /\ TrackingInv => ResourcesAreTracked
BY NoPhysicalId DEF ProtocolInv, TrackingInv, ResourcesAreTracked, NothingIsOrphaned,
                    RecordedResourceExists, Idle, NothingStranded, TypeOK

\* Whatever calls are rejected and whatever ids the handlers choose, between
\* requests the resource on record exists, and nothing else does but what
\* CloudFormation gave up, unless onEvent failed after the work of its handler.
THEOREM ProviderTracksResources == Spec => []ResourcesAreTracked
<1>1. Init => TrackingInv BY DEF Init, TrackingInv
<1>2. ASSUME ProtocolInv, TrackingInv, [Next]_vars PROVE TrackingInv'
  <2>1. CASE lost' BY <2>1 DEF TrackingInv
  <2>2. CASE ~lost' /\ Next
    BY <1>2, <2>2, CloudFormationTracks, OnEventTracks, WaiterTracks DEF Next
  <2>3. CASE UNCHANGED vars
    BY <1>2, <2>3 DEF TrackingInv, OnRecord, Outcome, Accounted, NothingStranded, Named, Working, Last,
                      vars, cfn, mishaps
  <2> QED BY <1>2, <2>1, <2>2, <2>3
<1>3. Spec => []ProtocolInv BY ProviderInvariant
<1> QED BY <1>1, <1>2, <1>3, TrackedWell, PTL DEF Spec

=============================================================================
