----------------------- MODULE ClusterResourceProofs -----------------------
(***************************************************************************)
(* The EKS cluster, proved for every set of templates, any number of       *)
(* requests and refused calls: no cluster is left over, what is on record  *)
(* is applied when a deployment has ended, and a cluster that was replaced *)
(* goes only when its replacement is active.  The inductive invariant is   *)
(* ClusterResource!SettledInv.                                             *)
(***************************************************************************)
EXTENDS ClusterResource, TLAPS

CInv == ClusterInv /\ SettledInv

-----------------------------------------------------------------------------
(* Shapes.                                                                 *)

LEMMA IdTypes ==
  /\ NoName \notin PhysicalId /\ MaxRequests \in Nat
  /\ \A n \in 1..MaxRequests : n \in PhysicalId
  /\ \A props \in Configs :
       /\ props.name \in Names \cup {NoName} /\ props.place \in Places /\ props.version \in 0..MaxVersion
       /\ props.logging \in Loggings /\ props.access \in Access /\ props.encryption \in Keys
<1>1. MaxRequests \in Nat /\ NoName \notin Names \cup Nat BY ConstantsAssumption
<1>2. NoName \notin PhysicalId BY <1>1 DEF PhysicalId
<1>3. \A n \in 1..MaxRequests : n \in PhysicalId BY DEF PhysicalId
<1>4. ASSUME NEW props \in Configs
      PROVE  /\ props.name \in Names \cup {NoName} /\ props.place \in Places /\ props.version \in 0..MaxVersion
             /\ props.logging \in Loggings /\ props.access \in Access /\ props.encryption \in Keys
  <2>1. props \in Config BY ConstantsAssumption
  <2> QED BY <2>1 DEF Config
<1> QED BY <1>1, <1>2, <1>3, <1>4

\* A cluster is there with all that it has, or it is not found.
LEMMA ClusterShape ==
  ASSUME TypeOK, NEW id \in PhysicalId
  PROVE  /\ Exists(id) <=> clusters[id] \in Cluster
         /\ ~Exists(id) <=> clusters[id].status = "NOT_FOUND"
         /\ Exists(id) => clusters[id].status \in ClusterStatus
         /\ clusters[id].status \in ClusterStatus => Exists(id)
<1>1. clusters[id] \in Cluster \cup {NoCluster} BY DEF TypeOK
<1>2. NoCluster.status = "NOT_FOUND" BY DEF NoCluster
<1>3. ASSUME NEW c \in Cluster PROVE c.status \in ClusterStatus BY DEF Cluster
<1> QED BY <1>1, <1>2, <1>3 DEF Exists, ClusterStatus

\* What a request is.
LEMMA RequestShape ==
  ASSUME TypeOK, RequestsInv
  PROVE  /\ request.type = "none" <=> request = NoRequest
         /\ queued.type = "none" <=> queued = NoRequest
         /\ \A r \in {request, queued} : r.type # "none" =>
              /\ r \in Request /\ r.new \in Configs /\ r.rollback \in BOOLEAN
              /\ r.type \in {"Create", "Update", "Delete"} /\ r.id \in PhysicalId \cup {NoName}
              /\ r.old \in Configs \cup {NoProps}
              /\ r.type \in {"Update", "Delete"} => r.id \in PhysicalId
              /\ r.type = "Update" => r.old \in Configs
<1>1. NoRequest.type = "none" BY DEF NoRequest
<1>2. ASSUME NEW r \in Request
      PROVE  /\ r.type \in {"Create", "Update", "Delete"} /\ r.new \in Configs /\ r.rollback \in BOOLEAN
             /\ r.id \in PhysicalId \cup {NoName} /\ r.old \in Configs \cup {NoProps}
  BY DEF Request
<1>3. request \in Request \cup {NoRequest} /\ queued \in Request \cup {NoRequest} BY DEF TypeOK
<1>4. ASSUME NEW r \in {request, queued}, r.type \in {"Update", "Delete"} PROVE r.id \in PhysicalId
  <2>1. RequestIsRight(r) BY DEF RequestsInv
  <2> QED BY <1>4, <2>1, IdTypes DEF RequestIsRight, TypeOK
<1>5. ASSUME NEW r \in {request, queued}, r.type = "Update" PROVE r.old \in Configs
  <2>1. RequestIsRight(r) BY DEF RequestsInv
  <2> QED BY <1>5, <2>1 DEF RequestIsRight
<1> QED BY <1>1, <1>2, <1>3, <1>4, <1>5

\* An update that was recorded.
LEMMA UpdateShape ==
  ASSUME TypeOK, NEW n \in DOMAIN updates
  PROVE  /\ n \in Nat \ {0} /\ updates[n] \in Update /\ updates[n].id \in PhysicalId /\ updates[n].to \in Cluster
         /\ updates[n].status \in {"InProgress", "Successful", "Failed"}
<1>1. updates \in Seq(Update) BY DEF TypeOK
<1>2. updates[n] \in Update /\ n \in Nat \ {0} BY <1>1
<1> QED BY <1>2 DEF Update

\* Where a handler stands.
LEMMA HandlerShape ==
  ASSUME TypeOK, RequestsInv
  PROVE  /\ handler.pc \in {"idle", "onEvent", "version", "waiting"}
         /\ handler.id \in PhysicalId \cup {NoName} /\ handler.updateId \in Nat
         /\ handler.pc # "idle" => request # NoRequest /\ queued = NoRequest /\ sent \in 1..MaxRequests
         /\ request # NoRequest => ClusterName \in PhysicalId
         /\ handler.pc = "waiting" => handler.id \in PhysicalId
         /\ handler.updateId # 0 => handler.updateId \in DOMAIN updates /\ handler.id \in PhysicalId
<1>1. handler \in HandlerState /\ handler.updateId \in 0..Len(updates) BY DEF TypeOK
<1>2. /\ handler.pc \in {"idle", "onEvent", "version", "waiting"}
      /\ handler.id \in PhysicalId \cup {NoName} /\ handler.updateId \in Nat
  BY <1>1 DEF HandlerState
<1>3. request # NoRequest => queued = NoRequest /\ sent \in 1..MaxRequests
  BY IdTypes DEF RequestsInv, TypeOK
<1>4. ASSUME request # NoRequest PROVE ClusterName \in PhysicalId
  <2>1. request.new.name \in Names \cup {NoName} BY <1>4, RequestShape, IdTypes
  <2> QED BY <1>3, <1>4, <2>1, IdTypes DEF ClusterName, PhysicalId
<1>5. ASSUME handler.updateId # 0 PROVE handler.updateId \in DOMAIN updates /\ handler.id \in PhysicalId
  <2>1. handler.updateId \in DOMAIN updates BY <1>1, <1>2, <1>5 DEF TypeOK
  <2>2. updates[handler.updateId].id = handler.id BY <1>5 DEF RequestsInv, HandlerIsRight
  <2> QED BY <2>1, <2>2, UpdateShape
<1> QED BY <1>1, <1>2, <1>3, <1>4, <1>5 DEF RequestsInv, HandlerIsRight

-----------------------------------------------------------------------------
(* The kinds of steps.                                                     *)

\* The framework sends an answer.
Answers(status) ==
  /\ handler.pc # "idle" /\ Answer(status, handler.id)
  /\ UNCHANGED <<clusters, updates>> /\ refusals' \in 0..MaxRefusals
  /\ late \subseteq late' /\ late' \subseteq PhysicalId
  /\ \/ status = "SUCCESS" /\ handler.pc = "waiting" /\ IsComplete /\ drifted' = drifted \ SetByUpdate
     \/ /\ status = "FAILED" /\ drifted' = drifted
        /\ request.type = "Update" /\ KeepsCluster(request) => UnderWay(handler.id) = {} \/ handler.id \in late'

\* onEvent creates a cluster, for a creation or a replacement.
Creates ==
  /\ handler.pc = "onEvent"
  /\ request.type = "Create" \/ (request.type = "Update" /\ ~KeepsCluster(request))
  /\ ~Exists(ClusterName) /\ clusters' = [clusters EXCEPT ![ClusterName] = Created(request.new)]
  /\ Await(ClusterName, 0) /\ drifted' = {} /\ UNCHANGED <<updates, abandoned, late, refusals>>

\* onEvent begins to delete one, or finds it gone.
Deletes ==
  /\ handler.pc = "onEvent" /\ request.type = "Delete"
  /\ \/ clusters[request.id].status \in {"ACTIVE", "FAILED"} /\ SetStatus(request.id, "DELETING")
     \/ ~Exists(request.id) /\ UNCHANGED clusters
  /\ Await(request.id, 0) /\ UNCHANGED <<updates, history, refusals>>

\* onEvent finds nothing to do.
Keeps ==
  /\ handler.pc = "onEvent" /\ request.type = "Update" /\ KeepsCluster(request)
  /\ \/ /\ request.old.version # request.new.version
        /\ clusters[request.id].version = request.new.version
     \/ request.old.version = request.new.version /\ ~Analysis.logging /\ ~Analysis.access
  /\ Await(request.id, 0) /\ NotePassedOver /\ UNCHANGED <<clusters, updates, refusals>>

\* onEvent has looked the version up.
Looks ==
  /\ handler.pc = "onEvent" /\ request.type = "Update" /\ KeepsCluster(request)
  /\ request.old.version # request.new.version
  /\ handler' = [handler EXCEPT !.pc = "version"]
  /\ UNCHANGED <<cfn, history, clusters, updates, refusals>>

\* onEvent starts the update of a cluster.
Starts(to) ==
  /\ handler.pc \in {"onEvent", "version"} /\ request.type = "Update" /\ KeepsCluster(request)
  /\ StartUpdate(request.id, to)
  /\ \/ /\ request.old.version # request.new.version
        /\ clusters[request.id].version < request.new.version
        /\ to = [clusters[request.id] EXCEPT !.version = request.new.version]
     \/ /\ request.old.version = request.new.version
        /\ to = [clusters[request.id] EXCEPT !.logging = request.new.logging,
                                             !.access = IF Analysis.access THEN request.new.access ELSE @]
  /\ Await(request.id, Len(updates')) /\ NotePassedOver /\ UNCHANGED refusals

LEMMA AnalysisTypes ==
  /\ Analysis.replace \in BOOLEAN /\ Analysis.access \in BOOLEAN /\ Analysis.version \in BOOLEAN
  /\ Analysis.encryption \in BOOLEAN /\ Analysis.logging \in BOOLEAN
  /\ Analysis.version <=> request.new.version # request.old.version
  /\ Analysis.logging <=> request.new.logging # request.old.logging
  /\ KeepsCluster(request) <=> ~Analysis.replace /\ ~Analysis.encryption
BY DEF Analysis, AnalyzeUpdate, KeepsCluster

\* A call that EKS refuses, or serves.
LEMMA CallTypes ==
  ASSUME TypeOK PROVE /\ Refused => refusals' \in 0..MaxRefusals
                      /\ Served => refusals' \in 0..MaxRefusals /\ UNCHANGED refusals
BY ConstantsAssumption DEF TypeOK, Refused, Served

\* When onEvent throws.
LEMMA OnEventThrows ==
  ASSUME CInv, handler.pc \in {"onEvent", "version"}, Fail, UNCHANGED clusters, Refused \/ Served
  PROVE  Answers("FAILED")
<1>1. refusals' \in 0..MaxRefusals BY CallTypes DEF CInv, ClusterInv
<1>2. late' \subseteq PhysicalId BY DEF Fail, CInv, ClusterInv, TypeOK
<1>3. ASSUME request.type = "Update", KeepsCluster(request), NEW n \in UnderWay(handler.id)
      PROVE  handler.id \in late'
  <2>1. n \in DOMAIN updates BY <1>3 DEF UnderWay
  <2>2. n # 0 BY <2>1, UpdateShape DEF CInv, ClusterInv
  <2>3. handler.updateId = 0 /\ handler.id = request.id
    BY DEF CInv, SettledInv, RequestsInv, HandlerIsRight
  <2>4. UpdateIsOfRecord(request) BY DEF CInv, SettledInv
  <2> QED BY <1>3, <2>2, <2>3, <2>4 DEF UpdateIsOfRecord, Fail
<1> QED BY <1>1, <1>2, <1>3 DEF Answers, Fail

\* What onEvent does.
LEMMA OnEventKinds ==
  ASSUME CInv, OnEvent
  PROVE  Answers("FAILED") \/ Creates \/ Deletes \/ Keeps \/ Looks \/ \E to : Starts(to)
<1>0. CASE handler.pc \in {"onEvent", "version"} /\ Fail /\ UNCHANGED clusters /\ (Refused \/ Served)
  BY <1>0, OnEventThrows
<1>1. CASE OnCreate
  BY <1>0, <1>1 DEF OnCreate, CreateCluster, At, Creates, Served
<1>2. CASE OnDelete
  BY <1>0, <1>2 DEF OnDelete, At, Deletes, Served
<1>3. CASE RejectUpdate
  BY <1>0, <1>3 DEF RejectUpdate, At
<1>4. CASE Replace
  BY <1>0, <1>4, AnalysisTypes DEF Replace, CreateCluster, At, Creates, Served
<1>5. CASE LookUpVersion
  BY <1>0, <1>5, AnalysisTypes DEF LookUpVersion, InPlace, At, Keeps, Looks, Served
<1>6. CASE UpdateClusterVersion
  <2>1. KeepsCluster(request) /\ request.old.version # request.new.version
    BY <1>6 DEF UpdateClusterVersion, At, CInv, SettledInv, RequestsInv, HandlerIsRight
  <2> QED BY <1>0, <1>6, <2>1 DEF UpdateClusterVersion, At, Starts, Served
<1>7. CASE UpdateClusterConfig
  BY <1>0, <1>7, AnalysisTypes DEF UpdateClusterConfig, InPlace, At, Starts, Served
<1>8. CASE NoUpdates
  BY <1>0, <1>8, AnalysisTypes DEF NoUpdates, InPlace, At, Keeps, Served
<1> QED BY <1>1, <1>2, <1>3, <1>4, <1>5, <1>6, <1>7, <1>8 DEF OnEvent

\* What the waiter's calls end in.
LEMMA WaiterKinds ==
  ASSUME CInv, Complete \/ CompletionFails \/ TimeOut
  PROVE  Answers("SUCCESS") \/ Answers("FAILED")
<1>1. refusals' \in 0..MaxRefusals BY CallTypes DEF CInv, ClusterInv, Complete, CompletionFails, TimeOut
<1>2. handler.pc = "waiting" /\ late \subseteq PhysicalId
  BY DEF Complete, CompletionFails, TimeOut, CInv, ClusterInv, TypeOK
<1>3. handler.id \in PhysicalId BY <1>2, HandlerShape DEF CInv, ClusterInv, SettledInv
<1>4. CASE Complete BY <1>1, <1>2, <1>4 DEF Complete, Answers
<1>5. CASE CompletionFails \/ TimeOut
  <2>1. late' = IF clusters[handler.id].status \in {"CREATING", "UPDATING", "DELETING"}
                THEN late \cup {handler.id} ELSE late
    BY <1>5 DEF CompletionFails, TimeOut, NoteLate
  <2>2. UnderWay(handler.id) = {} \/ handler.id \in late'
    BY <1>3, <2>1 DEF CInv, SettledInv, UpdatesInv
  <2> QED BY <1>1, <1>2, <1>3, <1>5, <2>1, <2>2 DEF CompletionFails, TimeOut, Answers
<1> QED BY <1>4, <1>5

-----------------------------------------------------------------------------
(* Types.                                                                  *)

\* What an answer makes of what is on record.
LEMMA AnswerTypes ==
  ASSUME CInv, NEW status, Answers(status)
  PROVE  /\ request' = NoRequest /\ handler' = Idle /\ sent' = sent
         /\ queued' \in Request \cup {NoRequest} /\ resource' \in PhysicalId \cup {NoName}
         /\ recorded' \in Configs \cup {NoProps} /\ broken' \in BOOLEAN /\ abandoned' \subseteq PhysicalId
         /\ abandoned \subseteq abandoned'
<1>0. TypeOK /\ RequestsInv BY DEF CInv, ClusterInv, SettledInv
<1>1. request # NoRequest /\ request \in Request /\ request.new \in Configs
  BY <1>0, HandlerShape, RequestShape DEF Answers
<1>2. handler.id \in PhysicalId \cup {NoName} /\ queued = NoRequest
  BY <1>0, HandlerShape DEF Answers
<1>3. ASSUME NEW id \in PhysicalId, NEW props \in Configs, CleanUp(id, props)
      PROVE  queued' \in Request
  BY <1>3 DEF CleanUp, Request
<1>4. CASE request.type = "Create" /\ CreateAnswered(status, handler.id)
  BY <1>0, <1>1, <1>2, <1>3, <1>4 DEF Answers, Answer, CreateAnswered, TypeOK
<1>5. CASE request.type = "Update" /\ UpdateAnswered(status, handler.id)
  <2>1. request.id \in PhysicalId /\ request.old \in Configs BY <1>0, <1>5, RequestShape
  <2>2. ASSUME queued' = [request EXCEPT !.id = handler.id, !.old = request.new, !.new = request.old,
                                         !.rollback = TRUE]
        PROVE  queued' \in Request
    BY <1>1, <1>2, <2>1, <2>2 DEF Request
  <2> QED BY <1>0, <1>1, <1>2, <1>3, <1>5, <2>1, <2>2 DEF Answers, Answer, UpdateAnswered, TypeOK, Request
<1>6. CASE request.type = "Delete" /\ DeleteAnswered(status, handler.id)
  <2>1. handler.id \in PhysicalId
    BY <1>0, <1>6, RequestShape, HandlerShape DEF RequestsInv, HandlerIsRight, Answers
  <2> QED BY <1>0, <1>1, <1>2, <1>6, <2>1 DEF Answers, Answer, DeleteAnswered, TypeOK
<1> QED BY <1>4, <1>5, <1>6 DEF Answers, Answer

\* What CloudFormation sends.
LEMMA SendTypes ==
  ASSUME CInv, CloudFormationStep
  PROVE  /\ request = NoRequest /\ request' \in Request /\ sent' = sent + 1 /\ sent' \in 1..MaxRequests
         /\ handler' = [pc |-> "onEvent", id |-> request'.id, updateId |-> 0]
         /\ queued' = NoRequest
         /\ UNCHANGED <<resource, recorded, broken, clusters, updates, refusals, drifted, abandoned, late>>
<1>0. TypeOK /\ RequestsInv BY DEF CInv, ClusterInv, SettledInv
<1>1. ASSUME NEW req, Send(req)
      PROVE  /\ request = NoRequest /\ request' = req /\ sent' = sent + 1 /\ sent' \in 1..MaxRequests
             /\ handler' = [pc |-> "onEvent", id |-> request'.id, updateId |-> 0]
             /\ UNCHANGED <<resource, recorded, broken, clusters, updates, refusals, drifted, abandoned, late>>
  BY <1>0, <1>1, IdTypes DEF Send, history, TypeOK
<1>2. ASSUME NEW props \in Configs, SendCreate(props) PROVE request' \in Request /\ queued' = NoRequest
  BY <1>1, <1>2 DEF SendCreate, Send, Request
<1>3. ASSUME NEW props \in Configs, SendUpdate(props) PROVE request' \in Request /\ queued' = NoRequest
  BY <1>0, <1>1, <1>3 DEF SendUpdate, Send, Request, TypeOK
<1>4. ASSUME SendDelete PROVE request' \in Request /\ queued' = NoRequest
  BY <1>0, <1>1, <1>4 DEF SendDelete, Send, Request, TypeOK, RequestsInv
<1>5. ASSUME SendQueued PROVE request' \in Request /\ queued' = NoRequest
  BY <1>0, <1>1, <1>5 DEF SendQueued, TypeOK
<1> QED BY <1>1, <1>2, <1>3, <1>4, <1>5 DEF CloudFormationStep, SendCreate, SendUpdate, SendDelete, SendQueued

\* A new cluster.
LEMMA CreatedType ==
  ASSUME NEW props \in Configs
  PROVE  /\ Created(props) \in Cluster /\ Created(props).status = "CREATING"
         /\ \A aspects : Like(Created(props), props, aspects)
<1>1. Created(props) \in Cluster
  BY IdTypes, ConstantsAssumption DEF Created, Cluster, ClusterStatus
<1> QED BY <1>1 DEF Created, Like

\* What waiting for EKS comes to.
LEMMA AwaitTypes ==
  ASSUME CInv, NEW id \in PhysicalId, NEW n \in Nat, Await(id, n)
  PROVE  /\ handler' \in HandlerState /\ handler'.pc = "waiting" /\ handler'.id = id /\ handler'.updateId = n
         /\ UNCHANGED <<request, queued, resource, recorded, broken, sent>>
BY DEF Await, HandlerState, cfn

\* What an update passes over.
LEMMA NoteTypes == ASSUME CInv, NotePassedOver PROVE drifted' \subseteq Aspects /\ UNCHANGED <<abandoned, late>>
BY DEF NotePassedOver, PassedOver, Differ, CInv, ClusterInv, TypeOK

\* The update that onEvent starts.
LEMMA StartTypes ==
  ASSUME CInv, NEW to, Starts(to)
  PROVE  /\ request.id \in PhysicalId /\ clusters[request.id] \in Cluster /\ clusters[request.id].status = "ACTIVE"
         /\ to \in Cluster /\ to.status = "ACTIVE" /\ to.place = clusters[request.id].place
         /\ to.encryption = clusters[request.id].encryption
         /\ updates' = Append(updates, [id |-> request.id, status |-> "InProgress", to |-> to])
         /\ clusters' = [clusters EXCEPT ![request.id] = [@ EXCEPT !.status = "UPDATING"]]
         /\ updates' \in Seq(Update) /\ clusters' \in [PhysicalId -> Cluster \cup {NoCluster}]
         /\ Len(updates') = Len(updates) + 1 /\ Len(updates) \in Nat
<1>0. TypeOK /\ RequestsInv BY DEF CInv, ClusterInv, SettledInv
<1>1. request.id \in PhysicalId /\ request.new \in Configs BY <1>0, RequestShape DEF Starts
<1>2. clusters[request.id].status = "ACTIVE" BY DEF Starts, StartUpdate
<1>3. clusters[request.id] \in Cluster BY <1>0, <1>1, <1>2, ClusterShape DEF ClusterStatus
<1>4. /\ updates' = Append(updates, [id |-> request.id, status |-> "InProgress", to |-> to])
      /\ clusters' = [clusters EXCEPT ![request.id] = [@ EXCEPT !.status = "UPDATING"]]
  BY DEF Starts, StartUpdate, SetStatus
<1>5. /\ request.new.logging \in Loggings /\ request.new.access \in Access
      /\ request.new.version \in 0..MaxVersion /\ MaxVersion \in Nat
  BY <1>1, IdTypes, ConstantsAssumption
<1>6. /\ to \in Cluster /\ to.status = "ACTIVE" /\ to.place = clusters[request.id].place
      /\ to.encryption = clusters[request.id].encryption
  <2>1. CASE to = [clusters[request.id] EXCEPT !.logging = request.new.logging,
                                               !.access = IF Analysis.access THEN request.new.access ELSE @]
    BY <1>2, <1>3, <1>5, <2>1 DEF Cluster
  <2>2. CASE /\ clusters[request.id].version < request.new.version
             /\ to = [clusters[request.id] EXCEPT !.version = request.new.version]
    <3>1. request.new.version \in 1..MaxVersion BY <1>3, <1>5, <2>2 DEF Cluster
    <3> QED BY <1>2, <1>3, <2>2, <3>1 DEF Cluster
  <2> QED BY <2>1, <2>2 DEF Starts
<1>7. updates' \in Seq(Update) /\ Len(updates') = Len(updates) + 1 /\ Len(updates) \in Nat
  <2>1. [id |-> request.id, status |-> "InProgress", to |-> to] \in Update BY <1>1, <1>6 DEF Update
  <2> QED BY <1>0, <1>4, <2>1 DEF TypeOK
<1>8. clusters' \in [PhysicalId -> Cluster \cup {NoCluster}]
  <2>1. [clusters[request.id] EXCEPT !.status = "UPDATING"] \in Cluster BY <1>3 DEF Cluster, ClusterStatus
  <2> QED BY <1>0, <1>1, <1>4, <2>1 DEF TypeOK
<1> QED BY <1>1, <1>2, <1>3, <1>4, <1>6, <1>7, <1>8

\* What EKS does to a cluster.
LEMMA EksTypes ==
  ASSUME CInv, EksStep
  PROVE  /\ updates' \in Seq(Update) /\ clusters' \in [PhysicalId -> Cluster \cup {NoCluster}]
         /\ Len(updates') = Len(updates)
         /\ UNCHANGED <<request, queued, resource, recorded, broken, sent, handler, refusals, drifted, abandoned, late>>
<1>0. TypeOK BY DEF CInv, ClusterInv
<1>1. ASSUME NEW id \in PhysicalId, NEW status \in ClusterStatus, clusters[id] \in Cluster, SetStatus(id, status)
      PROVE  clusters' \in [PhysicalId -> Cluster \cup {NoCluster}]
  <2>1. [clusters[id] EXCEPT !.status = status] \in Cluster BY <1>1 DEF Cluster
  <2> QED BY <1>0, <1>1, <2>1 DEF SetStatus, TypeOK
<1>2. ASSUME NEW id \in PhysicalId, FinishCreation(id)
      PROVE  updates' = updates /\ clusters' \in [PhysicalId -> Cluster \cup {NoCluster}]
  BY <1>0, <1>1, <1>2, ClusterShape DEF FinishCreation, ClusterStatus
<1>3. ASSUME NEW id \in PhysicalId, FinishDeletion(id)
      PROVE  updates' = updates /\ clusters' \in [PhysicalId -> Cluster \cup {NoCluster}]
  BY <1>0, <1>1, <1>3, ClusterShape DEF FinishDeletion, ClusterStatus, TypeOK
<1>4. ASSUME NEW n \in DOMAIN updates, FinishUpdate(n)
      PROVE  /\ updates' \in Seq(Update) /\ Len(updates') = Len(updates)
             /\ clusters' \in [PhysicalId -> Cluster \cup {NoCluster}]
  <2>1. updates[n].id \in PhysicalId /\ updates[n].to \in Cluster /\ updates[n] \in Update BY <1>0, UpdateShape
  <2>2. clusters[updates[n].id].status = "UPDATING"
    BY <1>4, <2>1 DEF CInv, SettledInv, UpdatesInv, UnderWay, FinishUpdate
  <2>3. clusters[updates[n].id] \in Cluster BY <1>0, <2>1, <2>2, ClusterShape DEF ClusterStatus
  <2>4. \A status \in {"Successful", "Failed"} : [updates[n] EXCEPT !.status = status] \in Update
    BY <2>1 DEF Update
  <2>5. updates' \in Seq(Update) /\ Len(updates') = Len(updates)
    BY <1>0, <1>4, <2>4 DEF FinishUpdate, TypeOK
  <2> QED BY <1>0, <1>1, <1>4, <2>1, <2>3, <2>5 DEF FinishUpdate, ClusterStatus, TypeOK
<1>5. updates \in Seq(Update) BY <1>0 DEF TypeOK
<1> QED BY <1>2, <1>3, <1>4, <1>5 DEF EksStep, cfn, history

LEMMA TypeStep == ASSUME CInv, [Next]_vars PROVE TypeOK'
<1>0. TypeOK /\ RequestsInv BY DEF CInv, ClusterInv, SettledInv
<1>1. CASE EksStep BY <1>0, <1>1, EksTypes DEF TypeOK
<1>2. CASE CloudFormationStep
  <2>1. request'.id \in PhysicalId \cup {NoName} BY <1>2, SendTypes DEF Request
  <2>2. handler' \in HandlerState /\ handler'.updateId = 0 BY <1>2, <2>1, SendTypes DEF HandlerState
  <2> QED BY <1>0, <1>2, <2>2, SendTypes, IdTypes DEF TypeOK
<1>3. ASSUME NEW status, Answers(status) PROVE TypeOK'
  <2>1. Idle \in HandlerState /\ Idle.updateId = 0 BY DEF Idle, HandlerState
  <2>2. drifted' \subseteq Aspects BY <1>0, <1>3 DEF Answers, TypeOK
  <2>3. UNCHANGED <<clusters, updates>> /\ refusals' \in 0..MaxRefusals /\ late' \subseteq PhysicalId
    BY <1>3 DEF Answers
  <2> QED BY <1>0, <1>3, <2>1, <2>2, <2>3, AnswerTypes DEF TypeOK
<1>4. CASE Creates
  <2>1. request # NoRequest BY <1>0, <1>4, HandlerShape DEF Creates
  <2>2. ClusterName \in PhysicalId /\ request.new \in Configs
    BY <1>0, <2>1, HandlerShape, RequestShape
  <2>3. Created(request.new) \in Cluster BY <2>2, CreatedType
  <2>4. clusters' \in [PhysicalId -> Cluster \cup {NoCluster}] BY <1>0, <1>4, <2>2, <2>3 DEF TypeOK, Creates
  <2>5. handler' \in HandlerState /\ handler'.updateId = 0 /\ UNCHANGED <<request, queued, resource, recorded, broken, sent>>
    BY <1>4, <2>2, AwaitTypes DEF Creates
  <2> QED BY <1>0, <1>4, <2>4, <2>5 DEF TypeOK, Creates
<1>5. CASE Deletes
  <2>1. request.id \in PhysicalId BY <1>0, <1>5, RequestShape DEF Deletes
  <2>2. clusters' \in [PhysicalId -> Cluster \cup {NoCluster}]
    <3>1. ASSUME clusters[request.id].status \in {"ACTIVE", "FAILED"}
          PROVE  [clusters[request.id] EXCEPT !.status = "DELETING"] \in Cluster
      BY <1>0, <2>1, <3>1, ClusterShape DEF Cluster, ClusterStatus
    <3> QED BY <1>0, <1>5, <2>1, <3>1 DEF Deletes, SetStatus, TypeOK
  <2>3. handler' \in HandlerState /\ handler'.updateId = 0 /\ UNCHANGED <<request, queued, resource, recorded, broken, sent>>
    BY <1>5, <2>1, AwaitTypes DEF Deletes
  <2> QED BY <1>0, <1>5, <2>2, <2>3 DEF TypeOK, Deletes, history
<1>6. CASE Keeps
  <2>1. request.id \in PhysicalId BY <1>0, <1>6, RequestShape DEF Keeps
  <2>2. handler' \in HandlerState /\ handler'.updateId = 0 /\ UNCHANGED <<request, queued, resource, recorded, broken, sent>>
    BY <1>6, <2>1, AwaitTypes DEF Keeps
  <2> QED BY <1>0, <1>6, <2>2, NoteTypes DEF TypeOK, Keeps
<1>7. CASE Looks
  <2>1. handler' \in HandlerState /\ handler'.updateId = handler.updateId
    BY <1>0, <1>7 DEF Looks, TypeOK, HandlerState
  <2>2. UNCHANGED <<request, queued, resource, recorded, broken, sent, clusters, updates, refusals,
                    drifted, abandoned, late>>
    BY <1>7 DEF Looks, cfn, history
  <2> QED BY <1>0, <2>1, <2>2 DEF TypeOK
<1>8. ASSUME NEW to, Starts(to) PROVE TypeOK'
  <2>0. request.id \in PhysicalId /\ Len(updates) \in Nat /\ Len(updates') = Len(updates) + 1
    BY <1>8, StartTypes
  <2>1. Len(updates') \in Nat /\ Len(updates') \in 0..Len(updates') BY <2>0
  <2>2. handler' \in HandlerState /\ handler'.updateId = Len(updates')
        /\ UNCHANGED <<request, queued, resource, recorded, broken, sent>>
    BY <1>8, <2>0, <2>1, AwaitTypes DEF Starts
  <2>3. NotePassedOver /\ UNCHANGED refusals BY <1>8 DEF Starts
  <2> QED BY <1>0, <1>8, <2>1, <2>2, <2>3, NoteTypes, StartTypes DEF TypeOK
<1>9. CASE UNCHANGED vars BY <1>0, <1>9 DEF vars, cfn, history, TypeOK
<1> QED BY <1>1, <1>2, <1>3, <1>4, <1>5, <1>6, <1>7, <1>8, <1>9, OnEventKinds, WaiterKinds DEF Next

-----------------------------------------------------------------------------
(* Requests.                                                               *)

\* Templates apart, a request stays right while what is on record does.
LEMMA RequestStays ==
  ASSUME NEW r, RequestIsRight(r), UNCHANGED <<resource, broken, recorded>>
  PROVE  RequestIsRight(r)'
BY DEF RequestIsRight

\* A handler step that leaves what is on record alone.
LEMMA RequestsStay ==
  ASSUME RequestsInv, UNCHANGED <<request, queued, resource, recorded, broken, sent>>, HandlerIsRight'
  PROVE  RequestsInv'
<1>1. RequestIsRight(request)' /\ RequestIsRight(queued)' BY DEF RequestsInv, RequestIsRight
<1> QED BY <1>1 DEF RequestsInv

LEMMA SendRequests == ASSUME CInv, CloudFormationStep PROVE RequestsInv'
<1>0. TypeOK /\ RequestsInv BY DEF CInv, ClusterInv, SettledInv
<1>1. /\ request = NoRequest /\ request' \in Request /\ sent' \in 1..MaxRequests
      /\ handler' = [pc |-> "onEvent", id |-> request'.id, updateId |-> 0] /\ queued' = NoRequest
      /\ UNCHANGED <<resource, recorded, broken>>
  BY SendTypes
<1>2. RequestIsRight(request') /\ request'.type \in {"Create", "Update", "Delete"}
  <2>1. CASE \E props \in Configs : SendCreate(props)
    BY <2>1 DEF SendCreate, Send, RequestIsRight
  <2>2. CASE \E props \in Configs : SendUpdate(props)
    BY <1>0, <2>2 DEF SendUpdate, Send, RequestIsRight, RequestsInv
  <2>3. CASE SendDelete
    BY <1>0, <2>3, IdTypes DEF SendDelete, Send, RequestIsRight, TypeOK
  <2>4. CASE SendQueued
    <3>1. request' = queued /\ queued.type # "none" BY <1>0, <2>4, RequestShape DEF SendQueued, Send
    <3> QED BY <1>0, <3>1 DEF RequestsInv
  <2> QED BY <2>1, <2>2, <2>3, <2>4 DEF CloudFormationStep
<1>3. RequestIsRight(request)' BY <1>1, <1>2 DEF RequestIsRight
<1>4. RequestIsRight(queued)' BY <1>1 DEF RequestIsRight, NoRequest
<1>5. HandlerIsRight' BY <1>1, <1>2 DEF HandlerIsRight, NoRequest
<1> QED BY <1>0, <1>1, <1>3, <1>4, <1>5, IdTypes DEF RequestsInv, NoRequest

LEMMA AnswerRequests == ASSUME CInv, NEW status, Answers(status) PROVE RequestsInv'
<1>0. TypeOK /\ RequestsInv BY DEF CInv, ClusterInv, SettledInv
<1>1. /\ request # NoRequest /\ request.new \in Configs /\ queued = NoRequest
      /\ handler.id \in PhysicalId \cup {NoName} /\ NoRequest.type = "none"
  BY <1>0, HandlerShape, RequestShape DEF Answers, NoRequest
<1>2. RequestIsRight(request) /\ HandlerIsRight BY <1>0 DEF RequestsInv
<1>3. request' = NoRequest /\ handler' = Idle BY AnswerTypes
<1>4. HandlerIsRight' BY <1>3 DEF HandlerIsRight, Idle
<1>5. RequestIsRight(request)' BY <1>3 DEF RequestIsRight, NoRequest
<1>6. status \in {"SUCCESS", "FAILED"} /\ (status = "SUCCESS" => handler.id \in PhysicalId)
  BY <1>0, HandlerShape DEF Answers
<1>7. CASE request.type = "Create" /\ CreateAnswered(status, handler.id)
  <2>1. resource = NoName /\ ~broken BY <1>0, <1>2, <1>7 DEF RequestsInv, RequestIsRight
  <2>2. CASE status = "SUCCESS"
    BY <1>0, <1>1, <1>3, <1>4, <1>5, <1>6, <1>7, <2>1, <2>2, IdTypes
    DEF CreateAnswered, RequestsInv, RequestIsRight
  <2>3. CASE status = "FAILED"
    BY <1>0, <1>1, <1>3, <1>4, <1>5, <1>7, <2>1, <2>3, IdTypes
    DEF CreateAnswered, CleanUp, RequestsInv, RequestIsRight
  <2> QED BY <1>6, <2>2, <2>3
<1>8. CASE request.type = "Update" /\ UpdateAnswered(status, handler.id)
  <2>1. /\ request.id = resource /\ resource # NoName /\ ~broken /\ request.old \in Configs
        /\ recorded = IF request.rollback THEN request.new ELSE request.old
        /\ request.rollback \in BOOLEAN /\ request.id \in PhysicalId
    BY <1>0, <1>2, <1>8, RequestShape DEF RequestIsRight
  <2>2. handler.id \in PhysicalId
    BY <1>0, <1>2, <1>8, <2>1, HandlerShape DEF HandlerIsRight, Answers
  <2>3. CASE status = "SUCCESS"
    BY <1>0, <1>1, <1>3, <1>4, <1>5, <1>8, <2>1, <2>2, <2>3, IdTypes
    DEF UpdateAnswered, CleanUp, RequestsInv, RequestIsRight
  <2>4. CASE status = "FAILED" /\ request.rollback
    BY <1>0, <1>1, <1>3, <1>4, <1>5, <1>8, <2>1, <2>2, <2>4, IdTypes
    DEF UpdateAnswered, RequestsInv, RequestIsRight
  <2>5. CASE status = "FAILED" /\ ~request.rollback
    <3>1. /\ queued'.type = "Update" /\ queued'.id = handler.id /\ queued'.old = request.new
          /\ queued'.new = request.old /\ queued'.rollback = TRUE
      <4>1. request \in Request BY <1>0, <1>8, RequestShape
      <4> QED BY <1>8, <2>5, <4>1 DEF UpdateAnswered, Request
    <3>2. resource' = handler.id /\ recorded' = recorded /\ ~broken'
      BY <1>8, <2>5 DEF UpdateAnswered
    <3>3. RequestIsRight(queued)'
      BY <1>1, <2>1, <2>2, <2>5, <3>1, <3>2, IdTypes DEF RequestIsRight
    <3> QED BY <1>0, <1>1, <1>3, <1>4, <1>5, <2>1, <2>2, <3>1, <3>2, <3>3, IdTypes DEF RequestsInv
  <2> QED BY <1>6, <2>1, <2>3, <2>4, <2>5
<1>9. CASE request.type = "Delete" /\ DeleteAnswered(status, handler.id)
  <2>1. handler.id = request.id
    BY <1>2, <1>9, HandlerShape, <1>0 DEF HandlerIsRight, Answers
  <2>2. queued' = NoRequest BY <1>1, <1>9 DEF DeleteAnswered
  <2>3. RequestIsRight(queued)' BY <2>2, <1>1 DEF RequestIsRight
  <2>4. /\ resource' # NoName => recorded' \in Configs
        /\ broken' => resource' # NoName
    BY <1>0, <1>9 DEF DeleteAnswered, RequestsInv
  <2> QED BY <1>1, <1>3, <1>4, <1>5, <2>2, <2>3, <2>4 DEF RequestsInv
<1> QED BY <1>7, <1>8, <1>9 DEF Answers, Answer

LEMMA RequestsStep == ASSUME CInv, [Next]_vars PROVE RequestsInv'
<1>0. TypeOK /\ RequestsInv /\ HandlerIsRight BY DEF CInv, ClusterInv, SettledInv, RequestsInv
<1>1. CASE EksStep
  <2>1. \A n \in DOMAIN updates : updates'[n].id = updates[n].id
    <3>1. ASSUME NEW m \in DOMAIN updates, FinishUpdate(m), NEW n \in DOMAIN updates
          PROVE  updates'[n].id = updates[n].id
      <4>1. updates[m] \in Update BY <1>0, UpdateShape
      <4> QED BY <1>0, <3>1, <4>1 DEF FinishUpdate, Update, TypeOK
    <3> QED BY <1>1, <3>1 DEF EksStep, FinishCreation, FinishDeletion
  <2>2. UNCHANGED <<request, queued, resource, recorded, broken, sent, handler>> BY <1>1, EksTypes
  <2>3. HandlerIsRight'
    BY <1>0, <2>1, <2>2, HandlerShape DEF HandlerIsRight, KeepsCluster, AnalyzeUpdate, SetsEqual
  <2> QED BY <1>0, <2>2, <2>3, RequestsStay
<1>2. CASE CloudFormationStep BY <1>2, SendRequests
<1>3. ASSUME NEW status, Answers(status) PROVE RequestsInv' BY <1>3, AnswerRequests
<1>4. CASE Creates
  <2>1. request # NoRequest BY <1>0, <1>4, HandlerShape DEF Creates
  <2>2. ClusterName \in PhysicalId BY <1>0, <2>1, HandlerShape
  <2>3. /\ handler'.pc = "waiting" /\ handler'.updateId = 0 /\ handler'.id \in PhysicalId
        /\ UNCHANGED <<request, queued, resource, recorded, broken, sent>>
    BY <1>4, <2>2, AwaitTypes DEF Creates
  <2>4. request.type # "Delete" /\ ~(request.type = "Update" /\ KeepsCluster(request)) BY <1>4 DEF Creates
  <2>5. HandlerIsRight' BY <2>1, <2>3, <2>4 DEF HandlerIsRight, KeepsCluster, AnalyzeUpdate, SetsEqual
  <2> QED BY <1>0, <2>3, <2>5, RequestsStay
<1>5. CASE Deletes \/ Keeps
  <2>1. request.id \in PhysicalId /\ request # NoRequest
    BY <1>0, <1>5, RequestShape, HandlerShape DEF Deletes, Keeps
  <2>2. /\ handler'.pc = "waiting" /\ handler'.updateId = 0 /\ handler'.id = request.id
        /\ UNCHANGED <<request, queued, resource, recorded, broken, sent>>
    BY <1>5, <2>1, AwaitTypes DEF Deletes, Keeps
  <2>3. HandlerIsRight' BY <2>1, <2>2 DEF HandlerIsRight, KeepsCluster, AnalyzeUpdate, SetsEqual
  <2> QED BY <1>0, <2>2, <2>3, RequestsStay
<1>6. CASE Looks
  <2>1. /\ handler'.pc = "version" /\ handler'.updateId = 0 /\ handler'.id = request.id /\ request # NoRequest
    BY <1>0, <1>6, HandlerShape DEF Looks, HandlerIsRight, TypeOK, HandlerState
  <2>2. UNCHANGED <<request, queued, resource, recorded, broken, sent>> BY <1>6 DEF Looks, cfn
  <2>3. HandlerIsRight'
    BY <1>6, <2>1, <2>2 DEF HandlerIsRight, KeepsCluster, AnalyzeUpdate, SetsEqual, Looks
  <2> QED BY <1>0, <2>2, <2>3, RequestsStay
<1>7. ASSUME NEW to, Starts(to) PROVE RequestsInv'
  <2>1. /\ request.id \in PhysicalId /\ Len(updates) \in Nat /\ Len(updates') = Len(updates) + 1
        /\ updates' = Append(updates, [id |-> request.id, status |-> "InProgress", to |-> to])
    BY <1>7, StartTypes
  <2>2. /\ handler'.pc = "waiting" /\ handler'.updateId = Len(updates) + 1 /\ handler'.id = request.id
        /\ UNCHANGED <<request, queued, resource, recorded, broken, sent>>
    BY <1>7, <2>1, AwaitTypes DEF Starts
  <2>3. updates'[Len(updates) + 1].id = request.id BY <1>0, <2>1 DEF TypeOK
  <2>4. request # NoRequest /\ request.type = "Update" /\ KeepsCluster(request) BY <1>0, <1>7, HandlerShape DEF Starts
  <2>5. HandlerIsRight'
    BY <2>1, <2>2, <2>3, <2>4 DEF HandlerIsRight, KeepsCluster, AnalyzeUpdate, SetsEqual
  <2> QED BY <1>0, <2>2, <2>5, RequestsStay
<1>8. CASE UNCHANGED vars
  <2>1. HandlerIsRight' BY <1>0, <1>8 DEF vars, cfn, HandlerIsRight, KeepsCluster, AnalyzeUpdate, SetsEqual
  <2> QED BY <1>0, <1>8, <2>1, RequestsStay DEF vars, cfn
<1> QED BY <1>1, <1>2, <1>3, <1>4, <1>5, <1>6, <1>7, <1>8, OnEventKinds, WaiterKinds DEF Next

-----------------------------------------------------------------------------
(* Clusters and their updates.                                             *)

SameContent(x, y) ==
  /\ x.place = y.place /\ x.encryption = y.encryption
  /\ x.logging = y.logging /\ x.access = y.access /\ x.version = y.version

LEMMA StatusOnly ==
  ASSUME NEW c \in Cluster, NEW status
  PROVE  [c EXCEPT !.status = status].status = status /\ SameContent(c, [c EXCEPT !.status = status])
BY DEF Cluster, SameContent

LEMMA LikeTheSame ==
  ASSUME NEW x, NEW y, SameContent(x, y), NEW props, NEW A, NEW B, B \subseteq A, Like(x, props, A)
  PROVE  Like(y, props, B)
BY DEF SameContent, Like

LEMMA UnderWayStays ==
  ASSUME updates' = updates PROVE \A id : UnderWay(id)' = UnderWay(id)
BY DEF UnderWay

\* What EKS does, as seen by one cluster.
LEMMA EksChanges ==
  ASSUME CInv, EksStep, NEW id \in PhysicalId
  PROVE  /\ \A n \in DOMAIN updates : updates[n].id = id /\ n \notin UnderWay(id) => updates'[n] = updates[n]
         /\ \/ /\ clusters'[id] = clusters[id] /\ UnderWay(id)' = UnderWay(id)
               /\ \A n \in UnderWay(id) : updates'[n] = updates[n]
            \/ /\ UnderWay(id) = {} /\ UnderWay(id)' = {} /\ clusters[id].status = "CREATING"
               /\ \E status \in {"ACTIVE", "FAILED"} : clusters'[id] = [clusters[id] EXCEPT !.status = status]
            \/ /\ UnderWay(id) = {} /\ UnderWay(id)' = {} /\ clusters[id].status = "DELETING"
               /\ clusters'[id] \in {NoCluster, [clusters[id] EXCEPT !.status = "FAILED"]}
            \/ \E n \in DOMAIN updates :
                 /\ UnderWay(id) = {n} /\ UnderWay(id)' = {} /\ clusters[id].status = "UPDATING"
                 /\ \/ updates'[n].status = "Successful" /\ clusters'[id] = updates[n].to
                    \/ updates'[n].status = "Failed" /\ clusters'[id] = [clusters[id] EXCEPT !.status = "ACTIVE"]
<1>0. TypeOK /\ UpdatesInv BY DEF CInv, ClusterInv, SettledInv
<1>1. ASSUME NEW i \in PhysicalId, clusters[i].status # "UPDATING" PROVE UnderWay(i) = {}
  BY <1>0, <1>1 DEF UpdatesInv
<1>2. CASE \E i \in PhysicalId : FinishCreation(i)
  <2>1. PICK i \in PhysicalId : FinishCreation(i) BY <1>2
  <2>2. updates' = updates /\ \A j : UnderWay(j)' = UnderWay(j) BY <2>1, UnderWayStays DEF FinishCreation
  <2>3. CASE i = id
    BY <1>0, <1>1, <2>1, <2>2, <2>3 DEF FinishCreation, SetStatus, TypeOK
  <2>4. CASE i # id
    BY <1>0, <2>1, <2>2, <2>4 DEF FinishCreation, SetStatus, TypeOK
  <2> QED BY <2>3, <2>4
<1>3. CASE \E i \in PhysicalId : FinishDeletion(i)
  <2>1. PICK i \in PhysicalId : FinishDeletion(i) BY <1>3
  <2>2. updates' = updates /\ \A j : UnderWay(j)' = UnderWay(j) BY <2>1, UnderWayStays DEF FinishDeletion
  <2>3. CASE i = id
    BY <1>0, <1>1, <2>1, <2>2, <2>3 DEF FinishDeletion, SetStatus, TypeOK
  <2>4. CASE i # id
    BY <1>0, <2>1, <2>2, <2>4 DEF FinishDeletion, SetStatus, TypeOK
  <2> QED BY <2>3, <2>4
<1>4. CASE \E m \in DOMAIN updates : FinishUpdate(m)
  <2>1. PICK m \in DOMAIN updates : FinishUpdate(m) BY <1>4
  <2>2. updates[m] \in Update /\ updates[m].id \in PhysicalId BY <1>0, UpdateShape
  <2>3. /\ DOMAIN updates' = DOMAIN updates /\ \A n \in DOMAIN updates : n # m => updates'[n] = updates[n]
        /\ updates'[m].id = updates[m].id /\ updates'[m].status \in {"Successful", "Failed"}
    BY <1>0, <2>1, <2>2 DEF FinishUpdate, Update, TypeOK
  <2>4. m \in UnderWay(updates[m].id) BY <2>1 DEF UnderWay, FinishUpdate
  <2>5. CASE updates[m].id = id
    <3>1. UnderWay(id) = {m} /\ clusters[id].status = "UPDATING" BY <1>0, <2>4, <2>5 DEF UpdatesInv
    <3>2. UnderWay(id)' = {} BY <2>3, <3>1 DEF UnderWay
    <3>3. \/ updates'[m].status = "Successful" /\ clusters'[id] = updates[m].to
          \/ updates'[m].status = "Failed" /\ clusters'[id] = [clusters[id] EXCEPT !.status = "ACTIVE"]
      BY <1>0, <2>1, <2>2, <2>5 DEF FinishUpdate, SetStatus, TypeOK, Update
    <3> QED BY <2>3, <3>1, <3>2, <3>3
  <2>6. CASE updates[m].id # id
    <3>1. UnderWay(id)' = UnderWay(id) /\ m \notin UnderWay(id) BY <2>3, <2>6 DEF UnderWay
    <3>2. clusters'[id] = clusters[id] BY <1>0, <2>1, <2>2, <2>6 DEF FinishUpdate, SetStatus, TypeOK
    <3>3. \A n \in UnderWay(id) : updates'[n] = updates[n] BY <2>3, <3>1 DEF UnderWay
    <3> QED BY <2>3, <2>6, <3>1, <3>2, <3>3
  <2> QED BY <2>5, <2>6
<1> QED BY <1>2, <1>3, <1>4 DEF EksStep

\* What a start does to the updates of every cluster.
LEMMA StartChanges ==
  ASSUME CInv, NEW to, Starts(to)
  PROVE  /\ UnderWay(request.id) = {} /\ request' = request
         /\ \A id \in PhysicalId : id = request.id => UnderWay(id)' = {Len(updates) + 1}
         /\ updates'[Len(updates) + 1] = [id |-> request.id, status |-> "InProgress", to |-> to]
         /\ \A n \in DOMAIN updates : updates'[n] = updates[n]
         /\ \A id \in PhysicalId \ {request.id} :
              UnderWay(id)' = UnderWay(id) /\ clusters'[id] = clusters[id]
         /\ clusters'[request.id].status = "UPDATING"
         /\ SameContent(clusters[request.id], clusters'[request.id])
<1>0. TypeOK /\ UpdatesInv BY DEF CInv, ClusterInv, SettledInv
<1>1. /\ request.id \in PhysicalId /\ clusters[request.id] \in Cluster /\ clusters[request.id].status = "ACTIVE"
      /\ updates' = Append(updates, [id |-> request.id, status |-> "InProgress", to |-> to])
      /\ clusters' = [clusters EXCEPT ![request.id] = [@ EXCEPT !.status = "UPDATING"]]
      /\ Len(updates) \in Nat
  BY StartTypes
<1>2. UnderWay(request.id) = {} BY <1>0, <1>1 DEF UpdatesInv
<1>3. /\ updates'[Len(updates) + 1] = [id |-> request.id, status |-> "InProgress", to |-> to]
      /\ \A n \in DOMAIN updates : updates'[n] = updates[n]
      /\ DOMAIN updates' = DOMAIN updates \cup {Len(updates) + 1}
      /\ Len(updates) + 1 \notin DOMAIN updates
  BY <1>0, <1>1 DEF TypeOK
<1>4. ASSUME NEW id \in PhysicalId, id = request.id PROVE UnderWay(id)' = {Len(updates) + 1}
  <2>1. Len(updates) + 1 \in UnderWay(id)'
    <3>1. updates'[Len(updates) + 1].id = id /\ updates'[Len(updates) + 1].status = "InProgress"
      BY <1>3, <1>4
    <3> QED BY <1>3, <3>1 DEF UnderWay
  <2>2. ASSUME NEW n \in UnderWay(id)' PROVE n = Len(updates) + 1
    <3>1. /\ n \in DOMAIN updates' /\ updates'[n].status = "InProgress" /\ updates'[n].id = request.id
      BY <1>4 DEF UnderWay
    <3>2. ASSUME n \in DOMAIN updates PROVE FALSE
      <4>1. n \in UnderWay(request.id) BY <1>3, <3>1, <3>2 DEF UnderWay
      <4> QED BY <1>2, <4>1
    <3> QED BY <1>3, <3>1, <3>2
  <2> QED BY <2>1, <2>2
<1>5. ASSUME NEW id \in PhysicalId \ {request.id}
      PROVE  UnderWay(id)' = UnderWay(id) /\ clusters'[id] = clusters[id]
  <2>1. UnderWay(id)' = UnderWay(id) BY <1>3, <1>5 DEF UnderWay
  <2>2. clusters'[id] = clusters[id] BY <1>0, <1>1, <1>5 DEF TypeOK
  <2> QED BY <2>1, <2>2
<1>6. clusters'[request.id] = [clusters[request.id] EXCEPT !.status = "UPDATING"] BY <1>0, <1>1 DEF TypeOK
<1>7. clusters'[request.id].status = "UPDATING" /\ SameContent(clusters[request.id], clusters'[request.id])
  <2>1. PICK c : c = clusters[request.id] OBVIOUS
  <2>2. c \in Cluster /\ clusters'[request.id] = [c EXCEPT !.status = "UPDATING"] BY <1>1, <1>6, <2>1
  <2> QED BY <2>1, <2>2, StatusOnly
<1> QED BY <1>2, <1>3, <1>4, <1>5, <1>7 DEF Starts, Await, cfn

\* The clusters that onEvent creates or deletes are not being updated.
LEMMA QuietChanges ==
  ASSUME CInv, Creates \/ Deletes, NEW id \in PhysicalId
  PROVE  /\ UnderWay(id)' = UnderWay(id) /\ UNCHANGED updates
         /\ \/ clusters'[id] = clusters[id]
            \/ /\ UnderWay(id) = {}
               /\ \/ Creates /\ id = ClusterName /\ clusters'[id] = Created(request.new)
                  \/ Deletes /\ id = request.id /\ clusters'[id] = [clusters[id] EXCEPT !.status = "DELETING"]
                     /\ clusters[id].status \in {"ACTIVE", "FAILED"}
<1>0. TypeOK /\ UpdatesInv BY DEF CInv, ClusterInv, SettledInv
<1>1. UNCHANGED updates /\ UnderWay(id)' = UnderWay(id) BY UnderWayStays DEF Creates, Deletes
<1>2. ASSUME clusters[id].status # "UPDATING" PROVE UnderWay(id) = {} BY <1>0, <1>2 DEF UpdatesInv
<1>3. ~Exists(id) => clusters[id].status = "NOT_FOUND" BY <1>0, ClusterShape
<1>4. CASE Creates
  BY <1>0, <1>1, <1>2, <1>3, <1>4 DEF Creates, TypeOK
<1>5. CASE Deletes
  BY <1>0, <1>1, <1>2, <1>5 DEF Deletes, SetStatus, TypeOK
<1> QED BY <1>4, <1>5

LEMMA UpdatesStep == ASSUME CInv, [Next]_vars PROVE UpdatesInv'
<1>0. TypeOK /\ UpdatesInv BY DEF CInv, ClusterInv, SettledInv
<1>1. CASE EksStep
  <2> SUFFICES ASSUME NEW id \in PhysicalId, NEW n \in UnderWay(id)'
               PROVE  clusters'[id].status = "UPDATING" /\ updates'[n].to.status = "ACTIVE" /\ UnderWay(id)' = {n}
    BY DEF UpdatesInv
  <2>1. /\ clusters'[id] = clusters[id] /\ UnderWay(id)' = UnderWay(id) /\ updates'[n] = updates[n]
    <3>1. UnderWay(id)' # {} OBVIOUS
    <3>2. /\ clusters'[id] = clusters[id] /\ UnderWay(id)' = UnderWay(id)
          /\ \A m \in UnderWay(id) : updates'[m] = updates[m]
      <4>1. PICK V : V = UnderWay(id)' OBVIOUS
      <4>2. V # {} BY <3>1, <4>1
      <4> QED BY <1>1, <4>1, <4>2, EksChanges
    <3> QED BY <3>2
  <2> QED BY <1>0, <2>1 DEF UpdatesInv
<1>2. CASE UNCHANGED <<clusters, updates>> BY <1>0, <1>2, UnderWayStays DEF UpdatesInv
<1>3. CASE Creates \/ Deletes
  <2> SUFFICES ASSUME NEW id \in PhysicalId, NEW n \in UnderWay(id)'
               PROVE  clusters'[id].status = "UPDATING" /\ updates'[n].to.status = "ACTIVE" /\ UnderWay(id)' = {n}
    BY DEF UpdatesInv
  <2>1. clusters'[id] = clusters[id] /\ UnderWay(id)' = UnderWay(id) /\ updates'[n] = updates[n]
    BY <1>3, QuietChanges
  <2> QED BY <1>0, <2>1 DEF UpdatesInv
<1>4. ASSUME NEW to, Starts(to) PROVE UpdatesInv'
  <2> SUFFICES ASSUME NEW id \in PhysicalId, NEW n \in UnderWay(id)'
               PROVE  clusters'[id].status = "UPDATING" /\ updates'[n].to.status = "ACTIVE" /\ UnderWay(id)' = {n}
    BY DEF UpdatesInv
  <2>1. to.status = "ACTIVE" BY <1>4, StartTypes
  <2>2. CASE id = request.id
    <3>2. UnderWay(id)' = {Len(updates) + 1} BY <1>4, <2>2, StartChanges
    <3>3. updates'[Len(updates) + 1].to = to
      <4>1. updates'[Len(updates) + 1] = [id |-> request.id, status |-> "InProgress", to |-> to]
        BY <1>4, StartChanges
      <4> QED BY <4>1
    <3>4. clusters'[id].status = "UPDATING" BY <1>4, <2>2, StartChanges
    <3> QED BY <2>1, <3>2, <3>3, <3>4
  <2>3. CASE id # request.id
    <3>1. /\ UnderWay(id)' = UnderWay(id) /\ clusters'[id] = clusters[id] /\ n \in UnderWay(id)
          /\ \A m \in DOMAIN updates : updates'[m] = updates[m]
      BY <1>4, <2>3, StartChanges
    <3>2. updates'[n] = updates[n] BY <3>1 DEF UnderWay
    <3> QED BY <1>0, <3>1, <3>2 DEF UpdatesInv
  <2> QED BY <2>2, <2>3
<1>5. CASE CloudFormationStep BY <1>2, <1>5, SendTypes
<1>6. CASE OnEvent
  BY <1>2, <1>3, <1>4, <1>6, OnEventKinds DEF Answers, Keeps, Looks
<1>7. CASE Complete \/ CompletionFails \/ TimeOut BY <1>2, <1>7, WaiterKinds DEF Answers
<1>8. CASE UNCHANGED vars BY <1>2, <1>8 DEF vars
<1> QED BY <1>1, <1>5, <1>6, <1>7, <1>8 DEF Next

-----------------------------------------------------------------------------
(* No cluster is left over.                                                *)

LEMMA OwnedStep == ASSUME CInv, [Next]_vars PROVE ClustersAreOwned'
<1>0. TypeOK /\ ClustersAreOwned /\ RequestsInv /\ HandlerIsRight
  BY DEF CInv, ClusterInv, SettledInv, RequestsInv
<1> SUFFICES ASSUME NEW id \in PhysicalId, Exists(id)'
             PROVE  \/ id = resource' \/ id \in abandoned'
                    \/ queued' # NoRequest /\ queued'.id = id
                    \/ request' # NoRequest /\ id \in {request'.id, handler'.id}
  BY DEF ClustersAreOwned
<1> DEFINE Owned == \/ id = resource \/ id \in abandoned
                    \/ queued # NoRequest /\ queued.id = id
                    \/ request # NoRequest /\ id \in {request.id, handler.id}
<1>1. Exists(id) => Owned BY <1>0 DEF ClustersAreOwned
<1>2. CASE EksStep
  <2>1. Exists(id)
    <3>1. clusters'[id] = clusters[id] \/ clusters[id].status \in {"CREATING", "DELETING", "UPDATING"}
      BY <1>2, EksChanges
    <3>2. clusters'[id] # NoCluster BY DEF Exists
    <3> QED BY <1>0, <3>1, <3>2, ClusterShape DEF ClusterStatus, Exists
  <2> QED BY <1>1, <1>2, <2>1, EksTypes
<1>3. CASE CloudFormationStep
  <2>2. UNCHANGED <<resource, abandoned, clusters>> /\ request = NoRequest /\ request' # NoRequest
    BY <1>3, SendTypes DEF Request, NoRequest
  <2>3. Exists(id) BY <2>2 DEF Exists
  <2>4. CASE queued # NoRequest
    <3>1. request' = queued
      BY <1>3, <2>4 DEF CloudFormationStep, SendCreate, SendUpdate, SendDelete, SendQueued, Send
    <3> QED BY <1>1, <2>2, <2>3, <3>1
  <2>5. CASE queued = NoRequest BY <1>1, <2>2, <2>3, <2>5
  <2> QED BY <2>4, <2>5
<1>4. ASSUME NEW status, Answers(status)
      PROVE  \/ id = resource' \/ id \in abandoned'
             \/ queued' # NoRequest /\ queued'.id = id
  <2>1. /\ UNCHANGED clusters /\ request # NoRequest /\ queued = NoRequest /\ Exists(id)
        /\ NoRequest.type = "none"
    BY <1>0, <1>4, HandlerShape DEF Answers, Exists, NoRequest
  <2>2. id = resource \/ id \in abandoned \/ id \in {request.id, handler.id} BY <1>1, <2>1
  <2>3. RequestIsRight(request) /\ NoName \notin PhysicalId /\ abandoned \subseteq abandoned'
    BY <1>0, <1>4, IdTypes, AnswerTypes DEF RequestsInv
  <2>4. status \in {"SUCCESS", "FAILED"} BY <1>4 DEF Answers
  <2>5. CASE request.type = "Create" /\ CreateAnswered(status, handler.id)
    <3>1. resource = NoName /\ request.id = NoName
      BY <1>0, <2>3, <2>5 DEF RequestIsRight, RequestsInv
    <3>2. id \in abandoned \/ id = handler.id BY <2>2, <2>3, <3>1
    <3> QED BY <2>1, <2>3, <2>4, <2>5, <3>1, <3>2 DEF CreateAnswered, CleanUp
  <2>6. CASE request.type = "Update" /\ UpdateAnswered(status, handler.id)
    <3>1. request.id = resource BY <2>3, <2>6 DEF RequestIsRight
    <3> QED BY <2>1, <2>2, <2>3, <2>4, <2>6, <3>1 DEF UpdateAnswered, CleanUp
  <2>7. CASE request.type = "Delete" /\ DeleteAnswered(status, handler.id)
    <3>1. handler.id = request.id /\ (status = "SUCCESS" => ~Exists(handler.id))
      BY <1>0, <1>4, <2>7, HandlerShape DEF HandlerIsRight, Answers, IsComplete
    <3> QED BY <2>1, <2>2, <2>3, <2>4, <2>7, <3>1 DEF DeleteAnswered
  <2> QED BY <1>4, <2>5, <2>6, <2>7 DEF Answers, Answer
<1>5. CASE Creates \/ Deletes
  <2>1. /\ UNCHANGED <<request, queued, resource, abandoned>> /\ request # NoRequest
        /\ handler.pc = "onEvent" /\ handler.id = request.id
    BY <1>0, <1>5, HandlerShape DEF Creates, Deletes, Await, cfn, history, HandlerIsRight
  <2>2. CASE clusters'[id] = clusters[id]
    <3>1. Exists(id) BY <2>2 DEF Exists
    <3> QED BY <1>1, <2>1, <3>1
  <2>3. CASE clusters'[id] # clusters[id]
    <3>1. (Creates /\ id = ClusterName) \/ id = request.id BY <1>5, <2>3, QuietChanges
    <3>2. Creates /\ id = ClusterName => handler'.id = id BY DEF Creates, Await
    <3> QED BY <2>1, <3>1, <3>2
  <2> QED BY <2>2, <2>3
<1>6. CASE Keeps \/ Looks
  <2>1. /\ UNCHANGED <<request, queued, resource, abandoned, clusters>> /\ request # NoRequest
        /\ handler.id = request.id
    BY <1>0, <1>6, HandlerShape DEF Keeps, Looks, Await, cfn, history, NotePassedOver, HandlerIsRight
  <2> QED BY <1>1, <2>1 DEF Exists
<1>7. ASSUME NEW to, Starts(to)
      PROVE \/ id = resource' \/ id \in abandoned'
            \/ queued' # NoRequest /\ queued'.id = id
            \/ request' # NoRequest /\ id \in {request'.id, handler'.id}
  <2>1. /\ UNCHANGED <<request, queued, resource, abandoned>> /\ request # NoRequest
        /\ handler.id = request.id
    BY <1>0, <1>7, HandlerShape DEF Starts, Await, cfn, NotePassedOver, HandlerIsRight
  <2>2. id = request.id \/ clusters'[id] = clusters[id] BY <1>7, StartChanges
  <2>3. id = request.id \/ Exists(id) BY <2>2 DEF Exists
  <2> QED BY <1>1, <2>1, <2>3
<1>8. CASE UNCHANGED vars BY <1>1, <1>8 DEF vars, cfn, history, Exists
<1> QED BY <1>2, <1>3, <1>4, <1>5, <1>6, <1>7, <1>8, OnEventKinds, WaiterKinds DEF Next

-----------------------------------------------------------------------------
(* What is on record and what there is.                                    *)

\* The aspects in which two templates differ, and what an update between them passes over.
LEMMA DifferShape ==
  ASSUME NEW old, NEW new
  PROVE  /\ "logging" \in Differ(old, new) <=> new.logging # old.logging
         /\ "access" \in Differ(old, new) <=> new.access # old.access
         /\ "version" \in Differ(old, new) <=> new.version # old.version
         /\ Differ(old, new) = Differ(new, old) /\ Differ(old, new) \subseteq Aspects
         /\ old.version # new.version =>
              \A a \in {"logging", "access"} : a \in Differ(old, new) => a \in PassedOver(old, new)
         /\ old.version = new.version /\ ~AnalyzeUpdate(old, new).access =>
              ("access" \in Differ(old, new) => "access" \in PassedOver(old, new))
<1>1. /\ "logging" \in Differ(old, new) <=> new.logging # old.logging
      /\ "access" \in Differ(old, new) <=> new.access # old.access
      /\ "version" \in Differ(old, new) <=> new.version # old.version
      /\ Differ(old, new) = Differ(new, old) /\ Differ(old, new) \subseteq Aspects
  BY DEF Differ, Aspects
<1>2. old.version # new.version =>
        \A a \in {"logging", "access"} : a \in Differ(old, new) => a \in PassedOver(old, new)
  BY DEF PassedOver
<1>3. old.version = new.version /\ ~AnalyzeUpdate(old, new).access =>
        ("access" \in Differ(old, new) => "access" \in PassedOver(old, new))
  BY DEF PassedOver, AnalyzeUpdate, SetsEqual
<1> QED BY <1>1, <1>2, <1>3

\* Where the templates of an update agree, what is as recorded is as asked for.
LEMMA RecordCarries ==
  ASSUME NEW r, KeepsCluster(r), recorded \in {r.old, r.new}, NEW x, NEW A,
         Like(x, recorded, A \ Differ(r.old, r.new))
  PROVE  Like(x, r.new, A \ Differ(r.old, r.new)) /\ Like(x, r.old, A \ Differ(r.old, r.new))
<1>1. r.new.place = r.old.place /\ r.new.encryption = r.old.encryption
  BY DEF KeepsCluster, AnalyzeUpdate
<1> QED BY <1>1, DifferShape DEF Like

\* Less is relied on as more drifts or comes late.
LEMMA LessReliable ==
  ASSUME drifted \subseteq drifted', late \subseteq late', NEW id
  PROVE  Reliable(id)' \subseteq Reliable(id)
BY DEF Reliable

\* A cluster that is not being updated is all it may be.
LEMMA MayBeAlone == \A id : UnderWay(id) = {} => MayBe(id) = {clusters[id]}
BY DEF MayBe

LEMMA ActiveAlone ==
  ASSUME CInv, NEW id \in PhysicalId, clusters[id].status # "UPDATING"
  PROVE  UnderWay(id) = {} /\ MayBe(id) = {clusters[id]}
<1>1. UnderWay(id) = {} BY DEF CInv, SettledInv, UpdatesInv
<1> QED BY <1>1, MayBeAlone

\* What EKS makes of a cluster that it does not delete was expected of it.
LEMMA EksMayBe ==
  ASSUME CInv, EksStep, NEW id \in PhysicalId, clusters[id].status \in {"CREATING", "ACTIVE", "UPDATING", "FAILED"}
  PROVE  /\ UnderWay(id)' \subseteq UnderWay(id)
         /\ \A y \in MayBe(id)' : \E x \in MayBe(id) :
              /\ SameContent(x, y)
              /\ \/ y.status = x.status
                 \/ x.status = "CREATING" /\ y.status \in {"ACTIVE", "FAILED"}
                 \/ x.status = "UPDATING" /\ y.status = "ACTIVE"
<1>0. TypeOK /\ clusters[id] \in Cluster BY ClusterShape DEF CInv, ClusterInv, ClusterStatus
<1>1. CASE /\ clusters'[id] = clusters[id] /\ UnderWay(id)' = UnderWay(id)
           /\ \A n \in UnderWay(id) : updates'[n] = updates[n]
  BY <1>1 DEF MayBe, SameContent
<1>2. CASE /\ UnderWay(id) = {} /\ UnderWay(id)' = {} /\ clusters[id].status = "CREATING"
           /\ \E status \in {"ACTIVE", "FAILED"} : clusters'[id] = [clusters[id] EXCEPT !.status = status]
  <2>1. MayBe(id)' = {clusters'[id]} /\ MayBe(id) = {clusters[id]} BY <1>2 DEF MayBe
  <2>2. PICK status \in {"ACTIVE", "FAILED"} : clusters'[id] = [clusters[id] EXCEPT !.status = status] BY <1>2
  <2>3. clusters'[id].status = status /\ SameContent(clusters[id], clusters'[id]) BY <1>0, <2>2, StatusOnly
  <2> QED BY <1>2, <2>1, <2>3
<1>3. CASE \E n \in DOMAIN updates :
             /\ UnderWay(id) = {n} /\ UnderWay(id)' = {} /\ clusters[id].status = "UPDATING"
             /\ \/ updates'[n].status = "Successful" /\ clusters'[id] = updates[n].to
                \/ updates'[n].status = "Failed" /\ clusters'[id] = [clusters[id] EXCEPT !.status = "ACTIVE"]
  <2>1. PICK n \in DOMAIN updates :
             /\ UnderWay(id) = {n} /\ UnderWay(id)' = {} /\ clusters[id].status = "UPDATING"
             /\ \/ updates'[n].status = "Successful" /\ clusters'[id] = updates[n].to
                \/ updates'[n].status = "Failed" /\ clusters'[id] = [clusters[id] EXCEPT !.status = "ACTIVE"]
    BY <1>3
  <2>2. MayBe(id)' = {clusters'[id]} /\ MayBe(id) = {clusters[id], updates[n].to} BY <2>1 DEF MayBe
  <2>3. CASE clusters'[id] = updates[n].to BY <2>1, <2>2, <2>3 DEF SameContent
  <2>4. CASE clusters'[id] = [clusters[id] EXCEPT !.status = "ACTIVE"]
    <3>1. clusters'[id].status = "ACTIVE" /\ SameContent(clusters[id], clusters'[id])
      BY <1>0, <2>4, StatusOnly
    <3> QED BY <2>1, <2>2, <3>1
  <2> QED BY <2>1, <2>3, <2>4
<1> QED BY <1>1, <1>2, <1>3, EksChanges

RecordInv ==
  RestInv /\ UpdateIsOfRecord(request) /\ UpdateIsOfRecord(queued) /\ WaitsForTarget

\* EKS.
LEMMA EksRecord == ASSUME CInv, EksStep PROVE RecordInv'
<1>0. /\ TypeOK /\ RequestsInv /\ HandlerIsRight /\ UpdatesInv /\ RestInv
      /\ UpdateIsOfRecord(request) /\ UpdateIsOfRecord(queued) /\ WaitsForTarget
  BY DEF CInv, ClusterInv, SettledInv, RequestsInv
<1>1. UNCHANGED <<request, queued, resource, recorded, broken, sent, handler, drifted, abandoned, late>>
  BY EksTypes
<1>2. \A id : Reliable(id)' = Reliable(id) BY <1>1 DEF Reliable
<1>3. RestInv'
  <2> SUFFICES ASSUME AtRest'
               PROVE  IsActive(resource)' /\ Like(clusters[resource], recorded, Reliable(resource))'
    BY DEF RestInv
  <2>1. AtRest BY <1>1 DEF AtRest
  <2>2. resource \in PhysicalId /\ clusters[resource].status = "ACTIVE"
        /\ Like(clusters[resource], recorded, Reliable(resource))
    BY <1>0, <2>1 DEF RestInv, AtRest, IsActive, TypeOK
  <2>3. clusters'[resource] = clusters[resource] BY <2>2, EksChanges
  <2> QED BY <1>1, <1>2, <2>2, <2>3 DEF IsActive, Like
<1>4. ASSUME NEW r \in {request, queued}, UpdateIsOfRecord(r), r.type = "Update", KeepsCluster(r)
      PROVE  /\ \A y \in MayBe(r.id)' :
                  /\ y.status \in {"ACTIVE", "UPDATING"}
                  /\ Like(y, recorded, Reliable(r.id) \ Differ(r.old, r.new))
             /\ \A n \in UnderWay(r.id)' : r.id \in late \/ n = handler.updateId
  <2>1. r.id \in PhysicalId BY <1>0, <1>4, RequestShape
  <2>2. /\ \A x \in MayBe(r.id) :
             /\ x.status \in {"ACTIVE", "UPDATING"}
             /\ Like(x, recorded, Reliable(r.id) \ Differ(r.old, r.new))
        /\ \A n \in UnderWay(r.id) : r.id \in late \/ n = handler.updateId
    BY <1>4 DEF UpdateIsOfRecord
  <2>3. clusters[r.id].status \in {"ACTIVE", "UPDATING"} BY <2>2 DEF MayBe
  <2>4. /\ UnderWay(r.id)' \subseteq UnderWay(r.id)
        /\ \A y \in MayBe(r.id)' : \E x \in MayBe(r.id) :
             SameContent(x, y) /\ (y.status = x.status \/ x.status = "CREATING" \/ y.status = "ACTIVE")
    BY <2>1, <2>3, EksMayBe
  <2>5. ASSUME NEW y \in MayBe(r.id)'
        PROVE  y.status \in {"ACTIVE", "UPDATING"} /\ Like(y, recorded, Reliable(r.id) \ Differ(r.old, r.new))
    <3>1. PICK x \in MayBe(r.id) :
             SameContent(x, y) /\ (y.status = x.status \/ x.status = "CREATING" \/ y.status = "ACTIVE")
      BY <2>4
    <3> QED BY <2>2, <3>1, LikeTheSame
  <2> QED BY <2>2, <2>4, <2>5
<1>5. UpdateIsOfRecord(request)'
  BY <1>0, <1>1, <1>2, <1>4 DEF UpdateIsOfRecord, KeepsCluster, AnalyzeUpdate, SetsEqual, Differ, Like
<1>6. UpdateIsOfRecord(queued)'
  BY <1>0, <1>1, <1>2, <1>4 DEF UpdateIsOfRecord, KeepsCluster, AnalyzeUpdate, SetsEqual, Differ, Like
<1>7. WaitsForTarget'
  <2>1. PICK id, m : id = handler.id /\ m = handler.updateId OBVIOUS
  <2> DEFINE aspects == Reliable(id) \cup SetByUpdate
  <2> SUFFICES ASSUME handler.pc = "waiting", request.type # "Delete"
               PROVE  /\ m = 0 =>
                           \A y \in MayBe(id)' : y.status # "DELETING" /\ Like(y, request.new, Reliable(id))
                      /\ m # 0 => /\ UnderWay(id)' \subseteq {m}
                                  /\ updates'[m].status = "InProgress" => Like(updates'[m].to, request.new, aspects)
                                  /\ updates'[m].status = "Successful" => Like(clusters'[id], request.new, aspects)
    BY <1>1, <1>2, <2>1 DEF WaitsForTarget, Like, SetByUpdate, Analysis, AnalyzeUpdate, SetsEqual
  <2>2. id \in PhysicalId BY <1>0, <2>1, HandlerShape
  <2>3. ASSUME m = 0, NEW y \in MayBe(id)'
        PROVE  y.status # "DELETING" /\ Like(y, request.new, Reliable(id))
    <3>1. \A x \in MayBe(id) : x.status # "DELETING" /\ Like(x, request.new, Reliable(id))
      BY <1>0, <2>1, <2>3 DEF WaitsForTarget
    <3>2. clusters[id].status # "DELETING" BY <3>1 DEF MayBe
    <3>3. CASE clusters[id].status \in {"CREATING", "ACTIVE", "UPDATING", "FAILED"}
      <4>1. PICK x \in MayBe(id) :
               /\ SameContent(x, y)
               /\ y.status = x.status \/ y.status \in {"ACTIVE", "FAILED"}
        BY <2>2, <2>3, <3>3, EksMayBe
      <4> QED BY <3>1, <4>1, LikeTheSame
    <3>4. CASE clusters[id].status \notin {"CREATING", "ACTIVE", "UPDATING", "FAILED"}
      <4>1. UnderWay(id) = {} /\ MayBe(id) = {clusters[id]} BY <2>2, <3>4, ActiveAlone
      <4>2. clusters'[id] = clusters[id] /\ UnderWay(id)' = UnderWay(id) BY <2>2, <3>2, <3>4, EksChanges
      <4>3. MayBe(id)' = MayBe(id) BY <4>1, <4>2 DEF MayBe
      <4> QED BY <2>3, <3>1, <4>3
    <3> QED BY <3>3, <3>4
  <2>4. ASSUME m # 0
        PROVE  /\ UnderWay(id)' \subseteq {m}
               /\ updates'[m].status = "InProgress" => Like(updates'[m].to, request.new, aspects)
               /\ updates'[m].status = "Successful" => Like(clusters'[id], request.new, aspects)
    <3>1. m \in DOMAIN updates /\ updates[m].id = id
      BY <1>0, <2>1, <2>4, HandlerShape DEF HandlerIsRight
    <3>2. /\ UnderWay(id) \subseteq {m}
          /\ updates[m].status = "InProgress" => Like(updates[m].to, request.new, aspects)
          /\ updates[m].status = "Successful" => Like(clusters[id], request.new, aspects)
      BY <1>0, <2>1, <2>4 DEF WaitsForTarget
    <3>3. clusters[id].status \in {"ACTIVE", "UPDATING"}
      BY <1>0, <2>1, <2>4 DEF UpdateIsOfRecord, HandlerIsRight, MayBe
    <3>4. UnderWay(id)' \subseteq {m}
      <4>1. UnderWay(id)' \subseteq UnderWay(id) BY <2>2, <3>3, EksMayBe
      <4> QED BY <3>2, <4>1
    <3> HIDE DEF aspects
    <3>5. CASE m \in UnderWay(id)
      <4>1. UnderWay(id) = {m} /\ updates[m].status = "InProgress" BY <3>2, <3>5 DEF UnderWay
      <4>2. \/ updates'[m] = updates[m]
            \/ updates'[m].status = "Successful" /\ clusters'[id] = updates[m].to
            \/ updates'[m].status = "Failed"
        <5>1. \/ \A n \in UnderWay(id) : updates'[n] = updates[n]
              \/ \E n \in DOMAIN updates :
                   /\ UnderWay(id) = {n}
                   /\ \/ updates'[n].status = "Successful" /\ clusters'[id] = updates[n].to
                      \/ updates'[n].status = "Failed"
          BY <2>2, EksChanges
        <5> QED BY <3>5, <4>1, <5>1
      <4>3. updates'[m].status = "InProgress" => Like(updates'[m].to, request.new, aspects)
        BY <3>2, <4>1, <4>2
      <4>4. updates'[m].status = "Successful" => Like(clusters'[id], request.new, aspects)
        BY <3>2, <4>1, <4>2
      <4> QED BY <3>4, <4>3, <4>4
    <3>6. CASE m \notin UnderWay(id)
      <4>1. updates'[m] = updates[m] BY <2>2, <3>1, <3>6, EksChanges
      <4>2. UnderWay(id) = {} /\ updates[m].status # "InProgress" BY <3>1, <3>2, <3>6 DEF UnderWay
      <4>3. clusters'[id] = clusters[id] BY <2>2, <3>3, <4>2, EksChanges
      <4> QED BY <3>2, <3>4, <4>1, <4>2, <4>3
    <3> QED BY <3>5, <3>6
  <2> QED BY <2>3, <2>4
<1> QED BY <1>3, <1>5, <1>6, <1>7 DEF RecordInv

\* CloudFormation.
LEMMA SendRecord == ASSUME CInv, CloudFormationStep PROVE RecordInv'
<1>0. /\ TypeOK /\ RequestsInv /\ HandlerIsRight /\ UpdatesInv /\ RestInv
      /\ UpdateIsOfRecord(request) /\ UpdateIsOfRecord(queued) /\ WaitsForTarget
  BY DEF CInv, ClusterInv, SettledInv, RequestsInv
<1>1. /\ request = NoRequest /\ request' \in Request
      /\ handler' = [pc |-> "onEvent", id |-> request'.id, updateId |-> 0] /\ queued' = NoRequest
      /\ UNCHANGED <<resource, recorded, broken, clusters, updates, drifted, abandoned, late>>
      /\ handler.updateId = 0 /\ NoRequest.type = "none" /\ request'.type # "none"
  BY <1>0, SendTypes DEF HandlerIsRight, NoRequest, Request
<1>2. \A id : Reliable(id)' = Reliable(id) BY <1>1 DEF Reliable
<1>3. \A id : UnderWay(id)' = UnderWay(id) /\ MayBe(id)' = MayBe(id) BY <1>1 DEF MayBe, UnderWay
<1>4. CASE \E props \in Configs : SendCreate(props)
  <2>1. request'.type = "Create" BY <1>4 DEF SendCreate, Send
  <2>2. RestInv' BY <2>1 DEF RestInv, AtRest
  <2>3. UpdateIsOfRecord(request)' /\ UpdateIsOfRecord(queued)' BY <1>1, <2>1 DEF UpdateIsOfRecord
  <2> QED BY <1>1, <2>2, <2>3 DEF RecordInv, WaitsForTarget
<1>5. CASE \E props \in Configs : SendUpdate(props)
  <2>1. PICK props \in Configs : SendUpdate(props) BY <1>5
  <2>2. /\ request'.type = "Update" /\ request'.id = resource /\ resource # NoName /\ ~broken /\ queued = NoRequest
    BY <2>1 DEF SendUpdate, Send
  <2>3. AtRest BY <1>1, <2>2 DEF AtRest
  <2>4. /\ resource \in PhysicalId /\ clusters[resource].status = "ACTIVE"
        /\ Like(clusters[resource], recorded, Reliable(resource))
    BY <1>0, <2>2, <2>3 DEF RestInv, IsActive, TypeOK
  <2>5. UnderWay(resource) = {} /\ MayBe(resource) = {clusters[resource]} BY <2>4, ActiveAlone
  <2>6. UpdateIsOfRecord(request)'
    BY <1>1, <1>2, <1>3, <2>2, <2>4, <2>5 DEF UpdateIsOfRecord, Like
  <2>7. RestInv' BY <2>2 DEF RestInv, AtRest
  <2>8. UpdateIsOfRecord(queued)' BY <1>1 DEF UpdateIsOfRecord
  <2> QED BY <1>1, <2>6, <2>7, <2>8 DEF RecordInv, WaitsForTarget
<1>6. CASE SendDelete
  <2>1. request'.type = "Delete" /\ request'.id = resource BY <1>6 DEF SendDelete, Send
  <2>2. RestInv' BY <1>1, <2>1 DEF RestInv, AtRest
  <2>3. UpdateIsOfRecord(request)' /\ UpdateIsOfRecord(queued)' BY <1>1, <2>1 DEF UpdateIsOfRecord
  <2> QED BY <1>1, <2>2, <2>3 DEF RecordInv, WaitsForTarget
<1>7. CASE SendQueued
  <2>1. request' = queued BY <1>7 DEF SendQueued, Send
  <2>2. UpdateIsOfRecord(request)'
    BY <1>0, <1>1, <1>2, <1>3, <2>1
    DEF UpdateIsOfRecord, KeepsCluster, AnalyzeUpdate, SetsEqual, Differ, Like
  <2>3. AtRest' => AtRest BY <1>1, <2>1 DEF AtRest
  <2>4. RestInv' BY <1>0, <1>1, <1>2, <2>3 DEF RestInv, IsActive, Like
  <2>5. UpdateIsOfRecord(queued)' BY <1>1 DEF UpdateIsOfRecord
  <2> QED BY <1>1, <2>2, <2>4, <2>5 DEF RecordInv, WaitsForTarget
<1> QED BY <1>4, <1>5, <1>6, <1>7 DEF CloudFormationStep

\* The answers.
LEMMA AnswerRecord == ASSUME CInv, NEW status, Answers(status) PROVE RecordInv'
<1>0. /\ TypeOK /\ RequestsInv /\ HandlerIsRight /\ UpdatesInv /\ RestInv
      /\ UpdateIsOfRecord(request) /\ WaitsForTarget
  BY DEF CInv, ClusterInv, SettledInv, RequestsInv
<1>1. /\ request # NoRequest /\ queued = NoRequest /\ NoRequest.type = "none"
      /\ request.type \in {"Create", "Update", "Delete"} /\ RequestIsRight(request)
  BY <1>0, HandlerShape, RequestShape DEF Answers, NoRequest, RequestsInv
<1>2. request' = NoRequest /\ handler' = Idle /\ UNCHANGED <<clusters, updates>> /\ late \subseteq late'
  BY AnswerTypes DEF Answers
<1>3. UpdateIsOfRecord(request)' /\ WaitsForTarget'
  BY <1>1, <1>2 DEF UpdateIsOfRecord, WaitsForTarget, Idle
<1>4. CASE status = "SUCCESS"
  <2>1. handler.pc = "waiting" /\ IsComplete /\ drifted' = drifted \ SetByUpdate BY <1>4 DEF Answers
  <2>2. handler.id \in PhysicalId BY <1>0, <2>1, HandlerShape
  <2>3. queued'.type \in {"Delete", "none"}
    BY <1>1, <1>4 DEF Answers, Answer, CreateAnswered, UpdateAnswered, DeleteAnswered, CleanUp
  <2>4. UpdateIsOfRecord(queued)' BY <2>3 DEF UpdateIsOfRecord
  <2>5. CASE request.type \in {"Create", "Update"}
    <3>1. /\ resource' = handler.id /\ recorded' = request.new
      BY <1>4, <2>5 DEF Answers, Answer, CreateAnswered, UpdateAnswered
    <3>2. clusters[handler.id].status = "ACTIVE" /\ (handler.updateId # 0 => updates[handler.updateId].status = "Successful")
      BY <1>0, <2>1, <2>5 DEF IsComplete, IsActive, UpdateStatus, HandlerIsRight
    <3>3. Like(clusters[handler.id], request.new, Reliable(handler.id) \cup SetByUpdate)
      <4>1. CASE handler.updateId = 0
        <5>1. Like(clusters[handler.id], request.new, Reliable(handler.id))
          BY <1>0, <2>1, <2>5, <4>1 DEF WaitsForTarget, MayBe
        <5> QED BY <4>1, <5>1 DEF SetByUpdate
      <4>2. CASE handler.updateId # 0
        BY <1>0, <2>1, <2>5, <3>2, <4>2 DEF WaitsForTarget
      <4> QED BY <4>1, <4>2
    <3>4. \A id : Reliable(id)' \subseteq Reliable(id) \cup SetByUpdate BY <1>2, <2>1 DEF Reliable
    <3>5. RestInv'
      <4>1. PICK id : id = handler.id OBVIOUS
      <4>2. SameContent(clusters[id], clusters[id]) BY DEF SameContent
      <4>3. Like(clusters[id], request.new, Reliable(id)') BY <3>3, <3>4, <4>1, <4>2, LikeTheSame
      <4> QED BY <1>2, <3>1, <3>2, <4>1, <4>3 DEF RestInv, IsActive, Like
    <3> QED BY <1>3, <2>4, <3>5 DEF RecordInv
  <2>6. CASE request.type = "Delete"
    <3>1. handler.updateId = 0 /\ handler.id = request.id BY <1>0, <2>1, <2>6 DEF HandlerIsRight
    <3>2. drifted' = drifted BY <2>1, <3>1 DEF SetByUpdate
    <3>3. RestInv'
      <4> SUFFICES ASSUME AtRest'
                   PROVE  IsActive(resource)' /\ Like(clusters[resource], recorded, Reliable(resource))'
        BY DEF RestInv
      <4>1. resource' = resource /\ recorded' = recorded /\ resource # handler.id /\ ~broken
        BY <1>4, <2>6, <3>1 DEF AtRest, Answers, Answer, DeleteAnswered
      <4>2. AtRest BY <1>1, <2>6, <3>1, <4>1 DEF AtRest
      <4>3. IsActive(resource) /\ Like(clusters[resource], recorded, Reliable(resource))
        BY <1>0, <4>2 DEF RestInv
      <4>4. Reliable(resource)' \subseteq Reliable(resource) BY <1>2, <3>2, <4>1 DEF Reliable
      <4> QED BY <1>2, <4>1, <4>3, <4>4 DEF IsActive, Like
    <3> QED BY <1>3, <2>4, <3>3 DEF RecordInv
  <2> QED BY <1>1, <2>5, <2>6
<1>5. CASE status = "FAILED"
  <2>1. drifted' = drifted BY <1>5 DEF Answers
  <2>2. \A id : Reliable(id)' \subseteq Reliable(id) BY <1>2, <2>1, LessReliable
  <2>3. CASE request.type = "Create"
    <3>1. resource' = NoName /\ queued'.type \in {"Delete", "none"}
      BY <1>1, <1>5, <2>3 DEF Answers, Answer, CreateAnswered, CleanUp, RequestIsRight
    <3> QED BY <1>3, <3>1 DEF RecordInv, RestInv, AtRest, UpdateIsOfRecord
  <2>4. CASE request.type = "Update" /\ request.rollback
    <3>1. broken' = TRUE /\ queued' = queued
      BY <1>5, <2>4 DEF Answers, Answer, UpdateAnswered
    <3> QED BY <1>1, <1>3, <3>1 DEF RecordInv, RestInv, AtRest, UpdateIsOfRecord
  <2>5. CASE request.type = "Update" /\ ~request.rollback
    <3>1. /\ queued'.type = "Update" /\ queued'.id = handler.id /\ queued'.old = request.new
          /\ queued'.new = request.old /\ recorded' = recorded
      <4>1. request \in Request BY <1>0, <1>1, RequestShape
      <4> QED BY <1>5, <2>5, <4>1 DEF Answers, Answer, UpdateAnswered, Request
    <3>2. RestInv' BY <3>1 DEF RestInv, AtRest
    <3>3. ASSUME KeepsCluster(request)
          PROVE  /\ \A x \in MayBe(handler.id) :
                      /\ x.status \in {"ACTIVE", "UPDATING"}
                      /\ Like(x, recorded, Reliable(handler.id) \ Differ(request.old, request.new))
                 /\ UnderWay(handler.id) = {} \/ handler.id \in late'
      <4>1. handler.id = request.id
        BY <1>0, <1>1, <2>5, <3>3, HandlerShape DEF HandlerIsRight, Answers
      <4>2. UnderWay(handler.id) = {} \/ handler.id \in late' BY <1>5, <2>5, <3>3 DEF Answers
      <4> QED BY <1>0, <2>5, <3>3, <4>1, <4>2 DEF UpdateIsOfRecord
    <3>4. KeepsCluster(queued)' => KeepsCluster(request)
      BY <3>1 DEF KeepsCluster, AnalyzeUpdate
    <3>5. UpdateIsOfRecord(queued)'
      <4> SUFFICES ASSUME KeepsCluster(request)
                   PROVE  /\ \A x \in MayBe(queued.id)' :
                               /\ x.status \in {"ACTIVE", "UPDATING"}
                               /\ Like(x, recorded, Reliable(queued.id) \ Differ(queued.old, queued.new))'
                          /\ \A n \in UnderWay(queued.id)' : queued'.id \in late' \/ n = handler'.updateId
        BY <3>4 DEF UpdateIsOfRecord
      <4>1. PICK id : id = handler.id OBVIOUS
      <4>2. MayBe(queued.id)' = MayBe(id) /\ UnderWay(queued.id)' = UnderWay(id)
        BY <1>2, <3>1, <4>1 DEF MayBe, UnderWay
      <4>3. Differ(queued.old, queued.new)' = Differ(request.old, request.new)
        BY <3>1, DifferShape DEF Differ
      <4>4. Reliable(queued.id)' \subseteq Reliable(id) BY <1>2, <2>1, <3>1, <4>1 DEF Reliable
      <4>5. ASSUME NEW x \in MayBe(id)
            PROVE  /\ x.status \in {"ACTIVE", "UPDATING"}
                   /\ Like(x, recorded, Reliable(queued.id)' \ Differ(request.old, request.new))
        <5>1. x.status \in {"ACTIVE", "UPDATING"} /\ Like(x, recorded, Reliable(id) \ Differ(request.old, request.new))
          BY <3>3, <4>1
        <5>2. SameContent(x, x) BY DEF SameContent
        <5>3. Reliable(queued.id)' \ Differ(request.old, request.new) \subseteq Reliable(id) \ Differ(request.old, request.new)
          BY <4>4
        <5> QED BY <5>1, <5>2, <5>3, LikeTheSame
      <4>6. ASSUME NEW x \in MayBe(queued.id)'
            PROVE  /\ x.status \in {"ACTIVE", "UPDATING"}
                   /\ Like(x, recorded, Reliable(queued.id) \ Differ(queued.old, queued.new))'
        <5>1. x \in MayBe(id) BY <4>2, <4>6
        <5> QED BY <3>1, <4>3, <4>5, <5>1 DEF Like
      <4> QED BY <3>1, <3>3, <4>1, <4>2, <4>6
    <3> QED BY <1>3, <3>2, <3>5 DEF RecordInv
  <2>6. CASE request.type = "Delete"
    <3>1. handler.id = request.id /\ queued' = queued
      BY <1>0, <1>1, <2>6, HandlerShape DEF HandlerIsRight, Answers, Answer, DeleteAnswered
    <3>2. RestInv'
      <4> SUFFICES ASSUME AtRest'
                   PROVE  IsActive(resource)' /\ Like(clusters[resource], recorded, Reliable(resource))'
        BY DEF RestInv
      <4>1. resource' = resource /\ recorded' = recorded /\ resource # handler.id /\ ~broken
        BY <1>5, <2>6, <3>1 DEF AtRest, Answers, Answer, DeleteAnswered
      <4>2. AtRest BY <1>1, <2>6, <3>1, <4>1 DEF AtRest
      <4>3. IsActive(resource) /\ Like(clusters[resource], recorded, Reliable(resource))
        BY <1>0, <4>2 DEF RestInv
      <4>4. Reliable(resource)' \subseteq Reliable(resource) BY <1>2, <2>1, <4>1 DEF Reliable
      <4> QED BY <1>2, <4>1, <4>3, <4>4 DEF IsActive, Like
    <3>3. UpdateIsOfRecord(queued)' BY <1>1, <3>1 DEF UpdateIsOfRecord
    <3> QED BY <1>3, <3>2, <3>3 DEF RecordInv
  <2> QED BY <1>0, <1>1, <2>3, <2>4, <2>5, <2>6, RequestShape
<1> QED BY <1>4, <1>5 DEF Answers

\* onEvent, when it creates or deletes a cluster.
LEMMA CreateRecord == ASSUME CInv, Creates PROVE RecordInv'
<1>0. TypeOK /\ RequestsInv BY DEF CInv, ClusterInv, SettledInv
<1>1. /\ request # NoRequest /\ queued = NoRequest /\ NoRequest.type = "none"
      /\ request.type \in {"Create", "Update"} /\ (request.type = "Update" => ~KeepsCluster(request))
  BY <1>0, HandlerShape DEF Creates, NoRequest
<1>2. ClusterName \in PhysicalId /\ request.new \in Configs BY <1>0, <1>1, HandlerShape, RequestShape
<1>3. /\ handler'.id = ClusterName /\ handler'.updateId = 0
      /\ UNCHANGED <<request, queued, resource, recorded, broken, sent>>
  BY <1>2, AwaitTypes DEF Creates
<1>4. RestInv' BY <1>1, <1>3 DEF RestInv, AtRest
<1>5. UpdateIsOfRecord(request)' /\ UpdateIsOfRecord(queued)'
  BY <1>1, <1>3 DEF UpdateIsOfRecord, KeepsCluster, AnalyzeUpdate, SetsEqual
<1>6. WaitsForTarget'
  <2>1. PICK id : id = ClusterName OBVIOUS
  <2>2. clusters'[id] = Created(request.new) BY <1>0, <1>2, <2>1 DEF Creates, TypeOK
  <2>3. UnderWay(id)' = {}
    <3>1. clusters[id].status = "NOT_FOUND" BY <1>0, <1>2, <2>1, ClusterShape DEF Creates
    <3>2. UnderWay(id) = {} BY <1>2, <2>1, <3>1, ActiveAlone
    <3> QED BY <3>2, UnderWayStays DEF Creates
  <2>4. MayBe(id)' = {Created(request.new)} BY <2>2, <2>3 DEF MayBe
  <2>5. Created(request.new).status # "DELETING" /\ Like(Created(request.new), request.new, Reliable(id)')
    BY <1>2, CreatedType
  <2> QED BY <1>3, <2>1, <2>4, <2>5 DEF WaitsForTarget, Like
<1> QED BY <1>4, <1>5, <1>6 DEF RecordInv

LEMMA DeleteRecord == ASSUME CInv, Deletes PROVE RecordInv'
<1>0. TypeOK /\ RequestsInv /\ RestInv BY DEF CInv, ClusterInv, SettledInv
<1>1. queued = NoRequest /\ NoRequest.type = "none" /\ request.type = "Delete" /\ request.id \in PhysicalId
  BY <1>0, HandlerShape, RequestShape DEF Deletes, NoRequest
<1>2. UNCHANGED <<request, queued, resource, recorded, broken, drifted, late>>
  BY DEF Deletes, Await, cfn, history
<1>3. UpdateIsOfRecord(request)' /\ UpdateIsOfRecord(queued)' /\ WaitsForTarget'
  BY <1>1, <1>2 DEF UpdateIsOfRecord, WaitsForTarget
<1>4. RestInv'
  <2> SUFFICES ASSUME AtRest'
               PROVE  IsActive(resource)' /\ Like(clusters[resource], recorded, Reliable(resource))'
    BY DEF RestInv
  <2>1. AtRest /\ request.id # resource /\ resource \in PhysicalId
    BY <1>0, <1>1, <1>2 DEF AtRest, TypeOK
  <2>2. clusters'[resource] = clusters[resource] BY <1>0, <1>1, <2>1 DEF Deletes, SetStatus, TypeOK
  <2> QED BY <1>0, <1>2, <2>1, <2>2 DEF RestInv, IsActive, Like, Reliable
<1> QED BY <1>3, <1>4 DEF RecordInv

\* onEvent, when it leaves a cluster as it is.
LEMMA KeepRecord == ASSUME CInv, Keeps PROVE RecordInv'
<1>0. TypeOK /\ RequestsInv /\ HandlerIsRight /\ UpdateIsOfRecord(request)
  BY DEF CInv, ClusterInv, SettledInv, RequestsInv
<1>1. /\ queued = NoRequest /\ NoRequest.type = "none" /\ request.type = "Update" /\ KeepsCluster(request)
      /\ request.id \in PhysicalId /\ handler.updateId = 0
  BY <1>0, HandlerShape, RequestShape DEF Keeps, NoRequest, HandlerIsRight
<1>2. /\ handler'.id = request.id /\ handler'.updateId = 0
      /\ UNCHANGED <<request, queued, resource, recorded, broken, sent, clusters, updates, late>>
      /\ drifted' = drifted \cup PassedOver(request.old, request.new)
  BY <1>1, AwaitTypes DEF Keeps, NotePassedOver
<1> DEFINE id == request.id
           differ == Differ(request.old, request.new)
<1>3. UnderWay(id)' = UnderWay(id) /\ MayBe(id)' = MayBe(id) BY <1>2 DEF UnderWay, MayBe
<1>4. /\ \A x \in MayBe(id) : x.status \in {"ACTIVE", "UPDATING"} /\ Like(x, recorded, Reliable(id) \ differ)
      /\ \A n \in UnderWay(id) : id \in late
  <2>1. \A n \in UnderWay(id) : n # 0 BY <1>0, UpdateShape DEF UnderWay
  <2> QED BY <1>0, <1>1, <2>1 DEF UpdateIsOfRecord
<1>5. Reliable(id)' = Reliable(id) \ PassedOver(request.old, request.new) BY <1>2 DEF Reliable
<1>6. RestInv' BY <1>1, <1>2 DEF RestInv, AtRest
<1>7. UpdateIsOfRecord(queued)' BY <1>1, <1>2 DEF UpdateIsOfRecord
<1>8. UpdateIsOfRecord(request)'
  <2>1. differ' = differ BY <1>2 DEF Differ
  <2>2. ASSUME NEW x \in MayBe(id) PROVE Like(x, recorded, Reliable(id)' \ differ)
    BY <1>4, <1>5 DEF Like
  <2> QED BY <1>2, <1>3, <1>4, <2>1, <2>2 DEF UpdateIsOfRecord, Like
<1>9. WaitsForTarget'
  <2>1. ASSUME NEW x \in MayBe(id) PROVE Like(x, request.new, Reliable(id)')
    <3>1. recorded \in {request.old, request.new} BY <1>0, <1>1 DEF RequestsInv, RequestIsRight
    <3>2. Like(x, request.new, Reliable(id) \ differ) BY <1>1, <1>4, <3>1, RecordCarries
    <3>3. "logging" \notin differ \/ "logging" \notin Reliable(id)'
      BY <1>5, DifferShape, AnalysisTypes DEF Keeps
    <3>4. "access" \notin differ \/ "access" \notin Reliable(id)'
      BY <1>5, DifferShape DEF Keeps, Analysis
    <3>5. "version" \notin differ \/ x.version = request.new.version \/ "version" \notin Reliable(id)'
      <4>1. CASE request.old.version = request.new.version BY <4>1, DifferShape
      <4>2. CASE clusters[id].version = request.new.version /\ request.old.version # request.new.version
        <5>1. CASE x = clusters[id] BY <4>2, <5>1
        <5>2. CASE x # clusters[id]
          <6>1. id \in late BY <1>4, <5>2 DEF MayBe
          <6> QED BY <1>5, <6>1 DEF Reliable
        <5> QED BY <5>1, <5>2
      <4> QED BY <4>1, <4>2 DEF Keeps
    <3> QED BY <1>5, <3>2, <3>3, <3>4, <3>5 DEF Like
  <2> QED BY <1>2, <1>3, <1>4, <2>1 DEF WaitsForTarget, Like
<1> QED BY <1>6, <1>7, <1>8, <1>9 DEF RecordInv

LEMMA LookRecord == ASSUME CInv, Looks PROVE RecordInv'
<1>0. /\ TypeOK /\ RequestsInv /\ RestInv /\ UpdateIsOfRecord(request) /\ UpdateIsOfRecord(queued)
  BY DEF CInv, ClusterInv, SettledInv
<1>1. /\ UNCHANGED <<request, queued, resource, recorded, broken, clusters, updates, drifted, late>>
      /\ handler'.pc = "version" /\ handler'.updateId = handler.updateId
  BY <1>0 DEF Looks, cfn, history, TypeOK, HandlerState
<1>2. RestInv' BY <1>0, <1>1 DEF RestInv, AtRest, IsActive, Like, Reliable
<1>3. \A id : UnderWay(id)' = UnderWay(id) /\ MayBe(id)' = MayBe(id) /\ Reliable(id)' = Reliable(id)
  BY <1>1 DEF UnderWay, MayBe, Reliable
<1>4. UpdateIsOfRecord(request)'
  BY <1>0, <1>1, <1>3 DEF UpdateIsOfRecord, Like, Differ, KeepsCluster, AnalyzeUpdate, SetsEqual
<1>5. UpdateIsOfRecord(queued)'
  BY <1>0, <1>1, <1>3 DEF UpdateIsOfRecord, Like, Differ, KeepsCluster, AnalyzeUpdate, SetsEqual
<1> QED BY <1>1, <1>2, <1>4, <1>5 DEF RecordInv, WaitsForTarget

\* onEvent, when it starts an update.
LEMMA StartRecord == ASSUME CInv, NEW to, Starts(to) PROVE RecordInv'
<1>0. TypeOK /\ RequestsInv /\ HandlerIsRight /\ UpdateIsOfRecord(request)
  BY DEF CInv, ClusterInv, SettledInv, RequestsInv
<1>1. /\ queued = NoRequest /\ NoRequest.type = "none" /\ request.type = "Update" /\ KeepsCluster(request)
      /\ request.id \in PhysicalId /\ Len(updates) \in Nat /\ Len(updates') = Len(updates) + 1
  BY <1>0, HandlerShape, StartTypes DEF Starts, NoRequest
<1> DEFINE differ == Differ(request.old, request.new)
           passed == PassedOver(request.old, request.new)
<1>2. PICK id, m, c : id = request.id /\ m = Len(updates) + 1 /\ c = clusters[request.id] OBVIOUS
<1>3. /\ handler'.id = id /\ handler'.updateId = m /\ handler'.pc = "waiting" /\ m # 0
      /\ UNCHANGED <<request, queued, resource, recorded, broken, sent, late>>
      /\ drifted' = drifted \cup passed
  BY <1>1, <1>2, AwaitTypes DEF Starts, NotePassedOver
<1>4. /\ c \in Cluster /\ to \in Cluster /\ to.status = "ACTIVE"
      /\ to.place = c.place /\ to.encryption = c.encryption
      /\ \/ request.old.version # request.new.version /\ to = [c EXCEPT !.version = request.new.version]
         \/ /\ request.old.version = request.new.version
            /\ to = [c EXCEPT !.logging = request.new.logging,
                              !.access = IF Analysis.access THEN request.new.access ELSE @]
  BY <1>2, StartTypes DEF Starts
<1>5. /\ UnderWay(id) = {} /\ UnderWay(id)' = {m}
      /\ updates'[m].to = to /\ updates'[m].status = "InProgress"
      /\ clusters'[id].status = "UPDATING" /\ SameContent(c, clusters'[id])
  <2>1. updates'[m] = [id |-> request.id, status |-> "InProgress", to |-> to] BY <1>2, StartChanges
  <2>2. UnderWay(id) = {} /\ UnderWay(id)' = {m} BY <1>1, <1>2, StartChanges
  <2>3. clusters'[id].status = "UPDATING" /\ SameContent(c, clusters'[id]) BY <1>2, StartChanges
  <2> QED BY <2>1, <2>2, <2>3
<1>6. MayBe(id)' = {clusters'[id], to} BY <1>5 DEF MayBe
<1>7. Like(c, recorded, Reliable(id) \ differ)
  BY <1>0, <1>1, <1>2 DEF UpdateIsOfRecord, MayBe
<1>8. Like(c, request.new, Reliable(id) \ differ) /\ recorded \in {request.old, request.new}
  <2>1. recorded \in {request.old, request.new} BY <1>0, <1>1 DEF RequestsInv, RequestIsRight
  <2> QED BY <1>1, <1>7, <2>1, RecordCarries
<1>9. Reliable(id)' = Reliable(id) \ passed BY <1>3 DEF Reliable
<1>10. RestInv' BY <1>1, <1>3 DEF RestInv, AtRest
<1>11. UpdateIsOfRecord(queued)' BY <1>1, <1>3 DEF UpdateIsOfRecord
<1>12. UpdateIsOfRecord(request)'
  <2>1. Like(clusters'[id], recorded, Reliable(id)' \ differ) BY <1>5, <1>7, <1>9, LikeTheSame
  <2>2. Like(to, recorded, Reliable(id)' \ differ)
    <3>1. /\ recorded.place = c.place /\ recorded.encryption = c.encryption
          /\ "logging" \in Reliable(id)' \ differ => to.logging = recorded.logging
          /\ "access" \in Reliable(id)' \ differ => to.access = recorded.access
          /\ "version" \in Reliable(id)' \ differ => to.version = recorded.version \/ recorded.version = 0
      <4>1. CASE request.old.version # request.new.version /\ to = [c EXCEPT !.version = request.new.version]
        <5>1. "version" \in differ BY <4>1, DifferShape
        <5>2. to.logging = c.logging /\ to.access = c.access BY <1>4, <4>1 DEF Cluster
        <5> QED BY <1>7, <1>9, <5>1, <5>2 DEF Like
      <4>2. CASE /\ request.old.version = request.new.version
                 /\ to = [c EXCEPT !.logging = request.new.logging,
                                   !.access = IF Analysis.access THEN request.new.access ELSE @]
        <5>1. /\ to.version = c.version /\ to.logging = request.new.logging
              /\ to.access = IF Analysis.access THEN request.new.access ELSE c.access
          BY <1>4, <4>2 DEF Cluster
        <5>2. "logging" \notin differ => request.new.logging = recorded.logging
          BY <1>8, DifferShape
        <5>3. "access" \notin differ => request.new.access = recorded.access
          BY <1>8, DifferShape
        <5> QED BY <1>7, <1>9, <5>1, <5>2, <5>3 DEF Like
      <4> QED BY <1>4, <4>1, <4>2
    <3> QED BY <1>4, <3>1 DEF Like
  <2>3. differ' = differ /\ request' = request /\ recorded' = recorded BY <1>3 DEF Differ
  <2>4. /\ \A x \in MayBe(id)' : x.status \in {"ACTIVE", "UPDATING"} /\ Like(x, recorded, Reliable(id)' \ differ)
        /\ \A n \in UnderWay(id)' : n = handler'.updateId
    BY <1>3, <1>4, <1>5, <1>6, <2>1, <2>2
  <2> QED BY <1>2, <2>3, <2>4 DEF UpdateIsOfRecord, Like
<1>13. WaitsForTarget'
  <2>1. SetByUpdate' = IF Analysis.version THEN {} ELSE {"logging"} \cup {a \in {"access"} : Analysis.access}
    BY <1>3 DEF SetByUpdate, Analysis, AnalyzeUpdate, SetsEqual
  <2>2. Like(to, request.new, Reliable(id)' \cup SetByUpdate')
    <3>1. c.place = request.new.place /\ c.encryption = request.new.encryption BY <1>8 DEF Like
    <3>2. CASE request.old.version # request.new.version /\ to = [c EXCEPT !.version = request.new.version]
      <4>1. to.version = request.new.version /\ to.logging = c.logging /\ to.access = c.access
        BY <1>4, <3>2 DEF Cluster
      <4>2. SetByUpdate' = {} BY <2>1, <3>2, AnalysisTypes
      <4>3. /\ "logging" \in differ => "logging" \notin Reliable(id)'
            /\ "access" \in differ => "access" \notin Reliable(id)'
        BY <1>9, <3>2, DifferShape
      <4> QED BY <1>4, <1>8, <1>9, <3>1, <4>1, <4>2, <4>3 DEF Like
    <3>3. CASE /\ request.old.version = request.new.version
               /\ to = [c EXCEPT !.logging = request.new.logging,
                                 !.access = IF Analysis.access THEN request.new.access ELSE @]
      <4>1. /\ to.version = c.version /\ to.logging = request.new.logging
            /\ to.access = IF Analysis.access THEN request.new.access ELSE c.access
        BY <1>4, <3>3 DEF Cluster
      <4>2. "version" \notin differ BY <3>3, DifferShape
      <4>3. ~Analysis.access /\ "access" \in differ => "access" \notin Reliable(id)'
        BY <1>9, <3>3, DifferShape DEF Analysis
      <4>4. /\ "version" \notin SetByUpdate' /\ ("access" \in SetByUpdate' => Analysis.access)
        BY <2>1
      <4>5. "access" \in Reliable(id)' \cup SetByUpdate' => to.access = request.new.access
        BY <1>8, <1>9, <4>1, <4>3, <4>4 DEF Like
      <4>6. "version" \in Reliable(id)' \cup SetByUpdate' => to.version = request.new.version \/ request.new.version = 0
        BY <1>8, <1>9, <4>1, <4>2, <4>4 DEF Like
      <4> QED BY <1>4, <3>1, <4>1, <4>5, <4>6 DEF Like
    <3> QED BY <1>4, <3>2, <3>3
  <2> QED BY <1>3, <1>5, <2>2 DEF WaitsForTarget, Like
<1> QED BY <1>10, <1>11, <1>12, <1>13 DEF RecordInv

LEMMA RecordStep == ASSUME CInv, [Next]_vars PROVE RecordInv'
<1>1. CASE UNCHANGED vars
  <2>1. RecordInv BY DEF CInv, SettledInv, RecordInv
  <2>2. \A id : UnderWay(id)' = UnderWay(id) /\ MayBe(id)' = MayBe(id) /\ Reliable(id)' = Reliable(id)
    BY <1>1 DEF vars, history, UnderWay, MayBe, Reliable
  <2>3. UNCHANGED <<request, queued, resource, recorded, broken, handler, clusters, updates, late>>
    BY <1>1 DEF vars, cfn, history
  <2>4. RestInv' BY <2>1, <2>2, <2>3 DEF RecordInv, RestInv, AtRest, IsActive, Like
  <2>5. UpdateIsOfRecord(request)' /\ UpdateIsOfRecord(queued)'
    BY <2>1, <2>2, <2>3 DEF RecordInv, UpdateIsOfRecord, Like, Differ, KeepsCluster, AnalyzeUpdate, SetsEqual
  <2>6. WaitsForTarget'
    BY <2>1, <2>2, <2>3 DEF RecordInv, WaitsForTarget, Like, SetByUpdate, Analysis, AnalyzeUpdate, SetsEqual
  <2> QED BY <2>4, <2>5, <2>6 DEF RecordInv
<1> QED BY <1>1, EksRecord, SendRecord, AnswerRecord, CreateRecord, DeleteRecord, KeepRecord, LookRecord,
           StartRecord, OnEventKinds, WaiterKinds DEF Next

-----------------------------------------------------------------------------
(* The theorems.                                                           *)

LEMMA CInvInit == Init => CInv
<1> SUFFICES ASSUME Init PROVE CInv OBVIOUS
<1>1. TypeOK
  <2>1. Idle \in HandlerState /\ Idle.updateId = 0 BY DEF Idle, HandlerState
  <2>2. updates \in Seq(Update) /\ 0 \in 0..Len(updates) BY DEF Init
  <2>3. /\ request \in Request \cup {NoRequest} /\ queued \in Request \cup {NoRequest}
        /\ resource \in PhysicalId \cup {NoName} /\ recorded \in Configs \cup {NoProps}
    BY DEF Init
  <2>4. sent \in 0..MaxRequests /\ refusals \in 0..MaxRefusals BY ConstantsAssumption DEF Init
  <2>5. clusters \in [PhysicalId -> Cluster \cup {NoCluster}] BY DEF Init
  <2> QED BY <2>1, <2>2, <2>3, <2>4, <2>5 DEF Init, TypeOK
<1>2. ClustersAreOwned BY DEF Init, ClustersAreOwned, Exists
<1>3. RequestsInv
  BY DEF Init, RequestsInv, RequestIsRight, HandlerIsRight, NoRequest, Idle
<1>4. \A id : UnderWay(id) = {} BY DEF Init, UnderWay
<1>5. UpdatesInv BY <1>4 DEF UpdatesInv
<1>6. RestInv /\ UpdateIsOfRecord(request) /\ UpdateIsOfRecord(queued) /\ WaitsForTarget
  BY DEF Init, RestInv, AtRest, UpdateIsOfRecord, WaitsForTarget, NoRequest, Idle
<1> QED BY <1>1, <1>2, <1>3, <1>5, <1>6 DEF CInv, ClusterInv, SettledInv

LEMMA CInvStep == CInv /\ [Next]_vars => CInv'
BY TypeStep, OwnedStep, RequestsStep, UpdatesStep, RecordStep
DEF CInv, ClusterInv, SettledInv, RecordInv

LEMMA CInvHolds == Spec => []CInv
BY CInvInit, CInvStep, PTL DEF Spec

\* No cluster is left over, through replacements, their rollbacks and their clean-ups:
\* each is on record, about to be deleted, in the hands of onEvent and isComplete,
\* or was given up by CloudFormation.
THEOREM NoClusterLeftOver == Spec => []ClusterInv
<1>1. CInv => ClusterInv BY DEF CInv
<1> QED BY <1>1, CInvHolds, PTL

\* What is on record when a deployment has ended is what the cluster is, but for what
\* analyzeUpdate and onUpdate pass over.
LEMMA SettledIsRight == CInv => SettledIsApplied
<1> SUFFICES ASSUME CInv, Settled
             PROVE  /\ Exists(resource) /\ IsActive(resource)
                    /\ clusters[resource].place = recorded.place
                    /\ clusters[resource].encryption = recorded.encryption
                    /\ \A aspect \in Aspects \ drifted :
                         Agree(aspect) \/ (aspect = "version" /\ resource \in late)
  BY DEF SettledIsApplied
<1>1. TypeOK /\ RestInv BY DEF CInv, ClusterInv, SettledInv
<1>2. AtRest /\ resource \in PhysicalId BY <1>1 DEF Settled, AtRest, NoRequest, TypeOK
<1>3. IsActive(resource) /\ Like(clusters[resource], recorded, Reliable(resource)) BY <1>1, <1>2 DEF RestInv
<1>4. Exists(resource) BY <1>1, <1>2, <1>3, ClusterShape DEF IsActive, ClusterStatus
<1>5. /\ clusters[resource]["logging"] = clusters[resource].logging /\ recorded["logging"] = recorded.logging
      /\ clusters[resource]["access"] = clusters[resource].access /\ recorded["access"] = recorded.access
      /\ clusters[resource]["version"] = clusters[resource].version /\ recorded["version"] = recorded.version
  OBVIOUS
<1>6. ASSUME NEW aspect \in Aspects \ drifted PROVE Agree(aspect) \/ (aspect = "version" /\ resource \in late)
  BY <1>3, <1>5 DEF Like, Reliable, Aspects, Agree
<1> QED BY <1>3, <1>4, <1>6 DEF Like

THEOREM SettledClustersAreApplied == Spec => []SettledIsApplied
BY CInvHolds, SettledIsRight, PTL

\* The clean-up takes no active cluster away while its replacement is not active.
LEMMA CleanUpsWait ==
  CInv /\ [Next]_vars =>
    [\A id \in PhysicalId :
       IsActive(id) /\ clusters'[id].status = "DELETING" /\ resource \notin {id, NoName}
         => IsActive(resource)]_vars
<1> SUFFICES ASSUME CInv, Next, NEW id \in PhysicalId, IsActive(id), clusters'[id].status = "DELETING",
                    resource \notin {id, NoName}
             PROVE  IsActive(resource)
  OBVIOUS
<1>0. TypeOK /\ RequestsInv /\ RestInv BY DEF CInv, ClusterInv, SettledInv
<1>1. clusters'[id] # clusters[id] BY DEF IsActive
<1>2. ~EksStep BY <1>1, EksChanges DEF IsActive
<1>3. ~UNCHANGED clusters BY <1>1
<1>4. \A to : ~Starts(to) BY <1>1, StartChanges
<1>5. Creates \/ Deletes
  BY <1>2, <1>3, <1>4, SendTypes, OnEventKinds, WaiterKinds DEF Next, Answers, Keeps, Looks
<1>6. Deletes /\ id = request.id
  <2>1. ASSUME Creates PROVE clusters'[id] = clusters[id]
    <3>1. request # NoRequest BY <1>0, <2>1, HandlerShape DEF Creates
    <3>2. ClusterName \in PhysicalId BY <1>0, <3>1, HandlerShape
    <3>3. id # ClusterName BY <1>0, <2>1, <3>2, ClusterShape DEF Creates, IsActive
    <3> QED BY <1>0, <2>1, <3>3 DEF Creates, TypeOK
  <2> QED BY <1>1, <1>5, <2>1, QuietChanges
<1>7. request.type = "Delete" /\ queued.type = "none" /\ RequestIsRight(request)
  BY <1>0, <1>6, HandlerShape DEF Deletes, NoRequest, RequestsInv
<1>8. AtRest BY <1>6, <1>7 DEF AtRest, RequestIsRight
<1> QED BY <1>0, <1>8 DEF RestInv

THEOREM ReplacementsComeFirst == Spec => ReplacedOnlyWhenActive
BY CInvHolds, CleanUpsWait, PTL DEF Spec, ReplacedOnlyWhenActive
=============================================================================
