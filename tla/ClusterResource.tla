---------------------------- MODULE ClusterResource ----------------------------
(***************************************************************************)
(* The EKS cluster resource (@aws-cdk/aws-eks/lib/cluster-resource-handler *)
(* /cluster.ts): the onEvent and isComplete handlers behind the provider   *)
(* framework that create, update, replace and delete a cluster for         *)
(* CloudFormation.                                                         *)
(*                                                                         *)
(* Outside are CloudFormation, which sends one request at a time and rolls *)
(* a failed one back, the framework (module ProviderFramework; here it     *)
(* calls every handler and delivers every answer), and EKS, which works on *)
(* a cluster after a call has returned, may fail at that, and may refuse   *)
(* a call.  Attributes ("Data") and the assumed role are left out.         *)
(***************************************************************************)
EXTENDS Naturals, Sequences, FiniteSets

CONSTANTS Configs,        \* what a template may ask for, see Config
          Names, Places, Loggings, Endpoints, Cidrs, Keys,
          MaxVersion, DefaultVersion,
          NoName,         \* no name: one is generated
          MaxRequests,    \* bound: requests CloudFormation sends
          MaxRefusals     \* bound: calls EKS refuses without a reason named here

\* place stands for roleArn, subnetIds and securityGroupIds, which are compared
\* and treated alike; version 0 is "not given".
Access == [endpoints : Endpoints, cidrs : SUBSET Cidrs]
Config == [name : Names \cup {NoName}, place : Places, version : 0..MaxVersion,
           logging : Loggings, access : Access, encryption : Keys]

ASSUME ConstantsAssumption ==
  /\ Configs \subseteq Config
  /\ MaxVersion \in Nat /\ DefaultVersion \in 1..MaxVersion
  /\ MaxRequests \in Nat /\ MaxRefusals \in Nat
  /\ NoName \notin Names \cup Nat /\ Names \cap Nat = {}

VARIABLES
  request,    \* what CloudFormation waits for an answer to, or none
  queued,     \* what it will send next of its own accord: a rollback or a clean-up
  resource,   \* the physical id it has on record
  recorded,   \* the properties it has on record
  broken,     \* whether a rollback failed
  sent,       \* how many requests it has sent; names the next one
  handler,    \* the handlers at work on the request, see HandlerState
  clusters,   \* EKS: the clusters
  updates,    \* EKS: the updates, by id
  refusals,
  drifted,    \* history: what an update was to change and the handler left as it
              \* was, unless a later one has set it
  abandoned,  \* history: the clusters CloudFormation gave up
  late        \* history: the clusters EKS was still changing when a request failed

cfn == <<request, queued, resource, recorded, broken, sent>>
history == <<drifted, abandoned, late>>
vars == <<cfn, handler, clusters, updates, refusals, history>>

\* A generated name is the number of the request: it contains the RequestId.
PhysicalId == Names \cup 1..MaxRequests
Aspects == {"version", "logging", "access"}

NoProps == [name |-> NoName]
Request == [type : {"Create", "Update", "Delete"}, id : PhysicalId \cup {NoName},
            old : Configs \cup {NoProps}, new : Configs, rollback : BOOLEAN]
NoRequest == [type |-> "none"]

\* id and updateId (0: none) are those of the event merged with onEvent's result.
HandlerState == [pc : {"idle", "onEvent", "version", "waiting"}, id : PhysicalId \cup {NoName},
                 updateId : Nat]
Idle == [pc |-> "idle", id |-> NoName, updateId |-> 0]

ClusterStatus == {"CREATING", "ACTIVE", "UPDATING", "DELETING", "FAILED"}
Cluster == [status : ClusterStatus, place : Places, version : 1..MaxVersion,
            logging : Loggings, access : Access, encryption : Keys]
NoCluster == [status |-> "NOT_FOUND"]
Update == [id : PhysicalId, status : {"InProgress", "Successful", "Failed"}, to : Cluster]

TypeOK ==
  /\ request \in Request \cup {NoRequest} /\ queued \in Request \cup {NoRequest}
  /\ resource \in PhysicalId \cup {NoName} /\ recorded \in Configs \cup {NoProps}
  /\ broken \in BOOLEAN /\ sent \in 0..MaxRequests
  /\ handler \in HandlerState /\ handler.updateId \in 0..Len(updates)
  /\ clusters \in [PhysicalId -> Cluster \cup {NoCluster}]
  /\ updates \in Seq(Update)
  /\ refusals \in 0..MaxRefusals
  /\ drifted \subseteq Aspects /\ abandoned \subseteq PhysicalId /\ late \subseteq PhysicalId

Init ==
  /\ request = NoRequest /\ queued = NoRequest
  /\ resource = NoName /\ recorded = NoProps /\ broken = FALSE /\ sent = 0
  /\ handler = Idle
  /\ clusters = [id \in PhysicalId |-> NoCluster] /\ updates = <<>>
  /\ refusals = 0 /\ drifted = {} /\ abandoned = {} /\ late = {}

Exists(id) == clusters[id] # NoCluster

-----------------------------------------------------------------------------
(* EKS.                                                                    *)

\* A call of the handler that EKS refuses.
Refused == refusals < MaxRefusals /\ refusals' = refusals + 1
Served == UNCHANGED refusals

SetStatus(id, status) == clusters' = [clusters EXCEPT ![id] = [@ EXCEPT !.status = status]]

\* A new cluster, as CreateCluster makes it.
Created(props) ==
  [status |-> "CREATING", place |-> props.place, logging |-> props.logging,
   version |-> IF props.version = 0 THEN DefaultVersion ELSE props.version,
   access |-> props.access, encryption |-> props.encryption]

\* Start an update that turns the cluster into "to"; EKS works on one at a time.
StartUpdate(id, to) ==
  /\ clusters[id].status = "ACTIVE"
  /\ updates' = Append(updates, [id |-> id, status |-> "InProgress", to |-> to])
  /\ SetStatus(id, "UPDATING")

FinishCreation(id) ==
  /\ clusters[id].status = "CREATING"
  /\ \E status \in {"ACTIVE", "FAILED"} : SetStatus(id, status)
  /\ UNCHANGED updates

FinishUpdate(n) ==
  /\ updates[n].status = "InProgress"
  /\ \/ /\ updates' = [updates EXCEPT ![n] = [@ EXCEPT !.status = "Successful"]]
        /\ clusters' = [clusters EXCEPT ![updates[n].id] = updates[n].to]
     \/ /\ updates' = [updates EXCEPT ![n] = [@ EXCEPT !.status = "Failed"]]
        /\ SetStatus(updates[n].id, "ACTIVE")

FinishDeletion(id) ==
  /\ clusters[id].status = "DELETING"
  /\ \/ clusters' = [clusters EXCEPT ![id] = NoCluster]
     \/ SetStatus(id, "FAILED")
  /\ UNCHANGED updates

EksStep ==
  /\ \/ \E id \in PhysicalId : FinishCreation(id) \/ FinishDeletion(id)
     \/ \E n \in DOMAIN updates : FinishUpdate(n)
  /\ UNCHANGED <<cfn, handler, refusals, history>>

-----------------------------------------------------------------------------
(* CloudFormation.                                                         *)

Send(req) ==
  /\ request = NoRequest /\ sent < MaxRequests
  /\ request' = req /\ sent' = sent + 1
  /\ handler' = [pc |-> "onEvent", id |-> req.id, updateId |-> 0]
  /\ UNCHANGED <<resource, recorded, broken, clusters, updates, refusals, history>>

SendCreate(props) ==
  /\ resource = NoName /\ queued = NoRequest /\ UNCHANGED queued
  /\ Send([type |-> "Create", id |-> NoName, old |-> NoProps, new |-> props, rollback |-> FALSE])

\* The new properties may be the old ones: see AttributesRevision.
SendUpdate(props) ==
  /\ resource # NoName /\ ~broken /\ queued = NoRequest /\ UNCHANGED queued
  /\ Send([type |-> "Update", id |-> resource, old |-> recorded, new |-> props, rollback |-> FALSE])

SendDelete ==
  /\ resource # NoName /\ queued = NoRequest /\ UNCHANGED queued
  /\ Send([type |-> "Delete", id |-> resource, old |-> NoProps, new |-> recorded, rollback |-> FALSE])

SendQueued == queued # NoRequest /\ Send(queued) /\ queued' = NoRequest

\* The deletion of what is left of a creation that failed, or of a cluster that
\* was replaced.
CleanUp(id, props) ==
  queued' = [type |-> "Delete", id |-> id, old |-> NoProps, new |-> props, rollback |-> FALSE]

CreateAnswered(status, id) ==
  /\ IF status = "SUCCESS"
     THEN resource' = id /\ recorded' = request.new /\ UNCHANGED queued
     ELSE \* The framework ignores the deletion after an onEvent that failed.
          /\ IF id = NoName THEN UNCHANGED queued ELSE CleanUp(id, request.new)
          /\ UNCHANGED <<resource, recorded>>
  /\ UNCHANGED <<broken, abandoned>>

\* A failed update is followed by one back to the old properties, with the id of
\* the answer; the cluster it was to replace, if it was, is then forgotten.
UpdateAnswered(status, id) ==
  /\ resource' = id
  /\ IF status = "SUCCESS"
     THEN /\ recorded' = request.new
          /\ IF id = request.id THEN UNCHANGED queued ELSE CleanUp(request.id, request.old)
          /\ UNCHANGED <<broken, abandoned>>
     ELSE /\ abandoned' = abandoned \cup ({request.id} \ {id})
          /\ broken' = request.rollback
          /\ IF request.rollback THEN UNCHANGED queued
             ELSE queued' = [request EXCEPT !.id = id, !.old = request.new, !.new = request.old,
                                            !.rollback = TRUE]
          /\ UNCHANGED recorded

\* What it cannot delete it abandons.
DeleteAnswered(status, id) ==
  /\ resource' = IF resource = id THEN NoName ELSE resource
  /\ recorded' = IF resource = id THEN NoProps ELSE recorded
  /\ broken' = (broken /\ resource # id)
  /\ abandoned' = IF status = "FAILED" THEN abandoned \cup {id} ELSE abandoned
  /\ UNCHANGED queued

\* The framework answers with the PhysicalResourceId of the merged event.
Answer(status, id) ==
  /\ \/ request.type = "Create" /\ CreateAnswered(status, id)
     \/ request.type = "Update" /\ UpdateAnswered(status, id)
     \/ request.type = "Delete" /\ DeleteAnswered(status, id)
  /\ request' = NoRequest /\ handler' = Idle /\ UNCHANGED sent

\* A handler throws.
Fail == Answer("FAILED", handler.id) /\ UNCHANGED <<updates, drifted, late>>

-----------------------------------------------------------------------------
(* The onEvent handler.                                                    *)

At(pc, type) == handler.pc = pc /\ request.type = type

\* Hand over to the waiter, with the physical id and update id onEvent returned.
Await(id, updateId) ==
  handler' = [pc |-> "waiting", id |-> id, updateId |-> updateId] /\ UNCHANGED cfn

ClusterName == IF request.new.name = NoName THEN sent ELSE request.new.name

CreateCluster ==
  \/ /\ ~Exists(ClusterName) /\ Served
     /\ clusters' = [clusters EXCEPT ![ClusterName] = Created(request.new)]
     /\ Await(ClusterName, 0) /\ drifted' = {} /\ UNCHANGED <<updates, abandoned, late>>
  \/ Exists(ClusterName) /\ Served /\ UNCHANGED clusters /\ Fail
  \/ Refused /\ UNCHANGED clusters /\ Fail

OnCreate == At("onEvent", "Create") /\ CreateCluster

\* A cluster that is gone counts as deleted; one EKS is at work on is refused.
OnDelete ==
  /\ At("onEvent", "Delete")
  /\ \/ /\ clusters[request.id].status \in {"ACTIVE", "FAILED"} /\ Served
        /\ SetStatus(request.id, "DELETING")
        /\ Await(request.id, 0) /\ UNCHANGED <<updates, history>>
     \/ /\ ~Exists(request.id) /\ Served
        /\ Await(request.id, 0) /\ UNCHANGED <<clusters, updates, history>>
     \/ /\ clusters[request.id].status \in {"CREATING", "UPDATING", "DELETING"} /\ Served
        /\ Fail /\ UNCHANGED clusters
     \/ Refused /\ Fail /\ UNCHANGED clusters

SetsEqual(first, second) == Cardinality(first) = Cardinality(second) \/ first \subseteq second

\* Mutant: the flags of the endpoints are not compared.
AnalyzeUpdateWithoutFlags(old, new) ==
  [replace |-> new.name # old.name \/ new.place # old.place,
   access |-> ~SetsEqual(new.access.cidrs, old.access.cidrs),
   version |-> new.version # old.version,
   encryption |-> new.encryption # old.encryption,
   logging |-> new.logging # old.logging]

AnalyzeUpdate(old, new) ==
  [replace |-> new.name # old.name \/ new.place # old.place,
   access |-> \/ new.access.endpoints # old.access.endpoints
              \/ ~SetsEqual(new.access.cidrs, old.access.cidrs),
   version |-> new.version # old.version,
   encryption |-> new.encryption # old.encryption,
   logging |-> new.logging # old.logging]

Analysis == AnalyzeUpdate(request.old, request.new)

\* The aspects in which the two differ.
Differ(old, new) == {a \in Aspects : new[a] # old[a]}

\* What changes and is passed over: all else when the version changes, and blocks
\* of which there are as many or which are only taken away.
PassedOver(old, new) ==
  Differ(old, new) \cap
    IF old.version # new.version THEN {"logging", "access"}
    ELSE {a \in {"access"} :
            /\ old.access.endpoints = new.access.endpoints
            /\ \/ Cardinality(new.access.cidrs) = Cardinality(old.access.cidrs)
               \/ new.access.cidrs \subseteq old.access.cidrs}

\* Note what the update passes over.
NotePassedOver ==
  drifted' = drifted \cup PassedOver(request.old, request.new) /\ UNCHANGED <<abandoned, late>>

RejectUpdate ==
  /\ At("onEvent", "Update")
  /\ \/ Analysis.encryption
     \/ Analysis.replace /\ request.old.name = request.new.name /\ request.old.name # NoName
     \/ ~Analysis.replace /\ Analysis.version /\ request.new.version = 0
  /\ Served /\ Fail /\ UNCHANGED clusters

\* Mutant: onUpdate does not return the id of the new cluster.
ReplaceInSilence ==
  /\ At("onEvent", "Update")
  /\ ~Analysis.encryption /\ Analysis.replace
  /\ request.old.name # request.new.name \/ request.old.name = NoName
  /\ ~Exists(ClusterName) /\ Served
  /\ clusters' = [clusters EXCEPT ![ClusterName] = Created(request.new)]
  /\ Await(request.id, 0) /\ drifted' = {} /\ UNCHANGED <<updates, abandoned, late>>

Replace ==
  /\ At("onEvent", "Update")
  /\ ~Analysis.encryption /\ Analysis.replace
  /\ request.old.name # request.new.name \/ request.old.name = NoName
  /\ CreateCluster

InPlace == At("onEvent", "Update") /\ ~Analysis.encryption /\ ~Analysis.replace

\* describeCluster: skip the update to the version the cluster already has.
LookUpVersion ==
  /\ InPlace /\ Analysis.version /\ request.new.version # 0
  /\ \/ /\ Exists(request.id) /\ Served
        /\ IF clusters[request.id].version = request.new.version
           THEN Await(request.id, 0) /\ NotePassedOver
           ELSE handler' = [handler EXCEPT !.pc = "version"] /\ UNCHANGED <<cfn, history>>
        /\ UNCHANGED updates
     \/ ~Exists(request.id) /\ Served /\ Fail
     \/ Refused /\ Fail
  /\ UNCHANGED clusters

\* EKS refuses to go back, or to begin before the last update has ended.
UpdateClusterVersion ==
  /\ At("version", "Update")
  /\ \/ /\ clusters[request.id].version < request.new.version /\ Served
        /\ StartUpdate(request.id, [clusters[request.id] EXCEPT !.version = request.new.version])
        /\ Await(request.id, Len(updates')) /\ NotePassedOver
     \/ /\ \/ clusters[request.id].version >= request.new.version
           \/ clusters[request.id].status # "ACTIVE"
        /\ Served /\ Fail /\ UNCHANGED clusters
     \/ Refused /\ Fail /\ UNCHANGED clusters

\* The logging configuration is always sent, the access fields if they changed.
UpdateClusterConfig ==
  /\ InPlace /\ ~Analysis.version /\ (Analysis.logging \/ Analysis.access)
  /\ \/ /\ clusters[request.id].status = "ACTIVE" /\ Served
        /\ StartUpdate(request.id,
             [clusters[request.id] EXCEPT !.logging = request.new.logging,
                                          !.access = IF Analysis.access THEN request.new.access ELSE @])
        /\ Await(request.id, Len(updates')) /\ NotePassedOver
     \/ clusters[request.id].status # "ACTIVE" /\ Served /\ Fail /\ UNCHANGED clusters
     \/ Refused /\ Fail /\ UNCHANGED clusters

NoUpdates ==
  /\ InPlace /\ ~Analysis.version /\ ~Analysis.logging /\ ~Analysis.access
  /\ Await(request.id, 0) /\ NotePassedOver
  /\ Served /\ UNCHANGED <<clusters, updates>>

-----------------------------------------------------------------------------
(* The isComplete handler, which the waiter calls again and again.         *)

IsActive(id) == clusters[id].status = "ACTIVE"
HasFailed(id) == clusters[id].status \in {"FAILED", "NOT_FOUND"}

UpdateStatus == IF handler.updateId = 0 THEN "Successful" ELSE updates[handler.updateId].status

\* Mutant: without an update to follow an update request is complete at once.
IsCompleteAtOnce ==
  \/ request.type = "Create" /\ IsActive(handler.id)
  \/ request.type = "Update" /\ UpdateStatus = "Successful"
  \/ request.type = "Delete" /\ ~Exists(handler.id)

IsComplete ==
  \/ request.type = "Create" /\ IsActive(handler.id)
  \/ request.type = "Update" /\ UpdateStatus = "Successful" /\ IsActive(handler.id)
  \/ request.type = "Delete" /\ ~Exists(handler.id)

IsCompleteThrows ==
  \/ request.type = "Create" /\ HasFailed(handler.id)
  \/ request.type = "Update" /\ UpdateStatus = "Failed"
  \/ request.type = "Update" /\ UpdateStatus = "Successful" /\ HasFailed(handler.id)

NoteLate ==
  late' = IF clusters[handler.id].status \in {"CREATING", "UPDATING", "DELETING"}
          THEN late \cup {handler.id} ELSE late

\* What the update that is complete has set.
SetByUpdate ==
  IF handler.updateId = 0 \/ Analysis.version THEN {}
  ELSE {"logging"} \cup {a \in {"access"} : Analysis.access}

Complete ==
  /\ handler.pc = "waiting" /\ IsComplete
  /\ Answer("SUCCESS", handler.id)
  /\ drifted' = drifted \ SetByUpdate
  /\ Served /\ UNCHANGED <<clusters, updates, late>>

CompletionFails ==
  /\ handler.pc = "waiting"
  /\ (IsCompleteThrows /\ Served) \/ Refused
  /\ Answer("FAILED", handler.id) /\ NoteLate
  /\ UNCHANGED <<clusters, updates, drifted>>

\* The last of the calls the waiter makes is not complete either.
TimeOut ==
  /\ handler.pc = "waiting" /\ ~IsComplete /\ ~IsCompleteThrows
  /\ Answer("FAILED", handler.id) /\ NoteLate
  /\ Served /\ UNCHANGED <<clusters, updates, drifted>>

-----------------------------------------------------------------------------
CloudFormationStep ==
  \/ \E props \in Configs : SendCreate(props) \/ SendUpdate(props)
  \/ SendDelete \/ SendQueued

OnEvent ==
  \/ OnCreate \/ OnDelete \/ RejectUpdate \/ Replace \/ LookUpVersion \/ UpdateClusterVersion
  \/ UpdateClusterConfig \/ NoUpdates

Next == EksStep \/ CloudFormationStep \/ OnEvent \/ Complete \/ CompletionFails \/ TimeOut

Spec == Init /\ [][Next]_vars

-----------------------------------------------------------------------------
(* What CloudFormation has on record and what there is.                    *)

Settled == request = NoRequest /\ queued = NoRequest /\ ~broken /\ resource # NoName

Agree(aspect) ==
  \/ clusters[resource][aspect] = recorded[aspect]
  \/ aspect = "version" /\ recorded.version = 0

\* When a deployment has ended, succeeded or rolled back, the cluster on record is
\* active and is what its properties say (isActive, isEksUpdateComplete and the
\* comparisons of analyzeUpdate), but for what an update passed over: what
\* changed along with the version, and blocks replaced by as many others or taken
\* away.  The version is not to be relied on after a request failed before EKS was done: the
\* way back reads the version while it is about to change.
SettledIsApplied ==
  Settled =>
    /\ Exists(resource) /\ IsActive(resource)
    /\ clusters[resource].place = recorded.place
    /\ clusters[resource].encryption = recorded.encryption
    /\ \A aspect \in Aspects \ drifted :
         Agree(aspect) \/ (aspect = "version" /\ resource \in late)

\* No cluster is left over: whatever there is is on record, about to be deleted, in
\* the hands of a handler, or was given up by CloudFormation.  A replacement, its
\* rollback and its clean-up each move the physical id on.
ClustersAreOwned ==
  \A id \in PhysicalId :
    Exists(id) => \/ id = resource \/ id \in abandoned
                  \/ queued # NoRequest /\ queued.id = id
                  \/ request # NoRequest /\ id \in {request.id, handler.id}

ClusterInv == TypeOK /\ ClustersAreOwned

\* "The old cluster will automatically be deleted by cloudformation upon success"
\* (onUpdate): the clean-up never takes an active cluster away before its
\* replacement is active.
ReplacedOnlyWhenActive ==
  [][\A id \in PhysicalId :
       IsActive(id) /\ clusters'[id].status = "DELETING" /\ resource \notin {id, NoName}
         => IsActive(resource)]_vars

\* "Public access is allowed only from these CIDR blocks" (aws-eks/lib/cluster.ts).
AccessIsAsAsked == Settled => clusters[resource].access.cidrs = recorded.access.cidrs

\* Why these hold.  Requests follow one another, and keep to what is on record.
RequestIsRight(r) ==
  /\ r.type = "Create" => resource = NoName /\ r.id = NoName
  /\ r.type = "Update" =>
       /\ r.id = resource /\ resource # NoName /\ ~broken /\ r.old \in Configs
       /\ recorded = IF r.rollback THEN r.new ELSE r.old
  /\ r.type = "Delete" => r.id \in PhysicalId /\ (r.id # resource => ~broken)

\* An update that keeps the cluster.
KeepsCluster(r) == LET analysis == AnalyzeUpdate(r.old, r.new) IN ~analysis.replace /\ ~analysis.encryption

HandlerIsRight ==
  /\ handler.pc = "idle" <=> request = NoRequest
  /\ handler.pc \in {"idle", "onEvent"} => handler.updateId = 0
  /\ handler.pc = "onEvent" => handler.id = request.id
  /\ handler.pc = "version" =>
       /\ request.type = "Update" /\ KeepsCluster(request)
       /\ request.old.version # request.new.version
       /\ handler.id = request.id /\ handler.updateId = 0
  /\ handler.pc = "waiting" =>
       /\ handler.id \in PhysicalId
       /\ request.type = "Delete" \/ (request.type = "Update" /\ KeepsCluster(request)) => handler.id = request.id
  /\ handler.updateId # 0 =>
       /\ request.type = "Update" /\ KeepsCluster(request)
       /\ updates[handler.updateId].id = handler.id

RequestsInv ==
  /\ request # NoRequest => queued = NoRequest /\ sent > 0
  /\ queued.type \in {"Update", "Delete", "none"}
  /\ queued.type = "Delete" => queued.id # resource
  /\ resource # NoName => recorded \in Configs
  /\ broken => resource # NoName /\ queued = NoRequest
  /\ RequestIsRight(request) /\ RequestIsRight(queued)
  /\ HandlerIsRight

\* EKS works on one update of a cluster at a time.
UnderWay(id) == {n \in DOMAIN updates : updates[n].status = "InProgress" /\ updates[n].id = id}
UpdatesInv ==
  \A id \in PhysicalId : \A n \in UnderWay(id) :
    /\ clusters[id].status = "UPDATING" /\ updates[n].to.status = "ACTIVE"
    /\ UnderWay(id) = {n}

\* A cluster as it is or is about to be, and what is to be relied on in it.
MayBe(id) == {clusters[id]} \cup {updates[n].to : n \in UnderWay(id)}
Reliable(id) == (Aspects \ drifted) \ {a \in {"version"} : id \in late}

Like(x, props, aspects) ==
  /\ x.place = props.place /\ x.encryption = props.encryption
  /\ "logging" \in aspects => x.logging = props.logging
  /\ "access" \in aspects => x.access = props.access
  /\ "version" \in aspects => x.version = props.version \/ props.version = 0

\* Nothing is being done to the cluster on record.
AtRest ==
  /\ resource # NoName /\ ~broken
  /\ \A r \in {request, queued} : r.type = "none" \/ (r.type = "Delete" /\ r.id # resource)
RestInv == AtRest => IsActive(resource) /\ Like(clusters[resource], recorded, Reliable(resource))

\* A cluster that is being updated, or about to be rolled back, is what is on record but for
\* what the two templates differ in.
UpdateIsOfRecord(r) ==
  r.type = "Update" /\ KeepsCluster(r) =>
    /\ \A x \in MayBe(r.id) :
         /\ x.status \in {"ACTIVE", "UPDATING"}
         /\ Like(x, recorded, Reliable(r.id) \ Differ(r.old, r.new))
    /\ \A n \in UnderWay(r.id) : r.id \in late \/ n = handler.updateId

\* What a handler waits for is what was asked for.
WaitsForTarget ==
  handler.pc = "waiting" /\ request.type # "Delete" =>
    /\ handler.updateId = 0 =>
         \A x \in MayBe(handler.id) :
           x.status # "DELETING" /\ Like(x, request.new, Reliable(handler.id))
    /\ handler.updateId # 0 =>
         LET update == updates[handler.updateId]
             aspects == Reliable(handler.id) \cup SetByUpdate IN
         /\ UnderWay(handler.id) \subseteq {handler.updateId}
         /\ update.status = "InProgress" => Like(update.to, request.new, aspects)
         /\ update.status = "Successful" => Like(clusters[handler.id], request.new, aspects)

SettledInv ==
  /\ RequestsInv /\ UpdatesInv /\ RestInv
  /\ UpdateIsOfRecord(request) /\ UpdateIsOfRecord(queued)
  /\ WaitsForTarget

=============================================================================
