------------------------- MODULE KubeDeploymentsProofs -------------------------
(***************************************************************************)
(* Proofs about KubeDeployments, for any requests, names and counts, and   *)
(* for any number of writes to the cluster.                                *)
(***************************************************************************)
EXTENDS KubeDeployments, TLAPS

Deployments == [by : Requests, version : 1 .. MaxVersion, replicas : Nat]

\* A request is in the calls of its route, and answered last.
InRoute(r) ==
    /\ pc[r] \in {"create", "delete", "list", "getScale"} => call[r].op = pc[r]
    /\ pc[r] \in {"updateScale", "get"} => call[r].op = "getScale"
    /\ pc[r] = "new" => call[r] = NoCall

\* A scaling that came past UpdateScale was applied.
ScaledIsApplied(r) ==
    /\ pc[r] = "get" => r \in applied
    /\ r \in applied => pc[r] \in {"get", "answered"}

\* A version that was read is no newer than the last one, and older than that
\* of its deployment once the scaling was overtaken.
VersionsGrow(r) ==
    /\ got[r] <= version
    /\ r \in stale => pc[r] \in {"updateScale", "answered"}
    /\ r \in stale /\ pc[r] = "updateScale" /\ Target(r) \in DOMAIN dep
       => got[r] < dep[Target(r)].version

\* Requests seen as answered stay so.
PastIsAnswered(r) == \A q \in before[r] : pc[q] = "answered"

VersionsBounded == \A k \in DOMAIN dep : dep[k].version <= version

InOrder(r) == InRoute(r) /\ ScaledIsApplied(r) /\ VersionsGrow(r) /\ PastIsAnswered(r)

IInv ==
    /\ TypeOK /\ VersionsBounded
    /\ \A r \in Requests : InOrder(r)
    /\ ScaleIsReported /\ NoLostScale
    /\ Configured = Default => CreatedIsListed

LEMMA CallTypes ==
    ASSUME NEW c \in Calls
    PROVE  /\ c.op \in {"create", "getScale", "delete", "list"}
           /\ c.replicas \in Int
<1>1. CASE c \in [op : {"create"}, name : Names, ns : Names \cup {Absent}, replicas : Replicas]
                 \cup [op : {"getScale"}, name : Names, ns : Names \cup {Absent}, replicas : Replicas]
  BY <1>1, ReplicasAssumption
<1>2. CASE c \in [op : {"delete", "list"}, name : Names, ns : Names \cup {Absent}, replicas : {0}]
  BY <1>2
<1> QED
  BY <1>1, <1>2 DEF Calls

LEMMA InitInvariant == Init => IInv
<1> SUFFICES ASSUME Init PROVE IInv
  OBVIOUS
<1> USE NamesAssumption, ReplicasAssumption, BoundAssumption DEF Init
<1>1. TypeOK
  BY DEF TypeOK, PCs, Keys
<1>2. VersionsBounded /\ ScaleIsReported /\ NoLostScale /\ CreatedIsListed
  BY DEF VersionsBounded, ScaleIsReported, NoLostScale, CreatedIsListed
<1>3. \A r \in Requests : InOrder(r)
  BY DEF InOrder, InRoute, ScaledIsApplied, VersionsGrow, PastIsAnswered
<1> QED
  BY <1>1, <1>2, <1>3 DEF IInv

-----------------------------------------------------------------------------
(* Types *)

\* What a write to the cluster leaves there.
LEMMA WriteTypes ==
    ASSUME IInv, version < MaxVersion, version' = version + 1,
           NEW key \in Keys, NEW d \in [by : Requests, version : {version'}, replicas : Nat],
           Write(key, d)
    PROVE  /\ DOMAIN dep' = DOMAIN dep \cup {key} /\ DOMAIN dep' \subseteq Keys
           /\ \A k \in DOMAIN dep' : dep'[k] \in Deployments
           /\ version' \in 0 .. MaxVersion
           /\ VersionsBounded'
           /\ dep'[key] = d /\ \A k \in DOMAIN dep \ {key} : dep'[k] = dep[k]
BY BoundAssumption DEF IInv, TypeOK, Write, Deployments, VersionsBounded

\* The cluster and its history, by themselves.
ClusterTypes ==
    /\ DOMAIN dep \subseteq Keys /\ \A k \in DOMAIN dep : dep[k] \in Deployments
    /\ version \in 0 .. MaxVersion
    /\ applied \subseteq Requests /\ stale \subseteq Requests

\* A step makes one write to the cluster at most, an error included.
LEMMA StepWrites ==
    ASSUME IInv, NEW r \in Requests, Step(r)
    PROVE  /\ Created(r) \/ Deleted(r) \/ Scaled(r) \/ UNCHANGED cluster
           /\ ready' = ready
BY DEF Step, Receive, RejectBody, ApiFails, CreateDeployment, DeleteDeployment, ListDeployments,
       GetScale, UpdateScale, GetDeployment

LEMMA CreatedTypes ==
    ASSUME IInv, NEW r \in Requests, Created(r)
    PROVE  /\ [by |-> r, version |-> version',
              replicas |-> IF call[r].replicas = 0 THEN 1 ELSE call[r].replicas]
                 \in [by : Requests, version : {version'}, replicas : Nat]
           /\ ClusterTypes' /\ VersionsBounded'
<1> USE DEF IInv, TypeOK
<1>1. call[r] \in Calls
  BY DEF Created, InOrder, InRoute, NoCall
<1> DEFINE d == [by |-> r, version |-> version',
                 replicas |-> IF call[r].replicas = 0 THEN 1 ELSE call[r].replicas]
<1>2. d \in [by : Requests, version : {version'}, replicas : Nat]
  BY <1>1, CallTypes DEF Created
<1>3. /\ DOMAIN dep' \subseteq Keys /\ \A k \in DOMAIN dep' : dep'[k] \in Deployments
      /\ version' \in 0 .. MaxVersion /\ VersionsBounded'
  BY <1>2, WriteTypes DEF Created
<1> QED
  BY <1>2, <1>3 DEF Created, ClusterTypes, Overtaken

LEMMA ScaledTypes ==
    ASSUME IInv, NEW r \in Requests, Scaled(r)
    PROVE  /\ Target(r) \in Keys
           /\ [dep[Target(r)] EXCEPT !.replicas = call[r].replicas, !.version = version']
                 \in [by : Requests, version : {version'}, replicas : Nat]
           /\ ClusterTypes' /\ VersionsBounded'
<1> USE DEF IInv, TypeOK
<1>1. call[r] \in Calls /\ Target(r) \in Keys
  BY DEF Scaled, InOrder, InRoute, NoCall
<1> DEFINE d == [dep[Target(r)] EXCEPT !.replicas = call[r].replicas, !.version = version']
<1>2. d \in [by : Requests, version : {version'}, replicas : Nat]
  <2>1. dep[Target(r)] \in Deployments
    BY DEF Scaled, Deployments
  <2>2. call[r].replicas \in Nat
    BY <1>1, CallTypes DEF Scaled
  <2> QED
    BY <2>1, <2>2 DEF Deployments
<1>3. /\ DOMAIN dep' \subseteq Keys /\ \A k \in DOMAIN dep' : dep'[k] \in Deployments
      /\ version' \in 0 .. MaxVersion /\ VersionsBounded'
  BY <1>1, <1>2, WriteTypes DEF Scaled
<1> QED
  BY <1>1, <1>2, <1>3 DEF Scaled, ClusterTypes, Overtaken

LEMMA ClusterTypesKept ==
    ASSUME IInv, NEW r \in Requests, Step(r)
    PROVE  ClusterTypes' /\ VersionsBounded'
<1>1. CASE Deleted(r)
  BY <1>1 DEF Deleted, ClusterTypes, VersionsBounded, Overtaken, IInv, TypeOK, Deployments
<1>2. CASE UNCHANGED cluster
  BY <1>2 DEF cluster, ClusterTypes, VersionsBounded, IInv, TypeOK, Deployments
<1> QED
  BY <1>1, <1>2, StepWrites, CreatedTypes, ScaledTypes

-----------------------------------------------------------------------------
(* The requests' own records, and the deployments *)

\* A step of r changes no other request.
LEMMA OthersKept ==
    ASSUME IInv, NEW r \in Requests, Step(r)
    PROVE  /\ \A s \in Requests \ {r} :
                 /\ pc'[s] = pc[s] /\ call'[s] = call[s] /\ got'[s] = got[s]
                 /\ reply'[s] = reply[s] /\ before'[s] = before[s]
                 /\ s \in applied' <=> s \in applied
           /\ pc[r] # "answered"
<1> USE DEF IInv, TypeOK, Answer
<1>1. \A s \in Requests \ {r} : s \in applied' <=> s \in applied
  <2>1. applied' = applied \/ applied' = applied \cup {r}
    BY StepWrites, Zenon DEF Created, Deleted, Scaled, cluster
  <2> QED
    BY <2>1
<1>2. pc[r] # "answered"
  BY DEF Step, Receive, RejectBody, ApiFails, CreateDeployment, DeleteDeployment, Created, Deleted,
     Scaled, ListDeployments, GetScale, UpdateScale, GetDeployment
<1>3. \A s \in Requests \ {r} :
          /\ pc'[s] = pc[s] /\ call'[s] = call[s] /\ got'[s] = got[s]
          /\ reply'[s] = reply[s] /\ before'[s] = before[s]
  BY DEF Step, Receive, RejectBody, ApiFails, CreateDeployment, DeleteDeployment,
     ListDeployments, GetScale, UpdateScale, GetDeployment
<1> QED
  BY <1>1, <1>2, <1>3

\* The records of the requests have their types, and an answer ends a request.
LEMMA RequestTypes ==
    ASSUME IInv, NEW r \in Requests, Step(r)
    PROVE  TypeOK' /\ VersionsBounded'
<1> USE BoundAssumption DEF IInv, TypeOK
<1>1. /\ ClusterTypes' /\ VersionsBounded' /\ ready' \in BOOLEAN
  BY ClusterTypesKept, StepWrites
<1>2. CASE Receive(r)
  <2>1. PICK c \in Calls :
            /\ call' = [call EXCEPT ![r] = c]
            /\ IF ready THEN pc' = [pc EXCEPT ![r] = c.op] /\ UNCHANGED reply
                        ELSE Answer(r, 503, {})
    BY <1>2 DEF Receive
  <2>2. pc' \in [Requests -> PCs] /\ call' \in [Requests -> Calls \cup {NoCall}]
    BY <2>1, CallTypes DEF Answer, PCs
  <2>3. reply' \in [Requests -> [status : {0, 200, 201, 204, 400, 500, 503}, view : SUBSET Keys]]
    BY <2>1 DEF Answer
  <2>4. before' \in [Requests -> SUBSET Requests] /\ got' = got
    BY <1>2 DEF Receive
  <2>5. pc'[r] = "answered" <=> reply'[r].status # 0
    BY <1>2, <2>1, CallTypes DEF Answer, Receive
  <2>6. \A s \in Requests \ {r} : pc'[s] = pc[s] /\ reply'[s] = reply[s]
    BY OthersKept
  <2>7. \A s \in Requests : pc'[s] = "answered" <=> reply'[s].status # 0
    BY <2>5, <2>6
  <2> QED
    BY <1>1, <2>2, <2>3, <2>4, <2>7 DEF ClusterTypes, Deployments
<1>3. CASE RejectBody(r) \/ ApiFails(r) \/ CreateDeployment(r) \/ DeleteDeployment(r)
           \/ ListDeployments(r) \/ GetDeployment(r)
  <2>1. \E status \in {200, 201, 204, 400, 500}, view \in SUBSET Keys : Answer(r, status, view)
    <3>1. CASE RejectBody(r) \/ ApiFails(r)
      BY <3>1 DEF RejectBody, ApiFails
    <3>2. CASE CreateDeployment(r) \/ DeleteDeployment(r)
      BY <3>2 DEF CreateDeployment, DeleteDeployment, Created
    <3>3. CASE ListDeployments(r)
      BY <3>3 DEF ListDeployments
    <3>4. CASE GetDeployment(r)
      BY <3>4 DEF GetDeployment
    <3> QED
      BY <1>3, <3>1, <3>2, <3>3, <3>4
  <2>2. UNCHANGED <<call, got, before>>
    BY <1>3 DEF RejectBody, ApiFails, CreateDeployment, DeleteDeployment, ListDeployments, GetDeployment
  <2>3. /\ pc' \in [Requests -> PCs]
        /\ reply' \in [Requests -> [status : {0, 200, 201, 204, 400, 500, 503}, view : SUBSET Keys]]
        /\ pc'[r] = "answered" /\ reply'[r].status # 0
    BY <2>1 DEF Answer, PCs
  <2> QED
    BY <1>1, <2>2, <2>3, OthersKept DEF ClusterTypes, Deployments
<1>4. CASE GetScale(r) \/ UpdateScale(r)
  <2>1. /\ pc' \in [Requests -> PCs] /\ got' \in [Requests -> 0 .. MaxVersion]
        /\ UNCHANGED <<call, reply, before>> /\ pc'[r] # "answered"
    <3>1. CASE GetScale(r)
      <4>1. dep[Target(r)].version \in 0 .. MaxVersion
        BY <3>1 DEF GetScale
      <4> QED
        BY <3>1, <4>1 DEF GetScale, PCs
    <3>2. CASE UpdateScale(r)
      BY <3>2 DEF UpdateScale, PCs
    <3> QED
      BY <1>4, <3>1, <3>2
  <2> QED
    BY <1>1, <2>1, OthersKept DEF ClusterTypes, Deployments
<1> QED
  BY <1>2, <1>3, <1>4 DEF Step

LEMMA ControllerTypes ==
    ASSUME IInv, NEW k \in Keys, Controller(k)
    PROVE  TypeOK' /\ VersionsBounded'
<1> DEFINE d == [dep[k] EXCEPT !.version = version']
<1>1. d \in [by : Requests, version : {version'}, replicas : Nat]
  BY DEF Controller, IInv, TypeOK
<1>2. /\ DOMAIN dep' \subseteq Keys /\ \A j \in DOMAIN dep' : dep'[j] \in Deployments
      /\ version' \in 0 .. MaxVersion /\ VersionsBounded'
  BY <1>1, WriteTypes DEF Controller
<1> QED
  BY <1>2 DEF Controller, IInv, TypeOK, Deployments

\* Which steps answer with 200, and which change before.
LEMMA AnswersOK ==
    ASSUME IInv, NEW r \in Requests, Step(r)
    PROVE  /\ reply'[r].status = 200 => ListDeployments(r) \/ GetDeployment(r)
           /\ pc[r] # "new" => before' = before
           /\ pc[r] = "new" => reply'[r].status # 200
<1> USE DEF IInv, TypeOK, Answer, InOrder, InRoute
<1>1. CASE Receive(r)
  <2>1. reply'[r] = reply[r] \/ reply'[r].status = 503
    BY <1>1 DEF Receive
  <2>2. reply[r].status = 0 /\ pc[r] = "new"
    BY <1>1 DEF Receive
  <2> QED
    BY <2>1, <2>2
<1>2. CASE ~Receive(r) /\ ~ListDeployments(r) /\ ~GetDeployment(r)
  <2>1. pc[r] # "new" /\ before' = before
    BY <1>2 DEF Step, RejectBody, ApiFails, CreateDeployment, DeleteDeployment, Created, Deleted,
       Scaled, GetScale, UpdateScale
  <2>2. reply'[r] = reply[r] \/ reply'[r].status \in {201, 204, 400, 500}
    BY <1>2 DEF Step, RejectBody, ApiFails, CreateDeployment, DeleteDeployment, GetScale, UpdateScale
  <2>3. pc[r] # "answered"
    BY OthersKept
  <2> QED
    BY <2>1, <2>2, <2>3
<1>3. CASE ListDeployments(r) \/ GetDeployment(r)
  BY <1>3 DEF ListDeployments, GetDeployment
<1> QED
  BY <1>1, <1>2, <1>3

LEMMA RouteKept ==
    ASSUME IInv, NEW r \in Requests, Step(r)
    PROVE  /\ InRoute(r)' /\ ScaledIsApplied(r)' /\ PastIsAnswered(r)'
           /\ call[r].op = "getScale" /\ reply'[r].status = 200 => r \in applied'
<1> USE DEF IInv, TypeOK, Answer, InOrder, InRoute, ScaledIsApplied, PastIsAnswered
<1>1. CASE Receive(r)
  <2>1. PICK c \in Calls :
            /\ call' = [call EXCEPT ![r] = c]
            /\ IF ready THEN pc' = [pc EXCEPT ![r] = c.op] /\ UNCHANGED reply
                        ELSE Answer(r, 503, {})
    BY <1>1 DEF Receive
  <2>2. c.op \in {"create", "getScale", "delete", "list"}
    BY CallTypes
  <2> QED
    BY <1>1, <2>1, <2>2 DEF Receive, cluster
<1>2. CASE RejectBody(r) \/ ApiFails(r)
  <2>1. pc[r] \notin {"new", "answered"} /\ (Answer(r, 400, {}) \/ Answer(r, 500, {}))
    BY <1>2 DEF RejectBody, ApiFails
  <2>2. UNCHANGED <<call, before>> /\ applied \subseteq applied'
    BY <1>2, StepWrites DEF RejectBody, ApiFails, Created, Deleted, Scaled, cluster
  <2> QED
    BY <2>1, <2>2, OthersKept
<1>3. CASE CreateDeployment(r) \/ DeleteDeployment(r)
  BY <1>3 DEF CreateDeployment, DeleteDeployment, Created, Deleted
<1>5. CASE ListDeployments(r)
  BY <1>5 DEF ListDeployments, cluster
<1>4. CASE GetScale(r) \/ UpdateScale(r) \/ GetDeployment(r)
  BY <1>4 DEF GetScale, UpdateScale, GetDeployment, Scaled, cluster
<1> QED
  BY <1>1, <1>2, <1>3, <1>4, <1>5 DEF Step

\* Of a request that has left "new" the deployment it reaches stays the same.
LEMMA TargetKept ==
    ASSUME IInv, NEW r \in Requests, Step(r), NEW s \in Requests, pc[s] # "new"
    PROVE  call'[s] = call[s] /\ Target(s)' = Target(s) /\ Named(s)' = Named(s)
BY DEF Step, Receive, RejectBody, ApiFails, CreateDeployment, DeleteDeployment, ListDeployments,
       GetScale, UpdateScale, GetDeployment, Target, Named, IInv, TypeOK

\* A write gives its key a version that no request has read, and the scalings
\* that have read the key are stale from then on.
LEMMA WriteKeepsVersions ==
    ASSUME IInv, version < MaxVersion, version' = version + 1,
           NEW key \in Keys, NEW d \in [by : Requests, version : {version'}, replicas : Nat],
           Write(key, d), NEW s \in Requests, VersionsGrow(s),
           got'[s] = got[s], pc'[s] = pc[s], Target(s)' = Target(s),
           s \in stale' <=> s \in stale \/ (pc[s] = "updateScale" /\ Target(s) = key)
    PROVE  VersionsGrow(s)'
BY BoundAssumption DEF IInv, TypeOK, VersionsGrow, Write

\* The writes of r let the others know: who has read what they replace is stale.
LEMMA OthersKeepVersions ==
    ASSUME IInv, NEW r \in Requests, Step(r), NEW s \in Requests \ {r}
    PROVE  VersionsGrow(s)'
<1>1. pc'[s] = pc[s] /\ call'[s] = call[s] /\ got'[s] = got[s] /\ Target(s)' = Target(s)
  BY OthersKept DEF Target
<1>2. VersionsGrow(s) /\ s # r
  BY DEF IInv, InOrder
<1>3. CASE Created(r)
  BY <1>1, <1>2, <1>3, CreatedTypes, WriteKeepsVersions DEF Created, Overtaken
<1>4. CASE Deleted(r)
  BY <1>1, <1>2, <1>4 DEF Deleted, Overtaken, VersionsGrow
<1>5. CASE Scaled(r)
  BY <1>1, <1>2, <1>5, ScaledTypes, WriteKeepsVersions DEF Scaled, Overtaken
<1>6. CASE UNCHANGED cluster
  BY <1>1, <1>2, <1>6 DEF cluster, VersionsGrow
<1> QED
  BY <1>3, <1>4, <1>5, <1>6, StepWrites

\* A scaling that is stale has read a version that its deployment no longer has.
LEMMA ScaledIsFresh ==
    ASSUME IInv, NEW r \in Requests, Scaled(r)
    PROVE  r \notin stale'
<1>1. VersionsGrow(r) /\ dep[Target(r)].version \in Nat /\ got[r] \in Nat
  BY BoundAssumption DEF Scaled, IInv, InOrder, TypeOK
<1> QED
  BY <1>1 DEF Scaled, Overtaken, VersionsGrow

LEMMA RequestKeepsVersions ==
    ASSUME IInv, NEW r \in Requests, Step(r)
    PROVE  \A s \in Requests : VersionsGrow(s)'
<1> USE DEF IInv, InOrder, TypeOK
<1>1. version <= version' /\ (r \in stale' <=> r \in stale)
  <2>1. CASE Created(r) \/ Scaled(r)
    BY <2>1, BoundAssumption DEF Created, Scaled, Overtaken
  <2>2. CASE Deleted(r) \/ UNCHANGED cluster
    BY <2>2, BoundAssumption DEF Deleted, cluster, Overtaken
  <2> QED
    BY <2>1, <2>2, StepWrites
<1>2. CASE GetScale(r)
  <2>1. /\ UNCHANGED <<dep, version, stale>> /\ Target(r) \in DOMAIN dep
        /\ got'[r] = dep[Target(r)].version /\ pc[r] = "getScale"
    BY <1>2 DEF GetScale, cluster
  <2> QED
    BY <2>1, OthersKeepVersions DEF VersionsGrow, VersionsBounded
<1>3. CASE ~GetScale(r)
  <2>1. got' = got /\ pc'[r] # "updateScale"
    <3>1. CASE Receive(r)
      <4>1. PICK c \in Calls : IF ready THEN pc' = [pc EXCEPT ![r] = c.op] ELSE Answer(r, 503, {})
        BY <3>1 DEF Receive
      <4> QED
        BY <3>1, <4>1, CallTypes DEF Receive, Answer
    <3> QED
      BY <1>3, <3>1 DEF Step, RejectBody, ApiFails, CreateDeployment, DeleteDeployment,
         ListDeployments, UpdateScale, GetDeployment, Answer
  <2>2. r \in stale => pc'[r] = "answered"
    <3> SUFFICES ASSUME r \in stale PROVE pc'[r] = "answered"
      OBVIOUS
    <3>1. pc[r] = "updateScale" /\ ~Scaled(r)
      BY <1>1, OthersKept, ScaledIsFresh DEF VersionsGrow
    <3>2. ApiFails(r)
      BY <1>3, <3>1 DEF Step, Receive, RejectBody, CreateDeployment, DeleteDeployment, Created,
         Deleted, ListDeployments, UpdateScale, GetDeployment
    <3> QED
      BY <3>2 DEF ApiFails, Answer
  <2>3. got[r] \in Nat /\ version \in Nat /\ version' \in Nat
    BY BoundAssumption, ClusterTypesKept DEF ClusterTypes
  <2>4. VersionsGrow(r)'
    BY <1>1, <2>1, <2>2, <2>3 DEF VersionsGrow
  <2> QED
    BY <2>4, OthersKeepVersions
<1> QED
  BY <1>2, <1>3

\* An applied scaling is past UpdateScale, where nothing overtakes it any more.
LEMMA NoScaleLost ==
    ASSUME IInv, NEW r \in Requests, Step(r)
    PROVE  NoLostScale'
<1> SUFFICES ASSUME NEW q \in applied', q \in stale' PROVE FALSE
  BY DEF NoLostScale
<1>1. CASE q \in applied
  <2>1. q \in Requests /\ pc[q] # "updateScale" /\ q \notin stale
    BY <1>1 DEF IInv, TypeOK, InOrder, ScaledIsApplied, NoLostScale
  <2> QED
    BY <2>1, StepWrites DEF Created, Deleted, Scaled, cluster, Overtaken
<1>2. CASE q \notin applied
  <2>1. Scaled(r) /\ q = r
    BY <1>2, StepWrites DEF Created, Deleted, Scaled, cluster
  <2> QED
    BY <2>1, ScaledIsFresh
<1> QED
  BY <1>1, <1>2

\* The deployment that a request made is only ever made by it.
LEMMA ListingKept ==
    ASSUME IInv, NEW r \in Requests, Step(r), Configured = Default
    PROVE  CreatedIsListed'
<1> SUFFICES ASSUME NEW l \in Requests, NEW c \in before'[l],
                    call'[l].op = "list", call'[l].ns = Absent, reply'[l].status = 200,
                    call'[c].op = "create", call'[c].ns = Absent, reply'[c].status = 201,
                    Named(c)' \in DOMAIN dep', dep'[Named(c)'].by = c
             PROVE  Named(c)' \in reply'[l].view
  BY DEF CreatedIsListed
<1> USE DEF IInv, InOrder
<1>1. pc[l] # "new" /\ before'[l] = before[l]
  <2>1. CASE l = r
    BY <2>1, AnswersOK
  <2>2. CASE l # r
    BY <2>2, OthersKept DEF TypeOK
  <2> QED
    BY <2>1, <2>2
<1>2. c \in Requests /\ pc[c] = "answered" /\ c # r
  BY <1>1, OthersKept DEF PastIsAnswered, TypeOK
<1>3. /\ Named(c)' = Named(c) /\ call'[c] = call[c] /\ reply'[c] = reply[c]
      /\ call'[l] = call[l]
  BY <1>1, <1>2, OthersKept, TargetKept
<1>4. Named(c) \in DOMAIN dep /\ dep[Named(c)].by = c
  <2>1. CASE Created(r)
    BY <1>2, <1>3, <2>1 DEF Created, Write
  <2>2. CASE Scaled(r)
    BY <1>3, <2>2 DEF Scaled, Write, TypeOK
  <2>3. CASE Deleted(r) \/ UNCHANGED cluster
    BY <1>3, <2>3 DEF Deleted, cluster
  <2> QED
    BY <2>1, <2>2, <2>3, StepWrites
<1>5. CASE l = r
  <2>1. ListDeployments(r)
    BY <1>3, <1>5, AnswersOK DEF GetDeployment, InRoute
  <2>2. reply'[l].view = {k \in DOMAIN dep : k[1] = Default}
    BY <1>3, <1>5, <2>1 DEF ListDeployments, Answer, OrElse, TypeOK
  <2>3. Named(c)[1] = Default
    BY <1>3 DEF Named, OrElse
  <2> QED
    BY <1>3, <1>4, <2>2, <2>3
<1>6. CASE l # r
  <2>1. reply'[l] = reply[l]
    BY <1>6, OthersKept
  <2> QED
    BY <1>1, <1>3, <1>4, <2>1 DEF CreatedIsListed
<1> QED
  BY <1>5, <1>6

-----------------------------------------------------------------------------
(* Theorems *)

LEMMA StepKeepsInvariant ==
    ASSUME IInv, NEW r \in Requests, Step(r)
    PROVE  IInv'
<1>1. TypeOK' /\ VersionsBounded' /\ NoLostScale' /\ (Configured = Default => CreatedIsListed')
  BY RequestTypes, NoScaleLost, ListingKept
<1>2. \A s \in Requests \ {r} : InRoute(s)' /\ ScaledIsApplied(s)' /\ PastIsAnswered(s)'
  BY OthersKept DEF IInv, InOrder, InRoute, ScaledIsApplied, PastIsAnswered, TypeOK
<1>3. \A s \in Requests : InOrder(s)'
  BY <1>2, RouteKept, RequestKeepsVersions DEF InOrder
<1>4. ScaleIsReported'
  <2>1. ASSUME NEW s \in Requests, call'[s].op = "getScale", reply'[s].status = 200
        PROVE  s \in applied'
    <3>1. CASE s = r
      BY <2>1, <3>1, RouteKept, AnswersOK, TargetKept
    <3>2. CASE s # r
      BY <2>1, <3>2, OthersKept DEF IInv, ScaleIsReported
    <3> QED
      BY <3>1, <3>2
  <2> QED
    BY <2>1 DEF ScaleIsReported
<1> QED
  BY <1>1, <1>3, <1>4 DEF IInv

LEMMA ControllerKeepsInvariant ==
    ASSUME IInv, NEW k \in Keys, Controller(k)
    PROVE  IInv'
<1> USE DEF IInv, InOrder
<1>1. TypeOK' /\ VersionsBounded'
  BY ControllerTypes
<1>2. \A s \in Requests : Target(s)' = Target(s) /\ Named(s)' = Named(s)
  BY DEF Controller, Target, Named
<1> DEFINE d == [dep[k] EXCEPT !.version = version']
<1>3. d \in [by : Requests, version : {version'}, replicas : Nat] /\ d.by = dep[k].by
  BY DEF Controller, TypeOK
<1>4. \A s \in Requests : VersionsGrow(s)'
  BY <1>2, <1>3, WriteKeepsVersions DEF Controller
<1>5. \A s \in Requests : InRoute(s)' /\ ScaledIsApplied(s)' /\ PastIsAnswered(s)'
  BY DEF Controller, InRoute, ScaledIsApplied, PastIsAnswered
<1>6. ScaleIsReported' /\ NoLostScale'
  <2>1. \A q \in applied : q \in Requests /\ pc[q] # "updateScale"
    BY DEF TypeOK, ScaledIsApplied
  <2> QED
    BY <2>1 DEF Controller, ScaleIsReported, NoLostScale
<1>7. Configured = Default => CreatedIsListed'
  BY <1>2, <1>3 DEF Controller, CreatedIsListed, Write, TypeOK
<1> QED
  BY <1>1, <1>4, <1>5, <1>6, <1>7

LEMMA NextKeepsInvariant == IInv /\ [Next]_vars => IInv'
<1> SUFFICES ASSUME IInv, [Next]_vars  PROVE IInv'
  OBVIOUS
<1>1. CASE \E r \in Requests : Step(r)
  BY <1>1, StepKeepsInvariant
<1>2. CASE \E k \in Keys : Controller(k)
  BY <1>2, ControllerKeepsInvariant
<1>3. CASE UNCHANGED vars
  <2>1. TypeOK' /\ VersionsBounded'
    BY <1>3 DEF vars, IInv, TypeOK, VersionsBounded
  <2>2. \A r \in Requests : InOrder(r)'
    BY <1>3 DEF vars, IInv, InOrder, InRoute, ScaledIsApplied, VersionsGrow, PastIsAnswered, Target
  <2>3. ScaleIsReported' /\ NoLostScale'
    BY <1>3 DEF vars, IInv, ScaleIsReported, NoLostScale
  <2>4. Configured = Default => CreatedIsListed'
    BY <1>3 DEF vars, IInv, CreatedIsListed, Named
  <2> QED
    BY <2>1, <2>2, <2>3, <2>4 DEF IInv
<1> QED
  BY <1>1, <1>2, <1>3 DEF Next, Quiescent

\* The invariant that the theorems below rest on.
THEOREM Invariance == Spec => []IInv
<1> QED
  BY InitInvariant, NextKeepsInvariant, PTL DEF Spec

\* Every reachable state has the types of TypeOK.
THEOREM TypeCorrect == Spec => []TypeOK
<1>1. IInv => TypeOK
  BY DEF IInv
<1> QED
  BY <1>1, Invariance, PTL

\* A scaling that is answered with success was applied.
THEOREM ScalingsAreReported == Spec => []ScaleIsReported
<1>1. IInv => ScaleIsReported
  BY DEF IInv
<1> QED
  BY <1>1, Invariance, PTL

\* Scalings are optimistic transactions: none is applied to a deployment that
\* was written, by whomever, since the scaling read it, for any number of
\* requests and of writes of the controller.
THEOREM NoScalingLost == Spec => []NoLostScale
<1>1. IInv => NoLostScale
  BY DEF IInv
<1> QED
  BY <1>1, Invariance, PTL

\* With the configured namespace "default", what was created in the default
\* namespace is listed there.
THEOREM CreationsAreListed == Configured = Default => (Spec => []CreatedIsListed)
<1> SUFFICES ASSUME Configured = Default  PROVE Spec => []CreatedIsListed
  OBVIOUS
<1>1. IInv => CreatedIsListed
  BY DEF IInv
<1> QED
  BY <1>1, Invariance, PTL

=============================================================================
