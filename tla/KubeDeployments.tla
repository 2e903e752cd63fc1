--------------------------- MODULE KubeDeployments ---------------------------
(***************************************************************************)
(* The deployment routes of internal/container: the handlers of handler.go *)
(* resolve the namespace and the name, the K8sService of k8s_client.go     *)
(* makes the calls to the Kubernetes API server, one for a creation, a     *)
(* deletion or a list, three for a scaling (GetScale, UpdateScale, Get).   *)
(* The API server is modelled as k8s_client.go relies on it: objects named *)
(* by namespace and name, a resourceVersion that every write changes and   *)
(* that an UpdateScale must match.                                         *)
(***************************************************************************)
EXTENDS Integers, FiniteSets

CONSTANTS
    Requests,   \* HTTP requests to /api/compute/k8s/deployments, each made once
    Names,      \* the names that occur, of namespaces and of deployments
    Namespaces, \* the namespaces the cluster has
    Default,    \* the name "default" that the handlers fill in
    Configured, \* kubernetes.namespace of config.yaml
    Absent,     \* a namespace that the request leaves out
    Replicas,   \* the replica counts that are asked for
    MaxVersion  \* bound: writes to the cluster, the controller's included

ASSUME NamesAssumption ==
    /\ Namespaces \subseteq Names /\ Default \in Names /\ Configured \in Names
    /\ Absent \notin Names
ASSUME ReplicasAssumption == Replicas \subseteq Int
ASSUME BoundAssumption == MaxVersion \in Nat

VARIABLES
    ready,      \* main.go got a Kubernetes client
    dep,        \* the deployments of the cluster, by <<namespace, name>>
    version,    \* the last resourceVersion given
    pc,         \* the call each request is in
    call,       \* what each request asks for
    got,        \* the resourceVersion that GetScale returned
    reply,      \* what each request is answered
    applied,    \* history: the scalings the API server accepted
    stale,      \* history: the scalings whose deployment others wrote after GetScale
    before      \* history: the requests answered when a request was received

vars == <<ready, dep, version, pc, call, got, reply, applied, stale, before>>
cluster == <<dep, version, applied, stale>>

-----------------------------------------------------------------------------

PCs == {"new", "create", "delete", "list", "getScale", "updateScale", "get", "answered"}

Keys == Namespaces \X Names

Calls ==
    [op : {"create"}, name : Names, ns : Names \cup {Absent}, replicas : Replicas]
    \cup [op : {"getScale"}, name : Names, ns : Names \cup {Absent}, replicas : Replicas]
    \cup [op : {"delete", "list"}, name : Names, ns : Names \cup {Absent}, replicas : {0}]
NoCall == [op |-> "none", name |-> Default, ns |-> Absent, replicas |-> 0]

OrElse(ns, fallback) == IF ns = Absent THEN fallback ELSE ns

\* The deployment a request names: of the path and ?namespace=, or of the body.
Named(r) == <<OrElse(call[r].ns, IF call[r].op = "create" THEN Configured ELSE Default),
              call[r].name>>

\* The deployment that Scale and Delete reach.  The handlers pass the name
\* where the methods expect the namespace, and the namespace for the name.
Target(r) == <<call[r].name, OrElse(call[r].ns, Default)>>

Answer(r, status, view) ==
    /\ reply' = [reply EXCEPT ![r] = [status |-> status, view |-> view]]
    /\ pc' = [pc EXCEPT ![r] = "answered"]

\* The scalings between their GetScale and their UpdateScale, but for r, that a
\* write of key overtakes.
Overtaken(key, r) == {q \in Requests \ {r} : pc[q] = "updateScale" /\ Target(q) = key}

Write(key, d) == dep' = [k \in DOMAIN dep \cup {key} |-> IF k = key THEN d ELSE dep[k]]

Init ==
    /\ ready \in BOOLEAN
    /\ dep = [k \in {} |-> 0]
    /\ version = 0
    /\ pc = [r \in Requests |-> "new"]
    /\ call = [r \in Requests |-> NoCall]
    /\ got = [r \in Requests |-> 0]
    /\ reply = [r \in Requests |-> [status |-> 0, view |-> {}]]
    /\ applied = {} /\ stale = {}
    /\ before = [r \in Requests |-> {}]

-----------------------------------------------------------------------------

Receive(r) ==
    /\ pc[r] = "new"
    /\ \E c \in Calls :
          /\ call' = [call EXCEPT ![r] = c]
          /\ IF ready THEN pc' = [pc EXCEPT ![r] = c.op] /\ UNCHANGED reply
                      ELSE Answer(r, 503, {})
    /\ before' = [before EXCEPT ![r] = {q \in Requests : pc[q] = "answered"}]
    /\ UNCHANGED <<ready, cluster, got>>

-----------------------------------------------------------------------------
(* The writes, where the API server makes them *)

Created(r) ==
    /\ pc[r] = "create" /\ version < MaxVersion
    /\ Named(r) \in Keys \ DOMAIN dep /\ call[r].replicas >= 0
    /\ version' = version + 1
    /\ Write(Named(r), [by |-> r, version |-> version',
                        replicas |-> IF call[r].replicas = 0 THEN 1 ELSE call[r].replicas])
    /\ stale' = stale \cup Overtaken(Named(r), r)
    /\ UNCHANGED applied

Deleted(r) ==
    /\ pc[r] = "delete"
    /\ Target(r) \in DOMAIN dep
    /\ dep' = [k \in DOMAIN dep \ {Target(r)} |-> dep[k]]
    /\ stale' = stale \cup Overtaken(Target(r), r)
    /\ UNCHANGED <<version, applied>>

\* Mutant of Scaled: the Scale is built anew, with no resourceVersion.
ScaledBlind(r) ==
    /\ pc[r] = "updateScale" /\ version < MaxVersion
    /\ Target(r) \in DOMAIN dep /\ call[r].replicas >= 0
    /\ version' = version + 1
    /\ Write(Target(r), [dep[Target(r)] EXCEPT !.replicas = call[r].replicas,
                                               !.version = version'])
    /\ applied' = applied \cup {r}
    /\ stale' = stale \cup Overtaken(Target(r), r)

\* The Scale that is sent back carries the resourceVersion it was read with.
Scaled(r) ==
    /\ pc[r] = "updateScale" /\ version < MaxVersion
    /\ Target(r) \in DOMAIN dep /\ dep[Target(r)].version = got[r]
    /\ call[r].replicas >= 0
    /\ version' = version + 1
    /\ Write(Target(r), [dep[Target(r)] EXCEPT !.replicas = call[r].replicas,
                                               !.version = version'])
    /\ applied' = applied \cup {r}
    /\ stale' = stale \cup Overtaken(Target(r), r)

-----------------------------------------------------------------------------
(* The routes of one call *)

\* Mutant of RejectBody: the return before BadRequest is forgotten.
RejectBodyGoesOn(r) ==
    /\ pc[r] \in {"create", "getScale"}
    /\ reply' = [reply EXCEPT ![r] = [status |-> 400, view |-> {}]]
    /\ UNCHANGED <<ready, cluster, pc, call, got, before>>

\* A body that cannot be parsed, the handler's check once it has a client.
RejectBody(r) ==
    /\ pc[r] \in {"create", "getScale"}
    /\ Answer(r, 400, {})
    /\ UNCHANGED <<ready, cluster, call, got, before>>

\* An error of the API server or of the connection to it, whatever the call.
\* The write may have been made all the same, and only its answer lost.
ApiFails(r) ==
    /\ pc[r] \notin {"new", "answered"}
    /\ Created(r) \/ Deleted(r) \/ Scaled(r) \/ UNCHANGED cluster
    /\ Answer(r, 500, {})
    /\ UNCHANGED <<ready, call, got, before>>

CreateDeployment(r) ==
    /\ Created(r)
    /\ Answer(r, 201, {Named(r)})
    /\ UNCHANGED <<ready, call, got, before>>

DeleteDeployment(r) ==
    /\ Deleted(r)
    /\ Answer(r, 204, {})
    /\ UNCHANGED <<ready, call, got, before>>

\* Mutant of ListDeployments: the name of the request is taken for its namespace.
ListSwapped(r) ==
    /\ pc[r] = "list"
    /\ Answer(r, 200, {k \in DOMAIN dep : k[1] = call[r].name})
    /\ UNCHANGED <<ready, cluster, call, got, before>>

ListDeployments(r) ==
    /\ pc[r] = "list"
    /\ Answer(r, 200, {k \in DOMAIN dep : k[1] = OrElse(call[r].ns, Default)})
    /\ UNCHANGED <<ready, cluster, call, got, before>>

-----------------------------------------------------------------------------
(* ScaleDeployment *)

GetScale(r) ==
    /\ pc[r] = "getScale"
    /\ Target(r) \in DOMAIN dep
    /\ got' = [got EXCEPT ![r] = dep[Target(r)].version]
    /\ pc' = [pc EXCEPT ![r] = "updateScale"]
    /\ UNCHANGED <<ready, cluster, call, reply, before>>

\* Mutant of UpdateScale: its error is ignored.
UpdateScaleUnchecked(r) ==
    /\ pc[r] = "updateScale"
    /\ pc' = [pc EXCEPT ![r] = "get"]
    /\ UNCHANGED <<ready, cluster, call, got, reply, before>>

UpdateScale(r) ==
    /\ Scaled(r)
    /\ pc' = [pc EXCEPT ![r] = "get"]
    /\ UNCHANGED <<ready, call, got, reply, before>>

GetDeployment(r) ==
    /\ pc[r] = "get"
    /\ Target(r) \in DOMAIN dep
    /\ Answer(r, 200, {Target(r)})
    /\ UNCHANGED <<ready, cluster, call, got, before>>

-----------------------------------------------------------------------------

\* The deployment controller writes the status, and with it the version.
Controller(k) ==
    /\ k \in DOMAIN dep /\ version < MaxVersion
    /\ version' = version + 1
    /\ Write(k, [dep[k] EXCEPT !.version = version'])
    /\ stale' = stale \cup {q \in Requests : pc[q] = "updateScale" /\ Target(q) = k}
    /\ UNCHANGED <<ready, pc, call, got, reply, applied, before>>

\* Every request of the instance is answered: the server waits for more.
Quiescent == (\A r \in Requests : pc[r] = "answered") /\ UNCHANGED vars

Step(r) ==
    \/ Receive(r) \/ RejectBody(r) \/ ApiFails(r)
    \/ CreateDeployment(r) \/ DeleteDeployment(r) \/ ListDeployments(r)
    \/ GetScale(r) \/ UpdateScale(r) \/ GetDeployment(r)

Next ==
    \/ \E r \in Requests : Step(r)
    \/ \E k \in Keys : Controller(k)
    \/ Quiescent

Spec == Init /\ [][Next]_vars

-----------------------------------------------------------------------------
(* Properties *)

TypeOK ==
    /\ ready \in BOOLEAN
    /\ DOMAIN dep \subseteq Keys
    /\ \A k \in DOMAIN dep : dep[k] \in [by : Requests, version : 1 .. MaxVersion, replicas : Nat]
    /\ version \in 0 .. MaxVersion
    /\ pc \in [Requests -> PCs]
    /\ call \in [Requests -> Calls \cup {NoCall}]
    /\ got \in [Requests -> 0 .. MaxVersion]
    /\ reply \in [Requests -> [status : {0, 200, 201, 204, 400, 500, 503}, view : SUBSET Keys]]
    /\ \A r \in Requests : pc[r] = "answered" <=> reply[r].status # 0
    /\ applied \subseteq Requests
    /\ stale \subseteq Requests
    /\ before \in [Requests -> SUBSET Requests]

\* A scaling answered with 200 was applied, although its three calls may be
\* overtaken by others (k8s_client.go:174-185).
ScaleIsReported ==
    \A r \in Requests : call[r].op = "getScale" /\ reply[r].status = 200 => r \in applied

\* A scaling overwrites nothing that it has not read: if its deployment was
\* scaled, deleted, made anew or written by the controller after GetScale
\* returned, UpdateScale is refused, since it sends back the Scale, and with it
\* the resourceVersion, that GetScale read (k8s_client.go:174-181).
NoLostScale == applied \cap stale = {}

\* A deployment created in the default namespace is in the lists of it that
\* are asked for later, for as long as it exists.  Creation and listing find
\* their default in different places, so this needs kubernetes.namespace to be
\* "default", as in the config.yaml that is shipped (k8s_client.go:110-113,
\* handler.go:263).
CreatedIsListed ==
    \A l \in Requests : \A c \in before[l] :
        /\ call[l].op = "list" /\ call[l].ns = Absent /\ reply[l].status = 200
        /\ call[c].op = "create" /\ call[c].ns = Absent /\ reply[c].status = 201
        /\ Named(c) \in DOMAIN dep /\ dep[Named(c)].by = c
        => Named(c) \in reply[l].view

\* "DeleteDeployment removes a deployment", "ScaleDeployment updates the
\* replica count" (k8s_client.go:190, 169): the one that the request names, by
\* the :name of its path and its ?namespace=, and no other.
WritesWhatIsNamed ==
    [][\A r \in Requests : pc[r] \in {"delete", "updateScale"} /\ pc'[r] # pc[r] =>
          \A k \in Keys \ {Named(r)} :
              /\ k \in DOMAIN dep <=> k \in DOMAIN dep'
              /\ k \in DOMAIN dep => dep'[k] = dep[k]]_vars

=============================================================================
