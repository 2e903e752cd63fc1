--------------------------- MODULE ContainerService ---------------------------
(***************************************************************************)
(* internal/container/docker_client.go behind the Docker routes of         *)
(* handler.go: containers, networks and volumes of one Docker daemon.      *)
(* Every route is a single call to the daemon but the creation of a        *)
(* container, which creates, connects, starts and inspects it in a row.    *)
(* The service keeps no state; what it relates is what the daemon has,     *)
(* which other requests change between two calls, and what it answers.     *)
(*                                                                         *)
(* A container is named by the request that creates it; those of other     *)
(* users of the daemon, the serverless Runner's, by themselves.  Its       *)
(* image, ports, mounts, limits and environment only pass through.         *)
(***************************************************************************)
EXTENDS FiniteSets, Sequences

CONSTANTS
    Requests,   \* HTTP requests to the Docker routes, each made once
    Others,     \* the containers of other users of the daemon
    Names,      \* the container names that requests use
    NoName,     \* no "name" in a request: the daemon makes one up
    Networks,
    NetLists    \* the "networks" of the requests for a container

ASSUME BoxesAssumption == Requests \cap Others = {}
ASSUME NamesAssumption == NoName \notin Names /\ Names \cap (Requests \cup Others) = {}
ASSUME NetListsAssumption == NetLists \subseteq Seq(Networks)

Boxes == Requests \cup Others

VARIABLES
    server,     \* how far main got: loading, proxmox, probing, serving,
                \* closing (app.Shutdown), stopped; or crashed
    docker,     \* the server found a daemon: Handler.docker is not nil
    box,        \* the daemon's containers
    name,       \* and their names
    networks,
    pc,         \* the call that each request is in
    call,       \* its route and parameters, kept behind the answer of a creation
    todo,       \* CreateContainer: the networks it has yet to connect
    joined,     \* the networks that a created container was connected to
    warned,     \* the networks that it logged a warning for
    ran,        \* history: the daemon started the created container
    status,     \* the status of each answer
    shown       \* the container that the answer to a creation describes

daemon == <<box, name, networks, joined, ran>>
handlers == <<pc, call, todo, warned, status, shown>>
containerVars == <<server, docker, daemon, handlers>>

-----------------------------------------------------------------------------

Refs == Boxes \cup Names

Creations == [op : {"create"}, name : Names \cup {NoName}, nets : NetLists, auto : BOOLEAN]
Calls ==
    Creations
    \cup [op : {"get", "start", "stop", "logs", "stats"}, ref : Refs]
    \cup [op : {"remove"}, ref : Refs, force : BOOLEAN]
    \cup [op : {"list", "prune", "listNetworks", "listVolumes", "createVolume"}]
    \cup [op : {"createNetwork"}, net : Networks]
NoCall == [op |-> "none"]

HasBody == {"create", "createNetwork", "createVolume"}

Up == server \in {"serving", "closing"}
CtxDone == server # "serving"

Present(c) == box[c] \in {"created", "running", "exited"}

\* The daemon takes :id for an id or for a name.
Resolve(ref) == {c \in Boxes : Present(c) /\ (c = ref \/ name[c] = ref)}

NameIsFree(n) == n = NoName \/ Resolve(n) = {}

\* Where a container goes that ends: with auto_remove, away.
Ended(c) == IF c \in Requests /\ call[c].auto THEN "gone" ELSE "exited"

Init ==
    /\ server = "loading" /\ docker = FALSE
    /\ box = [c \in Boxes |-> "none"]
    /\ name = [c \in Boxes |-> NoName]
    /\ networks = {}
    /\ pc = [r \in Requests |-> "new"]
    /\ call = [r \in Requests |-> NoCall]
    /\ todo = [r \in Requests |-> << >>]
    /\ joined = [r \in Requests |-> {}]
    /\ warned = [r \in Requests |-> {}]
    /\ ran = [r \in Requests |-> FALSE]
    /\ status = [r \in Requests |-> 0]
    /\ shown = [r \in Requests |-> {}]

Answer(r, code, boxes) ==
    /\ pc' = [pc EXCEPT ![r] = "answered"]
    /\ status' = [status EXCEPT ![r] = code]
    /\ shown' = [shown EXCEPT ![r] = boxes]

-----------------------------------------------------------------------------
(* The handlers up to their first call *)

\* The id of a container is known from a list or an answer, so it exists.
Receive(r) ==
    /\ server = "serving" /\ pc[r] = "new"
    /\ \E c \in Calls :
          /\ "ref" \in DOMAIN c /\ c.ref \in Boxes => box[c.ref] # "none"
          /\ \/ /\ docker
                /\ call' = [call EXCEPT ![r] = c]
                /\ pc' = [pc EXCEPT ![r] = "calling"]
                /\ UNCHANGED <<status, shown>>
             \/ docker /\ c.op \in HasBody /\ Answer(r, 400, {}) /\ UNCHANGED call
             \/ ~docker /\ Answer(r, 503, {}) /\ UNCHANGED call
    /\ UNCHANGED <<server, docker, daemon, todo, warned>>

-----------------------------------------------------------------------------
(* The routes of one call: what the daemon does for each, and the answer *)

\* The answer; what was asked of the daemon is over.
Finish(r, code) == Answer(r, code, {}) /\ call' = [call EXCEPT ![r] = NoCall]

Asks(r, op) == Up /\ pc[r] = "calling" /\ call[r].op = op

StartContainer(r) ==
    /\ Asks(r, "start")
    /\ \E c \in Resolve(call[r].ref) :
          /\ box' = [box EXCEPT ![c] = "running"]
          /\ ran' = IF c \in Requests THEN [ran EXCEPT ![c] = TRUE] ELSE ran
    /\ UNCHANGED <<name, networks, joined>>

StopContainer(r) ==
    /\ Asks(r, "stop")
    /\ \E c \in Resolve(call[r].ref) :
          box' = [box EXCEPT ![c] = IF @ = "running" THEN Ended(c) ELSE @]
    /\ UNCHANGED <<name, networks, joined, ran>>

\* Mutant of RemoveContainer: Force: true, as the Runner has it.
RemoveForced(r) ==
    /\ Asks(r, "remove")
    /\ \E c \in Resolve(call[r].ref) : box' = [box EXCEPT ![c] = "gone"]
    /\ UNCHANGED <<name, networks, joined, ran>>

\* The daemon refuses to remove a running container without ?force.
RemoveContainer(r) ==
    /\ Asks(r, "remove")
    /\ \E c \in Resolve(call[r].ref) :
          /\ box[c] # "running" \/ call[r].force
          /\ box' = [box EXCEPT ![c] = "gone"]
    /\ UNCHANGED <<name, networks, joined, ran>>

\* No filter: every container that does not run, whoever created it.
PruneContainers(r) ==
    /\ Asks(r, "prune")
    /\ box' = [c \in Boxes |-> IF box[c] \in {"created", "exited"} THEN "gone" ELSE box[c]]
    /\ UNCHANGED <<name, networks, joined, ran>>

CreateNetwork(r) ==
    /\ Asks(r, "createNetwork")
    /\ networks' = networks \cup {call[r].net}
    /\ UNCHANGED <<box, name, joined, ran>>

\* VolumeCreate makes a volume or finds it; nothing here depends on volumes.
CreateVolume(r) ==
    /\ Asks(r, "createVolume")
    /\ UNCHANGED daemon

Changes(r) ==
    \/ StartContainer(r) \/ StopContainer(r) \/ RemoveContainer(r)
    \/ PruneContainers(r) \/ CreateNetwork(r) \/ CreateVolume(r)

ListContainers(r) == Asks(r, "list") /\ UNCHANGED daemon
ListNetworks(r)   == Asks(r, "listNetworks") /\ UNCHANGED daemon
ListVolumes(r)    == Asks(r, "listVolumes") /\ UNCHANGED daemon

GetContainerDetails(r) == Asks(r, "get") /\ Resolve(call[r].ref) # {} /\ UNCHANGED daemon
GetContainerStats(r)   == Asks(r, "stats") /\ Resolve(call[r].ref) # {} /\ UNCHANGED daemon
Logs(r)                == Asks(r, "logs") /\ Resolve(call[r].ref) # {} /\ UNCHANGED daemon

Shows(r) ==
    \/ ListContainers(r) \/ ListNetworks(r) \/ ListVolumes(r)
    \/ GetContainerDetails(r) \/ GetContainerStats(r) \/ Logs(r)

Success(op) == CASE op = "remove" -> 204 [] op \in HasBody -> 201 [] OTHER -> 200

CallDone(r) ==
    /\ Changes(r) \/ Shows(r)
    /\ Finish(r, Success(call[r].op))
    /\ UNCHANGED <<server, docker, todo, warned>>

\* Any call may fail: nothing of that id or name, a refusal, a daemon that went
\* away, the end of the context; and what failed may have been carried out.
CallFails(r) ==
    /\ Up /\ pc[r] = "calling" /\ call[r].op # "create"
    /\ Changes(r) \/ UNCHANGED daemon
    /\ Finish(r, IF call[r].op = "get" THEN 404 ELSE 500)
    /\ UNCHANGED <<server, docker, todo, warned>>

-----------------------------------------------------------------------------
(* CreateContainer *)

Goto(r, l) == pc' = [pc EXCEPT ![r] = l]

\* Mutant of Loop: one network at least.
LoopOnce(nets) == "connecting"

\* The loop over req.Networks, and what follows it.
Loop(nets) == IF nets = << >> THEN "starting" ELSE "connecting"

\* ContainerCreate: refused while a container has the name.
NewBox(r) ==
    /\ NameIsFree(call[r].name)
    /\ box' = [box EXCEPT ![r] = "created"]
    /\ name' = [name EXCEPT ![r] = call[r].name]
    /\ UNCHANGED <<networks, joined, ran>>

Create(r) ==
    /\ Asks(r, "create") /\ NewBox(r)
    /\ Goto(r, Loop(call[r].nets))
    /\ todo' = [todo EXCEPT ![r] = call[r].nets]
    /\ UNCHANGED <<server, docker, call, warned, status, shown>>

CreateFails(r) ==
    /\ Asks(r, "create")
    /\ NewBox(r) \/ UNCHANGED daemon
    /\ Answer(r, 500, {})
    /\ UNCHANGED <<server, docker, call, todo, warned>>

\* A network that cannot be connected is a warning in the log, and no more.
Connect(r) ==
    /\ Up /\ pc[r] = "connecting"
    /\ LET net == Head(todo[r]) IN
          \/ /\ net \in networks \ joined[r] /\ Present(r)
             /\ joined' = [joined EXCEPT ![r] = @ \cup {net}]
             /\ UNCHANGED warned
          \/ warned' = [warned EXCEPT ![r] = @ \cup {net}] /\ UNCHANGED joined
    /\ todo' = [todo EXCEPT ![r] = Tail(@)]
    /\ Goto(r, Loop(Tail(todo[r])))
    /\ UNCHANGED <<server, docker, box, name, networks, ran, call, status, shown>>

StartBox(r) ==
    /\ Present(r)
    /\ box' = [box EXCEPT ![r] = "running"]
    /\ ran' = [ran EXCEPT ![r] = TRUE]
    /\ UNCHANGED <<name, networks, joined>>

Start(r) ==
    /\ Up /\ pc[r] = "starting" /\ StartBox(r)
    /\ Goto(r, "inspecting")
    /\ UNCHANGED <<server, docker, call, todo, warned, status, shown>>

\* The daemon drops a container with auto_remove that it could not start; any
\* other stays, as nothing is cleaned up here.
DropBox(r) ==
    /\ box[r] \in {"created", "exited"} /\ call[r].auto
    /\ box' = [box EXCEPT ![r] = "gone"]
    /\ UNCHANGED <<name, networks, joined, ran>>

StartFails(r) ==
    /\ Up /\ pc[r] = "starting"
    /\ StartBox(r) \/ DropBox(r) \/ UNCHANGED daemon
    /\ Answer(r, 500, {})
    /\ UNCHANGED <<server, docker, call, todo, warned>>

\* Mutant of Inspect: by the name of the request, not by the id of the answer.
InspectByName(r) ==
    /\ Up /\ pc[r] = "inspecting"
    /\ \E c \in Resolve(call[r].name) : Answer(r, 201, {c})
    /\ UNCHANGED <<server, docker, daemon, call, todo, warned>>

Inspect(r) ==
    /\ Up /\ pc[r] = "inspecting" /\ Present(r)
    /\ Answer(r, 201, {r})
    /\ UNCHANGED <<server, docker, daemon, call, todo, warned>>

\* The container may be gone by then, with auto_remove because it has ended.
InspectFails(r) ==
    /\ Up /\ pc[r] = "inspecting"
    /\ Answer(r, 500, {})
    /\ UNCHANGED <<server, docker, daemon, call, todo, warned>>

HandlerStep(r) ==
    \/ Receive(r) \/ CallDone(r) \/ CallFails(r)
    \/ Create(r) \/ CreateFails(r) \/ Connect(r) \/ Start(r) \/ StartFails(r)
    \/ Inspect(r) \/ InspectFails(r)

\* Mutant of GiveUp: the calls of one of the routes run under
\* context.Background(), as a call would that should outlive its request.
GiveUpButStart(r) ==
    CtxDone /\ (CallFails(r) \/ CreateFails(r) \/ Connect(r) \/ InspectFails(r))

\* Every call runs under the context of its request, and fails with its end.
GiveUp(r) ==
    CtxDone /\ (CallFails(r) \/ CreateFails(r) \/ Connect(r) \/ StartFails(r) \/ InspectFails(r))

\* A container that a request created ends by itself.
Exits(r) ==
    /\ box[r] = "running"
    /\ box' = [box EXCEPT ![r] = Ended(r)]
    /\ UNCHANGED <<server, docker, handlers, name, networks, joined, ran>>

-----------------------------------------------------------------------------
(* Properties *)

ContainersTypeOK ==
    /\ docker \in BOOLEAN
    /\ box \in [Boxes -> {"none", "created", "running", "exited", "gone"}]
    /\ name \in [Boxes -> Names \cup {NoName}]
    /\ networks \subseteq Networks
    /\ pc \in [Requests -> {"new", "calling", "connecting", "starting", "inspecting", "answered"}]
    /\ call \in [Requests -> Calls \cup {NoCall}]
    /\ joined \in [Requests -> SUBSET Networks] /\ warned \in [Requests -> SUBSET Networks]
    /\ ran \in [Requests -> BOOLEAN]
    /\ status \in [Requests -> {0, 200, 201, 204, 400, 404, 500, 503}]
    /\ shown \in [Requests -> SUBSET Boxes]
    /\ \A r \in Requests :
          /\ todo[r] \in Seq(Networks)
          /\ pc[r] = "connecting" => todo[r] # << >>
          /\ (pc[r] = "answered") = (status[r] # 0)

\* Whoever is answered 201 is shown the container it asked for and not one
\* that was given the name meanwhile; it was started, and each network it was
\* to join was joined or is in the log (docker_client.go:360-374).
CreatedIsOwn ==
    \A r \in Requests : status[r] = 201 /\ call[r].op = "create" =>
        /\ shown[r] = {r} /\ ran[r]
        /\ \A k \in DOMAIN call[r].nets : call[r].nets[k] \in joined[r] \cup warned[r]

=============================================================================
