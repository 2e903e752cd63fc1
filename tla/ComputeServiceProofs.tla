------------------------- MODULE ComputeServiceProofs -------------------------
(***************************************************************************)
(* Proofs about ComputeService, and so about ContainerService inside it:   *)
(* for any requests, containers of others, names, networks and hosts.      *)
(***************************************************************************)
EXTENDS ComputeService, TLAPS

BoxStates == {"none", "created", "running", "exited", "gone"}

\* TypeOK without Sandbox's part, which comes from the refinement.
Types ==
    /\ server \in {"loading", "proxmox", "probing", "serving", "closing", "stopped", "crashed"}
    /\ left \in 0 .. Hosts
    /\ docker \in BOOLEAN
    /\ box \in [Boxes -> BoxStates]
    /\ name \in [Boxes -> Names \cup {NoName}]
    /\ networks \in SUBSET Networks
    /\ pc \in [Requests -> {"new", "calling", "connecting", "starting", "inspecting", "answered"}]
    /\ call \in [Requests -> Calls \cup {NoCall}]
    /\ todo \in [Requests -> Seq(Networks)]
    /\ joined \in [Requests -> SUBSET Networks] /\ warned \in [Requests -> SUBSET Networks]
    /\ ran \in [Requests -> BOOLEAN]
    /\ status \in [Requests -> {0, 200, 201, 204, 400, 404, 500, 503}]
    /\ shown \in [Requests -> SUBSET Boxes]
    /\ ended \in [Others -> BOOLEAN]

\* The networks that a creation has yet to connect.
Awaited(r) == {todo[r][k] : k \in DOMAIN todo[r]}

\* Every network of the request was joined, logged, or is awaited.
Accounted(r) ==
    \A k \in DOMAIN call[r].nets : call[r].nets[k] \in joined[r] \cup warned[r] \cup Awaited(r)

Connected(r) ==
    \A k \in DOMAIN call[r].nets : call[r].nets[k] \in joined[r] \cup warned[r]

\* What the call a request is in says of its container.
InOrder(r) ==
    /\ pc[r] = "new" => call[r] = NoCall
    /\ pc[r] = "calling" => call[r] \in Calls
    /\ pc[r] \in {"new", "calling"} => box[r] = "none"
    /\ pc[r] \in {"connecting", "starting", "inspecting"} => box[r] # "none"
    /\ box[r] # "none" => call[r] \in Creations /\ name[r] = call[r].name
    /\ pc[r] = "connecting" => todo[r] # << >> /\ Accounted(r)
    /\ pc[r] \in {"starting", "inspecting"} => Connected(r)
    /\ pc[r] = "inspecting" => ran[r]
    /\ pc[r] = "answered" <=> status[r] # 0
    /\ status[r] = 201 /\ call[r].op = "create" => shown[r] = {r} /\ ran[r] /\ Connected(r)

IInv == Types /\ \A r \in Requests : InOrder(r)

-----------------------------------------------------------------------------
(* What a route does to the daemon *)

\* No container comes or comes back, and nothing that was connected or started
\* is forgotten.
DaemonKept ==
    /\ box' \in [Boxes -> BoxStates]
    /\ \A c \in Boxes : /\ box'[c] = "none" <=> box[c] = "none"
                        /\ Present(c)' => Present(c)
    /\ name' = name /\ joined' = joined
    /\ networks' \in SUBSET Networks
    /\ ran' \in [Requests -> BOOLEAN] /\ \A r \in Requests : ran[r] => ran'[r]

\* What a container comes to that ends.
LEMMA EndedType ==
    ASSUME NEW c \in Boxes
    PROVE  Ended(c) \in {"gone", "exited"}
BY DEF Ended

\* The routes of one call keep the daemon so.
LEMMA ChangesKeep ==
    ASSUME Types, NEW r \in Requests, InOrder(r),
           Changes(r) \/ Shows(r) \/ UNCHANGED daemon
    PROVE  DaemonKept
<1> USE DEF Types, BoxStates, DaemonKept, Present
<1>1. CASE UNCHANGED daemon
  BY <1>1 DEF daemon
<1>2. CASE StartContainer(r)
  <2>1. PICK c \in Resolve(call[r].ref) :
            /\ box' = [box EXCEPT ![c] = "running"]
            /\ ran' = IF c \in Requests THEN [ran EXCEPT ![c] = TRUE] ELSE ran
    BY <1>2 DEF StartContainer
  <2>2. c \in Boxes /\ Present(c) /\ UNCHANGED <<name, networks, joined>>
    BY <1>2, <2>1 DEF StartContainer, Resolve
  <2> QED
    BY <2>1, <2>2
<1>3. CASE StopContainer(r)
  <2>1. PICK c \in Resolve(call[r].ref) :
            box' = [box EXCEPT ![c] = IF @ = "running" THEN Ended(c) ELSE @]
    BY <1>3 DEF StopContainer
  <2>2. c \in Boxes /\ Present(c) /\ UNCHANGED <<name, networks, joined, ran>>
    BY <1>3, <2>1 DEF StopContainer, Resolve
  <2>3. Ended(c) \in {"gone", "exited"}
    BY <2>2, EndedType
  <2> QED
    BY <2>1, <2>2, <2>3
<1>4. CASE RemoveContainer(r)
  <2>1. PICK c \in Resolve(call[r].ref) : box' = [box EXCEPT ![c] = "gone"]
    BY <1>4 DEF RemoveContainer
  <2>2. c \in Boxes /\ Present(c) /\ UNCHANGED <<name, networks, joined, ran>>
    BY <1>4, <2>1 DEF RemoveContainer, Resolve
  <2> QED
    BY <2>1, <2>2
<1>5. CASE PruneContainers(r)
  BY <1>5 DEF PruneContainers
<1>6. CASE CreateNetwork(r)
  <2>1. call[r] \in Calls /\ call[r].op = "createNetwork"
    BY <1>6 DEF CreateNetwork, Asks, InOrder
  <2>2. call[r].net \in Networks
    BY <2>1 DEF Calls, Creations
  <2> QED
    BY <1>6, <2>2 DEF CreateNetwork
<1>7. CASE CreateVolume(r) \/ Shows(r)
  BY <1>7 DEF CreateVolume, Shows, ListContainers, ListNetworks, ListVolumes,
     GetContainerDetails, GetContainerStats, Logs, daemon
<1> QED
  BY <1>1, <1>2, <1>3, <1>4, <1>5, <1>6, <1>7 DEF Changes

\* A step of r either keeps what the daemon has, makes r's container, or
\* connects it.
LEMMA DaemonSteps ==
    ASSUME IInv, NEW r \in Requests, HandlerStep(r) \/ Exits(r)
    PROVE  \/ DaemonKept
           \/ Asks(r, "create") /\ NewBox(r)
           \/ Connect(r)
<1> Types /\ InOrder(r)
  BY DEF IInv
<1>1. CASE Receive(r) \/ Inspect(r) \/ InspectFails(r)
  BY <1>1, ChangesKeep DEF Receive, Inspect, InspectFails
<1>2. CASE CallDone(r) \/ CallFails(r)
  BY <1>2, ChangesKeep DEF CallDone, CallFails
<1>3. CASE Create(r) \/ CreateFails(r)
  BY <1>3, ChangesKeep DEF Create, CreateFails
<1>4. CASE (Start(r) \/ StartFails(r)) /\ StartBox(r)
  BY <1>4 DEF StartBox, DaemonKept, Types, BoxStates, Present, Boxes
<1>5. CASE (Start(r) \/ StartFails(r)) /\ ~StartBox(r)
  <2>1. CASE DropBox(r)
    BY <2>1 DEF DropBox, DaemonKept, Types, BoxStates, Present, Boxes
  <2> QED
    BY <1>5, <2>1, ChangesKeep DEF Start, StartFails
<1>6. CASE Exits(r)
  BY <1>6, EndedType DEF Exits, DaemonKept, Types, BoxStates, Present, Boxes
<1> QED
  BY <1>1, <1>2, <1>3, <1>4, <1>5, <1>6 DEF HandlerStep

\* What a step of r leaves alone of the other requests.
LEMMA OthersKept ==
    ASSUME IInv, NEW r \in Requests, HandlerStep(r) \/ Exits(r)
    PROVE  /\ server' = server /\ docker' = docker
           /\ \A q \in Requests \ {r} :
                 /\ pc'[q] = pc[q] /\ call'[q] = call[q] /\ todo'[q] = todo[q]
                 /\ warned'[q] = warned[q] /\ status'[q] = status[q] /\ shown'[q] = shown[q]
<1> USE DEF IInv, Types, Answer, Goto
<1>1. CASE Receive(r)
  BY <1>1 DEF Receive
<1>2. CASE CallDone(r) \/ CallFails(r)
  BY <1>2 DEF CallDone, CallFails, Finish
<1>3. CASE Create(r) \/ CreateFails(r)
  BY <1>3 DEF Create, CreateFails
<1>4. CASE Connect(r)
  BY <1>4 DEF Connect
<1>5. CASE Start(r) \/ StartFails(r)
  BY <1>5 DEF Start, StartFails
<1>6. CASE Inspect(r) \/ InspectFails(r) \/ Exits(r)
  BY <1>6 DEF Inspect, InspectFails, Exits, handlers
<1> QED
  BY <1>1, <1>2, <1>3, <1>4, <1>5, <1>6 DEF HandlerStep

\* The daemon's part of the types.
LEMMA DaemonTypes ==
    ASSUME IInv, NEW r \in Requests, HandlerStep(r) \/ Exits(r)
    PROVE  /\ box' \in [Boxes -> BoxStates]
           /\ name' \in [Boxes -> Names \cup {NoName}]
           /\ networks' \in SUBSET Networks
           /\ joined' \in [Requests -> SUBSET Networks]
           /\ ran' \in [Requests -> BOOLEAN]
<1> Types /\ InOrder(r)
  BY DEF IInv
<1> USE DEF Types
<1>1. CASE DaemonKept
  BY <1>1 DEF DaemonKept
<1>2. CASE Asks(r, "create") /\ NewBox(r)
  <2>1. call[r].name \in Names \cup {NoName}
    BY <1>2 DEF Asks, InOrder, Calls, Creations
  <2> QED
    BY <1>2, <2>1 DEF NewBox, BoxStates
<1>3. CASE Connect(r)
  <2>1. joined' = joined \/ \E n \in Networks : joined' = [joined EXCEPT ![r] = @ \cup {n}]
    BY <1>3 DEF Connect
  <2>2. UNCHANGED <<box, name, networks, ran>>
    BY <1>3 DEF Connect
  <2>3. joined' \in [Requests -> SUBSET Networks]
    <3>1. joined \in [Requests -> SUBSET Networks]
      OBVIOUS
    <3>2. CASE joined' = joined
      BY <3>1, <3>2
    <3>3. CASE joined' # joined
      <4>1. PICK n \in Networks : joined' = [joined EXCEPT ![r] = @ \cup {n}]
        BY <2>1, <3>3
      <4>2. joined[r] \cup {n} \in SUBSET Networks
        BY <3>1
      <4> QED
        BY <3>1, <4>1, <4>2
    <3> QED
      BY <3>2, <3>3
  <2> QED
    BY <2>2, <2>3
<1> QED
  BY <1>1, <1>2, <1>3, DaemonSteps

\* The handlers' part of Types.
HandlersTyped ==
    /\ pc \in [Requests -> {"new", "calling", "connecting", "starting", "inspecting", "answered"}]
    /\ call \in [Requests -> Calls \cup {NoCall}]
    /\ todo \in [Requests -> Seq(Networks)]
    /\ warned \in [Requests -> SUBSET Networks]
    /\ status \in [Requests -> {0, 200, 201, 204, 400, 404, 500, 503}]
    /\ shown \in [Requests -> SUBSET Boxes]

\* The answer of a handler.
LEMMA Answered ==
    ASSUME Types, NEW r \in Requests,
           NEW code \in {200, 201, 204, 400, 404, 500, 503}, NEW boxes \in SUBSET Boxes,
           Answer(r, code, boxes)
    PROVE  /\ pc' \in [Requests -> {"new", "calling", "connecting", "starting", "inspecting",
                                    "answered"}]
           /\ status' \in [Requests -> {0, 200, 201, 204, 400, 404, 500, 503}]
           /\ shown' \in [Requests -> SUBSET Boxes]
           /\ pc'[r] = "answered" /\ status'[r] = code /\ shown'[r] = boxes
BY DEF Answer, Types

\* Its next call.
LEMMA Advanced ==
    ASSUME Types, NEW r \in Requests,
           NEW l \in {"connecting", "starting", "inspecting"}, Goto(r, l)
    PROVE  /\ pc' \in [Requests -> {"new", "calling", "connecting", "starting", "inspecting",
                                    "answered"}]
           /\ pc'[r] = l
BY DEF Goto, Types

\* The answers of the routes that succeed.
LEMMA SuccessType == \A op : Success(op) \in {200, 201, 204}
BY DEF Success

\* Every step of a handler keeps their types.
LEMMA HandlerTypes ==
    ASSUME IInv, NEW r \in Requests, HandlerStep(r) \/ Exits(r)
    PROVE  HandlersTyped'
<1> Types /\ InOrder(r) /\ r \in Boxes /\ {r} \in SUBSET Boxes
  BY DEF IInv, Boxes
<1> USE DEF HandlersTyped
<1>1. CASE Receive(r)
  <2>1. UNCHANGED <<todo, warned>>
    BY <1>1 DEF Receive
  <2>2. CASE Answer(r, 400, {}) /\ UNCHANGED call
    BY <2>1, <2>2, Answered DEF Types
  <2>3. CASE Answer(r, 503, {}) /\ UNCHANGED call
    BY <2>1, <2>3, Answered DEF Types
  <2>4. CASE \E c \in Calls : /\ call' = [call EXCEPT ![r] = c]
                              /\ pc' = [pc EXCEPT ![r] = "calling"]
                              /\ UNCHANGED <<status, shown>>
    BY <2>1, <2>4 DEF Types
  <2> QED
    BY <1>1, <2>2, <2>3, <2>4 DEF Receive
<1>2. CASE CallDone(r) \/ CallFails(r)
  <2>1. PICK code \in {200, 201, 204, 404, 500} : Finish(r, code)
    BY <1>2, SuccessType DEF CallDone, CallFails
  <2>2. UNCHANGED <<todo, warned>>
    BY <1>2 DEF CallDone, CallFails
  <2>3. Answer(r, code, {}) /\ call' = [call EXCEPT ![r] = NoCall]
    BY <2>1 DEF Finish
  <2> QED
    BY <2>2, <2>3, Answered DEF Types
<1>3. CASE Create(r)
  <2>1. call[r].nets \in Seq(Networks)
    BY <1>3, NetListsAssumption DEF Create, Asks, InOrder, Calls, Creations
  <2>2. /\ Goto(r, Loop(call[r].nets)) /\ todo' = [todo EXCEPT ![r] = call[r].nets]
        /\ UNCHANGED <<call, warned, status, shown>>
    BY <1>3 DEF Create
  <2>3. Loop(call[r].nets) \in {"connecting", "starting"}
    BY DEF Loop
  <2> QED
    BY <2>1, <2>2, <2>3, Advanced DEF Types
<1>4. CASE Connect(r)
  <2>1. todo[r] \in Seq(Networks) /\ todo[r] # << >>
    BY <1>4 DEF Connect, InOrder, Types
  <2>2. Head(todo[r]) \in Networks /\ Tail(todo[r]) \in Seq(Networks)
    BY <2>1
  <2>3. /\ Goto(r, Loop(Tail(todo[r]))) /\ todo' = [todo EXCEPT ![r] = Tail(todo[r])]
        /\ UNCHANGED <<call, status, shown>>
        /\ warned' = warned \/ warned' = [warned EXCEPT ![r] = @ \cup {Head(todo[r])}]
    BY <1>4 DEF Connect
  <2>4. Loop(Tail(todo[r])) \in {"connecting", "starting"}
    BY DEF Loop
  <2>5. warned' \in [Requests -> SUBSET Networks]
    <3>1. warned \in [Requests -> SUBSET Networks]
      BY DEF Types
    <3>2. warned[r] \cup {Head(todo[r])} \in SUBSET Networks
      BY <2>2, <3>1
    <3> QED
      BY <2>3, <3>1, <3>2
  <2>6. todo' \in [Requests -> Seq(Networks)]
    BY <2>2, <2>3 DEF Types
  <2> QED
    BY <2>3, <2>4, <2>5, <2>6, Advanced DEF Types
<1>5. CASE Start(r)
  BY <1>5, Advanced DEF Start, Types
<1>6. CASE CreateFails(r) \/ StartFails(r) \/ InspectFails(r)
  <2>1. Answer(r, 500, {}) /\ UNCHANGED <<call, todo, warned>>
    BY <1>6 DEF CreateFails, StartFails, InspectFails
  <2> QED
    BY <2>1, Answered DEF Types
<1>7. CASE Inspect(r)
  <2>1. Answer(r, 201, {r}) /\ UNCHANGED <<call, todo, warned>>
    BY <1>7 DEF Inspect
  <2> QED
    BY <2>1, Answered DEF Types
<1>8. CASE Exits(r)
  BY <1>8 DEF Exits, handlers, Types
<1> QED
  BY <1>1, <1>2, <1>3, <1>4, <1>5, <1>6, <1>7, <1>8 DEF HandlerStep

\* A step of r leaves every other request in order.
LEMMA OthersInOrder ==
    ASSUME IInv, NEW r \in Requests, HandlerStep(r) \/ Exits(r), NEW q \in Requests \ {r}
    PROVE  InOrder(q)'
<1>1. /\ pc'[q] = pc[q] /\ call'[q] = call[q] /\ todo'[q] = todo[q]
      /\ warned'[q] = warned[q] /\ status'[q] = status[q] /\ shown'[q] = shown[q]
  BY OthersKept
<1>2. /\ box'[q] = "none" <=> box[q] = "none"
      /\ name'[q] = name[q] /\ joined'[q] = joined[q] /\ (ran[q] => ran'[q])
  <2> q \in Boxes /\ Types
    BY DEF IInv, Boxes
  <2>1. CASE DaemonKept
    BY <2>1 DEF DaemonKept
  <2>2. CASE NewBox(r)
    BY <2>2 DEF NewBox, Types
  <2>3. CASE Connect(r)
    <3>1. \/ joined' = joined
          \/ \E n : joined' = [joined EXCEPT ![r] = @ \cup {n}]
      BY <2>3 DEF Connect
    <3>2. UNCHANGED <<box, name, ran>>
      BY <2>3 DEF Connect
    <3> QED
      BY <3>1, <3>2 DEF Types
  <2> QED
    BY <2>1, <2>2, <2>3, DaemonSteps
<1>3. InOrder(q)
  BY DEF IInv
<1>4. (Accounted(q) => Accounted(q)') /\ (Connected(q) => Connected(q)')
  BY <1>1, <1>2 DEF Accounted, Connected, Awaited
<1> QED
  BY <1>1, <1>2, <1>3, <1>4 DEF InOrder

\* The first element of a sequence and those of its tail are all there are.
LEMMA HeadAndTail ==
    ASSUME NEW S, NEW s \in Seq(S), s # << >>, NEW k \in DOMAIN s
    PROVE  s[k] = Head(s) \/ \E j \in DOMAIN Tail(s) : Tail(s)[j] = s[k]
<1>1. CASE k = 1
  BY <1>1
<1>2. CASE k # 1
  <2>1. k - 1 \in DOMAIN Tail(s) /\ Tail(s)[k - 1] = s[k]
    BY <1>2
  <2> QED
    BY <2>1
<1> QED
  BY <1>1, <1>2

\* A request that is answered with an error, its container, if it made one,
\* left as it is.
LEMMA ErrorInOrder ==
    ASSUME Types, NEW r \in Requests, InOrder(r),
           pc'[r] = "answered", status'[r] \in {200, 204, 400, 404, 500, 503},
           box'[r] # "none" => call'[r] \in Creations /\ name'[r] = call'[r].name
    PROVE  InOrder(r)'
BY DEF InOrder

\* The routes of one call.
LEMMA CallInOrder ==
    ASSUME IInv, NEW r \in Requests, Receive(r) \/ CallDone(r) \/ CallFails(r)
    PROVE  InOrder(r)'
<1> Types /\ InOrder(r) /\ r \in Boxes
  BY DEF IInv, Boxes
<1>1. DaemonKept
  BY ChangesKeep DEF Receive, CallDone, CallFails
<1>2. box[r] = "none"
  BY DEF Receive, CallDone, CallFails, Changes, Shows, Asks, InOrder, StartContainer, StopContainer,
     RemoveContainer, PruneContainers, CreateNetwork, CreateVolume, ListContainers, ListNetworks,
     ListVolumes, GetContainerDetails, GetContainerStats, Logs
<1>3. box'[r] = "none"
  BY <1>1, <1>2 DEF DaemonKept
<1>4. CASE Receive(r)
  <2>1. pc[r] = "new" /\ call[r] = NoCall /\ status[r] = 0
    BY <1>4 DEF Receive, InOrder
  <2>2. CASE (Answer(r, 400, {}) \/ Answer(r, 503, {})) /\ UNCHANGED call
    <3>1. pc'[r] = "answered" /\ status'[r] \in {400, 503}
      BY <2>2, Answered
    <3> QED
      BY <1>3, <3>1, ErrorInOrder
  <2>3. CASE \E c \in Calls : /\ call' = [call EXCEPT ![r] = c]
                              /\ pc' = [pc EXCEPT ![r] = "calling"]
                              /\ UNCHANGED <<status, shown>>
    <3>1. call'[r] \in Calls /\ pc'[r] = "calling" /\ status'[r] = 0
      BY <2>1, <2>3 DEF Types
    <3> QED
      BY <1>3, <3>1 DEF InOrder
  <2> QED
    BY <1>4, <2>2, <2>3 DEF Receive
<1>5. CASE CallDone(r) \/ CallFails(r)
  <2>1. PICK code \in {200, 201, 204, 404, 500} : Finish(r, code)
    BY <1>5, SuccessType DEF CallDone, CallFails
  <2>2. pc'[r] = "answered" /\ status'[r] = code /\ call'[r] = NoCall
    BY <2>1, Answered DEF Finish, Types
  <2>3. NoCall.op # "create"
    BY DEF NoCall
  <2> QED
    BY <1>3, <2>2, <2>3 DEF InOrder
<1> QED
  BY <1>4, <1>5

\* What is left of a creation's call in its container.
LEMMA OwnCreation ==
    ASSUME Types, NEW r \in Requests, InOrder(r), Asks(r, "create")
    PROVE  call[r] \in Creations /\ status[r] = 0
BY DEF InOrder, Asks, Calls, Creations

\* Its container is its own from the moment that the daemon makes it.
LEMMA CreateInOrder ==
    ASSUME IInv, NEW r \in Requests, Create(r) \/ CreateFails(r)
    PROVE  InOrder(r)'
<1> Types /\ InOrder(r) /\ r \in Boxes
  BY DEF IInv, Boxes
<1>1. Asks(r, "create") /\ UNCHANGED call
  BY DEF Create, CreateFails
<1>2. call[r] \in Creations /\ status[r] = 0 /\ box[r] = "none"
  BY <1>1, OwnCreation DEF InOrder, Asks
<1>3. NewBox(r) => box'[r] = "created" /\ name'[r] = call[r].name
  BY DEF NewBox, Types
<1>4. CASE Create(r)
  <2>1. /\ Goto(r, Loop(call[r].nets)) /\ NewBox(r)
        /\ todo' = [todo EXCEPT ![r] = call[r].nets] /\ UNCHANGED status
    BY <1>4 DEF Create
  <2>2. Loop(call[r].nets) \in {"connecting", "starting"}
    BY DEF Loop
  <2>3. pc'[r] = Loop(call[r].nets) /\ status'[r] = 0 /\ todo'[r] = call[r].nets /\ call'[r] = call[r]
    BY <1>1, <1>2, <2>1, <2>2, Advanced DEF Types
  <2>4. Accounted(r)'
    BY <2>3 DEF Accounted, Awaited
  <2>5. call[r].nets = << >> => Connected(r)'
    BY <2>3 DEF Connected
  <2>6. /\ call[r].nets = << >> => pc'[r] = "starting"
        /\ call[r].nets # << >> => pc'[r] = "connecting"
    BY <2>3 DEF Loop
  <2> QED
    BY <1>2, <1>3, <2>1, <2>3, <2>4, <2>5, <2>6 DEF InOrder
<1>5. CASE CreateFails(r)
  <2>1. pc'[r] = "answered" /\ status'[r] = 500
    BY <1>5, Answered DEF CreateFails
  <2>2. NewBox(r) \/ UNCHANGED <<box, name>>
    BY <1>5 DEF CreateFails, daemon
  <2> QED
    BY <1>1, <1>2, <1>3, <2>1, <2>2, ErrorInOrder
<1> QED
  BY <1>4, <1>5

\* The loop accounts for each network, by joining it or by a warning.
LEMMA ConnectInOrder ==
    ASSUME IInv, NEW r \in Requests, Connect(r)
    PROVE  InOrder(r)'
<1> DEFINE net == Head(todo[r])
           rest == Tail(todo[r])
<1> Types /\ InOrder(r) /\ r \in Boxes
  BY DEF IInv, Boxes
<1>1. todo[r] \in Seq(Networks) /\ todo[r] # << >> /\ Accounted(r)
  BY DEF Connect, InOrder, Types
<1>2. /\ Goto(r, Loop(rest)) /\ todo' = [todo EXCEPT ![r] = rest]
      /\ UNCHANGED <<call, box, name, ran, status, shown>>
  BY DEF Connect
<1>3. \/ joined' = [joined EXCEPT ![r] = @ \cup {net}] /\ warned' = warned
      \/ warned' = [warned EXCEPT ![r] = @ \cup {net}] /\ joined' = joined
  BY DEF Connect
<1>4. joined'[r] \cup warned'[r] = joined[r] \cup warned[r] \cup {net}
  <2> joined \in [Requests -> SUBSET Networks] /\ warned \in [Requests -> SUBSET Networks]
    BY DEF Types
  <2> QED
    BY <1>3
<1>5. todo'[r] = rest /\ call'[r] = call[r] /\ status'[r] = status[r]
  BY <1>2 DEF Types
<1>6. \A n \in Awaited(r) : n = net \/ n \in Awaited(r)'
  BY <1>1, <1>5, HeadAndTail DEF Awaited
<1>7. Accounted(r)'
  BY <1>1, <1>4, <1>5, <1>6 DEF Accounted
<1>8. rest = << >> => Connected(r)'
  BY <1>5, <1>7 DEF Accounted, Connected, Awaited
<1>9. Loop(rest) \in {"connecting", "starting"}
  BY DEF Loop
<1>10. pc'[r] = Loop(rest)
  BY <1>2, <1>9, Advanced
<1>11. /\ rest = << >> => pc'[r] = "starting"
       /\ rest # << >> => pc'[r] = "connecting"
  BY <1>10 DEF Loop
<1>12. status[r] = 0 /\ box[r] # "none" /\ (call[r] \in Creations /\ name[r] = call[r].name)
  BY DEF InOrder, Connect
<1> QED
  BY <1>2, <1>5, <1>7, <1>8, <1>11, <1>12 DEF InOrder

\* When the loop has ended, every network is accounted for.
LEMMA StartInOrder ==
    ASSUME IInv, NEW r \in Requests, Start(r) \/ StartFails(r)
    PROVE  InOrder(r)'
<1> Types /\ InOrder(r) /\ r \in Boxes
  BY DEF IInv, Boxes
<1>1. /\ pc[r] = "starting" /\ status[r] = 0 /\ box[r] # "none" /\ Connected(r)
      /\ call[r] \in Creations /\ name[r] = call[r].name /\ UNCHANGED <<call, warned>>
  BY DEF InOrder, Start, StartFails
<1>2. CASE Start(r)
  <2>1. StartBox(r) /\ Goto(r, "inspecting") /\ UNCHANGED <<status, joined>>
    BY <1>2 DEF Start, StartBox
  <2>2. box'[r] = "running" /\ ran'[r] /\ name' = name
    BY <2>1 DEF StartBox, Types
  <2>3. pc'[r] = "inspecting"
    BY <2>1, Advanced
  <2>4. Connected(r)'
    BY <1>1, <2>1 DEF Connected
  <2> QED
    BY <1>1, <2>1, <2>2, <2>3, <2>4 DEF InOrder
<1>3. CASE StartFails(r)
  <2>1. pc'[r] = "answered" /\ status'[r] = 500
    BY <1>3, Answered DEF StartFails
  <2>2. name' = name
    BY <1>3 DEF StartFails, StartBox, DropBox, daemon
  <2> QED
    BY <1>1, <2>1, <2>2, ErrorInOrder
<1> QED
  BY <1>2, <1>3

\* What is shown was started and connected, whatever became of it since.
LEMMA InspectInOrder ==
    ASSUME IInv, NEW r \in Requests, Inspect(r) \/ InspectFails(r)
    PROVE  InOrder(r)'
<1> Types /\ InOrder(r) /\ r \in Boxes /\ {r} \in SUBSET Boxes
  BY DEF IInv, Boxes
<1>1. /\ box[r] # "none" /\ Connected(r) /\ ran[r]
      /\ call[r] \in Creations /\ name[r] = call[r].name
      /\ UNCHANGED <<daemon, call, todo, warned>>
  BY DEF InOrder, Inspect, InspectFails
<1>2. UNCHANGED <<box, name, joined, ran>>
  BY <1>1 DEF daemon
<1>3. CASE Inspect(r)
  <2>1. pc'[r] = "answered" /\ status'[r] = 201 /\ shown'[r] = {r}
    BY <1>3, Answered DEF Inspect
  <2>2. Connected(r)'
    BY <1>1, <1>2 DEF Connected
  <2> QED
    BY <1>1, <1>2, <2>1, <2>2 DEF InOrder
<1>4. CASE InspectFails(r)
  <2>1. pc'[r] = "answered" /\ status'[r] = 500
    BY <1>4, Answered DEF InspectFails
  <2> QED
    BY <1>1, <1>2, <2>1, ErrorInOrder
<1> QED
  BY <1>3, <1>4

\* A container that ends by itself keeps its name and its history.
LEMMA ExitInOrder ==
    ASSUME IInv, NEW r \in Requests, Exits(r)
    PROVE  InOrder(r)'
<1> Types /\ InOrder(r) /\ r \in Boxes
  BY DEF IInv, Boxes
<1>1. box[r] = "running" /\ box' = [box EXCEPT ![r] = Ended(r)] /\ UNCHANGED <<handlers, name, joined, ran>>
  BY DEF Exits
<1>2. box'[r] # "none"
  BY <1>1, EndedType, ZenonT(40) DEF Types
<1>3. UNCHANGED <<pc, call, todo, warned, status, shown>>
  BY <1>1 DEF handlers
<1>4. (Accounted(r) => Accounted(r)') /\ (Connected(r) => Connected(r)')
  BY <1>1, <1>3 DEF Accounted, Connected, Awaited
<1> QED
  BY <1>1, <1>2, <1>3, <1>4 DEF InOrder

\* A step of r keeps what is known of every request.
LEMMA RouteKeepsOrder ==
    ASSUME IInv, NEW r \in Requests, HandlerStep(r) \/ Exits(r)
    PROVE  \A q \in Requests : InOrder(q)'
<1>1. InOrder(r)'
  BY CallInOrder, CreateInOrder, ConnectInOrder, StartInOrder, InspectInOrder, ExitInOrder
     DEF HandlerStep
<1> QED
  BY <1>1, OthersInOrder

-----------------------------------------------------------------------------
(* The invariant is inductive *)

\* The routes.
LEMMA RouteKeepsInvariant ==
    ASSUME IInv, NEW r \in Requests, RouteStep(r)
    PROVE  IInv'
<1> Types
  BY DEF IInv
<1>1. HandlerStep(r) \/ Exits(r)
  BY DEF RouteStep
<1>2. ended' \in [Others -> BOOLEAN] /\ left' = left
  BY DEF RouteStep, Witnessed
<1>3. server' = server /\ docker' = docker
  BY <1>1, OthersKept
<1>4. Types'
  BY <1>1, <1>2, <1>3, DaemonTypes, HandlerTypes DEF Types, HandlersTyped
<1> QED
  BY <1>1, <1>4, RouteKeepsOrder DEF IInv

\* A step of Sandbox changes the container of its invocation and the history.
LEMMA SandboxEnded ==
    ASSUME Types, NEW i \in Others,
           \/ SB!RunnerStep(i)
           \/ SB!DaemonCreates(i) \/ SB!DaemonStarts(i) \/ SB!FnExits(i)
    PROVE  ended' \in [Others -> BOOLEAN]
<1> ended \in [Others -> BOOLEAN]
  BY DEF Types
<1>1. CASE SB!Remove(i)
  BY <1>1 DEF SB!Remove
<1>2. CASE SB!FnExits(i)
  BY <1>2 DEF SB!FnExits
<1> QED
  BY <1>1, <1>2 DEF SB!RunnerStep, SB!DaemonCreates, SB!DaemonStarts, SB!Begin, SB!Created,
     SB!CreateFails, SB!Started, SB!StartFails, SB!WaitStatus, SB!WaitFails, SB!Logs, SB!Expire,
     SB!daemon

\* The Runner and the daemon, whose containers are none of the requests'.
LEMMA SandboxKeepsInvariant ==
    ASSUME IInv, NEW i \in Others, RunnerStep(i) \/ DaemonStep(i)
    PROVE  IInv'
<1> Types /\ i \in Boxes /\ i \notin Requests
  BY BoxesAssumption DEF IInv, Boxes
<1>1. UNCHANGED <<server, docker, handlers, name, networks, joined, ran, left>>
  BY DEF RunnerStep, DaemonStep, InSandbox
<1>2. PICK s \in BoxStates : box' = [box EXCEPT ![i] = s]
  BY DEF RunnerStep, DaemonStep, InSandbox, BoxStates
<1>3. ended' \in [Others -> BOOLEAN]
  BY SandboxEnded DEF RunnerStep, DaemonStep, InSandbox
<1>4. UNCHANGED <<pc, call, todo, warned, status, shown>>
  BY <1>1 DEF handlers
<1>5. Types'
  BY <1>1, <1>2, <1>3, <1>4 DEF Types
<1>8. ASSUME NEW r \in Requests PROVE InOrder(r)'
  <2>1. InOrder(r) /\ box'[r] = box[r]
    BY <1>2 DEF IInv, Types, Boxes
  <2>2. (Accounted(r) => Accounted(r)') /\ (Connected(r) => Connected(r)')
    BY <1>1, <1>4 DEF Accounted, Connected, Awaited
  <2> QED
    BY <1>1, <1>4, <2>1, <2>2 DEF InOrder
<1> QED
  BY <1>5, <1>8 DEF IInv

\* The steps of main.
ServerStep ==
    Load \/ LoadFails \/ PastProxmox \/ ProbeFails \/ ProbeAnswers \/ Listen \/ Shutdown \/ Stop \/ Crash

\* They touch nothing but server, left and docker.
LEMMA ServerFrame ==
    ASSUME Types, ServerStep \/ UNCHANGED vars
    PROVE  /\ server' \in {"loading", "proxmox", "probing", "serving", "closing", "stopped", "crashed"}
           /\ left' \in 0 .. Hosts /\ docker' \in BOOLEAN
           /\ UNCHANGED <<box, name, networks, joined, ran, pc, call, todo, warned, status, shown,
                          ended, sandbox>>
<1> USE HostsAssumption DEF Types, daemon, handlers, containerVars
<1>1. CASE Load \/ LoadFails \/ PastProxmox
  BY <1>1 DEF Load, LoadFails, PastProxmox
<1>2. CASE ProbeFails \/ ProbeAnswers
  <2>1. left' \in 0 .. Hosts
    <3> left \in 0 .. Hosts /\ left > 0 /\ left' \in {0, left - 1}
      BY <1>2 DEF ProbeFails, ProbeAnswers
    <3> QED
      OBVIOUS
  <2>2. /\ server' = server /\ docker' \in {docker, TRUE}
        /\ UNCHANGED <<daemon, handlers, ended, sandbox>>
    BY <1>2 DEF ProbeFails, ProbeAnswers
  <2> QED
    BY <2>1, <2>2
<1>3. CASE Listen \/ Shutdown
  BY <1>3 DEF Listen, Shutdown
<1>4. CASE Stop \/ Crash
  BY <1>4 DEF Stop, Crash
<1>5. CASE UNCHANGED vars
  BY <1>5 DEF vars
<1> QED
  BY <1>1, <1>2, <1>3, <1>4, <1>5 DEF ServerStep

\* main.
LEMMA ServerKeepsInvariant ==
    ASSUME IInv, ServerStep \/ UNCHANGED vars
    PROVE  IInv'
<1>1. Types
  BY DEF IInv
<1>2. Types'
  BY <1>1, ServerFrame DEF Types
<1>4. ASSUME NEW r \in Requests PROVE InOrder(r)'
  <2>1. InOrder(r)
    BY DEF IInv
  <2>2. UNCHANGED <<box, name, joined, ran, pc, call, todo, warned, status, shown>>
    BY <1>1, ServerFrame
  <2> QED
    BY <2>1, <2>2 DEF InOrder, Accounted, Connected, Awaited
<1> QED
  BY <1>2, <1>4 DEF IInv

\* Before the configuration is loaded no container has been made.
LEMMA InitInvariant == ComputeInit => IInv
<1> SUFFICES ASSUME ComputeInit PROVE IInv
  OBVIOUS
<1> USE DEF ComputeInit, Init, SandboxInit
<1>1. Types
  <2>1. /\ box \in [Boxes -> BoxStates] /\ name \in [Boxes -> Names \cup {NoName}]
        /\ networks \in SUBSET Networks
    BY DEF BoxStates
  <2>2. /\ joined \in [Requests -> SUBSET Networks] /\ ran \in [Requests -> BOOLEAN]
        /\ ended \in [Others -> BOOLEAN]
    OBVIOUS
  <2>3. HandlersTyped
    BY DEF HandlersTyped
  <2>4. server = "loading" /\ docker = FALSE /\ left \in 0 .. Hosts
    BY HostsAssumption
  <2> QED
    BY <2>1, <2>2, <2>3, <2>4 DEF Types, HandlersTyped
<1>3. \A r \in Requests : InOrder(r)
  BY DEF InOrder, Boxes
<1> QED
  BY <1>1, <1>3 DEF IInv

\* Every step of the composition.
LEMMA StepKeepsInvariant ==
    ASSUME IInv, [ComputeNext]_vars
    PROVE  IInv'
BY RouteKeepsInvariant, SandboxKeepsInvariant, ServerKeepsInvariant
   DEF ComputeNext, ServerStep, Quiescent

\* The invariant is inductive.
THEOREM Invariance == ComputeSpec => []IInv
<1>1. IInv /\ [ComputeNext]_vars => IInv'
  BY StepKeepsInvariant
<1> QED
  BY InitInvariant, <1>1, PTL DEF ComputeSpec

\* Whoever is answered 201 is shown the container of its own request, started
\* and connected or warned of, whatever the other requests and the daemon do
\* between the calls of its creation (docker_client.go:360-374).
THEOREM CreatedOwn == ComputeSpec => []CreatedIsOwn
<1>1. IInv => CreatedIsOwn
  BY DEF IInv, InOrder, Connected, CreatedIsOwn
<1> QED
  BY Invariance, <1>1, PTL

-----------------------------------------------------------------------------
(* Who removes a container that runs *)

\* A container that runs and is gone after a step of r.
LEMMA RouteKeepsRunning ==
    ASSUME IInv, NEW r \in Requests, HandlerStep(r) \/ Exits(r),
           NEW c \in Boxes, box[c] = "running", box'[c] = "gone"
    PROVE  \/ c \in Requests /\ call[c].auto
           \/ /\ pc[r] = "calling" /\ pc'[r] = "answered"
              /\ call[r].op = "remove" /\ call[r].force /\ c \in Resolve(call[r].ref)
<1> Types
  BY DEF IInv
<1>1. CASE CallDone(r) \/ CallFails(r)
  <2>1. pc'[r] = "answered"
    BY <1>1, SuccessType, Answered DEF CallDone, CallFails, Finish
  <2>2. CASE StartContainer(r)
    <3>1. PICK d \in Resolve(call[r].ref) : box' = [box EXCEPT ![d] = "running"]
      BY <2>2 DEF StartContainer
    <3> QED
      BY <3>1 DEF Types
  <2>3. CASE StopContainer(r)
    <3>1. PICK d \in Resolve(call[r].ref) :
              box' = [box EXCEPT ![d] = IF @ = "running" THEN Ended(d) ELSE @]
      BY <2>3 DEF StopContainer
    <3>2. Ended(c) = "gone"
      BY <3>1 DEF Types
    <3> QED
      BY <3>2 DEF Ended
  <2>4. CASE RemoveContainer(r)
    <3>1. PICK d \in Resolve(call[r].ref) :
              (box[d] # "running" \/ call[r].force) /\ box' = [box EXCEPT ![d] = "gone"]
      BY <2>4 DEF RemoveContainer
    <3>2. c = d
      BY <3>1 DEF Types
    <3> QED
      BY <2>1, <2>4, <3>1, <3>2 DEF RemoveContainer, Asks
  <2>5. CASE PruneContainers(r)
    BY <2>5 DEF PruneContainers
  <2>6. CASE CreateNetwork(r) \/ CreateVolume(r) \/ Shows(r) \/ UNCHANGED daemon
    BY <2>6 DEF CreateNetwork, CreateVolume, Shows, ListContainers, ListNetworks, ListVolumes,
       GetContainerDetails, GetContainerStats, Logs, daemon
  <2> QED
    BY <1>1, <2>2, <2>3, <2>4, <2>5, <2>6 DEF CallDone, CallFails, Changes
<1>2. CASE Create(r) \/ CreateFails(r)
  <2>1. box' = box \/ box' = [box EXCEPT ![r] = "created"]
    BY <1>2 DEF Create, CreateFails, NewBox, daemon
  <2>2. box \in [Boxes -> BoxStates]
    BY DEF Types
  <2>3. box'[c] \in {"running", "created"}
    BY <2>1, <2>2
  <2> QED
    BY <2>3
<1>3. CASE Start(r) \/ StartFails(r)
  BY <1>3 DEF Start, StartFails, StartBox, DropBox, Types, daemon
<1>4. CASE Receive(r) \/ Connect(r) \/ Inspect(r) \/ InspectFails(r)
  BY <1>4 DEF Receive, Connect, Inspect, InspectFails, daemon
<1>5. CASE Exits(r)
  BY <1>5 DEF Exits, Ended, Types
<1> QED
  BY <1>1, <1>2, <1>3, <1>4, <1>5 DEF HandlerStep

\* Of the Runner and the daemon only the deferred removal does that.
LEMMA SandboxKeepsRunning ==
    ASSUME Types, NEW i \in Others, RunnerStep(i) \/ DaemonStep(i),
           NEW c \in Boxes, box[c] = "running", box'[c] = "gone"
    PROVE  c \in Others /\ spc[c] = "remove"
<1> i \in Boxes /\ box \in [Boxes -> BoxStates]
  BY DEF Types, Boxes
<1>1. PICK s \in BoxStates : box' = [box EXCEPT ![i] = s]
  BY DEF RunnerStep, DaemonStep, InSandbox, BoxStates
<1>2. c = i /\ s = "gone"
  BY <1>1
<1>3. SB!RunnerStep(i) \/ SB!DaemonCreates(i) \/ SB!DaemonStarts(i) \/ SB!FnExits(i)
  BY DEF RunnerStep, DaemonStep, InSandbox
<1> DEFINE sb == [j \in Others |-> box[j]]
<1>4. sb[i] = "running" /\ sb'[i] = "gone"
  BY <1>2
<1>5. CASE SB!Remove(i)
  BY <1>2, <1>5 DEF SB!Remove
<1>6. CASE SB!DaemonCreates(i) \/ SB!DaemonStarts(i) \/ SB!FnExits(i)
  BY <1>4, <1>6 DEF SB!DaemonCreates, SB!DaemonStarts, SB!FnExits, SB!Box
<1>7. CASE sb' = sb
  BY <1>4, <1>7
<1> QED
  BY <1>3, <1>5, <1>6, <1>7 DEF SB!RunnerStep, SB!Begin, SB!Created,
     SB!CreateFails, SB!Started, SB!StartFails, SB!WaitStatus, SB!WaitFails, SB!Logs, SB!Expire,
     SB!daemon

\* What removes a container that runs is its Runner, its own auto_remove or a
\* DELETE with ?force, never a prune or a plain DELETE
\* (docker_client.go:249-254, 458-462).
THEOREM RunningKept == ComputeSpec => RunningIsKept
<1>1. IInv /\ [ComputeNext]_vars => [KeepsRunning]_vars
  <2> SUFFICES ASSUME IInv, ComputeNext, NEW c \in Boxes, box[c] = "running", box'[c] = "gone"
               PROVE  \/ c \in Others /\ spc[c] = "remove"
                      \/ c \in Requests /\ call[c].auto
                      \/ \E r \in Requests :
                            /\ pc[r] = "calling" /\ pc'[r] = "answered"
                            /\ call[r].op = "remove" /\ call[r].force
                            /\ c \in Resolve(call[r].ref)
    BY DEF KeepsRunning
  <2>1. CASE \E r \in Requests : RouteStep(r)
    BY <2>1, RouteKeepsRunning DEF RouteStep
  <2>2. CASE \E i \in Others : RunnerStep(i) \/ DaemonStep(i)
    BY <2>2, SandboxKeepsRunning DEF IInv
  <2>3. CASE ServerStep \/ UNCHANGED vars
    BY <2>3, ServerFrame DEF IInv
  <2> QED
    BY <2>1, <2>2, <2>3 DEF ComputeNext, ServerStep, Quiescent
<1> QED
  BY Invariance, <1>1, PTL DEF ComputeSpec, RunningIsKept

-----------------------------------------------------------------------------
(* The server implements Sandbox *)

\* What a step of r can do to the Runner's containers.
OneOf(states, s) ==
    \E c \in Others : box[c] \in states /\ box' = [box EXCEPT ![c] = s]

\* It is one container, or the prune of all.
LEMMA RoutesMeetOthers ==
    ASSUME Types, NEW r \in Requests, HandlerStep(r) \/ Exits(r)
    PROVE  \/ \A i \in Others : box'[i] = box[i]
           \/ OneOf({"created", "exited", "running"}, "running")
           \/ OneOf({"running"}, "exited")
           \/ OneOf({"created", "exited", "running"}, "gone")
           \/ box' = [c \in Boxes |-> IF box[c] \in {"created", "exited"} THEN "gone" ELSE box[c]]
<1> box \in [Boxes -> BoxStates] /\ r \in Boxes /\ r \notin Others /\ Others \subseteq Boxes
  BY BoxesAssumption DEF Types, Boxes
<1>1. CASE \E s : box' = [box EXCEPT ![r] = s]
  BY <1>1
<1>2. CASE box' = box
  BY <1>2
<1>3. CASE StartContainer(r)
  <2>1. PICK c \in Resolve(call[r].ref) : box' = [box EXCEPT ![c] = "running"]
    BY <1>3 DEF StartContainer
  <2>2. c \in Boxes /\ box[c] \in {"created", "exited", "running"}
    BY <2>1 DEF Resolve, Present
  <2> QED
    BY <2>1, <2>2 DEF OneOf
<1>4. CASE StopContainer(r)
  <2>1. PICK c \in Resolve(call[r].ref) :
            box' = [box EXCEPT ![c] = IF @ = "running" THEN Ended(c) ELSE @]
    BY <1>4 DEF StopContainer
  <2>2. CASE c \in Others /\ box[c] = "running"
    <3>1. Ended(c) = "exited"
      BY <2>2, BoxesAssumption DEF Ended
    <3> QED
      BY <2>1, <2>2, <3>1 DEF OneOf
  <2>3. CASE c \notin Others \/ box[c] # "running"
    BY <2>1, <2>3
  <2> QED
    BY <2>2, <2>3
<1>5. CASE RemoveContainer(r)
  <2>1. PICK c \in Resolve(call[r].ref) : box' = [box EXCEPT ![c] = "gone"]
    BY <1>5 DEF RemoveContainer
  <2>2. c \in Boxes /\ box[c] \in {"created", "exited", "running"}
    BY <2>1 DEF Resolve, Present
  <2> QED
    BY <2>1, <2>2 DEF OneOf
<1>6. CASE PruneContainers(r)
  BY <1>6 DEF PruneContainers
<1>7. CASE CallDone(r) \/ CallFails(r)
  BY <1>2, <1>3, <1>4, <1>5, <1>6, <1>7 DEF CallDone, CallFails, Changes, CreateNetwork,
     CreateVolume, Shows, ListContainers, ListNetworks, ListVolumes, GetContainerDetails,
     GetContainerStats, Logs, daemon
<1>8. CASE Create(r) \/ CreateFails(r) \/ Start(r) \/ StartFails(r)
  BY <1>1, <1>2, <1>8 DEF Create, CreateFails, NewBox, Start, StartFails, StartBox, DropBox, daemon
<1>9. CASE Receive(r) \/ Connect(r) \/ Inspect(r) \/ InspectFails(r)
  BY <1>2, <1>9 DEF Receive, Connect, Inspect, InspectFails, daemon
<1>10. CASE Exits(r)
  BY <1>1, <1>10 DEF Exits
<1> QED
  BY <1>7, <1>8, <1>9, <1>10 DEF HandlerStep

\* A step of a route is a step of Sandbox's operator, or none of Sandbox.
LEMMA RouteRefines ==
    ASSUME IInv, NEW r \in Requests, RouteStep(r)
    PROVE  [SB!Next]_(SB!vars)
<1> DEFINE sb == [i \in Others |-> box[i]]
<1>1. HandlerStep(r) \/ Exits(r)
  BY DEF RouteStep
<1>2. /\ ended' = [i \in Others |-> ended[i] \/ (box[i] = "running" /\ box'[i] # "running")]
      /\ UNCHANGED <<spc, known, expired, outcome, output, removal, asked, started>>
  BY DEF RouteStep, Witnessed, sandbox
<1>3. server' = server
  BY <1>1, OthersKept
<1>4. Types /\ ended \in [Others -> BOOLEAN] /\ box \in [Boxes -> BoxStates] /\ Others \subseteq Boxes
  BY DEF IInv, Types, Boxes
<1>5. CASE \A i \in Others : box'[i] = box[i]
  <2>1. sb' = sb
    BY <1>5
  <2>2. ended' = ended
    BY <1>2, <1>4, <1>5
  <2> QED
    BY <1>2, <1>3, <2>1, <2>2 DEF SB!vars
<1>6. ASSUME NEW c \in Others, NEW s, box' = [box EXCEPT ![c] = s]
      PROVE  /\ sb' = [sb EXCEPT ![c] = s]
             /\ \A i \in Others \ {c} : box'[i] = box[i]
             /\ box'[c] = s
  BY <1>4, <1>6
<1>7. CASE OneOf({"created", "exited", "running"}, "running")
  <2>1. PICK c \in Others : /\ box[c] \in {"created", "exited", "running"}
                            /\ box' = [box EXCEPT ![c] = "running"]
    BY <1>7 DEF OneOf
  <2>2. CASE box[c] = "running"
    BY <1>5, <1>6, <2>1, <2>2
  <2>3. CASE box[c] # "running"
    <3>1. ended' = ended
      BY <1>2, <1>4, <1>6, <2>1, <2>3
    <3>2. SB!OperatorStarts(c)
      BY <1>2, <1>3, <1>6, <2>1, <2>3, <3>1 DEF SB!OperatorStarts, SB!Box, SB!runner
    <3> QED
      BY <3>2 DEF SB!Next, SB!DaemonStep
  <2> QED
    BY <2>2, <2>3
<1>8. CASE OneOf({"running"}, "exited")
  <2>1. PICK c \in Others : box[c] = "running" /\ box' = [box EXCEPT ![c] = "exited"]
    BY <1>8 DEF OneOf
  <2>2. ended' = [ended EXCEPT ![c] = TRUE]
    BY <1>2, <1>4, <1>6, <2>1
  <2>3. SB!FnExits(c)
    BY <1>2, <1>3, <1>6, <2>1, <2>2 DEF SB!FnExits, SB!Box, SB!runner
  <2> QED
    BY <2>3 DEF SB!Next, SB!DaemonStep
<1>9. CASE OneOf({"created", "exited", "running"}, "gone")
  <2>1. PICK c \in Others : /\ box[c] \in {"created", "exited", "running"}
                            /\ box' = [box EXCEPT ![c] = "gone"]
    BY <1>9 DEF OneOf
  <2>2. ended' = [ended EXCEPT ![c] = @ \/ box[c] = "running"]
    BY <1>2, <1>4, <1>6, <2>1, ZenonT(40)
  <2>3. SB!OperatorRemoves(c)
    BY <1>2, <1>3, <1>6, <2>1, <2>2 DEF SB!OperatorRemoves, SB!Present, SB!Box, SB!runner
  <2> QED
    BY <2>3 DEF SB!Next, SB!DaemonStep
<1>10. CASE box' = [c \in Boxes |-> IF box[c] \in {"created", "exited"} THEN "gone" ELSE box[c]]
  <2>1. CASE \A i \in Others : box[i] \notin {"created", "exited"}
    BY <1>4, <1>5, <1>10, <2>1
  <2>2. CASE \E i \in Others : box[i] \in {"created", "exited"}
    <3>1. ended' = ended
      BY <1>2, <1>4, <1>10
    <3>2. sb' = [i \in Others |-> IF sb[i] \in {"created", "exited"} THEN "gone" ELSE sb[i]]
      BY <1>4, <1>10
    <3>3. \E i \in Others : sb[i] \in {"created", "exited"}
      BY <2>2
    <3>4. SB!Prune
      BY <1>2, <1>3, <3>1, <3>2, <3>3 DEF SB!Prune, SB!runner
    <3> QED
      BY <3>4 DEF SB!Next
  <2> QED
    BY <2>1, <2>2
<1> QED
  BY <1>1, <1>4, <1>5, <1>7, <1>8, <1>9, <1>10, RoutesMeetOthers

\* The steps of main are the end of the server, or none of Sandbox.
LEMMA ServerRefines ==
    ASSUME IInv, ServerStep \/ UNCHANGED vars
    PROVE  [SB!Next]_(SB!vars)
<1> DEFINE sb == [i \in Others |-> box[i]]
           met == IF server \in {"loading", "proxmox", "probing"} THEN "serving" ELSE server
<1>1. /\ UNCHANGED <<spc, known, expired, outcome, output, removal, asked, started, ended>>
      /\ sb' = sb
  BY ServerFrame DEF IInv, sandbox
<1>2. CASE met' = met
  BY <1>1, <1>2 DEF SB!vars
<1>3. CASE Load \/ PastProxmox \/ ProbeFails \/ ProbeAnswers \/ Listen \/ UNCHANGED vars
  <2>1. \/ server' = server
        \/ server = "loading" /\ server' = "proxmox"
        \/ server = "proxmox" /\ server' = "probing"
        \/ server = "probing" /\ server' = "serving"
    BY <1>3 DEF Load, PastProxmox, ProbeFails, ProbeAnswers, Listen, vars, containerVars
  <2> QED
    BY <1>2, <2>1
<1>4. CASE LoadFails \/ Crash
  <2>1. met \in {"serving", "closing"} /\ met' = "crashed"
    BY <1>4 DEF LoadFails, Crash
  <2>2. SB!Crash
    BY <1>1, <2>1 DEF SB!Crash, SB!Up, SB!runner, SB!daemon
  <2> QED
    BY <2>2 DEF SB!Next
<1>5. CASE Shutdown
  <2>1. met = "serving" /\ met' = "closing"
    BY <1>5 DEF Shutdown
  <2>2. SB!Shutdown
    BY <1>1, <2>1 DEF SB!Shutdown, SB!runner, SB!daemon
  <2> QED
    BY <2>2 DEF SB!Next
<1>6. CASE Stop
  <2>1. met = "closing" /\ met' = "stopped" /\ \A i \in Others : spc[i] \in {"idle", "done"}
    BY <1>6 DEF Stop
  <2>2. SB!Stop
    BY <1>1, <2>1 DEF SB!Stop, SB!runner, SB!daemon
  <2> QED
    BY <2>2 DEF SB!Next
<1> QED
  BY <1>3, <1>4, <1>5, <1>6 DEF ServerStep

\* The steps of the Runner and of the daemon are those of Sandbox.
LEMMA SandboxRefines ==
    ASSUME NEW i \in Others, RunnerStep(i) \/ DaemonStep(i)
    PROVE  SB!Next
<1>1. SB!RunnerStep(i) \/ SB!DaemonCreates(i) \/ SB!DaemonStarts(i) \/ SB!FnExits(i)
  BY DEF RunnerStep, DaemonStep, InSandbox
<1> QED
  BY <1>1 DEF SB!Next, SB!DaemonStep

\* Every step of the composition.
LEMMA ComputeRefines ==
    ASSUME IInv, [ComputeNext]_vars
    PROVE  [SB!Next]_(SB!vars)
<1>1. CASE \E r \in Requests : RouteStep(r)
  BY <1>1, RouteRefines
<1>2. CASE \E i \in Others : RunnerStep(i) \/ DaemonStep(i)
  BY <1>2, SandboxRefines
<1>3. CASE ServerStep \/ UNCHANGED vars
  BY <1>3, ServerRefines
<1> QED
  BY <1>1, <1>2, <1>3 DEF ComputeNext, ServerStep, Quiescent

\* The Docker routes are to the Runner's containers the operators of Sandbox,
\* and the process its server: every step of the composition is a step of
\* Sandbox or none of its (handler.go:109-171, main.go:88-134).
THEOREM Refinement == ComputeSpec => ImplementsSandbox
<1>1. ComputeInit => SB!Init
  BY DEF ComputeInit, Init, SandboxInit, SB!Init, Boxes
<1>2. IInv /\ [ComputeNext]_vars => [SB!Next]_(SB!vars)
  BY ComputeRefines
<1> QED
  BY Invariance, <1>1, <1>2, PTL DEF ComputeSpec, ImplementsSandbox, SB!Spec

-----------------------------------------------------------------------------
(* What holds of Sandbox holds of the server *)

SP == INSTANCE SandboxProofs WITH
    Invocations <- Others, pc <- spc,
    box    <- [i \in Others |-> box[i]],
    server <- IF server \in {"loading", "proxmox", "probing"} THEN "serving" ELSE server

\* The two instances are of one module.
LEMMA SameSandbox == ComputeSpec => SP!Spec
<1>1. SB!Init => SP!Init
  BY DEF SB!Init, SP!Init
<1>2. SB!Next => SP!Next
  BY DEF SB!Next, SB!RunnerStep, SB!Begin, SB!Created, SB!CreateFails, SB!Started, SB!StartFails,
     SB!WaitStatus, SB!WaitFails, SB!Logs, SB!Remove, SB!Expire, SB!DaemonStep, SB!DaemonCreates,
     SB!DaemonStarts, SB!FnExits, SB!OperatorStarts, SB!OperatorRemoves, SB!Prune, SB!Shutdown,
     SB!Stop, SB!Crash, SB!Quiescent, SB!vars, SB!runner, SB!daemon, SB!Present, SB!CtxDone, SB!Up,
     SB!Goto, SB!Ends, SB!Asks, SB!Drop, SB!Box,
     SP!Next, SP!RunnerStep, SP!Begin, SP!Created, SP!CreateFails, SP!Started, SP!StartFails,
     SP!WaitStatus, SP!WaitFails, SP!Logs, SP!Remove, SP!Expire, SP!DaemonStep, SP!DaemonCreates,
     SP!DaemonStarts, SP!FnExits, SP!OperatorStarts, SP!OperatorRemoves, SP!Prune, SP!Shutdown,
     SP!Stop, SP!Crash, SP!Quiescent, SP!vars, SP!runner, SP!daemon, SP!Present, SP!CtxDone, SP!Up,
     SP!Goto, SP!Ends, SP!Asks, SP!Drop, SP!Box
<1>3. [SB!Next]_(SB!vars) => [SP!Next]_(SP!vars)
  BY <1>2 DEF SB!vars, SP!vars
<1> QED
  BY Refinement, <1>1, <1>3, PTL DEF ImplementsSandbox, SB!Spec, SP!Spec

\* Every reachable state has the types of TypeOK, Sandbox's part included, and
\* no invocation of the composed server ends with neither result nor error.
THEOREM TypeCorrect == ComputeSpec => []TypeOK
<1>1. IInv /\ SP!TypeOK => TypeOK
  <2> SUFFICES ASSUME IInv, SP!TypeOK PROVE TypeOK
    OBVIOUS
  <2>1. SB!TypeOK
    BY DEF SB!TypeOK, SP!TypeOK, SB!PCs, SP!PCs
  <2>2. ContainersTypeOK
    BY DEF IInv, Types, BoxStates, InOrder, ContainersTypeOK
  <2> QED
    BY <2>1, <2>2 DEF TypeOK, IInv, Types
<1> QED
  BY Invariance, SameSandbox, SP!TypeCorrect, <1>1, PTL

\* With the routes, the prune and the shutdown of the real server around it, a
\* sandbox still outlives its invocation only for a reason the Runner was told
\* of, and an exit code is only of a function that ran
\* (runner.go:107-124, main.go:88-134).
THEOREM SandboxesAreKept == ComputeSpec => [](SB!NothingLeftRunning /\ SB!ExitCodeIsReal)
<1>1. SP!NothingLeftRunning /\ SP!ExitCodeIsReal => SB!NothingLeftRunning /\ SB!ExitCodeIsReal
  BY DEF SB!NothingLeftRunning, SP!NothingLeftRunning, SB!ExitCodeIsReal, SP!ExitCodeIsReal,
     SB!Present, SP!Present
<1> QED
  BY SameSandbox, SP!NothingLeft, SP!ExitCodesAreReal, <1>1, PTL

=============================================================================
