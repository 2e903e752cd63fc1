-------------------------- MODULE ServerlessService --------------------------
(***************************************************************************)
(* internal/serverless/service.go statement by statement: the goroutines   *)
(* that serve the HTTP requests share store.fns, store.logs and the        *)
(* Function objects, and protect them with the sync.RWMutex store.mu.  A   *)
(* step is one access to the shared memory, so that a lock taken too late, *)
(* released too early or of the wrong kind shows.  The module implements   *)
(* FunctionRegistry, in which every critical section is one step.          *)
(***************************************************************************)
EXTENDS Integers, Sequences, FiniteSets

CONSTANTS
    Requests,   \* HTTP requests to /api/compute/functions, each made once
    Ids,        \* what uuid.NewString may return
    NoId,       \* the id of a call that names no function
    Routes,     \* the routes that are called, a bound of the instance
    MaxLogs     \* log entries kept per function, 100 in the code

ASSUME RequestsAssumption == IsFiniteSet(Requests)
ASSUME IdsAssumption      == NoId \notin Ids
ASSUME RoutesAssumption   ==
    Routes \subseteq {"create", "list", "get", "invoke", "logs", "delete"}
ASSUME MaxLogsAssumption  == MaxLogs \in Nat \ {0}

VARIABLES
    ready,      \* the Service got a Runner: a Docker daemon was found
    issued,     \* the UUIDs generated so far
    live,       \* the keys of store.fns
    count,      \* the InvokeCount of every Function object, deleted or not
    logs,       \* store.logs, << >> where the map has no key
    readers,    \* store.mu: the requests that hold it shared
    pending,    \* store.mu: the request in Lock that waits for the readers
    writer,     \* store.mu: the request that holds it exclusively
    pc,         \* the statement each request is at
    call,       \* the route and the :id of each request
    reg,        \* the value of InvokeCount loaded by InvokeCount++
    reply,      \* what each request is answered
    before      \* history: the requests answered when a request was received

vars == <<ready, issued, live, count, logs, readers, pending, writer,
          pc, call, reg, reply, before>>
store  == <<issued, live, count, logs>>
mu     == <<readers, pending, writer>>
static == <<ready, call, before>>

-----------------------------------------------------------------------------

PCs == {"new", "received",
        "rlock", "read", "list", "runlock",            \* a shared section
        "run",                                         \* Runner.Invoke
        "lock", "drain",                               \* entering Lock
        "insert",                                      \* Create
        "check", "dropFn", "dropLogs",                 \* Delete
        "lookup", "load", "store", "append", "trim",   \* the end of Invoke
        "unlock", "encode", "replying", "answered"}

Is(r, op)   == call[r].op = op
Id(r)       == call[r].id
Answered    == {r \in Requests : pc[r] = "answered"}
Goto(r, l)  == pc' = [pc EXCEPT ![r] = l]

Status(s)       == [status |-> s, view |-> {}, entries |-> << >>]
Body(s, pairs)  == [status |-> s, view |-> pairs, entries |-> << >>]
Entries(s, log) == [status |-> s, view |-> {}, entries |-> log]
Respond(r, x)   == reply' = [reply EXCEPT ![r] = x]

KeepLast(log) == IF Len(log) > MaxLogs
                 THEN SubSeq(log, Len(log) - MaxLogs + 1, Len(log))
                 ELSE log

Calls == [op : Routes \ {"create", "list"}, id : Ids]
         \cup [op : Routes \cap {"create", "list"}, id : {NoId}]

Init ==
    /\ ready \in BOOLEAN
    /\ issued = {}
    /\ live = {}
    /\ count = [f \in Ids |-> 0]
    /\ logs = [f \in Ids |-> << >>]
    /\ readers = {} /\ pending = {} /\ writer = {}
    /\ pc = [r \in Requests |-> "new"]
    /\ call = [r \in Requests |-> [op |-> "none", id |-> NoId]]
    /\ reg = [r \in Requests |-> 0]
    /\ reply = [r \in Requests |-> Status(0)]
    /\ before = [r \in Requests |-> {}]

-----------------------------------------------------------------------------
(* The handlers, up to the first lock *)

Receive(r) ==
    /\ pc[r] = "new"
    /\ \E c \in Calls : call' = [call EXCEPT ![r] = c]
    /\ before' = [before EXCEPT ![r] = Answered]
    /\ Goto(r, "received")
    /\ UNCHANGED <<ready, store, mu, reg, reply>>

RejectCreate(r) ==
    /\ pc[r] = "received" /\ Is(r, "create")
    /\ Respond(r, Status(400)) /\ Goto(r, "replying")
    /\ UNCHANGED <<static, store, mu, reg>>

\* The Function object is built, with its UUID, before the lock is taken.
NewFunction(r) ==
    /\ pc[r] = "received" /\ Is(r, "create")
    /\ \E f \in Ids \ issued :
          /\ issued' = issued \cup {f}
          /\ call' = [call EXCEPT ![r] = [op |-> "create", id |-> f]]
    /\ Goto(r, "lock")
    /\ UNCHANGED <<ready, before, live, count, logs, mu, reg, reply>>

\* Mutant of Enter: the RLock is forgotten.
EnterUnlocked(r) ==
    /\ pc[r] = "received" /\ ~Is(r, "create")
    /\ Is(r, "invoke") => ready
    /\ Goto(r, CASE Is(r, "delete") -> "lock" [] Is(r, "list") -> "list" [] OTHER -> "read")
    /\ UNCHANGED <<static, store, mu, reg, reply>>

\* Delete locks at once; the reads, and Invoke when checkReady lets it, RLock.
Enter(r) ==
    /\ pc[r] = "received" /\ ~Is(r, "create")
    /\ Is(r, "invoke") => ready
    /\ Goto(r, IF Is(r, "delete") THEN "lock" ELSE "rlock")
    /\ UNCHANGED <<static, store, mu, reg, reply>>

CheckReady(r) ==
    /\ pc[r] = "received" /\ Is(r, "invoke") /\ ~ready
    /\ Respond(r, Status(501)) /\ Goto(r, "replying")
    /\ UNCHANGED <<static, store, mu, reg>>

-----------------------------------------------------------------------------
(* sync.RWMutex: a Lock that waits for readers keeps new readers out *)

RLock(r) ==
    /\ pc[r] = "rlock"
    /\ pending = {} /\ writer = {}
    /\ readers' = readers \cup {r}
    /\ Goto(r, IF Is(r, "list") THEN "list" ELSE "read")
    /\ UNCHANGED <<static, store, pending, writer, reg, reply>>

RUnlock(r) ==
    /\ pc[r] = "runlock"
    /\ readers' = readers \ {r}
    /\ Goto(r, IF reply[r].status = 0 THEN "run" ELSE "replying")
    /\ UNCHANGED <<static, store, pending, writer, reg, reply>>

\* Mutant of Lock: a second Lock does not wait for the first.
LockTwice(r) ==
    /\ pc[r] = "lock"
    /\ pending' = {r}
    /\ Goto(r, "drain")
    /\ UNCHANGED <<static, store, readers, writer, reg, reply>>

Lock(r) ==
    /\ pc[r] = "lock"
    /\ pending = {} /\ writer = {}
    /\ pending' = {r}
    /\ Goto(r, "drain")
    /\ UNCHANGED <<static, store, readers, writer, reg, reply>>

Drain(r) ==
    /\ pc[r] = "drain"
    /\ readers = {}
    /\ pending' = {} /\ writer' = {r}
    /\ Goto(r, CASE Is(r, "create") -> "insert"
                 [] Is(r, "delete") -> "check"
                 [] Is(r, "invoke") -> "lookup")
    /\ UNCHANGED <<static, store, readers, reg, reply>>

Unlock(r) ==
    /\ pc[r] = "unlock"
    /\ writer' = {}
    /\ IF Is(r, "invoke") THEN Respond(r, Status(200)) ELSE UNCHANGED reply
    /\ Goto(r, IF Is(r, "create") THEN "encode" ELSE "replying")
    /\ UNCHANGED <<static, store, readers, pending, reg>>

-----------------------------------------------------------------------------
(* Create, and the handler that encodes the pointer it returns *)

Insert(r) ==
    /\ pc[r] = "insert"
    /\ live' = live \cup {Id(r)}
    /\ Goto(r, "unlock")
    /\ UNCHANGED <<static, issued, count, logs, mu, reg, reply>>

\* A read of InvokeCount that no lock orders with the stores of invocations:
\* it may return any value the counter has had.
EncodeCreated(r) ==
    /\ pc[r] = "encode"
    /\ \E n \in 0 .. count[Id(r)] : Respond(r, Body(201, {<<Id(r), n>>}))
    /\ Goto(r, "replying")
    /\ UNCHANGED <<static, store, mu, reg>>

-----------------------------------------------------------------------------
(* Get, List, Logs and the lookup of Invoke *)

Read(r) ==
    /\ pc[r] = "read"
    /\ \/ /\ Id(r) \notin live
          /\ Respond(r, Status(404))
       \/ /\ Id(r) \in live /\ Is(r, "get")
          /\ Respond(r, Body(200, {<<Id(r), count[Id(r)]>>}))
       \/ /\ Id(r) \in live /\ Is(r, "logs")
          /\ Respond(r, Entries(200, logs[Id(r)]))
       \/ /\ Id(r) \in live /\ Is(r, "invoke")
          /\ UNCHANGED reply
    /\ Goto(r, "runlock")
    /\ UNCHANGED <<static, store, mu, reg>>

Listed(r) == {v[1] : v \in reply[r].view}

\* One turn of the range over the map; any order.
ListNext(r) ==
    /\ pc[r] = "list"
    /\ \E f \in live \ Listed(r) :
          Respond(r, Body(0, reply[r].view \cup {<<f, count[f]>>}))
    /\ UNCHANGED <<static, store, mu, reg, pc>>

ListEnd(r) ==
    /\ pc[r] = "list"
    /\ live \subseteq Listed(r)
    /\ Respond(r, Body(200, reply[r].view))
    /\ Goto(r, "runlock")
    /\ UNCHANGED <<static, store, mu, reg>>

-----------------------------------------------------------------------------
(* Delete *)

\* Mutant of DeleteCheck: the early return leaves the lock held.
DeleteCheckKeepsLock(r) ==
    /\ pc[r] = "check"
    /\ IF Id(r) \in live
       THEN Goto(r, "dropFn") /\ UNCHANGED reply
       ELSE Goto(r, "replying") /\ Respond(r, Status(404))
    /\ UNCHANGED <<static, store, mu, reg>>

DeleteCheck(r) ==
    /\ pc[r] = "check"
    /\ IF Id(r) \in live
       THEN Goto(r, "dropFn") /\ UNCHANGED reply
       ELSE Goto(r, "unlock") /\ Respond(r, Status(404))
    /\ UNCHANGED <<static, store, mu, reg>>

DeleteFn(r) ==
    /\ pc[r] = "dropFn"
    /\ live' = live \ {Id(r)}
    /\ Goto(r, "dropLogs")
    /\ UNCHANGED <<static, issued, count, logs, mu, reg, reply>>

DeleteLogs(r) ==
    /\ pc[r] = "dropLogs"
    /\ logs' = [logs EXCEPT ![Id(r)] = << >>]
    /\ Respond(r, Status(204)) /\ Goto(r, "unlock")
    /\ UNCHANGED <<static, issued, live, count, mu, reg>>

-----------------------------------------------------------------------------
(* The run of the function, and what Invoke records of it *)

\* Mutant of Run: the result is recorded without the Lock.
RunUnlocked(r) ==
    /\ pc[r] = "run"
    /\ \/ Goto(r, "lookup") /\ UNCHANGED reply
       \/ Goto(r, "replying") /\ Respond(r, Status(500))
    /\ UNCHANGED <<static, store, mu, reg>>

\* Runner.Invoke, the module Sandbox, ends with a result or an error.
Run(r) ==
    /\ pc[r] = "run"
    /\ \/ Goto(r, "lock") /\ UNCHANGED reply
       \/ Goto(r, "replying") /\ Respond(r, Status(500))
    /\ UNCHANGED <<static, store, mu, reg>>

InvokeLookup(r) ==
    /\ pc[r] = "lookup"
    /\ Goto(r, IF Id(r) \in live THEN "load" ELSE "append")
    /\ UNCHANGED <<static, store, mu, reg, reply>>

InvokeLoad(r) ==
    /\ pc[r] = "load"
    /\ reg' = [reg EXCEPT ![r] = count[Id(r)]]
    /\ Goto(r, "store")
    /\ UNCHANGED <<static, store, mu, reply>>

InvokeStore(r) ==
    /\ pc[r] = "store"
    /\ count' = [count EXCEPT ![Id(r)] = reg[r] + 1]
    /\ Goto(r, "append")
    /\ UNCHANGED <<static, issued, live, logs, mu, reg, reply>>

InvokeAppend(r) ==
    /\ pc[r] = "append"
    /\ logs' = [logs EXCEPT ![Id(r)] = Append(@, r)]
    /\ Goto(r, IF Len(logs[Id(r)]) + 1 > MaxLogs THEN "trim" ELSE "unlock")
    /\ UNCHANGED <<static, issued, live, count, mu, reg, reply>>

InvokeTrim(r) ==
    /\ pc[r] = "trim"
    /\ logs' = [logs EXCEPT ![Id(r)] = KeepLast(@)]
    /\ Goto(r, "unlock")
    /\ UNCHANGED <<static, issued, live, count, mu, reg, reply>>

-----------------------------------------------------------------------------

\* The response leaves the server: clients may now act on it.
Answer(r) ==
    /\ pc[r] = "replying"
    /\ Goto(r, "answered")
    /\ UNCHANGED <<static, store, mu, reg, reply>>

\* Every request of the instance is answered: the server waits for more.
Quiescent == Answered = Requests /\ UNCHANGED vars

\* What the goroutine of r does next, once the request is there.
Proceed(r) ==
    \/ RejectCreate(r) \/ NewFunction(r) \/ Enter(r) \/ CheckReady(r)
    \/ RLock(r) \/ RUnlock(r) \/ Lock(r) \/ Drain(r) \/ Unlock(r)
    \/ Insert(r) \/ EncodeCreated(r)
    \/ Read(r) \/ ListNext(r) \/ ListEnd(r)
    \/ DeleteCheck(r) \/ DeleteFn(r) \/ DeleteLogs(r)
    \/ Run(r) \/ InvokeLookup(r) \/ InvokeLoad(r) \/ InvokeStore(r)
    \/ InvokeAppend(r) \/ InvokeTrim(r)
    \/ Answer(r)

Next == (\E r \in Requests : Receive(r) \/ Proceed(r)) \/ Quiescent

Spec == Init /\ [][Next]_vars

\* The Go scheduler runs every goroutine that can run, and Runner.Invoke ends
\* because its timeout does (see Sandbox).  No request has to be made.
FairSpec == Spec /\ \A r \in Requests : WF_vars(Proceed(r))

-----------------------------------------------------------------------------
(* Properties *)

TypeOK ==
    /\ ready \in BOOLEAN
    /\ issued \in SUBSET Ids
    /\ live \in SUBSET issued
    /\ count \in [Ids -> Nat]
    /\ logs \in [Ids -> Seq(Requests)]
    /\ readers \in SUBSET Requests
    /\ pending \in SUBSET Requests
    /\ writer \in SUBSET Requests
    /\ Cardinality(pending \cup writer) <= 1
    /\ pc \in [Requests -> PCs]
    /\ call \in [Requests -> [op : Routes \cup {"none"}, id : Ids \cup {NoId}]]
    /\ reg \in [Requests -> Nat]
    /\ before \in [Requests -> SUBSET Requests]

\* What the statement r is at reads and writes: one of the two maps, or the
\* Function object of an id.
Fns       == <<"fns", NoId>>
Logs      == <<"logs", NoId>>
Object(f) == <<"object", f>>

Writes(r) ==
    CASE pc[r] \in {"insert", "dropFn"}          -> {Fns}
      [] pc[r] \in {"dropLogs", "append", "trim"} -> {Logs}
      [] pc[r] = "store"                          -> {Object(Id(r))}
      [] OTHER                                    -> {}

Reads(r) ==
    CASE pc[r] = "list"                -> {Fns} \cup {Object(f) : f \in live}
      [] pc[r] = "read"                -> {Fns, IF Is(r, "logs") THEN Logs ELSE Object(Id(r))}
      [] pc[r] \in {"check", "lookup"} -> {Fns}
      [] pc[r] \in {"load", "encode"}  -> {Object(Id(r))}
      [] OTHER                         -> {}

\* The race the code has: Create's handler encodes the stored object, InvokeCount
\* included, after the unlock, and an invocation may store the counter meanwhile.
CreatedIsShared(r, s) == pc[r] = "store" /\ pc[s] = "encode" /\ Id(r) = Id(s)

\* What a goroutine is about to write, no other is about to read or write: the
\* Go runtime ends the process on a concurrent map read and map write, and an
\* unordered InvokeCount++ loses invocations (service.go:19, every Lock and
\* RLock).  The only accesses that do meet are those of CreatedIsShared, where
\* handler.go:60 reads without the lock what service.go:121 writes under it.
WriterIsAlone ==
    \A r, s \in Requests :
        r # s /\ ~CreatedIsShared(r, s) => Writes(r) \cap (Reads(s) \cup Writes(s)) = {}

\* Every request that was received is answered, whatever the others do: the
\* lock is always released and no goroutine waits for another forever.
EveryRequestAnswered ==
    \A r \in Requests : pc[r] = "received" ~> pc[r] = "answered"

-----------------------------------------------------------------------------
(* The refinement: a critical section takes effect when its lock is granted *)

Exclusive(r, op, pcs) == r \in writer /\ Is(r, op) /\ pc[r] \in pcs

Entering(r) == pc[r] \in {"lock", "drain"}

LiveBar == (live \cup {Id(r) : r \in {x \in writer : Exclusive(x, "create", {"insert"})}})
           \ {Id(r) : r \in {x \in writer : Exclusive(x, "delete", {"check", "dropFn"})}}

IssuedBar == issued \ {Id(r) : r \in {x \in Requests : Is(x, "create") /\ Entering(x)}}

CountBar == [f \in Ids |->
    IF \E r \in writer : /\ Exclusive(r, "invoke", {"lookup", "load", "store"})
                         /\ Id(r) = f /\ f \in live
    THEN count[f] + 1 ELSE count[f]]

Appending(f) == {r \in writer : /\ Exclusive(r, "invoke", {"lookup", "load", "store", "append"})
                                /\ Id(r) = f}
Dropping(f)  == {r \in writer : /\ Id(r) = f
                                /\ \/ Exclusive(r, "delete", {"dropFn", "dropLogs"})
                                   \/ Exclusive(r, "delete", {"check"}) /\ f \in live}

LogsBar == [f \in Ids |->
    IF Dropping(f) # {} THEN << >>
    ELSE IF Appending(f) # {} THEN KeepLast(Append(logs[f], CHOOSE r \in Appending(f) : TRUE))
    ELSE KeepLast(logs[f])]

PhaseBar == [r \in Requests |->
    CASE pc[r] \in {"new", "received", "replying", "answered"} -> pc[r]
      [] pc[r] \in {"rlock", "read", "list"} -> "received"
      [] pc[r] = "run" -> "running"
      [] pc[r] = "runlock" -> IF reply[r].status = 0 THEN "running" ELSE "replying"
      [] Entering(r) -> IF Is(r, "invoke") THEN "running" ELSE "received"
      [] OTHER -> IF Is(r, "create") THEN "created" ELSE "replying"]

CallBar == [r \in Requests |->
    IF Is(r, "create") /\ Entering(r) THEN [op |-> "create", id |-> NoId] ELSE call[r]]

ReplyBar == [r \in Requests |->
    CASE pc[r] = "list" -> Status(0)
      [] Exclusive(r, "delete", {"check"}) -> Status(IF Id(r) \in live THEN 204 ELSE 404)
      [] Exclusive(r, "delete", {"dropFn", "dropLogs"}) -> Status(204)
      [] r \in writer /\ Is(r, "invoke") -> Status(200)
      [] OTHER -> reply[r]]

Registry == INSTANCE FunctionRegistry WITH
    issued <- IssuedBar, live <- LiveBar, count <- CountBar, logs <- LogsBar,
    phase <- PhaseBar, call <- CallBar, reply <- ReplyBar

\* The service implements the atomic registry: no interleaving of statements
\* lets a client see what atomic operations would not show.
ImplementsRegistry == Registry!Spec

=============================================================================
