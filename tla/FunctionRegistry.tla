-------------------------- MODULE FunctionRegistry --------------------------
(***************************************************************************)
(* What the serverless Service (internal/serverless/service.go, called by  *)
(* the handlers of handler.go) promises its HTTP clients: a registry of    *)
(* functions, each with an invocation counter and a window of its last     *)
(* MaxLogs log entries, on which every critical section is one atomic      *)
(* step.  ServerlessService is the same code statement by statement, with  *)
(* its read-write lock, and is shown to implement this module.             *)
(*                                                                         *)
(* An id is a value that never changes, as Go promises of a string; the    *)
(* README says where the code takes that promise for granted.              *)
(*                                                                         *)
(* A request is received, answered once, and stays answered.  Running the  *)
(* function (Runner.Invoke, the module Sandbox) is abstracted to its two   *)
(* outcomes, an error or a result; a timed out run is a result.            *)
(***************************************************************************)
EXTENDS Integers, Sequences, FiniteSets

CONSTANTS
    Requests,   \* HTTP requests to /api/compute/functions, each made once
    Ids,        \* what uuid.NewString may return
    NoId,       \* the id of a call that names no function
    Routes,     \* the routes that are called, a bound of the instance
    MaxLogs     \* log entries kept per function, 100 in the code

ASSUME RequestsAssumption == IsFiniteSet(Requests)
ASSUME IdsAssumption      == NoId \notin Ids
ASSUME RoutesAssumption   ==
    Routes \subseteq {"create", "list", "get", "invoke", "logs", "delete"}
ASSUME MaxLogsAssumption  == MaxLogs \in Nat \ {0}

VARIABLES
    ready,      \* the Service got a Runner: a Docker daemon was found
    issued,     \* the UUIDs handed out so far
    live,       \* the keys of store.fns
    count,      \* the InvokeCount of every Function object, deleted or not
    logs,       \* store.logs, << >> where the map has no key
    phase,      \* how far each request got
    call,       \* the route and the :id of each request
    reply,      \* what each request is answered
    before      \* history: the requests answered when a request was received

vars == <<ready, issued, live, count, logs, phase, call, reply, before>>
store == <<issued, live, count, logs>>

-----------------------------------------------------------------------------

Calls == [op : Routes \ {"create", "list"}, id : Ids]
         \cup [op : Routes \cap {"create", "list"}, id : {NoId}]

\* What call[r] is before r is received, and once a create got its id.
NoCall == [op |-> "none", id |-> NoId]
Created(f) == [op |-> "create", id |-> f]
KnownCalls == Calls \cup {NoCall} \cup {Created(f) : f \in Ids}

Phases == {"new", "received", "created", "running", "replying", "answered"}

\* A reply: HTTP status (0: none yet), the <<function, invoke_count>> pairs of
\* the body and the log entries of the body, each named by its invocation.
Replies == [status : {0, 200, 201, 204, 400, 404, 500, 501},
            view : SUBSET (Ids \X Nat), entries : Seq(Requests)]

Status(s)       == [status |-> s, view |-> {}, entries |-> << >>]
Body(s, pairs)  == [status |-> s, view |-> pairs, entries |-> << >>]
Entries(s, log) == [status |-> s, view |-> {}, entries |-> log]

\* Mutants of KeepLast: one entry too few; the oldest entries instead.
KeepLastOffByOne(log) == IF Len(log) > MaxLogs
                         THEN SubSeq(log, Len(log) - MaxLogs + 2, Len(log))
                         ELSE log
KeepFirst(log) == IF Len(log) > MaxLogs THEN SubSeq(log, 1, MaxLogs) ELSE log

KeepLast(log) == IF Len(log) > MaxLogs
                 THEN SubSeq(log, Len(log) - MaxLogs + 1, Len(log))
                 ELSE log

Replied(r)  == phase[r] \in {"replying", "answered"}
Answered    == {r \in Requests : phase[r] = "answered"}
Is(r, op)   == call[r].op = op
Id(r)       == call[r].id

-----------------------------------------------------------------------------

Init ==
    /\ ready \in BOOLEAN
    /\ issued = {}
    /\ live = {}
    /\ count = [f \in Ids |-> 0]
    /\ logs = [f \in Ids |-> << >>]
    /\ phase = [r \in Requests |-> "new"]
    /\ call = [r \in Requests |-> NoCall]
    /\ reply = [r \in Requests |-> Status(0)]
    /\ before = [r \in Requests |-> {}]

\* The router hands r to a handler of RegisterRoutes.
Receive(r) ==
    /\ phase[r] = "new"
    /\ \E c \in Calls : call' = [call EXCEPT ![r] = c]
    /\ phase' = [phase EXCEPT ![r] = "received"]
    /\ before' = [before EXCEPT ![r] = Answered]
    /\ UNCHANGED <<ready, store, reply>>

Reply(r, answer) ==
    /\ reply' = [reply EXCEPT ![r] = answer]
    /\ phase' = [phase EXCEPT ![r] = "replying"]

\* The response leaves the server: clients may now act on it.
Answer(r) ==
    /\ phase[r] = "replying"
    /\ phase' = [phase EXCEPT ![r] = "answered"]
    /\ UNCHANGED <<ready, store, call, reply, before>>

\* A POST without name, code or a parsable body.
RejectCreate(r) ==
    /\ phase[r] = "received" /\ Is(r, "create")
    /\ Reply(r, Status(400))
    /\ UNCHANGED <<ready, store, call, before>>

CreateFn(r) ==
    /\ phase[r] = "received" /\ Is(r, "create")
    /\ \E f \in Ids \ issued :
          /\ issued' = issued \cup {f}
          /\ live' = live \cup {f}
          /\ call' = [call EXCEPT ![r] = Created(f)]
    /\ phase' = [phase EXCEPT ![r] = "created"]
    /\ UNCHANGED <<ready, count, logs, reply, before>>

\* Create returns the stored pointer and the handler encodes it outside the
\* lock, racing with the InvokeCount++ of invocations that found the function
\* in a list: it may read any value the counter has had.
EncodeCreated(r) ==
    /\ phase[r] = "created"
    /\ \E n \in 0 .. count[Id(r)] : Reply(r, Body(201, {<<Id(r), n>>}))
    /\ UNCHANGED <<ready, store, call, before>>

\* Mutant of GetFn: the object as it was created, not a copy of the current one.
GetFnAsCreated(r) ==
    /\ phase[r] = "received" /\ Is(r, "get")
    /\ Reply(r, IF Id(r) \in live THEN Body(200, {<<Id(r), 0>>}) ELSE Status(404))
    /\ UNCHANGED <<ready, store, call, before>>

GetFn(r) ==
    /\ phase[r] = "received" /\ Is(r, "get")
    /\ Reply(r, IF Id(r) \in live THEN Body(200, {<<Id(r), count[Id(r)]>>})
                                  ELSE Status(404))
    /\ UNCHANGED <<ready, store, call, before>>

ListFns(r) ==
    /\ phase[r] = "received" /\ Is(r, "list")
    /\ Reply(r, Body(200, {<<f, count[f]>> : f \in live}))
    /\ UNCHANGED <<ready, store, call, before>>

LogsOf(r) ==
    /\ phase[r] = "received" /\ Is(r, "logs")
    /\ Reply(r, IF Id(r) \in live THEN Entries(200, logs[Id(r)])
                                  ELSE Status(404))
    /\ UNCHANGED <<ready, store, call, before>>

DeleteFn(r) ==
    /\ phase[r] = "received" /\ Is(r, "delete")
    /\ IF Id(r) \in live
       THEN /\ live' = live \ {Id(r)}
            /\ logs' = [logs EXCEPT ![Id(r)] = << >>]
            /\ Reply(r, Status(204))
       ELSE /\ Reply(r, Status(404))
            /\ UNCHANGED <<live, logs>>
    /\ UNCHANGED <<ready, issued, count, call, before>>

\* Mutant of InvokeUnavailable: the 503 of the container module's handlers.
InvokeUnavailable503(r) ==
    /\ phase[r] = "received" /\ Is(r, "invoke")
    /\ \/ ~ready /\ Reply(r, Status(503))
       \/ ready /\ Id(r) \notin live /\ Reply(r, Status(404))
    /\ UNCHANGED <<ready, store, call, before>>

\* checkReady, then Get; a function found is run outside any lock.
InvokeUnavailable(r) ==
    /\ phase[r] = "received" /\ Is(r, "invoke")
    /\ \/ ~ready /\ Reply(r, Status(501))
       \/ ready /\ Id(r) \notin live /\ Reply(r, Status(404))
    /\ UNCHANGED <<ready, store, call, before>>

InvokeStart(r) ==
    /\ phase[r] = "received" /\ Is(r, "invoke")
    /\ ready /\ Id(r) \in live
    /\ phase' = [phase EXCEPT ![r] = "running"]
    /\ UNCHANGED <<ready, store, call, reply, before>>

\* Mutant of InvokeFail: the counter is incremented before the error is looked at.
InvokeFailCounted(r) ==
    /\ phase[r] = "running"
    /\ count' = [count EXCEPT ![Id(r)] = @ + 1]
    /\ Reply(r, Status(500))
    /\ UNCHANGED <<ready, issued, live, logs, call, before>>

InvokeFail(r) ==
    /\ phase[r] = "running"
    /\ Reply(r, Status(500))
    /\ UNCHANGED <<ready, store, call, before>>

\* Mutants of InvokeRecord: fns[id] is written back although it was deleted;
\* the new entry goes in front.
InvokeRecordRevives(r) ==
    /\ phase[r] = "running"
    /\ live' = live \cup {Id(r)}
    /\ count' = [count EXCEPT ![Id(r)] = @ + 1]
    /\ logs' = [logs EXCEPT ![Id(r)] = KeepLast(Append(@, r))]
    /\ Reply(r, Status(200))
    /\ UNCHANGED <<ready, issued, call, before>>

InvokeRecordInFront(r) ==
    /\ phase[r] = "running"
    /\ count' = IF Id(r) \in live THEN [count EXCEPT ![Id(r)] = @ + 1] ELSE count
    /\ logs' = [logs EXCEPT ![Id(r)] = KeepLast(<<r>> \o @)]
    /\ Reply(r, Status(200))
    /\ UNCHANGED <<ready, issued, live, call, before>>

\* The function may have been deleted while it ran: the counter is then left
\* alone, the log entry is kept all the same.
InvokeRecord(r) ==
    /\ phase[r] = "running"
    /\ count' = IF Id(r) \in live THEN [count EXCEPT ![Id(r)] = @ + 1] ELSE count
    /\ logs' = [logs EXCEPT ![Id(r)] = KeepLast(Append(@, r))]
    /\ Reply(r, Status(200))
    /\ UNCHANGED <<ready, issued, live, call, before>>

\* Every request of the instance is answered: the server waits for more.
Quiescent == Answered = Requests /\ UNCHANGED vars

Step(r) ==
    \/ Receive(r) \/ Answer(r)
    \/ RejectCreate(r) \/ CreateFn(r) \/ EncodeCreated(r)
    \/ GetFn(r) \/ ListFns(r) \/ LogsOf(r) \/ DeleteFn(r)
    \/ InvokeUnavailable(r) \/ InvokeStart(r) \/ InvokeFail(r) \/ InvokeRecord(r)

Next == (\E r \in Requests : Step(r)) \/ Quiescent

Spec == Init /\ [][Next]_vars

-----------------------------------------------------------------------------
(* Properties *)

TypeOK ==
    /\ ready \in BOOLEAN
    /\ issued \in SUBSET Ids
    /\ live \in SUBSET issued
    /\ count \in [Ids -> Nat]
    /\ logs \in [Ids -> Seq(Requests)]
    /\ phase \in [Requests -> Phases]
    /\ call \in [Requests -> KnownCalls]
    /\ reply \in [Requests -> Replies]
    /\ before \in [Requests -> SUBSET Requests]
    /\ \A r \in Requests : phase[r] \in {"created", "running"} => Id(r) \in issued

\* The invocations of f that were answered with a result.
Invoked(f) == {r \in Requests :
                  Is(r, "invoke") /\ Id(r) = f /\ reply[r].status = 200}

\* The deletions of f that were answered with success.
Deleted(f) == {d \in Requests :
                  Is(d, "delete") /\ Id(d) = f /\ reply[d].status = 204}

\* The two things an invocation writes, the counter and the log, never drift
\* apart: a registered function's log holds one entry per counted invocation,
\* up to the MaxLogs that are kept (service.go:118-133).
LogMatchesCount ==
    \A f \in live :
        Len(logs[f]) = IF count[f] <= MaxLogs THEN count[f] ELSE MaxLogs

\* No concurrent invocation is lost: the counter of a registered function is
\* the number of invocations of it that ended with a result (service.go:121).
NoLostInvocation ==
    \A f \in live : count[f] = Cardinality(Invoked(f))

\* A log has one entry per invocation, and never shows an invocation after one
\* whose request was only received once the first was answered
\* (service.go:129, the append under the lock).
LogIsHistory ==
    \A f \in Ids : \A i, j \in 1 .. Len(logs[f]) :
        i < j => /\ logs[f][i] # logs[f][j]
                 /\ logs[f][j] \notin before[logs[f][i]]

\* The window drops the oldest entries: when an invocation of a registered
\* function has left the log, no entry still in it was answered before that
\* invocation was even received (service.go:130-132).
OldestDroppedFirst ==
    \A f \in live : \A r \in Invoked(f) :
        \/ \E i \in 1 .. Len(logs[f]) : logs[f][i] = r
        \/ \A i \in 1 .. Len(logs[f]) : logs[f][i] \notin before[r]

\* Once a delete is answered with 204, nothing brings the function back, not
\* even an invocation that was running meanwhile: later requests for it get
\* 404 (501 for an invocation without a Runner) and later lists leave it out
\* (service.go:120, 157).
DeleteIsFinal ==
    \A f \in Ids : \A d \in Deleted(f) : \A r \in Requests :
        d \in before[r] =>
            /\ Is(r, "list") => \A v \in reply[r].view : v[1] # f
            /\ Id(r) = f /\ ~Is(r, "create") =>
                  reply[r].status \in {0, 404} \cup
                                     (IF Is(r, "invoke") /\ ~ready THEN {501} ELSE {})

\* A read shows every invocation answered before it was asked for, and none
\* that has not happened: the counters in its view are bounded below by the
\* acknowledged invocations and above by the object's counter, and the log it
\* returns has them all unless it is full (service.go:48-72, 99, 139-147).
ReadsAreCurrent ==
    \A r \in Requests : \A f \in Ids :
        LET acked == Invoked(f) \cap before[r] IN
        /\ \A v \in reply[r].view :
              v[1] = f => Cardinality(acked) <= v[2] /\ v[2] <= count[f]
        /\ Is(r, "logs") /\ Id(r) = f /\ reply[r].status = 200 =>
              \/ Len(reply[r].entries) = MaxLogs
              \/ \A s \in acked :
                    \E i \in 1 .. Len(reply[r].entries) : reply[r].entries[i] = s

=============================================================================
