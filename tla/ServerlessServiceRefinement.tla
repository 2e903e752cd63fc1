--------------------- MODULE ServerlessServiceRefinement ---------------------
(***************************************************************************)
(* ServerlessService implements FunctionRegistry, for any requests, ids    *)
(* and window.  A critical section takes effect when its lock is granted:  *)
(* Drain is the registry's CreateFn, DeleteFn or InvokeRecord, a read      *)
(* under the shared lock is the registry's read, and the statements of a   *)
(* section leave the registry's state alone.                               *)
(***************************************************************************)
EXTENDS ServerlessServiceProofs

-----------------------------------------------------------------------------
(* The registry's state, request by request and for the holder of the lock *)

PhaseOf(r) ==
    CASE pc[r] \in {"new", "received", "replying", "answered"} -> pc[r]
      [] pc[r] \in {"rlock", "read", "list"} -> "received"
      [] pc[r] = "run" -> "running"
      [] pc[r] = "runlock" -> IF reply[r].status = 0 THEN "running" ELSE "replying"
      [] Entering(r) -> IF Is(r, "invoke") THEN "running" ELSE "received"
      [] OTHER -> IF Is(r, "create") THEN "created" ELSE "replying"

CallOf(r) == IF Is(r, "create") /\ Entering(r)
             THEN [op |-> "create", id |-> NoId] ELSE call[r]

ReplyOf(r) ==
    CASE pc[r] = "list" -> Status(0)
      [] Is(r, "delete") /\ pc[r] = "check" -> Status(IF Id(r) \in live THEN 204 ELSE 404)
      [] Is(r, "delete") /\ pc[r] \in {"dropFn", "dropLogs"} -> Status(204)
      [] Is(r, "invoke") /\ pc[r] \in Alone -> Status(200)
      [] OTHER -> reply[r]

RecordsOfRequests ==
    /\ PhaseBar = [r \in Requests |-> PhaseOf(r)]
    /\ CallBar = [r \in Requests |-> CallOf(r)]
    /\ ReplyBar = [r \in Requests |-> ReplyOf(r)]

\* The mapped phase, call and reply of each request, by its statement.
LEMMA RequestBars == IInv => RecordsOfRequests
<1> SUFFICES ASSUME IInv PROVE RecordsOfRequests
  OBVIOUS
<1>1. ASSUME NEW r \in Requests PROVE ReplyBar[r] = ReplyOf(r)
  <2>1. r \in writer <=> pc[r] \in Alone
    BY DEF IInv, InOrder, LockHeld
  <2> QED
    BY <2>1 DEF ReplyBar, ReplyOf, Exclusive, Alone
<1> QED
  BY <1>1 DEF RecordsOfRequests, PhaseBar, PhaseOf, CallBar, CallOf, ReplyBar

\* What is pending of the section that r is in.
Inserting(r) == Is(r, "create") /\ pc[r] = "insert"
Deleting(r)  == Is(r, "delete") /\ pc[r] \in {"check", "dropFn"}
Emptying(r)  == /\ Is(r, "delete")
                /\ pc[r] \in {"dropFn", "dropLogs"} \/ (pc[r] = "check" /\ Id(r) \in live)
Counting(r)  == Is(r, "invoke") /\ pc[r] \in {"lookup", "load", "store"} /\ Id(r) \in live
Logging(r)   == Is(r, "invoke") /\ pc[r] \in {"lookup", "load", "store", "append"}

LiveOf(r) == IF Inserting(r) THEN live \cup {Id(r)}
             ELSE IF Deleting(r) THEN live \ {Id(r)} ELSE live

CountOf(r) == IF Counting(r) THEN [count EXCEPT ![Id(r)] = @ + 1] ELSE count

LogsOf(r) == IF Emptying(r) THEN [logs EXCEPT ![Id(r)] = << >>]
             ELSE IF Logging(r) THEN [logs EXCEPT ![Id(r)] = KeepLast(Append(@, r))]
             ELSE IF pc[r] = "trim" THEN [logs EXCEPT ![Id(r)] = KeepLast(@)]
             ELSE logs

\* Nobody holds the lock alone: the registry is the store.
StoreUnheld ==
    writer = {} => LiveBar = live /\ CountBar = count /\ LogsBar = logs

\* While nobody holds the lock alone, the registry's maps are the store's.
LEMMA UnheldBars == IInv => StoreUnheld
<1> SUFFICES ASSUME IInv, writer = {}
             PROVE  LiveBar = live /\ CountBar = count /\ LogsBar = logs
  BY DEF StoreUnheld
<1>1. LiveBar = live /\ CountBar = count
  BY DEF LiveBar, CountBar, Exclusive, IInv, Types
<1>2. \A f \in Ids : KeepLast(logs[f]) = logs[f] /\ Dropping(f) = {} /\ Appending(f) = {}
  BY KeepLastType DEF IInv, LogsBounded, Types, Dropping, Appending
<1> QED
  BY <1>1, <1>2 DEF LogsBar, IInv, Types

StoreHeld ==
    \A r \in Requests :
        writer = {r} => LiveBar = LiveOf(r) /\ CountBar = CountOf(r) /\ LogsBar = LogsOf(r)

\* While a request does, they are what its section comes to.
LEMMA HeldBars == IInv => StoreHeld
<1> SUFFICES ASSUME NEW r \in Requests, IInv, writer = {r}
             PROVE  LiveBar = LiveOf(r) /\ CountBar = CountOf(r) /\ LogsBar = LogsOf(r)
  BY DEF StoreHeld
<1>1. /\ count \in [Ids -> Nat] /\ logs \in [Ids -> Seq(Requests)]
      /\ call[r].op \in {"invoke", "delete"} => Id(r) \in Ids
      /\ pc[r] = "trim" => Is(r, "invoke")
  BY DEF IInv, Types, InOrder, InRoute, Is
<1>2. LiveBar = LiveOf(r)
  BY DEF LiveBar, LiveOf, Inserting, Deleting, Exclusive, Is
<1>3. CountBar = CountOf(r)
  BY <1>1 DEF CountBar, CountOf, Counting, Exclusive, Is
<1>4. LogsBar = LogsOf(r)
  <2>1. \A f \in Ids : KeepLast(logs[f]) = logs[f] \/ (pc[r] = "trim" /\ f = Id(r))
    BY <1>1, KeepLastType DEF IInv, LogsBounded
  <2>2. \A f \in Ids : Dropping(f) = IF Emptying(r) /\ f = Id(r) THEN {r} ELSE {}
    BY DEF Dropping, Emptying, Exclusive
  <2>3. \A f \in Ids : Appending(f) = IF Logging(r) /\ f = Id(r) THEN {r} ELSE {}
    BY DEF Appending, Logging, Exclusive
  <2>4. (CHOOSE s \in {r} : TRUE) = r
    OBVIOUS
  <2>5. /\ LogsBar = [f \in Ids |-> LogsBar[f]] /\ LogsOf(r) = [f \in Ids |-> LogsOf(r)[f]]
    <3>1. DOMAIN LogsOf(r) = Ids /\ LogsOf(r) = [f \in DOMAIN LogsOf(r) |-> LogsOf(r)[f]]
      BY <1>1 DEF LogsOf
    <3> QED
      BY <3>1 DEF LogsBar
  <2>6. ASSUME NEW f \in Ids PROVE LogsBar[f] = LogsOf(r)[f]
    <3>1. CASE f = Id(r) /\ Emptying(r)
      <4>1. Dropping(f) # {} /\ LogsOf(r) = [logs EXCEPT ![f] = << >>]
        BY <2>2, <3>1 DEF LogsOf
      <4> QED
        BY <1>1, <4>1 DEF LogsBar
    <3>2. CASE f = Id(r) /\ ~Emptying(r) /\ Logging(r)
      <4>1. /\ Dropping(f) = {} /\ Appending(f) = {r}
            /\ LogsOf(r) = [logs EXCEPT ![f] = KeepLast(Append(@, r))]
        BY <2>2, <2>3, <3>2 DEF LogsOf
      <4>2. LogsBar[f] = KeepLast(Append(logs[f], r))
        BY <2>4, <4>1 DEF LogsBar
      <4> QED
        BY <1>1, <4>1, <4>2
    <3>3. CASE f = Id(r) /\ ~Emptying(r) /\ ~Logging(r)
      BY <1>1, <2>1, <2>2, <2>3, <3>3 DEF LogsBar, LogsOf
    <3>4. CASE f # Id(r)
      BY <1>1, <2>1, <2>2, <2>3, <3>4 DEF LogsBar, LogsOf
    <3> QED
      BY <3>1, <3>2, <3>3, <3>4
  <2> QED
    BY <2>5, <2>6
<1> QED
  BY <1>2, <1>3, <1>4

-----------------------------------------------------------------------------
(* What a step changes of the registry's state *)

\* A step of r changes the registry's record of r alone.
LEMMA RequestBarsStep ==
    ASSUME IInv, NEW r \in Requests, Receive(r) \/ Proceed(r)
    PROVE  /\ PhaseBar[r] = PhaseOf(r) /\ CallBar[r] = CallOf(r)
           /\ PhaseBar' = [PhaseBar EXCEPT ![r] = PhaseOf(r)']
           /\ CallBar' = [CallBar EXCEPT ![r] = CallOf(r)']
           /\ ReplyBar' = [ReplyBar EXCEPT ![r] = ReplyOf(r)']
           /\ PhaseOf(r)' = PhaseOf(r) => PhaseBar' = PhaseBar
           /\ CallOf(r)' = CallOf(r) => CallBar' = CallBar
           /\ ReplyOf(r)' = ReplyOf(r) => ReplyBar' = ReplyBar
<1>1. /\ PhaseBar = [s \in Requests |-> PhaseOf(s)]
      /\ CallBar = [s \in Requests |-> CallOf(s)]
      /\ ReplyBar = [s \in Requests |-> ReplyOf(s)]
  BY RequestBars DEF RecordsOfRequests
<1>2. /\ PhaseBar' = [s \in Requests |-> PhaseOf(s)']
      /\ CallBar' = [s \in Requests |-> CallOf(s)']
      /\ ReplyBar' = [s \in Requests |-> ReplyOf(s)']
  <2>1. IInv' => RecordsOfRequests'
    BY RequestBars, PTL
  <2> QED
    BY <2>1, StepKeepsInvariant DEF RecordsOfRequests
<1>3. ASSUME NEW s \in Requests \ {r}
      PROVE  PhaseOf(s)' = PhaseOf(s) /\ CallOf(s)' = CallOf(s) /\ ReplyOf(s)' = ReplyOf(s)
  <2>1. pc'[s] = pc[s] /\ call'[s] = call[s] /\ reply'[s] = reply[s]
    BY OthersKept
  <2>2. pc[s] = "check" => live' = live
    BY WritesUnderLock DEF IInv, LockExcludes, InOrder, LockHeld, Alone
  <2> QED
    BY <2>1, <2>2 DEF PhaseOf, CallOf, ReplyOf, Entering, Is, Id
<1> HIDE DEF PhaseBar, CallBar, ReplyBar
<1> QED
  BY <1>1, <1>2, <1>3

\* While the same request, or none, holds the lock alone, the others' steps do
\* not change the registry's maps.
LEMMA StoreBarsFrame ==
    ASSUME IInv, NEW r \in Requests, Receive(r) \/ Proceed(r), r \notin writer,
           writer' = writer
    PROVE  LiveBar' = LiveBar /\ CountBar' = CountBar /\ LogsBar' = LogsBar
<1>1. IInv' /\ UNCHANGED <<live, count, logs>>
  BY StepKeepsInvariant, WritesUnderLock
<1>2. CASE writer = {}
  <2>1. IInv' => StoreUnheld'
    BY UnheldBars, PTL
  <2> QED
    BY <1>1, <1>2, <2>1, UnheldBars DEF StoreUnheld
<1>3. CASE writer # {}
  <2>1. PICK s \in writer : TRUE
    BY <1>3
  <2>2. s \in Requests /\ s # r /\ writer = {s}
    BY <2>1 DEF IInv, Types, LockExcludes
  <2>8. IInv' => StoreHeld'
    BY HeldBars, PTL
  <2>3. LiveBar' = LiveOf(s)' /\ CountBar' = CountOf(s)' /\ LogsBar' = LogsOf(s)'
    BY <1>1, <2>2, <2>8 DEF StoreHeld
  <2>4. LiveBar = LiveOf(s) /\ CountBar = CountOf(s) /\ LogsBar = LogsOf(s)
    BY <2>2, HeldBars DEF StoreHeld
  <2>5. pc'[s] = pc[s] /\ call'[s] = call[s]
    BY <2>2, OthersKept
  <2>6. LiveOf(s)' = LiveOf(s) /\ CountOf(s)' = CountOf(s)
    BY <1>1, <2>5 DEF LiveOf, CountOf, Inserting, Deleting, Counting, Is, Id
  <2>7. LogsOf(s)' = LogsOf(s)
    <3>1. Emptying(s)' = Emptying(s) /\ Logging(s)' = Logging(s) /\ Id(s)' = Id(s)
      BY <1>1, <2>5 DEF Emptying, Logging, Is, Id
    <3> QED
      BY <1>1, <2>5, <3>1 DEF LogsOf
  <2> QED
    BY <2>3, <2>4, <2>6, <2>7
<1> QED
  BY <1>2, <1>3

\* The ids that are built but not inserted yet.
Held == {Id(r) : r \in {x \in Requests : Is(x, "create") /\ Entering(x)}}

\* The registry issues no id, unless a creation builds its function or is granted
\* the lock for it.
LEMMA IssuedBarFrame ==
    ASSUME IInv, NEW r \in Requests, Receive(r) \/ Proceed(r), ~NewFunction(r),
           Drain(r) => ~Is(r, "create")
    PROVE  IssuedBar' = IssuedBar
<1>1. issued' = issued
  BY DEF Receive, Proceed, RejectCreate, Enter, CheckReady, RLock, RUnlock, Lock, Drain, Unlock,
     Insert, EncodeCreated, Read, ListNext, ListEnd, DeleteCheck, DeleteFn, DeleteLogs,
     Run, InvokeLookup, InvokeLoad, InvokeStore, InvokeAppend, InvokeTrim, Answer, static, store
<1>2. /\ (Is(r, "create") /\ Entering(r))' <=> (Is(r, "create") /\ Entering(r))
      /\ Is(r, "create") /\ Entering(r) => Id(r)' = Id(r)
  <2> USE DEF Is, Id, Entering, Goto, IInv, Types, static
  <2>1. CASE Receive(r)
    BY <2>1 DEF Receive
  <2>2. CASE RejectCreate(r) \/ Enter(r) \/ CheckReady(r) \/ Answer(r)
    BY <2>2 DEF RejectCreate, Enter, CheckReady, Answer
  <2>3. CASE RLock(r) \/ RUnlock(r) \/ Lock(r)
    BY <2>3 DEF RLock, RUnlock, Lock
  <2>4. CASE Drain(r) \/ Unlock(r)
    BY <2>4 DEF Drain, Unlock
  <2>5. CASE Insert(r) \/ EncodeCreated(r) \/ Read(r) \/ ListNext(r) \/ ListEnd(r)
    BY <2>5 DEF Insert, EncodeCreated, Read, ListNext, ListEnd
  <2>6. CASE DeleteCheck(r) \/ DeleteFn(r) \/ DeleteLogs(r)
    BY <2>6 DEF DeleteCheck, DeleteFn, DeleteLogs
  <2>7. CASE Run(r)
    BY <2>7 DEF Run, InOrder, InRoute
  <2>8. CASE InvokeLookup(r) \/ InvokeLoad(r) \/ InvokeStore(r)
    BY <2>8 DEF InvokeLookup, InvokeLoad, InvokeStore
  <2>9. CASE InvokeAppend(r) \/ InvokeTrim(r)
    BY <2>9 DEF InvokeAppend, InvokeTrim
  <2> QED
    BY <2>1, <2>2, <2>3, <2>4, <2>5, <2>6, <2>7, <2>8, <2>9 DEF Proceed
<1>3. \A s \in Requests \ {r} : /\ (Is(s, "create") /\ Entering(s))' <=> (Is(s, "create") /\ Entering(s))
                                /\ Id(s)' = Id(s)
  BY OthersKept DEF Is, Id, Entering
<1>4. Held' = Held
  BY <1>2, <1>3 DEF Held
<1> QED
  BY <1>1, <1>4 DEF IssuedBar, Held

-----------------------------------------------------------------------------
(* Outside of the sections that write *)

\* A step that changes none of the mapped variables.
LEMMA Stutters ==
    ASSUME IInv, NEW r \in Requests, Receive(r) \/ Proceed(r),
           PhaseOf(r)' = PhaseOf(r), CallOf(r)' = CallOf(r), ReplyOf(r)' = ReplyOf(r),
           LiveBar' = LiveBar, CountBar' = CountBar, LogsBar' = LogsBar,
           IssuedBar' = IssuedBar, before' = before
    PROVE  UNCHANGED Registry!vars
BY RequestBarsStep, WritesUnderLock DEF Registry!vars

\* A step of a request that neither holds the lock alone nor gets it.
Outside(r) == /\ r \notin writer /\ writer' = writer
              /\ ~NewFunction(r) /\ ~Drain(r)

\* Outside of the sections that write, the registry's maps stay.
LEMMA OutsideFrame ==
    ASSUME IInv, NEW r \in Requests, Receive(r) \/ Proceed(r), Outside(r)
    PROVE  /\ ready' = ready /\ UNCHANGED Registry!store
           /\ LiveBar' = LiveBar /\ CountBar' = CountBar /\ LogsBar' = LogsBar
           /\ IssuedBar' = IssuedBar
BY StoreBarsFrame, IssuedBarFrame, WritesUnderLock DEF Outside, Registry!store

\* A request is received.
LEMMA ReceiveStep ==
    ASSUME IInv, NEW r \in Requests, Receive(r)
    PROVE  Registry!Receive(r)
<1>1. PICK c \in Calls : call' = [call EXCEPT ![r] = c]
  BY DEF Receive
<1>2. /\ pc[r] = "new" /\ pc'[r] = "received" /\ call'[r] = c /\ reply'[r] = reply[r]
      /\ before' = [before EXCEPT ![r] = Answered] /\ Outside(r)
  BY <1>1 DEF Receive, Goto, mu, IInv, Types, InOrder, LockHeld, Alone, Outside, NewFunction, Drain
<1>3. /\ PhaseOf(r) = "new" /\ PhaseOf(r)' = "received" /\ CallOf(r)' = c
      /\ ReplyOf(r)' = ReplyOf(r)
  BY <1>2 DEF PhaseOf, CallOf, ReplyOf, Entering, Alone
<1>4. Registry!Answered = Answered
  <2>1. \A s \in Requests : PhaseOf(s) = "answered" <=> pc[s] = "answered"
    BY DEF PhaseOf, Entering
  <2> QED
    BY <2>1, RequestBars DEF RecordsOfRequests, Registry!Answered, Answered
<1>5. c \in Registry!Calls
  BY DEF Calls, Registry!Calls
<1> QED
  BY <1>2, <1>3, <1>4, <1>5, RequestBarsStep, OutsideFrame DEF Registry!Receive

\* The steps of a handler outside of its sections: an answer that needs no lock,
\* the run of the function, the encoding of the reply, and statements that the
\* registry does not tell apart.
LEMMA HandlerSteps ==
    ASSUME IInv, NEW r \in Requests,
           \/ RejectCreate(r) \/ CheckReady(r) \/ Enter(r) \/ Lock(r) \/ Run(r)
           \/ EncodeCreated(r) \/ Answer(r)
    PROVE  Registry!Step(r) \/ UNCHANGED Registry!vars
<1>1. Proceed(r) /\ Outside(r) /\ call' = call /\ before' = before
  <2> USE DEF static, mu, IInv, InOrder, LockHeld, Alone, Outside
  <2>1. Proceed(r)
    BY DEF Proceed
  <2>2. CASE RejectCreate(r) \/ CheckReady(r) \/ Enter(r)
    BY <2>1, <2>2 DEF RejectCreate, CheckReady, Enter, NewFunction, Drain, Goto, Types
  <2>3. CASE Lock(r) \/ Run(r) \/ EncodeCreated(r) \/ Answer(r)
    BY <2>1, <2>3 DEF Lock, Run, EncodeCreated, Answer, NewFunction, Drain
  <2> QED
    BY <2>2, <2>3
<1>2. /\ r \in DOMAIN pc /\ r \in DOMAIN reply /\ InRoute(r)
  BY DEF IInv, Types, InOrder
<1>3. /\ PhaseBar[r] = PhaseOf(r) /\ CallBar[r] = CallOf(r)
      /\ PhaseBar' = [PhaseBar EXCEPT ![r] = PhaseOf(r)']
      /\ CallOf(r)' = CallOf(r) => CallBar' = CallBar
      /\ ReplyBar' = [ReplyBar EXCEPT ![r] = ReplyOf(r)']
      /\ ReplyOf(r)' = ReplyOf(r) => ReplyBar' = ReplyBar
  BY <1>1, RequestBarsStep
<1>4. /\ UNCHANGED Registry!store /\ ready' = ready
      /\ LiveBar' = LiveBar /\ CountBar' = CountBar /\ LogsBar' = LogsBar
      /\ IssuedBar' = IssuedBar
  BY <1>1, OutsideFrame
<1> USE DEF PhaseOf, CallOf, ReplyOf, Entering, Is, Id, Alone, Goto, Respond
<1>5. CASE RejectCreate(r)
  <2>1. /\ PhaseOf(r) = "received" /\ PhaseOf(r)' = "replying" /\ CallOf(r)' = CallOf(r)
        /\ CallOf(r).op = "create" /\ ReplyOf(r)' = Status(400)
    BY <1>1, <1>2, <1>5 DEF RejectCreate
  <2>2. Registry!RejectCreate(r)
    BY <1>1, <1>3, <1>4, <2>1, ZenonT(40)
       DEF Registry!RejectCreate, Registry!Reply, Registry!Status, Status, Registry!Is
  <2> QED
    BY <2>2 DEF Registry!Step
<1>6. CASE CheckReady(r)
  <2>1. /\ PhaseOf(r) = "received" /\ PhaseOf(r)' = "replying" /\ CallOf(r)' = CallOf(r)
        /\ CallOf(r).op = "invoke" /\ ReplyOf(r)' = Status(501) /\ ~ready
    BY <1>1, <1>2, <1>6 DEF CheckReady
  <2>2. Registry!InvokeUnavailable(r)
    BY <1>1, <1>3, <1>4, <2>1, ZenonT(40)
       DEF Registry!InvokeUnavailable, Registry!Reply, Registry!Status, Status, Registry!Is
  <2> QED
    BY <2>2 DEF Registry!Step
<1>7. CASE Enter(r) \/ Lock(r)
  <2>1. PhaseOf(r)' = PhaseOf(r) /\ CallOf(r)' = CallOf(r) /\ ReplyOf(r)' = ReplyOf(r)
    <3>1. CASE Enter(r)
      BY <1>1, <1>2, <3>1 DEF Enter
    <3>2. CASE Lock(r)
      BY <1>1, <1>2, <3>2 DEF Lock
    <3> QED
      BY <1>7, <3>1, <3>2
  <2> HIDE DEF PhaseOf, CallOf, ReplyOf
  <2> QED
    BY <1>1, <1>4, <2>1, Stutters
<1>8. CASE Run(r) /\ pc'[r] = "lock"
  <2>1. PhaseOf(r)' = PhaseOf(r) /\ CallOf(r)' = CallOf(r) /\ ReplyOf(r)' = ReplyOf(r)
    BY <1>1, <1>2, <1>8 DEF Run, InRoute, Status
  <2> HIDE DEF PhaseOf, CallOf, ReplyOf
  <2> QED
    BY <1>1, <1>4, <2>1, Stutters
<1>9. CASE Run(r) /\ pc'[r] # "lock"
  <2>1. /\ PhaseOf(r) = "running" /\ PhaseOf(r)' = "replying" /\ CallOf(r)' = CallOf(r)
        /\ ReplyOf(r)' = Status(500)
    BY <1>1, <1>2, <1>9 DEF Run
  <2>2. Registry!InvokeFail(r)
    BY <1>1, <1>3, <1>4, <2>1 DEF Registry!InvokeFail, Registry!Reply, Registry!Status, Status
  <2> QED
    BY <2>2 DEF Registry!Step
<1>10. CASE EncodeCreated(r)
  <2>1. PICK n \in 0 .. count[Id(r)] : Respond(r, Body(201, {<<Id(r), n>>}))
    BY <1>10 DEF EncodeCreated
  <2>2. /\ PhaseOf(r) = "created" /\ PhaseOf(r)' = "replying" /\ CallOf(r)' = CallOf(r)
        /\ ReplyOf(r)' = Body(201, {<<Id(r), n>>}) /\ CallOf(r) = call[r]
    BY <1>1, <1>2, <1>10, <2>1 DEF EncodeCreated, InRoute
  <2>3. Id(r) \in Ids /\ count[Id(r)] \in Nat
    BY <1>2, <1>10 DEF EncodeCreated, InRoute, IInv, Types, OwnIds, HasId
  <2>4. n \in 0 .. CountBar[Id(r)]
    BY <2>1, <2>3 DEF CountBar
  <2>5. Registry!EncodeCreated(r)
    <3>1. Registry!Id(r) = Id(r)
      BY <1>3, <2>2 DEF Registry!Id
    <3>2. Registry!Reply(r, Registry!Body(201, {<<Id(r), n>>}))
      BY <1>3, <2>2 DEF Registry!Reply, Registry!Body, Body
    <3> HIDE DEF Id
    <3> QED
      BY <1>1, <1>3, <1>4, <2>2, <2>4, <3>1, <3>2 DEF Registry!EncodeCreated
  <2> QED
    BY <2>5 DEF Registry!Step
<1>11. CASE Answer(r)
  <2>1. /\ PhaseOf(r) = "replying" /\ PhaseOf(r)' = "answered" /\ CallOf(r)' = CallOf(r)
        /\ ReplyOf(r)' = ReplyOf(r)
    BY <1>1, <1>2, <1>11 DEF Answer
  <2>2. Registry!Answer(r)
    BY <1>1, <1>3, <1>4, <2>1 DEF Registry!Answer
  <2> QED
    BY <2>2 DEF Registry!Step
<1> QED
  BY <1>5, <1>6, <1>7, <1>8, <1>9, <1>10, <1>11

-----------------------------------------------------------------------------
(* Under the shared lock *)

\* While a reader is inside, the registry's maps are the store's.
LEMMA ReadersSeeTheRegistry ==
    ASSUME IInv, NEW r \in Requests, pc[r] \in Shared
    PROVE  LiveBar = live /\ CountBar = count /\ LogsBar = logs
<1>1. writer = {}
  BY DEF IInv, InOrder, LockHeld, LockExcludes
<1> QED
  BY <1>1, UnheldBars DEF StoreUnheld

\* A read of a function takes effect in Read, a list in ListEnd: no writer
\* comes in between, so the functions that were listed one by one are what the
\* registry lists at once.
LEMMA SharedSteps ==
    ASSUME IInv, NEW r \in Requests,
           RLock(r) \/ RUnlock(r) \/ Read(r) \/ ListNext(r) \/ ListEnd(r)
    PROVE  Registry!Step(r) \/ UNCHANGED Registry!vars
<1>1. Proceed(r) /\ Outside(r) /\ call' = call /\ before' = before
  <2> USE DEF static, mu, IInv, InOrder, LockHeld, Shared, Alone, Outside
  <2>1. Proceed(r)
    BY DEF Proceed
  <2>2. CASE RLock(r) \/ RUnlock(r)
    BY <2>1, <2>2 DEF RLock, RUnlock, NewFunction, Drain
  <2>3. CASE Read(r) \/ ListNext(r) \/ ListEnd(r)
    BY <2>1, <2>3 DEF Read, ListNext, ListEnd, NewFunction, Drain
  <2> QED
    BY <2>2, <2>3
<1>2. /\ r \in DOMAIN pc /\ r \in DOMAIN reply /\ InRoute(r) /\ ReplySoFar(r)
  BY DEF IInv, Types, InOrder
<1>3. /\ PhaseBar[r] = PhaseOf(r) /\ CallBar[r] = CallOf(r)
      /\ PhaseBar' = [PhaseBar EXCEPT ![r] = PhaseOf(r)']
      /\ PhaseOf(r)' = PhaseOf(r) => PhaseBar' = PhaseBar
      /\ CallOf(r)' = CallOf(r) => CallBar' = CallBar
      /\ ReplyBar' = [ReplyBar EXCEPT ![r] = ReplyOf(r)']
      /\ ReplyOf(r)' = ReplyOf(r) => ReplyBar' = ReplyBar
  BY <1>1, RequestBarsStep
<1>4. /\ UNCHANGED Registry!store /\ ready' = ready
      /\ LiveBar' = LiveBar /\ CountBar' = CountBar /\ LogsBar' = LogsBar
      /\ IssuedBar' = IssuedBar
  BY <1>1, OutsideFrame
<1> DEFINE Kept == /\ PhaseOf(r)' = PhaseOf(r) /\ CallOf(r)' = CallOf(r)
                   /\ ReplyOf(r)' = ReplyOf(r)
<1>5. Kept => UNCHANGED Registry!vars
  BY <1>1, <1>4, Stutters
<1> USE DEF PhaseOf, CallOf, ReplyOf, Entering, Is, Id, Alone, Goto, Respond
<1>6. CASE RLock(r)
  <2>1. Kept
    BY <1>1, <1>2, <1>6 DEF RLock, InRoute, ReplySoFar, Silent
  <2> QED
    BY <1>5, <2>1
<1>7. CASE RUnlock(r)
  <2>1. Kept
    BY <1>1, <1>2, <1>7 DEF RUnlock
  <2> QED
    BY <1>5, <2>1
<1>8. CASE ListNext(r)
  <2>1. pc' = pc /\ pc[r] = "list"
    BY <1>8 DEF ListNext
  <2>2. Kept
    BY <1>1, <2>1
  <2> QED
    BY <1>5, <2>2
<1>9. CASE ListEnd(r)
  <2>1. LiveBar = live /\ CountBar = count
    BY <1>9, ReadersSeeTheRegistry DEF ListEnd, Shared
  <2>2. reply[r].view = {<<f, count[f]>> : f \in live}
    <3>1. reply[r].view \subseteq {<<f, count[f]>> : f \in live}
      BY <1>2, <1>9 DEF ListEnd, ReplySoFar
    <3>2. \A f \in live : \E v \in reply[r].view : v[1] = f
      BY <1>9 DEF ListEnd, Listed
    <3> QED
      BY <3>1, <3>2
  <2>3. /\ PhaseOf(r) = "received" /\ PhaseOf(r)' = "replying" /\ CallOf(r)' = CallOf(r)
        /\ CallOf(r).op = "list" /\ ReplyOf(r)' = Body(200, reply[r].view)
    BY <1>1, <1>2, <1>9 DEF ListEnd, InRoute, Body
  <2>4. Registry!Reply(r, Registry!Body(200, {<<f, CountBar[f]>> : f \in LiveBar}))
    <3> HIDE DEF PhaseOf, CallOf, ReplyOf, Id
    <3>1. {<<f, CountBar[f]>> : f \in LiveBar} = reply[r].view
      BY <2>1, <2>2
    <3>2. ReplyOf(r)' = Registry!Body(200, {<<f, CountBar[f]>> : f \in LiveBar})
      BY <2>3, <3>1 DEF Registry!Body, Body
    <3> QED
      BY <1>3, <2>3, <3>2 DEF Registry!Reply
  <2>5. Registry!ListFns(r)
    BY <1>1, <1>3, <1>4, <2>3, <2>4 DEF Registry!ListFns, Registry!Is
  <2> QED
    BY <2>5 DEF Registry!Step
<1>10. CASE Read(r)
  <2>1. LiveBar = live /\ CountBar = count /\ LogsBar = logs
    BY <1>10, ReadersSeeTheRegistry DEF Read, Shared
  <2>2. /\ pc[r] = "read" /\ pc'[r] = "runlock" /\ call' = call /\ reply[r] = Status(0)
        /\ PhaseOf(r) = "received" /\ CallOf(r) = call[r] /\ CallOf(r)' = CallOf(r)
        /\ call[r].op \in {"get", "invoke", "logs"} /\ ReplyOf(r)' = reply'[r]
        /\ Registry!Id(r) = Id(r) /\ (call[r].op = "invoke" => ready)
    BY <1>1, <1>2, <1>3, <1>10 DEF Read, InRoute, ReplySoFar, Silent, Registry!Id
  <2>3. CASE Id(r) \notin live
    <3>1. ReplyOf(r)' = Status(404) /\ PhaseOf(r)' = "replying"
      <4>1. reply'[r] = Status(404)
        BY <1>2, <1>10, <2>3 DEF Read
      <4>2. reply'[r].status # 0
        BY <4>1 DEF Status
      <4> QED
        BY <2>2, <4>1, <4>2
    <3>2. Registry!Reply(r, Registry!Status(404))
      BY <1>3, <3>1 DEF Registry!Reply, Registry!Status, Status
    <3>3. Registry!GetFn(r) \/ Registry!LogsOf(r) \/ Registry!InvokeUnavailable(r)
      <4> HIDE DEF PhaseOf, CallOf, ReplyOf, Id
      <4> QED
        BY <1>1, <1>3, <1>4, <2>1, <2>2, <2>3, <3>2
           DEF Registry!GetFn, Registry!LogsOf, Registry!InvokeUnavailable, Registry!Is
    <3> QED
      BY <3>3 DEF Registry!Step
  <2>4. CASE Id(r) \in live /\ call[r].op = "get"
    <3>1. ReplyOf(r)' = Body(200, {<<Id(r), count[Id(r)]>>}) /\ PhaseOf(r)' = "replying"
      <4>1. reply'[r] = Body(200, {<<Id(r), count[Id(r)]>>})
        BY <1>2, <1>10, <2>4 DEF Read
      <4>2. reply'[r].status # 0
        BY <4>1 DEF Body
      <4> QED
        BY <2>2, <4>1, <4>2
    <3>2. Registry!Reply(r, Registry!Body(200, {<<Id(r), CountBar[Id(r)]>>}))
      BY <1>3, <2>1, <3>1, ZenonT(40) DEF Registry!Reply, Registry!Body, Body
    <3>3. Registry!GetFn(r)
      <4> HIDE DEF PhaseOf, CallOf, ReplyOf, Id
      <4> QED
        BY <1>1, <1>3, <1>4, <2>1, <2>2, <2>4, <3>2 DEF Registry!GetFn, Registry!Is
    <3> QED
      BY <3>3 DEF Registry!Step
  <2>5. CASE Id(r) \in live /\ call[r].op = "logs"
    <3>1. ReplyOf(r)' = Entries(200, logs[Id(r)]) /\ PhaseOf(r)' = "replying"
      <4>1. reply'[r] = Entries(200, logs[Id(r)])
        BY <1>2, <1>10, <2>5 DEF Read
      <4>2. reply'[r].status # 0
        BY <4>1 DEF Entries
      <4> QED
        BY <2>2, <4>1, <4>2
    <3>2. Registry!Reply(r, Registry!Entries(200, LogsBar[Id(r)]))
      BY <1>3, <2>1, <3>1, ZenonT(40) DEF Registry!Reply, Registry!Entries, Entries
    <3>3. Registry!LogsOf(r)
      <4> HIDE DEF PhaseOf, CallOf, ReplyOf, Id
      <4> QED
        BY <1>1, <1>3, <1>4, <2>1, <2>2, <2>5, <3>2 DEF Registry!LogsOf, Registry!Is
    <3> QED
      BY <3>3 DEF Registry!Step
  <2>6. CASE Id(r) \in live /\ call[r].op = "invoke"
    <3>1. reply' = reply
      BY <1>10, <2>6 DEF Read
    <3>2. PhaseOf(r)' = "running" /\ ReplyOf(r)' = ReplyOf(r)
      BY <1>2, <2>2, <3>1 DEF Status
    <3>3. Registry!InvokeStart(r)
      <4> HIDE DEF PhaseOf, CallOf, ReplyOf, Id
      <4> QED
        BY <1>1, <1>3, <1>4, <2>1, <2>2, <2>6, <3>2 DEF Registry!InvokeStart, Registry!Is
    <3> QED
      BY <3>3 DEF Registry!Step
  <2> QED
    BY <2>2, <2>3, <2>4, <2>5, <2>6
<1> QED
  BY <1>6, <1>7, <1>8, <1>9, <1>10

-----------------------------------------------------------------------------
(* Entering the sections that write *)

\* The id of a creation stays the creation's own until the function is there.
LEMMA NewFunctionStep ==
    ASSUME IInv, NEW r \in Requests, NewFunction(r)
    PROVE  UNCHANGED Registry!vars
<1>1. PICK f \in Ids \ issued :
          /\ issued' = issued \cup {f}
          /\ call' = [call EXCEPT ![r] = [op |-> "create", id |-> f]]
  BY DEF NewFunction
<1>2. /\ pc[r] = "received" /\ pc'[r] = "lock" /\ reply'[r] = reply[r]
      /\ call[r].op = "create" /\ call'[r] = [op |-> "create", id |-> f]
      /\ r \notin writer /\ writer' = writer /\ before' = before
  BY <1>1 DEF NewFunction, Is, Goto, mu, IInv, Types, InOrder, LockHeld, Alone
<1>3. call[r] = [op |-> "create", id |-> NoId]
  <2>1. call[r] \in [op : Routes \cup {"none"}, id : Ids \cup {NoId}] /\ call[r].id = NoId
    BY <1>2 DEF IInv, Types, InOrder, InRoute, Is, Id
  <2> QED
    BY <1>2, <2>1
<1>4. PhaseOf(r)' = PhaseOf(r) /\ CallOf(r)' = CallOf(r) /\ ReplyOf(r)' = ReplyOf(r)
  BY <1>2, <1>3 DEF PhaseOf, CallOf, ReplyOf, Entering, Is
<1>5. LiveBar' = LiveBar /\ CountBar' = CountBar /\ LogsBar' = LogsBar
  BY <1>2, StoreBarsFrame DEF Proceed
<1>6. IssuedBar' = IssuedBar
  <2>1. \A s \in Requests \ {r} : pc'[s] = pc[s] /\ call'[s] = call[s]
    BY OthersKept DEF Proceed
  <2>2. Held' = Held \cup {f}
    BY <1>2, <2>1 DEF Held, Is, Id, Entering
  <2> QED
    BY <1>1, <2>2 DEF IssuedBar, Held
<1> QED
  BY <1>2, <1>4, <1>5, <1>6, Stutters DEF Proceed

\* The lock is granted: what its holder is going to do happens at once.
LEMMA DrainFacts ==
    ASSUME IInv, NEW r \in Requests, Drain(r)
    PROVE  /\ LiveBar = live /\ CountBar = count /\ LogsBar = logs
           /\ LiveBar' = LiveOf(r)' /\ CountBar' = CountOf(r)' /\ LogsBar' = LogsOf(r)'
           /\ live' = live /\ count' = count /\ logs' = logs
           /\ pc[r] = "drain" /\ call' = call /\ reply' = reply /\ before' = before
           /\ ready' = ready
           /\ pc'[r] = CASE Is(r, "create") -> "insert"
                         [] Is(r, "delete") -> "check"
                         [] Is(r, "invoke") -> "lookup"
<1>1. writer = {} /\ writer' = {r}
  BY DEF Drain, IInv, InOrder, LockHeld, LockExcludes, Alone
<1>2. IInv' => StoreHeld'
  BY HeldBars, PTL
<1>3. LiveBar' = LiveOf(r)' /\ CountBar' = CountOf(r)' /\ LogsBar' = LogsOf(r)'
  BY <1>1, <1>2, StepKeepsInvariant DEF Proceed, StoreHeld
<1>4. LiveBar = live /\ CountBar = count /\ LogsBar = logs
  BY <1>1, UnheldBars DEF StoreUnheld
<1> QED
  BY <1>3, <1>4 DEF Drain, static, store, Goto, IInv, Types

\* A creation takes effect when its lock is granted.
LEMMA DrainCreate ==
    ASSUME IInv, NEW r \in Requests, Drain(r), Is(r, "create")
    PROVE  Registry!CreateFn(r)
<1>1. Id(r) \in issued /\ issued \subseteq Ids /\ call[r] = [op |-> "create", id |-> Id(r)]
  BY DEF Drain, IInv, Types, InOrder, OwnIds, HasId, Is, Id
<1>2. /\ pc[r] = "drain" /\ pc'[r] = "insert" /\ call' = call /\ reply' = reply
      /\ live' = live /\ count' = count /\ logs' = logs
  BY DrainFacts DEF Is
<1>3. /\ PhaseOf(r) = "received" /\ PhaseOf(r)' = "created" /\ ReplyOf(r)' = ReplyOf(r)
      /\ CallOf(r).op = "create" /\ CallOf(r)' = call[r]
  BY <1>2 DEF PhaseOf, CallOf, ReplyOf, Entering, Is, Alone
<1>4. LiveBar' = LiveBar \cup {Id(r)} /\ CountBar' = CountBar /\ LogsBar' = LogsBar
  <2>1. /\ LiveOf(r)' = live \cup {Id(r)} /\ CountOf(r)' = count
        /\ LogsOf(r)' = logs
    BY <1>2 DEF LiveOf, CountOf, LogsOf, Inserting, Counting, Emptying, Logging, Is, Id
  <2> QED
    BY <2>1, DrainFacts
<1>5. Id(r) \notin IssuedBar /\ IssuedBar' = IssuedBar \cup {Id(r)}
  <2>1. issued' = issued
    BY DEF Drain, store
  <2>2. Id(r) \in Held
    BY <1>2 DEF Held, Entering
  <2>3. \A s \in Requests \ {r} : pc'[s] = pc[s] /\ call'[s] = call[s]
    BY OthersKept DEF Proceed
  <2>4. \A s \in Requests \ {r} : Is(s, "create") /\ Entering(s) => Id(s) # Id(r)
    BY <1>2 DEF IInv, OwnIds, HasId, Entering
  <2>5. Held' = Held \ {Id(r)}
    BY <1>2, <2>3, <2>4 DEF Held, Is, Id, Entering
  <2> QED
    BY <1>1, <2>1, <2>2, <2>5 DEF IssuedBar, Held
<1>6. Registry!Created(Id(r)) = call[r]
  BY <1>1 DEF Registry!Created
<1>7. /\ PhaseBar[r] = "received" /\ CallBar[r].op = "create"
      /\ PhaseBar' = [PhaseBar EXCEPT ![r] = "created"]
      /\ CallBar' = [CallBar EXCEPT ![r] = Registry!Created(Id(r))]
      /\ ReplyBar' = ReplyBar
  BY <1>3, <1>6, RequestBarsStep DEF Proceed
<1>8. ready' = ready /\ before' = before
  BY DrainFacts
<1> QED
  BY <1>1, <1>4, <1>5, <1>7, <1>8 DEF Registry!CreateFn, Registry!Is

\* So does a deletion.
LEMMA DrainDelete ==
    ASSUME IInv, NEW r \in Requests, Drain(r), Is(r, "delete")
    PROVE  Registry!DeleteFn(r)
<1>1. Id(r) \in Ids
  BY DEF IInv, InOrder, InRoute, Is
<1>2. /\ pc[r] = "drain" /\ pc'[r] = "check" /\ call' = call /\ reply' = reply
      /\ live' = live /\ count' = count /\ logs' = logs
  BY DrainFacts DEF Is
<1>3. /\ PhaseOf(r) = "received" /\ PhaseOf(r)' = "replying"
      /\ ReplyOf(r)' = Status(IF Id(r) \in live THEN 204 ELSE 404)
      /\ CallOf(r) = call[r] /\ CallOf(r)' = CallOf(r)
  BY <1>2 DEF PhaseOf, CallOf, ReplyOf, Entering, Is, Id
<1>4. /\ LiveBar' = LiveBar \ {Id(r)} /\ CountBar' = CountBar
      /\ LogsBar' = IF Id(r) \in LiveBar THEN [LogsBar EXCEPT ![Id(r)] = << >>] ELSE LogsBar
  <2>1. /\ LiveOf(r)' = live \ {Id(r)} /\ CountOf(r)' = count
        /\ LogsOf(r)' = IF Id(r) \in live THEN [logs EXCEPT ![Id(r)] = << >>] ELSE logs
    BY <1>2 DEF LiveOf, CountOf, LogsOf, Inserting, Deleting, Counting, Emptying, Logging, Is, Id
  <2> QED
    BY <2>1, DrainFacts
<1>5. IssuedBar' = IssuedBar
  BY IssuedBarFrame DEF Proceed, Drain, NewFunction, Is
<1>6. /\ PhaseBar[r] = "received" /\ CallBar[r] = call[r] /\ CallBar' = CallBar
      /\ PhaseBar' = [PhaseBar EXCEPT ![r] = "replying"]
      /\ ReplyBar' = [ReplyBar EXCEPT ![r] = Status(IF Id(r) \in LiveBar THEN 204 ELSE 404)]
  <2>1. LiveBar = live
    BY DrainFacts
  <2> QED
    BY <1>3, <2>1, RequestBarsStep DEF Proceed
<1>7. ready' = ready /\ before' = before
  BY DrainFacts
<1>8. Registry!Id(r) = Id(r) /\ Registry!Is(r, "delete")
  BY <1>6 DEF Registry!Id, Registry!Is, Id, Is
<1>9. Registry!Reply(r, Registry!Status(IF Id(r) \in LiveBar THEN 204 ELSE 404))
  BY <1>6 DEF Registry!Reply, Registry!Status, Status
<1> QED
  BY <1>4, <1>5, <1>6, <1>7, <1>8, <1>9 DEF Registry!DeleteFn

\* So does the record of an invocation, its append and its reslice at once.
LEMMA DrainInvoke ==
    ASSUME IInv, NEW r \in Requests, Drain(r), Is(r, "invoke")
    PROVE  Registry!InvokeRecord(r)
<1>1. Id(r) \in Ids
  BY DEF IInv, InOrder, InRoute, Is
<1>2. /\ pc[r] = "drain" /\ pc'[r] = "lookup" /\ call' = call /\ reply' = reply
      /\ live' = live /\ count' = count /\ logs' = logs
  BY DrainFacts DEF Is
<1>3. /\ PhaseOf(r) = "running" /\ PhaseOf(r)' = "replying" /\ ReplyOf(r)' = Status(200)
      /\ CallOf(r) = call[r] /\ CallOf(r)' = CallOf(r)
  BY <1>2 DEF PhaseOf, CallOf, ReplyOf, Entering, Is, Alone
<1>4. /\ LiveBar' = LiveBar
      /\ CountBar' = IF Id(r) \in LiveBar THEN [CountBar EXCEPT ![Id(r)] = @ + 1] ELSE CountBar
      /\ LogsBar' = [LogsBar EXCEPT ![Id(r)] = KeepLast(Append(@, r))]
  <2>1. /\ LiveOf(r)' = live
        /\ CountOf(r)' = IF Id(r) \in live THEN [count EXCEPT ![Id(r)] = @ + 1] ELSE count
        /\ LogsOf(r)' = [logs EXCEPT ![Id(r)] = KeepLast(Append(@, r))]
    BY <1>2 DEF LiveOf, CountOf, LogsOf, Inserting, Deleting, Counting, Emptying, Logging, Is, Id
  <2> QED
    BY <2>1, DrainFacts
<1>5. IssuedBar' = IssuedBar
  BY IssuedBarFrame DEF Proceed, Drain, NewFunction, Is
<1>6. /\ PhaseBar[r] = "running" /\ CallBar[r] = call[r] /\ CallBar' = CallBar
      /\ PhaseBar' = [PhaseBar EXCEPT ![r] = "replying"]
      /\ ReplyBar' = [ReplyBar EXCEPT ![r] = Status(200)]
  BY <1>3, RequestBarsStep DEF Proceed
<1>7. ready' = ready /\ before' = before
  BY DrainFacts
<1>8. Registry!Id(r) = Id(r) /\ \A log : Registry!KeepLast(log) = KeepLast(log)
  BY <1>6 DEF Registry!Id, Id, Registry!KeepLast, KeepLast
<1>9. Registry!Reply(r, Registry!Status(200))
  BY <1>6 DEF Registry!Reply, Registry!Status, Status
<1> QED
  BY <1>4, <1>5, <1>6, <1>7, <1>8, <1>9 DEF Registry!InvokeRecord

\* These are the routes that take the lock alone.
LEMMA DrainStep ==
    ASSUME IInv, NEW r \in Requests, Drain(r)
    PROVE  Registry!Step(r)
<1>1. Is(r, "create") \/ Is(r, "delete") \/ Is(r, "invoke")
  BY DEF Drain, IInv, InOrder, InRoute, Is
<1> QED
  BY <1>1, DrainCreate, DrainDelete, DrainInvoke DEF Registry!Step

-----------------------------------------------------------------------------
(* Inside the sections that write, and at their end *)

\* The holder of the lock, and what the registry's maps are to it.
LEMMA HolderFacts ==
    ASSUME IInv, NEW r \in Requests, Proceed(r), pc[r] \in Alone
    PROVE  /\ writer = {r} /\ r \in DOMAIN pc /\ r \in DOMAIN reply
           /\ LiveBar = LiveOf(r) /\ CountBar = CountOf(r) /\ LogsBar = LogsOf(r)
           /\ writer' = writer =>
                 LiveBar' = LiveOf(r)' /\ CountBar' = CountOf(r)' /\ LogsBar' = LogsOf(r)'
           /\ writer' = {} => LiveBar' = live' /\ CountBar' = count' /\ LogsBar' = logs'
<1>1. writer = {r}
  BY DEF IInv, InOrder, LockHeld, LockExcludes
<1>2. IInv' => StoreHeld' /\ StoreUnheld'
  <2>1. IInv' => StoreHeld'
    BY HeldBars, PTL
  <2>2. IInv' => StoreUnheld'
    BY UnheldBars, PTL
  <2> QED
    BY <2>1, <2>2
<1> QED
  BY <1>1, <1>2, HeldBars, StepKeepsInvariant DEF StoreHeld, StoreUnheld, IInv, Types

\* The statements of a section write to the store what the registry's state
\* already has.
LEMMA SectionSteps ==
    ASSUME IInv, NEW r \in Requests,
           \/ Insert(r) \/ DeleteCheck(r) \/ DeleteFn(r) \/ DeleteLogs(r)
           \/ InvokeLookup(r) \/ InvokeLoad(r) \/ InvokeStore(r) \/ InvokeAppend(r)
           \/ InvokeTrim(r) \/ Unlock(r)
    PROVE  UNCHANGED Registry!vars
<1>1. /\ Proceed(r) /\ pc[r] \in Alone /\ ~NewFunction(r) /\ ~Drain(r)
      /\ call' = call /\ before' = before
  <2> USE DEF static, Alone, NewFunction, Drain, Proceed
  <2>1. CASE Insert(r) \/ DeleteCheck(r) \/ DeleteFn(r) \/ DeleteLogs(r) \/ Unlock(r)
    BY <2>1 DEF Insert, DeleteCheck, DeleteFn, DeleteLogs, Unlock
  <2>2. CASE InvokeLookup(r) \/ InvokeLoad(r) \/ InvokeStore(r) \/ InvokeAppend(r) \/ InvokeTrim(r)
    BY <2>2 DEF InvokeLookup, InvokeLoad, InvokeStore, InvokeAppend, InvokeTrim
  <2> QED
    BY <2>1, <2>2
<1>2. /\ writer = {r} /\ r \in DOMAIN pc /\ r \in DOMAIN reply
      /\ LiveBar = LiveOf(r) /\ CountBar = CountOf(r) /\ LogsBar = LogsOf(r)
      /\ writer' = writer =>
            LiveBar' = LiveOf(r)' /\ CountBar' = CountOf(r)' /\ LogsBar' = LogsOf(r)'
      /\ writer' = {} => LiveBar' = live' /\ CountBar' = count' /\ LogsBar' = logs'
  BY <1>1, HolderFacts
<1>3. IssuedBar' = IssuedBar
  BY <1>1, IssuedBarFrame
<1>4. /\ InRoute(r) /\ ReplySoFar(r) /\ Remembers(r) /\ live \subseteq Ids
      /\ count \in [Ids -> Nat] /\ logs \in [Ids -> Seq(Requests)]
  BY DEF IInv, InOrder, Types
<1> DEFINE SameRecord == /\ PhaseOf(r)' = PhaseOf(r) /\ CallOf(r)' = CallOf(r)
                         /\ ReplyOf(r)' = ReplyOf(r)
<1> DEFINE SameStore == LiveOf(r)' = LiveOf(r) /\ CountOf(r)' = CountOf(r) /\ LogsOf(r)' = LogsOf(r)
<1>5. ASSUME SameRecord, SameStore, writer' = writer PROVE UNCHANGED Registry!vars
  BY <1>1, <1>2, <1>3, <1>5, Stutters
<1> HIDE DEF SameRecord, SameStore
<1> USE DEF Is, Id, Alone, Goto, Respond, mu, store
<1>6. CASE Insert(r)
  <2>1. SameRecord
    BY <1>1, <1>2, <1>4, <1>6 DEF Insert, SameRecord, PhaseOf, CallOf, ReplyOf, Entering
  <2>2. SameStore
    BY <1>1, <1>2, <1>4, <1>6 DEF Insert, InRoute, SameStore, LiveOf, CountOf, LogsOf,
       Inserting, Deleting, Counting, Emptying, Logging
  <2> QED
    BY <1>5, <1>6, <2>1, <2>2 DEF Insert
<1>7. CASE DeleteCheck(r)
  <2>1. SameRecord
    BY <1>1, <1>2, <1>4, <1>7 DEF DeleteCheck, InRoute, SameRecord, PhaseOf, CallOf, ReplyOf, Entering
  <2>2. SameStore
    <3>1. /\ pc[r] = "check" /\ call[r].op = "delete"
          /\ pc'[r] = IF Id(r) \in live THEN "dropFn" ELSE "unlock"
          /\ live' = live /\ count' = count /\ logs' = logs
      BY <1>2, <1>4, <1>7 DEF DeleteCheck, InRoute
    <3>2. LiveOf(r)' = LiveOf(r) /\ CountOf(r)' = CountOf(r)
      BY <1>1, <3>1 DEF LiveOf, CountOf, Inserting, Deleting, Counting
    <3>3. Emptying(r)' = Emptying(r) /\ ~Logging(r) /\ ~Logging(r)'
      BY <1>1, <3>1 DEF Emptying, Logging
    <3>4. LogsOf(r)' = LogsOf(r)
      BY <1>1, <3>1, <3>3 DEF LogsOf
    <3> QED
      BY <3>2, <3>4 DEF SameStore
  <2> QED
    BY <1>5, <1>7, <2>1, <2>2 DEF DeleteCheck
<1>8. CASE DeleteFn(r)
  <2>1. SameRecord
    BY <1>1, <1>2, <1>4, <1>8 DEF DeleteFn, InRoute, SameRecord, PhaseOf, CallOf, ReplyOf, Entering
  <2>2. SameStore
    BY <1>1, <1>2, <1>4, <1>8 DEF DeleteFn, InRoute, SameStore, LiveOf, CountOf, LogsOf,
       Inserting, Deleting, Counting, Emptying, Logging
  <2> QED
    BY <1>5, <1>8, <2>1, <2>2 DEF DeleteFn
<1>9. CASE DeleteLogs(r)
  <2>1. SameRecord
    BY <1>1, <1>2, <1>4, <1>9 DEF DeleteLogs, InRoute, SameRecord, PhaseOf, CallOf, ReplyOf, Entering
  <2>2. SameStore
    <3>1. /\ pc[r] = "dropLogs" /\ pc'[r] = "unlock" /\ call[r].op = "delete"
          /\ live' = live /\ count' = count /\ logs' = [logs EXCEPT ![Id(r)] = << >>]
      BY <1>2, <1>4, <1>9 DEF DeleteLogs, InRoute
    <3>2. LiveOf(r)' = LiveOf(r) /\ CountOf(r)' = CountOf(r)
      BY <1>1, <3>1 DEF LiveOf, CountOf, Inserting, Deleting, Counting
    <3>3. LogsOf(r) = logs' /\ LogsOf(r)' = logs'
      BY <1>1, <3>1 DEF LogsOf, Emptying, Logging
    <3> QED
      BY <3>2, <3>3 DEF SameStore
  <2> QED
    BY <1>5, <1>9, <2>1, <2>2 DEF DeleteLogs
<1>10. CASE InvokeLookup(r) \/ InvokeLoad(r) \/ InvokeStore(r) \/ InvokeAppend(r) \/ InvokeTrim(r)
  <2>1. SameRecord
    <3>1. /\ pc[r] \in {"lookup", "load", "store", "append", "trim"} /\ reply' = reply
          /\ pc'[r] \in {"load", "store", "append", "trim", "unlock"} /\ call[r].op = "invoke"
      BY <1>2, <1>4, <1>10 DEF InRoute, InvokeLookup, InvokeLoad, InvokeStore, InvokeAppend,
         InvokeTrim
    <3> QED
      BY <1>1, <3>1 DEF SameRecord, PhaseOf, CallOf, ReplyOf, Entering
  <2>2. SameStore
    <3>1. call[r].op = "invoke" /\ Id(r) \in Ids
      BY <1>4, <1>10 DEF InRoute, InvokeLookup, InvokeLoad, InvokeStore, InvokeAppend, InvokeTrim
    <3>2. LiveOf(r)' = LiveOf(r)
      BY <1>1, <1>10, <3>1 DEF LiveOf, Inserting, Deleting, InvokeLookup, InvokeLoad, InvokeStore,
         InvokeAppend, InvokeTrim
    <3>3. CountOf(r)' = CountOf(r)
      <4>1. CASE InvokeStore(r)
        BY <1>1, <1>2, <1>4, <3>1, <4>1 DEF InvokeStore, Remembers, CountOf, Counting
      <4>2. CASE ~InvokeStore(r)
        BY <1>1, <1>2, <1>4, <1>10, <3>1, <4>2 DEF Remembers, CountOf, Counting, InvokeLookup,
           InvokeLoad, InvokeAppend, InvokeTrim
      <4> QED
        BY <4>1, <4>2
    <3>4. LogsOf(r)' = LogsOf(r)
      <4>1. CASE InvokeAppend(r)
        <5> DEFINE long == Append(logs[Id(r)], r)
        <5>1. /\ logs' = [logs EXCEPT ![Id(r)] = long] /\ LogsOf(r) = [logs EXCEPT ![Id(r)] = KeepLast(long)]
              /\ pc'[r] = IF Len(logs[Id(r)]) + 1 > MaxLogs THEN "trim" ELSE "unlock"
          BY <1>2, <3>1, <4>1 DEF InvokeAppend, LogsOf, Emptying, Logging
        <5>2. Len(long) = Len(logs[Id(r)]) + 1 /\ Len(long) \in Nat
          BY <1>4, <3>1
        <5>3. pc'[r] = "unlock" => KeepLast(long) = long
          BY <5>1, <5>2, MaxLogsAssumption DEF KeepLast
        <5>4. LogsOf(r)' = IF pc'[r] = "trim" THEN [logs' EXCEPT ![Id(r)] = KeepLast(@)] ELSE logs'
          BY <1>1, <3>1, <5>1 DEF LogsOf, Emptying, Logging
        <5> HIDE DEF long
        <5> QED
          BY <1>4, <3>1, <5>1, <5>3, <5>4
      <4>2. CASE InvokeTrim(r)
        BY <1>1, <1>2, <1>4, <3>1, <4>2 DEF InvokeTrim, LogsOf, Emptying, Logging
      <4>3. CASE InvokeLookup(r) \/ InvokeLoad(r) \/ InvokeStore(r)
        BY <1>1, <1>2, <3>1, <4>3 DEF InvokeLookup, InvokeLoad, InvokeStore, LogsOf, Emptying, Logging
      <4> QED
        BY <1>10, <4>1, <4>2, <4>3
    <3> QED
      BY <3>2, <3>3, <3>4 DEF SameStore
  <2>3. writer' = writer
    BY <1>10 DEF InvokeLookup, InvokeLoad, InvokeStore, InvokeAppend, InvokeTrim
  <2> QED
    BY <1>5, <2>1, <2>2, <2>3
<1>11. CASE Unlock(r)
  <2>1. SameRecord
    <3>1. /\ pc[r] = "unlock" /\ pc'[r] = IF call[r].op = "create" THEN "encode" ELSE "replying"
          /\ reply'[r] = IF call[r].op = "invoke" THEN Status(200) ELSE reply[r]
      BY <1>2, <1>11 DEF Unlock
    <3> QED
      BY <1>1, <3>1 DEF SameRecord, PhaseOf, CallOf, ReplyOf, Entering
  <2>2. LiveOf(r) = live /\ CountOf(r) = count /\ LogsOf(r) = logs
    BY <1>11 DEF Unlock, LiveOf, CountOf, LogsOf, Inserting, Deleting, Counting, Emptying, Logging
  <2>3. writer' = {} /\ live' = live /\ count' = count /\ logs' = logs
    BY <1>11 DEF Unlock
  <2>4. LiveBar' = LiveBar /\ CountBar' = CountBar /\ LogsBar' = LogsBar
    BY <1>2, <2>2, <2>3
  <2> QED
    BY <1>1, <1>3, <2>1, <2>4, Stutters DEF SameRecord
<1> QED
  BY <1>6, <1>7, <1>8, <1>9, <1>10, <1>11

-----------------------------------------------------------------------------
(* The theorem *)

\* The initial states are the registry's.
LEMMA InitRefines == Init => Registry!Init
<1> SUFFICES ASSUME Init PROVE Registry!Init
  OBVIOUS
<1>1. IInv /\ writer = {}
  BY InitInvariant DEF Init
<1>2. LiveBar = {} /\ CountBar = [f \in Ids |-> 0] /\ LogsBar = [f \in Ids |-> << >>]
  BY <1>1, UnheldBars DEF StoreUnheld, Init
<1>3. IssuedBar = {}
  BY DEF Init, IssuedBar
<1>4. /\ PhaseBar = [r \in Requests |-> "new"]
      /\ CallBar = [r \in Requests |-> Registry!NoCall]
      /\ ReplyBar = [r \in Requests |-> Registry!Status(0)]
  <2>1. \A r \in Requests : PhaseOf(r) = "new" /\ CallOf(r) = Registry!NoCall
                            /\ ReplyOf(r) = Registry!Status(0)
    BY DEF Init, PhaseOf, CallOf, ReplyOf, Entering, Alone, Is, Status, Registry!Status,
       Registry!NoCall
  <2> QED
    BY <1>1, <2>1, RequestBars DEF RecordsOfRequests
<1> QED
  BY <1>2, <1>3, <1>4 DEF Init, Registry!Init

\* Every step is a step of the registry or none of it.
LEMMA StepRefines ==
    ASSUME IInv, NEW r \in Requests, Receive(r) \/ Proceed(r)
    PROVE  Registry!Step(r) \/ UNCHANGED Registry!vars
<1>1. CASE Receive(r)
  BY <1>1, ReceiveStep DEF Registry!Step
<1>2. CASE Proceed(r)
  BY <1>2, HandlerSteps, SharedSteps, NewFunctionStep, DrainStep, SectionSteps DEF Proceed
<1> QED
  BY <1>1, <1>2

\* The service implements the atomic registry: whatever the interleaving of the
\* goroutines, clients see what atomic operations would show them
\* (service.go, every critical section).
THEOREM Refinement == Spec => ImplementsRegistry
<1>1. IInv /\ [Next]_vars => [Registry!Next]_(Registry!vars)
  <2> SUFFICES ASSUME IInv, [Next]_vars
               PROVE  Registry!Next \/ UNCHANGED Registry!vars
    OBVIOUS
  <2>1. CASE \E r \in Requests : Receive(r) \/ Proceed(r)
    BY <2>1, StepRefines DEF Registry!Next
  <2>2. CASE UNCHANGED vars
    BY <2>2 DEF vars, Registry!vars, IssuedBar, LiveBar, CountBar, LogsBar, PhaseBar, CallBar,
       ReplyBar, Exclusive, Entering, Dropping, Appending, Is, Id
  <2> QED
    BY <2>1, <2>2 DEF Next, Quiescent
<1> QED
  BY <1>1, InitRefines, Invariance, PTL DEF Spec, ImplementsRegistry, Registry!Spec

-----------------------------------------------------------------------------
(* What the registry promises holds of the service, statement by statement *)

Promised == INSTANCE FunctionRegistryProofs WITH
    issued <- IssuedBar, live <- LiveBar, count <- CountBar, logs <- LogsBar,
    phase <- PhaseBar, call <- CallBar, reply <- ReplyBar

\* The two instances are of one module.
LEMMA SameRegistry == Spec => Promised!Spec
<1>1. Registry!Init => Promised!Init
  BY DEF Registry!Init, Promised!Init, Registry!NoCall, Promised!NoCall, Registry!Status,
     Promised!Status
<1>2. Registry!Next => Promised!Next
  BY DEF Registry!Next, Registry!Step, Registry!Receive, Registry!Answer, Registry!RejectCreate,
     Registry!CreateFn, Registry!EncodeCreated, Registry!GetFn, Registry!ListFns, Registry!LogsOf,
     Registry!DeleteFn, Registry!InvokeUnavailable, Registry!InvokeStart, Registry!InvokeFail,
     Registry!InvokeRecord, Registry!Quiescent, Registry!vars, Registry!store, Registry!Calls,
     Registry!Answered, Registry!Reply, Registry!Is, Registry!Id, Registry!Status, Registry!Body,
     Registry!Entries, Registry!KeepLast, Registry!Created,
     Promised!Next, Promised!Step, Promised!Receive, Promised!Answer, Promised!RejectCreate,
     Promised!CreateFn, Promised!EncodeCreated, Promised!GetFn, Promised!ListFns, Promised!LogsOf,
     Promised!DeleteFn, Promised!InvokeUnavailable, Promised!InvokeStart, Promised!InvokeFail,
     Promised!InvokeRecord, Promised!Quiescent, Promised!vars, Promised!store, Promised!Calls,
     Promised!Answered, Promised!Reply, Promised!Is, Promised!Id, Promised!Status, Promised!Body,
     Promised!Entries, Promised!KeepLast, Promised!Created
<1>3. [Registry!Next]_(Registry!vars) => [Promised!Next]_(Promised!vars)
  BY <1>2 DEF Registry!vars, Promised!vars
<1> QED
  BY Refinement, <1>1, <1>3, PTL DEF ImplementsRegistry, Registry!Spec, Promised!Spec

\* What the proofs about the registry assume, and what they count with.
LEMMA PromisedAssumptions ==
    /\ Promised!RequestsAssumption /\ Promised!IdsAssumption
    /\ Promised!RoutesAssumption /\ Promised!MaxLogsAssumption
BY RequestsAssumption, IdsAssumption, RoutesAssumption, MaxLogsAssumption
   DEF Promised!RequestsAssumption, Promised!IdsAssumption, Promised!RoutesAssumption,
       Promised!MaxLogsAssumption, IsFiniteSet, Promised!IsFiniteSet

\* The two instances count alike.
LEMMA SameCardinality == \A S : Promised!Cardinality(S) = Registry!Cardinality(S)
BY DEF Promised!Cardinality, Registry!Cardinality

\* What clients see of the counters, the logs and the deletions is what the
\* registry promises, for every interleaving of the goroutines' statements
\* (service.go:48-160).
THEOREM ServicePromises ==
    Spec => [](/\ Registry!LogMatchesCount /\ Registry!NoLostInvocation
               /\ Registry!LogIsHistory /\ Registry!OldestDroppedFirst
               /\ Registry!DeleteIsFinal /\ Registry!ReadsAreCurrent)
<1>1. Promised!Spec => []Registry!LogMatchesCount
  <2>1. Promised!LogMatchesCount => Registry!LogMatchesCount
    BY DEF Promised!LogMatchesCount, Registry!LogMatchesCount
  <2> QED
    BY <2>1, PromisedAssumptions, Promised!LogMatchesCountAlways, PTL
<1>2. Promised!Spec => []Registry!NoLostInvocation
  <2>1. Promised!NoLostInvocation => Registry!NoLostInvocation
    BY SameCardinality DEF Promised!NoLostInvocation, Registry!NoLostInvocation,
       Promised!Invoked, Registry!Invoked, Promised!Is, Registry!Is, Promised!Id, Registry!Id
  <2> QED
    BY <2>1, PromisedAssumptions, Promised!NoInvocationLost, PTL
<1>3. Promised!Spec => []Registry!LogIsHistory
  <2>1. Promised!LogIsHistory => Registry!LogIsHistory
    BY DEF Promised!LogIsHistory, Registry!LogIsHistory
  <2> QED
    BY <2>1, PromisedAssumptions, Promised!LogIsHistoryAlways, PTL
<1>4. Promised!Spec => []Registry!OldestDroppedFirst
  <2>1. Promised!OldestDroppedFirst => Registry!OldestDroppedFirst
    BY DEF Promised!OldestDroppedFirst, Registry!OldestDroppedFirst, Promised!Invoked,
       Registry!Invoked, Promised!Is, Registry!Is, Promised!Id, Registry!Id
  <2> QED
    BY <2>1, PromisedAssumptions, Promised!OldestDroppedFirstAlways, PTL
<1>5. Promised!Spec => []Registry!DeleteIsFinal
  <2>1. Promised!DeleteIsFinal => Registry!DeleteIsFinal
    BY DEF Promised!DeleteIsFinal, Registry!DeleteIsFinal, Promised!Deleted, Registry!Deleted,
       Promised!Is, Registry!Is, Promised!Id, Registry!Id
  <2> QED
    BY <2>1, PromisedAssumptions, Promised!DeletionIsFinal, PTL
<1>6. Promised!Spec => []Registry!ReadsAreCurrent
  <2>1. Promised!ReadsAreCurrent => Registry!ReadsAreCurrent
    BY SameCardinality DEF Promised!ReadsAreCurrent, Registry!ReadsAreCurrent, Promised!Invoked,
       Registry!Invoked, Promised!Is, Registry!Is, Promised!Id, Registry!Id
  <2> QED
    BY <2>1, PromisedAssumptions, Promised!ReadsAreCurrentAlways, PTL
<1> QED
  BY SameRegistry, <1>1, <1>2, <1>3, <1>4, <1>5, <1>6, PTL

\* Between two critical sections the maps themselves agree: every function that
\* is registered has the log that its counter says (service.go:118-133).
THEOREM MapsAgree ==
    Spec => [](writer = {} => \A f \in live :
                  Len(logs[f]) = IF count[f] <= MaxLogs THEN count[f] ELSE MaxLogs)
<1>1. IInv /\ Registry!LogMatchesCount =>
         (writer = {} => \A f \in live :
             Len(logs[f]) = IF count[f] <= MaxLogs THEN count[f] ELSE MaxLogs)
  BY UnheldBars DEF StoreUnheld, Registry!LogMatchesCount
<1> QED
  BY Invariance, ServicePromises, <1>1, PTL

=============================================================================
