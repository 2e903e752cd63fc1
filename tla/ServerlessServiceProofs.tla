----------------------- MODULE ServerlessServiceProofs -----------------------
(***************************************************************************)
(* Proofs about ServerlessService, for any requests, ids and window: the   *)
(* discipline of the read-write lock, and what a request may rely on at    *)
(* each statement.                                                         *)
(***************************************************************************)
EXTENDS ServerlessService, TLAPS, FiniteSetTheorems

Replies == [status : {0, 200, 201, 204, 400, 404, 500, 501},
            view : SUBSET (Ids \X Nat), entries : Seq(Requests)]

\* TypeOK without the cardinality, which LockExcludes implies, and the replies.
Types ==
    /\ ready \in BOOLEAN
    /\ issued \in SUBSET Ids
    /\ live \in SUBSET issued
    /\ count \in [Ids -> Nat]
    /\ logs \in [Ids -> Seq(Requests)]
    /\ readers \in SUBSET Requests
    /\ pending \in SUBSET Requests
    /\ writer \in SUBSET Requests
    /\ pc \in [Requests -> PCs]
    /\ call \in [Requests -> [op : Routes \cup {"none"}, id : Ids \cup {NoId}]]
    /\ reg \in [Requests -> Nat]
    /\ reply \in [Requests -> Replies]
    /\ before \in [Requests -> SUBSET Requests]

-----------------------------------------------------------------------------
(* The lock *)

Shared == {"read", "list", "runlock"}
Alone  == {"insert", "check", "dropFn", "dropLogs",
           "lookup", "load", "store", "append", "trim", "unlock"}

\* Whoever is in a section holds the lock in its kind, and nobody else does.
LockHeld(r) ==
    /\ r \in readers <=> pc[r] \in Shared
    /\ r \in pending <=> pc[r] = "drain"
    /\ r \in writer  <=> pc[r] \in Alone

\* One goroutine at most is in Lock or holds the lock alone, and no reader is
\* inside together with the holder.
LockExcludes ==
    /\ \A r, s \in pending \cup writer : r = s
    /\ writer # {} => readers = {}

-----------------------------------------------------------------------------
(* The statements *)

\* The routes that come by each statement.
InRoute(r) ==
    /\ pc[r] = "new" => call[r] = [op |-> "none", id |-> NoId]
    /\ pc[r] # "new" => call[r].op \in Routes
    /\ pc[r] = "received" /\ Is(r, "create") => Id(r) = NoId
    /\ call[r].op \in {"get", "invoke", "logs", "delete"} => Id(r) \in Ids
    /\ pc[r] = "rlock" => call[r].op \in {"list", "get", "invoke", "logs"}
    /\ pc[r] = "list" => Is(r, "list")
    /\ pc[r] = "read" => call[r].op \in {"get", "invoke", "logs"}
    /\ pc[r] \in {"run", "lookup", "load", "store", "append", "trim"} => Is(r, "invoke")
    /\ pc[r] \in {"lock", "drain", "unlock"} => call[r].op \in {"create", "delete", "invoke"}
    /\ pc[r] \in {"insert", "encode"} => Is(r, "create")
    /\ pc[r] \in {"check", "dropFn", "dropLogs"} => Is(r, "delete")
    /\ pc[r] \in {"rlock", "read"} /\ Is(r, "invoke") => ready

\* The statements at which nothing has been answered yet.
Silent == {"new", "received", "rlock", "read", "run", "lock", "drain", "insert", "encode",
           "check", "dropFn", "dropLogs", "lookup", "load", "store", "append", "trim"}

ReplySoFar(r) ==
    /\ pc[r] \in Silent => reply[r] = Status(0)
    /\ pc[r] = "unlock" /\ ~Is(r, "delete") => reply[r] = Status(0)
    /\ pc[r] = "runlock" /\ reply[r].status = 0 => Is(r, "invoke") /\ reply[r] = Status(0)
    /\ pc[r] = "list" =>
          /\ reply[r] = Body(0, reply[r].view)
          /\ reply[r].view \subseteq {<<f, count[f]>> : f \in live}

\* The values that a goroutine keeps from one statement to the next.
Remembers(r) ==
    /\ pc[r] \in {"load", "store"} => Id(r) \in live
    /\ pc[r] = "store" => reg[r] = count[Id(r)]

\* The creations that have an id of their own, known to nobody else before the
\* function is inserted.
HasId(r) == Is(r, "create") /\ pc[r] \in {"lock", "drain", "insert", "unlock", "encode"}

OwnIds ==
    /\ \A r \in Requests : HasId(r) => Id(r) \in issued
    /\ \A r, s \in Requests : HasId(r) /\ HasId(s) /\ Id(r) = Id(s) => r = s

\* Outside of the section of an invocation a log is no longer than the window.
LogsBounded ==
    \A f \in Ids : Len(logs[f]) <= MaxLogs
                   \/ \E r \in writer : pc[r] = "trim" /\ Id(r) = f

InOrder(r) == LockHeld(r) /\ InRoute(r) /\ ReplySoFar(r) /\ Remembers(r)

IInv ==
    /\ Types /\ LockExcludes /\ OwnIds /\ LogsBounded
    /\ \A r \in Requests : InOrder(r)

-----------------------------------------------------------------------------

LEMMA KeepLastType ==
    ASSUME NEW log \in Seq(Requests)
    PROVE  /\ KeepLast(log) \in Seq(Requests)
           /\ Len(KeepLast(log)) <= MaxLogs
           /\ Len(log) <= MaxLogs => KeepLast(log) = log
BY MaxLogsAssumption DEF KeepLast

LEMMA InitInvariant == Init => IInv
<1> SUFFICES ASSUME Init PROVE IInv
  OBVIOUS
<1> USE DEF Init
<1>1. Types
  BY DEF Types, PCs, Replies, Status
<1>2. LockExcludes /\ OwnIds /\ LogsBounded
  BY MaxLogsAssumption DEF LockExcludes, OwnIds, HasId, LogsBounded, Is
<1>3. \A r \in Requests : InOrder(r)
  BY DEF InOrder, LockHeld, Shared, Alone, InRoute, ReplySoFar, Remembers, Is, Id
<1> QED
  BY <1>1, <1>2, <1>3 DEF IInv

-----------------------------------------------------------------------------
(* What a step of r leaves alone *)

LEMMA OthersKept ==
    ASSUME IInv, NEW r \in Requests, Receive(r) \/ Proceed(r)
    PROVE  \A s \in Requests \ {r} :
              /\ pc'[s] = pc[s] /\ call'[s] = call[s] /\ reg'[s] = reg[s]
              /\ reply'[s] = reply[s]
<1> USE DEF IInv, Types, Goto, Respond, static, store, mu
<1>1. CASE Receive(r) \/ RejectCreate(r) \/ NewFunction(r) \/ Enter(r) \/ CheckReady(r) \/ Answer(r)
  BY <1>1 DEF Receive, RejectCreate, NewFunction, Enter, CheckReady, Answer
<1>2. CASE RLock(r) \/ RUnlock(r) \/ Lock(r) \/ Drain(r) \/ Unlock(r)
  BY <1>2 DEF RLock, RUnlock, Lock, Drain, Unlock
<1>3. CASE Insert(r) \/ EncodeCreated(r) \/ DeleteCheck(r) \/ DeleteFn(r) \/ DeleteLogs(r)
  BY <1>3, ZenonT(40) DEF Insert, EncodeCreated, DeleteCheck, DeleteFn, DeleteLogs
<1>4. CASE Read(r)
  BY <1>4 DEF Read
<1>5. CASE ListNext(r) \/ ListEnd(r)
  BY <1>5 DEF ListNext, ListEnd
<1>6. CASE Run(r) \/ InvokeLookup(r) \/ InvokeLoad(r) \/ InvokeStore(r) \/ InvokeAppend(r)
           \/ InvokeTrim(r)
  BY <1>6 DEF Run, InvokeLookup, InvokeLoad, InvokeStore, InvokeAppend, InvokeTrim
<1> QED
  BY <1>1, <1>2, <1>3, <1>4, <1>5, <1>6 DEF Proceed

\* Only who holds the lock alone writes to the maps and the counters.
LEMMA WritesUnderLock ==
    ASSUME IInv, NEW r \in Requests, Receive(r) \/ Proceed(r)
    PROVE  /\ ready' = ready
           /\ r \in writer \/ UNCHANGED <<live, count, logs>>
<1> USE DEF IInv, InOrder, LockHeld, Alone, Goto, Respond, static, store, mu
<1>1. CASE Receive(r) \/ RejectCreate(r) \/ NewFunction(r) \/ Enter(r) \/ CheckReady(r) \/ Answer(r)
  BY <1>1 DEF Receive, RejectCreate, NewFunction, Enter, CheckReady, Answer
<1>2. CASE RLock(r) \/ RUnlock(r) \/ Lock(r) \/ Drain(r) \/ Unlock(r)
  BY <1>2 DEF RLock, RUnlock, Lock, Drain, Unlock
<1>3. CASE Insert(r) \/ EncodeCreated(r) \/ DeleteCheck(r) \/ DeleteFn(r) \/ DeleteLogs(r)
  BY <1>3 DEF Insert, EncodeCreated, DeleteCheck, DeleteFn, DeleteLogs
<1>4. CASE Read(r) \/ ListNext(r) \/ ListEnd(r)
  BY <1>4 DEF Read, ListNext, ListEnd
<1>5. CASE Run(r) \/ InvokeLookup(r) \/ InvokeLoad(r) \/ InvokeStore(r) \/ InvokeAppend(r)
           \/ InvokeTrim(r)
  BY <1>5 DEF Run, InvokeLookup, InvokeLoad, InvokeStore, InvokeAppend, InvokeTrim
<1> QED
  BY <1>1, <1>2, <1>3, <1>4, <1>5 DEF Proceed

\* A step that is none of the lock's own stays within its section.
LEMMA SectionKept ==
    ASSUME IInv, NEW r \in Requests, Receive(r) \/ Proceed(r),
           ~(RLock(r) \/ RUnlock(r) \/ Lock(r) \/ Drain(r) \/ Unlock(r))
    PROVE  /\ UNCHANGED mu
           /\ pc'[r] # "drain" /\ pc[r] # "drain"
           /\ pc'[r] \in Shared <=> pc[r] \in Shared
           /\ pc'[r] \in Alone  <=> pc[r] \in Alone
<1> USE DEF IInv, Types, PCs, Shared, Alone, Goto
<1>1. CASE Receive(r) \/ RejectCreate(r) \/ NewFunction(r) \/ Enter(r) \/ CheckReady(r) \/ Answer(r)
  BY <1>1 DEF Receive, RejectCreate, NewFunction, Enter, CheckReady, Answer
<1>2. CASE Insert(r) \/ EncodeCreated(r) \/ DeleteCheck(r) \/ DeleteFn(r) \/ DeleteLogs(r)
  BY <1>2 DEF Insert, EncodeCreated, DeleteCheck, DeleteFn, DeleteLogs
<1>3. CASE Read(r) \/ ListNext(r) \/ ListEnd(r)
  BY <1>3 DEF Read, ListNext, ListEnd
<1>4. CASE Run(r) \/ InvokeLookup(r) \/ InvokeLoad(r) \/ InvokeStore(r)
  BY <1>4 DEF Run, InvokeLookup, InvokeLoad, InvokeStore
<1>5. CASE InvokeAppend(r) \/ InvokeTrim(r)
  BY <1>5 DEF InvokeAppend, InvokeTrim
<1> QED
  BY <1>1, <1>2, <1>3, <1>4, <1>5 DEF Proceed

LEMMA LockKept ==
    ASSUME IInv, NEW r \in Requests, Receive(r) \/ Proceed(r)
    PROVE  LockExcludes' /\ \A s \in Requests : LockHeld(s)'
<1> USE DEF IInv, Types, PCs, LockExcludes, InOrder, LockHeld, Shared, Alone, Goto
<1>1. CASE RLock(r)
  BY <1>1 DEF RLock
<1>2. CASE RUnlock(r)
  BY <1>2 DEF RUnlock
<1>3. CASE Lock(r)
  BY <1>3 DEF Lock
<1>4. CASE Drain(r)
  <2>1. call[r].op \in {"create", "delete", "invoke"}
    BY <1>4 DEF Drain, InRoute
  <2>2. \E l \in {"insert", "check", "lookup"} : pc' = [pc EXCEPT ![r] = l]
    BY <1>4, <2>1 DEF Drain, Is
  <2>3. /\ pc[r] = "drain" /\ readers = {}
        /\ readers' = readers /\ pending' = {} /\ writer' = {r}
    BY <1>4 DEF Drain
  <2>4. r \in pending /\ r \notin writer
    BY <2>3
  <2>7. pending = {r} /\ writer = {}
    BY <2>4
  <2>5. LockExcludes' /\ LockHeld(r)'
    BY <2>2, <2>3
  <2>6. \A s \in Requests \ {r} : LockHeld(s)'
    BY <2>2, <2>3, <2>7
  <2> QED
    BY <2>5, <2>6
<1>5. CASE Unlock(r)
  BY <1>5 DEF Unlock
<1>6. CASE ~(RLock(r) \/ RUnlock(r) \/ Lock(r) \/ Drain(r) \/ Unlock(r))
  <2>1. UNCHANGED <<readers, pending, writer>>
    BY <1>6, SectionKept DEF mu
  <2>2. LockHeld(r)'
    BY <1>6, <2>1, SectionKept
  <2>3. \A s \in Requests \ {r} : LockHeld(s)'
    BY <2>1, OthersKept
  <2> QED
    BY <2>1, <2>2, <2>3
<1> QED
  BY <1>1, <1>2, <1>3, <1>4, <1>5, <1>6

-----------------------------------------------------------------------------
(* The other conjuncts *)

LEMMA ReplyTypes ==
    /\ \A n \in {0, 200, 201, 204, 400, 404, 500, 501} : Status(n) \in Replies
    /\ \A n \in {0, 200, 201}, v \in SUBSET (Ids \X Nat) : Body(n, v) \in Replies
    /\ \A l \in Seq(Requests) : Entries(200, l) \in Replies
    /\ \A x \in Replies : x.view \in SUBSET (Ids \X Nat)
BY DEF Replies, Status, Body, Entries

\* Every answer has a type, by itself.
LEMMA RepliesKept ==
    ASSUME IInv, NEW r \in Requests, Receive(r) \/ Proceed(r)
    PROVE  reply' \in [Requests -> Replies]
<1>1. reply \in [Requests -> Replies] /\ count \in [Ids -> Nat] /\ live \subseteq Ids
      /\ logs \in [Ids -> Seq(Requests)] /\ issued \subseteq Ids
  BY DEF IInv, Types
<1> SUFFICES reply' = reply \/ \E x \in Replies : reply' = [reply EXCEPT ![r] = x]
  BY <1>1
<1> USE ReplyTypes DEF Respond, static, store, mu
<1>2. CASE Receive(r) \/ RejectCreate(r) \/ NewFunction(r) \/ Enter(r) \/ CheckReady(r) \/ Answer(r)
  BY <1>2 DEF Receive, RejectCreate, NewFunction, Enter, CheckReady, Answer
<1>3. CASE RLock(r) \/ RUnlock(r) \/ Lock(r) \/ Drain(r) \/ Unlock(r)
  BY <1>3 DEF RLock, RUnlock, Lock, Drain, Unlock
<1>4. CASE Insert(r) \/ DeleteCheck(r) \/ DeleteFn(r) \/ DeleteLogs(r)
  BY <1>4 DEF Insert, DeleteCheck, DeleteFn, DeleteLogs
<1>5. CASE EncodeCreated(r)
  <2>1. Id(r) \in Ids
    BY <1>5 DEF EncodeCreated, IInv, Types, InOrder, InRoute, OwnIds, HasId
  <2>2. PICK n \in 0 .. count[Id(r)] : Respond(r, Body(201, {<<Id(r), n>>}))
    BY <1>5 DEF EncodeCreated
  <2>3. {<<Id(r), n>>} \in SUBSET (Ids \X Nat)
    BY <1>1, <2>1
  <2> QED
    BY <2>2, <2>3, ZenonT(40)
<1>6. CASE Read(r)
  <2>1. Id(r) \in Ids
    BY <1>6 DEF Read, IInv, InOrder, InRoute
  <2>2. {<<Id(r), count[Id(r)]>>} \in SUBSET (Ids \X Nat) /\ logs[Id(r)] \in Seq(Requests)
    BY <1>1, <2>1
  <2>3. Body(200, {<<Id(r), count[Id(r)]>>}) \in Replies /\ Entries(200, logs[Id(r)]) \in Replies
    BY <2>2
  <2> QED
    BY <1>6, <2>3 DEF Read
<1>7. CASE ListNext(r)
  <2>1. PICK f \in live : Respond(r, Body(0, reply[r].view \cup {<<f, count[f]>>}))
    BY <1>7 DEF ListNext
  <2>2. reply[r].view \cup {<<f, count[f]>>} \in SUBSET (Ids \X Nat)
    BY <1>1
  <2> QED
    BY <2>1, <2>2, ZenonT(40)
<1>8. CASE ListEnd(r)
  BY <1>1, <1>8, ZenonT(40) DEF ListEnd
<1>9. CASE Run(r) \/ InvokeLookup(r) \/ InvokeLoad(r) \/ InvokeStore(r) \/ InvokeAppend(r)
           \/ InvokeTrim(r)
  BY <1>9 DEF Run, InvokeLookup, InvokeLoad, InvokeStore, InvokeAppend, InvokeTrim
<1> QED
  BY <1>2, <1>3, <1>4, <1>5, <1>6, <1>7, <1>8, <1>9 DEF Proceed

\* The store and the values that requests keep of it.
StoreTypes ==
    /\ issued \in SUBSET Ids /\ live \in SUBSET issued
    /\ count \in [Ids -> Nat] /\ logs \in [Ids -> Seq(Requests)]
    /\ reg \in [Requests -> Nat]

LEMMA StoreTypesKept ==
    ASSUME IInv, NEW r \in Requests, Receive(r) \/ Proceed(r)
    PROVE  StoreTypes'
<1>1. StoreTypes /\ r \in Requests
  BY DEF IInv, Types, StoreTypes
<1> USE <1>1 DEF StoreTypes, static, store, mu
<1>2. CASE Receive(r) \/ RejectCreate(r) \/ NewFunction(r) \/ Enter(r) \/ CheckReady(r) \/ Answer(r)
  BY <1>2 DEF Receive, RejectCreate, NewFunction, Enter, CheckReady, Answer
<1>3. CASE RLock(r) \/ RUnlock(r) \/ Lock(r) \/ Drain(r) \/ Unlock(r)
  BY <1>3 DEF RLock, RUnlock, Lock, Drain, Unlock
<1>4. CASE Insert(r)
  <2>1. Id(r) \in issued
    BY <1>4 DEF Insert, IInv, InOrder, InRoute, OwnIds, HasId
  <2> QED
    BY <1>4, <2>1 DEF Insert
<1>5. CASE EncodeCreated(r) \/ Read(r) \/ ListNext(r) \/ ListEnd(r)
  BY <1>5 DEF EncodeCreated, Read, ListNext, ListEnd
<1>6. CASE DeleteCheck(r) \/ DeleteFn(r)
  BY <1>6 DEF DeleteCheck, DeleteFn
<1>10. CASE DeleteLogs(r)
  <2>1. << >> \in Seq(Requests)
    OBVIOUS
  <2> QED
    BY <1>10, <2>1 DEF DeleteLogs
<1>7. CASE Run(r) \/ InvokeLookup(r)
  BY <1>7 DEF Run, InvokeLookup
<1>8. CASE InvokeLoad(r) \/ InvokeStore(r)
  <2>1. Id(r) \in Ids
    BY <1>8 DEF InvokeLoad, InvokeStore, IInv, InOrder, InRoute, Is
  <2>2. CASE InvokeLoad(r)
    BY <2>1, <2>2 DEF InvokeLoad
  <2>3. CASE InvokeStore(r)
    BY <2>1, <2>3 DEF InvokeStore
  <2> QED
    BY <1>8, <2>2, <2>3
<1>9. CASE InvokeAppend(r) \/ InvokeTrim(r)
  <2>1. Id(r) \in Ids
    BY <1>9 DEF InvokeAppend, InvokeTrim, IInv, InOrder, InRoute, Is
  <2>2. Append(logs[Id(r)], r) \in Seq(Requests) /\ KeepLast(logs[Id(r)]) \in Seq(Requests)
    BY <2>1, KeepLastType
  <2> QED
    BY <1>9, <2>2 DEF InvokeAppend, InvokeTrim
<1> QED
  BY <1>2, <1>3, <1>4, <1>5, <1>6, <1>7, <1>8, <1>9, <1>10 DEF Proceed

\* The places of the requests, their calls, and the lock.
ControlTypes ==
    /\ readers \in SUBSET Requests /\ pending \in SUBSET Requests /\ writer \in SUBSET Requests
    /\ pc \in [Requests -> PCs]
    /\ call \in [Requests -> [op : Routes \cup {"none"}, id : Ids \cup {NoId}]]
    /\ before \in [Requests -> SUBSET Requests]

LEMMA ControlTypesKept ==
    ASSUME IInv, NEW r \in Requests, Receive(r) \/ Proceed(r)
    PROVE  ControlTypes'
<1>1. ControlTypes
  BY DEF IInv, Types, ControlTypes
<1> USE <1>1 DEF ControlTypes, PCs, Goto, static, store, mu
<1>2. CASE Receive(r)
  <2>1. PICK c \in Calls : call' = [call EXCEPT ![r] = c]
    BY <1>2 DEF Receive
  <2>2. c \in [op : Routes \cup {"none"}, id : Ids \cup {NoId}]
    BY DEF Calls
  <2> QED
    BY <1>2, <2>1, <2>2 DEF Receive, Answered
<1>3. CASE RejectCreate(r) \/ Enter(r) \/ CheckReady(r) \/ Answer(r)
  BY <1>3 DEF RejectCreate, Enter, CheckReady, Answer
<1>4. CASE NewFunction(r)
  <2>1. "create" \in Routes
    BY <1>4 DEF NewFunction, IInv, InOrder, InRoute, Is
  <2>2. PICK f \in Ids : call' = [call EXCEPT ![r] = [op |-> "create", id |-> f]]
    BY <1>4 DEF NewFunction
  <2> QED
    BY <1>4, <2>1, <2>2 DEF NewFunction
<1>5. CASE RLock(r) \/ RUnlock(r) \/ Lock(r)
  BY <1>5 DEF RLock, RUnlock, Lock
<1>6. CASE Drain(r)
  <2>1. \E l \in {"insert", "check", "lookup"} : pc' = [pc EXCEPT ![r] = l]
    BY <1>6 DEF Drain, IInv, InOrder, InRoute, Is
  <2>2. /\ readers' = readers /\ pending' = {} /\ writer' = {r}
        /\ call' = call /\ before' = before
    BY <1>6 DEF Drain
  <2> QED
    BY <2>1, <2>2
<1>7. CASE Unlock(r)
  BY <1>7 DEF Unlock
<1>8. CASE Insert(r) \/ EncodeCreated(r) \/ Read(r) \/ ListNext(r) \/ ListEnd(r)
  BY <1>8 DEF Insert, EncodeCreated, Read, ListNext, ListEnd
<1>9. CASE DeleteCheck(r) \/ DeleteFn(r) \/ DeleteLogs(r)
  BY <1>9 DEF DeleteCheck, DeleteFn, DeleteLogs
<1>10. CASE Run(r) \/ InvokeLookup(r) \/ InvokeLoad(r) \/ InvokeStore(r) \/ InvokeAppend(r)
            \/ InvokeTrim(r)
  BY <1>10 DEF Run, InvokeLookup, InvokeLoad, InvokeStore, InvokeAppend, InvokeTrim
<1> QED
  BY <1>2, <1>3, <1>4, <1>5, <1>6, <1>7, <1>8, <1>9, <1>10 DEF Proceed

LEMMA TypesKept ==
    ASSUME IInv, NEW r \in Requests, Receive(r) \/ Proceed(r)
    PROVE  Types'
<1>1. ready' \in BOOLEAN
  BY WritesUnderLock DEF IInv, Types
<1> QED
  BY <1>1, RepliesKept, StoreTypesKept, ControlTypesKept DEF Types, StoreTypes, ControlTypes

\* An id that is issued is new to every creation.
LEMMA OwnIdsKept ==
    ASSUME IInv, NEW r \in Requests, Receive(r) \/ Proceed(r)
    PROVE  OwnIds'
<1> USE DEF IInv, OwnIds, HasId, Is, Id
<1>1. CASE NewFunction(r)
  <2>1. PICK f \in Ids \ issued :
            /\ issued' = issued \cup {f}
            /\ call' = [call EXCEPT ![r] = [op |-> "create", id |-> f]]
    BY <1>1 DEF NewFunction
  <2>2. call'[r].id = f /\ \A s \in Requests \ {r} : call'[s] = call[s] /\ pc'[s] = pc[s]
    BY <2>1, OthersKept DEF Types
  <2> QED
    BY <2>1, <2>2
<1>2. CASE ~NewFunction(r)
  <2>1. issued' = issued
    BY <1>2 DEF Receive, Proceed, RejectCreate, Enter, CheckReady, RLock, RUnlock, Lock, Drain, Unlock,
       Insert, EncodeCreated, Read, ListNext, ListEnd, DeleteCheck, DeleteFn, DeleteLogs,
       Run, InvokeLookup, InvokeLoad, InvokeStore, InvokeAppend, InvokeTrim, Answer, static, store
  <2>2. HasId(r)' => HasId(r) /\ Id(r)' = Id(r)
    <3>1. CASE Receive(r)
      BY <3>1 DEF Receive, Goto, Types
    <3>2. CASE ~Receive(r)
      <4>1. call' = call
        BY <1>2, <3>2 DEF Proceed, RejectCreate, Enter, CheckReady, RLock, RUnlock, Lock, Drain, Unlock,
           Insert, EncodeCreated, Read, ListNext, ListEnd, DeleteCheck, DeleteFn, DeleteLogs,
           Run, InvokeLookup, InvokeLoad, InvokeStore, InvokeAppend, InvokeTrim, Answer, static
      <4>2. ASSUME HasId(r)'  PROVE HasId(r)
        <5>1. CASE RejectCreate(r) \/ Enter(r) \/ CheckReady(r) \/ RLock(r) \/ RUnlock(r)
                   \/ Lock(r) \/ Answer(r)
          BY <4>1, <4>2, <5>1 DEF RejectCreate, Enter, CheckReady, RLock, RUnlock, Lock, Answer,
             Goto, Types
        <5>2. CASE Drain(r) \/ Unlock(r) \/ Insert(r) \/ EncodeCreated(r)
          BY <4>1, <4>2, <5>2 DEF Drain, Unlock, Insert, EncodeCreated, Goto, Types
        <5>3. CASE Read(r) \/ ListNext(r) \/ ListEnd(r)
          BY <4>1, <4>2, <5>3 DEF Read, ListNext, ListEnd, Goto, Types
        <5>4. CASE DeleteCheck(r) \/ DeleteFn(r) \/ DeleteLogs(r)
          BY <4>1, <4>2, <5>4 DEF DeleteCheck, DeleteFn, DeleteLogs, Goto, Types, InOrder, InRoute
        <5>5. CASE Run(r) \/ InvokeLookup(r) \/ InvokeLoad(r) \/ InvokeStore(r) \/ InvokeAppend(r)
                   \/ InvokeTrim(r)
          BY <4>1, <4>2, <5>5 DEF Run, InvokeLookup, InvokeLoad, InvokeStore, InvokeAppend, InvokeTrim,
             Goto, Types, InOrder, InRoute
        <5> QED
          BY <1>2, <3>2, <5>1, <5>2, <5>3, <5>4, <5>5 DEF Proceed
      <4> QED
        BY <4>1, <4>2
    <3> QED
      BY <3>1, <3>2
  <2>3. \A s \in Requests \ {r} : (HasId(s)' <=> HasId(s)) /\ Id(s)' = Id(s)
    BY OthersKept
  <2> QED
    BY <2>1, <2>2, <2>3
<1> QED
  BY <1>1, <1>2

LEMMA LogsBoundedKept ==
    ASSUME IInv, NEW r \in Requests, Receive(r) \/ Proceed(r)
    PROVE  LogsBounded'
<1> USE DEF IInv, Types, LogsBounded, InOrder, LockHeld, Goto
<1>1. CASE InvokeAppend(r)
  <2>1. /\ r \in writer /\ writer' = writer /\ Id(r)' = Id(r) /\ Id(r) \in Ids
        /\ pc[r] = "append" /\ logs' = [logs EXCEPT ![Id(r)] = Append(@, r)]
    BY <1>1 DEF InvokeAppend, Alone, mu, static, Id, InRoute, Is
  <2>2. \A f \in Ids : Len(logs[f]) <= MaxLogs
    BY <2>1 DEF LockExcludes
  <2>3. pc'[r] = IF Len(logs[Id(r)]) + 1 > MaxLogs THEN "trim" ELSE "unlock"
    BY <1>1 DEF InvokeAppend
  <2>4. Len(logs'[Id(r)]) = Len(logs[Id(r)]) + 1 /\ Len(logs[Id(r)]) \in Nat
    BY <2>1
  <2>5. Len(logs'[Id(r)]) <= MaxLogs \/ pc'[r] = "trim"
    BY <2>3, <2>4, MaxLogsAssumption
  <2>6. \A f \in Ids \ {Id(r)} : logs'[f] = logs[f]
    BY <2>1
  <2> QED
    BY <2>1, <2>2, <2>5, <2>6
<1>2. CASE InvokeTrim(r)
  <2>1. /\ r \in writer /\ Id(r) \in Ids /\ pc[r] = "trim"
        /\ logs' = [logs EXCEPT ![Id(r)] = KeepLast(@)]
    BY <1>2 DEF InvokeTrim, Alone, Id, InRoute, Is
  <2>2. \A f \in Ids \ {Id(r)} : Len(logs[f]) <= MaxLogs /\ logs'[f] = logs[f]
    BY <2>1 DEF LockExcludes
  <2>3. Len(logs'[Id(r)]) <= MaxLogs
    BY <2>1, KeepLastType
  <2> QED
    BY <2>2, <2>3
<1>3. CASE DeleteLogs(r)
  <2>1. r \in writer /\ pc[r] = "dropLogs" /\ logs' = [logs EXCEPT ![Id(r)] = << >>]
    BY <1>3 DEF DeleteLogs, Alone
  <2>2. \A f \in Ids : Len(logs[f]) <= MaxLogs
    BY <2>1 DEF LockExcludes
  <2>3. \A f \in Ids : logs'[f] = logs[f] \/ logs'[f] = << >>
    BY <2>1
  <2> QED
    BY <2>2, <2>3, MaxLogsAssumption
<1>4. CASE ~InvokeAppend(r) /\ ~InvokeTrim(r) /\ ~DeleteLogs(r)
  <2>1. logs' = logs /\ pc[r] # "trim"
    BY <1>4 DEF Proceed, Receive, RejectCreate, NewFunction, Enter, CheckReady, RLock, RUnlock, Lock,
       Drain, Unlock, Insert, EncodeCreated, Read, ListNext, ListEnd, DeleteCheck, DeleteFn,
       Run, InvokeLookup, InvokeLoad, InvokeStore, Answer, static, store
  <2>2. \A s \in writer : pc[s] = "trim" => s \in writer' /\ pc'[s] = "trim" /\ Id(s)' = Id(s)
    <3>1. ASSUME NEW s \in writer, pc[s] = "trim"
          PROVE  s \in writer' /\ pc'[s] = "trim" /\ Id(s)' = Id(s)
      <4>1. s # r /\ s \in Requests
        BY <2>1, <3>1
      <4>2. pc'[s] = "trim" /\ call'[s] = call[s]
        BY <3>1, <4>1, OthersKept
      <4>3. s \in writer'
        BY <4>1, <4>2, LockKept DEF Alone
      <4> QED
        BY <4>2, <4>3 DEF Id
    <3> QED
      BY <3>1
  <2> QED
    BY <2>1, <2>2
<1> QED
  BY <1>1, <1>2, <1>3, <1>4

\* What r knows is not changed by others: a reader is not written under, and
\* who holds the lock alone is the only one to write.
LEMMA OthersInOrder ==
    ASSUME IInv, NEW r \in Requests, Receive(r) \/ Proceed(r), NEW s \in Requests \ {r}
    PROVE  InRoute(s)' /\ ReplySoFar(s)' /\ Remembers(s)'
<1>1. /\ pc'[s] = pc[s] /\ call'[s] = call[s] /\ reg'[s] = reg[s] /\ reply'[s] = reply[s]
      /\ ready' = ready
  BY OthersKept, WritesUnderLock
<1>2. s \in readers \/ s \in writer => UNCHANGED <<live, count, logs>>
  BY WritesUnderLock DEF IInv, LockExcludes
<1>3. InRoute(s)'
  BY <1>1 DEF IInv, InOrder, InRoute, Is, Id
<1>4. ReplySoFar(s)'
  <2>1. pc[s] = "list" => UNCHANGED <<live, count>>
    BY <1>2 DEF IInv, InOrder, LockHeld, Shared
  <2> QED
    BY <1>1, <2>1 DEF IInv, InOrder, ReplySoFar, Is, Silent
<1>5. Remembers(s)'
  <2>1. pc[s] \in {"load", "store"} => UNCHANGED <<live, count>>
    BY <1>2 DEF IInv, InOrder, LockHeld, Alone
  <2> QED
    BY <1>1, <2>1 DEF IInv, InOrder, Remembers, Id
<1> QED
  BY <1>3, <1>4, <1>5

LEMMA RouteKept ==
    ASSUME IInv, NEW r \in Requests, Receive(r) \/ Proceed(r)
    PROVE  InRoute(r)'
<1> USE DEF IInv, Types, InOrder, InRoute, Is, Id, Goto, static
<1>1. CASE Receive(r)
  <2>1. PICK c \in Calls : call' = [call EXCEPT ![r] = c]
    BY <1>1 DEF Receive
  <2>2. /\ c.op \in Routes
        /\ c.op \in {"get", "invoke", "logs", "delete"} => c.id \in Ids
        /\ c.op = "create" => c.id = NoId
    BY DEF Calls
  <2>3. pc'[r] = "received" /\ call'[r] = c
    BY <1>1, <2>1 DEF Receive
  <2> QED
    BY <2>2, <2>3
<1>2. CASE NewFunction(r)
  <2>1. PICK f \in Ids : call' = [call EXCEPT ![r] = [op |-> "create", id |-> f]]
    BY <1>2 DEF NewFunction
  <2>2. pc'[r] = "lock" /\ call'[r] = [op |-> "create", id |-> f]
        /\ pc[r] = "received" /\ call[r].op = "create"
    BY <1>2, <2>1 DEF NewFunction
  <2> QED
    BY <2>2
<1>3. CASE ~Receive(r) /\ ~NewFunction(r)
  <2>1. call' = call /\ ready' = ready
    BY <1>3 DEF Proceed, RejectCreate, Enter, CheckReady, RLock, RUnlock, Lock, Drain, Unlock,
       Insert, EncodeCreated, Read, ListNext, ListEnd, DeleteCheck, DeleteFn, DeleteLogs,
       Run, InvokeLookup, InvokeLoad, InvokeStore, InvokeAppend, InvokeTrim, Answer
  <2>2. CASE RejectCreate(r) \/ CheckReady(r) \/ Answer(r)
    BY <2>1, <2>2 DEF RejectCreate, CheckReady, Answer
  <2>9. CASE Enter(r)
    <3>1. call[r].op \in {"list", "get", "invoke", "logs", "delete"}
      BY <2>9, RoutesAssumption DEF Enter
    <3>2. /\ pc'[r] = IF call[r].op = "delete" THEN "lock" ELSE "rlock"
          /\ call[r].op = "invoke" => ready
      BY <2>9 DEF Enter
    <3> QED
      BY <2>1, <2>9, <3>1, <3>2 DEF Enter
  <2>3. CASE RLock(r) \/ Lock(r) \/ Unlock(r)
    BY <2>1, <2>3 DEF RLock, Lock, Unlock
  <2>4. CASE RUnlock(r)
    BY <2>1, <2>4 DEF RUnlock, ReplySoFar
  <2>5. CASE Drain(r)
    BY <2>1, <2>5 DEF Drain
  <2>6. CASE Insert(r) \/ EncodeCreated(r) \/ Read(r) \/ ListNext(r) \/ ListEnd(r)
    BY <2>1, <2>6 DEF Insert, EncodeCreated, Read, ListNext, ListEnd
  <2>7. CASE DeleteCheck(r) \/ DeleteFn(r) \/ DeleteLogs(r)
    BY <2>1, <2>7 DEF DeleteCheck, DeleteFn, DeleteLogs
  <2>8. CASE Run(r) \/ InvokeLookup(r) \/ InvokeLoad(r) \/ InvokeStore(r) \/ InvokeAppend(r)
             \/ InvokeTrim(r)
    BY <2>1, <2>8 DEF Run, InvokeLookup, InvokeLoad, InvokeStore, InvokeAppend, InvokeTrim
  <2> QED
    BY <1>3, <2>2, <2>3, <2>4, <2>5, <2>6, <2>7, <2>8, <2>9 DEF Proceed
<1> QED
  BY <1>1, <1>2, <1>3

LEMMA ReplyKept ==
    ASSUME IInv, NEW r \in Requests, Receive(r) \/ Proceed(r)
    PROVE  ReplySoFar(r)'
<1>1. /\ r \in DOMAIN pc /\ r \in DOMAIN reply /\ r \in DOMAIN call
      /\ InRoute(r) /\ ReplySoFar(r)
  BY DEF IInv, Types, InOrder
<1>2. \A n \in {200, 204, 400, 404, 500, 501} : Status(n).status # 0
  BY DEF Status
<1> USE <1>1, <1>2 DEF InRoute, ReplySoFar, Silent, Is, Goto, Respond, static
<1>3. CASE Receive(r)
  BY <1>3 DEF Receive
<1>4. CASE NewFunction(r)
  BY <1>4 DEF NewFunction
<1>5. CASE RejectCreate(r) \/ CheckReady(r) \/ Answer(r)
  BY <1>5 DEF RejectCreate, CheckReady, Answer
<1>6. CASE Enter(r)
  BY <1>6 DEF Enter
<1>7. CASE RLock(r)
  <2>1. Body(0, {}) = Status(0) /\ Status(0).view = {}
    BY DEF Body, Status
  <2> QED
    BY <1>7, <2>1, SMTT(30) DEF RLock
<1>8. CASE RUnlock(r)
  BY <1>8 DEF RUnlock
<1>9. CASE Lock(r)
  BY <1>9 DEF Lock
<1>10. CASE Drain(r)
  BY <1>10 DEF Drain
<1>11. CASE Unlock(r)
  BY <1>11 DEF Unlock
<1>12. CASE Insert(r)
  BY <1>12 DEF Insert
<1>13. CASE EncodeCreated(r)
  BY <1>13 DEF EncodeCreated
<1>14. CASE Read(r)
  <2>1. \/ reply' = reply /\ Is(r, "invoke")
        \/ reply'[r].status \in {200, 404}
    BY <1>14 DEF Read, Body, Entries, Status
  <2>2. pc'[r] = "runlock" /\ call' = call /\ pc[r] = "read"
    BY <1>14 DEF Read
  <2> QED
    BY <2>1, <2>2
<1>15. CASE ListNext(r)
  <2>1. PICK f \in live : reply' = [reply EXCEPT ![r] = Body(0, reply[r].view \cup {<<f, count[f]>>})]
    BY <1>15, ZenonT(40) DEF ListNext
  <2> DEFINE v == reply[r].view \cup {<<f, count[f]>>}
  <2>2. Body(0, v).view = v
    BY DEF Body
  <2>3. reply'[r] = Body(0, v) /\ reply'[r].view = v
    BY <2>1, <2>2, ZenonT(40)
  <2>4. pc' = pc /\ call' = call /\ live' = live /\ count' = count /\ pc[r] = "list"
    BY <1>15 DEF ListNext, store
  <2>5. v \subseteq {<<g, count[g]>> : g \in live}
    BY <2>4
  <2> HIDE DEF v
  <2> QED
    BY <2>3, <2>4, <2>5
<1>16. CASE ListEnd(r)
  BY <1>16 DEF ListEnd, Body
<1>17. CASE DeleteCheck(r) \/ DeleteFn(r) \/ DeleteLogs(r)
  BY <1>17 DEF DeleteCheck, DeleteFn, DeleteLogs
<1>18. CASE Run(r)
  BY <1>18 DEF Run
<1>19. CASE InvokeLookup(r) \/ InvokeLoad(r) \/ InvokeStore(r)
  BY <1>19 DEF InvokeLookup, InvokeLoad, InvokeStore
<1>20. CASE InvokeAppend(r) \/ InvokeTrim(r)
  BY <1>20 DEF InvokeAppend, InvokeTrim
<1> QED
  BY <1>3, <1>4, <1>5, <1>6, <1>7, <1>8, <1>9, <1>10, <1>11, <1>12, <1>13, <1>14, <1>15, <1>16,
     <1>17, <1>18, <1>19, <1>20 DEF Proceed

LEMMA MemoryKept ==
    ASSUME IInv, NEW r \in Requests, Receive(r) \/ Proceed(r)
    PROVE  Remembers(r)'
<1> USE DEF IInv, Types, InOrder, Remembers, Id, Goto, static, store
<1>1. CASE InvokeLookup(r)
  BY <1>1 DEF InvokeLookup
<1>2. CASE InvokeLoad(r)
  BY <1>2 DEF InvokeLoad
<1>3. CASE InvokeStore(r)
  BY <1>3 DEF InvokeStore
<1>4. CASE ~InvokeLookup(r) /\ ~InvokeLoad(r) /\ ~InvokeStore(r)
  <2>1. CASE Receive(r) \/ RejectCreate(r) \/ NewFunction(r) \/ Enter(r) \/ CheckReady(r) \/ Answer(r)
    BY <2>1 DEF Receive, RejectCreate, NewFunction, Enter, CheckReady, Answer
  <2>2. CASE RLock(r) \/ RUnlock(r) \/ Lock(r) \/ Unlock(r)
    BY <2>2 DEF RLock, RUnlock, Lock, Unlock
  <2>3. CASE Drain(r)
    BY <2>3 DEF Drain, InRoute, Is
  <2>4. CASE Insert(r) \/ EncodeCreated(r) \/ Read(r) \/ ListNext(r) \/ ListEnd(r)
    BY <2>4 DEF Insert, EncodeCreated, Read, ListNext, ListEnd
  <2>5. CASE DeleteCheck(r) \/ DeleteFn(r) \/ DeleteLogs(r)
    BY <2>5 DEF DeleteCheck, DeleteFn, DeleteLogs
  <2>6. CASE Run(r) \/ InvokeAppend(r) \/ InvokeTrim(r)
    BY <2>6 DEF Run, InvokeAppend, InvokeTrim
  <2> QED
    BY <1>4, <2>1, <2>2, <2>3, <2>4, <2>5, <2>6 DEF Proceed
<1> QED
  BY <1>1, <1>2, <1>3, <1>4

-----------------------------------------------------------------------------
(* Theorems *)

LEMMA StepKeepsInvariant ==
    ASSUME IInv, NEW r \in Requests, Receive(r) \/ Proceed(r)
    PROVE  IInv'
<1>1. Types' /\ LockExcludes' /\ OwnIds' /\ LogsBounded'
  BY TypesKept, LockKept, OwnIdsKept, LogsBoundedKept
<1>2. \A s \in Requests : LockHeld(s)'
  BY LockKept
<1>3. InRoute(r)' /\ ReplySoFar(r)' /\ Remembers(r)'
  BY RouteKept, ReplyKept, MemoryKept
<1>4. \A s \in Requests \ {r} : InRoute(s)' /\ ReplySoFar(s)' /\ Remembers(s)'
  BY OthersInOrder
<1> QED
  BY <1>1, <1>2, <1>3, <1>4 DEF IInv, InOrder

LEMMA NextKeepsInvariant == IInv /\ [Next]_vars => IInv'
<1>1. ASSUME IInv, UNCHANGED vars  PROVE IInv'
  <2>1. Types' /\ LockExcludes' /\ OwnIds' /\ LogsBounded'
    BY <1>1 DEF vars, IInv, Types, LockExcludes, OwnIds, HasId, LogsBounded, Is, Id
  <2>2. \A r \in Requests : LockHeld(r)' /\ InRoute(r)'
    BY <1>1 DEF vars, IInv, InOrder, LockHeld, InRoute, Is, Id
  <2>3. \A r \in Requests : ReplySoFar(r)' /\ Remembers(r)'
    BY <1>1 DEF vars, IInv, InOrder, ReplySoFar, Remembers, Is, Id
  <2> QED
    BY <2>1, <2>2, <2>3 DEF IInv, InOrder
<1> QED
  BY <1>1, StepKeepsInvariant DEF Next, Quiescent

\* The invariant that the theorems below rest on.
THEOREM Invariance == Spec => []IInv
<1> QED
  BY InitInvariant, NextKeepsInvariant, PTL DEF Spec

\* Every reachable state has the types of TypeOK, and one goroutine at most is
\* in Lock or holds the lock alone.
THEOREM TypeCorrect == Spec => []TypeOK
<1>1. ASSUME IInv  PROVE TypeOK
  <2>1. pending \cup writer = {} \/ \E r \in Requests : pending \cup writer = {r}
    <3>1. CASE pending \cup writer # {}
      <4>1. PICK r \in pending \cup writer : TRUE
        BY <3>1
      <4>2. pending \cup writer = {r} /\ r \in Requests
        BY <1>1, <4>1 DEF IInv, LockExcludes, Types
      <4> QED
        BY <4>2
    <3> QED
      BY <3>1
  <2>2. Cardinality(pending \cup writer) <= 1
    <3>1. CASE pending \cup writer = {}
      BY <3>1, FS_EmptySet
    <3>2. CASE \E r \in Requests : pending \cup writer = {r}
      <4>1. PICK r \in Requests : pending \cup writer = {r}
        BY <3>2
      <4>2. Cardinality({r}) = 1
        BY FS_Singleton, Zenon
      <4>3. Cardinality(pending \cup writer) = 1
        BY <4>1, <4>2, Zenon
      <4> QED
        BY <4>3
    <3> QED
      BY <2>1, <3>1, <3>2
  <2> QED
    BY <1>1, <2>2 DEF IInv, Types, TypeOK
<1> QED
  BY <1>1, Invariance, PTL

\* What a goroutine is about to write, no other is about to read or write, for
\* any number of requests; the encoding of a created function is the exception.
THEOREM WritersAreAlone == Spec => []WriterIsAlone
<1>1. ASSUME IInv, NEW r \in Requests, NEW s \in Requests, r # s, ~CreatedIsShared(r, s)
      PROVE  Writes(r) \cap (Reads(s) \cup Writes(s)) = {}
  <2>1. pc[r] \in Alone => pc[s] \notin Alone \cup Shared
    BY <1>1 DEF IInv, InOrder, LockHeld, LockExcludes, Shared
  <2>2. CASE pc[r] \notin {"insert", "dropFn", "dropLogs", "append", "trim", "store"}
    BY <2>2 DEF Writes
  <2>3. CASE pc[r] \in {"insert", "dropFn", "dropLogs", "append", "trim", "store"}
    <3>1. pc[s] \notin Alone \cup Shared
      BY <2>1, <2>3 DEF Alone
    <3>2. Writes(s) = {}
      BY <3>1 DEF Writes, Alone
    <3>3. Reads(s) = IF pc[s] = "encode" THEN {Object(Id(s))} ELSE {}
      BY <3>1 DEF Reads, Alone, Shared
    <3>4. CASE pc[r] = "store"
      BY <1>1, <3>2, <3>3, <3>4 DEF Writes, Object, CreatedIsShared
    <3>5. CASE pc[r] # "store"
      <4>1. Writes(r) \subseteq {Fns, Logs}
        BY <2>3, <3>5 DEF Writes
      <4>2. \A f : Object(f) \notin {Fns, Logs}
        BY DEF Object, Fns, Logs
      <4> QED
        BY <3>2, <3>3, <4>1, <4>2
    <3> QED
      BY <3>4, <3>5
  <2> QED
    BY <2>2, <2>3
<1>2. IInv => WriterIsAlone
  BY <1>1 DEF WriterIsAlone
<1> QED
  BY <1>2, Invariance, PTL

=============================================================================
