------------------------ MODULE FunctionRegistryProofs ------------------------
(***************************************************************************)
(* Proofs about FunctionRegistry, for every set of requests, every set of  *)
(* ids and every window size.                                              *)
(***************************************************************************)
EXTENDS FunctionRegistry, TLAPS, FiniteSetTheorems, SequenceTheorems

-----------------------------------------------------------------------------
(* Lemmas about the operators *)

\* Every body a handler sends is a reply.
LEMMA ReplyTypes ==
    /\ \A s \in {200, 201}, pairs \in SUBSET (Ids \X Nat) : Body(s, pairs) \in Replies
    /\ \A log \in Seq(Requests) : Entries(200, log) \in Replies
<1>1. << >> \in Seq(Requests)
  OBVIOUS
<1> QED
  BY <1>1 DEF Replies, Body, Entries

LEMMA StatusTypes ==
    /\ Status(0) \in Replies /\ Status(200) \in Replies /\ Status(204) \in Replies
    /\ Status(400) \in Replies /\ Status(404) \in Replies
    /\ Status(500) \in Replies /\ Status(501) \in Replies
<1>1. << >> \in Seq(Requests)
  OBVIOUS
<1> QED
  BY <1>1 DEF Replies, Status

\* How many of n entries exceed the window.
Excess(n) == IF n <= MaxLogs THEN 0 ELSE n - MaxLogs

LEMMA ExcessRange ==
    ASSUME NEW n \in Nat
    PROVE  /\ Excess(n) \in 0 .. n /\ Excess(n + 1) \in 0 .. n
           /\ n - Excess(n) = IF n <= MaxLogs THEN n ELSE MaxLogs
BY MaxLogsAssumption DEF Excess

\* The trim of Invoke drops the excess at the front and keeps the order.
LEMMA KeepLastWindow ==
    ASSUME NEW log \in Seq(Requests)
    PROVE  LET d == Excess(Len(log)) IN
           /\ KeepLast(log) \in Seq(Requests)
           /\ Len(KeepLast(log)) = Len(log) - d
           /\ \A i \in 1 .. Len(log) - d : KeepLast(log)[i] = log[i + d]
<1> Len(log) \in Nat /\ MaxLogs \in Nat \ {0}
  BY LenProperties, MaxLogsAssumption
<1>1. CASE Len(log) <= MaxLogs
  <2>1. KeepLast(log) = log /\ Excess(Len(log)) = 0
    BY <1>1 DEF KeepLast, Excess
  <2>2. Len(log) - 0 = Len(log) /\ \A i \in 1 .. Len(log) : i + 0 = i
    OBVIOUS
  <2> QED
    BY <2>1, <2>2
<1>2. CASE Len(log) > MaxLogs
  <2> DEFINE d == Len(log) - MaxLogs
  <2>1. KeepLast(log) = SubSeq(log, d + 1, Len(log)) /\ Excess(Len(log)) = d
    BY <1>2 DEF KeepLast, Excess
  <2>2. d \in 0 .. Len(log) /\ d + 1 \in 1 .. Len(log) + 1 /\ Len(log) - d = MaxLogs
    BY <1>2
  <2>3. /\ SubSeq(log, d + 1, Len(log)) \in Seq(Requests)
        /\ Len(SubSeq(log, d + 1, Len(log))) = MaxLogs
        /\ \A i \in 1 .. MaxLogs : SubSeq(log, d + 1, Len(log))[i] = log[i + d]
    BY <2>2, <1>2
  <2> QED
    BY <1>2, <2>1, <2>2, <2>3
<1> QED
  BY <1>1, <1>2

-----------------------------------------------------------------------------
(* The type invariant *)

LEMMA InitType == Init => TypeOK
<1>1. << >> \in Seq(Requests)
  OBVIOUS
<1> QED
  BY <1>1, StatusTypes DEF Init, TypeOK, Phases, KnownCalls

LEMMA ReplyKeepsType ==
    ASSUME TypeOK, NEW r \in Requests, NEW answer \in Replies, Reply(r, answer)
    PROVE  /\ reply' \in [Requests -> Replies] /\ phase' \in [Requests -> Phases]
           /\ \A q \in Requests :
                 phase'[q] \in {"created", "running"} => phase'[q] = phase[q]
BY DEF TypeOK, Reply, Phases

\* A handler that answers without writing to the store.
LEMMA AnswerKeepsType ==
    ASSUME TypeOK, NEW r \in Requests, NEW answer \in Replies, Reply(r, answer),
           UNCHANGED <<ready, store, call, before>>
    PROVE  TypeOK'
BY ReplyKeepsType DEF TypeOK, store, Id

LEMMA StepKeepsType ==
    ASSUME TypeOK, NEW r \in Requests, Step(r)
    PROVE  TypeOK'
<1> USE DEF TypeOK, store, Id
<1>1. CASE Receive(r)
  BY <1>1 DEF Receive, Answered, Phases, KnownCalls
<1>2. CASE Answer(r)
  BY <1>2 DEF Answer, Phases
<1>3. CASE RejectCreate(r)
  BY <1>3, AnswerKeepsType, StatusTypes DEF RejectCreate
<1>4. CASE CreateFn(r)
  BY <1>4 DEF CreateFn, Created, Phases, KnownCalls
<1>5. CASE EncodeCreated(r)
  <2>1. PICK n \in 0 .. count[Id(r)] : Reply(r, Body(201, {<<Id(r), n>>}))
    BY <1>5 DEF EncodeCreated
  <2>2. Body(201, {<<Id(r), n>>}) \in Replies
    <3>1. Id(r) \in Ids /\ n \in Nat
      BY <1>5 DEF EncodeCreated
    <3> QED
      BY <3>1, ReplyTypes
  <2> QED
    BY <1>5, <2>1, <2>2, AnswerKeepsType DEF EncodeCreated
<1>6. CASE GetFn(r)
  <2>1. Id(r) \in live => Body(200, {<<Id(r), count[Id(r)]>>}) \in Replies
    BY ReplyTypes
  <2> QED
    BY <1>6, <2>1, AnswerKeepsType, StatusTypes DEF GetFn
<1>7. CASE ListFns(r)
  <2>1. Body(200, {<<f, count[f]>> : f \in live}) \in Replies
    BY ReplyTypes
  <2> QED
    BY <1>7, <2>1, AnswerKeepsType DEF ListFns
<1>8. CASE LogsOf(r)
  <2>1. Id(r) \in live => Entries(200, logs[Id(r)]) \in Replies
    BY ReplyTypes
  <2> QED
    BY <1>8, <2>1, AnswerKeepsType, StatusTypes DEF LogsOf
<1>9. CASE DeleteFn(r)
  <2>1. logs' \in [Ids -> Seq(Requests)] /\ live' \in SUBSET issued
    <3>1. << >> \in Seq(Requests)
      OBVIOUS
    <3> QED
      BY <1>9, <3>1 DEF DeleteFn
  <2>2. PICK answer \in Replies : Reply(r, answer)
    BY <1>9, StatusTypes DEF DeleteFn
  <2>3. UNCHANGED <<ready, issued, count, call, before>>
    BY <1>9 DEF DeleteFn
  <2> QED
    BY <2>1, <2>2, <2>3, ReplyKeepsType
<1>10. CASE InvokeUnavailable(r)
  BY <1>10, AnswerKeepsType, StatusTypes DEF InvokeUnavailable
<1>11. CASE InvokeStart(r)
  BY <1>11 DEF InvokeStart, Phases
<1>12. CASE InvokeFail(r)
  BY <1>12, AnswerKeepsType, StatusTypes DEF InvokeFail
<1>13. CASE InvokeRecord(r)
  <2>1. Id(r) \in Ids /\ logs[Id(r)] \in Seq(Requests)
    BY <1>13 DEF InvokeRecord
  <2>2. Append(logs[Id(r)], r) \in Seq(Requests)
    BY <2>1
  <2>3. KeepLast(Append(logs[Id(r)], r)) \in Seq(Requests)
    BY <2>2, KeepLastWindow
  <2>4. logs' \in [Ids -> Seq(Requests)] /\ count' \in [Ids -> Nat]
    BY <1>13, <2>3 DEF InvokeRecord
  <2>5. Reply(r, Status(200)) /\ UNCHANGED <<ready, issued, live, call, before>>
    BY <1>13 DEF InvokeRecord
  <2> QED
    BY <2>4, <2>5, ReplyKeepsType, StatusTypes
<1> QED
  BY <1>1, <1>2, <1>3, <1>4, <1>5, <1>6, <1>7, <1>8, <1>9, <1>10, <1>11, <1>12, <1>13
     DEF Step

\* Every reachable state of the registry is well typed, whatever the requests.
THEOREM TypeCorrect == Spec => []TypeOK
<1>1. TypeOK /\ [Next]_vars => TypeOK'
  <2> SUFFICES ASSUME TypeOK, [Next]_vars PROVE TypeOK'
    OBVIOUS
  <2>1. CASE \E r \in Requests : Step(r)
    BY <2>1, StepKeepsType
  <2>2. CASE UNCHANGED vars
    BY <2>2 DEF vars, TypeOK, Id
  <2> QED
    BY <2>1, <2>2 DEF Next, Quiescent
<1> QED
  BY InitType, <1>1, PTL DEF Spec

-----------------------------------------------------------------------------
(* The inductive invariant *)

\* An id that uuid.NewString has not returned yet has left no trace.
FreshIds == \A f \in Ids \ issued : count[f] = 0 /\ logs[f] = << >>

\* What the phase of a request says of its call and its reply.
InOrder(r) ==
    /\ phase[r] \in {"new", "received", "created", "running"} => reply[r] = Status(0)
    /\ phase[r] = "new" => call[r] = NoCall
    /\ phase[r] = "created" => Is(r, "create")
    /\ phase[r] = "running" => Is(r, "invoke")
    /\ Is(r, "invoke") /\ reply[r].status = 200 => Id(r) \in issued
    /\ Is(r, "delete") /\ reply[r].status = 204 => Id(r) \in issued \ live
    /\ before[r] \subseteq Answered

RequestsInOrder == \A r \in Requests : InOrder(r)

\* A log holds nothing but invocations of its function that ended.
LogsAreInvocations ==
    \A f \in Ids : \A i \in 1 .. Len(logs[f]) : logs[f][i] \in Invoked(f)

\* No function runs for a request received after its deletion was answered.
RunsOnlyUndeleted ==
    \A r \in Requests : \A f \in Ids :
        phase[r] = "running" /\ before[r] \cap Deleted(f) # {} => Id(r) # f

\* A create that is not encoded yet was received before any invocation of its
\* function was answered: the id did not exist.
CreatorsCameFirst ==
    \A r \in Requests : phase[r] = "created" => Invoked(Id(r)) \cap before[r] = {}

\* As long as the window is not exceeded, no invocation has left the log.
NothingDropped ==
    \A f \in live : count[f] <= MaxLogs =>
        \A r \in Invoked(f) : \E i \in 1 .. Len(logs[f]) : logs[f][i] = r

IInv ==
    /\ TypeOK /\ FreshIds /\ RequestsInOrder /\ LogsAreInvocations /\ RunsOnlyUndeleted
    /\ CreatorsCameFirst /\ NothingDropped
    /\ LogMatchesCount /\ NoLostInvocation /\ LogIsHistory /\ OldestDroppedFirst
    /\ DeleteIsFinal /\ ReadsAreCurrent

\* A handler that answers r without writing to the store, and not with the
\* success of an invocation or of a deletion.
QuietReply(r) ==
    /\ phase[r] \in {"received", "created", "running"}
    /\ \E answer \in Replies :
          /\ Reply(r, answer)
          /\ Is(r, "invoke") => answer.status # 200
          /\ Is(r, "delete") => answer.status # 204
    /\ UNCHANGED <<ready, store, call, before>>

LEMMA StepKinds ==
    ASSUME TypeOK, RequestsInOrder, NEW r \in Requests, Step(r)
    PROVE  \/ Receive(r) \/ Answer(r) \/ CreateFn(r) \/ InvokeStart(r)
           \/ DeleteFn(r) \/ InvokeRecord(r) \/ QuietReply(r)
<1> USE DEF Is
<1>1. CASE RejectCreate(r)
  BY <1>1, StatusTypes DEF RejectCreate, QuietReply, Status
<1>2. CASE EncodeCreated(r)
  <2>1. PICK n \in 0 .. count[Id(r)] : Reply(r, Body(201, {<<Id(r), n>>}))
    BY <1>2 DEF EncodeCreated
  <2>2. Id(r) \in Ids /\ n \in Nat /\ Is(r, "create")
    BY <1>2 DEF EncodeCreated, TypeOK, RequestsInOrder, InOrder
  <2>3. Body(201, {<<Id(r), n>>}) \in Replies
    BY <2>2, ReplyTypes
  <2> QED
    BY <1>2, <2>1, <2>2, <2>3 DEF EncodeCreated, QuietReply
<1>3. CASE GetFn(r)
  <2>1. Id(r) \in live => Body(200, {<<Id(r), count[Id(r)]>>}) \in Replies
    BY ReplyTypes DEF TypeOK
  <2> QED
    BY <1>3, <2>1, StatusTypes DEF GetFn, QuietReply
<1>4. CASE ListFns(r)
  <2>1. Body(200, {<<f, count[f]>> : f \in live}) \in Replies
    BY ReplyTypes DEF TypeOK
  <2> QED
    BY <1>4, <2>1 DEF ListFns, QuietReply
<1>5. CASE LogsOf(r)
  <2>1. Id(r) \in live => Entries(200, logs[Id(r)]) \in Replies
    BY ReplyTypes DEF TypeOK
  <2> QED
    BY <1>5, <2>1, StatusTypes DEF LogsOf, QuietReply
<1>6. CASE InvokeUnavailable(r)
  BY <1>6, StatusTypes DEF InvokeUnavailable, QuietReply, Status
<1>7. CASE InvokeFail(r)
  <2>1. Is(r, "invoke") /\ Status(500).status = 500
    BY <1>7 DEF InvokeFail, RequestsInOrder, InOrder, Status
  <2> QED
    BY <1>7, <2>1, StatusTypes DEF InvokeFail, QuietReply
<1> QED
  BY <1>1, <1>2, <1>3, <1>4, <1>5, <1>6, <1>7 DEF Step

\* What a step of r leaves alone.
LEMMA StepFrame ==
    ASSUME TypeOK, RequestsInOrder, NEW r \in Requests, Step(r)
    PROVE  /\ \A q \in Requests \ {r} : /\ phase'[q] = phase[q] /\ call'[q] = call[q]
                                        /\ reply'[q] = reply[q] /\ before'[q] = before[q]
           /\ issued \subseteq issued' /\ live' \subseteq Ids
           /\ \A f \in live' : f \in live \/ f \notin issued
           /\ phase[r] # "answered"
           /\ phase[r] # "new" => before'[r] = before[r]
           /\ reply[r] # Status(0) => reply'[r] = reply[r] /\ call'[r] = call[r]
           /\ Answered \subseteq Answered'
<1> USE DEF TypeOK, RequestsInOrder, InOrder, Answered, Status, store
<1>1. CASE Receive(r)
  BY <1>1 DEF Receive
<1>2. CASE Answer(r)
  BY <1>2 DEF Answer
<1>3. CASE CreateFn(r)
  BY <1>3 DEF CreateFn
<1>4. CASE InvokeStart(r)
  BY <1>4 DEF InvokeStart
<1>5. CASE DeleteFn(r)
  BY <1>5 DEF DeleteFn, Reply
<1>6. CASE InvokeRecord(r)
  BY <1>6 DEF InvokeRecord, Reply
<1>7. CASE QuietReply(r)
  BY <1>7 DEF QuietReply, Reply
<1> QED
  BY <1>1, <1>2, <1>3, <1>4, <1>5, <1>6, <1>7, StepKinds

LEMMA InvokedFrame ==
    ASSUME TypeOK, RequestsInOrder, NEW r \in Requests, Step(r), ~InvokeRecord(r),
           NEW f \in Ids
    PROVE  Invoked(f)' = Invoked(f)
<1> DEFINE Now == Is(r, "invoke") /\ Id(r) = f /\ reply[r].status = 200
<1> SUFFICES Now' = Now
  BY StepFrame DEF Invoked, Is, Id
<1> USE DEF TypeOK, RequestsInOrder, InOrder, Is, Id, Status, store
<1>1. CASE Receive(r)
  BY <1>1 DEF Receive
<1>2. CASE Answer(r)
  BY <1>2 DEF Answer
<1>3. CASE CreateFn(r)
  BY <1>3 DEF CreateFn
<1>4. CASE InvokeStart(r)
  BY <1>4 DEF InvokeStart
<1>5. CASE DeleteFn(r)
  BY <1>5 DEF DeleteFn
<1>6. CASE QuietReply(r)
  BY <1>6 DEF QuietReply, Reply
<1> QED
  BY <1>1, <1>2, <1>3, <1>4, <1>5, <1>6, StepKinds

LEMMA InvokedGrows ==
    ASSUME TypeOK, RequestsInOrder, NEW r \in Requests, InvokeRecord(r), NEW f \in Ids
    PROVE  /\ Invoked(f)' = IF f = Id(r) THEN Invoked(f) \cup {r} ELSE Invoked(f)
           /\ r \notin Invoked(f)
BY DEF TypeOK, RequestsInOrder, InOrder, InvokeRecord, Reply, Invoked, Is, Id, Status

LEMMA StepKeepsOrder ==
    ASSUME TypeOK, RequestsInOrder, NEW r \in Requests, Step(r)
    PROVE  RequestsInOrder'
<1>1. ASSUME NEW q \in Requests \ {r} PROVE InOrder(q)'
  BY StepFrame DEF RequestsInOrder, InOrder, Is, Id, TypeOK
<1>2. InOrder(r)'
  <2>1. Answered \subseteq Answered' /\ (phase[r] # "new" => before'[r] = before[r])
    BY StepFrame
  <2> HIDE DEF Answered
  <2> USE DEF TypeOK, RequestsInOrder, InOrder, Is, Id, Status, store
  <2>2. CASE Receive(r)
    BY <2>1, <2>2 DEF Receive, NoCall
  <2>3. CASE Answer(r)
    BY <2>1, <2>3 DEF Answer
  <2>4. CASE CreateFn(r)
    BY <2>1, <2>4 DEF CreateFn, Created
  <2>5. CASE InvokeStart(r)
    BY <2>1, <2>5 DEF InvokeStart
  <2>6. CASE DeleteFn(r)
    <3>1. phase'[r] = "replying" /\ phase[r] # "new" /\ call' = call /\ Is(r, "delete")
      BY <2>6 DEF DeleteFn, Reply
    <3>2. reply'[r].status = 204 => Id(r) \in issued' \ live'
      BY <2>6 DEF DeleteFn, Reply
    <3> QED
      BY <2>1, <3>1, <3>2
  <2>7. CASE InvokeRecord(r)
    BY <2>1, <2>7 DEF InvokeRecord, Reply
  <2>8. CASE QuietReply(r)
    BY <2>1, <2>8 DEF QuietReply, Reply
  <2> QED
    BY <2>2, <2>3, <2>4, <2>5, <2>6, <2>7, <2>8, StepKinds
<1> QED
  BY <1>1, <1>2 DEF RequestsInOrder

LEMMA StepKeepsFresh ==
    ASSUME TypeOK, RequestsInOrder, FreshIds, NEW r \in Requests, Step(r)
    PROVE  FreshIds'
<1> USE DEF TypeOK, FreshIds, store
<1>1. CASE Receive(r) \/ Answer(r) \/ CreateFn(r) \/ InvokeStart(r) \/ QuietReply(r)
  BY <1>1 DEF Receive, Answer, CreateFn, InvokeStart, QuietReply
<1>2. CASE DeleteFn(r)
  BY <1>2 DEF DeleteFn, Id
<1>3. CASE InvokeRecord(r)
  BY <1>3 DEF InvokeRecord, Id
<1> QED
  BY <1>1, <1>2, <1>3, StepKinds

\* What InvokeRecord makes of the log of its function, and of the others.
LEMMA RecordedLog ==
    ASSUME TypeOK, NEW r \in Requests, InvokeRecord(r), NEW f \in Ids
    PROVE  LET n == Len(logs[f])
               d == Excess(n + 1)
           IN  /\ Id(r) \in Ids
               /\ n \in Nat /\ d \in 0 .. n
               /\ f # Id(r) => logs'[f] = logs[f]
               /\ f = Id(r) => /\ Len(logs'[f]) = n + 1 - d
                               /\ logs'[f][n + 1 - d] = r
                               /\ \A i \in 1 .. n - d : logs'[f][i] = logs[f][i + d]
<1> DEFINE n == Len(logs[f])
<1> DEFINE d == Excess(n + 1)
<1> DEFINE long == Append(logs[f], r)
<1>1. Id(r) \in Ids /\ (f # Id(r) => logs'[f] = logs[f])
  BY DEF TypeOK, InvokeRecord
<1>2. logs[f] \in Seq(Requests) /\ n \in Nat
  BY DEF TypeOK
<1>3. /\ long \in Seq(Requests) /\ Len(long) = n + 1
      /\ long[n + 1] = r /\ \A i \in 1 .. n : long[i] = logs[f][i]
  BY <1>2
<1>4. f = Id(r) => logs'[f] = KeepLast(long)
  BY DEF TypeOK, InvokeRecord
<1>5. d \in 0 .. n
  BY <1>2, ExcessRange
<1> HIDE DEF long
<1>6. /\ Len(KeepLast(long)) = n + 1 - d
      /\ \A i \in 1 .. n + 1 - d : KeepLast(long)[i] = long[i + d]
  <2>1. Excess(Len(long)) = d
    BY <1>3
  <2>2. /\ Len(KeepLast(long)) = Len(long) - Excess(Len(long))
        /\ \A i \in 1 .. Len(long) - Excess(Len(long)) :
              KeepLast(long)[i] = long[i + Excess(Len(long))]
    BY <1>3, KeepLastWindow
  <2> HIDE DEF d, n
  <2>3. Len(long) - d = n + 1 - d
    BY <1>2, <1>3, <1>5
  <2> QED
    BY <2>1, <2>2, <2>3
<1> HIDE DEF n, d
<1>7. KeepLast(long)[n + 1 - d] = r
  <2>1. n + 1 - d \in 1 .. n + 1 - d /\ (n + 1 - d) + d = n + 1
    BY <1>2, <1>5
  <2> QED
    BY <1>3, <1>6, <2>1
<1>8. \A i \in 1 .. n - d : KeepLast(long)[i] = logs[f][i + d]
  <2> TAKE i \in 1 .. n - d
  <2>1. i \in 1 .. n + 1 - d /\ i + d \in 1 .. n
    BY <1>2, <1>5
  <2> QED
    BY <1>3, <1>6, <2>1
<1> QED
  BY <1>1, <1>2, <1>4, <1>5, <1>6, <1>7, <1>8 DEF n, d

\* Every other step leaves a log alone or, for a deletion, empties it.
LEMMA UnrecordedLog ==
    ASSUME TypeOK, RequestsInOrder, NEW r \in Requests, Step(r), ~InvokeRecord(r),
           NEW f \in Ids
    PROVE  logs'[f] = logs[f] \/ (logs'[f] = << >> /\ f \notin live')
BY StepKinds DEF TypeOK, Receive, Answer, CreateFn, InvokeStart, QuietReply, DeleteFn,
   Id, store

LEMMA StepKeepsLogs ==
    ASSUME TypeOK, RequestsInOrder, LogsAreInvocations, NEW r \in Requests, Step(r)
    PROVE  LogsAreInvocations'
<1>1. CASE InvokeRecord(r)
  <2> SUFFICES ASSUME NEW f \in Ids, NEW i \in 1 .. Len(logs'[f])
               PROVE  logs'[f][i] \in Invoked(f)'
    BY DEF LogsAreInvocations
  <2>1. CASE f # Id(r)
    BY <1>1, <2>1, RecordedLog, InvokedGrows DEF LogsAreInvocations
  <2>2. CASE f = Id(r)
    <3> DEFINE n == Len(logs[f])
    <3> DEFINE d == Excess(n + 1)
    <3>1. /\ n \in Nat /\ d \in 0 .. n /\ Len(logs'[f]) = n + 1 - d
          /\ logs'[f][n + 1 - d] = r
          /\ \A k \in 1 .. n - d : logs'[f][k] = logs[f][k + d]
      BY <1>1, <2>2, RecordedLog
    <3>2. Invoked(f)' = Invoked(f) \cup {r}
      BY <1>1, <2>2, InvokedGrows
    <3>3. \A k \in 1 .. n : logs[f][k] \in Invoked(f)
      BY DEF LogsAreInvocations
    <3> HIDE DEF n, d
    <3>4. i = n + 1 - d \/ (i \in 1 .. n - d /\ i + d \in 1 .. n)
      BY <3>1
    <3> QED
      BY <3>1, <3>2, <3>3, <3>4
  <2> QED
    BY <2>1, <2>2
<1>2. CASE ~InvokeRecord(r)
  BY <1>2, UnrecordedLog, InvokedFrame DEF LogsAreInvocations
<1> QED
  BY <1>1, <1>2

\* r's entry is new to the log, and no request was received after r was answered.
LEMMA RecordedIsNew ==
    ASSUME TypeOK, RequestsInOrder, LogsAreInvocations, NEW r \in Requests, InvokeRecord(r)
    PROVE  /\ \A f \in Ids : \A i \in 1 .. Len(logs[f]) : logs[f][i] # r
           /\ \A q \in Requests : r \notin before[q]
           /\ before' = before
<1>1. \A f \in Ids : r \notin Invoked(f)
  BY InvokedGrows
<1>2. phase[r] # "answered" /\ before' = before
  BY DEF InvokeRecord
<1> QED
  BY <1>1, <1>2 DEF RequestsInOrder, InOrder, LogsAreInvocations, Answered

LEMMA StepKeepsLogCount ==
    ASSUME TypeOK, RequestsInOrder, FreshIds, LogMatchesCount, NEW r \in Requests, Step(r)
    PROVE  LogMatchesCount'
<1> MaxLogs \in Nat \ {0} /\ Len(<< >>) = 0
  BY MaxLogsAssumption
<1>1. CASE InvokeRecord(r)
  <2>1. live' = live /\ live \subseteq Ids
        /\ count' = IF Id(r) \in live THEN [count EXCEPT ![Id(r)] = @ + 1] ELSE count
    BY <1>1 DEF InvokeRecord, TypeOK
  <2>2. \A f \in live : count[f] \in Nat /\ count'[f] = IF f = Id(r) THEN count[f] + 1 ELSE count[f]
    BY <2>1 DEF TypeOK
  <2> SUFFICES ASSUME NEW f \in live
               PROVE  Len(logs'[f]) = IF count'[f] <= MaxLogs THEN count'[f] ELSE MaxLogs
    BY <2>1 DEF LogMatchesCount
  <2>3. Len(logs[f]) = IF count[f] <= MaxLogs THEN count[f] ELSE MaxLogs
    BY DEF LogMatchesCount
  <2>4. CASE f = Id(r)
    <3> DEFINE n == Len(logs[f])
    <3>1. n \in Nat /\ Len(logs'[f]) = n + 1 - Excess(n + 1)
      BY <1>1, <2>1, <2>4, RecordedLog
    <3>2. n + 1 - Excess(n + 1) = IF n + 1 <= MaxLogs THEN n + 1 ELSE MaxLogs
      <4> HIDE DEF n
      <4>1. n + 1 \in Nat
        BY <3>1
      <4> QED
        BY <3>1, <4>1, ExcessRange
    <3> QED
      BY <2>1, <2>2, <2>3, <2>4, <3>1, <3>2
  <2>5. CASE f # Id(r)
    BY <1>1, <2>1, <2>2, <2>3, <2>5, RecordedLog
  <2> QED
    BY <2>4, <2>5
<1>2. CASE ~InvokeRecord(r)
  <2>1. count' = count /\ live' \subseteq Ids
        /\ \A f \in live' : f \in live \/ f \notin issued
    BY <1>2, StepKinds DEF TypeOK, Receive, Answer, CreateFn, InvokeStart, QuietReply,
       DeleteFn, store
  <2>2. \A f \in live' : logs'[f] = logs[f]
    BY <1>2, <2>1, UnrecordedLog
  <2> QED
    BY <2>1, <2>2 DEF LogMatchesCount, FreshIds
<1> QED
  BY <1>1, <1>2

LEMMA StepKeepsCount ==
    ASSUME TypeOK, RequestsInOrder, FreshIds, NoLostInvocation, NEW r \in Requests, Step(r)
    PROVE  NoLostInvocation'
<1>1. CASE InvokeRecord(r)
  <2>1. live' = live /\ live \subseteq Ids
        /\ count' = IF Id(r) \in live THEN [count EXCEPT ![Id(r)] = @ + 1] ELSE count
    BY <1>1 DEF InvokeRecord, TypeOK
  <2> SUFFICES ASSUME NEW f \in live PROVE count'[f] = Cardinality(Invoked(f)')
    BY <2>1 DEF NoLostInvocation
  <2>2. IsFiniteSet(Invoked(f))
    BY RequestsAssumption, FS_Subset DEF Invoked
  <2>3. CASE f = Id(r)
    <3>1. Invoked(f)' = Invoked(f) \cup {r} /\ r \notin Invoked(f)
      BY <1>1, <2>1, <2>3, InvokedGrows
    <3>2. Cardinality(Invoked(f) \cup {r}) = Cardinality(Invoked(f)) + 1
      BY <2>2, <3>1, FS_AddElement
    <3>3. count[f] = Cardinality(Invoked(f)) /\ count'[f] = count[f] + 1
      BY <2>1, <2>3 DEF NoLostInvocation, TypeOK
    <3> QED
      BY <3>1, <3>2, <3>3
  <2>4. CASE f # Id(r)
    BY <1>1, <2>1, <2>4, InvokedGrows DEF NoLostInvocation, TypeOK
  <2> QED
    BY <2>3, <2>4
<1>2. CASE ~InvokeRecord(r)
  <2>1. count' = count /\ live' \subseteq Ids
        /\ \A f \in live' : f \in live \/ f \notin issued
    BY <1>2, StepKinds DEF TypeOK, Receive, Answer, CreateFn, InvokeStart, QuietReply,
       DeleteFn, store
  <2>2. \A f \in Ids \ issued : Invoked(f) = {}
    BY DEF RequestsInOrder, InOrder, Invoked, Is
  <2> QED
    BY <1>2, <2>1, <2>2, InvokedFrame, FS_EmptySet DEF NoLostInvocation, FreshIds
<1> QED
  BY <1>1, <1>2

LEMMA StepKeepsHistory ==
    ASSUME TypeOK, RequestsInOrder, LogsAreInvocations, LogIsHistory,
           NEW r \in Requests, Step(r)
    PROVE  LogIsHistory'
<1>1. CASE InvokeRecord(r)
  <2> SUFFICES ASSUME NEW f \in Ids, NEW i \in 1 .. Len(logs'[f]),
                      NEW j \in 1 .. Len(logs'[f]), i < j
               PROVE  /\ logs'[f][i] # logs'[f][j]
                      /\ logs'[f][j] \notin before'[logs'[f][i]]
    BY DEF LogIsHistory
  <2>1. CASE f # Id(r)
    <3>1. logs'[f] = logs[f] /\ before' = before
      BY <1>1, <2>1, RecordedLog, RecordedIsNew
    <3> QED
      BY <3>1 DEF LogIsHistory
  <2>2. CASE f = Id(r)
    <3> DEFINE n == Len(logs[f])
    <3> DEFINE d == Excess(n + 1)
    <3>1. /\ n \in Nat /\ d \in 0 .. n /\ Len(logs'[f]) = n + 1 - d
          /\ logs'[f][n + 1 - d] = r
          /\ \A k \in 1 .. n - d : logs'[f][k] = logs[f][k + d]
      BY <1>1, <2>2, RecordedLog
    <3>2. \A k \in 1 .. n : logs[f][k] # r /\ logs[f][k] \in Requests
      BY <1>1, RecordedIsNew DEF LogsAreInvocations, Invoked
    <3>3. \A k, l \in 1 .. n : k < l => /\ logs[f][k] # logs[f][l]
                                        /\ logs[f][l] \notin before[logs[f][k]]
      BY DEF LogIsHistory
    <3> HIDE DEF n, d
    <3>4. i \in 1 .. n - d /\ i + d \in 1 .. n /\ logs'[f][i] = logs[f][i + d]
      BY <3>1
    <3>5. CASE j = n + 1 - d
      BY <1>1, <3>1, <3>2, <3>4, <3>5, RecordedIsNew
    <3>6. CASE j # n + 1 - d
      <4>1. j \in 1 .. n - d /\ j + d \in 1 .. n /\ i + d < j + d
        BY <3>1, <3>4, <3>6, SMTT(30)
      <4>2. logs'[f][j] = logs[f][j + d]
        BY <3>1, <4>1, SMTT(30)
      <4> QED
        BY <1>1, <3>3, <3>4, <4>1, <4>2, RecordedIsNew
    <3> QED
      BY <3>5, <3>6
  <2> QED
    BY <2>1, <2>2
<1>2. CASE ~InvokeRecord(r)
  <2>1. \A f \in Ids : \A i \in 1 .. Len(logs[f]) :
            before'[logs[f][i]] = before[logs[f][i]]
    <3> SUFFICES ASSUME NEW f \in Ids, NEW i \in 1 .. Len(logs[f])
                 PROVE  before'[logs[f][i]] = before[logs[f][i]]
      OBVIOUS
    <3>1. logs[f][i] \in Requests /\ phase[logs[f][i]] # "new"
      BY DEF LogsAreInvocations, Invoked, RequestsInOrder, InOrder, Status
    <3> QED
      BY <3>1, StepFrame
  <2> QED
    BY <1>2, <2>1, UnrecordedLog DEF LogIsHistory
<1> QED
  BY <1>1, <1>2

LEMMA StepKeepsOldest ==
    ASSUME TypeOK, RequestsInOrder, LogsAreInvocations, LogIsHistory, OldestDroppedFirst,
           NEW r \in Requests, Step(r)
    PROVE  OldestDroppedFirst'
<1> DEFINE InLog(q, log) == \E i \in 1 .. Len(log) : log[i] = q
<1> SUFFICES ASSUME NEW f \in live', NEW q \in Invoked(f)', ~InLog(q, logs'[f]),
                    NEW i \in 1 .. Len(logs'[f])
             PROVE  logs'[f][i] \notin before'[q]
  BY DEF OldestDroppedFirst
<1>1. f \in Ids /\ q \in Requests
  BY StepFrame DEF Invoked
<1>2. ASSUME ~InvokeRecord(r) PROVE logs'[f][i] \notin before'[q]
  <2>1. logs'[f] = logs[f] /\ q \in Invoked(f)
    BY <1>1, <1>2, UnrecordedLog, InvokedFrame
  <2>2. f \in live
    <3>1. Id(q) \in issued /\ Id(q) = f
      BY <2>1 DEF Invoked, RequestsInOrder, InOrder
    <3> QED
      BY <3>1, StepFrame
  <2>3. before'[q] = before[q]
    <3>1. phase[q] # "new"
      BY <2>1 DEF Invoked, RequestsInOrder, InOrder, Status
    <3> QED
      BY <1>1, <3>1, StepFrame
  <2> QED
    BY <2>1, <2>2, <2>3 DEF OldestDroppedFirst
<1>3. ASSUME InvokeRecord(r) PROVE logs'[f][i] \notin before'[q]
  <2>1. live' = live /\ before' = before
    BY <1>3 DEF InvokeRecord
  <2>2. CASE f # Id(r)
    <3>1. logs'[f] = logs[f] /\ q \in Invoked(f)
      BY <1>1, <1>3, <2>2, RecordedLog, InvokedGrows
    <3> QED
      BY <2>1, <3>1 DEF OldestDroppedFirst
  <2>3. CASE f = Id(r)
    <3> DEFINE n == Len(logs[f])
    <3> DEFINE d == Excess(n + 1)
    <3>1. /\ n \in Nat /\ d \in 0 .. n /\ Len(logs'[f]) = n + 1 - d
          /\ logs'[f][n + 1 - d] = r
          /\ \A k \in 1 .. n - d : logs'[f][k] = logs[f][k + d]
      BY <1>1, <1>3, <2>3, RecordedLog
    <3>2. q # r /\ q \in Invoked(f)
      <4> HIDE DEF n, d
      <4>1. n + 1 - d \in 1 .. Len(logs'[f])
        BY <3>1
      <4>2. q # r
        BY <3>1, <4>1
      <4> QED
        BY <1>1, <1>3, <2>3, <4>2, InvokedGrows
    <3>3. \/ \E k \in 1 .. n : logs[f][k] = q
          \/ \A k \in 1 .. n : logs[f][k] \notin before[q]
      BY <2>1, <3>2 DEF OldestDroppedFirst
    <3>4. \A k, l \in 1 .. n : k < l => logs[f][l] \notin before[logs[f][k]]
      BY <1>1 DEF LogIsHistory
    <3>5. r \notin before[q]
      BY <1>1, <1>3, RecordedIsNew
    <3> HIDE DEF n, d
    <3>6. CASE i = n + 1 - d
      BY <2>1, <3>1, <3>5, <3>6
    <3>7. CASE i # n + 1 - d
      <4>1. i \in 1 .. n - d /\ i + d \in 1 .. n /\ logs'[f][i] = logs[f][i + d]
        BY <3>1, <3>7
      <4>2. ASSUME NEW k \in 1 .. n, logs[f][k] = q PROVE k < i + d
        <5>1. SUFFICES ASSUME k >= i + d PROVE FALSE
          BY <3>1, <4>1
        <5>2. k - d \in 1 .. n - d /\ k - d \in 1 .. Len(logs'[f]) /\ (k - d) + d = k
          BY <3>1, <4>1, <5>1
        <5>3. logs'[f][k - d] = q
          BY <3>1, <4>2, <5>2
        <5> QED
          BY <5>2, <5>3
      <4> QED
        BY <2>1, <3>3, <3>4, <4>1, <4>2
    <3> QED
      BY <3>6, <3>7
  <2> QED
    BY <2>2, <2>3
<1> QED
  BY <1>2, <1>3

\* What one step can add to the deletions of f that succeeded.
LEMMA DeletedGrows ==
    ASSUME TypeOK, RequestsInOrder, NEW r \in Requests, Step(r), NEW f \in Ids,
           NEW d \in Deleted(f)'
    PROVE  d \in Deleted(f) \/ (d = r /\ phase[r] = "received")
<1> USE DEF TypeOK, RequestsInOrder, InOrder, Deleted, Is, Id, Status, store
<1>1. CASE d # r
  BY <1>1, StepFrame
<1>2. CASE d = r /\ Receive(r)
  BY <1>2 DEF Receive
<1>3. CASE d = r /\ Answer(r)
  BY <1>3 DEF Answer
<1>4. CASE d = r /\ (CreateFn(r) \/ InvokeStart(r))
  BY <1>4 DEF CreateFn, Created, InvokeStart
<1>5. CASE d = r /\ (DeleteFn(r) \/ InvokeRecord(r))
  BY <1>5 DEF DeleteFn, InvokeRecord
<1>6. CASE d = r /\ QuietReply(r)
  BY <1>6 DEF QuietReply, Reply
<1> QED
  BY <1>1, <1>2, <1>3, <1>4, <1>5, <1>6, StepKinds

\* No request was received after a deletion that is only answered now.
LEMMA DeletedBefore ==
    ASSUME TypeOK, RequestsInOrder, NEW r \in Requests, Step(r), NEW f \in Ids,
           NEW q \in Requests, NEW d \in Deleted(f)', d \in before'[q]
    PROVE  d \in Deleted(f) /\ f \in issued \ live
<1>1. before'[q] \subseteq Answered
  <2>1. CASE Receive(r)
    BY <2>1 DEF Receive, TypeOK, RequestsInOrder, InOrder
  <2>2. CASE ~Receive(r)
    <3>1. before' = before
      BY <2>2, StepKinds DEF Answer, CreateFn, InvokeStart, DeleteFn, InvokeRecord, QuietReply
    <3> QED
      BY <3>1 DEF RequestsInOrder, InOrder
  <2> QED
    BY <2>1, <2>2
<1>2. d \in Deleted(f)
  BY <1>1, DeletedGrows DEF Answered
<1> QED
  BY <1>2 DEF Deleted, RequestsInOrder, InOrder

LEMMA StepKeepsRuns ==
    ASSUME TypeOK, RequestsInOrder, RunsOnlyUndeleted, NEW r \in Requests, Step(r)
    PROVE  RunsOnlyUndeleted'
<1> SUFFICES ASSUME NEW q \in Requests, NEW f \in Ids, phase'[q] = "running",
                    NEW d \in Deleted(f)', d \in before'[q]
             PROVE  call'[q].id # f
  BY DEF RunsOnlyUndeleted, Id
<1>1. d \in Deleted(f) /\ f \in issued \ live
  BY DeletedBefore
<1>2. CASE InvokeStart(r) /\ q = r
  BY <1>1, <1>2 DEF InvokeStart, Id
<1>3. CASE ~(InvokeStart(r) /\ q = r)
  <2>1. phase[q] = "running" /\ call'[q] = call[q] /\ before'[q] = before[q]
    BY <1>3, StepKinds DEF TypeOK, Receive, Answer, CreateFn, InvokeStart, DeleteFn,
       InvokeRecord, QuietReply, Reply
  <2> QED
    BY <1>1, <2>1 DEF RunsOnlyUndeleted, Id
<1> QED
  BY <1>2, <1>3

\* What DeleteIsFinal says of one request for one deleted function.
Denied(q, f) ==
    /\ Is(q, "list") => \A v \in reply[q].view : v[1] # f
    /\ Id(q) = f /\ ~Is(q, "create") =>
          reply[q].status \in {0, 404} \cup
                             (IF Is(q, "invoke") /\ ~ready THEN {501} ELSE {})

LEMMA StepKeepsDeletion ==
    ASSUME TypeOK, RequestsInOrder, RunsOnlyUndeleted, DeleteIsFinal,
           NEW r \in Requests, Step(r)
    PROVE  DeleteIsFinal'
<1> SUFFICES ASSUME NEW f \in Ids, NEW d \in Deleted(f)', NEW q \in Requests,
                    d \in before'[q]
             PROVE  Denied(q, f)'
  BY DEF DeleteIsFinal, Denied
<1>1. d \in Deleted(f) /\ f \in issued \ live
  BY DeletedBefore
<1>2. CASE q # r
  <2>1. d \in before[q] /\ call'[q] = call[q] /\ reply'[q] = reply[q] /\ ready' = ready
    BY <1>2, StepFrame, StepKinds DEF Receive, Answer, CreateFn, InvokeStart, DeleteFn,
       InvokeRecord, QuietReply
  <2>2. Denied(q, f)
    BY <1>1, <2>1 DEF DeleteIsFinal, Denied
  <2> QED
    BY <2>1, <2>2 DEF Denied, Is, Id
<1>3. CASE q = r
  <2> USE <1>3 DEF Denied, Is, Id, Status
  <2>1. ready' = ready
    BY StepKinds DEF Receive, Answer, CreateFn, InvokeStart, DeleteFn, InvokeRecord,
       QuietReply
  <2>2. CASE Receive(r)
    <3>1. reply'[r] = Status(0)
      BY <2>2 DEF Receive, RequestsInOrder, InOrder
    <3> QED
      BY <3>1
  <2>3. CASE Answer(r) \/ InvokeStart(r)
    <3>1. d \in before[r] /\ call'[r] = call[r] /\ reply'[r] = reply[r]
      BY <2>3 DEF Answer, InvokeStart
    <3>2. Denied(r, f)
      BY <1>1, <3>1 DEF DeleteIsFinal
    <3> QED
      BY <2>1, <3>1, <3>2
  <2>4. CASE RejectCreate(r) \/ CreateFn(r) \/ EncodeCreated(r)
    <3>1. Is(r, "create")'
      BY <2>4 DEF RejectCreate, CreateFn, Created, EncodeCreated, TypeOK,
         RequestsInOrder, InOrder
    <3> QED
      BY <3>1
  <2>5. CASE GetFn(r) \/ LogsOf(r) \/ DeleteFn(r)
    <3>1. /\ call'[r] = call[r] /\ call[r].op # "list"
          /\ Id(r) = f => reply'[r] = Status(404)
      BY <1>1, <2>5, ZenonT(40) DEF GetFn, LogsOf, DeleteFn, Reply, TypeOK
    <3> QED
      BY <3>1
  <2>6. CASE ListFns(r)
    <3>1. reply'[r].view = {<<g, count[g]>> : g \in live} /\ call'[r] = call[r]
      BY <2>6 DEF ListFns, Reply, Body, TypeOK
    <3>2. call[r].id # f
      <4>1. call[r] \in KnownCalls /\ call[r].op = "list"
        BY <2>6 DEF ListFns, TypeOK
      <4>2. call[r].id = NoId
        BY <4>1 DEF KnownCalls, Calls, NoCall, Created
      <4> QED
        BY <4>2, IdsAssumption
    <3> QED
      BY <1>1, <3>1, <3>2
  <2>7. CASE InvokeUnavailable(r)
    <3>1. /\ call'[r] = call[r] /\ call[r].op = "invoke"
          /\ \/ reply'[r].status = 404
             \/ reply'[r].status = 501 /\ ~ready
      BY <2>7 DEF InvokeUnavailable, Reply, TypeOK
    <3>2. (Id(r) = f)' /\ (~Is(r, "create"))' =>
             reply'[r].status \in {0, 404} \cup (IF ~ready THEN {501} ELSE {})
      BY <3>1
    <3> QED
      BY <2>1, <3>1, <3>2
  <2>8. CASE InvokeFail(r) \/ InvokeRecord(r)
    <3>1. d \in before[r] /\ call'[r] = call[r] /\ phase[r] = "running" /\ call[r].op = "invoke"
      BY <2>8 DEF InvokeFail, InvokeRecord, RequestsInOrder, InOrder
    <3>2. Id(r) # f
      BY <1>1, <3>1 DEF RunsOnlyUndeleted
    <3> QED
      BY <3>1, <3>2
  <2> QED
    BY <2>2, <2>3, <2>4, <2>5, <2>6, <2>7, <2>8 DEF Step
<1> QED
  BY <1>2, <1>3

\* What requests that were answered before q was received have done to f.
Acked(f, q) == Invoked(f) \cap before[q]

LEMMA AckedStays ==
    ASSUME TypeOK, RequestsInOrder, NEW r \in Requests, Step(r), NEW f \in Ids,
           NEW q \in Requests, phase[q] # "new"
    PROVE  Acked(f, q)' = Acked(f, q)
<1>1. before'[q] = before[q]
  BY StepFrame
<1>2. before[q] \subseteq Requests \ {r}
  BY StepFrame DEF TypeOK, RequestsInOrder, InOrder, Answered
<1>3. \A s \in Requests \ {r} : s \in Invoked(f)' <=> s \in Invoked(f)
  BY StepFrame DEF Invoked, Is, Id
<1> QED
  BY <1>1, <1>2, <1>3 DEF Acked

LEMMA AckedCount ==
    ASSUME TypeOK, NEW f \in Ids, NEW q \in Requests
    PROVE  /\ IsFiniteSet(Invoked(f)) /\ Cardinality(Invoked(f)) \in Nat
           /\ Cardinality(Acked(f, q)) \in Nat
           /\ Cardinality(Acked(f, q)) <= Cardinality(Invoked(f))
<1>1. IsFiniteSet(Invoked(f)) /\ Acked(f, q) \subseteq Invoked(f)
  BY RequestsAssumption, FS_Subset DEF Invoked, Acked
<1>2. IsFiniteSet(Acked(f, q)) /\ Cardinality(Acked(f, q)) <= Cardinality(Invoked(f))
  BY <1>1, FS_Subset
<1> QED
  BY <1>1, <1>2, FS_CardinalityType

\* The counter of a Function object never goes down.
LEMMA CountGrows ==
    ASSUME TypeOK, RequestsInOrder, NEW r \in Requests, Step(r), NEW f \in Ids
    PROVE  count[f] \in Nat /\ count'[f] \in Nat /\ count[f] <= count'[f]
<1>1. CASE InvokeRecord(r)
  BY <1>1 DEF InvokeRecord, TypeOK
<1>2. CASE ~InvokeRecord(r)
  <2>1. count' = count
    BY <1>2, StepKinds DEF Receive, Answer, CreateFn, InvokeStart, QuietReply, DeleteFn,
       store
  <2> QED
    BY <2>1 DEF TypeOK
<1> QED
  BY <1>1, <1>2

LEMMA StepKeepsCreators ==
    ASSUME TypeOK, RequestsInOrder, CreatorsCameFirst, NEW r \in Requests, Step(r)
    PROVE  CreatorsCameFirst'
<1> SUFFICES ASSUME NEW q \in Requests, phase'[q] = "created"
             PROVE  Acked(Id(q), q)' = {}
  BY DEF CreatorsCameFirst, Acked
<1>1. CASE q = r /\ CreateFn(r)
  <2>1. PICK f \in Ids \ issued : call' = [call EXCEPT ![r] = Created(f)]
    BY <1>1 DEF CreateFn
  <2>2. Id(q)' = f
    BY <1>1, <2>1 DEF Created, TypeOK, Id
  <2>3. Invoked(f) = {}
    BY DEF RequestsInOrder, InOrder, Invoked, Is
  <2>4. Acked(f, q)' = Acked(f, q)
    BY <1>1, AckedStays DEF CreateFn
  <2>5. Acked(Id(q), q)' = Acked(f, q)'
    BY <2>2 DEF Acked, Invoked, Is, Id
  <2> QED
    BY <2>3, <2>4, <2>5 DEF Acked
<1>2. CASE ~(q = r /\ CreateFn(r))
  <2>1. phase[q] = "created" /\ call'[q] = call[q]
    BY <1>2, StepKinds, StepFrame DEF TypeOK, Receive, Answer, InvokeStart, DeleteFn,
       InvokeRecord, QuietReply, Reply
  <2> DEFINE f == call[q].id
  <2>2. f \in Ids /\ Id(q)' = f
    BY <2>1 DEF TypeOK, Id
  <2>3. Acked(f, q) = {}
    BY <2>1 DEF CreatorsCameFirst, Acked, Id
  <2>4. PICK g \in Ids : g = f /\ g = Id(q)'
    BY <2>2
  <2>5. Acked(g, q)' = Acked(g, q)
    BY <2>1, AckedStays
  <2>6. Acked(Id(q), q)' = Acked(g, q)'
    BY <2>4 DEF Acked, Invoked, Is, Id
  <2> QED
    BY <2>3, <2>4, <2>5, <2>6
<1> QED
  BY <1>1, <1>2

LEMMA StepKeepsWindow ==
    ASSUME TypeOK, RequestsInOrder, FreshIds, LogMatchesCount, NothingDropped,
           NEW r \in Requests, Step(r)
    PROVE  NothingDropped'
<1> SUFFICES ASSUME NEW f \in live', count'[f] <= MaxLogs, NEW q \in Invoked(f)'
             PROVE  \E i \in 1 .. Len(logs'[f]) : logs'[f][i] = q
  BY DEF NothingDropped
<1>1. f \in Ids /\ count[f] \in Nat /\ count[f] <= MaxLogs
  BY StepFrame, CountGrows, MaxLogsAssumption
<1>2. CASE InvokeRecord(r) /\ f = Id(r)
  <2> DEFINE n == Len(logs[f])
  <2>1. f \in live /\ count'[f] = count[f] + 1 /\ n = count[f]
    BY <1>1, <1>2 DEF InvokeRecord, TypeOK, LogMatchesCount
  <2>2. n \in Nat /\ Excess(n + 1) = 0
    BY <1>1, <2>1 DEF Excess
  <2>3. /\ Len(logs'[f]) = n + 1 - Excess(n + 1)
        /\ logs'[f][n + 1 - Excess(n + 1)] = r
        /\ \A i \in 1 .. n - Excess(n + 1) : logs'[f][i] = logs[f][i + Excess(n + 1)]
    BY <1>1, <1>2, RecordedLog
  <2>4. Invoked(f)' = Invoked(f) \cup {r}
    BY <1>1, <1>2, InvokedGrows
  <2>5. q \in Invoked(f) => \E i \in 1 .. n : logs[f][i] = q
    BY <1>1, <2>1 DEF NothingDropped
  <2> HIDE DEF n
  <2>6. /\ Len(logs'[f]) = n + 1 /\ logs'[f][n + 1] = r
        /\ \A i \in 1 .. n : logs'[f][i] = logs[f][i]
    BY <2>2, <2>3
  <2>7. n + 1 \in 1 .. n + 1 /\ \A i \in 1 .. n : i \in 1 .. n + 1
    BY <2>2
  <2> QED
    BY <2>4, <2>5, <2>6, <2>7
<1>3. CASE ~(InvokeRecord(r) /\ f = Id(r))
  <2>1. Invoked(f)' = Invoked(f)
    BY <1>1, <1>3, InvokedFrame, InvokedGrows
  <2>2. f \in live
    BY <2>1, StepFrame DEF RequestsInOrder, InOrder, Invoked, Is
  <2>3. logs'[f] = logs[f]
    BY <1>1, <1>3, <2>2, RecordedLog, UnrecordedLog
  <2> QED
    BY <1>1, <2>1, <2>2, <2>3 DEF NothingDropped
<1> QED
  BY <1>2, <1>3

\* What ReadsAreCurrent says of one request and one function.
Current(q, f) ==
    /\ \A v \in reply[q].view :
          v[1] = f => Cardinality(Acked(f, q)) <= v[2] /\ v[2] <= count[f]
    /\ Is(q, "logs") /\ Id(q) = f /\ reply[q].status = 200 =>
          \/ Len(reply[q].entries) = MaxLogs
          \/ \A s \in Acked(f, q) :
                \E i \in 1 .. Len(reply[q].entries) : reply[q].entries[i] = s

LEMMA ReadsAreEachCurrent ==
    ReadsAreCurrent <=> \A q \in Requests : \A f \in Ids : Current(q, f)
BY DEF ReadsAreCurrent, Current, Acked

\* A request whose reply and call do not change.
LEMMA CurrentStays ==
    ASSUME TypeOK, RequestsInOrder, NEW r \in Requests, Step(r), NEW f \in Ids,
           NEW q \in Requests, Current(q, f), phase[q] # "new",
           reply'[q] = reply[q], call'[q] = call[q]
    PROVE  Current(q, f)'
<1>1. Acked(f, q)' = Acked(f, q)
  BY AckedStays
<1>2. count[f] \in Nat /\ count'[f] \in Nat /\ count[f] <= count'[f]
  BY CountGrows
<1>3. \A v \in reply[q].view : v[2] \in Nat
  BY DEF TypeOK, Replies
<1>4. Cardinality(Acked(f, q)) \in Nat
  BY AckedCount
<1>5. ASSUME NEW v \in reply[q].view, v[1] = f
      PROVE  Cardinality(Acked(f, q)) <= v[2] /\ v[2] <= count'[f]
  BY <1>2, <1>3, <1>4, <1>5 DEF Current
<1> QED
  BY <1>1, <1>5 DEF Current, Is, Id

LEMMA StepKeepsReads ==
    ASSUME TypeOK, RequestsInOrder, CreatorsCameFirst, NothingDropped, LogMatchesCount,
           NoLostInvocation, ReadsAreCurrent, NEW r \in Requests, Step(r)
    PROVE  ReadsAreCurrent'
<1> SUFFICES ASSUME NEW q \in Requests, NEW f \in Ids
             PROVE  Current(q, f)'
  BY DEF ReadsAreCurrent, Current, Acked
<1>1. Current(q, f)
  BY ReadsAreEachCurrent
<1>2. ASSUME reply'[q] = Status(0) \/ (reply'[q].view = {} /\ call'[q].op # "logs")
      PROVE  Current(q, f)'
  <2>1. reply'[q].view = {} /\ (reply'[q].status # 200 \/ call'[q].op # "logs")
    BY <1>2 DEF Status
  <2> QED
    BY <2>1 DEF Current, Is
<1>3. CASE q # r
  <2>1. phase'[q] = phase[q] /\ reply'[q] = reply[q] /\ call'[q] = call[q]
    BY <1>3, StepFrame
  <2>2. CASE phase[q] = "new"
    BY <1>2, <2>1, <2>2 DEF RequestsInOrder, InOrder
  <2>3. CASE phase[q] # "new"
    BY <1>1, <2>1, <2>3, CurrentStays
  <2> QED
    BY <2>2, <2>3
<1>4. CASE q = r
  <2> USE <1>4
  <2>1. CASE Receive(r) \/ CreateFn(r) \/ InvokeStart(r)
    BY <1>2, <2>1 DEF Receive, CreateFn, InvokeStart, RequestsInOrder, InOrder
  <2>2. CASE Answer(r)
    BY <1>1, <2>2, CurrentStays DEF Answer
  <2>3. CASE RejectCreate(r) \/ DeleteFn(r) \/ InvokeUnavailable(r) \/ InvokeFail(r)
             \/ InvokeRecord(r)
    BY <1>2, <2>3 DEF RejectCreate, DeleteFn, InvokeUnavailable, InvokeFail, InvokeRecord,
       Reply, Status, TypeOK, RequestsInOrder, InOrder, Is
  <2>4. CASE EncodeCreated(r)
    <3>1. PICK n \in 0 .. count[Id(r)] : Reply(r, Body(201, {<<Id(r), n>>}))
      BY <2>4 DEF EncodeCreated
    <3>2. /\ phase[r] = "created" /\ Is(r, "create") /\ Id(r) \in Ids
          /\ call' = call /\ count' = count
      BY <2>4 DEF EncodeCreated, RequestsInOrder, InOrder, TypeOK, store
    <3>3. reply'[r].view = {<<Id(r), n>>} /\ call'[r].op # "logs"
      BY <3>1, <3>2 DEF Reply, Body, TypeOK, Is
    <3>4. Acked(f, r)' = Acked(f, r)
      BY <3>2, AckedStays
    <3>5. f = Id(r) => Cardinality(Acked(f, r)) = 0
      BY <3>2, FS_EmptySet DEF CreatorsCameFirst, Acked
    <3>6. count[Id(r)] \in Nat
      BY <3>2 DEF TypeOK
    <3> QED
      BY <3>1, <3>2, <3>3, <3>4, <3>5, <3>6 DEF Current, Is
  <2>5. CASE GetFn(r) \/ ListFns(r)
    <3>1. count' = count /\ call' = call /\ phase[r] # "new" /\ call[r].op # "logs"
      BY <2>5 DEF GetFn, ListFns, store, Is
    <3>2. reply'[r].view \subseteq {<<g, count[g]>> : g \in live}
      BY <2>5 DEF GetFn, ListFns, Reply, Body, Status, TypeOK
    <3>3. Acked(f, r)' = Acked(f, r)
      BY <3>1, AckedStays
    <3>4. f \in live => /\ count[f] \in Nat /\ count[f] = Cardinality(Invoked(f))
                        /\ Cardinality(Acked(f, r)) <= count[f]
      BY AckedCount DEF NoLostInvocation, TypeOK
    <3>5. ASSUME NEW v \in reply'[r].view, v[1] = f
          PROVE  Cardinality(Acked(f, r)) <= v[2] /\ v[2] <= count[f]
      <4>1. f \in live /\ v[2] = count[f]
        BY <3>2, <3>5
      <4> QED
        BY <3>4, <4>1
    <3> QED
      BY <3>1, <3>3, <3>5 DEF Current, Is
  <2>6. CASE LogsOf(r)
    <3>1. call' = call /\ phase[r] # "new" /\ call[r] \in KnownCalls
      BY <2>6 DEF LogsOf, TypeOK
    <3>2. Acked(f, r)' = Acked(f, r)
      BY <3>1, AckedStays
    <3>3. reply'[r] = IF Id(r) \in live THEN Entries(200, logs[Id(r)]) ELSE Status(404)
      BY <2>6 DEF LogsOf, Reply, TypeOK
    <3>4. reply'[r].view = {}
      BY <3>3 DEF Entries, Status
    <3>5. Id(r) = f /\ reply'[r].status = 200 => f \in live /\ reply'[r].entries = logs[f]
      BY <3>3 DEF Entries, Status
    <3>6. f \in live =>
            \/ Len(logs[f]) = MaxLogs
            \/ \A s \in Acked(f, r) : \E i \in 1 .. Len(logs[f]) : logs[f][i] = s
      <4>1. f \in live => Len(logs[f]) = MaxLogs \/ count[f] <= MaxLogs
        BY DEF LogMatchesCount
      <4> QED
        BY <4>1 DEF NothingDropped, Acked
    <3> QED
      BY <3>1, <3>2, <3>4, <3>5, <3>6 DEF Current, Is, Id
  <2> QED
    BY <2>1, <2>2, <2>3, <2>4, <2>5, <2>6 DEF Step
<1> QED
  BY <1>3, <1>4

-----------------------------------------------------------------------------
(* The theorems *)

LEMMA InitInvariant == Init => IInv
<1> SUFFICES ASSUME Init PROVE IInv
  OBVIOUS
<1>1. TypeOK
  BY InitType
<1>2. FreshIds /\ LogsAreInvocations /\ LogIsHistory /\ RunsOnlyUndeleted
  BY DEF Init, FreshIds, LogsAreInvocations, LogIsHistory, RunsOnlyUndeleted
<1>3. RequestsInOrder
  BY DEF Init, RequestsInOrder, InOrder, NoCall, Is, Status
<1>4. LogMatchesCount /\ NoLostInvocation /\ OldestDroppedFirst /\ DeleteIsFinal
  BY DEF Init, LogMatchesCount, NoLostInvocation, OldestDroppedFirst, DeleteIsFinal
<1>5. CreatorsCameFirst /\ NothingDropped /\ ReadsAreCurrent
  BY DEF Init, CreatorsCameFirst, NothingDropped, ReadsAreCurrent, Status
<1> QED
  BY <1>1, <1>2, <1>3, <1>4, <1>5 DEF IInv

LEMMA StutterKeepsInvariant ==
    ASSUME IInv, UNCHANGED vars
    PROVE  IInv'
<1> USE DEF IInv, vars, Invoked, Deleted, Answered, Is, Id
<1>1. (TypeOK /\ FreshIds /\ RequestsInOrder /\ LogsAreInvocations /\ RunsOnlyUndeleted)'
  BY DEF TypeOK, FreshIds, RequestsInOrder, InOrder, LogsAreInvocations, RunsOnlyUndeleted
<1>2. (LogMatchesCount /\ NoLostInvocation /\ LogIsHistory /\ OldestDroppedFirst)'
  BY DEF LogMatchesCount, NoLostInvocation, LogIsHistory, OldestDroppedFirst
<1>3. (DeleteIsFinal /\ CreatorsCameFirst /\ NothingDropped)'
  BY DEF DeleteIsFinal, CreatorsCameFirst, NothingDropped
<1>4. ReadsAreCurrent'
  BY DEF ReadsAreCurrent
<1> QED
  BY <1>1, <1>2, <1>3, <1>4

\* The invariant is inductive: it holds at the start and every step keeps it.
THEOREM Invariance == Spec => []IInv
<1>1. IInv /\ [Next]_vars => IInv'
  <2> SUFFICES ASSUME IInv, [Next]_vars PROVE IInv'
    OBVIOUS
  <2>1. CASE \E r \in Requests : Step(r)
    <3>1. PICK r \in Requests : Step(r)
      BY <2>1
    <3>2. TypeOK' /\ FreshIds' /\ RequestsInOrder' /\ LogsAreInvocations'
      BY <3>1, StepKeepsType, StepKeepsFresh, StepKeepsOrder, StepKeepsLogs DEF IInv
    <3>3. LogMatchesCount' /\ NoLostInvocation'
      BY <3>1, StepKeepsLogCount, StepKeepsCount DEF IInv
    <3>4. LogIsHistory' /\ OldestDroppedFirst'
      BY <3>1, StepKeepsHistory, StepKeepsOldest DEF IInv
    <3>5. RunsOnlyUndeleted' /\ DeleteIsFinal'
      BY <3>1, StepKeepsRuns, StepKeepsDeletion DEF IInv
    <3>6. CreatorsCameFirst' /\ NothingDropped' /\ ReadsAreCurrent'
      BY <3>1, StepKeepsCreators, StepKeepsWindow, StepKeepsReads DEF IInv
    <3> QED
      BY <3>2, <3>3, <3>4, <3>5, <3>6 DEF IInv
  <2>2. CASE UNCHANGED vars
    BY <2>2, StutterKeepsInvariant
  <2> QED
    BY <2>1, <2>2 DEF Next, Quiescent
<1> QED
  BY InitInvariant, <1>1, PTL DEF Spec

\* The counter and the log of a registered function agree (service.go:118-133).
THEOREM LogMatchesCountAlways == Spec => []LogMatchesCount
BY Invariance, PTL DEF IInv

\* No invocation that ended with a result goes uncounted (service.go:121).
THEOREM NoInvocationLost == Spec => []NoLostInvocation
BY Invariance, PTL DEF IInv

\* A log lists invocations once, none after a later one (service.go:129).
THEOREM LogIsHistoryAlways == Spec => []LogIsHistory
BY Invariance, PTL DEF IInv

\* The window drops the oldest entries first (service.go:130-132).
THEOREM OldestDroppedFirstAlways == Spec => []OldestDroppedFirst
BY Invariance, PTL DEF IInv

\* Nothing a deleted function's clients do brings it back (service.go:120, 157).
THEOREM DeletionIsFinal == Spec => []DeleteIsFinal
BY Invariance, PTL DEF IInv

\* A get, a list or a read of the logs shows every invocation that was answered
\* before it was asked for, and none that has not happened
\* (service.go:48-72, 99, 139-147).
THEOREM ReadsAreCurrentAlways == Spec => []ReadsAreCurrent
BY Invariance, PTL DEF IInv

=============================================================================
