------------------------------ MODULE LogMemory ------------------------------
(***************************************************************************)
(* The memory behind store.logs (internal/serverless/service.go:118-147),  *)
(* which FunctionRegistry takes for a function from ids to sequences: a Go *)
(* map whose values are slices over arrays that are shared and whose keys  *)
(* are strings over the path buffers of HTTP requests.                     *)
(*                                                                         *)
(* Values.  Logs returns the stored slice, and the handler encodes its     *)
(* elements after the lock was released, while invocations append to the   *)
(* same array and reslice it.                                              *)
(*                                                                         *)
(* Keys.  handler.go:67 takes the id from c.Params, which is a string over *)
(* the buffer of the request's fiber.Ctx; the Ctx goes back to a pool with *)
(* the answer, and the next request that gets it writes its own path there.*)
(* A map entry is found by the hash its key had when it was inserted and   *)
(* the bytes the key has now.                                              *)
(*                                                                         *)
(* Critical sections are one step each, as ServerlessService shows.        *)
(***************************************************************************)
EXTENDS Integers, Sequences, FiniteSets

CONSTANTS
    Requests,   \* HTTP requests, each made once
    Ids,        \* the functions, which were created before
    NoId,       \* what a path buffer holds that holds none of the ids
    NoEntry,    \* an element of an array that no append has written
    Ctxs,       \* the fiber.Ctx objects of the pool, a bound on the requests at a time
    MaxLogs     \* log entries kept per function, 100 in the code

ASSUME IdsAssumption     == NoId \notin Ids
ASSUME NoEntryAssumption == NoEntry \notin Requests
ASSUME MaxLogsAssumption == MaxLogs \in Nat \ {0}

VARIABLES
    live,       \* the keys of store.fns
    slots,      \* the entries of the map store.logs
    heap,       \* the backing arrays, in the order of their allocation
    text,       \* the id in the path buffer of each Ctx
    ctx,        \* the Ctx of each request
    pc,         \* how far each request got
    call,       \* its route and :id
    slice,      \* the slice that Logs returned
    sent,       \* the elements that the handler has encoded
    snapshot,   \* history: the elements of slice when Logs returned it
    recorded    \* history: the log that each function should have

vars == <<live, slots, heap, text, ctx, pc, call, slice, sent, snapshot, recorded>>
store == <<live, slots, heap, recorded>>
answer == <<slice, sent, snapshot>>

-----------------------------------------------------------------------------
(* Slices: an array, an offset into it, a length and a capacity *)

Slice(a, o, l, c) == [arr |-> a, off |-> o, len |-> l, cap |-> c]
Nil == Slice(0, 0, 0, 0)

ElementsIn(h, s) == [i \in 1 .. s.len |-> h[s.arr][s.off + i]]
Elements(s) == ElementsIn(heap, s)

\* The capacities that append may give a new array.  The runtime doubles a
\* short one and rounds up to a size class of its allocator: 32 entries of 56
\* bytes grow to 73, 100 to 219.  Any growth to the length that is needed or
\* more, up to three times the old one, is allowed here.
Grown(cap) == cap + 1 .. 3 * cap + 1

\* append(s, x): in place while the capacity lasts, then into a new array.
Pushed(s, x) ==
    IF s.len < s.cap
    THEN {[mem |-> [heap EXCEPT ![s.arr][s.off + s.len + 1] = x],
           top |-> [s EXCEPT !.len = @ + 1]]}
    ELSE {[mem |-> Append(heap, [i \in 1 .. c |-> IF i <= s.len THEN Elements(s)[i]
                                                  ELSE IF i = s.len + 1 THEN x
                                                  ELSE NoEntry]),
           top |-> Slice(Len(heap) + 1, 0, s.len + 1, c)] : c \in Grown(s.cap)}

\* Mutants of Trimmed: the window is never cut; the entries are moved to the
\* front of the array, copy(l, l[len(l)-100:]).
TrimmedNever(p) == p
TrimmedInPlace(p) ==
    LET s == p.top
        d == s.len - MaxLogs
    IN  IF d <= 0 THEN p
        ELSE [mem |-> [p.mem EXCEPT ![s.arr] =
                          [i \in DOMAIN @ |-> IF i \in s.off + 1 .. s.off + MaxLogs
                                              THEN @[i + d] ELSE @[i]]],
              top |-> [s EXCEPT !.len = MaxLogs]]

\* l[len(l)-100:] moves the offset; no element is copied.
Trimmed(p) ==
    LET s == p.top
        d == s.len - MaxLogs
    IN  IF d <= 0 THEN p
        ELSE [p EXCEPT !.top = Slice(s.arr, s.off + d, MaxLogs, s.cap - d)]

-----------------------------------------------------------------------------
(* The map: entries with the hash of the key as inserted, and its bytes now *)

Key(k) == text[slots[k].buf]

\* The entries that an assignment or a deletion for id matches.
Own(id) == {k \in 1 .. Len(slots) : slots[k].born = id /\ Key(k) = id}

\* What a read for id may return.  An entry of another hash whose key reads id
\* by now may be taken for it: a map of a single bucket is searched without the
\* hash by some versions of the runtime.
Found(id) ==
    {slots[k].val : k \in {j \in 1 .. Len(slots) : Key(j) = id}}
    \cup (IF Own(id) = {} THEN {Nil} ELSE {})

-----------------------------------------------------------------------------

Calls == [op : {"invoke", "logs", "delete"}, id : Ids] \cup [op : {"other"}, id : {NoId}]
NoCall == [op |-> "none", id |-> NoId]

Goto(r, l) == pc' = [pc EXCEPT ![r] = l]
Id(r) == call[r].id
Serving == {r \in Requests : pc[r] \in {"received", "running", "encoding"}}

Init ==
    /\ live = Ids /\ slots = << >> /\ heap = << >>
    /\ text = [c \in Ctxs |-> NoId]
    /\ ctx \in [Requests -> Ctxs] /\ \A r, s \in Requests : ctx[r] = ctx[s]
    /\ pc = [r \in Requests |-> "new"]
    /\ call = [r \in Requests |-> NoCall]
    /\ slice = [r \in Requests |-> Nil]
    /\ sent = [r \in Requests |-> << >>]
    /\ snapshot = [r \in Requests |-> << >>]
    /\ recorded = [f \in Ids |-> << >>]

\* A Ctx is taken from the pool and the path of r written to its buffer.  A
\* path without an :id is shorter, and leaves the bytes of the old one, or has
\* other bytes there.
Receive(r) ==
    /\ pc[r] = "new"
    /\ \E c \in Ctxs \ {ctx[s] : s \in Serving}, x \in Calls :
          /\ ctx' = [ctx EXCEPT ![r] = c]
          /\ call' = [call EXCEPT ![r] = x]
          /\ text' = [text EXCEPT ![c] = x.id]
          /\ Goto(r, IF x.op = "other" THEN "answered" ELSE "received")
    /\ UNCHANGED <<store, answer>>

NotFound(r) ==
    /\ pc[r] = "received" /\ Id(r) \notin live
    /\ Goto(r, "answered")
    /\ UNCHANGED <<store, text, ctx, call, answer>>

InvokeStart(r) ==
    /\ pc[r] = "received" /\ call[r].op = "invoke" /\ Id(r) \in live
    /\ Goto(r, "running")
    /\ UNCHANGED <<store, text, ctx, call, answer>>

\* The runner returned an error: nothing is recorded.
InvokeFail(r) ==
    /\ pc[r] = "running"
    /\ Goto(r, "answered")
    /\ UNCHANGED <<store, text, ctx, call, answer>>

\* m[id] = append(m[id], e) is one lookup, and it puts the string of r in the
\* place of the key it found; the reslice then finds the same entry.
InvokeRecord(r) ==
    /\ pc[r] = "running"
    /\ \E k \in Own(Id(r)) \cup (IF Own(Id(r)) = {} THEN {Len(slots) + 1} ELSE {}) :
       \E p \in Pushed(IF k \in Own(Id(r)) THEN slots[k].val ELSE Nil, r) :
          /\ heap' = Trimmed(p).mem
          /\ slots' = [j \in 1 .. Len(slots) \cup {k} |->
                          IF j = k THEN [born |-> Id(r), buf |-> ctx[r], val |-> Trimmed(p).top]
                          ELSE slots[j]]
    /\ recorded' = [recorded EXCEPT ![Id(r)] =
                       LET l == Append(@, r)
                       IN  SubSeq(l, IF Len(l) > MaxLogs THEN 2 ELSE 1, Len(l))]
    /\ Goto(r, "answered")
    /\ UNCHANGED <<live, text, ctx, call, answer>>

Logs(r) ==
    /\ pc[r] = "received" /\ call[r].op = "logs" /\ Id(r) \in live
    /\ \E s \in Found(Id(r)) :
          /\ slice' = [slice EXCEPT ![r] = s]
          /\ snapshot' = [snapshot EXCEPT ![r] = Elements(s)]
    /\ Goto(r, "encoding")
    /\ UNCHANGED <<store, text, ctx, call, sent>>

\* response.OK encodes the slice element by element, without the lock.
Encode(r) ==
    /\ pc[r] = "encoding"
    /\ IF Len(sent[r]) = slice[r].len
       THEN Goto(r, "answered") /\ UNCHANGED sent
       ELSE /\ sent' = [sent EXCEPT ![r] = Append(@, Elements(slice[r])[Len(@) + 1])]
            /\ UNCHANGED pc
    /\ UNCHANGED <<store, text, ctx, call, slice, snapshot>>

Delete(r) ==
    /\ pc[r] = "received" /\ call[r].op = "delete" /\ Id(r) \in live
    /\ live' = live \ {Id(r)}
    /\ IF Own(Id(r)) = {} THEN UNCHANGED slots
       ELSE \E k \in Own(Id(r)) :
               slots' = SubSeq(slots, 1, k - 1) \o SubSeq(slots, k + 1, Len(slots))
    /\ recorded' = [recorded EXCEPT ![Id(r)] = << >>]
    /\ Goto(r, "answered")
    /\ UNCHANGED <<heap, text, ctx, call, answer>>

\* Every request of the instance is answered: the server waits for more.
Quiescent == (\A r \in Requests : pc[r] = "answered") /\ UNCHANGED vars

Next ==
    \/ \E r \in Requests :
          \/ Receive(r) \/ NotFound(r) \/ InvokeStart(r) \/ InvokeFail(r) \/ InvokeRecord(r)
          \/ Logs(r) \/ Encode(r) \/ Delete(r)
    \/ Quiescent

Spec == Init /\ [][Next]_vars

-----------------------------------------------------------------------------
(* Properties *)

TypeOK ==
    /\ live \subseteq Ids
    /\ \A k \in 1 .. Len(slots) :
          /\ slots[k].born \in Ids /\ slots[k].buf \in Ctxs
          /\ slots[k].val.arr \in 1 .. Len(heap)
          /\ slots[k].val.off + slots[k].val.cap = Len(heap[slots[k].val.arr])
          /\ slots[k].val.len \in 1 .. MaxLogs /\ slots[k].val.len <= slots[k].val.cap
    /\ \A a \in 1 .. Len(heap) : heap[a] \in Seq(Requests \cup {NoEntry})
    /\ text \in [Ctxs -> Ids \cup {NoId}]
    /\ ctx \in [Requests -> Ctxs]
    /\ pc \in [Requests -> {"new", "received", "running", "encoding", "answered"}]
    /\ call \in [Requests -> Calls \cup {NoCall}]

\* What the handler encodes, without the lock and while invocations append to
\* the same array, are the elements that the slice had when Logs returned it,
\* in spite of every append and reslice in between (service.go:129-132, 146).
EncodedIsSnapshot ==
    \A r \in Requests : sent[r] = SubSeq(snapshot[r], 1, Len(sent[r]))

\* A window that slides over its array does not keep ever more memory: append
\* copies only what the window holds, so that no array outgrows a constant
\* multiple of the window, however many invocations are recorded
\* (service.go:129-132).
StorageIsBounded == \A a \in 1 .. Len(heap) : Len(heap[a]) <= 3 * MaxLogs + 1

\* "Logs returns recent execution logs for a function" (service.go:138): the
\* entries of that function's last invocations, and all of them.
LogsAreTheFunctions ==
    [][\A r \in Requests :
          pc[r] = "received" /\ pc'[r] = "encoding" => snapshot'[r] = recorded[Id(r)]]_vars

=============================================================================
