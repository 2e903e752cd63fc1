--------------------------- MODULE LogMemoryProofs ---------------------------
(***************************************************************************)
(* Proofs about LogMemory: what is read without the lock is never written, *)
(* for any requests, functions, path buffers and length of the window.     *)
(***************************************************************************)
EXTENDS LogMemory, TLAPS, SequenceTheorems

Slices == [arr : Nat, off : Nat, len : Nat, cap : Nat]
Entries == [born : Ids, buf : Ctxs, val : Slices]
Arrays == Seq(Requests \cup {NoEntry})

Types ==
    /\ live \in SUBSET Ids
    /\ slots \in Seq(Entries)
    /\ heap \in Seq(Arrays)
    /\ text \in [Ctxs -> Ids \cup {NoId}]
    /\ ctx \in [Requests -> Ctxs]
    /\ pc \in [Requests -> {"new", "received", "running", "encoding", "answered"}]
    /\ call \in [Requests -> Calls \cup {NoCall}]
    /\ slice \in [Requests -> Slices]
    /\ sent \in [Requests -> Arrays]
    /\ snapshot \in [Requests -> Arrays]

\* A stored slice reaches to the end of its array and holds a window.
Stored(mem, s) ==
    /\ s.arr \in 1 .. Len(mem)
    /\ s.off + s.cap = Len(mem[s.arr])
    /\ s.len \in 1 .. MaxLogs /\ s.len <= s.cap

\* No two entries of the map append to one array.
OwnArrays ==
    \A j, k \in 1 .. Len(slots) : slots[j].val.arr = slots[k].val.arr => j = k

\* A slice that was handed out ends where the entry of its array does, or
\* before: the next append is behind it.
BehindTop(s) ==
    \A k \in 1 .. Len(slots) :
        slots[k].val.arr = s.arr => s.off + s.len <= slots[k].val.off + slots[k].val.len

Handed(r) ==
    /\ slice[r].len > 0 => /\ slice[r].arr \in 1 .. Len(heap)
                           /\ slice[r].off + slice[r].len <= Len(heap[slice[r].arr])
                           /\ BehindTop(slice[r])
    /\ Len(snapshot[r]) = slice[r].len
    /\ \A i \in 1 .. slice[r].len : snapshot[r][i] = heap[slice[r].arr][slice[r].off + i]
    /\ Len(sent[r]) <= Len(snapshot[r])
    /\ \A i \in 1 .. Len(sent[r]) : sent[r][i] = snapshot[r][i]
    /\ pc[r] \in {"new", "received"} => sent[r] = << >>
    /\ pc[r] \in {"received", "running", "encoding"} => Id(r) \in Ids

IInv ==
    /\ Types /\ OwnArrays /\ StorageIsBounded
    /\ \A k \in 1 .. Len(slots) : Stored(heap, slots[k].val)
    /\ \A r \in Requests : Handed(r)

-----------------------------------------------------------------------------
(* Sequences *)

\* A function on the first n naturals is a sequence of length n.
LEMMA FunctionIsSeq ==
    ASSUME NEW S, NEW n \in Nat, NEW f \in [1 .. n -> S]
    PROVE  f \in Seq(S) /\ Len(f) = n
OBVIOUS

\* A sequence without its k-th element.
Without(s, k) == SubSeq(s, 1, k - 1) \o SubSeq(s, k + 1, Len(s))

\* The others are its elements before k, and those behind k one place down.
LEMMA WithoutOne ==
    ASSUME NEW S, NEW s \in Seq(S), NEW k \in 1 .. Len(s)
    PROVE  /\ Without(s, k) \in Seq(S) /\ Len(Without(s, k)) = Len(s) - 1
           /\ \A i \in 1 .. Len(s) - 1 : Without(s, k)[i] = s[IF i < k THEN i ELSE i + 1]
<1>1. Len(s) \in Nat /\ k \in Nat /\ k - 1 \in Nat
  OBVIOUS
<1>2. /\ SubSeq(s, 1, k - 1) \in Seq(S) /\ Len(SubSeq(s, 1, k - 1)) = k - 1
      /\ \A i \in 1 .. k - 1 : SubSeq(s, 1, k - 1)[i] = s[i]
  <2>1. \A i \in 1 .. k - 1 : s[i] \in S
    OBVIOUS
  <2> QED
    BY <1>1, <2>1, SubSeqProperties
<1>3. /\ SubSeq(s, k + 1, Len(s)) \in Seq(S) /\ Len(SubSeq(s, k + 1, Len(s))) = Len(s) - k
      /\ \A i \in 1 .. Len(s) - k : SubSeq(s, k + 1, Len(s))[i] = s[i + k]
  <2>1. \A i \in k + 1 .. Len(s) : s[i] \in S
    OBVIOUS
  <2> QED
    BY <1>1, <2>1, SubSeqProperties
<1>4. PICK low \in Seq(S) : low = SubSeq(s, 1, k - 1)
  BY <1>2
<1>5. PICK high \in Seq(S) : high = SubSeq(s, k + 1, Len(s))
  BY <1>3
<1>6. Len(low) = k - 1 /\ \A i \in 1 .. k - 1 : low[i] = s[i]
  BY <1>2, <1>4
<1>7. Len(high) = Len(s) - k /\ \A i \in 1 .. Len(s) - k : high[i] = s[i + k]
  BY <1>3, <1>5
<1>8. PICK t \in Seq(S) : /\ t = Without(s, k) /\ Len(t) = Len(low) + Len(high)
                          /\ \A i \in 1 .. Len(low) + Len(high) :
                                t[i] = IF i <= Len(low) THEN low[i] ELSE high[i - Len(low)]
  <2>1. Without(s, k) = low \o high
    BY <1>4, <1>5 DEF Without
  <2>2. /\ low \o high \in Seq(S) /\ Len(low \o high) = Len(low) + Len(high)
        /\ \A i \in 1 .. Len(low) + Len(high) :
              (low \o high)[i] = IF i <= Len(low) THEN low[i] ELSE high[i - Len(low)]
    BY ConcatProperties
  <2> QED
    BY <2>1, <2>2
<1>9. Len(t) = Len(s) - 1 /\ Len(low) + Len(high) = Len(s) - 1
  BY <1>1, <1>6, <1>7, <1>8
<1>10. ASSUME NEW i \in 1 .. Len(s) - 1
       PROVE  t[i] = s[IF i < k THEN i ELSE i + 1]
  <2>1. t[i] = IF i <= k - 1 THEN low[i] ELSE high[i - (k - 1)]
    BY <1>6, <1>8, <1>9
  <2>2. CASE i < k
    <3>1. i \in 1 .. k - 1
      BY <2>2, <1>1
    <3> QED
      BY <1>6, <2>1, <2>2, <3>1
  <2>3. CASE i >= k
    <3>1. i - (k - 1) \in 1 .. Len(s) - k /\ i - (k - 1) + k = i + 1 /\ ~(i <= k - 1) /\ ~(i < k)
      BY <1>1, <2>3
    <3>2. high[i - (k - 1)] = s[i - (k - 1) + k]
      BY <1>7, <3>1
    <3> QED
      BY <2>1, <3>1, <3>2
  <2> QED
    BY <1>1, <2>2, <2>3
<1> QED
  BY <1>8, <1>9, <1>10

-----------------------------------------------------------------------------
(* append and the reslice *)

\* What append does: its slice holds one element more, in the array that it
\* had or in a new one, and one cell is written that lay behind its last element.
Extended(s, p) ==
    /\ p.mem \in Seq(Arrays) /\ p.top \in Slices
    /\ \A a \in 1 .. Len(p.mem) : Len(p.mem[a]) <= 3 * MaxLogs + 1
    /\ Len(heap) <= Len(p.mem)
    /\ \A a \in 1 .. Len(heap) : Len(p.mem[a]) = Len(heap[a])
    /\ \A a \in 1 .. Len(heap) : \A j \in 1 .. Len(heap[a]) :
          p.mem[a][j] # heap[a][j] => a = s.arr /\ j = s.off + s.len + 1
    /\ p.top.arr \in 1 .. Len(p.mem)
    /\ p.top.off + p.top.cap = Len(p.mem[p.top.arr])
    /\ p.top.len = s.len + 1 /\ p.top.len <= p.top.cap
    /\ (p.top.arr = s.arr /\ p.top.off = s.off) \/ p.top.arr = Len(heap) + 1

\* While the capacity lasts, append writes the element behind the slice's top
\* and nothing else.
LEMMA AppendInPlace ==
    ASSUME heap \in Seq(Arrays), StorageIsBounded, NEW s \in Slices, Stored(heap, s),
           s.len < s.cap, NEW x \in Requests, NEW p \in Pushed(s, x)
    PROVE  Extended(s, p)
<1> DEFINE a == s.arr
           i == s.off + s.len + 1
<1>1. /\ p.mem = [heap EXCEPT ![a] = [heap[a] EXCEPT ![i] = x]]
      /\ p.top = [s EXCEPT !.len = @ + 1]
  BY DEF Pushed
<1>2. a \in 1 .. Len(heap) /\ heap[a] \in Arrays /\ i \in 1 .. Len(heap[a])
  BY DEF Stored, Slices
<1> DEFINE new == [heap[a] EXCEPT ![i] = x]
<1>3. /\ new \in Arrays /\ Len(new) = Len(heap[a])
      /\ \A j \in 1 .. Len(heap[a]) : j # i => new[j] = heap[a][j]
  BY <1>2, ExceptSeq DEF Arrays
<1> HIDE DEF new
<1>4. /\ p.mem \in Seq(Arrays) /\ Len(p.mem) = Len(heap)
      /\ \A b \in 1 .. Len(heap) : p.mem[b] = IF b = a THEN new ELSE heap[b]
  BY <1>1, <1>2, <1>3, ExceptSeq DEF new
<1>5. p.top \in Slices /\ p.top.arr = a /\ p.top.off = s.off /\ p.top.cap = s.cap /\ p.top.len = s.len + 1
  BY <1>1 DEF Slices
<1>6. s.off + s.cap = Len(heap[a])
  BY DEF Stored
<1>7. \A b \in 1 .. Len(heap) : Len(p.mem[b]) = Len(heap[b])
  BY <1>3, <1>4
<1>8. \A b \in 1 .. Len(heap) : \A j \in 1 .. Len(heap[b]) :
          p.mem[b][j] # heap[b][j] => b = a /\ j = i
  BY <1>3, <1>4
<1>9. \A b \in 1 .. Len(p.mem) : Len(p.mem[b]) <= 3 * MaxLogs + 1
  BY <1>4, <1>7 DEF StorageIsBounded
<1>10. p.top.off + p.top.cap = Len(p.mem[p.top.arr])
  BY <1>2, <1>5, <1>6, <1>7
<1>11. p.top.len <= p.top.cap /\ Len(heap) <= Len(p.mem)
  BY <1>4, <1>5 DEF Slices
<1> HIDE DEF a, i
<1> QED
  BY <1>2, <1>4, <1>5, <1>7, <1>8, <1>9, <1>10, <1>11 DEF Extended, a, i

\* Beyond the capacity it writes a new array and none that is in use.
LEMMA AppendInNew ==
    ASSUME heap \in Seq(Arrays), StorageIsBounded, NEW s \in Slices, s = Nil \/ Stored(heap, s),
           ~(s.len < s.cap), NEW x \in Requests, NEW p \in Pushed(s, x)
    PROVE  Extended(s, p)
<1>1. s.len = s.cap /\ s.len \in 0 .. MaxLogs
  BY MaxLogsAssumption DEF Nil, Slice, Stored, Slices
<1>2. PICK c \in Grown(s.cap) :
          /\ p.mem = Append(heap, [i \in 1 .. c |-> IF i <= s.len THEN Elements(s)[i]
                                                   ELSE IF i = s.len + 1 THEN x ELSE NoEntry])
          /\ p.top = Slice(Len(heap) + 1, 0, s.len + 1, c)
  <2> DEFINE mem(c) == Append(heap, [i \in 1 .. c |-> IF i <= s.len THEN Elements(s)[i]
                                                    ELSE IF i = s.len + 1 THEN x ELSE NoEntry])
             top(c) == Slice(Len(heap) + 1, 0, s.len + 1, c)
  <2>1. Pushed(s, x) = {[mem |-> mem(c), top |-> top(c)] : c \in Grown(s.cap)}
    BY Zenon DEF Pushed
  <2> HIDE DEF mem, top
  <2>2. \E c \in Grown(s.cap) : p = [mem |-> mem(c), top |-> top(c)]
    BY <2>1
  <2>3. \E c \in Grown(s.cap) : p.mem = mem(c) /\ p.top = top(c)
    BY <2>2
  <2> QED
    BY <2>3, Zenon DEF mem, top
<1>3. c \in Nat /\ s.len + 1 <= c /\ c <= 3 * MaxLogs + 1
  BY <1>1, MaxLogsAssumption DEF Grown, Slices
<1> DEFINE new == [i \in 1 .. c |-> IF i <= s.len THEN Elements(s)[i]
                                    ELSE IF i = s.len + 1 THEN x ELSE NoEntry]
<1>4. \A i \in 1 .. s.len : Elements(s)[i] \in Requests \cup {NoEntry}
  <2>1. CASE s = Nil
    BY <2>1 DEF Nil, Slice
  <2>2. CASE Stored(heap, s)
    <3> SUFFICES ASSUME NEW i \in 1 .. s.len PROVE Elements(s)[i] \in Requests \cup {NoEntry}
      OBVIOUS
    <3>1. heap[s.arr] \in Arrays /\ s.off + i \in 1 .. Len(heap[s.arr])
      BY <2>2 DEF Stored, Slices
    <3> QED
      BY <3>1 DEF Elements, ElementsIn, Arrays
  <2> QED
    BY <2>1, <2>2
<1>5. new \in Arrays /\ Len(new) = c
  <2>1. new \in [1 .. c -> Requests \cup {NoEntry}]
    BY <1>4
  <2> HIDE DEF new
  <2> QED
    BY <1>3, <2>1, FunctionIsSeq DEF Arrays
<1> HIDE DEF new
<1>6. /\ p.mem \in Seq(Arrays) /\ Len(p.mem) = Len(heap) + 1
      /\ p.mem[Len(heap) + 1] = new /\ \A b \in 1 .. Len(heap) : p.mem[b] = heap[b]
  BY <1>2, <1>5 DEF new
<1>7. /\ p.top \in Slices /\ p.top.arr = Len(heap) + 1 /\ p.top.off = 0
      /\ p.top.cap = c /\ p.top.len = s.len + 1
  BY <1>2, <1>3, <1>1 DEF Slices, Slice
<1>8. Len(heap) \in Nat
  OBVIOUS
<1>9. \A b \in 1 .. Len(p.mem) : Len(p.mem[b]) <= 3 * MaxLogs + 1
  BY <1>3, <1>5, <1>6, <1>8 DEF StorageIsBounded
<1>10. /\ \A b \in 1 .. Len(heap) : Len(p.mem[b]) = Len(heap[b])
       /\ \A b \in 1 .. Len(heap) : \A j \in 1 .. Len(heap[b]) : p.mem[b][j] = heap[b][j]
  BY <1>6
<1>11. p.top.off + p.top.cap = Len(p.mem[p.top.arr]) /\ p.top.len <= p.top.cap
  BY <1>3, <1>5, <1>6, <1>7
<1>12. p.top.arr \in 1 .. Len(p.mem) /\ Len(heap) <= Len(p.mem)
  BY <1>6, <1>7, <1>8
<1> QED
  BY <1>6, <1>7, <1>9, <1>10, <1>11, <1>12 DEF Extended

\* The slice and the memory after an invocation has recorded itself.
LEMMA Recorded ==
    ASSUME heap \in Seq(Arrays), StorageIsBounded, NEW s \in Slices, s = Nil \/ Stored(heap, s),
           NEW x \in Requests, NEW p \in Pushed(s, x)
    PROVE  /\ Extended(s, p) /\ Trimmed(p).mem = p.mem
           /\ Trimmed(p).top \in Slices /\ Stored(p.mem, Trimmed(p).top)
           /\ Trimmed(p).top.arr = p.top.arr
           /\ Trimmed(p).top.off + Trimmed(p).top.len = p.top.off + p.top.len
<1>1. Extended(s, p)
  <2>1. s = Nil => ~(s.len < s.cap)
    BY DEF Nil, Slice
  <2> QED
    BY <2>1, AppendInPlace, AppendInNew
<1>2. p.top \in Slices /\ p.top.len \in 1 .. MaxLogs + 1 /\ p.top.len <= p.top.cap
  BY <1>1, MaxLogsAssumption DEF Extended, Stored, Nil, Slice, Slices
<1>3. CASE p.top.len <= MaxLogs
  <2>1. Trimmed(p) = p
    BY <1>2, <1>3, MaxLogsAssumption DEF Trimmed, Slices
  <2> QED
    BY <1>1, <1>2, <1>3, <2>1 DEF Extended, Stored
<1>4. CASE p.top.len > MaxLogs
  <2>1. p.top.len - MaxLogs = 1
    BY <1>2, <1>4, MaxLogsAssumption
  <2>2. Trimmed(p) = [p EXCEPT !.top = Slice(p.top.arr, p.top.off + 1, MaxLogs, p.top.cap - 1)]
    <3>1. ~(p.top.len - MaxLogs <= 0)
      BY <2>1
    <3> QED
      BY <2>1, <3>1 DEF Trimmed
  <2>3. Trimmed(p).mem = p.mem
        /\ Trimmed(p).top = Slice(p.top.arr, p.top.off + 1, MaxLogs, p.top.cap - 1)
    <3>1. \E m, t : p = [mem |-> m, top |-> t]
      BY DEF Pushed
    <3> QED
      BY <2>2, <3>1
  <2>4. /\ p.top.arr \in Nat /\ p.top.off \in Nat /\ p.top.cap \in Nat /\ p.top.len \in Nat
        /\ MaxLogs \in Nat \ {0} /\ p.top.len = MaxLogs + 1 /\ MaxLogs + 1 <= p.top.cap
    BY <1>2, <2>1, MaxLogsAssumption DEF Slices
  <2>5. /\ Trimmed(p).top \in Slices
        /\ Trimmed(p).top.arr = p.top.arr /\ Trimmed(p).top.off = p.top.off + 1
        /\ Trimmed(p).top.len = MaxLogs /\ Trimmed(p).top.cap = p.top.cap - 1
    BY <2>3, <2>4, SMTT(30) DEF Slices, Slice
  <2>6. p.top.arr \in 1 .. Len(p.mem) /\ p.top.off + p.top.cap = Len(p.mem[p.top.arr])
    BY <1>1 DEF Extended
  <2>7. Stored(p.mem, Trimmed(p).top)
    <3>1. Trimmed(p).top.off + Trimmed(p).top.cap = p.top.off + p.top.cap
      <4>1. PICK o \in Nat, c \in Nat : p.top.off = o /\ p.top.cap = c
        BY <2>4
      <4>2. (o + 1) + (c - 1) = o + c
        OBVIOUS
      <4> QED
        BY <2>5, <4>1, <4>2
    <3>2. /\ Trimmed(p).top.len \in 1 .. MaxLogs
          /\ Trimmed(p).top.len <= Trimmed(p).top.cap
      BY <2>4, <2>5
    <3> QED
      BY <2>5, <2>6, <3>1, <3>2 DEF Stored
  <2> QED
    BY <1>1, <2>3, <2>4, <2>5, <2>7, SMTT(30)
<1> QED
  BY <1>2, <1>3, <1>4, MaxLogsAssumption DEF Slices

-----------------------------------------------------------------------------
(* The steps of the handlers *)

\* What the calls of the run have for ids.
LEMMA CallTypes == \A c \in Calls : c.id \in Ids \cup {NoId} /\ (c.op # "other" => c.id \in Ids)
BY DEF Calls

\* A request that is in a handler has the id of a function.
LEMMA InHandler ==
    ASSUME IInv, NEW r \in Requests, pc[r] \in {"received", "running", "encoding"}
    PROVE  Id(r) \in Ids
BY DEF IInv, Handed

\* Nothing that Handed speaks of changes but how far the request got.
LEMMA HandedStays ==
    ASSUME NEW r \in Requests, Handed(r), UNCHANGED <<heap, slots>>,
           slice'[r] = slice[r], snapshot'[r] = snapshot[r], sent'[r] = sent[r],
           pc'[r] \in {"new", "received"} => pc[r] \in {"new", "received"},
           pc'[r] \in {"received", "running", "encoding"} => call'[r].id \in Ids
    PROVE  Handed(r)'
BY DEF Handed, BehindTop, Id

\* What the map and the memory say stays, if both do.
LEMMA StoreStays ==
    ASSUME IInv, UNCHANGED <<heap, slots>>
    PROVE  /\ OwnArrays' /\ StorageIsBounded'
           /\ \A k \in 1 .. Len(slots') : Stored(heap', slots'[k].val)
BY DEF IInv, OwnArrays, StorageIsBounded, Stored

\* The steps that touch neither the map nor the memory nor what is handed out.
LEMMA HandlerKeeps ==
    ASSUME IInv, NEW r \in Requests, Receive(r) \/ NotFound(r) \/ InvokeStart(r) \/ InvokeFail(r)
    PROVE  IInv'
<1> Types
  BY DEF IInv
<1>1. UNCHANGED <<live, slots, heap, slice, sent, snapshot>>
  BY DEF Receive, NotFound, InvokeStart, InvokeFail, store, answer
<1>2. CASE Receive(r)
  <2>1. PICK c \in Ctxs, x \in Calls :
            /\ ctx' = [ctx EXCEPT ![r] = c] /\ call' = [call EXCEPT ![r] = x]
            /\ text' = [text EXCEPT ![c] = x.id]
            /\ Goto(r, IF x.op = "other" THEN "answered" ELSE "received")
    BY <1>2 DEF Receive
  <2>2. pc[r] = "new" /\ x.id \in Ids \cup {NoId} /\ (x.op # "other" => x.id \in Ids)
    BY <1>2, CallTypes DEF Receive
  <2>3. Types'
    <3>1. text' \in [Ctxs -> Ids \cup {NoId}]
      BY <2>1, <2>2 DEF Types
    <3>2. ctx' \in [Requests -> Ctxs]
      BY <2>1 DEF Types
    <3>3. call' \in [Requests -> Calls \cup {NoCall}]
      BY <2>1 DEF Types
    <3>4. pc' \in [Requests -> {"new", "received", "running", "encoding", "answered"}]
      BY <2>1 DEF Types, Goto
    <3> QED
      BY <1>1, <3>1, <3>2, <3>3, <3>4 DEF Types
  <2>4. ASSUME NEW q \in Requests PROVE Handed(q)'
    <3>1. Handed(q)
      BY DEF IInv
    <3>2. q # r => pc'[q] = pc[q] /\ call'[q] = call[q]
      BY <2>1 DEF Types, Goto
    <3>3. q = r => pc'[q] = (IF x.op = "other" THEN "answered" ELSE "received") /\ call'[q] = x
      BY <2>1 DEF Types, Goto
    <3>4. pc'[q] \in {"new", "received"} => pc[q] \in {"new", "received"}
      BY <2>2, <3>2
    <3>5. pc'[q] \in {"received", "running", "encoding"} => call'[q].id \in Ids
      BY <2>2, <3>1, <3>2, <3>3 DEF Handed, Id
    <3> QED
      BY <1>1, <3>1, <3>4, <3>5, HandedStays
  <2> QED
    BY <1>1, <2>3, <2>4, StoreStays DEF IInv
<1>3. CASE NotFound(r) \/ InvokeStart(r) \/ InvokeFail(r)
  <2>1. /\ pc[r] \in {"received", "running"} /\ (Goto(r, "answered") \/ Goto(r, "running"))
        /\ UNCHANGED <<text, ctx, call>>
    BY <1>3 DEF NotFound, InvokeStart, InvokeFail
  <2>2. Types'
    BY <1>1, <2>1 DEF Types, Goto
  <2>3. ASSUME NEW q \in Requests PROVE Handed(q)'
    <3>1. Handed(q)
      BY DEF IInv
    <3>2. /\ q # r => pc'[q] = pc[q]
          /\ q = r => pc'[q] \in {"answered", "running"}
      BY <2>1 DEF Types, Goto
    <3>3. pc'[q] \in {"received", "running", "encoding"} => call'[q].id \in Ids
      BY <2>1, <3>1, <3>2 DEF Handed, Id
    <3> QED
      BY <1>1, <3>1, <3>2, <3>3, HandedStays
  <2> QED
    BY <1>1, <2>2, <2>3, StoreStays DEF IInv
<1> QED
  BY <1>2, <1>3

\* Logs hands out what an entry holds now: its last element is its top.
LEMMA LogsKeeps ==
    ASSUME IInv, NEW r \in Requests, Logs(r)
    PROVE  IInv'
<1> Types
  BY DEF IInv
<1>1. PICK s \in Found(Id(r)) :
          slice' = [slice EXCEPT ![r] = s] /\ snapshot' = [snapshot EXCEPT ![r] = Elements(s)]
  BY DEF Logs
<1>2. /\ UNCHANGED <<live, slots, heap, text, ctx, call, sent>>
      /\ pc[r] = "received" /\ pc' = [pc EXCEPT ![r] = "encoding"]
  BY DEF Logs, store, Goto
<1>3. s = Nil \/ \E k \in 1 .. Len(slots) : s = slots[k].val
  BY DEF Found
<1>4. s \in Slices
  <2>1. CASE s = Nil
    BY <2>1 DEF Nil, Slice, Slices
  <2>2. CASE \E k \in 1 .. Len(slots) : s = slots[k].val
    <3>1. PICK k \in 1 .. Len(slots) : s = slots[k].val
      BY <2>2
    <3>2. slots[k] \in Entries
      BY <3>1 DEF Types
    <3> QED
      BY <3>1, <3>2 DEF Entries
  <2> QED
    BY <1>3, <2>1, <2>2
<1>5. /\ s.len > 0 => /\ s.arr \in 1 .. Len(heap)
                      /\ s.off + s.len <= Len(heap[s.arr])
                      /\ BehindTop(s)
  <2>1. CASE s = Nil
    BY <2>1 DEF Nil, Slice
  <2>2. CASE s # Nil
    <3>1. PICK k \in 1 .. Len(slots) : s = slots[k].val
      BY <1>3, <2>2
    <3>2. Stored(heap, s)
      BY <3>1 DEF IInv
    <3>3. s.off + s.len <= Len(heap[s.arr])
      BY <1>4, <3>2 DEF Stored, Slices
    <3>4. BehindTop(s)
      BY <1>4, <3>1 DEF BehindTop, IInv, OwnArrays, Slices
    <3> QED
      BY <3>2, <3>3, <3>4 DEF Stored
  <2> QED
    BY <2>1, <2>2
<1>6. /\ Elements(s) \in Arrays /\ Len(Elements(s)) = s.len
      /\ \A i \in 1 .. s.len : Elements(s)[i] = heap[s.arr][s.off + i]
  <2>1. \A i \in 1 .. s.len : heap[s.arr][s.off + i] \in Requests \cup {NoEntry}
    <3> SUFFICES ASSUME NEW i \in 1 .. s.len
                 PROVE  heap[s.arr][s.off + i] \in Requests \cup {NoEntry}
      OBVIOUS
    <3>1. heap[s.arr] \in Arrays /\ s.off + i \in 1 .. Len(heap[s.arr])
      BY <1>4, <1>5, SMTT(30) DEF Types, Slices
    <3> QED
      BY <3>1 DEF Arrays
  <2>2. Elements(s) \in [1 .. s.len -> Requests \cup {NoEntry}]
    BY <2>1 DEF Elements, ElementsIn
  <2> QED
    BY <1>4, <2>2, FunctionIsSeq DEF Elements, ElementsIn, Arrays, Slices
<1>7. Types'
  <2>1. slice' \in [Requests -> Slices]
    BY <1>1, <1>4 DEF Types
  <2>2. snapshot' \in [Requests -> Arrays]
    BY <1>1, <1>6 DEF Types
  <2>3. pc' \in [Requests -> {"new", "received", "running", "encoding", "answered"}]
    BY <1>2 DEF Types
  <2> QED
    BY <1>2, <2>1, <2>2, <2>3 DEF Types
<1>8. Handed(r)'
  <2>1. slice'[r] = s /\ snapshot'[r] = Elements(s) /\ pc'[r] = "encoding"
    BY <1>1, <1>2 DEF Types
  <2>2. sent'[r] = << >>
    BY <1>2 DEF IInv, Handed
  <2>3. Id(r) \in Ids
    BY <1>2, InHandler
  <2>4. BehindTop(s)' <=> BehindTop(s)
    BY <1>2 DEF BehindTop
  <2>5. Len(sent'[r]) = 0 /\ s.len \in Nat
    BY <1>4, <2>2 DEF Slices
  <2> QED
    BY <1>2, <1>5, <1>6, <2>1, <2>2, <2>3, <2>4, <2>5 DEF Handed, Id, BehindTop
<1>9. ASSUME NEW q \in Requests \ {r} PROVE Handed(q)'
  <2>1. Handed(q)
    BY DEF IInv
  <2>2. pc'[q] = pc[q] /\ slice'[q] = slice[q] /\ snapshot'[q] = snapshot[q]
    BY <1>1, <1>2 DEF Types
  <2>3. pc'[q] \in {"received", "running", "encoding"} => call'[q].id \in Ids
    BY <1>2, <2>1, <2>2 DEF Handed, Id
  <2> QED
    BY <1>2, <2>1, <2>2, <2>3, HandedStays
<1> QED
  BY <1>2, <1>7, <1>8, <1>9, StoreStays DEF IInv

\* The handler encodes the next element of its slice as it is in memory now.
LEMMA EncodeKeeps ==
    ASSUME IInv, NEW r \in Requests, Encode(r)
    PROVE  IInv'
<1> Types /\ Handed(r)
  BY DEF IInv
<1>1. UNCHANGED <<live, slots, heap, text, ctx, call, slice, snapshot>> /\ pc[r] = "encoding"
  BY DEF Encode, store
<1>2. Id(r) \in Ids
  BY <1>1, InHandler
<1>3. CASE Len(sent[r]) = slice[r].len
  <2>1. sent' = sent /\ pc' = [pc EXCEPT ![r] = "answered"]
    BY <1>3 DEF Encode, Goto
  <2>2. Types'
    BY <1>1, <2>1 DEF Types
  <2>3. ASSUME NEW q \in Requests PROVE Handed(q)'
    <3>1. Handed(q)
      BY DEF IInv
    <3>2. pc'[q] = pc[q] \/ pc'[q] = "answered"
      BY <2>1 DEF Types
    <3>3. pc'[q] \in {"received", "running", "encoding"} => call'[q].id \in Ids
      BY <1>1, <3>1, <3>2 DEF Handed, Id
    <3> QED
      BY <1>1, <2>1, <3>1, <3>2, <3>3, HandedStays
  <2> QED
    BY <1>1, <2>2, <2>3, StoreStays DEF IInv
<1>4. CASE Len(sent[r]) # slice[r].len
  <2> DEFINE n == Len(sent[r]) + 1
             e == Elements(slice[r])[n]
  <2>1. sent' = [sent EXCEPT ![r] = Append(sent[r], e)] /\ pc' = pc
    BY <1>4 DEF Encode
  <2>2. n \in 1 .. slice[r].len /\ Len(sent[r]) \in Nat /\ sent[r] \in Arrays /\ snapshot[r] \in Arrays
    <3>1. sent[r] \in Arrays /\ snapshot[r] \in Arrays /\ slice[r] \in Slices
      BY DEF Types
    <3>2. Len(sent[r]) \in Nat /\ slice[r].len \in Nat
      BY <3>1 DEF Arrays, Slices
    <3>3. Len(sent[r]) <= slice[r].len
      BY DEF Handed
    <3> QED
      BY <1>4, <3>1, <3>2, <3>3
  <2>3. e = heap[slice[r].arr][slice[r].off + n]
    BY <2>2 DEF Elements, ElementsIn
  <2>4. e = snapshot[r][n] /\ n <= Len(snapshot[r])
    BY <2>2, <2>3, SMTT(30) DEF Handed
  <2>5. e \in Requests \cup {NoEntry}
    BY <2>2, <2>4 DEF Arrays
  <2> HIDE DEF n, e
  <2>6. /\ Append(sent[r], e) \in Arrays /\ Len(Append(sent[r], e)) = Len(sent[r]) + 1
        /\ \A i \in 1 .. Len(sent[r]) : Append(sent[r], e)[i] = sent[r][i]
        /\ Append(sent[r], e)[Len(sent[r]) + 1] = e
    BY <2>2, <2>5 DEF Arrays
  <2>7. Types'
    <3>1. sent' \in [Requests -> Arrays]
      BY <2>1, <2>6 DEF Types
    <3> QED
      BY <1>1, <2>1, <3>1 DEF Types
  <2>8. sent'[r] = Append(sent[r], e)
    BY <2>1 DEF Types
  <2>9. /\ Len(sent'[r]) <= Len(snapshot'[r])
        /\ \A i \in 1 .. Len(sent'[r]) : sent'[r][i] = snapshot'[r][i]
    BY <1>1, <2>2, <2>4, <2>6, <2>8 DEF Handed, n
  <2>10. Handed(r)'
    BY <1>1, <1>2, <2>1, <2>9 DEF Handed, BehindTop, Id
  <2>11. ASSUME NEW q \in Requests \ {r} PROVE Handed(q)'
    <3>1. Handed(q) /\ sent'[q] = sent[q]
      BY <2>1 DEF IInv, Types
    <3>2. pc'[q] \in {"received", "running", "encoding"} => call'[q].id \in Ids
      BY <1>1, <2>1, <3>1 DEF Handed, Id
    <3> QED
      BY <1>1, <2>1, <3>1, <3>2, HandedStays
  <2> QED
    BY <1>1, <2>7, <2>10, <2>11, StoreStays DEF IInv
<1> QED
  BY <1>3, <1>4

\* The entries of the map after an invocation has recorded itself.
LEMMA EntriesSet ==
    ASSUME slots \in Seq(Entries), NEW k \in 1 .. Len(slots) + 1, NEW e \in Entries,
           slots' = [j \in 1 .. Len(slots) \cup {k} |-> IF j = k THEN e ELSE slots[j]]
    PROVE  /\ slots' \in Seq(Entries) /\ k \in 1 .. Len(slots')
           /\ slots'[k] = e
           /\ \A j \in 1 .. Len(slots') \ {k} : j \in 1 .. Len(slots) /\ slots'[j] = slots[j]
<1> DEFINE n == IF k = Len(slots) + 1 THEN Len(slots) + 1 ELSE Len(slots)
<1>1. n \in Nat /\ 1 .. Len(slots) \cup {k} = 1 .. n /\ k \in 1 .. n
  OBVIOUS
<1>2. \A j \in 1 .. n \ {k} : j \in 1 .. Len(slots) /\ slots[j] \in Entries
  OBVIOUS
<1> HIDE DEF n
<1>3. slots' \in [1 .. n -> Entries]
  BY <1>1, <1>2
<1>4. slots' \in Seq(Entries) /\ Len(slots') = n
  BY <1>1, <1>3, FunctionIsSeq
<1> QED
  BY <1>1, <1>2, <1>4

\* What was handed out is not written: the append of an entry is behind it.
LEMMA RecordKeepsHanded ==
    ASSUME IInv, NEW q \in Requests, slice'[q] = slice[q], snapshot'[q] = snapshot[q],
           sent'[q] = sent[q], call'[q] = call[q], pc'[q] \in {pc[q], "answered"},
           NEW s \in Slices, NEW p, heap' = p.mem, Extended(s, p),
           NEW k \in 1 .. Len(slots'),
           s = Nil \/ (k \in 1 .. Len(slots) /\ s = slots[k].val),
           slots'[k].val.arr = p.top.arr,
           slots'[k].val.off + slots'[k].val.len = p.top.off + p.top.len,
           \A j \in 1 .. Len(slots') \ {k} : j \in 1 .. Len(slots) /\ slots'[j] = slots[j]
    PROVE  Handed(q)'
<1> DEFINE h == slice[q]
<1>1. Handed(q) /\ h \in Slices /\ p.top \in Slices /\ Len(heap) \in Nat
  BY DEF IInv, Types, Extended
<1>2. h.len > 0 => /\ h.arr \in 1 .. Len(heap) /\ h.off + h.len <= Len(heap[h.arr])
                   /\ BehindTop(h)
  BY <1>1 DEF Handed
<1>3. h.len > 0 /\ h.arr = s.arr => h.off + h.len <= s.off + s.len
  <2>1. h.len > 0 /\ h.arr = s.arr => s # Nil
    BY <1>2 DEF Nil, Slice
  <2> QED
    BY <1>2, <2>1 DEF BehindTop
<1>4. h.len > 0 => /\ h.arr \in 1 .. Len(heap')
                   /\ h.off + h.len <= Len(heap'[h.arr])
  BY <1>1, <1>2, SMTT(30) DEF Extended
<1>5. h.len > 0 => BehindTop(h)'
  <2> SUFFICES ASSUME h.len > 0, NEW j \in 1 .. Len(slots'), slots'[j].val.arr = h.arr
               PROVE  h.off + h.len <= slots'[j].val.off + slots'[j].val.len
    BY DEF BehindTop
  <2>1. CASE j # k
    BY <1>2, <2>1 DEF BehindTop
  <2>2. CASE j = k
    <3>1. p.top.arr = s.arr /\ p.top.off = s.off /\ p.top.len = s.len + 1 /\ h.arr = s.arr
      BY <1>1, <1>2, <2>2 DEF Extended
    <3>2. h.off + h.len <= s.off + s.len
      BY <1>3, <3>1
    <3> QED
      BY <1>1, <2>2, <3>1, <3>2 DEF Slices
  <2> QED
    BY <2>1, <2>2
<1>6. \A i \in 1 .. h.len : heap'[h.arr][h.off + i] = heap[h.arr][h.off + i]
  <2> SUFFICES ASSUME NEW i \in 1 .. h.len
               PROVE  heap'[h.arr][h.off + i] = heap[h.arr][h.off + i]
    OBVIOUS
  <2>1. h.len > 0 /\ h.off + i \in 1 .. Len(heap[h.arr]) /\ h.arr \in 1 .. Len(heap)
    <3>1. h.len > 0 /\ h.arr \in 1 .. Len(heap) /\ h.off \in Nat /\ h.len \in Nat
      BY <1>1, <1>2 DEF Slices
    <3>2. heap[h.arr] \in Arrays
      BY <3>1 DEF IInv, Types
    <3>3. Len(heap[h.arr]) \in Nat
      BY <3>2 DEF Arrays
    <3> QED
      BY <1>2, <3>1, <3>3, SMTT(30)
  <2>2. h.arr = s.arr => h.off + i # s.off + s.len + 1
    BY <1>1, <1>3, <2>1, SMTT(30) DEF Slices
  <2> QED
    BY <2>1, <2>2 DEF Extended
<1>7. /\ pc'[q] \in {"new", "received"} => pc[q] \in {"new", "received"}
      /\ pc'[q] \in {"received", "running", "encoding"} => call'[q].id \in Ids
  BY <1>1 DEF Handed, Id
<1> QED
  BY <1>1, <1>4, <1>5, <1>6, <1>7 DEF Handed, Id, BehindTop

\* An invocation records itself, in place or in a new array.
LEMMA InvokeRecordKeeps ==
    ASSUME IInv, NEW r \in Requests, InvokeRecord(r)
    PROVE  IInv'
<1> Types /\ OwnArrays /\ StorageIsBounded /\ heap \in Seq(Arrays) /\ slots \in Seq(Entries)
  BY DEF IInv, Types
<1>1. PICK k \in Own(Id(r)) \cup (IF Own(Id(r)) = {} THEN {Len(slots) + 1} ELSE {}) :
      \E p \in Pushed(IF k \in Own(Id(r)) THEN slots[k].val ELSE Nil, r) :
         /\ heap' = Trimmed(p).mem
         /\ slots' = [j \in 1 .. Len(slots) \cup {k} |->
                         IF j = k THEN [born |-> Id(r), buf |-> ctx[r], val |-> Trimmed(p).top]
                         ELSE slots[j]]
  BY DEF InvokeRecord
<1> DEFINE s == IF k \in Own(Id(r)) THEN slots[k].val ELSE Nil
<1>2. PICK p \in Pushed(s, r) :
         /\ heap' = Trimmed(p).mem
         /\ slots' = [j \in 1 .. Len(slots) \cup {k} |->
                         IF j = k THEN [born |-> Id(r), buf |-> ctx[r], val |-> Trimmed(p).top]
                         ELSE slots[j]]
  BY <1>1
<1>3. /\ pc[r] = "running" /\ pc' = [pc EXCEPT ![r] = "answered"]
      /\ UNCHANGED <<live, text, ctx, call, slice, sent, snapshot>>
  BY DEF InvokeRecord, Goto, answer
<1>4. /\ k \in 1 .. Len(slots) + 1
      /\ s = Nil \/ (k \in 1 .. Len(slots) /\ s = slots[k].val)
  BY <1>1 DEF Own
<1>5. s \in Slices /\ (s = Nil \/ Stored(heap, s))
  <2>1. CASE s = Nil
    BY <2>1 DEF Nil, Slice, Slices
  <2>2. CASE k \in 1 .. Len(slots) /\ s = slots[k].val
    <3>1. slots[k] \in Entries /\ Stored(heap, slots[k].val)
      BY <2>2 DEF IInv
    <3> QED
      BY <2>2, <3>1 DEF Entries
  <2> QED
    BY <1>4, <2>1, <2>2
<1> HIDE DEF s
<1> DEFINE top == Trimmed(p).top
           e == [born |-> Id(r), buf |-> ctx[r], val |-> top]
<1>6. /\ Extended(s, p) /\ heap' = p.mem /\ top \in Slices /\ Stored(heap', top)
      /\ top.arr = p.top.arr /\ top.off + top.len = p.top.off + p.top.len
  BY <1>2, <1>5, Recorded
<1>7. e \in Entries /\ e.val = top
  BY <1>3, <1>6, InHandler DEF Types, Entries
<1>8. slots' = [j \in 1 .. Len(slots) \cup {k} |-> IF j = k THEN e ELSE slots[j]]
  BY <1>2
<1> HIDE DEF top, e
<1>9. /\ slots' \in Seq(Entries) /\ k \in 1 .. Len(slots') /\ slots'[k].val = top
      /\ \A j \in 1 .. Len(slots') \ {k} : j \in 1 .. Len(slots) /\ slots'[j] = slots[j]
  BY <1>4, <1>7, <1>8, EntriesSet
<1>10. \A j \in 1 .. Len(slots) : Stored(heap, slots[j].val)
  BY DEF IInv
<1>11. \A j \in 1 .. Len(slots') : Stored(heap', slots'[j].val)
  <2> SUFFICES ASSUME NEW j \in 1 .. Len(slots') PROVE Stored(heap', slots'[j].val)
    OBVIOUS
  <2>1. CASE j = k
    BY <1>6, <1>9, <2>1
  <2>2. CASE j # k
    <3>1. Stored(heap, slots[j].val) /\ slots'[j] = slots[j]
      BY <1>9, <1>10, <2>2
    <3>2. /\ slots[j].val.arr \in 1 .. Len(heap')
          /\ Len(heap'[slots[j].val.arr]) = Len(heap[slots[j].val.arr])
      <4>1. slots[j].val.arr \in 1 .. Len(heap)
        BY <3>1 DEF Stored
      <4>2. Len(heap) \in Nat /\ Len(p.mem) \in Nat /\ Len(heap) <= Len(p.mem)
        BY <1>6 DEF Extended
      <4>3. \A a \in 1 .. Len(heap) : Len(p.mem[a]) = Len(heap[a])
        BY <1>6 DEF Extended
      <4> QED
        BY <1>6, <4>1, <4>2, <4>3, SMTT(30)
    <3> QED
      BY <3>1, <3>2 DEF Stored
  <2> QED
    BY <2>1, <2>2
<1>12. OwnArrays'
  <2>1. \A j \in 1 .. Len(slots') \ {k} : slots'[j].val.arr # top.arr
    <3> SUFFICES ASSUME NEW j \in 1 .. Len(slots') \ {k}, slots'[j].val.arr = top.arr PROVE FALSE
      OBVIOUS
    <3>1. /\ j \in 1 .. Len(slots) /\ slots[j].val.arr = p.top.arr
          /\ slots[j].val.arr \in 1 .. Len(heap)
      BY <1>6, <1>9, <1>10 DEF Stored
    <3>2. p.top.arr = s.arr
      BY <1>6, <3>1 DEF Extended
    <3>3. k \in 1 .. Len(slots) /\ s = slots[k].val
      BY <1>4, <3>1, <3>2 DEF Nil, Slice
    <3> QED
      BY <3>1, <3>2, <3>3 DEF OwnArrays
  <2> QED
    BY <1>9, <2>1 DEF OwnArrays
<1>13. StorageIsBounded'
  BY <1>6 DEF Extended, StorageIsBounded
<1>14. Types'
  <2>1. heap' \in Seq(Arrays)
    BY <1>6 DEF Extended
  <2>2. pc' \in [Requests -> {"new", "received", "running", "encoding", "answered"}]
    BY <1>3 DEF Types
  <2> QED
    BY <1>3, <1>9, <2>1, <2>2 DEF Types
<1>15. ASSUME NEW q \in Requests PROVE Handed(q)'
  <2>1. pc'[q] \in {pc[q], "answered"}
    BY <1>3 DEF Types
  <2>2. /\ slots'[k].val.arr = p.top.arr
        /\ slots'[k].val.off + slots'[k].val.len = p.top.off + p.top.len
    BY <1>6, <1>9
  <2> QED
    BY <1>3, <1>4, <1>5, <1>6, <1>9, <2>1, <2>2, RecordKeepsHanded
<1> QED
  BY <1>11, <1>12, <1>13, <1>14, <1>15 DEF IInv

\* A deletion drops an entry of the map; its array is read on, and written no more.
LEMMA DeleteKeeps ==
    ASSUME IInv, NEW r \in Requests, Delete(r)
    PROVE  IInv'
<1> Types /\ OwnArrays /\ slots \in Seq(Entries)
  BY DEF IInv, Types
<1>1. /\ UNCHANGED <<heap, text, ctx, call, slice, sent, snapshot>>
      /\ pc' = [pc EXCEPT ![r] = "answered"] /\ live' \in SUBSET Ids
  BY DEF Delete, Goto, answer, Types
<1>2. slots' = slots \/ \E k \in 1 .. Len(slots) : slots' = Without(slots, k)
  BY DEF Delete, Own, Without
<1>3. /\ slots' \in Seq(Entries)
      /\ \A j \in 1 .. Len(slots') : \E i \in 1 .. Len(slots) : slots'[j] = slots[i]
      /\ OwnArrays'
  <2>1. CASE slots' = slots
    BY <2>1 DEF OwnArrays
  <2>2. CASE \E k \in 1 .. Len(slots) : slots' = Without(slots, k)
    <3>1. PICK k \in 1 .. Len(slots) : slots' = Without(slots, k)
      BY <2>2
    <3> DEFINE at(j) == IF j < k THEN j ELSE j + 1
    <3>2. /\ slots' \in Seq(Entries) /\ Len(slots') = Len(slots) - 1
          /\ \A j \in 1 .. Len(slots) - 1 : slots'[j] = slots[at(j)]
      BY <3>1, WithoutOne
    <3>3. \A j \in 1 .. Len(slots) - 1 : at(j) \in 1 .. Len(slots)
      OBVIOUS
    <3>4. \A i, j \in 1 .. Len(slots) - 1 : at(i) = at(j) => i = j
      OBVIOUS
    <3> HIDE DEF at
    <3>5. OwnArrays'
      BY <3>2, <3>3, <3>4 DEF OwnArrays
    <3> QED
      BY <3>2, <3>3, <3>5
  <2> QED
    BY <1>2, <2>1, <2>2
<1>4. \A j \in 1 .. Len(slots') : Stored(heap', slots'[j].val)
  BY <1>1, <1>3 DEF IInv, Stored
<1>5. Types'
  BY <1>1, <1>3 DEF Types
<1>6. StorageIsBounded'
  BY <1>1 DEF IInv, StorageIsBounded
<1>7. ASSUME NEW q \in Requests PROVE Handed(q)'
  <2>1. Handed(q)
    BY DEF IInv
  <2>2. pc'[q] \in {pc[q], "answered"}
    BY <1>1 DEF Types
  <2>3. BehindTop(slice[q]) => BehindTop(slice[q])'
    BY <1>1, <1>3 DEF BehindTop
  <2> QED
    BY <1>1, <2>1, <2>2, <2>3 DEF Handed, Id
<1> QED
  BY <1>3, <1>4, <1>5, <1>6, <1>7 DEF IInv

\* At the start there is no array, no entry and nothing handed out.
LEMMA InitInvariant == Init => IInv
<1> SUFFICES ASSUME Init PROVE IInv
  OBVIOUS
<1> USE DEF Init
<1>1. /\ << >> \in Seq(Entries) /\ << >> \in Seq(Arrays) /\ << >> \in Arrays /\ Nil \in Slices
      /\ Len(<< >>) = 0 /\ Nil.len = 0
  BY DEF Arrays, Nil, Slice, Slices
<1>2. Types
  BY <1>1 DEF Types
<1>3. OwnArrays /\ StorageIsBounded /\ \A k \in 1 .. Len(slots) : Stored(heap, slots[k].val)
  BY <1>1 DEF OwnArrays, StorageIsBounded
<1>4. \A r \in Requests : Handed(r)
  BY <1>1 DEF Handed
<1> QED
  BY <1>2, <1>3, <1>4 DEF IInv

\* The invariant is inductive.
THEOREM Invariance == Spec => []IInv
<1>1. IInv /\ [Next]_vars => IInv'
  <2> SUFFICES ASSUME IInv, [Next]_vars PROVE IInv'
    OBVIOUS
  <2>1. CASE UNCHANGED vars
    <3>1. UNCHANGED <<live, slots, heap, text, ctx, pc, call, slice, sent, snapshot>>
      BY <2>1 DEF vars
    <3>2. Types' /\ OwnArrays' /\ StorageIsBounded'
      BY <3>1 DEF IInv, Types, OwnArrays, StorageIsBounded
    <3>3. \A k \in 1 .. Len(slots') : Stored(heap', slots'[k].val)
      BY <3>1 DEF IInv, Stored
    <3>4. \A r \in Requests : Handed(r)'
      BY <3>1 DEF IInv, Handed, BehindTop, Id
    <3> QED
      BY <3>2, <3>3, <3>4 DEF IInv
  <2>2. CASE Next
    BY <2>1, <2>2, HandlerKeeps, InvokeRecordKeeps, LogsKeeps, EncodeKeeps, DeleteKeeps
       DEF Next, Quiescent
  <2> QED
    BY <2>1, <2>2
<1> QED
  BY InitInvariant, <1>1, PTL DEF Spec

\* Every reachable state has the types of TypeOK: each stored slice lies within
\* its array and holds at most a window.
THEOREM TypeCorrect == Spec => []TypeOK
<1>1. IInv => TypeOK
  <2> SUFFICES ASSUME IInv PROVE TypeOK
    OBVIOUS
  <2>1. \A k \in 1 .. Len(slots) : slots[k] \in Entries /\ Stored(heap, slots[k].val)
    BY DEF IInv, Types
  <2>2. \A a \in 1 .. Len(heap) : heap[a] \in Arrays
    BY DEF IInv, Types
  <2> QED
    BY <2>1, <2>2 DEF IInv, Types, TypeOK, Stored, Entries, Arrays
<1> QED
  BY Invariance, <1>1, PTL

\* What a handler encodes after the lock was released is what the log was under
\* it: no append and no reslice, of whatever function, writes an element that
\* was handed out, whatever the capacities and the length of the window
\* (service.go:129-132, 146).
THEOREM ReadsAreSnapshots == Spec => []EncodedIsSnapshot
<1>1. IInv => EncodedIsSnapshot
  <2> SUFFICES ASSUME IInv, NEW r \in Requests
               PROVE  sent[r] = SubSeq(snapshot[r], 1, Len(sent[r]))
    BY DEF EncodedIsSnapshot
  <2> DEFINE n == Len(sent[r])
  <2>1. sent[r] \in Arrays /\ snapshot[r] \in Arrays /\ Handed(r)
    BY DEF IInv, Types
  <2>2. /\ n \in Nat /\ Len(snapshot[r]) \in Nat /\ n <= Len(snapshot[r])
        /\ \A i \in 1 .. n : sent[r][i] = snapshot[r][i] /\ snapshot[r][i] \in Requests \cup {NoEntry}
    BY <2>1 DEF Handed, Arrays
  <2>3. /\ SubSeq(snapshot[r], 1, n) \in Arrays /\ Len(SubSeq(snapshot[r], 1, n)) = n
        /\ \A i \in 1 .. n : SubSeq(snapshot[r], 1, n)[i] = snapshot[r][i]
    BY <2>2, SubSeqProperties DEF Arrays
  <2> QED
    BY <2>1, <2>2, <2>3, SeqEqual DEF Arrays
<1> QED
  BY Invariance, <1>1, PTL

\* No array outgrows three windows and one entry, however long the service runs
\* and whatever the runtime rounds up to, as long as append never more than
\* triples a capacity (service.go:129-132).
THEOREM ArraysAreBounded == Spec => []StorageIsBounded
<1>1. IInv => StorageIsBounded
  BY DEF IInv
<1> QED
  BY Invariance, <1>1, PTL

=============================================================================
