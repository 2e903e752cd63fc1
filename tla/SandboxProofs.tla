---------------------------- MODULE SandboxProofs ----------------------------
(***************************************************************************)
(* Proofs about Sandbox, for any number of concurrent invocations.         *)
(***************************************************************************)
EXTENDS Sandbox, TLAPS

\* What the call an invocation is in says of its container and of the daemon.
InOrder(i) ==
    /\ pc[i] = "idle" => asked[i] = {} /\ box[i] = "none"
    /\ pc[i] \in {"idle", "create"} => ~known[i] /\ outcome[i] = "none" /\ "start" \notin asked[i]
    /\ pc[i] \in {"start", "wait", "logs", "remove"} => known[i]
    /\ pc[i] \in {"logs", "remove"} => outcome[i] # "none"
    /\ pc[i] = "wait" => started[i]
    /\ known[i] => "create" \notin asked[i] /\ box[i] # "none"
    /\ ~known[i] => ~started[i] /\ "start" \notin asked[i]
    /\ started[i] => ended[i] \/ box[i] = "running"

Order == \A i \in Invocations : InOrder(i)

IInv == TypeOK /\ Order /\ NothingLeftRunning /\ ExitCodeIsReal

LEMMA InitInvariant == Init => IInv
BY DEF Init, IInv, TypeOK, PCs, Order, InOrder, NothingLeftRunning, ExitCodeIsReal, Present

\* A step of the Runner for one invocation.
LEMMA RunnerKeepsInvariant ==
    ASSUME IInv, NEW i \in Invocations, RunnerStep(i)
    PROVE  IInv'
<1> USE DEF IInv, TypeOK, PCs, Order, InOrder, NothingLeftRunning, ExitCodeIsReal,
            Present, Goto, Ends, Asks, Drop, Box, daemon
<1>1. CASE Begin(i)
  BY <1>1 DEF Begin
<1>2. CASE Created(i)
  BY <1>2 DEF Created
<1>3. CASE CreateFails(i)
  BY <1>3 DEF CreateFails
<1>4. CASE Started(i)
  BY <1>4 DEF Started
<1>5. CASE StartFails(i)
  BY <1>5 DEF StartFails
<1>6. CASE WaitStatus(i)
  BY <1>6 DEF WaitStatus
<1>7. CASE WaitFails(i)
  BY <1>7 DEF WaitFails
<1>8. CASE Logs(i)
  BY <1>8 DEF Logs
<1>9. CASE Remove(i)
  BY <1>9 DEF Remove
<1>10. CASE Expire(i)
  BY <1>10 DEF Expire
<1> QED
  BY <1>1, <1>2, <1>3, <1>4, <1>5, <1>6, <1>7, <1>8, <1>9, <1>10 DEF RunnerStep

\* A step of the daemon, of the function or of an operator.
LEMMA DaemonKeepsInvariant ==
    ASSUME IInv, NEW i \in Invocations, DaemonStep(i)
    PROVE  IInv'
<1> USE DEF IInv, TypeOK, Order, InOrder, NothingLeftRunning, ExitCodeIsReal,
            Present, Drop, Box, runner
<1>1. CASE DaemonCreates(i)
  BY <1>1 DEF DaemonCreates
<1>2. CASE DaemonStarts(i)
  <2>1. known[i] /\ pc[i] \notin {"idle", "create"} /\ UNCHANGED <<runner, ended, server>>
    BY <1>2 DEF DaemonStarts
  <2>2. TypeOK'
    BY <1>2, ZenonT(40) DEF DaemonStarts
  <2>3. \A j \in Invocations \ {i} :
           box'[j] = box[j] /\ started'[j] = started[j] /\ asked'[j] = asked[j]
    BY <1>2 DEF DaemonStarts
  <2>4. /\ asked'[i] = asked[i] \ {"start"}
        /\ \/ Present(i) /\ box'[i] = "running" /\ started'[i]
           \/ ~Present(i) /\ box'[i] = box[i] /\ started'[i] = started[i]
    BY <1>2 DEF DaemonStarts
  <2> QED
    BY <2>1, <2>2, <2>3, <2>4
<1>3. CASE FnExits(i)
  BY <1>3 DEF FnExits
<1>4. CASE OperatorStarts(i)
  BY <1>4 DEF OperatorStarts
<1>5. CASE OperatorRemoves(i)
  BY <1>5 DEF OperatorRemoves
<1> QED
  BY <1>1, <1>2, <1>3, <1>4, <1>5 DEF DaemonStep

\* The invariant is inductive.
THEOREM Invariance == Spec => []IInv
<1>1. IInv /\ [Next]_vars => IInv'
  <2> SUFFICES ASSUME IInv, [Next]_vars PROVE IInv'
    OBVIOUS
  <2> USE DEF IInv, TypeOK, Order, InOrder, NothingLeftRunning, ExitCodeIsReal, Present
  <2>1. CASE \E i \in Invocations : RunnerStep(i) \/ DaemonStep(i)
    BY <2>1, RunnerKeepsInvariant, DaemonKeepsInvariant
  <2>2. CASE Prune
    BY <2>2 DEF Prune, runner
  <2>3. CASE Shutdown \/ Stop \/ Crash
    BY <2>3 DEF Shutdown, Stop, Crash, runner, daemon
  <2>4. CASE UNCHANGED vars
    BY <2>4 DEF vars
  <2> QED
    BY <2>1, <2>2, <2>3, <2>4 DEF Next, Quiescent
<1> QED
  BY InitInvariant, <1>1, PTL DEF Spec

\* The state is well typed and Invoke never returns neither result nor error.
THEOREM TypeCorrect == Spec => []TypeOK
BY Invariance, PTL DEF IInv

\* However many invocations, operators and late answers interleave, a sandbox
\* outlives its invocation only for a reason the Runner was told of
\* (runner.go:107-112).
THEOREM NothingLeft == Spec => []NothingLeftRunning
BY Invariance, PTL DEF IInv

\* An exit code is only reported of a function that ran (runner.go:115-124).
THEOREM ExitCodesAreReal == Spec => []ExitCodeIsReal
BY Invariance, PTL DEF IInv

=============================================================================
