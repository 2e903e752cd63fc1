------------------------------- MODULE Sandbox -------------------------------
(***************************************************************************)
(* internal/serverless/runner.go: Runner.Invoke runs each invocation in a  *)
(* Docker container of its own, through five calls to the daemon (create,  *)
(* start, wait, logs, remove), next to the other users of the same daemon  *)
(* and to the shutdown of the server (cmd/server/main.go).                 *)
(*                                                                         *)
(* What the daemon does and what the Runner hears of it are different      *)
(* steps: a create or a start that the Runner gave up on may still be      *)
(* carried out.  The daemon, the timer and the cancelling of request       *)
(* contexts by the HTTP server are modelled as runner.go relies on them.   *)
(***************************************************************************)
EXTENDS FiniteSets

CONSTANTS
    Invocations     \* the calls of Runner.Invoke

VARIABLES
    pc,         \* the call to the daemon each invocation is in
    known,      \* the Runner was told the container's id and deferred its removal
    expired,    \* the timeout of invokeCtx has passed
    outcome,    \* what Invoke returns: an error, an exit code or ExitCode -1
    output,     \* what collectLogs returned
    removal,    \* how the deferred ContainerRemove ended
    box,        \* the container of each invocation, as the daemon has it
    asked,      \* the calls the daemon has yet to carry out
    started,    \* the daemon carried out the start
    ended,      \* history: the function ran, and ran no more
    server      \* serving, closing (app.Shutdown), stopped, or crashed

vars == <<pc, known, expired, outcome, output, removal, box, asked, started, ended, server>>
runner == <<pc, known, expired, outcome, output, removal>>
daemon == <<box, asked, started, ended>>

-----------------------------------------------------------------------------

PCs == {"idle", "create", "start", "wait", "logs", "remove", "done"}

Present(i) == box[i] \in {"created", "running", "exited"}

\* The request's context ends when the server shuts down, invokeCtx also when
\* its timeout passes.
CtxDone       == server # "serving"
InvokeDone(i) == CtxDone \/ expired[i]

Up == server \in {"serving", "closing"}

Goto(i, l)  == pc' = [pc EXCEPT ![i] = l]
Ends(i, o)  == outcome' = [outcome EXCEPT ![i] = o]
Asks(i, c)  == asked' = [asked EXCEPT ![i] = @ \cup {c}]
Drop(i, c)  == asked' = [asked EXCEPT ![i] = @ \ {c}]
Box(i, s)   == box' = [box EXCEPT ![i] = s]

Init ==
    /\ pc = [i \in Invocations |-> "idle"]
    /\ known = [i \in Invocations |-> FALSE]
    /\ expired = [i \in Invocations |-> FALSE]
    /\ outcome = [i \in Invocations |-> "none"]
    /\ output = [i \in Invocations |-> "none"]
    /\ removal = [i \in Invocations |-> "none"]
    /\ box = [i \in Invocations |-> "none"]
    /\ asked = [i \in Invocations |-> {}]
    /\ started = [i \in Invocations |-> FALSE]
    /\ ended = [i \in Invocations |-> FALSE]
    /\ server = "serving"

-----------------------------------------------------------------------------
(* Runner.Invoke *)

\* WithTimeout, then ContainerCreate.
Begin(i) ==
    /\ server = "serving" /\ pc[i] = "idle"
    /\ Goto(i, "create") /\ Asks(i, "create")
    /\ UNCHANGED <<known, expired, outcome, output, removal, box, started, ended, server>>

Created(i) ==
    /\ Up /\ pc[i] = "create"
    /\ "create" \notin asked[i] /\ box[i] # "none"
    /\ known' = [known EXCEPT ![i] = TRUE]
    /\ Goto(i, "start") /\ Asks(i, "start")
    /\ UNCHANGED <<expired, outcome, output, removal, box, started, ended, server>>

\* An error of ContainerCreate: the daemon refused the call, or the answer did
\* not come and the daemon may have carried it out or do so yet.
CreateFails(i) ==
    /\ Up /\ pc[i] = "create"
    /\ Goto(i, "done") /\ Ends(i, "error")
    /\ Drop(i, "create") \/ UNCHANGED asked
    /\ UNCHANGED <<known, expired, output, removal, box, started, ended, server>>

\* Mutant of Started: the error of ContainerStart is not looked at.
StartedUnchecked(i) ==
    /\ Up /\ pc[i] = "start"
    /\ Goto(i, "wait")
    /\ UNCHANGED <<known, expired, outcome, output, removal, daemon, server>>

Started(i) ==
    /\ Up /\ pc[i] = "start"
    /\ started[i]
    /\ Goto(i, "wait")
    /\ UNCHANGED <<known, expired, outcome, output, removal, daemon, server>>

\* Mutant of StartFails: the removal is deferred only after the start.
StartFailsUndeferred(i) ==
    /\ Up /\ pc[i] = "start"
    /\ Goto(i, "done") /\ Ends(i, "error")
    /\ Drop(i, "start") \/ UNCHANGED asked
    /\ UNCHANGED <<known, expired, output, removal, box, started, ended, server>>

StartFails(i) ==
    /\ Up /\ pc[i] = "start"
    /\ Goto(i, "remove") /\ Ends(i, "error")
    /\ Drop(i, "start") \/ UNCHANGED asked
    /\ UNCHANGED <<known, expired, output, removal, box, started, ended, server>>

\* ContainerWait with WaitConditionNotRunning, the case of statusCh.
WaitStatus(i) ==
    /\ Up /\ pc[i] = "wait"
    /\ box[i] \in {"created", "exited", "gone"}
    /\ Goto(i, "logs") /\ Ends(i, "exit")
    /\ UNCHANGED <<known, expired, output, removal, daemon, server>>

\* Mutant of WaitFails: neither a result nor an error.
WaitFailsSilently(i) ==
    /\ Up /\ pc[i] = "wait"
    /\ Goto(i, "remove")
    /\ UNCHANGED <<known, expired, outcome, output, removal, daemon, server>>

\* The case of errCh: an error of the daemon or the end of invokeCtx is a
\* result all the same, with ExitCode -1.
WaitFails(i) ==
    /\ Up /\ pc[i] = "wait"
    /\ Goto(i, "remove") /\ Ends(i, "minusOne")
    /\ UNCHANGED <<known, expired, output, removal, daemon, server>>

\* collectLogs runs under ctx, not under invokeCtx; an error is an empty output.
Logs(i) ==
    /\ Up /\ pc[i] = "logs"
    /\ \/ ~CtxDone /\ Present(i) /\ output' = [output EXCEPT ![i] = "all"]
       \/ output' = [output EXCEPT ![i] = "lost"]
    /\ Goto(i, "remove")
    /\ UNCHANGED <<known, expired, outcome, removal, daemon, server>>

\* The deferred ContainerRemove, under ctx and forced; its error is dropped.
Remove(i) ==
    /\ Up /\ pc[i] = "remove"
    /\ \/ /\ ~CtxDone
          /\ removal' = [removal EXCEPT ![i] = "done"]
          /\ Box(i, "gone")
          /\ ended' = [ended EXCEPT ![i] = @ \/ box[i] = "running"]
       \/ /\ removal' = [removal EXCEPT ![i] = IF CtxDone THEN "cancelled" ELSE "refused"]
          /\ UNCHANGED <<box, ended>>
    /\ Goto(i, "done")
    /\ UNCHANGED <<known, expired, outcome, output, asked, started, server>>

Expire(i) ==
    /\ Up /\ pc[i] \in {"create", "start", "wait"} /\ ~expired[i]
    /\ expired' = [expired EXCEPT ![i] = TRUE]
    /\ UNCHANGED <<pc, known, outcome, output, removal, daemon, server>>

-----------------------------------------------------------------------------
(* The daemon, the function and the other users of the daemon *)

DaemonCreates(i) ==
    /\ "create" \in asked[i]
    /\ Box(i, "created") /\ Drop(i, "create")
    /\ UNCHANGED <<runner, started, ended, server>>

\* Starting a container that is gone is refused.
DaemonStarts(i) ==
    /\ "start" \in asked[i]
    /\ Drop(i, "start")
    /\ IF Present(i)
       THEN Box(i, "running") /\ started' = [started EXCEPT ![i] = TRUE]
       ELSE UNCHANGED <<box, started>>
    /\ UNCHANGED <<runner, ended, server>>

\* The function returns, or StopContainer kills it; nothing says it ever does.
FnExits(i) ==
    /\ box[i] = "running"
    /\ Box(i, "exited") /\ ended' = [ended EXCEPT ![i] = TRUE]
    /\ UNCHANGED <<runner, asked, started, server>>

\* StartContainer of the container module, on a container it lists.
OperatorStarts(i) ==
    /\ box[i] \in {"created", "exited"}
    /\ Box(i, "running")
    /\ UNCHANGED <<runner, asked, started, ended, server>>

\* RemoveContainer of the container module; a running one only with ?force.
OperatorRemoves(i) ==
    /\ Present(i)
    /\ Box(i, "gone") /\ ended' = [ended EXCEPT ![i] = @ \/ box[i] = "running"]
    /\ UNCHANGED <<runner, asked, started, server>>

\* PruneContainers has no filter: it removes the containers that do not run,
\* the Runner's among them.
Prune ==
    /\ \E i \in Invocations : box[i] \in {"created", "exited"}
    /\ box' = [i \in Invocations |-> IF box[i] \in {"created", "exited"} THEN "gone" ELSE box[i]]
    /\ UNCHANGED <<runner, asked, started, ended, server>>

-----------------------------------------------------------------------------
(* The server's process *)

\* app.Shutdown closes the listener and ends the contexts of the requests that
\* are being served before it waits for them.
Shutdown ==
    /\ server = "serving" /\ server' = "closing"
    /\ UNCHANGED <<runner, daemon>>

Stop ==
    /\ server = "closing"
    /\ \A i \in Invocations : pc[i] \in {"idle", "done"}
    /\ server' = "stopped"
    /\ UNCHANGED <<runner, daemon>>

\* The process dies with its deferred calls: log.Fatal, a panic of another
\* handler (nothing recovers), SIGKILL.
Crash ==
    /\ Up /\ server' = "crashed"
    /\ UNCHANGED <<runner, daemon>>

\* Nothing is asked of the Runner any more.
Quiescent ==
    /\ Up => \A i \in Invocations : pc[i] = "done"
    /\ UNCHANGED vars

-----------------------------------------------------------------------------

RunnerStep(i) ==
    \/ Begin(i) \/ Created(i) \/ CreateFails(i) \/ Started(i) \/ StartFails(i)
    \/ WaitStatus(i) \/ WaitFails(i) \/ Logs(i) \/ Remove(i) \/ Expire(i)

DaemonStep(i) ==
    \/ DaemonCreates(i) \/ DaemonStarts(i)
    \/ FnExits(i) \/ OperatorStarts(i) \/ OperatorRemoves(i)

Next ==
    \/ \E i \in Invocations : RunnerStep(i) \/ DaemonStep(i)
    \/ Prune \/ Shutdown \/ Stop \/ Crash \/ Quiescent

Spec == Init /\ [][Next]_vars

\* Mutant of GiveUp: ContainerWait under ctx, which has no timeout.
GiveUpButWait(i) == InvokeDone(i) /\ (CreateFails(i) \/ StartFails(i))

\* A call whose context is done returns its error.
GiveUp(i) == InvokeDone(i) /\ (CreateFails(i) \/ StartFails(i) \/ WaitFails(i))

\* The timer fires, calls with a done context return, and the daemon answers
\* the two calls that have no timeout.  It need not answer the others and the
\* function need not end.
FairSpec ==
    /\ Spec
    /\ \A i \in Invocations :
          WF_vars(Expire(i)) /\ WF_vars(GiveUp(i)) /\ WF_vars(Logs(i)) /\ WF_vars(Remove(i))
    /\ WF_vars(Stop)

-----------------------------------------------------------------------------
(* Properties *)

\* The types, and that Invoke never returns a nil result with a nil error,
\* which its caller would dereference (service.go:127).
TypeOK ==
    /\ pc \in [Invocations -> PCs]
    /\ known \in [Invocations -> BOOLEAN]
    /\ expired \in [Invocations -> BOOLEAN]
    /\ outcome \in [Invocations -> {"none", "error", "exit", "minusOne"}]
    /\ output \in [Invocations -> {"none", "all", "lost"}]
    /\ removal \in [Invocations -> {"none", "done", "refused", "cancelled"}]
    /\ box \in [Invocations -> {"none", "created", "running", "exited", "gone"}]
    /\ asked \in [Invocations -> SUBSET {"create", "start"}]
    /\ started \in [Invocations -> BOOLEAN]
    /\ ended \in [Invocations -> BOOLEAN]
    /\ server \in {"serving", "closing", "stopped", "crashed"}
    /\ \A i \in Invocations : pc[i] = "done" => outcome[i] # "none"

\* When Invoke has returned, for whatever reason, its container is gone and
\* can neither run on nor be started late by a call the Runner gave up on.
\* The exceptions are the ones the code cannot see or drops: an id that never
\* came back, a removal the daemon refused or the shutdown cancelled
\* (runner.go:107-112).
NothingLeftRunning ==
    \A i \in Invocations :
        pc[i] = "done" /\ known[i] =>
            ~Present(i) \/ removal[i] \in {"refused", "cancelled"}

\* An exit code is only reported of a function that ran and ended: neither
\* a container that was pruned before its start nor one still running is
\* taken for an exit with code 0 (runner.go:115-124).
ExitCodeIsReal == \A i \in Invocations : outcome[i] = "exit" => ended[i]

\* Invoke returns although the function never ends and the daemon never
\* answers create, start or wait: the timeout covers all three
\* (runner.go:90-135).
InvocationEnds ==
    \A i \in Invocations : pc[i] = "create" ~> pc[i] = "done" \/ server = "crashed"

\* The shutdown does not wait for the functions that run (main.go:131).
ShutdownEnds == server = "closing" ~> server \in {"stopped", "crashed"}

\* A graceful shutdown waits for the handlers, so the deferred removals should
\* have removed every sandbox the Runner knows of when the server has stopped.
GracefulShutdownCleansUp ==
    server = "stopped" =>
        \A i \in Invocations : known[i] /\ removal[i] # "refused" => ~Present(i)

=============================================================================
