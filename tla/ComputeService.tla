---------------------------- MODULE ComputeService ----------------------------
(***************************************************************************)
(* cmd/server/main.go: the process from its start to its end, with the two *)
(* modules that share one Docker client: the Docker routes of              *)
(* ContainerService and the Runner of Sandbox, whose containers are among  *)
(* the ones that the routes list, start, stop, remove and prune.           *)
(*                                                                         *)
(* Sandbox takes the routes for steps of an environment; here they are the *)
(* handlers, and the composition is shown to implement Sandbox.            *)
(***************************************************************************)
EXTENDS ContainerService, Integers

CONSTANTS
    Hosts,          \* the number of Docker hosts that main tries
    MaxMade         \* a bound on the requests and invocations that are made

ASSUME HostsAssumption == Hosts \in Nat
ASSUME MaxMadeAssumption == MaxMade \in Nat

VARIABLES
    left,           \* the hosts yet to be tried
    \* the variables of Sandbox, its pc renamed, its box being the daemon's
    spc, known, expired, outcome, output, removal, asked, started, ended

sandbox == <<spc, known, expired, outcome, output, removal, asked, started>>
vars == <<containerVars, left, sandbox, ended>>

\* The Runner meets the server when it serves: before, nothing is invoked.
SB == INSTANCE Sandbox WITH
    Invocations <- Others, pc <- spc,
    box    <- [i \in Others |-> box[i]],
    server <- IF server \in {"loading", "proxmox", "probing"} THEN "serving" ELSE server

SandboxInit ==
    /\ spc = [i \in Others |-> "idle"]
    /\ known = [i \in Others |-> FALSE] /\ expired = [i \in Others |-> FALSE]
    /\ outcome = [i \in Others |-> "none"] /\ output = [i \in Others |-> "none"]
    /\ removal = [i \in Others |-> "none"]
    /\ asked = [i \in Others |-> {}]
    /\ started = [i \in Others |-> FALSE] /\ ended = [i \in Others |-> FALSE]

ComputeInit == Init /\ SandboxInit /\ left = Hosts

-----------------------------------------------------------------------------
(* The process *)

\* config.Load: what no file and no variable sets has its default.
Load ==
    /\ server = "loading" /\ server' = "proxmox"
    /\ UNCHANGED <<docker, daemon, handlers, left, sandbox, ended>>

\* A file that cannot be read or does not fit the struct is fatal; no file is
\* not.
LoadFails ==
    /\ server = "loading" /\ server' = "crashed"
    /\ UNCHANGED <<docker, daemon, handlers, left, sandbox, ended>>

\* NewProxmoxClient returns (VMService has what comes of it).  Its call has no
\* deadline, and nothing says that it ever does.
PastProxmox ==
    /\ server = "proxmox" /\ server' = "probing"
    /\ UNCHANGED <<docker, daemon, handlers, left, sandbox, ended>>

\* Mutant of ProbeFails: the last ping has no timeout.
ProbeFailsButLast ==
    /\ server = "probing" /\ left > 1 /\ left' = left - 1
    /\ UNCHANGED <<containerVars, sandbox, ended>>

\* A host that is not set, that gives no client, or that does not answer the
\* ping within its two seconds, is skipped.
ProbeFails ==
    /\ server = "probing" /\ left > 0 /\ left' = left - 1
    /\ UNCHANGED <<containerVars, sandbox, ended>>

\* The first host that answers is the one, for both modules.
ProbeAnswers ==
    /\ server = "probing" /\ left > 0 /\ left' = 0
    /\ docker' = TRUE
    /\ UNCHANGED <<server, daemon, handlers, sandbox, ended>>

\* Without a daemon the server serves too, and answers 503 on these routes.
Listen ==
    /\ server = "probing" /\ left = 0 /\ server' = "serving"
    /\ UNCHANGED <<docker, daemon, handlers, left, sandbox, ended>>

\* SIGINT or SIGTERM, then app.Shutdown, which ends the contexts of requests;
\* a signal that comes before app.Listen finds nothing to close.
Shutdown ==
    /\ server = "serving" \/ (server = "probing" /\ left = 0)
    /\ server' = "closing"
    /\ UNCHANGED <<docker, daemon, handlers, left, sandbox, ended>>

\* Mutant of Stop: app.Shutdown is not waited for.
StopAtOnce ==
    /\ server = "closing" /\ server' = "stopped"
    /\ UNCHANGED <<docker, daemon, handlers, left, sandbox, ended>>

\* app.Shutdown returns when the requests in service have been answered.
Stop ==
    /\ server = "closing"
    /\ \A r \in Requests : pc[r] \in {"new", "answered"}
    /\ \A i \in Others : spc[i] \in {"idle", "done"}
    /\ server' = "stopped"
    /\ UNCHANGED <<docker, daemon, handlers, left, sandbox, ended>>

\* log.Fatal of a listener that fails, a signal before signal.Notify, a panic, SIGKILL.
Crash ==
    /\ server \in {"loading", "proxmox", "probing", "serving", "closing"} /\ server' = "crashed"
    /\ UNCHANGED <<docker, daemon, handlers, left, sandbox, ended>>

-----------------------------------------------------------------------------
(* The two modules over one daemon *)

\* What the routes do to the Runner's containers shows in its history.
Witnessed ==
    /\ ended' = [i \in Others |-> ended[i] \/ (box[i] = "running" /\ box'[i] # "running")]
    /\ UNCHANGED <<left, sandbox>>

Made == {r \in Requests : pc[r] # "new"} \cup {i \in Others : spc[i] # "idle"}

RouteStep(r) ==
    /\ r \notin Made => Cardinality(Made) < MaxMade
    /\ HandlerStep(r) \/ Exits(r)
    /\ Witnessed

\* A step A of Sandbox for i, which may change the container of i alone.
InSandbox(i, A) ==
    /\ UNCHANGED <<server, docker, handlers, name, networks, joined, ran, left>>
    /\ \E s \in {"none", "created", "running", "exited", "gone"} :
          box' = [box EXCEPT ![i] = s] /\ A

\* Without a client there is no Runner: service.go:104 refuses the invocation.
RunnerStep(i) ==
    /\ i \notin Made => server = "serving" /\ docker /\ Cardinality(Made) < MaxMade
    /\ InSandbox(i, SB!RunnerStep(i))

DaemonStep(i) ==
    InSandbox(i, SB!DaemonCreates(i) \/ SB!DaemonStarts(i) \/ SB!FnExits(i))

Quiescent ==
    /\ Up => /\ \A r \in Requests : pc[r] \in {"new", "answered"}
             /\ \A i \in Others : spc[i] \in {"idle", "done"}
    /\ server \notin {"loading", "probing"}
    /\ UNCHANGED vars

ComputeNext ==
    \/ Load \/ LoadFails \/ PastProxmox \/ ProbeFails \/ ProbeAnswers
    \/ Listen \/ Shutdown \/ Stop \/ Crash
    \/ \E r \in Requests : RouteStep(r)
    \/ \E i \in Others : RunnerStep(i) \/ DaemonStep(i)
    \/ Quiescent

ComputeSpec == ComputeInit /\ [][ComputeNext]_vars

\* A ping ends with its timeout and main goes on; a call whose context is done
\* returns; the timer of an invocation fires, and the daemon answers the two
\* calls of the Runner that have no timeout.  Nothing else need happen.
FairSpec ==
    /\ ComputeSpec
    /\ WF_vars(ProbeFails) /\ WF_vars(Listen) /\ WF_vars(Stop)
    /\ \A r \in Requests : WF_vars(GiveUp(r) /\ Witnessed)
    /\ \A i \in Others :
          WF_vars(InSandbox(i, SB!Expire(i) \/ SB!GiveUp(i) \/ SB!Logs(i) \/ SB!Remove(i)))

-----------------------------------------------------------------------------
(* Properties *)

TypeOK ==
    /\ ContainersTypeOK /\ SB!TypeOK
    /\ left \in 0 .. Hosts
    /\ server \in {"loading", "proxmox", "probing", "serving", "closing", "stopped", "crashed"}

\* The routes do to the Runner's containers, and the shutdown to its calls,
\* what Sandbox says that its environment does, and nothing else: what holds
\* of Sandbox holds of the server (handler.go:109-171, main.go:88-134).
ImplementsSandbox == SB!Spec

\* A container that runs is removed by whoever asked for that with ?force, by
\* its Runner, or by its own auto_remove, and never by a prune or a plain
\* DELETE (docker_client.go:249-254, 458-462).
KeepsRunning ==
    \A c \in Boxes : box[c] = "running" /\ box'[c] = "gone" =>
        \/ c \in Others /\ spc[c] = "remove"
        \/ c \in Requests /\ call[c].auto
        \/ \E r \in Requests :
              /\ pc[r] = "calling" /\ pc'[r] = "answered"
              /\ call[r].op = "remove" /\ call[r].force /\ c \in Resolve(call[r].ref)
RunningIsKept == [][KeepsRunning]_vars

\* Once it looks for a Docker host, the server gets to serve although none
\* answers: the pings have a timeout (main.go:63-86).
ProbingEnds == server = "probing" ~> server # "probing"

\* A shutdown ends though the daemon never answers: every call of a handler is
\* under the context of its request (main.go:131).
ShutdownEnds == server = "closing" ~> server \in {"stopped", "crashed"}

=============================================================================
