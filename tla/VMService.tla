------------------------------ MODULE VMService ------------------------------
(***************************************************************************)
(* internal/vm: the routes of /api/compute/vms, each a short sequence of   *)
(* calls to the Proxmox API.  A read asks for the node and the VM; a power *)
(* action starts a task and returns its id; Create and Delete start tasks  *)
(* and wait for them, up to a timeout.  The requests run concurrently, and *)
(* nothing keeps the VM that one of them looked up from being deleted, or  *)
(* its id from being given to a new VM, before the next call.              *)
(*                                                                         *)
(* Proxmox is modelled as service.go relies on it: numbered VMs, calls     *)
(* that may fail, and tasks that go on after the call that started them.   *)
(***************************************************************************)
EXTENDS FiniteSets

CONSTANTS
    Requests,   \* HTTP requests to /api/compute/vms, each made once
    Ids,        \* the VM ids that Proxmox may give
    Template,   \* the id of the template that exists from the start
    NoOne,      \* the maker of what no request made
    Routes      \* the routes that are called, a bound of the instance

ASSUME TemplateAssumption == Template \in Ids
ASSUME NoOneAssumption    == NoOne \notin Requests
ASSUME RoutesAssumption   ==
    Routes \subseteq {"list", "get", "metrics", "create", "start", "stop", "reboot", "delete"}

VARIABLES
    ready,      \* the Service got a ProxmoxClient
    listening,  \* main has come past NewProxmoxClient, and the server listens
    up,         \* the process runs: a panic of any handler ends it
    vms,        \* the VMs of the node, by id
    maker,      \* history: the request whose clone is the VM of this id
    tasks,      \* the tasks of Proxmox that have not ended
    failed,     \* history: the tasks that ended with an error
    destroyed,  \* history: the makers whose VM was destroyed
    pc,         \* the call each request is in
    call,       \* what each request asks for
    on,         \* the id of the VM each request works on
    seen,       \* history: the maker of the VM that VirtualMachine returned
    reply       \* the status each request is answered with, 0 before

vars == <<ready, listening, up, vms, maker, tasks, failed, destroyed, pc, call, on, seen, reply>>
process == <<ready, listening, up>>
proxmox == <<vms, maker, tasks, failed, destroyed>>

-----------------------------------------------------------------------------

PCs == {"new", "received", "list", "vm", "act",
        "clone", "waitClone", "newVM", "config", "waitConfig", "start", "waitStart",
        "stop", "waitStop", "destroy", "waitDestroy", "answered"}

Calls == [op : Routes \ {"list", "create"}, id : Ids, startOnCreate : {FALSE}]
         \cup [op : Routes \cap {"list"}, id : {Template}, startOnCreate : {FALSE}]
         \cup [op : Routes \cap {"create"}, id : Ids, startOnCreate : BOOLEAN]
NoCall == [op |-> "none", id |-> Template, startOnCreate |-> FALSE]

Task(r, kind, i) == [by |-> r, kind |-> kind, id |-> i]

Is(r, op)  == call[r].op = op
Goto(r, l) == pc' = [pc EXCEPT ![r] = l]
Answer(r, status) == reply' = [reply EXCEPT ![r] = status] /\ Goto(r, "answered")

Init ==
    /\ ready = FALSE /\ listening = FALSE /\ up = TRUE
    /\ vms \in [Ids -> {"absent", "stopped", "running"}] /\ vms[Template] = "stopped"
    /\ maker = [i \in Ids |-> NoOne]
    /\ tasks = {} /\ failed = {} /\ destroyed = {}
    /\ pc = [r \in Requests |-> "new"]
    /\ call = [r \in Requests |-> NoCall]
    /\ on = [r \in Requests |-> Template]
    /\ seen = [r \in Requests |-> NoOne]
    /\ reply = [r \in Requests |-> 0]

-----------------------------------------------------------------------------
(* main, before it listens *)

\* A token secret is configured and NewProxmoxClient has its answer to Version.
Connects ==
    /\ up /\ ~listening
    /\ ready' = TRUE /\ listening' = TRUE
    /\ UNCHANGED <<up, proxmox, pc, call, on, seen, reply>>

\* Nothing is configured, or Version failed: the module is disabled.  The call
\* has no deadline: if Proxmox neither answers nor refuses, neither action is
\* taken and the server never listens.
ConnectFails ==
    /\ up /\ ~listening
    /\ listening' = TRUE
    /\ UNCHANGED <<ready, up, proxmox, pc, call, on, seen, reply>>

-----------------------------------------------------------------------------
(* The handlers, and what the methods of Service have in common *)

Receive(r) ==
    /\ up /\ listening /\ pc[r] = "new"
    /\ \E c \in Calls :
          /\ call' = [call EXCEPT ![r] = c]
          /\ on' = [on EXCEPT ![r] = c.id]
    /\ Goto(r, "received")
    /\ UNCHANGED <<process, proxmox, seen, reply>>

\* An :id that is no number; a body that cannot be parsed or lacks the name or
\* the template.
Reject(r) ==
    /\ up /\ pc[r] = "received" /\ ~Is(r, "list")
    /\ Answer(r, 400)
    /\ UNCHANGED <<process, proxmox, call, on, seen>>

CheckReady(r) ==
    /\ up /\ pc[r] = "received" /\ ~ready
    /\ Answer(r, 501)
    /\ UNCHANGED <<process, proxmox, call, on, seen>>

NodeFound(r) ==
    /\ up /\ pc[r] = "received" /\ ready
    /\ Goto(r, IF Is(r, "list") THEN "list" ELSE "vm")
    /\ UNCHANGED <<process, proxmox, call, on, seen, reply>>

\* Only List, Get and Create look at the error of Node.  The others go on with
\* the nil node; nothing recovers the panic and the process ends.
NodeFails(r) ==
    /\ up /\ pc[r] = "received" /\ ready
    /\ IF call[r].op \in {"list", "get", "create"}
       THEN Answer(r, 500) /\ UNCHANGED up
       ELSE up' = FALSE /\ UNCHANGED <<pc, reply>>
    /\ UNCHANGED <<ready, listening, proxmox, call, on, seen>>

ListVMs(r) ==
    /\ up /\ pc[r] = "list"
    /\ Answer(r, 200)
    /\ UNCHANGED <<process, proxmox, call, on, seen>>

\* VirtualMachine finds the VM; what the request does with it comes next.
VMFound(r) ==
    /\ up /\ pc[r] = "vm" /\ vms[on[r]] # "absent"
    /\ seen' = [seen EXCEPT ![r] = maker[on[r]]]
    /\ \/ call[r].op \in {"get", "metrics"} /\ Answer(r, 200)
       \/ /\ call[r].op \in {"start", "stop", "reboot", "create", "delete"}
          /\ Goto(r, CASE Is(r, "create") -> "clone"
                       [] Is(r, "delete") -> "stop"
                       [] OTHER -> "act")
          /\ UNCHANGED reply
    /\ UNCHANGED <<process, proxmox, call, on>>

\* A call whose error the code looks at: a VM that is not there (any more),
\* a refusal, a connection that broke.
CallFails(r) ==
    /\ up /\ pc[r] \in {"list", "vm", "act", "clone", "newVM", "config", "start", "destroy"}
    /\ Answer(r, 500)
    /\ UNCHANGED <<process, proxmox, call, on, seen>>

\* Proxmox accepts a task on the VM that has the id now; that it would refuse
\* one on a VM that is still being cloned is nothing the code may rely on.
Begin(r, kind) ==
    /\ vms[on[r]] # "absent"
    /\ tasks' = tasks \cup {Task(r, kind, on[r])}

\* Start, Stop (an ACPI shutdown) and Reboot return without waiting.
Act(r) ==
    /\ up /\ pc[r] = "act"
    /\ Begin(r, call[r].op)
    /\ Answer(r, 200)
    /\ UNCHANGED <<process, vms, maker, failed, destroyed, call, on, seen>>

-----------------------------------------------------------------------------
(* Create and Delete *)

Clone(r) ==
    /\ up /\ pc[r] = "clone" /\ vms[on[r]] # "absent"
    /\ \E i \in Ids :
          /\ vms[i] = "absent"
          /\ vms' = [vms EXCEPT ![i] = "cloning"]
          /\ maker' = [maker EXCEPT ![i] = r]
          /\ on' = [on EXCEPT ![r] = i]
          /\ tasks' = tasks \cup {Task(r, "clone", i)}
    /\ Goto(r, "waitClone")
    /\ UNCHANGED <<process, failed, destroyed, call, seen, reply>>

NewVM(r) ==
    /\ up /\ pc[r] = "newVM" /\ vms[on[r]] # "absent"
    /\ Goto(r, "config")
    /\ UNCHANGED <<process, proxmox, call, on, seen, reply>>

Config(r) ==
    /\ up /\ pc[r] = "config"
    /\ Begin(r, "config")
    /\ Goto(r, "waitConfig")
    /\ UNCHANGED <<process, vms, maker, failed, destroyed, call, on, seen, reply>>

\* Mutant of AfterConfig: the request is answered before the start is asked for.
AfterConfigEarly(r) ==
    IF call[r].startOnCreate
    THEN Goto(r, "start") /\ reply' = [reply EXCEPT ![r] = 201]
    ELSE Answer(r, 201)

\* Once the wait for the Config task is over, however it ended.
AfterConfig(r) ==
    IF call[r].startOnCreate THEN Goto(r, "start") /\ UNCHANGED reply
                             ELSE Answer(r, 201)

StartNew(r) ==
    /\ up /\ pc[r] = "start"
    /\ Begin(r, "start")
    /\ Goto(r, "waitStart")
    /\ UNCHANGED <<process, vms, maker, failed, destroyed, call, on, seen, reply>>

\* Before Delete; an error is ignored.
StopFirst(r) ==
    /\ up /\ pc[r] = "stop"
    /\ \/ Begin(r, "stop") /\ Goto(r, "waitStop")
       \/ Goto(r, "destroy") /\ UNCHANGED tasks
    /\ UNCHANGED <<process, vms, maker, failed, destroyed, call, on, seen, reply>>

Destroy(r) ==
    /\ up /\ pc[r] = "destroy"
    /\ Begin(r, "destroy")
    /\ Goto(r, "waitDestroy")
    /\ UNCHANGED <<process, vms, maker, failed, destroyed, call, on, seen, reply>>

Kind(r) == CASE pc[r] = "waitClone"   -> "clone"
             [] pc[r] = "waitConfig"  -> "config"
             [] pc[r] = "waitStart"   -> "start"
             [] pc[r] = "waitStop"    -> "stop"
             [] pc[r] = "waitDestroy" -> "destroy"

Waits == {"waitClone", "waitConfig", "waitStart", "waitStop", "waitDestroy"}

\* What follows a wait that ended without an error.
Continue(r) ==
    \/ pc[r] = "waitClone" /\ Goto(r, "newVM") /\ UNCHANGED reply
    \/ pc[r] = "waitConfig" /\ AfterConfig(r)
    \/ pc[r] = "waitStart" /\ Answer(r, 201)
    \/ pc[r] = "waitStop" /\ Goto(r, "destroy") /\ UNCHANGED reply
    \/ pc[r] = "waitDestroy" /\ Answer(r, 204)

\* Mutant of WaitFor: it does not wait.
WaitForNothing(r) ==
    /\ up /\ pc[r] \in Waits
    /\ Continue(r)
    /\ UNCHANGED <<process, proxmox, call, on, seen>>

\* The task has ended, well or not: whether WaitFor tells, the code leaves open.
WaitFor(r) ==
    /\ up /\ pc[r] \in Waits
    /\ Task(r, Kind(r), on[r]) \notin tasks
    /\ Continue(r)
    /\ UNCHANGED <<process, proxmox, call, on, seen>>

\* Mutant of WaitFails: WaitFor without a bound on the time.
WaitFailsUntimed(r) ==
    /\ up /\ pc[r] \in Waits
    /\ Task(r, Kind(r), on[r]) \in failed
    /\ IF pc[r] \in {"waitClone", "waitDestroy"} THEN Answer(r, 500) ELSE Continue(r)
    /\ UNCHANGED <<process, proxmox, call, on, seen>>

\* Mutant of WaitFails: the error of the wait for the clone is ignored as well.
WaitFailsIgnored(r) ==
    /\ up /\ pc[r] \in Waits
    /\ IF pc[r] = "waitDestroy" THEN Answer(r, 500) ELSE Continue(r)
    /\ UNCHANGED <<process, proxmox, call, on, seen>>

\* The seconds of WaitFor have passed, or asking for the task failed: an error
\* for Clone and Delete, ignored for Config, Start and Stop.
WaitFails(r) ==
    /\ up /\ pc[r] \in Waits
    /\ IF pc[r] \in {"waitClone", "waitDestroy"} THEN Answer(r, 500) ELSE Continue(r)
    /\ UNCHANGED <<process, proxmox, call, on, seen>>

-----------------------------------------------------------------------------
(* Proxmox *)

\* The VM that a task is about; a clone is about the VM that it makes.
Mine(t) == vms[t.id] # "absent" /\ (t.kind = "clone" => maker[t.id] = t.by)

\* A task ends well.  A VM that runs is not destroyed.
TaskDone(t) ==
    /\ t.kind = "destroy" => vms[t.id] # "running"
    /\ tasks' = tasks \ {t}
    /\ vms' = IF ~Mine(t) THEN vms
              ELSE [vms EXCEPT ![t.id] =
                        CASE t.kind \in {"clone", "stop"}   -> "stopped"
                          [] t.kind \in {"start", "reboot"} -> "running"
                          [] t.kind = "config"              -> @
                          [] t.kind = "destroy"             -> "absent"]
    /\ destroyed' = IF t.kind = "destroy" /\ Mine(t) THEN destroyed \cup {maker[t.id]}
                                                    ELSE destroyed
    /\ UNCHANGED <<process, maker, failed, pc, call, on, seen, reply>>

\* A task fails; what a clone had copied is removed.
TaskFails(t) ==
    /\ tasks' = tasks \ {t} /\ failed' = failed \cup {t}
    /\ vms' = IF t.kind = "clone" /\ Mine(t) THEN [vms EXCEPT ![t.id] = "absent"] ELSE vms
    /\ UNCHANGED <<process, maker, destroyed, pc, call, on, seen, reply>>

\* Every request of the instance is answered, or the process has ended.
Quiescent ==
    /\ up => \A r \in Requests : pc[r] = "answered"
    /\ UNCHANGED vars

-----------------------------------------------------------------------------

\* What the goroutine of r does next, once the request is there.
Proceed(r) ==
    \/ Reject(r) \/ CheckReady(r) \/ NodeFound(r) \/ NodeFails(r)
    \/ ListVMs(r) \/ VMFound(r) \/ CallFails(r) \/ Act(r)
    \/ Clone(r) \/ NewVM(r) \/ Config(r) \/ StartNew(r)
    \/ StopFirst(r) \/ Destroy(r) \/ WaitFor(r) \/ WaitFails(r)

Next ==
    \/ \E r \in Requests : Receive(r) \/ Proceed(r)
    \/ \E t \in tasks : TaskDone(t) \/ TaskFails(t)
    \/ Connects \/ ConnectFails \/ Quiescent

Spec == Init /\ [][Next]_vars

\* Proxmox answers every call or the connection to it breaks, and the timeouts
\* of WaitFor pass.  No task has to end.
FairSpec == Spec /\ \A r \in Requests : WF_vars(Proceed(r))

-----------------------------------------------------------------------------
(* Properties *)

TypeOK ==
    /\ ready \in BOOLEAN /\ listening \in BOOLEAN /\ up \in BOOLEAN
    /\ vms \in [Ids -> {"absent", "cloning", "stopped", "running"}]
    /\ maker \in [Ids -> Requests \cup {NoOne}]
    /\ \A t \in tasks \cup failed :
          /\ t.by \in Requests /\ t.id \in Ids
          /\ t.kind \in {"clone", "config", "start", "stop", "reboot", "destroy"}
    /\ destroyed \in SUBSET (Requests \cup {NoOne})
    /\ pc \in [Requests -> PCs]
    /\ call \in [Requests -> Calls \cup {NoCall}]
    /\ on \in [Requests -> Ids]
    /\ seen \in [Requests -> Requests \cup {NoOne}]
    /\ reply \in [Requests -> {0, 200, 201, 204, 400, 500, 501}]
    /\ \A r \in Requests : pc[r] = "answered" <=> reply[r] # 0

\* Proxmox has a task of the creation r on its new VM that is not the clone.
Working(r) ==
    Is(r, "create") /\ \E t \in tasks : t.by = r /\ t.kind \in {"config", "start"}

\* A VM is configured, started and reported with 201 only once it is copied to
\* the end: no creation goes on while its clone task runs, although the waits
\* for its later tasks may be cut short and their errors are ignored
\* (service.go:93-131).  This holds of a creation whose clone did not fail and
\* whose VM nobody has destroyed.  Of the others nothing is promised: WaitFor
\* need not tell of a failed clone, and the id that the creation then works on
\* may be another's by now.
CreatedIsWhole ==
    \A r \in Requests :
        /\ reply[r] = 201 \/ Working(r)
        /\ r \notin destroyed /\ Task(r, "clone", on[r]) \notin failed
        => maker[on[r]] = r /\ vms[on[r]] \in {"stopped", "running"}

\* When a deletion is answered with 204, the VM that it looked up is gone, even
\* when its stop was refused or not waited for and others worked on the same
\* VM; unless its destroy task failed (service.go:197-205).
DeletedIsGone ==
    \A r \in Requests :
        reply[r] = 204 /\ Task(r, "destroy", on[r]) \notin failed =>
            vms[on[r]] = "absent" \/ maker[on[r]] # seen[r]

\* Every request is answered although no task of Proxmox ever ends: the waits
\* are bounded (service.go:102, 121, 129, 199, 205).
RequestsEnd ==
    \A r \in Requests : pc[r] = "received" ~> pc[r] = "answered" \/ ~up

\* When the Proxmox API cannot be reached the VM module is out of order, and
\* the rest of the service goes on (main.go:43, vm/handler.go:140-145).
ProxmoxFailureIsContained == up

=============================================================================
