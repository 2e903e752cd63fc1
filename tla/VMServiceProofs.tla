---------------------------- MODULE VMServiceProofs ----------------------------
(***************************************************************************)
(* Proofs about VMService, for any requests, any ids and any routes.       *)
(***************************************************************************)
EXTENDS VMService, TLAPS

Kinds == {"clone", "config", "start", "stop", "reboot", "destroy"}
Tasks == [by : Requests, kind : Kinds, id : Ids]

\* Where a request is that cannot have cloned a VM, and where one has.
BeforeClone == {"new", "received", "list", "vm", "act", "clone"}
AfterClone  == {"newVM", "config", "waitConfig", "start", "waitStart"}

TasksAreTasks == tasks \subseteq Tasks /\ failed \subseteq Tasks

\* A request clones before any other task it begins, and once; what it cloned
\* is what it works on.
ClonesOnce ==
    \A t \in tasks : pc[t.by] \notin BeforeClone /\ (t.kind = "clone" => t.id = on[t.by])

\* The VM of a creation is there, and complete once its clone task has ended.
OwnVM(r) ==
    r \notin destroyed /\ Task(r, "clone", on[r]) \notin failed =>
        /\ maker[on[r]] = r /\ vms[on[r]] # "absent"
        /\ Task(r, "clone", on[r]) \notin tasks => vms[on[r]] \in {"stopped", "running"}

\* The creations that have come past the wait for their clone.
Made(r) == pc[r] \in AfterClone \/ reply[r] = 201 \/ Working(r)

Creation(r) ==
    /\ Made(r) \/ pc[r] = "waitClone" => OwnVM(r)
    /\ Made(r) => Task(r, "clone", on[r]) \notin tasks
    /\ Working(r) => pc[r] \notin BeforeClone \cup {"waitClone"}

\* The requests that are known as makers have cloned: none of them will be the
\* maker of a VM that is made from now on.
MakersHaveCloned == \A i \in Ids : maker[i] \in Requests => pc[maker[i]] \notin BeforeClone
SeenHasCloned(r) == seen[r] \in Requests => pc[seen[r]] \notin BeforeClone

\* Once the destroy task of a deletion has ended well, the VM is gone for good.
Gone(r) == vms[on[r]] = "absent" \/ maker[on[r]] # seen[r]

Deletion(r) ==
    /\ pc[r] = "waitDestroy" => Task(r, "destroy", on[r]) \in tasks \cup failed \/ Gone(r)
    /\ reply[r] = 204 => Task(r, "destroy", on[r]) \in failed \/ Gone(r)

\* Of the tasks that are not waited for.
PowerAction(r) == pc[r] = "act" => call[r].op \in {"start", "stop", "reboot"}

InOrder(r) == Creation(r) /\ Deletion(r) /\ SeenHasCloned(r) /\ PowerAction(r)

IInv ==
    /\ TypeOK /\ TasksAreTasks /\ ClonesOnce /\ MakersHaveCloned
    /\ \A r \in Requests : InOrder(r)

LEMMA InitInvariant == Init => IInv
<1> SUFFICES ASSUME Init PROVE IInv
  OBVIOUS
<1> USE TemplateAssumption, NoOneAssumption DEF Init
<1>1. TypeOK
  BY DEF TypeOK, PCs
<1>2. TasksAreTasks /\ ClonesOnce /\ MakersHaveCloned
  BY DEF TasksAreTasks, ClonesOnce, MakersHaveCloned
<1>3. \A r \in Requests : InOrder(r)
  BY DEF InOrder, Creation, Made, Working, AfterClone, Deletion, SeenHasCloned, PowerAction
<1> QED
  BY <1>1, <1>2, <1>3 DEF IInv


-----------------------------------------------------------------------------
(* Types *)

LEMMA RequestTypes ==
    ASSUME IInv, NEW r \in Requests, Receive(r) \/ Proceed(r)
    PROVE  TypeOK'
<1> USE TemplateAssumption, NoOneAssumption
    DEF IInv, TypeOK, PCs, Goto, Answer, Is, process, proxmox
<1>1. CASE Receive(r)
  <2>1. PICK c \in Calls :
            /\ call' = [call EXCEPT ![r] = c]
            /\ on' = [on EXCEPT ![r] = c.id]
    BY <1>1 DEF Receive
  <2>2. c.id \in Ids
    BY DEF Calls
  <2> QED
    BY <1>1, <2>1, <2>2 DEF Receive
<1>2. CASE Reject(r) \/ CheckReady(r) \/ ListVMs(r) \/ CallFails(r) \/ NewVM(r)
  BY <1>2 DEF Reject, CheckReady, ListVMs, CallFails, NewVM
<1>8. CASE NodeFound(r)
  BY <1>8 DEF NodeFound
<1>9. CASE NodeFails(r)
  <2>1. CASE call[r].op \in {"list", "get", "create"}
    BY <1>9, <2>1 DEF NodeFails
  <2>2. CASE call[r].op \notin {"list", "get", "create"}
    <3>1. up' = FALSE /\ UNCHANGED <<pc, reply>>
      BY <1>9, <2>2 DEF NodeFails
    <3>2. UNCHANGED <<ready, listening, vms, maker, tasks, failed, destroyed, call, on, seen>>
      BY <1>9 DEF NodeFails
    <3> QED
      BY <3>1, <3>2
  <2> QED
    BY <2>1, <2>2
<1>3. CASE VMFound(r)
  <2>1. seen' \in [Requests -> Requests \cup {NoOne}]
    BY <1>3 DEF VMFound
  <2>2. \/ Answer(r, 200)
        \/ \E l \in {"clone", "stop", "act"} : Goto(r, l) /\ UNCHANGED reply
    BY <1>3 DEF VMFound
  <2> QED
    BY <1>3, <2>1, <2>2 DEF VMFound
<1>4. CASE Act(r)
  <2>1. call[r].op \in {"start", "stop", "reboot"}
    BY <1>4 DEF Act, InOrder, PowerAction
  <2> QED
    BY <2>1, <1>4 DEF Act, Begin, Task
<1>5. CASE Clone(r)
  BY <1>5 DEF Clone, Task
<1>6. CASE Config(r) \/ StartNew(r) \/ StopFirst(r) \/ Destroy(r)
  BY <1>6 DEF Config, StartNew, StopFirst, Destroy, Begin, Task
<1>7. CASE WaitFor(r) \/ WaitFails(r)
  BY <1>7 DEF WaitFor, WaitFails, Waits, Continue, AfterConfig
<1> QED
  BY <1>1, <1>2, <1>3, <1>4, <1>5, <1>6, <1>7, <1>8, <1>9 DEF Proceed

LEMMA TaskTypes ==
    ASSUME IInv, NEW t \in tasks, TaskDone(t) \/ TaskFails(t)
    PROVE  TypeOK'
<1> USE DEF IInv, TypeOK, process
<1>1. CASE TaskDone(t)
  BY <1>1 DEF TaskDone
<1>2. CASE TaskFails(t)
  BY <1>2 DEF TaskFails
<1> QED
  BY <1>1, <1>2


-----------------------------------------------------------------------------
(* The steps of a request *)

\* What every step of r but a clone leaves alone.
Elsewhere(r) ==
    /\ UNCHANGED <<vms, maker, failed, destroyed>>
    /\ tasks \subseteq tasks' /\ tasks' \subseteq Tasks
    /\ \A t \in tasks' \ tasks : t.kind # "clone" /\ t.by = r /\ pc'[r] \notin BeforeClone
    /\ \A s \in Requests \ {r} :
          /\ pc'[s] = pc[s] /\ reply'[s] = reply[s]
          /\ on'[s] = on[s] /\ seen'[s] = seen[s] /\ call'[s] = call[s]
    /\ pc[r] \notin BeforeClone => pc'[r] \notin BeforeClone /\ on'[r] = on[r]

LEMMA ElsewhereKeeps ==
    ASSUME IInv, NEW r \in Requests, Elsewhere(r), TypeOK', InOrder(r)'
    PROVE  IInv'
<1> USE DEF IInv, Elsewhere
<1>1. TasksAreTasks' /\ MakersHaveCloned'
  BY DEF TasksAreTasks, MakersHaveCloned, TypeOK
<1>2. ClonesOnce'
  BY DEF ClonesOnce, TasksAreTasks, Tasks
<1>3. ASSUME NEW s \in Requests \ {r}  PROVE InOrder(s)'
  <2>1. Creation(s)'
    <3>1. Working(s)' => Working(s)
      BY <1>3 DEF Working, Is
    <3>2. Made(s)' => Made(s)
      BY <1>3, <3>1 DEF Made
    <3>3. Task(s, "clone", on[s]) \notin tasks => Task(s, "clone", on[s]) \notin tasks'
      BY DEF Task
    <3> QED
      BY <1>3, <3>1, <3>2, <3>3 DEF InOrder, Creation, OwnVM, Task
  <2>2. Deletion(s)'
    BY <1>3 DEF InOrder, Deletion, Gone, Task
  <2>3. SeenHasCloned(s)' /\ PowerAction(s)'
    BY <1>3 DEF InOrder, SeenHasCloned, PowerAction, TypeOK
  <2> QED
    BY <2>1, <2>2, <2>3 DEF InOrder
<1> QED
  BY <1>1, <1>2, <1>3

\* A step of r that begins no task leaves a creation what it was, if it goes
\* past the clone only when the task has ended.
LEMMA CreationStays ==
    ASSUME IInv, NEW r \in Requests, UNCHANGED <<vms, maker, tasks, failed, destroyed>>,
           pc[r] # "new" => on'[r] = on[r] /\ call'[r] = call[r],
           pc'[r] # "waitClone", pc[r] \notin BeforeClone => pc'[r] \notin BeforeClone,
           pc'[r] \in AfterClone \/ reply'[r] = 201 =>
               Made(r) \/ (pc[r] = "waitClone" /\ Task(r, "clone", on[r]) \notin tasks)
    PROVE  Creation(r)'
<1>1. Creation(r)
  BY DEF IInv, InOrder
<1>2. pc[r] = "new" => ~Working(r)' /\ ~Working(r)
  BY DEF IInv, ClonesOnce, BeforeClone, Working
<1>3. Working(r)' => Working(r)
  BY <1>2 DEF Working, Is
<1>4. Made(r)' => Made(r) \/ (pc[r] = "waitClone" /\ Task(r, "clone", on[r]) \notin tasks)
  BY <1>3 DEF Made
<1>5. pc[r] = "new" => ~Made(r)'
  BY <1>2, <1>4 DEF Made, AfterClone, IInv, TypeOK
<1>6. Made(r)' => OwnVM(r)' /\ Task(r, "clone", on'[r]) \notin tasks'
  BY <1>1, <1>4, <1>5 DEF Creation, OwnVM
<1> QED
  BY <1>1, <1>2, <1>3, <1>6 DEF Creation, Task

\* The conjuncts of the invariant about r itself, for the steps that leave the
\* cluster alone and for those that start a task.
LEMMA RequestKeepsOrder ==
    ASSUME IInv, NEW r \in Requests, Receive(r) \/ Proceed(r), ~Clone(r)
    PROVE  Elsewhere(r) /\ InOrder(r)'
<1> USE DEF IInv, TypeOK, PCs, TasksAreTasks, Elsewhere, InOrder, SeenHasCloned, PowerAction,
            Goto, Answer, Is, process, proxmox, BeforeClone, AfterClone
<1>1. CASE Receive(r)
  BY <1>1, CreationStays DEF Receive, Deletion
<1>2. CASE Reject(r) \/ CheckReady(r) \/ ListVMs(r) \/ NewVM(r)
  BY <1>2, CreationStays DEF Reject, CheckReady, ListVMs, NewVM, Made, Deletion
<1>3. CASE NodeFound(r)
  BY <1>3, CreationStays DEF NodeFound, Deletion
<1>4. CASE NodeFails(r)
  <2>1. Answer(r, 500) \/ UNCHANGED <<pc, reply>>
    BY <1>4 DEF NodeFails
  <2>2. UNCHANGED <<ready, listening, vms, maker, tasks, failed, destroyed, call, on, seen>>
    BY <1>4 DEF NodeFails
  <2> QED
    BY <1>4, <2>1, <2>2, CreationStays DEF NodeFails, Made, Deletion
<1>5. CASE CallFails(r)
  BY <1>5, CreationStays DEF CallFails, Deletion
<1>6. CASE VMFound(r)
  BY <1>6, CreationStays DEF VMFound, Deletion, MakersHaveCloned
<1>7. CASE Act(r)
  <2>1. call[r].op \in {"start", "stop", "reboot"}
    BY <1>7 DEF Act
  <2>2. Task(r, call[r].op, on[r]) \in Tasks /\ Task(r, call[r].op, on[r]).kind # "clone"
        /\ Task(r, call[r].op, on[r]).by = r
    BY <2>1 DEF Task, Tasks, Kinds
  <2>3. Elsewhere(r) /\ reply'[r] = 200 /\ pc'[r] = "answered"
    BY <1>7, <2>2 DEF Act, Begin
  <2>4. seen' = seen /\ call' = call /\ MakersHaveCloned
    BY <1>7 DEF Act
  <2>5. ~Working(r)' /\ ~Made(r)'
    BY <2>1, <2>3, <2>4 DEF Working, Made
  <2> QED
    BY <1>7, <2>3, <2>4, <2>5 DEF Creation, Deletion
<1>8. CASE Config(r) \/ StartNew(r)
  <2>1. /\ pc[r] \in {"config", "start"} /\ pc'[r] \in {"waitConfig", "waitStart"}
        /\ UNCHANGED <<vms, maker, failed, destroyed, call, on, seen, reply>>
        /\ \E kind \in {"config", "start"} : tasks' = tasks \cup {Task(r, kind, on[r])}
    BY <1>8 DEF Config, StartNew, Begin
  <2>2. Elsewhere(r)
    BY <1>8, <2>1 DEF Config, StartNew, Task, Tasks, Kinds
  <2>3. Made(r) /\ OwnVM(r) /\ Task(r, "clone", on[r]) \notin tasks
    BY <2>1 DEF Made, Creation
  <2>4. Task(r, "clone", on[r]) \notin tasks' /\ OwnVM(r)'
    BY <2>1, <2>3 DEF Task, OwnVM
  <2>5. Creation(r)'
    BY <2>1, <2>4 DEF Creation, Task
  <2> QED
    BY <2>1, <2>2, <2>5 DEF Deletion
<1>9. CASE StopFirst(r) \/ Destroy(r)
  <2>1. /\ pc[r] \in {"stop", "destroy"} /\ pc'[r] \in {"waitStop", "destroy", "waitDestroy"}
        /\ UNCHANGED <<vms, maker, failed, destroyed, call, on, seen, reply>>
        /\ tasks' = tasks \/ \E kind \in {"stop", "destroy"} :
                                tasks' = tasks \cup {Task(r, kind, on[r])}
    BY <1>9 DEF StopFirst, Destroy, Begin
  <2>2. Elsewhere(r)
    BY <1>9, <2>1 DEF StopFirst, Destroy, Task, Tasks, Kinds
  <2>3. Working(r)' => Working(r)
    BY <2>1 DEF Working, Task
  <2>4. Made(r)' => Made(r) /\ OwnVM(r) /\ Task(r, "clone", on[r]) \notin tasks
    BY <2>1, <2>3 DEF Made, Creation
  <2>5. Made(r)' => OwnVM(r)' /\ Task(r, "clone", on[r]) \notin tasks'
    BY <2>1, <2>4 DEF Task, OwnVM
  <2>6. Creation(r)'
    BY <2>1, <2>5 DEF Creation, Task
  <2>7. Deletion(r)'
    BY <1>9 DEF StopFirst, Destroy, Begin, Deletion
  <2> QED
    BY <2>1, <2>2, <2>6, <2>7
<1>10. CASE WaitFor(r)
  <2>1. Creation(r)'
    BY <1>10, CreationStays DEF WaitFor, Waits, Continue, AfterConfig, Kind, Made
  <2> QED
    BY <1>10, <2>1 DEF WaitFor, Waits, Continue, AfterConfig, Kind, Deletion, Gone
<1>11. CASE WaitFails(r)
  <2>1. Creation(r)'
    BY <1>11, CreationStays DEF WaitFails, Waits, Continue, AfterConfig, Made
  <2> QED
    BY <1>11, <2>1 DEF WaitFails, Waits, Continue, AfterConfig, Deletion, Gone
<1> QED
  BY <1>1, <1>2, <1>3, <1>4, <1>5, <1>6, <1>7, <1>8, <1>9, <1>10, <1>11 DEF Proceed

LEMMA CloneKeepsInvariant ==
    ASSUME IInv, NEW r \in Requests, Clone(r), TypeOK'
    PROVE  IInv'
<1>1. PICK i \in Ids :
          /\ vms[i] = "absent"
          /\ vms' = [vms EXCEPT ![i] = "cloning"]
          /\ maker' = [maker EXCEPT ![i] = r]
          /\ on' = [on EXCEPT ![r] = i]
          /\ tasks' = tasks \cup {Task(r, "clone", i)}
  BY DEF Clone
<1>2. /\ pc[r] = "clone" /\ pc' = [pc EXCEPT ![r] = "waitClone"]
      /\ UNCHANGED <<failed, destroyed, call, seen, reply>>
  BY DEF Clone, Goto
<1> USE <1>1, <1>2 DEF IInv, TypeOK, BeforeClone, AfterClone
<1>3. TasksAreTasks' /\ ClonesOnce'
  BY DEF TasksAreTasks, ClonesOnce, Tasks, Kinds, Task
<1>4. MakersHaveCloned'
  BY DEF MakersHaveCloned
<1>5. InOrder(r)'
  <2>1. ~Made(r)' /\ ~Working(r)'
    BY DEF ClonesOnce, InOrder, Creation, Made, Working, Task
  <2> QED
    BY <2>1 DEF InOrder, Creation, Deletion, SeenHasCloned, PowerAction, OwnVM
<1>6. ASSUME NEW s \in Requests \ {r}  PROVE InOrder(s)'
  <2>3. (Made(s)' <=> Made(s)) /\ (Working(s)' <=> Working(s))
    BY <1>6 DEF Made, Working, Task, Is
  <2>1. Creation(s)'
    BY <1>6, <2>3 DEF InOrder, Creation, OwnVM, Task
  <2>2. Deletion(s)'
    BY <1>6 DEF InOrder, Deletion, Gone, Task, SeenHasCloned
  <2> QED
    BY <1>6, <2>1, <2>2 DEF InOrder, SeenHasCloned, PowerAction
<1> QED
  BY <1>3, <1>4, <1>5, <1>6

-----------------------------------------------------------------------------
(* The ends of tasks *)

LEMMA TaskKeepsInvariant ==
    ASSUME IInv, NEW t \in tasks, TaskDone(t) \/ TaskFails(t), TypeOK'
    PROVE  IInv'
<1> USE DEF IInv, TypeOK, TasksAreTasks, Tasks, Kinds
<1>1. /\ tasks' = tasks \ {t} /\ failed' \subseteq failed \cup {t}
      /\ UNCHANGED <<maker, pc, call, on, seen, reply>>
  BY DEF TaskDone, TaskFails
<1>2. TasksAreTasks' /\ ClonesOnce' /\ MakersHaveCloned'
  BY <1>1 DEF ClonesOnce, MakersHaveCloned
<1>3. ASSUME NEW r \in Requests  PROVE Creation(r)'
  <2>3. (Made(r)' => Made(r)) /\ (Working(r)' => Working(r))
    BY <1>1 DEF Made, Working, Is
  <2>1. CASE TaskDone(t)
    BY <1>1, <1>3, <2>1, <2>3 DEF TaskDone, Mine, InOrder, Creation, OwnVM, Task
  <2>2. CASE TaskFails(t)
    BY <1>1, <1>3, <2>2, <2>3 DEF TaskFails, Mine, InOrder, Creation, OwnVM, Task, ClonesOnce
  <2> QED
    BY <2>1, <2>2
<1>4. ASSUME NEW r \in Requests  PROVE Deletion(r)'
  <2>1. CASE TaskDone(t)
    BY <1>1, <1>4, <2>1 DEF TaskDone, Mine, InOrder, Deletion, Gone, Task
  <2>2. CASE TaskFails(t)
    BY <1>1, <1>4, <2>2 DEF TaskFails, Mine, InOrder, Deletion, Gone, Task
  <2> QED
    BY <2>1, <2>2
<1>5. ASSUME NEW r \in Requests  PROVE SeenHasCloned(r)' /\ PowerAction(r)'
  BY <1>1, <1>5 DEF InOrder, SeenHasCloned, PowerAction
<1> QED
  BY <1>2, <1>3, <1>4, <1>5 DEF InOrder

-----------------------------------------------------------------------------
(* Theorems *)

LEMMA NextKeepsInvariant == IInv /\ [Next]_vars => IInv'
<1> SUFFICES ASSUME IInv, [Next]_vars  PROVE IInv'
  OBVIOUS
<1>1. CASE \E r \in Requests : Receive(r) \/ Proceed(r)
  <2>1. PICK r \in Requests : Receive(r) \/ Proceed(r)
    BY <1>1
  <2>2. TypeOK'
    BY <2>1, RequestTypes
  <2>3. CASE Clone(r)
    BY <2>2, <2>3, CloneKeepsInvariant
  <2>4. CASE ~Clone(r)
    BY <2>1, <2>2, <2>4, RequestKeepsOrder, ElsewhereKeeps
  <2> QED
    BY <2>3, <2>4
<1>2. CASE \E t \in tasks : TaskDone(t) \/ TaskFails(t)
  BY <1>2, TaskTypes, TaskKeepsInvariant
<1>3. CASE Connects \/ ConnectFails \/ Quiescent \/ UNCHANGED vars
  <2>1. UNCHANGED <<proxmox, pc, call, on, seen, reply>>
    BY <1>3 DEF Connects, ConnectFails, Quiescent, vars, proxmox
  <2>2. (ready \in BOOLEAN /\ listening \in BOOLEAN /\ up \in BOOLEAN)'
    BY <1>3 DEF Connects, ConnectFails, Quiescent, vars, IInv, TypeOK
  <2>3. TypeOK'
    BY <2>1, <2>2 DEF IInv, TypeOK, proxmox
  <2> QED
    BY <2>1, <2>3 DEF proxmox, IInv, TasksAreTasks, ClonesOnce, MakersHaveCloned, InOrder,
                Creation, Made, Working, Is, Deletion, SeenHasCloned, PowerAction, OwnVM, Gone
<1> QED
  BY <1>1, <1>2, <1>3 DEF Next

\* The invariant that the theorems below rest on.
THEOREM Invariance == Spec => []IInv
<1> QED
  BY InitInvariant, NextKeepsInvariant, PTL DEF Spec

\* Every reachable state has the types of TypeOK.
THEOREM TypeCorrect == Spec => []TypeOK
<1>1. IInv => TypeOK
  BY DEF IInv
<1> QED
  BY <1>1, Invariance, PTL

\* A creation configures, starts and reports its VM only once its clone task
\* has ended, for any number of concurrent requests.  Excepted are a creation
\* whose clone failed, of which WaitFor need not tell, and one whose VM was
\* destroyed: those may go on with a VM that is not theirs.
THEOREM CreationsAreWhole == Spec => []CreatedIsWhole
<1>1. IInv => CreatedIsWhole
  BY DEF IInv, InOrder, Creation, Made, OwnVM, CreatedIsWhole
<1> QED
  BY <1>1, Invariance, PTL

\* A deletion answered with 204 whose destroy task did not fail has removed the
\* VM that it looked up, whatever others did to that VM or to its id.  When the
\* task failed the answer may be 204 as well, with the VM still there.
THEOREM DeletionsAreFinal == Spec => []DeletedIsGone
<1>1. IInv => DeletedIsGone
  BY DEF IInv, InOrder, Deletion, Gone, DeletedIsGone
<1> QED
  BY <1>1, Invariance, PTL

=============================================================================
