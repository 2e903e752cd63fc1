# AYWS compute service: formal model

TLA+ modules, TLC configurations and TLAPS proofs about the compute service of this repository: an
HTTP server (Go, Fiber) that keeps a registry of user functions and runs them in Docker containers,
and forwards requests about containers, Kubernetes deployments and Proxmox virtual machines to their
daemons. Source paths below are relative to the repository root.

Run the tools in this directory: `tlc -config <name>.cfg MC<Module>` checks an instance, `tlapm
<Module>Proofs.tla` (and `ServerlessServiceRefinement.tla`) checks the proofs. `PROJECT.json` lists
the runs, the lines of code that each definition models, the hazards, the findings and the theorems.

## 1. Inventory

| Part | State it keeps | Operations | Talks to |
|---|---|---|---|
| Function registry: `internal/serverless/service.go`, `handler.go`, `types.go` | in memory only: `store.fns` (id to function, with `InvokeCount`), `store.logs` (id to its last 100 entries), one `sync.RWMutex` | list, create, get, invoke, logs, delete under `/api/compute/functions` | the Runner; HTTP clients |
| Sandbox runner: `internal/serverless/runner.go` | none; one container per invocation in the Docker daemon | `Invoke`: create, start, wait, logs, (deferred) remove | Docker daemon, through two contexts |
| Containers, networks, volumes: `internal/container/docker_client.go`, `handler.go` | none; everything is in the Docker daemon | list, create, get, start, stop, remove, logs, stats, prune; list and create networks and volumes | the same Docker daemon as the Runner |
| Kubernetes: `internal/container/k8s_client.go`, `handler.go` | the configured namespace | namespaces, pods, deployments: list, create, scale, delete | Kubernetes API server |
| VMs: `internal/vm/*` | the Proxmox client and the node's name | list, create, get, start, stop, reboot, delete, metrics | Proxmox API, whose tasks go on after the call |
| Startup and shutdown: `cmd/server/main.go` | which modules got a client | load the configuration, connect to Proxmox, probe the Docker hosts, gate the modules, listen, shut down | all of the above |
| Router, request log, response envelope, configuration | none | a table of routes, a log line, JSON, viper | |

How the parts interact. Every request runs in a goroutine of its own. The registry is the only
shared memory, guarded by its lock; an invocation reads the function under the shared lock, runs it
for up to its timeout under no lock, and records the result under the exclusive lock. The Runner and
the container routes meet in the Docker daemon: an operator may start, stop, remove or prune the
container of an invocation between any two of the Runner's calls. The shutdown meets the Runner in
the context of the request. A panic of any handler ends the process, and with it the registry, since
the router installs no recover middleware.

What is hard here: the interleavings of requests over the registry; what a deletion means for an
invocation that is running; the window of 100 log entries; the container's life cycle with a
timeout, failing calls, late answers, prune, shutdown and crash at every step; the aliasing of the
slices and map keys behind `store.logs`; the parsing of a binary log stream by lines; read, modify
and write across several API calls (Kubernetes), and multi-call operations on containers and on VMs,
whose names and ids are given again. `PROJECT.json` lists each as a hazard at its line.

What makes each part correct:

* registry: it behaves as if every operation were atomic; no invocation is lost; counter and log
  agree; the log's order respects real time and the window keeps the latest; deletion is final;
  reads are current; every request is answered; what `Logs` hands out does not change while it is
  encoded, belongs to the function that was asked for, and does not keep ever more memory;
* Runner: when `Invoke` has returned its container is gone; a reported exit code is real; the output
  is what the function wrote; `Invoke` ends with its timeout, and the shutdown ends;
* Kubernetes: a request acts on the deployment that it names; scalings lose no update; a success was
  applied; what was created is listed;
* VMs: a VM is configured, started and reported only once it is cloned; a deleted VM is gone; waits
  are bounded; a failure of Proxmox stays in the module;
* containers: a creation answers with its own container, which was started; a container that runs is
  removed only by force; the routes do nothing to the Runner's containers that the Runner is not
  ready for;
* startup and shutdown: probing the Docker hosts ends though none answers, a module without its
  daemon refuses, and a shutdown ends though a daemon does not answer.

## 2. Modules

| Module | Models | EXTENDED or used by |
|---|---|---|
| `FunctionRegistry` | the registry's promise: every critical section of `service.go` is one step | `FunctionRegistryProofs`, `ServerlessService` |
| `ServerlessService` | `service.go` statement by statement, with the `RWMutex` | implements `FunctionRegistry`; `ServerlessServiceProofs`, `ServerlessServiceRefinement` |
| `LogMemory` | the memory behind `store.logs`: arrays, slices, and map keys over request buffers | `LogMemoryProofs` |
| `Sandbox` | `Runner.Invoke` with the daemon, its other users, shutdown and crash | `SandboxProofs`, `ComputeService` |
| `LogStream` | `collectLogs`: the daemon's stream of frames and what the code makes of it | |
| `ContainerService` | the Docker routes over one daemon | `ComputeService` |
| `ComputeService` | the process, start to end, with the Docker routes and the Runner over one daemon | implements `Sandbox`; `ComputeServiceProofs` |
| `KubeDeployments` | the deployment routes with the API server and the controller | `KubeDeploymentsProofs` |
| `VMService` | the VM routes with Proxmox and its tasks, and the connection at startup | `VMServiceProofs` |
| `MC<Module>` | the instances for TLC: symmetry sets and constants | |
| `<Module>Proofs` | inductive invariants, lemmas and theorems | |
| `ServerlessServiceRefinement` | the proof that `ServerlessService` implements `FunctionRegistry` | EXTENDS `ServerlessServiceProofs` |

A definition whose comment begins with "Mutant of" is not part of the specification: it is the named
definition with a plausible bug, kept beside it to show that a property notices that bug.

### FunctionRegistry

`Requests` are HTTP requests, each made at most once and each calling any route on any id.
`phase[r]` says how far a request got, `reply[r]` what it is answered: a status, the `<<id,
invoke_count>>` pairs of the body and the log entries of the body. A log entry is named by the
invocation that wrote it, which tells as much as its timestamp and text do. `before[r]` is a history
variable: the requests that had been answered when `r` was received, the order that clients can know
of.

| Code | Actions |
|---|---|
| `service.go` `Create` 75-100, `handler.go` `Create` 45-61 | `RejectCreate`, `CreateFn`, `EncodeCreated` |
| `Get`, `List`, `Logs`, `Delete` | `GetFn`, `ListFns`, `LogsOf`, `DeleteFn` |
| `Invoke` 103-136 | `InvokeUnavailable` and `InvokeStart` (to line 113), `InvokeFail`, `InvokeRecord` (118-135) |

Four details of the code that the model keeps:

* `Create` returns the pointer that it stored and the handler encodes it outside the lock. An
  invocation that found the function in a list may increment the counter meanwhile. The data race is
  modelled as a read of any value that the counter has had (`EncodeCreated`).
* `InvokeRecord` on a deleted function leaves the counter alone but appends the log entry: the map
  `store.logs` gets back a key that no function has. No route shows it (`Logs` looks in `store.fns`
  first), so it is a leak and not a wrong answer, and no property forbids it.
* a run that timed out is a result (exit code -1), is counted and is logged, with an empty text.
* an invocation without a Runner is answered 501 before its id is looked at.

Here a key of `store.logs` is the id that it was when it was written. With Fiber's defaults that is
not so (`LogMemory`, run `log_keys`): the properties of logs in this module are those of the code
with `Immutable: true` in the Fiber configuration or a copy of the id.

### ServerlessService

The same routes with a step per access to shared memory: the shared and exclusive phases of the
`RWMutex` (`Lock` announces the writer, which keeps new readers out, `Drain` waits for the readers
inside), the turns of the loop of `List`, the load and the store of `InvokeCount++`, the append and
the reslice of the log. `ImplementsRegistry` is the refinement of `FunctionRegistry`: a critical
section takes effect when its lock is granted, and until its `Unlock` the mapped state shows the
section's outcome.

`WriterIsAlone` gives each statement the locations that it reads and writes: the two maps, and the
`Function` object of an id. One pair of accesses does conflict, and is excepted by name
(`CreatedIsShared`): `handler.go:60` encodes the object that `Create` stored, after the unlock,
while `service.go:121` may increment its counter. What clients can see of that race is in
`ReadsAreCurrent`.

### LogMemory

The two abstractions that the modules above make of `store.logs`, undone. A slice is an array with
an offset, a length and a capacity; the arrays are `heap`. An entry of the map (`slots`) has the
hash that its key had when it was inserted (`born`) and the buffer that the key's bytes are in.

| Code | Definitions |
|---|---|
| `service.go:113-116`: the Runner's error, which is not recorded | `InvokeFail` |
| `service.go:129-132`: append, reslice | `Grown`, `Pushed`, `Trimmed`, `InvokeRecord` |
| `service.go:138-147`, `handler.go` `Logs`: the stored slice is returned and encoded without the lock | `Logs`, `Encode` (an element a step) |
| `handler.go:67`: `c.Params("id")` | `Receive`: the path goes to the buffer of a `fiber.Ctx` of the pool |
| `service.go:149-160` | `Delete` |

Of Go and Fiber the module takes: `append` writes in place while the capacity lasts and else moves
to a new one, whose size the runtime chooses between one element more and a little over three times
the capacity (it doubles and rounds up to an allocation size class, which for the 56 bytes of an
entry makes 73 of 32 and 219 of 100); an assignment to a map entry puts the new string in the place
of the equal old key; a lookup compares hash and bytes, except that a small map may be searched by
bytes alone; Fiber's `Params` is a string over the path buffer of a context that goes back to the
pool with the answer. `recorded` and `snapshot` are history variables.

### LogStream

What `runner.go:152-174` makes of the stream of `ContainerLogs`. The bytes are numbers here, because
a frame's header ends in the length of the frame and a length of 10 is a newline. `Strip` is the
code's split, filter, cut and join; `FetchFails` and `CollectLogs(k)` with `k` short of the stream's
end are the two errors that the code drops.

### Sandbox

Each invocation is in one call to the daemon (`pc`). What the daemon has (`box`), what it has been
asked and not carried out (`asked`), and what the Runner knows (`known`, `outcome`, `output`,
`removal`) are separate, so that a call which the Runner gave up on may still take effect.

| `runner.go` | Actions |
|---|---|
| 60-106 | `Begin`: the invocation's context and the create call |
| 107-112 | `Created`, `CreateFails`; from `Created` on the removal is deferred |
| 115-117 | `Started`, `StartFails` |
| 120-135 | `WaitStatus`, `WaitFails` |
| 138, 152-174 | `Logs` |
| 112, as deferred | `Remove` |
| 90 | `Expire` |

The container routes (`docker_client.go:231-254, 458-462`) are `OperatorStarts`, `FnExits` (also by
a stop), `OperatorRemoves` and `Prune`. `Shutdown`, `Stop` and `Crash` are `main.go:116-134`. Of the
libraries the model takes, as the code does: a call whose context is done returns an error; a wait
for "not running" returns at once on a container that does not run; a forced removal is final; the
HTTP server ends the contexts of the requests in service when it shuts down.

### ContainerService

`server` says how far the process got; `box`, `name` and `networks` are the daemon's. A container is
named by the request that creates it. A creation is a sequence of calls, every other route one call,
which may fail before or after the daemon has carried it out. Any id or name may be used by anyone:
the ids are known from lists.

| `docker_client.go` | Actions |
|---|---|
| 277-357 `CreateContainer` to `ContainerCreate` | `Create`, `CreateFails` |
| 360-364 the loop over `req.Networks` | `Connect`: joined, or a warning in the log |
| 366-368 | `Start`, `StartFails` |
| 370-375 | `Inspect`, `InspectFails` |
| list, get, start, stop, remove, logs, stats, prune; networks; volumes | `CallDone` with `Changes` or `Shows`; `CallFails` |
| `handler.go`: body, missing client | `Receive`: 400, 503 |

### ComputeService

`main.go` around `ContainerService`, with `Sandbox` for the Runner over the same `box`. `Sandbox`
has the operator's routes as steps of an environment; here they are handlers, and
`ImplementsSandbox` (`SB!Spec`) says that they, the startup and the shutdown do nothing to the
Runner's containers and calls which `Sandbox` does not already allow.

| `main.go` | Actions |
|---|---|
| `config.Load` | `Load`, `LoadFails` |
| the Proxmox client | `PastProxmox` (what comes of it is in `VMService`: `Connects`, `ConnectFails`) |
| the loop over the Docker hosts | `ProbeFails`, `ProbeAnswers` |
| `app.Listen`, the signals, `app.Shutdown` | `Listen`, `Shutdown`, `Stop`, `Crash` |

### KubeDeployments

The handlers choose namespace and name, the client makes one call or, to scale, three. `Named(r)` is
the deployment that a request names by its path and query, or its body; `Target(r)` is the one that
its calls reach. They differ: `handler.go:293` and `:304` pass `(name, namespace)` to methods that
take `(ns, name)`. The API server keeps a `resourceVersion` per object; `UpdateScale` sends back the
one it read. The controller may write at any time. `Created`, `Deleted` and `Scaled` are the writes
where the API server makes them; an action of the client is a write with its answer, and `ApiFails`
is an error, with or without the write: an answer that is lost leaves the cluster changed and the
client with a 500. `stale` is a history variable: the scalings whose deployment anyone has written
since their `GetScale`.

### VMService

Each route is its sequence of calls: node, VM, then the action, or for `Create` clone, wait, look
up, configure, wait, start, wait, and for `Delete` stop, wait, destroy, wait. Proxmox's tasks are a
set that outlives the request. Tasks end well or fail at any time, or never. `WaitFor` may return
without an error when the task has failed, since nothing in the repository says otherwise. `maker`
is a history variable that tells the VMs that have had the same id apart.

The table of `PROJECT.json` names one range of lines per definition. Definitions that stand for the
same few lines of several methods are mapped to one of them: `NodeFound`, `NodeFails`, `CallFails`
and `Act` stand for lines 141-149, 158-166, 175-183 and 192-196 of `vm/service.go`; `WaitFor` and
`WaitFails` for 102, 121, 129, 199 and 205; `RLock` to `Unlock` of `ServerlessService` for every
`mu` call of `service.go`; the `RejectBody` of `KubeDeployments` for `handler.go:275-277` too.

## 3. Runs

| Run | Instance | Shows |
|---|---|---|
| `registry` | 4 requests on 6 routes, 2 functions, window of 2 | `LogMatchesCount`, `NoLostInvocation`, `LogIsHistory`, `OldestDroppedFirst`, `DeleteIsFinal`, `ReadsAreCurrent` |
| `service` | 3 requests on 6 routes, 1 function, window of 1, fair | `WriterIsAlone`, `ImplementsRegistry`, `EveryRequestAnswered` |
| `log_slices` | 5 requests, 2 functions, 2 request contexts, window of 2 | `EncodedIsSnapshot`, `StorageIsBounded` |
| `sandbox` | 2 invocations, fair | `NothingLeftRunning`, `ExitCodeIsReal`, `InvocationEnds`, `ShutdownEnds` |
| `compute` | 2 requests to the Docker routes and 1 invocation, of which 2 are made; 1 name, 1 network, 2 hosts; fair | `CreatedIsOwn`, `RunningIsKept`, `ImplementsSandbox`, `ProbingEnds`, `ShutdownEnds` |
| `kube_shipped` | 3 requests, 2 names that are namespaces and deployments, counts -1 and 2, 3 writes | `ScaleIsReported`, `NoLostScale`, `CreatedIsListed` |
| `vm` | 2 requests on 8 routes, a template and one free id, fair | `CreatedIsWhole`, `DeletedIsGone`, `RequestsEnd` |

Each of them also checks the type invariant of its module.

Five runs show a disagreement between the code and what a comment of it says; each is a finding:

* `log_keys`: the key of a log changes when the request context that its id came with is used again,
  and `Logs` answers with the entries of another function, or none (`handler.go:67`,
  `service.go:129`);
* `sandbox_shutdown`: the deferred removal uses a context that the shutdown has ended, so a graceful
  shutdown leaves the containers of running invocations behind (`runner.go:112`);
* `sandbox_output`: `collectLogs` takes the first eight bytes of each line for a header, but headers
  are per frame and may contain a newline: a function that writes ten characters gets two of them
  back (`runner.go:166`);
* `kube_target`: scaling and deletion reach another deployment than the one the request names,
  unless name and namespace are equal (`handler.go:293, 304`);
* `vm_contained`: a failing node lookup ends the process in five of the VM methods
  (`vm/service.go:141, 158, 175, 192, 213`).

**Bounds.** Three requests suffice for a lost update (a creation and two invocations) or for a use
of a function that is deleted between lookup and record; the fourth adds a reader, with its view and
its order, or a third invocation, which drops an entry from the window of two and orders those that
stay. The code's window of 100 only differs in length, and the theorems hold for any. `service` has
one function: functions meet only in `List`, which reads all of them under one shared lock, and the
liveness of two is beyond the time of a run; the lock's discipline is proved for any number. In
`log_slices` five requests are a `Logs` and four invocations of one function, which fill an array
with a window of two, slide along it and move to a new one while the slice is being encoded; two
contexts let one request be encoded while the others come and go. `Grown` lets every new array have
any size that the rounding could make, so that `StorageIsBounded` says what is true of the program,
a constant multiple of the window; without the copy that `append` makes no multiple would do.

Two invocations of the Runner share nothing but `Prune` and the shutdown, so two show every
interaction. In `compute` two of the three actors are made in any behaviour (`MaxMade`): two
requests that meet over a name or a container, or one request and an invocation. A third adds no new
kind of step to what `Sandbox` has been checked against, where start, stop, removal and prune come
at any time and any number of times. Lists of networks are empty, of one, and of the same one twice.

`LogStream` has lines of up to 12 characters, which include frames whose length is the byte 10,
lines shorter than a header and blank lines; the daemon also splits lines over 16 KiB, which puts a
header in the middle of a line and is beyond the bound. In `KubeDeployments` the same two names
serve as namespaces and as deployments, which is where an exchange shows; `MaxVersion` bounds the
writes: a creation, and two of a scaling, another scaling and the controller, which is what a
scaling that overwrites another takes; a deletion comes on top. In `VMService` a deletion and a
creation meet over one VM and its id, the template's included, since nothing in the code protects
it; that a third request adds nothing to `CreatedIsWhole` and `DeletedIsGone` is what the theorems
of section 4 prove. Both have exceptions that the code makes necessary: `WaitFor` need not report a
task that failed, so that a creation may go on with a clone that is gone, and a deletion be answered
204 with the VM still there; and a creation whose VM another request destroyed goes on with its id,
whoever has it by then. Symmetry is over requests, functions and contexts, and is not used where
liveness is checked.

`kube_shipped` sets `Configured` to the name that the handlers fill in, as the shipped `config.yaml`
does. With any other `kubernetes.namespace`, `CreatedIsListed` fails: `CreateDeployment` falls back
to the configured namespace, and the other three routes to the literal `default`.

**Fairness.** `ServerlessService!FairSpec`: weak fairness of what each request does once it is there
(the Go scheduler runs every goroutine that can run; that `Runner.Invoke` ends is what `Sandbox`
shows). Strong fairness is not needed: a waiting `Lock` keeps new readers out, and in a finite set
of requests each lock is let go of finitely often. `Sandbox!FairSpec`: the timer fires, a call whose
context is done returns, and the daemon answers the two calls that have no deadline, `ContainerLogs`
and `ContainerRemove`. Without the last assumption `Invoke` need not end, which the hazards list.
Nothing makes the function end or the daemon answer create, start and wait.
`ComputeService!FairSpec`: a ping ends with its timeout of two seconds, `main` goes on to listen,
`app.Shutdown` returns when no request is in service, and a call whose context is done returns.
Nothing makes a daemon answer a route, and nothing makes `PastProxmox` happen: `main` waits for
Proxmox without a deadline, so that the server need not get to listen at all. `VMService!FairSpec`:
Proxmox answers calls or the connection breaks, and the timeouts of `WaitFor` pass; no task has to
end. `CHECK_DEADLOCK` is on in every run; each module has a step for the server that waits for
requests, or has ended.

## 4. Proofs

Eight modules hold the theorems; `PROJECT.json` lists them. They state every invariant that a
passing run checks, the one action property and both refinements, for every value of the constants
that satisfies the named assumptions of the modules: any number of requests, functions, containers,
names and networks, any window and capacity. Those assumptions are that sets of names do not overlap
with the values that stand for none, that bounds are numbers (a window is not empty), and, where a
property counts requests, that they are finitely many. Beyond that the proofs rest on nothing but
the library's facts on cardinality and on sequences. In each module, `InitInvariant` and
lemmas that each step keeps the invariant give `Invariance`, and the other theorems follow from
`Invariance` and the definition of the property. TLC has checked each `IInv` on the
instance of the module's run before it was proved.

| Module | Theorems |
|---|---|
| `FunctionRegistryProofs` | `TypeCorrect`, `LogMatchesCountAlways`, `NoInvocationLost`, `LogIsHistoryAlways`, `OldestDroppedFirstAlways`, `DeletionIsFinal`, `ReadsAreCurrentAlways` |
| `ServerlessServiceProofs` | `TypeCorrect`, `WritersAreAlone` |
| `ServerlessServiceRefinement` | `Refinement` (of `FunctionRegistry`), `ServicePromises`, `MapsAgree` |
| `LogMemoryProofs` | `TypeCorrect`, `ReadsAreSnapshots`, `ArraysAreBounded` |
| `SandboxProofs` | `TypeCorrect`, `NothingLeft`, `ExitCodesAreReal` |
| `ComputeServiceProofs` | `TypeCorrect`, `CreatedOwn`, `RunningKept`, `Refinement` (of `Sandbox`), `SandboxesAreKept` |
| `KubeDeploymentsProofs` | `TypeCorrect`, `ScalingsAreReported`, `NoScalingLost`, `CreationsAreListed` |
| `VMServiceProofs` | `TypeCorrect`, `CreationsAreWhole`, `DeletionsAreFinal` |

`FunctionRegistryProofs`. None of the properties is inductive alone. The invariant `IInv` adds:

* `FreshIds`: an id that was not issued has a counter of zero and no log, so that a creation starts
  from zero;
* `RequestsInOrder`: what the phase of a request says of its call, its reply and its past: it has no
  reply until it is replying, and an invocation only ever succeeds on an id that was issued;
* `LogsAreInvocations`: every entry of a log is an invocation of that function that was answered
  with a result;
* `RunsOnlyUndeleted`: an invocation received after a deletion was answered never runs the deleted
  function;
* `CreatorsCameFirst`, `NothingDropped`: a creation that is still to be encoded was received before
  any invocation of its function was answered, so that the counter which it races to read is not
  behind what its client knew; and a log that the window has not cut has every invocation in it.
  With `NoLostInvocation`, which makes counters comparable with sets of invocations,
  `ReadsAreCurrent` is inductive with these.

With these, a step that records an invocation appends a request that is new to the log, that no
earlier entry has in its past, and that raises counter and set of invocations together. The lemmas
before the invariant say what `KeepLast` returns: its length, its entries by position, and that what
it drops was in front of what it keeps.

`ServerlessServiceProofs`. `WriterIsAlone` speaks of statements, the lock of `readers`, `pending`
and `writer`; what joins them is

* `LockHeld`: whoever is in a section holds the lock in the section's kind;
* `LockExcludes`: one goroutine at most is in `Lock` or holds the lock alone, and no reader is
  inside with a holder;
* `InRoute`, `ReplySoFar`, `Remembers`: the routes that come by each statement, and what a goroutine
  has put in its reply or keeps from one statement to the next is still what the shared memory says
  while it holds the lock;
* `OwnIds`, `LogsBounded`: a creation's id is its own until it is inserted; outside of an append a
  log fits the window.

`ServerlessServiceRefinement`. The mapping shows a section's outcome from the moment that its lock
is granted, so the proof has one lemma per kind of step: `DrainCreate`, `DrainDelete` and
`DrainInvoke` are the registry's `CreateFn`, `DeleteFn` and `InvokeRecord`; the statements inside a
section (`SectionSteps`) bring the maps to where the mapped state already is; a read under the
shared lock is the registry's read, and a list takes effect at its end, since no writer came in
between its turns (`SharedSteps`); everything else is the registry's step of the same name or a
stutter (`HandlerSteps`, `NewFunctionStep`). `OutsideFrame` says that no step disturbs what another
request's section is mapped to, which is `WriterIsAlone` put to use. `ServicePromises` then carries
the six properties of the registry over to the statements, by instantiating
`FunctionRegistryProofs` with the mapped state; `MapsAgree` takes `LogMatchesCount` back to
`store.fns` and `store.logs` themselves, which the mapping equals whenever no request holds the lock
alone.

`LogMemoryProofs`. `Logs` returns a slice of the array that later invocations append to, and it is
encoded after the lock was let go of. It is safe because an append never writes below the length of
a slice that was handed out: `BehindTop` says that such a slice ends where the map's entry for its
array ends, or before, and `OwnArrays` that two entries never share an array. `append` either writes
the element behind the entry's end (`AppendInPlace`) or an array that is new (`AppendInNew`), and
the reslice only moves the entry's start. That the array stays within three windows and one entry
needs that an entry reaches to the end of its array and holds a window at most (`Stored`).

`SandboxProofs`. The invariant (`Order`) relates the Runner's place in `Invoke` to the daemon: a
start is only asked of a container that the Runner knows, from the wait on the container was started,
and what was started has ended or still runs.

`ComputeServiceProofs`. `InOrder` says, per request, what the call that it is in tells of its
container: from the creation on the container bears the request's name, every network is joined, in
the log or still to come (`Accounted`), and at the inspection the container has been started. A step
of one request changes another's container only by starting, stopping or removing it (`ChangesKeep`,
`OthersKept`), which `InOrder` allows at any call: that is why `CreatedIsOwn` holds whatever prune
and remove do in between. `Refinement` takes the routes one by one: each does to the Runner's
containers nothing, or what `Sandbox` has as `OperatorStarts`, `FnExits`, `OperatorRemoves` or
`Prune`; `main` does `Shutdown`, `Stop` and `Crash` or nothing that `Sandbox` sees. With it the
theorems of `SandboxProofs` hold of the composed process (`SandboxesAreKept`, and `Sandbox`'s part
of `TypeOK`). `MaxMade` bounds what TLC explores and is any number in the proofs.

`KubeDeploymentsProofs`. `CreationsAreListed` has its hypothesis `Configured = Default` in its
statement. The invariant adds that no deployment's version is beyond the cluster's last one, that
neither is what a request has read, and that a request which is stale at its `UpdateScale` has read
an older version than its deployment has (`VersionsGrow`), so that `Scaled` refuses it; and that
only answered requests are in anyone's past (`PastIsAnswered`).

`VMServiceProofs`. The invariant adds that each request makes one VM at most (`ClonesOnce`), that
whoever made a VM has got past its clone (`MakersHaveCloned`), and, per request, what its place in
the route says of the VM that it works on: its clone task is under way, or is over and the VM is
whole, or it failed or the VM was destroyed (`Creation`); a destroy that is not awaited any more has
failed or has taken the VM (`Deletion`).

Only model-checked: liveness (`EveryRequestAnswered`, `InvocationEnds`, `ShutdownEnds`,
`ProbingEnds`, `RequestsEnd`), which with fairness and ENABLED is out of the reach of the prover;
the five findings, which are counterexamples; and `LogStream`, what `Split` and `Join` compute being
an induction over their data.

## 5. Plan

Done: the modules of section 2, and the proofs of section 4.

Left, in this order:

1. what the liveness of `ServerlessService` and `Sandbox` rests on, as far as it is safety: a request
   that waits for the lock is kept out only by one that is inside a section or ahead of it, and no
   call of the Runner outlasts the context that it was given;
2. what a client is told of a deployment or a VM, beyond `ScaleIsReported` and `CreatedIsWhole`: that
   an error which comes before the first write has changed nothing;
3. the registry in the composition, so that an invocation of the registry is a run of the sandbox.

## 6. Not modelled

* Router, request log, response envelope: no state. The statuses are in the modules.
* Configuration: read once. Options that no code reads: `server.read_timeout`, `write_timeout`,
  `body_limit`, `docker.api_version`, `serverless.runtime_image`; `serverless.timeout_seconds` and
  `memory_limit_mb` reach the Runner but `Create` (`service.go:76-81`) fills in 30 and 128 before
  they could matter. Of viper only that a file may be missing, unreadable or of the wrong shape
  (`Load`, `LoadFails`).
* The bodies of answers beyond ids, counters and log entries; `mapVM`, metrics, container
  statistics; ports, mounts, limits and environment, which pass through to the daemon.
* The namespaces and pods routes: single reads of the cluster that change nothing.
* The arithmetic of a run's memory and timeout (`runner.go:62-82`): one expression each, without
  state.
* `PullImage`: no route calls it. A network of a name that exists: the daemon makes a second one,
  which no property tells from the first.
* A daemon that is replaced by another after a restart: `ComputeService` has the one that answered.
* Build files.
