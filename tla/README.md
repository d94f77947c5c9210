# A TLA+ model of KuchDesk

KuchDesk runs a development cluster on one machine. Two Go programs hold its
logic: the *host agent* (`host-agent/`), which runs on the machine, keeps the
Infisical sessions and enrolls projects, and the *KuchDesk agent*
(`kuchdesk-agent/`), which runs in the cluster, watches it and changes it on
behalf of the desktop application. This directory models the parts of both
whose correctness depends on the order of things: goroutines, lost answers,
crashes, retries and clients that come and go.

## Inventory

State, operations and the hard part of every component; the module that models
it, or the one planned for it.

### Host agent

| component | state | operations | what is hard | module |
|---|---|---|---|---|
| async runner `internal/async` | records and their order, key slots with reference counts and gates, active slots, contexts | Submit, Cancel, Status, Close; the goroutine of a job | keys deleted and re-created while a token is under way, panics, cancellation after unlock, pruning, Close against Submit | `AsyncRunner`, `KeyedExecutor` |
| enrollment controller `internal/enrollment/controller.go` | the ledger in memory and on disk, the served projects | Cycle, project, NewController | crash between journal and write, lost or late answers, a save that fails after the rename, operators changing memberships and policy under a cycle | `EnrollmentController` |
| policy and access `policy.go` | the policy file, the verified projects | LoadPolicy, Withdraw, Projects | the policy is read again at every decision | in `EnrollmentController` |
| store `store.go` | files of the state directory | Save, Load, the process lock | failure before and after the rename | `SaveThen` of `EnrollmentController`, `Saves` of `HumanSession` |
| REST adapter `adapter.go` | none | Projects, Identities, CreateIdentity, Memberships, SetMembership, EnrollHuman, ReadOnlyIdentity | answers lost after the server acted | in `EnrollmentController` |
| human session `session.go` | tokens, the pending marker, the retry time | Token, Expire, Status, NewSession | a rotating refresh token and a lost answer | `HumanSession` |
| login, transport, runtime `login.go`, `http.go`, `runtime.go` | the callback listener, the imported session | browser login, import, supervision | a callback racing the timeout, an error after the save | `BrowserLogin`; import and restart in `HumanSession` |
| machine client `internal/infisical/client.go` | the cached token | login, requests, discarding a token on 401 | a late 401 for an older token | `MachineClient` |
| commands and service `internal/infisical/commands.go` | the permitted projects, copied by each command | Execute: validated reads and writes | a project withdrawn while its command runs; a write whose answer is lost | `CommandBridge` |
| MCP server `cmd/kuchdesk-infisical-mcp` | the runner of its job tools | the tools of Infisical, deployment and diagnosis | who may go on after which answer | `CommandBridge`, `HostDeployment`, the runner in `AsyncRunner` |
| host bridge `internal/hostbridge`, `kuchdesk-agent/internal/hostbridge` | slots for requests | commands that only read, Doctor requests, health probes | a slot given back on every path, a diagnosis that does not return | `CommandBridge` |
| host agent daemon `cmd/kuchdesk-host-agent` | none of its own; a child process and a session with Technitium while it runs | one reconciliation of a DNS record, started again by launchd | kubectl's output and exit, late calls of an earlier run, cleaning up on every path | `HostReconcile` |
| deploy workflow `internal/deploy` | none of its own: tree, images, registry, nodes, release | Plan, Check, Apply | a tree, a tag and an image store that others use too; a failure between two commands | `DeployWorkflow`, `HostDeployment` |
| doctor `internal/doctor` | the outcomes of one call | Run, Verify, the preflight | cancellation while checks wait for a place, an outcome for every check, `statfs` that hangs | `DoctorReport` |
| platform, project environment | none | reading of files and variables | none over time | not modelled |

### KuchDesk agent

| component | state | operations | what is hard | module |
|---|---|---|---|---|
| collector `internal/agent/collector.go`, `snapshot.go` | the current snapshot, the trigger, ready | Run, refreshLoop, event handlers, metricsLoop | two refreshers, a trigger consumed before the caches are read | `EventStream` |
| broker `internal/stream` | next id, bounded history, subscribers | Publish, Subscribe, unsubscribe | a slow subscriber is dropped; the edge of the history | `EventStream` |
| events handler `internal/httpapi` | per connection: what to send first, the channel | events | the snapshot is read after Subscribe; ids restart with the process | `EventStream` |
| access reviews of the capabilities `manager.go` | the verbs allowed, a pool of workers | capabilities | every worker may leave on an error while the handler hands over work | `AccessReviews` |
| DNS handler and manager `internal/dnsconfig` | the Corefile of the cluster | Read, Replace | optimistic concurrency, the managed block | publication in `EventStream`, replacement in `ManagedWrites`; planned: `Corefile` |
| workload jobs `internal/management/workloadjobs.go` | 64 records, key gates | Submit, Cancel, Status, Close | as the runner; a mutation that lands as its deadline fires | `WorkloadJobs`, `KeyedExecutor` |
| management writes `manager.go`, `workload_action.go`, `batch_jobs.go` | none of its own | scale, restart, put, patch, delete, run a CronJob | a confirmed version that has moved on, an answer lost, a write that lands late | `ManagedWrites` |
| pod exec, port forward | slots, a tunnel's goroutine and its stop channel | one session | a check by name before the dial, a second protocol after a failed one, a tunnel half open when a step fails | `PodSessions` |
| configuration, model, catalog | none | parsing | none over time | not modelled |

The components interact as follows. Requests of the desktop reach the KuchDesk
agent over HTTP; the events handler subscribes to the broker, to which the
collector and the DNS handler publish. The MCP server owns the runner, which does
its deployments one profile at a time; before one it asks the doctor. The host bridge
serves commands to other hosts and, through the agent, to the cluster; it owns a
controller whose `Access` decides for every command which projects may be read.
The controller talks to Infisical through the adapter, with the machine
client's token or with the human session's; commands talk to it with the machine
client. In management mode the handlers of the
KuchDesk agent write to the Kubernetes API on the desktop's behalf, at once, as a
job of the workload queue, or through a session with a pod; `ClusterManagement` puts
the three together on one cluster. launchd starts the host agent daemon, which is
alone with Technitium.

## Modules

| module | stands for |
|---|---|
| `KeyedExecutor` | what an executor with keys, a concurrency limit and a record limit promises |
| `AsyncRunner` | the runner as it is written, goroutine position by goroutine position |
| `WorkloadJobs` | the agent's queue of workload jobs; what a job runs is left to the module that extends it |
| `Executors` | the two of them, each shown to be a `KeyedExecutor` |
| `AccessReviews` | one capabilities request with its pool of workers |
| `TaskPools` | `AccessReviews` and the runner, under the fairness of the scheduler |
| `EnrollmentController` | the cycles of the controller against an Infisical server, operators, lost calls, failing saves and crashes |
| `EventStream` | collector, broker, events handler and a client that reconnects |
| `MachineClient` | the cached machine token: accessToken, request and its 401s |
| `CommandBridge` | commands of the bridge or of the MCP tool on that token; extends `MachineClient` |
| `HumanSession` | the human session, its file and process, the callers that share it |
| `BrowserLogin` | a browser login in a process of its own; extends `HumanSession` |
| `ManagedWrites` | the handlers that write to the cluster, the API server and its other clients; extends `WorkloadJobs` |
| `PodSessions` | exec and port-forward after their read of the pod; extends `ManagedWrites` |
| `ClusterManagement` | the three together: the specification and its properties |
| `HostReconcile` | run after run of the host agent daemon, with kubectl's port-forward and Technitium |
| `DoctorReport` | one call of the doctor, by any of its tools |
| `DeployWorkflow` | applies of one profile, command by command, beside a developer |
| `HostDeployment` | the two together: nothing is deployed before a preflight is ready; extends `DoctorReport` |
| `Filtering` | the loop that thins a slice, which the two executors and the broker share |
| `FilteringProofs` | what that loop computes; used by the three modules below |
| `AsyncRunnerProofs`, `EventStreamProofs`, `ManagementProofs` | theorems about the runner, the event stream, and management mode (queue, requests, access reviews) |
| `EnrollmentControllerProofs`, `CommandBridgeProofs`, `BrowserLoginProofs`, `HostAgentProofs` | theorems about the controller; the machine client and the commands; session and login; doctor, deployment and daemon |
| `MC*` | the small instances TLC checks |

`Executors` and `TaskPools` put side by side what runs in different processes and
shares nothing. A behaviour of such a module is one of one part (`part`) while the
other stays as it began, which for properties that speak of one part only is the same
as letting both run.

A definition that stands directly before another one with a longer or shorter
name made from the same word (`ActiveFreeOffByOne` before `ActiveFree`,
`GiveUpQuietly` before `GiveUp`) is a slip: a plausible mistake in that piece
of code. No specification uses a slip. Putting it in the place of the true
definition breaks the property listed with it in `PROJECT.json`, which shows
that the property depends on that code.

### AsyncRunner

A job is its random id, so it is submitted once. `pc[i]` is where the goroutine
of `run` stands; each critical section under `r.mu`, each channel operation and
each test of `ctx.Err` is an action, and the deferred calls are the stack
`deferred` unwound by `Unwind` in Go's order. A `keySlot` object is named after
the job that allocated it, so that a deleted and re-created slot of one key is a
different object, with a gate of its own, as in the code. `Cancel` may fire at any
time after the submission, which covers the gap between its unlock and its call of
`cancel`. `Submit` is only its accepting path; a refusal changes nothing.

`KeyedExecutor` knows only what a caller sees: statuses, executing tasks, keys,
and whether the executor is open. `AsyncRunner` refines it with
`status <- state`, `executing <- Executing`.

### EnrollmentController

Every call to the backend, every save and every reading of the policy is a step;
the local code between two of them belongs to the step before. `ledger` is
memory, `disk` the file: `SaveThen` is `Store.Save`, which may fail with the old
file or with the new one in place. A write upstream is answered, or lost and then
either never lands or lands late (`late`, `LandsLate`) at any later time.
Operators change roles, remove the human and create or delete identities
between any two steps; the administrator replaces the policy file.

What is abstracted: memberships are read in one step although the adapter pages
through them; an unavailable human session is a failed call. A membership is absent,
exactly the one permanent role, or something else: for the host, roles that carry the admin's rights
all the same (`wider`), roles that may only read (`reader`), or neither (`other`). What the machine identity
may read and write depends on that (`MachineReads`, `Allowed`), and the server accepts a write from the human
session only where the human is enrolled, from the machine identity only where it has an admin's
rights (`Accepted`; a request that lands late is judged by its sender when it lands). `human` chooses the
sender as in the code: by the answer to the reading, never by a refused write. The local
variables of `project` and `Cycle` are reset where those return. `sent` and `creates` are history
variables that count the writes since repair was last in force.

### EventStream

The cluster is a version number and a snapshot is the version it was listed at.
`RunBuilds`, `RunStores`, `RunPublishes` and the loop's steps are separate,
because handlers run between them. The broker's operations are atomic (they hold
its lock). The handler subscribes in one step, and reads the snapshot it sends
first in a later one. A client keeps its last event id over disconnections and
over restarts of the agent, or is loaded anew.

A snapshot that lists several caches can be torn; here it is one version. Events
of the same process are numbered as in the code; `newest` and `origin` are
history variables.

### MachineClient

`mu` is the client's mutex across a step: a login request is made while it is
held (`pc[c] = "login"`), everything else under it is one step. A caller is at
one of the positions between two of the code's critical sections or requests:
about to call `accessToken`, with its request out, with a 401 in hand, and after
`invalidateToken`, where the code looks at the client a second time. Durations
are signed integers of `Width` bits, because `validFor * 8 / 10` wraps for a
large `expiresIn`; the instance has one such life. Times of a login count from its
start, as in the code, although it may take longer than the pause after it.

### HumanSession and BrowserLogin

`data` is the Session in memory and `disk` is session.json; `Saves` and
`FailsToSave` are `Store.Save`, whose failure leaves the old or the new file.
`Token` keeps its mutex from the write-ahead marker to the last save, so a caller
at `"refresh"` is the one that holds it; the process may end there (`End`), and
the next one loads the file (`Start`, `Loaded`). A renewal is answered with or
without a new refresh token, refused, unusable, or lost; a lost one may have been
carried out. `spent` holds the refresh tokens the server may have retired.
`API.call` refuses v0.166.3 today, although the Session implements it and the
policy accepts it; with that version the callers stand for any user of the
Session. Whether a token is still good for 30 seconds is `fresh`; a pause ends at
any time.

`BrowserLogin` adds the login process, which takes the lock of the state
directory: `main` is the goroutine of `browserLogin`, `work` the handler of the
callback and the reader of the fallback, `result` the channel they send to.
Requests that the handler turns away before the gate change nothing and are left
out. The handler is given a second at the end and may then still be validating,
or saving, after the lock is released; the exit of the process ends it. When the announcement fails the
context is still open during that second.

The controller, the only user of the Session in the program, calls it one at a time under its own mutex, so a
401 for a token that another caller has replaced meanwhile does not come up today; `OldRejectionHarmless` holds the
Session to what its `Expire` promises any caller.

### CommandBridge

A caller of `MachineClient` is here a goroutine that runs one command after another,
and every step of the client is one of its command (`ClientStep`). A behaviour is one
of the bridge or one of the MCP tool (`program`): the first takes a slot for each
request and only reads, the second has no slots and may write. `Execute` is the
handler up to the call of the client, for commands that pass its checks; one that is
refused changes nothing but a slot that is taken and given back at once. `permitted` is the copy of the projects that Execute took,
`published` what the controller says now. Five operations stand for all: one that lists and
is filtered, one that reads a project, one that reads but is not in the bridge's
allowlist, and a write of each kind. `seen`, `done` and `answer` are history: which
projects were allowed at some moment of the command, how often the server carried
its write out, and what it was told.

### AccessReviews

`Handler` is the goroutine of the request: discovery of each group version, the
review of the namespace's rules, then one review for every verb that the rules do not
decide, handed to workers over a channel without a buffer, and the answer after all
workers have left. Each worker is a process of its own; the first error cancels the
others. An administrator changes the rules while the request is under way;
`seenAllowed` and `seenDenied` are the decisions Kubernetes could have given since
it came.

### HostReconcile

One run after another; a position of `pc` is where `main` and `forwardAPI` stand. The
port-forward is modelled as deep as its plumbing: kubectl (`kubectl`), the pipe
of the operating system (`os`), the goroutine of os/exec that copies it (`copier`,
`chunk`), the `io.Pipe`, the scanner and the channel of lines. Calls to Technitium are
answered, fail, or are given up on and land in a later run. The machine changes networks,
others edit the zone, and the context of `-timeout` may end at any moment.

### DoctorReport, DeployWorkflow, HostDeployment

`worker[c]` is the goroutine of check c, `Working` those that hold a place of the
gate; `world` is what the checks would observe, and `saw` what they did, so that an
outcome can be compared with the meaning of what was seen (`Well`), which is stated
apart from the code's thresholds. A check of disk space is the only one
that the context cannot end. `Says` is what the tool makes of the report.

In `DeployWorkflow` a position of `pc` is the command an apply is at; a command succeeds,
fails, or fails after it got through. `tree` and `head` are the source, `local` and
`repoDigests` the docker daemon, `remote` the registry's tag, `ctr` and `cri` what
containerd and kubelet of each node have, `release` and `stable` what helm has. Two
applies may overlap from the command line; in the MCP server they share a key in the runner, and then
do not (the behaviours with `shared = {}`). `steps` is the progress that is reported.

In `HostDeployment` the commands wait for a preflight that was ready; the profile, the
tree and HEAD are looked at then. The step "preflight" of an apply stands for a
repetition of what is modelled check by check.

### WorkloadJobs, ManagedWrites, PodSessions, ClusterManagement

A request is its own job when it is submitted as one. `jpc[r]` is where `execute`
stands; the two halves of `release` and of the put-back in `acquire` are separate
steps, because a new entry for the key can be made between them. `run(ctx)` is
`jpc[r] = "run"`; by itself the queue lets it return anything, and in
`ClusterManagement` it is the handler of scale or restart. `ctx[r]` is the context
of the job, or of the session.

`hpc[r]` is where the handler of a request stands: before its read of the object,
before its write, or in a session. A version is a number the API server gives out
once, so it identifies an object and its state together, and UIDs are left out; 0 is
no object, which is what a create relies on. `Writes` has the four ends of a call
that is made: carried out and answered, carried out and the answer lost, refused,
and given up on, with the write `late`. `Edit` is everybody else, controllers
included. `effects` is a history variable: the version each change was made to, the
template a Job was made from, the pod a session reached.

In `PodSessions`, `dial[r]` is the connection to the pod; for a forward it is made
by a goroutine that goes on after the handler has given up, until it sees its stop
channel closed (`stopped`). `pumps[r]` are the two copies of a forward. The pod
reached may be another one than the pod that was checked; the agent's README says
so, and `EffectsConfirmed` leaves sessions out.

## Runs

| run | instance | question |
|---|---|---|
| `executors` | 3 jobs, 1 key, 2 slots, 2 records, in each of the two | are the runner's records, pruning, tokens, references and Close right in every order, and do runner and workload queue implement `KeyedExecutor`? |
| `pools` | 4 resources, 4 rules, 2 workers, 2 failures, 1 change of the rules; 2 jobs, every task error | is a catalog of capabilities true, is every request answered, does every job settle and Close return? |
| `enrollment` | 1 project, 2 identities, 2 faults, 2 changes | journaling, replay, revocations, what is served, the pinned identity; is a revoked project withdrawn in the end, and does repair recover from everything but a host that only reads? |
| `events` | 1 client, history 2, channel 1, 2 versions, 2 DNS events, 1 restart | is any event lost or repeated, is an idle client up to date, does a client see every change? |
| `rolled_back` | as `events` | violated: a client that fell behind is rolled back (see Findings) |
| `bridge` | 2 callers, 2 commands, 2 projects, 2 slots, 1 diagnosis, 1 change, 2 ticks of 5 seconds | does the network only read, is an answer within what was permitted, a write done once, a slot given back, a fresh token kept and a rejected one never reused; is every command answered? |
| `machine_pause` | 2 callers, 3 requests, 3 ticks | violated: no pause after a repeated 401 (see Findings) |
| `session` | 2 callers, 2 sets of tokens, 3 faults | is a retired refresh token never presented, does a session end only for cause, does a login save once and end? |
| `cluster` | 2 requests, 1 object of any kind, 1 slot of the queue and of each kind of session, 1 edit and deletions by others | is only what was confirmed changed, and once; are jobs' records true; do sessions clean up and requests end? |
| `host_dns` | 2 addresses, a tunnel's and none, a channel of 1 line, 1 other line, 2 faults, 2 changes | is a reported success real, is nothing left behind, does the record follow the machine? |
| `run_stuck` | as `host_dns`, no changes | violated: a run that never ends (see Findings) |
| `deploy` | 8 checks in 4 worlds, 2 places, 1 timeout, 3 tools; 2 applies, 2 sources, 2 nodes, 1 fault, 1 edit | does every answer of the doctor rest on what was seen, and is what is deployed what was planned, checked and built? |

Why the bounds are enough. Executors: the shortest trace in which a slot is deleted,
re-created and its old token still under way has three jobs of one key; one of them
may have its outcome already, so two records are enough for that, and then one has to be
pruned for the third; jobs and keys are interchangeable
(symmetry). Pools: one review more than there are workers makes the handler wait for a
worker, and two failures let both leave; the rules have each of the forms the code
tells apart, wildcards, subresources and names. Two jobs of a key are one that holds and
one that waits. Enrollment: projects are
handled one after the other and share only the K8 identity and the ledger's file,
so one project with everything around it is the interesting case; two faults give
a lost answer followed by a failed save or a crash in the recovery from it; two
changes give a revocation and its repair. Events: the history and the channel
are the smallest that can overflow independently; two changes of the
cluster and two of the aliases fill the history and the channel and leave one more; clients share only what the agent publishes.
`Tick` of `EventStream` is limited to ticks that find the snapshot out of date. The bound on ids
of the K8 identity refuses a creation when all of `K8Id` are taken. Bridge: two callers are enough for
one to act on what the other has replaced, two commands let a caller come
back, and two slots are filled by a command and a diagnosis; the pause of one tick, the timeout of two and a life of three can end in
every order, and one life overflows the width of durations. Session: two sets of tokens are a login and one renewal, three faults
a lost renewal, a failed save and a crash; a 401 is a fault too. Cluster: requests meet in the object, in the queue and in the slots, each of
which two requests fill; what any number of other clients do to a request is that the
version it relies on is gone, for which one edit and a deletion suffice, before or
after its read. Dry runs are asked only of a replacement, which the agent ends
itself, and of a CronJob's run (`DryRuns`); those of the others differ from a write in
the API server only. Contention for a key is the subject of `executors`, where
three jobs meet, and not of `cluster`, whose queue has one slot. Host DNS: two
faults are a call that is lost and lands in the next run, and what goes wrong with that one; two changes are a move of the machine
and an edit of the zone; one line in the channel and one that the scanner still has are
what the cancellation can catch. Deploy: each of the four worlds has a check at each side of each threshold; with two
places six checks have to wait; two applies and a developer's edit meet in each thing they share.

`CHECK_DEADLOCK FALSE` stands in all but two groups of runs, `executors` and the two of
`EventStream`. Enrollment: with an invalid policy
file and no changes left, the process stays down. Bridge and `machine_pause`: once the bounded
requests are made and the clock is at its bound nobody has anything to do. Session:
with no tokens and no faults left a call ends in a login nobody makes.
Cluster, pools and deploy: the bounded requests, jobs and applies are over. Host DNS:
a run that is stuck.

## Fairness

* Runner: the Go scheduler runs every goroutine that can move (weak fairness of
  each job's goroutine), every submitted job has a timeout, which fires, a task
  returns once its context has ended (tasks take that context), and the caller
  of Close is scheduled. No fairness makes a task return earlier, and none is
  given to callers.
* Access reviews: the goroutines of a request run, and a call to the API server returns.
* Enrollment: `Run` starts cycle after cycle, every call of a cycle ends because
  it has a timeout, and the service manager restarts the process.
  `RevokedIsWithdrawn` and `RepairRecovers` speak of the time after the last
  change: faults and changes are bounded, so that time comes.
* Events: the collector's goroutines and its timer run and ticks come. A client
  reconnects (`retry: 3000` of the stream). Strong fairness of its sends says that
  some connection lasts until the next write; weak fairness would let every
  connection break right before it.
* Commands: requests and logins are answered or time out. A caller that waits
  for the mutex gets it (strong fairness), as a `sync.Mutex` hands itself to the
  first waiter after a millisecond. Nobody has to send a command, and no diagnosis has to end.
* Session and login: the same for the mutex of the Session, and its callers keep
  calling (the controller's cycles). Pauses end, the login's context ends after ten
  minutes, its reader fails then at the latest, and its goroutines run. Nobody has
  to log in, start or stop a process, or let a token expire.
* Cluster: goroutines run, deadlines of jobs (30 s), of commands (30 s) and of forwards
  (5 min) fire, a call to the API server returns (its answer, an error, or the end of
  the context), an attempt to dial has a timeout, and a read of a closed connection
  returns. Nobody has to hang up, no command has to end and no traffic has to stop.
* Host DNS: launchd starts runs, goroutines run, calls return (8 seconds), a timer or the
  end of the run ends what waits for it, kubectl prints its port while it is up, and is killed when its
  context ends. `TargetReachesDNS` speaks of the time after the last change and the
  last fault, and excepts the run that is stuck, which is a finding of its own.
* Deploy: none; every property is one of safety. That a call of the doctor can always go on is an
  invariant (`NobodyStuck`).

## Findings

1. `rolled_back`. A client that fell behind the history is sent the newest
   snapshot first, but the handler reads it after the subscription was opened;
   older events can already wait in the channel and are sent after it. The
   README of the agent says that this cannot happen. The client is up to date
   again at the end (`CaughtUp`), so the effect is a short step back.
2. `machine_pause`. After a 401 the client first discards the token and then asks
   whether the token is still the rejected one to start a pause of 30 seconds. It
   never is, so the pause that the host agent's README names does not exist.
3. `run_stuck`. At the end of a run the host agent cancels its context, waits for kubectl,
   and closes the pipe of its output after that. A scanner that has seen the cancellation reads no
   more; if kubectl has printed another line, the goroutine of os/exec that copies it blocks,
   and the wait, which waits for that one too, never returns. `-timeout` does not
   end the run, and launchd starts no other.

Exceptions known from the models that no run exhibits; each is allowed for by the
property named, and by nothing else:

* Event ids start again with the agent's process (`server.go:196`). A client that
  reconnects with an id of the former process that is not larger than the new
  latest id is replayed a suffix of the wrong history, possibly nothing (`CaughtUp`
  excepts clients that show an earlier process).
* A host left with roles that read the memberships but may not change them is not repaired: the human session is used
  only where the machine's reading is refused (`controller.go:264`), so with `repairRevocations` the host asks for
  its admin role with its own token in every cycle (`controller.go:359`) and is refused in every one, until somebody
  gives it the role or takes its reading away (`HostLeftAsReader` in `RepairRecovers`). It is not served
  meanwhile.
* `statfs` takes no context: on a disk that hangs, the Doctor does not return and a diagnosis keeps its slot
  (`doctor.go:209`; `AllGone` and `NobodyStuck` except it, and no command of the bridge has to outlast it).
* A login whose context ends between its last look at it and the save is reported as
  cancelled, and its session is saved (`login.go:307`; `SavesOnce` does not speak of it).
* The rules of one namespace, when they are complete, decide also about resources of
  the whole cluster (`manager.go:160`; `CatalogTruthful` excepts those).
* The tree is looked at by git and read by docker build after lint and tests; an
  edit in between is in the image that has the commit's tag (`workflow.go:247`;
  `TagNamesSource` excepts it as `torn`). Files that git ignores are outside of the
  model's `tree`: git status does not see them (`workflow.go:233`), and docker build may use them.
* helm that is killed with the context of its apply can neither finish nor roll back and leaves the
  release pending, which every later upgrade refuses (`workflow.go:309`;
  `UpgradeEnds` has it).
* kuchdesk_doctor takes a minimum of free space, kuchdesk_doctor_verify does not: what the first reports as
  low the second may verify (`Minimum`).

Hazards that are real, but outside of what the properties speak about: the DNS handler builds
and publishes a snapshot beside the refresh loop's (`server.go:135`); triggers that keep coming within the
debounce hold back the timer (`collector.go:218`); a pod is checked by
name and UID and then dialled by name (`port_forward.go:56`), which the agent's README says.

## What is proved

For all values of the constants that the modules' `ASSUME`s allow, every safety invariant and every
action property that a passing run checks is a theorem of the specification of that run, but for
one that is proved under another name (`QueueImplementsExecutor`, see below). Each component has one
inductive invariant, the conjunction of named parts; it was checked by TLC on the instance of the run
before it was proved, and the theorems follow from it. The assumptions are about constants only: limits are positive
numbers, `None`-values are outside of their sets, and besides
* `WorldAssumption` of `DoctorReport`: what a check reads is of the kind it can parse;
* `JobsAssumption` of `WorkloadJobs`: there are finitely many requests, as in every run of the program. The queue
  counts its slots and its records, and management counts versions, over all of them;
* `DeployAssumption`: there are 1 to 16 nodes, as `prepullKind` demands of the list.

**Filtering.** `KeepingKeeps`: what the loop keeps are the elements of the set, each as often as it was there and in
the order it was there. This is an induction over data. The induction theorems of the library take an
operator as parameter, which the provers cannot instantiate; that "less than" on numbers is well
founded and that well-founded relations have minimal elements are stated of sets, so the
proof takes the set of turns at which the claim fails and looks at its least element. `Keeping` is a recursive function, not
a recursive operator or `SelectSeq`, for this reason.

**Runner.** `AsyncRunnerProofs` shows that the runner keeps its types,
that tasks of a key are serialized, that slots are accounted for, the concurrency
bound, that records of unfinished jobs are kept and agree with the order, that the oldest ended record is the one that is
pruned, that Close leaves nothing
behind, that outcomes are final, and that the runner implements `KeyedExecutor`. `IInv` joins `TypeOK` with
* `FiniteInv`: only finitely many jobs are recorded or under way, which
  cardinalities need when `Job` is infinite;
* `LocalInv`: at each position of a goroutine, what it has deferred, what its
  local `slot` and `err` are, and in which state its record is;
* `ActiveInv`: the channel of active slots holds as many tokens as there are jobs
  with an active slot among their deferred calls;
* `SlotInv`: a job that counts as a reference uses the slot the map has for its
  key, a slot's reference count is the number of those jobs, and its token is in
  its gate or with exactly one job. Key exclusion follows because two tasks of a
  key both count as references, thus share the slot, and both hold its token;
* `CloseInv`: once Close has been called nothing is accepted, and once it has
  returned every goroutine has.

That the order lists every record once (`OrderListsRecords`) rests on `KeepingKeeps`.
The refinement shows that every action maps to one of `KeyedExecutor`'s or to a
stutter; the step of `Submit` needs that the pruned records are those of ended jobs.

**Enrollment.** `EnrollmentControllerProofs` shows that
writes are journaled, sent once until repair and sent by whom they have to be, that one K8 identity is kept, that
what is served is enrolled, and that a role taken away is not given back. The run has one project;
the proof covers what several of them do to each other in one ledger and one loop. Its invariant joins
* `MemoryInv`: an entry, on disk and in memory alike, remembers every write that was sent for its
  project, as pending or by a role seen. A save or a failed one, a crash and a restart only replace
  one of the two by the other, which is why they keep it;
* `IdentityInv`, the same for the K8 identity and its marker;
* `LoopInv`: the project at work is neither served nor to be served, and under repair counts anew;
* `PositionInv`: what the position of the cycle says of the entry, of the roles last read and of
  the file, which is the ledger at every position before a write.

**Event stream.** `EventStreamProofs` shows `EventsSound`, `CaughtUp` and `PublishedInOrder`. What the history, the
channels and the clients have in common is the log of everything this process has published, which
the program does not keep; `IInv` says that there is such a log, that the history is its end (`LogInv`), that a
channel is a stretch of it that follows what its client has received (`QueueInv`), and that what a client shows is
no older than that (`ClientInv`). `CollectorInv` says that the two goroutines that refresh do not do so
at the same time, and that a change of the caches is either in the snapshot, or somebody will come for it.

**Machine client and commands.** `CommandBridgeProofs` shows for any number of callers that a fresh token is kept and
a rejected one
not used again. `LoginInv` says that the caller that logs in holds the mutex and had no fresh token when it
took it; `TokenInv` that the cached token is never one a caller has invalidated, which the comparison
in `invalidateToken` keeps. That a refresh time is a number although a product may wrap rests on powers of two being
positive, shown by counting subsets. Every step of a command is one of the client's, so that
`BridgeSpec` implements `Spec` and the two theorems hold below the commands; and `CommandsSound` holds with what
is known of a command at work (`CommandInv`): its copy of the projects was permitted at some
moment, and its project is in the copy; and `SlotsInv`, that the slots are those of the commands at work and of the
diagnoses.

**Session and login.** `BrowserLoginProofs` shows `SessionSound`, `SpentNotPresented`, `OldRejectionHarmless` and
`SavesOnce` for any callers, tokens and faults. Who renews holds the mutex and a session that can be renewed, and
outside of the controller's process there is neither (`HoldInv`, `LockInv`); a cause is remembered as long as the file may
say "expired" or a rejected call may come back (`CauseInv`); a refresh token that a rotating server may have retired is on
disk only with the mark of an open renewal or of the end, so that no restart takes it for a good one
(`RetiredInv`); one validator at most is past the gate of a login (`GateInv`).

**Management.** `ManagementProofs` first shows of the queue by itself (`JobsSpec`, where a job's task returns anything)
that it implements `KeyedExecutor` (`QueueIsExecutor`), with an invariant like the runner's. Then, for the requests together
(`ManagementInv`): what a request has changed and may still change follows from where its handler is (`HandlerInv`,
`EffectInv`), what its job reports from what was changed (`ReportInv`), what is open of a session from its
dial, its pumps and its stop channel (`SessionInv`); slots of sessions are counted (`HeldInv`); every version is one that others
made or one that a request made (`VersionInv`); and of those who confirmed one version at most one has changed the object
(`OnceInv`), which is what optimistic concurrency is for and no request can tell from its own state. `EffectsSound`,
`JobReportsTruly` and `SessionsCleanUp` follow.
Last, for all resources, rules, numbers of workers and failures: a catalog shows only decisions Kubernetes could have
made during the request, and no worker is
left when the request is answered. Its invariant says that, as long as no review has failed and
the client is there, every review is still to be handed over, with a worker, or decided as
`seenAllowed` and `seenDenied` have it; the handler goes on only when none is to be
handed over or with a worker.

**Doctor, deployment, daemon.** `HostAgentProofs` shows for all Deployments, all numbers of places and everything the
checks may observe that the gate holds, that a report has an outcome for every check, and that a ready
preflight, a successful verification and a healthy report rest on what was seen well in their own call.
`IInv` says that a goroutine which is gone has written an outcome, and that only
tasks of the call have a goroutine; `Evidence` that an outcome is ok only for what was seen well
(`OkIsWell`, check by check against `Well`) and a warning only for the
network or the load; `Stages` that an answer is what the tool says of outcomes that
do not change any more.

The deployment takes over these theorems (`DeploymentUsesDoctor`) and adds `PreflightFirst` and, for any applies, sources, nodes
and failing commands, `DeploysAsPlanned`. Its invariant, `DeployInv`, joins the types with
* `PlanInv`: what an apply has reported is the plan up to some step, and the command that comes next is of the
  step after it. It rests on `PlanIsOrderly`, over the eight profiles: each step is in a plan once,
  and what follows it is `After` it;
* `ArtifactInv`: what a command works on is there, so that no apply pushes or pins an image nobody built;
* `AloneInv`: of two applies under way both are in `shared`, so what a command of an apply that is alone finds is what its
  own build left, from the local tag over the archive and the registry to the digest;
* `NodesInv`: a node is registered or in the rest of the list, which ends when all are. That
  a list of the nodes names every node is shown by counting it;
* `SourceInv`: everything that was built is of the commit of the tag, and so is the tree while an apply is
  between its look at it and its build, or the tree is `torn`.

`RunsSound` holds for all addresses, networks and sizes of the channel: an address in the hands of a run was looked up
in it, and one reported as done was in the zone during it (`SuccessInv`); only a failure or the end of the
run ends kubectl before the logout (`SmoothInv`).

Only model-checked:
* liveness, which rests on fairness and so on ENABLED: `ReviewsEnd`, `EveryJobSettles`, `RevokedIsWithdrawn`,
  `RepairRecovers`, `ChangesAreShown`, `CommandReturns`, `LoginEnds`, `SessionSurvives`, `RequestsEnd`,
  `TargetReachesDNS`. `NobodyStuck` of the doctor is stated by the guards of the steps (`AllGone`,
  `Returns`, `HasRoom`) instead of ENABLED, and is proved;
* `QueueImplementsExecutor`, which is about the queue as it is instantiated in `Executors`. `QueueIsExecutor` proves the
  same of the queue itself; the instance renames its variables and adds that the runner's steps leave it alone.

## Plan

1. The modules above and their safety: modelled, checked and proved.
2. To prove: `QueueImplementsExecutor` by way of an instance of the queue's theorems, which wants them in a module of
   their own; what the liveness properties rest on that is safety, as `NobodyStuck` is for the doctor: that a
   goroutine that waits for a gate, a slot or a mutex has somebody who will give it back.
3. To model: the managed block of the Corefile as a pure algorithm against a reference
   definition, the plan validation of the MCP server, `LoginFromBrowserToken`.

## Not modelled

Parsing and validation of files and requests, HTTP routing and authorization,
the content of snapshots and their classification, the text of the Corefile, the values of metrics, time
as such (a timer fires at any moment after it is armed), the prompts of the MCP
server and its transport, TLS and bearer tokens of the bridge, the `lab/` renderer and
its scripts, charts and documentation: data and text without a behaviour over time.
`PROJECT.json` lists every component with its status.
