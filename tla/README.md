# Formal model of serena-shared

`serena-shared` lets several stdio MCP clients share one Serena server per Git
checkout and profile. Each client starts a *proxy*; the proxies coordinate,
without a daemon, through a `flock`, a registry record and lease files under
`.git/serena-shared`; the first one that needs Serena starts it, together with
a *watchdog* that stops it when it is idle. This directory holds TLA+ modules of
that program, TLC configurations that check them on small instances, and proofs
that TLAPS checks.

Paths below are relative to `src/src/serena_shared`.

## 1. Inventory

| Component | State | Operations | Interacts with |
|---|---|---|---|
| Startup lock (`runtime/process.py`, `file_lock`) | who holds the flock | poll every 0.2 s, give up after 30 s, release on exit or death | everything below |
| Registry record and Serena processes (`runtime/process.py`) | `{key}.json`: pid, pending/active, watchdog; the process itself | inspect, recover a pending start, probe, terminate, launch on a port | proxies and watchdogs write it under the lock, `backend_identity` reads it without |
| Lifecycle (`runtime/lifecycle.py`) | none of its own | `ensure_backend`, `ensure_watchdog`, `backend_identity`, `run_watchdog` | lock, record, leases |
| Leases (`runtime/leases.py`) | one file per proxy: `inFlight`, `lastActivityAt` | create, request started, request finished, close, inspect | the event loop writes, the watchdog reads and removes |
| Command line (`cli.py`) | the lease of the process | `proxy`, `status`, hidden `__watchdog` | builds the providers that the relay calls |
| Relay (`transport/bridge.py`) | queue, pending ids, the activated identity, one connection attempt | read stdin, forward, return responses, reconnect, activate, barrier | lease (counts), endpoint and identity providers, HTTP client |
| Protocol helpers (`transport/protocol.py`) | none | replay `initialize`, activate, ping, headers, probe | relay, startup |
| Ignored-path guard (`transport/ignored_paths.py`) | none | decide whether a `search_for_pattern` call is refused | relay |
| Status (`lifecycle.status`) | none | reads records and leases of all profiles | - |
| Ports (`find_available_port`, `port_lock`) | bound ports of the machine | pick a port under a second lock, up to 79 tries | startup of all identities of a repository |

What is hard in it:

* **Concurrency between processes.** Everything on disk is read, decided upon
  and written under one lock, except `backend_identity`; the event loop of a
  proxy takes the same lock as its own worker thread.
* **Death at any point.** Proxies, watchdogs and Serena are killed, pids are
  reused, a start is interrupted between `Popen` and the record, a stop is not
  obeyed in time, the checkout disappears, and with it, unless it is a linked
  worktree, everything the processes share.
* **Time.** The lock, the start and the stop have deadlines, leases expire.
* **Concurrency inside a proxy.** Two tasks share the state of a connection and
  cancel each other at any `await`, while the backend is replaced by others.
* **Something must happen in the end.** The lock is released, Serena is reaped,
  every request is answered.

What makes each part correct: the lock excludes and is released; at most one
Serena per identity; only an own process is signalled; a backend in use is not
stopped for idleness and an unused one is; a live proxy keeps its lease; the
relay loses, reorders and repeats nothing, activates each backend before its
first tool call, and does not hang; a client is only sent to the Serena of its own
checkout and profile; the arithmetic of idleness is neither early nor late,
whatever the wall clock does. `PROJECT.json` lists the hazards by line.

## 2. Modules

| Module | What it is |
|---|---|
| `Lifecycle` | proxies, watchdogs and Serena processes of one backend identity |
| `MCLifecycle` | its symmetry set for TLC |
| `LifecycleProofs` | theorems about `Lifecycle` for every value of its constants |
| `SharedBackend` | what the runtime promises its clients; `Lifecycle` implements it |
| `Ports` | the servers of several checkouts and profiles on the ports of one machine |
| `MCPorts` | which repository each of them belongs to, for TLC |
| `PortsProofs` | theorems about `Ports`, likewise |
| `Idle` | leases with their times, the watchdog's polls, the wall clock, status |
| `IdleProofs` | theorems about `Idle`, likewise |
| `Bridge` | the relay of one proxy, with its client and the backends as environment |
| `ClientSession` | what a proxy promises its client; `Bridge` implements it |
| `BridgeProofs` | theorems about `Bridge`, likewise: where messages are |
| `BridgeEndProofs` | how a connection ends, and what its end costs |
| `BridgeSessionProofs` | `Bridge` implements `ClientSession` |

### Lifecycle

A step is what one process does between two points at which another one can
change what it reads. While the flock is held only the operating system can
interfere, so a critical section is cut exactly where the code waits or where a
process may die in between.

* `pc[p]` is the worker thread of proxy `p` (`endpoint` in `cli.run`): `start`
  waits for the flock, `inspect` is the if/elif chain of `start_shared_serena`,
  `probe` and `recover` wait for the server, `settle` is the liveness check
  after a failed recovery, `launch` the port loop, `kill` and `await` are
  `terminate_verified_serena`, `watch` is `ensure_watchdog`, `verify` is
  `backend_identity`, `closing` the `finally` of `cli.run`.
* The event loop of the same proxy runs beside it (`RequestStarted`,
  `RequestFinished`, `EventLoopRaises`) and contends for the same flock. An
  update of the lease that raises ends the proxy (`failed`), except at the end of
  its last open request, when `_run_connection` lets the exception pass: the id has
  left `_pending`, and the lease counts a request that nobody waits for.
  `MaxInFlight` bounds what one lease counts.
* `pc[w]` of a watchdog is `sleep`, `check`, `kill`, `await`.
* `record` is the registry file. Its `process` field is absent while pending
  and verified once active, so it is not a variable.
* `leased` and `inFlight` are the lease files; `pending` is what the proxy itself
  knows to be open (`_pending`); a lease is past its timeout when it is in
  `elapsed`. Two variables for one number, since how they agree is the point.
* `pstate[b]` is what runs under a pid: nothing, a foreign program, or a Serena
  that boots, serves or is stopping. A pid stands for one (pid, start time): the
  fingerprint of `ps`. Where the code recognises a process by fingerprint, argv
  and cwd, the model asks `IsSerena` and `detached`.
* `detached` are processes whose reported cwd differs from the recorded one.
  `CwdDetaches` says whether the deletion of a directory has this effect, as it
  has on Linux, where `/proc/PID/cwd` then reads `<path> (deleted)`.
* `checkout` is `there`, `gone` or `remade`. `RemoveCheckout` deletes a linked worktree,
  whose state directory is in the repository and stays. `RemoveClone` deletes an
  ordinary clone, whose `.git/serena-shared` goes too: record and leases are lost at
  once, and the next `file_lock` makes the directory, and so the checkout's path,
  again (`process.py:68`). Bound: nobody holds or polls for the flock at that moment;
  one who did would go on with a lock file that others no longer see.
* `Faults` is the set of what the environment may do; see `FaultKinds`.

Abstractions: ports appear as `attempts` (see `Ports`), time as `elapsed` (see
`Idle`); file contents that only this program
writes are not malformed; `start_watchdog` spawns the watchdog in one step with
its record, or fails to record it (`WatchdogUnrecorded`); a pid is not recycled
in the microseconds between the check and the `os.kill` of
`terminate_verified_serena`. A stale lease file of a killed proxy is told from
that of its successor because it never comes to life again: `Spawn` reuses the
name of the model value, not the file.

### SharedBackend

Clients come, ask, are served, refused, load the server and leave; a server is
started only while a client asks and none runs, an endpoint is handed out only
while a server runs, and a server is told to stop only if no client has a
request outstanding, its checkout is gone, or a client asks and gets no answer.
There is no lock, record, lease, probe or watchdog in it. The mapping at the end
of `Lifecycle` takes `clients`, `asking` and `leaving` from the labels of the
proxies, `load` from what their event loops know, and `servers` and `told` from
what runs. It is a safety specification: its liveness is in `Reaped`,
`RemovedStops` and `LockReleased`.

### Ports

`Lifecycle` has one identity; `Ports` has several, and per identity only the
holder of its `startup_lock`, as `LockDiscipline` and `OneBackend` justify.
`pc[i]` is where that holder is: `probe`, `recover` and `boot` wait for an answer
(`recover` for a server an earlier start left, `boot` for its own, with
`port_lock` held), `ports` waits for `port_lock`, `launch` is a turn of the port
loop, `replace` and `reap` wait for a server to exit. `portLock` is one flock per
repository, since `paths_for_checkout` puts it beside the records in the common
Git directory. `listener` is who serves a port: a server binds it some time after
it was started, and exits if it finds it taken. A probe is answered by whoever
listens (`Answers`); only a Serena of this program counts, others are `Foreign`.
`cutShort` is history: a start or a stop ended, killed or timed out, with its
server still booting or closing. `StopFails` is `terminate_verified_serena` returning
`False`: the starter raises or the watchdog sleeps on, and the record stays active
while its server closes.

### Idle

Real time, `uptime`, passes in units that divide the timeouts and the poll;
`time.time()` is `uptime + gained - lost`, where `gained` and `lost` sum up how the
wall clock was set. Each lease has its timeout, `last` activity by the wall
clock and `inFlight`; `activeAt` and `leftAt` record the same events in real
time, and the properties compare the two. `Polls` is a turn of the watchdog with
the checkout in place. `Status` is `_status_for_paths`; its answer is kept in
`forecast` until a lease or the clock changes. A start and an end of a request
take no time, the flock being `Lifecycle`'s.

### Bridge

The tasks are interleaved at each `await`: `_read_stdio`, the relay loop
(`relay`), and `_client_to_http` and `_http_to_client` of one connection
(`att.client`, `att.server`). `att` is the `_ConnectionAttempt`: `unanswered` is
`submitted_messages - completed_messages`, `barrier` stands for
`barrier_requested` and `barrier_id`. `att.cancelled` is the cancel scope of the
task group; a cancelled task ends at its next `await` and loses what it holds.
`identity` is what the endpoint provider returned, `alive` the generation of the
running backend; `posting` is a post without a response of its own, for which
the HTTP client waits before it takes the next message.

Messages are a position, a kind (`initialize`, `call` for `tools/call`, other
`request`, `notification`, `reply`) and an id. The replayed `initialize` and the
activation have ids of their own and connections to themselves, so they are one
step. `_project` is set, as `cli.run` always sets it. The queue's capacity of
100 is not reached. Each generation has an endpoint of its own: that a new backend
takes over the very port of its predecessor between the answer of the endpoint
provider and the connection to it is not modelled.

`InputFails` is `_read_stdio` raising, on a line that is no message or because
`request_started` raises: it cancels the relay wherever it is. `TakesUp` is what
`_http_to_client` does with a message it receives: the bookkeeping, and then the
write, unless `request_finished` raises, which ends the connection with the
response unwritten. On the side of the lease both are `EventLoopRaises` of
`Lifecycle`.

`BackendStops` may happen when `pending` is empty: what the watchdog is allowed
to do, checked and proved as `NoIdleStopUnderLoad` in `Lifecycle`. With the
fault `crash` it may happen at any time.

### ClientSession

A client sends messages; backends take them in order and none twice; a request
that waits is answered by a backend that took it, or refused by the proxy, in
which case no backend takes it; an answer is written once, and lost only as the
input closes or the backend goes. There are no connections, queues, tasks, ids
or barriers in it: a session outlives all its backends. The mapping at the end
of `Bridge` takes `waiting` from `_pending`, `carried` from what `_http_to_client`
has in hand, `delivered` from what was submitted, `served` from whether the
backend of the last endpoint runs. It is a safety specification: that requests
are answered is `Settles`. `Finish` says that a proxy does not end with an answer
in hand. The exceptions have actions of their own, which only their faults
allow: `Drop` loses the answer whose end cannot be noted on the lease, `Break` ends
the session on malformed input or on a start that cannot be noted.

## 3. Runs

All runs are exhaustive and take from seconds to four minutes.

| Run | Shows | Instance |
|---|---|---|
| `LifecycleFaults` | `TypeOK`, `SignalsOwnBackend`, `LiveProxyLeased` | 2 proxies, 1 watchdog, 2 pids; killed proxies, unrecorded starts, dying and disobedient backends, recycled pids, a deleted worktree or clone on Linux |
| `LifecycleOneBackend` | `LockDiscipline`, `OneBackend`, `NoIdleStopUnderLoad`, `LiveProxyLeased`, `ImplementsSharedBackend` | 2 proxies, 2 watchdogs, 2 pids, 2 launches per start; every fault except `orphan`, `removed`, `cloneRemoved` and `recycled` |
| `LifecycleLiveness` | `ActiveIsWatched`, `LockReleased`, `Reaped`, `RemovedStops` | 2 proxies, 2 watchdogs, 1 pid; killed proxies, dying and disobedient backends, a deleted worktree with readable cwds |
| `PortsShared` | `TypeOK`, `EndpointIsOwn`, `StartEnds` | 2 identities of one repository, 3 ports; every fault |
| `Idle` | `InTime`, `NeverEarly`, `ForecastKept` | 2 proxies, timeouts 1 and 3, poll 2, 6 units of time, the clock set by 1 either way |
| `BridgeFaults` | `TypeOK`, `OnItsWay`, `InOrder`, `LeaseCoversOpen`, `WaitIsAnswered`, `ActivatedFirst`, `FlushedBeforeActivation`, `AnswersKept`, `ImplementsClientSession`, `Settles` | 3 messages, 3 generations, a request of Serena's; every fault |
| `LifecycleSlowStart` | `Reaped` is **violated** | 1 proxy, slow start |
| `LifecycleDetached` | `WatchdogStopsRemoved` is **violated** | 1 proxy, a deleted worktree on Linux |
| `LifecycleClone` | `Reaped` is **violated** | 1 proxy, a deleted clone with readable cwds |
| `PortsTwoRepositories` | `EndpointIsOwn` is **violated** | 2 identities of different repositories, 2 ports, no fault |
| `BridgeNotification` | `Transparent` is **violated** | a backend that stays up and sends notifications |
| `BridgeIdleStop` | `Transparent` is **violated** | a backend that only stops while idle |

**Bounds.** Two proxies and two watchdogs are what a conflict takes: one that
holds the lock and one that waits, one that works and one that is idle, a
watchdog of the previous backend and one of the current. Two pids allow a lost
server beside a recorded one; by `OneBackendAtMost` the liveness run, which
excludes lost servers, needs one. `MaxAttempts = 2` (in `LifecycleOneBackend`, and
`Ports` has the whole loop) lets a launch fail and be retried. Recycled pids are in
`LifecycleFaults` alone, for the size of `LifecycleOneBackend`, whose properties are
proved with them. `MaxInFlight = 1`
gives each proxy the two cases the idle test tells apart. The theorems hold for
all values of these. Three messages allow something in flight, if only the
initialization, a tool call that needs activation, and something that follows
it, a reply to Serena's request among others. Two
generations let a backend be replaced during either half of an activation, three
do so twice. `MaxBackends` bounds stops, not starts: the last generation lives on,
so liveness is not satisfied by running out of backends. The one request of
Serena's has an id that the client does not use, for the reason given below under
`LeaseCoversOpen`. Two identities are a race for a port, and a third port lets the
loser go on to one that a foreign program has left. In `Idle`, six units hold the longest timeout,
a poll before it and one after it; one timeout is shorter than the poll, one
longer. Symmetry is used in safety runs only.

**Deadlock** is checked where the system never stops (`LifecycleOneBackend`,
`LifecycleSlowStart`, `PortsShared`). A deleted checkout admits no further proxies,
a bridge ends with its client, and a stopped backend is the end of `Idle`: those
runs say so.

**Fairness.** In `Lifecycle`: the holder of the flock proceeds (each of its
loops has a deadline); who polls for the flock gets it in the end (strong
fairness: 30 s of polling against holders that come and go, the failure of
which is the fault `lockTimeout`); leases expire; Serena boots and obeys
SIGTERM. Nothing is assumed of clients, of crashes, or of proxies that could
stop. In `Bridge`: each task that can run does, the client reads its stdout, a
live backend goes on answering, also when it is given the chance only between
notifications (strong fairness of `ServerAnswers`), and takes each post. That it
sends a notification is never assumed: one would end the connection, and with it
every wait for a barrier. Nor is anything assumed of what the client sends or of
when backends stop. In `Ports`: a starter proceeds,
as every wait of its has a deadline; who polls for `port_lock` gets it in the end;
Serena boots and obeys SIGTERM. `Idle` states no fairness: its properties bound
delays by the clock, and that a poll is not late is in the guard of `Tick`.

**Mutants.** Every property of a passing run has a mutant in `PROJECT.json`: a
definition of the module with a plausible error in it (a counter not
incremented, a lock not awaited, a message put back at the wrong end), under
which TLC finds the property violated. Their definitions stand before the
originals in the modules.

### Where the code does not do what is said of it

* `LifecycleSlowStart`: a start that exceeds its 15 s raises before a watchdog
  exists. When the proxy ends the server stays, pending and unwatched; nothing
  reaps it before another client comes, contrary to "Process and state cleanup
  is automatic" (README.md:128).
* `LifecycleDetached`: on Linux the watchdog no longer recognises a backend whose
  directory was deleted, and never stops it. `tests/test_lifecycle.py:734` says
  that it does, with `terminate_verified_serena` replaced by a stub.
* `LifecycleClone`: when an ordinary clone is deleted its state directory goes with
  it (`lifecycle.py:62-72`). The watchdog finds no record and leaves
  (`lifecycle.py:214-215`), and the backend runs for ever, even where its cwd can
  still be recognised. `RemovedStops` is about linked worktrees, where it holds.
* `BridgeNotification`: `message_id` of a notification and `barrier_id` of a
  connection without barrier are both `None`. A notification of Serena's is
  dropped and ends the connection, and the proxy with it when a request is in
  flight, contrary to "The lightweight stdio proxy stays connected"
  (README.md:52).
* `BridgeIdleStop`: a request read while the stream of an idle-stopped backend
  closes is pending but was never forwarded; the relay raises instead of
  restarting "transparently" (README.md:54).
* `PortsTwoRepositories`: `port_lock` belongs to a repository, the ports to the
  machine, and a port is only tested before Serena binds it. Two checkouts of
  different repositories start at once, choose the same port, and the loser's
  probe is answered by the winner's server while its own, still alive, is about
  to exit: its client is sent to the Serena of another checkout, contrary to
  "one local Serena [...] server per Git checkout" (README.md:3). The record
  stays active until the process is seen to be dead.

Further limits are visible in the model without a run of their own. Each is the
reason why a property above has a condition or is checked on a narrower
instance, and each reappears when that is lifted:

* `AnswersKept` has to except `alive # identity`: a response leaves `_pending`
  before it is written to stdout, and the write may be cancelled by
  `_client_to_http` when it sees another backend; the reconnect then goes ahead
  without that response (`bridge.py:341-347`, `277-280`). It says that, but for
  exceptions and the end of the input, nothing else loses one.
* `AnswersKept` has to except `att'.raised`: if `request_finished` raises when
  nothing else is pending, the exception is swallowed, the client is left without
  that response, and the relay goes on (`bridge.py:344-346`, `205-207`). The lease
  keeps counting the request, so that the backend is not stopped for idleness as
  long as the proxy lives; this is why `LiveProxyLeased` is an inequality.
* `Settles` has to except `WaitsOnReply`: the id of a client's reply enters
  `forwarded` and never leaves, so a tool call that needs activation waits for ever
  (`bridge.py:289-291`, `284`). `WaitIsAnswered` says that no other wait is in vain.
* `LeaseCoversOpen` with `ServerIds = {0, 1, 2}`: a request of Serena's with the
  id of an open request of the client's is taken for its response
  (`bridge.py:341-346`).
* `EndpointIsOwn` has to except `cutShort`, in one repository with the fault `crash`,
  `slowStart` or `slowStop` alone. A start that is killed or times out gives
  `port_lock` back with its server still booting, and the next start of another
  profile or linked worktree chooses the same port (`process.py:469-491`). A stop
  that is killed or times out gives `startup_lock` back with its server closing and
  its record active: the port is another's soon, and the next client's probe of
  the record is answered by the new owner (`process.py:414-420`, `456-459`).
* `ActiveIsWatched` does not hold under the faults `LifecycleLiveness` leaves out: a
  watchdog that is killed, or times out on the lock, leaves its backend unwatched
  until some client connects again.
* A backend that ignores SIGTERM for 5 s is still recorded, and its probe may still
  succeed: it is handed out just before it exits. No property forbids this.

`status` names no time of shutdown when no proxy is left (`default=None` at
`lifecycle.py:250`), although the watchdog is about to stop the backend at its
next poll; `ForecastKept` speaks of the other cases only.

## 4. Proofs

`LifecycleProofs` proves, for any sets of proxies, watchdogs and pids, any
bounds and any faults unless said otherwise:

* `TypeCorrect`: `Spec => []TypeOK`.
* `MutualExclusion`: `LockDiscipline`. Inductive given the types: an actor enters
  a critical label only as it takes the free lock, and leaves with it.
* `RecordFitsAlways` (lemma): the label of the lock holder tells what the record
  says. It is what no other property states and most need: `kill` and `await`
  concern an active record, `launch` an absent one. It follows from
  `LockDiscipline`, as only the holder of the lock writes the record's state.
* `SignalsOnlyOwn`: `SignalsOwnBackend`, from the two before.
* `LeasesFitAlways` (lemma): `LiveProxyLeased` with what makes it inductive, that
  no process is detached while the checkout exists and that a process that is
  down has nothing pending. `LiveProxiesAreLeased` follows: a running proxy keeps its
  lease, which never counts fewer requests than are open, whichever updates of it
  raise, and exactly as many when none times out. What is excepted is a process
  whose cwd reads otherwise since its directory was deleted, and a deleted clone.
* `NoLoadedBackendIsStopped`: `NoIdleStopUnderLoad`. When a watchdog decides, every
  running proxy has a live lease (`LeasesFit`) whose `inFlight` is zero, hence
  nothing pending; until it is done it holds the lock, without which no request
  starts.
* `OneBackendAtMost`: `OneBackend`, provided neither `orphan` nor `cloneRemoved` is
  among the faults and cwds survive; each condition is necessary.
* `RuntimeIsSharedBackend`: `Spec => ImplementsSharedBackend` under the same
  conditions. Each action maps to one of `SharedBackend` or to a stutter; a launch
  is a `Start` because of `OneBackend` and because the lock holder that launches is
  asking, a decision to signal is a `Tell` because of `NoIdleStopUnderLoad` or
  because the one who decides is asking.
* `ActiveBackendsAreWatched`: `ActiveIsWatched`, if watchdogs and starting proxies
  are not killed and the flock does not time out. The invariant says which proxy
  is on its way to `watch`.

`PortsProofs` proves, for any identities, ports and faults:

* `PortsTypeCorrect`: `TypeOK`.
* `EndpointsAreOwn`: `EndpointIsOwn`, if there is one repository. `PortLockFitsAlways`
  (lemma): exactly who is at `launch` or `boot` holds `port_lock`.
  `ServersFitAlways` (lemma): a server that serves is on the port of its record and
  on no other. To these `BootsAlone` adds that, unless a start or stop was cut short, a
  server that boots belongs to who holds `port_lock`, so there is at most one, and
  a probe on its port, which was free when it was chosen, is answered by it or by
  no server of this program; and that a server that closes is awaited by the holder
  of `startup_lock`, so that no client probes its record.

`IdleProofs` proves, for any proxies, timeouts, poll and settings of the clock:

* `NeverStoppedEarly`: `NeverEarly`, from `LeasesFit`: the time of a lease differs
  from that of its last activity by no more than what the clock was set.
* `StoppedInTime`: `InTime`, from `PollsFit`: the last poll found a running proxy
  that was busy or not yet past its timeout, unless one has ended since.
* `StatusForecastsTheWatchdog`: `ForecastKept`, from `ForecastFits`: the answer is
  still the latest expiry of the leases, and no poll since has come after it.

`BridgeProofs` proves, for any numbers of messages and generations, any ids of
Serena's and any faults unless said otherwise:

* `BridgeTypeCorrect`: `TypeOK`, together with `InHand`: at each label the task
  holds the message its next step needs, there is no attempt outside a
  connection, and the last generation stays. `TypeOK` alone is not inductive, as
  a step could forward a message that is not there.
* `CallsReachActiveProjects`: `ActivatedFirst`. `ActiveFits` says that a call that
  has passed the activation test is sent to the generation activated last, which
  no other step changes, whatever becomes of the backend in between.
* `NoRequestIsForgotten`: `OnItsWay`, from `Kept`: every pending id is placed
  unless the forwarding task was cancelled, and a message kept for a reconnect is
  the only one held. The step that needs more is the reconnect, which drops
  `forwarded`: it is taken only when `unanswered` is 0, and `Counted` (lemma
  `CountedAlways`) shows that `forwarded` is empty then.
* `MessagesStayInOrder`: `InOrder`, from `InLine`: what was submitted precedes what
  is held, which precedes what is queued, which was read. `MessagesMove` reduces
  the steps of the relay to four moves of messages.
* `LeaseCountsOpenRequests`: `LeaseCoversOpen`, if Serena's ids are not the
  client's; without that condition it fails (see above). Of `Covered` it uses that
  a backend answers only what was submitted: by `InLine` that is never a message
  on its way, so no response takes a waiting request off the books.

`BridgeEndProofs` is about the two tasks of a connection, each of which ends by
itself or is cancelled by the other at any await. The theorems assume that
Serena's ids are not the client's.

* `EndingsAlways` (lemma): whoever cancels `_http_to_client` has a reason. The input
  is exhausted, or the backend of the connection is gone; only while it writes has
  that task a message in hand; when it ends it has cancelled the other.
* `AnswersAreKept`: `AnswersKept`, for any faults. Apart from an exception of stdin
  or of the lease, the only step that drops a response is the cancellation of
  `_http_to_client`, and `Endings` says what the cancellation of a task with a
  response in hand implies.
* `ActivationWaitsForTheFlush`: `FlushedBeforeActivation`, for any faults and
  generations. `FlushingAlways` (lemma): the barrier is asked for by a task that
  forwards nothing more, is sent when `forwarded` is empty, and taken by the HTTP
  client only when no post is under way, so that it goes last.
* `UniqueAlways`, `OpenedAlways`, `ReleasedAlways` (lemmas): no id is both on its way and
  forwarded, nor twice on its way, so `unanswered` is exactly the size of
  `forwarded` (`Counted` only bounds it); a client that initializes first has done
  so; and, without notifications and exceptions of the lease, a connection that
  is left while its backend runs has had its barrier answered and everything before
  it.
* `NobodyWaitsInVain`: `WaitIsAnswered`, for any faults, the safety half of `Settles`.
  `AwaitedAlways` (lemma): a request that is forwarded is open at the backend, and a
  barrier whose turn it is is on the wire, or one of the two tasks is about to send
  it, unless it has been cancelled. With `Flushing` and `Unique`, nothing but the id
  of a reply can be waited for in vain.
* `ConnectionsFailWithTheirBackend`: without notifications of Serena's, malformed
  input and exceptions of the lease a connection fails only when its backend is
  gone, whatever else goes wrong. `notifies` is the finding above, the others are
  ways to fail of their own.
* `RelayFailsWithItsBackend`: the relay as a whole fails only when the backend it was
  last given is gone, if moreover starts and activations succeed and the client
  initializes first; each of these faults is a way to fail of its own. No run
  checks these two: they are what is left of `Transparent`, which `BridgeIdleStop`
  refutes, when backends may be replaced.

`BridgeSessionProofs` proves `BridgeIsClientSession`: `Spec => ImplementsClientSession`,
for any messages, generations and faults, if Serena's ids are not the client's.
`AnswersAlways` (lemma) says that a request waits, or its answer is in hand, or
written: at most one of the three. Each action then maps to one of `ClientSession` or to
a stutter, one lemma per task (`InputSteps`, `RelayMoves`, `SubmitSteps`,
`ServerMoves`): a submission is a `Deliver` because of `InLine` (what is on its way
comes after what was submitted) and because what is on its way is not
answered; a response is a `Respond` because what is open was submitted (`Covered`);
a cancellation of the server task is a `Lose` because of `Endings`; a response whose
end the lease cannot note is a `Drop`, and `InputFails` a `Break`.

The assumptions are `ConstantsAssumption` of each module and `NoneAssumption` of
`Bridge`, `PortsAssumption` and `IdleAssumption`: processes, pids and `Nobody` are
different things, the bounds are natural numbers, the ids of Serena's requests are numbers, and `NoId`, `Ping`
and `None` are none of the values they stand beside.

Only model-checked: the liveness properties (`LockReleased`, `Reaped`,
`RemovedStops`, `Settles`, `StartEnds`), which are out of the prover's reach, as are
fairness and ENABLED. Every invariant and action property that a passing run
checks is proved, under the conditions named above.

## 5. Not modelled

* **The rules of the ignored-path guard** (`ignored_paths.py`). The relay sees of
  them that a tool call is answered at once or queued (`Refusable`). Which one is a
  chain of tests on the arguments of the call and on two sentences the Serena CLI
  prints: a model would repeat them, and no property of the system depends on it.
* **Argument parsing** (`cli.py`). It runs before there is any state and is the
  same kind of function; the `--` and the refused options end in an error or in
  the argument list that `start_serena` passes on.
* **Recognising a Serena by its `ps` line** (`is_serena_fingerprint`,
  `_option_values`): taken as what it is for, telling an own server from another
  process (`Owned`), with the one case in which it fails on a server of its own
  (`detached`).
* **A clone deleted in the middle of a critical section** (see `RemoveClone`), and the
  main clone deleted under its linked worktrees, which leaves no Git repository to
  work in.
* **Malformed files.** The type guards of `models.py` reject what only another
  program could have written; every write is atomic.
* **Message contents, HTTP headers and protocol versions** (`protocol.py`): they do
  not influence the control of the relay.
* **The rest of status**: the records it lists, `healthy` and `watchdogHealthy` are
  read without the lock, printed, and used by nothing.
* **A product of `Bridge` and `Lifecycle`.** The two meet in the lease and in
  `backend_identity`. `Bridge` assumes of the runtime that an idle backend may stop
  at any time, a loaded one only by `crash`, and that one is started when asked
  for: that is `SharedBackend`, which `Lifecycle` implements. `Lifecycle` assumes of
  the relay that requests start and finish at any time. The states of the product
  are beyond TLC.
* Package glue, agent configuration, and Serena itself, which is external and
  modelled as what the program may observe of it.
