------------------------------ MODULE Lifecycle ------------------------------
(***************************************************************************)
(* The shared runtime of one backend identity (one checkout, one profile): *)
(* proxies, watchdogs and the Serena processes they start, coordinated by  *)
(* the startup flock, the registry record and the proxy leases on disk     *)
(* (runtime/process.py, runtime/lifecycle.py, runtime/leases.py).          *)
(*                                                                         *)
(* A step is what one process does between two points where another one,   *)
(* or the operating system, can change what it reads.  Everything read and *)
(* written while the flock is held only races with processes dying, pids   *)
(* being recycled and the checkout disappearing.                           *)
(***************************************************************************)
EXTENDS Naturals, FiniteSets

CONSTANTS
    Proxies,      \* proxy processes (cli.run, command "proxy")
    Watchdogs,    \* watchdog processes (cli.main, "__watchdog")
    Pids,         \* pids a Serena server can be given; more are never alive
    Nobody,       \* no process: a free flock, a record without a watchdog
    MaxInFlight,  \* bound on the requests that one lease counts
    MaxAttempts,  \* ports one cold start may try (PORT_END - PORT_START + 1)
    Faults,       \* what the environment may do, a subset of FaultKinds
    CwdDetaches   \* is the cwd of a process in a deleted directory reported
                  \* as another path (Linux: "<path> (deleted)")?

FaultKinds ==
    { "crash",         \* a proxy is killed outside ensure_backend
      "crashStarting", \* ... or while its worker thread is in ensure_backend
      "orphan",        \* ... or between Popen and the write of the record
      "watchdogDies",  \* a watchdog is killed
      "serenaDies",    \* Serena exits on its own
      "slowStart",     \* Serena is not serving after STARTUP_TIMEOUT_SECONDS
      "slowStop",      \* Serena outlives SIGTERM by TERMINATION_TIMEOUT_SECONDS
      "busy",          \* a serving Serena leaves a probe unanswered
      "lockTimeout",   \* the flock is held for LOCK_WAIT_SECONDS
      "recycled",      \* a dead Serena's pid is given to another program
      "removed",       \* the checkout, a linked worktree, is deleted
      "cloneRemoved" } \* ... an ordinary clone, and the state directory in it

Actors == Proxies \cup Watchdogs

ASSUME ConstantsAssumption ==
    /\ Proxies \cap Watchdogs = {}
    /\ Actors \cap Pids = {}
    /\ Nobody \notin Actors \cup Pids
    /\ MaxInFlight \in Nat
    /\ MaxAttempts \in Nat
    /\ Faults \subseteq FaultKinds
    /\ CwdDetaches \in BOOLEAN

VARIABLES
    pc,        \* where each proxy's worker thread, or watchdog, is
    lock,      \* the holder of startup_lock across steps, or Nobody
    record,    \* the registry file {key}.json
    leased,    \* proxies whose lease file exists
    inFlight,  \* inFlight in each lease file
    elapsed,   \* proxies whose lease is past its idle timeout
    pending,   \* requests each proxy's event loop has not seen answered
    failed,    \* proxies whose event loop has raised but not yet closed
    attempts,  \* ports tried by the cold start in progress
    pstate,    \* what runs under each pid
    checkout,  \* "there", "gone", or "remade": again a directory, but no checkout
    detached   \* processes whose reported cwd is no longer the checkout

leaseVars == <<leased, inFlight, elapsed, pending, failed>>
osVars    == <<pstate, checkout, detached>>
vars      == <<pc, lock, record, leaseVars, attempts, osVars>>

-----------------------------------------------------------------------------
(* State *)

\* Labels at which an actor holds startup_lock between two steps.
Critical == {"inspect", "probe", "recover", "settle", "launch",
             "kill", "await", "check"}

ProxyLabels    == {"down", "idle", "start", "inspect", "probe", "recover",
                   "settle", "launch", "kill", "await", "watch", "verify",
                   "closing"}
WatchdogLabels == {"down", "sleep", "check", "kill", "await"}

\* "process" of the record is None while the state is "pending" and a verified
\* fingerprint once it is "active", so it needs no field of its own.
NoRecord == [state |-> "absent", pid |-> Nobody, watchdog |-> Nobody]
Record   == [state: {"absent", "pending", "active"},
             pid: Pids \cup {Nobody},
             watchdog: Watchdogs \cup {Nobody}]

SerenaStates == {"booting", "serving", "stopping"}
PidStates    == SerenaStates \cup {"free", "foreign"}

Init ==
    /\ pc = [a \in Actors |-> "down"]
    /\ lock = Nobody
    /\ record = NoRecord
    /\ leased = {}
    /\ inFlight = [p \in Proxies |-> 0]
    /\ elapsed = {}
    /\ pending = [p \in Proxies |-> 0]
    /\ failed = {}
    /\ attempts = 0
    /\ pstate = [b \in Pids |-> "free"]
    /\ checkout = "there"
    /\ detached = {}

-----------------------------------------------------------------------------
(* What the code reads about other processes *)

IsSerena(b) == pstate[b] \in SerenaStates

\* What a probe may see: a server that is shutting down may answer or not, one
\* that serves always does unless it is "busy".
MayAnswer(b) == pstate[b] \in {"serving", "stopping"}
MayIgnore(b) == pstate[b] # "serving" \/ "busy" \in Faults

\* is_process_alive: any process under the pid, whatever it runs.  Without a
\* record there is no pid to look for.
Alive(b) == b \in Pids /\ pstate[b] # "free"

\* is_owned_serena on an active record: same process, Serena's command line,
\* and its cwd is still the recorded root.
OwnedByPidOnly(b) == Alive(b)
Owned(b) == IsSerena(b) /\ b \notin detached

\* is_live_watchdog
LiveWatchdog(w) == w # Nobody /\ pc[w] # "down" /\ w \notin detached

\* is_live_lease
LiveLeaseUnexpired(p) ==
    p \in leased /\ pc[p] # "down" /\ p \notin detached /\ p \notin elapsed
LiveLease(p) == p \in leased /\ pc[p] # "down" /\ p \notin detached

\* One lease of idle_shutdown_due.
DueIgnoringInFlight(p) == p \in elapsed
Due(p) == inFlight[p] = 0 /\ p \in elapsed

LockFree == lock = Nobody

Goto(a, label) == pc' = [pc EXCEPT ![a] = label]

\* An exception leaves the `with file_lock` block of proxy p.
RaiseHoldingLock(p) == Goto(p, "closing") /\ UNCHANGED lock
Raise(p) == Goto(p, "closing") /\ lock' = Nobody

-----------------------------------------------------------------------------
(* The proxy: its lease and its event loop *)

\* create_proxy_lease.  A new process has a new lease file: one left by a
\* process that was killed is never live again, and counts for nothing.
Spawn(p) ==
    /\ pc[p] = "down"
    /\ LockFree /\ checkout = "there"
    /\ Goto(p, "idle")
    /\ leased' = leased \cup {p}
    /\ inFlight' = [inFlight EXCEPT ![p] = 0]
    /\ elapsed' = elapsed \ {p}
    /\ pending' = [pending EXCEPT ![p] = 0]
    /\ failed' = failed \ {p}
    /\ detached' = detached \ {p}
    /\ UNCHANGED <<lock, record, attempts, pstate, checkout>>

Looping(p) == pc[p] \notin {"down", "closing"} /\ p \notin failed

\* ProxyLease._update(started=True), then _pending.add; the event loop thread
\* takes the flock on its own, so its own worker thread can make it wait.
RequestStartedUncounted(p) ==
    /\ Looping(p) /\ LockFree /\ p \in leased /\ pending[p] < MaxInFlight
    /\ elapsed' = elapsed \ {p}
    /\ pending' = [pending EXCEPT ![p] = @ + 1]
    /\ UNCHANGED <<pc, lock, record, leased, inFlight, failed, attempts, osVars>>
RequestStarted(p) ==
    /\ Looping(p) /\ LockFree /\ p \in leased /\ inFlight[p] < MaxInFlight
    /\ inFlight' = [inFlight EXCEPT ![p] = @ + 1]
    /\ elapsed' = elapsed \ {p}
    /\ pending' = [pending EXCEPT ![p] = @ + 1]
    /\ UNCHANGED <<pc, lock, record, leased, failed, attempts, osVars>>

\* _pending.remove, then ProxyLease._update(finished=True)
RequestFinishedTwice(p) ==
    /\ Looping(p) /\ LockFree /\ p \in leased
    /\ inFlight' = [inFlight EXCEPT ![p] = @ - 1]
    /\ elapsed' = elapsed \ {p}
    /\ pending' = [pending EXCEPT ![p] = IF @ > 0 THEN @ - 1 ELSE 0]
    /\ UNCHANGED <<pc, lock, record, leased, failed, attempts, osVars>>
RequestFinished(p) ==
    /\ Looping(p) /\ LockFree /\ p \in leased /\ pending[p] > 0
    /\ inFlight' = [inFlight EXCEPT ![p] = IF @ > 0 THEN @ - 1 ELSE 0]
    /\ elapsed' = elapsed \ {p}
    /\ pending' = [pending EXCEPT ![p] = @ - 1]
    /\ UNCHANGED <<pc, lock, record, leased, failed, attempts, osVars>>

\* "Shared Serena proxy lease disappeared.", or the flock timed out.  A start
\* raises before _pending.add, and ends the bridge.  A finish raises after
\* _pending.remove: _run_connection lets that pass if nothing else is pending.
UpdateRaises(p) ==
    \/ LockFree /\ p \notin leased
    \/ ~LockFree /\ "lockTimeout" \in Faults
EventLoopRaises(p) ==
    /\ Looping(p) /\ UpdateRaises(p)
    /\ \/ failed' = failed \cup {p} /\ UNCHANGED pending
       \/ /\ pending[p] > 0 /\ pending' = [pending EXCEPT ![p] = @ - 1]
          /\ failed' = IF pending'[p] > 0 THEN failed \cup {p} ELSE failed
    /\ UNCHANGED <<pc, lock, record, leased, inFlight, elapsed, attempts, osVars>>

\* End of input or an exception of the bridge, once no worker thread runs.
Finish(p) ==
    /\ pc[p] = "idle"
    /\ Goto(p, "closing")
    /\ UNCHANGED <<lock, record, leaseVars, attempts, osVars>>

\* ProxyLease.close in the finally of cli.run, then the process exits.  A
\* timeout on the flock leaves the lease file behind.
CloseLease(p) ==
    /\ pc[p] = "closing"
    /\ \/ LockFree /\ leased' = leased \ {p}
       \/ ~LockFree /\ "lockTimeout" \in Faults /\ UNCHANGED leased
    /\ Goto(p, "down")
    /\ pending' = [pending EXCEPT ![p] = 0]
    /\ failed' = failed \ {p}
    /\ UNCHANGED <<lock, record, inFlight, elapsed, attempts, osVars>>

-----------------------------------------------------------------------------
(* The proxy's worker thread: ensure_backend and backend_identity *)

EnsureBackend(p) ==
    /\ pc[p] = "idle" /\ p \notin failed
    /\ Goto(p, "start")
    /\ UNCHANGED <<lock, record, leaseVars, attempts, osVars>>

LockTimeout(p) ==
    /\ pc[p] \in {"start", "watch"} /\ ~LockFree
    /\ "lockTimeout" \in Faults
    /\ Goto(p, "closing")
    /\ UNCHANGED <<lock, record, leaseVars, attempts, osVars>>

\* start_shared_serena enters its critical section.
StartLockUnguarded(p) ==
    /\ pc[p] = "start"
    /\ lock' = p
    /\ Goto(p, "inspect")
    /\ UNCHANGED <<record, leaseVars, attempts, osVars>>
StartLock(p) ==
    /\ pc[p] = "start" /\ LockFree
    /\ lock' = p
    /\ Goto(p, "inspect")
    /\ UNCHANGED <<record, leaseVars, attempts, osVars>>

\* The if/elif chain on the existing record up to the first wait.
InspectDroppingPending(p) ==
    /\ pc[p] = "inspect"
    /\ \/ /\ record.state = "active" /\ Owned(record.pid)
          /\ Goto(p, "probe")
          /\ UNCHANGED <<record, attempts>>
       \/ /\ ~(record.state = "active" /\ Owned(record.pid))
          /\ record' = NoRecord /\ attempts' = 0
          /\ Goto(p, "launch")
    /\ UNCHANGED <<lock, leaseVars, osVars>>
Inspect(p) ==
    /\ pc[p] = "inspect"
    /\ \/ /\ \/ record.state = "absent"
             \/ record.state # "absent" /\ ~Alive(record.pid)
             \/ record.state = "active" /\ Alive(record.pid) /\ ~Owned(record.pid)
          /\ record' = NoRecord /\ attempts' = 0
          /\ Goto(p, "launch")
       \/ /\ record.state = "pending" /\ Alive(record.pid)
          /\ attempts' = 0
          /\ Goto(p, "recover")
          /\ UNCHANGED record
       \/ /\ record.state = "active" /\ Owned(record.pid)
          /\ Goto(p, "probe")
          /\ UNCHANGED <<record, attempts>>
    /\ UNCHANGED <<lock, leaseVars, osVars>>

\* start_shared_serena returns its record and drops the flock; ensure_backend
\* calls ensure_watchdog unless that record has a live watchdog.
ReturnedUnwatched(p) == Goto(p, "verify") /\ lock' = Nobody
Returned(p) ==
    /\ Goto(p, IF LiveWatchdog(record.watchdog) THEN "verify" ELSE "watch")
    /\ lock' = Nobody

\* probe(endpoint) of an active record; terminate_verified_serena checks
\* ownership again before it signals.
ProbeSucceeds(p) ==
    /\ pc[p] = "probe" /\ MayAnswer(record.pid)
    /\ Returned(p)
    /\ UNCHANGED <<record, leaseVars, attempts, osVars>>

ProbeFails(p) ==
    /\ pc[p] = "probe" /\ MayIgnore(record.pid)
    /\ \/ Owned(record.pid) /\ Goto(p, "kill") /\ UNCHANGED lock
       \/ ~Owned(record.pid) /\ Raise(p)
    /\ UNCHANGED <<record, leaseVars, attempts, osVars>>

\* recover_pending_serena promotes a verified, probed backend ...
Promote(p) ==
    /\ pc[p] = "recover" /\ MayAnswer(record.pid) /\ Owned(record.pid)
    /\ record' = [record EXCEPT !.state = "active"]
    /\ Returned(p)
    /\ UNCHANGED <<leaseVars, attempts, osVars>>

\* ... or gives up: the process is gone or the deadline passed.  Iterations
\* that only rewrite probeState leave this state unchanged.
GiveUp(p) ==
    /\ pc[p] = "recover"
    /\ \/ ~Alive(record.pid)
       \/ Alive(record.pid) /\ ~Owned(record.pid)
       \/ Owned(record.pid) /\ "slowStart" \in Faults
    /\ Goto(p, "settle")
    /\ UNCHANGED <<lock, record, leaseVars, attempts, osVars>>

\* The second liveness check: replace what died, refuse what is alive.
Settle(p) ==
    /\ pc[p] = "settle"
    /\ \/ ~Alive(record.pid) /\ record' = NoRecord /\ Goto(p, "launch")
          /\ UNCHANGED lock
       \/ Alive(record.pid) /\ Raise(p) /\ UNCHANGED record
    /\ UNCHANGED <<leaseVars, attempts, osVars>>

\* One turn of the port loop: Popen, then the pending record.  The record is
\* on disk before anything else can be read or can fail.
Booting(b) ==
    /\ pstate[b] = "free"
    /\ pstate' = [pstate EXCEPT ![b] = "booting"]
    /\ detached' = detached \ {b}
Launch(p) ==
    /\ pc[p] = "launch" /\ attempts < MaxAttempts /\ checkout # "gone"
    /\ \E b \in Pids :
          /\ Booting(b)
          /\ record' = [state |-> "pending", pid |-> b, watchdog |-> Nobody]
    /\ attempts' = attempts + 1
    /\ Goto(p, "recover")
    /\ UNCHANGED <<lock, leaseVars, checkout>>

\* ... unless the proxy is killed between Popen and that write.
LaunchOrphan(p) ==
    /\ pc[p] = "launch" /\ attempts < MaxAttempts /\ checkout # "gone"
    /\ "orphan" \in Faults
    /\ \E b \in Pids : Booting(b)
    /\ Goto(p, "down")
    /\ lock' = Nobody
    /\ pending' = [pending EXCEPT ![p] = 0]
    /\ failed' = failed \ {p}
    /\ UNCHANGED <<record, leased, inFlight, elapsed, attempts, checkout>>

\* Ports exhausted, none bindable, port_lock timeout, no serena on PATH or no
\* directory to start it in.
LaunchFails(p) ==
    /\ pc[p] = "launch"
    /\ Raise(p)
    /\ UNCHANGED <<record, leaseVars, attempts, osVars>>

\* ensure_watchdog; start_watchdog spawns `w` in the proxy's session.
EnsureWatchdog(p) ==
    /\ pc[p] = "watch" /\ LockFree
    /\ \/ /\ record.state = "absent"
          /\ Goto(p, "closing")
          /\ UNCHANGED <<record, detached>>
       \/ /\ record.state # "absent" /\ LiveWatchdog(record.watchdog)
          /\ Goto(p, "verify")
          /\ UNCHANGED <<record, detached>>
       \/ /\ record.state # "absent" /\ ~LiveWatchdog(record.watchdog)
          /\ \E w \in Watchdogs :
                /\ pc[w] = "down"
                /\ pc' = [pc EXCEPT ![p] = "verify", ![w] = "sleep"]
                /\ record' = [record EXCEPT !.watchdog = w]
                /\ detached' = detached \ {w}
    /\ UNCHANGED <<lock, leaseVars, attempts, pstate, checkout>>

\* start_watchdog raises after Popen (no fingerprint), so ensure_watchdog
\* never records the watchdog it started.
WatchdogUnrecorded(p) ==
    /\ pc[p] = "watch" /\ LockFree /\ "crashStarting" \in Faults
    /\ record.state # "absent" /\ ~LiveWatchdog(record.watchdog)
    /\ \E w \in Watchdogs \ {record.watchdog} :
          /\ pc[w] = "down"
          /\ pc' = [pc EXCEPT ![p] = "closing", ![w] = "sleep"]
          /\ detached' = detached \ {w}
    /\ UNCHANGED <<lock, record, leaseVars, attempts, pstate, checkout>>

\* backend_identity reads the record without the flock.
VerifyRecordOnly(p) ==
    /\ pc[p] = "verify"
    /\ Goto(p, IF record.state = "active" THEN "idle" ELSE "closing")
    /\ UNCHANGED <<lock, record, leaseVars, attempts, osVars>>
VerifyIdentity(p) ==
    /\ pc[p] = "verify"
    /\ Goto(p, IF record.state = "active" /\ Owned(record.pid)
               THEN "idle" ELSE "closing")
    /\ UNCHANGED <<lock, record, leaseVars, attempts, osVars>>

-----------------------------------------------------------------------------
(* terminate_verified_serena, for a proxy or a watchdog *)

\* False: the proxy refuses to replace the process, the watchdog sleeps on.
StopFailed(a) ==
    /\ Goto(a, IF a \in Proxies THEN "closing" ELSE "sleep")
    /\ lock' = Nobody
    /\ UNCHANGED <<record, attempts>>

\* True: the record goes; the proxy starts a new server, the watchdog exits.
Stopped(a) ==
    /\ record' = NoRecord
    /\ attempts' = 0
    /\ \/ a \in Proxies /\ Goto(a, "launch") /\ UNCHANGED lock
       \/ a \in Watchdogs /\ Goto(a, "down") /\ lock' = Nobody

\* os.kill(SIGTERM), or ProcessLookupError
Kill(a) ==
    /\ pc[a] = "kill"
    /\ \/ /\ Alive(record.pid)
          /\ pstate' = [pstate EXCEPT ![record.pid] = "stopping"]
          /\ Goto(a, "await")
          /\ UNCHANGED <<lock, record, attempts>>
       \/ ~Alive(record.pid) /\ StopFailed(a) /\ UNCHANGED pstate
    /\ UNCHANGED <<leaseVars, checkout, detached>>

\* The poll until the process is gone, is another one, or the deadline.  One
\* that exits between its liveness check and its ps counts as another one.
AwaitExit(a) ==
    /\ pc[a] = "await"
    /\ \/ ~Alive(record.pid) /\ (Stopped(a) \/ StopFailed(a))
       \/ Alive(record.pid) /\ ~Owned(record.pid) /\ StopFailed(a)
       \/ Owned(record.pid) /\ "slowStop" \in Faults /\ StopFailed(a)
    /\ UNCHANGED <<leaseVars, osVars>>

-----------------------------------------------------------------------------
(* run_watchdog *)

WatchdogLock(w) ==
    /\ pc[w] = "sleep" /\ LockFree
    /\ lock' = w
    /\ Goto(w, "check")
    /\ UNCHANGED <<record, leaseVars, attempts, osVars>>

\* TimeoutError reaches cli.main, which prints it and exits.
WatchdogTimeout(w) ==
    /\ pc[w] = "sleep" /\ ~LockFree /\ "lockTimeout" \in Faults
    /\ Goto(w, "down")
    /\ UNCHANGED <<lock, record, leaseVars, attempts, osVars>>

\* No record, or one whose process is dead.
WatchdogLeaves(w) ==
    /\ pc[w] = "check"
    /\ ~Alive(record.pid)
    /\ record' = NoRecord
    /\ lock' = Nobody
    /\ Goto(w, "down")
    /\ UNCHANGED <<leaseVars, attempts, osVars>>

\* inspect_leases removes the stale ones; then idle_shutdown_due and the
\* ownership check of terminate_verified_serena.
StopDueWithLeases ==
    \/ checkout = "gone"
    \/ /\ \E p \in Proxies : LiveLease(p)
       /\ \A p \in Proxies : LiveLease(p) => Due(p)
StopDueIdleOnly == \A p \in Proxies : LiveLease(p) => Due(p)
StopDue == checkout = "gone" \/ \A p \in Proxies : LiveLease(p) => Due(p)
WatchdogDecides(w) ==
    /\ pc[w] = "check"
    /\ Alive(record.pid)
    /\ leased' = {p \in leased : LiveLease(p)}
    /\ \/ /\ StopDue /\ record.state = "active" /\ Owned(record.pid)
          /\ Goto(w, "kill")
          /\ UNCHANGED lock
       \/ /\ ~(StopDue /\ record.state = "active" /\ Owned(record.pid))
          /\ Goto(w, "sleep")
          /\ lock' = Nobody
    /\ UNCHANGED <<record, inFlight, elapsed, pending, failed, attempts, osVars>>

-----------------------------------------------------------------------------
(* The operating system and the user *)

Boots(b) ==
    /\ pstate[b] = "booting"
    /\ pstate' = [pstate EXCEPT ![b] = "serving"]
    /\ UNCHANGED <<pc, lock, record, leaseVars, attempts, checkout, detached>>

Exits(b) ==
    /\ \/ pstate[b] \in {"stopping", "foreign"}
       \/ pstate[b] \in {"booting", "serving"} /\ "serenaDies" \in Faults
    /\ pstate' = [pstate EXCEPT ![b] = "free"]
    /\ UNCHANGED <<pc, lock, record, leaseVars, attempts, checkout, detached>>

\* A pid is not recycled in the microseconds between the ownership check of
\* terminate_verified_serena and its os.kill.
Recycled(b) ==
    /\ "recycled" \in Faults /\ pstate[b] = "free"
    /\ ~\E a \in Actors : pc[a] = "kill" /\ record.pid = b
    /\ pstate' = [pstate EXCEPT ![b] = "foreign"]
    /\ UNCHANGED <<pc, lock, record, leaseVars, attempts, checkout, detached>>

\* A lease passes its idle timeout.
Elapse(p) ==
    /\ p \in leased \ elapsed
    /\ elapsed' = elapsed \cup {p}
    /\ UNCHANGED <<pc, lock, record, leased, inFlight, pending, failed,
                   attempts, osVars>>

CwdsDetach ==
    detached' = IF CwdDetaches
                THEN {a \in Actors : pc[a] # "down"} \cup {b \in Pids : IsSerena(b)}
                ELSE detached

\* A linked worktree goes; its state directory is in the repository, and stays.
RemoveCheckout ==
    /\ "removed" \in Faults /\ checkout = "there"
    /\ checkout' = "gone"
    /\ CwdsDetach
    /\ UNCHANGED <<pc, lock, record, leaseVars, attempts, pstate>>

\* An ordinary clone goes, and with its .git/serena-shared the record and the
\* leases.  Whoever looks next holds the flock, whose mkdir has by then made the
\* root again.  Bound: nobody holds the flock at that moment, nor polls for it
\* (they would be left with a lock file that others cannot see).
RemoveClone ==
    /\ "cloneRemoved" \in Faults /\ checkout = "there" /\ LockFree
    /\ checkout' = "remade"
    /\ record' = NoRecord /\ leased' = {}
    /\ CwdsDetach
    /\ UNCHANGED <<pc, lock, inFlight, elapsed, pending, failed, attempts, pstate>>

\* SIGKILL: the flock is released, the lease file and the children survive.
Crash(a) ==
    /\ \/ pc[a] \in {"idle", "closing"} /\ "crash" \in Faults
       \/ a \in Proxies /\ pc[a] \notin {"down", "idle", "closing"}
          /\ "crashStarting" \in Faults
       \/ a \in Watchdogs /\ pc[a] # "down" /\ "watchdogDies" \in Faults
    /\ Goto(a, "down")
    /\ lock' = IF lock = a THEN Nobody ELSE lock
    /\ pending' = [p \in Proxies |-> IF p = a THEN 0 ELSE pending[p]]
    /\ failed' = failed \ {a}
    /\ UNCHANGED <<record, leased, inFlight, elapsed, attempts, osVars>>

-----------------------------------------------------------------------------

ProxyStep(p) ==
    \/ Spawn(p) \/ RequestStarted(p) \/ RequestFinished(p)
    \/ EventLoopRaises(p) \/ Finish(p) \/ CloseLease(p)
    \/ EnsureBackend(p) \/ LockTimeout(p) \/ StartLock(p) \/ Inspect(p)
    \/ ProbeSucceeds(p) \/ ProbeFails(p) \/ Promote(p) \/ GiveUp(p)
    \/ Settle(p) \/ Launch(p) \/ LaunchOrphan(p) \/ LaunchFails(p)
    \/ EnsureWatchdog(p) \/ WatchdogUnrecorded(p) \/ VerifyIdentity(p)

WatchdogStep(w) ==
    \/ WatchdogLock(w) \/ WatchdogTimeout(w)
    \/ WatchdogLeaves(w) \/ WatchdogDecides(w)

Next ==
    \/ \E p \in Proxies : ProxyStep(p) \/ Elapse(p)
    \/ \E w \in Watchdogs : WatchdogStep(w)
    \/ \E a \in Actors : Kill(a) \/ AwaitExit(a) \/ Crash(a)
    \/ \E b \in Pids : Boots(b) \/ Exits(b) \/ Recycled(b)
    \/ RemoveCheckout \/ RemoveClone

Spec == Init /\ [][Next]_vars

\* The holder of the flock never waits for another process for ever: every
\* loop under it has a deadline.  Who polls for the flock gets it in the end,
\* or else LOCK_WAIT_SECONDS pass ("lockTimeout").  Watchdogs wake up, Serena
\* boots and obeys SIGTERM, timeouts elapse.  Nothing is assumed of clients.
UnderLock(a) ==
    \/ a \in Proxies /\ (\/ Inspect(a) \/ ProbeSucceeds(a) \/ ProbeFails(a)
                         \/ Promote(a) \/ GiveUp(a) \/ Settle(a)
                         \/ Launch(a) \/ LaunchFails(a))
    \/ a \in Watchdogs /\ (WatchdogLeaves(a) \/ WatchdogDecides(a))
    \/ Kill(a) \/ AwaitExit(a)

Fairness ==
    /\ \A a \in Actors : WF_vars(UnderLock(a))
    /\ \A w \in Watchdogs : SF_vars(WatchdogLock(w))
    /\ \A p \in Proxies : SF_vars(EnsureWatchdog(p)) /\ WF_vars(Elapse(p))
    /\ \A b \in Pids : WF_vars(Boots(b)) /\ WF_vars(pstate[b] = "stopping" /\ Exits(b))

FairSpec == Spec /\ Fairness

-----------------------------------------------------------------------------
(* Properties *)

\* Types of the state (the record guard is_serena_record among them).
TypeOK ==
    /\ pc \in [Actors -> ProxyLabels \cup WatchdogLabels]
    /\ \A p \in Proxies : pc[p] \in ProxyLabels
    /\ \A w \in Watchdogs : pc[w] \in WatchdogLabels
    /\ lock \in Actors \cup {Nobody}
    /\ record \in Record
    /\ leased \subseteq Proxies
    /\ inFlight \in [Proxies -> Nat]
    /\ elapsed \subseteq Proxies
    /\ pending \in [Proxies -> Nat]
    /\ failed \subseteq Proxies
    /\ attempts \in Nat
    /\ pstate \in [Pids -> PidStates]
    /\ checkout \in {"there", "gone"}
          \cup {state \in {"remade"} : "cloneRemoved" \in Faults}
    /\ detached \subseteq Actors \cup Pids

\* The registry is only examined, replaced and acted upon by the one holder
\* of startup_lock, whoever crashes or times out (file_lock).
LockDiscipline == \A a \in Actors : pc[a] \in Critical <=> lock = a

\* One Serena per checkout and profile: a live one is always the one that the
\* registry names, so the next client adopts it instead of starting another.
OneBackend ==
    \A b \in Pids : IsSerena(b) => record.state # "absent" /\ record.pid = b

\* SIGTERM is never about to go to a program that merely inherited the pid of
\* a dead Serena (terminate_verified_serena).
SignalsOwnBackend ==
    \A a \in Actors : pc[a] = "kill" => pstate[record.pid] # "foreign"

\* While a watchdog stops the backend of an existing checkout, no proxy has a
\* request outstanding: the idle test and the SIGTERM are one critical section.
NoIdleStopUnderLoad ==
    checkout = "there" => \A w \in Watchdogs : pc[w] \in {"kill", "await"} =>
                   \A p \in Proxies : pending[p] = 0

\* A running proxy keeps its lease, and the lease counts its open requests,
\* through crashes of others and clean-ups (inspect_leases, _update, close), as
\* long as its state directory stays and its cwd can be recognised.  Updates
\* that time out leave a request counted that is answered, never the reverse.
LiveProxyLeased ==
    \A p \in Proxies : pc[p] # "down" /\ p \notin detached /\ checkout # "remade" =>
        /\ p \in leased
        /\ inFlight[p] >= pending[p]
        /\ Looping(p) /\ "lockTimeout" \notin Faults => inFlight[p] = pending[p]

\* A backend that was promoted is watched, or a proxy is on its way to start
\* its watchdog (ensure_backend): otherwise nobody would ever stop it.
ActiveIsWatched ==
    record.state = "active" =>
        LiveWatchdog(record.watchdog) \/ \E p \in Proxies : pc[p] = "watch"

\* startup_lock is always given back: no holder waits for ever.
LockReleased == \A a \in Actors : lock = a ~> lock # a

\* When the last proxy is gone for good, Serena does not outlive it.
NoSerena == \A b \in Pids : ~IsSerena(b)
Reaped == <>[](\A p \in Proxies : pc[p] = "down") => <>[]NoSerena

\* A deleted worktree takes its backend with it, whatever its leases say.
RemovedStops == checkout = "gone" ~> NoSerena

\* The same where it is easiest: the backend is active, its watchdog running.
WatchdogStopsRemoved ==
    checkout = "gone" /\ record.state = "active" /\ (\E w \in Watchdogs : pc[w] = "sleep")
        ~> NoSerena

-----------------------------------------------------------------------------
(* What all of this amounts to for the clients *)

\* A proxy asks from ensure_backend until the worker thread has an endpoint, or
\* an exception; what counts as load is what its event loop knows to be open.
Waiting == {"start", "inspect", "probe", "recover", "settle", "launch",
            "kill", "await", "watch", "verify"}

Promise == INSTANCE SharedBackend WITH
    Clients <- Proxies,
    Servers <- Pids,
    clients <- {p \in Proxies : pc[p] # "down"},
    asking  <- {p \in Proxies : pc[p] \in Waiting},
    leaving <- {p \in Proxies : pc[p] = "closing"},
    load    <- pending,
    servers <- {b \in Pids : IsSerena(b)},
    told    <- {b \in Pids : pstate[b] = "stopping"},
    checkout <- (checkout = "there")

\* Locks, records, leases, probes and watchdogs together behave as a single
\* backend that clients share: started for a client and only when none runs,
\* handed out only while it runs, stopped only when idle, orphaned by its
\* checkout or replaced for a client (start_shared_serena, run_watchdog).
ImplementsSharedBackend == Promise!Spec

=============================================================================
