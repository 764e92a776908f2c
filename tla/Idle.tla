--------------------------------- MODULE Idle ---------------------------------
(***************************************************************************)
(* The arithmetic of idleness (runtime/leases.py, run_watchdog and status  *)
(* in runtime/lifecycle.py): leases carry a time of their last activity    *)
(* and a timeout of their own, the watchdog compares them at its polls     *)
(* with a wall clock that may be set, and status predicts what the         *)
(* watchdog will do.  Lifecycle has one bit per lease for all of this.     *)
(*                                                                         *)
(* The unit of time is whatever divides the timeouts and the poll.         *)
(***************************************************************************)
EXTENDS Integers

CONSTANTS
    Proxies,    \* each with one lease
    Timeouts,   \* idleTimeoutMinutes * 60 of the leases
    Poll,       \* poll_seconds
    MaxTime,    \* bound on the time that passes
    MaxAdjust,  \* bounds on how far the wall clock is set, either way
    MaxInFlight,\* bound on the requests a proxy has open
    NoForecast, \* status has not been asked, or something changed since
    Busy        \* its answer None, with requests in flight

ASSUME IdleAssumption ==
    /\ Timeouts \subseteq Nat \ {0}
    /\ Poll \in Nat /\ MaxTime \in Nat /\ MaxAdjust \in Nat /\ MaxInFlight \in Nat
    /\ NoForecast \notin Int /\ Busy \notin Int /\ NoForecast # Busy

VARIABLES
    uptime,     \* time that has really passed
    gained,     \* by how much the wall clock was set forward, in total
    lost,       \* ... and back
    leased,     \* proxies with a lease file
    live,       \* proxies whose process runs
    lease,      \* the lease files: timeout, lastActivityAt, inFlight
    activeAt,   \* history: when a request of each last started or ended
    leftAt,     \* history: when a proxy last ended
    nextPoll,   \* when the watchdog wakes up
    stopped,    \* it has stopped the backend
    forecast    \* what status said, as long as nothing has changed since

timeVars == <<uptime, gained, lost>>
vars == <<timeVars, leased, live, lease, activeAt, leftAt, nextPoll, stopped,
          forecast>>

\* time.time()
Now == uptime + gained - lost

Init ==
    /\ uptime = 0 /\ gained = 0 /\ lost = 0
    /\ leased = {} /\ live = {}
    /\ lease \in [Proxies -> [timeout: Timeouts, last: {0}, inFlight: {0}]]
    /\ activeAt = [p \in Proxies |-> 0]
    /\ leftAt = 0
    /\ nextPoll = 0
    /\ stopped = FALSE
    /\ forecast = NoForecast

-----------------------------------------------------------------------------
(* Leases *)

Changed == forecast' = NoForecast
Touches(p) == activeAt' = [activeAt EXCEPT ![p] = uptime]

CreateLease(p, timeout) ==
    /\ ~stopped /\ p \notin leased
    /\ leased' = leased \cup {p} /\ live' = live \cup {p}
    /\ lease' = [lease EXCEPT ![p] =
                    [timeout |-> timeout, last |-> Now, inFlight |-> 0]]
    /\ Touches(p) /\ Changed
    /\ UNCHANGED <<timeVars, leftAt, nextPoll, stopped>>

RequestStarted(p) ==
    /\ ~stopped /\ p \in live /\ lease[p].inFlight < MaxInFlight
    /\ lease' = [lease EXCEPT ![p].inFlight = @ + 1, ![p].last = Now]
    /\ Touches(p) /\ Changed
    /\ UNCHANGED <<timeVars, leased, live, leftAt, nextPoll, stopped>>

RequestFinishedUntouched(p) ==
    /\ ~stopped /\ p \in live /\ lease[p].inFlight > 0
    /\ lease' = [lease EXCEPT ![p].inFlight = @ - 1]
    /\ Touches(p) /\ Changed
    /\ UNCHANGED <<timeVars, leased, live, leftAt, nextPoll, stopped>>
RequestFinished(p) ==
    /\ ~stopped /\ p \in live /\ lease[p].inFlight > 0
    /\ lease' = [lease EXCEPT ![p].inFlight = @ - 1, ![p].last = Now]
    /\ Touches(p) /\ Changed
    /\ UNCHANGED <<timeVars, leased, live, leftAt, nextPoll, stopped>>

\* ProxyLease.close, or the process is killed and its lease is stale.
Ends(p) ==
    /\ ~stopped /\ p \in live
    /\ live' = live \ {p}
    /\ leased' \in {leased, leased \ {p}}
    /\ leftAt' = uptime
    /\ Changed
    /\ UNCHANGED <<timeVars, lease, activeAt, nextPoll, stopped>>

-----------------------------------------------------------------------------
(* The watchdog and status *)

\* inspect_leases returns the leases of processes that run.
InspectedAll == leased
Inspected == leased \cap live

\* idle_shutdown_due
Due ==
    \A p \in Inspected :
        lease[p].inFlight = 0 /\ Now - lease[p].last >= lease[p].timeout

\* One turn of run_watchdog, with the checkout in place: stale leases are
\* removed, and then the backend is stopped or the watchdog sleeps.
Polls ==
    /\ ~stopped /\ uptime = nextPoll
    /\ leased' = Inspected
    /\ \/ Due /\ stopped' = TRUE /\ UNCHANGED nextPoll
       \/ ~Due /\ nextPoll' = uptime + Poll /\ UNCHANGED stopped
    /\ UNCHANGED <<timeVars, live, lease, activeAt, leftAt, forecast>>

\* _status_for_paths, without the lock and without removing anything.  With no
\* lease at all it says None too, although the watchdog is about to stop.
ExpiresAt(p) == lease[p].last + lease[p].timeout
NoEarlier(time) == IF time > Now THEN time ELSE Now
ForecastFirst ==
    \E p \in Inspected :
        /\ \A q \in Inspected : ExpiresAt(p) <= ExpiresAt(q)
        /\ forecast' = NoEarlier(ExpiresAt(p))
Forecast ==
    \E p \in Inspected :
        /\ \A q \in Inspected : ExpiresAt(q) <= ExpiresAt(p)
        /\ forecast' = NoEarlier(ExpiresAt(p))
Status ==
    /\ ~stopped
    /\ \/ Inspected = {} /\ forecast' = NoForecast
       \/ (\E p \in Inspected : lease[p].inFlight # 0) /\ forecast' = Busy
       \/ (\A p \in Inspected : lease[p].inFlight = 0) /\ Forecast
    /\ UNCHANGED <<timeVars, leased, live, lease, activeAt, leftAt, nextPoll,
                   stopped>>

-----------------------------------------------------------------------------
(* Time: the watchdog is not late for its polls *)

Tick ==
    /\ ~stopped /\ uptime < nextPoll /\ uptime < MaxTime
    /\ uptime' = uptime + 1
    /\ UNCHANGED <<gained, lost, leased, live, lease, activeAt, leftAt, nextPoll,
                   stopped, forecast>>

SetForward ==
    /\ ~stopped /\ gained < MaxAdjust
    /\ gained' = gained + 1
    /\ Changed
    /\ UNCHANGED <<uptime, lost, leased, live, lease, activeAt, leftAt, nextPoll,
                   stopped>>

SetBack ==
    /\ ~stopped /\ lost < MaxAdjust
    /\ lost' = lost + 1
    /\ Changed
    /\ UNCHANGED <<uptime, gained, leased, live, lease, activeAt, leftAt,
                   nextPoll, stopped>>

-----------------------------------------------------------------------------

Next ==
    \/ \E p \in Proxies :
          \/ \E timeout \in Timeouts : CreateLease(p, timeout)
          \/ RequestStarted(p) \/ RequestFinished(p) \/ Ends(p)
    \/ Polls \/ Status
    \/ Tick \/ SetForward \/ SetBack

Spec == Init /\ [][Next]_vars

-----------------------------------------------------------------------------

Lease == [timeout: Timeouts, last: Int, inFlight: Nat]

TypeOK ==
    /\ uptime \in Nat /\ gained \in Nat /\ lost \in Nat
    /\ leased \subseteq Proxies /\ live \subseteq leased
    /\ lease \in [Proxies -> Lease]
    /\ activeAt \in [Proxies -> Nat]
    /\ leftAt \in Nat /\ nextPoll \in Nat
    /\ stopped \in BOOLEAN
    /\ forecast \in Int \cup {NoForecast, Busy}

Stops == ~stopped /\ stopped'

\* The watchdog never stops a backend before every running proxy is idle and
\* has really been so for its own timeout, less what the wall clock was set
\* forward meanwhile; setting it back does no harm (idle_shutdown_due).
NeverEarly ==
    [][Stops =>
          \A p \in live :
              /\ lease[p].inFlight = 0
              /\ uptime - activeAt[p] >= lease[p].timeout - gained]_vars

\* It is no later than one poll after the last timeout has passed, or after the
\* last proxy has ended, plus what the wall clock was set back.
InTime ==
    ~stopped =>
        \/ uptime <= leftAt + Poll
        \/ \E p \in live :
              \/ lease[p].inFlight > 0
              \/ uptime < activeAt[p] + lease[p].timeout + Poll + lost

\* status and the watchdog agree: the backend is stopped at most one poll after
\* the time that status named, not before it, and not if status named none
\* because of requests in flight (_status_for_paths, run_watchdog).
ForecastKept ==
    /\ [](~stopped /\ forecast \in Int => Now <= forecast + Poll)
    /\ [][Stops => forecast # Busy /\ (forecast \in Int => Now >= forecast)]_vars

=============================================================================
