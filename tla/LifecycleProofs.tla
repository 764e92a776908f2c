--------------------------- MODULE LifecycleProofs ---------------------------
(* Theorems about Lifecycle, for any numbers of proxies, watchdogs and pids. *)
EXTENDS Lifecycle, TLAPS

\* The state keeps its types, whatever the faults (TypeOK).
THEOREM TypeCorrect == Spec => []TypeOK
<1> USE ConstantsAssumption DEF Actors, Record, PidStates, SerenaStates, ProxyLabels,
            WatchdogLabels, NoRecord, leaseVars, osVars
<1>1. Init => TypeOK
  BY ConstantsAssumption DEF Init, TypeOK
<1>2. TypeOK /\ [Next]_vars => TypeOK'
  <2> SUFFICES ASSUME TypeOK, [Next]_vars PROVE TypeOK'
    OBVIOUS
  <2> USE DEF TypeOK, Goto
  <2>1. ASSUME NEW p \in Proxies, Spawn(p) PROVE TypeOK'
    BY <2>1 DEF Spawn
  <2>2. ASSUME NEW p \in Proxies, RequestStarted(p) PROVE TypeOK'
    BY <2>2 DEF RequestStarted
  <2>3. ASSUME NEW p \in Proxies, RequestFinished(p) PROVE TypeOK'
    BY <2>3 DEF RequestFinished
  <2>4. ASSUME NEW p \in Proxies, EventLoopRaises(p) PROVE TypeOK'
    BY <2>4 DEF EventLoopRaises
  <2>5. ASSUME NEW p \in Proxies, Finish(p) PROVE TypeOK'
    BY <2>5 DEF Finish
  <2>6. ASSUME NEW p \in Proxies, CloseLease(p) PROVE TypeOK'
    BY <2>6 DEF CloseLease
  <2>7. ASSUME NEW p \in Proxies, EnsureBackend(p) PROVE TypeOK'
    BY <2>7 DEF EnsureBackend
  <2>8. ASSUME NEW p \in Proxies, LockTimeout(p) PROVE TypeOK'
    BY <2>8 DEF LockTimeout
  <2>9. ASSUME NEW p \in Proxies, StartLock(p) PROVE TypeOK'
    BY <2>9 DEF StartLock
  <2>10. ASSUME NEW p \in Proxies, Inspect(p) PROVE TypeOK'
    BY <2>10 DEF Inspect
  <2>11. ASSUME NEW p \in Proxies, ProbeSucceeds(p) PROVE TypeOK'
    BY <2>11 DEF ProbeSucceeds, Returned
  <2>12. ASSUME NEW p \in Proxies, ProbeFails(p) PROVE TypeOK'
    BY <2>12 DEF ProbeFails, Raise
  <2>13. ASSUME NEW p \in Proxies, Promote(p) PROVE TypeOK'
    BY <2>13 DEF Promote, Returned
  <2>14. ASSUME NEW p \in Proxies, GiveUp(p) PROVE TypeOK'
    BY <2>14 DEF GiveUp
  <2>15. ASSUME NEW p \in Proxies, Settle(p) PROVE TypeOK'
    BY <2>15 DEF Settle, Raise
  <2>16. ASSUME NEW p \in Proxies, Launch(p) PROVE TypeOK'
    BY <2>16 DEF Launch, Booting
  <2>17. ASSUME NEW p \in Proxies, LaunchOrphan(p) PROVE TypeOK'
    BY <2>17 DEF LaunchOrphan, Booting
  <2>18. ASSUME NEW p \in Proxies, LaunchFails(p) PROVE TypeOK'
    BY <2>18 DEF LaunchFails, Raise
  <2>19. ASSUME NEW p \in Proxies, EnsureWatchdog(p) PROVE TypeOK'
    BY <2>19 DEF EnsureWatchdog
  <2>20. ASSUME NEW p \in Proxies, WatchdogUnrecorded(p) PROVE TypeOK'
    BY <2>20 DEF WatchdogUnrecorded
  <2>21. ASSUME NEW p \in Proxies, VerifyIdentity(p) PROVE TypeOK'
    BY <2>21 DEF VerifyIdentity
  <2>22. ASSUME NEW p \in Proxies, Elapse(p) PROVE TypeOK'
    BY <2>22 DEF Elapse
  <2>23. ASSUME NEW w \in Watchdogs, WatchdogLock(w) PROVE TypeOK'
    BY <2>23 DEF WatchdogLock
  <2>24. ASSUME NEW w \in Watchdogs, WatchdogTimeout(w) PROVE TypeOK'
    BY <2>24 DEF WatchdogTimeout
  <2>25. ASSUME NEW w \in Watchdogs, WatchdogLeaves(w) PROVE TypeOK'
    BY <2>25 DEF WatchdogLeaves
  <2>26. ASSUME NEW w \in Watchdogs, WatchdogDecides(w) PROVE TypeOK'
    BY <2>26 DEF WatchdogDecides
  <2>27. ASSUME NEW a \in Actors, Kill(a) PROVE TypeOK'
    BY <2>27 DEF Kill, StopFailed
  <2>28. ASSUME NEW a \in Actors, AwaitExit(a) PROVE TypeOK'
    BY <2>28 DEF AwaitExit, StopFailed, Stopped
  <2>29. ASSUME NEW a \in Actors, Crash(a) PROVE TypeOK'
    BY <2>29 DEF Crash
  <2>30. ASSUME NEW b \in Pids, Boots(b) \/ Exits(b) \/ Recycled(b) PROVE TypeOK'
    BY <2>30 DEF Boots, Exits, Recycled
  <2>31. ASSUME RemoveCheckout \/ RemoveClone PROVE TypeOK'
    BY <2>31 DEF RemoveCheckout, RemoveClone, CwdsDetach
  <2>32. ASSUME UNCHANGED vars PROVE TypeOK'
    BY <2>32 DEF vars
  <2>33. QED
    BY <2>1, <2>2, <2>3, <2>4, <2>5, <2>6, <2>7, <2>8, <2>9, <2>10, <2>11,
       <2>12, <2>13, <2>14, <2>15, <2>16, <2>17, <2>18, <2>19, <2>20, <2>21,
       <2>22, <2>23, <2>24, <2>25, <2>26, <2>27, <2>28, <2>29, <2>30, <2>31,
       <2>32
       DEF Next, ProxyStep, WatchdogStep
<1>3. QED
  BY <1>1, <1>2, PTL DEF Spec

-----------------------------------------------------------------------------

\* One actor at a time is in a critical section (LockDiscipline).
THEOREM MutualExclusion == Spec => []LockDiscipline
<1> USE ConstantsAssumption DEF Actors, Critical, Record, ProxyLabels,
        WatchdogLabels, NoRecord, leaseVars, osVars, LockDiscipline
<1>1. Init => LockDiscipline
  BY DEF Init
<1>2. TypeOK /\ LockDiscipline /\ [Next]_vars => LockDiscipline'
  <2> SUFFICES ASSUME TypeOK, LockDiscipline, [Next]_vars PROVE LockDiscipline'
    OBVIOUS
  <2> USE DEF TypeOK, Goto, LockFree
  <2>1. ASSUME NEW p \in Proxies,
               \/ RequestStarted(p) \/ RequestFinished(p) \/ EventLoopRaises(p)
               \/ Elapse(p) \/ Spawn(p) \/ Finish(p) \/ CloseLease(p)
        PROVE LockDiscipline'
    BY <2>1 DEF RequestStarted, RequestFinished, EventLoopRaises, Elapse,
                Spawn, Finish, CloseLease
  <2>2. ASSUME NEW p \in Proxies,
               \/ EnsureBackend(p) \/ LockTimeout(p) \/ VerifyIdentity(p)
        PROVE LockDiscipline'
    BY <2>2 DEF EnsureBackend, LockTimeout, VerifyIdentity
  <2>3. ASSUME NEW p \in Proxies, StartLock(p) PROVE LockDiscipline'
    BY <2>3 DEF StartLock
  <2>4. ASSUME NEW p \in Proxies, Inspect(p) \/ GiveUp(p) PROVE LockDiscipline'
    BY <2>4 DEF Inspect, GiveUp
  <2>5. ASSUME NEW p \in Proxies, ProbeSucceeds(p) \/ Promote(p)
        PROVE LockDiscipline'
    BY <2>5 DEF ProbeSucceeds, Promote, Returned
  <2>6. ASSUME NEW p \in Proxies, ProbeFails(p) \/ Settle(p) \/ LaunchFails(p)
        PROVE LockDiscipline'
    BY <2>6 DEF ProbeFails, Settle, LaunchFails, Raise
  <2>7. ASSUME NEW p \in Proxies, Launch(p) \/ LaunchOrphan(p)
        PROVE LockDiscipline'
    BY <2>7 DEF Launch, LaunchOrphan, Booting
  <2>8. ASSUME NEW p \in Proxies, EnsureWatchdog(p) \/ WatchdogUnrecorded(p)
        PROVE LockDiscipline'
    BY <2>8 DEF EnsureWatchdog, WatchdogUnrecorded
  <2>9. ASSUME NEW w \in Watchdogs, WatchdogLock(w) \/ WatchdogTimeout(w)
        PROVE LockDiscipline'
    BY <2>9 DEF WatchdogLock, WatchdogTimeout
  <2>10. ASSUME NEW w \in Watchdogs, WatchdogLeaves(w) \/ WatchdogDecides(w)
         PROVE LockDiscipline'
    BY <2>10 DEF WatchdogLeaves, WatchdogDecides
  <2>11. ASSUME NEW a \in Actors, Kill(a) \/ AwaitExit(a) PROVE LockDiscipline'
    BY <2>11 DEF Kill, AwaitExit, Stopped, StopFailed
  <2>12. ASSUME NEW a \in Actors, Crash(a) PROVE LockDiscipline'
    BY <2>12 DEF Crash
  <2>13. ASSUME NEW b \in Pids, Boots(b) \/ Exits(b) \/ Recycled(b)
         PROVE LockDiscipline'
    BY <2>13 DEF Boots, Exits, Recycled
  <2>14. ASSUME RemoveCheckout \/ RemoveClone \/ UNCHANGED vars PROVE LockDiscipline'
    BY <2>14 DEF RemoveCheckout, RemoveClone, CwdsDetach, vars
  <2>15. QED
    BY <2>1, <2>2, <2>3, <2>4, <2>5, <2>6, <2>7, <2>8, <2>9, <2>10, <2>11,
       <2>12, <2>13, <2>14
       DEF Next, ProxyStep, WatchdogStep
<1>3. QED
  BY <1>1, <1>2, TypeCorrect, PTL DEF Spec

-----------------------------------------------------------------------------

\* Where the holder of startup_lock stands tells what the record says: nobody
\* else can have changed it since the holder read it.
RecordFits ==
    /\ record.state = "absent" <=> record.pid = Nobody
    /\ \A a \in Actors :
          /\ pc[a] = "launch" => record.state = "absent"
          /\ pc[a] \in {"recover", "settle"} => record.state = "pending"
          /\ pc[a] \in {"probe", "kill", "await"} => record.state = "active"

LEMMA RecordFitsAlways == Spec => []RecordFits
<1> USE ConstantsAssumption DEF Actors, Critical, Record, ProxyLabels,
        WatchdogLabels, NoRecord, leaseVars, osVars, RecordFits
<1>1. Init => RecordFits
  BY DEF Init
<1>2. TypeOK /\ LockDiscipline /\ RecordFits /\ [Next]_vars => RecordFits'
  <2> SUFFICES ASSUME TypeOK, LockDiscipline, RecordFits, [Next]_vars
               PROVE RecordFits'
    OBVIOUS
  <2> USE DEF TypeOK, LockDiscipline, Goto, LockFree
  <2>1. ASSUME NEW p \in Proxies,
               \/ RequestStarted(p) \/ RequestFinished(p) \/ EventLoopRaises(p) \/ Elapse(p)
               \/ Spawn(p) \/ Finish(p) \/ CloseLease(p)
        PROVE RecordFits'
    BY <2>1 DEF RequestStarted, RequestFinished, EventLoopRaises, Elapse, Spawn,
            Finish, CloseLease
  <2>2. ASSUME NEW p \in Proxies,
               \/ EnsureBackend(p) \/ LockTimeout(p) \/ VerifyIdentity(p)
               \/ StartLock(p)
        PROVE RecordFits'
    BY <2>2 DEF EnsureBackend, LockTimeout, VerifyIdentity, StartLock
  <2>3. ASSUME NEW p \in Proxies, Inspect(p) PROVE RecordFits'
    BY <2>3 DEF Inspect, Alive
  <2>4. ASSUME NEW p \in Proxies, GiveUp(p) PROVE RecordFits'
    BY <2>4 DEF GiveUp
  <2>5. ASSUME NEW p \in Proxies,
               ProbeSucceeds(p) \/ Promote(p)
        PROVE RecordFits'
    BY <2>5 DEF ProbeSucceeds, Promote, Returned
  <2>6. ASSUME NEW p \in Proxies,
               ProbeFails(p) \/ Settle(p) \/ LaunchFails(p)
        PROVE RecordFits'
    BY <2>6 DEF ProbeFails, Settle, LaunchFails, Raise, Owned
  <2>7. ASSUME NEW p \in Proxies, Launch(p) PROVE RecordFits'
    BY <2>7 DEF Launch, Booting
  <2>8. ASSUME NEW p \in Proxies, LaunchOrphan(p) PROVE RecordFits'
    BY <2>8 DEF LaunchOrphan, Booting
  <2>9. ASSUME NEW p \in Proxies,
               EnsureWatchdog(p) \/ WatchdogUnrecorded(p)
        PROVE RecordFits'
    BY <2>9 DEF EnsureWatchdog, WatchdogUnrecorded
  <2>10. ASSUME NEW w \in Watchdogs,
               WatchdogLock(w) \/ WatchdogTimeout(w)
        PROVE RecordFits'
    BY <2>10 DEF WatchdogLock, WatchdogTimeout
  <2>11. ASSUME NEW w \in Watchdogs, WatchdogLeaves(w) PROVE RecordFits'
    BY <2>11 DEF WatchdogLeaves
  <2>12. ASSUME NEW w \in Watchdogs, WatchdogDecides(w) PROVE RecordFits'
    BY <2>12 DEF WatchdogDecides, Alive
  <2>13. ASSUME NEW a \in Actors, Kill(a) PROVE RecordFits'
    BY <2>13 DEF Kill, StopFailed
  <2>14. ASSUME NEW a \in Actors, AwaitExit(a) PROVE RecordFits'
    BY <2>14 DEF AwaitExit, Stopped, StopFailed
  <2>15. ASSUME NEW a \in Actors, Crash(a) PROVE RecordFits'
    BY <2>15 DEF Crash
  <2>16. ASSUME NEW b \in Pids,
               Boots(b) \/ Exits(b) \/ Recycled(b)
        PROVE RecordFits'
    BY <2>16 DEF Boots, Exits, Recycled
  <2>17. ASSUME RemoveCheckout \/ RemoveClone \/ UNCHANGED vars PROVE RecordFits'
    BY <2>17 DEF RemoveCheckout, RemoveClone, CwdsDetach, vars
  <2>18. QED
    BY <2>1, <2>2, <2>3, <2>4, <2>5, <2>6, <2>7, <2>8, <2>9, <2>10, <2>11,
       <2>12, <2>13, <2>14, <2>15, <2>16, <2>17
       DEF Next, ProxyStep, WatchdogStep
<1>3. QED
  BY <1>1, <1>2, TypeCorrect, MutualExclusion, PTL DEF Spec

\* SIGTERM only goes to the backend of the record (SignalsOwnBackend): the pid
\* cannot have been given to another program since it was checked.
THEOREM SignalsOnlyOwn == Spec => []SignalsOwnBackend
<1> USE ConstantsAssumption DEF Actors, Critical, Record, PidStates,
        SerenaStates, ProxyLabels, WatchdogLabels, NoRecord, leaseVars, osVars,
        SignalsOwnBackend
<1>1. Init => SignalsOwnBackend
  BY DEF Init
<1>2. /\ TypeOK /\ LockDiscipline /\ RecordFits
      /\ SignalsOwnBackend /\ [Next]_vars
      => SignalsOwnBackend'
  <2> SUFFICES ASSUME TypeOK, LockDiscipline, RecordFits, SignalsOwnBackend,
                      [Next]_vars
               PROVE SignalsOwnBackend'
    OBVIOUS
  <2> USE DEF TypeOK, LockDiscipline, RecordFits, Goto, LockFree
  <2>1. ASSUME NEW p \in Proxies,
               \/ RequestStarted(p) \/ RequestFinished(p) \/ EventLoopRaises(p) \/ Elapse(p)
               \/ Spawn(p) \/ Finish(p) \/ CloseLease(p)
        PROVE SignalsOwnBackend'
    BY <2>1 DEF RequestStarted, RequestFinished, EventLoopRaises, Elapse, Spawn,
            Finish, CloseLease
  <2>2. ASSUME NEW p \in Proxies,
               \/ EnsureBackend(p) \/ LockTimeout(p) \/ VerifyIdentity(p)
               \/ StartLock(p)
        PROVE SignalsOwnBackend'
    BY <2>2 DEF EnsureBackend, LockTimeout, VerifyIdentity, StartLock
  <2>3. ASSUME NEW p \in Proxies, Inspect(p) PROVE SignalsOwnBackend'
    BY <2>3 DEF Inspect
  <2>4. ASSUME NEW p \in Proxies, GiveUp(p) PROVE SignalsOwnBackend'
    BY <2>4 DEF GiveUp
  <2>5. ASSUME NEW p \in Proxies,
               ProbeSucceeds(p) \/ Promote(p)
        PROVE SignalsOwnBackend'
    BY <2>5 DEF ProbeSucceeds, Promote, Returned
  <2>6. ASSUME NEW p \in Proxies,
               ProbeFails(p) \/ Settle(p) \/ LaunchFails(p)
        PROVE SignalsOwnBackend'
    BY <2>6 DEF ProbeFails, Settle, LaunchFails, Raise, Owned, IsSerena
  <2>7. ASSUME NEW p \in Proxies, Launch(p) PROVE SignalsOwnBackend'
    BY <2>7 DEF Launch, Booting
  <2>8. ASSUME NEW p \in Proxies, LaunchOrphan(p) PROVE SignalsOwnBackend'
    BY <2>8 DEF LaunchOrphan, Booting
  <2>9. ASSUME NEW p \in Proxies,
               EnsureWatchdog(p) \/ WatchdogUnrecorded(p)
        PROVE SignalsOwnBackend'
    BY <2>9 DEF EnsureWatchdog, WatchdogUnrecorded
  <2>10. ASSUME NEW w \in Watchdogs,
               WatchdogLock(w) \/ WatchdogTimeout(w)
        PROVE SignalsOwnBackend'
    BY <2>10 DEF WatchdogLock, WatchdogTimeout
  <2>11. ASSUME NEW w \in Watchdogs,
               WatchdogLeaves(w)
        PROVE SignalsOwnBackend'
    BY <2>11 DEF WatchdogLeaves
  <2>12. ASSUME NEW w \in Watchdogs,
               WatchdogDecides(w)
        PROVE SignalsOwnBackend'
    BY <2>12 DEF WatchdogDecides, Alive, Owned, IsSerena
  <2>13. ASSUME NEW a \in Actors, Kill(a) PROVE SignalsOwnBackend'
    BY <2>13 DEF Kill, StopFailed
  <2>14. ASSUME NEW a \in Actors, AwaitExit(a) PROVE SignalsOwnBackend'
    BY <2>14 DEF AwaitExit, Stopped, StopFailed
  <2>15. ASSUME NEW a \in Actors, Crash(a) PROVE SignalsOwnBackend'
    BY <2>15 DEF Crash
  <2>16. ASSUME NEW b \in Pids,
               Boots(b) \/ Exits(b) \/ Recycled(b)
        PROVE SignalsOwnBackend'
    BY <2>16 DEF Boots, Exits, Recycled
  <2>17. ASSUME RemoveCheckout \/ RemoveClone \/ UNCHANGED vars PROVE SignalsOwnBackend'
    BY <2>17 DEF RemoveCheckout, RemoveClone, CwdsDetach, vars
  <2>18. QED
    BY <2>1, <2>2, <2>3, <2>4, <2>5, <2>6, <2>7, <2>8, <2>9, <2>10, <2>11,
       <2>12, <2>13, <2>14, <2>15, <2>16, <2>17
       DEF Next, ProxyStep, WatchdogStep
<1>3. QED
  BY <1>1, <1>2, TypeCorrect, MutualExclusion, RecordFitsAlways, PTL DEF Spec

-----------------------------------------------------------------------------

\* What keeps the leases honest, besides the flock: while the checkout exists
\* every process is recognised, and a process that is gone has no request open.
LeasesFit ==
    /\ checkout = "there" => detached = {}
    /\ \A p \in Proxies : pc[p] = "down" => pending[p] = 0
    /\ LiveProxyLeased

LEMMA LeasesFitAlways == Spec => []LeasesFit
<1> USE ConstantsAssumption DEF Actors, leaseVars, osVars, LeasesFit,
        LiveProxyLeased
<1>1. Init => LeasesFit
  BY DEF Init
<1>2. TypeOK /\ LeasesFit /\ [Next]_vars => LeasesFit'
  <2> SUFFICES ASSUME TypeOK, LeasesFit, [Next]_vars PROVE LeasesFit'
    OBVIOUS
  <2> USE DEF TypeOK, Goto, Looping
  <2>1. ASSUME NEW p \in Proxies, RequestStarted(p) PROVE LeasesFit'
    BY <2>1 DEF RequestStarted
  <2>2. ASSUME NEW p \in Proxies, RequestFinished(p) PROVE LeasesFit'
    BY <2>2 DEF RequestFinished
  <2>3. ASSUME NEW p \in Proxies, Elapse(p) \/ Finish(p) PROVE LeasesFit'
    BY <2>3 DEF Elapse, Finish
  <2>23. ASSUME NEW p \in Proxies, EventLoopRaises(p) PROVE LeasesFit'
    <3>1. /\ pc' = pc /\ leased' = leased /\ inFlight' = inFlight
          /\ checkout' = checkout /\ detached' = detached
      BY <2>23 DEF EventLoopRaises
    <3>2. /\ \A q \in Proxies \ {p} : pending'[q] = pending[q]
          /\ \A q \in Proxies \ {p} : q \in failed' <=> q \in failed
          /\ pending'[p] \in Nat /\ pending'[p] <= pending[p]
      BY <2>23 DEF EventLoopRaises
    <3>3. pc[p] # "down"
      BY <2>23 DEF EventLoopRaises
    <3>4. CASE p \in leased
      <4>1. "lockTimeout" \in Faults
        BY <2>23, <3>4 DEF EventLoopRaises, UpdateRaises
      <4>2. QED
        BY <3>1, <3>2, <3>3, <4>1
    <3>5. CASE p \notin leased
      <4>1. p \in detached \/ checkout = "remade"
        BY <3>3, <3>5
      <4>2. QED
        BY <3>1, <3>2, <3>3, <4>1
    <3>6. QED
      BY <3>4, <3>5
  <2>4. ASSUME NEW p \in Proxies, Spawn(p) PROVE LeasesFit'
    BY <2>4 DEF Spawn
  <2>5. ASSUME NEW p \in Proxies, CloseLease(p) PROVE LeasesFit'
    BY <2>5 DEF CloseLease
  <2>6. ASSUME NEW p \in Proxies,
               \/ EnsureBackend(p) \/ LockTimeout(p) \/ VerifyIdentity(p)
               \/ StartLock(p)
        PROVE LeasesFit'
    BY <2>6 DEF EnsureBackend, LockTimeout, VerifyIdentity, StartLock
  <2>7. ASSUME NEW p \in Proxies, Inspect(p) PROVE LeasesFit'
    BY <2>7 DEF Inspect
  <2>8. ASSUME NEW p \in Proxies,
               GiveUp(p) \/ ProbeSucceeds(p) \/ Promote(p)
        PROVE LeasesFit'
    BY <2>8 DEF GiveUp, ProbeSucceeds, Promote, Returned
  <2>9. ASSUME NEW p \in Proxies,
               ProbeFails(p) \/ Settle(p) \/ LaunchFails(p)
        PROVE LeasesFit'
    BY <2>9 DEF ProbeFails, Settle, LaunchFails, Raise
  <2>10. ASSUME NEW p \in Proxies, Launch(p) PROVE LeasesFit'
    BY <2>10 DEF Launch, Booting
  <2>11. ASSUME NEW p \in Proxies, LaunchOrphan(p) PROVE LeasesFit'
    BY <2>11 DEF LaunchOrphan, Booting
  <2>12. ASSUME NEW p \in Proxies, EnsureWatchdog(p) PROVE LeasesFit'
    BY <2>12 DEF EnsureWatchdog
  <2>13. ASSUME NEW p \in Proxies, WatchdogUnrecorded(p) PROVE LeasesFit'
    BY <2>13 DEF WatchdogUnrecorded
  <2>14. ASSUME NEW w \in Watchdogs,
               WatchdogLock(w) \/ WatchdogTimeout(w)
        PROVE LeasesFit'
    BY <2>14 DEF WatchdogLock, WatchdogTimeout
  <2>15. ASSUME NEW w \in Watchdogs, WatchdogLeaves(w) PROVE LeasesFit'
    BY <2>15 DEF WatchdogLeaves
  <2>16. ASSUME NEW w \in Watchdogs, WatchdogDecides(w) PROVE LeasesFit'
    BY <2>16 DEF WatchdogDecides, LiveLease
  <2>17. ASSUME NEW a \in Actors, Kill(a) PROVE LeasesFit'
    BY <2>17 DEF Kill, StopFailed
  <2>18. ASSUME NEW a \in Actors, AwaitExit(a) PROVE LeasesFit'
    BY <2>18 DEF AwaitExit, Stopped, StopFailed
  <2>19. ASSUME NEW a \in Actors, Crash(a) PROVE LeasesFit'
    BY <2>19 DEF Crash
  <2>20. ASSUME NEW b \in Pids,
               Boots(b) \/ Exits(b) \/ Recycled(b)
        PROVE LeasesFit'
    BY <2>20 DEF Boots, Exits, Recycled
  <2>21. ASSUME RemoveCheckout \/ RemoveClone \/ UNCHANGED vars PROVE LeasesFit'
    BY <2>21 DEF RemoveCheckout, RemoveClone, CwdsDetach, vars
  <2>22. QED
    BY <2>1, <2>2, <2>3, <2>4, <2>5, <2>6, <2>7, <2>8, <2>9, <2>10, <2>11,
       <2>12, <2>13, <2>14, <2>15, <2>16, <2>17, <2>18, <2>19, <2>20, <2>21, <2>23
       DEF Next, ProxyStep, WatchdogStep
<1>3. QED
  BY <1>1, <1>2, TypeCorrect, PTL DEF Spec

\* A running proxy that can be recognised keeps its lease, and the lease counts
\* its open requests: exactly them unless an update times out, and even then
\* never fewer (LiveProxyLeased).
THEOREM LiveProxiesAreLeased == Spec => []LiveProxyLeased
<1>1. LeasesFit => LiveProxyLeased
  BY DEF LeasesFit
<1>2. QED
  BY <1>1, LeasesFitAlways, PTL

\* No request is open while a watchdog stops the backend of a checkout that
\* still exists (NoIdleStopUnderLoad).
THEOREM NoLoadedBackendIsStopped == Spec => []NoIdleStopUnderLoad
<1> USE ConstantsAssumption DEF Actors, Critical, ProxyLabels, WatchdogLabels,
        leaseVars, osVars, NoIdleStopUnderLoad
<1>1. Init => NoIdleStopUnderLoad
  BY DEF Init
<1>2. /\ TypeOK /\ LockDiscipline /\ LeasesFit
      /\ NoIdleStopUnderLoad /\ [Next]_vars
      => NoIdleStopUnderLoad'
  <2> SUFFICES ASSUME TypeOK, LockDiscipline, LeasesFit, NoIdleStopUnderLoad,
                      [Next]_vars
               PROVE NoIdleStopUnderLoad'
    OBVIOUS
  <2> USE DEF TypeOK, LockDiscipline, Goto, LockFree
  <2>1. ASSUME NEW p \in Proxies, RequestStarted(p) PROVE NoIdleStopUnderLoad'
    BY <2>1 DEF RequestStarted
  <2>2. ASSUME NEW p \in Proxies,
               RequestFinished(p)
        PROVE NoIdleStopUnderLoad'
    BY <2>2 DEF RequestFinished
  <2>3. ASSUME NEW p \in Proxies,
               EventLoopRaises(p) \/ Elapse(p) \/ Finish(p)
        PROVE NoIdleStopUnderLoad'
    BY <2>3 DEF EventLoopRaises, Elapse, Finish
  <2>4. ASSUME NEW p \in Proxies, Spawn(p) PROVE NoIdleStopUnderLoad'
    BY <2>4 DEF Spawn
  <2>5. ASSUME NEW p \in Proxies, CloseLease(p) PROVE NoIdleStopUnderLoad'
    BY <2>5 DEF CloseLease
  <2>6. ASSUME NEW p \in Proxies,
               \/ EnsureBackend(p) \/ LockTimeout(p) \/ VerifyIdentity(p)
               \/ StartLock(p)
        PROVE NoIdleStopUnderLoad'
    BY <2>6 DEF EnsureBackend, LockTimeout, VerifyIdentity, StartLock
  <2>7. ASSUME NEW p \in Proxies, Inspect(p) PROVE NoIdleStopUnderLoad'
    BY <2>7 DEF Inspect
  <2>8. ASSUME NEW p \in Proxies,
               GiveUp(p) \/ ProbeSucceeds(p) \/ Promote(p)
        PROVE NoIdleStopUnderLoad'
    BY <2>8 DEF GiveUp, ProbeSucceeds, Promote, Returned
  <2>9. ASSUME NEW p \in Proxies,
               ProbeFails(p) \/ Settle(p) \/ LaunchFails(p)
        PROVE NoIdleStopUnderLoad'
    BY <2>9 DEF ProbeFails, Settle, LaunchFails, Raise
  <2>10. ASSUME NEW p \in Proxies, Launch(p) PROVE NoIdleStopUnderLoad'
    BY <2>10 DEF Launch, Booting
  <2>11. ASSUME NEW p \in Proxies, LaunchOrphan(p) PROVE NoIdleStopUnderLoad'
    BY <2>11 DEF LaunchOrphan, Booting
  <2>12. ASSUME NEW p \in Proxies,
               EnsureWatchdog(p)
        PROVE NoIdleStopUnderLoad'
    BY <2>12 DEF EnsureWatchdog
  <2>13. ASSUME NEW p \in Proxies,
               WatchdogUnrecorded(p)
        PROVE NoIdleStopUnderLoad'
    BY <2>13 DEF WatchdogUnrecorded
  <2>14. ASSUME NEW w \in Watchdogs,
               WatchdogLock(w) \/ WatchdogTimeout(w)
        PROVE NoIdleStopUnderLoad'
    BY <2>14 DEF WatchdogLock, WatchdogTimeout
  <2>15. ASSUME NEW w \in Watchdogs,
               WatchdogLeaves(w)
        PROVE NoIdleStopUnderLoad'
    BY <2>15 DEF WatchdogLeaves
  <2>16. ASSUME NEW w \in Watchdogs,
               WatchdogDecides(w)
        PROVE NoIdleStopUnderLoad'
    BY <2>16 DEF WatchdogDecides, StopDue, LiveLease, Due, LeasesFit,
            LiveProxyLeased
  <2>17. ASSUME NEW a \in Actors, Kill(a) PROVE NoIdleStopUnderLoad'
    BY <2>17 DEF Kill, StopFailed
  <2>18. ASSUME NEW a \in Actors, AwaitExit(a) PROVE NoIdleStopUnderLoad'
    BY <2>18 DEF AwaitExit, Stopped, StopFailed
  <2>19. ASSUME NEW a \in Actors, Crash(a) PROVE NoIdleStopUnderLoad'
    BY <2>19 DEF Crash
  <2>20. ASSUME NEW b \in Pids,
               Boots(b) \/ Exits(b) \/ Recycled(b)
        PROVE NoIdleStopUnderLoad'
    BY <2>20 DEF Boots, Exits, Recycled
  <2>21. ASSUME RemoveCheckout \/ RemoveClone \/ UNCHANGED vars PROVE NoIdleStopUnderLoad'
    BY <2>21 DEF RemoveCheckout, RemoveClone, CwdsDetach, vars
  <2>22. QED
    BY <2>1, <2>2, <2>3, <2>4, <2>5, <2>6, <2>7, <2>8, <2>9, <2>10, <2>11,
       <2>12, <2>13, <2>14, <2>15, <2>16, <2>17, <2>18, <2>19, <2>20, <2>21
       DEF Next, ProxyStep, WatchdogStep
<1>3. QED
  BY <1>1, <1>2, TypeCorrect, MutualExclusion, LeasesFitAlways, PTL DEF Spec

-----------------------------------------------------------------------------

\* What Serena processes there are is what the record says (OneBackend), as
\* long as no proxy is killed between Popen and the write of the record, and
\* processes in a deleted directory are still recognised, and no clone is
\* deleted with its record.
THEOREM OneBackendAtMost ==
    ASSUME Faults \cap {"orphan", "cloneRemoved"} = {}, ~CwdDetaches
    PROVE  Spec => []OneBackend
<1> DEFINE Inv == detached = {} /\ OneBackend
<1> USE ConstantsAssumption DEF Actors, Critical, Record, PidStates,
        SerenaStates, ProxyLabels, WatchdogLabels, NoRecord, leaseVars, osVars,
        OneBackend, IsSerena
<1>1. Init => Inv
  BY DEF Init
<1>2. TypeOK /\ LockDiscipline /\ RecordFits /\ Inv /\ [Next]_vars => Inv'
  <2> SUFFICES ASSUME TypeOK, LockDiscipline, RecordFits, Inv, [Next]_vars
               PROVE Inv'
    OBVIOUS
  <2> USE DEF TypeOK, LockDiscipline, RecordFits, Goto, LockFree
  <2>1. ASSUME NEW p \in Proxies, RequestStarted(p) PROVE Inv'
    BY <2>1 DEF RequestStarted
  <2>2. ASSUME NEW p \in Proxies, RequestFinished(p) PROVE Inv'
    BY <2>2 DEF RequestFinished
  <2>3. ASSUME NEW p \in Proxies,
               EventLoopRaises(p) \/ Elapse(p) \/ Finish(p)
        PROVE Inv'
    BY <2>3 DEF EventLoopRaises, Elapse, Finish
  <2>4. ASSUME NEW p \in Proxies, Spawn(p) PROVE Inv'
    BY <2>4 DEF Spawn
  <2>5. ASSUME NEW p \in Proxies, CloseLease(p) PROVE Inv'
    BY <2>5 DEF CloseLease
  <2>6. ASSUME NEW p \in Proxies,
               \/ EnsureBackend(p) \/ LockTimeout(p) \/ VerifyIdentity(p)
               \/ StartLock(p)
        PROVE Inv'
    BY <2>6 DEF EnsureBackend, LockTimeout, VerifyIdentity, StartLock
  <2>7. ASSUME NEW p \in Proxies, Inspect(p) PROVE Inv'
    BY <2>7 DEF Inspect, Alive, Owned
  <2>8. ASSUME NEW p \in Proxies,
               GiveUp(p) \/ ProbeSucceeds(p) \/ Promote(p)
        PROVE Inv'
    BY <2>8 DEF GiveUp, ProbeSucceeds, Promote, Returned
  <2>9. ASSUME NEW p \in Proxies,
               ProbeFails(p) \/ Settle(p) \/ LaunchFails(p)
        PROVE Inv'
    BY <2>9 DEF ProbeFails, Settle, LaunchFails, Raise, Owned, Alive
  <2>10. ASSUME NEW p \in Proxies, Launch(p) PROVE Inv'
    BY <2>10 DEF Launch, Booting
  <2>11. ASSUME NEW p \in Proxies, LaunchOrphan(p) PROVE Inv'
    BY <2>11 DEF LaunchOrphan, Booting
  <2>12. ASSUME NEW p \in Proxies, EnsureWatchdog(p) PROVE Inv'
    BY <2>12 DEF EnsureWatchdog
  <2>13. ASSUME NEW p \in Proxies, WatchdogUnrecorded(p) PROVE Inv'
    BY <2>13 DEF WatchdogUnrecorded
  <2>14. ASSUME NEW w \in Watchdogs,
               WatchdogLock(w) \/ WatchdogTimeout(w)
        PROVE Inv'
    BY <2>14 DEF WatchdogLock, WatchdogTimeout
  <2>15. ASSUME NEW w \in Watchdogs, WatchdogLeaves(w) PROVE Inv'
    BY <2>15 DEF WatchdogLeaves, Alive
  <2>16. ASSUME NEW w \in Watchdogs, WatchdogDecides(w) PROVE Inv'
    BY <2>16 DEF WatchdogDecides, Alive, Owned
  <2>17. ASSUME NEW a \in Actors, Kill(a) PROVE Inv'
    BY <2>17 DEF Kill, StopFailed, Alive
  <2>18. ASSUME NEW a \in Actors, AwaitExit(a) PROVE Inv'
    BY <2>18 DEF AwaitExit, Stopped, StopFailed, Alive, Owned
  <2>19. ASSUME NEW a \in Actors, Crash(a) PROVE Inv'
    BY <2>19 DEF Crash
  <2>20. ASSUME NEW b \in Pids, Boots(b) \/ Exits(b) \/ Recycled(b) PROVE Inv'
    BY <2>20 DEF Boots, Exits, Recycled
  <2>21. ASSUME RemoveCheckout \/ RemoveClone \/ UNCHANGED vars PROVE Inv'
    BY <2>21 DEF RemoveCheckout, RemoveClone, CwdsDetach, vars
  <2>22. QED
    BY <2>1, <2>2, <2>3, <2>4, <2>5, <2>6, <2>7, <2>8, <2>9, <2>10, <2>11,
       <2>12, <2>13, <2>14, <2>15, <2>16, <2>17, <2>18, <2>19, <2>20, <2>21
       DEF Next, ProxyStep, WatchdogStep
<1>3. QED
  BY <1>1, <1>2, TypeCorrect, MutualExclusion, RecordFitsAlways, PTL DEF Spec
-----------------------------------------------------------------------------

\* Under the conditions of OneBackendAtMost the runtime is one shared backend
\* (ImplementsSharedBackend): every step is one of SharedBackend or changes
\* nothing that clients see.
THEOREM RuntimeIsSharedBackend ==
    ASSUME Faults \cap {"orphan", "cloneRemoved"} = {}, ~CwdDetaches
    PROVE  Spec => ImplementsSharedBackend
<1> DEFINE Inv == /\ TypeOK /\ RecordFits /\ LeasesFit
                  /\ SignalsOwnBackend /\ NoIdleStopUnderLoad /\ OneBackend
<1> USE ConstantsAssumption DEF Actors
<1>1. Init => Promise!Init
  BY DEF Init, Promise!Init, Waiting, IsSerena, SerenaStates
<1>2. Inv /\ [Next]_vars => [Promise!Next]_Promise!vars
  <2> SUFFICES ASSUME Inv, [Next]_vars
               PROVE  Promise!Next \/ UNCHANGED Promise!vars
    OBVIOUS
  <2> USE DEF Inv, TypeOK, Goto, leaseVars, osVars
  <2>1. ASSUME NEW p \in Proxies, RequestStarted(p) PROVE Promise!Begin(p)
    BY <2>1 DEF RequestStarted, Looping, Promise!Begin, Waiting, IsSerena
  <2>2. ASSUME NEW p \in Proxies, RequestFinished(p) PROVE Promise!End(p)
    BY <2>2 DEF RequestFinished, Looping, Promise!End, Waiting, IsSerena
  <2>3. ASSUME NEW p \in Proxies, EventLoopRaises(p) \/ Elapse(p)
        PROVE Promise!End(p) \/ UNCHANGED Promise!vars
    BY <2>3 DEF EventLoopRaises, Looping, Elapse, Promise!End, Promise!vars,
                Waiting, IsSerena
  <2>4. ASSUME NEW p \in Proxies, Spawn(p) PROVE Promise!Join(p)
    BY <2>4 DEF Spawn, Promise!Join, Waiting, IsSerena, LeasesFit
  <2>5. ASSUME NEW p \in Proxies, Finish(p) \/ LockTimeout(p)
        PROVE Promise!Quit(p)
    BY <2>5 DEF Finish, LockTimeout, Promise!Quit, Waiting, IsSerena
  <2>6. ASSUME NEW p \in Proxies, CloseLease(p) PROVE Promise!Leave(p)
    BY <2>6 DEF CloseLease, Promise!Leave, Waiting, IsSerena
  <2>7. ASSUME NEW p \in Proxies, EnsureBackend(p) PROVE Promise!Ask(p)
    BY <2>7 DEF EnsureBackend, Promise!Ask, Waiting, IsSerena
  <2>8. ASSUME NEW p \in Proxies,
               StartLock(p) \/ Inspect(p) \/ GiveUp(p)
        PROVE UNCHANGED Promise!vars
    BY <2>8 DEF StartLock, Inspect, GiveUp, Promise!vars, Waiting, IsSerena
  <2>9. ASSUME NEW p \in Proxies, ProbeSucceeds(p) \/ Promote(p)
        PROVE UNCHANGED Promise!vars
    BY <2>9 DEF ProbeSucceeds, Promote, Returned, Promise!vars, Waiting, IsSerena
  <2>10. ASSUME NEW p \in Proxies,
                ProbeFails(p) \/ Settle(p) \/ LaunchFails(p)
         PROVE Promise!Quit(p) \/ UNCHANGED Promise!vars
    BY <2>10 DEF ProbeFails, Settle, LaunchFails, Raise, Promise!Quit,
                 Promise!vars, Waiting, IsSerena
  <2>11. ASSUME NEW p \in Proxies, Launch(p)
         PROVE \E b \in Pids : Promise!Start(b)
    BY <2>11 DEF Launch, Booting, Promise!Start, Waiting, IsSerena,
                 SerenaStates, OneBackend, RecordFits
  <2>12. ASSUME NEW p \in Proxies, LaunchOrphan(p) PROVE FALSE
    BY <2>12 DEF LaunchOrphan
  <2>13. ASSUME NEW p \in Proxies,
                EnsureWatchdog(p) \/ WatchdogUnrecorded(p)
         PROVE Promise!Quit(p) \/ UNCHANGED Promise!vars
    BY <2>13 DEF EnsureWatchdog, WatchdogUnrecorded, Promise!Quit,
                 Promise!vars, Waiting, IsSerena
  <2>14. ASSUME NEW p \in Proxies, VerifyIdentity(p)
         PROVE Promise!Serve(p) \/ Promise!Quit(p)
    <3>1. CASE record.state = "active" /\ Owned(record.pid)
      <4>1. record.pid \in Pids
        BY <3>1 DEF RecordFits, Record
      <4>2. \E b \in Pids : IsSerena(b)
        BY <3>1, <4>1 DEF Owned
      <4>3. QED
        BY <2>14, <3>1, <4>2 DEF VerifyIdentity, Promise!Serve, Waiting, IsSerena
    <3>2. CASE ~(record.state = "active" /\ Owned(record.pid))
      BY <2>14, <3>2 DEF VerifyIdentity, Promise!Quit, Waiting, IsSerena
    <3>3. QED
      BY <3>1, <3>2
  <2>15. ASSUME NEW w \in Watchdogs,
                \/ WatchdogLock(w) \/ WatchdogTimeout(w)
                \/ WatchdogLeaves(w) \/ WatchdogDecides(w)
         PROVE UNCHANGED Promise!vars
    BY <2>15 DEF WatchdogLock, WatchdogTimeout, WatchdogLeaves, WatchdogDecides,
                 Promise!vars, Waiting, IsSerena
  <2>16. ASSUME NEW a \in Actors, Kill(a)
         PROVE Promise!Next \/ UNCHANGED Promise!vars
    <3>1. CASE Alive(record.pid)
      <4>1. /\ record.pid \in Pids /\ IsSerena(record.pid)
            /\ pstate' = [pstate EXCEPT ![record.pid] = "stopping"]
            /\ pc' = [pc EXCEPT ![a] = "await"]
            /\ UNCHANGED <<pending, checkout>>
        BY <2>16, <3>1 DEF Kill, Alive, IsSerena, SignalsOwnBackend, PidStates,
                           SerenaStates
      <4>2. \/ \A p \in Proxies : pending[p] = 0
            \/ checkout # "there"
            \/ \E p \in Proxies : pc[p] = "kill"
        BY <2>16 DEF Kill, NoIdleStopUnderLoad
      <4>3. \E b \in Pids : Promise!Tell(b)
        BY <2>16, <4>1, <4>2 DEF Kill, Promise!Tell, Waiting, IsSerena,
                                 SerenaStates
      <4>4. QED
        BY <4>3 DEF Promise!Next
    <3>2. CASE ~Alive(record.pid) /\ a \in Proxies
      <4>1. Promise!Quit(a)
        BY <2>16, <3>2 DEF Kill, StopFailed, Promise!Quit, Waiting, IsSerena
      <4>2. QED
        BY <3>2, <4>1 DEF Promise!Next
    <3>3. CASE ~Alive(record.pid) /\ a \in Watchdogs
      BY <2>16, <3>3 DEF Kill, StopFailed, Promise!vars, Waiting, IsSerena
    <3>4. QED
      BY <3>1, <3>2, <3>3
  <2>17. ASSUME NEW a \in Actors, AwaitExit(a)
         PROVE Promise!Next \/ UNCHANGED Promise!vars
    <3>1. CASE a \in Proxies
      <4>1. Promise!Quit(a) \/ UNCHANGED Promise!vars
        BY <2>17, <3>1 DEF AwaitExit, Stopped, StopFailed, Promise!Quit,
                           Promise!vars, Waiting, IsSerena
      <4>2. QED
        BY <3>1, <4>1 DEF Promise!Next
    <3>2. CASE a \in Watchdogs
      BY <2>17, <3>2 DEF AwaitExit, Stopped, StopFailed, Promise!vars, Waiting,
                         IsSerena
    <3>3. QED
      BY <3>1, <3>2
  <2>18. ASSUME NEW a \in Actors, Crash(a)
         PROVE Promise!Next \/ UNCHANGED Promise!vars
    <3>1. CASE a \in Proxies
      <4>1. Promise!Leave(a)
        BY <2>18, <3>1 DEF Crash, Promise!Leave, Waiting, IsSerena
      <4>2. QED
        BY <3>1, <4>1 DEF Promise!Next
    <3>2. CASE a \in Watchdogs
      BY <2>18, <3>2 DEF Crash, Promise!vars, Waiting, IsSerena
    <3>3. QED
      BY <3>1, <3>2
  <2>19. ASSUME NEW b \in Pids, Boots(b) \/ Recycled(b)
         PROVE UNCHANGED Promise!vars
    BY <2>19 DEF Boots, Recycled, Promise!vars, Waiting, IsSerena, SerenaStates
  <2>20. ASSUME NEW b \in Pids, Exits(b)
         PROVE Promise!Exit(b) \/ UNCHANGED Promise!vars
    BY <2>20 DEF Exits, Promise!Exit, Promise!vars, Waiting, IsSerena,
                 SerenaStates
  <2>21. ASSUME RemoveCheckout \/ RemoveClone PROVE Promise!RemoveCheckout
    BY <2>21 DEF RemoveCheckout, RemoveClone, Promise!RemoveCheckout, Waiting,
                 IsSerena
  <2>22. ASSUME UNCHANGED vars PROVE UNCHANGED Promise!vars
    BY <2>22 DEF vars, Promise!vars, Waiting, IsSerena
  <2>23. QED
    BY <2>1, <2>2, <2>3, <2>4, <2>5, <2>6, <2>7, <2>8, <2>9, <2>10, <2>11,
       <2>12, <2>13, <2>14, <2>15, <2>16, <2>17, <2>18, <2>19, <2>20, <2>21,
       <2>22
       DEF Next, ProxyStep, WatchdogStep, Promise!Next
<1>3. Spec => []Inv
  BY TypeCorrect, RecordFitsAlways, LeasesFitAlways, SignalsOnlyOwn,
     NoLoadedBackendIsStopped, OneBackendAtMost, PTL DEF Inv
<1>4. QED
  BY <1>1, <1>2, <1>3, PTL DEF Spec, ImplementsSharedBackend, Promise!Spec
-----------------------------------------------------------------------------

\* A promoted backend is watched (ActiveIsWatched) under any faults but those
\* that stop a watchdog, or a proxy on its way to start one.  The watchdog of
\* the record runs, for it only ever ends together with the record.
THEOREM ActiveBackendsAreWatched ==
    ASSUME Faults \cap {"lockTimeout", "crashStarting", "watchdogDies"} = {},
           ~CwdDetaches
    PROVE  Spec => []ActiveIsWatched
<1> DEFINE Inv ==
        /\ detached = {}
        /\ record.watchdog # Nobody => pc[record.watchdog] # "down"
        /\ record.state = "active" =>
               record.watchdog # Nobody \/ \E p \in Proxies : pc[p] = "watch"
<1> USE ConstantsAssumption DEF Actors, Critical, Record, ProxyLabels,
        WatchdogLabels, NoRecord, leaseVars, osVars
<1>1. Init => Inv
  BY DEF Init
<1>2. TypeOK /\ LockDiscipline /\ RecordFits /\ Inv /\ [Next]_vars => Inv'
  <2> SUFFICES ASSUME TypeOK, LockDiscipline, RecordFits, Inv, [Next]_vars
               PROVE Inv'
    OBVIOUS
  <2> USE DEF TypeOK, LockDiscipline, RecordFits, Goto, LockFree
  <2>1. ASSUME NEW p \in Proxies,
               \/ RequestStarted(p) \/ RequestFinished(p) \/ EventLoopRaises(p)
               \/ Elapse(p) \/ Spawn(p) \/ Finish(p) \/ CloseLease(p)
        PROVE Inv'
    BY <2>1 DEF RequestStarted, RequestFinished, EventLoopRaises, Elapse, Spawn,
                Finish, CloseLease
  <2>2. ASSUME NEW p \in Proxies,
               \/ EnsureBackend(p) \/ LockTimeout(p) \/ VerifyIdentity(p)
               \/ StartLock(p)
        PROVE Inv'
    BY <2>2 DEF EnsureBackend, LockTimeout, VerifyIdentity, StartLock
  <2>3. ASSUME NEW p \in Proxies, Inspect(p) PROVE Inv'
    BY <2>3 DEF Inspect
  <2>4. ASSUME NEW p \in Proxies, GiveUp(p) PROVE Inv'
    BY <2>4 DEF GiveUp
  <2>5. ASSUME NEW p \in Proxies, ProbeSucceeds(p) \/ Promote(p) PROVE Inv'
    BY <2>5 DEF ProbeSucceeds, Promote, Returned, LiveWatchdog
  <2>6. ASSUME NEW p \in Proxies,
               ProbeFails(p) \/ Settle(p) \/ LaunchFails(p)
        PROVE Inv'
    BY <2>6 DEF ProbeFails, Settle, LaunchFails, Raise
  <2>7. ASSUME NEW p \in Proxies, Launch(p) PROVE Inv'
    BY <2>7 DEF Launch, Booting
  <2>8. ASSUME NEW p \in Proxies, LaunchOrphan(p) PROVE Inv'
    BY <2>8 DEF LaunchOrphan, Booting
  <2>9. ASSUME NEW p \in Proxies, EnsureWatchdog(p) PROVE Inv'
    BY <2>9 DEF EnsureWatchdog, LiveWatchdog
  <2>10. ASSUME NEW p \in Proxies, WatchdogUnrecorded(p) PROVE Inv'
    BY <2>10 DEF WatchdogUnrecorded
  <2>11. ASSUME NEW w \in Watchdogs, WatchdogLock(w) \/ WatchdogTimeout(w)
         PROVE Inv'
    BY <2>11 DEF WatchdogLock, WatchdogTimeout
  <2>12. ASSUME NEW w \in Watchdogs, WatchdogLeaves(w) PROVE Inv'
    BY <2>12 DEF WatchdogLeaves
  <2>13. ASSUME NEW w \in Watchdogs, WatchdogDecides(w) PROVE Inv'
    BY <2>13 DEF WatchdogDecides
  <2>14. ASSUME NEW a \in Actors, Kill(a) PROVE Inv'
    BY <2>14 DEF Kill, StopFailed, Alive
  <2>15. ASSUME NEW a \in Actors, AwaitExit(a) PROVE Inv'
    BY <2>15 DEF AwaitExit, Stopped, StopFailed
  <2>16. ASSUME NEW a \in Actors, Crash(a) PROVE Inv'
    BY <2>16 DEF Crash
  <2>17. ASSUME NEW b \in Pids, Boots(b) \/ Exits(b) \/ Recycled(b) PROVE Inv'
    BY <2>17 DEF Boots, Exits, Recycled
  <2>18. ASSUME RemoveCheckout \/ RemoveClone \/ UNCHANGED vars PROVE Inv'
    BY <2>18 DEF RemoveCheckout, RemoveClone, CwdsDetach, vars
  <2>19. QED
    BY <2>1, <2>2, <2>3, <2>4, <2>5, <2>6, <2>7, <2>8, <2>9, <2>10, <2>11,
       <2>12, <2>13, <2>14, <2>15, <2>16, <2>17, <2>18
       DEF Next, ProxyStep, WatchdogStep
<1>3. Inv => ActiveIsWatched
  BY DEF ActiveIsWatched, LiveWatchdog
<1>4. QED
  BY <1>1, <1>2, <1>3, TypeCorrect, MutualExclusion, RecordFitsAlways,
     PTL DEF Spec

=============================================================================
