------------------------------ MODULE IdleProofs ------------------------------
(* Theorems about Idle, for any proxies, timeouts, polls and clock settings. *)
EXTENDS Idle, TLAPS

\* The lease of a running proxy exists and its time is that of its last
\* activity, but for what the clock was set.
LeasesFit ==
    \A p \in live :
        /\ lease[p].last >= activeAt[p] - lost
        /\ lease[p].last <= activeAt[p] + gained
        /\ activeAt[p] <= uptime

\* The last poll, at nextPoll - Poll, found a reason not to stop, unless a
\* proxy has ended since; the next one is not missed.
PollsFit ==
    ~stopped =>
        /\ uptime <= nextPoll /\ nextPoll <= uptime + Poll
        /\ \/ nextPoll <= leftAt + Poll
           \/ \E p \in live :
                 \/ lease[p].inFlight > 0
                 \/ nextPoll < activeAt[p] + lease[p].timeout + Poll + lost

\* What status said is what the leases, unchanged since, still say: the latest
\* expiry, or the time of the question, whichever is later; and no poll since
\* has come later than that.
ForecastFits ==
    ~stopped =>
        /\ forecast = Busy => \E p \in live : lease[p].inFlight # 0
        /\ forecast \in Int =>
              /\ \A p \in live :
                    lease[p].inFlight = 0 /\ ExpiresAt(p) <= forecast
              /\ \/ \E p \in live : ExpiresAt(p) = forecast
                 \/ forecast <= Now
              /\ nextPoll - Poll + gained - lost <= forecast

\* The state keeps its types (TypeOK).
THEOREM IdleTypeCorrect == Spec => []TypeOK
<1> USE IdleAssumption DEF TypeOK, timeVars, Changed, Touches
<1>1. Now \in Int \/ ~TypeOK
  BY DEF Now
<1>2. Init => TypeOK
  <2> SUFFICES ASSUME Init PROVE TypeOK
    OBVIOUS
  <2>1. [timeout: Timeouts, last: {0}, inFlight: {0}] \subseteq Lease
    BY DEF Lease
  <2>2. lease \in [Proxies -> Lease]
    BY <2>1 DEF Init
  <2>3. QED
    BY <2>2 DEF Init
<1>3. TypeOK /\ [Next]_vars => TypeOK'
  <2> SUFFICES ASSUME TypeOK, [Next]_vars PROVE TypeOK'
    OBVIOUS
  <2>1. ASSUME NEW p \in Proxies, NEW timeout \in Timeouts,
               CreateLease(p, timeout)
        PROVE TypeOK'
    BY <1>1, <2>1 DEF CreateLease, Lease
  <2>2. ASSUME NEW p \in Proxies, RequestStarted(p) \/ RequestFinished(p)
        PROVE TypeOK'
    <3>1. lease' \in [Proxies -> Lease]
      BY <1>1, <2>2 DEF RequestStarted, RequestFinished, Lease
    <3>2. QED
      BY <2>2, <3>1 DEF RequestStarted, RequestFinished
  <2>3. ASSUME NEW p \in Proxies, Ends(p) PROVE TypeOK'
    BY <2>3 DEF Ends
  <2>4. ASSUME Polls PROVE TypeOK'
    <3>1. leased' = leased \cap live
      BY <2>4 DEF Polls, Inspected
    <3>2. stopped' \in BOOLEAN /\ nextPoll' \in Nat
      <4>1. CASE Due /\ stopped' = TRUE /\ UNCHANGED nextPoll
        BY <4>1
      <4>2. CASE ~Due /\ nextPoll' = uptime + Poll /\ UNCHANGED stopped
        BY <4>2
      <4>3. QED
        BY <2>4, <4>1, <4>2 DEF Polls
    <3>3. lease' = lease /\ live' = live /\ uptime' = uptime /\ gained' = gained
          /\ lost' = lost /\ activeAt' = activeAt /\ leftAt' = leftAt
          /\ forecast' = forecast
      BY <2>4 DEF Polls
    <3>4. QED
      BY <3>1, <3>2, <3>3
  <2>5. ASSUME Status PROVE TypeOK'
    <3>1. ASSUME NEW p \in Inspected PROVE NoEarlier(ExpiresAt(p)) \in Int
      <4>1. lease[p] \in Lease
        BY DEF Inspected
      <4>2. lease[p].last \in Int /\ lease[p].timeout \in Nat
        BY <4>1 DEF Lease
      <4>3. ExpiresAt(p) \in Int
        BY <4>2 DEF ExpiresAt
      <4>4. QED
        BY <4>3, <1>1 DEF NoEarlier
    <3>2. forecast' \in Int \cup {NoForecast, Busy}
      BY <2>5, <3>1 DEF Status, Forecast
    <3>3. QED
      BY <2>5, <3>2 DEF Status
  <2>6. ASSUME Tick \/ SetForward \/ SetBack PROVE TypeOK'
    BY <2>6 DEF Tick, SetForward, SetBack
  <2>7. ASSUME UNCHANGED vars PROVE TypeOK'
    BY <2>7 DEF vars
  <2>8. QED
    BY <2>1, <2>2, <2>3, <2>4, <2>5, <2>6, <2>7 DEF Next
<1>4. QED
  BY <1>2, <1>3, PTL DEF Spec

LEMMA LeasesFitAlways == Spec => []LeasesFit
<1> USE IdleAssumption DEF LeasesFit, TypeOK, Lease, timeVars, Now, Changed,
                           Touches
<1>1. Init => LeasesFit
  BY DEF Init
<1>2. TypeOK /\ LeasesFit /\ [Next]_vars => LeasesFit'
  <2> SUFFICES ASSUME TypeOK, LeasesFit, [Next]_vars PROVE LeasesFit'
    OBVIOUS
  <2>1. ASSUME NEW p \in Proxies, NEW timeout \in Timeouts,
               CreateLease(p, timeout)
        PROVE LeasesFit'
    BY <2>1 DEF CreateLease
  <2>2. ASSUME NEW p \in Proxies, RequestStarted(p) PROVE LeasesFit'
    BY <2>2 DEF RequestStarted
  <2>3. ASSUME NEW p \in Proxies, RequestFinished(p) PROVE LeasesFit'
    BY <2>3 DEF RequestFinished
  <2>4. ASSUME NEW p \in Proxies, Ends(p) PROVE LeasesFit'
    BY <2>4 DEF Ends
  <2>5. ASSUME Polls \/ Status PROVE LeasesFit'
    BY <2>5 DEF Polls, Status
  <2>6. ASSUME Tick \/ SetForward \/ SetBack PROVE LeasesFit'
    BY <2>6 DEF Tick, SetForward, SetBack
  <2>7. ASSUME UNCHANGED vars PROVE LeasesFit'
    BY <2>7 DEF vars
  <2>8. QED
    BY <2>1, <2>2, <2>3, <2>4, <2>5, <2>6, <2>7 DEF Next
<1>3. QED
  BY <1>1, <1>2, IdleTypeCorrect, PTL DEF Spec

\* No backend is stopped early (NeverEarly).
THEOREM NeverStoppedEarly == Spec => NeverEarly
<1>1. TypeOK /\ LeasesFit /\ [Next]_vars =>
          [Stops => \A p \in live :
                        /\ lease[p].inFlight = 0
                        /\ uptime - activeAt[p] >= lease[p].timeout - gained]_vars
  <2> SUFFICES ASSUME TypeOK, LeasesFit, [Next]_vars, Stops, NEW p \in live
               PROVE  /\ lease[p].inFlight = 0
                      /\ uptime - activeAt[p] >= lease[p].timeout - gained
    OBVIOUS
  <2>1. Polls
    BY DEF Next, Stops, CreateLease, RequestStarted, RequestFinished, Ends,
           Status, Tick, SetForward, SetBack, vars
  <2>2. Due
    BY <2>1 DEF Polls, Stops
  <2>3. lease[p].inFlight = 0 /\ Now - lease[p].last >= lease[p].timeout
    BY <2>2 DEF Due, Inspected, TypeOK
  <2>4. lease[p] \in Lease /\ activeAt[p] \in Nat
    BY DEF TypeOK
  <2>5. lease[p].last \in Int /\ lease[p].timeout \in Nat
    BY <2>4, IdleAssumption DEF Lease
  <2>6. lease[p].last >= activeAt[p] - lost
    BY DEF LeasesFit
  <2>7. QED
    BY <2>3, <2>4, <2>5, <2>6 DEF Now, TypeOK
<1>2. QED
  BY <1>1, IdleTypeCorrect, LeasesFitAlways, PTL DEF Spec, NeverEarly

LEMMA PollsFitAlways == Spec => []PollsFit
<1> USE IdleAssumption DEF LeasesFit, TypeOK, Lease, timeVars, Now, Changed,
                           Touches, Inspected
<1>1. Init => PollsFit
  BY DEF Init, PollsFit
<1>2. TypeOK /\ TypeOK' /\ LeasesFit /\ PollsFit /\ [Next]_vars => PollsFit'
  <2> SUFFICES ASSUME TypeOK, TypeOK', LeasesFit, PollsFit, [Next]_vars, ~stopped'
               PROVE PollsFit'
    BY DEF PollsFit
  <2> USE DEF PollsFit
  <2>1. ASSUME NEW p \in Proxies, NEW timeout \in Timeouts,
               CreateLease(p, timeout)
        PROVE PollsFit'
    BY <2>1 DEF CreateLease
  <2>2. ASSUME NEW p \in Proxies, RequestStarted(p) PROVE PollsFit'
    BY <2>2 DEF RequestStarted
  <2>3. ASSUME NEW p \in Proxies, RequestFinished(p) PROVE PollsFit'
    <3>1. lease'[p].last = Now /\ activeAt'[p] = uptime /\ p \in live'
      BY <2>3 DEF RequestFinished
    <3>2. lease'[p].timeout = lease[p].timeout /\ lease[p].timeout \in Nat \ {0}
      BY <2>3 DEF RequestFinished
    <3>3. /\ uptime <= nextPoll /\ nextPoll <= uptime + Poll
          /\ UNCHANGED <<uptime, nextPoll, leftAt, lost>>
          /\ live' = live
      BY <2>3 DEF RequestFinished
    <3>4. CASE nextPoll <= leftAt + Poll
      BY <3>3, <3>4
    <3>5. CASE \E q \in live : lease[q].inFlight > 0 \/
                    nextPoll < activeAt[q] + lease[q].timeout + Poll + lost
      <4>1. PICK q \in live : lease[q].inFlight > 0 \/
                    nextPoll < activeAt[q] + lease[q].timeout + Poll + lost
        BY <3>5
      <4>2. CASE q = p
        <5>1. nextPoll' < activeAt'[p] + lease'[p].timeout + Poll + lost'
          BY <3>1, <3>2, <3>3
        <5>2. QED
          BY <3>1, <3>3, <5>1
      <4>3. CASE q # p
        <5>1. lease'[q] = lease[q] /\ activeAt'[q] = activeAt[q]
          BY <2>3, <4>3 DEF RequestFinished
        <5>2. QED
          BY <3>3, <4>1, <5>1
      <4>4. QED
        BY <4>2, <4>3
    <3>6. QED
      BY <2>3, <3>4, <3>5 DEF RequestFinished
  <2>4. ASSUME NEW p \in Proxies, Ends(p) PROVE PollsFit'
    BY <2>4 DEF Ends
  <2>5. ASSUME Polls PROVE PollsFit'
    <3>1. ~Due /\ nextPoll' = uptime + Poll
      BY <2>5 DEF Polls
    <3>2. PICK p \in leased \cap live :
            ~(lease[p].inFlight = 0 /\ Now - lease[p].last >= lease[p].timeout)
      BY <3>1 DEF Due
    <3>3. lease[p] \in Lease /\ activeAt[p] \in Nat
      BY <3>2
    <3>4. lease[p].inFlight \in Nat /\ lease[p].last \in Int /\ lease[p].timeout \in Nat
      BY <3>3
    <3>5. lease[p].last <= activeAt[p] + gained
      BY <3>2
    <3>6. \/ lease[p].inFlight > 0
          \/ nextPoll' < activeAt[p] + lease[p].timeout + Poll + lost
      BY <3>1, <3>2, <3>3, <3>4, <3>5
    <3>7. UNCHANGED <<uptime, live, lease, activeAt, lost>> /\ uptime <= nextPoll'
          /\ nextPoll' <= uptime + Poll
      BY <2>5, <3>1 DEF Polls
    <3>8. QED
      BY <3>2, <3>6, <3>7
  <2>6. ASSUME Status PROVE PollsFit'
    BY <2>6 DEF Status
  <2>7. ASSUME Tick PROVE PollsFit'
    BY <2>7 DEF Tick
  <2>8. ASSUME SetForward PROVE PollsFit'
    BY <2>8 DEF SetForward
  <2>9. ASSUME SetBack PROVE PollsFit'
    <3>1. /\ lost' = lost + 1 /\ ~stopped
          /\ UNCHANGED <<uptime, nextPoll, leftAt, live, lease, activeAt>>
      BY <2>9 DEF SetBack
    <3>2. CASE nextPoll <= leftAt + Poll
      BY <3>1, <3>2
    <3>3. CASE \E p \in live : lease[p].inFlight > 0 \/
                    nextPoll < activeAt[p] + lease[p].timeout + Poll + lost
      <4>1. PICK p \in live : lease[p].inFlight > 0 \/
                    nextPoll < activeAt[p] + lease[p].timeout + Poll + lost
        BY <3>3
      <4>2. lease[p] \in Lease /\ activeAt[p] \in Nat
        OBVIOUS
      <4>3. lease[p].timeout \in Nat
        BY <4>2
      <4>4. lease[p].inFlight > 0 \/
              nextPoll < activeAt[p] + lease[p].timeout + Poll + lost'
        BY <3>1, <4>1, <4>2, <4>3
      <4>5. QED
        BY <3>1, <4>4
    <3>4. QED
      BY <3>1, <3>2, <3>3
  <2>10. ASSUME UNCHANGED vars PROVE PollsFit'
    BY <2>10 DEF vars
  <2>11. QED
    BY <2>1, <2>2, <2>3, <2>4, <2>5, <2>6, <2>7, <2>8, <2>9, <2>10 DEF Next
<1>3. QED
  BY <1>1, <1>2, IdleTypeCorrect, LeasesFitAlways, PTL DEF Spec

\* No backend is stopped late (InTime).
THEOREM StoppedInTime == Spec => []InTime
<1>1. TypeOK /\ PollsFit => InTime
  <2> SUFFICES ASSUME TypeOK, PollsFit, ~stopped PROVE InTime
    BY DEF InTime
  <2>1. uptime <= nextPoll
    BY DEF PollsFit
  <2>2. CASE nextPoll <= leftAt + Poll
    BY <2>1, <2>2, IdleAssumption DEF InTime, TypeOK
  <2>3. ASSUME NEW p \in live,
               \/ lease[p].inFlight > 0
               \/ nextPoll < activeAt[p] + lease[p].timeout + Poll + lost
        PROVE InTime
    <3>1. lease[p] \in Lease /\ activeAt[p] \in Nat
      BY DEF TypeOK
    <3>2. lease[p].timeout \in Nat
      BY <3>1, IdleAssumption DEF Lease
    <3>3. \/ lease[p].inFlight > 0
          \/ uptime < activeAt[p] + lease[p].timeout + Poll + lost
      BY <2>1, <2>3, <3>1, <3>2, IdleAssumption DEF TypeOK
    <3>4. QED
      BY <3>3 DEF InTime
  <2>4. QED
    BY <2>2, <2>3 DEF PollsFit
<1>2. QED
  BY <1>1, IdleTypeCorrect, PollsFitAlways, PTL DEF Spec

\* status says what the watchdog does (ForecastKept).
THEOREM StatusForecastsTheWatchdog == Spec => ForecastKept
<1> USE IdleAssumption DEF LeasesFit, TypeOK, Lease, timeVars, Now, Changed,
                           Touches, Inspected, ExpiresAt
<1>1. Init => ForecastFits
  BY DEF Init, ForecastFits
<1>2. /\ TypeOK /\ TypeOK' /\ LeasesFit /\ PollsFit /\ ForecastFits /\ [Next]_vars
      => ForecastFits'
  <2> SUFFICES ASSUME TypeOK, TypeOK', LeasesFit, PollsFit, ForecastFits, [Next]_vars,
                      ~stopped'
               PROVE ForecastFits'
    BY DEF ForecastFits
  <2> USE DEF ForecastFits
  <2>1. ASSUME NEW p \in Proxies,
               \/ RequestStarted(p) \/ RequestFinished(p) \/ Ends(p)
               \/ \E timeout \in Timeouts : CreateLease(p, timeout)
        PROVE ForecastFits'
    BY <2>1 DEF RequestStarted, RequestFinished, Ends, CreateLease
  <2>2. ASSUME Polls PROVE ForecastFits'
    <3>1. ~Due /\ nextPoll' = uptime + Poll /\ ~stopped
      BY <2>2 DEF Polls
    <3>2. UNCHANGED <<uptime, gained, lost, live, lease, forecast>>
      BY <2>2 DEF Polls
    <3>3. ASSUME forecast \in Int PROVE uptime + gained - lost <= forecast
      <4>1. PICK p \in leased \cap live :
              ~(lease[p].inFlight = 0 /\ Now - lease[p].last >= lease[p].timeout)
        BY <3>1 DEF Due
      <4>2. lease[p].last + lease[p].timeout <= forecast /\ lease[p].inFlight = 0
        BY <3>1, <3>3, <4>1
      <4>3. lease[p] \in Lease
        BY <4>1
      <4>4. lease[p].last \in Int /\ lease[p].timeout \in Nat
        BY <4>3
      <4>5. QED
        BY <3>3, <4>1, <4>2, <4>4
    <3>4. CASE forecast \in Int
      <4>1. /\ \A p \in live :
                  lease[p].inFlight = 0 /\ ExpiresAt(p) <= forecast
            /\ (\E p \in live : ExpiresAt(p) = forecast) \/ forecast <= Now
        BY <3>1, <3>4
      <4>2. nextPoll' - Poll + gained - lost <= forecast
        BY <3>1, <3>3, <3>4
      <4>3. forecast # Busy
        BY <3>4
      <4>4. QED
        BY <3>2, <4>1, <4>2, <4>3
    <3>5. CASE forecast \notin Int
      BY <3>1, <3>2, <3>5
    <3>6. QED
      BY <3>4, <3>5
  <2>3. ASSUME Status PROVE ForecastFits'
    <3>1. /\ ~stopped /\ live \subseteq leased
          /\ UNCHANGED <<uptime, gained, lost, live, lease, nextPoll>>
      BY <2>3 DEF Status
    <3>2. CASE forecast' = NoForecast
      BY <3>2
    <3>3. CASE (\E p \in leased \cap live : lease[p].inFlight # 0) /\ forecast' = Busy
      BY <3>1, <3>3
    <3>4. ASSUME \A p \in leased \cap live : lease[p].inFlight = 0, Forecast
          PROVE ForecastFits'
      <4>1. PICK p \in live :
              /\ \A q \in live : ExpiresAt(q) <= ExpiresAt(p)
              /\ forecast' = NoEarlier(ExpiresAt(p))
        BY <3>1, <3>4 DEF Forecast
      <4>2. lease[p] \in Lease
        OBVIOUS
      <4>3. lease[p].last \in Int /\ lease[p].timeout \in Nat /\ ExpiresAt(p) \in Int
        <5>1. lease[p].last \in Int /\ lease[p].timeout \in Nat
          BY <4>2
        <5>2. QED
          BY <5>1
      <4>4. \/ forecast' = ExpiresAt(p) /\ ExpiresAt(p) > Now
            \/ forecast' = Now /\ ExpiresAt(p) <= Now
        BY <4>1, <4>3 DEF NoEarlier
      <4>5. forecast' \in Int /\ Now <= forecast' /\ ExpiresAt(p) <= forecast'
        BY <4>3, <4>4
      <4>6. \A q \in live : ExpiresAt(q) <= forecast'
        <5> SUFFICES ASSUME NEW q \in live PROVE ExpiresAt(q) <= forecast'
          OBVIOUS
        <5>1. lease[q] \in Lease
          OBVIOUS
        <5>2. lease[q].last \in Int /\ lease[q].timeout \in Nat
          BY <5>1
        <5>3. ExpiresAt(q) <= ExpiresAt(p)
          BY <4>1
        <5>4. QED
          BY <4>3, <4>5, <5>2, <5>3
      <4>7. (\E q \in live : ExpiresAt(q) = forecast') \/ forecast' <= Now
        BY <4>4
      <4>8. nextPoll - Poll + gained - lost <= forecast'
        BY <3>1, <4>5 DEF PollsFit
      <4>9. forecast' # Busy
        BY <4>5
      <4>10. QED
        BY <3>1, <3>4, <4>6, <4>7, <4>8, <4>9
    <3>5. QED
      BY <2>3, <3>2, <3>3, <3>4 DEF Status
  <2>4. ASSUME Tick PROVE ForecastFits'
    BY <2>4 DEF Tick
  <2>5. ASSUME SetForward \/ SetBack PROVE ForecastFits'
    BY <2>5 DEF SetForward, SetBack
  <2>6. ASSUME UNCHANGED vars PROVE ForecastFits'
    BY <2>6 DEF vars
  <2>7. QED
    BY <2>1, <2>2, <2>3, <2>4, <2>5, <2>6 DEF Next
<1>3. TypeOK /\ PollsFit /\ ForecastFits =>
          (~stopped /\ forecast \in Int => Now <= forecast + Poll)
  BY DEF PollsFit, ForecastFits
<1>4. TypeOK /\ ForecastFits /\ [Next]_vars =>
          [Stops => forecast # Busy /\ (forecast \in Int => Now >= forecast)]_vars
  <2> SUFFICES ASSUME TypeOK, ForecastFits, [Next]_vars, Stops
               PROVE forecast # Busy /\ (forecast \in Int => Now >= forecast)
    OBVIOUS
  <2>1. Polls
    BY DEF Next, Stops, CreateLease, RequestStarted, RequestFinished, Ends,
           Status, Tick, SetForward, SetBack, vars
  <2>2. Due /\ ~stopped
    BY <2>1 DEF Polls, Stops
  <2>3. forecast # Busy
    BY <2>2 DEF Due, ForecastFits
  <2>4. ASSUME forecast \in Int PROVE Now >= forecast
    <3>1. CASE forecast <= Now
      BY <2>4, <3>1
    <3>2. ASSUME NEW p \in live, ExpiresAt(p) = forecast PROVE Now >= forecast
      <4>1. lease[p] \in Lease /\ Now - lease[p].last >= lease[p].timeout
        BY <2>2 DEF Due
      <4>2. lease[p].last \in Int /\ lease[p].timeout \in Nat
        BY <4>1
      <4>3. QED
        BY <3>2, <4>1, <4>2
    <3>3. QED
      BY <2>2, <2>4, <3>1, <3>2 DEF ForecastFits
  <2>5. QED
    BY <2>3, <2>4
<1>5. QED
  BY <1>1, <1>2, <1>3, <1>4, IdleTypeCorrect, LeasesFitAlways, PollsFitAlways,
     PTL DEF Spec, ForecastKept

=============================================================================
