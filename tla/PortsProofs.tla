----------------------------- MODULE PortsProofs -----------------------------
(* Theorems about Ports, for any identities and any number of ports. *)
EXTENDS Ports, TLAPS

\* The state keeps its types, whatever the faults (TypeOK): among others, a
\* record's port is one that is_registry_record_for_profile_digest accepts.
THEOREM PortsTypeCorrect == Spec => []TypeOK
<1> USE PortsAssumption DEF Labels, Servers
<1>a. NoRecord \in Record
  BY DEF NoRecord, Record
<1>1. Init => TypeOK
  <2>1. ASSUME Init PROVE record \in [Identities -> Record]
    BY <1>a, <2>1 DEF Init
  <2>2. ASSUME Init PROVE listener \in [Ports -> Identities \cup {Nobody, Foreign}]
    BY <2>2 DEF Init
  <2>3. QED
    BY <2>1, <2>2 DEF Init, TypeOK
<1>2. TypeOK /\ [Next]_vars => TypeOK'
  <2> SUFFICES ASSUME TypeOK, [Next]_vars PROVE TypeOK'
    OBVIOUS
  <2> USE DEF TypeOK, Goto, Ends, Released
  <2>1. ASSUME NEW i \in Identities, Enter(i) PROVE TypeOK'
    BY <1>a, <2>1 DEF Enter
  <2>2. ASSUME NEW i \in Identities, ProbeSucceeds(i) \/ PortLockTimeout(i)
        PROVE TypeOK'
    BY <2>2 DEF ProbeSucceeds, PortLockTimeout
  <2>3. ASSUME NEW i \in Identities, ProbeFails(i) \/ IdleStop(i) PROVE TypeOK'
    BY <2>3 DEF ProbeFails, IdleStop, Terminates, Unbound
  <2>4. ASSUME NEW i \in Identities, Terminated(i) \/ Died(i) PROVE TypeOK'
    BY <1>a, <2>4 DEF Terminated, Died
  <2>5. ASSUME NEW i \in Identities, TakePortLock(i) PROVE TypeOK'
    BY <2>5 DEF TakePortLock
  <2>6. ASSUME NEW i \in Identities, Launch(i) PROVE TypeOK'
    BY <2>6 DEF Launch, Start, Bindable, Record
  <2>7. ASSUME NEW i \in Identities, NoPort(i) PROVE TypeOK'
    BY <2>7 DEF NoPort
  <2>8. ASSUME NEW i \in Identities, Promote(i) PROVE TypeOK'
    BY <2>8 DEF Promote, Record
  <2>9. ASSUME NEW i \in Identities, TimesOut(i) \/ StopFails(i) \/ Crash(i) PROVE TypeOK'
    BY <2>9 DEF TimesOut, StopFails, Crash, CutsShort
  <2>10. ASSUME NEW i \in Identities, Binds(i) PROVE TypeOK'
    BY <2>10 DEF Binds
  <2>11. ASSUME NEW i \in Identities, Exits(i) PROVE TypeOK'
    BY <2>11 DEF Exits, Unbound
  <2>12. ASSUME NEW p \in Ports, ForeignTakes(p) \/ ForeignLeaves(p)
         PROVE TypeOK'
    BY <2>12 DEF ForeignTakes, ForeignLeaves
  <2>13. ASSUME UNCHANGED vars PROVE TypeOK'
    BY <2>13 DEF vars
  <2>14. QED
    BY <2>1, <2>2, <2>3, <2>4, <2>5, <2>6, <2>7, <2>8, <2>9, <2>10, <2>11,
       <2>12, <2>13
       DEF Next, Proceeds
<1>3. QED
  BY <1>1, <1>2, PTL DEF Spec

-----------------------------------------------------------------------------

\* Who is in the block of port_lock holds it.
PortLockFits ==
    \A i \in Identities : pc[i] \in {"launch", "boot"} <=> portLock[Repo[i]] = i

LEMMA PortLockFitsAlways == Spec => []PortLockFits
<1> USE PortsAssumption DEF PortLockFits
<1>1. Init => PortLockFits
  BY DEF Init
<1>2. TypeOK /\ PortLockFits /\ [Next]_vars => PortLockFits'
  <2> SUFFICES ASSUME TypeOK, PortLockFits, [Next]_vars PROVE PortLockFits'
    OBVIOUS
  <2> USE DEF TypeOK, Goto, Ends, Released
  <2>1. ASSUME NEW i \in Identities, Enter(i) \/ Terminated(i) PROVE PortLockFits'
    BY <2>1 DEF Enter, Terminated
  <2>2. ASSUME NEW i \in Identities, ProbeSucceeds(i) \/ PortLockTimeout(i)
        PROVE PortLockFits'
    BY <2>2 DEF ProbeSucceeds, PortLockTimeout
  <2>3. ASSUME NEW i \in Identities, ProbeFails(i) \/ IdleStop(i)
        PROVE PortLockFits'
    BY <2>3 DEF ProbeFails, IdleStop, Terminates
  <2>4. ASSUME NEW i \in Identities, Died(i) PROVE PortLockFits'
    BY <2>4 DEF Died
  <2>5. ASSUME NEW i \in Identities, TakePortLock(i) PROVE PortLockFits'
    BY <2>5 DEF TakePortLock
  <2>6. ASSUME NEW i \in Identities, Launch(i) PROVE PortLockFits'
    BY <2>6 DEF Launch, Start
  <2>7. ASSUME NEW i \in Identities, NoPort(i) \/ Promote(i)
        PROVE PortLockFits'
    BY <2>7 DEF NoPort, Promote
  <2>8. ASSUME NEW i \in Identities, TimesOut(i) \/ StopFails(i) \/ Crash(i) PROVE PortLockFits'
    BY <2>8 DEF TimesOut, StopFails, Crash
  <2>9. ASSUME NEW i \in Identities, Binds(i) \/ Exits(i) PROVE PortLockFits'
    BY <2>9 DEF Binds, Exits
  <2>10. ASSUME NEW p \in Ports, ForeignTakes(p) \/ ForeignLeaves(p)
         PROVE PortLockFits'
    BY <2>10 DEF ForeignTakes, ForeignLeaves
  <2>11. ASSUME UNCHANGED vars PROVE PortLockFits'
    BY <2>11 DEF vars
  <2>12. QED
    BY <2>1, <2>2, <2>3, <2>4, <2>5, <2>6, <2>7, <2>8, <2>9, <2>10, <2>11
       DEF Next, Proceeds
<1>3. QED
  BY <1>1, <1>2, PortsTypeCorrect, PTL DEF Spec

-----------------------------------------------------------------------------

\* A server has a record that says which port it was given, it listens there
\* and nowhere else once it is bound, and none is left when a start begins.
ServersFit ==
    \A i \in Identities :
        /\ Alive(i) => record[i].state # "absent" /\ record[i].port \in Ports
        /\ server[i] = "bound" => listener[record[i].port] = i
        /\ \A p \in Ports : listener[p] = i =>
               server[i] = "bound" /\ record[i].port = p
        /\ pc[i] \in {"ports", "launch"} => ~Alive(i)

LEMMA ServersFitAlways == Spec => []ServersFit
<1> USE PortsAssumption DEF ServersFit, Alive, Servers, NoRecord
<1>1. Init => ServersFit
  BY DEF Init
<1>2. TypeOK /\ ServersFit /\ [Next]_vars => ServersFit'
  <2> SUFFICES ASSUME TypeOK, ServersFit, [Next]_vars PROVE ServersFit'
    OBVIOUS
  <2> USE DEF TypeOK, Goto, Ends
  <2>1. ASSUME NEW i \in Identities, Enter(i) PROVE ServersFit'
    BY <2>1 DEF Enter
  <2>2. ASSUME NEW i \in Identities,
               ProbeSucceeds(i) \/ PortLockTimeout(i) \/ NoPort(i)
        PROVE ServersFit'
    BY <2>2 DEF ProbeSucceeds, PortLockTimeout, NoPort
  <2>3. ASSUME NEW i \in Identities, ProbeFails(i) \/ IdleStop(i)
        PROVE ServersFit'
    BY <2>3 DEF ProbeFails, IdleStop, Terminates, Unbound
  <2>4. ASSUME NEW i \in Identities, Terminated(i) \/ Died(i) PROVE ServersFit'
    BY <2>4 DEF Terminated, Died
  <2>5. ASSUME NEW i \in Identities, TakePortLock(i) PROVE ServersFit'
    BY <2>5 DEF TakePortLock
  <2>6. ASSUME NEW i \in Identities, Launch(i) PROVE ServersFit'
    BY <2>6 DEF Launch, Start, Bindable
  <2>7. ASSUME NEW i \in Identities, Promote(i) PROVE ServersFit'
    BY <2>7 DEF Promote
  <2>8. ASSUME NEW i \in Identities, TimesOut(i) \/ StopFails(i) \/ Crash(i) PROVE ServersFit'
    BY <2>8 DEF TimesOut, StopFails, Crash
  <2>9. ASSUME NEW i \in Identities, Binds(i) PROVE ServersFit'
    BY <2>9 DEF Binds
  <2>10. ASSUME NEW i \in Identities, Exits(i) PROVE ServersFit'
    BY <2>10 DEF Exits, Unbound
  <2>11. ASSUME NEW p \in Ports, ForeignTakes(p) \/ ForeignLeaves(p)
         PROVE ServersFit'
    BY <2>11 DEF ForeignTakes, ForeignLeaves
  <2>12. ASSUME UNCHANGED vars PROVE ServersFit'
    BY <2>12 DEF vars
  <2>13. QED
    BY <2>1, <2>2, <2>3, <2>4, <2>5, <2>6, <2>7, <2>8, <2>9, <2>10, <2>11,
       <2>12
       DEF Next, Proceeds
<1>3. QED
  BY <1>1, <1>2, PortsTypeCorrect, PTL DEF Spec

-----------------------------------------------------------------------------

\* Unless a start or stop was cut short, a server that boots is the one server
\* whose start holds the port_lock, and no Serena has its port; and one that
\* closes is waited for.
BootsAlone ==
    ~cutShort =>
        \A i \in Identities :
            /\ server[i] = "booting" =>
                  /\ pc[i] = "boot"
                  /\ record[i].state = "pending"
                  /\ listener[record[i].port] \notin Identities
            /\ server[i] = "closing" => pc[i] \in {"replace", "reap"}

\* The endpoint of an active record is its own server's, or that server is
\* being stopped by the holder of startup_lock (EndpointIsOwn), for the
\* identities of one repository: they share the port_lock.
THEOREM EndpointsAreOwn ==
    ASSUME \A i, j \in Identities : Repo[i] = Repo[j]
    PROVE  Spec => []EndpointIsOwn
<1> USE PortsAssumption DEF BootsAlone, Alive, Servers, NoRecord
<1>1. Init => BootsAlone
  BY DEF Init
<1>2. /\ TypeOK /\ PortLockFits /\ ServersFit /\ BootsAlone /\ [Next]_vars
      => BootsAlone'
  <2> SUFFICES ASSUME TypeOK, PortLockFits, ServersFit, BootsAlone, [Next]_vars
               PROVE  BootsAlone'
    OBVIOUS
  <2> USE DEF TypeOK, ServersFit, Goto, Ends
  <2>1. \A i, j \in Identities :
           pc[i] \in {"launch", "boot"} /\ pc[j] \in {"launch", "boot"} => i = j
    BY DEF PortLockFits
  <2>2. ASSUME NEW i \in Identities, Enter(i) PROVE BootsAlone'
    BY <2>2 DEF Enter
  <2>3. ASSUME NEW i \in Identities,
               ProbeSucceeds(i) \/ PortLockTimeout(i) \/ NoPort(i)
        PROVE BootsAlone'
    BY <2>3 DEF ProbeSucceeds, PortLockTimeout, NoPort
  <2>4. ASSUME NEW i \in Identities, ProbeFails(i) \/ IdleStop(i)
        PROVE BootsAlone'
    BY <2>4 DEF ProbeFails, IdleStop, Terminates, Unbound
  <2>5. ASSUME NEW i \in Identities, Terminated(i) \/ Died(i) PROVE BootsAlone'
    BY <2>5 DEF Terminated, Died
  <2>6. ASSUME NEW i \in Identities, TakePortLock(i) PROVE BootsAlone'
    BY <2>6 DEF TakePortLock
  <2>7. ASSUME NEW i \in Identities, Launch(i) PROVE BootsAlone'
    BY <2>1, <2>7 DEF Launch, Start, Bindable
  <2>8. ASSUME NEW i \in Identities, Promote(i) PROVE BootsAlone'
    BY <2>8 DEF Promote, Answers
  <2>9. ASSUME NEW i \in Identities, TimesOut(i) \/ StopFails(i) \/ Crash(i) PROVE BootsAlone'
    <3>1. CASE server[i] \in {"booting", "closing"}
      <4>1. cutShort'
        BY <2>9, <3>1 DEF TimesOut, StopFails, Crash, CutsShort
      <4>2. QED
        BY <4>1
    <3>2. CASE server[i] \notin {"booting", "closing"}
      <4>1. cutShort' <=> cutShort
        BY <2>9, <3>2 DEF TimesOut, StopFails, Crash, CutsShort
      <4>2. QED
        BY <2>9, <3>2, <4>1 DEF TimesOut, StopFails, Crash
    <3>3. QED
      BY <3>1, <3>2
  <2>10. ASSUME NEW i \in Identities, Binds(i) PROVE BootsAlone'
    BY <2>1, <2>10 DEF Binds
  <2>11. ASSUME NEW i \in Identities, Exits(i) PROVE BootsAlone'
    BY <2>11 DEF Exits, Unbound
  <2>12. ASSUME NEW p \in Ports, ForeignTakes(p) \/ ForeignLeaves(p)
         PROVE BootsAlone'
    BY <2>12 DEF ForeignTakes, ForeignLeaves
  <2>13. ASSUME UNCHANGED vars PROVE BootsAlone'
    BY <2>13 DEF vars
  <2>14. QED
    BY <2>2, <2>3, <2>4, <2>5, <2>6, <2>7, <2>8, <2>9, <2>10, <2>11, <2>12,
       <2>13
       DEF Next, Proceeds
<1>3. TypeOK /\ ServersFit /\ BootsAlone => EndpointIsOwn
  BY DEF TypeOK, ServersFit, EndpointIsOwn
<1>4. QED
  BY <1>1, <1>2, <1>3, PortsTypeCorrect, PortLockFitsAlways, ServersFitAlways,
     PTL DEF Spec

=============================================================================
