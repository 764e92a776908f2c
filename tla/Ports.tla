-------------------------------- MODULE Ports --------------------------------
(***************************************************************************)
(* How the Serena servers of several checkouts and profiles share the      *)
(* ports of one machine (find_available_port and the end of                *)
(* start_shared_serena in runtime/process.py).  The holder of the          *)
(* startup_lock of an identity is one actor here: Lifecycle says why there *)
(* is at most one, and at most one server of its own.                      *)
(*                                                                         *)
(* A port is only tested by binding it and is given back at once; the      *)
(* server binds it seconds later.  Between the two only port_lock, of which*)
(* there is one per repository, keeps others from choosing the same port.  *)
(***************************************************************************)
EXTENDS Naturals, FiniteSets

CONSTANTS
    Identities,  \* a checkout and a profile each (StatePaths.key)
    Repo,        \* the repository of each: its common_git_dir
    LastPort,    \* ports are 1..LastPort (PORT_START..PORT_END)
    Nobody,      \* nobody listens on a port, nobody holds a port_lock
    Foreign,     \* a program that is no Serena
    Faults       \* what the environment may do, a subset of FaultKinds

FaultKinds ==
    { "crash",        \* a proxy or watchdog is killed holding startup_lock
      "slowStart",    \* Serena is not serving after STARTUP_TIMEOUT_SECONDS
      "slowStop",     \* Serena runs TERMINATION_TIMEOUT_SECONDS after SIGTERM
      "serenaDies",   \* Serena exits on its own
      "busy",         \* a serving Serena leaves a probe unanswered
      "lockTimeout",  \* port_lock is held for LOCK_WAIT_SECONDS
      "foreign" }     \* other programs take and free ports

Repos == {Repo[i] : i \in Identities}
Ports == 1..LastPort

ASSUME PortsAssumption ==
    /\ Repo \in [Identities -> Repos]
    /\ LastPort \in Nat
    /\ Nobody \notin Identities /\ Foreign \notin Identities
    /\ Nobody # Foreign
    /\ Faults \subseteq FaultKinds

VARIABLES
    pc,         \* where the holder of each startup_lock is; "idle": no holder
    portLock,   \* the identity whose starter holds the port_lock of a repository
    attempted,  \* the ports each start in progress has tried
    record,     \* each registry record: its state and port
    server,     \* the server each record names
    listener,   \* who listens on each port
    cutShort    \* history: has a start or stop ended before its server was up or gone?

vars == <<pc, portLock, attempted, record, server, listener, cutShort>>

Labels  == {"idle", "probe", "recover", "ports", "launch", "boot",
            "replace", "reap"}
Servers == {"none", "booting", "bound", "closing"}

NoRecord == [state |-> "absent", port |-> 0]
Record   == [state: {"absent", "pending", "active"}, port: Ports \cup {0}]

Init ==
    /\ pc = [i \in Identities |-> "idle"]
    /\ portLock = [r \in Repos |-> Nobody]
    /\ attempted = [i \in Identities |-> {}]
    /\ record = [i \in Identities |-> NoRecord]
    /\ server = [i \in Identities |-> "none"]
    /\ listener = [p \in Ports |-> Nobody]
    /\ cutShort = FALSE

-----------------------------------------------------------------------------

Goto(i, label) == pc' = [pc EXCEPT ![i] = label]

Alive(i) == server[i] # "none"

\* probe: any Serena on the port of the record will do, whoever started it.
Answers(i) == listener[record[i].port] \in Identities

\* i's server leaves its port, if it has one.
Unbound(i) == [p \in Ports |-> IF listener[p] = i THEN Nobody ELSE listener[p]]

\* The `with file_lock(paths.port_lock)` block of i is left, if it is in it.
Released(i) == portLock' = [portLock EXCEPT ![Repo[i]] = IF @ = i THEN Nobody ELSE @]

\* start_shared_serena returns or raises, or its process is killed.
Ends(i) ==
    /\ Goto(i, "idle")
    /\ Released(i)
    /\ attempted' = [attempted EXCEPT ![i] = {}]

\* i stops waiting for its server to boot or to exit.
CutsShort(i) == cutShort' = (cutShort \/ server[i] \in {"booting", "closing"})

\* The chain on the existing record.
Enter(i) ==
    /\ pc[i] = "idle"
    /\ \/ /\ ~Alive(i)
          /\ record' = [record EXCEPT ![i] = NoRecord]
          /\ Goto(i, "ports")
       \/ /\ Alive(i)
          /\ Goto(i, IF record[i].state = "pending" THEN "recover" ELSE "probe")
          /\ UNCHANGED record
    /\ UNCHANGED <<portLock, attempted, server, listener, cutShort>>

\* probe(endpoint) of an active record.
ProbeSucceeds(i) ==
    /\ pc[i] = "probe" /\ Answers(i)
    /\ Ends(i)
    /\ UNCHANGED <<record, server, listener, cutShort>>

\* terminate_verified_serena; a server that was told to stop closes its socket.
Terminates(i, label) ==
    /\ Goto(i, label)
    /\ server' = [server EXCEPT ![i] = "closing"]
    /\ listener' = Unbound(i)
    /\ UNCHANGED <<portLock, attempted, record, cutShort>>

ProbeFails(i) ==
    /\ pc[i] = "probe" /\ (~Answers(i) \/ "busy" \in Faults)
    /\ \/ Alive(i) /\ Terminates(i, "replace")
       \/ ~Alive(i) /\ Ends(i) /\ UNCHANGED <<record, server, listener, cutShort>>

\* run_watchdog, for an idle backend.
IdleStop(i) ==
    /\ pc[i] = "idle" /\ record[i].state = "active" /\ Alive(i)
    /\ Terminates(i, "reap")

\* The process is gone: the record goes, and a proxy goes on to start another.
Terminated(i) ==
    /\ pc[i] \in {"replace", "reap"} /\ ~Alive(i)
    /\ record' = [record EXCEPT ![i] = NoRecord]
    /\ Goto(i, IF pc[i] = "replace" THEN "ports" ELSE "idle")
    /\ UNCHANGED <<portLock, attempted, server, listener, cutShort>>

\* terminate_verified_serena returns FALSE: the server outlives its deadline, or
\* exits between two of its looks.  The record stays.
StopFails(i) ==
    /\ pc[i] \in {"replace", "reap"} /\ (~Alive(i) \/ "slowStop" \in Faults)
    /\ Ends(i)
    /\ CutsShort(i)
    /\ UNCHANGED <<record, server, listener>>

TakePortLockUnguarded(i) ==
    /\ pc[i] = "ports"
    /\ portLock' = [portLock EXCEPT ![Repo[i]] = i]
    /\ Goto(i, "launch")
    /\ UNCHANGED <<attempted, record, server, listener, cutShort>>
TakePortLock(i) ==
    /\ pc[i] = "ports" /\ portLock[Repo[i]] = Nobody
    /\ portLock' = [portLock EXCEPT ![Repo[i]] = i]
    /\ Goto(i, "launch")
    /\ UNCHANGED <<attempted, record, server, listener, cutShort>>

PortLockTimeout(i) ==
    /\ pc[i] = "ports" /\ portLock[Repo[i]] # Nobody /\ "lockTimeout" \in Faults
    /\ Ends(i)
    /\ UNCHANGED <<record, server, listener, cutShort>>

\* One turn of the port loop: find_available_port takes the first port it can
\* bind, start_serena is given its number, the pending record is written.
BindablePastEnd(i) ==
    {p \in 1..LastPort + 1 : p \notin attempted[i] /\ (p \in Ports => listener[p] = Nobody)}
Bindable(i) == {p \in Ports \ attempted[i] : listener[p] = Nobody}
Start(i, p) ==
    /\ record' = [record EXCEPT ![i] = [state |-> "pending", port |-> p]]
    /\ server' = [server EXCEPT ![i] = "booting"]
    /\ Goto(i, "boot")
LaunchForgetting(i) ==
    /\ pc[i] = "launch"
    /\ \E p \in Bindable(i) :
          /\ \A q \in Bindable(i) : p <= q
          /\ Start(i, p)
    /\ UNCHANGED <<portLock, attempted, listener, cutShort>>
Launch(i) ==
    /\ pc[i] = "launch"
    /\ \E p \in Bindable(i) :
          /\ \A q \in Bindable(i) : p <= q
          /\ attempted' = [attempted EXCEPT ![i] = @ \cup {p}]
          /\ Start(i, p)
    /\ UNCHANGED <<portLock, listener, cutShort>>

\* "No shared Serena port is available."
NoPort(i) ==
    /\ pc[i] = "launch" /\ Bindable(i) = {}
    /\ Ends(i)
    /\ UNCHANGED <<record, server, listener, cutShort>>

\* recover_pending_serena, under port_lock for a server just started ("boot")
\* and without it for one that an earlier start left behind ("recover"): a
\* probe on the port of a living process promotes the record ...
Promote(i) ==
    /\ pc[i] \in {"boot", "recover"} /\ Alive(i) /\ Answers(i)
    /\ record' = [record EXCEPT ![i].state = "active"]
    /\ Ends(i)
    /\ UNCHANGED <<server, listener, cutShort>>

\* ... a dead one is forgotten, and the next port or a new start follows ...
Died(i) ==
    /\ pc[i] \in {"boot", "recover"} /\ ~Alive(i)
    /\ record' = [record EXCEPT ![i] = NoRecord]
    /\ Goto(i, IF pc[i] = "boot" THEN "launch" ELSE "ports")
    /\ UNCHANGED <<portLock, attempted, server, listener, cutShort>>

\* ... and one that does not serve in time stays, with its pending record.
TimesOut(i) ==
    /\ pc[i] \in {"boot", "recover"} /\ Alive(i) /\ "slowStart" \in Faults
    /\ Ends(i)
    /\ CutsShort(i)
    /\ UNCHANGED <<record, server, listener>>

Crash(i) ==
    /\ pc[i] # "idle" /\ "crash" \in Faults
    /\ Ends(i)
    /\ CutsShort(i)
    /\ UNCHANGED <<record, server, listener>>

-----------------------------------------------------------------------------
(* Serena and other programs *)

\* A server that finds its port taken exits.
Binds(i) ==
    /\ server[i] = "booting"
    /\ \/ /\ listener[record[i].port] = Nobody
          /\ listener' = [listener EXCEPT ![record[i].port] = i]
          /\ server' = [server EXCEPT ![i] = "bound"]
       \/ /\ listener[record[i].port] # Nobody
          /\ server' = [server EXCEPT ![i] = "none"]
          /\ UNCHANGED listener
    /\ UNCHANGED <<pc, portLock, attempted, record, cutShort>>

Exits(i) ==
    /\ \/ server[i] = "closing"
       \/ server[i] \in {"booting", "bound"} /\ "serenaDies" \in Faults
    /\ server' = [server EXCEPT ![i] = "none"]
    /\ listener' = Unbound(i)
    /\ UNCHANGED <<pc, portLock, attempted, record, cutShort>>

ForeignTakes(p) ==
    /\ "foreign" \in Faults /\ listener[p] = Nobody
    /\ listener' = [listener EXCEPT ![p] = Foreign]
    /\ UNCHANGED <<pc, portLock, attempted, record, server, cutShort>>
ForeignLeaves(p) ==
    /\ listener[p] = Foreign
    /\ listener' = [listener EXCEPT ![p] = Nobody]
    /\ UNCHANGED <<pc, portLock, attempted, record, server, cutShort>>

-----------------------------------------------------------------------------

Proceeds(i) ==
    \/ ProbeSucceeds(i) \/ ProbeFails(i) \/ Terminated(i) \/ Launch(i)
    \/ NoPort(i) \/ Promote(i) \/ Died(i)

Next ==
    \/ \E i \in Identities :
          \/ Enter(i) \/ Proceeds(i) \/ TakePortLock(i) \/ PortLockTimeout(i)
          \/ TimesOut(i) \/ StopFails(i) \/ Crash(i) \/ IdleStop(i) \/ Binds(i) \/ Exits(i)
    \/ \E p \in Ports : ForeignTakes(p) \/ ForeignLeaves(p)

Spec == Init /\ [][Next]_vars

\* Every wait of a starter has a deadline, and who polls for port_lock gets it
\* in the end; Serena boots, and obeys SIGTERM.
Fairness ==
    \A i \in Identities :
        /\ WF_vars(Proceeds(i)) /\ SF_vars(TakePortLock(i))
        /\ WF_vars(Binds(i)) /\ WF_vars(server[i] = "closing" /\ Exits(i))

FairSpec == Spec /\ Fairness

-----------------------------------------------------------------------------

TypeOK ==
    /\ pc \in [Identities -> Labels]
    /\ portLock \in [Repos -> Identities \cup {Nobody}]
    /\ attempted \in [Identities -> SUBSET Ports]
    /\ record \in [Identities -> Record]
    /\ server \in [Identities -> Servers]
    /\ listener \in [Ports -> Identities \cup {Nobody, Foreign}]
    /\ cutShort \in BOOLEAN

\* A client is never sent to the Serena of another checkout or profile: the
\* port of an active record whose process runs is served by that process, or
\* the holder of startup_lock is stopping it right now.  port_lock sees to
\* that, and that the lock is held until the process is gone, as long as no
\* start or stop is killed or times out before its server is up or gone
\* (start_shared_serena, recover_pending_serena, terminate_verified_serena).
EndpointIsOwn ==
    ~cutShort =>
        \A i \in Identities :
            record[i].state = "active" /\ Alive(i)
                => listener[record[i].port] = i \/ pc[i] \in {"replace", "reap"}

\* Every start ends, with a server or an error: the ports to try run out, and
\* nobody waits for ever with both locks (the loop of start_shared_serena).
StartEnds == \A i \in Identities : pc[i] # "idle" ~> pc[i] = "idle"

=============================================================================
