---------------------------- MODULE SharedBackend ----------------------------
(***************************************************************************)
(* What the runtime promises to the clients of one checkout and profile,   *)
(* without locks, records, leases or watchdogs: clients come, ask for      *)
(* Serena, send it requests and leave; there is at most one Serena, and it *)
(* is told to stop for one of three reasons only.  Lifecycle implements it *)
(* (ImplementsSharedBackend).                                              *)
(***************************************************************************)
EXTENDS Naturals

CONSTANTS Clients, Servers

VARIABLES
    clients,   \* clients that run
    asking,    \* those among them that wait for an endpoint
    leaving,   \* those that were refused, failed or are done, and only end
    load,      \* requests each client has outstanding
    servers,   \* Serena processes that run
    told,      \* those among them that were told to stop
    checkout   \* the checkout exists

vars == <<clients, asking, leaving, load, servers, told, checkout>>

Init ==
    /\ clients = {} /\ asking = {} /\ leaving = {}
    /\ load = [c \in Clients |-> 0]
    /\ servers = {} /\ told = {}
    /\ checkout = TRUE

Join(c) ==
    /\ c \notin clients /\ checkout
    /\ clients' = clients \cup {c}
    /\ UNCHANGED <<asking, leaving, load, servers, told, checkout>>

Begin(c) ==
    /\ c \in clients \ leaving
    /\ load' = [load EXCEPT ![c] = @ + 1]
    /\ UNCHANGED <<clients, asking, leaving, servers, told, checkout>>

End(c) ==
    /\ c \in clients \ leaving /\ load[c] > 0
    /\ load' = [load EXCEPT ![c] = @ - 1]
    /\ UNCHANGED <<clients, asking, leaving, servers, told, checkout>>

Ask(c) ==
    /\ c \in clients \ (asking \cup leaving)
    /\ asking' = asking \cup {c}
    /\ UNCHANGED <<clients, leaving, load, servers, told, checkout>>

\* An endpoint is only handed out while a server runs.
Serve(c) ==
    /\ c \in asking /\ servers # {}
    /\ asking' = asking \ {c}
    /\ UNCHANGED <<clients, leaving, load, servers, told, checkout>>

\* The end of its input, or an error in the place of an endpoint.
Quit(c) ==
    /\ c \in clients \ leaving
    /\ asking' = asking \ {c}
    /\ leaving' = leaving \cup {c}
    /\ UNCHANGED <<clients, load, servers, told, checkout>>

\* At last, or killed.
Leave(c) ==
    /\ c \in clients
    /\ clients' = clients \ {c}
    /\ asking' = asking \ {c}
    /\ leaving' = leaving \ {c}
    /\ load' = [load EXCEPT ![c] = 0]
    /\ UNCHANGED <<servers, told, checkout>>

\* Serena is started for a client that asks, and only when none runs.
Start(b) ==
    /\ asking # {} /\ servers = {} /\ checkout
    /\ servers' = {b}
    /\ UNCHANGED <<clients, asking, leaving, load, told, checkout>>

\* It is told to stop while idle, with its checkout gone, or to be replaced
\* for a client that asks and to which it did not answer.
Tell(b) ==
    /\ b \in servers
    /\ \/ \A c \in Clients : load[c] = 0
       \/ ~checkout
       \/ asking # {}
    /\ told' = told \cup {b}
    /\ UNCHANGED <<clients, asking, leaving, load, servers, checkout>>

Exit(b) ==
    /\ b \in servers
    /\ servers' = servers \ {b}
    /\ told' = told \ {b}
    /\ UNCHANGED <<clients, asking, leaving, load, checkout>>

RemoveCheckout ==
    /\ checkout
    /\ checkout' = FALSE
    /\ UNCHANGED <<clients, asking, leaving, load, servers, told>>

Next ==
    \/ \E c \in Clients : \/ Join(c) \/ Begin(c) \/ End(c) \/ Ask(c)
                          \/ Serve(c) \/ Quit(c) \/ Leave(c)
    \/ \E b \in Servers : Start(b) \/ Tell(b) \/ Exit(b)
    \/ RemoveCheckout

Spec == Init /\ [][Next]_vars

=============================================================================
