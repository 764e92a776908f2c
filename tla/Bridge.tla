-------------------------------- MODULE Bridge --------------------------------
(***************************************************************************)
(* The relay of one proxy between its stdio client and the shared Serena   *)
(* (StdioHttpBridge of transport/bridge.py, with the helpers of            *)
(* transport/protocol.py): the task that reads stdin, the relay loop, and  *)
(* the two tasks of one HTTP connection, interleaved at every await; the   *)
(* client, the backend and its replacement by the other processes of       *)
(* module Lifecycle are the environment.                                   *)
(*                                                                         *)
(* A message is its position in the client's input, its kind and its wire  *)
(* id.  A backend is its generation: what backend_identity tells apart.    *)
(***************************************************************************)
EXTENDS Integers, Sequences

CONSTANTS
    MaxMessages,  \* bound on the messages of the client
    MaxBackends,  \* bound on the backend generations; the last one lives on
    ServerIds,    \* ids Serena gives the requests it sends to the client
    Faults,       \* what may go wrong, a subset of FaultKinds
    NoId,         \* message_id of a notification
    Ping,         \* id of a transport barrier
    None          \* no message

FaultKinds ==
    { "crash",            \* a backend dies with requests open, not only idle
      "startFails",       \* ensure_backend raises
      "activationFails",  \* activate_project raises
      "notifies",         \* Serena sends notifications to the client
      "rejects",          \* --respect-ignored-paths refuses a tool call
      "malformed",        \* a line of stdin is no message
      "lockTimeout",      \* an update of the lease raises
      "uninitialized" }   \* the client does not initialize first

ASSUME ConstantsAssumption ==
    /\ MaxMessages \in Nat /\ MaxBackends \in Nat \ {0}
    /\ ServerIds \subseteq Nat
    /\ Faults \subseteq FaultKinds
    /\ NoId \notin Nat \cup {Ping} /\ Ping \notin Nat

RequestKinds == {"initialize", "call", "request"}
Kinds        == RequestKinds \cup {"notification", "reply"}
Requests     == 1..MaxMessages
Message      == [n: Requests, kind: Kinds, id: Requests \cup ServerIds \cup {NoId}]

ASSUME NoneAssumption == None \notin Message

VARIABLES
    read,        \* messages read from stdin so far
    requested,   \* history: ids of the requests among them
    replied,     \* requests of Serena among whose replies they are
    queue,       \* queued_send / queued_receive
    closed,      \* _input_closed
    initialize,  \* _initialize is not None
    pending,     \* _pending, which is also what the lease counts in flight
    answered,    \* requests whose response was written to stdout
    asked,       \* requests of Serena written to stdout
    relay,       \* where _relay_connections is
    first,       \* the message it opens the next connection with
    connected,   \* not first_connection
    identity,    \* what endpoint_provider returned to _run_connection
    activated,   \* _activated_identity; 0 is None
    att,         \* the _ConnectionAttempt and its two tasks
    posting,     \* what the HTTP client is posting before the next message
    open,        \* requests of this connection its backend has not answered
    submitted,   \* history: positions of the messages submitted, in order
    alive,       \* the running generation, or 0
    started,     \* generations started
    projects     \* generations whose active project is the checkout

stdinVars   == <<read, requested, replied, queue, closed, initialize>>
clientVars  == <<pending, answered, asked>>
relayVars   == <<relay, first, connected, identity, activated>>
wireVars    == <<posting, open, submitted>>
backendVars == <<alive, started, projects>>
vars == <<stdinVars, clientVars, relayVars, att, wireVars, backendVars>>

Final == {"ended", "failed"}

\* client and server are where _client_to_http and _http_to_client are, item
\* and outgoing what they have in hand; then the fields of _ConnectionAttempt:
\* barrier is "requested" when barrier_requested, "pinging" when barrier_id is
\* set too, unanswered is submitted_messages - completed_messages.
NoAttempt ==
    [client |-> "done", item |-> None, server |-> "done", outgoing |-> NoId,
     reconnect |-> None, barrier |-> "none", forwarded |-> {}, unanswered |-> 0,
     exhausted |-> FALSE, raised |-> FALSE, cancelled |-> FALSE]

Init ==
    /\ read = 0 /\ requested = {} /\ replied = {} /\ queue = <<>>
    /\ closed = FALSE /\ initialize = FALSE
    /\ pending = {} /\ answered = {} /\ asked = {}
    /\ relay = "idle" /\ first = None /\ connected = FALSE
    /\ identity = 0 /\ activated = 0
    /\ att = NoAttempt
    /\ posting = None /\ open = {} /\ submitted = <<>>
    /\ alive = 0 /\ started = 0 /\ projects = {}

-----------------------------------------------------------------------------
(* _read_stdio *)

Reading == ~closed /\ relay \notin Final

\* What the client may send next: initialize, then any request, notification,
\* or reply to a request of Serena's.
Arriving(m) ==
    /\ m.n = read + 1
    /\ m.n = 1 => m.kind = "initialize" \/ "uninitialized" \in Faults
    /\ \/ m.kind \in RequestKinds /\ m.id = m.n
       \/ m.kind = "notification" /\ m.id = NoId
       \/ m.kind = "reply" /\ m.id \in asked \ replied

\* A request, which has a method and an id, is counted on the lease and pending
\* before it is queued.
CountsCalls(m)   == m.kind = "call"
CountsAnyId(m)   == TRUE
Counts(m)        == m.kind \in RequestKinds

ReadMessage(m) ==
    /\ Reading /\ Arriving(m)
    /\ read' = m.n
    /\ initialize' = (initialize \/ m.kind = "initialize")
    /\ requested' = IF m.kind \in RequestKinds THEN requested \cup {m.id} ELSE requested
    /\ pending' = IF Counts(m) THEN pending \cup {m.id} ELSE pending
    /\ replied' = IF m.kind = "reply" THEN replied \cup {m.id} ELSE replied
    /\ queue' = Append(queue, m)
    /\ UNCHANGED <<closed, answered, asked, relayVars, att, wireVars, backendVars>>

\* rejection_for answers None to anything but a tool call with an id; which of
\* those it refuses depends on their arguments and on the Serena CLI.
Refusable(m) == "rejects" \in Faults /\ m.kind = "call"

\* _reject_ignored_path_request answers a refused call itself.
RejectMessage(m) ==
    /\ Reading /\ Arriving(m) /\ Refusable(m)
    /\ read' = m.n
    /\ requested' = requested \cup {m.id} /\ answered' = answered \cup {m.id}
    /\ UNCHANGED <<replied, queue, closed, initialize, pending, asked, relayVars,
                   att, wireVars, backendVars>>

CloseInput ==
    /\ Reading
    /\ closed' = TRUE
    /\ UNCHANGED <<read, requested, replied, queue, initialize, clientVars,
                   relayVars, att, wireVars, backendVars>>

\* An exception of _read_stdio, be it that stdin yields one or request_started
\* raises it, cancels the relay at its next await, with all it has in hand.
InputFails ==
    /\ Reading /\ Faults \cap {"malformed", "lockTimeout"} # {}
    /\ closed' = TRUE /\ relay' = "failed"
    /\ att' = NoAttempt /\ posting' = None /\ open' = {}
    /\ UNCHANGED <<read, requested, replied, queue, initialize, clientVars, first,
                   connected, identity, activated, submitted, backendVars>>

-----------------------------------------------------------------------------
(* _relay_connections and _run_connection, up to the tasks of a connection *)

Dequeue ==
    /\ queue # <<>> /\ queue' = Tail(queue)
    /\ UNCHANGED <<read, requested, replied, closed, initialize>>

ReceiveFirst ==
    /\ relay = "idle" /\ Dequeue
    /\ first' = Head(queue) /\ relay' = "endpoint"
    /\ UNCHANGED <<clientVars, connected, identity, activated, att, wireVars,
                   backendVars>>

MoveRelay(label) ==
    /\ relay' = label
    /\ UNCHANGED <<stdinVars, clientVars, first, connected, identity, activated,
                   att, wireVars, backendVars>>

EndOfStream == relay = "idle" /\ queue = <<>> /\ closed /\ MoveRelay("ended")

RequiresActivationOnce(m, i) == m.kind = "call" /\ activated = 0
RequiresActivation(m, i)     == m.kind = "call" /\ activated # i

\* endpoint_provider: the running backend, or a new one.
Endpoint ==
    /\ relay = "endpoint"
    /\ \/ alive # 0 /\ identity' = alive /\ UNCHANGED <<alive, started>>
       \/ alive = 0 /\ started' = started + 1
          /\ alive' = started' /\ identity' = started'
    /\ relay' = IF RequiresActivation(first, identity') THEN "activate" ELSE "connect"
    /\ UNCHANGED <<stdinVars, clientVars, first, connected, activated, att,
                   wireVars, projects>>

EndpointFails ==
    relay = "endpoint" /\ "startFails" \in Faults /\ MoveRelay("failed")

\* _activate_project opens a connection of its own, and gives the message back
\* unless the activation fails on a backend that is still there.
Activate ==
    /\ relay = "activate" /\ initialize
    /\ relay' = "endpoint" /\ connected' = TRUE
    /\ \/ alive = identity
          /\ activated' = identity /\ projects' = projects \cup {identity}
       \/ alive # identity /\ UNCHANGED <<activated, projects>>
    /\ UNCHANGED <<stdinVars, clientVars, first, identity, att, wireVars, alive,
                   started>>

ActivateFails ==
    /\ relay = "activate"
    /\ \/ ~initialize
       \/ initialize /\ alive = identity /\ "activationFails" \in Faults
    /\ MoveRelay("failed")

\* http_write.send: the HTTP client gives a request a task of its own, and posts
\* anything else before it takes the next message.
Submit(m) ==
    /\ posting = None
    /\ submitted' = Append(submitted, m.n)
    /\ IF m.kind \in RequestKinds
       THEN open' = open \cup {m.id} /\ UNCHANGED posting
       ELSE posting' = m /\ UNCHANGED open

\* The bookkeeping after it.
Forwarded(a, m) ==
    IF m.id = NoId THEN a
    ELSE [a EXCEPT !.forwarded = @ \cup {m.id}, !.unanswered = @ + 1]

\* A backend that dies before the tasks run makes the preamble raise.
Connect ==
    /\ relay = "connect"
    /\ connected => initialize /\ alive = identity
    /\ relay' = "relay" /\ connected' = TRUE
    /\ Submit(first) /\ first' = None
    /\ att' = Forwarded([NoAttempt EXCEPT !.client = "receive", !.server = "receive"],
                        first)
    /\ UNCHANGED <<stdinVars, clientVars, identity, activated, backendVars>>

ConnectFails ==
    /\ relay = "connect" /\ connected /\ ~(initialize /\ alive = identity)
    /\ MoveRelay("failed")

-----------------------------------------------------------------------------
(* _client_to_http *)

Client(label) == relay = "relay" /\ att.client = label
Uncancelled   == ~att.cancelled

ClientReceives ==
    /\ Client("receive") /\ Uncancelled /\ Dequeue
    /\ att' = [att EXCEPT !.client = "check", !.item = Head(queue)]
    /\ UNCHANGED <<clientVars, relayVars, wireVars, backendVars>>

\* What the other steps of a task leave alone.
restVars == <<stdinVars, relayVars, backendVars>>

ClientExhausted ==
    /\ Client("receive") /\ Uncancelled /\ queue = <<>> /\ closed
    /\ att' = [att EXCEPT !.client = "done", !.exhausted = TRUE, !.cancelled = TRUE]
    /\ UNCHANGED <<restVars, clientVars, wireVars>>

\* identity_provider runs in a worker thread that cancellation does not stop;
\* then the message is forwarded, or kept for the next connection.
ReplacedOrInactive == alive # identity \/ RequiresActivation(att.item, identity)
Replaced           == alive # identity
Keep(a) == [a EXCEPT !.reconnect = att.item, !.item = None]

ClientChecks ==
    /\ Client("check")
    /\ att' = IF Replaced
              THEN Keep([att EXCEPT !.client = "done", !.cancelled = TRUE])
              ELSE IF ~RequiresActivation(att.item, identity)
              THEN [att EXCEPT !.client = "send"]
              ELSE IF att.forwarded = {}
              THEN Keep([att EXCEPT !.client = "ping", !.barrier = "pinging"])
              ELSE Keep([att EXCEPT !.client = "done", !.barrier = "requested"])
    /\ UNCHANGED <<restVars, clientVars, wireVars>>

ClientSends ==
    /\ Client("send") /\ Uncancelled /\ Submit(att.item)
    /\ att' = [Forwarded(att, att.item) EXCEPT !.client = "receive", !.item = None]
    /\ UNCHANGED <<restVars, clientVars>>

\* _queue_transport_barrier, by either task
SubmitPing == posting = None /\ open' = open \cup {Ping}

ClientPings ==
    /\ Client("ping") /\ Uncancelled /\ SubmitPing
    /\ att' = [att EXCEPT !.client = "done"]
    /\ UNCHANGED <<restVars, clientVars, posting, submitted>>

\* Cancelled at an await, the task loses the message it has in hand.
ClientCancelled ==
    /\ relay = "relay" /\ att.client # "done" /\ att.cancelled
    /\ att' = [att EXCEPT !.client = "done", !.item = None]
    /\ UNCHANGED <<restVars, clientVars, wireVars>>

-----------------------------------------------------------------------------
(* _http_to_client *)

Server(label) == relay = "relay" /\ att.server = label
Listening == Server("receive") /\ Uncancelled /\ alive = identity

\* The bookkeeping goes by the id alone: a response and a request of Serena's
\* are not told apart.
Bookkept(id) ==
    [att EXCEPT !.forwarded = @ \ {id},
                !.unanswered = IF id \in att.forwarded THEN @ - 1 ELSE @]

\* request_finished may raise, after which the message is not written.
TakesUp(id, label) ==
    \/ att' = [Bookkept(id) EXCEPT !.server = label, !.outgoing = id]
    \/ /\ id \in pending /\ "lockTimeout" \in Faults
       /\ att' = [Bookkept(id) EXCEPT !.server = "done", !.cancelled = TRUE, !.raised = TRUE]

ServerResponds(id) ==
    /\ Listening /\ id \in open \ {Ping}
    /\ open' = open \ {id} /\ pending' = pending \ {id}
    /\ TakesUp(id, "respond")
    /\ UNCHANGED <<restVars, answered, asked, posting, submitted>>

ServerAsks(id) ==
    /\ Listening /\ id \in ServerIds \ asked
    /\ pending' = pending \ {id}
    /\ TakesUp(id, "ask")
    /\ UNCHANGED <<restVars, answered, asked, wireVars>>

\* The response to the barrier, or whatever else has an id equal to barrier_id:
\* a notification has none, and neither has a connection without a barrier.
ServerReleases ==
    /\ Listening
    /\ \/ Ping \in open
       \/ "notifies" \in Faults /\ att.barrier # "pinging"
    /\ att' = [att EXCEPT !.server = "done", !.barrier = "none", !.cancelled = TRUE]
    /\ UNCHANGED <<restVars, clientVars, wireVars>>

ServerNotifies ==
    /\ Listening /\ "notifies" \in Faults /\ att.barrier = "pinging"
    /\ att' = [att EXCEPT !.server = "respond", !.outgoing = NoId]
    /\ UNCHANGED <<restVars, clientVars, wireVars>>

\* The message is on stdout; then a barrier that had to wait is queued.
BarrierNever == FALSE
BarrierDue   == att.reconnect # None /\ att.barrier = "requested" /\ att.forwarded = {}

ServerDelivers ==
    /\ relay = "relay" /\ att.server \in {"respond", "ask"} /\ Uncancelled
    /\ IF att.server = "respond"
       THEN answered' = answered \cup ({att.outgoing} \ {NoId}) /\ UNCHANGED asked
       ELSE asked' = asked \cup {att.outgoing} /\ UNCHANGED answered
    /\ att' = IF BarrierDue
              THEN [att EXCEPT !.server = "ping", !.outgoing = NoId, !.barrier = "pinging"]
              ELSE [att EXCEPT !.server = "receive", !.outgoing = NoId]
    /\ UNCHANGED <<restVars, pending, wireVars>>

ServerPings ==
    /\ Server("ping") /\ Uncancelled /\ SubmitPing
    /\ att' = [att EXCEPT !.server = "receive"]
    /\ UNCHANGED <<restVars, clientVars, posting, submitted>>

\* The stream of a dead backend ends, or yields an exception.
ServerClosed ==
    /\ Server("receive") /\ Uncancelled /\ alive # identity
    /\ \E raises \in BOOLEAN :
          att' = [att EXCEPT !.server = "done", !.cancelled = TRUE, !.raised = raises]
    /\ UNCHANGED <<restVars, clientVars, wireVars>>

\* Cancelled while it writes to stdout, the task loses the message.
ServerCancelled ==
    /\ relay = "relay" /\ att.server # "done" /\ att.cancelled
    /\ att' = [att EXCEPT !.server = "done", !.outgoing = NoId]
    /\ UNCHANGED <<restVars, clientVars, wireVars>>

-----------------------------------------------------------------------------
(* The end of _run_connection, and what _relay_connections makes of it *)

\* "Serena disconnected while requests were in flight."
DisconnectedIfPinging ==
    \/ att.raised /\ pending # {}
    \/ att.reconnect # None /\ att.barrier # "none"
    \/ att.reconnect = None /\ ~closed /\ ~att.exhausted /\ pending # {}
Disconnected ==
    \/ att.raised /\ pending # {}
    \/ att.reconnect # None /\ (att.unanswered # 0 \/ att.barrier # "none")
    \/ att.reconnect = None /\ ~closed /\ ~att.exhausted /\ pending # {}

Leave(label) ==
    /\ Client("done") /\ Server("done")
    /\ relay' = label /\ att' = NoAttempt
    /\ posting' = None /\ open' = {}
    /\ UNCHANGED <<read, requested, replied, closed, initialize, clientVars,
                   connected, identity, activated, submitted, backendVars>>

Disconnects == Disconnected /\ Leave("failed") /\ UNCHANGED <<first, queue>>

ReconnectsLast ==
    /\ ~Disconnected /\ att.reconnect # None /\ Leave("endpoint")
    /\ LET waiting == Append(queue, att.reconnect)
       IN  first' = Head(waiting) /\ queue' = Tail(waiting)
Reconnects ==
    /\ ~Disconnected /\ att.reconnect # None /\ Leave("endpoint")
    /\ first' = att.reconnect /\ UNCHANGED queue

InputEnds ==
    /\ ~Disconnected /\ att.reconnect = None /\ (closed \/ att.exhausted)
    /\ Leave("ended") /\ UNCHANGED <<first, queue>>

BackendGone ==
    /\ ~Disconnected /\ att.reconnect = None /\ ~closed /\ ~att.exhausted
    /\ Leave("idle") /\ UNCHANGED <<first, queue>>

-----------------------------------------------------------------------------
(* The HTTP client and the backend *)

Posted ==
    /\ posting # None /\ posting' = None
    /\ UNCHANGED <<restVars, clientVars, att, open, submitted>>

\* A backend is stopped when no lease counts a request, or crashes.
BackendStops ==
    /\ alive # 0 /\ started < MaxBackends
    /\ pending = {} \/ "crash" \in Faults
    /\ alive' = 0
    /\ UNCHANGED <<stdinVars, clientVars, relayVars, att, wireVars, started, projects>>

\* Another proxy starts the next one.
BackendStarts ==
    /\ alive = 0 /\ started > 0
    /\ started' = started + 1 /\ alive' = started'
    /\ UNCHANGED <<stdinVars, clientVars, relayVars, att, wireVars, projects>>

-----------------------------------------------------------------------------

RelayStep ==
    \/ ReceiveFirst \/ EndOfStream \/ Endpoint \/ EndpointFails
    \/ Activate \/ ActivateFails \/ Connect \/ ConnectFails
    \/ Disconnects \/ Reconnects \/ InputEnds \/ BackendGone

ClientStep ==
    \/ ClientReceives \/ ClientExhausted \/ ClientChecks
    \/ ClientSends \/ ClientPings \/ ClientCancelled

ServerProceeds == ServerDelivers \/ ServerPings \/ ServerClosed \/ ServerCancelled
ServerStep     == ServerReleases \/ ServerProceeds

Next ==
    \/ \E m \in Message : ReadMessage(m) \/ RejectMessage(m)
    \/ CloseInput \/ InputFails
    \/ RelayStep \/ ClientStep \/ ServerStep
    \/ \E id \in Requests : ServerResponds(id)
    \/ \E id \in ServerIds : ServerAsks(id)
    \/ ServerNotifies
    \/ Posted \/ BackendStops \/ BackendStarts

Spec == Init /\ [][Next]_vars

\* The event loop runs every task that can run, the client reads its stdout, a
\* live backend answers every request, however many notifications it sends in
\* between, and takes every post, and a connection to a dead one ends.  Nothing
\* is assumed of what the client sends, of whether Serena notifies, nor of when
\* backends stop and start.
ServerAnswers ==
    \/ Ping \in open /\ ServerReleases
    \/ \E id \in Requests : ServerResponds(id)

Fairness ==
    /\ WF_vars(RelayStep) /\ WF_vars(ClientStep) /\ WF_vars(ServerProceeds)
    /\ SF_vars(ServerAnswers) /\ WF_vars(Posted)

FairSpec == Spec /\ Fairness

-----------------------------------------------------------------------------
(* Properties *)

Attempt ==
    [client: {"receive", "check", "send", "ping", "done"},
     item: Message \cup {None},
     server: {"receive", "respond", "ask", "ping", "done"},
     outgoing: Requests \cup ServerIds \cup {NoId},
     reconnect: Message \cup {None}, barrier: {"none", "requested", "pinging"},
     forwarded: SUBSET (Requests \cup ServerIds), unanswered: Int,
     exhausted: BOOLEAN, raised: BOOLEAN, cancelled: BOOLEAN]

\* Types of the state; in particular notifications are never counted.
TypeOK ==
    /\ read \in 0..MaxMessages /\ requested \subseteq Requests
    /\ replied \subseteq ServerIds /\ queue \in Seq(Message)
    /\ closed \in BOOLEAN /\ initialize \in BOOLEAN
    /\ pending \subseteq Requests /\ answered \subseteq Requests
    /\ asked \subseteq ServerIds
    /\ relay \in {"idle", "endpoint", "activate", "connect", "relay"} \cup Final
    /\ first \in Message \cup {None} /\ connected \in BOOLEAN
    /\ identity \in 0..MaxBackends /\ activated \in 0..MaxBackends
    /\ att \in Attempt
    /\ posting \in Message \cup {None}
    /\ open \subseteq Requests \cup {Ping} /\ submitted \in Seq(Requests)
    /\ alive \in 0..started /\ started \in 0..MaxBackends
    /\ projects \subseteq 1..MaxBackends

\* No request is forgotten: a pending one is queued, held, or with the backend,
\* over every restart and activation, until the bridge gives up.
OnItsWay ==
    relay \notin Final /\ Uncancelled =>
        \A id \in pending :
            \/ id \in att.forwarded
            \/ \E i \in DOMAIN queue : queue[i].id = id
            \/ \E m \in {first, att.item, att.reconnect} \ {None} : m.id = id

\* Messages reach the backends in the client's order, and none reaches them
\* twice: what is kept for a reconnect goes before what was queued after it,
\* and what was submitted is never kept.
InOrder ==
    \A i, j \in DOMAIN submitted : i < j => submitted[i] < submitted[j]

\* A tool call is only submitted to a generation that has activated the
\* checkout, however often backends are replaced meanwhile.
ActivatedFirst ==
    [][\A m \in {first, att.item} \ {None} :
          m.kind = "call" /\ submitted' = Append(submitted, m.n)
              => identity \in projects]_vars

\* Leaving a live backend to activate it first waits for everything that was
\* submitted: all is answered and posted (the transport barrier).
FlushedBeforeActivation ==
    [][relay = "relay" /\ relay' = "endpoint" /\ alive = identity
          => posting = None /\ open \subseteq {Ping}]_vars

\* The proxy stays connected to its client: as long as backends only stop when
\* they are idle, and start and activate, nothing makes it fail.
Transparent == relay # "failed"

\* However backends come and go, a request stays pending until its response is in
\* hand, and the response gets to stdout: it is only lost with a connection that
\* the end of the client's input, the loss of its backend or an exception of the
\* lease or of stdin has ended.
Remembered(id) == id \in pending \cup answered \cup {att.outgoing}

AnswersKept ==
    [][\A id \in Requests : Remembered(id) /\ ~Remembered(id)' =>
          relay = "relay" /\ (att.exhausted \/ alive # identity \/ att'.raised \/ relay' = "failed")]_vars

\* A request the backend is working on is counted in flight by the lease, which
\* is what keeps the watchdog from stopping the backend.
LeaseCoversOpen == open \subseteq pending \cup {Ping}

\* Nobody waits in vain: while the relay forwards nothing more, so as to activate
\* the project, and its backend runs, some response is due that ends the wait.
\* The ids of the client's replies, to which nothing responds, are the exception.
WaitIsAnswered ==
    Client("done") /\ Server("receive") /\ Uncancelled /\ alive = identity
        => open # {} \/ att.forwarded \cap replied # {}

Session == INSTANCE ClientSession WITH
    sent      <- read,
    waiting   <- pending,
    carried   <- {att.outgoing} \cap Requests,
    delivered <- submitted,
    served    <- (alive = identity),
    over      <- (relay \in Final)

\* Through all its connections the relay behaves to its client as one session: it
\* hands every message on in order and once, to whichever backend, and answers
\* each request once, after it was handed on or by its own refusal.
ImplementsClientSession == Session!Spec

\* Every request is answered, unless the bridge ends, or waits for an answer to
\* a reply of the client's before it activates the project.
WaitsOnReply == relay = "relay" /\ att.barrier = "requested" /\ att.forwarded \cap replied # {}

Settles ==
    \A id \in Requests :
        id \in pending ~> id \notin pending \/ relay \in Final \/ WaitsOnReply

=============================================================================
