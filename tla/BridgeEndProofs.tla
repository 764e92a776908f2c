---------------------------- MODULE BridgeEndProofs ----------------------------
(***************************************************************************)
(* Theorems about Bridge: how a connection ends, and what its end costs.   *)
(* What must be shown of every ending is the state in which the two tasks  *)
(* of the connection may stop, in any order: what they have in hand, which *)
(* of the two cancelled the other, and how far the transport barrier is.   *)
(***************************************************************************)
EXTENDS BridgeProofs

\* The backend of the connection is no longer the running one.
Gone == alive # identity

\* Generations only grow, so that a generation that is gone stays gone.
Generations == identity <= started /\ alive \in {0, started}

LEMMA GenerationsAlways == Spec => []Generations
<1> USE DEF Generations
<1>1. Init => Generations
  BY DEF Init
<1>2. TypeOK /\ Generations /\ [Next]_vars => Generations'
  <2> SUFFICES ASSUME TypeOK, Generations, [Next]_vars PROVE Generations'
    OBVIOUS
  <2> USE DEF restVars, stdinVars, clientVars, relayVars, wireVars, backendVars
  <2>0. identity \in Int /\ started \in Int
    BY ConstantsAssumption DEF TypeOK
  <2>1. ASSUME NEW m, ReadMessage(m) \/ RejectMessage(m) PROVE Generations'
    BY <2>1 DEF ReadMessage, RejectMessage
  <2>2. CASE CloseInput \/ InputFails \/ Posted \/ UNCHANGED vars
    BY <2>2 DEF CloseInput, InputFails, Posted, vars
  <2>3. CASE BackendStops \/ BackendStarts \/ Endpoint
    BY <2>0, <2>3 DEF BackendStops, BackendStarts, Endpoint
  <2>4. CASE \/ ReceiveFirst \/ EndOfStream \/ EndpointFails \/ ActivateFails
             \/ ConnectFails \/ Activate \/ Connect
    BY <2>4 DEF ReceiveFirst, EndOfStream, EndpointFails, ActivateFails, ConnectFails,
            MoveRelay, Activate, Connect
  <2>5. CASE Disconnects \/ Reconnects \/ InputEnds \/ BackendGone
    BY <2>5 DEF Disconnects, Reconnects, InputEnds, BackendGone, Leave
  <2>6. CASE ClientStep
    BY <2>6 DEF ClientStep, ClientReceives, ClientExhausted, ClientChecks, ClientSends,
            ClientPings, ClientCancelled
  <2>7. CASE ServerStep \/ ServerNotifies
    BY <2>7 DEF ServerStep, ServerProceeds, ServerReleases, ServerDelivers, ServerPings,
            ServerClosed, ServerCancelled, ServerNotifies
  <2>8. ASSUME NEW id, ServerResponds(id) \/ ServerAsks(id) PROVE Generations'
    BY <2>8 DEF ServerResponds, ServerAsks
  <2>9. QED
    BY <2>1, <2>2, <2>3, <2>4, <2>5, <2>6, <2>7, <2>8 DEF Next, RelayStep
<1>3. QED
  BY <1>1, <1>2, BridgeTypeCorrect, PTL DEF Spec

\* Backends come and go in three actions only; all others leave both
\* generations, alive and identity, as they are.
Replacing == BackendStops \/ BackendStarts \/ Endpoint

LEMMA SameBackend ==
    ASSUME [Next]_vars, ~Replacing
    PROVE  alive' = alive /\ identity' = identity
<1> USE DEF restVars, stdinVars, clientVars, relayVars, wireVars, backendVars
<1>1. ASSUME NEW m, ReadMessage(m) \/ RejectMessage(m)
      PROVE alive' = alive /\ identity' = identity
  BY <1>1 DEF ReadMessage, RejectMessage
<1>2. CASE CloseInput \/ InputFails \/ Posted \/ UNCHANGED vars
  BY <1>2 DEF CloseInput, InputFails, Posted, vars
<1>3. CASE RelayStep
  BY <1>3 DEF RelayStep, ReceiveFirst, EndOfStream, EndpointFails, ActivateFails,
          ConnectFails, MoveRelay, Activate, Connect, Disconnects, Reconnects, InputEnds,
          BackendGone, Leave, Replacing
<1>4. CASE ClientStep
  BY <1>4 DEF ClientStep, ClientReceives, ClientExhausted, ClientChecks, ClientSends,
          ClientPings, ClientCancelled
<1>5. CASE ServerStep \/ ServerNotifies
  BY <1>5 DEF ServerStep, ServerProceeds, ServerReleases, ServerDelivers, ServerPings,
          ServerClosed, ServerCancelled, ServerNotifies
<1>6. ASSUME NEW id, ServerResponds(id) \/ ServerAsks(id)
      PROVE alive' = alive /\ identity' = identity
  BY <1>6 DEF ServerResponds, ServerAsks
<1>7. QED
  BY <1>1, <1>2, <1>3, <1>4, <1>5, <1>6 DEF Next, Replacing

LEMMA GoneStays ==
    ASSUME TypeOK, Generations, [Next]_vars, relay # "endpoint", identity # 0, Gone
    PROVE  Gone'
<1>0. identity \in Nat /\ started \in Nat /\ alive \in Int
  BY ConstantsAssumption DEF TypeOK
<1>1. CASE BackendStops \/ BackendStarts
  BY <1>0, <1>1 DEF BackendStops, BackendStarts, relayVars, Generations, Gone
<1>2. CASE ~Replacing
  BY <1>2, SameBackend DEF Gone
<1>3. QED
  BY <1>1, <1>2 DEF Replacing, Endpoint

-----------------------------------------------------------------------------
(* What the steps do to the rest of the attempt *)

LEMMA NoAttemptMarks ==
    /\ NoAttempt.server = "done" /\ NoAttempt.client = "done"
    /\ NoAttempt.outgoing = NoId /\ NoAttempt.barrier = "none"
    /\ NoAttempt.reconnect = None /\ NoAttempt.forwarded = {} /\ NoAttempt.unanswered = 0
    /\ NoAttempt.exhausted = FALSE /\ NoAttempt.raised = FALSE
    /\ NoAttempt.cancelled = FALSE
  BY DEF NoAttempt

Ending == Disconnects \/ Reconnects \/ InputEnds \/ BackendGone

\* A connection starts with both tasks running, and ends when both are done, or
\* with the bridge.
LEMMA RelayMarks ==
    ASSUME TypeOK, InHand
    PROVE  /\ Connect =>
                /\ att'.server = "receive" /\ att'.outgoing = NoId
                /\ att'.barrier = "none" /\ att'.exhausted = FALSE
                /\ att'.raised = FALSE /\ att'.cancelled = FALSE
                /\ relay = "connect" /\ relay' = "relay"
           /\ Ending =>
                /\ att' = NoAttempt /\ relay = "relay" /\ relay' # "relay"
                /\ att.server = "done" /\ att.client = "done"
                /\ open' = {} /\ posting' = None
           /\ InputFails =>
                /\ att' = NoAttempt /\ relay' = "failed" /\ open' = {} /\ posting' = None
<1>1. ASSUME Connect
      PROVE  /\ att'.server = "receive" /\ att'.outgoing = NoId
             /\ att'.barrier = "none" /\ att'.exhausted = FALSE
             /\ att'.raised = FALSE /\ att'.cancelled = FALSE
             /\ relay = "connect" /\ relay' = "relay"
  <2> DEFINE a == [NoAttempt EXCEPT !.client = "receive", !.server = "receive"]
  <2>1. /\ a \in Attempt /\ a.server = "receive" /\ a.outgoing = NoId
        /\ a.barrier = "none" /\ a.exhausted = FALSE /\ a.raised = FALSE
        /\ a.cancelled = FALSE
    BY NoAttemptMarks, NoAttemptType DEF Attempt
  <2>2. att' = Forwarded(a, first) /\ relay = "connect" /\ relay' = "relay"
    BY <1>1 DEF Connect
  <2> HIDE DEF a
  <2>3. QED
    BY <2>1, <2>2 DEF Forwarded, Attempt
<1>2. ASSUME Ending
      PROVE  /\ att' = NoAttempt /\ relay = "relay" /\ relay' # "relay"
             /\ att.server = "done" /\ att.client = "done"
             /\ open' = {} /\ posting' = None
  BY <1>2 DEF Ending, Disconnects, Reconnects, InputEnds, BackendGone, Leave, Client, Server
<1>3. QED
  BY <1>1, <1>2 DEF InputFails

\* _client_to_http leaves what _http_to_client has in hand alone; it alone makes
\* the input exhausted, and asks for the barrier or for a new connection.
LEMMA ClientMarks ==
    ASSUME TypeOK, InHand
    PROVE  /\ ClientStep =>
                /\ att'.server = att.server /\ att'.outgoing = att.outgoing
                /\ att'.raised = att.raised /\ relay = "relay" /\ relay' = relay
           /\ ClientReceives \/ ClientSends \/ ClientPings \/ ClientCancelled =>
                /\ att'.barrier = att.barrier /\ att'.exhausted = att.exhausted
                /\ att'.cancelled = att.cancelled
           /\ ClientExhausted =>
                /\ att'.barrier = att.barrier /\ att'.exhausted = TRUE
                /\ att'.cancelled = TRUE
           /\ ClientChecks =>
                /\ att'.exhausted = att.exhausted
                /\ \/ /\ Gone /\ att'.client = "done" /\ att'.barrier = att.barrier
                      /\ att'.cancelled = TRUE
                   \/ /\ att'.client = "send" /\ att'.barrier = att.barrier
                      /\ att'.cancelled = att.cancelled
                   \/ /\ att'.client = "ping" /\ att'.barrier = "pinging"
                      /\ att.forwarded = {} /\ att'.cancelled = att.cancelled
                   \/ /\ att'.client = "done" /\ att'.barrier = "requested"
                      /\ att.forwarded # {} /\ att'.cancelled = att.cancelled
<1> USE DEF TypeOK
<1>1. ASSUME ClientReceives \/ ClientPings \/ ClientCancelled
      PROVE  /\ att'.server = att.server /\ att'.outgoing = att.outgoing
             /\ att'.raised = att.raised /\ att'.barrier = att.barrier
             /\ att'.exhausted = att.exhausted /\ att'.cancelled = att.cancelled
  BY <1>1 DEF ClientReceives, ClientPings, ClientCancelled, Attempt
<1>2. ASSUME ClientSends
      PROVE  /\ att'.server = att.server /\ att'.outgoing = att.outgoing
             /\ att'.raised = att.raised /\ att'.barrier = att.barrier
             /\ att'.exhausted = att.exhausted /\ att'.cancelled = att.cancelled
  <2>1. att' = [Forwarded(att, att.item) EXCEPT !.client = "receive", !.item = None]
    BY <1>2 DEF ClientSends
  <2>2. QED
    BY <2>1 DEF Forwarded, Attempt
<1>3. ASSUME ClientExhausted
      PROVE  /\ att'.server = att.server /\ att'.outgoing = att.outgoing
             /\ att'.raised = att.raised /\ att'.barrier = att.barrier
             /\ att'.exhausted = TRUE /\ att'.cancelled = TRUE
  BY <1>3 DEF ClientExhausted, Attempt
<1>4. ASSUME ClientChecks
      PROVE  /\ att'.server = att.server /\ att'.outgoing = att.outgoing
             /\ att'.raised = att.raised /\ att'.exhausted = att.exhausted
             /\ \/ /\ Gone /\ att'.client = "done" /\ att'.barrier = att.barrier
                   /\ att'.cancelled = TRUE
                \/ /\ att'.client = "send" /\ att'.barrier = att.barrier
                   /\ att'.cancelled = att.cancelled
                \/ /\ att'.client = "ping" /\ att'.barrier = "pinging"
                   /\ att.forwarded = {} /\ att'.cancelled = att.cancelled
                \/ /\ att'.client = "done" /\ att'.barrier = "requested"
                   /\ att.forwarded # {} /\ att'.cancelled = att.cancelled
  BY <1>4 DEF ClientChecks, Keep, Replaced, Gone, Attempt
<1>5. ASSUME ClientStep PROVE relay = "relay" /\ relay' = relay
  BY <1>5 DEF ClientStep, ClientReceives, ClientExhausted, ClientChecks, ClientSends,
          ClientPings, ClientCancelled, Client, restVars, relayVars
<1>6. QED
  BY <1>1, <1>2, <1>3, <1>4, <1>5 DEF ClientStep

\* _http_to_client never makes the input exhausted; its end cancels the other.
LEMMA ServerMarks ==
    ASSUME TypeOK, InHand
    PROVE  /\ ServerStep \/ ServerNotifies =>
                /\ att'.exhausted = att.exhausted /\ relay = "relay" /\ relay' = relay
           /\ ServerReleases =>
                /\ att'.server = "done" /\ att'.outgoing = att.outgoing
                /\ att'.barrier = "none" /\ att'.raised = att.raised
                /\ att'.cancelled = TRUE
           /\ ServerNotifies =>
                /\ att'.server = "respond" /\ att'.outgoing = NoId
                /\ att'.barrier = att.barrier /\ att'.raised = att.raised
                /\ att'.cancelled = att.cancelled
           /\ ServerDelivers =>
                /\ att'.outgoing = NoId /\ att'.raised = att.raised
                /\ att'.cancelled = att.cancelled
                /\ \/ BarrierDue /\ att'.server = "ping" /\ att'.barrier = "pinging"
                   \/ ~BarrierDue /\ att'.server = "receive" /\ att'.barrier = att.barrier
           /\ ServerPings =>
                /\ att'.server = "receive" /\ att'.outgoing = att.outgoing
                /\ att'.barrier = att.barrier /\ att'.raised = att.raised
                /\ att'.cancelled = att.cancelled
           /\ ServerClosed =>
                /\ att'.server = "done" /\ att'.outgoing = att.outgoing
                /\ att'.barrier = att.barrier /\ att'.cancelled = TRUE
           /\ ServerCancelled =>
                /\ att'.server = "done" /\ att'.outgoing = NoId
                /\ att'.barrier = att.barrier /\ att'.raised = att.raised
                /\ att'.cancelled = att.cancelled
           /\ \A id : ServerResponds(id) \/ ServerAsks(id) =>
                /\ att'.barrier = att.barrier /\ att'.exhausted = att.exhausted
                /\ relay = "relay" /\ relay' = relay
                /\ \/ /\ att'.outgoing = id /\ att'.raised = att.raised
                      /\ att'.cancelled = att.cancelled /\ att'.server \in {"respond", "ask"}
                      /\ ServerResponds(id) => att'.server = "respond"
                   \/ /\ att'.outgoing = att.outgoing /\ att'.raised /\ att'.cancelled
                      /\ att'.server = "done" /\ "lockTimeout" \in Faults
<1> USE DEF TypeOK, restVars, relayVars
<1>1. ASSUME ServerReleases
      PROVE  /\ att'.server = "done" /\ att'.outgoing = att.outgoing
             /\ att'.barrier = "none" /\ att'.raised = att.raised
             /\ att'.cancelled = TRUE /\ att'.exhausted = att.exhausted
             /\ relay = "relay" /\ relay' = relay
  BY <1>1 DEF ServerReleases, Listening, Server, Attempt
<1>2. ASSUME ServerNotifies
      PROVE  /\ att'.server = "respond" /\ att'.outgoing = NoId
             /\ att'.barrier = att.barrier /\ att'.raised = att.raised
             /\ att'.cancelled = att.cancelled /\ att'.exhausted = att.exhausted
             /\ relay = "relay" /\ relay' = relay
  BY <1>2 DEF ServerNotifies, Listening, Server, Attempt
<1>3. ASSUME ServerDelivers
      PROVE  /\ att'.outgoing = NoId /\ att'.raised = att.raised
             /\ att'.cancelled = att.cancelled /\ att'.exhausted = att.exhausted
             /\ relay = "relay" /\ relay' = relay
             /\ \/ BarrierDue /\ att'.server = "ping" /\ att'.barrier = "pinging"
                \/ ~BarrierDue /\ att'.server = "receive" /\ att'.barrier = att.barrier
  BY <1>3 DEF ServerDelivers, Attempt
<1>4. ASSUME ServerPings
      PROVE  /\ att'.server = "receive" /\ att'.outgoing = att.outgoing
             /\ att'.barrier = att.barrier /\ att'.raised = att.raised
             /\ att'.cancelled = att.cancelled /\ att'.exhausted = att.exhausted
             /\ relay = "relay" /\ relay' = relay
  BY <1>4 DEF ServerPings, Server, Attempt
<1>5. ASSUME ServerClosed
      PROVE  /\ att'.server = "done" /\ att'.outgoing = att.outgoing
             /\ att'.barrier = att.barrier /\ att'.cancelled = TRUE
             /\ att'.exhausted = att.exhausted /\ relay = "relay" /\ relay' = relay
  <2>1. PICK raises \in BOOLEAN :
           att' = [att EXCEPT !.server = "done", !.cancelled = TRUE, !.raised = raises]
    BY <1>5 DEF ServerClosed
  <2>2. QED
    BY <1>5, <2>1 DEF ServerClosed, Server, Attempt
<1>6. ASSUME ServerCancelled
      PROVE  /\ att'.server = "done" /\ att'.outgoing = NoId
             /\ att'.barrier = att.barrier /\ att'.raised = att.raised
             /\ att'.cancelled = att.cancelled /\ att'.exhausted = att.exhausted
             /\ relay = "relay" /\ relay' = relay
  BY <1>6 DEF ServerCancelled, Attempt
<1>7. ASSUME NEW id, ServerResponds(id) \/ ServerAsks(id)
      PROVE  /\ att'.barrier = att.barrier /\ att'.exhausted = att.exhausted
             /\ relay = "relay" /\ relay' = relay
             /\ \/ /\ att'.outgoing = id /\ att'.raised = att.raised
                   /\ att'.cancelled = att.cancelled /\ att'.server \in {"respond", "ask"}
                   /\ ServerResponds(id) => att'.server = "respond"
                \/ /\ att'.outgoing = att.outgoing /\ att'.raised /\ att'.cancelled
                   /\ att'.server = "done" /\ "lockTimeout" \in Faults
  <2>1. PICK label \in {"respond", "ask"} :
           TakesUp(id, label) /\ (ServerResponds(id) => label = "respond")
    BY <1>7 DEF ServerResponds, ServerAsks
  <2>2. relay = "relay" /\ relay' = relay
    BY <1>7 DEF ServerResponds, ServerAsks, Listening, Server
  <2>3. CASE att' = [Bookkept(id) EXCEPT !.server = label, !.outgoing = id]
    BY <2>1, <2>2, <2>3 DEF Bookkept, Attempt
  <2>4. CASE /\ att' = [Bookkept(id) EXCEPT !.server = "done", !.cancelled = TRUE,
                                            !.raised = TRUE]
             /\ "lockTimeout" \in Faults
    BY <2>2, <2>4 DEF Bookkept, Attempt
  <2>5. QED
    BY <2>1, <2>3, <2>4 DEF TakesUp
<1>8. QED
  BY <1>1, <1>2, <1>3, <1>4, <1>5, <1>6, <1>7 DEF ServerStep, ServerProceeds

-----------------------------------------------------------------------------
(* How the tasks stop *)

\* _http_to_client has a message in hand between reading and writing it, and its
\* end cancels the other task.  Whoever cancels it has a reason: the input has
\* ended, or the backend of the connection is gone.  It ends with an exception only
\* when that backend is gone or an update of the lease raises.
Endings ==
    /\ att.raised => Gone \/ "lockTimeout" \in Faults
    /\ att.exhausted => att.reconnect = None /\ att.client = "done"
    /\ att.server \notin {"respond", "ask"} => att.outgoing = NoId
    /\ relay = "relay" /\ att.server = "done" => att.cancelled
    /\ att.cancelled /\ att.server # "done" => att.exhausted \/ Gone

LEMMA EndingsAlways == Spec => []Endings
<1> USE DEF Endings
<1>1. Init => Endings
  BY NoAttemptMarks DEF Init
<1>2. TypeOK /\ InHand /\ Kept /\ Generations /\ Endings /\ [Next]_vars => Endings'
  <2> SUFFICES ASSUME TypeOK, InHand, Kept, Generations, Endings, [Next]_vars
               PROVE  Endings'
    OBVIOUS
  <2> USE DEF restVars, stdinVars, clientVars, relayVars, wireVars, backendVars
  <2>0. relay = "relay" /\ Gone => Gone'
    BY GoneStays DEF InHand
  <2>1. CASE relay # "relay" /\ att' = att /\ relay' # "relay"
    BY <2>1, NoAttemptMarks DEF InHand
  <2>2. CASE relay = "relay" /\ att' = att /\ relay' = relay
    BY <2>0, <2>2
  <2>3. ASSUME NEW m, ReadMessage(m) \/ RejectMessage(m) PROVE Endings'
    BY <2>1, <2>2, <2>3 DEF ReadMessage, RejectMessage
  <2>4. CASE CloseInput \/ Posted \/ BackendStops \/ BackendStarts \/ UNCHANGED vars
    BY <2>1, <2>2, <2>4 DEF CloseInput, Posted, BackendStops, BackendStarts, vars
  <2>5. CASE \/ ReceiveFirst \/ EndOfStream \/ EndpointFails \/ ActivateFails
             \/ ConnectFails \/ Endpoint \/ Activate
    BY <2>1, <2>5 DEF ReceiveFirst, EndOfStream, EndpointFails, ActivateFails,
            ConnectFails, MoveRelay, Endpoint, Activate
  <2>6. CASE Connect
    BY <2>6, RelayMarks
  <2>7. CASE Ending \/ InputFails
    BY <2>7, RelayMarks, NoAttemptMarks
  <2>8. CASE ClientReceives \/ ClientSends \/ ClientPings \/ ClientCancelled
    <3>1. ~att.exhausted \/ att.client = "done"
      OBVIOUS
    <3>2. att.client # "done"
      BY <2>8 DEF ClientReceives, ClientSends, ClientPings, ClientCancelled, Client
    <3>3. QED
      BY <2>0, <2>8, <3>1, <3>2, ClientMarks DEF ClientStep
  <2>9. CASE ClientExhausted
    <3>1. att.client = "receive"
      BY <2>9 DEF ClientExhausted, Client
    <3>2. att'.reconnect = None /\ att'.client = "done"
      BY <2>9, <3>1, ClientFields DEF Kept
    <3>3. QED
      BY <2>0, <2>9, <3>2, ClientMarks DEF ClientStep
  <2>10. CASE ClientChecks
    <3>1. att.client = "check"
      BY <2>10 DEF ClientChecks, Client
    <3>2. QED
      BY <2>0, <2>10, <3>1, ClientMarks DEF ClientStep
  <2>11. CASE ServerReleases \/ ServerDelivers \/ ServerPings \/ ServerCancelled
              \/ ServerNotifies
    <3>1. att'.client = att.client /\ att'.reconnect = att.reconnect
      BY <2>11, ServerFields
    <3>2. ServerReleases \/ ServerPings => att.server \in {"receive", "ping"}
      BY DEF ServerReleases, ServerPings, Listening, Server
    <3>3. ServerDelivers \/ ServerNotifies => ~att.cancelled
      BY DEF ServerDelivers, ServerNotifies, Listening, Uncancelled
    <3>4. ServerCancelled => att.cancelled
      BY DEF ServerCancelled
    <3>5. QED
      BY <2>0, <2>11, <3>1, <3>2, <3>3, <3>4, ServerMarks DEF ServerStep, ServerProceeds
  <2>12. CASE ServerClosed
    <3>1. att'.client = att.client /\ att'.reconnect = att.reconnect
      BY <2>12, ServerFields
    <3>2. att.server = "receive" /\ Gone
      BY <2>12 DEF ServerClosed, Server, Gone
    <3>3. QED
      BY <2>0, <2>12, <3>1, <3>2, ServerMarks DEF ServerStep, ServerProceeds
  <2>13. ASSUME NEW id, ServerResponds(id) \/ ServerAsks(id) PROVE Endings'
    <3>1. att'.client = att.client /\ att'.reconnect = att.reconnect
      BY <2>13, ServerFields
    <3>2. ~att.cancelled /\ att.server = "receive"
      BY <2>13 DEF ServerResponds, ServerAsks, Listening, Server, Uncancelled
    <3>3. CASE att'.server = "done"
      BY <2>0, <2>13, <3>1, <3>2, <3>3, ServerMarks
    <3>4. CASE att'.server # "done"
      BY <2>0, <2>13, <3>1, <3>2, <3>4, ServerMarks
    <3>5. QED
      BY <3>3, <3>4
  <2>14. QED
    BY <2>3, <2>4, <2>5, <2>6, <2>7, <2>8, <2>9, <2>10, <2>11, <2>12, <2>13
       DEF Next, RelayStep, ClientStep, ServerStep, ServerProceeds, Ending
<1>3. QED
  BY <1>1, <1>2, BridgeTypeCorrect, KeptAlways, GenerationsAlways, PTL DEF Spec

-----------------------------------------------------------------------------
(* Answers *)

\* A request leaves pending with its response in hand, and the response leaves
\* the hand for stdout, or is lost when the task that has it is cancelled or raises,
\* or with the bridge.
LEMMA AnswersMove ==
    ASSUME TypeOK, InHand, Endings, [Next]_vars, ServerIds \cap Requests = {},
           NEW id \in Requests, Remembered(id), ~Remembered(id)'
    PROVE  relay = "relay" /\ (att.exhausted \/ Gone \/ att'.raised \/ relay' = "failed")
<1> USE DEF restVars, stdinVars, clientVars, relayVars, wireVars, backendVars, Remembered
<1>0. NoId \notin Requests
  BY ConstantsAssumption DEF Requests
<1>1. ASSUME NEW m, ReadMessage(m) \/ RejectMessage(m) PROVE FALSE
  BY <1>1 DEF ReadMessage, RejectMessage
<1>2. CASE CloseInput \/ Posted \/ BackendStops \/ BackendStarts \/ UNCHANGED vars
  BY <1>2 DEF CloseInput, Posted, BackendStops, BackendStarts, vars
<1>2a. CASE InputFails
  <2>1. relay # "relay" => att.outgoing = NoId
    BY NoAttemptMarks DEF InHand
  <2>2. id = att.outgoing /\ relay' = "failed"
    BY <1>2a DEF InputFails
  <2>3. QED
    BY <1>0, <2>1, <2>2
<1>3. CASE \/ ReceiveFirst \/ EndOfStream \/ EndpointFails \/ ActivateFails
           \/ ConnectFails \/ Endpoint \/ Activate
  BY <1>3 DEF ReceiveFirst, EndOfStream, EndpointFails, ActivateFails, ConnectFails,
          MoveRelay, Endpoint, Activate
<1>4. CASE Connect
  <2>1. att.outgoing = NoId
    BY <1>4, NoAttemptMarks DEF Connect, InHand
  <2>2. QED
    BY <1>0, <1>4, <2>1 DEF Connect
<1>5. CASE Ending
  <2>1. att.outgoing = NoId
    BY <1>5, RelayMarks DEF Endings
  <2>2. QED
    BY <1>0, <1>5, <2>1 DEF Ending, Disconnects, Reconnects, InputEnds, BackendGone, Leave
<1>6. CASE ClientStep
  <2>1. att'.outgoing = att.outgoing
    BY <1>6, ClientMarks
  <2>2. pending' = pending /\ answered' = answered
    BY <1>6 DEF ClientStep, ClientReceives, ClientExhausted, ClientChecks, ClientSends,
            ClientPings, ClientCancelled
  <2>3. QED
    BY <2>1, <2>2
<1>7. CASE ServerReleases \/ ServerPings \/ ServerClosed
  <2>1. att'.outgoing = att.outgoing
    BY <1>7, ServerMarks
  <2>2. QED
    BY <1>7, <2>1 DEF ServerReleases, ServerPings, ServerClosed
<1>8. CASE ServerNotifies
  <2>1. att.outgoing = NoId
    BY <1>8 DEF ServerNotifies, Listening, Server, Endings
  <2>2. QED
    BY <1>0, <1>8, <2>1 DEF ServerNotifies
<1>9. CASE ServerDelivers
  <2>1. att.server = "ask" => att.outgoing \notin Requests
    BY DEF InHand
  <2>2. pending' = pending /\ (att.server = "respond" => att.outgoing \in answered' \cup {NoId})
          /\ answered \subseteq answered' /\ att.server \in {"respond", "ask"}
    BY <1>9 DEF ServerDelivers
  <2>3. QED
    BY <1>0, <2>1, <2>2
<1>10. ASSUME NEW i, ServerResponds(i) \/ \E j \in ServerIds : i = j /\ ServerAsks(i)
       PROVE  relay = "relay" /\ att'.raised
  <2>1. att.outgoing = NoId
    BY <1>10 DEF ServerResponds, ServerAsks, Listening, Server, Endings
  <2>2. pending' = pending \ {i} /\ answered' = answered
    BY <1>10 DEF ServerResponds, ServerAsks
  <2>3. relay = "relay" /\ (att'.outgoing = i \/ att'.raised)
    BY <1>10, ServerMarks
  <2>4. QED
    BY <1>0, <2>1, <2>2, <2>3
<1>11. CASE ServerCancelled
  BY <1>11 DEF ServerCancelled, Endings
<1>12. QED
  BY <1>1, <1>2, <1>2a, <1>3, <1>4, <1>5, <1>6, <1>7, <1>8, <1>9, <1>10, <1>11
     DEF Next, RelayStep, ServerStep, ServerProceeds, Ending

\* If Serena's request ids are never the client's, an answer is only lost with a
\* connection that the end of the input, the loss of its backend or an exception of
\* the lease or of stdin has ended, for every fault, number of messages and of
\* backends (AnswersKept; the two tasks of _run_connection and the cancellation of
\* one by the other).
THEOREM AnswersAreKept ==
    ASSUME ServerIds \cap Requests = {} PROVE Spec => AnswersKept
<1>1. TypeOK /\ InHand /\ Endings /\ [Next]_vars
        => [\A id \in Requests : Remembered(id) /\ ~Remembered(id)' =>
               relay = "relay" /\ (att.exhausted \/ alive # identity \/ att'.raised \/ relay' = "failed")]_vars
  BY AnswersMove DEF Gone
<1>2. QED
  BY <1>1, BridgeTypeCorrect, EndingsAlways, PTL DEF Spec, AnswersKept

-----------------------------------------------------------------------------
(* The transport barrier *)

\* The wire carries what was forwarded and the barrier, and the barrier goes last:
\* it is asked for by a task that forwards nothing more, waits for what is
\* forwarded, and is posted behind everything else.  A connection that keeps a
\* message for the next one while its backend lives is behind its barrier, or has
\* it released.
Flushing ==
    /\ relay # "relay" => open = {} /\ posting = None
    /\ open \subseteq att.forwarded \cup {Ping}
    /\ Ping \in open => /\ posting = None /\ att.client = "done"
                        /\ att.reconnect # None /\ att.forwarded = {}
    /\ att.barrier = "requested" => att.client = "done" /\ att.reconnect # None
    /\ att.barrier = "requested" /\ att.server = "receive" => att.forwarded # {}
    /\ att.barrier = "pinging" => /\ att.client \in {"ping", "done"}
                                  /\ att.reconnect # None /\ att.forwarded = {}
    /\ att.client = "ping" => att.barrier = "pinging"
    /\ att.server = "ping" => att.barrier = "pinging" /\ att.client = "done"
    /\ att.reconnect # None /\ ~Gone =>
          \/ att.barrier # "none"
          \/ att.server = "done" /\ (posting = None \/ att.forwarded # {})

\* The barrier and a notification have ids of their own.
LEMMA DistinctIds ==
    Ping \notin Requests /\ Ping \notin ServerIds /\ NoId # Ping
<1>1. Requests \subseteq Nat /\ ServerIds \subseteq Nat
  BY ConstantsAssumption DEF Requests
<1>2. Ping \notin Nat /\ NoId \notin Nat \cup {Ping}
  BY ConstantsAssumption
<1>3. QED
  BY <1>1, <1>2

\* What a message adds to the wire, the bookkeeping adds to what is forwarded.
LEMMA SubmitWire ==
    ASSUME TypeOK, NEW m \in Genuine, Submit(m)
    PROVE  open' \subseteq open \cup ({m.id} \ {NoId}) /\ open \subseteq open'
<1>1. m.kind \in RequestKinds => m.id # NoId
  BY ConstantsAssumption DEF Genuine, Message, Requests
<1>2. QED
  BY <1>1 DEF Submit

LEMMA FlushingAlways ==
    ASSUME ServerIds \cap Requests = {} PROVE Spec => []Flushing
<1> USE DEF Flushing
<1>1. Init => Flushing
  BY NoAttemptMarks DEF Init
<1>2. TypeOK /\ InHand /\ Kept /\ Generations /\ Flushing /\ [Next]_vars => Flushing'
  <2> SUFFICES ASSUME TypeOK, InHand, Kept, Generations, Flushing, [Next]_vars
               PROVE  Flushing'
    OBVIOUS
  <2> USE DEF restVars, stdinVars, clientVars, relayVars, wireVars, backendVars
  <2>0. /\ relay = "relay" /\ Gone => Gone'
        /\ Ping \notin Requests /\ Ping \notin ServerIds /\ NoId # Ping
    <3>1. relay = "relay" /\ Gone => Gone'
      BY GoneStays DEF InHand
    <3>2. QED
      BY <3>1, DistinctIds
  <2>1. CASE relay # "relay" /\ att' = att /\ relay' # "relay" /\ open' = open
               /\ posting' = posting
    BY <2>1, NoAttemptMarks DEF InHand
  <2>2. CASE relay = "relay" /\ att' = att /\ relay' = relay /\ open' = open
               /\ posting' \in {posting, None}
    BY <2>0, <2>2
  <2>3. ASSUME NEW m, ReadMessage(m) \/ RejectMessage(m) PROVE Flushing'
    BY <2>1, <2>2, <2>3 DEF ReadMessage, RejectMessage
  <2>4. CASE CloseInput \/ Posted \/ BackendStops \/ BackendStarts \/ UNCHANGED vars
    BY <2>1, <2>2, <2>4 DEF CloseInput, Posted, BackendStops, BackendStarts, vars
  <2>5. CASE \/ ReceiveFirst \/ EndOfStream \/ EndpointFails \/ ActivateFails
             \/ ConnectFails \/ Endpoint \/ Activate
    BY <2>1, <2>5 DEF ReceiveFirst, EndOfStream, EndpointFails, ActivateFails,
            ConnectFails, MoveRelay, Endpoint, Activate
  <2>6. CASE Connect
    <3>1. relay = "connect" /\ first \in Genuine /\ Submit(first)
      BY <2>6 DEF Connect, InHand
    <3>2. open' \subseteq {first.id} \ {NoId} /\ first.id # Ping
      BY <2>0, <3>1, SubmitWire DEF Genuine, Message
    <3>3. att'.forwarded = {first.id} \ {NoId} /\ att'.reconnect = None
            /\ att'.client = "receive"
      BY <2>6, RelayFields
    <3>4. QED
      BY <2>6, <3>2, <3>3, RelayMarks
  <2>7. CASE Ending \/ InputFails
    BY <2>7, RelayMarks, NoAttemptMarks
  <2>8. CASE ClientReceives \/ ClientExhausted \/ ClientCancelled
    <3>1. /\ open' = open /\ posting' = posting /\ att'.forwarded = att.forwarded
          /\ att'.reconnect = att.reconnect /\ att'.client \in {"check", "done"}
          /\ (ClientReceives => att.client = "receive") /\ att.client # "done"
          /\ att'.client = "check" => att.client = "receive"
      BY <2>8, ClientFields DEF ClientReceives, ClientExhausted, ClientCancelled, Client
    <3>2. /\ att'.barrier = att.barrier /\ att'.server = att.server
          /\ relay = "relay" /\ relay' = relay
      BY <2>8, ClientMarks DEF ClientStep
    <3>3. QED
      BY <2>0, <3>1, <3>2
  <2>9. CASE ClientSends
    <3>1. /\ relay = "relay" /\ att.client = "send" /\ att.item \in Genuine /\ Submit(att.item)
          /\ att.reconnect = None
      BY <2>9 DEF ClientSends, Client, InHand, Kept
    <3>2. open' \subseteq open \cup ({att.item.id} \ {NoId}) /\ att.item.id # Ping
      BY <2>0, <3>1, SubmitWire DEF Genuine, Message
    <3>3. /\ att'.forwarded = att.forwarded \cup ({att.item.id} \ {NoId})
          /\ att'.reconnect = None /\ att'.client = "receive"
      BY <2>9, <3>1, ClientFields
    <3>4. /\ att'.barrier = att.barrier /\ att'.server = att.server
          /\ relay' = relay
      BY <2>9, ClientMarks DEF ClientStep
    <3>5. QED
      BY <3>1, <3>2, <3>3, <3>4
  <2>10. CASE ClientChecks
    <3>1. /\ open' = open /\ posting' = posting /\ att'.forwarded = att.forwarded
          /\ att.client = "check" /\ att.reconnect = None
          /\ \/ att'.client = "send" /\ att'.reconnect = att.reconnect
             \/ att'.client \in {"done", "ping"} /\ att'.reconnect # None
      BY <2>10, ClientFields DEF ClientChecks, Client, Kept, InHand
    <3>2. /\ att'.server = att.server /\ relay = "relay" /\ relay' = relay
          /\ \/ Gone /\ att'.client = "done" /\ att'.barrier = att.barrier
             \/ att'.client = "send" /\ att'.barrier = att.barrier
             \/ att'.client = "ping" /\ att'.barrier = "pinging" /\ att.forwarded = {}
             \/ att'.client = "done" /\ att'.barrier = "requested" /\ att.forwarded # {}
      BY <2>10, ClientMarks DEF ClientStep
    <3>3. QED
      BY <2>0, <3>1, <3>2
  <2>11. CASE ClientPings
    <3>1. /\ open' = open \cup {Ping} /\ posting = None /\ posting' = None
          /\ att.client = "ping" /\ att'.client = "done"
          /\ att'.forwarded = att.forwarded /\ att'.reconnect = att.reconnect
      BY <2>11, ClientFields DEF ClientPings, SubmitPing, Client
    <3>2. /\ att'.barrier = att.barrier /\ att'.server = att.server
          /\ relay = "relay" /\ relay' = relay
      BY <2>11, ClientMarks DEF ClientStep
    <3>3. QED
      BY <2>0, <3>1, <3>2
  <2>12. CASE ServerStep \/ ServerNotifies
    <3>0. /\ att'.client = att.client /\ att'.reconnect = att.reconnect
          /\ att'.forwarded = att.forwarded /\ relay = "relay" /\ relay' = relay
          /\ posting' = posting
      BY <2>12, ServerFields, ServerMarks DEF ServerStep, ServerProceeds, ServerReleases,
         ServerDelivers, ServerPings, ServerClosed, ServerCancelled, ServerNotifies,
         SubmitPing
    <3>1. CASE ServerReleases
      <4>1. /\ open' = open /\ att.server = "receive" /\ ~Gone
            /\ Ping \in open \/ att.barrier # "pinging"
            /\ att'.server = "done" /\ att'.barrier = "none"
        BY <3>1, ServerMarks DEF ServerReleases, Listening, Server, Gone
      <4>2. att.reconnect # None => posting = None \/ att.forwarded # {}
        BY <4>1 DEF TypeOK, Attempt
      <4>3. att.client # "ping"
        BY <4>1
      <4>4. QED
        BY <3>0, <4>1, <4>2, <4>3
    <3>2. CASE ServerNotifies
      BY <2>0, <3>0, <3>2, ServerMarks DEF ServerNotifies, Listening, Server
    <3>3. CASE ServerDelivers
      <4>1. open' = open /\ att.server \in {"respond", "ask"}
        BY <3>3 DEF ServerDelivers
      <4>2. \/ BarrierDue /\ att'.server = "ping" /\ att'.barrier = "pinging"
            \/ ~BarrierDue /\ att'.server = "receive" /\ att'.barrier = att.barrier
        BY <3>3, ServerMarks
      <4>3. QED
        BY <2>0, <3>0, <4>1, <4>2 DEF BarrierDue
    <3>4. CASE ServerPings
      <4>1. open' = open \cup {Ping} /\ posting = None /\ att.server = "ping"
        BY <3>4 DEF ServerPings, SubmitPing, Server
      <4>2. att'.server = "receive" /\ att'.barrier = att.barrier
        BY <3>4, ServerMarks
      <4>3. QED
        BY <2>0, <3>0, <4>1, <4>2
    <3>5. CASE ServerClosed \/ ServerCancelled
      <4>1. open' = open /\ att'.server = "done" /\ att'.barrier = att.barrier
        BY <3>5, ServerMarks DEF ServerClosed, ServerCancelled
      <4>2. att.server = "done" => ~ServerClosed /\ ~ServerCancelled
        BY DEF ServerClosed, ServerCancelled, Server
      <4>3. QED
        BY <2>0, <3>0, <3>5, <4>1, <4>2
    <3>6. QED
      BY <2>12, <3>1, <3>2, <3>3, <3>4, <3>5 DEF ServerStep, ServerProceeds
  <2>13. ASSUME NEW id, \/ ServerResponds(id)
                        \/ \E i \in ServerIds : id = i /\ ServerAsks(id)
         PROVE  Flushing'
    <3>1. /\ att'.client = att.client /\ att'.reconnect = att.reconnect
          /\ att'.forwarded = att.forwarded \ {id} /\ att'.barrier = att.barrier
          /\ att'.server \in {"respond", "ask", "done"} /\ relay = "relay" /\ relay' = relay
      BY <2>13, ServerFields, ServerMarks
    <3>2. posting' = posting /\ att.server = "receive" /\ open' \subseteq open
      BY <2>13 DEF ServerResponds, ServerAsks, Listening, Server
    <3>3. id \notin open'
      BY <2>0, <2>13 DEF ServerResponds, ServerAsks, TypeOK
    <3>4. QED
      BY <2>0, <3>1, <3>2, <3>3
  <2>14. QED
    BY <2>3, <2>4, <2>5, <2>6, <2>7, <2>8, <2>9, <2>10, <2>11, <2>12, <2>13
       DEF Next, RelayStep, ClientStep, Ending
<1>3. QED
  BY <1>1, <1>2, BridgeTypeCorrect, KeptAlways, GenerationsAlways, PTL DEF Spec

\* Only a reconnect takes the relay from one connection to the next endpoint.
LEMMA EndpointAgain ==
    ASSUME TypeOK, InHand, [Next]_vars, relay = "relay", relay' = "endpoint"
    PROVE  Reconnects
<1> USE DEF restVars, stdinVars, clientVars, relayVars, wireVars, backendVars
<1>1. ASSUME NEW m, ReadMessage(m) \/ RejectMessage(m) PROVE FALSE
  BY <1>1 DEF ReadMessage, RejectMessage
<1>2. CASE CloseInput \/ Posted \/ BackendStops \/ BackendStarts \/ UNCHANGED vars
  BY <1>2 DEF CloseInput, Posted, BackendStops, BackendStarts, vars
<1>3. CASE \/ ReceiveFirst \/ EndOfStream \/ EndpointFails \/ ActivateFails
           \/ ConnectFails \/ Endpoint \/ Activate \/ Connect
  BY <1>3 DEF ReceiveFirst, EndOfStream, EndpointFails, ActivateFails, ConnectFails,
          MoveRelay, Endpoint, Activate, Connect
<1>4. CASE Disconnects \/ InputEnds \/ BackendGone \/ InputFails
  BY <1>4 DEF Disconnects, InputEnds, BackendGone, InputFails, Leave
<1>5. CASE ClientStep \/ ServerStep \/ ServerNotifies
  BY <1>5, ClientMarks, ServerMarks
<1>6. ASSUME NEW id, ServerResponds(id) \/ ServerAsks(id) PROVE FALSE
  BY <1>6, ServerMarks
<1>7. QED
  BY <1>1, <1>2, <1>3, <1>4, <1>5, <1>6 DEF Next, RelayStep

\* If Serena's request ids are never the client's, the relay leaves a live backend
\* to activate it only after all it has submitted is posted and answered, for
\* every fault, notifications of Serena included (FlushedBeforeActivation;
\* _queue_transport_barrier and the check of submitted_messages against
\* completed_messages at the end of _run_connection).
THEOREM ActivationWaitsForTheFlush ==
    ASSUME ServerIds \cap Requests = {} PROVE Spec => FlushedBeforeActivation
<1>1. TypeOK /\ InHand /\ Counted /\ Flushing /\ [Next]_vars
        => [relay = "relay" /\ relay' = "endpoint" /\ alive = identity
               => posting = None /\ open \subseteq {Ping}]_vars
  <2> SUFFICES ASSUME TypeOK, InHand, Counted, Flushing, [Next]_vars,
                      relay = "relay", relay' = "endpoint", alive = identity
               PROVE  posting = None /\ open \subseteq {Ping}
    OBVIOUS
  <2>1. Reconnects
    BY EndpointAgain
  <2>2. att.reconnect # None /\ att.unanswered = 0 /\ att.barrier = "none"
    BY <2>1 DEF Reconnects, Disconnected
  <2>3. Cardinality(att.forwarded) \in Nat /\ Cardinality(att.forwarded) <= 0
    BY <2>2, FS_CardinalityType DEF Counted
  <2>4. att.forwarded = {}
    BY <2>3, FS_EmptySet DEF Counted
  <2>5. QED
    BY <2>2, <2>4 DEF Flushing, Gone
<1>2. QED
  BY <1>1, BridgeTypeCorrect, CountedAlways, FlushingAlways, PTL
     DEF Spec, FlushedBeforeActivation

-----------------------------------------------------------------------------
(* Identities of messages *)

\* The ids of the messages on their way to the backend, and of those forwarded
\* and not answered, are those of different messages: each has been read once,
\* and none is both on its way and forwarded.  What is counted as unanswered is
\* then exactly what is forwarded.  A position is that of a request or it is not.
Unique ==
    /\ requested \subseteq 1..read
    /\ \A m \in Transit : m.id # NoId => /\ m.id \in requested \cup replied
                                         /\ m.id \notin att.forwarded
    /\ \A m1, m2 \in Transit : m1.id # NoId /\ m1.id = m2.id => m1 = m2
    /\ \A m \in Transit : m.kind \notin RequestKinds => m.n \notin requested
    /\ att.forwarded \subseteq requested \cup replied
    /\ IsFiniteSet(att.forwarded) /\ att.unanswered = Cardinality(att.forwarded)

\* The four things a step does to ids: a new one is read; one of the messages in
\* hand is forwarded; one is taken from what is forwarded; or none is added.
SameInput  == read' = read /\ requested' = requested /\ replied' = replied
SameBooks  == att'.forwarded = att.forwarded /\ att'.unanswered = att.unanswered
NewId(m)   ==
    /\ requested' = IF m.kind \in RequestKinds THEN requested \cup {m.id} ELSE requested
    /\ \/ m.kind \in RequestKinds /\ m.id = m.n
       \/ m.kind \notin RequestKinds /\ m.id = NoId
       \/ m.kind \notin RequestKinds /\ m.id \in ServerIds \ replied /\ m.id \in replied'
NewIds     ==
    /\ read' = read + 1 /\ SameBooks /\ replied \subseteq replied'
    /\ \/ Transit' \subseteq Transit /\ requested' = requested \cup {read + 1}
       \/ \E m \in Genuine : m.n = read + 1 /\ Transit' \subseteq Transit \cup {m} /\ NewId(m)
Forwarding ==
    /\ SameInput
    /\ \E m \in Transit :
          /\ Transit' \subseteq Transit \ {m}
          /\ att'.forwarded = att.forwarded \cup ({m.id} \ {NoId})
          /\ att'.unanswered = att.unanswered + (IF m.id = NoId THEN 0 ELSE 1)
Answering  ==
    /\ SameInput /\ Transit' \subseteq Transit
    /\ \E id : /\ att'.forwarded = att.forwarded \ {id}
               /\ att'.unanswered = IF id \in att.forwarded THEN att.unanswered - 1
                                    ELSE att.unanswered
Settling   ==
    /\ SameInput /\ Transit' \subseteq Transit
    /\ \/ SameBooks
       \/ att'.forwarded = {} /\ att'.unanswered = 0

LEMMA IdsMove ==
    ASSUME TypeOK, InHand, Kept, InLine, [Next]_vars
    PROVE  NewIds \/ Forwarding \/ Answering \/ Settling
<1> USE DEF restVars, stdinVars, clientVars, relayVars, wireVars, backendVars
<1>0. queue \in Seq(Genuine)
  BY DEF InHand
<1>1. ASSUME NEW m \in Message, ReadMessage(m) PROVE NewIds
  <2>1. m \in Genuine /\ m.n = read + 1 /\ m.n \in Requests
    BY <1>1 DEF ReadMessage, Arriving, Genuine, RequestKinds, Message
  <2>2. Transit' \subseteq Transit \cup {m}
    BY <1>0, <1>1, <2>1, Enqueued DEF ReadMessage, Transit, Held
  <2>3. replied \subseteq replied' /\ read' = read + 1 /\ SameBooks
    BY <1>1, <2>1 DEF ReadMessage, SameBooks
  <2>4. NewId(m)
    BY <1>1, <2>1 DEF ReadMessage, Arriving, TypeOK, NewId, RequestKinds
  <2>5. QED
    BY <2>1, <2>2, <2>3, <2>4 DEF NewIds
<1>2. ASSUME NEW m \in Message, RejectMessage(m) PROVE NewIds
  <2>1. m.id = read + 1 /\ m.n = read + 1
    BY <1>2 DEF RejectMessage, Refusable, Arriving, RequestKinds
  <2>2. QED
    BY <1>2, <2>1 DEF RejectMessage, NewIds, SameBooks, Transit, Held
<1>3. CASE CloseInput \/ Posted \/ BackendStops \/ BackendStarts \/ UNCHANGED vars
  BY <1>3 DEF CloseInput, Posted, BackendStops, BackendStarts, vars, Settling, SameInput,
          SameBooks, Transit, Held
<1>4. CASE \/ EndOfStream \/ EndpointFails \/ ActivateFails \/ ConnectFails
           \/ Endpoint \/ Activate
  BY <1>4 DEF EndOfStream, EndpointFails, ActivateFails, ConnectFails, MoveRelay,
          Endpoint, Activate, Settling, SameInput, SameBooks, Transit, Held
<1>5. CASE ReceiveFirst \/ ClientReceives
  <2>1. Dequeue /\ Held' \subseteq {Head(queue)} /\ SameBooks /\ SameInput
    <3>1. CASE ReceiveFirst
      BY <3>1, NoAttemptType DEF ReceiveFirst, Dequeue, InHand, Held, SameBooks, SameInput
    <3>2. CASE ClientReceives
      BY <3>2, ClientFields DEF ClientReceives, Client, Dequeue, InHand, Kept, Held,
         SameBooks, SameInput
    <3>3. QED
      BY <1>5, <3>1, <3>2
  <2>2. Transit' \subseteq Transit
    BY <1>0, <2>1, Dequeued DEF Transit
  <2>3. QED
    BY <2>1, <2>2 DEF Settling
<1>6. CASE Connect \/ ClientSends
  <2>1. PICK m \in Held :
           /\ Held' = {} /\ queue' = queue /\ SameInput
           /\ att'.forwarded = att.forwarded \cup ({m.id} \ {NoId})
           /\ att'.unanswered = att.unanswered + (IF m.id = NoId THEN 0 ELSE 1)
    <3>1. CASE Connect
      <4>1. first \in Held /\ att.forwarded = {} /\ att.unanswered = 0
        BY <3>1, NoAttemptMarks DEF Connect, InHand, Held
      <4>2. Held' = {} /\ queue' = queue /\ SameInput
        BY <3>1, RelayFields DEF Connect, Held, SameInput
      <4>3. QED
        BY <3>1, <4>1, <4>2, RelayFields
    <3>2. CASE ClientSends
      <4>1. att.item \in Held /\ att.unanswered \in Int
        BY <3>2 DEF ClientSends, Client, InHand, Held, TypeOK, Attempt
      <4>2. Held' = {} /\ queue' = queue /\ SameInput
        BY <3>2, ClientFields DEF ClientSends, Client, InHand, Kept, Held, SameInput
      <4>3. QED
        BY <3>2, <4>1, <4>2, ClientFields
    <3>3. QED
      BY <1>6, <3>1, <3>2
  <2>2. \A j \in DOMAIN queue : queue[j] # m
    <3>1. m.n \in Int
      BY DEF Held, InHand, Genuine, Message, Requests
    <3>2. QED
      BY <3>1 DEF InLine
  <2>3. Transit' \subseteq Transit \ {m} /\ m \in Transit
    BY <2>1, <2>2 DEF Transit
  <2>4. QED
    BY <2>1, <2>3 DEF Forwarding
<1>7. CASE Ending
  BY <1>7, RelayMarks, NoAttemptMarks, NoAttemptType DEF Ending, Disconnects, InputEnds, BackendGone,
     Reconnects, Leave, Settling, SameInput, SameBooks, Transit, Held, InHand
<1>7a. CASE InputFails
  BY <1>7a, RelayFields DEF InputFails, Settling, SameInput, Transit, Held
<1>8. CASE ClientExhausted \/ ClientPings \/ ClientCancelled \/ ClientChecks
  BY <1>8, ClientFields DEF ClientExhausted, ClientPings, ClientCancelled, ClientChecks,
          Settling, SameInput, SameBooks, Transit, Held
<1>9. CASE ServerStep \/ ServerNotifies
  <2>1. att'.item = att.item /\ att'.reconnect = att.reconnect /\ SameBooks
    BY <1>9, ServerFields DEF ServerStep, ServerProceeds, SameBooks
  <2>2. QED
    BY <1>9, <2>1 DEF ServerStep, ServerProceeds, ServerReleases, ServerDelivers,
       ServerPings, ServerCancelled, ServerClosed, ServerNotifies, Settling, SameInput,
       Transit, Held
<1>10. ASSUME NEW id, ServerResponds(id) \/ ServerAsks(id) PROVE Answering
  <2>1. /\ att'.item = att.item /\ att'.reconnect = att.reconnect
        /\ att'.forwarded = att.forwarded \ {id}
        /\ att'.unanswered = IF id \in att.forwarded THEN att.unanswered - 1
                             ELSE att.unanswered
    BY <1>10, ServerFields
  <2>2. SameInput /\ Transit' = Transit
    BY <1>10, <2>1 DEF ServerResponds, ServerAsks, SameInput, Transit, Held
  <2>3. QED
    BY <2>1, <2>2 DEF Answering
<1>11. QED
  BY <1>1, <1>2, <1>3, <1>4, <1>5, <1>6, <1>7, <1>7a, <1>8, <1>9, <1>10
     DEF Next, RelayStep, ClientStep, Ending

LEMMA UniqueAlways ==
    ASSUME ServerIds \cap Requests = {} PROVE Spec => []Unique
<1> USE DEF Unique
<1>1. Init => Unique
  <2> SUFFICES ASSUME Init PROVE Unique
    OBVIOUS
  <2>1. Transit = {} /\ requested = {} /\ att.forwarded = {} /\ att.unanswered = 0
    BY NoAttemptMarks, NoAttemptType DEF Init, Transit, Held
  <2>2. QED
    BY <2>1, FS_EmptySet
<1>2. TypeOK /\ InHand /\ Kept /\ InLine /\ Unique /\ [Next]_vars => Unique'
  <2> SUFFICES ASSUME TypeOK, InHand, Kept, InLine, Unique, [Next]_vars PROVE Unique'
    OBVIOUS
  <2>0. /\ read \in Nat /\ att.unanswered \in Int /\ replied \subseteq ServerIds
        /\ requested \subseteq Requests /\ Cardinality(att.forwarded) \in Nat
    BY ConstantsAssumption, FS_CardinalityType DEF TypeOK, Attempt
  <2>0a. /\ \A id : id \notin att.forwarded =>
             /\ IsFiniteSet(att.forwarded \cup {id})
             /\ Cardinality(att.forwarded \cup {id}) = Cardinality(att.forwarded) + 1
        /\ \A id : /\ IsFiniteSet(att.forwarded \ {id})
                   /\ Cardinality(att.forwarded \ {id}) = IF id \in att.forwarded
                                                          THEN Cardinality(att.forwarded) - 1
                                                          ELSE Cardinality(att.forwarded)
    <3>1. IsFiniteSet(att.forwarded)
      OBVIOUS
    <3> HIDE DEF Unique
    <3>2. QED
      BY <3>1, FS_AddElement, FS_RemoveElement
  <2>1. CASE NewIds
    <3>0. /\ read + 1 \notin requested /\ read + 1 \in Nat
          /\ \A m \in Transit : m.n <= read /\ m.n \in Int
          /\ att'.forwarded = att.forwarded /\ att'.unanswered = att.unanswered
          /\ read' = read + 1 /\ replied \subseteq replied'
          /\ requested \cup {read + 1} \subseteq 1..read'
      <4>1. \A m \in Transit : m.n <= read /\ m.n \in Int
        BY DEF InLine, Transit, Held, InHand, Genuine, Message, Requests
      <4>2. requested \subseteq 1..read
        OBVIOUS
      <4>3. 1..read \subseteq 1..(read + 1) /\ read + 1 \in 1..(read + 1)
              /\ read + 1 \notin 1..read
        BY <2>0
      <4>4. QED
        BY <2>0, <2>1, <4>1, <4>2, <4>3 DEF NewIds, SameBooks
    <3>1. CASE Transit' \subseteq Transit /\ requested' = requested \cup {read + 1}
      <4>1. \A m \in Transit : m.kind \notin RequestKinds => m.n \notin requested'
        BY <2>0, <3>0, <3>1
      <4>2. QED
        BY <3>0, <3>1, <4>1
    <3>2. CASE \E m \in Genuine :
                  m.n = read + 1 /\ Transit' \subseteq Transit \cup {m} /\ NewId(m)
      <4>1. PICK m \in Genuine :
                  m.n = read + 1 /\ Transit' \subseteq Transit \cup {m} /\ NewId(m)
        BY <3>2
      <4>2. /\ requested' \subseteq 1..read' /\ requested \subseteq requested'
            /\ requested' \subseteq requested \cup {read + 1}
        BY <2>0, <3>0, <4>1 DEF NewId
      <4>3. m.n \in Requests
        BY DEF Genuine, Message
      <4>4. m.id # NoId => m.id \notin requested \cup replied /\ m.id \in requested' \cup replied'
        BY <2>0, <3>0, <4>1, <4>3 DEF NewId
      <4>5. m.kind \notin RequestKinds => m.n \notin requested'
        BY <3>0, <4>1 DEF NewId
      <4>6. \A k \in Transit : k.kind \notin RequestKinds => k.n \notin requested'
        BY <2>0, <3>0, <4>2
      <4>7. QED
        BY <3>0, <4>1, <4>2, <4>4, <4>5, <4>6
    <3>3. QED
      BY <2>1, <3>1, <3>2 DEF NewIds
  <2>2. CASE Forwarding
    <3>1. PICK m \in Transit :
             /\ Transit' \subseteq Transit \ {m}
             /\ att'.forwarded = att.forwarded \cup ({m.id} \ {NoId})
             /\ att'.unanswered = att.unanswered + (IF m.id = NoId THEN 0 ELSE 1)
      BY <2>2 DEF Forwarding
    <3>2. SameInput
      BY <2>2 DEF Forwarding
    <3>3. CASE m.id = NoId
      <4>1. att'.forwarded = att.forwarded /\ att'.unanswered = att.unanswered
        BY <2>0, <3>1, <3>3
      <4>2. QED
        BY <3>1, <3>2, <4>1 DEF SameInput
    <3>4. CASE m.id # NoId
      <4>1. /\ att'.forwarded = att.forwarded \cup {m.id} /\ m.id \notin att.forwarded
            /\ att'.unanswered = att.unanswered + 1
        BY <3>1, <3>4
      <4>2. /\ IsFiniteSet(att'.forwarded)
            /\ Cardinality(att'.forwarded) = Cardinality(att.forwarded) + 1
        BY <2>0a, <4>1
      <4>3. QED
        BY <3>1, <3>2, <3>4, <4>1, <4>2 DEF SameInput
    <3>5. QED
      BY <3>3, <3>4
  <2>3. CASE Answering
    <3>1. PICK id : /\ att'.forwarded = att.forwarded \ {id}
                    /\ att'.unanswered = IF id \in att.forwarded THEN att.unanswered - 1
                                         ELSE att.unanswered
      BY <2>3 DEF Answering
    <3>2. /\ IsFiniteSet(att'.forwarded)
          /\ Cardinality(att'.forwarded) = IF id \in att.forwarded
                                           THEN Cardinality(att.forwarded) - 1
                                           ELSE Cardinality(att.forwarded)
      BY <2>0a, <3>1
    <3>3. QED
      BY <2>0, <2>3, <3>1, <3>2 DEF Answering, SameInput
  <2>4. CASE Settling
    <3>1. IsFiniteSet(att'.forwarded) /\ att'.unanswered = Cardinality(att'.forwarded)
      BY <2>4, FS_EmptySet DEF Settling, SameBooks
    <3>2. QED
      BY <2>4, <3>1 DEF Settling, SameInput, SameBooks
  <2>5. QED
    BY <2>1, <2>2, <2>3, <2>4, IdsMove
<1>3. QED
  BY <1>1, <1>2, BridgeTypeCorrect, KeptAlways, InLineAlways, PTL DEF Spec

-----------------------------------------------------------------------------
(* Waiting *)

\* A request that is forwarded is with the backend until its response is read.  The
\* forwarding task only stops uncancelled for the barrier, and once that is on
\* its way it is on the wire, unless the task that was to send it is cancelled.
Awaited ==
    /\ att.forwarded \cap Requests \subseteq open
    /\ Client("done") /\ Uncancelled => att.barrier # "none"
    /\ att.barrier = "pinging" =>
          Ping \in open \/ att.client = "ping" \/ att.server = "ping" \/ att.cancelled

\* Of the messages on their way only requests have ids of requests.
RepliesApart ==
    \A m \in Transit : m.kind \notin RequestKinds => m.id \in ServerIds \cup {NoId}

LEMMA RepliesApartAlways == Spec => []RepliesApart
<1> USE DEF RepliesApart
<1>1. Init => RepliesApart
  BY NoAttemptType DEF Init, Transit, Held
<1>2. TypeOK /\ InHand /\ Kept /\ InLine /\ RepliesApart /\ [Next]_vars => RepliesApart'
  <2> SUFFICES ASSUME TypeOK, InHand, Kept, InLine, RepliesApart, [Next]_vars
               PROVE  RepliesApart'
    OBVIOUS
  <2>1. CASE Forwarding \/ Answering \/ Settling
    BY <2>1 DEF Forwarding, Answering, Settling
  <2>2. CASE NewIds
    BY <2>2 DEF NewIds, NewId
  <2>3. QED
    BY <2>1, <2>2, IdsMove
<1>3. QED
  BY <1>1, <1>2, BridgeTypeCorrect, KeptAlways, InLineAlways, PTL DEF Spec

LEMMA SubmitAwaited ==
    ASSUME RepliesApart, NEW m \in Transit, Submit(m), ServerIds \cap Requests = {}
    PROVE  ({m.id} \ {NoId}) \cap Requests \subseteq open' /\ open \subseteq open'
<1>1. m.kind \notin RequestKinds => m.id \in ServerIds \cup {NoId}
  BY DEF RepliesApart
<1>2. QED
  BY <1>1 DEF Submit

LEMMA AwaitedAlways ==
    ASSUME ServerIds \cap Requests = {} PROVE Spec => []Awaited
<1> USE DEF Awaited, Client, Uncancelled
<1>1. Init => Awaited
  BY NoAttemptMarks DEF Init
<1>2. TypeOK /\ InHand /\ Flushing /\ RepliesApart /\ Awaited /\ [Next]_vars
        => Awaited'
  <2> SUFFICES ASSUME TypeOK, InHand, Flushing, RepliesApart, Awaited, [Next]_vars
               PROVE  Awaited'
    OBVIOUS
  <2> USE DEF restVars, stdinVars, clientVars, relayVars, wireVars, backendVars
  <2>0. Ping \notin Requests /\ Ping \notin ServerIds
    BY DistinctIds
  <2>1. CASE relay # "relay" /\ att' = att /\ relay' # "relay" /\ open' = open
    BY <2>1, NoAttemptMarks DEF InHand
  <2>2. CASE att' = att /\ relay' = relay /\ open' = open
    BY <2>2
  <2>3. ASSUME NEW m, ReadMessage(m) \/ RejectMessage(m) PROVE Awaited'
    BY <2>2, <2>3 DEF ReadMessage, RejectMessage
  <2>4. CASE CloseInput \/ Posted \/ BackendStops \/ BackendStarts \/ UNCHANGED vars
    BY <2>2, <2>4 DEF CloseInput, Posted, BackendStops, BackendStarts, vars
  <2>5. CASE \/ ReceiveFirst \/ EndOfStream \/ EndpointFails \/ ActivateFails
             \/ ConnectFails \/ Endpoint \/ Activate
    BY <2>1, <2>5 DEF ReceiveFirst, EndOfStream, EndpointFails, ActivateFails,
            ConnectFails, MoveRelay, Endpoint, Activate
  <2>6. CASE Connect
    <3>1. first \in Transit /\ Submit(first)
      BY <2>6 DEF Connect, InHand, Transit, Held
    <3>2. att'.forwarded = {first.id} \ {NoId} /\ att'.client = "receive"
            /\ att'.barrier = "none"
      BY <2>6, RelayFields, RelayMarks
    <3>3. QED
      BY <3>1, <3>2, SubmitAwaited
  <2>7. CASE Ending \/ InputFails
    BY <2>7, RelayMarks, NoAttemptMarks
  <2>8. CASE ClientReceives \/ ClientExhausted \/ ClientCancelled
    <3>1. /\ open' = open /\ att'.forwarded = att.forwarded
          /\ att'.client \in {"check", "done"}
          /\ att'.client = "done" => att'.cancelled
      BY <2>8, ClientFields, ClientMarks
         DEF ClientReceives, ClientExhausted, ClientCancelled
    <3>2. /\ att'.barrier = att.barrier /\ att'.server = att.server
          /\ att.cancelled => att'.cancelled
      BY <2>8, ClientMarks DEF ClientStep
    <3>3. att.client = "ping" => att'.client = "done"
      BY <2>8, ClientFields DEF ClientReceives, ClientExhausted
    <3>4. QED
      BY <3>1, <3>2, <3>3
  <2>9. CASE ClientSends
    <3>1. att.item \in Transit /\ Submit(att.item) /\ att.client = "send"
      BY <2>9 DEF ClientSends, InHand, Transit, Held
    <3>2. /\ att'.forwarded = att.forwarded \cup ({att.item.id} \ {NoId})
          /\ att'.client = "receive" /\ att'.barrier = att.barrier
          /\ att'.server = att.server /\ att'.cancelled = att.cancelled
      BY <2>9, ClientFields, ClientMarks DEF ClientStep
    <3>3. QED
      BY <3>1, <3>2, SubmitAwaited
  <2>10. CASE ClientChecks
    <3>1. open' = open /\ att'.forwarded = att.forwarded /\ att.client = "check"
      BY <2>10, ClientFields DEF ClientChecks
    <3>2. /\ att'.server = att.server
          /\ \/ att'.client = "done" /\ att'.barrier = att.barrier /\ att'.cancelled
             \/ /\ att'.client = "send" /\ att'.barrier = att.barrier
                /\ att'.cancelled = att.cancelled
             \/ att'.client = "ping" /\ att'.barrier = "pinging"
             \/ att'.client = "done" /\ att'.barrier = "requested"
      BY <2>10, ClientMarks DEF ClientStep
    <3>3. att.barrier # "pinging"
      BY <3>1 DEF Flushing
    <3>4. QED
      BY <3>1, <3>2, <3>3
  <2>11. CASE ClientPings
    <3>1. /\ open' = open \cup {Ping} /\ att.client = "ping"
          /\ att'.forwarded = att.forwarded /\ att'.barrier = att.barrier
      BY <2>11, ClientFields, ClientMarks DEF ClientPings, SubmitPing
    <3>2. QED
      BY <3>1 DEF Flushing
  <2>12. CASE ServerStep \/ ServerNotifies
    <3>1. /\ att'.client = att.client /\ att'.forwarded = att.forwarded
          /\ relay' = relay /\ att.cancelled => att'.cancelled
      BY <2>12, ServerFields, ServerMarks DEF ServerStep, ServerProceeds
    <3>2. CASE ServerReleases
      <4>1. open' = open /\ att'.barrier = "none" /\ att'.cancelled
        BY <3>2, ServerMarks DEF ServerReleases
      <4>2. QED
        BY <3>1, <4>1
    <3>3. CASE ServerNotifies
      <4>1. /\ open' = open /\ att.server = "receive" /\ att'.barrier = att.barrier
            /\ att'.cancelled = att.cancelled
        BY <3>3, ServerMarks DEF ServerNotifies, Listening, Server
      <4>2. QED
        BY <2>12, <3>1, <4>1, ServerMarks
    <3>4. CASE ServerDelivers
      <4>1. /\ open' = open /\ att.server \in {"respond", "ask"}
            /\ att'.cancelled = att.cancelled
            /\ \/ att'.server = "ping" /\ att'.barrier = "pinging"
               \/ att'.barrier = att.barrier
        BY <3>4, ServerMarks DEF ServerDelivers
      <4>2. QED
        BY <2>12, <3>1, <4>1, ServerMarks
    <3>5. CASE ServerPings
      <4>1. /\ open' = open \cup {Ping} /\ att'.barrier = att.barrier
            /\ att'.cancelled = att.cancelled
        BY <3>5, ServerMarks DEF ServerPings, SubmitPing
      <4>2. QED
        BY <2>12, <3>1, <4>1, ServerMarks
    <3>6. CASE ServerClosed \/ ServerCancelled
      <4>1. open' = open /\ att'.barrier = att.barrier /\ att'.cancelled
        BY <3>6, ServerMarks DEF ServerClosed, ServerCancelled
      <4>2. QED
        BY <2>12, <3>1, <4>1
    <3>7. QED
      BY <2>12, <3>2, <3>3, <3>4, <3>5, <3>6 DEF ServerStep, ServerProceeds
  <2>13. ASSUME NEW id, \/ ServerResponds(id)
                        \/ \E i \in ServerIds : id = i /\ ServerAsks(id)
         PROVE  Awaited'
    <3>1. /\ att'.client = att.client /\ att'.forwarded = att.forwarded \ {id}
          /\ att'.barrier = att.barrier /\ (att'.cancelled = att.cancelled \/ att'.cancelled)
          /\ relay' = relay /\ relay = "relay"
      BY <2>13, ServerFields, ServerMarks
    <3>2. att.server = "receive" /\ open \ {id} \subseteq open' /\ id # Ping
      BY <2>0, <2>13 DEF ServerResponds, ServerAsks, Listening, Server
    <3>3. QED
      BY <3>1, <3>2
  <2>14. QED
    BY <2>3, <2>4, <2>5, <2>6, <2>7, <2>8, <2>9, <2>10, <2>11, <2>12, <2>13
       DEF Next, RelayStep, ClientStep, Ending
<1>3. QED
  BY <1>1, <1>2, BridgeTypeCorrect, FlushingAlways, RepliesApartAlways, PTL DEF Spec

\* If Serena's request ids are never the client's, a connection that forwards
\* nothing more and whose backend runs waits for a response that is due, or for the
\* id of a reply, however backends come and go and whatever they send: neither
\* task leaves the barrier to the other (WaitIsAnswered; _queue_transport_barrier
\* as called by _client_to_http and by _http_to_client).
THEOREM NobodyWaitsInVain ==
    ASSUME ServerIds \cap Requests = {} PROVE Spec => []WaitIsAnswered
<1>1. TypeOK /\ Flushing /\ Unique /\ Awaited => WaitIsAnswered
  <2> SUFFICES ASSUME TypeOK, Flushing, Unique, Awaited,
                      Client("done"), Server("receive"), Uncancelled, open = {}
               PROVE  att.forwarded \cap replied # {}
    BY DEF WaitIsAnswered
  <2>1. att.barrier = "requested"
    BY DEF Awaited, Client, Server, Uncancelled, TypeOK, Attempt
  <2>2. PICK id \in att.forwarded : TRUE
    BY <2>1 DEF Flushing, Server
  <2>3. id \notin Requests
    BY <2>2 DEF Awaited
  <2>4. QED
    BY <2>2, <2>3 DEF Unique, TypeOK
<1>2. QED
  BY <1>1, BridgeTypeCorrect, FlushingAlways, UniqueAlways, AwaitedAlways, PTL

-----------------------------------------------------------------------------
(* Failures *)

\* A client that initializes first has done so before anything is in hand.
Opened == read > 0 => initialize

LEMMA OpenedAlways == ASSUME "uninitialized" \notin Faults PROVE Spec => []Opened
<1> USE DEF Opened
<1>1. Init => Opened
  BY DEF Init
<1>2. TypeOK /\ InHand /\ Opened /\ [Next]_vars => Opened'
  <2> SUFFICES ASSUME TypeOK, InHand, Opened, [Next]_vars PROVE Opened'
    OBVIOUS
  <2> USE DEF restVars, stdinVars, clientVars, relayVars, wireVars, backendVars
  <2>0. read \in Nat
    BY ConstantsAssumption DEF TypeOK
  <2>1. ASSUME NEW m \in Message, ReadMessage(m) PROVE Opened'
    <3>1. read > 0 \/ m.n = 1
      BY <2>0, <2>1 DEF ReadMessage, Arriving
    <3>2. initialize \/ m.kind = "initialize"
      BY <2>1, <3>1 DEF ReadMessage, Arriving
    <3>3. initialize' = (initialize \/ m.kind = "initialize")
      BY <2>1 DEF ReadMessage
    <3>4. QED
      BY <3>2, <3>3
  <2>2. ASSUME NEW m \in Message, RejectMessage(m) PROVE Opened'
    BY <2>0, <2>2 DEF RejectMessage, Refusable, Arriving
  <2>3. CASE \/ CloseInput \/ InputFails \/ Posted \/ BackendStops \/ BackendStarts
             \/ UNCHANGED vars
    BY <2>3 DEF CloseInput, InputFails, Posted, BackendStops, BackendStarts, vars
  <2>4. CASE RelayStep
    BY <2>4 DEF RelayStep, ReceiveFirst, Dequeue, EndOfStream, EndpointFails, ActivateFails,
       ConnectFails, MoveRelay, Endpoint, Activate, Connect, Disconnects, Reconnects,
       InputEnds, BackendGone, Leave
  <2>5. CASE ClientStep
    BY <2>5 DEF ClientStep, ClientReceives, Dequeue, ClientExhausted, ClientChecks,
       ClientSends, ClientPings, ClientCancelled
  <2>6. CASE ServerStep \/ ServerNotifies
    BY <2>6 DEF ServerStep, ServerProceeds, ServerReleases, ServerDelivers, ServerPings,
       ServerClosed, ServerCancelled, ServerNotifies
  <2>7. ASSUME NEW id, ServerResponds(id) \/ ServerAsks(id) PROVE Opened'
    BY <2>7 DEF ServerResponds, ServerAsks
  <2>8. QED
    BY <2>1, <2>2, <2>3, <2>4, <2>5, <2>6, <2>7 DEF Next
<1>3. QED
  BY <1>1, <1>2, BridgeTypeCorrect, PTL DEF Spec

\* Without notifications, and when no update of the lease raises, only the response
\* to the barrier stops the task that reads from a live backend before the input ends, and it comes after the
\* responses to all that was forwarded.
Released ==
    relay = "relay" /\ att.server = "done" =>
        \/ att.exhausted
        \/ Gone
        \/ att.reconnect # None /\ att.barrier = "none" /\ att.unanswered = 0

LEMMA ReleasedAlways ==
    ASSUME ServerIds \cap Requests = {}, {"notifies", "lockTimeout"} \cap Faults = {}
    PROVE  Spec => []Released
<1> USE DEF Released
<1>1. Init => Released
  BY DEF Init
<1>2. TypeOK /\ InHand /\ Kept /\ Generations /\ Endings /\ Flushing /\ Unique /\ Released
        /\ [Next]_vars => Released'
  <2> SUFFICES ASSUME TypeOK, InHand, Kept, Generations, Endings, Flushing, Unique,
                      Released, [Next]_vars, relay' = "relay", att'.server = "done"
               PROVE  \/ att'.exhausted
                      \/ Gone'
                      \/ /\ att'.reconnect # None /\ att'.barrier = "none"
                         /\ att'.unanswered = 0
    OBVIOUS
  <2> USE DEF restVars, stdinVars, clientVars, relayVars, wireVars, backendVars
  <2>0. relay = "relay" /\ Gone => Gone'
    BY GoneStays DEF InHand
  <2>1. CASE relay = "relay" /\ att' = att
    BY <2>0, <2>1
  <2>2. ASSUME NEW m, ReadMessage(m) \/ RejectMessage(m) PROVE Released'
    BY <2>1, <2>2 DEF ReadMessage, RejectMessage
  <2>3. CASE CloseInput \/ Posted \/ BackendStops \/ BackendStarts \/ UNCHANGED vars
    BY <2>1, <2>3 DEF CloseInput, Posted, BackendStops, BackendStarts, vars
  <2>4. CASE \/ ReceiveFirst \/ EndOfStream \/ EndpointFails \/ ActivateFails
             \/ ConnectFails \/ Endpoint \/ Activate \/ Connect \/ Ending \/ InputFails
    BY <2>4, RelayMarks DEF ReceiveFirst, EndOfStream, EndpointFails, ActivateFails,
       ConnectFails, MoveRelay, Endpoint, Activate
  <2>5. CASE ClientExhausted
    BY <2>5, ClientMarks
  <2>6. CASE ClientReceives \/ ClientSends \/ ClientChecks
    <3>1. att.reconnect = None
      BY <2>6 DEF ClientReceives, ClientSends, ClientChecks, Client, Kept
    <3>2. /\ att'.exhausted = att.exhausted /\ att'.server = att.server
          /\ relay = "relay"
      BY <2>6, ClientMarks DEF ClientStep
    <3>3. QED
      BY <2>0, <3>1, <3>2
  <2>7. CASE ClientPings \/ ClientCancelled
    BY <2>0, <2>7, ClientFields, ClientMarks DEF ClientStep
  <2>8. CASE ServerReleases
    <3>1. Ping \in open
      BY <2>8 DEF ServerReleases
    <3>2. att.reconnect # None /\ att.forwarded = {}
      BY <3>1 DEF Flushing
    <3>3. att.unanswered = 0
      BY <3>2, FS_EmptySet DEF Unique
    <3>4. att'.reconnect = att.reconnect /\ att'.unanswered = att.unanswered
      BY <2>8, ServerFields
    <3>5. QED
      BY <2>8, <3>2, <3>3, <3>4, ServerMarks
  <2>9. CASE ServerClosed
    BY <2>0, <2>9 DEF ServerClosed, Server, Gone
  <2>10. CASE ServerCancelled
    <3>1. relay = "relay" /\ (att.exhausted \/ Gone)
      BY <2>10 DEF ServerCancelled, Endings
    <3>2. att'.exhausted = att.exhausted
      BY <2>10, ServerMarks DEF ServerStep, ServerProceeds
    <3>3. QED
      BY <2>0, <3>1, <3>2
  <2>11. CASE ServerDelivers \/ ServerPings \/ ServerNotifies
    BY <2>11, ServerMarks
  <2>12. ASSUME NEW id, ServerResponds(id) \/ ServerAsks(id) PROVE FALSE
    BY <2>12, ServerMarks
  <2>13. QED
    BY <2>2, <2>3, <2>4, <2>5, <2>6, <2>7, <2>8, <2>9, <2>10, <2>11, <2>12
       DEF Next, RelayStep, ClientStep, ServerStep, ServerProceeds, Ending
<1>3. QED
  BY <1>1, <1>2, BridgeTypeCorrect, KeptAlways, GenerationsAlways, EndingsAlways,
     FlushingAlways, UniqueAlways, PTL DEF Spec

\* The steps that make the relay fail.
LEMMA FailsMove ==
    ASSUME TypeOK, InHand, [Next]_vars, relay # "failed", relay' = "failed"
    PROVE  EndpointFails \/ ActivateFails \/ ConnectFails \/ Disconnects \/ InputFails
<1> USE DEF restVars, stdinVars, clientVars, relayVars, wireVars, backendVars
<1>1. ASSUME NEW m, ReadMessage(m) \/ RejectMessage(m) PROVE FALSE
  BY <1>1 DEF ReadMessage, RejectMessage
<1>2. CASE CloseInput \/ Posted \/ BackendStops \/ BackendStarts \/ UNCHANGED vars
  BY <1>2 DEF CloseInput, Posted, BackendStops, BackendStarts, vars
<1>3. CASE ReceiveFirst \/ EndOfStream \/ Endpoint \/ Activate \/ Connect
  BY <1>3 DEF ReceiveFirst, EndOfStream, MoveRelay, Endpoint, Activate, Connect
<1>4. CASE Reconnects \/ InputEnds \/ BackendGone
  BY <1>4 DEF Reconnects, InputEnds, BackendGone, Leave
<1>5. CASE ClientStep \/ ServerStep \/ ServerNotifies
  BY <1>5, ClientMarks, ServerMarks
<1>6. ASSUME NEW id, ServerResponds(id) \/ ServerAsks(id) PROVE FALSE
  BY <1>6, ServerMarks
<1>7. QED
  BY <1>1, <1>2, <1>3, <1>4, <1>5, <1>6 DEF Next, RelayStep

\* A connection fails, and the proxy with it, only when its backend is gone:
\* whichever starts and activations fail, whatever messages the client sends and
\* whenever backends are replaced, if Serena sends no notifications and neither
\* stdin nor the lease raises (the "Serena disconnected" errors of _run_connection).
ConnectionsFailGone == [][relay = "relay" /\ relay' = "failed" => Gone]_vars

LEMMA DisconnectedGone ==
    ASSUME Endings, Released, Disconnects, "lockTimeout" \notin Faults
    PROVE  relay = "relay" /\ Gone
<1>1. Disconnected /\ relay = "relay" /\ att.server = "done"
  BY DEF Disconnects, Leave, Client, Server
<1>2. QED
  BY <1>1 DEF Disconnected, Endings, Released

THEOREM ConnectionsFailWithTheirBackend ==
    ASSUME ServerIds \cap Requests = {},
           {"notifies", "malformed", "lockTimeout"} \cap Faults = {}
    PROVE  Spec => ConnectionsFailGone
<1>0. {"notifies", "lockTimeout"} \cap Faults = {} /\ "lockTimeout" \notin Faults
      /\ "malformed" \notin Faults
  OBVIOUS
<1>1. TypeOK /\ InHand /\ Endings /\ Released /\ [Next]_vars
        => [relay = "relay" /\ relay' = "failed" => Gone]_vars
  <2> SUFFICES ASSUME TypeOK, InHand, Endings, Released, [Next]_vars,
                      relay = "relay", relay' = "failed"
               PROVE  Gone
    OBVIOUS
  <2>1. EndpointFails \/ ActivateFails \/ ConnectFails \/ Disconnects
    BY <1>0, FailsMove DEF InputFails
  <2>2. Disconnects
    BY <2>1 DEF EndpointFails, ActivateFails, ConnectFails
  <2>3. QED
    BY <1>0, <2>2, DisconnectedGone
<1>2. QED
  BY <1>0, <1>1, BridgeTypeCorrect, EndingsAlways, ReleasedAlways, PTL DEF Spec, ConnectionsFailGone

\* When backends start and activate, and Serena sends no notifications, the relay
\* fails only with the backend it is connected to: for any number of backends,
\* of messages and of replacements, crashes included, and however often calls
\* make it reconnect to activate the project (_run_connection, where it raises).
FailsWithItsBackend == relay = "failed" => identity # 0 /\ Gone

THEOREM RelayFailsWithItsBackend ==
    ASSUME ServerIds \cap Requests = {}, Faults \subseteq {"rejects", "crash"}
    PROVE  Spec => []FailsWithItsBackend
<1> USE DEF FailsWithItsBackend
<1>0. /\ "uninitialized" \notin Faults /\ "notifies" \notin Faults
      /\ "startFails" \notin Faults /\ "activationFails" \notin Faults
      /\ "malformed" \notin Faults /\ "lockTimeout" \notin Faults
      /\ {"notifies", "lockTimeout"} \cap Faults = {}
  OBVIOUS
<1>1. Init => FailsWithItsBackend
  BY DEF Init
<1>2. TypeOK /\ InHand /\ InLine /\ Generations /\ Endings /\ Released /\ Opened
        /\ FailsWithItsBackend /\ [Next]_vars => FailsWithItsBackend'
  <2> SUFFICES ASSUME TypeOK, InHand, InLine, Generations, Endings, Released, Opened,
                      FailsWithItsBackend, [Next]_vars, relay' = "failed"
               PROVE  identity' # 0 /\ Gone'
    OBVIOUS
  <2>1. CASE relay = "failed"
    <3>1. ~Endpoint
      BY <2>1 DEF Endpoint
    <3>2. identity' = identity
      BY <3>1, SameBackend DEF Replacing, BackendStops, BackendStarts, relayVars
    <3>3. QED
      BY <2>1, <3>2, GoneStays
  <2>2. CASE relay # "failed"
    <3>1. ActivateFails \/ ConnectFails \/ Disconnects
      BY <1>0, <2>2, FailsMove DEF EndpointFails, InputFails
    <3>2. identity # 0 /\ identity' = identity /\ alive' = alive
      BY <3>1 DEF ActivateFails, ConnectFails, MoveRelay, Disconnects, Leave, Client,
         InHand, backendVars
    <3>3. CASE ActivateFails \/ ConnectFails
      <4>1. first \in Held /\ first \in Genuine
        BY <3>3 DEF ActivateFails, ConnectFails, InHand, Held
      <4>2. first.n <= read /\ first.n > 0 /\ first.n \in Int /\ read \in Int
        BY <4>1, ConstantsAssumption DEF InLine, Genuine, Message, Requests, TypeOK
      <4>3. initialize
        BY <4>2 DEF Opened
      <4>4. Gone
        BY <1>0, <3>3, <4>3 DEF ActivateFails, ConnectFails, Gone
      <4>5. QED
        BY <3>2, <4>4 DEF Gone
    <3>4. CASE Disconnects
      <4>1. Gone
        BY <1>0, <3>4, DisconnectedGone
      <4>2. QED
        BY <3>2, <4>1 DEF Gone
    <3>5. QED
      BY <3>1, <3>3, <3>4
  <2>3. QED
    BY <2>1, <2>2
<1>3. QED
  BY <1>0, <1>1, <1>2, BridgeTypeCorrect, InLineAlways, GenerationsAlways, EndingsAlways,
     ReleasedAlways, OpenedAlways, PTL DEF Spec

=============================================================================
