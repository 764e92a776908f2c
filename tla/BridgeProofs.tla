----------------------------- MODULE BridgeProofs -----------------------------
(* Theorems about Bridge, for any numbers of messages and backends. *)
EXTENDS Bridge, FiniteSetTheorems, TLAPS

\* The messages a client really sends: a request has the id of its position.
Genuine == {m \in Message : m.kind \in RequestKinds => m.id = m.n}

\* What the place each task has reached says about what it has in hand: the
\* part of the state that makes the types inductive.
InHand ==
    /\ queue \in Seq(Genuine)
    /\ {first, att.item, att.reconnect} \subseteq Genuine \cup {None}
    /\ relay \in {"endpoint", "activate", "connect"} => first # None
    /\ relay \in {"activate", "connect", "relay"} => identity # 0
    /\ relay = "relay" => first = None
    /\ relay # "relay" => att = NoAttempt
    /\ att.item # None <=> att.client \in {"check", "send"}
    /\ att.server = "respond" => att.outgoing \in Requests \cup {NoId}
    /\ att.server = "ask" => att.outgoing \in ServerIds
    /\ started = MaxBackends => alive # 0

LEMMA NoAttemptType ==
    /\ NoAttempt \in Attempt
    /\ NoAttempt.item = None /\ NoAttempt.reconnect = None
    /\ NoAttempt.client = "done" /\ NoAttempt.server = "done"
  BY DEF NoAttempt, Attempt

\* Submitting a message touches the wire only.
LEMMA SubmitType ==
    ASSUME NEW m \in Genuine, Submit(m), submitted \in Seq(Requests),
           open \subseteq Requests \cup {Ping}, posting \in Message \cup {None}
    PROVE  /\ submitted' \in Seq(Requests) /\ open' \subseteq Requests \cup {Ping}
           /\ posting' \in Message \cup {None}
<1>1. m \in Message /\ m.n \in Requests /\ (m.kind \in RequestKinds => m.id \in Requests)
  BY DEF Genuine, Message
<1>2. QED
  BY <1>1 DEF Submit

\* The bookkeeping of a submitted message.
LEMMA ForwardedType ==
    ASSUME NEW a \in Attempt, NEW m \in Message
    PROVE  /\ Forwarded(a, m) \in Attempt
           /\ Forwarded(a, m).item = a.item /\ Forwarded(a, m).client = a.client
           /\ Forwarded(a, m).server = a.server
           /\ Forwarded(a, m).outgoing = a.outgoing
           /\ Forwarded(a, m).reconnect = a.reconnect
<1>1. CASE m.id = NoId
  BY <1>1 DEF Forwarded
<1>2. CASE m.id # NoId
  <2>1. /\ a.forwarded \cup {m.id} \in SUBSET (Requests \cup ServerIds)
        /\ a.unanswered + 1 \in Int
    BY <1>2 DEF Attempt, Message
  <2>2. Forwarded(a, m) = [a EXCEPT !.forwarded = a.forwarded \cup {m.id},
                                    !.unanswered = a.unanswered + 1]
    BY <1>2 DEF Forwarded, Attempt
  <2>3. QED
    BY <2>1, <2>2 DEF Attempt
<1>3. QED
  BY <1>1, <1>2

\* The bookkeeping of a message from Serena.
LEMMA BookkeptType ==
    ASSUME att \in Attempt, NEW id
    PROVE  /\ Bookkept(id) \in Attempt
           /\ Bookkept(id).item = att.item /\ Bookkept(id).client = att.client
           /\ Bookkept(id).reconnect = att.reconnect
<1> DEFINE left == IF id \in att.forwarded THEN att.unanswered - 1 ELSE att.unanswered
<1>1. att.forwarded \ {id} \in SUBSET (Requests \cup ServerIds) /\ left \in Int
  BY DEF Attempt
<1>2. Bookkept(id) = [att EXCEPT !.forwarded = att.forwarded \ {id}, !.unanswered = left]
  BY DEF Bookkept, Attempt
<1> HIDE DEF left
<1>3. QED
  BY <1>1, <1>2 DEF Attempt

\* A message taken from Serena goes to stdout, or ends the task.
LEMMA TakesUpType ==
    ASSUME att \in Attempt, NEW id \in Requests \cup ServerIds,
           NEW label \in {"respond", "ask"}, TakesUp(id, label)
    PROVE  /\ att' \in Attempt
           /\ att'.item = att.item /\ att'.client = att.client
           /\ att'.reconnect = att.reconnect
           /\ \/ att'.server = label /\ att'.outgoing = id
              \/ att'.server = "done" /\ att'.outgoing = att.outgoing
<1> DEFINE a == Bookkept(id)
<1>1. /\ a \in Attempt /\ a.item = att.item /\ a.client = att.client
      /\ a.reconnect = att.reconnect
  BY BookkeptType
<1>2. a.outgoing = att.outgoing
  BY DEF Bookkept, Attempt
<1>3. \/ att' = [a EXCEPT !.server = label, !.outgoing = id]
      \/ att' = [a EXCEPT !.server = "done", !.cancelled = TRUE, !.raised = TRUE]
  BY DEF TakesUp
<1> HIDE DEF a
<1>4. CASE att' = [a EXCEPT !.server = label, !.outgoing = id]
  <2>1. id \in Requests \cup ServerIds \cup {NoId}
    OBVIOUS
  <2>2. CASE label = "respond"
    BY <1>1, <1>4, <2>1, <2>2 DEF Attempt
  <2>3. CASE label = "ask"
    BY <1>1, <1>4, <2>1, <2>3 DEF Attempt
  <2>4. QED
    BY <2>2, <2>3
<1>5. CASE att' = [a EXCEPT !.server = "done", !.cancelled = TRUE, !.raised = TRUE]
  BY <1>1, <1>2, <1>5 DEF Attempt
<1>6. QED
  BY <1>3, <1>4, <1>5

\* The state keeps its types, and the tasks have in hand what their next step
\* needs (TypeOK; StdioHttpBridge and _ConnectionAttempt).
THEOREM BridgeTypeCorrect == Spec => [](TypeOK /\ InHand)
<1> DEFINE Inv == TypeOK /\ InHand
<1> USE ConstantsAssumption, NoneAssumption
<1>1. Init => Inv
  <2> SUFFICES ASSUME Init PROVE Inv
    OBVIOUS
  <2>1. /\ read \in 0..MaxMessages /\ identity \in 0..MaxBackends
        /\ activated \in 0..MaxBackends /\ started \in 0..MaxBackends
        /\ alive \in 0..started /\ started # MaxBackends
    BY DEF Init
  <2>2. queue \in Seq(Message) /\ queue \in Seq(Genuine) /\ submitted \in Seq(Requests)
    BY DEF Init
  <2>3. closed \in BOOLEAN /\ initialize \in BOOLEAN /\ connected \in BOOLEAN
    BY DEF Init
  <2>4. QED
    BY <2>1, <2>2, <2>3, NoAttemptType DEF Init, TypeOK, InHand
<1>2. Inv /\ [Next]_vars => Inv'
  <2> SUFFICES ASSUME TypeOK, InHand, [Next]_vars PROVE Inv'
    OBVIOUS
  <2> USE DEF TypeOK, InHand, restVars, stdinVars, clientVars, relayVars, wireVars,
              backendVars, Final
  <2>0. Genuine \subseteq Message /\ None \notin Genuine
    BY DEF Genuine
  <2>1. ASSUME NEW m \in Message, ReadMessage(m) PROVE Inv'
    <3>1. m.n \in Requests /\ m.n \in 0..MaxMessages
      BY <2>1 DEF Message, Requests
    <3>1a. /\ m.kind \in RequestKinds => m.id = m.n
           /\ m.kind = "reply" => m.id \in ServerIds
      BY <2>1 DEF ReadMessage, Arriving, RequestKinds
    <3>2. initialize' \in BOOLEAN
      BY <2>1 DEF ReadMessage
    <3>3. queue' \in Seq(Message) /\ queue' \in Seq(Genuine)
      BY <2>1, <3>1a DEF ReadMessage, Genuine
    <3>4. /\ pending' \subseteq Requests /\ requested' \subseteq Requests
          /\ replied' \subseteq ServerIds /\ read' \in 0..MaxMessages
      BY <2>1, <3>1, <3>1a DEF ReadMessage, Counts
    <3>5. QED
      BY <2>1, <3>2, <3>3, <3>4 DEF ReadMessage
  <2>2. ASSUME NEW m \in Message, RejectMessage(m) PROVE Inv'
    <3>1. m.n \in Requests /\ m.n \in 0..MaxMessages /\ m.id \in Requests
      BY <2>2 DEF RejectMessage, Refusable, Arriving, Message, RequestKinds, Requests
    <3>2. QED
      BY <2>2, <3>1 DEF RejectMessage, Refusable
  <2>3. CASE CloseInput \/ InputFails
    BY <2>3, NoAttemptType DEF CloseInput, InputFails
  <2>4. CASE ReceiveFirst
    <3>1. /\ Head(queue) \in Genuine /\ Tail(queue) \in Seq(Genuine)
          /\ Tail(queue) \in Seq(Message)
      BY <2>4 DEF ReceiveFirst, Dequeue
    <3>2. QED
      BY <2>0, <2>4, <3>1 DEF ReceiveFirst, Dequeue
  <2>5. CASE EndOfStream \/ EndpointFails \/ ActivateFails \/ ConnectFails
    BY <2>5 DEF EndOfStream, EndpointFails, ActivateFails, ConnectFails, MoveRelay
  <2>6. CASE Endpoint
    BY <2>6 DEF Endpoint
  <2>7. CASE Activate
    <3>0. identity \in 1..MaxBackends
      BY <2>7 DEF Activate
    <3>1. activated' \in 0..MaxBackends /\ projects' \subseteq 1..MaxBackends
      BY <2>7, <3>0 DEF Activate
    <3>2. QED
      BY <2>7, <3>1 DEF Activate
  <2>8. CASE Connect
    <3> DEFINE a == [NoAttempt EXCEPT !.client = "receive", !.server = "receive"]
    <3>1. first \in Genuine
      BY <2>8 DEF Connect
    <3>2. /\ a \in Attempt /\ a.item = None /\ a.reconnect = None
          /\ a.client = "receive" /\ a.server = "receive"
      BY NoAttemptType DEF Attempt
    <3>3. att' = Forwarded(a, first)
      BY <2>8 DEF Connect
    <3> HIDE DEF a
    <3>4. /\ att' \in Attempt /\ att'.item = None /\ att'.client = "receive"
          /\ att'.server = "receive" /\ att'.reconnect = None
      BY <2>0, <3>1, <3>2, <3>3, ForwardedType
    <3>5. /\ submitted' \in Seq(Requests) /\ open' \subseteq Requests \cup {Ping}
          /\ posting' \in Message \cup {None}
      BY <2>8, <3>1, SubmitType DEF Connect
    <3>6. QED
      BY <2>8, <3>4, <3>5 DEF Connect
  <2>9. CASE Disconnects \/ InputEnds \/ BackendGone
    BY <2>9, NoAttemptType DEF Disconnects, InputEnds, BackendGone, Leave
  <2>10. CASE Reconnects
    BY <2>10, NoAttemptType DEF Reconnects, Leave, Attempt
  <2>11. CASE ClientReceives
    <3>1. /\ Head(queue) \in Genuine /\ Tail(queue) \in Seq(Genuine)
          /\ Tail(queue) \in Seq(Message)
      BY <2>11 DEF ClientReceives, Dequeue
    <3>2. att' \in Attempt /\ att'.item = Head(queue)
      BY <2>0, <2>11, <3>1 DEF ClientReceives, Attempt
    <3>3. QED
      BY <2>0, <2>11, <3>1, <3>2 DEF ClientReceives, Client, Dequeue, Attempt
  <2>12. CASE ClientExhausted
    BY <2>12 DEF ClientExhausted, Client, Attempt
  <2>13. CASE ClientChecks
    <3>1. att.item # None /\ att.item \in Genuine
      BY <2>13 DEF ClientChecks, Client
    <3>2. /\ att' \in Attempt /\ att'.server = att.server /\ att'.outgoing = att.outgoing
          /\ \/ att'.client = "send" /\ att'.item = att.item /\ att'.reconnect = att.reconnect
             \/ /\ att'.client \in {"done", "ping"} /\ att'.item = None
                /\ att'.reconnect = att.item
      BY <2>13 DEF ClientChecks, Keep, Attempt
    <3>3. QED
      BY <2>13, <3>1, <3>2 DEF ClientChecks, Client
  <2>14. CASE ClientSends
    <3> DEFINE a == Forwarded(att, att.item)
    <3>1. att.item \in Genuine
      BY <2>14 DEF ClientSends, Client
    <3>2. /\ a \in Attempt /\ a.server = att.server /\ a.outgoing = att.outgoing
          /\ a.reconnect = att.reconnect
      BY <2>0, <3>1, ForwardedType
    <3>3. att' = [a EXCEPT !.client = "receive", !.item = None]
      BY <2>14 DEF ClientSends
    <3> HIDE DEF a
    <3>4. /\ att' \in Attempt /\ att'.item = None /\ att'.client = "receive"
          /\ att'.server = att.server /\ att'.outgoing = att.outgoing
          /\ att'.reconnect = att.reconnect
      BY <3>2, <3>3 DEF Attempt
    <3>5. /\ submitted' \in Seq(Requests) /\ open' \subseteq Requests \cup {Ping}
          /\ posting' \in Message \cup {None}
      BY <2>14, <3>1, SubmitType DEF ClientSends
    <3>6. QED
      BY <2>14, <3>4, <3>5 DEF ClientSends, Client
  <2>15. CASE ClientPings
    BY <2>15 DEF ClientPings, Client, SubmitPing, Attempt
  <2>16. CASE ClientCancelled
    <3>1. /\ att' \in Attempt /\ att'.item = None /\ att'.client = "done"
          /\ att'.server = att.server /\ att'.outgoing = att.outgoing
          /\ att'.reconnect = att.reconnect
      BY <2>16 DEF ClientCancelled, Attempt
    <3>2. QED
      BY <2>16, <3>1 DEF ClientCancelled
  <2>17. CASE ServerReleases
    BY <2>17 DEF ServerReleases, Listening, Server, Attempt
  <2>18. CASE ServerDelivers
    <3>1. /\ att' \in Attempt /\ att'.item = att.item /\ att'.client = att.client
          /\ att'.reconnect = att.reconnect /\ att'.server \in {"ping", "receive"}
      BY <2>18 DEF ServerDelivers, Attempt
    <3>2. answered' \subseteq Requests /\ asked' \subseteq ServerIds
      BY <2>18 DEF ServerDelivers
    <3>3. QED
      BY <2>18, <3>1, <3>2 DEF ServerDelivers
  <2>19. CASE ServerPings
    BY <2>19 DEF ServerPings, Server, SubmitPing, Attempt
  <2>20. CASE ServerClosed
    <3>0. PICK raises \in BOOLEAN :
             att' = [att EXCEPT !.server = "done", !.cancelled = TRUE, !.raised = raises]
      BY <2>20 DEF ServerClosed
    <3>1. /\ att' \in Attempt /\ att'.item = att.item /\ att'.client = att.client
          /\ att'.reconnect = att.reconnect /\ att'.server = "done"
      BY <3>0 DEF Attempt
    <3>2. QED
      BY <2>20, <3>1 DEF ServerClosed, Server
  <2>21. CASE ServerCancelled
    BY <2>21 DEF ServerCancelled, Attempt
  <2>22. ASSUME NEW id \in Requests, ServerResponds(id) PROVE Inv'
    <3>1. TakesUp(id, "respond")
      BY <2>22 DEF ServerResponds
    <3>2. QED
      BY <2>22, <3>1, TakesUpType DEF ServerResponds, Listening, Server
  <2>23. ASSUME NEW id \in ServerIds, ServerAsks(id) PROVE Inv'
    <3>1. TakesUp(id, "ask")
      BY <2>23 DEF ServerAsks
    <3>2. QED
      BY <2>23, <3>1, TakesUpType DEF ServerAsks, Listening, Server
  <2>24. CASE ServerNotifies
    BY <2>24 DEF ServerNotifies, Listening, Server, Attempt
  <2>25. CASE Posted
    BY <2>25 DEF Posted
  <2>26. CASE BackendStops
    BY <2>26 DEF BackendStops
  <2>27. CASE BackendStarts
    BY <2>27 DEF BackendStarts
  <2>28. CASE UNCHANGED vars
    BY <2>28 DEF vars
  <2>29. QED
    BY <2>1, <2>2, <2>3, <2>4, <2>5, <2>6, <2>7, <2>8, <2>9, <2>10, <2>11, <2>12,
       <2>13, <2>14, <2>15, <2>16, <2>17, <2>18, <2>19, <2>20, <2>21, <2>22, <2>23,
       <2>24, <2>25, <2>26, <2>27, <2>28
       DEF Next, RelayStep, ClientStep, ServerStep, ServerProceeds
<1>3. QED
  BY <1>1, <1>2, PTL DEF Spec

-----------------------------------------------------------------------------
(* Activation *)

\* A call is only about to be submitted to the generation that was activated,
\* and what was activated has the checkout as its project.
ActiveFits ==
    /\ activated # 0 => activated \in projects
    /\ relay = "connect" /\ first.kind = "call" => activated = identity
    /\ att.client = "send" /\ att.item.kind = "call" => activated = identity

LEMMA ActiveFitsAlways == Spec => []ActiveFits
<1> USE DEF ActiveFits
<1>1. Init => ActiveFits
  BY NoAttemptType DEF Init
<1>2. TypeOK /\ InHand /\ ActiveFits /\ [Next]_vars => ActiveFits'
  <2> SUFFICES ASSUME TypeOK, InHand, ActiveFits, [Next]_vars PROVE ActiveFits'
    OBVIOUS
  <2> USE DEF TypeOK, InHand, restVars, stdinVars, clientVars, relayVars, wireVars,
              backendVars, Final
  <2>1. ASSUME NEW m \in Message, ReadMessage(m) \/ RejectMessage(m) PROVE ActiveFits'
    BY <2>1 DEF ReadMessage, RejectMessage
  <2>2. CASE CloseInput \/ Posted \/ BackendStops \/ BackendStarts \/ UNCHANGED vars
    BY <2>2 DEF CloseInput, Posted, BackendStops, BackendStarts, vars
  <2>3. CASE ReceiveFirst \/ EndOfStream \/ EndpointFails \/ ActivateFails \/ ConnectFails
    BY <2>3 DEF ReceiveFirst, EndOfStream, EndpointFails, ActivateFails, ConnectFails,
            MoveRelay
  <2>4. CASE Endpoint
    BY <2>4, NoAttemptType DEF Endpoint, RequiresActivation
  <2>5. CASE Activate
    BY <2>5, NoAttemptType DEF Activate
  <2>6. CASE Connect
    <3> DEFINE a == [NoAttempt EXCEPT !.client = "receive", !.server = "receive"]
    <3>1. a \in Attempt /\ a.client = "receive" /\ first \in Message
      BY <2>6, NoAttemptType DEF Attempt, Connect
    <3>2. att' = Forwarded(a, first)
      BY <2>6 DEF Connect
    <3> HIDE DEF a
    <3>3. att'.client = "receive"
      BY <3>1, <3>2, ForwardedType
    <3>4. QED
      BY <2>6, <3>3 DEF Connect
  <2>7. CASE Disconnects \/ Reconnects \/ InputEnds \/ BackendGone \/ InputFails
    BY <2>7, NoAttemptType DEF Disconnects, Reconnects, InputEnds, BackendGone,
            InputFails, Leave
  <2>8. CASE ClientReceives \/ ClientExhausted \/ ClientPings \/ ClientCancelled
    <3>1. att'.client # "send"
      BY <2>8 DEF ClientReceives, ClientExhausted, ClientPings, ClientCancelled, Attempt
    <3>2. QED
      BY <2>8, <3>1 DEF ClientReceives, ClientExhausted, ClientPings, ClientCancelled,
              Client
  <2>9. CASE ClientChecks
    <3>1. att'.client = "send" => att'.item = att.item /\ ~RequiresActivation(att.item, identity)
      BY <2>9 DEF ClientChecks, Keep, Attempt
    <3>2. QED
      BY <2>9, <3>1 DEF ClientChecks, Client, RequiresActivation
  <2>10. CASE ClientSends
    <3>0. att.item \in Message
      BY <2>10 DEF ClientSends, Client, Genuine
    <3>1. Forwarded(att, att.item) \in Attempt
      BY <3>0, ForwardedType
    <3>2. att'.client = "receive"
      BY <2>10, <3>1 DEF ClientSends, Attempt
    <3>3. QED
      BY <2>10, <3>2 DEF ClientSends, Client
  <2>11. CASE ServerReleases \/ ServerDelivers \/ ServerPings \/ ServerCancelled
              \/ ServerNotifies
    <3>1. att'.client = att.client /\ att'.item = att.item
      BY <2>11 DEF ServerReleases, ServerDelivers, ServerPings, ServerCancelled,
              ServerNotifies, Attempt
    <3>2. QED
      BY <2>11, <3>1 DEF ServerReleases, ServerDelivers, ServerPings, ServerCancelled,
              ServerNotifies
  <2>12. CASE ServerClosed
    <3>1. PICK raises \in BOOLEAN :
             att' = [att EXCEPT !.server = "done", !.cancelled = TRUE, !.raised = raises]
      BY <2>12 DEF ServerClosed
    <3>2. att'.client = att.client /\ att'.item = att.item
      BY <3>1 DEF Attempt
    <3>3. QED
      BY <2>12, <3>2 DEF ServerClosed
  <2>13. ASSUME NEW id, ServerResponds(id) \/ ServerAsks(id) PROVE ActiveFits'
    <3>0. PICK label \in {"respond", "ask"} : TakesUp(id, label)
      BY <2>13 DEF ServerResponds, ServerAsks
    <3>2. att'.client = att.client /\ att'.item = att.item
      BY <3>0 DEF TakesUp, Bookkept, Attempt
    <3>3. QED
      BY <2>13, <3>2 DEF ServerResponds, ServerAsks
  <2>14. QED
    BY <2>1, <2>2, <2>3, <2>4, <2>5, <2>6, <2>7, <2>8, <2>9, <2>10, <2>11, <2>12,
       <2>13 DEF Next, RelayStep, ClientStep, ServerStep, ServerProceeds
<1>3. QED
  BY <1>1, <1>2, BridgeTypeCorrect, PTL DEF Spec

\* A step that submits nothing leaves `submitted` as it is.
LEMMA SubmitsOnly ==
    ASSUME TypeOK, [Next]_vars, submitted' # submitted
    PROVE  \/ Connect /\ submitted' = Append(submitted, first.n)
           \/ ClientSends /\ submitted' = Append(submitted, att.item.n)
<1> USE DEF restVars, stdinVars, clientVars, relayVars, wireVars, backendVars
<1>1. ASSUME NEW m, ReadMessage(m) \/ RejectMessage(m) PROVE submitted' = submitted
  BY <1>1 DEF ReadMessage, RejectMessage
<1>2. CASE CloseInput \/ Posted \/ BackendStops \/ BackendStarts \/ UNCHANGED vars
  BY <1>2 DEF CloseInput, Posted, BackendStops, BackendStarts, vars
<1>3. CASE \/ ReceiveFirst \/ EndOfStream \/ EndpointFails \/ ActivateFails
           \/ ConnectFails \/ Endpoint \/ Activate
  BY <1>3 DEF ReceiveFirst, EndOfStream, EndpointFails, ActivateFails, ConnectFails,
          MoveRelay, Endpoint, Activate
<1>4. CASE Disconnects \/ Reconnects \/ InputEnds \/ BackendGone \/ InputFails
  BY <1>4 DEF Disconnects, Reconnects, InputEnds, BackendGone, InputFails, Leave
<1>5. CASE \/ ClientReceives \/ ClientExhausted \/ ClientPings \/ ClientCancelled
           \/ ClientChecks
  BY <1>5 DEF ClientReceives, ClientExhausted, ClientPings, ClientCancelled, ClientChecks
<1>6. CASE \/ ServerReleases \/ ServerDelivers \/ ServerPings \/ ServerCancelled
           \/ ServerClosed \/ ServerNotifies
  BY <1>6 DEF ServerReleases, ServerDelivers, ServerPings, ServerCancelled, ServerClosed,
          ServerNotifies
<1>7. ASSUME NEW id, ServerResponds(id) \/ ServerAsks(id) PROVE submitted' = submitted
  BY <1>7 DEF ServerResponds, ServerAsks
<1>8. CASE Connect \/ ClientSends
  BY <1>8 DEF Connect, ClientSends, Submit
<1>9. QED
  BY <1>1, <1>2, <1>3, <1>4, <1>5, <1>6, <1>7, <1>8
     DEF Next, RelayStep, ClientStep, ServerStep, ServerProceeds

\* A tool call is only submitted to a generation that has activated the
\* checkout, for any number of messages and generations (ActivatedFirst).
THEOREM CallsReachActiveProjects == Spec => ActivatedFirst
<1>1. TypeOK /\ InHand /\ ActiveFits /\ [Next]_vars
        => [\A m \in {first, att.item} \ {None} :
               m.kind = "call" /\ submitted' = Append(submitted, m.n)
                  => identity \in projects]_vars
  <2> SUFFICES ASSUME TypeOK, InHand, ActiveFits, [Next]_vars,
                      NEW m \in {first, att.item} \ {None},
                      m.kind = "call", submitted' = Append(submitted, m.n)
               PROVE  identity \in projects
    OBVIOUS
  <2>1. m.n \in Requests
    BY DEF InHand, Genuine, Message
  <2>2. submitted' # submitted
    BY <2>1 DEF TypeOK
  <2>3. Connect \/ ClientSends
    BY <2>2, SubmitsOnly
  <2>4. CASE Connect
    BY <2>4, NoAttemptType DEF Connect, InHand, ActiveFits
  <2>5. CASE ClientSends
    BY <2>5 DEF ClientSends, Client, InHand, ActiveFits
  <2>6. QED
    BY <2>3, <2>4, <2>5
<1>2. QED
  BY <1>1, BridgeTypeCorrect, ActiveFitsAlways, PTL DEF Spec, ActivatedFirst

-----------------------------------------------------------------------------
(* What the steps do to the messages in hand *)

\* The relay: a connection starts with nothing but its first message, and ends
\* with nothing.
LEMMA RelayFields ==
    ASSUME TypeOK, InHand
    PROVE  /\ Connect =>
                /\ att'.item = None /\ att'.reconnect = None /\ att'.client = "receive"
                /\ att'.forwarded = {first.id} \ {NoId}
                /\ att'.unanswered = IF first.id = NoId THEN 0 ELSE 1
           /\ Disconnects \/ Reconnects \/ InputEnds \/ BackendGone \/ InputFails =>
                /\ att'.item = None /\ att'.reconnect = None /\ att'.client = "done"
                /\ att'.forwarded = {} /\ att'.unanswered = 0
           /\ Disconnects \/ Reconnects \/ InputEnds \/ BackendGone =>
                relay = "relay" /\ att.client = "done" /\ att.item = None
<1>1. ASSUME Connect
      PROVE  /\ att'.item = None /\ att'.reconnect = None /\ att'.client = "receive"
             /\ att'.forwarded = {first.id} \ {NoId}
             /\ att'.unanswered = IF first.id = NoId THEN 0 ELSE 1
  <2> DEFINE a == [NoAttempt EXCEPT !.client = "receive", !.server = "receive"]
  <2>1. /\ a \in Attempt /\ a.item = None /\ a.reconnect = None
        /\ a.client = "receive" /\ a.forwarded = {} /\ a.unanswered = 0
    <3>1. NoAttempt.forwarded = {} /\ NoAttempt.unanswered = 0
      BY DEF NoAttempt
    <3>2. QED
      BY <3>1, NoAttemptType DEF Attempt
  <2>2. att' = Forwarded(a, first)
    BY <1>1 DEF Connect
  <2> HIDE DEF a
  <2>3. QED
    BY <2>1, <2>2 DEF Forwarded, Attempt
<1>2. ASSUME Disconnects \/ Reconnects \/ InputEnds \/ BackendGone \/ InputFails
      PROVE  /\ att'.item = None /\ att'.reconnect = None /\ att'.client = "done"
             /\ att'.forwarded = {} /\ att'.unanswered = 0
  <2>1. NoAttempt.forwarded = {} /\ NoAttempt.unanswered = 0
    BY DEF NoAttempt
  <2>2. att' = NoAttempt
    BY <1>2 DEF Disconnects, Reconnects, InputEnds, BackendGone, InputFails, Leave
  <2>3. QED
    BY <2>1, <2>2, NoAttemptType
<1>3. ASSUME Disconnects \/ Reconnects \/ InputEnds \/ BackendGone
      PROVE  relay = "relay" /\ att.client = "done" /\ att.item = None
  <2>1. relay = "relay" /\ att.client = "done"
    BY <1>3 DEF Disconnects, Reconnects, InputEnds, BackendGone, Leave, Client
  <2>2. QED
    BY <2>1 DEF InHand
<1>4. QED
  BY <1>1, <1>2, <1>3

\* _client_to_http: a message is received, checked, and sent, kept or lost.
LEMMA ClientFields ==
    ASSUME TypeOK, InHand
    PROVE  /\ ClientReceives =>
                /\ att'.item = Head(queue) /\ att'.reconnect = att.reconnect
                /\ att'.client = "check" /\ att'.forwarded = att.forwarded
                /\ att'.unanswered = att.unanswered
           /\ ClientExhausted =>
                /\ att'.item = None /\ att'.reconnect = att.reconnect
                /\ att'.client = "done" /\ att'.forwarded = att.forwarded
                /\ att'.unanswered = att.unanswered
                /\ att'.cancelled = TRUE
           /\ ClientChecks =>
                /\ att'.forwarded = att.forwarded /\ att'.unanswered = att.unanswered
                /\ \/ /\ att'.client = "send" /\ att'.item = att.item
                      /\ att'.reconnect = att.reconnect
                   \/ /\ att'.client \in {"done", "ping"} /\ att'.item = None
                      /\ att'.reconnect = att.item
           /\ ClientSends =>
                /\ att'.item = None /\ att'.reconnect = att.reconnect
                /\ att'.client = "receive"
                /\ att'.forwarded = att.forwarded \cup ({att.item.id} \ {NoId})
                /\ att'.unanswered = IF att.item.id = NoId THEN att.unanswered
                                     ELSE att.unanswered + 1
           /\ ClientPings =>
                /\ att'.item = None /\ att'.reconnect = att.reconnect
                /\ att'.client = "done" /\ att'.forwarded = att.forwarded
                /\ att'.unanswered = att.unanswered
           /\ ClientCancelled =>
                /\ att'.item = None /\ att'.reconnect = att.reconnect
                /\ att'.client = "done" /\ att'.forwarded = att.forwarded
                /\ att'.unanswered = att.unanswered /\ att'.cancelled = att.cancelled
<1> USE DEF TypeOK, InHand
<1>1. ASSUME ClientReceives
      PROVE  /\ att'.item = Head(queue) /\ att'.reconnect = att.reconnect
             /\ att'.client = "check" /\ att'.forwarded = att.forwarded
             /\ att'.unanswered = att.unanswered
  BY <1>1 DEF ClientReceives, Attempt
<1>2. ASSUME ClientExhausted
      PROVE  /\ att'.item = None /\ att'.reconnect = att.reconnect
             /\ att'.client = "done" /\ att'.forwarded = att.forwarded
             /\ att'.unanswered = att.unanswered
             /\ att'.cancelled = TRUE
  BY <1>2 DEF ClientExhausted, Client, Attempt
<1>3. ASSUME ClientChecks
      PROVE  /\ att'.forwarded = att.forwarded /\ att'.unanswered = att.unanswered
             /\ \/ /\ att'.client = "send" /\ att'.item = att.item
                   /\ att'.reconnect = att.reconnect
                \/ /\ att'.client \in {"done", "ping"} /\ att'.item = None
                   /\ att'.reconnect = att.item
  BY <1>3 DEF ClientChecks, Keep, Attempt
<1>4. ASSUME ClientSends
      PROVE  /\ att'.item = None /\ att'.reconnect = att.reconnect
             /\ att'.client = "receive"
             /\ att'.forwarded = att.forwarded \cup ({att.item.id} \ {NoId})
             /\ att'.unanswered = IF att.item.id = NoId THEN att.unanswered
                                  ELSE att.unanswered + 1
  <2>1. att' = [Forwarded(att, att.item) EXCEPT !.client = "receive", !.item = None]
    BY <1>4 DEF ClientSends
  <2>2. QED
    BY <2>1 DEF Forwarded, Attempt
<1>5. ASSUME ClientPings \/ ClientCancelled
      PROVE  /\ att'.item = None /\ att'.reconnect = att.reconnect
             /\ att'.client = "done" /\ att'.forwarded = att.forwarded
             /\ att'.unanswered = att.unanswered /\ att'.cancelled = att.cancelled
  BY <1>5 DEF ClientPings, ClientCancelled, Client, Attempt
<1>6. QED
  BY <1>1, <1>2, <1>3, <1>4, <1>5

\* _http_to_client only touches the books, and cancels.
LEMMA ServerFields ==
    ASSUME TypeOK, InHand
    PROVE  /\ (\/ ServerReleases \/ ServerDelivers \/ ServerPings \/ ServerClosed
               \/ ServerCancelled \/ ServerNotifies) =>
                /\ att'.item = att.item /\ att'.reconnect = att.reconnect
                /\ att'.client = att.client /\ att'.forwarded = att.forwarded
                /\ att'.unanswered = att.unanswered
                /\ att'.cancelled = att.cancelled \/ att'.cancelled = TRUE
           /\ \A id : ServerResponds(id) \/ ServerAsks(id) =>
                /\ att'.item = att.item /\ att'.reconnect = att.reconnect
                /\ att'.client = att.client /\ att'.forwarded = att.forwarded \ {id}
                /\ att'.unanswered = IF id \in att.forwarded THEN att.unanswered - 1
                                     ELSE att.unanswered
                /\ att'.cancelled = att.cancelled \/ att'.cancelled = TRUE
<1> USE DEF TypeOK
<1>1. ASSUME ServerReleases \/ ServerDelivers \/ ServerPings \/ ServerCancelled
                \/ ServerNotifies
      PROVE  /\ att'.item = att.item /\ att'.reconnect = att.reconnect
             /\ att'.client = att.client /\ att'.forwarded = att.forwarded
             /\ att'.unanswered = att.unanswered
             /\ att'.cancelled = att.cancelled \/ att'.cancelled = TRUE
  BY <1>1 DEF ServerReleases, ServerDelivers, ServerPings, ServerCancelled,
          ServerNotifies, Attempt
<1>2. ASSUME ServerClosed
      PROVE  /\ att'.item = att.item /\ att'.reconnect = att.reconnect
             /\ att'.client = att.client /\ att'.forwarded = att.forwarded
             /\ att'.unanswered = att.unanswered /\ att'.cancelled = TRUE
  <2>1. PICK raises \in BOOLEAN :
           att' = [att EXCEPT !.server = "done", !.cancelled = TRUE, !.raised = raises]
    BY <1>2 DEF ServerClosed
  <2>2. QED
    BY <2>1 DEF Attempt
<1>3. ASSUME NEW id, ServerResponds(id) \/ ServerAsks(id)
      PROVE  /\ att'.item = att.item /\ att'.reconnect = att.reconnect
             /\ att'.client = att.client /\ att'.forwarded = att.forwarded \ {id}
             /\ att'.unanswered = IF id \in att.forwarded THEN att.unanswered - 1
                                  ELSE att.unanswered
             /\ att'.cancelled = att.cancelled \/ att'.cancelled = TRUE
  <2>1. PICK label \in {"respond", "ask"} : TakesUp(id, label)
    BY <1>3 DEF ServerResponds, ServerAsks
  <2>2. QED
    BY <2>1 DEF TakesUp, Bookkept, Attempt
<1>4. QED
  BY <1>1, <1>2, <1>3

-----------------------------------------------------------------------------
(* Nothing is forgotten *)

\* The messages taken from the queue and not yet submitted, and where the
\* message of a pending request can be.
Held       == {first, att.item, att.reconnect} \ {None}
Placed(id) ==
    \/ id \in att.forwarded
    \/ \E i \in DOMAIN queue : queue[i].id = id
    \/ \E m \in Held : m.id = id

\* The task that forwards was cancelled, and may have lost what it held.
Dropped == relay = "relay" /\ att.client = "done" /\ att.reconnect = None

Kept ==
    /\ relay \in Final \/ Dropped \/ \A id \in pending : Placed(id)
    /\ Dropped => att.cancelled
    /\ relay = "idle" => first = None
    /\ att.client = "ping" => att.reconnect # None
    /\ att.client \in {"receive", "check", "send"} => att.reconnect = None

\* submitted_messages - completed_messages bounds what is still forwarded.
Counted == IsFiniteSet(att.forwarded) /\ Cardinality(att.forwarded) <= att.unanswered

LEMMA Dequeued ==
    ASSUME queue \in Seq(Genuine), Dequeue
    PROVE  /\ 1 \in DOMAIN queue /\ Head(queue) = queue[1] /\ Head(queue) \in Genuine
           /\ \A i \in DOMAIN queue' : i + 1 \in DOMAIN queue /\ queue'[i] = queue[i + 1]
           /\ \A j \in DOMAIN queue :
                 j # 1 => j - 1 \in DOMAIN queue' /\ queue'[j - 1] = queue[j]
  BY DEF Dequeue

LEMMA Enqueued ==
    ASSUME queue \in Seq(Genuine), NEW m \in Genuine, queue' = Append(queue, m)
    PROVE  /\ \A j \in DOMAIN queue : j \in DOMAIN queue' /\ queue'[j] = queue[j]
           /\ Len(queue) + 1 \in DOMAIN queue' /\ queue'[Len(queue) + 1] = m
           /\ \A i \in DOMAIN queue' :
                 \/ i \in DOMAIN queue /\ queue'[i] = queue[i] /\ i < Len(queue) + 1
                 \/ i = Len(queue) + 1
  OBVIOUS

LEMMA CountedAlways == Spec => []Counted
<1> USE DEF Counted
<1>1. Init => Counted
  BY FS_EmptySet DEF Init, NoAttempt
<1>2. TypeOK /\ InHand /\ Counted /\ [Next]_vars => Counted'
  <2> SUFFICES ASSUME TypeOK, InHand, Counted, [Next]_vars PROVE Counted'
    OBVIOUS
  <2> USE DEF restVars, stdinVars, clientVars, relayVars, wireVars, backendVars
  <2>0. att.unanswered \in Int /\ Cardinality(att.forwarded) \in Nat
    BY FS_CardinalityType DEF TypeOK, Attempt
  <2>1. ASSUME NEW m, ReadMessage(m) \/ RejectMessage(m) PROVE Counted'
    BY <2>1 DEF ReadMessage, RejectMessage
  <2>2. CASE CloseInput \/ Posted \/ BackendStops \/ BackendStarts \/ UNCHANGED vars
    BY <2>2 DEF CloseInput, Posted, BackendStops, BackendStarts, vars
  <2>3. CASE \/ ReceiveFirst \/ EndOfStream \/ EndpointFails \/ ActivateFails
             \/ ConnectFails \/ Endpoint \/ Activate
    BY <2>3 DEF ReceiveFirst, EndOfStream, EndpointFails, ActivateFails, ConnectFails,
            MoveRelay, Endpoint, Activate
  <2>4. CASE Connect
    <3>1. first.id = NoId => att'.forwarded = {} /\ att'.unanswered = 0
      BY <2>4, RelayFields
    <3>2. first.id # NoId => att'.forwarded = {first.id} /\ att'.unanswered = 1
      BY <2>4, RelayFields
    <3>3. CASE first.id = NoId
      BY <3>1, <3>3, FS_EmptySet
    <3>4. CASE first.id # NoId
      <4>1. IsFiniteSet({first.id}) /\ Cardinality({first.id}) = 1
        BY FS_Singleton
      <4>2. QED
        BY <3>2, <3>4, <4>1
    <3>5. QED
      BY <3>3, <3>4
  <2>5. CASE Disconnects \/ Reconnects \/ InputEnds \/ BackendGone \/ InputFails
    BY <2>5, RelayFields, FS_EmptySet
  <2>6. CASE \/ ClientReceives \/ ClientExhausted \/ ClientPings \/ ClientCancelled
             \/ ClientChecks
    BY <2>6, ClientFields
  <2>7. CASE ClientSends
    <3>1. CASE att.item.id = NoId
      <4>1. att'.forwarded = att.forwarded /\ att'.unanswered = att.unanswered
        BY <2>7, <3>1, ClientFields
      <4>2. QED
        BY <4>1
    <3>2. CASE att.item.id # NoId
      <4>1. /\ att'.forwarded = att.forwarded \cup {att.item.id}
            /\ att'.unanswered = att.unanswered + 1
        BY <2>7, <3>2, ClientFields
      <4>2. /\ IsFiniteSet(att'.forwarded)
            /\ \/ Cardinality(att'.forwarded) = Cardinality(att.forwarded)
               \/ Cardinality(att'.forwarded) = Cardinality(att.forwarded) + 1
        BY <4>1, FS_AddElement
      <4>3. QED
        BY <2>0, <4>1, <4>2
    <3>3. QED
      BY <3>1, <3>2
  <2>8. CASE \/ ServerReleases \/ ServerDelivers \/ ServerPings \/ ServerCancelled
             \/ ServerClosed \/ ServerNotifies
    BY <2>8, ServerFields
  <2>9. ASSUME NEW id, ServerResponds(id) \/ ServerAsks(id) PROVE Counted'
    <3>1. /\ att'.forwarded = att.forwarded \ {id}
          /\ att'.unanswered = IF id \in att.forwarded THEN att.unanswered - 1
                               ELSE att.unanswered
      BY <2>9, ServerFields
    <3>2. /\ IsFiniteSet(att'.forwarded)
          /\ Cardinality(att'.forwarded) = IF id \in att.forwarded
                                           THEN Cardinality(att.forwarded) - 1
                                           ELSE Cardinality(att.forwarded)
      BY <3>1, FS_RemoveElement
    <3>3. QED
      BY <2>0, <3>1, <3>2
  <2>10. QED
    BY <2>1, <2>2, <2>3, <2>4, <2>5, <2>6, <2>7, <2>8, <2>9
       DEF Next, RelayStep, ClientStep, ServerStep, ServerProceeds
<1>3. QED
  BY <1>1, <1>2, BridgeTypeCorrect, PTL DEF Spec

LEMMA KeptAlways == Spec => []Kept
<1> USE DEF Kept
<1>1. Init => Kept
  BY NoAttemptType DEF Init, Dropped
<1>2. TypeOK /\ InHand /\ Counted /\ Kept /\ [Next]_vars => Kept'
  <2> SUFFICES ASSUME TypeOK, InHand, Counted, Kept, [Next]_vars PROVE Kept'
    OBVIOUS
  <2> USE DEF restVars, stdinVars, clientVars, relayVars, wireVars, backendVars, Final
  <2>0. /\ NoId \notin pending /\ queue \in Seq(Genuine)
        /\ att.client \in {"receive", "check", "send", "ping", "done"}
    <3>1. NoId \notin Requests
      BY ConstantsAssumption DEF Requests
    <3>2. NoId \notin pending
      BY <3>1 DEF TypeOK
    <3>3. queue \in Seq(Genuine)
      BY DEF InHand
    <3>4. att.client \in {"receive", "check", "send", "ping", "done"}
      BY DEF TypeOK, Attempt
    <3>5. QED
      BY <3>2, <3>3, <3>4
  <2>1. ASSUME NEW m \in Message, ReadMessage(m) PROVE Kept'
    <3>1. m \in Genuine
      BY <2>1 DEF ReadMessage, Arriving, Genuine, RequestKinds
    <3>2. /\ \A j \in DOMAIN queue : j \in DOMAIN queue' /\ queue'[j] = queue[j]
          /\ Len(queue) + 1 \in DOMAIN queue' /\ queue'[Len(queue) + 1] = m
      BY <2>0, <2>1, <3>1, Enqueued DEF ReadMessage
    <3>3. Held' = Held /\ Dropped' = Dropped /\ att' = att /\ relay' = relay /\ first' = first
      BY <2>1 DEF ReadMessage, Held, Dropped
    <3>4. pending' \subseteq pending \cup {m.id}
      BY <2>1 DEF ReadMessage
    <3>5. ASSUME NEW id \in pending', \A i \in pending : Placed(i) PROVE Placed(id)'
      BY <3>2, <3>3, <3>4, <3>5 DEF Placed
    <3>6. QED
      BY <3>3, <3>5
  <2>2. ASSUME NEW m \in Message, RejectMessage(m) PROVE Kept'
    BY <2>2 DEF RejectMessage, Held, Dropped, Placed
  <2>3. CASE CloseInput \/ Posted \/ BackendStops \/ BackendStarts \/ UNCHANGED vars
    BY <2>3 DEF CloseInput, Posted, BackendStops, BackendStarts, vars, Held, Dropped,
            Placed
  <2>4. CASE ReceiveFirst
    <3>1. /\ first = None /\ relay = "idle" /\ relay' = "endpoint" /\ att' = att
          /\ first' = Head(queue) /\ pending' = pending /\ Dequeue
      BY <2>4 DEF ReceiveFirst
    <3>2. ASSUME NEW id \in pending PROVE Placed(id)'
      <4>1. Placed(id)
        BY <3>1 DEF Dropped
      <4>2. first' \in Genuine /\ None \notin Genuine
        BY <2>0, <3>1, Dequeued, NoneAssumption DEF Genuine
      <4>3. QED
        BY <2>0, <3>1, <4>1, <4>2, Dequeued DEF Placed, Held
    <3>3. QED
      BY <3>1, <3>2 DEF Dropped, InHand
  <2>5. CASE EndOfStream \/ EndpointFails \/ ActivateFails \/ ConnectFails
    BY <2>5, NoAttemptType DEF EndOfStream, EndpointFails, ActivateFails, ConnectFails,
            MoveRelay, Dropped, InHand
  <2>6. CASE Endpoint \/ Activate
    <3>1. /\ first' = first /\ att' = att /\ pending' = pending /\ queue' = queue
          /\ relay \in {"endpoint", "activate"}
          /\ relay' \in {"endpoint", "activate", "connect"}
      BY <2>6 DEF Endpoint, Activate
    <3>2. QED
      BY <3>1 DEF Dropped, Placed, Held
  <2>7. CASE Connect
    <3>1. /\ relay = "connect" /\ relay' = "relay" /\ first' = None /\ first # None
          /\ pending' = pending /\ queue' = queue /\ att = NoAttempt
      BY <2>7 DEF Connect, InHand
    <3>2. NoAttempt.forwarded = {} /\ NoAttempt.item = None /\ NoAttempt.reconnect = None
      BY DEF NoAttempt
    <3>3. /\ att'.item = None /\ att'.reconnect = None /\ att'.client = "receive"
          /\ att'.forwarded = {first.id} \ {NoId}
      BY <2>7, RelayFields
    <3>4. ASSUME NEW id \in pending PROVE Placed(id)'
      BY <2>0, <3>1, <3>2, <3>3 DEF Placed, Held, Dropped
    <3>5. QED
      BY <3>1, <3>3, <3>4 DEF Dropped
  <2>8. CASE Disconnects \/ InputEnds \/ InputFails
    BY <2>8, RelayFields DEF Disconnects, InputEnds, InputFails, Leave, Dropped
  <2>9. CASE Reconnects
    <3>1. /\ att.reconnect # None /\ att.item = None /\ first = None /\ first' = att.reconnect
          /\ pending' = pending /\ queue' = queue /\ relay' = "endpoint" /\ relay = "relay"
          /\ att.unanswered = 0
      BY <2>9, RelayFields DEF Reconnects, Leave, Disconnected, InHand
    <3>2. att.forwarded = {}
      <4>1. Cardinality(att.forwarded) = 0
        BY <3>1, FS_CardinalityType DEF Counted
      <4>2. QED
        BY <4>1, FS_EmptySet DEF Counted
    <3>3. ASSUME NEW id \in pending PROVE Placed(id)'
      BY <3>1, <3>2 DEF Placed, Held, Dropped
    <3>4. QED
      BY <2>9, <3>1, <3>3, RelayFields DEF Dropped
  <2>10. CASE BackendGone
    <3>1. pending = {} /\ pending' = pending /\ relay' = "idle" /\ first' = None
      BY <2>10, RelayFields DEF BackendGone, Leave, Disconnected, InHand
    <3>2. QED
      BY <2>10, <3>1, RelayFields DEF Dropped
  <2>11. CASE ClientReceives
    <3>1. /\ relay = "relay" /\ att.client = "receive" /\ pending' = pending
          /\ first' = first /\ relay' = relay /\ Dequeue
      BY <2>11 DEF ClientReceives, Client
    <3>2. /\ att'.item = Head(queue) /\ att'.reconnect = att.reconnect
          /\ att'.client = "check" /\ att'.forwarded = att.forwarded /\ att.item = None
      BY <2>11, <3>1, ClientFields DEF InHand
    <3>3. ASSUME NEW id \in pending PROVE Placed(id)'
      <4>1. Placed(id)
        BY <3>1 DEF Dropped
      <4>2. att'.item \in Genuine /\ None \notin Genuine
        BY <2>0, <3>1, <3>2, Dequeued, NoneAssumption DEF Genuine
      <4>3. QED
        BY <2>0, <3>1, <3>2, <4>1, <4>2, Dequeued DEF Placed, Held
    <3>4. QED
      BY <3>1, <3>2, <3>3 DEF Dropped
  <2>12. CASE ClientExhausted
    BY <2>12, ClientFields DEF ClientExhausted, Client, Dropped
  <2>13. CASE ClientChecks
    <3>1. /\ relay = "relay" /\ att.client = "check" /\ pending' = pending
          /\ first' = first /\ relay' = relay /\ queue' = queue /\ att.item # None
      BY <2>13 DEF ClientChecks, Client, InHand
    <3>2. ASSUME NEW id \in pending PROVE Placed(id)'
      BY <2>13, <3>1, ClientFields DEF Placed, Held, Dropped
    <3>3. QED
      BY <2>13, <3>1, <3>2, ClientFields DEF Dropped
  <2>14. CASE ClientSends
    <3>1. /\ relay = "relay" /\ att.client = "send" /\ pending' = pending
          /\ first' = first /\ relay' = relay /\ queue' = queue
      BY <2>14 DEF ClientSends, Client
    <3>2. ASSUME NEW id \in pending PROVE Placed(id)'
      BY <2>0, <2>14, <3>1, ClientFields DEF Placed, Held, Dropped
    <3>3. QED
      BY <2>14, <3>1, <3>2, ClientFields DEF Dropped
  <2>15. CASE ClientPings
    <3>1. /\ relay = "relay" /\ att.client = "ping" /\ pending' = pending
          /\ first' = first /\ relay' = relay /\ queue' = queue /\ att.item = None
      BY <2>15 DEF ClientPings, Client, InHand
    <3>2. ASSUME NEW id \in pending PROVE Placed(id)'
      BY <2>15, <3>1, ClientFields DEF Placed, Held, Dropped
    <3>3. QED
      BY <2>15, <3>1, <3>2, ClientFields DEF Dropped
  <2>16. CASE ClientCancelled
    <3>1. /\ relay = "relay" /\ att.client # "done" /\ att.cancelled = TRUE
          /\ pending' = pending /\ first' = first /\ relay' = relay /\ queue' = queue
      BY <2>16 DEF ClientCancelled, TypeOK, Attempt
    <3>2. CASE att.reconnect = None
      BY <2>16, <3>1, <3>2, ClientFields DEF Dropped
    <3>3. CASE att.reconnect # None
      <4>1. att.item = None
        BY <2>0, <3>1, <3>3 DEF InHand
      <4>2. ASSUME NEW id \in pending PROVE Placed(id)'
        BY <2>16, <3>1, <4>1, ClientFields DEF Placed, Held, Dropped
      <4>3. QED
        BY <2>16, <3>1, <3>3, <4>2, ClientFields DEF Dropped
    <3>4. QED
      BY <3>2, <3>3
  <2>17. CASE \/ ServerReleases \/ ServerDelivers \/ ServerPings \/ ServerClosed
              \/ ServerCancelled \/ ServerNotifies
    <3>1. pending' = pending /\ first' = first /\ relay' = relay /\ queue' = queue
      BY <2>17 DEF ServerReleases, ServerDelivers, ServerPings, ServerClosed,
              ServerCancelled, ServerNotifies
    <3>2. /\ att'.item = att.item /\ att'.reconnect = att.reconnect
          /\ att'.client = att.client /\ att'.forwarded = att.forwarded
          /\ att'.cancelled = att.cancelled \/ att'.cancelled = TRUE
      BY <2>17, ServerFields
    <3>3. QED
      BY <3>1, <3>2 DEF Placed, Held, Dropped
  <2>18. ASSUME NEW id, ServerResponds(id) \/ ServerAsks(id) PROVE Kept'
    <3>1. pending' = pending \ {id} /\ first' = first /\ relay' = relay /\ queue' = queue
      BY <2>18 DEF ServerResponds, ServerAsks
    <3>2. /\ att'.item = att.item /\ att'.reconnect = att.reconnect
          /\ att'.client = att.client /\ att'.forwarded = att.forwarded \ {id}
          /\ att'.cancelled = att.cancelled \/ att'.cancelled = TRUE
      BY <2>18, ServerFields
    <3>3. QED
      BY <3>1, <3>2 DEF Placed, Held, Dropped
  <2>19. QED
    BY <2>1, <2>2, <2>3, <2>4, <2>5, <2>6, <2>7, <2>8, <2>9, <2>10, <2>11, <2>12,
       <2>13, <2>14, <2>15, <2>16, <2>17, <2>18
       DEF Next, RelayStep, ClientStep, ServerStep, ServerProceeds
<1>3. QED
  BY <1>1, <1>2, BridgeTypeCorrect, CountedAlways, PTL DEF Spec

\* Until the bridge gives up or cancels, each pending request is queued, held
\* or with the backend, over every restart and activation (OnItsWay).
THEOREM NoRequestIsForgotten == Spec => []OnItsWay
<1>1. TypeOK /\ Kept => OnItsWay
  BY DEF Kept, OnItsWay, Placed, Held, Dropped, Uncancelled
<1>2. QED
  BY <1>1, BridgeTypeCorrect, KeptAlways, PTL

-----------------------------------------------------------------------------
(* Order *)

\* What is submitted, held, queued and not yet read follow each other in the
\* client's input.
InLine ==
    /\ InOrder
    /\ \A i, j \in DOMAIN queue : i < j => queue[i].n < queue[j].n
    /\ \A i \in DOMAIN submitted : submitted[i] <= read
    /\ \A j \in DOMAIN queue : queue[j].n <= read
    /\ \A i \in DOMAIN submitted, j \in DOMAIN queue : submitted[i] < queue[j].n
    /\ \A m \in Held :
          /\ m.n <= read
          /\ \A i \in DOMAIN submitted : submitted[i] < m.n
          /\ \A j \in DOMAIN queue : m.n < queue[j].n

\* The four things that happen to messages: one is read, or is taken from the
\* queue while none is held, or the one held is submitted, or none moves on.
Arrives == read' = read + 1 /\ Held' = Held /\ submitted' = submitted
             /\ \/ queue' = queue
                \/ \E m \in Genuine : m.n = read + 1 /\ queue' = Append(queue, m)
Taken   == read' = read /\ submitted' = submitted /\ Dequeue /\ Held = {}
             /\ Held' \subseteq {Head(queue)}
Sent    == read' = read /\ queue' = queue /\ Held' = {}
             /\ \E m \in Held : submitted' = Append(submitted, m.n)
Waits   == read' = read /\ queue' = queue /\ submitted' = submitted /\ Held' \subseteq Held

LEMMA MessagesMove ==
    ASSUME TypeOK, InHand, Kept, [Next]_vars PROVE Arrives \/ Taken \/ Sent \/ Waits
<1> USE DEF restVars, stdinVars, clientVars, relayVars, wireVars, backendVars
<1>1. ASSUME NEW m \in Message, ReadMessage(m) PROVE Arrives
  <2>1. m \in Genuine
    BY <1>1 DEF ReadMessage, Arriving, Genuine, RequestKinds
  <2>2. QED
    BY <1>1, <2>1 DEF ReadMessage, Arriving, Arrives, Held
<1>2. ASSUME NEW m \in Message, RejectMessage(m) PROVE Arrives
  BY <1>2 DEF RejectMessage, Arriving, Arrives, Held
<1>3. CASE CloseInput \/ Posted \/ BackendStops \/ BackendStarts \/ UNCHANGED vars
  BY <1>3 DEF CloseInput, Posted, BackendStops, BackendStarts, vars, Waits, Held
<1>4. CASE \/ EndOfStream \/ EndpointFails \/ ActivateFails \/ ConnectFails
           \/ Endpoint \/ Activate
  BY <1>4 DEF EndOfStream, EndpointFails, ActivateFails, ConnectFails, MoveRelay,
          Endpoint, Activate, Waits, Held
<1>5. CASE ReceiveFirst
  BY <1>5, NoAttemptType DEF ReceiveFirst, Dequeue, InHand, Kept, Taken, Held
<1>6. CASE Connect
  <2>1. first # None /\ first' = None /\ submitted' = Append(submitted, first.n)
    BY <1>6 DEF Connect, Submit, InHand
  <2>2. att'.item = None /\ att'.reconnect = None
    BY <1>6, RelayFields
  <2>3. QED
    BY <1>6, <2>1, <2>2 DEF Connect, Sent, Held
<1>7. CASE Disconnects \/ InputEnds \/ BackendGone \/ InputFails
  BY <1>7, RelayFields DEF Disconnects, InputEnds, BackendGone, InputFails, Leave,
          Waits, Held
<1>8. CASE Reconnects
  BY <1>8, RelayFields DEF Reconnects, Leave, Waits, Held
<1>9. CASE ClientReceives
  <2>1. att'.item = Head(queue) /\ att'.reconnect = None
    BY <1>9, ClientFields DEF ClientReceives, Client, Kept
  <2>2. first = None /\ att.item = None /\ att.reconnect = None
    BY <1>9 DEF ClientReceives, Client, InHand, Kept
  <2>3. QED
    BY <1>9, <2>1, <2>2 DEF ClientReceives, Dequeue, Taken, Held
<1>10. CASE ClientSends
  <2>1. att.item # None /\ submitted' = Append(submitted, att.item.n)
    BY <1>10 DEF ClientSends, Client, Submit, InHand
  <2>2. att'.item = None /\ att'.reconnect = None /\ first' = None
    BY <1>10, ClientFields DEF ClientSends, Client, InHand, Kept
  <2>3. QED
    BY <1>10, <2>1, <2>2 DEF ClientSends, Sent, Held
<1>11. CASE ClientExhausted \/ ClientPings \/ ClientCancelled \/ ClientChecks
  BY <1>11, ClientFields DEF ClientExhausted, ClientPings, ClientCancelled, ClientChecks,
          Waits, Held
<1>12. CASE \/ ServerReleases \/ ServerDelivers \/ ServerPings \/ ServerCancelled
            \/ ServerClosed \/ ServerNotifies
  <2>1. att'.item = att.item /\ att'.reconnect = att.reconnect
    BY <1>12, ServerFields
  <2>2. QED
    BY <1>12, <2>1 DEF ServerReleases, ServerDelivers, ServerPings, ServerCancelled,
            ServerClosed, ServerNotifies, Waits, Held
<1>13. ASSUME NEW id, ServerResponds(id) \/ ServerAsks(id) PROVE Waits
  <2>1. att'.item = att.item /\ att'.reconnect = att.reconnect
    BY <1>13, ServerFields
  <2>2. QED
    BY <1>13, <2>1 DEF ServerResponds, ServerAsks, Waits, Held
<1>14. QED
  BY <1>1, <1>2, <1>3, <1>4, <1>5, <1>6, <1>7, <1>8, <1>9, <1>10, <1>11, <1>12, <1>13
     DEF Next, RelayStep, ClientStep, ServerStep, ServerProceeds

LEMMA InLineAlways == Spec => []InLine
<1>1. Init => InLine
  BY NoAttemptType DEF Init, InLine, InOrder, Held
<1>2. TypeOK /\ InHand /\ Kept /\ InLine /\ [Next]_vars => InLine'
  <2> SUFFICES ASSUME TypeOK, InHand, Kept, InLine, [Next]_vars PROVE InLine'
    OBVIOUS
  <2>0. /\ queue \in Seq(Genuine) /\ submitted \in Seq(Requests) /\ read \in Int
        /\ \A m \in Genuine : m.n \in Int
        /\ \A i \in DOMAIN submitted : submitted[i] \in Int
        /\ Held \subseteq Genuine
    <3>1. queue \in Seq(Genuine) /\ Held \subseteq Genuine
      BY DEF InHand, Held
    <3>2. \A m \in Genuine : m.n \in Int
      BY DEF Genuine, Message, Requests
    <3>3. submitted \in Seq(Requests) /\ read \in Int
      BY ConstantsAssumption DEF TypeOK
    <3>4. \A i \in DOMAIN submitted : submitted[i] \in Int
      <4>1. \A i \in DOMAIN submitted : submitted[i] \in Requests
        BY <3>3
      <4>2. QED
        BY <4>1 DEF Requests
    <3>5. QED
      BY <3>1, <3>2, <3>3, <3>4
  <2>1. CASE Arrives
    <3>1. CASE queue' = queue
      BY <2>0, <2>1, <3>1 DEF Arrives, InLine, InOrder
    <3>2. CASE queue' # queue
      <4>1. PICK m \in Genuine : m.n = read + 1 /\ queue' = Append(queue, m)
        BY <2>1, <3>2 DEF Arrives
      <4>2. /\ Held' = Held /\ submitted' = submitted /\ read' = read + 1
            /\ \A i \in DOMAIN queue' :
                  \/ i \in DOMAIN queue /\ queue'[i] = queue[i] /\ i < Len(queue) + 1
                  \/ i = Len(queue) + 1 /\ queue'[i] = m
        BY <2>0, <2>1, <4>1, Enqueued DEF Arrives
      <4>3. QED
        BY <2>0, <4>1, <4>2 DEF InLine, InOrder
    <3>3. QED
      BY <3>1, <3>2
  <2>2. CASE Taken
    <3>1. /\ 1 \in DOMAIN queue /\ Head(queue) = queue[1]
          /\ \A i \in DOMAIN queue' : /\ i + 1 \in DOMAIN queue /\ queue'[i] = queue[i + 1]
                                      /\ i \in Int /\ 1 < i + 1
      BY <2>0, <2>2, Dequeued DEF Taken, Dequeue
    <3>2. QED
      BY <2>0, <2>2, <3>1 DEF Taken, InLine, InOrder
  <2>3. CASE Sent
    <3>1. PICK m \in Held : submitted' = Append(submitted, m.n)
      BY <2>3 DEF Sent
    <3>2. \A i \in DOMAIN submitted' :
             \/ i \in DOMAIN submitted /\ submitted'[i] = submitted[i]
                  /\ i < Len(submitted) + 1
             \/ i = Len(submitted) + 1 /\ submitted'[i] = m.n
      BY <2>0, <3>1
    <3>3. QED
      BY <2>0, <2>3, <3>1, <3>2 DEF Sent, InLine, InOrder
  <2>4. CASE Waits
    BY <2>4 DEF Waits, InLine, InOrder
  <2>5. QED
    BY <2>1, <2>2, <2>3, <2>4, MessagesMove
<1>3. QED
  BY <1>1, <1>2, BridgeTypeCorrect, KeptAlways, PTL DEF Spec

\* Messages reach the backends in the order of the client's input and none
\* reaches them twice, over every reconnect (InOrder).
THEOREM MessagesStayInOrder == Spec => []InOrder
<1>1. InLine => InOrder
  BY DEF InLine
<1>2. QED
  BY <1>1, InLineAlways, PTL

-----------------------------------------------------------------------------
(* The lease *)

\* The messages on their way to a backend.  Every request among them is pending,
\* and only what was submitted can be answered.
Transit == Held \cup {queue[j] : j \in DOMAIN queue}
Covered ==
    /\ LeaseCoversOpen
    /\ \A id \in open \ {Ping} : \E i \in DOMAIN submitted : submitted[i] = id
    /\ \A m \in Transit : m.kind \in RequestKinds => m.id \in pending

\* The four things a step does to these: one message arrives, or is submitted,
\* or an id is taken out of pending, or no request is added or finished.
Counting   == open' = open /\ submitted' = submitted
                /\ \E m \in Genuine : /\ Transit' \subseteq Transit \cup {m}
                                      /\ pending \subseteq pending'
                                      /\ m.kind \in RequestKinds => m.id \in pending'
Submitting == pending' = pending
                /\ \E m \in Held : /\ submitted' = Append(submitted, m.n)
                                   /\ Transit' \subseteq Transit
                                   /\ open' \subseteq open \cup {m.n}
                                   /\ open' # open => m.kind \in RequestKinds
Finishing  == submitted' = submitted /\ Transit' \subseteq Transit
                /\ \/ \E id \in open \ {Ping} : pending' = pending \ {id} /\ open' = open \ {id}
                   \/ \E id \in ServerIds : pending' = pending \ {id} /\ open' = open
Steady     == submitted' = submitted /\ pending' = pending
                /\ open' \subseteq open \cup {Ping} /\ Transit' \subseteq Transit

LEMMA BooksMove ==
    ASSUME TypeOK, InHand, Kept, [Next]_vars
    PROVE  Counting \/ Submitting \/ Finishing \/ Steady
<1> USE DEF restVars, stdinVars, clientVars, relayVars, wireVars, backendVars
<1>0. queue \in Seq(Genuine)
  BY DEF InHand
<1>1. ASSUME NEW m \in Message, ReadMessage(m) PROVE Counting
  <2>1. m \in Genuine
    BY <1>1 DEF ReadMessage, Arriving, Genuine, RequestKinds
  <2>2. Transit' \subseteq Transit \cup {m}
    BY <1>0, <1>1, <2>1, Enqueued DEF ReadMessage, Transit, Held
  <2>3. QED
    BY <1>1, <2>1, <2>2 DEF ReadMessage, Counts, Counting
<1>2. ASSUME NEW m \in Message, RejectMessage(m) PROVE Steady
  BY <1>2 DEF RejectMessage, Steady, Transit, Held
<1>3. CASE CloseInput \/ Posted \/ BackendStops \/ BackendStarts \/ UNCHANGED vars
  BY <1>3 DEF CloseInput, Posted, BackendStops, BackendStarts, vars, Steady, Transit, Held
<1>4. CASE \/ EndOfStream \/ EndpointFails \/ ActivateFails \/ ConnectFails
           \/ Endpoint \/ Activate
  BY <1>4 DEF EndOfStream, EndpointFails, ActivateFails, ConnectFails, MoveRelay,
          Endpoint, Activate, Steady, Transit, Held
<1>5. CASE ReceiveFirst \/ ClientReceives
  <2>1. /\ Dequeue /\ Held' \subseteq {Head(queue)}
        /\ submitted' = submitted /\ pending' = pending /\ open' = open
    <3>1. CASE ReceiveFirst
      BY <3>1, NoAttemptType DEF ReceiveFirst, InHand, Held
    <3>2. CASE ClientReceives
      BY <3>2, ClientFields DEF ClientReceives, Client, InHand, Kept, Held
    <3>3. QED
      BY <1>5, <3>1, <3>2
  <2>2. Transit' \subseteq Transit
    BY <1>0, <2>1, Dequeued DEF Transit
  <2>3. QED
    BY <2>1, <2>2 DEF Steady
<1>6. CASE Connect \/ ClientSends
  <2>1. PICK m \in Held : m \in Genuine /\ Submit(m) /\ Held' \subseteq Held
                            /\ queue' = queue /\ pending' = pending
    <3>1. CASE Connect
      BY <3>1, RelayFields DEF Connect, InHand, Held
    <3>2. CASE ClientSends
      BY <3>2, ClientFields DEF ClientSends, Client, InHand, Held
    <3>3. QED
      BY <1>6, <3>1, <3>2
  <2>2. QED
    BY <2>1 DEF Submit, Genuine, Submitting, Transit
<1>7. CASE Disconnects \/ InputEnds \/ BackendGone \/ Reconnects \/ InputFails
  BY <1>7, RelayFields DEF Disconnects, InputEnds, BackendGone, Reconnects, InputFails,
          Leave, Steady, Transit, Held
<1>8. CASE ClientExhausted \/ ClientPings \/ ClientCancelled \/ ClientChecks
  BY <1>8, ClientFields DEF ClientExhausted, ClientPings, ClientCancelled, ClientChecks,
          SubmitPing, Steady, Transit, Held
<1>9. CASE \/ ServerReleases \/ ServerDelivers \/ ServerPings \/ ServerCancelled
           \/ ServerClosed \/ ServerNotifies
  <2>1. att'.item = att.item /\ att'.reconnect = att.reconnect
    BY <1>9, ServerFields
  <2>2. QED
    BY <1>9, <2>1 DEF ServerReleases, ServerDelivers, ServerPings, ServerCancelled,
            ServerClosed, ServerNotifies, SubmitPing, Steady, Transit, Held
<1>10. ASSUME NEW id, ServerResponds(id) \/ ServerAsks(id) PROVE Finishing
  <2>1. att'.item = att.item /\ att'.reconnect = att.reconnect
    BY <1>10, ServerFields
  <2>2. Transit' = Transit
    BY <1>10, <2>1 DEF ServerResponds, ServerAsks, Transit, Held
  <2>3. QED
    BY <1>10, <2>2 DEF ServerResponds, ServerAsks, Finishing
<1>11. QED
  BY <1>1, <1>2, <1>3, <1>4, <1>5, <1>6, <1>7, <1>8, <1>9, <1>10
     DEF Next, RelayStep, ClientStep, ServerStep, ServerProceeds

LEMMA CoveredAlways ==
    ASSUME ServerIds \cap Requests = {} PROVE Spec => []Covered
<1>1. Init => Covered
  BY NoAttemptType DEF Init, Covered, LeaseCoversOpen, Transit, Held
<1>2. TypeOK /\ InHand /\ Kept /\ InLine /\ Covered /\ [Next]_vars => Covered'
  <2> SUFFICES ASSUME TypeOK, InHand, Kept, InLine, Covered, [Next]_vars PROVE Covered'
    OBVIOUS
  <2> USE DEF Covered, LeaseCoversOpen
  <2>0. /\ submitted \in Seq(Requests) /\ pending \subseteq Requests
        /\ Transit \subseteq Genuine
    BY DEF TypeOK, InHand, Transit, Held
  <2>1. \A m \in Genuine : m.n \in Requests /\ (m.kind \in RequestKinds => m.id = m.n)
    BY DEF Genuine, Message
  <2>2. CASE Counting
    BY <2>2 DEF Counting
  <2>3. CASE Submitting
    <3>1. PICK m \in Held : /\ submitted' = Append(submitted, m.n)
                            /\ Transit' \subseteq Transit /\ pending' = pending
                            /\ open' \subseteq open \cup {m.n}
                            /\ open' # open => m.kind \in RequestKinds
      BY <2>3 DEF Submitting
    <3>2. m \in Transit /\ m.n \in Requests /\ (m.kind \in RequestKinds => m.id = m.n)
      BY <2>0, <2>1 DEF Transit
    <3>3. /\ \A i \in DOMAIN submitted : i \in DOMAIN submitted' /\ submitted'[i] = submitted[i]
          /\ Len(submitted) + 1 \in DOMAIN submitted'
          /\ submitted'[Len(submitted) + 1] = m.n
      BY <2>0, <3>1, <3>2
    <3>4. QED
      BY <3>1, <3>2, <3>3
  <2>4. CASE Finishing
    <3>1. CASE \E id \in ServerIds : pending' = pending \ {id} /\ open' = open
      <4>1. pending' = pending
        BY <2>0, <3>1
      <4>2. QED
        BY <2>4, <3>1, <4>1 DEF Finishing
    <3>2. CASE \E id \in open \ {Ping} : pending' = pending \ {id} /\ open' = open \ {id}
      <4>1. PICK id \in open \ {Ping} : pending' = pending \ {id} /\ open' = open \ {id}
        BY <3>2
      <4>2. PICK i \in DOMAIN submitted : submitted[i] = id
        OBVIOUS
      <4>3. ASSUME NEW m \in Transit PROVE id < m.n
        BY <4>2 DEF InLine, Transit
      <4>4. id \in Int /\ \A n \in Requests : n \in Int
        BY <2>0, <4>2 DEF Requests
      <4>5. \A m \in Transit : m.kind \in RequestKinds => m.id \in pending'
        BY <2>0, <2>1, <4>1, <4>3, <4>4
      <4>6. QED
        BY <2>4, <4>1, <4>5 DEF Finishing
    <3>3. QED
      BY <2>4, <3>1, <3>2 DEF Finishing
  <2>5. CASE Steady
    BY <2>5 DEF Steady
  <2>6. QED
    BY <2>2, <2>3, <2>4, <2>5, BooksMove
<1>3. QED
  BY <1>1, <1>2, BridgeTypeCorrect, KeptAlways, InLineAlways, PTL DEF Spec

\* If Serena's request ids are never the client's, every request a backend has
\* not answered is counted in flight (LeaseCoversOpen; _pending and the lease's
\* inFlight), so that no watchdog takes the backend for idle.
THEOREM LeaseCountsOpenRequests ==
    ASSUME ServerIds \cap Requests = {} PROVE Spec => []LeaseCoversOpen
<1>1. Covered => LeaseCoversOpen
  BY DEF Covered
<1>2. QED
  BY <1>1, CoveredAlways, PTL

=============================================================================
