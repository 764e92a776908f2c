-------------------------- MODULE BridgeSessionProofs --------------------------
(***************************************************************************)
(* Bridge implements ClientSession: whatever becomes of its connections,   *)
(* the relay behaves to its client as one session.                         *)
(***************************************************************************)
EXTENDS BridgeEndProofs

\* A request that was read waits, or its answer is in hand, or is written: one of
\* the three at most.  The input is only exhausted when it is closed.
Answers ==
    /\ pending \cup answered \cup ({att.outgoing} \cap Requests) \subseteq requested
    /\ pending \cap answered = {}
    /\ att.outgoing \notin pending \cup answered
    /\ att.exhausted => closed

LEMMA AnswersAlways ==
    ASSUME ServerIds \cap Requests = {} PROVE Spec => []Answers
<1> USE DEF Answers
<1>1. Init => Answers
  <2>1. NoId \notin Requests
    BY ConstantsAssumption DEF Requests
  <2>2. QED
    BY <2>1, NoAttemptMarks DEF Init
<1>2. TypeOK /\ InHand /\ Endings /\ Covered /\ Unique /\ Answers /\ [Next]_vars => Answers'
  <2> SUFFICES ASSUME TypeOK, InHand, Endings, Covered, Unique, Answers, [Next]_vars
               PROVE  Answers'
    OBVIOUS
  <2> USE DEF restVars, stdinVars, clientVars, relayVars, wireVars, backendVars
  <2>0. /\ NoId \notin Requests /\ pending \subseteq Requests /\ answered \subseteq Requests
        /\ requested \subseteq Requests
    BY ConstantsAssumption DEF Requests, TypeOK
  <2>1. ASSUME NEW m \in Message, m.n = read + 1 PROVE m.n \notin requested
    BY <2>1, ConstantsAssumption DEF Unique, TypeOK
  <2>2. ASSUME NEW m \in Message, ReadMessage(m) PROVE Answers'
    <3>1. m.n = read + 1 /\ (m.kind \in RequestKinds => m.id = m.n)
      BY <2>2 DEF ReadMessage, Arriving, RequestKinds
    <3>2. m.n \notin requested
      BY <2>1, <3>1
    <3>3. CASE m.kind \in RequestKinds
      <4>1. m.id \in Requests /\ m.id \notin requested
        BY <3>1, <3>2, <3>3 DEF Message
      <4>2. /\ requested' = requested \cup {m.id} /\ pending' = pending \cup {m.id}
            /\ answered' = answered /\ att' = att /\ closed' = closed
        BY <2>2, <3>3 DEF ReadMessage, Counts
      <4>3. QED
        BY <2>0, <4>1, <4>2
    <3>4. CASE m.kind \notin RequestKinds
      BY <2>2, <3>4 DEF ReadMessage, Counts
    <3>5. QED
      BY <3>3, <3>4
  <2>3. ASSUME NEW m \in Message, RejectMessage(m) PROVE Answers'
    <3>1. m.n = read + 1 /\ m.id = m.n
      BY <2>3 DEF RejectMessage, Refusable, Arriving, RequestKinds
    <3>2. m.n \notin requested
      BY <2>1, <3>1
    <3>3. m.id \in Requests
      BY <3>1 DEF Message
    <3>4. QED
      BY <2>0, <2>3, <3>1, <3>2, <3>3 DEF RejectMessage
  <2>4. CASE CloseInput \/ Posted \/ BackendStops \/ BackendStarts \/ UNCHANGED vars
    BY <2>4 DEF CloseInput, Posted, BackendStops, BackendStarts, vars
  <2>5. CASE \/ ReceiveFirst \/ EndOfStream \/ EndpointFails \/ ActivateFails
             \/ ConnectFails \/ Endpoint \/ Activate
    BY <2>5 DEF ReceiveFirst, Dequeue, EndOfStream, EndpointFails, ActivateFails,
       ConnectFails, MoveRelay, Endpoint, Activate
  <2>6. CASE Connect \/ Ending \/ InputFails
    <3>1. att'.outgoing = NoId /\ att'.exhausted = FALSE
      BY <2>6, RelayMarks, NoAttemptMarks
    <3>2. requested' = requested /\ pending' = pending /\ answered' = answered
      BY <2>6 DEF Connect, Ending, Disconnects, Reconnects, InputEnds, BackendGone,
         InputFails, Leave
    <3>3. QED
      BY <2>0, <3>1, <3>2
  <2>7. CASE ClientStep
    <3>1. att'.outgoing = att.outgoing /\ (att'.exhausted => att.exhausted \/ closed)
      BY <2>7, ClientMarks DEF ClientStep, ClientExhausted
    <3>2. /\ requested' = requested /\ pending' = pending /\ answered' = answered
          /\ closed' = closed
      BY <2>7 DEF ClientStep, ClientReceives, Dequeue, ClientExhausted, ClientChecks,
         ClientSends, ClientPings, ClientCancelled
    <3>3. QED
      BY <3>1, <3>2
  <2>8. CASE ServerReleases \/ ServerPings \/ ServerClosed \/ ServerCancelled \/ ServerNotifies
    <3>1. att'.outgoing \in {att.outgoing, NoId} /\ att'.exhausted = att.exhausted
      BY <2>8, ServerMarks DEF ServerStep, ServerProceeds
    <3>2. /\ requested' = requested /\ pending' = pending /\ answered' = answered
          /\ closed' = closed
      BY <2>8 DEF ServerReleases, ServerPings, ServerClosed, ServerCancelled, ServerNotifies
    <3>3. QED
      BY <2>0, <3>1, <3>2
  <2>9. CASE ServerDelivers
    <3>1. att'.outgoing = NoId /\ att'.exhausted = att.exhausted
      BY <2>9, ServerMarks DEF ServerStep, ServerProceeds
    <3>2. /\ requested' = requested /\ pending' = pending /\ closed' = closed
          /\ \/ answered' = answered
             \/ att.server = "respond" /\ answered' = answered \cup ({att.outgoing} \ {NoId})
      BY <2>9 DEF ServerDelivers
    <3>3. att.server = "respond" => {att.outgoing} \ {NoId} \subseteq {att.outgoing} \cap Requests
      BY DEF InHand
    <3>4. QED
      BY <2>0, <3>1, <3>2, <3>3
  <2>10. ASSUME NEW id, ServerResponds(id) PROVE Answers'
    <3>1. id \in pending
      BY <2>10 DEF ServerResponds, Covered, LeaseCoversOpen
    <3>2. /\ requested' = requested /\ pending' = pending \ {id} /\ answered' = answered
          /\ closed' = closed
      BY <2>10 DEF ServerResponds
    <3>3. att'.outgoing \in {id, att.outgoing} /\ att'.exhausted = att.exhausted
      BY <2>10, ServerMarks
    <3>4. QED
      BY <2>0, <3>1, <3>2, <3>3
  <2>11. ASSUME NEW id \in ServerIds, ServerAsks(id) PROVE Answers'
    <3>1. id \notin Requests
      OBVIOUS
    <3>2. /\ requested' = requested /\ pending' = pending /\ answered' = answered
          /\ closed' = closed
      BY <2>0, <2>11, <3>1 DEF ServerAsks
    <3>3. att'.outgoing \in {id, att.outgoing} /\ att'.exhausted = att.exhausted
      BY <2>11, ServerMarks
    <3>4. QED
      BY <2>0, <3>1, <3>2, <3>3
  <2>12. QED
    BY <2>2, <2>3, <2>4, <2>5, <2>6, <2>7, <2>8, <2>9, <2>10, <2>11
       DEF Next, RelayStep, ServerStep, ServerProceeds, Ending
<1>3. QED
  BY <1>1, <1>2, BridgeTypeCorrect, EndingsAlways, CoveredAlways, UniqueAlways, PTL DEF Spec

-----------------------------------------------------------------------------
(* The steps of the relay as steps of the session *)

\* The input moves on: a message is sent, or refused, or the input is closed, or
\* it breaks the session.
LEMMA InputSteps ==
    ASSUME TypeOK, \/ \E m \in Message : ReadMessage(m) \/ RejectMessage(m)
                   \/ CloseInput \/ InputFails
    PROVE  Session!Send \/ Session!Refuse \/ Session!Close \/ Session!Break
<1> USE DEF relayVars, wireVars, backendVars, clientVars, Reading, Final
<1>1. ASSUME NEW m \in Message, ReadMessage(m) PROVE Session!Send
  <2>1. m.n = read + 1 /\ (m.kind \in RequestKinds => m.id = m.n)
    BY <1>1 DEF ReadMessage, Arriving, RequestKinds
  <2>2. pending' \in {pending, pending \cup {read + 1}} /\ read' = read + 1
    BY <1>1, <2>1 DEF ReadMessage, Counts
  <2>3. QED
    BY <1>1, <2>2 DEF ReadMessage, Session!Send, Session!Open
<1>2. ASSUME NEW m \in Message, RejectMessage(m) PROVE Session!Refuse
  <2>1. m.id = read + 1 /\ m.n = read + 1
    BY <1>2 DEF RejectMessage, Refusable, Arriving, RequestKinds
  <2>2. QED
    BY <1>2, <2>1 DEF RejectMessage, Session!Refuse, Session!Open
<1>3. CASE CloseInput
  BY <1>3 DEF CloseInput, Session!Close, Session!Open
<1>4. CASE InputFails
  <2>1. NoId \notin Requests /\ att'.outgoing = NoId
    BY <1>4, NoAttemptMarks, ConstantsAssumption DEF InputFails, Requests
  <2>2. QED
    BY <1>4, <2>1 DEF InputFails, Session!Break
<1>5. QED
  BY <1>1, <1>2, <1>3, <1>4

\* A message is submitted, that is, delivered: behind all that were, and before
\* it has an answer.
LEMMA SubmitSteps ==
    ASSUME TypeOK, InHand, Kept, InLine, Covered, Unique, Answers, [Next]_vars,
           Connect \/ ClientSends
    PROVE  Session!Deliver
<1> USE DEF restVars, stdinVars, relayVars, wireVars, backendVars, clientVars, Final
<1>1. PICK m \in Held : submitted' = Append(submitted, m.n)
  <2>1. CASE Connect
    BY <2>1 DEF Connect, Submit, InHand, Held
  <2>2. CASE ClientSends
    BY <2>2 DEF ClientSends, Submit, Client, InHand, Held
  <2>3. QED
    BY <2>1, <2>2
<1>2. /\ m \in Transit /\ m.n \in Requests /\ (m.kind \in RequestKinds => m.id = m.n)
      /\ m.n <= read /\ \A i \in DOMAIN submitted : submitted[i] < m.n
  BY DEF Held, Transit, InHand, Genuine, Message, InLine
<1>3. m.n \in 1..read
  <2>1. m.n \in Nat /\ m.n > 0 /\ read \in Nat
    BY <1>2, ConstantsAssumption DEF Requests, TypeOK
  <2>2. QED
    BY <1>2, <2>1
<1>4. m.n \notin ({att.outgoing} \cap Requests) \cup answered
  <2>1. CASE m.kind \in RequestKinds
    BY <1>2, <2>1 DEF Covered, Answers
  <2>2. CASE m.kind \notin RequestKinds
    BY <1>2, <2>2 DEF Unique, Answers
  <2>3. QED
    BY <2>1, <2>2
<1>5. /\ relay \notin Final /\ relay' \notin Final /\ att'.outgoing = att.outgoing
      /\ read' = read /\ pending' = pending /\ answered' = answered /\ closed' = closed
      /\ alive' = alive /\ identity' = identity
  <2>1. CASE Connect
    BY <2>1, RelayMarks, NoAttemptMarks DEF Connect, InHand
  <2>2. CASE ClientSends
    BY <2>2, ClientMarks DEF ClientStep, ClientSends, Client
  <2>3. QED
    BY <2>1, <2>2
<1>6. QED
  BY <1>1, <1>2, <1>3, <1>4, <1>5 DEF Session!Deliver, Session!Open

\* The receiving task: a response is taken or dropped, written, or lost with the
\* task; what else it does the client does not see.
LEMMA ServerMoves ==
    ASSUME TypeOK, InHand, Endings, Covered, Answers, [Next]_vars,
           ServerIds \cap Requests = {},
           \/ ServerStep \/ ServerNotifies
           \/ \E id \in Requests : ServerResponds(id)
           \/ \E id \in ServerIds : ServerAsks(id)
    PROVE  \/ Session!Respond \/ Session!Drop \/ Session!Write \/ Session!Lose
           \/ UNCHANGED Session!vars
<1> USE DEF restVars, stdinVars, relayVars, wireVars, backendVars, clientVars, Final
<1>0. NoId \notin Requests
  BY ConstantsAssumption DEF Requests
<1>1. /\ relay = "relay" /\ relay' = relay
      /\ read' = read /\ submitted' = submitted /\ closed' = closed
      /\ alive' = alive /\ identity' = identity
  <2>1. CASE ServerStep \/ ServerNotifies
    BY <2>1, ServerMarks DEF ServerStep, ServerProceeds, ServerReleases, ServerDelivers,
       ServerPings, ServerClosed, ServerCancelled, ServerNotifies
  <2>2. ASSUME NEW id, ServerResponds(id) \/ ServerAsks(id)
        PROVE  /\ relay = "relay" /\ relay' = relay
               /\ read' = read /\ submitted' = submitted /\ closed' = closed
               /\ alive' = alive /\ identity' = identity
    BY <2>2, ServerMarks DEF ServerResponds, ServerAsks
  <2>3. QED
    BY <2>1, <2>2
<1>2. ASSUME NEW id \in Requests, ServerResponds(id)
      PROVE  Session!Respond \/ Session!Drop
  <2>1. id \in pending /\ \E i \in DOMAIN submitted : submitted[i] = id
    BY <1>2 DEF ServerResponds, Covered, LeaseCoversOpen
  <2>2. alive = identity /\ att.outgoing = NoId
    BY <1>2 DEF ServerResponds, Listening, Server, Endings
  <2>3. /\ pending' = pending \ {id} /\ answered' = answered
        /\ \/ att'.outgoing = id
           \/ att'.outgoing = att.outgoing /\ "lockTimeout" \in Faults
    BY <1>2, ServerMarks DEF ServerResponds
  <2>4. {att.outgoing} \cap Requests = {} /\ {id} \cap Requests = {id}
    BY <1>0, <2>2
  <2>5. CASE att'.outgoing = id
    BY <1>1, <2>1, <2>2, <2>3, <2>4, <2>5 DEF Session!Respond, Session!Open
  <2>6. CASE att'.outgoing = att.outgoing /\ "lockTimeout" \in Faults
    BY <1>1, <2>1, <2>2, <2>3, <2>4, <2>6 DEF Session!Drop, Session!Open
  <2>7. QED
    BY <2>3, <2>5, <2>6
<1>3. CASE ServerDelivers /\ att.server = "respond" /\ att.outgoing # NoId
  <2>1. att.outgoing \in Requests /\ att'.outgoing = NoId
    BY <1>3, ServerMarks DEF InHand
  <2>2. answered' = answered \cup {att.outgoing} /\ pending' = pending
    BY <1>3 DEF ServerDelivers
  <2>3. {att.outgoing} \cap Requests = {att.outgoing} /\ {att'.outgoing} \cap Requests = {}
    BY <1>0, <2>1
  <2>4. QED
    BY <1>1, <2>2, <2>3 DEF Session!Write, Session!Open
<1>4. CASE ServerCancelled
  <2>1. closed \/ alive # identity
    BY <1>4 DEF ServerCancelled, Endings, Answers, Gone
  <2>2. att'.outgoing = NoId /\ pending' = pending /\ answered' = answered
    BY <1>4, ServerMarks DEF ServerCancelled
  <2>3. QED
    BY <1>0, <1>1, <2>1, <2>2 DEF Session!Lose, Session!Open
<1>5. CASE \/ ServerDelivers /\ (att.server = "ask" \/ att.outgoing = NoId)
           \/ ServerReleases \/ ServerPings \/ ServerClosed \/ ServerNotifies
           \/ \E id \in ServerIds : ServerAsks(id)
  <2>1. {att'.outgoing} \cap Requests = {att.outgoing} \cap Requests
    <3>1. CASE ServerDelivers /\ (att.server = "ask" \/ att.outgoing = NoId)
      BY <1>0, <3>1, ServerMarks DEF InHand
    <3>2. CASE ServerReleases \/ ServerPings \/ ServerClosed
      BY <3>2, ServerMarks
    <3>3. CASE ServerNotifies
      BY <1>0, <3>3, ServerMarks DEF ServerNotifies, Listening, Server, Endings
    <3>4. ASSUME NEW id \in ServerIds, ServerAsks(id)
          PROVE  {att'.outgoing} \cap Requests = {att.outgoing} \cap Requests
      <4>1. id \notin Requests /\ att'.outgoing \in {id, att.outgoing}
        BY <3>4, ServerMarks
      <4>2. att.outgoing = NoId
        BY <3>4 DEF ServerAsks, Listening, Server, Endings
      <4>3. QED
        BY <1>0, <4>1, <4>2
    <3>5. QED
      BY <1>5, <3>1, <3>2, <3>3, <3>4
  <2>2. pending' = pending /\ answered' = answered
    <3>1. ASSUME NEW id \in ServerIds, ServerAsks(id)
          PROVE  pending' = pending /\ answered' = answered
      <4>1. id \notin pending
        BY <3>1 DEF TypeOK
      <4>2. QED
        BY <3>1, <4>1 DEF ServerAsks
    <3>2. ServerDelivers /\ att.server # "ask" /\ att.outgoing = NoId => answered' = answered
      BY DEF ServerDelivers
    <3>3. QED
      BY <1>5, <3>1, <3>2 DEF ServerDelivers, ServerReleases, ServerPings, ServerClosed,
         ServerNotifies
  <2>3. QED
    BY <1>1, <2>1, <2>2 DEF Session!vars
<1>6. QED
  <2>1. ServerDelivers => att.server \in {"respond", "ask"}
    BY DEF ServerDelivers
  <2>2. QED
    BY <1>2, <1>3, <1>4, <1>5, <2>1 DEF ServerStep, ServerProceeds

\* The relay loop and the forwarding task, when they submit nothing.
LEMMA RelayMoves ==
    ASSUME TypeOK, InHand, Endings, [Next]_vars,
           RelayStep \/ ClientStep, ~(Connect \/ ClientSends)
    PROVE  Session!Switch \/ Session!Finish \/ UNCHANGED Session!vars
<1> USE DEF restVars, stdinVars, relayVars, wireVars, backendVars, clientVars, Final
<1>0. NoId \notin Requests
  BY ConstantsAssumption DEF Requests
<1>1. CASE Endpoint
  BY <1>1 DEF Endpoint, Session!Switch
<1>2. CASE EndOfStream \/ EndpointFails \/ ActivateFails \/ ConnectFails
  <2>1. /\ att.outgoing = NoId /\ att' = att /\ relay \notin Final /\ relay' \in Final
    BY <1>2, NoAttemptMarks DEF EndOfStream, EndpointFails, ActivateFails, ConnectFails,
       MoveRelay, InHand
  <2>2. QED
    BY <1>0, <1>2, <2>1 DEF EndOfStream, EndpointFails, ActivateFails, ConnectFails,
       MoveRelay, Session!Finish
<1>3. CASE ReceiveFirst \/ Activate
  BY <1>3 DEF ReceiveFirst, Dequeue, Activate, Session!vars
<1>4. CASE Ending
  <2>1. /\ att.outgoing = NoId /\ att'.outgoing = NoId /\ relay = "relay"
    BY <1>4, RelayMarks, NoAttemptMarks DEF Endings
  <2>2. /\ read' = read /\ pending' = pending /\ answered' = answered /\ closed' = closed
        /\ submitted' = submitted /\ alive' = alive /\ identity' = identity
    BY <1>4 DEF Ending, Disconnects, Reconnects, InputEnds, BackendGone, Leave
  <2>3. CASE relay' \in Final
    BY <1>0, <2>1, <2>2, <2>3 DEF Session!Finish
  <2>4. CASE relay' \notin Final
    BY <2>1, <2>2, <2>4 DEF Session!vars
  <2>5. QED
    BY <2>3, <2>4
<1>5. CASE ClientStep
  <2>1. att'.outgoing = att.outgoing /\ relay' = relay
    BY <1>5, ClientMarks
  <2>2. QED
    BY <1>5, <2>1 DEF ClientStep, ClientReceives, Dequeue, ClientExhausted, ClientChecks,
       ClientPings, ClientCancelled, Session!vars
<1>6. QED
  BY <1>1, <1>2, <1>3, <1>4, <1>5 DEF RelayStep, Ending

\* If Serena's request ids are never the client's, the relay implements the
\* session of ClientSession, for every fault and any numbers of messages and of
\* backends: each of its steps is one of the session's, or none that the client
\* could tell (ImplementsClientSession; the whole of StdioHttpBridge).
THEOREM BridgeIsClientSession ==
    ASSUME ServerIds \cap Requests = {} PROVE Spec => ImplementsClientSession
<1> DEFINE Inv == TypeOK /\ InHand /\ Kept /\ InLine /\ Endings /\ Covered /\ Unique /\ Answers
<1>1. Init => Session!Init
  <2>1. NoId \notin Requests
    BY ConstantsAssumption DEF Requests
  <2>2. QED
    BY <2>1, NoAttemptMarks DEF Init, Session!Init, Final
<1>2. Inv /\ [Next]_vars => [Session!Next]_Session!vars
  <2> SUFFICES ASSUME Inv, [Next]_vars
               PROVE  Session!Next \/ UNCHANGED Session!vars
    OBVIOUS
  <2> USE DEF Inv, Session!Next
  <2>1. CASE \/ \E m \in Message : ReadMessage(m) \/ RejectMessage(m)
             \/ CloseInput \/ InputFails
    BY <2>1, InputSteps
  <2>2. CASE Connect \/ ClientSends
    BY <2>2, SubmitSteps
  <2>3. CASE (RelayStep \/ ClientStep) /\ ~(Connect \/ ClientSends)
    BY <2>3, RelayMoves
  <2>4. CASE \/ ServerStep \/ ServerNotifies
             \/ \E id \in Requests : ServerResponds(id)
             \/ \E id \in ServerIds : ServerAsks(id)
    BY <2>4, ServerMoves
  <2>5. CASE BackendStops \/ BackendStarts
    BY <2>5 DEF BackendStops, BackendStarts, stdinVars, clientVars, relayVars, wireVars,
       Session!Switch
  <2>6. CASE Posted \/ UNCHANGED vars
    BY <2>6 DEF Posted, vars, restVars, stdinVars, clientVars, relayVars, wireVars,
       backendVars, Session!vars
  <2>7. QED
    BY <2>1, <2>2, <2>3, <2>4, <2>5, <2>6 DEF Next
<1>3. Spec => []Inv
  BY BridgeTypeCorrect, KeptAlways, InLineAlways, EndingsAlways, CoveredAlways,
     UniqueAlways, AnswersAlways, PTL
<1>4. QED
  BY <1>1, <1>2, <1>3, PTL DEF Spec, ImplementsClientSession, Session!Spec

=============================================================================
