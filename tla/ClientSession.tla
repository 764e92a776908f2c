---------------------------- MODULE ClientSession ----------------------------
(***************************************************************************)
(* What a proxy promises to its stdio client, without connections, queues, *)
(* tasks, ids and barriers: backends take the messages in order, and none  *)
(* twice; a request is answered once, by a backend that took it, or by the *)
(* proxy, and then no backend takes it; and an answer is only lost as the  *)
(* client leaves or the backend goes, unless the faults say otherwise.     *)
(* Bridge implements it (ImplementsClientSession).                         *)
(***************************************************************************)
EXTENDS Naturals, Sequences

CONSTANT Faults  \* those of Bridge

VARIABLES
    sent,       \* messages the client has sent
    waiting,    \* requests among them that wait for an answer
    carried,    \* the one whose answer is being written to the client, if any
    answered,   \* those the client has the answer of
    delivered,  \* the messages that backends took, in order
    served,     \* the backend that the session was last given runs
    closed,     \* the client sends no more
    over        \* the session has ended or failed

vars == <<sent, waiting, carried, answered, delivered, served, closed, over>>

Init ==
    /\ sent = 0 /\ waiting = {} /\ carried = {} /\ answered = {}
    /\ delivered = <<>>
    /\ served = TRUE /\ closed = FALSE /\ over = FALSE

Open == ~over /\ UNCHANGED over

\* A request waits for an answer; other messages do not.
Send ==
    /\ Open /\ ~closed
    /\ sent' = sent + 1
    /\ waiting' \in {waiting, waiting \cup {sent + 1}}
    /\ UNCHANGED <<carried, answered, delivered, served, closed>>

\* The proxy answers a request itself.
Refuse ==
    /\ Open /\ ~closed
    /\ sent' = sent + 1
    /\ answered' = answered \cup {sent + 1}
    /\ UNCHANGED <<waiting, carried, delivered, served, closed>>

Close ==
    /\ Open
    /\ closed' = TRUE
    /\ UNCHANGED <<sent, waiting, carried, answered, delivered, served>>

\* Messages may be left out, by a session that is about to end, but none is taken
\* after a later one, nor once it has an answer.
Deliver ==
    /\ Open
    /\ \E n \in 1..sent :
          /\ \A i \in DOMAIN delivered : delivered[i] < n
          /\ n \notin carried \cup answered
          /\ delivered' = Append(delivered, n)
    /\ UNCHANGED <<sent, waiting, carried, answered, served, closed>>

\* A backend answers a request that it or its predecessors took.
Respond ==
    /\ Open /\ served /\ carried = {}
    /\ \E n \in waiting :
          /\ \E i \in DOMAIN delivered : delivered[i] = n
          /\ waiting' = waiting \ {n} /\ carried' = {n}
    /\ UNCHANGED <<sent, answered, delivered, served, closed>>

Write ==
    /\ Open
    /\ answered' = answered \cup carried /\ carried' = {}
    /\ UNCHANGED <<sent, waiting, delivered, served, closed>>

Lose ==
    /\ Open
    /\ closed \/ ~served
    /\ carried' = {}
    /\ UNCHANGED <<sent, waiting, answered, delivered, served, closed>>

\* The proxy cannot note on its lease that a request is answered.
Drop ==
    /\ Open /\ served /\ carried = {} /\ "lockTimeout" \in Faults
    /\ \E n \in waiting :
          /\ \E i \in DOMAIN delivered : delivered[i] = n
          /\ waiting' = waiting \ {n}
    /\ UNCHANGED <<sent, carried, answered, delivered, served, closed>>

\* Backends come and go.
Switch ==
    /\ served' \in BOOLEAN
    /\ UNCHANGED <<sent, waiting, carried, answered, delivered, closed, over>>

\* Nothing is being written when the session ends.
Finish ==
    /\ ~over /\ over' = TRUE /\ carried = {}
    /\ UNCHANGED <<sent, waiting, carried, answered, delivered, served, closed>>

\* What the client sends next is no message, or cannot be noted on the lease.
Break ==
    /\ ~over /\ ~closed /\ Faults \cap {"malformed", "lockTimeout"} # {}
    /\ over' = TRUE /\ closed' = TRUE /\ carried' = {}
    /\ UNCHANGED <<sent, waiting, answered, delivered, served>>

Next ==
    \/ Send \/ Refuse \/ Close \/ Deliver \/ Respond \/ Write \/ Lose \/ Drop
    \/ Switch \/ Finish \/ Break

Spec == Init /\ [][Next]_vars

=============================================================================
