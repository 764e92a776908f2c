------------------------------- MODULE MCPorts -------------------------------
(* Ports on small instances: linked worktrees, or unrelated checkouts. *)
EXTENDS Ports

OneRepository == [i \in Identities |-> "repository"]
OwnRepository == [i \in Identities |-> i]

=============================================================================
