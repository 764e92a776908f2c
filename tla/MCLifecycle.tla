----------------------------- MODULE MCLifecycle -----------------------------
(* Lifecycle on small instances: interchangeable proxies, watchdogs, pids. *)
EXTENDS Lifecycle, TLC

Symmetry ==
    Permutations(Proxies) \cup Permutations(Watchdogs) \cup Permutations(Pids)

=============================================================================
