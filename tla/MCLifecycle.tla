----------------------------- MODULE MCLifecycle -----------------------------
(* Lifecycle with capacities on both sides of the limits in main.go, one      *)
(* configuration for each field that may be wrong, and the request for help.  *)
EXTENDS Lifecycle

Sound == [asks |-> FALSE, capacity |-> 1000, level |-> "INFO", statuses |-> <<403, 404>>]

SomeConfigs ==
    {[Sound EXCEPT !.capacity = n] : n \in {-1, 0, 1, 99, 100, 101}}
    \cup {[Sound EXCEPT !.level = l] : l \in Levels \cup {"TRACE"}}
    \cup {[Sound EXCEPT !.statuses = s] : s \in {<<600>>, <<403, 427>>, <<403>>}}
    \cup {[Sound EXCEPT !.asks = TRUE]}
=============================================================================
