------------------------- MODULE MCNetworkScheduler -------------------------
(* TLC instance of NetworkScheduler: a finite set of requests, each asking *)
(* for one slot.  Requests, hosts and loops are interchangeable.          *)
EXTENDS NetworkScheduler, TLC

Symmetry == Permutations(Requests) \cup Permutations(Hosts) \cup Permutations(Loops)
=============================================================================
