---------------------------- MODULE MCIndexQueue ----------------------------
(* Small instances of IndexQueue.  The sets are model values; the tasks are *)
(* numbers because their order is their age, so they are not symmetric.     *)
EXTENDS IndexQueue, TLC

CONSTANTS r1, r2, c1, c2, w1, w2, w3

SendOnce   == FaultKinds \ {"retry"}
ReadFaults == {"xread", "xack", "retry"}
NoFaults   == {}

Symmetric == Permutations(Clients) \cup Permutations(Consumers)
=============================================================================
