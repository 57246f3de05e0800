--------------------------- MODULE MCTrackerRelay ---------------------------
(* Small instances of TrackerRelay: who registers what, and from where.    *)
EXTENDS TrackerRelay

CONSTANTS d1, d2, s1, s2, main, worker, role, name, v, w

\* Each tracker has a serial of its own.
OwnSerials == [d \in Drivers |-> IF d = d1 THEN s1 ELSE s2]

\* One tracker is driven from RunFrame and one from a thread of the DLL.
TwoThreads == [d \in Drivers |-> IF d = d1 THEN worker ELSE main]
=============================================================================
