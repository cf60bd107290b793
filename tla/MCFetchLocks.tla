---------------------------- MODULE MCFetchLocks ----------------------------
(* Small instances of FetchLocks: two callers with a runtime of their own   *)
(* each, so that the ids of their jobs collide.                             *)
EXTENDS FetchLocks, TLC

CONSTANTS a, b, x, y

\* Caller a fetches twice where the run is about a second fetch.
Once == [c \in Callers |-> 1]
Twice == [c \in Callers |-> IF c = a THEN 2 ELSE 1]

\* The destinations are interchangeable.
DestSymmetry == Permutations({x, y})

MCRuntimeOf == [c \in Callers |-> c]
=============================================================================
