------------------------------ MODULE JobPool ------------------------------
(***************************************************************************)
(* What the worker pool promises its callers, with no threads, locks or    *)
(* queue: every admitted job has one life (queued, perhaps running, one    *)
(* terminal status), holds one slot of its owner from admission until its  *)
(* end has been decided, and is announced exactly once, after the slot is  *)
(* free again. Runtime implements it.                                      *)
(***************************************************************************)
EXTENDS Naturals, FiniteSets

CONSTANTS Job, Owner, MaxPerOwner

VARIABLES
  status,   \* where a job is in its life
  ownerOf,  \* the owner it was admitted for
  held,     \* jobs that hold a slot
  told,     \* how often the end of a job was announced
  open      \* are submissions accepted

poolVars == <<status, ownerOf, held, told, open>>

Ended == {"completed", "failed", "cancelled"}

PoolInit ==
  /\ status = [j \in Job |-> "none"]
  /\ ownerOf \in [Job -> Owner]
  /\ held = {}
  /\ told = [j \in Job |-> 0]
  /\ open = TRUE

\* Admission: only for an owner below its ceiling, only while open.
Admit(j, o) ==
  /\ open
  /\ status[j] = "none"
  /\ Cardinality({k \in held : ownerOf[k] = o}) < MaxPerOwner
  /\ status' = [status EXCEPT ![j] = "queued"]
  /\ ownerOf' = [ownerOf EXCEPT ![j] = o]
  /\ held' = held \cup {j}
  /\ UNCHANGED <<told, open>>

Start(j) ==
  /\ status[j] = "queued"
  /\ status' = [status EXCEPT ![j] = "running"]
  /\ UNCHANGED <<ownerOf, held, told, open>>

\* A job ends from running with any status, from queued only by being
\* cancelled or by failing its deadline.
End(j, s) ==
  /\ \/ status[j] = "running"
     \/ status[j] = "queued" /\ s # "completed"
  /\ status' = [status EXCEPT ![j] = s]
  /\ UNCHANGED <<ownerOf, held, told, open>>

\* The slot comes back once the end is decided.
Free(j) ==
  /\ status[j] \in Ended
  /\ j \in held
  /\ held' = held \ {j}
  /\ UNCHANGED <<status, ownerOf, told, open>>

\* The one announcement: never before the slot is free.
Announce(j) ==
  /\ status[j] \in Ended
  /\ j \notin held
  /\ told[j] = 0
  /\ told' = [told EXCEPT ![j] = 1]
  /\ UNCHANGED <<status, ownerOf, held, open>>

Close ==
  /\ open
  /\ open' = FALSE
  /\ UNCHANGED <<status, ownerOf, held, told>>

PoolNext ==
  \/ \E j \in Job :
       \/ \E o \in Owner : Admit(j, o)
       \/ Start(j)
       \/ \E s \in Ended : End(j, s)
       \/ Free(j)
       \/ Announce(j)
  \/ Close

PoolSpec == PoolInit /\ [][PoolNext]_poolVars
=============================================================================
