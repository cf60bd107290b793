----------------------------- MODULE JobHandles -----------------------------
(***************************************************************************)
(* The job layer of the NIF (native/gitility/src/lib.rs) and               *)
(* Gitility.Job.await on top of it: owner keys, job handles, waiter        *)
(* registration, the observer that hands waiters to the notification       *)
(* channel, the pump thread that sends the messages, owner monitors, and   *)
(* runtime_shutdown. The worker pool below is JobPool, which Runtime is    *)
(* proved to implement; an announcement there is the observer call here.   *)
(*                                                                         *)
(* One critical section of a mutex is one action. The submit NIFs run on a *)
(* regular scheduler, so a process cannot die inside one of them.          *)
(***************************************************************************)
EXTENDS JobPool, Integers, Sequences

CONSTANTS
  Procs,       \* Erlang processes
  Submitters,  \* bound: processes that submit
  Awaiters,    \* bound: processes that await and cancel
  Mortal,      \* bound: processes that may die
  Detached,    \* jobs submitted with detach: true
  Patient,     \* processes that await with :infinity
  Stops        \* bound: is runtime_shutdown ever called

ASSUME HandlesAssumption ==
  /\ Job = 1..Cardinality(Job)
  /\ Owner = 1..Cardinality(Owner)   \* next_owner_key starts at 1
  /\ Submitters \cup Awaiters \cup Mortal \subseteq Procs
  /\ Patient \subseteq Procs
  /\ Stops \in BOOLEAN

VARIABLES
  (* Processes. *)
  pc,          \* where a process is in submit, await or its life
  at,          \* the job it is submitting or awaiting
  key,         \* the owner key its submit_job holds
  mail,        \* {:gitility_job, id, :done} messages in its mailbox
  (* JobResource and WaiterState, one per job. *)
  submitter,   \* JobResource.owner
  handles,     \* jobs whose handle was returned to Elixir
  waiters,
  suppressed,
  monitor,     \* jobs with a stored and live owner monitor
  flagged,     \* jobs on which Job::cancel was called
  downs,       \* monitors that fired, their down callback still to run
  forgetting,  \* down callbacks between cancel and remove_owner
  (* NifJobObserver::completed, one call per job. *)
  stage,
  carried,     \* the waiters it took, later those of its Notification
  (* RuntimeResource. *)
  ownerKeys,   \* owner_keys, 0 for no entry
  ownerActive, \* owner_active, 0 for no entry
  nextKey,
  channel,     \* Notifications sent and not received
  sender,      \* is NotificationSender still open
  pump,        \* the notification pump: "recv" or "exit"
  stop         \* progress of runtime_shutdown

procVars == <<pc, at, key, mail>>
handleVars == <<submitter, handles, waiters, suppressed, monitor, flagged,
                downs, forgetting>>
observerVars == <<stage, carried>>
ownerVars == <<ownerKeys, ownerActive, nextKey>>
runtimeVars == <<channel, sender, pump, stop>>
vars == <<poolVars, procVars, handleVars, observerVars, ownerVars, runtimeVars>>

Alive(p) == pc[p] # "dead"
Goto(p, label) == pc' = [pc EXCEPT ![p] = label]

Init ==
  /\ PoolInit
  /\ ownerOf = [j \in Job |-> 1]
  /\ pc = [p \in Procs |-> "idle"]
  /\ at = [p \in Procs |-> 0]
  /\ key = [p \in Procs |-> 0]
  /\ mail = [p \in Procs |-> [j \in Job |-> 0]]
  /\ submitter = [j \in Job |-> CHOOSE p \in Procs : TRUE]
  /\ handles = {}
  /\ waiters = [j \in Job |-> {}]
  /\ suppressed = [j \in Job |-> {}]
  /\ monitor = {}
  /\ flagged = {}
  /\ downs = {}
  /\ forgetting = {}
  /\ stage = [j \in Job |-> "quiet"]
  /\ carried = [j \in Job |-> {}]
  /\ ownerKeys = [p \in Procs |-> 0]
  /\ ownerActive = [p \in Procs |-> 0]
  /\ nextKey = 1
  /\ channel = <<>>
  /\ sender = "open"
  /\ pump = "recv"
  /\ stop = "no"

-----------------------------------------------------------------------------
(* submit_job.                                                              *)

\* The owner's key and its count, under both locks. The supply of fresh keys
\* bounds the submissions explored.
SubmitReserve(p) ==
  LET k == IF ownerKeys[p] = 0 THEN nextKey ELSE ownerKeys[p] IN
  /\ p \in Submitters
  /\ pc[p] = "idle"
  /\ k \in Owner
  /\ \E j \in Job : status[j] = "none"
  /\ ownerKeys' = [ownerKeys EXCEPT ![p] = k]
  /\ nextKey' = IF ownerKeys[p] = 0 THEN nextKey + 1 ELSE nextKey
  /\ ownerActive' = [ownerActive EXCEPT ![p] = @ + 1]
  /\ key' = [key EXCEPT ![p] = k]
  /\ Goto(p, "submit")
  /\ UNCHANGED <<poolVars, at, mail, handleVars, observerVars, runtimeVars>>

\* The core admits the job: job ids are handed out in order.
SubmitOk(p) ==
  /\ pc[p] = "submit"
  /\ \E j \in Job :
       /\ \A k \in Job : k < j => status[k] # "none"
       /\ Admit(j, key[p])
       /\ submitter' = [submitter EXCEPT ![j] = p]
       /\ at' = [at EXCEPT ![p] = j]
  /\ Goto(p, "monitor")
  /\ UNCHANGED <<key, mail, handles, waiters, suppressed, monitor, flagged,
                 downs, forgetting, observerVars, ownerVars, runtimeVars>>

\* Mutant: the decrement does not saturate.
OwnerDoneWraps(p) ==
  /\ ownerActive' = [ownerActive EXCEPT ![p] = @ - 1]
  /\ ownerKeys' = [ownerKeys EXCEPT ![p] = IF ownerActive[p] = 1 THEN 0 ELSE @]

\* Mutant: the key goes with any job of the owner, not with the last.
OwnerDoneEarly(p) ==
  /\ ownerActive' = [ownerActive EXCEPT ![p] = IF @ > 0 THEN @ - 1 ELSE 0]
  /\ ownerKeys' = [ownerKeys EXCEPT ![p] = 0]

\* owner_job_completed.
OwnerDone(p) ==
  /\ ownerActive' = [ownerActive EXCEPT ![p] = IF @ > 0 THEN @ - 1 ELSE 0]
  /\ ownerKeys' = [ownerKeys EXCEPT ![p] = IF ownerActive[p] = 1 THEN 0 ELSE @]

\* The core refuses: shutting down, the owner's ceiling or (the pool's queue
\* being hidden here, at any time) a full queue.
SubmitRefused(p) ==
  /\ pc[p] = "submit"
  /\ OwnerDone(p)
  /\ key' = [key EXCEPT ![p] = 0]
  /\ Goto(p, "idle")
  /\ UNCHANGED <<poolVars, at, mail, handleVars, observerVars, nextKey, runtimeVars>>

\* Mutant: the monitor is not stored.
SubmitReturnsBare(p) ==
  /\ pc[p] = "monitor"
  /\ handles' = handles \cup {at[p]}
  /\ at' = [at EXCEPT ![p] = 0]
  /\ key' = [key EXCEPT ![p] = 0]
  /\ Goto(p, "idle")
  /\ UNCHANGED <<poolVars, mail, submitter, waiters, suppressed, monitor, flagged,
                 downs, forgetting, observerVars, ownerVars, runtimeVars>>

\* The owner is monitored, unless the job is detached, and the handle returned.
SubmitReturns(p) ==
  /\ pc[p] = "monitor"
  /\ monitor' = IF at[p] \in Detached THEN monitor ELSE monitor \cup {at[p]}
  /\ handles' = handles \cup {at[p]}
  /\ at' = [at EXCEPT ![p] = 0]
  /\ key' = [key EXCEPT ![p] = 0]
  /\ Goto(p, "idle")
  /\ UNCHANGED <<poolVars, mail, submitter, waiters, suppressed, flagged,
                 downs, forgetting, observerVars, ownerVars, runtimeVars>>

-----------------------------------------------------------------------------
(* Job.await and Job.cancel, by any process that has the handle.            *)

\* Mutant: registration does not look at the status.
RegisterBlind(p, j) ==
  /\ p \in Awaiters
  /\ pc[p] = "idle"
  /\ j \in handles
  /\ at' = [at EXCEPT ![p] = j]
  /\ Goto(p, "wait")
  /\ suppressed' = [suppressed EXCEPT ![j] = @ \ {p}]
  /\ waiters' = [waiters EXCEPT ![j] = @ \cup {p}]
  /\ UNCHANGED <<poolVars, key, mail, submitter, handles, monitor, flagged,
                 downs, forgetting, observerVars, ownerVars, runtimeVars>>

\* job_register_waiter: the status is read under the waiter lock.
Register(p, j) ==
  /\ p \in Awaiters
  /\ pc[p] = "idle"
  /\ j \in handles
  /\ at' = [at EXCEPT ![p] = j]
  /\ \/ /\ status[j] \in Ended
        /\ Goto(p, "take")
        /\ UNCHANGED <<waiters, suppressed>>
     \/ /\ status[j] \notin Ended
        /\ Goto(p, "wait")
        /\ suppressed' = [suppressed EXCEPT ![j] = @ \ {p}]
        /\ waiters' = [waiters EXCEPT ![j] = @ \cup {p}]
  /\ UNCHANGED <<poolVars, key, mail, submitter, handles, monitor, flagged,
                 downs, forgetting, observerVars, ownerVars, runtimeVars>>

\* The :done message; further copies of it are flushed.
Receive(p) ==
  /\ pc[p] = "wait"
  /\ mail[p][at[p]] > 0
  /\ mail' = [mail EXCEPT ![p][at[p]] = 0]
  /\ Goto(p, "take")
  /\ UNCHANGED <<poolVars, at, key, handleVars, observerVars, ownerVars, runtimeVars>>

\* The `after` clause runs: no message was there.
AwaitTimeout(p) ==
  /\ p \notin Patient
  /\ pc[p] = "wait"
  /\ mail[p][at[p]] = 0
  /\ Goto(p, "deregister")
  /\ UNCHANGED <<poolVars, at, key, mail, handleVars, observerVars, ownerVars,
                 runtimeVars>>

\* Mutant: the waiter is removed, a notification under way not suppressed.
DeregisterOnly(p) ==
  /\ pc[p] = "deregister"
  /\ waiters' = [waiters EXCEPT ![at[p]] = @ \ {p}]
  /\ Goto(p, "flush")
  /\ UNCHANGED <<poolVars, at, key, mail, submitter, handles, suppressed, monitor,
                 flagged, downs, forgetting, observerVars, ownerVars, runtimeVars>>

\* job_deregister_waiter.
Deregister(p) ==
  /\ pc[p] = "deregister"
  /\ waiters' = [waiters EXCEPT ![at[p]] = @ \ {p}]
  /\ suppressed' = [suppressed EXCEPT ![at[p]] = @ \cup {p}]
  /\ Goto(p, "flush")
  /\ UNCHANGED <<poolVars, at, key, mail, submitter, handles, monitor, flagged,
                 downs, forgetting, observerVars, ownerVars, runtimeVars>>

\* flush_notifications, and :await_timeout is returned.
Flush(p) ==
  /\ pc[p] = "flush"
  /\ mail' = [mail EXCEPT ![p][at[p]] = 0]
  /\ at' = [at EXCEPT ![p] = 0]
  /\ Goto(p, "idle")
  /\ UNCHANGED <<poolVars, key, handleVars, observerVars, ownerVars, runtimeVars>>

\* job_take_result: the owner's monitor has done its work. (That the output
\* goes to one taker is take_output's, see TakeOutput in Runtime.)
Take(p) ==
  /\ pc[p] = "take"
  /\ IF status[at[p]] \in Ended
       THEN monitor' = monitor \ {at[p]}
       ELSE UNCHANGED monitor
  /\ at' = [at EXCEPT ![p] = 0]
  /\ Goto(p, "idle")
  /\ UNCHANGED <<poolVars, key, mail, submitter, handles, waiters, suppressed, flagged,
                 downs, forgetting, observerVars, ownerVars, runtimeVars>>

\* Job::cancel at the pool: a queued job ends here, a running one is flagged.
CancelJobs(js) ==
  /\ flagged' = flagged \cup js
  /\ status' = [j \in Job |-> IF j \in js /\ status[j] = "queued" THEN "cancelled"
                              ELSE status[j]]
  /\ UNCHANGED <<ownerOf, held, told>>

\* job_cancel.
Cancel(p, j) ==
  /\ p \in Awaiters
  /\ pc[p] = "idle"
  /\ j \in handles \ flagged
  /\ CancelJobs({j})
  /\ UNCHANGED <<open, procVars, submitter, handles, waiters, suppressed, monitor,
                 downs, forgetting, observerVars, ownerVars, runtimeVars>>

-----------------------------------------------------------------------------
(* The owner dies; JobResource::down.                                       *)

Die(p) ==
  /\ p \in Mortal
  /\ Alive(p)
  /\ pc[p] \notin {"submit", "monitor"}
  /\ Goto(p, "dead")
  /\ at' = [at EXCEPT ![p] = 0]
  /\ mail' = [mail EXCEPT ![p] = [j \in Job |-> 0]]
  /\ downs' = downs \cup {j \in monitor : submitter[j] = p}
  /\ UNCHANGED <<poolVars, key, submitter, handles, waiters, suppressed, monitor,
                 flagged, forgetting, observerVars, ownerVars, runtimeVars>>

\* The callback compares its monitor with the stored one: a result taken in
\* between has removed it, and nothing is done. Otherwise the job is cancelled.
Down(j) ==
  /\ j \in downs
  /\ downs' = downs \ {j}
  /\ monitor' = monitor \ {j}
  /\ IF j \in monitor
       THEN CancelJobs({j}) /\ forgetting' = forgetting \cup {j}
       ELSE UNCHANGED <<status, ownerOf, held, told, flagged, forgetting>>
  /\ UNCHANGED <<open, procVars, submitter, handles, waiters, suppressed,
                 observerVars, ownerVars, runtimeVars>>

\* remove_owner.
RemoveOwner(j) ==
  /\ j \in forgetting
  /\ forgetting' = forgetting \ {j}
  /\ ownerActive' = [ownerActive EXCEPT ![submitter[j]] = 0]
  /\ ownerKeys' = [ownerKeys EXCEPT ![submitter[j]] = 0]
  /\ UNCHANGED <<poolVars, procVars, submitter, handles, waiters, suppressed, monitor,
                 flagged, downs, observerVars, nextKey, runtimeVars>>

-----------------------------------------------------------------------------
(* The pool's own steps, and NifJobObserver::completed.                     *)

\* This layer only asks whether a job is terminal, so one terminal status from
\* each side stands for all.
PoolStep(j) ==
  /\ \/ Start(j)
     \/ End(j, IF status[j] = "running" THEN "completed" ELSE "failed")
     \/ Free(j)
  /\ UNCHANGED <<procVars, handleVars, observerVars, ownerVars, runtimeVars>>

\* completed takes the waiters under their lock ...
ObserverTakes(j) ==
  /\ Announce(j)
  /\ carried' = [carried EXCEPT ![j] = waiters[j]]
  /\ waiters' = [waiters EXCEPT ![j] = {}]
  /\ stage' = [stage EXCEPT ![j] = "count"]
  /\ UNCHANGED <<procVars, submitter, handles, suppressed, monitor, flagged,
                 downs, forgetting, ownerVars, runtimeVars>>

\* ... then settles the owner's count ...
ObserverCounts(j) ==
  /\ stage[j] = "count"
  /\ OwnerDone(submitter[j])
  /\ stage' = [stage EXCEPT ![j] = "enqueue"]
  /\ UNCHANGED <<poolVars, procVars, handleVars, carried, nextKey, runtimeVars>>

\* ... and hands the waiters to the pump; a closed sender drops them.
ObserverEnqueues(j) ==
  /\ stage[j] = "enqueue"
  /\ \/ /\ sender = "open"
        /\ channel' = Append(channel, j)
        /\ stage' = [stage EXCEPT ![j] = "sent"]
        /\ UNCHANGED carried
     \/ /\ sender = "closed"
        /\ carried' = [carried EXCEPT ![j] = {}]
        /\ stage' = [stage EXCEPT ![j] = "dropped"]
        /\ UNCHANGED channel
  /\ UNCHANGED <<poolVars, procVars, handleVars, ownerVars, sender, pump, stop>>

-----------------------------------------------------------------------------
(* notification_pump and runtime_shutdown.                                  *)

\* notify_waiters holds the waiter lock across the sends.
PumpNotify ==
  /\ pump = "recv"
  /\ channel # <<>>
  /\ LET j == Head(channel) IN
       /\ mail' = [p \in Procs |-> [mail[p] EXCEPT ![j] =
                     IF p \in carried[j] \ suppressed[j] /\ Alive(p) THEN @ + 1 ELSE @]]
       /\ suppressed' = [suppressed EXCEPT ![j] = {}]
       /\ carried' = [carried EXCEPT ![j] = {}]
  /\ channel' = Tail(channel)
  /\ UNCHANGED <<poolVars, pc, at, key, submitter, handles, waiters, monitor, flagged,
                 downs, forgetting, stage, ownerVars, sender, pump, stop>>

\* Mutant: the pump ends at the close, whatever was accepted before.
PumpExitAtClose ==
  /\ pump = "recv"
  /\ sender = "closed"
  /\ pump' = "exit"
  /\ UNCHANGED <<poolVars, procVars, handleVars, observerVars, ownerVars, channel,
                 sender, stop>>

\* Closed and drained: the pump's own core shutdown finds it done, and it ends.
PumpExit ==
  /\ pump = "recv"
  /\ channel = <<>>
  /\ sender = "closed"
  /\ pump' = "exit"
  /\ UNCHANGED <<poolVars, procVars, handleVars, observerVars, ownerVars, channel,
                 sender, stop>>

\* The core's shutdown begins: admission closes, every active job is cancelled.
StopCore ==
  /\ Stops
  /\ stop = "no"
  /\ open
  /\ open' = FALSE
  /\ CancelJobs(held)
  /\ stop' = "core"
  /\ UNCHANGED <<procVars, submitter, handles, waiters, suppressed, monitor,
                 downs, forgetting, observerVars, ownerVars, channel, sender, pump>>

\* It returns once every worker has exited or was detached: jobs may still be
\* running, and other threads may still be announcing.
StopClose ==
  /\ stop = "core"
  /\ sender' = "closed"
  /\ stop' = "join"
  /\ UNCHANGED <<poolVars, procVars, handleVars, observerVars, ownerVars, channel, pump>>

\* pump.join.
StopJoins ==
  /\ stop = "join"
  /\ pump = "exit"
  /\ stop' = "done"
  /\ UNCHANGED <<poolVars, procVars, handleVars, observerVars, ownerVars, channel,
                 sender, pump>>

-----------------------------------------------------------------------------

ProcStep(p) ==
  \/ SubmitReserve(p) \/ SubmitOk(p) \/ SubmitRefused(p) \/ SubmitReturns(p)
  \/ \E j \in Job : Register(p, j) \/ Cancel(p, j)
  \/ Receive(p) \/ AwaitTimeout(p) \/ Deregister(p) \/ Flush(p) \/ Take(p)
  \/ Die(p)

JobStep(j) ==
  \/ PoolStep(j)
  \/ ObserverTakes(j) \/ ObserverCounts(j) \/ ObserverEnqueues(j)
  \/ Down(j) \/ RemoveOwner(j)

PumpStep == PumpNotify \/ PumpExit

StopStep == StopCore \/ StopClose \/ StopJoins

Next ==
  \/ \E p \in Procs : ProcStep(p)
  \/ \E j \in Job : JobStep(j)
  \/ PumpStep
  \/ StopStep

Spec == Init /\ [][Next]_vars

\* The pool ends every job and announces it (Runtime's EveryJobEnds), native
\* threads finish their calls, a process that was sent a message reads it.
FairSpec ==
  /\ Spec
  /\ \A j \in Job : WF_vars(JobStep(j))
  /\ \A p \in Procs : WF_vars(Receive(p) \/ Take(p) \/ Deregister(p) \/ Flush(p))
  /\ WF_vars(PumpStep)
  /\ WF_vars(StopClose \/ StopJoins)

-----------------------------------------------------------------------------
(* Properties.                                                              *)

TypeOK ==
  /\ pc \in [Procs -> {"idle", "submit", "monitor", "wait", "deregister", "flush",
                       "take", "dead"}]
  /\ at \in [Procs -> Job \cup {0}]
  /\ key \in [Procs -> Owner \cup {0}]
  /\ mail \in [Procs -> [Job -> 0..1]]
  /\ submitter \in [Job -> Procs]
  /\ waiters \in [Job -> SUBSET Procs]
  /\ suppressed \in [Job -> SUBSET Procs]
  /\ handles \cup monitor \cup flagged \cup downs \cup forgetting \subseteq Job
  /\ stage \in [Job -> {"quiet", "count", "enqueue", "sent", "dropped"}]
  /\ carried \in [Job -> SUBSET Procs]
  /\ ownerKeys \in [Procs -> Owner \cup {0}]
  /\ ownerActive \in [Procs -> Nat]
  /\ channel \in Seq(Job)
  /\ sender \in {"open", "closed"}
  /\ pump \in {"recv", "exit"}
  /\ stop \in {"no", "core", "join", "done"}

\* Is p inside an await of j, from its registration to its flush.
Awaiting(p, j) == at[p] = j /\ pc[p] \in {"wait", "deregister", "flush"}

\* No stale message: a process that is not inside an await of the job has no
\* :done message of it in its mailbox, and none under way that the pump would
\* still deliver (the timeout race that notify_waiters and
\* job_deregister_waiter close with suppressed).
NoStaleMessage ==
  \A p \in Procs, j \in Job : Alive(p) /\ ~Awaiting(p, j) =>
    /\ mail[p][j] = 0
    /\ p \notin waiters[j]
    /\ p \in carried[j] => p \in suppressed[j]

\* No lost wake-up: a process that waits is registered with an unannounced
\* job, carried by the observer or by a notification the pump will not skip, or
\* has its message. Only an observer that comes after runtime_shutdown closed
\* the sender drops it.
WakeupKept ==
  \A p \in Procs : pc[p] = "wait" =>
    LET j == at[p] IN
      \/ p \in waiters[j] /\ told[j] = 0
      \/ p \in carried[j] \ suppressed[j]
      \/ mail[p][j] > 0 /\ status[j] \in Ended
      \/ stage[j] = "dropped"

\* The jobs that a process has in flight as far as the owner tables should
\* know: being submitted, or admitted and not yet settled by the observer.
InFlight(p) ==
  Cardinality({j \in Job : status[j] # "none" /\ submitter[j] = p
                           /\ (told[j] = 0 \/ stage[j] = "count")})
  + (IF pc[p] = "submit" THEN 1 ELSE 0)

\* owner_active of a living owner counts its jobs in flight exactly, a dead one
\* has that count or was removed; and an owner has a key just as long as it has
\* a count, so both tables return to empty when the jobs are over.
OwnerCount ==
  \A p \in Procs :
    /\ ownerActive[p] = InFlight(p) \/ (~Alive(p) /\ ownerActive[p] = 0)
    /\ ownerKeys[p] = 0 <=> ownerActive[p] = 0

\* The core's ceiling per owner key is a ceiling per process: keys come and go,
\* but never while the process has a job that holds a slot.
CeilingPerProcess ==
  \A p \in Procs : Alive(p) =>
    Cardinality({j \in held : submitter[j] = p}) <= MaxPerOwner

\* Caller death cancels caller-owned jobs, unless detached: an undecided job
\* of a dead owner is flagged, or its down callback is still to run.
DeathCancels ==
  \A j \in Job \ Detached :
    /\ status[j] \notin Ended \cup {"none"}
    /\ ~Alive(submitter[j])
    => j \in flagged \cup downs

\* A process that awaits, with :infinity too, stops waiting, also while the
\* runtime is shut down, unless its notification came too late for the pump.
EveryWaiterWakes ==
  \A p \in Procs :
    pc[p] = "wait" ~> pc[p] # "wait" \/ stage[at[p]] = "dropped"
=============================================================================
