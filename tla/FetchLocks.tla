----------------------------- MODULE FetchLocks -----------------------------
(***************************************************************************)
(* Single-flight fetches: the Locks server (fetch/locks.ex), which keeps   *)
(* one lease per destination, and the processes inside Gitility.fetch/4    *)
(* (fetch.ex), which take the lease, announce a submission, submit a       *)
(* native job, attach it to the lease, await it, perhaps retry once, and   *)
(* release. The caller runs in its own process: it can die at any point,   *)
(* and a call to Locks can time out at the caller and still be handled     *)
(* later. Jobs are native and outlive their callers.                       *)
(***************************************************************************)
EXTENDS Naturals, Sequences, FiniteSets

CONSTANTS
  Callers,     \* processes that call Gitility.fetch/4
  Dest,        \* expanded destination paths, the keys of the leases
  Job,         \* native jobs, 1..n in the order of submission
  RuntimeOf,   \* the runtime a caller's jobs run on; job ids count per runtime
  MaxFetches,  \* bound: how many fetches each caller makes
  Retries,     \* callers with credentials and retry_unauthorized
  Mortal,      \* callers that may die
  Impatient,   \* callers whose GenServer.call may give up after its 5 s
  Faults       \* the faults of the environment, a subset of AllFaults

\* register_fails: job_register_waiter raises or returns something unexpected
\* restart: the supervisor restarts a crashed Locks with no leases
AllFaults == {"register_fails", "restart"}

ASSUME FetchLocksAssumption ==
  /\ IsFiniteSet(Callers)
  /\ Job = 1..Cardinality(Job)
  /\ DOMAIN RuntimeOf = Callers
  /\ MaxFetches \in [Callers -> Nat]
  /\ Retries \subseteq Callers
  /\ Mortal \subseteq Callers
  /\ Impatient \subseteq Callers
  /\ Faults \subseteq AllFaults

VARIABLES
  leases,      \* the state of Locks: a map from keys to leases
  mailbox,     \* calls, :done and :DOWN messages Locks has yet to handle
  timers,      \* pending_grace timers: <<key, generation>>
  restarted,   \* history: has Locks been restarted
  unsure,      \* history: fetches that gave up on an acquire or pending_submit call
  lapsed,      \* history: unattached active jobs whose lease the grace period dropped
  pc,          \* where a caller is in fetch/4
  dest,        \* the destination of its current fetch
  fetch,       \* how many fetches it has begun
  attempt,     \* 1, or 2 for the authentication retry
  mine,        \* the job it submitted last, 0 for none
  stat,        \* the native state of a job: none, active, ended
  jobs,        \* whose job it is: caller, destination, fetch, id
  registered,  \* jobs that will send :done to Locks
  cancelled    \* jobs with their cancellation flag raised

locksVars == <<leases, mailbox, timers, restarted, unsure, lapsed>>
callerVars == <<pc, dest, fetch, attempt, mine>>
jobVars == <<stat, jobs, registered, cancelled>>
vars == <<locksVars, callerVars, jobVars>>

\* A caller blocked in GenServer.call is in one of these.
Calling == {"acquiring", "declaring", "failing", "attaching", "releasing"}
PCs == Calling \cup {"idle", "holds", "submits", "submitted", "awaits", "leaves", "dead"}

\* A lease is named by its generation: each fetch acquires at most once, so
\* the caller and the number of its fetch stand for make_ref().
Generation == UNION {{c} \X (1..MaxFetches[c]) : c \in Callers}
Lease == [gen : Generation, released : BOOLEAN, pending : BOOLEAN,
          jobs : SUBSET Job, terminal : SUBSET Job]
Holder(l) == l.gen[1]

Init ==
  /\ leases = [d \in {} |-> 0]
  /\ mailbox = <<>>
  /\ timers = {}
  /\ restarted = FALSE
  /\ unsure = {}
  /\ lapsed = {}
  /\ pc = [c \in Callers |-> "idle"]
  /\ dest = [c \in Callers |-> "none"]
  /\ fetch = [c \in Callers |-> 0]
  /\ attempt = [c \in Callers |-> 1]
  /\ mine = [c \in Callers |-> 0]
  /\ stat = [j \in Job |-> "none"]
  /\ jobs = [j \in Job |-> [by |-> "none", to |-> "none", fetch |-> 0, id |-> 0]]
  /\ registered = {}
  /\ cancelled = {}

-----------------------------------------------------------------------------
(* The lease table. *)

Put(ls, d, l) == [k \in DOMAIN ls \cup {d} |-> IF k = d THEN l ELSE ls[k]]
DropLease(ls, d) == [k \in DOMAIN ls \ {d} |-> ls[k]]

ReleasableUnheld(l) == ~ l.pending /\ l.jobs \subseteq l.terminal

Releasable(l) == l.released /\ ~ l.pending /\ l.jobs \subseteq l.terminal

PutOrFinish(ls, d, l) == IF Releasable(l) THEN DropLease(ls, d) ELSE Put(ls, d, l)

HolderLeaseOfAnyone(d, c) == d \in DOMAIN leases

HolderLease(d, c) == d \in DOMAIN leases /\ Holder(leases[d]) = c

\* drop_lease demonitors with :flush: no :DOWN of a dropped lease stays queued.
Flush(box, ls) ==
  SelectSeq(box, LAMBDA m : m.type # "down" \/ (m.key \in DOMAIN ls /\ ls[m.key].gen = m.gen))

Down(d, g) == [type |-> "down", key |-> d, gen |-> g]

-----------------------------------------------------------------------------
(* Locks handles one message at a time. *)

Handling(type) == mailbox # <<>> /\ Head(mailbox).type = type

\* The caller goes on at `next` unless it has stopped waiting for this reply.
Reply(m, next) == pc' = IF m.live THEN [pc EXCEPT ![m.from] = next] ELSE pc

Becomes(ls) ==
  /\ leases' = ls
  /\ mailbox' = Flush(Tail(mailbox), ls)

\* Monitoring a process that is already dead delivers :DOWN at once.
HandleAcquire ==
  /\ Handling("acquire")
  /\ LET m == Head(mailbox)
         lease == [gen |-> <<m.from, m.fetch>>, released |-> FALSE, pending |-> FALSE,
                   jobs |-> {}, terminal |-> {}]
     IN IF m.key \in DOMAIN leases
        THEN /\ mailbox' = Tail(mailbox)
             /\ Reply(m, "idle")
             /\ UNCHANGED leases
        ELSE /\ leases' = Put(leases, m.key, lease)
             /\ mailbox' = Tail(mailbox) \o
                  (IF pc[m.from] = "dead" THEN <<Down(m.key, lease.gen)>> ELSE <<>>)
             /\ Reply(m, "holds")
  /\ UNCHANGED <<timers, restarted, unsure, lapsed, dest, fetch, attempt, mine, jobVars>>

HandlePendingSubmit ==
  /\ Handling("pending_submit")
  /\ LET m == Head(mailbox)
     IN /\ Becomes(IF HolderLease(m.key, m.from)
                   THEN Put(leases, m.key, [leases[m.key] EXCEPT !.pending = TRUE])
                   ELSE leases)
        /\ Reply(m, "submits")
  /\ UNCHANGED <<timers, restarted, unsure, lapsed, dest, fetch, attempt, mine, jobVars>>

HandleSubmissionFailed ==
  /\ Handling("submission_failed")
  /\ LET m == Head(mailbox)
     IN /\ Becomes(IF HolderLease(m.key, m.from)
                   THEN PutOrFinish(leases, m.key, [leases[m.key] EXCEPT !.pending = FALSE])
                   ELSE leases)
        /\ Reply(m, "leaves")
  /\ UNCHANGED <<timers, restarted, unsure, lapsed, dest, fetch, attempt, mine, jobVars>>

\* waiter_already_terminal?: registration answers :terminal for a job that
\* has ended, and a failure of it leaves a job that is neither registered
\* nor known to be terminal.
HandleAttach ==
  /\ Handling("attach")
  /\ LET m == Head(mailbox)
         j == m.job
     IN /\ \E answer \in {"terminal", "registered", "unexpected"} :
             /\ answer = "terminal" => stat[j] = "ended"
             /\ answer = "registered" => stat[j] = "active"
             /\ answer = "unexpected" => "register_fails" \in Faults
             /\ IF HolderLease(m.key, m.from)
                THEN /\ Becomes(PutOrFinish(leases, m.key,
                           [leases[m.key] EXCEPT
                              !.pending = FALSE,
                              !.jobs = @ \cup {j},
                              !.terminal = IF answer = "terminal" THEN @ \cup {j} ELSE @]))
                     /\ registered' = IF answer = "registered" THEN registered \cup {j}
                                                               ELSE registered
                ELSE Becomes(leases) /\ UNCHANGED registered
        /\ Reply(m, "awaits")
  /\ UNCHANGED <<timers, restarted, unsure, lapsed, dest, fetch, attempt, mine, stat, jobs, cancelled>>

HandleRelease ==
  /\ Handling("release")
  /\ LET m == Head(mailbox)
     IN /\ Becomes(IF HolderLease(m.key, m.from)
                   THEN PutOrFinish(leases, m.key, [leases[m.key] EXCEPT !.released = TRUE])
                   ELSE leases)
        /\ Reply(m, "idle")
  /\ UNCHANGED <<timers, restarted, unsure, lapsed, dest, fetch, attempt, mine, jobVars>>

\* Ids are unique per runtime only: every lease that knows the id is looked
\* at, and the job itself is asked whether it is terminal.
WithId(l, id) == {j \in l.jobs : jobs[j].id = id}

AfterDoneById(l, id) == [l EXCEPT !.terminal = @ \cup WithId(l, id)]

AfterDone(l, id) == [l EXCEPT !.terminal = @ \cup {j \in WithId(l, id) : stat[j] = "ended"}]

HandleDone ==
  /\ Handling("done")
  /\ LET id == Head(mailbox).id
         Touched == {d \in DOMAIN leases : WithId(leases[d], id) # {}}
         Freed == {d \in Touched : Releasable(AfterDone(leases[d], id))}
     IN Becomes([d \in DOMAIN leases \ Freed |->
                   IF d \in Touched THEN AfterDone(leases[d], id) ELSE leases[d]])
  /\ UNCHANGED <<timers, restarted, unsure, lapsed, callerVars, jobVars>>

ScheduleNothing(d, g) == UNCHANGED timers

ScheduleGrace(d, g) == timers' = timers \cup {<<d, g>>}

\* The holder is gone: its jobs are cancelled, and a submission that was
\* announced but never attached keeps the lease for the grace period.
HandleDown ==
  /\ Handling("down")
  /\ LET m == Head(mailbox)
         lease == [leases[m.key] EXCEPT !.released = TRUE]
     IN IF m.key \in DOMAIN leases /\ leases[m.key].gen = m.gen
        THEN /\ cancelled' = cancelled \cup (lease.jobs \ lease.terminal)
             /\ IF lease.pending
                THEN /\ Becomes(Put(leases, m.key, lease))
                     /\ ScheduleGrace(m.key, m.gen)
                ELSE /\ Becomes(PutOrFinish(leases, m.key, lease))
                     /\ UNCHANGED timers
        ELSE Becomes(leases) /\ UNCHANGED <<timers, cancelled>>
  /\ UNCHANGED <<restarted, unsure, lapsed, callerVars, stat, jobs, registered>>

\* The active jobs of a lease that it does not know of (for lapsed).
Unattached(d) ==
  {j \in Job : /\ stat[j] = "active"
               /\ <<jobs[j].by, jobs[j].fetch>> = leases[d].gen
               /\ j \notin leases[d].jobs}

\* The timer chain up to the deadline is one timer. The deadline is twice the
\* timeout of the fetch, counted from the death of the holder. Nobody asks
\* whether a job was submitted in the meantime and is still running: native
\* deadlines and cancellation are cooperative, so it may be.
HandlePendingGrace ==
  \E t \in timers :
    LET d == t[1]
        Expired == /\ d \in DOMAIN leases
                   /\ leases[d].gen = t[2]
                   /\ leases[d].pending
                   /\ leases[d].released
        ls == IF Expired THEN DropLease(leases, d) ELSE leases
    IN /\ timers' = timers \ {t}
       /\ leases' = ls
       /\ lapsed' = IF Expired THEN lapsed \cup Unattached(d) ELSE lapsed
       /\ mailbox' = Flush(mailbox, ls)
       /\ UNCHANGED <<restarted, unsure, callerVars, jobVars>>

-----------------------------------------------------------------------------
(* A process inside fetch/4. *)

Call(type, c) ==
  Append(mailbox, [type |-> type, from |-> c, key |-> dest'[c], fetch |-> fetch'[c],
                   job |-> mine[c], live |-> TRUE])

Acquire(c, d) ==
  /\ pc[c] = "idle"
  /\ fetch[c] < MaxFetches[c]
  /\ pc' = [pc EXCEPT ![c] = "acquiring"]
  /\ dest' = [dest EXCEPT ![c] = d]
  /\ fetch' = [fetch EXCEPT ![c] = @ + 1]
  /\ attempt' = [attempt EXCEPT ![c] = 1]
  /\ mailbox' = Call("acquire", c)
  /\ UNCHANGED <<leases, timers, restarted, unsure, lapsed, mine, jobVars>>

\* No runtime, no authorization, or no time left before the submission.
GiveUp(c) ==
  /\ pc[c] = "holds"
  /\ pc' = [pc EXCEPT ![c] = "leaves"]
  /\ UNCHANGED <<locksVars, dest, fetch, attempt, mine, jobVars>>

PendingSubmit(c) ==
  /\ pc[c] = "holds"
  /\ pc' = [pc EXCEPT ![c] = "declaring"]
  /\ UNCHANGED <<dest, fetch>>
  /\ mailbox' = Call("pending_submit", c)
  /\ UNCHANGED <<leases, timers, restarted, unsure, lapsed, attempt, mine, jobVars>>

\* Admission is the pool's; ids count the jobs of one runtime.
SubmitOk(c) ==
  /\ pc[c] = "submits"
  /\ \E j \in Job :
       /\ \A k \in Job : stat[k] = "none" <=> k >= j
       /\ stat' = [stat EXCEPT ![j] = "active"]
       /\ mine' = [mine EXCEPT ![c] = j]
       /\ jobs' = [jobs EXCEPT ![j] =
                     [by |-> c, to |-> dest[c], fetch |-> fetch[c],
                      id |-> 1 + Cardinality({k \in Job : stat[k] # "none"
                               /\ RuntimeOf[jobs[k].by] = RuntimeOf[c]})]]
  /\ pc' = [pc EXCEPT ![c] = "submitted"]
  /\ UNCHANGED <<locksVars, dest, fetch, attempt, registered, cancelled>>

\* A refused submission that says nothing to Locks.
SubmitRefusedSilently(c) ==
  /\ pc[c] = "submits"
  /\ pc' = [pc EXCEPT ![c] = "leaves"]
  /\ UNCHANGED <<locksVars, dest, fetch, attempt, mine, jobVars>>

SubmitRefused(c) ==
  /\ pc[c] = "submits"
  /\ pc' = [pc EXCEPT ![c] = "failing"]
  /\ UNCHANGED <<dest, fetch>>
  /\ mailbox' = Call("submission_failed", c)
  /\ UNCHANGED <<leases, timers, restarted, unsure, lapsed, attempt, mine, jobVars>>

Attach(c) ==
  /\ pc[c] = "submitted"
  /\ pc' = [pc EXCEPT ![c] = "attaching"]
  /\ UNCHANGED <<dest, fetch>>
  /\ mailbox' = Call("attach", c)
  /\ UNCHANGED <<leases, timers, restarted, unsure, lapsed, attempt, mine, jobVars>>

\* The job's result: authentication_failed on the first attempt may be tried
\* once more under the same lease, everything else ends the fetch.
AwaitResult(c) ==
  /\ pc[c] = "awaits"
  /\ stat[mine[c]] = "ended"
  /\ \/ pc' = [pc EXCEPT ![c] = "leaves"] /\ UNCHANGED attempt
     \/ /\ c \in Retries
        /\ attempt[c] = 1
        /\ attempt' = [attempt EXCEPT ![c] = 2]
        /\ pc' = [pc EXCEPT ![c] = "holds"]
  /\ UNCHANGED <<locksVars, dest, fetch, mine, jobVars>>

\* The deadline of the whole call: the job is cancelled and left running.
AwaitTimeout(c) ==
  /\ pc[c] = "awaits"
  /\ cancelled' = cancelled \cup {mine[c]}
  /\ pc' = [pc EXCEPT ![c] = "leaves"]
  /\ UNCHANGED <<locksVars, dest, fetch, attempt, mine, stat, jobs, registered>>

Release(c) ==
  /\ pc[c] = "leaves"
  /\ pc' = [pc EXCEPT ![c] = "releasing"]
  /\ UNCHANGED <<dest, fetch>>
  /\ mailbox' = Call("release", c)
  /\ UNCHANGED <<leases, timers, restarted, unsure, lapsed, attempt, mine, jobVars>>

\* What fetch/4 does when a call to Locks exits. A failed acquire returns, a
\* failed release is swallowed, a failed attach cancels the job; everything
\* else leaves through the release.
Exits(p) == CASE p \in {"acquiring", "releasing"} -> "idle"
              [] p \in {"declaring", "failing", "attaching"} -> "leaves"
              [] OTHER -> p

CancelsNothing(cs) == {}

CancelsAtExit(cs) == {mine[c] : c \in {x \in cs : pc[x] = "attaching"}}

\* The caller stops waiting: the message stays, its late reply is dropped.
Abandoned(c) ==
  [i \in DOMAIN mailbox |->
     IF mailbox[i].type \notin {"done", "down"} /\ mailbox[i].from = c
     THEN [mailbox[i] EXCEPT !.live = FALSE] ELSE mailbox[i]]

CallTimeout(c) ==
  /\ c \in Impatient
  /\ pc[c] \in Calling
  /\ pc' = [pc EXCEPT ![c] = Exits(@)]
  /\ cancelled' = cancelled \cup CancelsAtExit({c})
  /\ mailbox' = Abandoned(c)
  /\ unsure' = IF pc[c] \in {"acquiring", "declaring"} THEN unsure \cup {<<c, fetch[c]>>}
                                                     ELSE unsure
  /\ UNCHANGED <<leases, timers, restarted, lapsed, dest, fetch, attempt, mine, stat, jobs, registered>>

\* Its messages are ahead of the :DOWN its monitors send.
Die(c) ==
  /\ c \in Mortal
  /\ pc[c] # "dead"
  /\ pc' = [pc EXCEPT ![c] = "dead"]
  /\ LET Theirs == {d \in DOMAIN leases : Holder(leases[d]) = c}
     IN \E s \in [1..Cardinality(Theirs) -> Theirs] :
          /\ {s[i] : i \in DOMAIN s} = Theirs
          /\ mailbox' = Abandoned(c) \o [i \in DOMAIN s |-> Down(s[i], leases[s[i]].gen)]
  /\ UNCHANGED <<leases, timers, restarted, unsure, lapsed, dest, fetch, attempt, mine, jobVars>>

-----------------------------------------------------------------------------
(* The native jobs, as Runtime and JobHandles show them. *)

JobEnds(j) ==
  /\ stat[j] = "active"
  /\ stat' = [stat EXCEPT ![j] = "ended"]
  /\ UNCHANGED <<locksVars, callerVars, jobs, registered, cancelled>>

\* A runtime that has closed its channel never takes this step.
Notify(j) ==
  /\ stat[j] = "ended"
  /\ j \in registered
  /\ registered' = registered \ {j}
  /\ mailbox' = Append(mailbox, [type |-> "done", id |-> jobs[j].id])
  /\ UNCHANGED <<leases, timers, restarted, unsure, lapsed, callerVars, stat, jobs, cancelled>>

\* A new Locks process: no leases, mailbox or timers, and its registrations
\* as a waiter are gone with the old process. Every blocked call exits.
Restart ==
  /\ "restart" \in Faults
  /\ ~ restarted
  /\ restarted' = TRUE
  /\ leases' = [d \in {} |-> 0]
  /\ mailbox' = <<>>
  /\ timers' = {}
  /\ registered' = {}
  /\ cancelled' = cancelled \cup CancelsAtExit(Callers)
  /\ pc' = [c \in Callers |-> Exits(pc[c])]
  /\ UNCHANGED <<unsure, lapsed, dest, fetch, attempt, mine, stat, jobs>>

-----------------------------------------------------------------------------
(* The specification. *)

Handle ==
  \/ HandleAcquire
  \/ HandlePendingSubmit
  \/ HandleSubmissionFailed
  \/ HandleAttach
  \/ HandleRelease
  \/ HandleDone
  \/ HandleDown

\* The steps fetch/4 takes by itself. Every wait in it has a deadline.
Proceed(c) ==
  \/ GiveUp(c)
  \/ PendingSubmit(c)
  \/ SubmitOk(c)
  \/ SubmitRefused(c)
  \/ Attach(c)
  \/ AwaitResult(c)
  \/ AwaitTimeout(c)
  \/ Release(c)

Next ==
  \/ Handle
  \/ HandlePendingGrace
  \/ \E c \in Callers :
       \/ \E d \in Dest : Acquire(c, d)
       \/ Proceed(c)
       \/ CallTimeout(c)
       \/ Die(c)
  \/ \E j \in Job : JobEnds(j) \/ Notify(j)
  \/ Restart

Spec == Init /\ [][Next]_vars

\* The server drains its mailbox, timers fire, a running fetch has a deadline
\* and a native job one of its own, and the runtime sends its notices.
FairSpec ==
  /\ Spec
  /\ WF_vars(Handle)
  /\ WF_vars(HandlePendingGrace)
  /\ \A c \in Callers : WF_vars(Proceed(c))
  /\ \A j \in Job : WF_vars(JobEnds(j)) /\ WF_vars(Notify(j))

-----------------------------------------------------------------------------
(* Properties. *)

\* The lease table of Locks, the processes in fetch/4 and the native jobs have
\* their types; a job is marked terminal only in the lease it is attached to
\* (locks.ex keeps the flag inside the job entry).
TypeOK ==
  /\ DOMAIN leases \subseteq Dest
  /\ \A d \in DOMAIN leases : leases[d] \in Lease /\ leases[d].terminal \subseteq leases[d].jobs
  /\ \A i \in DOMAIN mailbox :
       mailbox[i].type \in {"acquire", "pending_submit", "submission_failed", "attach",
                            "release", "done", "down"}
  /\ timers \subseteq Dest \X Generation
  /\ restarted \in BOOLEAN
  /\ unsure \subseteq Generation
  /\ lapsed \subseteq Job
  /\ pc \in [Callers -> PCs]
  /\ dest \in [Callers -> Dest \cup {"none"}]
  /\ \A c \in Callers : fetch[c] \in 0..MaxFetches[c]
  /\ attempt \in [Callers -> {1, 2}]
  /\ mine \in [Callers -> Job \cup {0}]
  /\ stat \in [Job -> {"none", "active", "ended"}]
  /\ jobs \in [Job -> [by : Callers \cup {"none"}, to : Dest \cup {"none"}, fetch : Nat, id : 0..Cardinality(Job)]]
  /\ registered \subseteq Job
  /\ cancelled \subseteq Job

\* As long as Locks has not been restarted, a native fetch job that has not
\* ended writes to a destination whose lease is the one it was submitted
\* under. So no second fetch of that destination is admitted before it ends,
\* whether its caller died, timed out or lost its answer from Locks, and
\* whatever other job shares its id. The one exception is a job whose caller
\* died before it was attached: the grace period of locks.ex:149-162 drops its
\* lease on the clock alone.
SingleFlight ==
  ~ restarted =>
    \A j \in Job : stat[j] = "active" =>
      \/ /\ jobs[j].to \in DOMAIN leases
         /\ leases[jobs[j].to].gen = <<jobs[j].by, jobs[j].fetch>>
      \/ j \in lapsed /\ pc[jobs[j].by] = "dead"

\* "Fetches are single-flight per Path.expand/1 destination within one VM": as
\* long as Locks has not been restarted, no two jobs that have not ended fetch
\* to one destination. The grace period of locks.ex:149-162 breaks this.
OneFetchPerDestination ==
  ~ restarted =>
    \A j, k \in Job :
      stat[j] = "active" /\ stat[k] = "active" /\ jobs[j].to = jobs[k].to => j = k

\* A process inside fetch/4 keeps its lease until its own release is handled:
\* neither the end of an attached job, a late message of an earlier fetch of
\* the same process nor a timer takes it away (locks.ex matches holders by
\* pid, not by generation).
HolderKeepsLease ==
  ~ restarted =>
    \A c \in Callers : pc[c] \notin {"idle", "acquiring", "releasing", "dead"} =>
      dest[c] \in DOMAIN leases /\ leases[dest[c]].gen = <<c, fetch[c]>>

\* Also across a restart of Locks, a lease collects only jobs submitted under
\* it: late transitions of a holder whose lease was lost do not disturb a
\* newly admitted lease for the same path.
LeaseJobsOwn ==
  \A d \in DOMAIN leases : \A j \in leases[d].jobs :
    jobs[j].to = d /\ <<jobs[j].by, jobs[j].fetch>> = leases[d].gen

\* No native fetch runs on for nobody: a job that is active and not cancelled
\* has a caller that is about to attach it or awaits it, or a dead caller. Of
\* a dead caller the runtime cancels what it owns (the monitor of the job
\* resource), and Locks what is attached, once it handles the :DOWN.
AbandonedJobCancelled ==
  \A j \in Job : stat[j] = "active" /\ j \notin cancelled =>
    \/ /\ pc[jobs[j].by] \in {"submitted", "attaching", "awaits"}
       /\ mine[jobs[j].by] = j
    \/ /\ pc[jobs[j].by] = "dead"
       /\ \A d \in DOMAIN leases : j \in leases[d].jobs =>
            \E i \in DOMAIN mailbox : mailbox[i] = Down(d, leases[d].gen)

Held(g) == \E d \in DOMAIN leases : leases[d].gen = g

\* A lease does not stay for ever: it is dropped in the end, by the release,
\* the end of the last job or the grace period of a dead holder, provided the
\* fetch got its answers to acquire and pending_submit. Time-outs of the other
\* calls (submission_failed, attach, release) pin nothing.
LeaseFreed == \A g \in Generation : Held(g) ~> (~ Held(g) \/ g \in unsure)

\* The lease of a dead holder is dropped in the end, also when the holder had
\* given up on a call that Locks then handled: the :DOWN rules need no answer.
DeadHolderFreed ==
  \A g \in Generation : (Held(g) /\ pc[g[1]] = "dead") ~> ~ Held(g)

\* "Conservatively retaining the job as non-terminal leaves release to the
\* normal notification/holder/grace rules": a released lease whose attached
\* job has ended is dropped in the end, also when the registration failed.
RetainedJobFreed ==
  \A g \in Generation :
    (\E d \in DOMAIN leases :
       /\ leases[d].gen = g
       /\ leases[d].released
       /\ \E j \in leases[d].jobs \ leases[d].terminal : stat[j] = "ended")
      ~> ~ Held(g)
=============================================================================
