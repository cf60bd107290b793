------------------------------ MODULE Runtime ------------------------------
(***************************************************************************)
(* The bounded worker pool of gitility-core (crates/gitility-core/src/     *)
(* runtime/mod.rs): admission, the FIFO queue, workers, cancellation,      *)
(* deadline sweeps, the single terminal publication of every job and the   *)
(* bounded shutdown protocol.                                              *)
(*                                                                         *)
(* A critical section of a mutex, and a single atomic instruction, is one  *)
(* action; everything a thread does between two of them is interleaved.    *)
(* The output mutex is explicit (locked), because publish_terminal holds   *)
(* it across a load and a compare-exchange that try_start can separate.    *)
(***************************************************************************)
EXTENDS Integers, Sequences, FiniteSets

CONSTANTS
  Workers,        \* the worker threads start_with_budget spawned
  Clients,        \* threads that call the public API
  Submitters,     \* bound: clients that call submit
  Cancellers,     \* bound: clients that call cancel
  Stoppers,       \* bound: threads that call shutdown or request_shutdown
  Owners,         \* OwnerKey values
  MaxJobs,        \* bound: number of admissions explored
  Timed,          \* jobs submitted with a timeout_ms
  Awaited,        \* bound: jobs whose output a caller takes
  MaxQueue,       \* RuntimeConfig.max_queue
  MaxJobsPerOwner \* RuntimeConfig.max_jobs_per_owner

ASSUME RuntimeAssumption ==
  /\ Workers \cap Clients = {}
  /\ IsFiniteSet(Workers)
  /\ Owners # {}
  /\ Submitters \subseteq Clients
  /\ Cancellers \subseteq Clients
  /\ MaxJobs \in Nat
  /\ MaxQueue \in Nat
  /\ MaxJobsPerOwner \in Nat

VARIABLES
  (* One Job each. *)
  state,           \* Job.state; "none" before admission
  owner,           \* Job.owner
  task,            \* Job.task: "held" in its slot, "taken" by run, "dropped"
  output,          \* Job.output: "empty", a result, or "taken" by a reader
  locked,          \* jobs whose output mutex is held (by a thread at "cas")
  flagged,         \* jobs whose Budget has its cancel flag raised
  expired,         \* jobs whose Budget is past its deadline
  (* QueueState. *)
  queue,
  active,
  owners,
  shuttingDown,
  counters,        \* Counters
  (* Every thread's program counter and locals. *)
  pc,
  op,              \* why the thread is publishing
  tgt,             \* the job it is publishing or cancelling
  res,             \* the result it is publishing
  todo,            \* jobs it still has to expire or cancel
  run,             \* the job a worker popped, 0 when it has none
  (* Shutdown state of the Runtime. *)
  phase,
  requestComplete,
  joinClaimed,
  handles,         \* worker handles neither joined nor dropped
  (* History. *)
  observed,        \* how often the observer of a job was called
  lateCancel       \* jobs whose flag was raised after their outcome was fixed

jobVars == <<state, owner, task, output, locked, flagged, expired>>
queueVars == <<queue, active, owners, shuttingDown>>
threadVars == <<pc, op, tgt, res, todo, run>>
shutdownVars == <<phase, requestComplete, joinClaimed, handles>>
history == <<observed, lateCancel>>
vars == <<jobVars, queueVars, counters, threadVars, shutdownVars, history>>

Threads == Workers \cup Clients
Jobs == 1..MaxJobs
Terminal == {"completed", "failed", "cancelled"}
Results == {"ok", "cancelled", "timeout", "error"}
CounterNames ==
  {"submitted", "completed", "failed", "cancelled", "running", "detached"}
Ops == {"none", "sweep", "cancel", "request", "shutdown", "run"}
Labels == {"idle", "admit", "notify", "expire", "dequeue", "set", "cas",
           "record", "release", "observe", "discard", "begin", "wakeall", "drain",
           "await", "parked", "join", "joinwait", "complete",
           "loop", "wait", "start", "count", "check", "task", "exit"}

-----------------------------------------------------------------------------
(* Helpers. *)

\* finish_running, and the fixed pairs of cancel and expire: the terminal
\* state that goes with a result.
TerminalOf(r) ==
  CASE r = "ok" -> "completed"
    [] r = "cancelled" -> "cancelled"
    [] OTHER -> "failed"

\* The `from` argument of publish_terminal.
From(t) == IF op[t] = "run" THEN "running" ELSE "queued"

\* Budget::check: cancellation is looked at before the deadline.
BudgetCheck(j) ==
  IF j \in flagged THEN "cancelled" ELSE IF j \in expired THEN "timeout" ELSE "ok"

\* k is the length of the expired run at the head of the queue
\* (take_expired_queue_head).
ExpiredRun(k) ==
  /\ k \in 0..Len(queue)
  /\ \A i \in 1..k : queue[i] \in expired
  /\ k < Len(queue) => queue[k+1] \notin expired

\* s with the element at position i removed (VecDeque::remove).
Without(s, i) == [k \in 1..(Len(s) - 1) |-> IF k < i THEN s[k] ELSE s[k+1]]

\* Where publish_terminal's caller continues once the publication is over.
Resume(t) ==
  CASE op[t] = "sweep" -> "expire"
    [] op[t] = "cancel" -> "idle"
    [] op[t] = "run" -> "loop"
    [] OTHER -> "drain"

Waiting == {w \in Workers : pc[w] = "wait"}

\* The outcome of j can no longer be changed by raising its cancel flag.
Decided(j) ==
  \/ state[j] \in Terminal
  \/ \E w \in Workers : run[w] = j /\ op[w] = "run" /\ pc[w] \in {"set", "cas"}

Goto(t, label) == pc' = [pc EXCEPT ![t] = label]

\* publish_terminal and its caller are over: continue with the next job of a
\* sweep or of a shutdown, return from cancel, or take the next job.
Return(t) ==
  /\ Goto(t, Resume(t))
  /\ op' = [op EXCEPT ![t] = IF op[t] \in {"cancel", "run"} THEN "none" ELSE @]
  /\ tgt' = [tgt EXCEPT ![t] = 0]
  /\ res' = [res EXCEPT ![t] = "ok"]
  /\ run' = IF op[t] = "run" THEN [run EXCEPT ![t] = 0] ELSE run
  /\ UNCHANGED todo

\* Start publishing result r for job j on behalf of o.
Publish(t, o, j, r) ==
  /\ Goto(t, "set")
  /\ op' = [op EXCEPT ![t] = o]
  /\ tgt' = [tgt EXCEPT ![t] = j]
  /\ res' = [res EXCEPT ![t] = r]

-----------------------------------------------------------------------------
(* Initial state: Shared::new and start_with_budget after every worker was  *)
(* spawned.                                                                 *)

Init ==
  /\ state = [j \in Jobs |-> "none"]
  /\ owner = [j \in Jobs |-> CHOOSE o \in Owners : TRUE]
  /\ task = [j \in Jobs |-> "held"]
  /\ output = [j \in Jobs |-> "empty"]
  /\ locked = {}
  /\ flagged = {}
  /\ expired = {}
  /\ queue = <<>>
  /\ active = {}
  /\ owners = [o \in Owners |-> 0]
  /\ shuttingDown = FALSE
  /\ counters = [n \in CounterNames |-> 0]
  /\ pc = [t \in Threads |-> IF t \in Workers THEN "loop" ELSE "idle"]
  /\ op = [t \in Threads |-> "none"]
  /\ tgt = [t \in Threads |-> 0]
  /\ res = [t \in Threads |-> "ok"]
  /\ todo = [t \in Threads |-> {}]
  /\ run = [w \in Workers |-> 0]
  /\ phase = "not_started"
  /\ requestComplete = FALSE
  /\ joinClaimed = FALSE
  /\ handles = Workers
  /\ observed = [j \in Jobs |-> 0]
  /\ lateCancel = {}

-----------------------------------------------------------------------------
(* Runtime::submit.                                                         *)

\* An expired run is at the head: pop it and publish it before looking again.
SubmitSweep(c) ==
  /\ c \in Submitters
  /\ pc[c] \in {"idle", "admit"}
  /\ \E k \in 1..Len(queue) :
       /\ ExpiredRun(k)
       /\ todo' = [todo EXCEPT ![c] = {queue[i] : i \in 1..k}]
       /\ queue' = SubSeq(queue, k+1, Len(queue))
  /\ Goto(c, "expire")
  /\ op' = [op EXCEPT ![c] = "sweep"]
  /\ UNCHANGED <<jobVars, active, owners, shuttingDown, counters, tgt, res, run,
                 shutdownVars, history>>

\* No expired run: the three rejections.
SubmitReject(c, o) ==
  /\ c \in Submitters
  /\ pc[c] \in {"idle", "admit"}
  /\ ExpiredRun(0)
  /\ \/ shuttingDown
     \/ owners[o] >= MaxJobsPerOwner
     \/ Len(queue) >= MaxQueue
  /\ Goto(c, "idle")
  /\ UNCHANGED <<jobVars, queueVars, counters, op, tgt, res, todo, run,
                 shutdownVars, history>>

\* Mutant: the ceiling test lets one job too many in.
SubmitAdmitAtCeiling(c, o) ==
  LET j == counters.submitted + 1 IN
  /\ c \in Submitters
  /\ pc[c] \in {"idle", "admit"}
  /\ ExpiredRun(0)
  /\ j \in Jobs
  /\ ~shuttingDown
  /\ owners[o] <= MaxJobsPerOwner
  /\ Len(queue) < MaxQueue
  /\ state' = [state EXCEPT ![j] = "queued"]
  /\ owner' = [owner EXCEPT ![j] = o]
  /\ active' = active \cup {j}
  /\ owners' = [owners EXCEPT ![o] = @ + 1]
  /\ queue' = Append(queue, j)
  /\ counters' = [counters EXCEPT !.submitted = @ + 1]
  /\ Goto(c, "notify")
  /\ UNCHANGED <<task, output, locked, flagged, expired, shuttingDown, op, tgt, res,
                 todo, run, shutdownVars, history>>

\* Admission under the queue lock.
SubmitAdmit(c, o) ==
  LET j == counters.submitted + 1 IN
  /\ c \in Submitters
  /\ pc[c] \in {"idle", "admit"}
  /\ ExpiredRun(0)
  /\ j \in Jobs
  /\ ~shuttingDown
  /\ owners[o] < MaxJobsPerOwner
  /\ Len(queue) < MaxQueue
  /\ state' = [state EXCEPT ![j] = "queued"]
  /\ owner' = [owner EXCEPT ![j] = o]
  /\ active' = active \cup {j}
  /\ owners' = [owners EXCEPT ![o] = @ + 1]
  /\ queue' = Append(queue, j)
  /\ counters' = [counters EXCEPT !.submitted = @ + 1]
  /\ Goto(c, "notify")
  /\ UNCHANGED <<task, output, locked, flagged, expired, shuttingDown, op, tgt, res,
                 todo, run, shutdownVars, history>>

\* Mutant: the wake-up is forgotten.
SubmitNotifyNobody(c) ==
  /\ pc[c] = "notify"
  /\ Goto(c, "idle")
  /\ UNCHANGED <<jobVars, queueVars, counters, op, tgt, res, todo, run,
                 shutdownVars, history>>

\* wake.notify_one, after the lock was dropped.
SubmitNotify(c) ==
  /\ pc[c] = "notify"
  /\ \/ Waiting = {} /\ Goto(c, "idle")
     \/ \E w \in Waiting : pc' = [pc EXCEPT ![c] = "idle", ![w] = "loop"]
  /\ UNCHANGED <<jobVars, queueVars, counters, op, tgt, res, todo, run,
                 shutdownVars, history>>

-----------------------------------------------------------------------------
(* Job::cancel and publish_expired_jobs.                                    *)

\* The flag store that starts cancel, of one job or of the next job that
\* request_shutdown drains.
RaiseFlag(j) ==
  /\ flagged' = flagged \cup {j}
  /\ lateCancel' = IF j \notin flagged /\ Decided(j) THEN lateCancel \cup {j}
                   ELSE lateCancel

Cancel(c, j) ==
  /\ c \in Cancellers
  /\ pc[c] = "idle"
  /\ state[j] # "none"
  /\ RaiseFlag(j)
  /\ Goto(c, "dequeue")
  /\ op' = [op EXCEPT ![c] = "cancel"]
  /\ tgt' = [tgt EXCEPT ![c] = j]
  /\ UNCHANGED <<state, owner, task, output, locked, expired, queueVars, counters,
                 res, todo, run, shutdownVars, observed>>

\* Under the queue lock: a job still queued leaves the queue.
CancelDequeue(t) ==
  /\ pc[t] = "dequeue"
  /\ IF state[tgt[t]] = "queued" /\ \E i \in 1..Len(queue) : queue[i] = tgt[t]
       THEN \E i \in 1..Len(queue) : queue[i] = tgt[t] /\ queue' = Without(queue, i)
       ELSE UNCHANGED queue
  /\ Publish(t, op[t], tgt[t], "cancelled")
  /\ UNCHANGED <<jobVars, active, owners, shuttingDown, counters, todo, run,
                 shutdownVars, history>>

\* The next expired job of a sweep; when none is left, a submitter looks at
\* the queue again and a worker starts its loop over.
ExpireNext(t) ==
  /\ pc[t] = "expire"
  /\ \E j \in todo[t] :
       /\ \A k \in todo[t] : j <= k
       /\ todo' = [todo EXCEPT ![t] = @ \ {j}]
       /\ Publish(t, "sweep", j, "timeout")
  /\ UNCHANGED <<jobVars, queueVars, counters, run, shutdownVars, history>>

ExpireDone(t) ==
  /\ pc[t] = "expire"
  /\ todo[t] = {}
  /\ Goto(t, IF t \in Workers THEN "loop" ELSE "admit")
  /\ op' = [op EXCEPT ![t] = "none"]
  /\ UNCHANGED <<jobVars, queueVars, counters, tgt, res, todo, run, shutdownVars,
                 history>>

\* Job::take_output by a caller.
TakeOutput(j) ==
  /\ j \in Awaited
  /\ state[j] \in Terminal
  /\ j \notin locked
  /\ output[j] # "taken"
  /\ output' = [output EXCEPT ![j] = "taken"]
  /\ UNCHANGED <<state, owner, task, locked, flagged, expired, queueVars, counters,
                 threadVars, shutdownVars, history>>

\* Time passes a job's deadline.
Deadline(j) ==
  /\ j \in Timed
  /\ state[j] \in {"queued", "running"}
  /\ j \notin expired
  /\ expired' = expired \cup {j}
  /\ UNCHANGED <<state, owner, task, output, locked, flagged, queueVars, counters,
                 threadVars, shutdownVars, history>>

-----------------------------------------------------------------------------
(* Job::publish_terminal.                                                   *)

\* Mutant: the result is stored without loading the state first.
PublishSetBlind(t) ==
  /\ pc[t] = "set"
  /\ tgt[t] \notin locked
  /\ output' = [output EXCEPT ![tgt[t]] = res[t]]
  /\ locked' = locked \cup {tgt[t]}
  /\ Goto(t, "cas")
  /\ UNCHANGED <<state, owner, task, flagged, expired, queueVars, counters,
                 op, tgt, res, todo, run, shutdownVars, history>>

\* Take the output mutex and load the state; give up if it has moved on,
\* otherwise store the result.
PublishSet(t) ==
  /\ pc[t] = "set"
  /\ tgt[t] \notin locked
  /\ \/ /\ state[tgt[t]] # From(t)
        /\ Return(t)
        /\ UNCHANGED <<output, locked>>
     \/ /\ state[tgt[t]] = From(t)
        /\ output' = [output EXCEPT ![tgt[t]] = res[t]]
        /\ locked' = locked \cup {tgt[t]}
        /\ Goto(t, "cas")
        /\ UNCHANGED <<op, tgt, res, todo, run>>
  /\ UNCHANGED <<state, owner, task, flagged, expired, queueVars, counters,
                 shutdownVars, history>>

\* Mutant: the loser leaves its result behind.
PublishCasKeep(t) ==
  /\ pc[t] = "cas"
  /\ locked' = locked \ {tgt[t]}
  /\ \/ /\ state[tgt[t]] = From(t)
        /\ state' = [state EXCEPT ![tgt[t]] = TerminalOf(res[t])]
        /\ Goto(t, "record")
        /\ UNCHANGED <<output, op, tgt, res, todo, run>>
     \/ /\ state[tgt[t]] # From(t)
        /\ Return(t)
        /\ UNCHANGED <<state, output>>
  /\ UNCHANGED <<owner, task, flagged, expired, queueVars, counters,
                 shutdownVars, history>>

\* The compare-exchange. Losing it puts the previous (empty) output back.
PublishCas(t) ==
  /\ pc[t] = "cas"
  /\ locked' = locked \ {tgt[t]}
  /\ \/ /\ state[tgt[t]] = From(t)
        /\ state' = [state EXCEPT ![tgt[t]] = TerminalOf(res[t])]
        /\ Goto(t, "record")
        /\ UNCHANGED <<output, op, tgt, res, todo, run>>
     \/ /\ state[tgt[t]] # From(t)
        /\ output' = [output EXCEPT ![tgt[t]] = "empty"]
        /\ Return(t)
        /\ UNCHANGED state
  /\ UNCHANGED <<owner, task, flagged, expired, queueVars, counters,
                 shutdownVars, history>>

\* The counter updates of record_terminal.
Tally(wasRunning, status) ==
  counters' = [n \in CounterNames |->
    IF n = status THEN counters[n] + 1
    ELSE IF n = "running" /\ wasRunning THEN counters[n] - 1
    ELSE counters[n]]

\* Mutant: running is decremented whatever the job was.
RecordAsRunning(t) ==
  /\ pc[t] = "record"
  /\ Tally(TRUE, TerminalOf(res[t]))
  /\ Goto(t, "release")
  /\ UNCHANGED <<jobVars, queueVars, op, tgt, res, todo, run, shutdownVars, history>>

\* Mutant: an expired job is not counted.
RecordButTimeouts(t) ==
  /\ pc[t] = "record"
  /\ Tally(op[t] = "run", IF res[t] = "timeout" THEN "none" ELSE TerminalOf(res[t]))
  /\ Goto(t, "release")
  /\ UNCHANGED <<jobVars, queueVars, op, tgt, res, todo, run, shutdownVars, history>>

\* Mutant: the observer is told while the slot is held.
RecordThenObserve(t) ==
  /\ pc[t] = "record"
  /\ Tally(op[t] = "run", TerminalOf(res[t]))
  /\ Goto(t, "observe")
  /\ UNCHANGED <<jobVars, queueVars, op, tgt, res, todo, run, shutdownVars, history>>

\* record_terminal: the counters, then the owner's slot under the queue lock.
RecordTerminal(t) ==
  /\ pc[t] = "record"
  /\ Tally(op[t] = "run", TerminalOf(res[t]))
  /\ Goto(t, "release")
  /\ UNCHANGED <<jobVars, queueVars, op, tgt, res, todo, run, shutdownVars, history>>

ReleaseSlot(t) ==
  LET j == tgt[t] IN
  /\ pc[t] = "release"
  /\ active' = active \ {j}
  /\ owners' = IF j \in active /\ owners[owner[j]] > 0
                 THEN [owners EXCEPT ![owner[j]] = @ - 1]
                 ELSE owners
  /\ Goto(t, "observe")
  /\ UNCHANGED <<jobVars, queue, shuttingDown, counters, op, tgt, res, todo, run,
                 shutdownVars, history>>

\* observer.completed; finish_running returns, cancel and expire go on to
\* discard the task.
Observe(t) ==
  /\ pc[t] = "observe"
  /\ observed' = [observed EXCEPT ![tgt[t]] = @ + 1]
  /\ \/ op[t] = "run" /\ Return(t)
     \/ /\ op[t] # "run"
        /\ Goto(t, "discard")
        /\ UNCHANGED <<op, tgt, res, todo, run>>
  /\ UNCHANGED <<jobVars, queueVars, counters, shutdownVars, lateCancel>>

\* discard_task after a won cancel or expire, or by a worker whose try_start
\* lost.
Drop(j) ==
  task' = IF task[j] = "held" THEN [task EXCEPT ![j] = "dropped"] ELSE task

Discard(t) ==
  /\ pc[t] = "discard"
  /\ Drop(tgt[t])
  /\ Return(t)
  /\ UNCHANGED <<state, owner, output, locked, flagged, expired, queueVars, counters,
                 shutdownVars, history>>

-----------------------------------------------------------------------------
(* worker_loop and Job::run.                                                *)

\* Mutant: the swept jobs are not published.
WorkerSweepForgets(w) ==
  /\ pc[w] = "loop"
  /\ \E k \in 1..Len(queue) :
       /\ ExpiredRun(k)
       /\ queue' = SubSeq(queue, k+1, Len(queue))
  /\ Goto(w, "loop")
  /\ UNCHANGED <<jobVars, active, owners, shuttingDown, counters, op, tgt, res, todo, run,
                 shutdownVars, history>>

WorkerSweep(w) ==
  /\ pc[w] = "loop"
  /\ \E k \in 1..Len(queue) :
       /\ ExpiredRun(k)
       /\ todo' = [todo EXCEPT ![w] = {queue[i] : i \in 1..k}]
       /\ queue' = SubSeq(queue, k+1, Len(queue))
  /\ Goto(w, "expire")
  /\ op' = [op EXCEPT ![w] = "sweep"]
  /\ UNCHANGED <<jobVars, active, owners, shuttingDown, counters, tgt, res, run,
                 shutdownVars, history>>

WorkerPop(w) ==
  /\ pc[w] = "loop"
  /\ queue # <<>>
  /\ ExpiredRun(0)
  /\ run' = [run EXCEPT ![w] = Head(queue)]
  /\ queue' = Tail(queue)
  /\ Goto(w, "start")
  /\ UNCHANGED <<jobVars, active, owners, shuttingDown, counters, op, tgt, res,
                 todo, shutdownVars, history>>

WorkerIdle(w) ==
  /\ pc[w] = "loop"
  /\ queue = <<>>
  /\ Goto(w, IF shuttingDown THEN "exit" ELSE "wait")
  /\ UNCHANGED <<jobVars, queueVars, counters, op, tgt, res, todo, run,
                 shutdownVars, history>>

\* Condition variables may wake without a notification.
SpuriousWake(w) ==
  /\ pc[w] = "wait"
  /\ Goto(w, "loop")
  /\ UNCHANGED <<jobVars, queueVars, counters, op, tgt, res, todo, run,
                 shutdownVars, history>>

\* Mutant: the status is stored without looking at it.
TryStartBlind(w) ==
  LET j == run[w] IN
  /\ pc[w] = "start"
  /\ state' = [state EXCEPT ![j] = "running"]
  /\ Goto(w, "count")
  /\ UNCHANGED <<task, run>>
  /\ UNCHANGED <<owner, output, locked, flagged, expired, queueVars, counters, op,
                 tgt, res, todo, shutdownVars, history>>

\* try_start; the loser drops the task it was handed.
TryStart(w) ==
  LET j == run[w] IN
  /\ pc[w] = "start"
  /\ \/ /\ state[j] = "queued"
        /\ state' = [state EXCEPT ![j] = "running"]
        /\ Goto(w, "count")
        /\ UNCHANGED <<task, run>>
     \/ /\ state[j] # "queued"
        /\ Drop(j)
        /\ run' = [run EXCEPT ![w] = 0]
        /\ Goto(w, "loop")
        /\ UNCHANGED state
  /\ UNCHANGED <<owner, output, locked, flagged, expired, queueVars, counters, op,
                 tgt, res, todo, shutdownVars, history>>

CountRunning(w) ==
  /\ pc[w] = "count"
  /\ counters' = [counters EXCEPT !.running = @ + 1]
  /\ Goto(w, "check")
  /\ UNCHANGED <<jobVars, queueVars, op, tgt, res, todo, run, shutdownVars, history>>

\* The budget check at the top of run, and taking the task from its slot.
RunCheck(w) ==
  LET j == run[w] IN
  /\ pc[w] = "check"
  /\ \/ /\ BudgetCheck(j) # "ok"
        /\ Drop(j)
        /\ Publish(w, "run", j, BudgetCheck(j))
     \/ /\ BudgetCheck(j) = "ok"
        /\ task' = [task EXCEPT ![j] = "taken"]
        /\ IF task[j] = "held"
             THEN Goto(w, "task") /\ UNCHANGED <<op, tgt, res>>
             ELSE Publish(w, "run", j, "error")
  /\ UNCHANGED <<state, owner, output, locked, flagged, expired, queueVars, counters,
                 todo, run, shutdownVars, history>>

\* Mutant: no budget check after the task.
TaskReturnsUnchecked(w) ==
  LET j == run[w] IN
  /\ pc[w] = "task"
  /\ \E r \in Results :
       /\ \/ r \in {BudgetCheck(j), "ok", "error"}
          \/ r = "timeout" /\ j \in expired
       /\ Publish(w, "run", j, r)
  /\ UNCHANGED <<jobVars, queueVars, counters, todo, run, shutdownVars, history>>

\* The task returns: an output must pass the final budget check; an error is
\* the task's own (a panic included) or what a check inside it reported.
TaskReturns(w) ==
  LET j == run[w] IN
  /\ pc[w] = "task"
  /\ \E r \in Results :
       /\ \/ r \in {BudgetCheck(j), "error"}
          \/ r = "timeout" /\ j \in expired
       /\ Publish(w, "run", j, r)
  /\ UNCHANGED <<jobVars, queueVars, counters, todo, run, shutdownVars, history>>

-----------------------------------------------------------------------------
(* Shutdown.                                                                *)

\* Runtime::shutdown by a client, request_shutdown by a client (Drop is the
\* same call), or either of them by a task: from a worker both only request.
\* The phase exchange lets one caller through.
CallShutdown(t) ==
  /\ t \in Stoppers
  /\ \/ t \in Clients /\ pc[t] = "idle" /\ op' \in
          {[op EXCEPT ![t] = "request"], [op EXCEPT ![t] = "shutdown"]}
     \/ t \in Workers /\ pc[t] = "task" /\ op' = [op EXCEPT ![t] = "request"]
  /\ phase = "not_started"
  /\ phase' = "in_progress"
  /\ Goto(t, "begin")
  /\ UNCHANGED <<jobVars, queueVars, counters, tgt, res, todo, run,
                 requestComplete, joinClaimed, handles, history>>

\* A later shutdown caller skips the request and waits for completion.
JoinShutdown(c) ==
  /\ c \in Stoppers
  /\ pc[c] = "idle"
  /\ phase = "in_progress"
  /\ Goto(c, "await")
  /\ UNCHANGED <<jobVars, queueVars, counters, op, tgt, res, todo, run,
                 shutdownVars, history>>

\* Mutant: only the jobs still in the queue are drained.
BeginShutdownQueued(t) ==
  /\ pc[t] = "begin"
  /\ shuttingDown' = TRUE
  /\ queue' = <<>>
  /\ todo' = [todo EXCEPT ![t] = {queue[i] : i \in 1..Len(queue)}]
  /\ Goto(t, "wakeall")
  /\ UNCHANGED <<jobVars, active, owners, counters, op, tgt, res, run,
                 shutdownVars, history>>

BeginShutdown(t) ==
  /\ pc[t] = "begin"
  /\ shuttingDown' = TRUE
  /\ queue' = <<>>
  /\ todo' = [todo EXCEPT ![t] = active]
  /\ Goto(t, "wakeall")
  /\ UNCHANGED <<jobVars, active, owners, counters, op, tgt, res, run,
                 shutdownVars, history>>

\* Mutant: notify_one instead of notify_all.
WakeOne(t) ==
  /\ pc[t] = "wakeall"
  /\ \/ Waiting = {} /\ Goto(t, "drain")
     \/ \E w \in Waiting : pc' = [pc EXCEPT ![t] = "drain", ![w] = "loop"]
  /\ UNCHANGED <<jobVars, queueVars, counters, op, tgt, res, todo, run,
                 shutdownVars, history>>

WakeAll(t) ==
  /\ pc[t] = "wakeall"
  /\ pc' = [u \in Threads |-> IF u = t THEN "drain"
                              ELSE IF u \in Waiting THEN "loop" ELSE pc[u]]
  /\ UNCHANGED <<jobVars, queueVars, counters, op, tgt, res, todo, run,
                 shutdownVars, history>>

\* The loop over the drained jobs: the next one's cancel begins.
DrainNext(t) ==
  /\ pc[t] = "drain"
  /\ \E j \in todo[t] :
       /\ \A k \in todo[t] : j <= k
       /\ todo' = [todo EXCEPT ![t] = @ \ {j}]
       /\ tgt' = [tgt EXCEPT ![t] = j]
       /\ RaiseFlag(j)
  /\ Goto(t, "dequeue")
  /\ UNCHANGED <<state, owner, task, output, locked, expired, queueVars, counters,
                 op, res, run, shutdownVars, observed>>

\* publish_shutdown_request; then a shutdown caller goes on to wait, a
\* requester returns.
DrainDone(t) ==
  /\ pc[t] = "drain"
  /\ todo[t] = {}
  /\ requestComplete' = TRUE
  /\ pc' = [u \in Threads |->
       IF u = t THEN IF op[t] = "shutdown" THEN "await"
                     ELSE IF t \in Workers THEN "task" ELSE "idle"
       ELSE IF pc[u] = "parked" THEN "await" ELSE pc[u]]
  /\ op' = [op EXCEPT ![t] = "none"]
  /\ UNCHANGED <<jobVars, queueVars, counters, tgt, res, todo, run, phase,
                 joinClaimed, handles, history>>

\* One turn of wait_for_or_finish_shutdown under shutdown_wait.
AwaitShutdown(c) ==
  /\ pc[c] = "await"
  /\ \/ /\ phase = "complete"
        /\ Goto(c, "idle")
        /\ UNCHANGED joinClaimed
     \/ /\ phase # "complete"
        /\ requestComplete /\ ~joinClaimed
        /\ joinClaimed' = TRUE
        /\ Goto(c, "join")
     \/ /\ phase # "complete"
        /\ ~(requestComplete /\ ~joinClaimed)
        /\ Goto(c, "parked")
        /\ UNCHANGED joinClaimed
  /\ UNCHANGED <<jobVars, queueVars, counters, op, tgt, res, todo, run, phase,
                 requestComplete, handles, history>>

\* One pass of join_workers_bounded over the handles that are left.
JoinPass(c) ==
  /\ pc[c] = "join"
  /\ handles' = {w \in handles : pc[w] # "exit"}
  /\ Goto(c, IF handles' = {} THEN "complete" ELSE "joinwait")
  /\ UNCHANGED <<jobVars, queueVars, counters, op, tgt, res, todo, run, phase,
                 requestComplete, joinClaimed, history>>

\* Before the timeout: another pass.
JoinAgain(c) ==
  /\ pc[c] = "joinwait"
  /\ Goto(c, "join")
  /\ UNCHANGED <<jobVars, queueVars, counters, op, tgt, res, todo, run,
                 shutdownVars, history>>

\* Mutant: a straggler is dropped without being counted.
JoinTimeoutUncounted(c) ==
  /\ pc[c] = "joinwait"
  /\ counters' = [counters EXCEPT !.detached = @ + 1]
  /\ handles' = {}
  /\ Goto(c, "complete")
  /\ UNCHANGED <<jobVars, queueVars, op, tgt, res, todo, run, phase,
                 requestComplete, joinClaimed, history>>

\* At the timeout every handle left is counted and dropped.
JoinTimeout(c) ==
  /\ pc[c] = "joinwait"
  /\ counters' = [counters EXCEPT !.detached = @ + Cardinality(handles)]
  /\ handles' = {}
  /\ Goto(c, "complete")
  /\ UNCHANGED <<jobVars, queueVars, op, tgt, res, todo, run, phase,
                 requestComplete, joinClaimed, history>>

\* Mutant: the waiting callers are not woken.
CompleteShutdownSilently(c) ==
  /\ pc[c] = "complete"
  /\ phase' = "complete"
  /\ Goto(c, "idle")
  /\ UNCHANGED <<jobVars, queueVars, counters, op, tgt, res, todo, run,
                 requestComplete, joinClaimed, handles, history>>

\* The end of finish_shutdown.
CompleteShutdown(c) ==
  /\ pc[c] = "complete"
  /\ phase' = "complete"
  /\ pc' = [u \in Threads |-> IF u = c THEN "idle"
                              ELSE IF pc[u] = "parked" THEN "await" ELSE pc[u]]
  /\ UNCHANGED <<jobVars, queueVars, counters, op, tgt, res, todo, run,
                 requestComplete, joinClaimed, handles, history>>

-----------------------------------------------------------------------------

ClientStep(c) ==
  \/ SubmitSweep(c)
  \/ \E o \in Owners : SubmitReject(c, o) \/ SubmitAdmit(c, o)
  \/ SubmitNotify(c)
  \/ \E j \in Jobs : Cancel(c, j)
  \/ JoinShutdown(c) \/ AwaitShutdown(c)
  \/ JoinPass(c) \/ JoinAgain(c) \/ JoinTimeout(c) \/ CompleteShutdown(c)

WorkerStep(w) ==
  \/ WorkerSweep(w) \/ WorkerPop(w) \/ WorkerIdle(w) \/ SpuriousWake(w)
  \/ TryStart(w) \/ CountRunning(w) \/ RunCheck(w) \/ TaskReturns(w)

ThreadStep(t) ==
  \/ CancelDequeue(t) \/ ExpireNext(t) \/ ExpireDone(t)
  \/ PublishSet(t) \/ PublishCas(t) \/ RecordTerminal(t) \/ ReleaseSlot(t)
  \/ Observe(t) \/ Discard(t)
  \/ CallShutdown(t) \/ BeginShutdown(t) \/ WakeAll(t) \/ DrainNext(t) \/ DrainDone(t)

Next ==
  \/ \E c \in Clients : ClientStep(c)
  \/ \E w \in Workers : WorkerStep(w)
  \/ \E t \in Threads : ThreadStep(t)
  \/ \E j \in Jobs : TakeOutput(j) \/ Deadline(j)

Spec == Init /\ [][Next]_vars

-----------------------------------------------------------------------------
(* Fairness: the operating system keeps scheduling every thread that is in  *)
(* the middle of a call or of its loop. Nobody has to call submit, cancel   *)
(* or shutdown, and no wake-up comes without a notification.                *)

Progress(t) ==
  \/ CancelDequeue(t) \/ ExpireNext(t) \/ ExpireDone(t)
  \/ PublishSet(t) \/ PublishCas(t) \/ RecordTerminal(t) \/ ReleaseSlot(t)
  \/ Observe(t) \/ Discard(t)
  \/ BeginShutdown(t) \/ WakeAll(t) \/ DrainNext(t) \/ DrainDone(t)

ClientProgress(c) ==
  \/ SubmitNotify(c) \/ AwaitShutdown(c)
  \/ JoinPass(c) \/ JoinAgain(c) \/ CompleteShutdown(c)

WorkerProgress(w) ==
  \/ WorkerSweep(w) \/ WorkerPop(w) \/ WorkerIdle(w)
  \/ TryStart(w) \/ CountRunning(w) \/ RunCheck(w)

\* The clock passes shutdown_join_timeout_ms however often the join loop
\* comes round before it.
Scheduling ==
  /\ \A t \in Threads : WF_vars(Progress(t))
  /\ \A c \in Clients : WF_vars(ClientProgress(c)) /\ SF_vars(JoinTimeout(c))
  /\ \A w \in Workers : WF_vars(WorkerProgress(w))

\* Tasks may run for ever ...
FairSpec == Spec /\ Scheduling

\* ... or are well behaved and return.
LiveSpec == FairSpec /\ \A w \in Workers : WF_vars(TaskReturns(w))

-----------------------------------------------------------------------------
(* Properties.                                                              *)

\* Every variable stays in its range; in particular the unsigned running
\* counter and the owners' counts never go below zero.
TypeOK ==
  /\ state \in [Jobs -> {"none", "queued", "running"} \cup Terminal]
  /\ owner \in [Jobs -> Owners]
  /\ task \in [Jobs -> {"held", "taken", "dropped"}]
  /\ output \in [Jobs -> {"empty", "taken"} \cup Results]
  /\ locked \subseteq Jobs
  /\ flagged \subseteq Jobs
  /\ expired \subseteq Jobs
  /\ queue \in Seq(Jobs)
  /\ active \subseteq Jobs
  /\ owners \in [Owners -> Nat]
  /\ shuttingDown \in BOOLEAN
  /\ counters \in [CounterNames -> Nat]
  /\ pc \in [Threads -> Labels]
  /\ op \in [Threads -> Ops]
  /\ tgt \in [Threads -> 0..MaxJobs]
  /\ res \in [Threads -> Results]
  /\ todo \in [Threads -> SUBSET Jobs]
  /\ run \in [Workers -> 0..MaxJobs]
  /\ phase \in {"not_started", "in_progress", "complete"}
  /\ requestComplete \in BOOLEAN
  /\ joinClaimed \in BOOLEAN
  /\ handles \subseteq Workers
  /\ observed \in [Jobs -> Nat]
  /\ lateCancel \subseteq Jobs

\* A decided job stays decided: no later cancel, sweep, worker or loser of the
\* publication race changes its status or its stored result, which only a
\* reader may take.
OneOutcome ==
  [][\A j \in Jobs : state[j] \in Terminal =>
       /\ state'[j] = state[j]
       /\ output'[j] \in {output[j], "taken"}]_vars

\* The stored result agrees with the published status, and nothing is left in
\* the slot of an undecided job that is not being published right now
\* (publish_terminal restores the slot when its compare-exchange loses).
OutcomeMatches ==
  \A j \in Jobs :
    /\ state[j] \in Terminal =>
         \/ output[j] = "taken"
         \/ output[j] \in Results /\ TerminalOf(output[j]) = state[j]
    /\ state[j] \notin Terminal => output[j] = "empty" \/ j \in locked

\* QueueState.owners counts exactly the admitted jobs that still hold a slot,
\* and neither ceiling of the configuration is exceeded.
Accounting ==
  /\ \A o \in Owners :
       /\ owners[o] = Cardinality({j \in active : owner[j] = o})
       /\ owners[o] <= MaxJobsPerOwner
  /\ Len(queue) <= MaxQueue

\* The counters lose no job and count none twice: a job that was submitted is
\* undecided, counted under one terminal status, or its publisher is just
\* about to count it.
Conservation ==
  counters.submitted =
    counters.completed + counters.failed + counters.cancelled
      + Cardinality({j \in Jobs : state[j] \in {"queued", "running"}})
      + Cardinality({t \in Threads : pc[t] = "record"})

\* No admitted job is stranded: whoever popped it from the queue, swept it or
\* cleared the queue under it is still going to start it or to end it.
NoStranded ==
  \A j \in Jobs : state[j] = "queued" =>
    \/ \E i \in 1..Len(queue) : queue[i] = j
    \/ \E w \in Workers : run[w] = j /\ pc[w] = "start"
    \/ \E t \in Threads :
         \/ j \in todo[t]
         \/ tgt[t] = j /\ pc[t] \in {"dequeue", "set", "cas"} /\ From(t) = "queued"

\* A task runs at most once: no two workers are past try_start with the same
\* job, and the task is still there when the one that is comes to take it.
RunsOnce ==
  \A w \in Workers :
    /\ pc[w] = "check" => task[run[w]] = "held"
    /\ pc[w] \in {"count", "check", "task"} =>
         /\ state[run[w]] = "running"
         /\ \A v \in Workers \ {w} : run[v] # run[w]

\* A cancellation raised before the outcome was fixed is never answered with a
\* successful result.
CancelWins ==
  \A j \in Jobs : state[j] = "completed" /\ j \in flagged => j \in lateCancel

\* Once the shutdown request is published, no job is waiting to start, so no
\* waiter can be left with a job that nobody will run.
ShutdownDrains ==
  requestComplete =>
    queue = <<>> /\ \A j \in Jobs : state[j] # "queued"

\* When shutdown is complete every worker has exited or is counted as
\* detached.
ShutdownAccounts ==
  phase = "complete" =>
    /\ handles = {}
    /\ Cardinality({w \in Workers : pc[w] # "exit"}) <= counters.detached

\* Every admitted job is eventually decided, gives its slot back and is
\* announced, if tasks return: no lost wake-up, no stranded job.
EveryJobEnds ==
  \A j \in Jobs :
    state[j] = "queued" ~> state[j] \in Terminal /\ j \notin active /\ observed[j] = 1

\* A shutdown call returns even when tasks never do, whoever else is shutting
\* down at the same time.
ShutdownReturns ==
  \A c \in Clients : pc[c] \in {"begin", "await"} ~> pc[c] = "idle"

\* After a shutdown request every worker exits, if tasks return.
WorkersExit ==
  shuttingDown ~> \A w \in Workers : pc[w] = "exit"

\* The pool seen through its promises.
Pool == INSTANCE JobPool WITH
  Job <- Jobs, Owner <- Owners, MaxPerOwner <- MaxJobsPerOwner,
  status <- state, ownerOf <- owner, held <- active, told <- observed,
  open <- ~shuttingDown

\* Every step of the threads is a step of JobPool or changes nothing it shows.
RefinesPool == Pool!PoolSpec
=============================================================================
