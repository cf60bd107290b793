# Gitility: TLA+ models, checks and proofs

Gitility answers Git object queries from Elixir. Expensive work runs as *jobs*
on Rust-owned worker threads; objects and references may come from local
repositories, from Elixir processes ("providers"), from pack files read by
byte range, or from bundles in an object store. This directory models the
system's concurrent parts in TLA+, checks them with TLC on small instances, and
proves the central facts about the worker pool with TLAPS for every size.

## 1. The system, its parts and how they interact

| Part | Source | State it owns |
| --- | --- | --- |
| Worker pool | `crates/gitility-core/src/runtime/mod.rs` | bounded queue, per-owner slots, jobs, counters, worker threads, shutdown phase |
| Job handles and notifications | `native/gitility/src/lib.rs`, `lib/gitility/job.ex` | owner keys, waiters of each job, notification channel and pump thread, owner monitors |
| Budget, thread budget | `budget.rs`, `runtime/thread_budget.rs` | cancel flag, deadline, charges; process-wide thread count |
| Named runtimes, synchronous calls | `lib/gitility/runtime.ex`, `native_support.ex` | lazily started default runtime; busy retry, cancel on timeout |
| Fetch leases and fetch | `lib/gitility/fetch/locks.ex`, `fetch.ex`, `fetch.rs` | one lease per destination, jobs attached to it; staged repository writes |
| Object provider | `provider_odb.rs`, `lib/gitility/odb/provider.ex`, `watchdog.ex` | table of pending requests, callback tasks, refresh barrier, negative cache |
| Reference provider | `provider_refs.rs`, `lib/gitility/ref_db/*` | the same, for references |
| Layered object database | `layered_odb.rs`, `lru.rs` | layers, caches |
| Pack fetch | `packfetch.rs`, `lib/gitility/odb/pack_fetch.ex` | pending ranges, hydrated packs |
| References, repository, snapshots | `refs.rs`, `repo_admin.rs`, `snapshot.rs` | reference store |
| Walks and queries | `log.rs`, `path_history.rs`, `blame.rs`, `tree.rs`, `diff.rs`, `search.rs`, `cursor.rs` | none beyond a request: bounded, resumable computations |
| Bundles | `lib/gitility/bundle*` | a file written to a temporary and renamed |
| Mirror replication | `lib/gitility/mirror.ex` | a published bundle per key, conditional writes |
| Object stores | `lib/gitility/object_store/*` | versions, pins, holds, the current pointer |

A query enters through `lib/gitility.ex`, becomes a job of the pool
(`submit_job`), and the caller awaits a message. The task may itself wait for a
provider process, which answers through a table of pending requests. A fetch
holds a lease until every job attached to it has ended. A mirror publishes a
bundle with a conditional write to an object store.

`PROJECT.json` lists every part with its sources and says which are modelled,
the hazards of the code with the properties that watch them, and the source
lines behind every definition.

## 2. Modules

### Runtime: the worker pool

`Runtime.tla` models `runtime/mod.rs`. Its variables are the fields of `Job`,
`QueueState`, `Counters` and `Runtime`, and a program counter with the locals
of every thread. A critical section of a mutex, and an atomic instruction
outside one, is one action; everything else interleaves. The output mutex is
explicit (`locked`), because `publish_terminal` holds it across a load and a
compare-exchange that `try_start`, which does not take it, can separate.

| Code | Actions |
| --- | --- |
| `submit` | `SubmitSweep`, `SubmitReject`, `SubmitAdmit`, `SubmitNotify` |
| `Job::cancel` | `Cancel`, `CancelDequeue`, then publication |
| `publish_expired_jobs` | `ExpireNext`, `ExpireDone` |
| `publish_terminal`, `record_terminal` | `PublishSet`, `PublishCas`, `RecordTerminal`, `ReleaseSlot`, `Observe`, `Discard` |
| `worker_loop`, `run` | `WorkerSweep`, `WorkerPop`, `WorkerIdle`, `SpuriousWake`, `TryStart`, `CountRunning`, `RunCheck`, `TaskReturns` |
| `take_output` | `TakeOutput` |
| `shutdown`, `request_shutdown`, `Drop` | `CallShutdown`, `JoinShutdown`, `BeginShutdown`, `WakeAll`, `DrainNext`, `DrainDone`, `AwaitShutdown`, `JoinPass`, `JoinAgain`, `JoinTimeout`, `CompleteShutdown` |

A task is opaque: it returns any result the code lets through, and may ask for
shutdown. `Deadline` lets time pass a job's deadline at any moment.

Two history variables carry what a property needs and the code does not store:
`observed` (how often a job was announced) and `lateCancel` (jobs whose cancel
flag was raised after their outcome was fixed).

`JobPool.tla` is what the pool promises: a job has one life, holds one slot of
its owner from admission until its end is decided, and is announced once, after
the slot is free. `Runtime` implements it (`RefinesPool`).

### JobHandles: handles, waiters, notifications

`JobHandles.tla` models the layer above, with `JobPool` in place of the
threads: its `Announce` is the call of `NifJobObserver::completed`.

| Code | Actions |
| --- | --- |
| `submit_job` | `SubmitReserve`, `SubmitOk`, `SubmitRefused`, `SubmitReturns` |
| `Job.await`, `job_register_waiter`, `job_deregister_waiter`, `job_take_result` | `Register`, `Receive`, `AwaitTimeout`, `Deregister`, `Flush`, `Take` |
| `Job.cancel` | `Cancel` |
| owner death, `JobResource::down`, `remove_owner` | `Die`, `Down`, `RemoveOwner` |
| `NifJobObserver::completed` | `ObserverTakes`, `ObserverCounts`, `ObserverEnqueues` |
| `notification_pump`, `notify_waiters` | `PumpNotify`, `PumpExit` |
| `runtime_shutdown` | `StopCore`, `StopClose`, `StopJoins` |

The submit functions are regular NIFs, so a process cannot die inside one; all
other calls can be cut by its death. At this level a cancelled job that is
queued ends at once and its announcement follows later, which allows more
interleavings than the pool has: safety carries over.

### FetchLocks: one fetch per destination

`FetchLocks.tla` models the lock server (`fetch/locks.ex`) and the processes
inside `Gitility.fetch/4` (`fetch.ex`). `leases` is the server's map, `mailbox`
its queue; a message is handled in one step, as in the code, and a caller goes
on when its reply comes. A caller that gives up on a call (5 s), or dies, leaves
its message in the mailbox: it is handled later and its reply dropped.

| Code | Actions |
| --- | --- |
| `handle_call`, `handle_info` of Locks | `HandleAcquire`, `HandlePendingSubmit`, `HandleSubmissionFailed`, `HandleAttach`, `HandleRelease`, `HandleDone`, `HandleDown`, `HandlePendingGrace` |
| `fetch_validated`, `run_fetch`, `submit_and_await`, `await_job`, `release_lock` | `Acquire`, `GiveUp`, `PendingSubmit`, `SubmitOk`, `SubmitRefused`, `Attach`, `AwaitResult`, `AwaitTimeout`, `Release` |
| `locks_call` when a call exits | `CallTimeout`, and `Exits` in `Restart` |
| the world | `Die`, `JobEnds`, `Notify`, `Restart` |

A job is what `Runtime` and `JobHandles` show of it: it ends once, and the
processes registered with it are told. The generation of a lease is the caller
and the number of its fetch. There is no clock: a grace period may run out at
any time after it was started, before or after the job it was started for has
ended, because the native deadlines are cooperative. `restarted`, `unsure` and
`lapsed` are history: whether Locks has restarted, which fetches gave up on
`acquire` or `pending_submit`, and which active jobs nobody had attached when
the grace period dropped their lease.

## 3. What TLC checks

| Run | Bounds | Shows |
| --- | --- | --- |
| `pool` | 2 workers, a submitter, a canceller, 2 jobs of 2 owners, one with a deadline, queue and ceiling of 1 | `TypeOK`, `OneOutcome`, `OutcomeMatches`, `Accounting`, `Conservation`, `NoStranded`, `RunsOnce`, `CancelWins`, `RefinesPool` |
| `shutdown` | 2 workers, 2 clients and a worker that shut down, 1 job, tasks may never return | `ShutdownReturns` |
| `live` | 2 workers, a submitter, a stopper, 2 jobs, queue and ceiling of 1, tasks return | `ShutdownDrains`, `ShutdownAccounts`, `EveryJobEnds`, `WorkersExit` |
| `wake` | 2 workers, a submitter, 3 jobs of which the first two expire, queue of 2 | `EveryJobEnds` |
| `await` | 2 processes, 1 job, the submitter may die and awaits for ever, the other times out, shutdown at any time | `TypeOK`, `NoStaleMessage`, `WakeupKept`, `EveryWaiterWakes` |
| `owners` | an owner that may die, another process with its handles, 2 jobs (one detached), 3 owner keys, one slot per key | `OwnerCount`, `CeilingPerProcess`, `DeathCancels` |
| `fetch_locks` | 2 callers with a runtime each (so job ids collide), 2 destinations (symmetric), 2 jobs; one caller fetches twice, retries, dies and gives up on calls; Locks restarts once | `SingleFlight`, `HolderKeepsLease`, `LeaseJobsOwn`, `AbandonedJobCancelled` |
| `fetch_locks_live` | 2 callers that die and give up on calls, 1 destination, 2 jobs | `LeaseFreed`, `DeadHolderFreed` |
| `fetch_locks_retained` | 2 callers of which one may die, 1 destination, 1 job and a failing registration | `RetainedJobFreed` is violated |
| `fetch_locks_grace` | 2 callers of which one may die, 1 destination, 2 jobs | `OneFetchPerDestination` is violated |

Why these bounds are enough for the questions asked. The races are between at
most three threads for one job (worker, canceller, sweeper), and between two
jobs for one slot or one queue place: two workers, two clients and two jobs
reach each of them, with queue and ceiling at their limit. A sweep that hides a
job behind expired ones needs three jobs (`wake`). Waiters of one job do not
interact with waiters of another, so `await` has one job and two waiters; keys
are recycled between jobs of one owner, so `owners` has two jobs and a spare
key. A lease conflict needs two fetches of one destination; late messages need a
second fetch of the same process; confused ids need two leases at once: two
callers, one of which fetches twice, and two destinations. The constants that only bound the exploration are marked as bounds in the
modules. Deadlock is not checked: a pool or lock server with no more calls may
rest.

Fairness. The operating system keeps running a thread that is inside a call or
its loop (weak fairness of every such step). Nobody has to call anything, no
condition variable wakes by itself, and a mutex handed over in the middle of a
publication is eventually released because its holder is scheduled. The join
loop polls a clock: however often it comes round, the clock passes the timeout
(strong fairness of `JoinTimeout`). `ShutdownReturns` holds without any
assumption on tasks; `EveryJobEnds` and `WorkersExit` assume that tasks return.
For `EveryWaiterWakes` the pool ends and announces every job, which is
`EveryJobEnds` one level down.

For the leases: Locks handles its mailbox, timers fire, every wait inside
`fetch/4` has a deadline, a native job has one too, and registered notices are
sent. Nobody has to start a fetch, die or give up.

What the models show about limits of the code. A notification that reaches
`NotificationSender::enqueue` after `runtime_shutdown` closed it is dropped.
That happens to a job that ends on a detached worker, or whose canceller is
still inside `publish_terminal` when shutdown closes the channel. A process in
`Job.await` with a finite timeout sees `:await_timeout` and its next await finds
the job terminal; one with `:infinity` keeps waiting. `WakeupKept` and
`EveryWaiterWakes` show that this is the only way for a waiter to be missed. The
lock server is such a waiter: if its notice is dropped the lease stays, which is
why `LeaseFreed` assumes notices are sent.

A caller of `fetch/4` that gives up on `acquire`, or on `pending_submit`, while
the lock server is slow leaves a lease that is only dropped when the caller
dies (`LeaseFreed` excludes exactly these fetches, `DeadHolderFreed` covers
them): `fetch_validated` does not release after a failed acquire, and a pending
flag is cleared only by `submission_failed` or `attach`.

Two disagreements. First (`fetch_locks_retained`): the comment on
`waiter_already_terminal?` says that keeping a job as non-terminal when its
registration failed "leaves release to the normal notification/holder/grace
rules". None of these rules drops such a lease: no notice of the job comes, the
release or death of the holder leaves a lease with a non-terminal job alone, and
the grace period is for pending leases. The destination stays busy until the
lock server restarts.

Second (`fetch_locks_grace`): `fetch.ex` says that fetches are "single-flight per
`Path.expand/1` destination within one VM". When a caller dies between the
submission of its job and `attach`, the lock server does not know the job. It
waits twice the timeout of the fetch and then drops the lease, whether the job
has ended or not. Deadlines and cancellation of a native job are cooperative
(`runtime/mod.rs`, "Cooperative deadlines"), so the job may still be running and
the next caller is admitted beside it. `SingleFlight` says that nothing else
breaks the rule: a job without its lease is one whose caller died before it was
attached, and which was still active when its grace period ran out.

## 4. What TLAPS proves

All five theorems are about `Runtime`, for every set of workers, clients and
owners and every bound, from `RuntimeAssumption` alone (threads of the two kinds
are distinct, the workers are finitely many, there is an owner, the limits are
natural numbers).

| Theorem | Statement |
| --- | --- |
| `TypeCorrect` | `Spec => []TypeOK` |
| `OutcomeCorrect` | `Spec => []OutcomeMatches` |
| `OutcomeStays` | `Spec => OneOutcome` |
| `AccountingCorrect` | `Spec => []Accounting` |
| `PoolRefined` | `Spec => RefinesPool` |

The argument. `TypeOK` is not inductive: that `running` stays a natural number
depends on who is between `try_start` and `record_terminal`. The inductive
invariant is

    Inductive == TypeOK /\ Control /\ Custody /\ RunCount

* `Control` (`RuntimeTypes`, `RuntimeControl`) says what a thread's locals are
  at each program counter: which threads can be where, that a publisher has a
  target, that a worker's publication is of the job it runs.
* `Custody` (`RuntimeCustody`) says who owns a job: a running job is run by one
  worker that is past `try_start`, a locked output has one holder at the
  compare-exchange, a terminal status is recorded by the one publisher that won.
* `RunCount` (`RuntimeProofs`) says that `counters.running` is the number of
  workers between the increment and the decrement.

`RuntimeOutcome` adds what the result slot holds while it is locked, from which
`OutcomeMatches` is inductive and the loser's restore is seen to be right;
`OneOutcome` follows action by action. `RuntimeSlots` adds that a job holds a
slot exactly from admission until its publisher released it and that an observer
is called by the one publisher past that point; from it `Accounting` and, step by
step, the refinement follow.

Only model-checked: `Conservation`, `NoStranded`, `RunsOnce`, `CancelWins`,
`ShutdownDrains`, `ShutdownAccounts` (planned), everything about `JobHandles`
(planned) and `FetchLocks` (planned), and all liveness, which the prover does not treat.

The proofs are split over six modules that extend one another, so that each can
be checked on its own: `RuntimeTypes`, `RuntimeControl`, `RuntimeCustody`,
`RuntimeProofs`, `RuntimeOutcome`, `RuntimeSlots`.

## 5. What is not modelled, and the plan

In the order in which they are to be built:

1. **Provider rendezvous**: `PendingTable`, `send_and_wait`, the provider
   process with its bounded tasks, queue, refresh and timeouts, the watchdog.
   Abstract specification: every request is answered once, with a reply, a
   timeout or provider death. The reference provider is the same protocol.
2. **Local object store**: pins, holds, conditional commit, version sweep,
   restart of the server under its clients. Abstract specification: a register
   with compare-and-swap and stable reads.
3. **Mirror**: publish with lost answers and reconciliation, restore, over that
   register.
4. **Caches**: layered database, LRU, negative cache against refresh.
5. **Pack fetch**: range requests and hydration.
6. **Bounded walks**: log, path history, tree and search pages with cursors,
   against the unbounded walk as reference; budget charges.
7. **References and repository writes, bundle writing, thread budget, named
   runtimes and synchronous wrappers.**

Then proofs: the remaining invariants of `Runtime` (`RunsOnce`, `NoStranded`,
`CancelWins` follow from `Custody` with a clause on the task slot), type
correctness, `NoStaleMessage` and `WakeupKept` of `JobHandles`, exclusion of the
fetch leases (`SingleFlight`), and the refinements of the provider and store modules.

Left out for good: decoding and encoding of Git objects, text matching and
rendering (pure, and tested differentially against `git`), HTTP and SQL
adapters (I/O), option validation and structs (no state), and the vendored
`gix-diff`.
