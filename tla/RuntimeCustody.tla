--------------------------- MODULE RuntimeCustody ---------------------------
(***************************************************************************)
(* Custody: a job is in the queue at most once, a popped job belongs to one*)
(* worker, and a worker past try_start holds a running job.                *)
(***************************************************************************)
EXTENDS RuntimeControl

\* The variables of the module, in one place.
USE DEF jobVars, queueVars, threadVars, shutdownVars, history, vars

Started(w) ==
  \/ pc[w] \in {"count", "check", "task"}
  \/ op[w] = "request"
  \/ op[w] = "run" /\ pc[w] \in {"set", "cas"}

Custody ==
  /\ \A j \in Jobs : state[j] = "none" <=> j > counters["submitted"]
  /\ \A i \in 1..Len(queue) :
       /\ state[queue[i]] # "none"
       /\ \A w \in Workers : run[w] # queue[i]
       /\ \A k \in 1..Len(queue) : queue[i] = queue[k] => i = k
  /\ \A w \in Workers : run[w] \in Jobs =>
       /\ state[run[w]] # "none"
       /\ \A v \in Workers : run[v] = run[w] => v = w
  /\ \A w \in Workers : Started(w) => state[run[w]] = "running"

\* Steps that leave the jobs, the queue and the workers' jobs alone and do
\* not take a worker past try_start.
LEMMA CustodyFrame ==
  ASSUME Custody, state' = state, queue' = queue, run' = run,
         counters'["submitted"] = counters["submitted"],
         \A w \in Workers : Started(w)' => Started(w)
  PROVE  Custody'
  <1>1. \A w \in Workers : Started(w)' => state'[run'[w]] = "running"
    BY DEF Custody
  <1> QED
    BY <1>1 DEF Custody

\* A part of the queue may leave it.
LEMMA CustodyShrink ==
  ASSUME TypeOK, Custody, queue' \in Seq(Jobs), state' = state, run' = run,
         counters'["submitted"] = counters["submitted"],
         NEW f \in [1..Len(queue') -> 1..Len(queue)],
         \A i \in 1..Len(queue') : queue'[i] = queue[f[i]],
         \A i, k \in 1..Len(queue') : f[i] = f[k] => i = k,
         \A w \in Workers : Started(w)' => Started(w)
  PROVE  Custody'
  <1>1. \A i \in 1..Len(queue') :
          /\ f[i] \in 1..Len(queue)
          /\ state'[queue'[i]] # "none"
          /\ \A w \in Workers : run'[w] # queue'[i]
    BY DEF Custody
  <1>2. ASSUME NEW i \in 1..Len(queue'), NEW k \in 1..Len(queue'), queue'[i] = queue'[k]
        PROVE  i = k
    <2>1. f[i] \in 1..Len(queue) /\ f[k] \in 1..Len(queue) /\ queue[f[i]] = queue[f[k]]
      BY <1>2
    <2>2. f[i] = f[k]
      BY <2>1 DEF Custody
    <2> QED
      BY <2>2
  <1>3. \A w \in Workers : Started(w)' => state'[run'[w]] = "running"
    BY DEF Custody
  <1> QED
    BY <1>1, <1>2, <1>3 DEF Custody

\* A publication that is over hands back the job of the worker that ended it.
LEMMA CustodyReturn ==
  ASSUME TypeOK, Control, Custody, NEW t \in Threads, Return(t), pc[t] \in Deciding,
         state' = state, queue' = queue, counters' = counters
  PROVE  Custody'
  <1>1. /\ pc'[t] = Resume(t)
        /\ op'[t] = IF op[t] \in {"cancel", "run"} THEN "none" ELSE op[t]
        /\ t \in Workers => run'[t] = IF op[t] = "run" THEN 0 ELSE run[t]
        /\ OnlyMoved(t)
    BY ReturnMoves
  <1>2. \A w \in Workers : run'[w] = run[w] \/ run'[w] = 0
    BY <1>1 DEF OnlyMoved
  <1>3. 0 \notin Jobs
    BY DEF Jobs
  <1>4. \A w \in Workers : Started(w)' => Started(w) /\ run'[w] = run[w]
    <2>1. \A w \in Workers \ {t} : (Started(w)' <=> Started(w)) /\ run'[w] = run[w]
      BY <1>1 DEF OnlyMoved, Started, Threads
    <2>2. ASSUME t \in Workers PROVE Started(t)' => Started(t) /\ run'[t] = run[t]
      BY <1>1, <2>2 DEF Control, WorkerCtl, Started, Deciding, Resume
    <2> QED
      BY <2>1, <2>2
  <1>5. \A w \in Workers : Started(w)' => state'[run'[w]] = "running"
    BY <1>4 DEF Custody
  <1>6. \A i \in 1..Len(queue) : queue[i] \in Jobs
    BY DEF TypeOK
  <1>7. \A i \in 1..Len(queue) : \A w \in Workers : run'[w] # queue[i]
    BY <1>2, <1>3, <1>6 DEF Custody
  <1>8. \A w \in Workers : run'[w] \in Jobs =>
          state[run'[w]] # "none" /\ \A v \in Workers : run'[v] = run'[w] => v = w
    BY <1>2, <1>3 DEF Custody
  <1> QED
    BY <1>5, <1>7, <1>8 DEF Custody

\* Only the thread that moves can come past try_start.
LEMMA StartedFrame ==
  ASSUME NEW t \in Threads, OnlyMoved(t), t \in Workers => (Started(t)' => Started(t))
  PROVE  \A w \in Workers : Started(w)' => Started(w)
  BY DEF OnlyMoved, Started, Threads

\* Every step of submit, worker_loop, cancel and shutdown keeps the custody of
\* the jobs.
LEMMA CustodyStep ==
  ASSUME TypeOK, Control, Custody, [Next]_vars
  PROVE  Custody'
  <1>d. Workers \cap Clients = {} /\ Workers \subseteq Threads /\ Clients \subseteq Threads
    BY RuntimeAssumption DEF Threads
  <1>1. ASSUME NEW c \in Clients, SubmitSweep(c) PROVE Custody'
    <2>1. PICK k \in 1..Len(queue) : queue' = SubSeq(queue, k+1, Len(queue))
      BY <1>1 DEF SubmitSweep
    <2>2. /\ queue' \in Seq(Jobs) /\ Len(queue') = Len(queue) - k /\ Len(queue) \in Nat
          /\ \A i \in 1..Len(queue') : queue'[i] = queue[i+k]
      BY <2>1, SweepType DEF TypeOK
    <2> DEFINE f == [i \in 1..Len(queue') |-> i + k]
    <2>3. f \in [1..Len(queue') -> 1..Len(queue)]
      BY <2>2
    <2>4. OnlyMoved(c) /\ (c \in Workers => (Started(c)' => Started(c)))
      BY <1>1, <1>d, GotoMoves DEF SubmitSweep, OnlyMoved, TypeOK, Started
    <2>5. \A w \in Workers : Started(w)' => Started(w)
      BY <2>4, <1>d, StartedFrame
    <2>6. state' = state /\ run' = run /\ counters' = counters
      BY <1>1 DEF SubmitSweep
    <2>7. \A i, m \in 1..Len(queue') : f[i] = f[m] => i = m
      BY <2>2
    <2>8. \A i \in 1..Len(queue') : queue'[i] = queue[f[i]]
      BY <2>2
    <2> HIDE DEF f
    <2> QED
      BY <2>2, <2>3, <2>5, <2>6, <2>7, <2>8, CustodyShrink
  <1>2. ASSUME NEW c \in Clients, NEW o \in Owners, SubmitReject(c, o) PROVE Custody'
    <2>1. OnlyMoved(c)
      BY <1>2, <1>d, GotoMoves DEF SubmitReject, OnlyMoved, TypeOK
    <2> QED
      BY <1>2, <2>1, <1>d, StartedFrame, CustodyFrame DEF SubmitReject
  <1>3. ASSUME NEW c \in Clients, NEW j \in Jobs, Cancel(c, j) PROVE Custody'
    <2>1. OnlyMoved(c)
      BY <1>3, <1>d, GotoMoves DEF Cancel, OnlyMoved, TypeOK
    <2> QED
      BY <1>3, <2>1, <1>d, StartedFrame, CustodyFrame DEF Cancel
  <1>4. ASSUME NEW c \in Clients, JoinShutdown(c) PROVE Custody'
    <2>1. OnlyMoved(c)
      BY <1>4, <1>d, GotoMoves DEF JoinShutdown, OnlyMoved, TypeOK
    <2> QED
      BY <1>4, <2>1, <1>d, StartedFrame, CustodyFrame DEF JoinShutdown
  <1>5. ASSUME NEW c \in Clients, AwaitShutdown(c) PROVE Custody'
    <2>1. OnlyMoved(c)
      BY <1>5, <1>d, GotoMoves DEF AwaitShutdown, OnlyMoved, TypeOK
    <2> QED
      BY <1>5, <2>1, <1>d, StartedFrame, CustodyFrame DEF AwaitShutdown
  <1>6. ASSUME NEW c \in Clients, JoinPass(c) PROVE Custody'
    <2>1. OnlyMoved(c)
      BY <1>6, <1>d, GotoMoves DEF JoinPass, OnlyMoved, TypeOK
    <2> QED
      BY <1>6, <2>1, <1>d, StartedFrame, CustodyFrame DEF JoinPass
  <1>7. ASSUME NEW c \in Clients, JoinAgain(c) PROVE Custody'
    <2>1. OnlyMoved(c)
      BY <1>7, <1>d, GotoMoves DEF JoinAgain, OnlyMoved, TypeOK
    <2> QED
      BY <1>7, <2>1, <1>d, StartedFrame, CustodyFrame DEF JoinAgain
  <1>8. ASSUME NEW c \in Clients, JoinTimeout(c) PROVE Custody'
    <2>1. OnlyMoved(c)
      BY <1>8, <1>d, GotoMoves DEF JoinTimeout, OnlyMoved, TypeOK
    <2>2. counters'["submitted"] = counters["submitted"]
      BY <1>8 DEF JoinTimeout, TypeOK, CounterNames
    <2> QED
      BY <1>8, <2>1, <2>2, <1>d, StartedFrame, CustodyFrame DEF JoinTimeout
  <1>9. ASSUME NEW c \in Clients, NEW o \in Owners, SubmitAdmit(c, o) PROVE Custody'
    <2> DEFINE j == counters["submitted"] + 1
    <2>1. /\ j \in Jobs /\ pc[c] \in {"idle", "admit"}
          /\ state' = [state EXCEPT ![j] = "queued"] /\ queue' = Append(queue, j)
          /\ counters' = [counters EXCEPT !["submitted"] = j]
          /\ Goto(c, "notify") /\ UNCHANGED <<op, tgt, run>>
      BY <1>9 DEF SubmitAdmit
    <2>2. counters["submitted"] \in Nat /\ counters'["submitted"] = j
      BY <2>1 DEF TypeOK, CounterNames
    <2>3. state[j] = "none"
      BY <2>1, <2>2 DEF Custody
    <2>4. \A i \in Jobs : state'[i] = IF i = j THEN "queued" ELSE state[i]
      BY <2>1 DEF TypeOK
    <2>5. OnlyMoved(c)
      BY <2>1, <1>d, GotoMoves DEF OnlyMoved
    <2>6. \A w \in Workers : Started(w)' => Started(w)
      BY <2>5, <1>d, StartedFrame
    <2>7. /\ queue' \in Seq(Jobs) /\ Len(queue) \in Nat /\ Len(queue') = Len(queue) + 1
          /\ \A i \in 1..Len(queue) : queue'[i] = queue[i] /\ queue[i] \in Jobs
          /\ queue'[Len(queue)+1] = j
      BY <2>1, AppendProperties DEF TypeOK
    <2>8. \A i \in 1..Len(queue) : queue[i] # j
      BY <2>3 DEF Custody
    <2>9. \A w \in Workers : run[w] # j
      BY <2>1, <2>3 DEF Custody
    <2>10. \A i \in Jobs : state'[i] = "none" <=> i > counters'["submitted"]
      <3>1. \A i \in Jobs : i \in Int
        BY DEF Jobs
      <3> QED
        BY <2>1, <2>2, <2>3, <2>4, <3>1 DEF Custody
    <2>11. ASSUME NEW i \in 1..Len(queue')
           PROVE  /\ state'[queue'[i]] # "none" /\ \A w \in Workers : run'[w] # queue'[i]
                  /\ \A k \in 1..Len(queue') : queue'[i] = queue'[k] => i = k
      <3>1. CASE i = Len(queue) + 1
        BY <2>1, <2>4, <2>7, <2>8, <2>9, <3>1
      <3>2. CASE i \in 1..Len(queue)
        BY <2>1, <2>4, <2>7, <2>8, <3>2 DEF Custody
      <3> QED
        BY <2>7, <3>1, <3>2
    <2>12. \A w \in Workers : run'[w] \in Jobs => state'[run'[w]] # "none" /\ \A v \in Workers : run'[v] = run'[w] => v = w
      BY <2>1, <2>4 DEF Custody
    <2>13. \A w \in Workers : Started(w)' => state'[run'[w]] = "running"
      <3>1. \A w \in Workers : Started(w) => run[w] # j
        BY <2>9
      <3>2. \A w \in Workers : Started(w) => run[w] \in Jobs
        BY DEF Control, WorkerCtl, Started, Deciding
      <3> QED
        BY <2>1, <2>4, <2>6, <3>1, <3>2 DEF Custody
    <2> QED
      BY <2>10, <2>11, <2>12, <2>13 DEF Custody
  <1>10. ASSUME NEW c \in Clients, SubmitNotify(c) PROVE Custody'
    <2>1. \A w \in Workers : pc'[w] = pc[w] \/ pc'[w] = "loop"
      BY <1>10, <1>d DEF SubmitNotify, Goto, Waiting, TypeOK
    <2>2. op' = op
      BY <1>10 DEF SubmitNotify
    <2>3. \A w \in Workers : Started(w)' => Started(w)
      BY <2>1, <2>2 DEF Started, Control, WorkerCtl, Deciding
    <2> QED
      BY <1>10, <2>3, CustodyFrame DEF SubmitNotify
  <1>11. ASSUME NEW c \in Clients, CompleteShutdown(c) PROVE Custody'
    <2>1. \A w \in Workers : pc'[w] = pc[w] \/ pc[w] = "parked"
      BY <1>11, <1>d DEF CompleteShutdown, TypeOK
    <2>2. op' = op
      BY <1>11 DEF CompleteShutdown
    <2>3. \A w \in Workers : Started(w)' => Started(w)
      BY <2>1, <2>2 DEF Started, Control, WorkerCtl, Deciding
    <2> QED
      BY <1>11, <2>3, CustodyFrame DEF CompleteShutdown
  <1>12. ASSUME NEW w \in Workers, WorkerSweep(w) PROVE Custody'
    <2>1. PICK k \in 1..Len(queue) : queue' = SubSeq(queue, k+1, Len(queue))
      BY <1>12 DEF WorkerSweep
    <2>2. /\ queue' \in Seq(Jobs) /\ Len(queue') = Len(queue) - k /\ Len(queue) \in Nat
          /\ \A i \in 1..Len(queue') : queue'[i] = queue[i+k]
      BY <2>1, SweepType DEF TypeOK
    <2> DEFINE f == [i \in 1..Len(queue') |-> i + k]
    <2>3. f \in [1..Len(queue') -> 1..Len(queue)]
      BY <2>2
    <2>m. Goto(w, "expire") /\ op' = [op EXCEPT ![w] = "sweep"] /\ UNCHANGED <<tgt, run>>
      BY <1>12 DEF WorkerSweep
    <2>o. op'[w] = "sweep" /\ \A u \in Threads \ {w} : op'[u] = op[u]
      BY <1>d, <2>m DEF TypeOK
    <2>p. pc'[w] = "expire" /\ \A u \in Threads \ {w} : pc'[u] = pc[u]
      BY <1>d, <2>m, GotoMoves
    <2>4. OnlyMoved(w) /\ (w \in Workers => (Started(w)' => Started(w)))
      BY <2>m, <2>o, <2>p DEF OnlyMoved, Started
    <2>5. \A v \in Workers : Started(v)' => Started(v)
      BY <2>4, <1>d, StartedFrame
    <2>6. state' = state /\ run' = run /\ counters' = counters
      BY <1>12 DEF WorkerSweep
    <2>7. \A i, m \in 1..Len(queue') : f[i] = f[m] => i = m
      BY <2>2
    <2>8. \A i \in 1..Len(queue') : queue'[i] = queue[f[i]]
      BY <2>2
    <2> HIDE DEF f
    <2> QED
      BY <2>2, <2>3, <2>5, <2>6, <2>7, <2>8, CustodyShrink
  <1>13. ASSUME NEW w \in Workers, WorkerIdle(w) PROVE Custody'
    <2>1. OnlyMoved(w) /\ (w \in Workers => (Started(w)' => Started(w)))
      BY <1>13, <1>d, GotoMoves DEF WorkerIdle, OnlyMoved, TypeOK, Started
    <2>2. \A v \in Workers : Started(v)' => Started(v)
      BY <2>1, <1>d, StartedFrame
    <2> QED
      BY <1>13, <2>2, CustodyFrame DEF WorkerIdle
  <1>14. ASSUME NEW w \in Workers, SpuriousWake(w) PROVE Custody'
    <2>1. OnlyMoved(w) /\ (w \in Workers => (Started(w)' => Started(w)))
      BY <1>14, <1>d, GotoMoves DEF SpuriousWake, OnlyMoved, Started
    <2>2. \A v \in Workers : Started(v)' => Started(v)
      BY <2>1, <1>d, StartedFrame
    <2> QED
      BY <1>14, <2>2, CustodyFrame DEF SpuriousWake
  <1>15. ASSUME NEW w \in Workers, WorkerPop(w) PROVE Custody'
    <2>1. /\ queue # <<>> /\ queue' = Tail(queue) /\ run' = [run EXCEPT ![w] = Head(queue)]
          /\ Goto(w, "start") /\ pc[w] = "loop"
          /\ UNCHANGED <<state, counters, op, tgt>>
      BY <1>15 DEF WorkerPop
    <2>2. /\ queue' \in Seq(Jobs) /\ Len(queue) \in Nat \ {0} /\ Len(queue') = Len(queue) - 1
          /\ \A i \in 1..Len(queue') : queue'[i] = queue[i+1]
          /\ Head(queue) = queue[1] /\ queue[1] \in Jobs
      BY <2>1, HeadTailProperties, EmptySeq DEF TypeOK
    <2>3. \A v \in Workers : run'[v] = IF v = w THEN queue[1] ELSE run[v]
      BY <2>1, <2>2 DEF TypeOK
    <2>4. op[w] = "none" /\ pc'[w] = "start" /\ \A v \in Workers \ {w} : pc'[v] = pc[v]
      BY <2>1, <1>d, GotoMoves DEF Control, WorkerCtl, Deciding
    <2>5. \A v \in Workers : Started(v)' => Started(v) /\ v # w
      BY <2>1, <2>4 DEF Started
    <2>6. \A v \in Workers : Started(v)' => state'[run'[v]] = "running"
      BY <2>1, <2>3, <2>5 DEF Custody
    <2>7. ASSUME NEW i \in 1..Len(queue')
          PROVE  /\ state'[queue'[i]] # "none" /\ \A v \in Workers : run'[v] # queue'[i]
                 /\ \A k \in 1..Len(queue') : queue'[i] = queue'[k] => i = k
      <3>1. i+1 \in 1..Len(queue) /\ 1 \in 1..Len(queue) /\ i+1 # 1 /\ queue'[i] = queue[i+1]
        BY <2>2
      <3>2. state'[queue'[i]] # "none" /\ queue[1] # queue[i+1] /\ \A v \in Workers : run[v] # queue[i+1]
        BY <2>1, <3>1 DEF Custody
      <3>3. ASSUME NEW k \in 1..Len(queue'), queue'[i] = queue'[k] PROVE i = k
        <4>1. k+1 \in 1..Len(queue) /\ queue[i+1] = queue[k+1]
          BY <2>2, <3>1, <3>3
        <4>2. i+1 = k+1
          BY <3>1, <4>1 DEF Custody
        <4> QED
          BY <2>2, <4>2
      <3> QED
        BY <2>3, <3>1, <3>2, <3>3
    <2>8. \A v \in Workers : run'[v] \in Jobs => state'[run'[v]] # "none"
      <3>1. 1 \in 1..Len(queue)
        BY <2>2
      <3>2. state[queue[1]] # "none"
        BY <3>1 DEF Custody
      <3> QED
        BY <2>1, <2>3, <3>2 DEF Custody
    <2>9. \A u, v \in Workers : run'[v] \in Jobs /\ run'[u] = run'[v] => u = v
      <3>1. 1 \in 1..Len(queue)
        BY <2>2
      <3>2. \A v \in Workers : run[v] # queue[1]
        BY <3>1 DEF Custody
      <3> QED
        BY <2>3, <3>2 DEF Custody
    <2> QED
      BY <2>1, <2>6, <2>7, <2>8, <2>9 DEF Custody
  <1>16. ASSUME NEW w \in Workers, TryStart(w) PROVE Custody'
    <2>1. pc[w] = "start" /\ op[w] = "none" /\ run[w] \in Jobs
      BY <1>16 DEF TryStart, Control, WorkerCtl, Deciding
    <2>2. UNCHANGED <<queue, counters, op, tgt>>
      BY <1>16 DEF TryStart
    <2>3. CASE state[run[w]] = "queued" /\ state' = [state EXCEPT ![run[w]] = "running"] /\ Goto(w, "count") /\ run' = run
      <3>1. \A i \in Jobs : state'[i] = IF i = run[w] THEN "running" ELSE state[i]
        BY <2>1, <2>3 DEF TypeOK
      <3>2. \A v \in Workers : Started(v)' => v = w \/ Started(v)
        BY <2>2, <2>3, <1>d, GotoMoves DEF Started
      <3>3. \A v \in Workers : Started(v) => run[v] \in Jobs
        BY DEF Control, WorkerCtl, Started, Deciding
      <3>4. \A v \in Workers : Started(v)' => state'[run'[v]] = "running"
        BY <2>1, <2>3, <3>1, <3>2, <3>3 DEF Custody
      <3>5. \A i \in 1..Len(queue) : queue[i] \in Jobs
        BY DEF TypeOK
      <3>6. \A i \in Jobs : state'[i] = "none" <=> state[i] = "none"
        BY <2>3, <3>1
      <3> QED
        BY <2>2, <2>3, <3>4, <3>5, <3>6 DEF Custody
    <2>4. CASE state' = state /\ run' = [run EXCEPT ![w] = 0] /\ Goto(w, "loop")
      <3>1. \A v \in Workers : run'[v] = IF v = w THEN 0 ELSE run[v]
        BY <2>4 DEF TypeOK
      <3>2. \A v \in Workers : Started(v)' => v # w /\ Started(v)
        BY <2>1, <2>2, <2>4, <1>d, GotoMoves DEF Started
      <3>3. 0 \notin Jobs /\ \A i \in 1..Len(queue) : queue[i] \in Jobs
        <4>1. 0 \notin Jobs
          BY DEF Jobs
        <4> QED
          BY <4>1 DEF TypeOK
      <3>4. \A v \in Workers : Started(v)' => state'[run'[v]] = "running"
        BY <2>4, <3>1, <3>2 DEF Custody
      <3>5. \A i \in 1..Len(queue) : \A v \in Workers : run'[v] # queue[i]
        BY <3>1, <3>3 DEF Custody
      <3>6. \A v \in Workers : run'[v] \in Jobs => state[run'[v]] # "none" /\ \A u \in Workers : run'[u] = run'[v] => u = v
        BY <3>1, <3>3 DEF Custody
      <3> QED
        BY <2>2, <2>4, <3>4, <3>5, <3>6 DEF Custody
    <2> QED
      BY <1>16, <2>3, <2>4 DEF TryStart
  <1>17. ASSUME NEW w \in Workers, CountRunning(w) PROVE Custody'
    <2>1. OnlyMoved(w) /\ Started(w)
      BY <1>17, <1>d, GotoMoves DEF CountRunning, OnlyMoved, Started
    <2>2. counters'["submitted"] = counters["submitted"]
      BY <1>17 DEF CountRunning, TypeOK, CounterNames
    <2>3. \A v \in Workers : Started(v)' => Started(v)
      BY <2>1, <1>d, StartedFrame
    <2> QED
      BY <1>17, <2>2, <2>3, CustodyFrame DEF CountRunning
  <1>18. ASSUME NEW w \in Workers, RunCheck(w) PROVE Custody'
    <2>1. Started(w) /\ UNCHANGED <<state, queue, run, counters>>
      BY <1>18 DEF RunCheck, Started
    <2>2. \/ \E r : Publish(w, "run", run[w], r)
          \/ Goto(w, "task") /\ UNCHANGED <<op, tgt>>
      BY <1>18 DEF RunCheck
    <2>3. OnlyMoved(w)
      BY <2>1, <2>2, <1>d, GotoMoves, PublishMoves DEF OnlyMoved
    <2>4. \A v \in Workers : Started(v)' => Started(v)
      BY <2>1, <2>3, <1>d, StartedFrame
    <2> QED
      BY <2>1, <2>4, CustodyFrame
  <1>19. ASSUME NEW w \in Workers, TaskReturns(w) PROVE Custody'
    <2>1. Started(w) /\ UNCHANGED <<state, queue, run, counters>>
      BY <1>19 DEF TaskReturns, Started
    <2>2. \/ \E r : Publish(w, "run", run[w], r)
          \/ Goto(w, "task") /\ UNCHANGED <<op, tgt>>
      BY <1>19 DEF TaskReturns
    <2>3. OnlyMoved(w)
      BY <2>1, <2>2, <1>d, GotoMoves, PublishMoves DEF OnlyMoved
    <2>4. \A v \in Workers : Started(v)' => Started(v)
      BY <2>1, <2>3, <1>d, StartedFrame
    <2> QED
      BY <2>1, <2>4, CustodyFrame
  <1>20. ASSUME NEW t \in Threads, CancelDequeue(t) PROVE Custody'
    <2>1. Publish(t, op[t], tgt[t], "cancelled") /\ UNCHANGED <<state, run, counters>> /\ pc[t] = "dequeue"
      BY <1>20 DEF CancelDequeue
    <2>2. OnlyMoved(t) /\ op'[t] = op[t] /\ pc'[t] = "set"
      BY <2>1, PublishMoves
    <2>3. t \in Workers => (Started(t)' => Started(t))
      BY <2>1, <2>2 DEF Started, Control, WorkerCtl, Deciding
    <2>4. \A v \in Workers : Started(v)' => Started(v)
      BY <2>2, <2>3, StartedFrame
    <2>5. CASE queue' = queue
      BY <2>1, <2>4, <2>5, CustodyFrame
    <2>6. CASE \E i \in 1..Len(queue) : queue' = Without(queue, i)
      <3>1. PICK p \in 1..Len(queue) : queue' = Without(queue, p)
        BY <2>6
      <3>2. /\ queue' \in Seq(Jobs) /\ Len(queue') = Len(queue) - 1 /\ Len(queue) \in Nat
            /\ \A k \in 1..(Len(queue) - 1) : queue'[k] = IF k < p THEN queue[k] ELSE queue[k+1]
        <4>1. queue \in Seq(Jobs) /\ Len(queue) \in Nat
          BY DEF TypeOK
        <4> QED
          BY <3>1, <4>1, WithoutType
      <3> DEFINE f == [k \in 1..Len(queue') |-> IF k < p THEN k ELSE k + 1]
      <3>3. f \in [1..Len(queue') -> 1..Len(queue)]
        BY <3>2
      <3>4. \A i, k \in 1..Len(queue') : f[i] = f[k] => i = k
        BY <3>1, <3>2
      <3>5. \A i \in 1..Len(queue') : queue'[i] = queue[f[i]]
        BY <3>1, <3>2
      <3> HIDE DEF f
      <3> QED
        BY <2>1, <2>4, <3>2, <3>3, <3>4, <3>5, CustodyShrink
    <2> QED
      BY <1>20, <2>5, <2>6 DEF CancelDequeue
  <1>21. ASSUME NEW t \in Threads, ExpireNext(t) PROVE Custody'
    <2>1. PICK j \in todo[t] : Publish(t, "sweep", j, "timeout")
      BY <1>21 DEF ExpireNext
    <2>2. UNCHANGED <<state, queue, run, counters>>
      BY <1>21 DEF ExpireNext
    <2>3. OnlyMoved(t) /\ op'[t] = "sweep" /\ pc'[t] = "set"
      BY <2>1, <2>2, PublishMoves
    <2>4. \A v \in Workers : Started(v)' => Started(v)
      BY <2>3, StartedFrame DEF Started
    <2> QED
      BY <2>2, <2>4, CustodyFrame
  <1>22. ASSUME NEW t \in Threads, ExpireDone(t) PROVE Custody'
    <2>1. OnlyMoved(t) /\ pc[t] = "expire" /\ pc'[t] \in {"loop", "admit"} /\ op'[t] = "none"
      BY <1>22, GotoMoves DEF ExpireDone, OnlyMoved, TypeOK
    <2>2. t \in Workers => (Started(t)' => Started(t))
      BY <2>1 DEF Started, Control, WorkerCtl, Deciding
    <2>3. \A v \in Workers : Started(v)' => Started(v)
      BY <2>1, <2>2, StartedFrame
    <2> QED
      BY <1>22, <2>3, CustodyFrame DEF ExpireDone
  <1>23. ASSUME NEW t \in Threads, ReleaseSlot(t) PROVE Custody'
    <2>1. OnlyMoved(t) /\ pc[t] = "release" /\ pc'[t] = "observe" /\ op' = op
      BY <1>23, GotoMoves DEF ReleaseSlot, OnlyMoved, TypeOK
    <2>2. t \in Workers => (Started(t)' => Started(t))
      BY <2>1 DEF Started, Control, WorkerCtl, Deciding
    <2>3. \A v \in Workers : Started(v)' => Started(v)
      BY <2>1, <2>2, StartedFrame
    <2> QED
      BY <1>23, <2>3, CustodyFrame DEF ReleaseSlot
  <1>24. ASSUME NEW t \in Threads, CallShutdown(t) PROVE Custody'
    <2>1. OnlyMoved(t) /\ pc'[t] = "begin" /\ (t \in Workers /\ t \notin Clients => pc[t] = "task")
      BY <1>24, GotoMoves DEF CallShutdown, OnlyMoved, TypeOK
    <2>2. t \in Workers => (Started(t)' => Started(t))
      BY <2>1, <1>d DEF Started
    <2>3. \A v \in Workers : Started(v)' => Started(v)
      BY <2>1, <2>2, StartedFrame
    <2> QED
      BY <1>24, <2>3, CustodyFrame DEF CallShutdown
  <1>25. ASSUME NEW t \in Threads, DrainNext(t) PROVE Custody'
    <2>1. OnlyMoved(t) /\ pc[t] = "drain" /\ pc'[t] = "dequeue" /\ op' = op
      BY <1>25, GotoMoves DEF DrainNext, OnlyMoved, TypeOK
    <2>2. t \in Workers => (Started(t)' => Started(t))
      BY <2>1 DEF Started, Control, WorkerCtl, Deciding
    <2>3. \A v \in Workers : Started(v)' => Started(v)
      BY <2>1, <2>2, StartedFrame
    <2> QED
      BY <1>25, <2>3, CustodyFrame DEF DrainNext
  <1>26. ASSUME NEW t \in Threads, RecordTerminal(t) PROVE Custody'
    <2>1. OnlyMoved(t) /\ pc[t] = "record" /\ pc'[t] = "release" /\ op' = op
      BY <1>26, GotoMoves DEF RecordTerminal, OnlyMoved, TypeOK
    <2>2. t \in Workers => (Started(t)' => Started(t))
      BY <2>1 DEF Started, Control, WorkerCtl, Deciding
    <2>3. \A v \in Workers : Started(v)' => Started(v)
      BY <2>1, <2>2, StartedFrame
    <2>4. Tally(op[t] = "run", TerminalOf(res[t])) /\ TerminalOf(res[t]) # "submitted"
      BY <1>26 DEF RecordTerminal, TerminalOf
    <2>5. counters'["submitted"] = counters["submitted"]
      BY <2>4 DEF Tally, CounterNames
    <2> QED
      BY <1>26, <2>3, <2>5, CustodyFrame DEF RecordTerminal
  <1>27. ASSUME NEW t \in Threads, PublishSet(t) PROVE Custody'
    <2>1. pc[t] = "set" /\ pc[t] \in Deciding /\ UNCHANGED <<state, queue, counters>>
      BY <1>27 DEF PublishSet, Deciding
    <2>2. CASE Return(t)
      BY <2>1, <2>2, CustodyReturn
    <2>3. CASE Goto(t, "cas") /\ UNCHANGED <<op, tgt, run>>
      <3>1. OnlyMoved(t) /\ pc'[t] = "cas"
        BY <2>3, GotoMoves DEF OnlyMoved
      <3>2. \A v \in Workers : Started(v)' => Started(v)
        BY <2>1, <2>3, <3>1, StartedFrame DEF Started
      <3> QED
        BY <2>1, <2>3, <3>2, CustodyFrame
    <2> QED
      BY <1>27, <2>2, <2>3 DEF PublishSet
  <1>28. ASSUME NEW t \in Threads, PublishCas(t) PROVE Custody'
    <2>1. pc[t] = "cas" /\ pc[t] \in Deciding /\ UNCHANGED <<queue, counters>> /\ tgt[t] \in Jobs
      BY <1>28, TargetOfControl DEF PublishCas, Deciding
    <2>2. CASE Return(t) /\ state' = state
      BY <2>1, <2>2, CustodyReturn
    <2>3. CASE /\ state[tgt[t]] = From(t) /\ state' = [state EXCEPT ![tgt[t]] = TerminalOf(res[t])]
               /\ Goto(t, "record") /\ UNCHANGED <<op, tgt, run>>
      <3>1. OnlyMoved(t) /\ pc'[t] = "record"
        BY <2>3, GotoMoves DEF OnlyMoved
      <3>2. \A i \in Jobs : state'[i] = IF i = tgt[t] THEN TerminalOf(res[t]) ELSE state[i]
        BY <2>1, <2>3 DEF TypeOK
      <3>3. \A i \in Jobs : state'[i] = "none" <=> state[i] = "none"
        BY <2>3, <3>2 DEF From, TerminalOf
      <3>4. ASSUME NEW v \in Workers, Started(v)' PROVE state'[run'[v]] = "running"
        <4>1. Started(v) /\ run[v] \in Jobs /\ run'[v] = run[v]
          BY <2>1, <2>3, <3>1, <3>4
             DEF OnlyMoved, Started, Threads, Control, WorkerCtl, Deciding
        <4>2. state[run[v]] = "running"
          BY <4>1 DEF Custody
        <4>3. run[v] # tgt[t]
          <5>1. CASE op[t] # "run"
            BY <2>3, <4>2, <5>1 DEF From
          <5>2. CASE op[t] = "run"
            <6>1. t \in Workers /\ tgt[t] = run[t] /\ run[t] \in Jobs
              BY <5>2 DEF Control, WorkerCtl, ClientCtl, Threads
            <6>2. v # t
              BY <2>1, <2>3, <3>1, <3>4, <5>2 DEF Started
            <6> QED
              BY <6>1, <6>2 DEF Custody
          <5> QED
            BY <5>1, <5>2
        <4> QED
          BY <3>2, <4>1, <4>2, <4>3
      <3>5. \A i \in 1..Len(queue) : queue[i] \in Jobs
        BY DEF TypeOK
      <3>6. queue' = queue /\ run' = run /\ counters' = counters
        BY <2>1, <2>3
      <3>7. \A j \in Jobs : state'[j] = "none" <=> j > counters'["submitted"]
        BY <3>3, <3>6 DEF Custody
      <3>8. \A i \in 1..Len(queue') :
              /\ state'[queue'[i]] # "none"
              /\ \A w \in Workers : run'[w] # queue'[i]
              /\ \A k \in 1..Len(queue') : queue'[i] = queue'[k] => i = k
        BY <3>3, <3>5, <3>6 DEF Custody
      <3>9. \A w \in Workers : run'[w] \in Jobs =>
              /\ state'[run'[w]] # "none"
              /\ \A v \in Workers : run'[v] = run'[w] => v = w
        BY <3>3, <3>6 DEF Custody
      <3>10. \A w \in Workers : Started(w)' => state'[run'[w]] = "running"
        BY <3>4
      <3> QED
        BY <3>7, <3>8, <3>9, <3>10 DEF Custody
    <2> QED
      BY <1>28, <2>2, <2>3 DEF PublishCas
  <1>29. ASSUME NEW t \in Threads, Observe(t) PROVE Custody'
    <2>1. pc[t] = "observe" /\ pc[t] \in Deciding /\ UNCHANGED <<state, queue, counters>>
      BY <1>29 DEF Observe, Deciding
    <2>2. CASE Return(t)
      BY <2>1, <2>2, CustodyReturn
    <2>3. CASE Goto(t, "discard") /\ UNCHANGED <<op, tgt, run>>
      <3>1. OnlyMoved(t) /\ pc'[t] = "discard"
        BY <2>3, GotoMoves DEF OnlyMoved
      <3>2. \A v \in Workers : Started(v)' => Started(v)
        BY <2>1, <2>3, <3>1, StartedFrame DEF Started
      <3> QED
        BY <2>1, <2>3, <3>2, CustodyFrame
    <2> QED
      BY <1>29, <2>2, <2>3 DEF Observe
  <1>30. ASSUME NEW t \in Threads, Discard(t) PROVE Custody'
    <2>1. pc[t] \in Deciding /\ Return(t) /\ UNCHANGED <<state, queue, counters>>
      BY <1>30 DEF Discard, Deciding
    <2> QED
      BY <2>1, CustodyReturn
  <1>31. ASSUME NEW t \in Threads, BeginShutdown(t) PROVE Custody'
    <2>1. OnlyMoved(t) /\ pc[t] = "begin" /\ pc'[t] = "wakeall" /\ op' = op
      BY <1>31, GotoMoves DEF BeginShutdown, OnlyMoved
    <2>2. t \in Workers => (Started(t)' => Started(t))
      BY <2>1 DEF Started
    <2>3. \A v \in Workers : Started(v)' => Started(v)
      BY <2>1, <2>2, StartedFrame
    <2>4. queue' = <<>> /\ UNCHANGED <<state, run, counters>>
      BY <1>31 DEF BeginShutdown
    <2>5. \A i \in 1..Len(queue') : FALSE
      BY <2>4
    <2>6. \A v \in Workers : Started(v)' => state'[run'[v]] = "running"
      BY <2>3, <2>4 DEF Custody
    <2> QED
      BY <2>4, <2>5, <2>6 DEF Custody
  <1>32. ASSUME NEW t \in Threads, WakeAll(t) PROVE Custody'
    <2>1. op' = op /\ pc[t] = "wakeall" /\ pc'[t] = "drain"
          /\ \A u \in Threads \ {t} : pc'[u] = pc[u] \/ pc'[u] = "loop"
      BY <1>32 DEF WakeAll
    <2>2. \A v \in Workers : Started(v)' => Started(v)
      <3>1. ASSUME NEW v \in Workers, pc[v] = "wait" PROVE op[v] = "none"
        BY <3>1 DEF Control, WorkerCtl, Deciding
      <3> QED
        BY <1>32, <2>1, <3>1, <1>d
           DEF Started, WakeAll, Waiting, Control, WorkerCtl, Deciding
    <2> QED
      BY <1>32, <2>2, CustodyFrame DEF WakeAll
  <1>33. ASSUME NEW t \in Threads, DrainDone(t) PROVE Custody'
    <2>1. /\ pc[t] = "drain" /\ op'[t] = "none" /\ (pc'[t] = "task" => op[t] # "shutdown" /\ t \in Workers)
          /\ pc'[t] \in {"task", "idle", "await"}
          /\ \A u \in Threads \ {t} : op'[u] = op[u] /\ (pc'[u] = pc[u] \/ pc'[u] = "await")
      BY <1>33 DEF DrainDone, TypeOK
    <2>2. \A v \in Workers : Started(v)' => Started(v)
      BY <2>1, <1>d DEF Started, Control, WorkerCtl, Deciding
    <2> QED
      BY <1>33, <2>2, CustodyFrame DEF DrainDone
  <1>34. ASSUME NEW j \in Jobs, TakeOutput(j) \/ Deadline(j) PROVE Custody'
    BY <1>34, CustodyFrame DEF TakeOutput, Deadline, Started
  <1>35. CASE UNCHANGED vars
    BY <1>35, CustodyFrame DEF Started
  <1> QED
    BY <1>1, <1>2, <1>3, <1>4, <1>5, <1>6, <1>7, <1>8, <1>9, <1>10, <1>11, <1>12,
       <1>13, <1>14, <1>15, <1>16, <1>17, <1>18, <1>19, <1>20, <1>21, <1>22, <1>23,
       <1>24, <1>25, <1>26, <1>27, <1>28, <1>29, <1>30, <1>31, <1>32, <1>33, <1>34,
       <1>35
       DEF Next, ClientStep, WorkerStep, ThreadStep
=============================================================================
