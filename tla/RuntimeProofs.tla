--------------------------- MODULE RuntimeProofs ----------------------------
(***************************************************************************)
(* Type correctness of Runtime for every number of workers, clients, owners*)
(* and jobs and for every configuration. The running counter counts the    *)
(* workers between its increment and its decrement, so it is positive      *)
(* whenever it is decremented.                                             *)
(***************************************************************************)
EXTENDS RuntimeCustody

\* The variables of the module, in one place.
USE DEF jobVars, queueVars, threadVars, shutdownVars, history, vars

Counting(w) ==
  \/ pc[w] \in {"check", "task"}
  \/ op[w] = "request"
  \/ op[w] = "run" /\ pc[w] \in {"set", "cas", "record"}

CountingWorkers == {w \in Workers : Counting(w)}

RunCount == counters["running"] = Cardinality(CountingWorkers)

\* The workers are finitely many, so the counting ones have a cardinality.
LEMMA CountingFinite ==
  /\ IsFiniteSet(CountingWorkers) /\ Cardinality(CountingWorkers) \in Nat
  /\ IsFiniteSet(CountingWorkers') /\ Cardinality(CountingWorkers') \in Nat
  <1>1. CountingWorkers \subseteq Workers /\ CountingWorkers' \subseteq Workers
    BY DEF CountingWorkers
  <1> QED
    BY <1>1, RuntimeAssumption, FS_Subset, FS_CardinalityType

\* record_terminal decrements running only where it is positive.
LEMMA RunPositiveHolds ==
  ASSUME TypeOK, Control, RunCount
  PROVE  RunPositive
  <1> SUFFICES ASSUME NEW t \in Threads, pc[t] = "record", op[t] = "run"
               PROVE  counters["running"] > 0
    BY DEF RunPositive
  <1>1. t \in CountingWorkers
    BY DEF CountingWorkers, Counting, Control, ClientCtl, Threads, Deciding
  <1>2. Cardinality(CountingWorkers) # 0
    BY <1>1, CountingFinite, FS_EmptySet
  <1> QED
    BY <1>2, CountingFinite DEF RunCount

\* A step of one thread that neither starts nor stops counting, and leaves the
\* counter alone.
LEMMA CountingFrame ==
  ASSUME RunCount, NEW t \in Threads, OnlyMoved(t), counters'["running"] = counters["running"],
         t \in Workers => (Counting(t)' <=> Counting(t))
  PROVE  RunCount'
  <1>1. CountingWorkers' = CountingWorkers
    BY DEF CountingWorkers, Counting, OnlyMoved, Threads
  <1> QED
    BY <1>1 DEF RunCount

\* A publication that is over, or lost by a thread that does not run the job,
\* changes no count.
LEMMA CountingReturn ==
  ASSUME TypeOK, Control, RunCount, NEW t \in Threads, Return(t), pc[t] \in Deciding,
         ~(op[t] = "run" /\ pc[t] \in {"set", "cas", "record"}), counters' = counters
  PROVE  RunCount'
  <1>1. /\ pc'[t] = Resume(t)
        /\ op'[t] = IF op[t] \in {"cancel", "run"} THEN "none" ELSE op[t]
        /\ OnlyMoved(t)
    BY ReturnMoves
  <1>2. t \in Workers => (Counting(t)' <=> Counting(t))
    BY <1>1 DEF Control, WorkerCtl, Counting, Deciding, Resume
  <1> QED
    BY <1>1, <1>2, CountingFrame

\* A step that moves several threads but no counting worker.
LEMMA CountingSame ==
  ASSUME RunCount, counters'["running"] = counters["running"],
         \A w \in Workers : Counting(w)' <=> Counting(w)
  PROVE  RunCount'
  <1>1. CountingWorkers' = CountingWorkers
    BY DEF CountingWorkers
  <1> QED
    BY <1>1 DEF RunCount

\* try_start increments running and record_terminal decrements it, once for
\* every worker in between.
LEMMA RunCountStep ==
  ASSUME TypeOK, Control, Custody, RunCount, [Next]_vars
  PROVE  RunCount'
  <1>d. Workers \subseteq Threads /\ Clients \subseteq Threads /\ Workers \cap Clients = {}
    BY RuntimeAssumption DEF Threads
  <1>1. ASSUME NEW c \in Clients, SubmitSweep(c) PROVE RunCount'
    <2>1. OnlyMoved(c) /\ c \notin Workers
      BY <1>1, <1>d, GotoMoves DEF SubmitSweep, OnlyMoved, TypeOK
    <2>2. counters'["running"] = counters["running"]
      BY <1>1 DEF SubmitSweep, TypeOK, CounterNames
    <2> QED
      BY <1>d, <2>1, <2>2, CountingFrame
  <1>2. ASSUME NEW c \in Clients, NEW o \in Owners, SubmitReject(c, o) PROVE RunCount'
    <2>1. OnlyMoved(c) /\ c \notin Workers
      BY <1>2, <1>d, GotoMoves DEF SubmitReject, OnlyMoved, TypeOK
    <2>2. counters'["running"] = counters["running"]
      BY <1>2 DEF SubmitReject, TypeOK, CounterNames
    <2> QED
      BY <1>d, <2>1, <2>2, CountingFrame
  <1>3. ASSUME NEW c \in Clients, NEW o \in Owners, SubmitAdmit(c, o) PROVE RunCount'
    <2>1. OnlyMoved(c) /\ c \notin Workers
      BY <1>3, <1>d, GotoMoves DEF SubmitAdmit, OnlyMoved, TypeOK
    <2>2. counters'["running"] = counters["running"]
      BY <1>3 DEF SubmitAdmit, TypeOK, CounterNames
    <2> QED
      BY <1>d, <2>1, <2>2, CountingFrame
  <1>4. ASSUME NEW c \in Clients, NEW j \in Jobs, Cancel(c, j) PROVE RunCount'
    <2>1. OnlyMoved(c) /\ c \notin Workers
      BY <1>4, <1>d, GotoMoves DEF Cancel, OnlyMoved, TypeOK
    <2>2. counters'["running"] = counters["running"]
      BY <1>4 DEF Cancel, TypeOK, CounterNames
    <2> QED
      BY <1>d, <2>1, <2>2, CountingFrame
  <1>5. ASSUME NEW c \in Clients, JoinShutdown(c) PROVE RunCount'
    <2>1. OnlyMoved(c) /\ c \notin Workers
      BY <1>5, <1>d, GotoMoves DEF JoinShutdown, OnlyMoved, TypeOK
    <2>2. counters'["running"] = counters["running"]
      BY <1>5 DEF JoinShutdown, TypeOK, CounterNames
    <2> QED
      BY <1>d, <2>1, <2>2, CountingFrame
  <1>6. ASSUME NEW c \in Clients, AwaitShutdown(c) PROVE RunCount'
    <2>1. OnlyMoved(c) /\ c \notin Workers
      BY <1>6, <1>d, GotoMoves DEF AwaitShutdown, OnlyMoved, TypeOK
    <2>2. counters'["running"] = counters["running"]
      BY <1>6 DEF AwaitShutdown, TypeOK, CounterNames
    <2> QED
      BY <1>d, <2>1, <2>2, CountingFrame
  <1>7. ASSUME NEW c \in Clients, JoinPass(c) PROVE RunCount'
    <2>1. OnlyMoved(c) /\ c \notin Workers
      BY <1>7, <1>d, GotoMoves DEF JoinPass, OnlyMoved, TypeOK
    <2>2. counters'["running"] = counters["running"]
      BY <1>7 DEF JoinPass, TypeOK, CounterNames
    <2> QED
      BY <1>d, <2>1, <2>2, CountingFrame
  <1>8. ASSUME NEW c \in Clients, JoinAgain(c) PROVE RunCount'
    <2>1. OnlyMoved(c) /\ c \notin Workers
      BY <1>8, <1>d, GotoMoves DEF JoinAgain, OnlyMoved, TypeOK
    <2>2. counters'["running"] = counters["running"]
      BY <1>8 DEF JoinAgain, TypeOK, CounterNames
    <2> QED
      BY <1>d, <2>1, <2>2, CountingFrame
  <1>9. ASSUME NEW c \in Clients, JoinTimeout(c) PROVE RunCount'
    <2>1. OnlyMoved(c) /\ c \notin Workers
      BY <1>9, <1>d, GotoMoves DEF JoinTimeout, OnlyMoved, TypeOK
    <2>2. counters'["running"] = counters["running"]
      BY <1>9 DEF JoinTimeout, TypeOK, CounterNames
    <2> QED
      BY <1>d, <2>1, <2>2, CountingFrame
  <1>10. ASSUME NEW c \in Clients, SubmitNotify(c) PROVE RunCount'
    <2>1. \A w \in Workers : pc'[w] = pc[w] \/ (pc[w] = "wait" /\ pc'[w] = "loop")
      <3>1. CASE Goto(c, "idle")
        BY <1>d, <3>1, GotoMoves
      <3>2. CASE \E w \in Waiting : pc' = [pc EXCEPT ![c] = "idle", ![w] = "loop"]
        BY <1>d, <3>2 DEF Waiting, TypeOK
      <3> QED
        BY <1>10, <3>1, <3>2 DEF SubmitNotify
    <2>2. op' = op /\ counters' = counters
      BY <1>10 DEF SubmitNotify
    <2> QED
      BY <2>1, <2>2, CountingSame DEF Counting, Control, WorkerCtl, Deciding
  <1>11. ASSUME NEW c \in Clients, CompleteShutdown(c) PROVE RunCount'
    <2>1. \A w \in Workers : pc'[w] = pc[w] \/ pc[w] = "parked"
      BY <1>11, <1>d DEF CompleteShutdown, TypeOK
    <2>2. op' = op /\ counters' = counters
      BY <1>11 DEF CompleteShutdown
    <2> QED
      BY <2>1, <2>2, CountingSame DEF Counting, Control, WorkerCtl, Deciding
  <1>12. ASSUME NEW w \in Workers, WorkerSweep(w) PROVE RunCount'
    <2>m. /\ Goto(w, "expire") /\ op' = [op EXCEPT ![w] = "sweep"] /\ UNCHANGED <<tgt, run>>
          /\ pc[w] = "loop"
      BY <1>12 DEF WorkerSweep
    <2>o. op'[w] = "sweep" /\ \A u \in Threads \ {w} : op'[u] = op[u]
      BY <1>d, <2>m DEF TypeOK
    <2>1. OnlyMoved(w) /\ pc[w] = "loop" /\ pc'[w] = "expire" /\ op'[w] = "sweep"
      BY <1>d, <2>m, <2>o, GotoMoves DEF OnlyMoved
    <2>2. w \in Workers => (Counting(w)' <=> Counting(w))
      BY <1>d, <2>1 DEF Counting, Control, WorkerCtl, Deciding
    <2>3. counters' = counters
      BY <1>12 DEF WorkerSweep
    <2> QED
      BY <1>d, <2>1, <2>2, <2>3, CountingFrame
  <1>13. ASSUME NEW w \in Workers, WorkerPop(w) PROVE RunCount'
    <2>1. OnlyMoved(w) /\ pc[w] = "loop" /\ pc'[w] = "start" /\ op' = op
      <3>1. /\ pc[w] = "loop" /\ Goto(w, "start") /\ UNCHANGED <<op, tgt>>
            /\ run' = [run EXCEPT ![w] = Head(queue)]
        BY <1>13 DEF WorkerPop
      <3>2. \A v \in Workers \ {w} : run'[v] = run[v]
        BY <3>1 DEF TypeOK
      <3> QED
        BY <1>d, <3>1, <3>2, GotoMoves DEF OnlyMoved
    <2>2. w \in Workers => (Counting(w)' <=> Counting(w))
      BY <1>d, <2>1 DEF Counting, Control, WorkerCtl, Deciding
    <2>3. counters' = counters
      BY <1>13 DEF WorkerPop
    <2> QED
      BY <1>d, <2>1, <2>2, <2>3, CountingFrame
  <1>14. ASSUME NEW w \in Workers, WorkerIdle(w) PROVE RunCount'
    <2>1. OnlyMoved(w) /\ pc[w] = "loop" /\ pc'[w] \in {"exit", "wait"} /\ op' = op
      BY <1>14, <1>d, GotoMoves DEF WorkerIdle, OnlyMoved
    <2>2. w \in Workers => (Counting(w)' <=> Counting(w))
      BY <1>d, <2>1 DEF Counting, Control, WorkerCtl, Deciding
    <2>3. counters' = counters
      BY <1>14 DEF WorkerIdle
    <2> QED
      BY <1>d, <2>1, <2>2, <2>3, CountingFrame
  <1>15. ASSUME NEW w \in Workers, SpuriousWake(w) PROVE RunCount'
    <2>1. OnlyMoved(w) /\ pc[w] = "wait" /\ pc'[w] = "loop" /\ op' = op
      BY <1>15, <1>d, GotoMoves DEF SpuriousWake, OnlyMoved
    <2>2. w \in Workers => (Counting(w)' <=> Counting(w))
      BY <1>d, <2>1 DEF Counting, Control, WorkerCtl, Deciding
    <2>3. counters' = counters
      BY <1>15 DEF SpuriousWake
    <2> QED
      BY <1>d, <2>1, <2>2, <2>3, CountingFrame
  <1>16. ASSUME NEW w \in Workers, TryStart(w) PROVE RunCount'
    <2>1. OnlyMoved(w) /\ pc[w] = "start" /\ pc'[w] \in {"count", "loop"} /\ op' = op
      BY <1>16, <1>d, GotoMoves DEF TryStart, OnlyMoved, TypeOK
    <2>2. w \in Workers => (Counting(w)' <=> Counting(w))
      BY <1>d, <2>1 DEF Counting, Control, WorkerCtl, Deciding
    <2>3. counters' = counters
      BY <1>16 DEF TryStart
    <2> QED
      BY <1>d, <2>1, <2>2, <2>3, CountingFrame
  <1>17. ASSUME NEW w \in Workers, RunCheck(w) PROVE RunCount'
    <2>1. OnlyMoved(w) /\ pc[w] = "check" /\ (pc'[w] = "task" \/ (pc'[w] = "set" /\ op'[w] = "run"))
      <3>1. /\ pc[w] = "check" /\ run' = run
            /\ \/ \E r : Publish(w, "run", run[w], r)
               \/ Goto(w, "task") /\ UNCHANGED <<op, tgt>>
        BY <1>17 DEF RunCheck
      <3>2. CASE \E r : Publish(w, "run", run[w], r)
        BY <1>d, <3>1, <3>2, PublishMoves
      <3>3. CASE Goto(w, "task") /\ UNCHANGED <<op, tgt>>
        BY <1>d, <3>1, <3>3, GotoMoves DEF OnlyMoved
      <3> QED
        BY <3>1, <3>2, <3>3
    <2>2. w \in Workers => (Counting(w)' <=> Counting(w))
      BY <1>d, <2>1 DEF Counting, Control, WorkerCtl, Deciding
    <2>3. counters' = counters
      BY <1>17 DEF RunCheck
    <2> QED
      BY <1>d, <2>1, <2>2, <2>3, CountingFrame
  <1>18. ASSUME NEW w \in Workers, TaskReturns(w) PROVE RunCount'
    <2>1. OnlyMoved(w) /\ pc[w] = "task" /\ pc'[w] = "set" /\ op'[w] = "run"
      BY <1>18, <1>d, GotoMoves, PublishMoves DEF TaskReturns, OnlyMoved, TypeOK
    <2>2. w \in Workers => (Counting(w)' <=> Counting(w))
      BY <1>d, <2>1 DEF Counting, Control, WorkerCtl, Deciding
    <2>3. counters' = counters
      BY <1>18 DEF TaskReturns
    <2> QED
      BY <1>d, <2>1, <2>2, <2>3, CountingFrame
  <1>19. ASSUME NEW w \in Workers, CountRunning(w) PROVE RunCount'
    <2>1. OnlyMoved(w) /\ pc[w] = "count" /\ pc'[w] = "check" /\ op' = op
      BY <1>19, <1>d, GotoMoves DEF CountRunning, OnlyMoved
    <2>2. counters'["running"] = counters["running"] + 1
      BY <1>19 DEF CountRunning, TypeOK, CounterNames
    <2>3. w \notin CountingWorkers /\ CountingWorkers' = CountingWorkers \cup {w}
      BY <1>d, <2>1
         DEF OnlyMoved, CountingWorkers, Counting, Control, WorkerCtl, Deciding
    <2>4. Cardinality(CountingWorkers') = Cardinality(CountingWorkers) + 1
      BY <2>3, CountingFinite, FS_AddElement
    <2> QED
      BY <2>2, <2>4 DEF RunCount
  <1>20. ASSUME NEW t \in Threads, CancelDequeue(t) PROVE RunCount'
    <2>1. OnlyMoved(t) /\ pc[t] = "dequeue" /\ pc'[t] = "set" /\ op'[t] = op[t]
      BY <1>20, <1>d, GotoMoves, PublishMoves DEF CancelDequeue, OnlyMoved, TypeOK
    <2>2. t \in Workers => (Counting(t)' <=> Counting(t))
      BY <1>d, <2>1 DEF Counting, Control, WorkerCtl, Deciding
    <2>3. counters' = counters
      BY <1>20 DEF CancelDequeue
    <2> QED
      BY <1>d, <2>1, <2>2, <2>3, CountingFrame
  <1>21. ASSUME NEW t \in Threads, ExpireNext(t) PROVE RunCount'
    <2>1. OnlyMoved(t) /\ pc[t] = "expire" /\ pc'[t] = "set" /\ op'[t] = "sweep"
      BY <1>21, <1>d, GotoMoves, PublishMoves DEF ExpireNext, OnlyMoved, TypeOK
    <2>2. t \in Workers => (Counting(t)' <=> Counting(t))
      BY <1>d, <2>1 DEF Counting, Control, WorkerCtl, Deciding
    <2>3. counters' = counters
      BY <1>21 DEF ExpireNext
    <2> QED
      BY <1>d, <2>1, <2>2, <2>3, CountingFrame
  <1>22. ASSUME NEW t \in Threads, ExpireDone(t) PROVE RunCount'
    <2>1. OnlyMoved(t) /\ pc[t] = "expire" /\ pc'[t] \in {"loop", "admit"} /\ op'[t] = "none"
      BY <1>22, <1>d, GotoMoves DEF ExpireDone, OnlyMoved, TypeOK
    <2>2. t \in Workers => (Counting(t)' <=> Counting(t))
      BY <1>d, <2>1 DEF Counting, Control, WorkerCtl, Deciding
    <2>3. counters' = counters
      BY <1>22 DEF ExpireDone
    <2> QED
      BY <1>d, <2>1, <2>2, <2>3, CountingFrame
  <1>23. ASSUME NEW t \in Threads, ReleaseSlot(t) PROVE RunCount'
    <2>1. OnlyMoved(t) /\ pc[t] = "release" /\ pc'[t] = "observe" /\ op'= op
      BY <1>23, <1>d, GotoMoves DEF ReleaseSlot, OnlyMoved
    <2>2. t \in Workers => (Counting(t)' <=> Counting(t))
      BY <1>d, <2>1 DEF Counting, Control, WorkerCtl, Deciding
    <2>3. counters' = counters
      BY <1>23 DEF ReleaseSlot
    <2> QED
      BY <1>d, <2>1, <2>2, <2>3, CountingFrame
  <1>24. ASSUME NEW t \in Threads, BeginShutdown(t) PROVE RunCount'
    <2>1. OnlyMoved(t) /\ pc[t] = "begin" /\ pc'[t] = "wakeall" /\ op'= op
      BY <1>24, <1>d, GotoMoves DEF BeginShutdown, OnlyMoved
    <2>2. t \in Workers => (Counting(t)' <=> Counting(t))
      BY <1>d, <2>1 DEF Counting, Control, WorkerCtl, Deciding
    <2>3. counters' = counters
      BY <1>24 DEF BeginShutdown
    <2> QED
      BY <1>d, <2>1, <2>2, <2>3, CountingFrame
  <1>25. ASSUME NEW t \in Threads, DrainNext(t) PROVE RunCount'
    <2>1. OnlyMoved(t) /\ pc[t] = "drain" /\ pc'[t] = "dequeue" /\ op'= op
      BY <1>25, <1>d, GotoMoves DEF DrainNext, OnlyMoved
    <2>2. t \in Workers => (Counting(t)' <=> Counting(t))
      BY <1>d, <2>1 DEF Counting, Control, WorkerCtl, Deciding
    <2>3. counters' = counters
      BY <1>25 DEF DrainNext
    <2> QED
      BY <1>d, <2>1, <2>2, <2>3, CountingFrame
  <1>26. ASSUME NEW t \in Threads, CallShutdown(t) PROVE RunCount'
    <2>1. OnlyMoved(t) /\ pc'[t] = "begin" /\ (t \in Workers /\ t \notin Clients => pc[t] = "task" /\ op'[t] = "request")
      BY <1>26, <1>d, GotoMoves DEF CallShutdown, OnlyMoved, TypeOK
    <2>2. t \in Workers => (Counting(t)' <=> Counting(t))
      BY <1>d, <2>1 DEF Counting, Control, WorkerCtl, Deciding
    <2>3. counters' = counters
      BY <1>26 DEF CallShutdown
    <2> QED
      BY <1>d, <2>1, <2>2, <2>3, CountingFrame
  <1>27. ASSUME NEW t \in Threads, RecordTerminal(t) PROVE RunCount'
    <2>1. OnlyMoved(t) /\ pc[t] = "record" /\ pc'[t] = "release" /\ op' = op
      BY <1>27, GotoMoves DEF RecordTerminal, OnlyMoved
    <2>2. /\ Tally(op[t] = "run", TerminalOf(res[t])) /\ TerminalOf(res[t]) # "running"
      BY <1>27 DEF RecordTerminal, TerminalOf
    <2>3. counters'["running"] = IF op[t] = "run" THEN counters["running"] - 1 ELSE counters["running"]
      BY <2>2 DEF Tally, CounterNames
    <2>4. CASE op[t] # "run"
      <3>1. t \in Workers => (Counting(t)' <=> Counting(t))
        BY <2>1, <2>4 DEF Counting
      <3> QED
        BY <2>1, <2>3, <2>4, <3>1, CountingFrame
    <2>5. CASE op[t] = "run"
      <3>1. t \in CountingWorkers /\ CountingWorkers' = CountingWorkers \ {t}
        BY <1>d, <2>1, <2>5
           DEF OnlyMoved, CountingWorkers, Counting, Control, ClientCtl, Threads
      <3>2. Cardinality(CountingWorkers') = Cardinality(CountingWorkers) - 1
        BY <3>1, CountingFinite, FS_RemoveElement
      <3> QED
        BY <2>3, <2>5, <3>2 DEF RunCount
    <2> QED
      BY <2>4, <2>5
  <1>28. ASSUME NEW t \in Threads, PublishSet(t) PROVE RunCount'
    <2>1. pc[t] = "set" /\ pc[t] \in Deciding /\ counters' = counters
      BY <1>28 DEF PublishSet, Deciding
    <2>2. ASSUME op[t] = "run" PROVE state[tgt[t]] = From(t)
      <3>1. t \in Workers /\ Started(t) /\ tgt[t] = run[t]
        BY <2>1, <2>2 DEF Control, WorkerCtl, ClientCtl, Threads, Started
      <3> QED
        BY <2>2, <3>1 DEF Custody, From
    <2>3. CASE Return(t) /\ state[tgt[t]] # From(t)
      BY <2>1, <2>2, <2>3, CountingReturn
    <2>4. CASE Goto(t, "cas") /\ UNCHANGED <<op, tgt, run>>
      <3>1. OnlyMoved(t) /\ pc'[t] = "cas"
        BY <2>4, GotoMoves DEF OnlyMoved
      <3>2. t \in Workers => (Counting(t)' <=> Counting(t))
        BY <2>1, <2>4, <3>1 DEF Counting
      <3> QED
        BY <2>1, <3>1, <3>2, CountingFrame
    <2> QED
      BY <1>28, <2>3, <2>4 DEF PublishSet
  <1>29. ASSUME NEW t \in Threads, PublishCas(t) PROVE RunCount'
    <2>1. pc[t] = "cas" /\ pc[t] \in Deciding /\ counters' = counters
      BY <1>29 DEF PublishCas, Deciding
    <2>2. ASSUME op[t] = "run" PROVE state[tgt[t]] = From(t)
      <3>1. t \in Workers /\ Started(t) /\ tgt[t] = run[t]
        BY <2>1, <2>2 DEF Control, WorkerCtl, ClientCtl, Threads, Started
      <3> QED
        BY <2>2, <3>1 DEF Custody, From
    <2>3. CASE Return(t) /\ state[tgt[t]] # From(t)
      BY <2>1, <2>2, <2>3, CountingReturn
    <2>4. CASE Goto(t, "record") /\ UNCHANGED <<op, tgt, run>>
      <3>1. OnlyMoved(t) /\ pc'[t] = "record"
        BY <2>4, GotoMoves DEF OnlyMoved
      <3>2. t \in Workers => (Counting(t)' <=> Counting(t))
        BY <2>1, <2>4, <3>1 DEF Counting
      <3> QED
        BY <2>1, <3>1, <3>2, CountingFrame
    <2> QED
      BY <1>29, <2>3, <2>4 DEF PublishCas
  <1>30. ASSUME NEW t \in Threads, Observe(t) PROVE RunCount'
    <2>1. pc[t] = "observe" /\ pc[t] \in Deciding /\ counters' = counters
      BY <1>30 DEF Observe, Deciding
    <2>2. CASE Return(t)
      BY <2>1, <2>2, CountingReturn
    <2>3. CASE Goto(t, "discard") /\ UNCHANGED <<op, tgt, run>>
      <3>1. OnlyMoved(t) /\ pc'[t] = "discard"
        BY <2>3, GotoMoves DEF OnlyMoved
      <3>2. t \in Workers => (Counting(t)' <=> Counting(t))
        BY <2>1, <2>3, <3>1 DEF Counting
      <3> QED
        BY <2>1, <3>1, <3>2, CountingFrame
    <2> QED
      BY <1>30, <2>2, <2>3 DEF Observe
  <1>31. ASSUME NEW t \in Threads, Discard(t) PROVE RunCount'
    <2>1. pc[t] = "discard" /\ pc[t] \in Deciding /\ Return(t) /\ counters' = counters
      BY <1>31 DEF Discard, Deciding
    <2> QED
      BY <2>1, CountingReturn
  <1>32. ASSUME NEW t \in Threads, WakeAll(t) PROVE RunCount'
    <2>1. /\ op' = op /\ counters' = counters /\ pc[t] = "wakeall" /\ pc'[t] = "drain"
          /\ \A w \in Workers \ {t} : pc'[w] = pc[w] \/ (pc[w] = "wait" /\ pc'[w] = "loop")
      <3>1. /\ op' = op /\ counters' = counters /\ pc[t] = "wakeall"
            /\ pc' = [u \in Threads |-> IF u = t THEN "drain"
                                        ELSE IF u \in Waiting THEN "loop" ELSE pc[u]]
        BY <1>32 DEF WakeAll
      <3>2. pc'[t] = "drain"
        BY <3>1
      <3>3. \A w \in Workers \ {t} : pc'[w] = IF w \in Waiting THEN "loop" ELSE pc[w]
        BY <1>d, <3>1
      <3>4. \A w \in Waiting : pc[w] = "wait"
        BY DEF Waiting
      <3> QED
        BY <3>1, <3>2, <3>3, <3>4
    <2>2. \A w \in Workers : Counting(w)' <=> Counting(w)
      BY <2>1 DEF Counting, Control, WorkerCtl, Deciding
    <2> QED
      BY <2>1, <2>2, CountingSame
  <1>33. ASSUME NEW t \in Threads, DrainDone(t) PROVE RunCount'
    <2>1. /\ counters' = counters /\ pc[t] = "drain" /\ op'[t] = "none"
          /\ pc'[t] = IF op[t] = "shutdown" THEN "await" ELSE IF t \in Workers THEN "task" ELSE "idle"
          /\ \A w \in Workers \ {t} : op'[w] = op[w] /\ (pc'[w] = pc[w] \/ pc[w] = "parked")
      BY <1>33, <1>d DEF DrainDone, TypeOK
    <2>2. \A w \in Workers : Counting(w)' <=> Counting(w)
      BY <2>1 DEF Counting, Control, WorkerCtl, Deciding
    <2> QED
      BY <2>1, <2>2, CountingSame
  <1>34. ASSUME NEW j \in Jobs, TakeOutput(j) \/ Deadline(j) PROVE RunCount'
    BY <1>34, CountingSame DEF TakeOutput, Deadline, Counting
  <1>35. CASE UNCHANGED vars
    BY <1>35, CountingSame DEF Counting
  <1> QED
    BY <1>1, <1>2, <1>3, <1>4, <1>5, <1>6, <1>7, <1>8, <1>9, <1>10, <1>11, <1>12,
       <1>13, <1>14, <1>15, <1>16, <1>17, <1>18, <1>19, <1>20, <1>21, <1>22, <1>23,
       <1>24, <1>25, <1>26, <1>27, <1>28, <1>29, <1>30, <1>31, <1>32, <1>33, <1>34,
       <1>35
       DEF Next, ClientStep, WorkerStep, ThreadStep

-----------------------------------------------------------------------------
(* The joint induction.                                                     *)

\* The inductive invariant behind the type invariant.
Inductive == TypeOK /\ Control /\ Custody /\ RunCount

\* The state start_with_budget leaves satisfies the invariant.
LEMMA InductiveInit == Init => Inductive
  <1> SUFFICES ASSUME Init PROVE Inductive
    OBVIOUS
  <1>1. 0 \in 0..MaxJobs /\ 0 \notin Jobs /\ Workers \cap Clients = {}
    BY RuntimeAssumption DEF Jobs
  <1>2. (CHOOSE o \in Owners : TRUE) \in Owners
    BY RuntimeAssumption
  <1>3. TypeOK
    <2>1. queue \in Seq(Jobs)
      BY DEF Init
    <2>2. /\ pc \in [Threads -> Labels] /\ op \in [Threads -> Ops]
          /\ res \in [Threads -> Results] /\ tgt \in [Threads -> 0..MaxJobs]
      BY <1>1, Members DEF Init
    <2>3. /\ state \in [Jobs -> {"none", "queued", "running"} \cup Terminal]
          /\ owner \in [Jobs -> Owners] /\ owners \in [Owners -> Nat]
          /\ counters \in [CounterNames -> Nat] /\ observed \in [Jobs -> Nat]
      BY <1>2 DEF Init
    <2>4. /\ task \in [Jobs -> {"held", "taken", "dropped"}]
          /\ output \in [Jobs -> {"empty", "taken"} \cup Results]
          /\ todo \in [Threads -> SUBSET Jobs] /\ run \in [Workers -> 0..MaxJobs]
      BY <1>1 DEF Init
    <2>5. /\ locked \subseteq Jobs /\ flagged \subseteq Jobs /\ expired \subseteq Jobs
          /\ active \subseteq Jobs /\ lateCancel \subseteq Jobs /\ handles \subseteq Workers
          /\ phase \in {"not_started", "in_progress", "complete"}
      BY DEF Init
    <2>6. shuttingDown \in BOOLEAN /\ requestComplete \in BOOLEAN /\ joinClaimed \in BOOLEAN
      BY Zenon DEF Init
    <2> QED
      BY <2>1, <2>2, <2>3, <2>4, <2>5, <2>6 DEF TypeOK
  <1>4. Control
    BY <1>1 DEF Init, Control, WorkerCtl, ClientCtl, Threads
  <1>5. \A w \in Workers : ~Started(w) /\ ~Counting(w)
    BY DEF Init, Started, Counting, Threads
  <1>6. Len(queue) = 0 /\ counters["submitted"] = 0 /\ counters["running"] = 0
    BY DEF Init, CounterNames
  <1>7. \A j \in Jobs : j > 0
    BY DEF Jobs
  <1>8. Custody
    BY <1>1, <1>5, <1>6, <1>7 DEF Init, Custody
  <1>9. CountingWorkers = {}
    BY <1>5 DEF CountingWorkers
  <1>10. RunCount
    BY <1>6, <1>9, FS_EmptySet DEF RunCount
  <1> QED
    BY <1>3, <1>4, <1>8, <1>10 DEF Inductive

\* Every step preserves it: the four parts need each other.
LEMMA InductiveStep == Inductive /\ [Next]_vars => Inductive'
  BY RunPositiveHolds, TypeStep, ControlStep, CustodyStep, RunCountStep DEF Inductive

\* So it holds in every reachable state.
LEMMA InductiveAlways == Spec => []Inductive
  BY InductiveInit, InductiveStep, PTL DEF Spec

\* Every variable keeps its type in every behaviour of the pool; in particular
\* the unsigned running counter, which record_terminal decrements, never
\* underflows, whatever cancels, sweeps and shutdowns interleave.
THEOREM TypeCorrect == Spec => []TypeOK
  BY InductiveAlways, PTL DEF Inductive
=============================================================================
