--------------------------- MODULE RuntimeControl ---------------------------
(***************************************************************************)
(* Where each thread of Runtime can be, and what it holds there: the control*)
(* invariant is preserved by every step.                                   *)
(***************************************************************************)
EXTENDS RuntimeTypes

\* The variables of the module, in one place.
USE DEF jobVars, queueVars, threadVars, shutdownVars, history, vars

(* Control: where each thread can be.                                       *)

\* Only thread t has moved.
OnlyMoved(t) ==
  /\ \A u \in Threads \ {t} : pc'[u] = pc[u] /\ op'[u] = op[u] /\ tgt'[u] = tgt[u]
  /\ \A w \in Workers \ {t} : run'[w] = run[w]

\* One thread moved, to a place that is one of its control states.
LEMMA ControlFrame ==
  ASSUME Control, NEW t \in Threads, OnlyMoved(t),
         t \in Workers => WorkerCtl(t)', t \in Clients => ClientCtl(t)'
  PROVE  Control'
  BY DEF Control, WorkerCtl, ClientCtl, OnlyMoved, Threads

\* A thread whose control variables do not change stays in its control state.
LEMMA WorkerSame ==
  ASSUME NEW w, WorkerCtl(w), pc'[w] = pc[w], op'[w] = op[w], tgt'[w] = tgt[w], run'[w] = run[w]
  PROVE  WorkerCtl(w)'
  BY DEF WorkerCtl

LEMMA ClientSame ==
  ASSUME NEW c, ClientCtl(c), pc'[c] = pc[c], op'[c] = op[c], tgt'[c] = tgt[c]
  PROVE  ClientCtl(c)'
  BY DEF ClientCtl

LEMMA ControlSame ==
  ASSUME Control, pc' = pc, op' = op, tgt' = tgt, run' = run
  PROVE  Control'
  BY WorkerSame, ClientSame DEF Control

\* Goto moves the thread it names and no other.
LEMMA GotoMoves ==
  ASSUME TypeOK, NEW t \in Threads, NEW l, Goto(t, l)
  PROVE  pc'[t] = l /\ \A u \in Threads \ {t} : pc'[u] = pc[u]
  BY DEF TypeOK, Goto

\* Publish takes one thread to the head of publish_terminal with its arguments.
LEMMA PublishMoves ==
  ASSUME TypeOK, NEW t \in Threads, NEW o, NEW j, NEW r, Publish(t, o, j, r),
         run' = run
  PROVE  /\ pc'[t] = "set" /\ op'[t] = o /\ tgt'[t] = j /\ res'[t] = r
         /\ OnlyMoved(t)
  BY GotoMoves DEF TypeOK, Publish, OnlyMoved

\* Return takes one thread back to the caller of publish_terminal.
LEMMA ReturnMoves ==
  ASSUME TypeOK, NEW t \in Threads, Return(t)
  PROVE  /\ pc'[t] = Resume(t)
         /\ op'[t] = IF op[t] \in {"cancel", "run"} THEN "none" ELSE op[t]
         /\ t \in Workers => run'[t] = IF op[t] = "run" THEN 0 ELSE run[t]
         /\ OnlyMoved(t)
  BY GotoMoves DEF TypeOK, Return, OnlyMoved

\* Every caller of publish_terminal continues in one of its control states.
LEMMA ReturnControl ==
  ASSUME TypeOK, Control, NEW t \in Threads, pc[t] \in Deciding, Return(t)
  PROVE  Control'
  <1>1. /\ pc'[t] = Resume(t)
        /\ op'[t] = IF op[t] \in {"cancel", "run"} THEN "none" ELSE op[t]
        /\ t \in Workers => run'[t] = IF op[t] = "run" THEN 0 ELSE run[t]
        /\ OnlyMoved(t)
    BY ReturnMoves
  <1>2. ASSUME t \in Workers PROVE WorkerCtl(t)'
    BY <1>1, <1>2 DEF Control, WorkerCtl, Deciding, Resume
  <1>3. ASSUME t \in Clients PROVE ClientCtl(t)'
    BY <1>1, <1>3 DEF Control, ClientCtl, Deciding, Resume
  <1> QED
    BY <1>1, <1>2, <1>3, ControlFrame

\* Every handler of the pool leaves every thread in one of its control states.
LEMMA ControlStep ==
  ASSUME TypeOK, Control, [Next]_vars
  PROVE  Control'
  <1>d. Workers \cap Clients = {} /\ Workers \subseteq Threads /\ Clients \subseteq Threads
    BY RuntimeAssumption DEF Threads
  <1>1. ASSUME NEW c \in Clients, SubmitSweep(c) PROVE Control'
    <2>1. OnlyMoved(c) /\ ClientCtl(c)'
      BY <1>1, <1>d, GotoMoves
         DEF SubmitSweep, OnlyMoved, ClientCtl, TypeOK, Control, Deciding
    <2> QED
      BY <2>1, <1>d, ControlFrame
  <1>2. ASSUME NEW c \in Clients, NEW o \in Owners, SubmitReject(c, o) PROVE Control'
    <2>1. OnlyMoved(c) /\ ClientCtl(c)'
      BY <1>2, <1>d, GotoMoves
         DEF SubmitReject, OnlyMoved, ClientCtl, TypeOK, Control, Deciding
    <2> QED
      BY <2>1, <1>d, ControlFrame
  <1>3. ASSUME NEW c \in Clients, NEW o \in Owners, SubmitAdmit(c, o) PROVE Control'
    <2>1. OnlyMoved(c) /\ ClientCtl(c)'
      BY <1>3, <1>d, GotoMoves
         DEF SubmitAdmit, OnlyMoved, ClientCtl, TypeOK, Control, Deciding
    <2> QED
      BY <2>1, <1>d, ControlFrame
  <1>4. ASSUME NEW c \in Clients, NEW j \in Jobs, Cancel(c, j) PROVE Control'
    <2>1. OnlyMoved(c) /\ ClientCtl(c)'
      BY <1>4, <1>d, GotoMoves
         DEF Cancel, OnlyMoved, ClientCtl, TypeOK, Control, Deciding
    <2> QED
      BY <2>1, <1>d, ControlFrame
  <1>5. ASSUME NEW c \in Clients, JoinShutdown(c) PROVE Control'
    <2>1. OnlyMoved(c) /\ ClientCtl(c)'
      BY <1>5, <1>d, GotoMoves
         DEF JoinShutdown, OnlyMoved, ClientCtl, TypeOK, Control, Deciding
    <2> QED
      BY <2>1, <1>d, ControlFrame
  <1>6. ASSUME NEW c \in Clients, AwaitShutdown(c) PROVE Control'
    <2>1. OnlyMoved(c) /\ ClientCtl(c)'
      BY <1>6, <1>d, GotoMoves
         DEF AwaitShutdown, OnlyMoved, ClientCtl, TypeOK, Control, Deciding
    <2> QED
      BY <2>1, <1>d, ControlFrame
  <1>7. ASSUME NEW c \in Clients, JoinPass(c) PROVE Control'
    <2>1. OnlyMoved(c) /\ ClientCtl(c)'
      BY <1>7, <1>d, GotoMoves
         DEF JoinPass, OnlyMoved, ClientCtl, TypeOK, Control, Deciding
    <2> QED
      BY <2>1, <1>d, ControlFrame
  <1>8. ASSUME NEW c \in Clients, JoinAgain(c) PROVE Control'
    <2>1. OnlyMoved(c) /\ ClientCtl(c)'
      BY <1>8, <1>d, GotoMoves
         DEF JoinAgain, OnlyMoved, ClientCtl, TypeOK, Control, Deciding
    <2> QED
      BY <2>1, <1>d, ControlFrame
  <1>9. ASSUME NEW c \in Clients, JoinTimeout(c) PROVE Control'
    <2>1. OnlyMoved(c) /\ ClientCtl(c)'
      BY <1>9, <1>d, GotoMoves
         DEF JoinTimeout, OnlyMoved, ClientCtl, TypeOK, Control, Deciding
    <2> QED
      BY <2>1, <1>d, ControlFrame
  <1>10. ASSUME NEW c \in Clients, SubmitNotify(c) PROVE Control'
    <2>1. pc[c] = "notify" /\ pc' \in [Threads -> Labels] /\ pc'[c] = "idle"
          /\ \A u \in Threads \ {c} : pc'[u] = pc[u] \/ (pc[u] = "wait" /\ pc'[u] = "loop" /\ u \in Workers)
      <3>1. CASE Goto(c, "idle")
        BY <1>10, <1>d, <3>1, Members DEF SubmitNotify, Goto, TypeOK
      <3>2. CASE \E w \in Waiting : pc' = [pc EXCEPT ![c] = "idle", ![w] = "loop"]
        <4>1. PICK w \in Waiting : pc' = [pc EXCEPT ![c] = "idle", ![w] = "loop"]
          BY <3>2
        <4>2. w \in Workers /\ pc[w] = "wait" /\ w # c
          BY <1>d DEF Waiting
        <4> QED
          BY <1>10, <1>d, <4>1, <4>2, Members DEF SubmitNotify, TypeOK
      <3> QED
        BY <1>10, <3>1, <3>2 DEF SubmitNotify
    <2>2. op' = op /\ tgt' = tgt /\ run' = run
      BY <1>10 DEF SubmitNotify
    <2>3. ASSUME NEW w \in Workers PROVE WorkerCtl(w)'
      <3>1. WorkerCtl(w) /\ w \in Threads \ {c}
        BY <1>d DEF Control
      <3>2. CASE pc'[w] = pc[w]
        BY <2>2, <3>1, <3>2, WorkerSame
      <3>3. CASE pc[w] = "wait" /\ pc'[w] = "loop"
        BY <2>2, <3>1, <3>3 DEF WorkerCtl, Deciding
      <3> QED
        BY <2>1, <3>1, <3>2, <3>3
    <2>4. ASSUME NEW u \in Clients PROVE ClientCtl(u)'
      <3>1. ClientCtl(u) /\ u \in Threads /\ u \notin Workers
        BY <1>d DEF Control
      <3>2. CASE u = c
        BY <2>1, <2>2, <3>1, <3>2 DEF ClientCtl, Deciding
      <3>3. CASE pc'[u] = pc[u]
        BY <2>2, <3>1, <3>3, ClientSame
      <3> QED
        BY <2>1, <3>1, <3>2, <3>3
    <2> QED
      BY <2>3, <2>4 DEF Control
  <1>11. ASSUME NEW c \in Clients, CompleteShutdown(c) PROVE Control'
    <2>1. pc'[c] = "idle" /\ \A u \in Threads \ {c} :
            pc'[u] = pc[u] \/ (pc[u] = "parked" /\ pc'[u] = "await")
      BY <1>11, <1>d DEF CompleteShutdown
    <2>2. pc[c] = "complete" /\ op' = op /\ tgt' = tgt /\ run' = run
      BY <1>11 DEF CompleteShutdown
    <2>3. ASSUME NEW w \in Workers PROVE WorkerCtl(w)'
      <3>1. WorkerCtl(w) /\ w \in Threads \ {c}
        BY <1>d DEF Control
      <3>2. pc[w] # "parked"
        BY <3>1 DEF WorkerCtl, Deciding
      <3> QED
        BY <2>1, <2>2, <3>1, <3>2, WorkerSame
    <2>4. ASSUME NEW u \in Clients PROVE ClientCtl(u)'
      <3>1. ClientCtl(u) /\ u \in Threads
        BY <1>d DEF Control
      <3>2. CASE u = c
        BY <2>1, <2>2, <3>1, <3>2 DEF ClientCtl, Deciding
      <3>3. CASE pc'[u] = pc[u]
        BY <2>2, <3>1, <3>3, ClientSame
      <3>4. CASE pc[u] = "parked" /\ pc'[u] = "await"
        BY <2>2, <3>1, <3>4 DEF ClientCtl, Deciding
      <3> QED
        BY <2>1, <3>1, <3>2, <3>3, <3>4
    <2> QED
      BY <2>3, <2>4 DEF Control
  <1>12. ASSUME NEW w \in Workers, WorkerSweep(w) PROVE Control'
    <2>1. OnlyMoved(w) /\ pc'[w] = "expire" /\ op'[w] = "sweep"
      BY <1>12, <1>d, GotoMoves DEF WorkerSweep, OnlyMoved, TypeOK
    <2>2. WorkerCtl(w)'
      BY <2>1 DEF WorkerCtl
    <2> QED
      BY <2>1, <2>2, <1>d, ControlFrame
  <1>13. ASSUME NEW w \in Workers, WorkerPop(w) PROVE Control'
    <2>1. OnlyMoved(w) /\ WorkerCtl(w)'
      <3>1. queue # <<>> /\ run' = [run EXCEPT ![w] = Head(queue)] /\ Goto(w, "start")
            /\ pc[w] = "loop" /\ op' = op /\ tgt' = tgt
        BY <1>13 DEF WorkerPop
      <3>2. Head(queue) \in Jobs
        BY <3>1, HeadTailProperties DEF TypeOK
      <3>3. run'[w] \in Jobs /\ \A u \in Workers \ {w} : run'[u] = run[u]
        BY <3>1, <3>2 DEF TypeOK
      <3>4. op[w] = "none"
        BY <3>1 DEF Control, WorkerCtl, Deciding
      <3> QED
        BY <3>1, <3>3, <3>4, <1>d, GotoMoves DEF OnlyMoved, WorkerCtl
    <2> QED
      BY <2>1, <1>d, ControlFrame
  <1>14. ASSUME NEW w \in Workers, WorkerIdle(w) PROVE Control'
    <2>1. OnlyMoved(w) /\ WorkerCtl(w)'
      BY <1>14, <1>d, GotoMoves
         DEF WorkerIdle, OnlyMoved, WorkerCtl, TypeOK, Control, Deciding
    <2> QED
      BY <2>1, <1>d, ControlFrame
  <1>15. ASSUME NEW w \in Workers, SpuriousWake(w) PROVE Control'
    <2>1. OnlyMoved(w) /\ WorkerCtl(w)'
      BY <1>15, <1>d, GotoMoves
         DEF SpuriousWake, OnlyMoved, WorkerCtl, TypeOK, Control, Deciding
    <2> QED
      BY <2>1, <1>d, ControlFrame
  <1>16. ASSUME NEW w \in Workers, TryStart(w) PROVE Control'
    <2>1. OnlyMoved(w) /\ WorkerCtl(w)'
      <3>1. pc[w] = "start" /\ op' = op /\ tgt' = tgt
        BY <1>16 DEF TryStart
      <3>2. op[w] = "none" /\ run[w] \in Jobs
        BY <3>1 DEF Control, WorkerCtl, Deciding
      <3>3. CASE Goto(w, "count") /\ run' = run
        BY <3>1, <3>2, <3>3, <1>d, GotoMoves DEF OnlyMoved, WorkerCtl
      <3>4. CASE Goto(w, "loop") /\ run' = [run EXCEPT ![w] = 0]
        <4>1. \A u \in Workers \ {w} : run'[u] = run[u]
          BY <3>4 DEF TypeOK
        <4> QED
          BY <3>1, <3>2, <3>4, <4>1, <1>d, GotoMoves DEF OnlyMoved, WorkerCtl
      <3> QED
        BY <1>16, <3>3, <3>4 DEF TryStart
    <2> QED
      BY <2>1, <1>d, ControlFrame
  <1>17. ASSUME NEW w \in Workers, CountRunning(w) PROVE Control'
    <2>1. OnlyMoved(w) /\ WorkerCtl(w)'
      BY <1>17, <1>d, GotoMoves
         DEF CountRunning, OnlyMoved, WorkerCtl, TypeOK, Control, Deciding
    <2> QED
      BY <2>1, <1>d, ControlFrame
  <1>18. ASSUME NEW w \in Workers, RunCheck(w) PROVE Control'
    <2>1. \/ \E r : Publish(w, "run", run[w], r)
          \/ Goto(w, "task") /\ UNCHANGED <<op, tgt, res>>
      BY <1>18 DEF RunCheck
    <2>2. pc[w] = "check" /\ run' = run
      BY <1>18 DEF RunCheck
    <2>3. op[w] = "none" /\ run[w] \in Jobs
      BY <2>2 DEF Control, WorkerCtl, Deciding
    <2>4. OnlyMoved(w) /\ WorkerCtl(w)'
      BY <2>1, <2>2, <2>3, <1>d, GotoMoves, PublishMoves
         DEF OnlyMoved, WorkerCtl, Deciding
    <2> QED
      BY <2>4, <1>d, ControlFrame
  <1>19. ASSUME NEW w \in Workers, TaskReturns(w) PROVE Control'
    <2>1. \E r : Publish(w, "run", run[w], r)
      BY <1>19 DEF TaskReturns
    <2>2. pc[w] = "task" /\ run' = run
      BY <1>19 DEF TaskReturns
    <2>3. op[w] = "none" /\ run[w] \in Jobs
      BY <2>2 DEF Control, WorkerCtl, Deciding
    <2>4. OnlyMoved(w) /\ WorkerCtl(w)'
      BY <2>1, <2>2, <2>3, <1>d, PublishMoves DEF WorkerCtl, Deciding
    <2> QED
      BY <2>4, <1>d, ControlFrame
  <1>20. ASSUME NEW t \in Threads, CancelDequeue(t) PROVE Control'
    <2>1. Publish(t, op[t], tgt[t], "cancelled") /\ run' = run /\ pc[t] = "dequeue"
      BY <1>20 DEF CancelDequeue
    <2>2. pc'[t] = "set" /\ op'[t] = op[t] /\ tgt'[t] = tgt[t] /\ OnlyMoved(t)
      BY <2>1, PublishMoves
    <2>3. t \in Workers => WorkerCtl(t)'
      BY <2>1, <2>2 DEF Control, WorkerCtl, Deciding
    <2>4. t \in Clients => ClientCtl(t)'
      BY <2>1, <2>2 DEF Control, ClientCtl, Deciding
    <2> QED
      BY <2>2, <2>3, <2>4, ControlFrame
  <1>21. ASSUME NEW t \in Threads, ExpireNext(t) PROVE Control'
    <2>1. PICK j \in todo[t] : Publish(t, "sweep", j, "timeout")
      BY <1>21 DEF ExpireNext
    <2>2. j \in Jobs /\ run' = run /\ pc[t] = "expire"
      BY <1>21 DEF ExpireNext, TypeOK
    <2>3. pc'[t] = "set" /\ op'[t] = "sweep" /\ tgt'[t] = j /\ OnlyMoved(t)
      BY <2>1, <2>2, PublishMoves
    <2>4. WorkerCtl(t)' /\ ClientCtl(t)'
      BY <2>2, <2>3 DEF WorkerCtl, ClientCtl, Deciding
    <2> QED
      BY <2>3, <2>4, ControlFrame
  <1>22. ASSUME NEW t \in Threads, ExpireDone(t) PROVE Control'
    <2>1. OnlyMoved(t)
      BY <1>22, GotoMoves DEF ExpireDone, OnlyMoved, TypeOK
    <2>a. op'[t] = "none" /\ pc'[t] = IF t \in Workers THEN "loop" ELSE "admit"
      BY <1>22, GotoMoves DEF ExpireDone, TypeOK
    <2>2. t \in Workers => WorkerCtl(t)'
      BY <2>a DEF WorkerCtl
    <2>3. t \in Clients => ClientCtl(t)'
      BY <2>a, <1>d DEF ClientCtl
    <2> QED
      BY <2>1, <2>2, <2>3, ControlFrame
  <1>23. ASSUME NEW t \in Threads, RecordTerminal(t) PROVE Control'
    <2>1. OnlyMoved(t)
      BY <1>23, GotoMoves DEF RecordTerminal, OnlyMoved, TypeOK
    <2>2. t \in Workers => WorkerCtl(t)'
      <3>1. pc[t] = "record" /\ pc'[t] = "release" /\ op' = op /\ tgt' = tgt /\ run' = run
        BY <1>23, GotoMoves DEF RecordTerminal
      <3> QED
        BY <3>1 DEF WorkerCtl, Control, Deciding
    <2>3. t \in Clients => ClientCtl(t)'
      BY <1>23, <1>d, GotoMoves DEF RecordTerminal, ClientCtl, TypeOK, Control, Deciding
    <2> QED
      BY <2>1, <2>2, <2>3, ControlFrame
  <1>24. ASSUME NEW t \in Threads, ReleaseSlot(t) PROVE Control'
    <2>1. OnlyMoved(t)
      BY <1>24, GotoMoves DEF ReleaseSlot, OnlyMoved, TypeOK
    <2>2. t \in Workers => WorkerCtl(t)'
      <3>1. pc[t] = "release" /\ pc'[t] = "observe" /\ op' = op /\ tgt' = tgt /\ run' = run
        BY <1>24, GotoMoves DEF ReleaseSlot
      <3> QED
        BY <3>1 DEF WorkerCtl, Control, Deciding
    <2>3. t \in Clients => ClientCtl(t)'
      BY <1>24, <1>d, GotoMoves DEF ReleaseSlot, ClientCtl, TypeOK, Control, Deciding
    <2> QED
      BY <2>1, <2>2, <2>3, ControlFrame
  <1>25. ASSUME NEW t \in Threads, PublishSet(t) PROVE Control'
    <2>1. pc[t] \in Deciding \ {"discard"}
      BY <1>25 DEF PublishSet, Deciding
    <2>2. CASE Return(t)
      BY <2>1, <2>2, ReturnControl
    <2>3. CASE Goto(t, "cas") /\ UNCHANGED <<op, tgt, run>>
      <3>1. OnlyMoved(t) /\ pc'[t] = "cas"
        BY <2>3, GotoMoves DEF OnlyMoved
      <3>2. t \in Workers => WorkerCtl(t)'
        BY <2>1, <2>3, <3>1 DEF WorkerCtl, Control, Deciding
      <3>3. t \in Clients => ClientCtl(t)'
        BY <2>1, <2>3, <3>1 DEF ClientCtl, Control, Deciding
      <3> QED
        BY <3>1, <3>2, <3>3, ControlFrame
    <2> QED
      BY <1>25, <2>2, <2>3 DEF PublishSet
  <1>26. ASSUME NEW t \in Threads, PublishCas(t) PROVE Control'
    <2>1. pc[t] \in Deciding \ {"discard"}
      BY <1>26 DEF PublishCas, Deciding
    <2>2. CASE Return(t)
      BY <2>1, <2>2, ReturnControl
    <2>3. CASE Goto(t, "record") /\ UNCHANGED <<op, tgt, run>>
      <3>1. OnlyMoved(t) /\ pc'[t] = "record"
        BY <2>3, GotoMoves DEF OnlyMoved
      <3>2. t \in Workers => WorkerCtl(t)'
        BY <2>1, <2>3, <3>1 DEF WorkerCtl, Control, Deciding
      <3>3. t \in Clients => ClientCtl(t)'
        BY <2>1, <2>3, <3>1 DEF ClientCtl, Control, Deciding
      <3> QED
        BY <3>1, <3>2, <3>3, ControlFrame
    <2> QED
      BY <1>26, <2>2, <2>3 DEF PublishCas
  <1>27. ASSUME NEW t \in Threads, Observe(t) PROVE Control'
    <2>1. pc[t] = "observe" /\ pc[t] \in Deciding
      BY <1>27 DEF Observe, Deciding
    <2>2. CASE Return(t)
      BY <2>1, <2>2, ReturnControl
    <2>3. CASE op[t] # "run" /\ Goto(t, "discard") /\ UNCHANGED <<op, tgt, run>>
      <3>1. OnlyMoved(t) /\ pc'[t] = "discard"
        BY <2>3, GotoMoves DEF OnlyMoved
      <3>2. t \in Workers => WorkerCtl(t)'
        BY <2>1, <2>3, <3>1 DEF WorkerCtl, Control, Deciding
      <3>3. t \in Clients => ClientCtl(t)'
        BY <2>1, <2>3, <3>1 DEF ClientCtl, Control, Deciding
      <3> QED
        BY <3>1, <3>2, <3>3, ControlFrame
    <2> QED
      BY <1>27, <2>2, <2>3 DEF Observe
  <1>28. ASSUME NEW t \in Threads, Discard(t) PROVE Control'
    <2>1. pc[t] \in Deciding /\ Return(t)
      BY <1>28 DEF Discard, Deciding
    <2> QED
      BY <2>1, ReturnControl
  <1>29. ASSUME NEW t \in Threads, CallShutdown(t) PROVE Control'
    <2>1. OnlyMoved(t)
      BY <1>29, GotoMoves DEF CallShutdown, OnlyMoved, TypeOK
    <2>2. t \in Workers => WorkerCtl(t)'
      BY <1>29, <1>d, GotoMoves DEF CallShutdown, WorkerCtl, TypeOK, Control, Deciding
    <2>3. t \in Clients => ClientCtl(t)'
      BY <1>29, <1>d, GotoMoves DEF CallShutdown, ClientCtl, TypeOK, Control, Deciding
    <2> QED
      BY <2>1, <2>2, <2>3, ControlFrame
  <1>30. ASSUME NEW t \in Threads, BeginShutdown(t) PROVE Control'
    <2>1. OnlyMoved(t)
      BY <1>30, GotoMoves DEF BeginShutdown, OnlyMoved, TypeOK
    <2>2. t \in Workers => WorkerCtl(t)'
      BY <1>30, <1>d, GotoMoves DEF BeginShutdown, WorkerCtl, TypeOK, Control, Deciding
    <2>3. t \in Clients => ClientCtl(t)'
      BY <1>30, <1>d, GotoMoves DEF BeginShutdown, ClientCtl, TypeOK, Control, Deciding
    <2> QED
      BY <2>1, <2>2, <2>3, ControlFrame
  <1>31. ASSUME NEW t \in Threads, DrainNext(t) PROVE Control'
    <2>0. pc[t] = "drain" /\ pc'[t] = "dequeue" /\ op' = op /\ run' = run /\ tgt'[t] \in Jobs
      <3>1. PICK j \in todo[t] : tgt' = [tgt EXCEPT ![t] = j]
        BY <1>31 DEF DrainNext
      <3> QED
        BY <1>31, <3>1, GotoMoves DEF DrainNext, TypeOK
    <2>1. OnlyMoved(t)
      BY <1>31, GotoMoves DEF DrainNext, OnlyMoved, TypeOK
    <2>2. t \in Workers => WorkerCtl(t)'
      BY <2>0 DEF WorkerCtl, Control, Deciding
    <2>3. t \in Clients => ClientCtl(t)'
      BY <2>0 DEF ClientCtl, Control, Deciding
    <2> QED
      BY <2>1, <2>2, <2>3, ControlFrame
  <1>32. ASSUME NEW t \in Threads, WakeAll(t) PROVE Control'
    <2>1. pc'[t] = "drain" /\ \A u \in Threads \ {t} :
            pc'[u] = pc[u] \/ (u \in Workers /\ pc[u] = "wait" /\ pc'[u] = "loop")
      BY <1>32 DEF WakeAll, Waiting, TypeOK
    <2>2. pc[t] = "wakeall" /\ op' = op /\ tgt' = tgt /\ run' = run
      BY <1>32 DEF WakeAll
    <2>3. \A w \in Workers : WorkerCtl(w)'
      BY <2>1, <2>2, <1>d DEF Control, WorkerCtl, Deciding
    <2>4. \A c \in Clients : ClientCtl(c)'
      BY <2>1, <2>2, <1>d DEF Control, ClientCtl, Deciding
    <2> QED
      BY <2>3, <2>4 DEF Control
  <1>33. ASSUME NEW t \in Threads, DrainDone(t) PROVE Control'
    <2>1. /\ pc[t] = "drain" /\ op'[t] = "none"
          /\ op[t] = "shutdown" => pc'[t] = "await"
          /\ op[t] # "shutdown" => pc'[t] = IF t \in Workers THEN "task" ELSE "idle"
      BY <1>33 DEF DrainDone, TypeOK
    <2>2. /\ \A u \in Threads \ {t} : op'[u] = op[u] /\ pc'[u] = IF pc[u] = "parked" THEN "await" ELSE pc[u]
          /\ tgt' = tgt /\ run' = run
      BY <1>33 DEF DrainDone, TypeOK
    <2>3. ASSUME NEW w \in Workers PROVE WorkerCtl(w)'
      <3>1. WorkerCtl(w) /\ w \in Threads
        BY <1>d DEF Control
      <3>2. CASE w = t
        BY <2>1, <2>2, <3>1, <3>2 DEF WorkerCtl, Deciding
      <3>3. CASE w # t
        <4>1. pc[w] # "parked"
          BY <3>1 DEF WorkerCtl, Deciding
        <4> QED
          BY <2>2, <3>1, <3>3, <4>1, WorkerSame
      <3> QED
        BY <3>2, <3>3
    <2>4. ASSUME NEW c \in Clients PROVE ClientCtl(c)'
      <3>1. ClientCtl(c) /\ c \in Threads /\ c \notin Workers
        BY <1>d DEF Control
      <3>2. CASE c = t
        BY <2>1, <2>2, <3>1, <3>2 DEF ClientCtl, Deciding
      <3>3. CASE c # t /\ pc[c] = "parked"
        BY <2>2, <3>1, <3>3 DEF ClientCtl, Deciding
      <3>4. CASE c # t /\ pc[c] # "parked"
        BY <2>2, <3>1, <3>4, ClientSame
      <3> QED
        BY <3>2, <3>3, <3>4
    <2> QED
      BY <2>3, <2>4 DEF Control
  <1>34. ASSUME NEW j \in Jobs, TakeOutput(j) \/ Deadline(j) PROVE Control'
    BY <1>34, ControlSame DEF TakeOutput, Deadline
  <1>35. CASE UNCHANGED vars
    BY <1>35, ControlSame
  <1> QED
    BY <1>1, <1>2, <1>3, <1>4, <1>5, <1>6, <1>7, <1>8, <1>9, <1>10, <1>11, <1>12,
       <1>13, <1>14, <1>15, <1>16, <1>17, <1>18, <1>19, <1>20, <1>21, <1>22, <1>23,
       <1>24, <1>25, <1>26, <1>27, <1>28, <1>29, <1>30, <1>31, <1>32, <1>33, <1>34,
       <1>35
       DEF Next, ClientStep, WorkerStep, ThreadStep
=============================================================================
