---------------------------- MODULE RuntimeSlots ----------------------------
(***************************************************************************)
(* The slots of the owners and the announcement of a job's end: the        *)
(* accounting of QueueState, and the refinement of JobPool.                *)
(***************************************************************************)
EXTENDS RuntimeOutcome

\* The variables of the module, in one place.
USE DEF jobVars, queueVars, threadVars, shutdownVars, history, vars

\* Where a thread is between winning the compare-exchange for a job and
\* announcing the job's end.
Ending == {"record", "release", "observe"}

\* A job holds its slot from its admission until its end is decided, the one
\* thread that ended it still has the slot to give back or the end to announce,
\* and only a worker publishes a success.
Slots ==
  /\ \A j \in Jobs :
       /\ state[j] = "none" => j \notin active
       /\ state[j] \in {"queued", "running"} => j \in active
       /\ observed[j] # 0 => observed[j] = 1 /\ state[j] \in Terminal /\ j \notin active
  /\ \A t \in Threads : pc[t] \in Ending =>
       /\ state[tgt[t]] \in Terminal
       /\ observed[tgt[t]] = 0
       /\ tgt[t] \in active <=> pc[t] # "observe"
       /\ \A u \in Threads : pc[u] \in Ending /\ tgt[u] = tgt[t] => u = t
  /\ \A t \in Threads : pc[t] \in {"set", "cas"} => op[t] = "run" \/ res[t] # "ok"

\* No thread starts or goes on ending a job, and what is published is what
\* was, a worker's result or no success.
EndingKept ==
  \A u \in Threads :
    /\ pc'[u] \in Ending => pc[u] = pc'[u] /\ tgt'[u] = tgt[u]
    /\ pc'[u] \in {"set", "cas"} =>
         \/ pc[u] \in {"set", "cas"} /\ op'[u] = op[u] /\ res'[u] = res[u]
         \/ op'[u] = "run"
         \/ res'[u] # "ok"

\* Moving a thread somewhere else.
LEMMA GotoEnds ==
  ASSUME TypeOK, NEW t \in Threads, NEW l, Goto(t, l), l \notin Ending, l \notin {"set", "cas"},
         \A u \in Threads \ {t} : op'[u] = op[u] /\ tgt'[u] = tgt[u] /\ res'[u] = res[u]
  PROVE  EndingKept
  BY GotoMoves DEF EndingKept

\* Starting a publication.
LEMMA PublishEnds ==
  ASSUME TypeOK, NEW t \in Threads, NEW o, NEW j, NEW r, Publish(t, o, j, r),
         o = "run" \/ r # "ok"
  PROVE  EndingKept
  <1>1. Goto(t, "set") /\ op'[t] = o /\ res'[t] = r
    BY DEF Publish, TypeOK
  <1>2. \A u \in Threads \ {t} : op'[u] = op[u] /\ tgt'[u] = tgt[u] /\ res'[u] = res[u]
    BY DEF Publish, TypeOK
  <1> QED
    BY <1>1, <1>2, GotoMoves DEF EndingKept, Ending

\* Returning from a publication.
LEMMA ReturnEnds ==
  ASSUME TypeOK, NEW t \in Threads, Return(t)
  PROVE  EndingKept
  <1>1. Goto(t, Resume(t)) /\ Resume(t) \notin Ending /\ Resume(t) \notin {"set", "cas"}
    BY DEF Return, Resume, Ending
  <1>2. \A u \in Threads \ {t} : op'[u] = op[u] /\ tgt'[u] = tgt[u] /\ res'[u] = res[u]
    BY DEF Return, TypeOK
  <1> QED
    BY <1>1, <1>2, GotoEnds

\* Steps that leave statuses, slots and announcements alone.
LEMMA SlotsFrame ==
  ASSUME Slots, EndingKept, state' = state, active' = active, observed' = observed
  PROVE  Slots'
  BY DEF Slots, EndingKept

\* Every step of the pool preserves the slot invariant.
LEMMA SlotsStep ==
  ASSUME Inductive, Slots, [Next]_vars
  PROVE  Slots'
  <1>a. TypeOK /\ Control /\ Custody
    BY DEF Inductive
  <1>d. Workers \subseteq Threads /\ Clients \subseteq Threads
    BY DEF Threads
  <1>1. ASSUME NEW c \in Clients, SubmitSweep(c) PROVE Slots'
    <2>1. /\ UNCHANGED <<state, active, observed>> /\ \E l \in {"expire"} : Goto(c, l)
          /\ \A u \in Threads \ {c} : op'[u] = op[u] /\ tgt'[u] = tgt[u] /\ res'[u] = res[u]
      BY <1>1, <1>a DEF SubmitSweep, TypeOK
    <2>2. EndingKept
      BY <1>a, <1>d, <2>1, GotoEnds DEF Ending
    <2> QED
      BY <2>1, <2>2, SlotsFrame
  <1>2. ASSUME NEW c \in Clients, NEW o \in Owners, SubmitReject(c, o) PROVE Slots'
    <2>1. /\ UNCHANGED <<state, active, observed>> /\ \E l \in {"idle"} : Goto(c, l)
          /\ \A u \in Threads \ {c} : op'[u] = op[u] /\ tgt'[u] = tgt[u] /\ res'[u] = res[u]
      BY <1>2, <1>a DEF SubmitReject, TypeOK
    <2>2. EndingKept
      BY <1>a, <1>d, <2>1, GotoEnds DEF Ending
    <2> QED
      BY <2>1, <2>2, SlotsFrame
  <1>3. ASSUME NEW c \in Clients, NEW o \in Owners, SubmitAdmit(c, o) PROVE Slots'
    <2> DEFINE j == counters["submitted"] + 1
    <2>1. /\ UNCHANGED <<op, tgt, res, observed>> /\ Goto(c, "notify") /\ j \in Jobs
          /\ state' = [state EXCEPT ![j] = "queued"] /\ active' = active \cup {j}
      BY <1>3 DEF SubmitAdmit
    <2>2. j > counters["submitted"]
      BY <1>a DEF TypeOK, CounterNames
    <2>3. state[j] = "none"
      BY <1>a, <2>1, <2>2 DEF Custody
    <2> HIDE DEF j
    <2>4. \A k \in Jobs : state'[k] = IF k = j THEN "queued" ELSE state[k]
      BY <1>a, <2>1 DEF TypeOK
    <2>5. \A u \in Threads : pc'[u] \in Ending \cup {"set", "cas"} => pc'[u] = pc[u]
      BY <1>a, <1>d, <2>1, GotoMoves DEF Ending
    <2>6. \A u \in Threads : pc[u] \in Ending => tgt[u] \in Jobs /\ tgt[u] # j
      BY <1>a, <2>3, TargetOfControl DEF Slots, Ending, Deciding, Terminal
    <2>7. "queued" \notin Terminal /\ "none" \notin Terminal
      BY DEF Terminal
    <2> QED
      BY <2>1, <2>3, <2>4, <2>5, <2>6, <2>7 DEF Slots
  <1>4. ASSUME NEW c \in Clients, SubmitNotify(c) PROVE Slots'
    <2>1. UNCHANGED <<state, active, observed, op, tgt, res>>
      BY <1>4 DEF SubmitNotify
    <2>2. EndingKept
      <3>1. CASE Goto(c, "idle")
        BY <1>a, <1>d, <2>1, <3>1, GotoEnds DEF Ending
      <3>2. CASE \E w \in Waiting : pc' = [pc EXCEPT ![c] = "idle", ![w] = "loop"]
        <4>1. \A u \in Threads : pc'[u] = pc[u] \/ pc'[u] \in {"idle", "loop"}
          BY <1>a, <1>d, <3>2 DEF TypeOK, Waiting
        <4> QED
          BY <2>1, <4>1 DEF EndingKept, Ending
      <3> QED
        BY <1>4, <3>1, <3>2 DEF SubmitNotify
    <2> QED
      BY <2>1, <2>2, SlotsFrame
  <1>5. ASSUME NEW c \in Clients, NEW j \in Jobs, Cancel(c, j) PROVE Slots'
    <2>1. /\ UNCHANGED <<state, active, observed>> /\ \E l \in {"dequeue"} : Goto(c, l)
          /\ \A u \in Threads \ {c} : op'[u] = op[u] /\ tgt'[u] = tgt[u] /\ res'[u] = res[u]
      BY <1>5, <1>a DEF Cancel, TypeOK
    <2>2. EndingKept
      BY <1>a, <1>d, <2>1, GotoEnds DEF Ending
    <2> QED
      BY <2>1, <2>2, SlotsFrame
  <1>6. ASSUME NEW c \in Clients, JoinShutdown(c) PROVE Slots'
    <2>1. /\ UNCHANGED <<state, active, observed>> /\ \E l \in {"await"} : Goto(c, l)
          /\ \A u \in Threads \ {c} : op'[u] = op[u] /\ tgt'[u] = tgt[u] /\ res'[u] = res[u]
      BY <1>6, <1>a DEF JoinShutdown, TypeOK
    <2>2. EndingKept
      BY <1>a, <1>d, <2>1, GotoEnds DEF Ending
    <2> QED
      BY <2>1, <2>2, SlotsFrame
  <1>7. ASSUME NEW c \in Clients, AwaitShutdown(c) PROVE Slots'
    <2>1. /\ UNCHANGED <<state, active, observed>> /\ \E l \in {"idle", "join", "parked"} : Goto(c, l)
          /\ \A u \in Threads \ {c} : op'[u] = op[u] /\ tgt'[u] = tgt[u] /\ res'[u] = res[u]
      BY <1>7, <1>a DEF AwaitShutdown, TypeOK
    <2>2. EndingKept
      BY <1>a, <1>d, <2>1, GotoEnds DEF Ending
    <2> QED
      BY <2>1, <2>2, SlotsFrame
  <1>8. ASSUME NEW c \in Clients, JoinPass(c) PROVE Slots'
    <2>1. /\ UNCHANGED <<state, active, observed>> /\ \E l \in {"complete", "joinwait"} : Goto(c, l)
          /\ \A u \in Threads \ {c} : op'[u] = op[u] /\ tgt'[u] = tgt[u] /\ res'[u] = res[u]
      BY <1>8, <1>a DEF JoinPass, TypeOK
    <2>2. EndingKept
      BY <1>a, <1>d, <2>1, GotoEnds DEF Ending
    <2> QED
      BY <2>1, <2>2, SlotsFrame
  <1>9. ASSUME NEW c \in Clients, JoinAgain(c) PROVE Slots'
    <2>1. /\ UNCHANGED <<state, active, observed>> /\ \E l \in {"join"} : Goto(c, l)
          /\ \A u \in Threads \ {c} : op'[u] = op[u] /\ tgt'[u] = tgt[u] /\ res'[u] = res[u]
      BY <1>9, <1>a DEF JoinAgain, TypeOK
    <2>2. EndingKept
      BY <1>a, <1>d, <2>1, GotoEnds DEF Ending
    <2> QED
      BY <2>1, <2>2, SlotsFrame
  <1>10. ASSUME NEW c \in Clients, JoinTimeout(c) PROVE Slots'
    <2>1. /\ UNCHANGED <<state, active, observed>> /\ \E l \in {"complete"} : Goto(c, l)
          /\ \A u \in Threads \ {c} : op'[u] = op[u] /\ tgt'[u] = tgt[u] /\ res'[u] = res[u]
      BY <1>10, <1>a DEF JoinTimeout, TypeOK
    <2>2. EndingKept
      BY <1>a, <1>d, <2>1, GotoEnds DEF Ending
    <2> QED
      BY <2>1, <2>2, SlotsFrame
  <1>11. ASSUME NEW c \in Clients, CompleteShutdown(c) PROVE Slots'
    <2>1. /\ UNCHANGED <<state, active, observed, tgt, res>>
          /\ \A u \in Threads : pc'[u] \in {"idle", "await"} \/ (pc'[u] = pc[u] /\ op'[u] = op[u])
      BY <1>11, <1>a DEF CompleteShutdown, TypeOK
    <2>2. EndingKept
      BY <2>1 DEF EndingKept, Ending
    <2> QED
      BY <2>1, <2>2, SlotsFrame
  <1>12. ASSUME NEW w \in Workers, WorkerSweep(w) PROVE Slots'
    <2>1. /\ UNCHANGED <<state, active, observed>> /\ \E l \in {"expire"} : Goto(w, l)
          /\ \A u \in Threads \ {w} : op'[u] = op[u] /\ tgt'[u] = tgt[u] /\ res'[u] = res[u]
      BY <1>12, <1>a DEF WorkerSweep, TypeOK
    <2>2. EndingKept
      BY <1>a, <1>d, <2>1, GotoEnds DEF Ending
    <2> QED
      BY <2>1, <2>2, SlotsFrame
  <1>13. ASSUME NEW w \in Workers, WorkerPop(w) PROVE Slots'
    <2>1. /\ UNCHANGED <<state, active, observed>> /\ \E l \in {"start"} : Goto(w, l)
          /\ \A u \in Threads \ {w} : op'[u] = op[u] /\ tgt'[u] = tgt[u] /\ res'[u] = res[u]
      BY <1>13, <1>a DEF WorkerPop, TypeOK
    <2>2. EndingKept
      BY <1>a, <1>d, <2>1, GotoEnds DEF Ending
    <2> QED
      BY <2>1, <2>2, SlotsFrame
  <1>14. ASSUME NEW w \in Workers, WorkerIdle(w) PROVE Slots'
    <2>1. /\ UNCHANGED <<state, active, observed>> /\ \E l \in {"exit", "wait"} : Goto(w, l)
          /\ \A u \in Threads \ {w} : op'[u] = op[u] /\ tgt'[u] = tgt[u] /\ res'[u] = res[u]
      BY <1>14, <1>a DEF WorkerIdle, TypeOK
    <2>2. EndingKept
      BY <1>a, <1>d, <2>1, GotoEnds DEF Ending
    <2> QED
      BY <2>1, <2>2, SlotsFrame
  <1>15. ASSUME NEW w \in Workers, SpuriousWake(w) PROVE Slots'
    <2>1. /\ UNCHANGED <<state, active, observed>> /\ \E l \in {"loop"} : Goto(w, l)
          /\ \A u \in Threads \ {w} : op'[u] = op[u] /\ tgt'[u] = tgt[u] /\ res'[u] = res[u]
      BY <1>15, <1>a DEF SpuriousWake, TypeOK
    <2>2. EndingKept
      BY <1>a, <1>d, <2>1, GotoEnds DEF Ending
    <2> QED
      BY <2>1, <2>2, SlotsFrame
  <1>16. ASSUME NEW w \in Workers, CountRunning(w) PROVE Slots'
    <2>1. /\ UNCHANGED <<state, active, observed>> /\ \E l \in {"check"} : Goto(w, l)
          /\ \A u \in Threads \ {w} : op'[u] = op[u] /\ tgt'[u] = tgt[u] /\ res'[u] = res[u]
      BY <1>16, <1>a DEF CountRunning, TypeOK
    <2>2. EndingKept
      BY <1>a, <1>d, <2>1, GotoEnds DEF Ending
    <2> QED
      BY <2>1, <2>2, SlotsFrame
  <1>17. ASSUME NEW w \in Workers, TryStart(w) PROVE Slots'
    <2>1. UNCHANGED <<active, observed, op, tgt, res>> /\ run[w] \in Jobs /\ \E l \in {"count", "loop"} : Goto(w, l)
      BY <1>17, <1>a DEF TryStart, Control, WorkerCtl, Deciding
    <2>2. EndingKept
      BY <1>a, <1>d, <2>1, GotoEnds DEF Ending
    <2>3. CASE state' = state
      BY <2>1, <2>2, <2>3, SlotsFrame
    <2>4. CASE state[run[w]] = "queued" /\ state' = [state EXCEPT ![run[w]] = "running"]
      <3>1. \A k \in Jobs : state'[k] = IF k = run[w] THEN "running" ELSE state[k]
        BY <1>a, <2>1, <2>4 DEF TypeOK
      <3>2. "queued" \notin Terminal
        BY DEF Terminal
      <3>3. \A u \in Threads : pc[u] \in Ending => tgt[u] \in Jobs /\ tgt[u] # run[w]
        BY <1>a, <2>4, <3>2, TargetOfControl DEF Slots, Ending, Deciding
      <3> QED
        BY <2>1, <2>2, <2>4, <3>1, <3>2, <3>3 DEF Slots, EndingKept
    <2> QED
      BY <1>17, <2>3, <2>4 DEF TryStart
  <1>18. ASSUME NEW w \in Workers, RunCheck(w) PROVE Slots'
    <2>1. /\ UNCHANGED <<state, active, observed>>
          /\ \/ \E r : Publish(w, "run", run[w], r)
             \/ Goto(w, "task") /\ UNCHANGED <<op, tgt, res>>
      BY <1>18 DEF RunCheck
    <2>2. EndingKept
      BY <1>a, <1>d, <2>1, GotoEnds, PublishEnds DEF Ending
    <2> QED
      BY <2>1, <2>2, SlotsFrame
  <1>19. ASSUME NEW w \in Workers, TaskReturns(w) PROVE Slots'
    <2>1. /\ UNCHANGED <<state, active, observed>>
          /\ \/ \E r : Publish(w, "run", run[w], r)
             \/ Goto(w, "task") /\ UNCHANGED <<op, tgt, res>>
      BY <1>19 DEF TaskReturns
    <2>2. EndingKept
      BY <1>a, <1>d, <2>1, GotoEnds, PublishEnds DEF Ending
    <2> QED
      BY <2>1, <2>2, SlotsFrame
  <1>20. ASSUME NEW t \in Threads, CancelDequeue(t) PROVE Slots'
    <2>1. UNCHANGED <<state, active, observed>> /\ \E o, j, r : r # "ok" /\ Publish(t, o, j, r)
      BY <1>20 DEF CancelDequeue
    <2>2. EndingKept
      BY <1>a, <2>1, PublishEnds
    <2> QED
      BY <2>1, <2>2, SlotsFrame
  <1>21. ASSUME NEW t \in Threads, ExpireNext(t) PROVE Slots'
    <2>1. UNCHANGED <<state, active, observed>> /\ \E o, j, r : r # "ok" /\ Publish(t, o, j, r)
      BY <1>21 DEF ExpireNext
    <2>2. EndingKept
      BY <1>a, <2>1, PublishEnds
    <2> QED
      BY <2>1, <2>2, SlotsFrame
  <1>22. ASSUME NEW t \in Threads, ExpireDone(t) PROVE Slots'
    <2>1. /\ UNCHANGED <<state, active, observed>> /\ \E l \in {"loop", "admit"} : Goto(t, l)
          /\ \A u \in Threads \ {t} : op'[u] = op[u] /\ tgt'[u] = tgt[u] /\ res'[u] = res[u]
      BY <1>22, <1>a DEF ExpireDone, TypeOK
    <2>2. EndingKept
      BY <1>a, <1>d, <2>1, GotoEnds DEF Ending
    <2> QED
      BY <2>1, <2>2, SlotsFrame
  <1>23. ASSUME NEW t \in Threads, CallShutdown(t) PROVE Slots'
    <2>1. /\ UNCHANGED <<state, active, observed>> /\ \E l \in {"begin"} : Goto(t, l)
          /\ \A u \in Threads \ {t} : op'[u] = op[u] /\ tgt'[u] = tgt[u] /\ res'[u] = res[u]
      BY <1>23, <1>a DEF CallShutdown, TypeOK
    <2>2. EndingKept
      BY <1>a, <1>d, <2>1, GotoEnds DEF Ending
    <2> QED
      BY <2>1, <2>2, SlotsFrame
  <1>24. ASSUME NEW t \in Threads, BeginShutdown(t) PROVE Slots'
    <2>1. /\ UNCHANGED <<state, active, observed>> /\ \E l \in {"wakeall"} : Goto(t, l)
          /\ \A u \in Threads \ {t} : op'[u] = op[u] /\ tgt'[u] = tgt[u] /\ res'[u] = res[u]
      BY <1>24, <1>a DEF BeginShutdown, TypeOK
    <2>2. EndingKept
      BY <1>a, <1>d, <2>1, GotoEnds DEF Ending
    <2> QED
      BY <2>1, <2>2, SlotsFrame
  <1>25. ASSUME NEW t \in Threads, DrainNext(t) PROVE Slots'
    <2>1. /\ UNCHANGED <<state, active, observed>> /\ \E l \in {"dequeue"} : Goto(t, l)
          /\ \A u \in Threads \ {t} : op'[u] = op[u] /\ tgt'[u] = tgt[u] /\ res'[u] = res[u]
      BY <1>25, <1>a DEF DrainNext, TypeOK
    <2>2. EndingKept
      BY <1>a, <1>d, <2>1, GotoEnds DEF Ending
    <2> QED
      BY <2>1, <2>2, SlotsFrame
  <1>26. ASSUME NEW t \in Threads, WakeAll(t) PROVE Slots'
    <2>1. /\ UNCHANGED <<state, active, observed, tgt, res>>
          /\ \A u \in Threads : pc'[u] \in {"drain", "loop"} \/ (pc'[u] = pc[u] /\ op'[u] = op[u])
      BY <1>26, <1>a DEF WakeAll, TypeOK
    <2>2. EndingKept
      BY <2>1 DEF EndingKept, Ending
    <2> QED
      BY <2>1, <2>2, SlotsFrame
  <1>27. ASSUME NEW t \in Threads, DrainDone(t) PROVE Slots'
    <2>1. /\ UNCHANGED <<state, active, observed, tgt, res>>
          /\ \A u \in Threads : pc'[u] \in {"await", "task", "idle"} \/ (pc'[u] = pc[u] /\ op'[u] = op[u])
      BY <1>27, <1>a DEF DrainDone, TypeOK
    <2>2. EndingKept
      BY <2>1 DEF EndingKept, Ending
    <2> QED
      BY <2>1, <2>2, SlotsFrame
  <1>28. ASSUME NEW t \in Threads, Discard(t) PROVE Slots'
    <2>1. UNCHANGED <<state, active, observed>> /\ Return(t)
      BY <1>28 DEF Discard
    <2> QED
      BY <1>a, <2>1, ReturnEnds, SlotsFrame
  <1>29. ASSUME NEW t \in Threads, PublishSet(t) PROVE Slots'
    <2>1. UNCHANGED <<state, active, observed>> /\ pc[t] = "set"
      BY <1>29 DEF PublishSet
    <2>2. CASE Return(t)
      BY <1>a, <2>1, <2>2, ReturnEnds, SlotsFrame
    <2>3. CASE Goto(t, "cas") /\ UNCHANGED <<op, tgt, res>>
      <3>1. EndingKept
        BY <1>a, <2>1, <2>3, GotoMoves DEF EndingKept, Ending
      <3> QED
        BY <2>1, <3>1, SlotsFrame
    <2> QED
      BY <1>29, <2>2, <2>3 DEF PublishSet
  <1>30. ASSUME NEW t \in Threads, PublishCas(t) PROVE Slots'
    <2>1. UNCHANGED <<active, observed>> /\ pc[t] = "cas" /\ tgt[t] \in Jobs
      BY <1>30, <1>a, TargetOfControl DEF PublishCas, Deciding
    <2>2. CASE Return(t) /\ state' = state
      BY <1>a, <2>1, <2>2, ReturnEnds, SlotsFrame
    <2>3. CASE /\ state[tgt[t]] = From(t) /\ state' = [state EXCEPT ![tgt[t]] = TerminalOf(res[t])]
               /\ Goto(t, "record") /\ UNCHANGED <<op, tgt, res>>
      <3>1. state[tgt[t]] \in {"queued", "running"} /\ state[tgt[t]] \notin Terminal
        BY <2>3 DEF From, Terminal
      <3>2. TerminalOf(res[t]) \in Terminal /\ TerminalOf(res[t]) \notin {"none", "queued", "running"}
        BY DEF TerminalOf, Terminal
      <3>3. \A k \in Jobs : state'[k] = IF k = tgt[t] THEN TerminalOf(res[t]) ELSE state[k]
        BY <1>a, <2>1, <2>3 DEF TypeOK
      <3>4. tgt[t] \in active /\ observed[tgt[t]] = 0
        BY <2>1, <3>1 DEF Slots
      <3>5. pc'[t] = "record" /\ \A u \in Threads \ {t} : pc'[u] = pc[u]
        BY <1>a, <2>3, GotoMoves
      <3>6. \A u \in Threads : pc[u] \in Ending => tgt[u] \in Jobs /\ tgt[u] # tgt[t]
        BY <1>a, <3>1, TargetOfControl DEF Slots, Ending, Deciding
      <3>7. \A k \in Jobs : /\ state'[k] = "none" => k \notin active'
                            /\ state'[k] \in {"queued", "running"} => k \in active'
                            /\ observed'[k] # 0 => observed'[k] = 1 /\ state'[k] \in Terminal /\ k \notin active'
        BY <2>1, <3>2, <3>3, <3>4 DEF Slots
      <3>8. \A u \in Threads : pc'[u] \in Ending =>
              /\ state'[tgt'[u]] \in Terminal /\ observed'[tgt'[u]] = 0
              /\ tgt'[u] \in active' <=> pc'[u] # "observe"
        <4> SUFFICES ASSUME NEW u \in Threads, pc'[u] \in Ending
                     PROVE  /\ state'[tgt'[u]] \in Terminal /\ observed'[tgt'[u]] = 0
                            /\ tgt'[u] \in active' <=> pc'[u] # "observe"
          OBVIOUS
        <4>1. tgt' = tgt
          BY <2>3
        <4>2. CASE u = t
          BY <2>1, <3>2, <3>3, <3>4, <3>5, <4>1, <4>2
        <4>3. CASE u # t
          <5>1. pc'[u] = pc[u] /\ tgt[u] \in Jobs /\ tgt[u] # tgt[t] /\ state'[tgt[u]] = state[tgt[u]]
            BY <3>3, <3>5, <3>6, <4>3
          <5> QED
            BY <2>1, <4>1, <5>1 DEF Slots
        <4> QED
          BY <4>2, <4>3
      <3>9. \A u, v \in Threads : pc'[u] \in Ending /\ pc'[v] \in Ending /\ tgt'[v] = tgt'[u] => v = u
        <4> SUFFICES ASSUME NEW u \in Threads, NEW v \in Threads, pc'[u] \in Ending,
                            pc'[v] \in Ending, tgt'[v] = tgt'[u], v # u
                     PROVE  FALSE
          OBVIOUS
        <4>1. tgt[v] = tgt[u]
          BY <2>3
        <4>2. CASE u = t \/ v = t
          BY <3>5, <3>6, <4>1, <4>2
        <4>3. CASE u # t /\ v # t
          BY <3>5, <4>1, <4>3 DEF Slots
        <4> QED
          BY <4>2, <4>3
      <3>10. \A u \in Threads : pc'[u] \in {"set", "cas"} => op'[u] = "run" \/ res'[u] # "ok"
        BY <2>3, <3>5 DEF Slots
      <3> QED
        BY <3>7, <3>8, <3>9, <3>10 DEF Slots
    <2> QED
      BY <1>30, <2>2, <2>3 DEF PublishCas
  <1>31. ASSUME NEW t \in Threads, RecordTerminal(t) PROVE Slots'
    <2>1. UNCHANGED <<state, active, observed, op, tgt, res>> /\ pc[t] = "record" /\ Goto(t, "release")
      BY <1>31 DEF RecordTerminal
    <2>2. pc'[t] = "release" /\ \A u \in Threads \ {t} : pc'[u] = pc[u]
      BY <1>a, <2>1, GotoMoves
    <2>3. \A u \in Threads : /\ pc'[u] \in Ending <=> pc[u] \in Ending
                             /\ pc'[u] # "observe" <=> pc[u] # "observe"
                             /\ pc'[u] \in {"set", "cas"} => pc[u] \in {"set", "cas"}
      BY <2>1, <2>2 DEF Ending
    <2> QED
      BY <2>1, <2>3 DEF Slots
  <1>32. ASSUME NEW t \in Threads, ReleaseSlot(t) PROVE Slots'
    <2>1. /\ UNCHANGED <<state, observed, op, tgt, res>> /\ pc[t] = "release" /\ Goto(t, "observe")
          /\ active' = active \ {tgt[t]}
      BY <1>32 DEF ReleaseSlot
    <2>2. pc'[t] = "observe" /\ \A u \in Threads \ {t} : pc'[u] = pc[u]
      BY <1>a, <2>1, GotoMoves
    <2>3. pc[t] \in Ending /\ "observe" \in Ending /\ state[tgt[t]] \in Terminal /\ observed[tgt[t]] = 0
      BY <2>1 DEF Slots, Ending
    <2>4. state[tgt[t]] \notin {"queued", "running"}
      BY <2>3 DEF Terminal
    <2>5. \A u \in Threads : pc'[u] \in Ending => pc[u] \in Ending /\ (u = t \/ tgt[u] # tgt[t])
      BY <2>2, <2>3 DEF Slots
    <2>6. \A u \in Threads : pc'[u] \in Ending => (tgt'[u] \in active' <=> pc'[u] # "observe")
      BY <2>1, <2>2, <2>5 DEF Slots
    <2>7. \A u \in Threads : pc'[u] \in {"set", "cas"} => pc[u] \in {"set", "cas"}
      BY <2>2
    <2> QED
      BY <2>1, <2>4, <2>5, <2>6, <2>7 DEF Slots
  <1>33. ASSUME NEW t \in Threads, Observe(t) PROVE Slots'
    <2>1. /\ UNCHANGED <<state, active>> /\ pc[t] = "observe" /\ tgt[t] \in Jobs
          /\ observed' = [observed EXCEPT ![tgt[t]] = @ + 1]
          /\ Return(t) \/ (Goto(t, "discard") /\ UNCHANGED <<op, tgt, res>>)
      BY <1>33, <1>a, TargetOfControl DEF Observe, Deciding
    <2>2. EndingKept
      BY <1>a, <2>1, GotoEnds, ReturnEnds DEF Ending
    <2>3. pc'[t] \notin Ending
      BY <1>a, <2>1, GotoMoves, ReturnMoves DEF Resume, Ending
    <2>4. /\ state[tgt[t]] \in Terminal /\ observed[tgt[t]] = 0 /\ tgt[t] \notin active
          /\ \A u \in Threads : pc[u] \in Ending /\ tgt[u] = tgt[t] => u = t
      BY <2>1 DEF Slots, Ending
    <2>5. \A k \in Jobs : observed'[k] = IF k = tgt[t] THEN 1 ELSE observed[k]
      BY <1>a, <2>1, <2>4 DEF TypeOK
    <2>6. \A u \in Threads : pc'[u] \in Ending => tgt[u] \in Jobs /\ tgt[u] # tgt[t] /\ tgt'[u] = tgt[u] /\ pc'[u] = pc[u]
      BY <1>a, <2>2, <2>3, <2>4, TargetOfControl DEF EndingKept, Ending, Deciding
    <2>7. \A k \in Jobs : /\ state'[k] = "none" => k \notin active'
                          /\ state'[k] \in {"queued", "running"} => k \in active'
                          /\ observed'[k] # 0 => observed'[k] = 1 /\ state'[k] \in Terminal /\ k \notin active'
      <3> SUFFICES ASSUME NEW k \in Jobs
                   PROVE  /\ state[k] = "none" => k \notin active
                          /\ state[k] \in {"queued", "running"} => k \in active
                          /\ observed'[k] # 0 => observed'[k] = 1 /\ state[k] \in Terminal /\ k \notin active
        BY <2>1
      <3>1. CASE k = tgt[t]
        BY <2>4, <2>5, <3>1 DEF Slots
      <3>2. CASE k # tgt[t]
        BY <2>5, <3>2 DEF Slots
      <3> QED
        BY <3>1, <3>2
    <2>8. \A u \in Threads : pc'[u] \in Ending =>
            /\ state'[tgt'[u]] \in Terminal /\ observed'[tgt'[u]] = 0
            /\ tgt'[u] \in active' <=> pc'[u] # "observe"
      BY <2>1, <2>5, <2>6 DEF Slots
    <2>9. \A u, v \in Threads : pc'[u] \in Ending /\ pc'[v] \in Ending /\ tgt'[v] = tgt'[u] => v = u
      BY <2>6 DEF Slots
    <2>10. \A u \in Threads : pc'[u] \in {"set", "cas"} => op'[u] = "run" \/ res'[u] # "ok"
      BY <2>2 DEF Slots, EndingKept
    <2> QED
      BY <2>7, <2>8, <2>9, <2>10 DEF Slots
  <1>34. ASSUME NEW j \in Jobs, TakeOutput(j) \/ Deadline(j) PROVE Slots'
    BY <1>34, SlotsFrame DEF TakeOutput, Deadline, EndingKept
  <1>35. CASE UNCHANGED vars
    BY <1>35, SlotsFrame DEF EndingKept
  <1> QED
    BY <1>1, <1>2, <1>3, <1>4, <1>5, <1>6, <1>7, <1>8, <1>9, <1>10, <1>11, <1>12,
       <1>13, <1>14, <1>15, <1>16, <1>17, <1>18, <1>19, <1>20, <1>21, <1>22, <1>23,
       <1>24, <1>25, <1>26, <1>27, <1>28, <1>29, <1>30, <1>31, <1>32, <1>33, <1>34,
       <1>35
       DEF Next, ClientStep, WorkerStep, ThreadStep


-----------------------------------------------------------------------------
(* Accounting.                                                              *)

\* The jobs that hold a slot of owner o.
SlotsOf(o) == {j \in active : owner[j] = o}

\* They are finitely many.
LEMMA SlotsFinite ==
  ASSUME TypeOK, NEW o
  PROVE  IsFiniteSet(SlotsOf(o)) /\ Cardinality(SlotsOf(o)) \in Nat
  <1>1. IsFiniteSet(Jobs)
    BY FS_Interval, RuntimeAssumption DEF Jobs
  <1>2. SlotsOf(o) \subseteq Jobs
    BY DEF SlotsOf, TypeOK
  <1>3. IsFiniteSet(SlotsOf(o))
    BY <1>1, <1>2, FS_Subset
  <1> QED
    BY <1>3, FS_CardinalityType

\* Steps that neither take nor give back a slot and do not lengthen the queue.
LEMMA AccountingFrame ==
  ASSUME Accounting, owners' = owners, owner' = owner, active' = active, Len(queue') <= MaxQueue
  PROVE  Accounting'
  BY DEF Accounting

\* Every step of the pool keeps the accounts.
LEMMA AccountingStep ==
  ASSUME Inductive, Slots, Accounting, [Next]_vars
  PROVE  Accounting'
  <1>a. TypeOK /\ Control /\ Custody
    BY DEF Inductive
  <1>b. /\ queue \in Seq(Jobs) /\ Len(queue) \in Nat /\ MaxQueue \in Nat /\ MaxJobsPerOwner \in Nat
        /\ Len(queue) <= MaxQueue
    BY <1>a, RuntimeAssumption DEF TypeOK, Accounting
  <1>1. ASSUME NEW c \in Clients, SubmitNotify(c) \/ JoinShutdown(c) \/ AwaitShutdown(c)
        PROVE  UNCHANGED <<owners, owner, active, queue>>
    BY <1>1 DEF SubmitNotify, JoinShutdown, AwaitShutdown
  <1>2. ASSUME NEW c \in Clients, JoinPass(c) \/ JoinAgain(c) \/ JoinTimeout(c) \/ CompleteShutdown(c)
        PROVE  UNCHANGED <<owners, owner, active, queue>>
    BY <1>2 DEF JoinPass, JoinAgain, JoinTimeout, CompleteShutdown
  <1>3. ASSUME NEW c \in Clients, NEW o \in Owners, SubmitReject(c, o)
        PROVE  UNCHANGED <<owners, owner, active, queue>>
    BY <1>3 DEF SubmitReject
  <1>4. ASSUME NEW c \in Clients, NEW j \in Jobs, Cancel(c, j)
        PROVE  UNCHANGED <<owners, owner, active, queue>>
    BY <1>4 DEF Cancel
  <1>5. ASSUME NEW w \in Workers, WorkerIdle(w) \/ SpuriousWake(w) \/ TryStart(w)
        PROVE  UNCHANGED <<owners, owner, active, queue>>
    BY <1>5 DEF WorkerIdle, SpuriousWake, TryStart
  <1>6. ASSUME NEW w \in Workers, CountRunning(w) \/ RunCheck(w) \/ TaskReturns(w)
        PROVE  UNCHANGED <<owners, owner, active, queue>>
    BY <1>6 DEF CountRunning, RunCheck, TaskReturns
  <1>7. ASSUME NEW t \in Threads, ExpireNext(t) \/ ExpireDone(t) \/ RecordTerminal(t)
        PROVE  UNCHANGED <<owners, owner, active, queue>>
    BY <1>7 DEF ExpireNext, ExpireDone, RecordTerminal
  <1>8. ASSUME NEW t \in Threads, PublishSet(t) \/ PublishCas(t) \/ Observe(t) \/ Discard(t)
        PROVE  UNCHANGED <<owners, owner, active, queue>>
    BY <1>8 DEF PublishSet, PublishCas, Observe, Discard
  <1>9. ASSUME NEW t \in Threads, CallShutdown(t) \/ WakeAll(t) \/ DrainNext(t) \/ DrainDone(t)
        PROVE  UNCHANGED <<owners, owner, active, queue>>
    BY <1>9 DEF CallShutdown, WakeAll, DrainNext, DrainDone
  <1>10. ASSUME NEW j \in Jobs, TakeOutput(j) \/ Deadline(j)
        PROVE  UNCHANGED <<owners, owner, active, queue>>
    BY <1>10 DEF TakeOutput, Deadline
  <1>11. ASSUME NEW c \in Clients, SubmitSweep(c) PROVE Accounting'
    <2>1. PICK k \in 1..Len(queue) : queue' = SubSeq(queue, k+1, Len(queue))
      BY <1>11 DEF SubmitSweep
    <2>2. Len(queue') = Len(queue) - k
      BY <1>b, <2>1, SweepType
    <2> QED
      <3>1. owners' = owners /\ owner' = owner /\ active' = active
        BY <1>11 DEF SubmitSweep
      <3>2. Len(queue') <= MaxQueue
        BY <1>b, <2>2
      <3> QED
        BY <3>1, <3>2, AccountingFrame
  <1>12. ASSUME NEW w \in Workers, WorkerSweep(w) PROVE Accounting'
    <2>1. PICK k \in 1..Len(queue) : queue' = SubSeq(queue, k+1, Len(queue))
      BY <1>12 DEF WorkerSweep
    <2>2. Len(queue') = Len(queue) - k
      BY <1>b, <2>1, SweepType
    <2> QED
      <3>1. owners' = owners /\ owner' = owner /\ active' = active
        BY <1>12 DEF WorkerSweep
      <3>2. Len(queue') <= MaxQueue
        BY <1>b, <2>2
      <3> QED
        BY <3>1, <3>2, AccountingFrame
  <1>13. ASSUME NEW w \in Workers, WorkerPop(w) PROVE Accounting'
    <2>1. queue # <<>> /\ queue' = Tail(queue)
      BY <1>13 DEF WorkerPop
    <2>2. Len(queue') = Len(queue) - 1
      BY <1>b, <2>1, HeadTailProperties
    <2> QED
      <3>1. UNCHANGED <<owners, owner, active>>
        BY <1>13 DEF WorkerPop
      <3>2. Len(queue') <= MaxQueue
        BY <1>b, <2>2
      <3> QED
        BY <3>1, <3>2, AccountingFrame
  <1>14. ASSUME NEW t \in Threads, CancelDequeue(t) PROVE Accounting'
    <2>1. queue' = queue \/ \E i \in 1..Len(queue) : queue' = Without(queue, i)
      BY <1>14 DEF CancelDequeue
    <2>2. Len(queue') <= Len(queue) /\ Len(queue') \in Nat
      BY <1>b, <2>1, WithoutType
    <2> QED
      BY <1>14, <1>b, <2>2, AccountingFrame DEF CancelDequeue
  <1>15. ASSUME NEW t \in Threads, BeginShutdown(t) PROVE Accounting'
    <2>1. queue' = <<>> /\ UNCHANGED <<owners, owner, active>>
      BY <1>15 DEF BeginShutdown
    <2>2. Len(queue') = 0
      BY <2>1
    <2> QED
      BY <1>b, <2>1, <2>2, AccountingFrame
  <1>16. ASSUME NEW c \in Clients, NEW o \in Owners, SubmitAdmit(c, o) PROVE Accounting'
    <2> DEFINE j == counters["submitted"] + 1
    <2>1. /\ j \in Jobs /\ owners[o] < MaxJobsPerOwner /\ Len(queue) < MaxQueue
          /\ owner' = [owner EXCEPT ![j] = o] /\ active' = active \cup {j}
          /\ owners' = [owners EXCEPT ![o] = @ + 1] /\ queue' = Append(queue, j)
      BY <1>16 DEF SubmitAdmit
    <2>2. j \notin active
      <3>1. j > counters["submitted"]
        BY <1>a DEF TypeOK, CounterNames
      <3> QED
        BY <1>a, <2>1, <3>1 DEF Custody, Slots
    <2> HIDE DEF j
    <2>3. Len(queue') <= MaxQueue
      BY <1>b, <2>1
    <2>4. owners'[o] = owners[o] + 1 /\ \A p \in Owners \ {o} : owners'[p] = owners[p]
      BY <1>a, <2>1 DEF TypeOK
    <2>5. owner'[j] = o /\ \A i \in active : owner'[i] = owner[i]
      BY <1>a, <2>1, <2>2 DEF TypeOK
    <2>6. SlotsOf(o)' = SlotsOf(o) \cup {j} /\ j \notin SlotsOf(o)
      BY <2>1, <2>2, <2>5 DEF SlotsOf
    <2>7. \A p \in Owners \ {o} : SlotsOf(p)' = SlotsOf(p)
      BY <2>1, <2>2, <2>5 DEF SlotsOf
    <2>8. Cardinality(SlotsOf(o)') = Cardinality(SlotsOf(o)) + 1
      BY <1>a, <2>6, SlotsFinite, FS_AddElement
    <2>9. \A p \in Owners : owners[p] = Cardinality(SlotsOf(p)) /\ owners[p] \in Nat /\ owners[p] <= MaxJobsPerOwner
      BY <1>a DEF Accounting, SlotsOf, TypeOK
    <2>10. \A p \in Owners : owners'[p] = Cardinality(SlotsOf(p)') /\ owners'[p] <= MaxJobsPerOwner
      BY <1>b, <2>1, <2>4, <2>7, <2>8, <2>9
    <2> QED
      BY <2>3, <2>10 DEF Accounting, SlotsOf
  <1>17. ASSUME NEW t \in Threads, ReleaseSlot(t) PROVE Accounting'
    <2>1. /\ pc[t] = "release" /\ active' = active \ {tgt[t]} /\ UNCHANGED <<owner, queue>>
          /\ owners' = IF tgt[t] \in active /\ owners[owner[tgt[t]]] > 0
                       THEN [owners EXCEPT ![owner[tgt[t]]] = @ - 1] ELSE owners
      BY <1>17 DEF ReleaseSlot
    <2>2. tgt[t] \in Jobs /\ tgt[t] \in active /\ owner[tgt[t]] \in Owners
      BY <1>a, <2>1, TargetOfControl DEF Slots, Ending, Deciding, TypeOK
    <2>p. PICK j \in Jobs, o \in Owners : j = tgt[t] /\ o = owner[j]
      BY <2>2
    <2>3. \A p \in Owners :
            /\ owners[p] = Cardinality(SlotsOf(p)) /\ owners[p] \in Nat
            /\ owners[p] <= MaxJobsPerOwner
      BY <1>a DEF Accounting, SlotsOf, TypeOK
    <2>4. j \in SlotsOf(o) /\ SlotsOf(o)' = SlotsOf(o) \ {j}
      BY <2>1, <2>2, <2>p DEF SlotsOf
    <2>5. \A p \in Owners \ {o} : SlotsOf(p)' = SlotsOf(p)
      BY <2>1, <2>2, <2>p DEF SlotsOf
    <2>6. Cardinality(SlotsOf(o)') = Cardinality(SlotsOf(o)) - 1
      BY <1>a, <2>4, SlotsFinite, FS_RemoveElement
    <2>7. Cardinality(SlotsOf(o)) # 0
      BY <1>a, <2>4, SlotsFinite, FS_EmptySet
    <2>8. owners[o] > 0
      BY <2>3, <2>7
    <2>9. owners'[o] = owners[o] - 1 /\ \A p \in Owners \ {o} : owners'[p] = owners[p]
      BY <1>a, <2>1, <2>2, <2>p, <2>8 DEF TypeOK
    <2>10. \A p \in Owners : owners'[p] = Cardinality(SlotsOf(p)') /\ owners'[p] <= MaxJobsPerOwner
      <3>1. ASSUME NEW p \in Owners \ {o}
            PROVE  owners'[p] = Cardinality(SlotsOf(p)') /\ owners'[p] <= MaxJobsPerOwner
        BY <2>3, <2>5, <2>9
      <3>2. owners'[o] = Cardinality(SlotsOf(o)') /\ owners'[o] <= MaxJobsPerOwner
        BY <1>b, <2>3, <2>6, <2>9
      <3> QED
        BY <3>1, <3>2
    <2> QED
      BY <1>b, <2>1, <2>10 DEF Accounting, SlotsOf
  <1>18. CASE UNCHANGED vars
    BY <1>18, <1>b, AccountingFrame
  <1>19. CASE UNCHANGED <<owners, owner, active, queue>>
    BY <1>19, <1>b, AccountingFrame
  <1> QED
    BY <1>1, <1>2, <1>3, <1>4, <1>5, <1>6, <1>7, <1>8, <1>9, <1>10, <1>11, <1>12,
       <1>13, <1>14, <1>15, <1>16, <1>17, <1>18, <1>19
       DEF Next, ClientStep, WorkerStep, ThreadStep

\* The invariant from which the slot theorems follow.
SlotInv == Inductive /\ Slots /\ Accounting

\* It holds in every reachable state.
LEMMA SlotsAlways == Spec => []SlotInv
  <1>1. Init => SlotInv
    <2> SUFFICES ASSUME Init PROVE Slots /\ Accounting
      BY InductiveInit DEF SlotInv
    <2>1. \A t \in Threads : pc[t] \notin Ending \cup {"set", "cas"}
      BY DEF Init, Ending
    <2>2. \A j \in Jobs : state[j] = "none" /\ observed[j] = 0
      BY DEF Init
    <2>3. Slots
      BY <2>1, <2>2 DEF Init, Slots
    <2>4. \A o \in Owners : SlotsOf(o) = {} /\ owners[o] = 0
      BY DEF Init, SlotsOf
    <2>5. Len(queue) = 0 /\ MaxQueue \in Nat /\ MaxJobsPerOwner \in Nat
      BY RuntimeAssumption DEF Init
    <2>6. Accounting
      <3>1. \A o \in Owners : Cardinality(SlotsOf(o)) = 0
        BY <2>4, FS_EmptySet
      <3>2. \A o \in Owners : owners[o] = Cardinality(SlotsOf(o)) /\ owners[o] <= MaxJobsPerOwner
        BY <2>4, <2>5, <3>1
      <3>3. Len(queue) <= MaxQueue
        BY <2>5
      <3> QED
        BY <3>2, <3>3 DEF Accounting, SlotsOf
    <2> QED
      BY <2>3, <2>6
  <1>2. SlotInv /\ [Next]_vars => SlotInv'
    BY InductiveStep, SlotsStep, AccountingStep DEF SlotInv
  <1> QED
    BY <1>1, <1>2, PTL DEF Spec

\* QueueState.owners counts exactly the jobs that hold a slot, no owner goes
\* over max_jobs_per_owner and the queue never over max_queue, whatever submits,
\* publications and shutdowns interleave.
THEOREM AccountingCorrect == Spec => []Accounting
  BY SlotsAlways, PTL DEF SlotInv

-----------------------------------------------------------------------------
(* Refinement.                                                              *)

\* A step of the threads is a step of the abstract pool or shows nothing.
LEMMA PoolStep ==
  ASSUME SlotInv, [Next]_vars
  PROVE  [Pool!PoolNext]_(Pool!poolVars)
  <1>a. TypeOK /\ Control /\ Custody /\ Slots /\ Accounting
    BY DEF SlotInv, Inductive
  <1>q. CASE UNCHANGED <<state, owner, active, observed, shuttingDown>>
    BY <1>q DEF Pool!poolVars
  <1>1. ASSUME NEW c \in Clients,
             SubmitSweep(c) \/ SubmitNotify(c) \/ JoinShutdown(c) \/ AwaitShutdown(c)
        PROVE  UNCHANGED <<state, owner, active, observed, shuttingDown>>
    BY <1>1 DEF SubmitSweep, SubmitNotify, JoinShutdown, AwaitShutdown
  <1>2. ASSUME NEW c \in Clients,
             JoinPass(c) \/ JoinAgain(c) \/ JoinTimeout(c) \/ CompleteShutdown(c)
        PROVE  UNCHANGED <<state, owner, active, observed, shuttingDown>>
    BY <1>2 DEF JoinPass, JoinAgain, JoinTimeout, CompleteShutdown
  <1>3. ASSUME NEW c \in Clients, NEW o \in Owners,
             SubmitReject(c, o)
        PROVE  UNCHANGED <<state, owner, active, observed, shuttingDown>>
    BY <1>3 DEF SubmitReject
  <1>4. ASSUME NEW c \in Clients, NEW j \in Jobs,
             Cancel(c, j)
        PROVE  UNCHANGED <<state, owner, active, observed, shuttingDown>>
    BY <1>4 DEF Cancel
  <1>5. ASSUME NEW w \in Workers,
             WorkerSweep(w) \/ WorkerPop(w) \/ WorkerIdle(w) \/ SpuriousWake(w)
        PROVE  UNCHANGED <<state, owner, active, observed, shuttingDown>>
    BY <1>5 DEF WorkerSweep, WorkerPop, WorkerIdle, SpuriousWake
  <1>6. ASSUME NEW w \in Workers,
             CountRunning(w) \/ RunCheck(w) \/ TaskReturns(w)
        PROVE  UNCHANGED <<state, owner, active, observed, shuttingDown>>
    BY <1>6 DEF CountRunning, RunCheck, TaskReturns
  <1>7. ASSUME NEW t \in Threads,
             CancelDequeue(t) \/ ExpireNext(t) \/ ExpireDone(t) \/ RecordTerminal(t)
        PROVE  UNCHANGED <<state, owner, active, observed, shuttingDown>>
    BY <1>7 DEF CancelDequeue, ExpireNext, ExpireDone, RecordTerminal
  <1>8. ASSUME NEW t \in Threads,
             PublishSet(t) \/ Discard(t)
        PROVE  UNCHANGED <<state, owner, active, observed, shuttingDown>>
    BY <1>8 DEF PublishSet, Discard
  <1>9. ASSUME NEW t \in Threads,
             CallShutdown(t) \/ WakeAll(t) \/ DrainNext(t) \/ DrainDone(t)
        PROVE  UNCHANGED <<state, owner, active, observed, shuttingDown>>
    BY <1>9 DEF CallShutdown, WakeAll, DrainNext, DrainDone
  <1>10. ASSUME NEW j \in Jobs,
             TakeOutput(j) \/ Deadline(j)
        PROVE  UNCHANGED <<state, owner, active, observed, shuttingDown>>
    BY <1>10 DEF TakeOutput, Deadline
  <1>11. ASSUME NEW c \in Clients, NEW o \in Owners, SubmitAdmit(c, o)
        PROVE  \E j \in Jobs : Pool!Admit(j, o)
    <2> DEFINE j == counters["submitted"] + 1
    <2>1. /\ j \in Jobs /\ owners[o] < MaxJobsPerOwner /\ ~shuttingDown
          /\ owner' = [owner EXCEPT ![j] = o] /\ active' = active \cup {j}
          /\ state' = [state EXCEPT ![j] = "queued"] /\ UNCHANGED <<observed, shuttingDown>>
      BY <1>11 DEF SubmitAdmit
    <2>2. state[j] = "none"
      <3>1. j > counters["submitted"]
        BY <1>a DEF TypeOK, CounterNames
      <3> QED
        BY <1>a, <2>1, <3>1 DEF Custody
    <2> HIDE DEF j
    <2>3. Cardinality({i \in active : owner[i] = o}) < MaxJobsPerOwner
      BY <1>a, <2>1 DEF Accounting
    <2>4. (~shuttingDown) /\ (~shuttingDown)' = (~shuttingDown)
      BY <2>1, Zenon
    <2>5. Pool!Admit(j, o)
      <3>1. UNCHANGED <<observed, ~shuttingDown>>
        BY <2>1
      <3>2. /\ state' = [state EXCEPT ![j] = "queued"]
            /\ owner' = [owner EXCEPT ![j] = o]
            /\ active' = active \cup {j}
        BY <2>1
      <3> QED
        BY <2>2, <2>3, <2>4, <3>1, <3>2 DEF Pool!Admit, Pool!Cardinality, Cardinality
    <2> QED
      BY <2>1, <2>5
  <1>12. ASSUME NEW w \in Workers, TryStart(w)
        PROVE  \/ UNCHANGED <<state, owner, active, observed, shuttingDown>>
               \/ \E j \in Jobs : Pool!Start(j)
    <2>1. run[w] \in Jobs /\ UNCHANGED <<owner, active, observed, shuttingDown>>
      BY <1>12, <1>a DEF TryStart, Control, WorkerCtl, Deciding
    <2>2. \/ state[run[w]] = "queued" /\ state' = [state EXCEPT ![run[w]] = "running"]
          \/ state' = state
      BY <1>12 DEF TryStart
    <2> QED
      BY <2>1, <2>2 DEF Pool!Start
  <1>13. ASSUME NEW t \in Threads, PublishCas(t)
        PROVE  \/ UNCHANGED <<state, owner, active, observed, shuttingDown>>
               \/ \E j \in Jobs : \E s \in Pool!Ended : Pool!End(j, s)
    <2>1. pc[t] = "cas" /\ tgt[t] \in Jobs /\ UNCHANGED <<owner, active, observed, shuttingDown>>
      BY <1>13, <1>a, TargetOfControl DEF PublishCas, Deciding
    <2>2. CASE state' = state
      BY <2>1, <2>2
    <2>3. CASE state[tgt[t]] = From(t) /\ state' = [state EXCEPT ![tgt[t]] = TerminalOf(res[t])]
      <3>1. TerminalOf(res[t]) \in Pool!Ended
        BY DEF TerminalOf, Pool!Ended
      <3>2. op[t] # "run" => TerminalOf(res[t]) # "completed"
        BY <1>a, <2>1 DEF Slots, TerminalOf
      <3>3. \/ state[tgt[t]] = "running"
            \/ state[tgt[t]] = "queued" /\ TerminalOf(res[t]) # "completed"
        BY <2>3, <3>2 DEF From
      <3>4. Pool!End(tgt[t], TerminalOf(res[t]))
        BY <2>1, <2>3, <3>3 DEF Pool!End
      <3> QED
        BY <2>1, <3>1, <3>4
    <2> QED
      BY <1>13, <2>2, <2>3 DEF PublishCas
  <1>14. ASSUME NEW t \in Threads, ReleaseSlot(t)
        PROVE  \E j \in Jobs : Pool!Free(j)
    <2>1. /\ pc[t] = "release" /\ active' = active \ {tgt[t]}
          /\ UNCHANGED <<state, owner, observed, shuttingDown>>
      BY <1>14 DEF ReleaseSlot
    <2>2. tgt[t] \in Jobs /\ tgt[t] \in active /\ state[tgt[t]] \in Pool!Ended
      BY <1>a, <2>1, TargetOfControl DEF Slots, Ending, Deciding, Terminal, Pool!Ended
    <2> QED
      BY <2>1, <2>2 DEF Pool!Free
  <1>15. ASSUME NEW t \in Threads, Observe(t)
        PROVE  \E j \in Jobs : Pool!Announce(j)
    <2>1. /\ pc[t] = "observe" /\ observed' = [observed EXCEPT ![tgt[t]] = @ + 1]
          /\ UNCHANGED <<state, owner, active, shuttingDown>>
      BY <1>15 DEF Observe
    <2>2. /\ tgt[t] \in Jobs /\ tgt[t] \notin active /\ state[tgt[t]] \in Pool!Ended
          /\ observed[tgt[t]] = 0
      BY <1>a, <2>1, TargetOfControl DEF Slots, Ending, Deciding, Terminal, Pool!Ended
    <2>3. observed' = [observed EXCEPT ![tgt[t]] = 1]
      <3>1. observed[tgt[t]] + 1 = 1
        BY <2>2
      <3> QED
        BY <2>1, <3>1
    <2> QED
      BY <2>1, <2>2, <2>3 DEF Pool!Announce
  <1>16. ASSUME NEW t \in Threads, BeginShutdown(t)
        PROVE  \/ UNCHANGED <<state, owner, active, observed, shuttingDown>>
               \/ Pool!Close
    <2>1. shuttingDown' = TRUE /\ UNCHANGED <<state, owner, active, observed>>
      BY <1>16 DEF BeginShutdown
    <2>2. shuttingDown \in BOOLEAN
      BY <1>a DEF TypeOK
    <2> QED
      BY <2>1, <2>2, Zenon DEF Pool!Close
  <1>17. CASE UNCHANGED vars
    BY <1>17, <1>q
  <1> QED
    BY <1>q, <1>1, <1>2, <1>3, <1>4, <1>5, <1>6, <1>7, <1>8, <1>9, <1>10, <1>11,
       <1>12, <1>13, <1>14, <1>15, <1>16, <1>17
       DEF Next, ClientStep, WorkerStep, ThreadStep, Pool!PoolNext

\* The worker pool implements JobPool: one life, one slot and one announcement
\* per admitted job, the announcement only after the slot is free.
THEOREM PoolRefined == Spec => RefinesPool
  <1>1. Init => Pool!PoolInit
    <2>1. (CHOOSE o \in Owners : TRUE) \in Owners
      BY RuntimeAssumption
    <2>2. ASSUME Init PROVE owner \in [Jobs -> Owners] /\ (~shuttingDown) = TRUE
      BY <2>1, <2>2 DEF Init
    <2> QED
      BY <2>2 DEF Init, Pool!PoolInit
  <1>2. SlotInv /\ [Next]_vars => [Pool!PoolNext]_(Pool!poolVars)
    BY PoolStep
  <1> QED
    BY <1>1, <1>2, SlotsAlways, PTL DEF Spec, RefinesPool, Pool!PoolSpec
=============================================================================
