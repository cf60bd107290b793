--------------------------- MODULE RuntimeOutcome ---------------------------
(***************************************************************************)
(* One outcome per job: the publication protocol of publish_terminal (load *)
(* and store under the output mutex, compare-exchange of the state,        *)
(* restore on a lost exchange) leaves exactly the published result in the  *)
(* slot, and nothing changes it afterwards but a reader taking it.         *)
(***************************************************************************)
EXTENDS RuntimeProofs

\* The variables of the module, in one place.
USE DEF jobVars, queueVars, threadVars, shutdownVars, history, vars

\* A thread between the store and the exchange holds the output mutex of its
\* job alone, has its result in the slot, and the job is undecided.
Publishing ==
  /\ \A t \in Threads : pc[t] = "cas" =>
       /\ tgt[t] \in locked
       /\ output[tgt[t]] = res[t]
       /\ state[tgt[t]] \notin Terminal
       /\ \A u \in Threads : pc[u] = "cas" /\ tgt[u] = tgt[t] => u = t

\* No thread has come to the exchange, and those that are there stay.
CasKept ==
  \A u \in Threads : pc'[u] = "cas" =>
    pc[u] = "cas" /\ tgt'[u] = tgt[u] /\ res'[u] = res[u]

\* A step that moves one thread elsewhere than to the exchange keeps the
\* others there.
LEMMA GotoKeeps ==
  ASSUME TypeOK, NEW t \in Threads, NEW l, Goto(t, l), l # "cas",
         \A u \in Threads \ {t} : tgt'[u] = tgt[u] /\ res'[u] = res[u]
  PROVE  CasKept
  BY GotoMoves DEF CasKept

\* Starting a publication does not reach the exchange yet.
LEMMA PublishKeeps ==
  ASSUME TypeOK, NEW t \in Threads, NEW o, NEW j, NEW r, Publish(t, o, j, r)
  PROVE  CasKept
  <1>1. Goto(t, "set") /\ \A u \in Threads \ {t} : tgt'[u] = tgt[u] /\ res'[u] = res[u]
    BY DEF Publish, TypeOK
  <1> QED
    BY <1>1, GotoKeeps

\* A publication that is over leaves the exchange.
LEMMA ReturnKeeps ==
  ASSUME TypeOK, NEW t \in Threads, Return(t)
  PROVE  CasKept
  <1>1. /\ Goto(t, Resume(t)) /\ Resume(t) # "cas"
        /\ \A u \in Threads \ {t} : tgt'[u] = tgt[u] /\ res'[u] = res[u]
    BY DEF Return, Resume, TypeOK
  <1> QED
    BY <1>1, GotoKeeps

\* Steps away from the slot and the status of a job keep the invariant.
LEMMA PublishingFrame ==
  ASSUME Publishing, OutcomeMatches, CasKept,
         state' = state, output' = output, locked' = locked
  PROVE  Publishing' /\ OutcomeMatches'
  BY DEF Publishing, OutcomeMatches, CasKept

\* So do the steps of a status among the undecided ones.
LEMMA PublishingUndecided ==
  ASSUME TypeOK, Control, Publishing, OutcomeMatches, CasKept, NEW j \in Jobs,
         NEW s, s \notin Terminal, state[j] \notin Terminal,
         state' = [state EXCEPT ![j] = s], output' = output, locked' = locked
  PROVE  Publishing' /\ OutcomeMatches'
  <1>1. \A k \in Jobs : state'[k] \in Terminal <=> state[k] \in Terminal
    BY DEF TypeOK
  <1>2. \A k \in Jobs : state[k] \in Terminal => state'[k] = state[k]
    BY DEF TypeOK
  <1>3. \A u \in Threads : pc[u] = "cas" => tgt[u] \in Jobs
    BY TargetOfControl DEF Deciding
  <1>4. Publishing'
    BY <1>1, <1>3 DEF Publishing, CasKept
  <1>5. OutcomeMatches'
    BY <1>1, <1>2 DEF OutcomeMatches
  <1> QED
    BY <1>4, <1>5

\* Every step of the pool preserves the publication invariant.
LEMMA OutcomeStep ==
  ASSUME Inductive, Publishing, OutcomeMatches, [Next]_vars
  PROVE  Publishing' /\ OutcomeMatches'
  <1>a. TypeOK /\ Control /\ Custody
    BY DEF Inductive
  <1>d. Workers \subseteq Threads /\ Clients \subseteq Threads
    BY DEF Threads
  <1>1. ASSUME NEW c \in Clients, SubmitSweep(c) PROVE Publishing' /\ OutcomeMatches'
    <2>1. UNCHANGED <<state, output, locked, tgt, res>> /\ \E l : l # "cas" /\ Goto(c, l)
      BY <1>1 DEF SubmitSweep
    <2>2. CasKept
      BY <1>a, <1>d, <2>1, GotoKeeps
    <2> QED
      BY <2>1, <2>2, PublishingFrame
  <1>2. ASSUME NEW c \in Clients, NEW o \in Owners, SubmitReject(c, o) PROVE Publishing' /\ OutcomeMatches'
    <2>1. UNCHANGED <<state, output, locked, tgt, res>> /\ \E l : l # "cas" /\ Goto(c, l)
      BY <1>2 DEF SubmitReject
    <2>2. CasKept
      BY <1>a, <1>d, <2>1, GotoKeeps
    <2> QED
      BY <2>1, <2>2, PublishingFrame
  <1>3. ASSUME NEW c \in Clients, NEW o \in Owners, SubmitAdmit(c, o) PROVE Publishing' /\ OutcomeMatches'
    <2> DEFINE j == counters["submitted"] + 1
    <2>1. /\ UNCHANGED <<output, locked, tgt, res>> /\ Goto(c, "notify") /\ j \in Jobs
          /\ state' = [state EXCEPT ![j] = "queued"]
      BY <1>3 DEF SubmitAdmit
    <2>2. CasKept
      BY <1>a, <1>d, <2>1, GotoKeeps
    <2>3. j > counters["submitted"]
      BY <1>a DEF TypeOK, CounterNames
    <2>4. state[j] \notin Terminal /\ "queued" \notin Terminal
      BY <1>a, <2>1, <2>3 DEF Custody, Terminal
    <2> QED
      BY <1>a, <2>1, <2>2, <2>4, PublishingUndecided
  <1>4. ASSUME NEW c \in Clients, SubmitNotify(c) PROVE Publishing' /\ OutcomeMatches'
    <2>1. UNCHANGED <<state, output, locked, tgt, res>>
      BY <1>4 DEF SubmitNotify
    <2>2. CasKept
      <3>1. CASE Goto(c, "idle")
        BY <1>a, <1>d, <2>1, <3>1, GotoKeeps
      <3>2. CASE \E w \in Waiting : pc' = [pc EXCEPT ![c] = "idle", ![w] = "loop"]
        BY <1>a, <1>d, <2>1, <3>2 DEF CasKept, TypeOK, Waiting
      <3> QED
        BY <1>4, <3>1, <3>2 DEF SubmitNotify
    <2> QED
      BY <2>1, <2>2, PublishingFrame
  <1>5. ASSUME NEW c \in Clients, NEW j \in Jobs, Cancel(c, j) PROVE Publishing' /\ OutcomeMatches'
    <2>1. /\ UNCHANGED <<state, output, locked, res>> /\ Goto(c, "dequeue")
          /\ \A u \in Threads \ {c} : tgt'[u] = tgt[u]
      BY <1>a, <1>5 DEF Cancel, TypeOK
    <2>2. CasKept
      BY <1>a, <1>d, <2>1, GotoKeeps
    <2> QED
      BY <2>1, <2>2, PublishingFrame
  <1>6. ASSUME NEW c \in Clients, JoinShutdown(c) PROVE Publishing' /\ OutcomeMatches'
    <2>1. UNCHANGED <<state, output, locked, tgt, res>> /\ \E l : l # "cas" /\ Goto(c, l)
      BY <1>6 DEF JoinShutdown
    <2>2. CasKept
      BY <1>a, <1>d, <2>1, GotoKeeps
    <2> QED
      BY <2>1, <2>2, PublishingFrame
  <1>7. ASSUME NEW c \in Clients, AwaitShutdown(c) PROVE Publishing' /\ OutcomeMatches'
    <2>1. UNCHANGED <<state, output, locked, tgt, res>> /\ \E l : l # "cas" /\ Goto(c, l)
      BY <1>7 DEF AwaitShutdown
    <2>2. CasKept
      BY <1>a, <1>d, <2>1, GotoKeeps
    <2> QED
      BY <2>1, <2>2, PublishingFrame
  <1>8. ASSUME NEW c \in Clients, JoinPass(c) PROVE Publishing' /\ OutcomeMatches'
    <2>1. UNCHANGED <<state, output, locked, tgt, res>> /\ \E l : l # "cas" /\ Goto(c, l)
      BY <1>8 DEF JoinPass
    <2>2. CasKept
      BY <1>a, <1>d, <2>1, GotoKeeps
    <2> QED
      BY <2>1, <2>2, PublishingFrame
  <1>9. ASSUME NEW c \in Clients, JoinAgain(c) PROVE Publishing' /\ OutcomeMatches'
    <2>1. UNCHANGED <<state, output, locked, tgt, res>> /\ \E l : l # "cas" /\ Goto(c, l)
      BY <1>9 DEF JoinAgain
    <2>2. CasKept
      BY <1>a, <1>d, <2>1, GotoKeeps
    <2> QED
      BY <2>1, <2>2, PublishingFrame
  <1>10. ASSUME NEW c \in Clients, JoinTimeout(c) PROVE Publishing' /\ OutcomeMatches'
    <2>1. UNCHANGED <<state, output, locked, tgt, res>> /\ \E l : l # "cas" /\ Goto(c, l)
      BY <1>10 DEF JoinTimeout
    <2>2. CasKept
      BY <1>a, <1>d, <2>1, GotoKeeps
    <2> QED
      BY <2>1, <2>2, PublishingFrame
  <1>11. ASSUME NEW c \in Clients, CompleteShutdown(c) PROVE Publishing' /\ OutcomeMatches'
    <2>1. UNCHANGED <<state, output, locked, tgt, res>>
      BY <1>11 DEF CompleteShutdown
    <2>2. \A u \in Threads : pc'[u] = pc[u] \/ pc'[u] \in {"idle", "await"}
      BY <1>11 DEF CompleteShutdown
    <2>3. CasKept
      BY <2>1, <2>2 DEF CasKept
    <2> QED
      BY <2>1, <2>3, PublishingFrame
  <1>12. ASSUME NEW w \in Workers, WorkerSweep(w) PROVE Publishing' /\ OutcomeMatches'
    <2>1. UNCHANGED <<state, output, locked, tgt, res>> /\ \E l : l # "cas" /\ Goto(w, l)
      BY <1>12 DEF WorkerSweep
    <2>2. CasKept
      BY <1>a, <1>d, <2>1, GotoKeeps
    <2> QED
      BY <2>1, <2>2, PublishingFrame
  <1>13. ASSUME NEW w \in Workers, WorkerPop(w) PROVE Publishing' /\ OutcomeMatches'
    <2>1. UNCHANGED <<state, output, locked, tgt, res>> /\ \E l : l # "cas" /\ Goto(w, l)
      BY <1>13 DEF WorkerPop
    <2>2. CasKept
      BY <1>a, <1>d, <2>1, GotoKeeps
    <2> QED
      BY <2>1, <2>2, PublishingFrame
  <1>14. ASSUME NEW w \in Workers, WorkerIdle(w) PROVE Publishing' /\ OutcomeMatches'
    <2>1. UNCHANGED <<state, output, locked, tgt, res>> /\ \E l : l # "cas" /\ Goto(w, l)
      BY <1>14 DEF WorkerIdle
    <2>2. CasKept
      BY <1>a, <1>d, <2>1, GotoKeeps
    <2> QED
      BY <2>1, <2>2, PublishingFrame
  <1>15. ASSUME NEW w \in Workers, SpuriousWake(w) PROVE Publishing' /\ OutcomeMatches'
    <2>1. UNCHANGED <<state, output, locked, tgt, res>> /\ \E l : l # "cas" /\ Goto(w, l)
      BY <1>15 DEF SpuriousWake
    <2>2. CasKept
      BY <1>a, <1>d, <2>1, GotoKeeps
    <2> QED
      BY <2>1, <2>2, PublishingFrame
  <1>16. ASSUME NEW w \in Workers, CountRunning(w) PROVE Publishing' /\ OutcomeMatches'
    <2>1. UNCHANGED <<state, output, locked, tgt, res>> /\ \E l : l # "cas" /\ Goto(w, l)
      BY <1>16 DEF CountRunning
    <2>2. CasKept
      BY <1>a, <1>d, <2>1, GotoKeeps
    <2> QED
      BY <2>1, <2>2, PublishingFrame
  <1>17. ASSUME NEW w \in Workers, TryStart(w) PROVE Publishing' /\ OutcomeMatches'
    <2>1. UNCHANGED <<output, locked, tgt, res>> /\ run[w] \in Jobs /\ \E l : l # "cas" /\ Goto(w, l)
      BY <1>17, <1>a DEF TryStart, Control, WorkerCtl, Deciding
    <2>2. CasKept
      BY <1>a, <1>d, <2>1, GotoKeeps
    <2>3. CASE state' = state
      BY <2>1, <2>2, <2>3, PublishingFrame
    <2>4. CASE state[run[w]] = "queued" /\ state' = [state EXCEPT ![run[w]] = "running"]
      <3>1. "queued" \notin Terminal /\ "running" \notin Terminal
        BY DEF Terminal
      <3> QED
        BY <1>a, <2>1, <2>2, <2>4, <3>1, PublishingUndecided
    <2> QED
      BY <1>17, <2>3, <2>4 DEF TryStart
  <1>18. ASSUME NEW w \in Workers, RunCheck(w) PROVE Publishing' /\ OutcomeMatches'
    <2>1. /\ UNCHANGED <<state, output, locked>>
          /\ \/ \E r : Publish(w, "run", run[w], r)
             \/ Goto(w, "task") /\ UNCHANGED <<tgt, res>>
      BY <1>18 DEF RunCheck
    <2>2. CasKept
      BY <1>a, <1>d, <2>1, GotoKeeps, PublishKeeps
    <2> QED
      BY <2>1, <2>2, PublishingFrame
  <1>19. ASSUME NEW w \in Workers, TaskReturns(w) PROVE Publishing' /\ OutcomeMatches'
    <2>1. /\ UNCHANGED <<state, output, locked>>
          /\ \/ \E r : Publish(w, "run", run[w], r)
             \/ Goto(w, "task") /\ UNCHANGED <<tgt, res>>
      BY <1>19 DEF TaskReturns
    <2>2. CasKept
      BY <1>a, <1>d, <2>1, GotoKeeps, PublishKeeps
    <2> QED
      BY <2>1, <2>2, PublishingFrame
  <1>20. ASSUME NEW t \in Threads, CancelDequeue(t) PROVE Publishing' /\ OutcomeMatches'
    <2>1. UNCHANGED <<state, output, locked>> /\ \E o, j, r : Publish(t, o, j, r)
      BY <1>20 DEF CancelDequeue
    <2>2. CasKept
      BY <1>a, <2>1, PublishKeeps
    <2> QED
      BY <2>1, <2>2, PublishingFrame
  <1>21. ASSUME NEW t \in Threads, ExpireNext(t) PROVE Publishing' /\ OutcomeMatches'
    <2>1. UNCHANGED <<state, output, locked>> /\ \E o, j, r : Publish(t, o, j, r)
      BY <1>21 DEF ExpireNext
    <2>2. CasKept
      BY <1>a, <2>1, PublishKeeps
    <2> QED
      BY <2>1, <2>2, PublishingFrame
  <1>22. ASSUME NEW t \in Threads, ExpireDone(t) PROVE Publishing' /\ OutcomeMatches'
    <2>1. UNCHANGED <<state, output, locked, tgt, res>> /\ \E l : l # "cas" /\ Goto(t, l)
      BY <1>22 DEF ExpireDone
    <2>2. CasKept
      BY <1>a, <1>d, <2>1, GotoKeeps
    <2> QED
      BY <2>1, <2>2, PublishingFrame
  <1>23. ASSUME NEW t \in Threads, RecordTerminal(t) PROVE Publishing' /\ OutcomeMatches'
    <2>1. UNCHANGED <<state, output, locked, tgt, res>> /\ \E l : l # "cas" /\ Goto(t, l)
      BY <1>23 DEF RecordTerminal
    <2>2. CasKept
      BY <1>a, <1>d, <2>1, GotoKeeps
    <2> QED
      BY <2>1, <2>2, PublishingFrame
  <1>24. ASSUME NEW t \in Threads, ReleaseSlot(t) PROVE Publishing' /\ OutcomeMatches'
    <2>1. UNCHANGED <<state, output, locked, tgt, res>> /\ \E l : l # "cas" /\ Goto(t, l)
      BY <1>24 DEF ReleaseSlot
    <2>2. CasKept
      BY <1>a, <1>d, <2>1, GotoKeeps
    <2> QED
      BY <2>1, <2>2, PublishingFrame
  <1>25. ASSUME NEW t \in Threads, CallShutdown(t) PROVE Publishing' /\ OutcomeMatches'
    <2>1. UNCHANGED <<state, output, locked, tgt, res>> /\ \E l : l # "cas" /\ Goto(t, l)
      BY <1>25 DEF CallShutdown
    <2>2. CasKept
      BY <1>a, <1>d, <2>1, GotoKeeps
    <2> QED
      BY <2>1, <2>2, PublishingFrame
  <1>26. ASSUME NEW t \in Threads, BeginShutdown(t) PROVE Publishing' /\ OutcomeMatches'
    <2>1. UNCHANGED <<state, output, locked, tgt, res>> /\ \E l : l # "cas" /\ Goto(t, l)
      BY <1>26 DEF BeginShutdown
    <2>2. CasKept
      BY <1>a, <1>d, <2>1, GotoKeeps
    <2> QED
      BY <2>1, <2>2, PublishingFrame
  <1>27. ASSUME NEW t \in Threads, Observe(t) PROVE Publishing' /\ OutcomeMatches'
    <2>1. /\ UNCHANGED <<state, output, locked>>
          /\ Return(t) \/ (Goto(t, "discard") /\ UNCHANGED <<tgt, res>>)
      BY <1>27 DEF Observe
    <2>2. CasKept
      BY <1>a, <2>1, GotoKeeps, ReturnKeeps
    <2> QED
      BY <2>1, <2>2, PublishingFrame
  <1>28. ASSUME NEW t \in Threads, Discard(t) PROVE Publishing' /\ OutcomeMatches'
    <2>1. UNCHANGED <<state, output, locked>> /\ Return(t)
      BY <1>28 DEF Discard
    <2>2. CasKept
      BY <1>a, <2>1, ReturnKeeps
    <2> QED
      BY <2>1, <2>2, PublishingFrame
  <1>29. ASSUME NEW t \in Threads, WakeAll(t) PROVE Publishing' /\ OutcomeMatches'
    <2>1. UNCHANGED <<state, output, locked, tgt, res>>
      BY <1>29 DEF WakeAll
    <2>2. \A u \in Threads : pc'[u] = pc[u] \/ pc'[u] \in {"drain", "loop"}
      BY <1>29 DEF WakeAll
    <2>3. CasKept
      BY <2>1, <2>2 DEF CasKept
    <2> QED
      BY <2>1, <2>3, PublishingFrame
  <1>30. ASSUME NEW t \in Threads, DrainNext(t) PROVE Publishing' /\ OutcomeMatches'
    <2>1. /\ UNCHANGED <<state, output, locked, res>> /\ Goto(t, "dequeue")
          /\ \A u \in Threads \ {t} : tgt'[u] = tgt[u]
      BY <1>a, <1>30 DEF DrainNext, TypeOK
    <2>2. CasKept
      BY <1>a, <1>d, <2>1, GotoKeeps
    <2> QED
      BY <2>1, <2>2, PublishingFrame
  <1>31. ASSUME NEW t \in Threads, DrainDone(t) PROVE Publishing' /\ OutcomeMatches'
    <2>1. UNCHANGED <<state, output, locked, tgt, res>>
      BY <1>31 DEF DrainDone
    <2>2. \A u \in Threads : pc'[u] = pc[u] \/ pc'[u] \in {"await", "task", "idle"}
      BY <1>31 DEF DrainDone
    <2>3. CasKept
      BY <2>1, <2>2 DEF CasKept
    <2> QED
      BY <2>1, <2>3, PublishingFrame
  <1>32. ASSUME NEW t \in Threads, PublishSet(t) PROVE Publishing' /\ OutcomeMatches'
    <2>1. pc[t] = "set" /\ state' = state /\ tgt[t] \in Jobs /\ tgt[t] \notin locked
      BY <1>32, <1>a, TargetOfControl DEF PublishSet, Deciding
    <2>2. CASE Return(t) /\ UNCHANGED <<output, locked>>
      BY <1>a, <2>1, <2>2, ReturnKeeps, PublishingFrame
    <2>3. CASE /\ state[tgt[t]] = From(t) /\ output' = [output EXCEPT ![tgt[t]] = res[t]]
               /\ locked' = locked \cup {tgt[t]} /\ Goto(t, "cas") /\ UNCHANGED <<tgt, res>>
      <3>1. state[tgt[t]] \notin Terminal
        BY <2>3 DEF From, Terminal
      <3>2. \A u \in Threads : pc'[u] = "cas" => u = t \/ (pc[u] = "cas" /\ tgt[u] # tgt[t])
        BY <1>a, <2>1, <2>3, GotoMoves DEF Publishing
      <3>3. \A k \in Jobs : output'[k] = IF k = tgt[t] THEN res[t] ELSE output[k]
        BY <1>a, <2>1, <2>3 DEF TypeOK
      <3>4. \A u \in Threads : pc[u] = "cas" => tgt[u] \in Jobs
        BY <1>a, TargetOfControl DEF Deciding
      <3>5. Publishing'
        BY <2>1, <2>3, <3>1, <3>2, <3>3, <3>4 DEF Publishing
      <3>6. OutcomeMatches'
        BY <2>1, <2>3, <3>1, <3>3 DEF OutcomeMatches
      <3> QED
        BY <3>5, <3>6
    <2> QED
      BY <1>32, <2>2, <2>3 DEF PublishSet
  <1>33. ASSUME NEW t \in Threads, PublishCas(t) PROVE Publishing' /\ OutcomeMatches'
    <2>1. pc[t] = "cas" /\ locked' = locked \ {tgt[t]} /\ tgt[t] \in Jobs
      BY <1>33, <1>a, TargetOfControl DEF PublishCas, Deciding
    <2>2. output[tgt[t]] = res[t] /\ state[tgt[t]] \notin Terminal
      BY <2>1 DEF Publishing
    <2>3. ASSUME CasKept, pc'[t] # "cas"
          PROVE  \A u \in Threads : pc'[u] = "cas" => pc[u] = "cas" /\ tgt'[u] = tgt[u] /\ res'[u] = res[u] /\ tgt[u] # tgt[t]
      BY <2>1, <2>3 DEF CasKept, Publishing
    <2>4. \A u \in Threads : pc[u] = "cas" => tgt[u] \in Jobs
      BY <1>a, TargetOfControl DEF Deciding
    <2>5. CASE state' = [state EXCEPT ![tgt[t]] = TerminalOf(res[t])] /\ Goto(t, "record") /\ UNCHANGED <<output, tgt, res>>
      <3>1. CasKept /\ pc'[t] # "cas"
        BY <1>a, <2>5, GotoKeeps, GotoMoves
      <3>2. \A k \in Jobs : state'[k] = IF k = tgt[t] THEN TerminalOf(res[t]) ELSE state[k]
        BY <1>a, <2>1, <2>5 DEF TypeOK
      <3>3. Publishing'
        <4>1. \A u \in Threads : pc'[u] = "cas" => pc[u] = "cas" /\ tgt'[u] = tgt[u] /\ res'[u] = res[u] /\ tgt[u] # tgt[t]
          BY <2>3, <3>1
        <4>2. ASSUME NEW u \in Threads, pc'[u] = "cas"
              PROVE  /\ tgt'[u] \in locked' /\ output'[tgt'[u]] = res'[u]
                     /\ state'[tgt'[u]] \notin Terminal
          <5>1. /\ pc[u] = "cas" /\ tgt'[u] = tgt[u] /\ res'[u] = res[u] /\ tgt[u] # tgt[t]
                /\ tgt[u] \in Jobs
            BY <2>4, <4>1, <4>2
          <5>2. tgt[u] \in locked /\ output[tgt[u]] = res[u] /\ state[tgt[u]] \notin Terminal
            BY <5>1 DEF Publishing
          <5> QED
            BY <2>1, <2>5, <3>2, <5>1, <5>2
        <4>3. ASSUME NEW u \in Threads, NEW v \in Threads, pc'[u] = "cas", pc'[v] = "cas",
                     tgt'[v] = tgt'[u]
              PROVE  v = u
          BY <4>1, <4>3 DEF Publishing
        <4> QED
          BY <4>2, <4>3 DEF Publishing
      <3>4. TerminalOf(res[t]) \in Terminal /\ res[t] \in Results
        BY <1>a DEF TerminalOf, Terminal, TypeOK
      <3>5. OutcomeMatches'
        BY <2>1, <2>2, <2>5, <3>2, <3>4 DEF OutcomeMatches
      <3> QED
        BY <3>3, <3>5
    <2>6. CASE output' = [output EXCEPT ![tgt[t]] = "empty"] /\ Return(t) /\ state' = state
      <3>1. CasKept
        BY <1>a, <2>6, ReturnKeeps
      <3>2. pc'[t] # "cas"
        BY <1>a, <2>6, ReturnMoves DEF Resume
      <3>3. \A k \in Jobs : output'[k] = IF k = tgt[t] THEN "empty" ELSE output[k]
        BY <1>a, <2>1, <2>6 DEF TypeOK
      <3>4. Publishing'
        BY <2>1, <2>3, <2>4, <2>6, <3>1, <3>2, <3>3 DEF Publishing
      <3>5. OutcomeMatches'
        BY <2>1, <2>2, <2>6, <3>3 DEF OutcomeMatches
      <3> QED
        BY <3>4, <3>5
    <2> QED
      BY <1>33, <2>5, <2>6 DEF PublishCas
  <1>34. ASSUME NEW j \in Jobs, TakeOutput(j) PROVE Publishing' /\ OutcomeMatches'
    <2>1. /\ state[j] \in Terminal /\ output' = [output EXCEPT ![j] = "taken"]
          /\ UNCHANGED <<state, locked, pc, tgt, res>>
      BY <1>34 DEF TakeOutput
    <2>2. \A k \in Jobs : output'[k] = IF k = j THEN "taken" ELSE output[k]
      BY <1>a, <2>1 DEF TypeOK
    <2>3. \A u \in Threads : pc[u] = "cas" => tgt[u] \in Jobs /\ tgt[u] # j
      BY <1>a, <2>1, TargetOfControl DEF Publishing, Deciding
    <2>4. Publishing'
      BY <2>1, <2>2, <2>3 DEF Publishing
    <2>5. OutcomeMatches'
      BY <2>1, <2>2 DEF OutcomeMatches
    <2> QED
      BY <2>4, <2>5
  <1>35. ASSUME NEW j \in Jobs, Deadline(j) PROVE Publishing' /\ OutcomeMatches'
    BY <1>35, PublishingFrame DEF Deadline, CasKept
  <1>36. CASE UNCHANGED vars
    BY <1>36, PublishingFrame DEF CasKept
  <1> QED
    BY <1>1, <1>2, <1>3, <1>4, <1>5, <1>6, <1>7, <1>8, <1>9, <1>10, <1>11, <1>12,
       <1>13, <1>14, <1>15, <1>16, <1>17, <1>18, <1>19, <1>20, <1>21, <1>22, <1>23,
       <1>24, <1>25, <1>26, <1>27, <1>28, <1>29, <1>30, <1>31, <1>32, <1>33, <1>34,
       <1>35, <1>36
       DEF Next, ClientStep, WorkerStep, ThreadStep

\* The invariant from which the outcome theorems follow.
OutcomeInv == Inductive /\ Publishing /\ OutcomeMatches

\* It holds in every reachable state.
LEMMA OutcomeAlways == Spec => []OutcomeInv
  <1>1. Init => OutcomeInv
    <2> SUFFICES ASSUME Init PROVE Publishing /\ OutcomeMatches
      BY InductiveInit DEF OutcomeInv
    <2>1. \A t \in Threads : pc[t] # "cas"
      BY DEF Init
    <2>2. \A j \in Jobs : state[j] \notin Terminal /\ output[j] = "empty"
      BY DEF Init, Terminal
    <2> QED
      BY <2>1, <2>2 DEF Publishing, OutcomeMatches
  <1>2. OutcomeInv /\ [Next]_vars => OutcomeInv'
    BY InductiveStep, OutcomeStep DEF OutcomeInv
  <1> QED
    BY <1>1, <1>2, PTL DEF Spec

\* The stored result always agrees with the published status, and an undecided
\* job's slot is empty unless its publisher holds the output mutex: what
\* publish_terminal's store, compare-exchange and restore are for.
THEOREM OutcomeCorrect == Spec => []OutcomeMatches
  BY OutcomeAlways, PTL DEF OutcomeInv

\* A step changes neither the status nor, except for a reader taking it, the
\* result of a job that is decided.
LEMMA DecidedStep ==
  ASSUME Inductive, Publishing, [Next]_vars, NEW j \in Jobs, state[j] \in Terminal
  PROVE  state'[j] = state[j] /\ output'[j] \in {output[j], "taken"}
  <1>a. TypeOK /\ Control /\ Custody
    BY DEF Inductive
  <1>1. CASE state' = state /\ output' = output
    BY <1>1
  <1>2. ASSUME NEW c \in Clients, NEW o \in Owners, SubmitAdmit(c, o)
        PROVE  state'[j] = state[j] /\ output' = output
    <2>1. state[counters["submitted"] + 1] = "none"
      BY <1>2, <1>a DEF SubmitAdmit, Custody, TypeOK, CounterNames
    <2>2. j # counters["submitted"] + 1
      BY <2>1 DEF Terminal
    <2> QED
      BY <1>2, <1>a, <2>2 DEF SubmitAdmit, TypeOK
  <1>3. ASSUME NEW w \in Workers, TryStart(w)
        PROVE  state'[j] = state[j] /\ output' = output
    BY <1>3, <1>a DEF TryStart, TypeOK, Terminal
  <1>4. ASSUME NEW t \in Threads, PublishSet(t)
        PROVE  state'[j] = state[j] /\ output'[j] = output[j]
    <2>1. state[tgt[t]] = From(t) => tgt[t] # j
      BY DEF From, Terminal
    <2> QED
      BY <1>4, <1>a, <2>1 DEF PublishSet, TypeOK
  <1>5. ASSUME NEW t \in Threads, PublishCas(t)
        PROVE  state'[j] = state[j] /\ output'[j] = output[j]
    <2>1. tgt[t] # j
      BY <1>5 DEF PublishCas, Publishing
    <2> QED
      BY <1>5, <1>a, <2>1 DEF PublishCas, TypeOK
  <1>6. ASSUME NEW k \in Jobs, TakeOutput(k)
        PROVE  state'[j] = state[j] /\ output'[j] \in {output[j], "taken"}
    BY <1>6, <1>a DEF TakeOutput, TypeOK
  <1>7. ASSUME NEW c \in Clients,
             SubmitSweep(c) \/ SubmitNotify(c) \/ JoinShutdown(c) \/ AwaitShutdown(c)
        PROVE  state' = state /\ output' = output
    BY <1>7 DEF SubmitSweep, SubmitNotify, JoinShutdown, AwaitShutdown
  <1>8. ASSUME NEW c \in Clients,
             JoinPass(c) \/ JoinAgain(c) \/ JoinTimeout(c) \/ CompleteShutdown(c)
        PROVE  state' = state /\ output' = output
    BY <1>8 DEF JoinPass, JoinAgain, JoinTimeout, CompleteShutdown
  <1>9. ASSUME NEW c \in Clients, NEW o \in Owners,
             SubmitReject(c, o)
        PROVE  state' = state /\ output' = output
    BY <1>9 DEF SubmitReject
  <1>10. ASSUME NEW c \in Clients, NEW k \in Jobs,
             Cancel(c, k)
        PROVE  state' = state /\ output' = output
    BY <1>10 DEF Cancel
  <1>11. ASSUME NEW w \in Workers,
             WorkerSweep(w) \/ WorkerPop(w) \/ WorkerIdle(w) \/ SpuriousWake(w)
        PROVE  state' = state /\ output' = output
    BY <1>11 DEF WorkerSweep, WorkerPop, WorkerIdle, SpuriousWake
  <1>12. ASSUME NEW w \in Workers,
             CountRunning(w) \/ RunCheck(w) \/ TaskReturns(w)
        PROVE  state' = state /\ output' = output
    BY <1>12 DEF CountRunning, RunCheck, TaskReturns
  <1>13. ASSUME NEW t \in Threads,
             CancelDequeue(t) \/ ExpireNext(t) \/ ExpireDone(t) \/ RecordTerminal(t)
        PROVE  state' = state /\ output' = output
    BY <1>13 DEF CancelDequeue, ExpireNext, ExpireDone, RecordTerminal
  <1>14. ASSUME NEW t \in Threads,
             ReleaseSlot(t) \/ Observe(t) \/ Discard(t)
        PROVE  state' = state /\ output' = output
    BY <1>14 DEF ReleaseSlot, Observe, Discard
  <1>15. ASSUME NEW t \in Threads,
             CallShutdown(t) \/ BeginShutdown(t) \/ WakeAll(t) \/ DrainNext(t) \/ DrainDone(t)
        PROVE  state' = state /\ output' = output
    BY <1>15 DEF CallShutdown, BeginShutdown, WakeAll, DrainNext, DrainDone
  <1>16. ASSUME NEW k \in Jobs, Deadline(k) PROVE state' = state /\ output' = output
    BY <1>16 DEF Deadline
  <1>17. CASE UNCHANGED vars
    BY <1>17
  <1> QED
    BY <1>1, <1>2, <1>3, <1>4, <1>5, <1>6, <1>7, <1>8, <1>9, <1>10, <1>11, <1>12,
       <1>13, <1>14, <1>15, <1>16, <1>17
       DEF Next, ClientStep, WorkerStep, ThreadStep

\* A job has one outcome: whatever cancels, sweeps, workers and losers of the
\* publication race do later, its status and its result stay as published.
THEOREM OutcomeStays == Spec => OneOutcome
  <1>1. OutcomeInv /\ [Next]_vars =>
          [\A j \in Jobs : state[j] \in Terminal =>
             /\ state'[j] = state[j]
             /\ output'[j] \in {output[j], "taken"}]_vars
    BY DecidedStep DEF OutcomeInv
  <1> QED
    BY <1>1, OutcomeAlways, PTL DEF Spec, OneOutcome
=============================================================================
