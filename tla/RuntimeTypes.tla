---------------------------- MODULE RuntimeTypes ----------------------------
(***************************************************************************)
(* The step lemma of Runtime's type invariant, relative to the control     *)
(* invariant (defined here, proved preserved in RuntimeControl) and to the *)
(* running counter being positive where it is decremented.                 *)
(***************************************************************************)
EXTENDS Runtime, TLAPS, SequenceTheorems, FiniteSetTheorems

\* Removing an element of a sequence (VecDeque::remove).
LEMMA WithoutType ==
  ASSUME NEW S, NEW s \in Seq(S), NEW i \in 1..Len(s)
  PROVE  /\ Without(s, i) \in Seq(S)
         /\ Len(Without(s, i)) = Len(s) - 1
         /\ \A k \in 1..(Len(s) - 1) : Without(s, i)[k] = IF k < i THEN s[k] ELSE s[k+1]
  <1>1. Len(s) \in Nat /\ Len(s) - 1 \in Nat
    OBVIOUS
  <1>2. \A k \in 1..(Len(s) - 1) : (IF k < i THEN s[k] ELSE s[k+1]) \in S
    BY <1>1
  <1>3. Without(s, i) \in [1..(Len(s) - 1) -> S]
    BY <1>2 DEF Without
  <1>4. Without(s, i) \in Seq(S)
    BY <1>1, <1>3, IsASeq DEF Without
  <1> QED
    BY <1>1, <1>3, <1>4, LenProperties DEF Without

\* The variables of the module, in one place.
USE DEF jobVars, queueVars, threadVars, shutdownVars, history, vars

\* The members of the enumerated sets.
LEMMA Members ==
  /\ {"idle", "admit", "notify", "expire", "dequeue", "set", "cas", "record",
      "release", "observe", "discard", "begin", "wakeall", "drain", "await",
      "parked", "join", "joinwait", "complete", "loop", "wait", "start", "count",
      "check", "task", "exit"} \subseteq Labels
  /\ {"none", "sweep", "cancel", "request", "shutdown", "run"} \subseteq Ops
  /\ {"ok", "cancelled", "timeout", "error"} \subseteq Results
  BY DEF Labels, Ops, Results

\* The control part of the type invariant.
ControlOK ==
  /\ pc \in [Threads -> Labels]
  /\ op \in [Threads -> Ops]
  /\ tgt \in [Threads -> 0..MaxJobs]
  /\ res \in [Threads -> Results]

\* What a sweep splits the queue into.
LEMMA SweepType ==
  ASSUME NEW q \in Seq(Jobs), NEW k \in 1..Len(q)
  PROVE  /\ SubSeq(q, k+1, Len(q)) \in Seq(Jobs)
         /\ {q[i] : i \in 1..k} \subseteq Jobs
         /\ Len(SubSeq(q, k+1, Len(q))) = Len(q) - k
         /\ \A i \in 1..(Len(q) - k) : SubSeq(q, k+1, Len(q))[i] = q[i+k]
  <1>1. /\ Len(q) \in Nat /\ k+1 \in Int /\ Len(q) \in Int
        /\ \A i \in 1..Len(q) : q[i] \in Jobs
    OBVIOUS
  <1>2. \A i \in (k+1)..Len(q) : q[i] \in Jobs
    BY <1>1
  <1>3. /\ SubSeq(q, k+1, Len(q)) \in Seq(Jobs)
        /\ Len(SubSeq(q, k+1, Len(q))) = IF k+1 <= Len(q) THEN Len(q)-(k+1)+1 ELSE 0
        /\ \A i \in 1..(Len(q)-(k+1)+1) : SubSeq(q, k+1, Len(q))[i] = q[(k+1)+i-1]
    BY <1>1, <1>2, SubSeqProperties
  <1> QED
    BY <1>1, <1>3

\* A job's slot can be emptied whatever is in it.
LEMMA DropType ==
  ASSUME task \in [Jobs -> {"held", "taken", "dropped"}], NEW j, Drop(j)
  PROVE  task' \in [Jobs -> {"held", "taken", "dropped"}]
  BY DEF Drop

\* Going to a label keeps the program counters labels.
LEMMA GotoType ==
  ASSUME pc \in [Threads -> Labels], NEW t, NEW l \in Labels, Goto(t, l)
  PROVE  pc' \in [Threads -> Labels]
  BY DEF Goto

\* Starting a publication keeps the control variables in their types.
LEMMA PublishType ==
  ASSUME ControlOK, NEW t, NEW o \in Ops, NEW j \in 0..MaxJobs, NEW r \in Results,
         Publish(t, o, j, r)
  PROVE  ControlOK'
  BY Members DEF Publish, Goto, ControlOK

\* Budget::check answers with a result.
LEMMA BudgetType ==
  ASSUME NEW j
  PROVE  BudgetCheck(j) \in Results
  BY Members DEF BudgetCheck

\* Returning from a publication keeps the control variables in their types.
LEMMA ReturnType ==
  ASSUME ControlOK, run \in [Workers -> 0..MaxJobs], NEW t \in Threads, Return(t)
  PROVE  ControlOK' /\ run' \in [Workers -> 0..MaxJobs]
  <1>1. Resume(t) \in Labels
    BY Members DEF Resume
  <1>2. 0 \in 0..MaxJobs
    BY RuntimeAssumption
  <1>3. pc' \in [Threads -> Labels]
    BY <1>1, GotoType DEF Return, ControlOK
  <1>4. op' \in [Threads -> Ops]
    BY Members DEF Return, ControlOK
  <1>5. tgt' \in [Threads -> 0..MaxJobs] /\ res' \in [Threads -> Results]
    BY <1>2, Members DEF Return, ControlOK
  <1>6. run' \in [Workers -> 0..MaxJobs]
    BY <1>2 DEF Return
  <1> QED
    BY <1>3, <1>4, <1>5, <1>6 DEF ControlOK

\* Where a thread can be while it is publishing a terminal status.
Deciding == {"set", "cas", "record", "release", "observe", "discard"}

\* The control states of a worker. A task that requests a shutdown keeps its
\* job; a worker that ends its own job publishes it and nothing else.
WorkerCtl(w) ==
  \/ op[w] = "none" /\ pc[w] \in {"loop", "wait", "exit"}
  \/ op[w] = "none" /\ pc[w] \in {"start", "count", "check", "task"} /\ run[w] \in Jobs
  \/ op[w] = "sweep" /\ pc[w] = "expire"
  \/ op[w] = "sweep" /\ pc[w] \in Deciding /\ tgt[w] \in Jobs
  \/ op[w] = "request" /\ pc[w] \in {"begin", "wakeall", "drain"} /\ run[w] \in Jobs
  \/ /\ op[w] = "request" /\ pc[w] \in Deciding \cup {"dequeue"}
     /\ run[w] \in Jobs /\ tgt[w] \in Jobs
  \/ /\ op[w] = "run" /\ pc[w] \in Deciding \ {"discard"}
     /\ run[w] \in Jobs /\ tgt[w] = run[w]

\* The control states of a client.
ClientCtl(c) ==
  \/ op[c] = "none" /\ pc[c] \in {"idle", "admit", "notify", "await", "parked",
                                  "join", "joinwait", "complete"}
  \/ op[c] = "sweep" /\ pc[c] = "expire"
  \/ op[c] = "sweep" /\ pc[c] \in Deciding /\ tgt[c] \in Jobs
  \/ op[c] \in {"request", "shutdown"} /\ pc[c] \in {"begin", "wakeall", "drain"}
  \/ /\ op[c] \in {"cancel", "request", "shutdown"}
     /\ pc[c] \in Deciding \cup {"dequeue"} /\ tgt[c] \in Jobs

Control ==
  /\ \A w \in Workers : WorkerCtl(w)
  /\ \A c \in Clients : ClientCtl(c)

\* A thread in publish_terminal, or dequeuing, has a job in hand.
LEMMA TargetOfControl ==
  ASSUME Control, NEW t \in Threads, pc[t] \in Deciding \cup {"dequeue"}
  PROVE  tgt[t] \in Jobs /\ op[t] # "none"
  BY DEF Control, WorkerCtl, ClientCtl, Deciding, Threads

\* A worker that has to take its job off the running count finds it counted.
RunPositive ==
  \A t \in Threads : pc[t] = "record" /\ op[t] = "run" => counters["running"] > 0

\* Every handler of the pool keeps every variable in its type.
LEMMA TypeStep ==
  ASSUME TypeOK, Control, RunPositive, [Next]_vars
  PROVE  TypeOK'
  <1>t. ControlOK /\ Workers \subseteq Threads /\ Clients \subseteq Threads
    BY DEF TypeOK, ControlOK, Threads
  <1>m. Jobs \subseteq 0..MaxJobs
    BY DEF Jobs
  <1>n. TerminalOf("ok") \in CounterNames /\ "submitted" \in CounterNames
          /\ "running" \in CounterNames /\ "detached" \in CounterNames
    BY DEF CounterNames, TerminalOf
  <1>1. ASSUME NEW c \in Clients, SubmitSweep(c) PROVE TypeOK'
    <2>1. PICK k \in 1..Len(queue) :
            /\ todo' = [todo EXCEPT ![c] = {queue[i] : i \in 1..k}]
            /\ queue' = SubSeq(queue, k+1, Len(queue))
      BY <1>1 DEF SubmitSweep
    <2>2. queue' \in Seq(Jobs) /\ {queue[i] : i \in 1..k} \subseteq Jobs
      BY <2>1, SweepType DEF TypeOK
    <2>3. todo' \in [Threads -> SUBSET Jobs]
      BY <2>1, <2>2 DEF TypeOK
    <2>4. ControlOK'
      BY <1>1, <1>t, Members DEF SubmitSweep, Goto, ControlOK
    <2> QED
      BY <1>1, <2>2, <2>3, <2>4 DEF TypeOK, SubmitSweep, ControlOK
  <1>2. ASSUME NEW c \in Clients, NEW o \in Owners, SubmitReject(c, o) PROVE TypeOK'
    BY <1>2, GotoType, Members DEF TypeOK, SubmitReject
  <1>3. ASSUME NEW c \in Clients, NEW o \in Owners, SubmitAdmit(c, o) PROVE TypeOK'
    <2> DEFINE j == counters["submitted"] + 1
    <2>1. /\ j \in Jobs
          /\ state' = [state EXCEPT ![j] = "queued"]
          /\ owner' = [owner EXCEPT ![j] = o]
          /\ active' = active \cup {j}
          /\ owners' = [owners EXCEPT ![o] = @ + 1]
          /\ queue' = Append(queue, j)
          /\ counters' = [counters EXCEPT !["submitted"] = j]
      BY <1>3 DEF SubmitAdmit
    <2> HIDE DEF j
    <2>2. state' \in [Jobs -> {"none", "queued", "running"} \cup Terminal]
      BY <2>1 DEF TypeOK
    <2>3. owner' \in [Jobs -> Owners] /\ active' \subseteq Jobs /\ queue' \in Seq(Jobs)
      BY <2>1 DEF TypeOK
    <2>4. owners' \in [Owners -> Nat]
      BY <2>1 DEF TypeOK
    <2>5. j \in Nat
      BY <1>n DEF TypeOK, j
    <2>6. counters' \in [CounterNames -> Nat]
      BY <2>1, <2>5, <1>n DEF TypeOK
    <2>7. pc' \in [Threads -> Labels]
      BY <1>3, GotoType, Members DEF SubmitAdmit, TypeOK
    <2> QED
      BY <1>3, <2>2, <2>3, <2>4, <2>6, <2>7 DEF SubmitAdmit, TypeOK
  <1>4. ASSUME NEW c \in Clients, SubmitNotify(c) PROVE TypeOK'
    <2>1. pc' \in [Threads -> Labels]
      BY <1>4, GotoType, Members DEF SubmitNotify, TypeOK
    <2> QED
      BY <1>4, <2>1 DEF SubmitNotify, TypeOK
  <1>5. ASSUME NEW c \in Clients, NEW j \in Jobs, Cancel(c, j) PROVE TypeOK'
    <2>1. ControlOK'
      BY <1>5, <1>t, <1>m, Members DEF Cancel, Goto, ControlOK
    <2>2. flagged' \subseteq Jobs /\ lateCancel' \subseteq Jobs
      BY <1>5 DEF Cancel, RaiseFlag, TypeOK
    <2> QED
      BY <1>5, <2>1, <2>2 DEF Cancel, TypeOK, ControlOK
  <1>6. ASSUME NEW c \in Clients, JoinShutdown(c) PROVE TypeOK'
    BY <1>6, GotoType, Members DEF JoinShutdown, TypeOK
  <1>7. ASSUME NEW c \in Clients, AwaitShutdown(c) PROVE TypeOK'
    <2>1. pc' \in [Threads -> Labels]
      BY <1>7, GotoType, Members DEF AwaitShutdown, TypeOK
    <2>2. joinClaimed' \in BOOLEAN
      BY <1>7 DEF AwaitShutdown, TypeOK
    <2> QED
      BY <1>7, <2>1, <2>2 DEF AwaitShutdown, TypeOK
  <1>8. ASSUME NEW c \in Clients, JoinPass(c) PROVE TypeOK'
    <2>1. pc' \in [Threads -> Labels]
      BY <1>8, GotoType, Members DEF JoinPass, TypeOK
    <2> QED
      BY <1>8, <2>1 DEF JoinPass, TypeOK
  <1>9. ASSUME NEW c \in Clients, JoinAgain(c) PROVE TypeOK'
    BY <1>9, GotoType, Members DEF JoinAgain, TypeOK
  <1>10. ASSUME NEW c \in Clients, JoinTimeout(c) PROVE TypeOK'
    <2>1. Cardinality(handles) \in Nat
      BY RuntimeAssumption, FS_Subset, FS_CardinalityType DEF TypeOK
    <2>2. counters' = [counters EXCEPT !["detached"] =
                         counters["detached"] + Cardinality(handles)]
      BY <1>10 DEF JoinTimeout
    <2>3. counters' \in [CounterNames -> Nat]
      BY <2>1, <2>2, <1>n DEF TypeOK
    <2>4. pc' \in [Threads -> Labels]
      BY <1>10, GotoType, Members DEF JoinTimeout, TypeOK
    <2> QED
      BY <1>10, <2>3, <2>4 DEF JoinTimeout, TypeOK
  <1>11. ASSUME NEW c \in Clients, CompleteShutdown(c) PROVE TypeOK'
    <2>1. pc' \in [Threads -> Labels]
      BY <1>11, Members DEF CompleteShutdown, TypeOK
    <2> QED
      BY <1>11, <2>1 DEF CompleteShutdown, TypeOK
  <1>12. ASSUME NEW w \in Workers, WorkerSweep(w) PROVE TypeOK'
    <2>1. PICK k \in 1..Len(queue) :
            /\ todo' = [todo EXCEPT ![w] = {queue[i] : i \in 1..k}]
            /\ queue' = SubSeq(queue, k+1, Len(queue))
      BY <1>12 DEF WorkerSweep
    <2>2. queue' \in Seq(Jobs) /\ {queue[i] : i \in 1..k} \subseteq Jobs
      BY <2>1, SweepType DEF TypeOK
    <2>3. todo' \in [Threads -> SUBSET Jobs]
      BY <2>1, <2>2 DEF TypeOK
    <2>4. ControlOK'
      BY <1>12, <1>t, Members DEF WorkerSweep, Goto, ControlOK
    <2> QED
      BY <1>12, <2>2, <2>3, <2>4 DEF TypeOK, WorkerSweep, ControlOK
  <1>13. ASSUME NEW w \in Workers, WorkerPop(w) PROVE TypeOK'
    <2>1. queue # <<>> /\ queue' = Tail(queue) /\ run' = [run EXCEPT ![w] = Head(queue)]
      BY <1>13 DEF WorkerPop
    <2>2. queue' \in Seq(Jobs) /\ Head(queue) \in 0..MaxJobs
      BY <2>1, <1>m, HeadTailProperties DEF TypeOK
    <2>3. run' \in [Workers -> 0..MaxJobs]
      BY <2>1, <2>2 DEF TypeOK
    <2>4. pc' \in [Threads -> Labels]
      BY <1>13, GotoType, Members DEF WorkerPop, TypeOK
    <2> QED
      BY <1>13, <2>2, <2>3, <2>4 DEF TypeOK, WorkerPop
  <1>14. ASSUME NEW w \in Workers, WorkerIdle(w) \/ SpuriousWake(w) PROVE TypeOK'
    <2>1. pc' \in [Threads -> Labels]
      BY <1>14, GotoType, Members DEF WorkerIdle, SpuriousWake, TypeOK
    <2> QED
      BY <1>14, <2>1 DEF TypeOK, WorkerIdle, SpuriousWake
  <1>15. ASSUME NEW w \in Workers, TryStart(w) PROVE TypeOK'
    <2>1. pc' \in [Threads -> Labels]
      BY <1>15, GotoType, Members DEF TryStart, TypeOK
    <2>2. state' \in [Jobs -> {"none", "queued", "running"} \cup Terminal]
      BY <1>15 DEF TryStart, TypeOK
    <2>3. task' \in [Jobs -> {"held", "taken", "dropped"}]
      BY <1>15, DropType DEF TryStart, TypeOK
    <2>4. run' \in [Workers -> 0..MaxJobs]
      <3>1. 0 \in 0..MaxJobs
        BY RuntimeAssumption
      <3> QED
        BY <1>15, <3>1 DEF TryStart, TypeOK
    <2> QED
      BY <1>15, <2>1, <2>2, <2>3, <2>4 DEF TryStart, TypeOK
  <1>16. ASSUME NEW w \in Workers, CountRunning(w) PROVE TypeOK'
    <2>1. counters' = [counters EXCEPT !["running"] = counters["running"] + 1]
      BY <1>16 DEF CountRunning
    <2>2. counters' \in [CounterNames -> Nat]
      BY <2>1, <1>n DEF TypeOK
    <2>3. pc' \in [Threads -> Labels]
      BY <1>16, GotoType, Members DEF CountRunning, TypeOK
    <2> QED
      BY <1>16, <2>2, <2>3 DEF CountRunning, TypeOK
  <1>17. ASSUME NEW w \in Workers, RunCheck(w) PROVE TypeOK'
    <2>1. \/ \E r \in Results : Publish(w, "run", run[w], r)
          \/ Goto(w, "task") /\ UNCHANGED <<op, tgt, res>>
      BY <1>17, BudgetType, Members DEF RunCheck
    <2>2. ControlOK'
      <3>1. CASE Goto(w, "task") /\ UNCHANGED <<op, tgt, res>>
        BY <3>1, <1>t, GotoType, Members DEF ControlOK
      <3>2. CASE \E r \in Results : Publish(w, "run", run[w], r)
        BY <3>2, <1>t, PublishType, Members DEF TypeOK
      <3> QED
        BY <2>1, <3>1, <3>2
    <2>3. task' \in [Jobs -> {"held", "taken", "dropped"}]
      <3>1. task \in [Jobs -> {"held", "taken", "dropped"}]
        BY DEF TypeOK
      <3>2. Drop(run[w]) \/ task' = [task EXCEPT ![run[w]] = "taken"]
        BY <1>17 DEF RunCheck
      <3> QED
        BY <3>1, <3>2 DEF Drop
    <2> QED
      BY <1>17, <2>2, <2>3 DEF RunCheck, TypeOK, ControlOK
  <1>18. ASSUME NEW w \in Workers, TaskReturns(w) PROVE TypeOK'
    <2>1. \E r \in Results : Publish(w, "run", run[w], r)
      BY <1>18 DEF TaskReturns
    <2>2. ControlOK'
      BY <2>1, <1>t, PublishType, Members DEF TypeOK
    <2> QED
      BY <1>18, <2>2 DEF TaskReturns, TypeOK, ControlOK
  <1>19. ASSUME NEW t \in Threads, CancelDequeue(t) PROVE TypeOK'
    <2>1. queue' \in Seq(Jobs)
      <3>1. queue \in Seq(Jobs)
        BY DEF TypeOK
      <3>2. queue' = queue \/ \E i \in 1..Len(queue) : queue' = Without(queue, i)
        BY <1>19 DEF CancelDequeue
      <3> QED
        BY <3>1, <3>2, WithoutType
    <2>2. Publish(t, op[t], tgt[t], "cancelled") /\ op[t] \in Ops /\ tgt[t] \in 0..MaxJobs
      BY <1>19 DEF CancelDequeue, TypeOK
    <2>3. ControlOK'
      BY <2>2, <1>t, PublishType, Members
    <2> QED
      BY <1>19, <2>1, <2>3 DEF CancelDequeue, TypeOK, ControlOK
  <1>20. ASSUME NEW t \in Threads, ExpireNext(t) PROVE TypeOK'
    <2>1. PICK j \in todo[t] : todo' = [todo EXCEPT ![t] = @ \ {j}]
                               /\ Publish(t, "sweep", j, "timeout")
      BY <1>20 DEF ExpireNext
    <2>2. j \in 0..MaxJobs /\ todo' \in [Threads -> SUBSET Jobs]
      BY <2>1, <1>m DEF TypeOK
    <2>3. ControlOK'
      BY <2>1, <2>2, <1>t, PublishType, Members
    <2> QED
      BY <1>20, <2>2, <2>3 DEF ExpireNext, TypeOK, ControlOK
  <1>21. ASSUME NEW t \in Threads, ExpireDone(t) PROVE TypeOK'
    <2>1. ControlOK'
      BY <1>21, <1>t, Members DEF ExpireDone, Goto, ControlOK
    <2> QED
      BY <1>21, <2>1 DEF ExpireDone, TypeOK, ControlOK
  <1>22. ASSUME NEW t \in Threads, PublishSet(t) PROVE TypeOK'
    <2>1. CASE Return(t) /\ UNCHANGED <<output, locked>>
      <3>1. ControlOK' /\ run' \in [Workers -> 0..MaxJobs]
        BY <2>1, <1>t, ReturnType DEF TypeOK
      <3> QED
        BY <1>22, <2>1, <3>1 DEF PublishSet, Return, TypeOK, ControlOK
    <2>2. CASE /\ output' = [output EXCEPT ![tgt[t]] = res[t]]
               /\ locked' = locked \cup {tgt[t]}
               /\ Goto(t, "cas")
               /\ UNCHANGED <<op, tgt, res, todo, run>>
      <3>1. tgt[t] \in Jobs
        BY <1>22, TargetOfControl DEF PublishSet, Deciding
      <3>2. output' \in [Jobs -> {"empty", "taken"} \cup Results] /\ locked' \subseteq Jobs
        BY <2>2, <3>1 DEF TypeOK
      <3>3. pc' \in [Threads -> Labels]
        BY <2>2, GotoType, Members DEF TypeOK
      <3> QED
        BY <1>22, <2>2, <3>2, <3>3 DEF PublishSet, TypeOK
    <2> QED
      BY <1>22, <2>1, <2>2 DEF PublishSet
  <1>23. ASSUME NEW t \in Threads, PublishCas(t) PROVE TypeOK'
    <2>1. CASE Return(t) /\ output' = [output EXCEPT ![tgt[t]] = "empty"]
               /\ UNCHANGED state
      <3>1. ControlOK' /\ run' \in [Workers -> 0..MaxJobs]
        BY <2>1, <1>t, ReturnType DEF TypeOK
      <3>2. output' \in [Jobs -> {"empty", "taken"} \cup Results] /\ locked' \subseteq Jobs
        BY <1>23, <2>1 DEF PublishCas, TypeOK
      <3> QED
        BY <1>23, <2>1, <3>1, <3>2 DEF PublishCas, Return, TypeOK, ControlOK
    <2>2. CASE /\ state' = [state EXCEPT ![tgt[t]] = TerminalOf(res[t])]
               /\ Goto(t, "record")
               /\ UNCHANGED <<output, op, tgt, res, todo, run>>
      <3>1. TerminalOf(res[t]) \in Terminal
        BY DEF TerminalOf, Terminal
      <3>2. state' \in [Jobs -> {"none", "queued", "running"} \cup Terminal]
        BY <2>2, <3>1 DEF TypeOK
      <3>3. pc' \in [Threads -> Labels]
        BY <2>2, GotoType, Members DEF TypeOK
      <3> QED
        BY <1>23, <2>2, <3>2, <3>3 DEF PublishCas, TypeOK
    <2> QED
      BY <1>23, <2>1, <2>2 DEF PublishCas
  <1>24. ASSUME NEW t \in Threads, RecordTerminal(t) PROVE TypeOK'
    <2>1. TerminalOf(res[t]) # "running"
      BY DEF TerminalOf
    <2>2. op[t] = "run" => counters["running"] > 0
      BY <1>24 DEF RecordTerminal, RunPositive
    <2>3. \A n \in CounterNames : counters[n] \in Nat
      BY DEF TypeOK
    <2>4. Tally(op[t] = "run", TerminalOf(res[t]))
      BY <1>24 DEF RecordTerminal
    <2>5. counters' \in [CounterNames -> Nat]
      <3>1. ASSUME NEW n \in CounterNames PROVE counters[n] + 1 \in Nat
        BY <2>3
      <3>2. ASSUME op[t] = "run", "running" \in CounterNames PROVE counters["running"] - 1 \in Nat
        BY <2>2, <2>3, <3>2
      <3> QED
        BY <2>1, <2>3, <2>4, <3>1, <3>2 DEF Tally
    <2>6. pc' \in [Threads -> Labels]
      BY <1>24, GotoType, Members DEF RecordTerminal, TypeOK
    <2> QED
      BY <1>24, <2>5, <2>6 DEF RecordTerminal, TypeOK
  <1>25. ASSUME NEW t \in Threads, ReleaseSlot(t) PROVE TypeOK'
    <2>1. owners' \in [Owners -> Nat]
      <3>1. CASE owners' = owners
        BY <3>1 DEF TypeOK
      <3>2. CASE /\ tgt[t] \in active /\ owners[owner[tgt[t]]] > 0
                 /\ owners' = [owners EXCEPT ![owner[tgt[t]]] = @ - 1]
        <4>a. owners \in [Owners -> Nat] /\ owner \in [Jobs -> Owners] /\ active \subseteq Jobs
          BY DEF TypeOK
        <4>1. owners \in [Owners -> Nat] /\ owner[tgt[t]] \in Owners
          BY <3>2, <4>a
        <4>2. owners[owner[tgt[t]]] - 1 \in Nat
          BY <3>2, <4>1
        <4> QED
          BY <3>2, <4>1, <4>2
      <3> QED
        BY <1>25, <3>1, <3>2 DEF ReleaseSlot
    <2>2. pc' \in [Threads -> Labels] /\ active' \subseteq Jobs
      BY <1>25, GotoType, Members DEF ReleaseSlot, TypeOK
    <2> QED
      BY <1>25, <2>1, <2>2 DEF ReleaseSlot, TypeOK
  <1>26. ASSUME NEW t \in Threads, Observe(t) PROVE TypeOK'
    <2>1. observed' \in [Jobs -> Nat]
      <3>1. tgt[t] \in Jobs
        BY <1>26, TargetOfControl DEF Observe, Deciding
      <3> QED
        BY <1>26, <3>1 DEF Observe, TypeOK
    <2>2. CASE Return(t)
      <3>1. ControlOK' /\ run' \in [Workers -> 0..MaxJobs]
        BY <2>2, <1>t, ReturnType DEF TypeOK
      <3> QED
        BY <1>26, <2>1, <2>2, <3>1 DEF Observe, Return, TypeOK, ControlOK
    <2>3. CASE Goto(t, "discard") /\ UNCHANGED <<op, tgt, res, todo, run>>
      <3>1. pc' \in [Threads -> Labels]
        BY <2>3, GotoType, Members DEF TypeOK
      <3> QED
        BY <1>26, <2>1, <2>3, <3>1 DEF Observe, TypeOK
    <2> QED
      BY <1>26, <2>2, <2>3 DEF Observe
  <1>27. ASSUME NEW t \in Threads, Discard(t) PROVE TypeOK'
    <2>1. ControlOK' /\ run' \in [Workers -> 0..MaxJobs]
      BY <1>27, <1>t, ReturnType DEF Discard, TypeOK
    <2>2. task' \in [Jobs -> {"held", "taken", "dropped"}]
      BY <1>27 DEF Discard, Drop, TypeOK
    <2> QED
      BY <1>27, <2>1, <2>2 DEF Discard, Return, TypeOK, ControlOK
  <1>28. ASSUME NEW t \in Threads, CallShutdown(t) PROVE TypeOK'
    <2>1. pc' \in [Threads -> Labels] /\ op' \in [Threads -> Ops]
      BY <1>28, GotoType, Members DEF CallShutdown, TypeOK
    <2> QED
      BY <1>28, <2>1 DEF CallShutdown, TypeOK
  <1>29. ASSUME NEW t \in Threads, BeginShutdown(t) PROVE TypeOK'
    <2>1. queue' \in Seq(Jobs) /\ todo' \in [Threads -> SUBSET Jobs]
      BY <1>29, EmptySeq DEF BeginShutdown, TypeOK
    <2>2. pc' \in [Threads -> Labels]
      BY <1>29, GotoType, Members DEF BeginShutdown, TypeOK
    <2> QED
      BY <1>29, <2>1, <2>2 DEF BeginShutdown, TypeOK
  <1>30. ASSUME NEW t \in Threads, WakeAll(t) PROVE TypeOK'
    <2>1. pc' \in [Threads -> Labels]
      BY <1>30, Members DEF WakeAll, TypeOK
    <2> QED
      BY <1>30, <2>1 DEF WakeAll, TypeOK
  <1>31. ASSUME NEW t \in Threads, DrainNext(t) PROVE TypeOK'
    <2>1. PICK j \in todo[t] : todo' = [todo EXCEPT ![t] = @ \ {j}]
                               /\ tgt' = [tgt EXCEPT ![t] = j] /\ RaiseFlag(j)
      BY <1>31 DEF DrainNext
    <2>2. j \in Jobs /\ todo' \in [Threads -> SUBSET Jobs]
      BY <2>1 DEF TypeOK
    <2>3. tgt' \in [Threads -> 0..MaxJobs]
      BY <2>1, <2>2, <1>m DEF TypeOK
    <2>4. flagged' \subseteq Jobs /\ lateCancel' \subseteq Jobs
      BY <2>1, <2>2 DEF RaiseFlag, TypeOK
    <2>5. pc' \in [Threads -> Labels]
      BY <1>31, GotoType, Members DEF DrainNext, TypeOK
    <2> QED
      BY <1>31, <2>2, <2>3, <2>4, <2>5 DEF DrainNext, TypeOK
  <1>32. ASSUME NEW t \in Threads, DrainDone(t) PROVE TypeOK'
    <2>1. pc' \in [Threads -> Labels] /\ op' \in [Threads -> Ops]
      BY <1>32, Members DEF DrainDone, TypeOK
    <2> QED
      BY <1>32, <2>1 DEF DrainDone, TypeOK
  <1>33. ASSUME NEW j \in Jobs, TakeOutput(j) PROVE TypeOK'
    BY <1>33 DEF TakeOutput, TypeOK
  <1>34. ASSUME NEW j \in Jobs, Deadline(j) PROVE TypeOK'
    BY <1>34 DEF Deadline, TypeOK
  <1>35. CASE UNCHANGED vars
    BY <1>35 DEF TypeOK
  <1> QED
    BY <1>1, <1>2, <1>3, <1>4, <1>5, <1>6, <1>7, <1>8, <1>9, <1>10, <1>11, <1>12,
       <1>13, <1>14, <1>15, <1>16, <1>17, <1>18, <1>19, <1>20, <1>21, <1>22, <1>23,
       <1>24, <1>25, <1>26, <1>27, <1>28, <1>29, <1>30, <1>31, <1>32, <1>33, <1>34,
       <1>35 DEF Next, ClientStep, WorkerStep, ThreadStep
=============================================================================
