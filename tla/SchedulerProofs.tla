--------------------------- MODULE SchedulerProofs ---------------------------
(***************************************************************************)
(* Proofs about Scheduler: for any number of service threads, of threads   *)
(* that emit signals and of repeated jobs, validation callbacks run one at *)
(* a time and in order, none is forgotten, and EmptyQueue runs alone.      *)
(***************************************************************************)
EXTENDS Scheduler, SequenceTheorems, FiniteSetTheorems, TLAPS

\* The threads in serviceQueue are the ones that are counted.
Serving == {w \in Worker : pc[w] \notin {"start", "off"}}

ServersCounted == nThreadsServicingQueue = Cardinality(Serving)

\* Once Main is past the join, nobody else moves.
AloneAfterJoin ==
    pc[Main] \notin {"run", "join"} =>
        (\A w \in Worker : pc[w] = "off") /\ \A p \in Producer : pc[p] = "idle"

\* m_are_callbacks_running says that some thread is between the two critical
\* sections that set and clear it, and at most one thread is.
Running == {e \in Executor : pc[e] \in {"call", "raii"}}

OneRuns ==
    /\ m_are_callbacks_running <=> Running # {}
    /\ \A e, f \in Running : e = f

\* A thread in Repeat runs a repeated job, and one in a callback has one.
TasksMatch ==
    /\ \A w \in Worker : pc[w] = "repeat" => task[w] \in Repeated
    /\ \A e \in Executor : pc[e] = "call" => callback[e] \in 1 .. MaxCallbacks

IInv ==
    /\ TypeOK /\ ServersCounted /\ AloneAfterJoin /\ OneRuns /\ TasksMatch /\ CallbackWillRun

\* A ProcessQueue is queued.
Queued == \E i \in DOMAIN taskQueue : taskQueue[i] = "ProcessQueue"

\* The callbacks that the abstract queue sees in the threads' hands.
Active == {callback[e] : e \in {x \in Executor : pc[x] = "call"}}

-----------------------------------------------------------------------------
(* Lemmas about the operators. *)

\* A thread that goes somewhere it may be leaves pc in its type.
LEMMA Moves ==
    ASSUME TypeOK, NEW t \in Thread, NEW l, Goto(t, l),
           t \in Worker => l \in WorkerPc, t \in Producer => l \in ProducerPc,
           t = Main => l \in MainPc
    PROVE  /\ pc' \in [Thread -> WorkerPc \cup MainPc \cup ProducerPc]
           /\ \A w \in Worker : pc'[w] \in WorkerPc
           /\ \A p \in Producer : pc'[p] \in ProducerPc
           /\ pc'[Main] \in MainPc
           /\ \A u \in Thread : pc'[u] = IF u = t THEN l ELSE pc[u]
<1>1. /\ pc \in [Thread -> WorkerPc \cup MainPc \cup ProducerPc] /\ pc' = [pc EXCEPT ![t] = l]
      /\ l \in WorkerPc \cup MainPc \cup ProducerPc
  BY Zenon DEF TypeOK, Goto, Thread
<1>2. /\ pc' \in [Thread -> WorkerPc \cup MainPc \cup ProducerPc]
      /\ \A u \in Thread : pc'[u] = IF u = t THEN l ELSE pc[u]
  BY Zenon, <1>1
<1>3. Worker \subseteq Thread /\ Producer \subseteq Thread /\ Main \in Thread
  BY Zenon DEF Thread
<1>4. QED BY <1>2, <1>3, Zenon DEF TypeOK

\* Sets of workers are finite, and w adds one to those it is not in.
LEMMA Counted ==
    ASSUME NEW S \in SUBSET Worker, NEW w \in Worker
    PROVE  /\ IsFiniteSet(S) /\ Cardinality(S) \in Nat
           /\ Cardinality(S \cup {w}) = IF w \in S THEN Cardinality(S) ELSE Cardinality(S) + 1
           /\ Cardinality((S \cup {w}) \ {w}) = Cardinality(S \cup {w}) - 1
           /\ Cardinality(S \ {w}) = IF w \in S THEN Cardinality(S) - 1 ELSE Cardinality(S)
           /\ Cardinality(S \cup {w}) \in Nat
<1>1. IsFiniteSet(S) /\ IsFiniteSet(S \cup {w})
  BY ThreadAssumption, FS_Subset
<1>2. Cardinality(S) \in Nat /\ Cardinality(S \cup {w}) \in Nat
  BY Zenon, <1>1, FS_CardinalityType
<1>3. Cardinality(S \cup {w}) = IF w \in S THEN Cardinality(S) ELSE Cardinality(S) + 1
  BY Zenon, <1>1, FS_AddElement
<1>4. Cardinality((S \cup {w}) \ {w}) = Cardinality(S \cup {w}) - 1
  BY Zenon, <1>1, FS_RemoveElement
<1>5. Cardinality(S \ {w}) = IF w \in S THEN Cardinality(S) - 1 ELSE Cardinality(S)
  BY Zenon, <1>1, FS_RemoveElement
<1>6. QED BY Zenon, <1>1, <1>2, <1>3, <1>4, <1>5

\* A notification reaches workers only.
LEMMA NotifyOneType ==
    ASSUME TypeOK, NEW t, NEW n \in NotifyOne(t)
    PROVE  n \in SUBSET Worker
BY DEF TypeOK, NotifyOne, Sleeping

\* A queue keeps its ProcessQueue when a task is put behind it.
LEMMA AppendQueued ==
    ASSUME TypeOK, NEW f \in Task, taskQueue' = Append(taskQueue, f)
    PROVE  /\ taskQueue' \in Seq(Task)
           /\ Queued \/ f = "ProcessQueue" => Queued'
<1>1. /\ taskQueue' \in Seq(Task) /\ Len(taskQueue') = Len(taskQueue) + 1
      /\ \A i \in 1 .. Len(taskQueue) : taskQueue'[i] = taskQueue[i]
      /\ taskQueue'[Len(taskQueue) + 1] = f
      /\ Len(taskQueue) \in Nat /\ DOMAIN taskQueue = 1 .. Len(taskQueue)
      /\ DOMAIN taskQueue' = 1 .. Len(taskQueue')
  BY AppendProperties, LenProperties DEF TypeOK
<1>2. Queued => Queued'
  BY <1>1 DEF Queued
<1>3. f = "ProcessQueue" => Queued'
  BY <1>1 DEF Queued
<1>4. QED BY Zenon, <1>1, <1>2, <1>3

\* A queue loses its only ProcessQueue when that one is taken.
LEMMA TailQueued ==
    ASSUME TypeOK, taskQueue # <<>>, taskQueue' = Tail(taskQueue)
    PROVE  /\ taskQueue' \in Seq(Task) /\ Head(taskQueue) \in Task
           /\ Queued => Queued' \/ Head(taskQueue) = "ProcessQueue"
<1>1. /\ taskQueue' \in Seq(Task) /\ Len(taskQueue') = Len(taskQueue) - 1
      /\ \A i \in 1 .. Len(taskQueue') : taskQueue'[i] = taskQueue[i + 1]
      /\ Head(taskQueue) \in Task /\ Head(taskQueue) = taskQueue[1]
      /\ Len(taskQueue) \in Nat \ {0} /\ DOMAIN taskQueue = 1 .. Len(taskQueue)
      /\ DOMAIN taskQueue' = 1 .. Len(taskQueue')
  BY HeadTailProperties, LenProperties, EmptySeq DEF TypeOK
<1>2. ASSUME NEW i \in 1 .. Len(taskQueue), taskQueue[i] = "ProcessQueue", i # 1
      PROVE  Queued'
  <2>1. i - 1 \in 1 .. Len(taskQueue') /\ (i - 1) + 1 = i
    BY <1>1, <1>2
  <2>2. taskQueue'[i - 1] = "ProcessQueue"
    BY Zenon, <1>1, <1>2, <2>1
  <2>3. QED BY <1>1, <2>1, <2>2, ZenonT(30) DEF Queued
<1>3. QED BY Zenon, <1>1, <1>2 DEF Queued

-----------------------------------------------------------------------------
(* serviceQueue. *)

\* A step of serviceQueue leaves the client alone.  It keeps the invariant if it
\* counts the threads right and, when it takes a ProcessQueue, goes to run it.
LEMMA ServiceKeeps ==
    ASSUME IInv, NEW w \in Worker,
           pc[w] \in {"start", "seed", "wait", "timed", "back", "repeat"},
           NEW l \in {"off", "seed", "wait", "timed", "process", "repeat", "back"}, Goto(w, l),
           taskQueue' \in Seq(Task), timers' \in SUBSET Repeated,
           until' \in [Worker -> Repeated \cup {"now"}], notified' \in SUBSET Worker,
           nThreadsServicingQueue' = Cardinality(IF l = "off" THEN (Serving \cup {w}) \ {w}
                                                 ELSE Serving \cup {w}),
           task' \in [Worker -> Task],
           \A v \in Worker : v # w => task'[v] = task[v],
           l = "repeat" => task'[w] \in Repeated,
           Queued => Queued' \/ l = "process",
           UNCHANGED <<stopRequested, stopWhenEmpty, interrupted, clientVars>>
    PROVE  IInv' /\ UNCHANGED Callbacks!cqVars
<1>1. /\ TypeOK /\ AloneAfterJoin /\ OneRuns /\ TasksMatch /\ CallbackWillRun
      /\ w \in Thread /\ w # Main /\ w \notin Producer /\ l \in WorkerPc
      /\ Worker \subseteq Thread /\ Producer \subseteq Thread /\ Main \in Thread
      /\ Executor \subseteq Thread
  BY Zenon, ThreadAssumption DEF IInv, Thread, WorkerPc, Executor
<1>2. /\ pc' \in [Thread -> WorkerPc \cup MainPc \cup ProducerPc]
      /\ \A v \in Worker : pc'[v] \in WorkerPc
      /\ \A p \in Producer : pc'[p] \in ProducerPc
      /\ pc'[Main] \in MainPc
      /\ \A u \in Thread : pc'[u] = IF u = w THEN l ELSE pc[u]
  BY Zenon, <1>1, Moves
<1>3. Serving' = IF l = "off" THEN (Serving \cup {w}) \ {w} ELSE Serving \cup {w}
  BY Zenon, <1>1, <1>2 DEF Serving
<1>4. ServersCounted' /\ nThreadsServicingQueue' \in Nat
  <2>1. Serving \in SUBSET Worker
    BY Zenon DEF Serving
  <2>2. Cardinality((Serving \cup {w}) \ {w}) \in Nat /\ Cardinality(Serving \cup {w}) \in Nat
    <3>1. (Serving \cup {w}) \ {w} \in SUBSET Worker
      BY Zenon, <2>1
    <3>2. QED BY <2>1, <3>1, Counted, ZenonT(30)
  <2>3. QED BY Zenon, <1>3, <2>2 DEF ServersCounted
<1>5. /\ UNCHANGED <<m_callbacks_pending, m_are_callbacks_running, callback, added, done>>
  BY Zenon DEF clientVars
<1>6. TypeOK'
  BY Zenon, <1>1, <1>2, <1>4, <1>5 DEF TypeOK
<1>7. AloneAfterJoin'
  BY Zenon, <1>1, <1>2 DEF AloneAfterJoin
<1>8. Running' = Running
  BY Zenon, <1>1, <1>2 DEF Running
<1>9. OneRuns'
  BY Zenon, <1>1, <1>5, <1>8 DEF OneRuns
<1>10. TasksMatch'
  BY Zenon, <1>1, <1>2, <1>5 DEF TasksMatch
<1>11. CallbackWillRun'
  <2>1. \A t \in Thread : pc[t] \in {"maybe", "schedule", "process"} => pc'[t] = pc[t]
    BY Zenon, <1>2
  <2>2. pc'[Main] = pc[Main] /\ pc'[w] = l
    BY Zenon, <1>1, <1>2
  <2>3. QED BY Zenon, <1>1, <1>5, <2>1, <2>2 DEF CallbackWillRun, Queued
<1>12. Active' = Active
  <2>1. {x \in Executor : pc'[x] = "call"} = {x \in Executor : pc[x] = "call"}
    BY Zenon, <1>1, <1>2
  <2>2. QED BY <1>5, <2>1 DEF Active
<1>13. UNCHANGED Callbacks!cqVars
  BY <1>5, <1>12, ZenonT(30) DEF Callbacks!cqVars, Active
<1>14. QED BY Zenon, <1>4, <1>6, <1>7, <1>9, <1>10, <1>11, <1>13 DEF IInv

\* The head of the loop, for a thread that is counted or has just been.
LEMMA LoopHeadStep ==
    ASSUME IInv, NEW w \in Worker,
           pc[w] \in {"start", "seed", "wait", "timed", "back"},
           LoopHead(w, Cardinality(Serving \cup {w}))
    PROVE  IInv' /\ UNCHANGED Callbacks!cqVars
<1>1. TypeOK /\ Serving \in SUBSET Worker
  BY Zenon DEF IInv, Serving
<1>2. UNCHANGED <<taskQueue, timers, stopRequested, stopWhenEmpty, interrupted, clientVars, task>>
  BY Zenon DEF LoopHead
<1>3. /\ taskQueue' \in Seq(Task) /\ timers' \in SUBSET Repeated /\ task' \in [Worker -> Task]
      /\ \A v \in Worker : v # w => task'[v] = task[v]
      /\ Queued => Queued'
  BY Zenon, <1>1, <1>2 DEF TypeOK, Queued
<1>4. CASE /\ Goto(w, "off") /\ nThreadsServicingQueue' = Cardinality(Serving \cup {w}) - 1
           /\ notified' \in NotifyOne(w) /\ UNCHANGED until
  <2>1. notified' \in SUBSET Worker
    BY Zenon, <1>1, <1>4, NotifyOneType
  <2>2. nThreadsServicingQueue' = Cardinality((Serving \cup {w}) \ {w})
    BY Zenon, <1>1, <1>4, Counted
  <2>3. until' \in [Worker -> Repeated \cup {"now"}]
    BY Zenon, <1>1, <1>4 DEF TypeOK
  <2>4. QED BY <1>2, <1>3, <1>4, <2>1, <2>2, <2>3, ServiceKeeps, ZenonT(30)
<1>5. CASE /\ Goto(w, "seed") /\ nThreadsServicingQueue' = Cardinality(Serving \cup {w})
           /\ notified' = notified \ {w} /\ UNCHANGED until
  <2>1. until' \in [Worker -> Repeated \cup {"now"}] /\ notified' \in SUBSET Worker
    BY Zenon, <1>1, <1>5 DEF TypeOK
  <2>2. QED BY <1>2, <1>3, <1>5, <2>1, ServiceKeeps, ZenonT(30)
<1>6. CASE WaitUntil(w) /\ nThreadsServicingQueue' = Cardinality(Serving \cup {w})
  <2>1. Goto(w, "timed") /\ notified' = notified \ {w}
    BY Zenon, <1>6 DEF WaitUntil
  <2>2. until' \in [Worker -> Repeated \cup {"now"}] /\ notified' \in SUBSET Worker
    BY Zenon, <1>1, <1>6, <2>1 DEF TypeOK, WaitUntil
  <2>3. QED BY <1>2, <1>3, <1>6, <2>1, <2>2, ServiceKeeps, ZenonT(30)
<1>7. QED BY Zenon, <1>4, <1>5, <1>6 DEF LoopHead

\* Every step of serviceQueue.
LEMMA ServiceStepStep ==
    ASSUME IInv, NEW w \in Worker, ServiceStep(w)
    PROVE  IInv' /\ UNCHANGED Callbacks!cqVars
<1>1. /\ TypeOK /\ TasksMatch /\ Serving \in SUBSET Worker
      /\ nThreadsServicingQueue = Cardinality(Serving) /\ Cardinality(Serving) \in Nat
      /\ Cardinality(Serving \cup {w}) =
            IF w \in Serving THEN nThreadsServicingQueue ELSE nThreadsServicingQueue + 1
      /\ Cardinality((Serving \cup {w}) \ {w}) = Cardinality(Serving \cup {w}) - 1
      /\ w \in Serving <=> pc[w] \notin {"start", "off"}
  <2>1. Serving \in SUBSET Worker
    BY Zenon DEF Serving
  <2>2. QED BY <2>1, Counted, ZenonT(30) DEF IInv, ServersCounted, Serving
<1>2. CASE Enter(w)
  BY Zenon, <1>1, <1>2, LoopHeadStep DEF Enter
<1>3. CASE TaskReturns(w)
  BY Zenon, <1>1, <1>3, LoopHeadStep DEF TaskReturns
<1>4. CASE SleepEnds(w)
  <2>1. pc[w] \in {"seed", "wait"} /\ nThreadsServicingQueue = Cardinality(Serving \cup {w})
    BY Zenon, <1>1, <1>4 DEF SleepEnds
  <2>2. CASE LoopHead(w, nThreadsServicingQueue)
    BY Zenon, <2>1, <2>2, LoopHeadStep
  <2>3. CASE /\ Goto(w, "wait") /\ notified' = notified \ {w}
             /\ UNCHANGED <<taskQueue, timers, until, stopVars, clientVars, task>>
    <3>1. /\ taskQueue' \in Seq(Task) /\ timers' \in SUBSET Repeated /\ task' \in [Worker -> Task]
          /\ until' \in [Worker -> Repeated \cup {"now"}] /\ notified' \in SUBSET Worker
          /\ \A v \in Worker : v # w => task'[v] = task[v]
          /\ Queued => Queued'
          /\ UNCHANGED <<stopRequested, stopWhenEmpty, interrupted, nThreadsServicingQueue>>
      BY Zenon, <1>1, <2>3 DEF TypeOK, Queued, stopVars
    <3>2. QED BY <2>1, <2>3, <3>1, ServiceKeeps, ZenonT(30)
  <2>4. QED BY Zenon, <1>4, <2>2, <2>3 DEF SleepEnds
<1>5. CASE WaitUntilNotified(w)
  BY Zenon, <1>1, <1>5, LoopHeadStep DEF WaitUntilNotified
<1>6. CASE WaitUntilTimesOut(w)
  <2>1. pc[w] = "timed" /\ nThreadsServicingQueue = Cardinality(Serving \cup {w})
    BY Zenon, <1>1, <1>6 DEF WaitUntilTimesOut
  <2>2. CASE LoopHead(w, nThreadsServicingQueue)
    BY Zenon, <2>1, <2>2, LoopHeadStep
  <2>3. CASE /\ taskQueue # <<>> /\ RunTask(w, Head(taskQueue)) /\ taskQueue' = Tail(taskQueue)
             /\ notified' = notified \ {w} /\ UNCHANGED <<timers, until, stopVars, clientVars>>
    <3>1. /\ taskQueue' \in Seq(Task) /\ Head(taskQueue) \in Task
          /\ Queued => Queued' \/ Head(taskQueue) = "ProcessQueue"
      BY Zenon, <1>1, <2>3, TailQueued
    <3>2. /\ task' = [task EXCEPT ![w] = Head(taskQueue)]
          /\ Goto(w, IF Head(taskQueue) = "ProcessQueue" THEN "process" ELSE "repeat")
      BY Zenon, <2>3 DEF RunTask
    <3>3. /\ timers' \in SUBSET Repeated /\ task' \in [Worker -> Task]
          /\ until' \in [Worker -> Repeated \cup {"now"}] /\ notified' \in SUBSET Worker
          /\ \A v \in Worker : v # w => task'[v] = task[v]
          /\ task'[w] = Head(taskQueue)
          /\ UNCHANGED <<stopRequested, stopWhenEmpty, interrupted, nThreadsServicingQueue>>
      BY <1>1, <2>3, <3>1, <3>2, Zenon DEF TypeOK, stopVars
    <3>4. CASE Head(taskQueue) = "ProcessQueue"
      <4>1. Goto(w, "process")
        BY Zenon, <3>2, <3>4
      <4>2. QED BY <2>1, <2>3, <3>1, <3>3, <3>4, <4>1, ServiceKeeps, ZenonT(30)
    <3>5. CASE Head(taskQueue) # "ProcessQueue"
      <4>1. Goto(w, "repeat") /\ task'[w] \in Repeated
        BY Zenon, <3>1, <3>2, <3>3, <3>5 DEF Task
      <4>2. QED BY <2>1, <2>3, <3>1, <3>3, <3>5, <4>1, ServiceKeeps, ZenonT(30)
    <3>6. QED BY Zenon, <3>4, <3>5
  <2>4. CASE /\ \E f \in timers : RunTask(w, f) /\ timers' = timers \ {f}
             /\ notified' = notified \ {w} /\ UNCHANGED <<taskQueue, until, stopVars, clientVars>>
    <3>1. PICK f \in timers : RunTask(w, f) /\ timers' = timers \ {f}
      BY Zenon, <2>4
    <3>2. f \in Repeated /\ f # "ProcessQueue" /\ f \in Task
      BY Zenon, <1>1, JobAssumption DEF TypeOK, Task
    <3>3. Goto(w, "repeat") /\ task' = [task EXCEPT ![w] = f]
      BY Zenon, <3>1, <3>2 DEF RunTask
    <3>4. /\ taskQueue' \in Seq(Task) /\ timers' \in SUBSET Repeated /\ task' \in [Worker -> Task]
          /\ until' \in [Worker -> Repeated \cup {"now"}] /\ notified' \in SUBSET Worker
          /\ \A v \in Worker : v # w => task'[v] = task[v]
          /\ task'[w] \in Repeated
          /\ Queued => Queued'
          /\ UNCHANGED <<stopRequested, stopWhenEmpty, interrupted, nThreadsServicingQueue>>
      BY Zenon, <1>1, <2>4, <3>1, <3>2, <3>3 DEF TypeOK, Queued, stopVars
    <3>5. QED BY <2>1, <2>4, <3>3, <3>4, ServiceKeeps, ZenonT(30)
  <2>5. QED BY Zenon, <1>6, <2>2, <2>3, <2>4 DEF WaitUntilTimesOut
<1>7. CASE Interrupted(w)
  <2>1. /\ pc[w] \in {"seed", "wait", "timed"} /\ Goto(w, "off")
        /\ nThreadsServicingQueue' = Cardinality((Serving \cup {w}) \ {w})
        /\ notified' = notified \ {w}
        /\ UNCHANGED <<taskQueue, timers, until, stopRequested, stopWhenEmpty, interrupted,
                       clientVars, task>>
    BY Zenon, <1>1, <1>7 DEF Interrupted
  <2>2. /\ taskQueue' \in Seq(Task) /\ timers' \in SUBSET Repeated /\ task' \in [Worker -> Task]
        /\ until' \in [Worker -> Repeated \cup {"now"}] /\ notified' \in SUBSET Worker
        /\ \A v \in Worker : v # w => task'[v] = task[v]
        /\ Queued => Queued'
    BY Zenon, <1>1, <2>1 DEF TypeOK, Queued
  <2>3. QED BY <2>1, <2>2, ServiceKeeps, ZenonT(30)
<1>8. CASE RepeatEnds(w)
  <2>1. /\ pc[w] = "repeat" /\ timers' = timers \cup {task[w]} /\ notified' \in NotifyOne(w)
        /\ Goto(w, "back")
        /\ UNCHANGED <<taskQueue, until, stopVars, clientVars, task>>
    BY Zenon, <1>8 DEF RepeatEnds
  <2>2. notified' \in SUBSET Worker
    BY Zenon, <1>1, <2>1, NotifyOneType
  <2>3. /\ taskQueue' \in Seq(Task) /\ timers' \in SUBSET Repeated /\ task' \in [Worker -> Task]
        /\ until' \in [Worker -> Repeated \cup {"now"}]
        /\ \A v \in Worker : v # w => task'[v] = task[v]
        /\ Queued => Queued'
        /\ UNCHANGED <<stopRequested, stopWhenEmpty, interrupted, nThreadsServicingQueue>>
    BY <1>1, <2>1, Zenon DEF TypeOK, TasksMatch, Queued, stopVars
  <2>4. nThreadsServicingQueue = Cardinality(Serving \cup {w})
    BY <1>1, <2>1, Zenon
  <2>5. QED BY <2>1, <2>2, <2>3, <2>4, ServiceKeeps, ZenonT(30)
<1>9. QED
  BY <1>2, <1>3, <1>4, <1>5, <1>6, <1>7, <1>8, Zenon DEF ServiceStep

-----------------------------------------------------------------------------
(* SingleThreadedSchedulerClient. *)

\* A step of the client moves one thread, which stays counted if it is a worker
\* and is not Main before the join.
LEMMA ClientMoves ==
    ASSUME IInv, NEW t \in Thread,
           pc[t] \in {"idle", "maybe", "schedule", "process", "call", "raii"},
           pc[t] = "idle" => pc[Main] \in {"run", "join"},
           NEW l \in {"idle", "back", "maybe", "schedule", "call", "raii"}, Goto(t, l),
           l = "idle" => t \in Producer,
           t \in Producer => l \in ProducerPc,
           UNCHANGED <<nThreadsServicingQueue, task>>
    PROVE  /\ pc' \in [Thread -> WorkerPc \cup MainPc \cup ProducerPc]
           /\ \A w \in Worker : pc'[w] \in WorkerPc
           /\ \A p \in Producer : pc'[p] \in ProducerPc
           /\ pc'[Main] \in MainPc
           /\ \A u \in Thread : pc'[u] = IF u = t THEN l ELSE pc[u]
           /\ ServersCounted' /\ AloneAfterJoin'
           /\ \A w \in Worker : pc'[w] = "repeat" => task'[w] \in Repeated
<1>1. /\ TypeOK /\ ServersCounted /\ AloneAfterJoin /\ TasksMatch
      /\ Worker \subseteq Thread /\ Producer \subseteq Thread /\ Main \in Thread
      /\ Main \notin Worker /\ Main \notin Producer /\ Worker \cap Producer = {}
  BY Zenon, ThreadAssumption DEF IInv, Thread
<1>2. /\ t \in Worker => l \in WorkerPc
      /\ t = Main => l \in MainPc
  BY Zenon, <1>1 DEF WorkerPc, MainPc
<1>3. /\ pc' \in [Thread -> WorkerPc \cup MainPc \cup ProducerPc]
      /\ \A w \in Worker : pc'[w] \in WorkerPc
      /\ \A p \in Producer : pc'[p] \in ProducerPc
      /\ pc'[Main] \in MainPc
      /\ \A u \in Thread : pc'[u] = IF u = t THEN l ELSE pc[u]
  BY <1>1, <1>2, Moves, Zenon
<1>4. Serving' = Serving
  BY Zenon, <1>1, <1>3 DEF Serving
<1>5. ServersCounted'
  BY Zenon, <1>1, <1>4 DEF ServersCounted
<1>6. AloneAfterJoin'
  <2>1. CASE t = Main
    BY <1>1, <1>3, <2>1, Zenon DEF AloneAfterJoin
  <2>2. CASE t # Main
    <3>1. pc[Main] \in {"run", "join"}
      BY <1>1, <2>2, Zenon DEF AloneAfterJoin, Thread
    <3>2. QED BY <1>1, <1>3, <2>2, <3>1, Zenon DEF AloneAfterJoin
  <2>3. QED BY Zenon, <2>1, <2>2
<1>7. \A w \in Worker : pc'[w] = "repeat" => task'[w] \in Repeated
  BY Zenon, <1>1, <1>3 DEF TasksMatch
<1>8. QED BY <1>3, <1>5, <1>6, <1>7, Zenon

\* Where MaybeScheduleProcessQueue returns to is a place of the thread.
LEMMA ReturnGoes ==
    ASSUME NEW t \in Thread, Return(t)
    PROVE  \E l \in {"idle", "back"} :
             Goto(t, l) /\ (l = "idle" <=> t \in Producer) /\ (t \in Producer => l \in ProducerPc)
<1>1. CASE t \in Producer
  <2>1. Goto(t, "idle")
    BY Zenon, <1>1 DEF Return
  <2>2. QED BY Zenon, <1>1, <2>1 DEF ProducerPc
<1>2. CASE t \notin Producer
  <2>1. Goto(t, "back")
    BY Zenon, <1>2 DEF Return
  <2>2. QED BY Zenon, <1>2, <2>1
<1>3. QED BY Zenon, <1>1, <1>2

\* A step in which no thread begins or ends a callback, and no callback is added.
LEMMA NoCallback ==
    ASSUME IInv, NEW t \in Thread, NEW l, \A u \in Thread : pc'[u] = IF u = t THEN l ELSE pc[u],
           pc[t] \notin {"call", "raii"}, l \notin {"call", "raii"}, UNCHANGED clientVars
    PROVE  /\ OneRuns'
           /\ \A e \in Executor : pc'[e] = "call" => callback'[e] \in 1 .. MaxCallbacks
           /\ UNCHANGED <<m_callbacks_pending, m_are_callbacks_running, callback, added, done>>
           /\ UNCHANGED Callbacks!cqVars
<1>1. Executor \subseteq Thread /\ OneRuns /\ TasksMatch
  BY Zenon DEF Executor, Thread, IInv
<1>2. UNCHANGED <<m_callbacks_pending, m_are_callbacks_running, callback, added, done>>
  BY Zenon DEF clientVars
<1>3. Running' = Running
  BY Zenon, <1>1 DEF Running
<1>4. OneRuns'
  BY Zenon, <1>1, <1>2, <1>3 DEF OneRuns
<1>5. {x \in Executor : pc'[x] = "call"} = {x \in Executor : pc[x] = "call"}
  BY Zenon, <1>1
<1>6. Active' = Active
  BY Zenon, <1>2, <1>5 DEF Active
<1>7. UNCHANGED Callbacks!cqVars
  BY Zenon, <1>2, <1>6 DEF Callbacks!cqVars, Active
<1>8. \A e \in Executor : pc'[e] = "call" => callback'[e] \in 1 .. MaxCallbacks
  BY Zenon, <1>1, <1>2, <1>5 DEF TasksMatch
<1>9. QED BY Zenon, <1>2, <1>4, <1>7, <1>8

\* A callback is added.
LEMMA AddStep ==
    ASSUME IInv, NEW p \in Producer, AddToProcessQueue(p)
    PROVE  IInv' /\ Callbacks!Add
<1>1. /\ TypeOK /\ OneRuns /\ TasksMatch /\ p \in Thread /\ p \notin Worker /\ p # Main
      /\ Executor \subseteq Thread /\ p \notin Executor
  BY Zenon, ThreadAssumption DEF IInv, Thread, Executor
<1>2. /\ pc[p] = "idle" /\ pc[Main] \in {"run", "join"} /\ added < MaxCallbacks
      /\ added' = added + 1 /\ m_callbacks_pending' = Append(m_callbacks_pending, added')
      /\ Goto(p, "maybe")
      /\ UNCHANGED <<queueVars, stopVars, m_are_callbacks_running, callback, done, task>>
  BY Zenon DEF AddToProcessQueue
<1>3. /\ UNCHANGED <<taskQueue, timers, until, notified>>
      /\ UNCHANGED <<nThreadsServicingQueue, stopRequested, stopWhenEmpty, interrupted>>
  BY Zenon, <1>2 DEF queueVars, stopVars
<1>4. "maybe" \in ProducerPc
  BY Zenon DEF ProducerPc
<1>5. /\ pc' \in [Thread -> WorkerPc \cup MainPc \cup ProducerPc]
      /\ \A w \in Worker : pc'[w] \in WorkerPc
      /\ \A q \in Producer : pc'[q] \in ProducerPc
      /\ pc'[Main] \in MainPc
      /\ \A u \in Thread : pc'[u] = IF u = p THEN "maybe" ELSE pc[u]
      /\ ServersCounted' /\ AloneAfterJoin'
      /\ \A w \in Worker : pc'[w] = "repeat" => task'[w] \in Repeated
  BY <1>1, <1>2, <1>3, <1>4, ClientMoves, Zenon
<1>6. added' \in 1 .. MaxCallbacks
  BY <1>1, <1>2, MaxCallbacksAssumption, SMTT(30) DEF TypeOK
<1>7. m_callbacks_pending' \in Seq(1 .. MaxCallbacks)
  BY <1>1, <1>2, <1>6, AppendProperties, Zenon DEF TypeOK
<1>8. TypeOK'
  BY <1>1, <1>2, <1>3, <1>5, <1>6, <1>7, SMTT(30) DEF TypeOK
<1>9. Running' = Running
  BY <1>1, <1>5, Zenon DEF Running
<1>10. OneRuns' /\ TasksMatch'
  BY <1>1, <1>2, <1>5, <1>9, Zenon DEF OneRuns, TasksMatch
<1>11. CallbackWillRun'
  BY <1>1, <1>5, Zenon DEF CallbackWillRun
<1>12. Active' = Active
  <2>1. {x \in Executor : pc'[x] = "call"} = {x \in Executor : pc[x] = "call"}
    BY Zenon, <1>1, <1>5
  <2>2. QED BY Zenon, <1>2, <2>1 DEF Active
<1>13. Callbacks!Add
  BY <1>2, <1>12, ZenonT(30) DEF Callbacks!Add, Active
<1>14. QED BY <1>5, <1>8, <1>10, <1>11, <1>13, Zenon DEF IInv

\* MaybeScheduleProcessQueue returns only if somebody runs callbacks, or none wait.
LEMMA MaybeStep ==
    ASSUME IInv, NEW t \in Thread, MaybeScheduleProcessQueue(t)
    PROVE  IInv' /\ UNCHANGED Callbacks!cqVars
<1>1. TypeOK /\ CallbackWillRun
  BY Zenon DEF IInv
<1>2. pc[t] = "maybe" /\ UNCHANGED <<queueVars, stopVars, clientVars, task>>
  BY Zenon DEF MaybeScheduleProcessQueue
<1>3. /\ UNCHANGED <<taskQueue, timers, until, notified>>
      /\ UNCHANGED <<nThreadsServicingQueue, stopRequested, stopWhenEmpty, interrupted>>
  BY Zenon, <1>2 DEF queueVars, stopVars
<1>4. PICK l \in {"idle", "back", "schedule"} :
        /\ Goto(t, l) /\ (l = "idle" => t \in Producer) /\ (t \in Producer => l \in ProducerPc)
        /\ l # "schedule" => m_are_callbacks_running \/ m_callbacks_pending = <<>>
  <2>1. CASE m_are_callbacks_running \/ m_callbacks_pending = <<>>
    BY Zenon, <2>1, ReturnGoes DEF MaybeScheduleProcessQueue
  <2>2. CASE ~(m_are_callbacks_running \/ m_callbacks_pending = <<>>)
    <3>1. Goto(t, "schedule") /\ "schedule" \in ProducerPc
      BY Zenon, <2>2 DEF MaybeScheduleProcessQueue, ProducerPc
    <3>2. QED BY Zenon, <3>1
  <2>3. QED BY Zenon, <2>1, <2>2
<1>5. /\ pc' \in [Thread -> WorkerPc \cup MainPc \cup ProducerPc]
      /\ \A w \in Worker : pc'[w] \in WorkerPc
      /\ \A q \in Producer : pc'[q] \in ProducerPc
      /\ pc'[Main] \in MainPc
      /\ \A u \in Thread : pc'[u] = IF u = t THEN l ELSE pc[u]
      /\ ServersCounted' /\ AloneAfterJoin'
      /\ \A w \in Worker : pc'[w] = "repeat" => task'[w] \in Repeated
  BY <1>2, <1>3, <1>4, ClientMoves, Zenon
<1>6. /\ OneRuns'
      /\ \A e \in Executor : pc'[e] = "call" => callback'[e] \in 1 .. MaxCallbacks
      /\ UNCHANGED <<m_callbacks_pending, m_are_callbacks_running, callback, added, done>>
      /\ UNCHANGED Callbacks!cqVars
  BY <1>2, <1>5, NoCallback, Zenon
<1>7. TypeOK'
  BY <1>1, <1>2, <1>3, <1>5, <1>6, Zenon DEF TypeOK
<1>8. CallbackWillRun'
  BY <1>3, <1>4, <1>5, <1>6, Zenon DEF CallbackWillRun
<1>9. QED BY Zenon, <1>5, <1>6, <1>7, <1>8 DEF IInv, TasksMatch

\* The ProcessQueue that was found to be needed is queued.
LEMMA ScheduleStep ==
    ASSUME IInv, NEW t \in Thread, Schedule(t)
    PROVE  IInv' /\ UNCHANGED Callbacks!cqVars
<1>1. TypeOK
  BY Zenon DEF IInv
<1>2. /\ pc[t] = "schedule" /\ taskQueue' = Append(taskQueue, "ProcessQueue")
      /\ notified' \in NotifyOne(t) /\ Return(t)
      /\ UNCHANGED <<timers, until, stopVars, clientVars, task>>
  BY Zenon DEF Schedule
<1>3. UNCHANGED <<nThreadsServicingQueue, stopRequested, stopWhenEmpty, interrupted>>
  BY Zenon, <1>2 DEF stopVars
<1>4. PICK l \in {"idle", "back"} :
        Goto(t, l) /\ (l = "idle" <=> t \in Producer) /\ (t \in Producer => l \in ProducerPc)
  BY <1>2, ReturnGoes, Zenon
<1>5. /\ pc' \in [Thread -> WorkerPc \cup MainPc \cup ProducerPc]
      /\ \A w \in Worker : pc'[w] \in WorkerPc
      /\ \A q \in Producer : pc'[q] \in ProducerPc
      /\ pc'[Main] \in MainPc
      /\ \A u \in Thread : pc'[u] = IF u = t THEN l ELSE pc[u]
      /\ ServersCounted' /\ AloneAfterJoin'
      /\ \A w \in Worker : pc'[w] = "repeat" => task'[w] \in Repeated
  BY <1>2, <1>3, <1>4, ClientMoves, Zenon
<1>6. /\ OneRuns'
      /\ \A e \in Executor : pc'[e] = "call" => callback'[e] \in 1 .. MaxCallbacks
      /\ UNCHANGED <<m_callbacks_pending, m_are_callbacks_running, callback, added, done>>
      /\ UNCHANGED Callbacks!cqVars
  BY <1>2, <1>5, NoCallback, ZenonT(30)
<1>7. taskQueue' \in Seq(Task) /\ Queued'
  BY Zenon, <1>1, <1>2, AppendQueued DEF Task
<1>8. notified' \in SUBSET Worker
  BY Zenon, <1>1, <1>2, NotifyOneType
<1>9. TypeOK'
  BY Zenon, <1>1, <1>2, <1>3, <1>5, <1>6, <1>7, <1>8 DEF TypeOK
<1>10. CallbackWillRun'
  BY Zenon, <1>7 DEF CallbackWillRun, Queued
<1>11. QED BY Zenon, <1>5, <1>6, <1>9, <1>10 DEF IInv, TasksMatch

\* ProcessQueue takes the first callback, if nobody else runs one.
LEMMA ProcessQueueStep ==
    ASSUME IInv, NEW t \in Executor, ProcessQueue(t)
    PROVE  IInv' /\ (Callbacks!Begin \/ UNCHANGED Callbacks!cqVars)
<1>1. /\ TypeOK /\ OneRuns /\ TasksMatch /\ t \in Thread /\ Executor \subseteq Thread /\ t \notin Producer
  BY Zenon, ThreadAssumption DEF IInv, Executor, Thread
<1>2. pc[t] = "process" /\ UNCHANGED <<queueVars, stopVars, task>>
  BY Zenon DEF ProcessQueue
<1>3. /\ UNCHANGED <<taskQueue, timers, until, notified>>
      /\ UNCHANGED <<nThreadsServicingQueue, stopRequested, stopWhenEmpty, interrupted>>
  BY <1>2, Zenon DEF queueVars, stopVars
<1>4. CASE m_are_callbacks_running \/ m_callbacks_pending = <<>>
  <2>1. Goto(t, "back") /\ UNCHANGED clientVars
    BY <1>1, <1>4, Zenon DEF ProcessQueue, Return
  <2>2. /\ pc' \in [Thread -> WorkerPc \cup MainPc \cup ProducerPc]
        /\ \A w \in Worker : pc'[w] \in WorkerPc
        /\ \A q \in Producer : pc'[q] \in ProducerPc
        /\ pc'[Main] \in MainPc
        /\ \A u \in Thread : pc'[u] = IF u = t THEN "back" ELSE pc[u]
        /\ ServersCounted' /\ AloneAfterJoin'
        /\ \A w \in Worker : pc'[w] = "repeat" => task'[w] \in Repeated
    BY <1>1, <1>2, <1>3, <2>1, ClientMoves, Zenon
  <2>3. /\ OneRuns'
        /\ \A e \in Executor : pc'[e] = "call" => callback'[e] \in 1 .. MaxCallbacks
        /\ UNCHANGED <<m_callbacks_pending, m_are_callbacks_running, callback, added, done>>
        /\ UNCHANGED Callbacks!cqVars
    BY <1>1, <1>2, <2>1, <2>2, NoCallback, Zenon
  <2>4. TypeOK'
    BY <1>1, <1>2, <1>3, <2>2, <2>3, Zenon DEF TypeOK
  <2>5. CallbackWillRun'
    BY <1>4, <2>3, Zenon DEF CallbackWillRun
  <2>6. QED BY Zenon, <2>2, <2>3, <2>4, <2>5 DEF IInv, TasksMatch
<1>5. CASE ~(m_are_callbacks_running \/ m_callbacks_pending = <<>>)
  <2>1. /\ m_are_callbacks_running' = TRUE
        /\ callback' = [callback EXCEPT ![t] = Head(m_callbacks_pending)]
        /\ m_callbacks_pending' = Tail(m_callbacks_pending)
        /\ Goto(t, "call") /\ UNCHANGED <<added, done>>
    BY <1>5, Zenon DEF ProcessQueue
  <2>2. /\ pc' \in [Thread -> WorkerPc \cup MainPc \cup ProducerPc]
        /\ \A w \in Worker : pc'[w] \in WorkerPc
        /\ \A q \in Producer : pc'[q] \in ProducerPc
        /\ pc'[Main] \in MainPc
        /\ \A u \in Thread : pc'[u] = IF u = t THEN "call" ELSE pc[u]
        /\ ServersCounted' /\ AloneAfterJoin'
        /\ \A w \in Worker : pc'[w] = "repeat" => task'[w] \in Repeated
    BY <1>1, <1>2, <1>3, <2>1, ClientMoves, Zenon
  <2>3. /\ Head(m_callbacks_pending) \in 1 .. MaxCallbacks
        /\ m_callbacks_pending' \in Seq(1 .. MaxCallbacks)
    BY <1>1, <1>5, <2>1, HeadTailProperties, ZenonT(30) DEF TypeOK
  <2>4. /\ callback' \in [Executor -> 0 .. MaxCallbacks]
        /\ \A e \in Executor : callback'[e] = IF e = t THEN Head(m_callbacks_pending) ELSE callback[e]
    BY <1>1, <2>1, <2>3, MaxCallbacksAssumption DEF TypeOK
  <2>5. TypeOK'
    BY Zenon, <1>1, <1>2, <1>3, <2>1, <2>2, <2>3, <2>4 DEF TypeOK
  <2>6. Running = {} /\ Running' = {t}
    BY <1>1, <1>5, <2>2, Zenon DEF OneRuns, Running
  <2>7. OneRuns' /\ TasksMatch' /\ CallbackWillRun'
    BY <1>1, <2>1, <2>2, <2>3, <2>4, <2>6, Zenon DEF OneRuns, TasksMatch, CallbackWillRun
  <2>8. /\ {x \in Executor : pc[x] = "call"} = {}
        /\ {x \in Executor : pc'[x] = "call"} = {t}
    BY Zenon, <1>1, <2>2, <2>6 DEF Running
  <2>9. Active = {} /\ Active' = {Head(m_callbacks_pending)}
    BY <2>4, <2>8 DEF Active
  <2>10. Callbacks!Begin
    BY <1>5, <2>1, <2>9, Zenon DEF Callbacks!Begin, Active
  <2>11. QED BY Zenon, <2>2, <2>5, <2>7, <2>10 DEF IInv
<1>6. QED BY Zenon, <1>4, <1>5

\* The callback returns: it was the only one.
LEMMA CallbackReturnsStep ==
    ASSUME IInv, NEW t \in Executor, CallbackReturns(t)
    PROVE  IInv' /\ Callbacks!End
<1>1. /\ TypeOK /\ OneRuns /\ TasksMatch /\ CallbackWillRun
      /\ t \in Thread /\ Executor \subseteq Thread /\ t \notin Producer
  BY Zenon, ThreadAssumption DEF IInv, Executor, Thread
<1>2. /\ pc[t] = "call" /\ done' = Append(done, callback[t])
      /\ callback' = [callback EXCEPT ![t] = 0] /\ Goto(t, "raii")
      /\ UNCHANGED <<queueVars, stopVars, m_callbacks_pending, m_are_callbacks_running, added, task>>
  BY Zenon DEF CallbackReturns
<1>3. /\ UNCHANGED <<taskQueue, timers, until, notified>>
      /\ UNCHANGED <<nThreadsServicingQueue, stopRequested, stopWhenEmpty, interrupted>>
  BY Zenon, <1>2 DEF queueVars, stopVars
<1>4. /\ pc' \in [Thread -> WorkerPc \cup MainPc \cup ProducerPc]
      /\ \A w \in Worker : pc'[w] \in WorkerPc
      /\ \A q \in Producer : pc'[q] \in ProducerPc
      /\ pc'[Main] \in MainPc
      /\ \A u \in Thread : pc'[u] = IF u = t THEN "raii" ELSE pc[u]
      /\ ServersCounted' /\ AloneAfterJoin'
      /\ \A w \in Worker : pc'[w] = "repeat" => task'[w] \in Repeated
  BY <1>1, <1>2, <1>3, ClientMoves, Zenon
<1>5. callback[t] \in 1 .. MaxCallbacks
  BY <1>1, <1>2, Zenon DEF TasksMatch
<1>6. done' \in Seq(1 .. MaxCallbacks)
  BY <1>1, <1>2, <1>5, AppendProperties, Zenon DEF TypeOK
<1>7. /\ callback' \in [Executor -> 0 .. MaxCallbacks]
      /\ \A e \in Executor : callback'[e] = IF e = t THEN 0 ELSE callback[e]
  BY <1>1, <1>2, MaxCallbacksAssumption, SMTT(30) DEF TypeOK
<1>8. TypeOK'
  BY <1>1, <1>2, <1>3, <1>4, <1>6, <1>7, Zenon DEF TypeOK
<1>9. Running = {t} /\ Running' = {t}
  <2>1. t \in Running
    BY Zenon, <1>2 DEF Running
  <2>2. Running = {t}
    BY <1>1, <2>1, Zenon DEF OneRuns
  <2>3. Running' = Running
    BY <1>1, <1>2, <1>4, Zenon DEF Running
  <2>4. QED BY Zenon, <2>2, <2>3
<1>10. OneRuns' /\ TasksMatch' /\ CallbackWillRun'
  BY <1>1, <1>2, <1>4, <1>7, <1>9, Zenon DEF OneRuns, TasksMatch, CallbackWillRun
<1>11. /\ {x \in Executor : pc[x] = "call"} = {t}
       /\ {x \in Executor : pc'[x] = "call"} = {}
  BY Zenon, <1>1, <1>2, <1>4, <1>9 DEF Running
<1>12. Active = {callback[t]} /\ Active' = {}
  BY <1>11, Zenon DEF Active
<1>13. Callbacks!End
  BY <1>2, <1>12, ZenonT(30) DEF Callbacks!End, Active
<1>14. QED BY Zenon, <1>4, <1>8, <1>10, <1>13 DEF IInv

\* The destructor clears the flag and goes on to look for more callbacks.
LEMMA CallbacksRunningEndsStep ==
    ASSUME IInv, NEW t \in Executor, CallbacksRunningEnds(t)
    PROVE  IInv' /\ UNCHANGED Callbacks!cqVars
<1>1. /\ TypeOK /\ OneRuns /\ TasksMatch
      /\ t \in Thread /\ Executor \subseteq Thread /\ t \notin Producer
  BY Zenon, ThreadAssumption DEF IInv, Executor, Thread
<1>2. /\ pc[t] = "raii" /\ m_are_callbacks_running' = FALSE /\ Goto(t, "maybe")
      /\ UNCHANGED <<queueVars, stopVars, m_callbacks_pending, callback, added, done, task>>
  BY Zenon DEF CallbacksRunningEnds
<1>3. /\ UNCHANGED <<taskQueue, timers, until, notified>>
      /\ UNCHANGED <<nThreadsServicingQueue, stopRequested, stopWhenEmpty, interrupted>>
  BY <1>2, Zenon DEF queueVars, stopVars
<1>4. /\ pc' \in [Thread -> WorkerPc \cup MainPc \cup ProducerPc]
      /\ \A w \in Worker : pc'[w] \in WorkerPc
      /\ \A q \in Producer : pc'[q] \in ProducerPc
      /\ pc'[Main] \in MainPc
      /\ \A u \in Thread : pc'[u] = IF u = t THEN "maybe" ELSE pc[u]
      /\ ServersCounted' /\ AloneAfterJoin'
      /\ \A w \in Worker : pc'[w] = "repeat" => task'[w] \in Repeated
  BY <1>1, <1>2, <1>3, ClientMoves, Zenon
<1>5. TypeOK'
  BY <1>1, <1>2, <1>3, <1>4, ZenonT(30) DEF TypeOK
<1>6. Running = {t} /\ Running' = {}
  <2>1. t \in Running
    BY Zenon, <1>2 DEF Running
  <2>2. Running = {t}
    BY Zenon, <1>1, <2>1 DEF OneRuns
  <2>3. Running' = Running \ {t}
    BY Zenon, <1>1, <1>4 DEF Running
  <2>4. QED BY Zenon, <2>2, <2>3
<1>7. OneRuns' /\ TasksMatch' /\ CallbackWillRun'
  BY Zenon, <1>1, <1>2, <1>4, <1>6 DEF OneRuns, TasksMatch, CallbackWillRun
<1>8. /\ {x \in Executor : pc[x] = "call"} = {}
      /\ {x \in Executor : pc'[x] = "call"} = {}
  BY <1>1, <1>2, <1>4, <1>6, Zenon DEF Running
<1>9. Active' = Active
  BY <1>8, Zenon DEF Active
<1>10. UNCHANGED Callbacks!cqVars
  BY <1>2, <1>9, Zenon DEF Callbacks!cqVars, Active
<1>11. QED BY Zenon, <1>4, <1>5, <1>7, <1>10 DEF IInv

-----------------------------------------------------------------------------
(* Shutdown, and time. *)

\* A step of Main that runs no callback.
LEMMA MainKeeps ==
    ASSUME IInv, NEW l \in {"join", "down", "process"}, Goto(Main, l),
           pc[Main] \in {"run", "join", "back"},
           l # "join" => (\A w \in Worker : pc[w] = "off") /\ \A p \in Producer : pc[p] = "idle",
           pc[Main] = "back" => l = "process" \/ m_callbacks_pending = <<>>,
           notified' \in SUBSET Worker,
           stopRequested' \in BOOLEAN, stopWhenEmpty' \in BOOLEAN, interrupted' \in BOOLEAN,
           UNCHANGED <<taskQueue, timers, until, nThreadsServicingQueue, clientVars, task>>
    PROVE  IInv' /\ UNCHANGED Callbacks!cqVars
<1>1. /\ TypeOK /\ ServersCounted /\ TasksMatch /\ CallbackWillRun
      /\ Worker \subseteq Thread /\ Producer \subseteq Thread /\ Main \in Thread
      /\ Main \notin Worker /\ Main \notin Producer /\ l \in MainPc
  BY Zenon, ThreadAssumption DEF IInv, Thread, MainPc
<1>2. /\ pc' \in [Thread -> WorkerPc \cup MainPc \cup ProducerPc]
      /\ \A v \in Worker : pc'[v] \in WorkerPc
      /\ \A p \in Producer : pc'[p] \in ProducerPc
      /\ pc'[Main] \in MainPc
      /\ \A u \in Thread : pc'[u] = IF u = Main THEN l ELSE pc[u]
  BY <1>1, Moves, Zenon
<1>3. /\ OneRuns'
      /\ \A e \in Executor : pc'[e] = "call" => callback'[e] \in 1 .. MaxCallbacks
      /\ UNCHANGED <<m_callbacks_pending, m_are_callbacks_running, callback, added, done>>
      /\ UNCHANGED Callbacks!cqVars
  BY <1>1, <1>2, NoCallback, ZenonT(30)
<1>4. TypeOK'
  BY Zenon, <1>1, <1>2, <1>3 DEF TypeOK
<1>5. Serving' = Serving
  BY Zenon, <1>1, <1>2 DEF Serving
<1>6. ServersCounted' /\ AloneAfterJoin'
  BY Zenon, <1>1, <1>2, <1>5 DEF ServersCounted, AloneAfterJoin
<1>7. TasksMatch'
  BY <1>1, <1>2, <1>3, Zenon DEF TasksMatch
<1>8. CallbackWillRun'
  BY Zenon, <1>1, <1>2, <1>3 DEF CallbackWillRun
<1>9. QED BY <1>3, <1>4, <1>6, <1>7, <1>8, ZenonT(30) DEF IInv

\* Every step of the shutdown.
LEMMA ShutdownStep ==
    ASSUME IInv, Interrupt \/ (\E drain \in BOOLEAN : Stop(drain)) \/ EmptyQueue \/ EmptyQueueLoops
    PROVE  IInv' /\ UNCHANGED Callbacks!cqVars
<1>1. TypeOK /\ AloneAfterJoin
  BY Zenon DEF IInv
<1>2. /\ notified \in SUBSET Worker /\ stopRequested \in BOOLEAN /\ stopWhenEmpty \in BOOLEAN
      /\ interrupted \in BOOLEAN
  BY Zenon, <1>1 DEF TypeOK
<1>3. CASE Interrupt
  <2>1. /\ pc[Main] = "run" /\ interrupted' = TRUE /\ Goto(Main, "join")
        /\ UNCHANGED <<taskQueue, timers, until, notified, nThreadsServicingQueue, stopRequested,
                       stopWhenEmpty, clientVars, task>>
    BY Zenon, <1>3 DEF Interrupt, queueVars
  <2>2. QED BY <1>2, <2>1, MainKeeps, Zenon
<1>4. CASE \E drain \in BOOLEAN : Stop(drain)
  <2>1. PICK drain \in BOOLEAN : Stop(drain)
    BY Zenon, <1>4
  <2>2. /\ pc[Main] = "run" /\ Goto(Main, "join")
        /\ stopWhenEmpty' = (stopWhenEmpty \/ drain) /\ stopRequested' = (stopRequested \/ ~drain)
        /\ notified' = notified \cup Sleeping(Main)
        /\ UNCHANGED <<taskQueue, timers, until, nThreadsServicingQueue, interrupted, clientVars, task>>
    BY Zenon, <2>1 DEF Stop
  <2>3. notified' \in SUBSET Worker
    BY Zenon, <1>2, <2>2 DEF Sleeping
  <2>4. stopRequested' \in BOOLEAN /\ stopWhenEmpty' \in BOOLEAN /\ interrupted' \in BOOLEAN
    BY Zenon, <1>2, <2>2
  <2>5. QED BY Zenon, <2>2, <2>3, <2>4, MainKeeps
<1>5. CASE EmptyQueue
  <2>1. /\ pc[Main] = "join" /\ (\A w \in Worker : pc[w] = "off")
        /\ (\A p \in Producer : pc[p] = "idle") /\ Goto(Main, "process")
        /\ UNCHANGED <<taskQueue, timers, until, notified, nThreadsServicingQueue, stopRequested,
                       stopWhenEmpty, interrupted, clientVars, task>>
    BY Zenon, <1>5 DEF EmptyQueue, queueVars, stopVars
  <2>2. QED BY <1>2, <2>1, MainKeeps, Zenon
<1>6. CASE EmptyQueueLoops
  <2>1. /\ pc[Main] = "back"
        /\ Goto(Main, IF m_callbacks_pending = <<>> THEN "down" ELSE "process")
        /\ UNCHANGED <<taskQueue, timers, until, notified, nThreadsServicingQueue, stopRequested,
                       stopWhenEmpty, interrupted, clientVars, task>>
    BY Zenon, <1>6 DEF EmptyQueueLoops, queueVars, stopVars
  <2>2. (\A w \in Worker : pc[w] = "off") /\ \A p \in Producer : pc[p] = "idle"
    BY Zenon, <1>1, <2>1 DEF AloneAfterJoin
  <2>3. CASE m_callbacks_pending = <<>>
    <3>1. Goto(Main, "down")
      BY <2>1, <2>3, Zenon
    <3>2. QED BY <1>2, <2>1, <2>2, <2>3, <3>1, MainKeeps, Zenon
  <2>4. CASE m_callbacks_pending # <<>>
    <3>1. Goto(Main, "process")
      BY Zenon, <2>1, <2>4
    <3>2. QED BY <1>2, <2>1, <2>2, <2>4, <3>1, MainKeeps, Zenon
  <2>5. QED BY Zenon, <2>3, <2>4
<1>7. QED BY Zenon, <1>3, <1>4, <1>5, <1>6

\* A job becomes due, or nothing happens.
LEMMA TickStep ==
    ASSUME IInv, (\E f \in Repeated : Tick(f)) \/ UNCHANGED vars
    PROVE  IInv' /\ UNCHANGED Callbacks!cqVars
<1>1. TypeOK
  BY Zenon DEF IInv
<1>2. /\ UNCHANGED <<notified, nThreadsServicingQueue, stopRequested, stopWhenEmpty, interrupted>>
      /\ UNCHANGED <<m_callbacks_pending, m_are_callbacks_running, callback, added, done, pc, task>>
  BY Zenon DEF Tick, vars, queueVars, stopVars, clientVars
<1>3. /\ taskQueue' \in Seq(Task) /\ timers' \in SUBSET Repeated
      /\ until' \in [Worker -> Repeated \cup {"now"}]
      /\ (Queued => Queued')
  <2>1. CASE UNCHANGED vars
    BY <1>1, <2>1, Zenon DEF vars, queueVars, TypeOK, Queued
  <2>2. CASE \E f \in Repeated : Tick(f)
    <3>1. PICK f \in Repeated : Tick(f)
      BY <2>2, Zenon
    <3>2. taskQueue' \in Seq(Task) /\ (Queued => Queued')
      BY <1>1, <3>1, AppendQueued, Zenon DEF Tick, Task
    <3>3. timers' \in SUBSET Repeated /\ until' \in [Worker -> Repeated \cup {"now"}]
      BY <1>1, <3>1, Zenon DEF Tick, TypeOK
    <3>4. QED BY Zenon, <3>2, <3>3
  <2>3. QED BY <2>1, <2>2, Zenon
<1>4. TypeOK'
  BY <1>1, <1>2, <1>3, Zenon DEF TypeOK
<1>5. ServersCounted' /\ AloneAfterJoin' /\ TasksMatch'
  BY <1>2, ZenonT(30) DEF IInv, ServersCounted, Serving, AloneAfterJoin, TasksMatch
<1>6. OneRuns'
  BY <1>2, Zenon DEF IInv, OneRuns, Running
<1>7. CallbackWillRun'
  BY <1>2, <1>3, Zenon DEF IInv, CallbackWillRun, Queued
<1>8. UNCHANGED Callbacks!cqVars
  BY Zenon, <1>2 DEF Callbacks!cqVars
<1>9. QED BY Zenon, <1>4, <1>5, <1>6, <1>7, <1>8 DEF IInv

-----------------------------------------------------------------------------
(* The theorems. *)

\* The pool has not started, and no signal has been emitted.
LEMMA InitLemma == Init => IInv /\ Callbacks!Init
<1> SUFFICES ASSUME Init PROVE IInv /\ Callbacks!Init
  BY Zenon
<1>1. /\ \A w \in Worker : pc[w] = "start"
      /\ \A p \in Producer : pc[p] = "idle"
      /\ pc[Main] = "run"
      /\ pc \in [Thread -> WorkerPc \cup MainPc \cup ProducerPc]
  BY ThreadAssumption, Zenon DEF Init, Thread, WorkerPc, MainPc, ProducerPc
<1>2. TypeOK
  <2>1. /\ taskQueue \in Seq(Task) /\ m_callbacks_pending \in Seq(1 .. MaxCallbacks)
        /\ done \in Seq(1 .. MaxCallbacks) /\ added \in 0 .. MaxCallbacks
    BY MaxCallbacksAssumption, EmptySeq DEF Init
  <2>2. /\ task \in [Worker -> Task] /\ callback \in [Executor -> 0 .. MaxCallbacks]
        /\ until \in [Worker -> Repeated \cup {"now"}]
    BY MaxCallbacksAssumption DEF Init, Task
  <2>3. /\ \A w \in Worker : pc[w] \in WorkerPc
        /\ \A p \in Producer : pc[p] \in ProducerPc
        /\ pc[Main] \in MainPc
    BY Zenon, <1>1 DEF WorkerPc, MainPc, ProducerPc
  <2>4. QED BY <1>1, <2>1, <2>2, <2>3, ZenonT(30) DEF Init, TypeOK
<1>3. Serving = {} /\ Running = {}
  BY Zenon, <1>1 DEF Serving, Running, Executor
<1>4. ServersCounted /\ AloneAfterJoin /\ OneRuns
  BY Zenon, <1>1, <1>3, FS_EmptySet DEF Init, ServersCounted, AloneAfterJoin, OneRuns
<1>5. TasksMatch /\ CallbackWillRun
  BY Zenon, <1>1 DEF Init, TasksMatch, CallbackWillRun, Executor
<1>6. Active = {}
  BY Zenon, <1>1 DEF Active, Executor
<1>7. Callbacks!Init
  BY <1>6, ZenonT(30) DEF Init, Callbacks!Init, Active
<1>8. QED BY Zenon, <1>2, <1>4, <1>5, <1>7 DEF IInv

\* Every critical section keeps the invariant, and is a step of CallbackQueue or
\* a stutter.
LEMMA NextLemma == IInv /\ [Next]_vars => IInv' /\ [Callbacks!Next]_Callbacks!cqVars
<1> SUFFICES ASSUME IInv, [Next]_vars PROVE IInv' /\ [Callbacks!Next]_Callbacks!cqVars
  BY Zenon
<1>1. ASSUME NEW w \in Worker, ServiceStep(w) PROVE IInv' /\ UNCHANGED Callbacks!cqVars
  BY Zenon, <1>1, ServiceStepStep
<1>2. ASSUME NEW p \in Producer, AddToProcessQueue(p) PROVE IInv' /\ Callbacks!Next
  BY Zenon, <1>2, AddStep DEF Callbacks!Next
<1>3. ASSUME NEW t \in Thread, ClientStep(t) PROVE IInv' /\ UNCHANGED Callbacks!cqVars
  BY Zenon, <1>3, MaybeStep, ScheduleStep DEF ClientStep
<1>4. ASSUME NEW e \in Executor, ProcessStep(e)
      PROVE  IInv' /\ (Callbacks!Next \/ UNCHANGED Callbacks!cqVars)
  BY Zenon, <1>4, ProcessQueueStep, CallbackReturnsStep, CallbacksRunningEndsStep
  DEF ProcessStep, Callbacks!Next
<1>5. QED BY Zenon, <1>1, <1>2, <1>3, <1>4, ShutdownStep, TickStep DEF Next

\* The inductive invariant holds in every reachable state of the scheduler.
LEMMA Invariance == Spec => []IInv
BY InitLemma, NextLemma, PTL DEF Spec

\* Every operation of CScheduler keeps its variables in their types.
THEOREM TypeCorrect == Spec => []TypeOK
<1>1. IInv => TypeOK
  BY Zenon DEF IInv
<1>2. QED BY <1>1, Invariance, PTL

\* A callback that waits has a ProcessQueue on its way to it, although
\* MaybeScheduleProcessQueue tests for that outside the scheduler's mutex.
THEOREM NoneForgotten == Spec => []CallbackWillRun
<1>1. IInv => CallbackWillRun
  BY Zenon DEF IInv
<1>2. QED BY <1>1, Invariance, PTL

\* EmptyQueue's assertion that the scheduler has no threads holds, and no
\* callback is half run when it calls ProcessQueue.
THEOREM ShutdownIsAlone == Spec => []EmptyQueueIsAlone
<1>1. ASSUME IInv PROVE EmptyQueueIsAlone
  <2>1. SUFFICES ASSUME pc[Main] \notin {"run", "join"}
                 PROVE  /\ nThreadsServicingQueue = 0
                        /\ pc[Main] = "process" => ~m_are_callbacks_running
    BY Zenon DEF EmptyQueueIsAlone
  <2>2. \A w \in Worker : pc[w] = "off"
    BY Zenon, <1>1, <2>1 DEF IInv, AloneAfterJoin
  <2>3. nThreadsServicingQueue = 0
    BY Zenon, <1>1, <2>2, FS_EmptySet DEF IInv, ServersCounted, Serving
  <2>4. pc[Main] = "process" => Running = {}
    BY Zenon, <2>2 DEF Running, Executor
  <2>5. QED BY Zenon, <1>1, <2>3, <2>4 DEF IInv, OneRuns
<1>2. QED BY <1>1, Invariance, PTL

\* The safety part of ImplementsCallbackQueue: however many threads serve the
\* queue, the callbacks begin and end as those of CallbackQueue do, one at a time
\* and in the order they were added.
THEOREM Refinement == Spec => Callbacks!Spec
<1>1. Init => Callbacks!Init
  BY Zenon, InitLemma
<1>2. IInv /\ [Next]_vars => [Callbacks!Next]_Callbacks!cqVars
  BY Zenon, NextLemma
<1>3. QED BY <1>1, <1>2, Invariance, PTL DEF Spec, Callbacks!Spec

-----------------------------------------------------------------------------
(* What the order of CallbackQueue comes to: the n-th callback that ends is   *)
(* the n-th that was added.                                                   *)

\* The callbacks that have left m_callbacks_pending.
Begun == added - Len(m_callbacks_pending)

\* The ones that wait are the latest, in order; of the others all but the latest
\* one have ended.
OrderKept ==
    /\ added \in Nat /\ m_callbacks_pending \in Seq(Nat) /\ done \in Seq(Nat)
    /\ Begun \in Nat
    /\ \A i \in 1 .. Len(m_callbacks_pending) : m_callbacks_pending[i] = Begun + i
    /\ \A i \in 1 .. Len(done) : done[i] = i
    /\ \/ Begun = Len(done) /\ Active = {}
       \/ Begun = Len(done) + 1 /\ Active = {Begun}

\* The callbacks have ended in the order they were added, none skipped and none
\* run again.
DoneInOrder == \A i \in 1 .. Len(done) : done[i] = i

\* Every step of CallbackQueue keeps the order.
LEMMA OrderStep ==
    OrderKept /\ [Callbacks!Next]_Callbacks!cqVars => OrderKept'
<1> SUFFICES ASSUME OrderKept, [Callbacks!Next]_Callbacks!cqVars PROVE OrderKept'
  BY Zenon
<1> DEFINE pend == m_callbacks_pending
<1>1. CASE Callbacks!Add
  <2>1. /\ added' = added + 1 /\ pend' = Append(pend, added + 1)
        /\ Active' = Active /\ done' = done
    BY <1>1, ZenonT(30) DEF Callbacks!Add, Active
  <2>2. /\ pend' \in Seq(Nat) /\ Len(pend') = Len(pend) + 1
        /\ \A i \in 1 .. Len(pend) : pend'[i] = pend[i]
        /\ pend'[Len(pend) + 1] = added + 1
    BY <2>1, AppendProperties DEF OrderKept
  <2>3. Len(pend) \in Nat /\ added \in Nat
    BY Zenon, LenProperties DEF OrderKept
  <2>4. Begun' = Begun
    BY <2>1, <2>2, <2>3 DEF Begun
  <2>5. ASSUME NEW i \in 1 .. Len(pend') PROVE pend'[i] = Begun + i
    <3>1. CASE i = Len(pend) + 1
      BY <2>2, <2>3, <3>1 DEF Begun
    <3>2. CASE i # Len(pend) + 1
      <4>1. i \in 1 .. Len(pend)
        BY <2>2, <2>3, <2>5, <3>2, SMTT(30)
      <4>2. pend[i] = Begun + i
        BY <4>1, Zenon DEF OrderKept
      <4>3. QED BY <2>2, <4>1, <4>2, Zenon
    <3>3. QED BY Zenon, <3>1, <3>2
  <2>6. QED BY <2>1, <2>2, <2>3, <2>4, <2>5, SMTT(30) DEF OrderKept
<1>2. CASE Callbacks!Begin
  <2>1. /\ Active = {} /\ pend # <<>> /\ Active' = {Head(pend)} /\ pend' = Tail(pend)
        /\ added' = added /\ done' = done
    BY <1>2, ZenonT(30) DEF Callbacks!Begin, Active
  <2>2. /\ pend' \in Seq(Nat) /\ Len(pend) \in Nat \ {0} /\ Len(pend') = Len(pend) - 1
        /\ \A i \in 1 .. Len(pend') : pend'[i] = pend[i + 1]
        /\ Head(pend) = pend[1]
    BY <2>1, HeadTailProperties, LenProperties, EmptySeq DEF OrderKept
  <2>3. added \in Nat /\ Begun \in Nat /\ Begun' = Begun + 1
    BY <2>1, <2>2 DEF OrderKept, Begun
  <2>4. Begun = Len(done) /\ Active' = {Begun + 1}
    BY <2>1, <2>2, SMTT(30) DEF OrderKept
  <2>5. \A i \in 1 .. Len(pend') : pend'[i] = Begun' + i
    BY <2>2, <2>3, SMTT(30) DEF OrderKept
  <2>6. QED BY <2>1, <2>2, <2>3, <2>4, <2>5, SMTT(30) DEF OrderKept
<1>3. CASE Callbacks!End
  <2>1. PICK c \in Active : Active' = Active \ {c} /\ done' = Append(done, c)
    BY <1>3, ZenonT(30) DEF Callbacks!End, Active
  <2>2. added' = added /\ pend' = pend /\ Begun' = Begun
    BY Zenon, <1>3 DEF Callbacks!End, Begun
  <2>3. Begun = Len(done) + 1 /\ c = Begun /\ Active' = {}
    BY Zenon, <2>1 DEF OrderKept
  <2>4. /\ done' \in Seq(Nat) /\ Len(done') = Len(done) + 1 /\ Len(done) \in Nat
        /\ \A i \in 1 .. Len(done) : done'[i] = done[i]
        /\ done'[Len(done) + 1] = c
    BY <2>1, <2>3, AppendProperties, LenProperties DEF OrderKept
  <2>5. ASSUME NEW i \in 1 .. Len(done') PROVE done'[i] = i
    <3>1. CASE i = Len(done) + 1
      BY <2>3, <2>4, <3>1, Zenon
    <3>2. CASE i # Len(done) + 1
      <4>1. i \in 1 .. Len(done)
        BY <2>4, <2>5, <3>2
      <4>2. QED BY <2>4, <4>1, ZenonT(30) DEF OrderKept
    <3>3. QED BY <3>1, <3>2, Zenon
  <2>6. QED BY <2>2, <2>3, <2>4, <2>5, Zenon DEF OrderKept
<1>4. CASE UNCHANGED Callbacks!cqVars
  <2>1. added' = added /\ pend' = pend /\ Active' = Active /\ done' = done
    BY Zenon, <1>4 DEF Callbacks!cqVars, Active
  <2>2. QED BY Zenon, <2>1 DEF OrderKept, Begun
<1>5. QED BY Zenon, <1>1, <1>2, <1>3, <1>4 DEF Callbacks!Next

\* The listeners of CMainSignals are called in the order the signals were
\* emitted, each once, whichever threads of the pool run them.
THEOREM CallbacksInOrder == Spec => []DoneInOrder
<1>1. Callbacks!Init => OrderKept
  <2>1. SUFFICES ASSUME Callbacks!Init PROVE OrderKept
    BY Zenon
  <2>2. added = 0 /\ m_callbacks_pending = <<>> /\ Active = {} /\ done = <<>>
    BY Zenon, <2>1 DEF Callbacks!Init, Active
  <2>3. Len(m_callbacks_pending) = 0 /\ Len(done) = 0
    BY Zenon, <2>2
  <2>4. Begun = 0
    <3>1. added = 0
      BY Zenon, <2>2
    <3>2. QED BY <2>3, <3>1 DEF Begun
  <2>5. \A i \in 1 .. 0 : FALSE
    OBVIOUS
  <2>6. m_callbacks_pending \in Seq(Nat) /\ done \in Seq(Nat)
    BY <2>2, EmptySeq, Zenon
  <2>7. QED BY <2>2, <2>3, <2>4, <2>5, <2>6, Zenon DEF OrderKept
<1>2. OrderKept => DoneInOrder
  BY Zenon DEF OrderKept, DoneInOrder
<1>3. QED BY <1>1, <1>2, OrderStep, Refinement, PTL DEF Callbacks!Spec

=============================================================================
