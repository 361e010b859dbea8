----------------------------- MODULE Scheduler -----------------------------
(***************************************************************************)
(* CScheduler, the task queue served by a pool of threads, and its client  *)
(* SingleThreadedSchedulerClient, the queue of validation callbacks.       *)
(*                                                                         *)
(* An action is one critical section of newTaskMutex or of                 *)
(* m_cs_callbacks_pending, or the end of a function run outside them.      *)
(* Time is which tasks are due.  Tasks scheduled for now are ordered by    *)
(* the time of the call; tasks of the future come after all of them, and   *)
(* among themselves in no order.  A notification that is sent right after  *)
(* a critical section is a part of it: no thread can go to sleep in        *)
(* between without looking at the queue.  Node start-up and the shutdown   *)
(* sequence (Interrupt, join_all, FlushBackgroundCallbacks) are those of   *)
(* init.cpp.                                                               *)
(***************************************************************************)
EXTENDS Naturals, Sequences, FiniteSets

CONSTANTS
    Worker,       \* the threads in serviceQueue
    Producer,     \* the threads that emit validation signals
    Main,         \* the thread that runs Interrupt and Shutdown
    Repeated,     \* the jobs of scheduleEvery
    MaxCallbacks  \* bound on the callbacks added

ASSUME ThreadAssumption ==
    /\ IsFiniteSet(Worker)
    /\ Worker \cap Producer = {} /\ Main \notin Worker \cup Producer
ASSUME JobAssumption == "ProcessQueue" \notin Repeated /\ "now" \notin Repeated
ASSUME MaxCallbacksAssumption == MaxCallbacks \in Nat

Thread == Worker \cup Producer \cup {Main}
Executor == Worker \cup {Main}
Task == Repeated \cup {"ProcessQueue"}

VARIABLES
    taskQueue,              \* the tasks that are due, in order
    timers,                 \* the tasks that are not due yet
    until,                  \* what a thread in wait_until waits for: the time of
                            \* a task of the future, or "now" once it has come
    notified,               \* threads woken up by newTaskScheduled
    nThreadsServicingQueue,
    stopRequested,
    stopWhenEmpty,
    m_callbacks_pending,
    m_are_callbacks_running,
    pc,                     \* where each thread is
    task,                   \* the task a thread runs
    callback,               \* the callback ProcessQueue has taken
    interrupted,            \* threadGroup.interrupt_all() has been called
    added,                  \* history: the number of callbacks added
    done                    \* history: the callbacks that have been run

queueVars == <<taskQueue, timers, until, notified>>
stopVars == <<nThreadsServicingQueue, stopRequested, stopWhenEmpty, interrupted>>
clientVars == <<m_callbacks_pending, m_are_callbacks_running, callback, added, done>>
vars == <<queueVars, stopVars, clientVars, pc, task>>

\* serviceQueue: "start", "seed" (RandAddSeedSleep), "wait", "timed"
\* (wait_until), "back" from a task, "off".  A task: "repeat" (the job's
\* function), "process", "call", "raii", "maybe", "schedule".  Main: "run",
\* "join", "back" from a ProcessQueue of EmptyQueue, "down".
WorkerPc == {"start", "seed", "wait", "timed", "back", "off", "repeat", "process",
             "call", "raii", "maybe", "schedule"}
MainPc == {"run", "join", "back", "down", "process", "call", "raii", "maybe", "schedule"}
ProducerPc == {"idle", "maybe", "schedule"}

\* The types of the state.
TypeOK ==
    /\ taskQueue \in Seq(Task)
    /\ timers \in SUBSET Repeated
    /\ until \in [Worker -> Repeated \cup {"now"}]
    /\ notified \in SUBSET Worker
    /\ nThreadsServicingQueue \in Nat
    /\ stopRequested \in BOOLEAN /\ stopWhenEmpty \in BOOLEAN /\ interrupted \in BOOLEAN
    /\ m_callbacks_pending \in Seq(1 .. MaxCallbacks)
    /\ m_are_callbacks_running \in BOOLEAN
    /\ pc \in [Thread -> WorkerPc \cup MainPc \cup ProducerPc]
    /\ \A w \in Worker : pc[w] \in WorkerPc
    /\ \A p \in Producer : pc[p] \in ProducerPc
    /\ pc[Main] \in MainPc
    /\ task \in [Worker -> Task]
    /\ callback \in [Executor -> 0 .. MaxCallbacks]
    /\ added \in 0 .. MaxCallbacks
    /\ done \in Seq(1 .. MaxCallbacks)

Init ==
    /\ taskQueue = <<>> /\ timers = Repeated
    /\ until = [w \in Worker |-> "now"] /\ notified = {}
    /\ nThreadsServicingQueue = 0
    /\ stopRequested = FALSE /\ stopWhenEmpty = FALSE /\ interrupted = FALSE
    /\ m_callbacks_pending = <<>> /\ m_are_callbacks_running = FALSE
    /\ pc = [t \in Thread |-> IF t \in Worker THEN "start"
                              ELSE IF t \in Producer THEN "idle" ELSE "run"]
    /\ task = [w \in Worker |-> "ProcessQueue"]
    /\ callback = [e \in Executor |-> 0]
    /\ added = 0 /\ done = <<>>

-----------------------------------------------------------------------------
(* CScheduler *)

QueueEmpty == taskQueue = <<>> /\ timers = {}

shouldStop == stopRequested \/ (stopWhenEmpty /\ QueueEmpty)

Goto(t, l) == pc' = [pc EXCEPT ![t] = l]

\* The threads that a notification can reach, w not among them.
Sleeping(w) == {v \in Worker \ ({w} \cup notified) : pc[v] \in {"wait", "timed"}}

\* newTaskScheduled.notify_one(), after w has taken its own notification.
NotifyOne(w) ==
    IF Sleeping(w) = {} THEN {notified \ {w}}
    ELSE {(notified \ {w}) \cup {v} : v \in Sleeping(w)}

\* The second and third loops: wait_until the time of the first task.
WaitUntil(w) ==
    /\ Goto(w, "timed")
    /\ \E t \in IF taskQueue # <<>> THEN {"now"} ELSE timers : until' = [until EXCEPT ![w] = t]
    /\ notified' = notified \ {w}

\* The head of the outer loop, reached with n threads in serviceQueue.
LoopHead(w, n) ==
    /\ \/ /\ shouldStop
          /\ Goto(w, "off")
          /\ nThreadsServicingQueue' = n - 1
          /\ notified' \in NotifyOne(w)
          /\ UNCHANGED until
       \/ /\ ~shouldStop /\ QueueEmpty
          /\ Goto(w, "seed")
          /\ nThreadsServicingQueue' = n
          /\ notified' = notified \ {w}
          /\ UNCHANGED until
       \/ /\ ~shouldStop /\ ~QueueEmpty
          /\ WaitUntil(w)
          /\ nThreadsServicingQueue' = n
    /\ UNCHANGED <<taskQueue, timers, stopRequested, stopWhenEmpty, interrupted, clientVars, task>>

Enter(w) == pc[w] = "start" /\ LoopHead(w, nThreadsServicingQueue + 1)

TaskReturns(w) == pc[w] = "back" /\ LoopHead(w, nThreadsServicingQueue)

\* Back from RandAddSeedSleep, or woken up in newTaskScheduled.wait.
SleepEnds(w) ==
    /\ ~interrupted
    /\ pc[w] = "seed" \/ (pc[w] = "wait" /\ w \in notified)
    /\ IF ~shouldStop /\ QueueEmpty
       THEN /\ Goto(w, "wait")
            /\ notified' = notified \ {w}
            /\ UNCHANGED <<taskQueue, timers, until, stopVars, clientVars, task>>
       ELSE LoopHead(w, nThreadsServicingQueue)

\* wait_until returns because of a notification.
WaitUntilNotified(w) ==
    /\ ~interrupted
    /\ pc[w] = "timed" /\ w \in notified
    /\ LoopHead(w, nThreadsServicingQueue)

RunTask(w, f) ==
    /\ task' = [task EXCEPT ![w] = f]
    /\ Goto(w, IF f = "ProcessQueue" THEN "process" ELSE "repeat")

\* wait_until returns because of the time: the first task is taken, which with
\* several threads need not be the one whose time has come.
WaitUntilTimesOut(w) ==
    /\ ~interrupted
    /\ pc[w] = "timed" /\ until[w] = "now"
    /\ \/ /\ shouldStop \/ QueueEmpty
          /\ LoopHead(w, nThreadsServicingQueue)
       \/ /\ ~shouldStop /\ taskQueue # <<>>
          /\ RunTask(w, Head(taskQueue))
          /\ taskQueue' = Tail(taskQueue)
          /\ notified' = notified \ {w}
          /\ UNCHANGED <<timers, until, stopVars, clientVars>>
       \/ /\ ~shouldStop /\ taskQueue = <<>>
          /\ \E f \in timers : RunTask(w, f) /\ timers' = timers \ {f}
          /\ notified' = notified \ {w}
          /\ UNCHANGED <<taskQueue, until, stopVars, clientVars>>

\* Mutant: the handler does not count the thread out.
InterruptedUncounted(w) ==
    /\ interrupted /\ pc[w] \in {"seed", "wait", "timed"}
    /\ Goto(w, "off")
    /\ notified' = notified \ {w}
    /\ UNCHANGED <<taskQueue, timers, until, stopVars, clientVars, task>>

\* boost::thread_interrupted, thrown by the sleep and by both waits.
Interrupted(w) ==
    /\ interrupted /\ pc[w] \in {"seed", "wait", "timed"}
    /\ Goto(w, "off")
    /\ nThreadsServicingQueue' = nThreadsServicingQueue - 1
    /\ notified' = notified \ {w}
    /\ UNCHANGED <<taskQueue, timers, until, stopRequested, stopWhenEmpty, interrupted,
                   clientVars, task>>

\* The time of a task comes.
Tick(f) ==
    /\ f \in timers
    /\ timers' = timers \ {f}
    /\ taskQueue' = Append(taskQueue, f)
    /\ until' = [w \in Worker |-> IF until[w] = f THEN "now" ELSE until[w]]
    /\ UNCHANGED <<notified, stopVars, clientVars, pc, task>>

\* Repeat: the function has returned, and the job is scheduled again.
RepeatEnds(w) ==
    /\ pc[w] = "repeat"
    /\ timers' = timers \cup {task[w]}
    /\ notified' \in NotifyOne(w)
    /\ Goto(w, "back")
    /\ UNCHANGED <<taskQueue, until, stopVars, clientVars, task>>

-----------------------------------------------------------------------------
(* SingleThreadedSchedulerClient *)

\* Where MaybeScheduleProcessQueue returns to.
Return(t) == Goto(t, IF t \in Producer THEN "idle" ELSE "back")

AddToProcessQueue(p) ==
    /\ pc[p] = "idle" /\ pc[Main] \in {"run", "join"}
    /\ added < MaxCallbacks
    /\ added' = added + 1
    /\ m_callbacks_pending' = Append(m_callbacks_pending, added')
    /\ Goto(p, "maybe")
    /\ UNCHANGED <<queueVars, stopVars, m_are_callbacks_running, callback, done, task>>

\* The critical section of MaybeScheduleProcessQueue.
MaybeScheduleProcessQueue(t) ==
    /\ pc[t] = "maybe"
    /\ IF m_are_callbacks_running \/ m_callbacks_pending = <<>>
       THEN Return(t) ELSE Goto(t, "schedule")
    /\ UNCHANGED <<queueVars, stopVars, clientVars, task>>

\* schedule(ProcessQueue), for now.
Schedule(t) ==
    /\ pc[t] = "schedule"
    /\ taskQueue' = Append(taskQueue, "ProcessQueue")
    /\ notified' \in NotifyOne(t)
    /\ Return(t)
    /\ UNCHANGED <<timers, until, stopVars, clientVars, task>>

\* Mutant: m_are_callbacks_running is not looked at.
ProcessQueueUnguarded(t) ==
    /\ pc[t] = "process"
    /\ IF m_callbacks_pending = <<>>
       THEN Return(t) /\ UNCHANGED clientVars
       ELSE /\ m_are_callbacks_running' = TRUE
            /\ callback' = [callback EXCEPT ![t] = Head(m_callbacks_pending)]
            /\ m_callbacks_pending' = Tail(m_callbacks_pending)
            /\ Goto(t, "call")
            /\ UNCHANGED <<added, done>>
    /\ UNCHANGED <<queueVars, stopVars, task>>

ProcessQueue(t) ==
    /\ pc[t] = "process"
    /\ IF m_are_callbacks_running \/ m_callbacks_pending = <<>>
       THEN Return(t) /\ UNCHANGED clientVars
       ELSE /\ m_are_callbacks_running' = TRUE
            /\ callback' = [callback EXCEPT ![t] = Head(m_callbacks_pending)]
            /\ m_callbacks_pending' = Tail(m_callbacks_pending)
            /\ Goto(t, "call")
            /\ UNCHANGED <<added, done>>
    /\ UNCHANGED <<queueVars, stopVars, task>>

CallbackReturns(t) ==
    /\ pc[t] = "call"
    /\ done' = Append(done, callback[t])
    /\ callback' = [callback EXCEPT ![t] = 0]
    /\ Goto(t, "raii")
    /\ UNCHANGED <<queueVars, stopVars, m_callbacks_pending, m_are_callbacks_running, added, task>>

\* Mutant: the destructor does not call MaybeScheduleProcessQueue.
CallbacksRunningEndsQuietly(t) ==
    /\ pc[t] = "raii"
    /\ m_are_callbacks_running' = FALSE
    /\ Return(t)
    /\ UNCHANGED <<queueVars, stopVars, m_callbacks_pending, callback, added, done, task>>

\* ~RAIICallbacksRunning
CallbacksRunningEnds(t) ==
    /\ pc[t] = "raii"
    /\ m_are_callbacks_running' = FALSE
    /\ Goto(t, "maybe")
    /\ UNCHANGED <<queueVars, stopVars, m_callbacks_pending, callback, added, done, task>>

-----------------------------------------------------------------------------
(* Shutdown *)

\* Interrupt: threadGroup.interrupt_all()
Interrupt ==
    /\ pc[Main] = "run"
    /\ interrupted' = TRUE
    /\ Goto(Main, "join")
    /\ UNCHANGED <<queueVars, nThreadsServicingQueue, stopRequested, stopWhenEmpty, clientVars, task>>

\* stop(drain), the other way to end the threads.
Stop(drain) ==
    /\ pc[Main] = "run"
    /\ stopWhenEmpty' = (stopWhenEmpty \/ drain)
    /\ stopRequested' = (stopRequested \/ ~drain)
    /\ notified' = notified \cup Sleeping(Main)
    /\ Goto(Main, "join")
    /\ UNCHANGED <<taskQueue, timers, until, nThreadsServicingQueue, interrupted, clientVars, task>>

\* The threads have been joined and nobody emits signals any more.
EmptyQueue ==
    /\ pc[Main] = "join"
    /\ \A w \in Worker : pc[w] = "off"
    /\ \A p \in Producer : pc[p] = "idle"
    /\ Goto(Main, "process")
    /\ UNCHANGED <<queueVars, stopVars, clientVars, task>>

EmptyQueueLoops ==
    /\ pc[Main] = "back"
    /\ Goto(Main, IF m_callbacks_pending = <<>> THEN "down" ELSE "process")
    /\ UNCHANGED <<queueVars, stopVars, clientVars, task>>

-----------------------------------------------------------------------------

ServiceStep(w) ==
    Enter(w) \/ TaskReturns(w) \/ SleepEnds(w) \/ WaitUntilNotified(w) \/ WaitUntilTimesOut(w)
    \/ Interrupted(w) \/ RepeatEnds(w)

ClientStep(t) == MaybeScheduleProcessQueue(t) \/ Schedule(t)

ProcessStep(e) == ProcessQueue(e) \/ CallbackReturns(e) \/ CallbacksRunningEnds(e)

Next ==
    \/ \E w \in Worker : ServiceStep(w)
    \/ \E f \in Repeated : Tick(f)
    \/ \E p \in Producer : AddToProcessQueue(p)
    \/ \E t \in Thread : ClientStep(t)
    \/ \E e \in Executor : ProcessStep(e)
    \/ Interrupt
    \/ \E drain \in BOOLEAN : Stop(drain)
    \/ EmptyQueue \/ EmptyQueueLoops

Spec == Init /\ [][Next]_vars

\* A thread that can run does.  Nobody has to emit signals or shut down.
FairSpec ==
    /\ Spec
    /\ \A w \in Worker : WF_vars(ServiceStep(w))
    /\ \A t \in Thread : WF_vars(ClientStep(t))
    /\ \A e \in Executor : WF_vars(ProcessStep(e))
    /\ WF_vars(EmptyQueue \/ EmptyQueueLoops)

-----------------------------------------------------------------------------
(* Properties *)

\* While a callback waits and none is running, a ProcessQueue is queued or some
\* thread is on its way to queue or to run one: the test of
\* MaybeScheduleProcessQueue, made before the call of schedule and outside its
\* mutex, never leaves a callback behind.
CallbackWillRun ==
    m_callbacks_pending # <<>> /\ ~m_are_callbacks_running =>
        \/ \E i \in DOMAIN taskQueue : taskQueue[i] = "ProcessQueue"
        \/ \E t \in Thread : pc[t] \in {"maybe", "schedule", "process"}
        \/ pc[Main] = "back"

\* EmptyQueue's assertion: it runs after the last thread has left serviceQueue,
\* however the threads were stopped, and finds no callback half run.
EmptyQueueIsAlone ==
    pc[Main] \notin {"run", "join"} =>
        /\ nThreadsServicingQueue = 0
        /\ pc[Main] = "process" => ~m_are_callbacks_running

\* The abstract queue, with the callbacks in the threads' hands as the active ones.
Callbacks == INSTANCE CallbackQueue WITH
    pending <- m_callbacks_pending,
    active <- {callback[e] : e \in {x \in Executor : pc[x] = "call"}}

\* Whatever number of threads serves the queue, callbacks run one at a time and
\* in the order AddToProcessQueue took them, and every one of them is run, by a
\* worker or, at shutdown, by EmptyQueue.
ImplementsCallbackQueue == Callbacks!FairSpec
=============================================================================
