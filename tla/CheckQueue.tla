----------------------------- MODULE CheckQueue -----------------------------
(***************************************************************************)
(* CCheckQueue and CCheckQueueControl: script checks of a block that is    *)
(* being connected are queued by the thread that connects it, the master,  *)
(* and run by a pool of worker threads.  When it has queued them all the   *)
(* master joins the pool until they are done.                              *)
(*                                                                         *)
(* A critical section of Loop, from taking the mutex to the wait or the    *)
(* unlock, is one step.  The checks of a batch touch nothing shared, and   *)
(* their outcome takes effect in the thread's next critical section.  The  *)
(* queue is a stack, but "the order of booleans doesn't matter": it is a   *)
(* set here, and a batch is any part of it of the right size.              *)
(***************************************************************************)
EXTENDS Integers, FiniteSets

CONSTANTS
    Worker,      \* threads in ThreadScriptCheck
    Master,      \* threads that connect blocks
    Check,       \* the checks of a block
    nBatchSize,
    NoMaster

ASSUME ThreadAssumption ==
    /\ IsFiniteSet(Worker) /\ IsFiniteSet(Master)
    /\ Worker \cap Master = {} /\ NoMaster \notin Master
ASSUME CheckAssumption == IsFiniteSet(Check)
ASSUME BatchSizeAssumption == nBatchSize \in Nat \ {0}

Thread == Worker \cup Master

VARIABLES
    queue,         \* the checks nobody has taken yet
    nIdle,
    nTotal,
    fAllOk,
    nTodo,
    ControlMutex,  \* the master that holds it
    pc,            \* where each thread is
    vChecks,       \* the batch of each thread
    skip,          \* threads that took their batch when fAllOk was false
    interrupted,   \* Shutdown has interrupted the worker threads
    bad,           \* the checks that fail
    added,         \* history: the checks of this block
    result         \* history: what Wait returned last

vars == <<queue, nIdle, nTotal, fAllOk, nTodo, ControlMutex, pc, vChecks, skip,
          interrupted, bad, added, result>>

\* "start": about to enter Loop; "wait": in cond.wait; "woken": notified, but
\* without the mutex; "work": runs a batch; "gone": interrupted; "out": a master
\* with no block; "adding": holds ControlMutex; "returned": back from Wait.
WorkerPc == {"start", "wait", "woken", "work", "gone"}
MasterPc == {"out", "adding", "start", "wait", "woken", "work", "returned"}

TypeOK ==
    /\ queue \in SUBSET Check
    /\ nIdle \in 0 .. Cardinality(Thread)
    /\ nTotal \in 0 .. Cardinality(Thread)
    /\ fAllOk \in BOOLEAN
    /\ nTodo \in 0 .. Cardinality(Check)
    /\ ControlMutex \in Master \cup {NoMaster}
    /\ pc \in [Thread -> WorkerPc \cup MasterPc]
    /\ \A w \in Worker : pc[w] \in WorkerPc
    /\ \A m \in Master : pc[m] \in MasterPc
    /\ vChecks \in [Thread -> SUBSET Check]
    /\ skip \in SUBSET Thread
    /\ interrupted \in BOOLEAN
    /\ bad \in SUBSET Check
    /\ added \in SUBSET Check
    /\ result \in BOOLEAN

Init ==
    /\ queue = {} /\ nIdle = 0 /\ nTotal = 0 /\ fAllOk = TRUE /\ nTodo = 0
    /\ ControlMutex = NoMaster
    /\ pc = [t \in Thread |-> IF t \in Worker THEN "start" ELSE "out"]
    /\ vChecks = [t \in Thread |-> {}] /\ skip = {}
    /\ interrupted = FALSE
    /\ bad \in SUBSET Check /\ added = {} /\ result = TRUE

-----------------------------------------------------------------------------
(* The master. *)

\* CCheckQueueControl's constructor.
Control(m) ==
    /\ pc[m] = "out" /\ ControlMutex = NoMaster
    /\ ControlMutex' = m
    /\ pc' = [pc EXCEPT ![m] = "adding"]
    /\ added' = {}
    /\ UNCHANGED <<queue, nIdle, nTotal, fAllOk, nTodo, vChecks, skip, interrupted, bad, result>>

Waiting(T) == {t \in T : pc[t] = "wait"}

\* notify_one wakes up one waiting thread of T, if there is one.
NotifyOne(T, p) ==
    IF Waiting(T) = {} THEN {p} ELSE {[p EXCEPT ![t] = "woken"] : t \in Waiting(T)}

NotifyAll(T, p) ==
    {[t \in Thread |-> IF t \in Waiting(T) THEN "woken" ELSE p[t]]}

\* Mutant: a batch counts as one check.
AddCountsOnce(m, checks) ==
    /\ pc[m] = "adding"
    /\ queue' = queue \cup checks
    /\ nTodo' = nTodo + 1
    /\ pc' \in NotifyAll(Worker, pc)
    /\ added' = added \cup checks
    /\ UNCHANGED <<nIdle, nTotal, fAllOk, ControlMutex, vChecks, skip, interrupted, bad, result>>

Add(m, checks) ==
    /\ pc[m] = "adding"
    /\ queue' = queue \cup checks
    /\ nTodo' = nTodo + Cardinality(checks)
    /\ pc' \in IF Cardinality(checks) = 1 THEN NotifyOne(Worker, pc)
               ELSE IF Cardinality(checks) > 1 THEN NotifyAll(Worker, pc)
               ELSE {pc}
    /\ added' = added \cup checks
    /\ UNCHANGED <<nIdle, nTotal, fAllOk, ControlMutex, vChecks, skip, interrupted, bad, result>>

\* The controller's Wait, called by its destructor if by nobody else.
Wait(m) ==
    /\ pc[m] = "adding"
    /\ pc' = [pc EXCEPT ![m] = "start"]
    /\ UNCHANGED <<queue, nIdle, nTotal, fAllOk, nTodo, ControlMutex, vChecks, skip,
                   interrupted, bad, added, result>>

\* The rest of the destructor.
Leave(m) ==
    /\ pc[m] = "returned"
    /\ ControlMutex' = NoMaster
    /\ pc' = [pc EXCEPT ![m] = "out"]
    /\ UNCHANGED <<queue, nIdle, nTotal, fAllOk, nTodo, vChecks, skip, interrupted, bad,
                   added, result>>

-----------------------------------------------------------------------------
(* Loop.  A critical section cleans up after the thread's last batch, or     *)
(* enters it as a new member of the pool, or comes back from the wait; then  *)
(* it returns, waits or takes the next batch.                                *)

InLoop(t) == pc[t] \in {"start", "woken", "work"}

\* Mutant: a failed batch does not clear fAllOk.
AllOkLast(t) == t \notin skip /\ vChecks[t] \cap bad = {}

TodoNow(t) == nTodo - Cardinality(vChecks[t])
AllOkNow(t) == fAllOk /\ t \notin skip /\ vChecks[t] \cap bad = {}
TotalNow(t) == IF pc[t] = "start" THEN nTotal + 1 ELSE nTotal
IdleNow(t) == IF pc[t] = "woken" THEN nIdle - 1 ELSE nIdle

\* Mutant: the last one to finish wakes up nobody.
AfterCleanupSilent(t) == {pc}

\* The worker that finishes the last check notifies the master.
AfterCleanup(t) ==
    IF pc[t] = "work" /\ t \in Worker /\ TodoNow(t) = 0 THEN NotifyOne(Master, pc) ELSE {pc}

\* Mutant: the verdict is kept for the next block.
ReturnNoReset(t) ==
    /\ InLoop(t)
    /\ queue = {} /\ t \in Master /\ TodoNow(t) = 0
    /\ nTodo' = 0
    /\ nTotal' = TotalNow(t) - 1
    /\ nIdle' = IdleNow(t)
    /\ result' = AllOkNow(t)
    /\ fAllOk' = AllOkNow(t)
    /\ pc' = [pc EXCEPT ![t] = "returned"]
    /\ vChecks' = [vChecks EXCEPT ![t] = {}]
    /\ skip' = skip \ {t}
    /\ UNCHANGED <<queue, ControlMutex, interrupted, bad, added>>

\* Only a master returns: fQuit is never set.
Return(t) ==
    /\ InLoop(t)
    /\ queue = {} /\ t \in Master /\ TodoNow(t) = 0
    /\ nTodo' = 0
    /\ nTotal' = TotalNow(t) - 1
    /\ nIdle' = IdleNow(t)
    /\ result' = AllOkNow(t)
    /\ fAllOk' = TRUE
    /\ pc' = [pc EXCEPT ![t] = "returned"]
    /\ vChecks' = [vChecks EXCEPT ![t] = {}]
    /\ skip' = skip \ {t}
    /\ UNCHANGED <<queue, ControlMutex, interrupted, bad, added>>

CondWait(t) ==
    /\ InLoop(t)
    /\ queue = {} /\ ~(t \in Master /\ TodoNow(t) = 0)
    /\ nTodo' = TodoNow(t)
    /\ fAllOk' = AllOkNow(t)
    /\ nTotal' = TotalNow(t)
    /\ nIdle' = IdleNow(t) + 1
    /\ \E p \in AfterCleanup(t) : pc' = [p EXCEPT ![t] = "wait"]
    /\ vChecks' = [vChecks EXCEPT ![t] = {}]
    /\ skip' = skip \ {t}
    /\ UNCHANGED <<queue, ControlMutex, interrupted, bad, added, result>>

\* Mutant: the lower bound of one check is missing.
NowUnbounded(t) ==
    LET share == Cardinality(queue) \div (TotalNow(t) + IdleNow(t) + 1)
    IN  IF share < nBatchSize THEN share ELSE nBatchSize

\* nNow
Now(t) ==
    LET share == Cardinality(queue) \div (TotalNow(t) + IdleNow(t) + 1)
        least == IF share < nBatchSize THEN share ELSE nBatchSize
    IN  IF least > 1 THEN least ELSE 1

TakeBatch(t, checks) ==
    /\ InLoop(t)
    /\ queue # {} /\ checks \subseteq queue /\ Cardinality(checks) = Now(t)
    /\ nTodo' = TodoNow(t)
    /\ fAllOk' = AllOkNow(t)
    /\ nTotal' = TotalNow(t)
    /\ nIdle' = IdleNow(t)
    /\ queue' = queue \ checks
    /\ \E p \in AfterCleanup(t) : pc' = [p EXCEPT ![t] = "work"]
    /\ vChecks' = [vChecks EXCEPT ![t] = checks]
    /\ skip' = IF AllOkNow(t) THEN skip \ {t} ELSE skip \cup {t}
    /\ UNCHANGED <<ControlMutex, interrupted, bad, added, result>>

Loop(t) ==
    \/ Return(t)
    \/ CondWait(t)
    \/ \E checks \in SUBSET queue : TakeBatch(t, checks)

\* A condition variable may wake up by itself.
SpuriousWakeup(t) ==
    /\ pc[t] = "wait"
    /\ pc' = [pc EXCEPT ![t] = "woken"]
    /\ UNCHANGED <<queue, nIdle, nTotal, fAllOk, nTodo, ControlMutex, vChecks, skip,
                   interrupted, bad, added, result>>

-----------------------------------------------------------------------------
(* Shutdown interrupts the worker threads.  Waiting is the interruption      *)
(* point: a worker that is in it, or comes to it, throws and ends, and the   *)
(* counters stay as they are.                                                *)

InterruptAll ==
    /\ ~interrupted
    /\ interrupted' = TRUE
    /\ UNCHANGED <<queue, nIdle, nTotal, fAllOk, nTodo, ControlMutex, pc, vChecks, skip,
                   bad, added, result>>

ThreadInterrupted(w) ==
    /\ interrupted /\ pc[w] \in {"wait", "woken"}
    /\ pc' = [pc EXCEPT ![w] = "gone"]
    /\ UNCHANGED <<queue, nIdle, nTotal, fAllOk, nTodo, ControlMutex, vChecks, skip,
                   interrupted, bad, added, result>>

Next ==
    \/ \E m \in Master : Control(m) \/ Wait(m) \/ Leave(m)
    \/ \E m \in Master, checks \in SUBSET (Check \ added) : Add(m, checks)
    \/ \E t \in Thread : Loop(t) \/ SpuriousWakeup(t)
    \/ InterruptAll
    \/ \E w \in Worker : ThreadInterrupted(w)

\* The operating system lets every thread that can run run eventually, and
\* connecting a block ends.  Nothing is assumed about spurious wakeups.
Fairness ==
    /\ \A t \in Thread : WF_vars(Loop(t))
    /\ \A m \in Master : WF_vars(Wait(m)) /\ WF_vars(Leave(m))

Spec == Init /\ [][Next]_vars /\ Fairness

-----------------------------------------------------------------------------
(* Properties *)

\* The checks that are not finished.
Outstanding == queue \cup UNION {vChecks[t] : t \in Thread}

\* nTodo, an unsigned counter decremented by whole batches, is the number of
\* checks queued or in somebody's batch, and no check is in two places.  nIdle
\* counts the threads that wait or were woken up and, as the interruption skips
\* the decrement, the workers that were interrupted; nTotal counts every thread
\* that has entered Loop and not returned from it.
CountersAreRight ==
    /\ nTodo = Cardinality(Outstanding)
    /\ \A t \in Thread :
          /\ vChecks[t] \cap queue = {}
          /\ \A u \in Thread \ {t} : vChecks[t] \cap vChecks[u] = {}
    /\ nIdle = Cardinality({t \in Thread : pc[t] \in {"wait", "woken", "gone"}})
    /\ nTotal = Cardinality({t \in Thread : pc[t] \in {"wait", "woken", "work", "gone"}})

\* Wait returns whether every check added since the controller was made
\* succeeded, though workers skip checks once one has failed and the verdict
\* is collected batch by batch.
ResultIsRight ==
    \A m \in Master : pc[m] = "returned" => (result <=> added \cap bad = {})

\* When a master has come back, nothing of its block is left behind for the
\* next one: no queued check, no batch in progress, no failure.
NothingLeftBehind ==
    ControlMutex = NoMaster \/ pc[ControlMutex] = "returned" =>
        queue = {} /\ nTodo = 0 /\ fAllOk /\ \A t \in Thread : vChecks[t] = {}

\* No wakeup is lost: a master waits only while a worker is at a batch, which
\* will notify it.  The workers may be interrupted at any time.
MasterWaitsForWork ==
    \A m \in Master : pc[m] = "wait" =>
        queue = {} /\ \E w \in Worker : pc[w] = "work"

\* A master that holds ControlMutex waits for its checks and lets go of it
\* again, with any number of workers left.
ControlIsReleased ==
    \A m \in Master : pc[m] = "adding" ~> pc[m] = "out"
=============================================================================
