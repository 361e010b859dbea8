-------------------------- MODULE CheckQueueProofs --------------------------
(***************************************************************************)
(* Proofs about CheckQueue: the counters, the verdict and the wakeups of   *)
(* CCheckQueue are right for any number of workers and masters, any set of *)
(* checks and any batch size.                                              *)
(***************************************************************************)
EXTENDS CheckQueue, FiniteSetTheorems, TLAPS

\* ControlMutex is held by the one master that is not out.
MutexHeld == \A m \in Master : pc[m] # "out" <=> ControlMutex = m

\* Only a thread at work has a batch, and only a thread with a batch skips.
BatchesAtWork ==
    /\ \A t \in Thread : vChecks[t] # {} => pc[t] = "work"
    /\ \A t \in skip : vChecks[t] # {} /\ ~fAllOk

\* While a block is being checked, fAllOk is false exactly if a bad check of it
\* has been finished.
VerdictSoFar ==
    /\ Outstanding \subseteq added
    /\ \A m \in Master :
          pc[m] \notin {"out", "returned"} => (fAllOk <=> (added \ Outstanding) \cap bad = {})

\* A master waits only for checks in batches.
WaitsForChecks ==
    \A m \in Master : pc[m] = "wait" => queue = {} /\ Outstanding # {}

IInv ==
    /\ TypeOK /\ CountersAreRight /\ MutexHeld /\ BatchesAtWork /\ VerdictSoFar
    /\ WaitsForChecks /\ ResultIsRight /\ NothingLeftBehind

-----------------------------------------------------------------------------
(* Lemmas about the operators. *)

\* There are finitely many threads and checks.
LEMMA Finite ==
    /\ IsFiniteSet(Thread)
    /\ \A S \in SUBSET Thread : IsFiniteSet(S) /\ Cardinality(S) \in 0 .. Cardinality(Thread)
    /\ \A S \in SUBSET Check : IsFiniteSet(S) /\ Cardinality(S) \in 0 .. Cardinality(Check)
<1>1. IsFiniteSet(Thread)
  BY ThreadAssumption, FS_Union, ZenonT(30) DEF Thread
<1>2. \A S \in SUBSET Thread : IsFiniteSet(S) /\ Cardinality(S) \in 0 .. Cardinality(Thread)
  BY <1>1, FS_Subset, FS_CardinalityType
<1>3. \A S \in SUBSET Check : IsFiniteSet(S) /\ Cardinality(S) \in 0 .. Cardinality(Check)
  BY CheckAssumption, FS_Subset, FS_CardinalityType
<1>4. QED BY Zenon, <1>1, <1>2, <1>3

\* Notifying changes nothing but that waiting threads of T are woken up.
LEMMA Notified ==
    ASSUME TypeOK, NEW T \in SUBSET Thread,
           NEW p \in {pc} \cup NotifyOne(T, pc) \cup NotifyAll(T, pc)
    PROVE  /\ p \in [Thread -> WorkerPc \cup MasterPc]
           /\ \A t \in Thread :
                 p[t] = pc[t] \/ (t \in T /\ pc[t] = "wait" /\ p[t] = "woken")
<1>1. pc \in [Thread -> WorkerPc \cup MasterPc] /\ "woken" \in WorkerPc
  BY Zenon DEF TypeOK, WorkerPc
<1>2. CASE p = pc
  BY Zenon, <1>1, <1>2
<1>3. CASE p \in NotifyOne(T, pc)
  BY Zenon, <1>1, <1>3 DEF NotifyOne, Waiting
<1>4. CASE p \in NotifyAll(T, pc)
  BY Zenon, <1>1, <1>4 DEF NotifyAll, Waiting
<1>5. QED BY Zenon, <1>2, <1>3, <1>4

\* The counters nIdle and nTotal, for a step in which thread t may move and
\* other threads may be woken up.
Idlers(p) == {t \in Thread : p[t] \in {"wait", "woken", "gone"}}
Members(p) == {t \in Thread : p[t] \in {"wait", "woken", "work", "gone"}}

\* A step in which t goes to `to`, after some waiting threads were woken up,
\* changes the two sets by t alone.
LEMMA Moved ==
    ASSUME NEW t \in Thread, NEW to, NEW p \in [Thread -> WorkerPc \cup MasterPc],
           pc \in [Thread -> WorkerPc \cup MasterPc],
           \A u \in Thread : p[u] = pc[u] \/ (pc[u] = "wait" /\ p[u] = "woken"),
           pc' = [p EXCEPT ![t] = to]
    PROVE  /\ Idlers(pc)' = IF to \in {"wait", "woken", "gone"}
                            THEN Idlers(pc) \cup {t} ELSE Idlers(pc) \ {t}
           /\ Members(pc)' = IF to \in {"wait", "woken", "work", "gone"}
                             THEN Members(pc) \cup {t} ELSE Members(pc) \ {t}
<1>1. \A u \in Thread : pc'[u] = IF u = t THEN to ELSE p[u]
  BY Zenon
<1>2. \A u \in Thread \ {t} : u \in Idlers(pc)' <=> u \in Idlers(pc)
  BY Zenon, <1>1 DEF Idlers
<1>3. \A u \in Thread \ {t} : u \in Members(pc)' <=> u \in Members(pc)
  BY Zenon, <1>1 DEF Members
<1>4. /\ t \in Idlers(pc)' <=> to \in {"wait", "woken", "gone"}
      /\ t \in Members(pc)' <=> to \in {"wait", "woken", "work", "gone"}
  BY Zenon, <1>1 DEF Idlers, Members
<1>5. /\ Idlers(pc) \subseteq Thread /\ Idlers(pc)' \subseteq Thread
      /\ Members(pc) \subseteq Thread /\ Members(pc)' \subseteq Thread
  BY Zenon DEF Idlers, Members
<1>6. Idlers(pc)' = IF to \in {"wait", "woken", "gone"} THEN Idlers(pc) \cup {t} ELSE Idlers(pc) \ {t}
  BY <1>2, <1>4, <1>5, ZenonT(30)
<1>7. Members(pc)' = IF to \in {"wait", "woken", "work", "gone"}
                     THEN Members(pc) \cup {t} ELSE Members(pc) \ {t}
  BY <1>3, <1>4, <1>5, ZenonT(30)
<1>8. QED BY Zenon, <1>6, <1>7

\* Adding a thread to a set of threads, or removing it, changes its cardinality
\* by one if it changes the set.
LEMMA Counted ==
    ASSUME NEW S \in SUBSET Thread, NEW t \in Thread
    PROVE  /\ Cardinality(S) \in Nat
           /\ Cardinality(S \cup {t}) = IF t \in S THEN Cardinality(S) ELSE Cardinality(S) + 1
           /\ Cardinality(S \ {t}) = IF t \in S THEN Cardinality(S) - 1 ELSE Cardinality(S)
BY Finite, FS_AddElement, FS_RemoveElement

\* A thread that is done with its batch and takes the checks of N from the queue
\* finishes exactly its old batch.
LEMMA BatchDone ==
    ASSUME TypeOK, CountersAreRight, NEW t \in Thread, NEW N \in SUBSET queue,
           queue' = queue \ N, vChecks' = [vChecks EXCEPT ![t] = N]
    PROVE  /\ Outstanding' = Outstanding \ vChecks[t]
           /\ vChecks' \in [Thread -> SUBSET Check] /\ queue' \in SUBSET Check
           /\ \A u \in Thread :
                 /\ (vChecks[u] \cap queue)' = {}
                 /\ \A v \in Thread \ {u} : (vChecks[u] \cap vChecks[v])' = {}
           /\ Outstanding \in SUBSET Check
           /\ TodoNow(t) = Cardinality(Outstanding')
<1>1. /\ queue \subseteq Check /\ vChecks \in [Thread -> SUBSET Check]
      /\ vChecks' \in [Thread -> SUBSET Check] /\ queue' \in SUBSET Check
      /\ \A u \in Thread : vChecks'[u] = IF u = t THEN N ELSE vChecks[u]
  BY Zenon DEF TypeOK
<1>2. \A u \in Thread :
        vChecks[u] \cap queue = {} /\ \A v \in Thread \ {u} : vChecks[u] \cap vChecks[v] = {}
  BY Zenon DEF CountersAreRight
<1>3. \A u \in Thread :
        (vChecks[u] \cap queue)' = {} /\ \A v \in Thread \ {u} : (vChecks[u] \cap vChecks[v])' = {}
  BY Zenon, <1>1, <1>2
<1>4. \A c : c \in Outstanding <=> c \in queue \/ \E u \in Thread : c \in vChecks[u]
  BY Zenon DEF Outstanding
<1>5. \A c : c \in Outstanding' <=> c \in queue' \/ \E u \in Thread : c \in vChecks'[u]
  BY Zenon DEF Outstanding
<1>6. \A c : c \in Outstanding' <=> c \in Outstanding /\ c \notin vChecks[t]
  BY <1>1, <1>2, <1>4, <1>5
<1>7. Outstanding' = Outstanding \ vChecks[t]
  BY Zenon, <1>6
<1>8. Outstanding \in SUBSET Check
  BY Zenon, <1>1, <1>4
<1>9. Outstanding \cap vChecks[t] = vChecks[t]
  BY Zenon, <1>4
<1>10. TodoNow(t) = Cardinality(Outstanding')
  BY <1>7, <1>8, <1>9, Finite, FS_Difference, ZenonT(30) DEF TodoNow, CountersAreRight
<1>11. QED BY Zenon, <1>1, <1>3, <1>7, <1>8, <1>10

\* What a step that leaves queue, batches and verdict alone has to keep.
LEMMA OnlyMoves ==
    ASSUME IInv, NEW t \in Thread, NEW to \in WorkerPc \cup MasterPc,
           pc' = [pc EXCEPT ![t] = to],
           UNCHANGED <<queue, nIdle, nTotal, fAllOk, nTodo, vChecks, skip, bad, result>>,
           t \in Worker => to \in WorkerPc, t \in Master => to \in MasterPc,
           pc[t] \in {"wait", "woken", "gone"} <=> to \in {"wait", "woken", "gone"},
           pc[t] # "work" /\ to # "work"
    PROVE  /\ pc' \in [Thread -> WorkerPc \cup MasterPc]
           /\ \A w \in Worker : pc'[w] \in WorkerPc
           /\ \A m \in Master : pc'[m] \in MasterPc
           /\ CountersAreRight' /\ BatchesAtWork' /\ Outstanding' = Outstanding
<1>1. TypeOK /\ CountersAreRight /\ BatchesAtWork
  BY Zenon DEF IInv
<1>2. /\ pc \in [Thread -> WorkerPc \cup MasterPc] /\ Worker \subseteq Thread /\ Master \subseteq Thread
      /\ pc' \in [Thread -> WorkerPc \cup MasterPc]
      /\ \A u \in Thread : pc'[u] = IF u = t THEN to ELSE pc[u]
  BY Zenon, <1>1 DEF TypeOK, Thread
<1>3. (\A w \in Worker : pc'[w] \in WorkerPc) /\ \A m \in Master : pc'[m] \in MasterPc
  BY Zenon, <1>1, <1>2 DEF TypeOK
<1>4. Outstanding' = Outstanding
  BY Zenon DEF Outstanding
<1>5. /\ Idlers(pc)' = IF to \in {"wait", "woken", "gone"} THEN Idlers(pc) \cup {t} ELSE Idlers(pc) \ {t}
      /\ Members(pc)' = IF to \in {"wait", "woken", "work", "gone"}
                        THEN Members(pc) \cup {t} ELSE Members(pc) \ {t}
  BY <1>2, Moved, ZenonT(30)
<1>6. Idlers(pc)' = Idlers(pc) /\ Members(pc)' = Members(pc)
  BY <1>5 DEF Idlers, Members
<1>7. CountersAreRight'
  BY <1>1, <1>4, <1>6, ZenonT(30) DEF CountersAreRight, Idlers, Members
<1>8. BatchesAtWork'
  BY Zenon, <1>1, <1>2 DEF BatchesAtWork
<1>9. QED BY Zenon, <1>2, <1>3, <1>4, <1>7, <1>8

\* A controller is made: nothing is left of the block before.
LEMMA ControlStep ==
    ASSUME IInv, NEW m \in Master, Control(m)
    PROVE  IInv'
<1>1. /\ TypeOK /\ MutexHeld /\ VerdictSoFar /\ WaitsForChecks /\ ResultIsRight /\ NothingLeftBehind
      /\ m \in Thread /\ "adding" \in MasterPc /\ m \notin Worker /\ m # NoMaster
  BY Zenon, ThreadAssumption DEF IInv, Thread, MasterPc
<1>2. /\ pc[m] = "out" /\ ControlMutex = NoMaster /\ ControlMutex' = m
      /\ pc' = [pc EXCEPT ![m] = "adding"] /\ added' = {}
      /\ UNCHANGED <<queue, nIdle, nTotal, fAllOk, nTodo, vChecks, skip, interrupted, bad, result>>
  BY Zenon DEF Control
<1>3. /\ pc' \in [Thread -> WorkerPc \cup MasterPc]
      /\ \A w \in Worker : pc'[w] \in WorkerPc
      /\ \A n \in Master : pc'[n] \in MasterPc
      /\ CountersAreRight' /\ BatchesAtWork' /\ Outstanding' = Outstanding
  BY <1>1, <1>2, OnlyMoves, ZenonT(30)
<1>4. TypeOK'
  BY Zenon, <1>1, <1>2, <1>3 DEF TypeOK
<1>5. \A n \in Master : pc'[n] = IF n = m THEN "adding" ELSE pc[n]
  BY Zenon, <1>1, <1>2 DEF TypeOK, Thread
<1>6. \A n \in Master : n # m => pc[n] = "out"
  BY Zenon, <1>1, <1>2, ThreadAssumption DEF MutexHeld
<1>7. Outstanding = {} /\ fAllOk /\ queue = {} /\ nTodo = 0
  BY Zenon, <1>1, <1>2 DEF NothingLeftBehind, Outstanding
<1>8. MutexHeld' /\ WaitsForChecks' /\ ResultIsRight'
  BY <1>2, <1>5, <1>6, <1>7 DEF MutexHeld, WaitsForChecks, ResultIsRight
<1>9. VerdictSoFar'
  BY Zenon, <1>2, <1>3, <1>7 DEF VerdictSoFar
<1>10. NothingLeftBehind'
  BY Zenon, <1>1, <1>2, <1>5 DEF NothingLeftBehind
<1>11. QED BY Zenon, <1>3, <1>4, <1>8, <1>9, <1>10 DEF IInv

\* The master starts to wait for its checks.
LEMMA WaitStep ==
    ASSUME IInv, NEW m \in Master, Wait(m)
    PROVE  IInv'
<1>1. /\ TypeOK /\ MutexHeld /\ VerdictSoFar /\ WaitsForChecks /\ ResultIsRight /\ NothingLeftBehind
      /\ m \in Thread /\ "start" \in MasterPc /\ m \notin Worker
  BY Zenon, ThreadAssumption DEF IInv, Thread, MasterPc
<1>2. /\ pc[m] = "adding" /\ pc' = [pc EXCEPT ![m] = "start"]
      /\ UNCHANGED <<queue, nIdle, nTotal, fAllOk, nTodo, ControlMutex, vChecks, skip,
                     interrupted, bad, added, result>>
  BY Zenon DEF Wait
<1>3. /\ pc' \in [Thread -> WorkerPc \cup MasterPc]
      /\ \A w \in Worker : pc'[w] \in WorkerPc
      /\ \A n \in Master : pc'[n] \in MasterPc
      /\ CountersAreRight' /\ BatchesAtWork' /\ Outstanding' = Outstanding
  BY <1>1, <1>2, OnlyMoves, ZenonT(30)
<1>4. TypeOK'
  BY Zenon, <1>1, <1>2, <1>3 DEF TypeOK
<1>5. \A n \in Master : pc'[n] = IF n = m THEN "start" ELSE pc[n]
  BY Zenon, <1>1, <1>2 DEF TypeOK, Thread
<1>6. MutexHeld' /\ WaitsForChecks' /\ ResultIsRight'
  BY Zenon, <1>1, <1>2, <1>3, <1>5 DEF MutexHeld, WaitsForChecks, ResultIsRight
<1>7. VerdictSoFar'
  BY Zenon, <1>1, <1>2, <1>3, <1>5 DEF VerdictSoFar
<1>8. NothingLeftBehind'
  BY Zenon, <1>1, <1>2, <1>5 DEF NothingLeftBehind, TypeOK
<1>9. QED BY Zenon, <1>3, <1>4, <1>6, <1>7, <1>8 DEF IInv

\* The controller is destroyed.
LEMMA LeaveStep ==
    ASSUME IInv, NEW m \in Master, Leave(m)
    PROVE  IInv'
<1>1. /\ TypeOK /\ MutexHeld /\ VerdictSoFar /\ WaitsForChecks /\ ResultIsRight /\ NothingLeftBehind
      /\ m \in Thread /\ "out" \in MasterPc /\ m \notin Worker
  BY Zenon, ThreadAssumption DEF IInv, Thread, MasterPc
<1>2. /\ pc[m] = "returned" /\ ControlMutex' = NoMaster /\ pc' = [pc EXCEPT ![m] = "out"]
      /\ UNCHANGED <<queue, nIdle, nTotal, fAllOk, nTodo, vChecks, skip, interrupted, bad,
                     added, result>>
  BY Zenon DEF Leave
<1>3. /\ pc' \in [Thread -> WorkerPc \cup MasterPc]
      /\ \A w \in Worker : pc'[w] \in WorkerPc
      /\ \A n \in Master : pc'[n] \in MasterPc
      /\ CountersAreRight' /\ BatchesAtWork' /\ Outstanding' = Outstanding
  BY <1>1, <1>2, OnlyMoves, ZenonT(30)
<1>4. TypeOK'
  BY Zenon, <1>1, <1>2, <1>3 DEF TypeOK
<1>5. \A n \in Master : pc'[n] = IF n = m THEN "out" ELSE pc[n]
  BY Zenon, <1>1, <1>2 DEF TypeOK, Thread
<1>6. ControlMutex = m
  BY Zenon, <1>1, <1>2 DEF MutexHeld
<1>7. MutexHeld' /\ WaitsForChecks' /\ ResultIsRight'
  BY Zenon, <1>1, <1>2, <1>3, <1>5, <1>6, ThreadAssumption DEF MutexHeld, WaitsForChecks, ResultIsRight
<1>8. VerdictSoFar'
  BY Zenon, <1>1, <1>2, <1>3, <1>5 DEF VerdictSoFar
<1>9. NothingLeftBehind'
  BY Zenon, <1>1, <1>2, <1>6 DEF NothingLeftBehind
<1>10. QED BY Zenon, <1>3, <1>4, <1>7, <1>8, <1>9 DEF IInv

\* A thread wakes up by itself.
LEMMA SpuriousWakeupStep ==
    ASSUME IInv, NEW t \in Thread, SpuriousWakeup(t)
    PROVE  IInv'
<1>1. /\ TypeOK /\ MutexHeld /\ VerdictSoFar /\ WaitsForChecks /\ ResultIsRight /\ NothingLeftBehind
      /\ "woken" \in MasterPc /\ "woken" \in WorkerPc
  BY Zenon DEF IInv, MasterPc, WorkerPc
<1>2. /\ pc[t] = "wait" /\ pc' = [pc EXCEPT ![t] = "woken"]
      /\ UNCHANGED <<queue, nIdle, nTotal, fAllOk, nTodo, ControlMutex, vChecks, skip,
                     interrupted, bad, added, result>>
  BY Zenon DEF SpuriousWakeup
<1>3. /\ pc' \in [Thread -> WorkerPc \cup MasterPc]
      /\ \A w \in Worker : pc'[w] \in WorkerPc
      /\ \A n \in Master : pc'[n] \in MasterPc
      /\ CountersAreRight' /\ BatchesAtWork' /\ Outstanding' = Outstanding
  BY <1>1, <1>2, OnlyMoves, ZenonT(30)
<1>4. TypeOK'
  BY Zenon, <1>1, <1>2, <1>3 DEF TypeOK
<1>5. \A n \in Master : pc'[n] = IF n = t THEN "woken" ELSE pc[n]
  BY Zenon, <1>1, <1>2 DEF TypeOK, Thread
<1>6. MutexHeld' /\ WaitsForChecks' /\ ResultIsRight'
  BY Zenon, <1>1, <1>2, <1>3, <1>5 DEF MutexHeld, WaitsForChecks, ResultIsRight
<1>7. VerdictSoFar'
  BY Zenon, <1>1, <1>2, <1>3, <1>5 DEF VerdictSoFar
<1>8. NothingLeftBehind'
  BY Zenon, <1>1, <1>2, <1>5 DEF NothingLeftBehind, TypeOK
<1>9. QED BY Zenon, <1>3, <1>4, <1>6, <1>7, <1>8 DEF IInv

\* An interrupted worker ends.
LEMMA ThreadInterruptedStep ==
    ASSUME IInv, NEW w \in Worker, ThreadInterrupted(w)
    PROVE  IInv'
<1>1. /\ TypeOK /\ MutexHeld /\ VerdictSoFar /\ WaitsForChecks /\ ResultIsRight /\ NothingLeftBehind
      /\ "gone" \in WorkerPc /\ w \in Thread /\ w \notin Master
  BY Zenon, ThreadAssumption DEF IInv, WorkerPc, Thread
<1>2. /\ pc[w] \in {"wait", "woken"} /\ pc' = [pc EXCEPT ![w] = "gone"]
      /\ UNCHANGED <<queue, nIdle, nTotal, fAllOk, nTodo, ControlMutex, vChecks, skip,
                     interrupted, bad, added, result>>
  BY Zenon DEF ThreadInterrupted
<1>3. /\ pc' \in [Thread -> WorkerPc \cup MasterPc]
      /\ \A v \in Worker : pc'[v] \in WorkerPc
      /\ \A n \in Master : pc'[n] \in MasterPc
      /\ CountersAreRight' /\ BatchesAtWork' /\ Outstanding' = Outstanding
  BY <1>1, <1>2, OnlyMoves, ZenonT(30)
<1>4. TypeOK'
  BY Zenon, <1>1, <1>2, <1>3 DEF TypeOK
<1>5. \A n \in Master : pc'[n] = pc[n]
  BY Zenon, <1>1, <1>2 DEF TypeOK, Thread
<1>6. MutexHeld' /\ WaitsForChecks' /\ ResultIsRight'
  BY Zenon, <1>1, <1>2, <1>3, <1>5 DEF MutexHeld, WaitsForChecks, ResultIsRight
<1>7. VerdictSoFar'
  BY Zenon, <1>1, <1>2, <1>3, <1>5 DEF VerdictSoFar
<1>8. NothingLeftBehind'
  BY Zenon, <1>1, <1>2, <1>5 DEF NothingLeftBehind, TypeOK
<1>9. QED BY Zenon, <1>3, <1>4, <1>6, <1>7, <1>8 DEF IInv

\* The master queues checks that are new, and wakes up workers.
LEMMA AddStep ==
    ASSUME IInv, NEW m \in Master, NEW checks \in SUBSET (Check \ added), Add(m, checks)
    PROVE  IInv'
<1>1. /\ TypeOK /\ CountersAreRight /\ MutexHeld /\ BatchesAtWork /\ VerdictSoFar
      /\ WaitsForChecks /\ ResultIsRight /\ NothingLeftBehind
      /\ m \in Thread /\ m \notin Worker /\ Worker \in SUBSET Thread
  BY Zenon, ThreadAssumption DEF IInv, Thread
<1>2. /\ pc[m] = "adding" /\ queue' = queue \cup checks /\ nTodo' = nTodo + Cardinality(checks)
      /\ pc' \in {pc} \cup NotifyOne(Worker, pc) \cup NotifyAll(Worker, pc)
      /\ added' = added \cup checks
      /\ UNCHANGED <<nIdle, nTotal, fAllOk, ControlMutex, vChecks, skip, interrupted, bad, result>>
  BY Zenon DEF Add
<1>3. /\ pc' \in [Thread -> WorkerPc \cup MasterPc]
      /\ \A t \in Thread :
            pc'[t] = pc[t] \/ (t \in Worker /\ pc[t] = "wait" /\ pc'[t] = "woken")
  BY <1>1, <1>2, Notified
<1>4. (\A n \in Master : pc'[n] = pc[n]) /\ \A w \in Worker : pc'[w] \in WorkerPc
  BY Zenon, <1>1, <1>3, ThreadAssumption DEF TypeOK, Thread, WorkerPc
<1>5. Idlers(pc)' = Idlers(pc) /\ Members(pc)' = Members(pc)
  BY Zenon, <1>3 DEF Idlers, Members
<1>6. /\ Outstanding' = Outstanding \cup checks
      /\ Outstanding \cap checks = {}
      /\ Outstanding \in SUBSET Check /\ checks \in SUBSET Check
  BY <1>1, <1>2 DEF Outstanding, VerdictSoFar, TypeOK
<1>7. nTodo' = Cardinality(Outstanding')
  <2>1. IsFiniteSet(Outstanding) /\ IsFiniteSet(checks)
    BY Zenon, <1>6, Finite
  <2>2. /\ Cardinality(Outstanding \cup checks) =
              Cardinality(Outstanding) + Cardinality(checks) - Cardinality(Outstanding \cap checks)
        /\ Cardinality(Outstanding) \in Nat /\ Cardinality(checks) \in Nat
    BY <2>1, FS_Union, FS_CardinalityType, ZenonT(30)
  <2>3. Cardinality(Outstanding \cap checks) = 0
    BY Zenon, <1>6, FS_EmptySet
  <2>4. QED BY <1>1, <1>2, <1>6, <2>2, <2>3 DEF CountersAreRight
<1>8. \A t \in Thread : vChecks[t] \cap checks = {}
  BY <1>6 DEF Outstanding
<1>9. CountersAreRight'
  BY <1>1, <1>2, <1>5, <1>7, <1>8, ZenonT(30) DEF CountersAreRight, Idlers, Members
<1>10. TypeOK'
  <2>1. nTodo' \in 0 .. Cardinality(Check)
    BY Zenon, <1>6, <1>7, Finite
  <2>2. QED BY Zenon, <1>1, <1>2, <1>3, <1>4, <2>1 DEF TypeOK
<1>11. BatchesAtWork'
  BY Zenon, <1>1, <1>2, <1>3 DEF BatchesAtWork
<1>12. VerdictSoFar'
  BY Zenon, <1>1, <1>2, <1>4, <1>6 DEF VerdictSoFar
<1>13. \A n \in Master : n # m => pc[n] = "out"
  BY Zenon, <1>1, <1>2 DEF MutexHeld
<1>14. MutexHeld' /\ WaitsForChecks' /\ ResultIsRight'
  BY Zenon, <1>1, <1>2, <1>4, <1>13 DEF MutexHeld, WaitsForChecks, ResultIsRight
<1>15. NothingLeftBehind'
  BY Zenon, <1>1, <1>2, <1>4, ThreadAssumption DEF NothingLeftBehind, MutexHeld
<1>16. QED BY Zenon, <1>9, <1>10, <1>11, <1>12, <1>14, <1>15 DEF IInv

-----------------------------------------------------------------------------
(* The critical sections of Loop. *)

\* Where the threads are, and what the counters of threads have to be, after
\* thread t went to `to`.
LEMMA LoopMoves ==
    ASSUME TypeOK, CountersAreRight, NEW t \in Thread, InLoop(t), NEW p \in AfterCleanup(t),
           NEW to \in {"wait", "work", "returned"}, pc' = [p EXCEPT ![t] = to],
           t \in Worker => to # "returned"
    PROVE  /\ pc' \in [Thread -> WorkerPc \cup MasterPc]
           /\ \A w \in Worker : pc'[w] \in WorkerPc
           /\ \A m \in Master : pc'[m] \in MasterPc
           /\ \A u \in Thread \ {t} :
                 pc'[u] = pc[u] \/ (u \in Master /\ pc[u] = "wait" /\ pc'[u] = "woken")
           /\ pc'[t] = to
           /\ Cardinality(Idlers(pc)') = IF to = "wait" THEN IdleNow(t) + 1 ELSE IdleNow(t)
           /\ Cardinality(Members(pc)') = IF to = "returned" THEN TotalNow(t) - 1 ELSE TotalNow(t)
           /\ Idlers(pc)' \in SUBSET Thread /\ Members(pc)' \in SUBSET Thread
<1>1. p \in {pc} \cup NotifyOne(Master, pc) \cup NotifyAll(Master, pc) /\ Master \in SUBSET Thread
  BY Zenon DEF AfterCleanup, Thread
<1>2. /\ p \in [Thread -> WorkerPc \cup MasterPc]
      /\ \A u \in Thread : p[u] = pc[u] \/ (u \in Master /\ pc[u] = "wait" /\ p[u] = "woken")
  BY <1>1, Notified
<1>3. /\ pc \in [Thread -> WorkerPc \cup MasterPc] /\ to \in MasterPc
      /\ pc' \in [Thread -> WorkerPc \cup MasterPc]
      /\ \A u \in Thread : pc'[u] = IF u = t THEN to ELSE p[u]
  BY Zenon, <1>2 DEF TypeOK, MasterPc
<1>4. (\A w \in Worker : pc'[w] \in WorkerPc) /\ \A m \in Master : pc'[m] \in MasterPc
  BY <1>2, <1>3, ThreadAssumption DEF TypeOK, Thread, WorkerPc, MasterPc
<1>5. /\ Idlers(pc)' = IF to \in {"wait", "woken", "gone"} THEN Idlers(pc) \cup {t} ELSE Idlers(pc) \ {t}
      /\ Members(pc)' = IF to \in {"wait", "woken", "work", "gone"}
                        THEN Members(pc) \cup {t} ELSE Members(pc) \ {t}
  BY <1>2, <1>3, Moved, ZenonT(30)
<1>6. /\ Idlers(pc) \in SUBSET Thread /\ Members(pc) \in SUBSET Thread
      /\ t \in Idlers(pc) <=> pc[t] = "woken"
      /\ t \in Members(pc) <=> pc[t] # "start"
  BY Zenon DEF Idlers, Members, InLoop
<1>7. nIdle = Cardinality(Idlers(pc)) /\ nTotal = Cardinality(Members(pc))
  BY Zenon DEF CountersAreRight, Idlers, Members
<1>8. Cardinality(Idlers(pc)') = IF to = "wait" THEN IdleNow(t) + 1 ELSE IdleNow(t)
  <2>1. /\ Cardinality(Idlers(pc)) \in Nat
        /\ Cardinality(Idlers(pc) \cup {t}) = IF pc[t] = "woken" THEN nIdle ELSE nIdle + 1
        /\ Cardinality(Idlers(pc) \ {t}) = IF pc[t] = "woken" THEN nIdle - 1 ELSE nIdle
    BY <1>6, <1>7, Counted, Zenon
  <2>2. nIdle \in Nat
    BY Zenon, <1>7, <2>1
  <2>3. CASE to = "wait"
    <3>1. Idlers(pc)' = Idlers(pc) \cup {t}
      BY <1>5, <2>3, ZenonT(30)
    <3>2. Cardinality(Idlers(pc)') = IF pc[t] = "woken" THEN nIdle ELSE nIdle + 1
      BY <2>1, <3>1, ZenonT(30)
    <3>3. QED BY <2>2, <2>3, <3>2 DEF IdleNow
  <2>4. CASE to # "wait"
    <3>1. Idlers(pc)' = Idlers(pc) \ {t}
      BY Zenon, <1>5, <2>4
    <3>2. QED BY <2>1, <2>4, <3>1, ZenonT(30) DEF IdleNow
  <2>5. QED BY Zenon, <2>3, <2>4
<1>9. Cardinality(Members(pc)') = IF to = "returned" THEN TotalNow(t) - 1 ELSE TotalNow(t)
  <2>1. /\ Cardinality(Members(pc)) \in Nat
        /\ Cardinality(Members(pc) \cup {t}) = IF pc[t] # "start" THEN nTotal ELSE nTotal + 1
        /\ Cardinality(Members(pc) \ {t}) = IF pc[t] # "start" THEN nTotal - 1 ELSE nTotal
    BY <1>6, <1>7, Counted, ZenonT(30)
  <2>2. nTotal \in Nat
    BY Zenon, <1>7, <2>1
  <2>3. CASE to = "returned"
    <3>1. Members(pc)' = Members(pc) \ {t}
      BY <1>5, <2>3, ZenonT(30)
    <3>2. Cardinality(Members(pc)') = IF pc[t] # "start" THEN nTotal - 1 ELSE nTotal
      BY <2>1, <3>1, ZenonT(30)
    <3>3. QED BY <2>2, <2>3, <3>2 DEF TotalNow
  <2>4. CASE to # "returned"
    <3>1. Members(pc)' = Members(pc) \cup {t}
      BY Zenon, <1>5, <2>4
    <3>2. QED BY <2>1, <2>4, <3>1, ZenonT(30) DEF TotalNow
  <2>5. QED BY Zenon, <2>3, <2>4
<1>10. QED BY <1>2, <1>3, <1>4, <1>5, <1>6, <1>8, <1>9, ZenonT(30)

\* The verdict that a thread finds when it is done with its batch is right,
\* whether it skipped the batch or not.
LEMMA LoopVerdict ==
    ASSUME IInv, NEW t \in Thread, Outstanding' = Outstanding \ vChecks[t],
           NEW m \in Master, pc[m] \notin {"out", "returned"}
    PROVE  AllOkNow(t) <=> (added \ Outstanding') \cap bad = {}
<1>1. /\ Outstanding \subseteq added
      /\ fAllOk <=> (added \ Outstanding) \cap bad = {}
      /\ \A u \in skip : ~fAllOk
  BY Zenon DEF IInv, VerdictSoFar, BatchesAtWork
<1>2. vChecks[t] \subseteq Outstanding
  BY Zenon DEF Outstanding
<1>3. added \ Outstanding' = (added \ Outstanding) \cup vChecks[t]
  BY Zenon, <1>1, <1>2
<1>4. (added \ Outstanding') \cap bad = {} <=> fAllOk /\ vChecks[t] \cap bad = {}
  BY Zenon, <1>1, <1>3
<1>5. QED BY Zenon, <1>1, <1>4 DEF AllOkNow

\* What waiting for work and taking a batch have in common: t is done with its
\* batch, goes to `to` and has the checks N of the queue.
LEMMA LoopStep ==
    ASSUME IInv, NEW t \in Thread, InLoop(t), NEW p \in AfterCleanup(t),
           NEW to \in {"wait", "work"}, pc' = [p EXCEPT ![t] = to],
           NEW N \in SUBSET queue, queue' = queue \ N, vChecks' = [vChecks EXCEPT ![t] = N],
           N # {} <=> to = "work",
           nTodo' = TodoNow(t), fAllOk' = AllOkNow(t), nTotal' = TotalNow(t),
           nIdle' = IF to = "wait" THEN IdleNow(t) + 1 ELSE IdleNow(t),
           skip' = IF to = "wait" \/ AllOkNow(t) THEN skip \ {t} ELSE skip \cup {t},
           UNCHANGED <<ControlMutex, interrupted, bad, added, result>>
    PROVE  /\ TypeOK' /\ CountersAreRight' /\ MutexHeld' /\ BatchesAtWork' /\ VerdictSoFar'
           /\ ResultIsRight' /\ NothingLeftBehind'
<1>1. /\ TypeOK /\ CountersAreRight /\ MutexHeld /\ BatchesAtWork /\ VerdictSoFar
      /\ WaitsForChecks /\ ResultIsRight /\ NothingLeftBehind
      /\ Master \subseteq Thread /\ Worker \subseteq Thread
  BY Zenon DEF IInv, Thread
<1>2. /\ pc' \in [Thread -> WorkerPc \cup MasterPc]
      /\ \A w \in Worker : pc'[w] \in WorkerPc
      /\ \A m \in Master : pc'[m] \in MasterPc
      /\ \A u \in Thread \ {t} :
            pc'[u] = pc[u] \/ (u \in Master /\ pc[u] = "wait" /\ pc'[u] = "woken")
      /\ pc'[t] = to
      /\ Cardinality(Idlers(pc)') = nIdle'
      /\ Cardinality(Members(pc)') = nTotal'
      /\ Idlers(pc)' \in SUBSET Thread /\ Members(pc)' \in SUBSET Thread
  BY <1>1, LoopMoves, ZenonT(30)
<1>3. /\ Outstanding' = Outstanding \ vChecks[t]
      /\ vChecks' \in [Thread -> SUBSET Check] /\ queue' \in SUBSET Check
      /\ \A u \in Thread :
            /\ (vChecks[u] \cap queue)' = {}
            /\ \A v \in Thread \ {u} : (vChecks[u] \cap vChecks[v])' = {}
      /\ Outstanding \in SUBSET Check
      /\ nTodo' = Cardinality(Outstanding')
  BY <1>1, BatchDone, ZenonT(30)
<1>4. CountersAreRight'
  BY Zenon, <1>2, <1>3 DEF CountersAreRight, Idlers, Members
<1>5. TypeOK'
  <2>1. /\ nTodo' \in 0 .. Cardinality(Check)
        /\ nIdle' \in 0 .. Cardinality(Thread) /\ nTotal' \in 0 .. Cardinality(Thread)
    <3>1. Outstanding' \in SUBSET Check
      BY Zenon, <1>3
    <3>2. nTodo' \in 0 .. Cardinality(Check)
      BY <1>3, <3>1, Finite
    <3>3. nIdle' \in 0 .. Cardinality(Thread) /\ nTotal' \in 0 .. Cardinality(Thread)
      BY <1>2, Finite, ZenonT(30)
    <3>4. QED BY Zenon, <3>2, <3>3
  <2>2. fAllOk' \in BOOLEAN
    BY Zenon DEF AllOkNow
  <2>3. skip' \in SUBSET Thread
    BY Zenon, <1>1 DEF TypeOK
  <2>4. QED BY Zenon, <1>1, <1>2, <1>3, <2>1, <2>2, <2>3 DEF TypeOK
<1>6. MutexHeld'
  BY Zenon, <1>1, <1>2 DEF MutexHeld, InLoop
<1>7. \A u \in Thread : vChecks'[u] = IF u = t THEN N ELSE vChecks[u]
  BY Zenon, <1>1 DEF TypeOK
<1>8. AllOkNow(t) => fAllOk
  BY Zenon DEF AllOkNow
<1>9. BatchesAtWork'
  <2>1. \A u \in Thread : vChecks'[u] # {} => pc'[u] = "work"
    BY <1>1, <1>2, <1>7 DEF BatchesAtWork
  <2>2. \A u \in skip' : vChecks'[u] # {} /\ ~fAllOk'
    BY Zenon, <1>1, <1>7, <1>8 DEF BatchesAtWork, TypeOK
  <2>3. QED BY Zenon, <2>1, <2>2 DEF BatchesAtWork
<1>10. VerdictSoFar'
  <2>1. Outstanding' \subseteq added'
    BY Zenon, <1>1, <1>3 DEF VerdictSoFar
  <2>2. ASSUME NEW m \in Master, pc'[m] \notin {"out", "returned"}
        PROVE  fAllOk' <=> (added' \ Outstanding') \cap bad' = {}
    <3>1. pc[m] \notin {"out", "returned"}
      BY Zenon, <1>1, <1>2, <2>2 DEF InLoop
    <3>2. QED BY Zenon, <1>3, <3>1, LoopVerdict
  <2>3. QED BY Zenon, <2>1, <2>2 DEF VerdictSoFar
<1>11. \A m \in Master : pc'[m] = "returned" => pc[m] = "returned"
  BY Zenon, <1>1, <1>2
<1>12. ResultIsRight'
  BY Zenon, <1>1, <1>11 DEF ResultIsRight
<1>13. NothingLeftBehind'
  <2>1. SUFFICES ASSUME ControlMutex' = NoMaster \/ pc'[ControlMutex'] = "returned"
                 PROVE  (queue = {} /\ nTodo = 0 /\ fAllOk /\ \A u \in Thread : vChecks[u] = {})'
    BY Zenon DEF NothingLeftBehind
  <2>2. ControlMutex = NoMaster \/ pc[ControlMutex] = "returned"
    BY Zenon, <1>1, <1>11, <2>1 DEF TypeOK
  <2>3. queue = {} /\ nTodo = 0 /\ fAllOk /\ \A u \in Thread : vChecks[u] = {}
    BY Zenon, <1>1, <2>2 DEF NothingLeftBehind
  <2>4. TodoNow(t) = 0
    BY <2>3, FS_EmptySet DEF TodoNow
  <2>5. t \notin skip
    BY Zenon, <1>1, <2>3 DEF BatchesAtWork
  <2>6. AllOkNow(t)
    BY Zenon, <2>3, <2>5 DEF AllOkNow
  <2>7. QED BY Zenon, <1>7, <2>3, <2>4, <2>6
<1>14. QED BY Zenon, <1>4, <1>5, <1>6, <1>9, <1>10, <1>12, <1>13

\* A thread finds nothing to do and waits.  A worker that finished the last
\* check has woken up the master, if it waits.
LEMMA CondWaitStep ==
    ASSUME IInv, NEW t \in Thread, CondWait(t)
    PROVE  IInv'
<1>1. /\ TypeOK /\ CountersAreRight /\ MutexHeld /\ BatchesAtWork /\ WaitsForChecks
      /\ Master \subseteq Thread
  BY Zenon DEF IInv, Thread
<1>2. /\ InLoop(t) /\ queue = {} /\ ~(t \in Master /\ TodoNow(t) = 0)
      /\ nTodo' = TodoNow(t) /\ fAllOk' = AllOkNow(t) /\ nTotal' = TotalNow(t)
      /\ nIdle' = IdleNow(t) + 1
      /\ vChecks' = [vChecks EXCEPT ![t] = {}] /\ skip' = skip \ {t}
      /\ UNCHANGED <<queue, ControlMutex, interrupted, bad, added, result>>
  BY Zenon DEF CondWait
<1>3. PICK p \in AfterCleanup(t) : pc' = [p EXCEPT ![t] = "wait"]
  BY ZenonT(30) DEF CondWait
<1>4. queue' = queue \ {} /\ {} \in SUBSET queue
  BY Zenon, <1>2
<1>5. /\ TypeOK' /\ CountersAreRight' /\ MutexHeld' /\ BatchesAtWork' /\ VerdictSoFar'
      /\ ResultIsRight' /\ NothingLeftBehind'
  BY <1>2, <1>3, <1>4, LoopStep, ZenonT(30)
<1>6. Outstanding' = Outstanding \ vChecks[t] /\ TodoNow(t) = Cardinality(Outstanding')
      /\ Outstanding \in SUBSET Check
  BY <1>1, <1>2, <1>4, BatchDone, ZenonT(30)
<1>7. TodoNow(t) = 0 <=> Outstanding' = {}
  BY Zenon, <1>6, Finite, FS_EmptySet
<1>8. ASSUME NEW m \in Master, pc'[m] = "wait" PROVE Outstanding' # {}
  <2>1. CASE m = t
    BY Zenon, <1>2, <1>7, <2>1
  <2>2. CASE m # t
    <3>1. pc[m] = "wait"
      BY <1>1, <1>2, <1>3, <1>8, <2>2, LoopMoves, ZenonT(30)
    <3>2. Outstanding # {} /\ \A n \in Master : n # m => pc[n] = "out"
      BY Zenon, <1>1, <3>1 DEF WaitsForChecks, MutexHeld
    <3>3. CASE pc[t] # "work"
      BY Zenon, <1>1, <1>6, <3>2, <3>3 DEF BatchesAtWork
    <3>4. CASE pc[t] = "work"
      <4>1. t \in Worker
        BY Zenon, <2>2, <3>2, <3>4 DEF Thread
      <4>2. ASSUME TodoNow(t) = 0 PROVE FALSE
        <5>1. p \in NotifyOne(Master, pc)
          BY Zenon, <1>3, <3>4, <4>1, <4>2 DEF AfterCleanup
        <5>2. Waiting(Master) = {m}
          BY Zenon, <3>1, <3>2 DEF Waiting
        <5>3. p = [pc EXCEPT ![m] = "woken"]
          BY Zenon, <5>1, <5>2 DEF NotifyOne
        <5>4. pc'[m] = "woken"
          BY Zenon, <1>1, <1>3, <2>2, <5>3 DEF TypeOK
        <5>5. QED BY Zenon, <1>8, <5>4
      <4>3. QED BY Zenon, <1>7, <4>2
    <3>5. QED BY Zenon, <3>3, <3>4
  <2>3. QED BY Zenon, <2>1, <2>2
<1>9. WaitsForChecks'
  BY Zenon, <1>2, <1>8 DEF WaitsForChecks
<1>10. QED BY Zenon, <1>5, <1>9 DEF IInv

\* A thread takes a batch, which is never empty.
LEMMA TakeBatchStep ==
    ASSUME IInv, NEW t \in Thread, NEW checks \in SUBSET queue, TakeBatch(t, checks)
    PROVE  IInv'
<1>1. /\ TypeOK /\ CountersAreRight /\ MutexHeld /\ WaitsForChecks /\ Master \subseteq Thread
  BY Zenon DEF IInv, Thread
<1>2. /\ InLoop(t) /\ queue # {} /\ Cardinality(checks) = Now(t)
      /\ nTodo' = TodoNow(t) /\ fAllOk' = AllOkNow(t) /\ nTotal' = TotalNow(t)
      /\ nIdle' = IdleNow(t) /\ queue' = queue \ checks
      /\ vChecks' = [vChecks EXCEPT ![t] = checks]
      /\ skip' = IF AllOkNow(t) THEN skip \ {t} ELSE skip \cup {t}
      /\ UNCHANGED <<ControlMutex, interrupted, bad, added, result>>
  BY Zenon DEF TakeBatch
<1>3. PICK p \in AfterCleanup(t) : pc' = [p EXCEPT ![t] = "work"]
  BY ZenonT(30) DEF TakeBatch
<1>4. checks # {}
  <2>1. checks \in SUBSET Check
    BY Zenon, <1>1 DEF TypeOK
  <2>2. Cardinality(checks) \in Nat
    BY <2>1, Finite
  <2>3. Cardinality(checks) # 0
    BY <1>2, <2>2 DEF Now
  <2>4. QED BY Zenon, <2>3, FS_EmptySet
<1>5. /\ TypeOK' /\ CountersAreRight' /\ MutexHeld' /\ BatchesAtWork' /\ VerdictSoFar'
      /\ ResultIsRight' /\ NothingLeftBehind'
  BY <1>2, <1>3, <1>4, LoopStep, ZenonT(30)
<1>6. \A m \in Master : pc'[m] = "wait" => pc[m] = "wait"
  BY <1>1, <1>2, <1>3, LoopMoves, ZenonT(30)
<1>7. WaitsForChecks'
  BY <1>1, <1>2, <1>6, ZenonT(30) DEF WaitsForChecks
<1>8. QED BY Zenon, <1>5, <1>7 DEF IInv

\* The master finds that all is done and returns the verdict.
LEMMA ReturnStep ==
    ASSUME IInv, NEW t \in Thread, Return(t)
    PROVE  IInv'
<1>1. /\ TypeOK /\ CountersAreRight /\ MutexHeld /\ BatchesAtWork /\ VerdictSoFar
      /\ WaitsForChecks
      /\ Master \subseteq Thread /\ Worker \subseteq Thread
  BY Zenon DEF IInv, Thread
<1>2. /\ InLoop(t) /\ queue = {} /\ t \in Master /\ TodoNow(t) = 0
      /\ nTodo' = 0 /\ nTotal' = TotalNow(t) - 1 /\ nIdle' = IdleNow(t)
      /\ result' = AllOkNow(t) /\ fAllOk' = TRUE
      /\ pc' = [pc EXCEPT ![t] = "returned"]
      /\ vChecks' = [vChecks EXCEPT ![t] = {}] /\ skip' = skip \ {t}
      /\ UNCHANGED <<queue, ControlMutex, interrupted, bad, added>>
  BY Zenon DEF Return
<1>3. t \notin Worker /\ pc \in AfterCleanup(t) /\ queue' = queue \ {} /\ {} \in SUBSET queue
  BY <1>2, ThreadAssumption, Zenon DEF AfterCleanup
<1>4. /\ pc' \in [Thread -> WorkerPc \cup MasterPc]
      /\ \A w \in Worker : pc'[w] \in WorkerPc
      /\ \A m \in Master : pc'[m] \in MasterPc
      /\ pc'[t] = "returned"
      /\ Cardinality(Idlers(pc)') = nIdle'
      /\ Cardinality(Members(pc)') = nTotal'
      /\ Idlers(pc)' \in SUBSET Thread /\ Members(pc)' \in SUBSET Thread
  BY <1>1, <1>2, <1>3, LoopMoves, ZenonT(30)
<1>5. /\ Outstanding' = Outstanding \ vChecks[t]
      /\ vChecks' \in [Thread -> SUBSET Check] /\ queue' \in SUBSET Check
      /\ \A u \in Thread :
            /\ (vChecks[u] \cap queue)' = {}
            /\ \A v \in Thread \ {u} : (vChecks[u] \cap vChecks[v])' = {}
      /\ Outstanding \in SUBSET Check
      /\ TodoNow(t) = Cardinality(Outstanding')
  BY <1>1, <1>2, <1>3, BatchDone, ZenonT(30)
<1>6. Outstanding' = {}
  BY <1>2, <1>5, Finite, FS_EmptySet, Zenon
<1>7. CountersAreRight'
  BY <1>2, <1>4, <1>5, Zenon DEF CountersAreRight, Idlers, Members
<1>8. TypeOK'
  <2>1. nTodo' \in 0 .. Cardinality(Check)
    BY <1>2, CheckAssumption, FS_CardinalityType
  <2>2. nIdle' \in 0 .. Cardinality(Thread) /\ nTotal' \in 0 .. Cardinality(Thread)
    BY Zenon, <1>4, Finite
  <2>3. result' \in BOOLEAN /\ skip' \in SUBSET Thread
    BY <1>1, <1>2, Zenon DEF AllOkNow, TypeOK
  <2>4. QED BY <1>1, <1>2, <1>4, <1>5, <2>1, <2>2, <2>3, Zenon DEF TypeOK
<1>9. \A n \in Master : n # t => pc[n] = "out" /\ pc'[n] = "out"
  BY <1>1, <1>2, Zenon DEF MutexHeld, InLoop, TypeOK
<1>10. MutexHeld' /\ WaitsForChecks'
  BY Zenon, <1>1, <1>2, <1>4, <1>9 DEF MutexHeld, WaitsForChecks, InLoop
<1>11. \A u \in Thread : vChecks'[u] = {}
  BY Zenon, <1>6 DEF Outstanding
<1>12. BatchesAtWork'
  <2>1. \A u \in Thread : u # t => vChecks[u] = {}
    BY <1>1, <1>2, <1>11, Zenon DEF TypeOK
  <2>2. skip' = {}
    BY Zenon, <1>1, <1>2, <2>1 DEF BatchesAtWork, TypeOK
  <2>3. QED BY <1>11, <2>2, Zenon DEF BatchesAtWork
<1>13. VerdictSoFar'
  BY Zenon, <1>4, <1>6, <1>9 DEF VerdictSoFar
<1>14. result' <=> added \cap bad = {}
  <2>1. pc[t] \notin {"out", "returned"}
    BY Zenon, <1>2 DEF InLoop
  <2>2. AllOkNow(t) <=> (added \ Outstanding') \cap bad = {}
    BY Zenon, <1>2, <1>5, <2>1, LoopVerdict
  <2>3. QED BY Zenon, <1>2, <1>6, <2>2
<1>15. ResultIsRight'
  BY Zenon, <1>2, <1>14 DEF ResultIsRight
<1>16. NothingLeftBehind'
  BY Zenon, <1>2, <1>11 DEF NothingLeftBehind
<1>17. QED BY Zenon, <1>7, <1>8, <1>10, <1>12, <1>13, <1>15, <1>16 DEF IInv

-----------------------------------------------------------------------------
(* The theorems. *)

\* The queue starts empty and no thread has entered Loop.
LEMMA InitLemma == Init => IInv
<1> SUFFICES ASSUME Init PROVE IInv
  BY Zenon
<1>1. Outstanding = {}
  BY Zenon DEF Init, Outstanding
<1>2. Idlers(pc) = {} /\ Members(pc) = {}
  BY Zenon DEF Init, Idlers, Members
<1>3. CountersAreRight
  BY Zenon, <1>1, <1>2, FS_EmptySet DEF Init, CountersAreRight, Idlers, Members
<1>4. TypeOK
  <2>1. 0 \in 0 .. Cardinality(Thread) /\ 0 \in 0 .. Cardinality(Check)
    BY Finite, FS_CardinalityType, CheckAssumption
  <2>2. QED BY <2>1, ThreadAssumption, ZenonT(30) DEF Init, TypeOK, Thread, WorkerPc, MasterPc
<1>5. \A m \in Master : pc[m] = "out"
  BY Zenon, ThreadAssumption DEF Init, Thread
<1>6. MutexHeld /\ WaitsForChecks /\ ResultIsRight
  BY Zenon, <1>5, ThreadAssumption DEF Init, MutexHeld, WaitsForChecks, ResultIsRight
<1>7. BatchesAtWork /\ NothingLeftBehind
  BY Zenon DEF Init, BatchesAtWork, NothingLeftBehind
<1>8. VerdictSoFar
  BY Zenon, <1>1, <1>5 DEF VerdictSoFar
<1>9. QED BY Zenon, <1>3, <1>4, <1>6, <1>7, <1>8 DEF IInv

\* Every critical section of every thread keeps the invariant.
LEMMA NextLemma == IInv /\ [Next]_vars => IInv'
<1> SUFFICES ASSUME IInv, [Next]_vars PROVE IInv'
  BY Zenon
<1>1. ASSUME NEW m \in Master, Control(m) \/ Wait(m) \/ Leave(m) PROVE IInv'
  BY Zenon, <1>1, ControlStep, WaitStep, LeaveStep
<1>2. ASSUME NEW m \in Master, NEW checks \in SUBSET (Check \ added), Add(m, checks) PROVE IInv'
  BY Zenon, <1>2, AddStep
<1>3. ASSUME NEW t \in Thread, Loop(t) PROVE IInv'
  BY Zenon, <1>3, ReturnStep, CondWaitStep, TakeBatchStep DEF Loop
<1>4. ASSUME NEW t \in Thread, SpuriousWakeup(t) PROVE IInv'
  BY Zenon, <1>4, SpuriousWakeupStep
<1>5. ASSUME NEW w \in Worker, ThreadInterrupted(w) PROVE IInv'
  BY Zenon, <1>5, ThreadInterruptedStep
<1>6. ASSUME InterruptAll \/ UNCHANGED vars PROVE IInv'
  <2>1. /\ UNCHANGED <<queue, nIdle, nTotal, fAllOk, nTodo, ControlMutex, pc, vChecks, skip,
                       bad, added, result>>
        /\ interrupted' \in BOOLEAN
    BY <1>6, ZenonT(30) DEF InterruptAll, vars, IInv, TypeOK
  <2>2. Outstanding' = Outstanding
    BY Zenon, <2>1 DEF Outstanding
  <2>3. TypeOK' /\ CountersAreRight' /\ MutexHeld' /\ BatchesAtWork'
    BY <2>1, <2>2, Zenon DEF IInv, TypeOK, CountersAreRight, MutexHeld, BatchesAtWork
  <2>4. VerdictSoFar' /\ WaitsForChecks' /\ ResultIsRight' /\ NothingLeftBehind'
    BY <2>1, <2>2, ZenonT(30) DEF IInv, VerdictSoFar, WaitsForChecks, ResultIsRight, NothingLeftBehind
  <2>5. QED BY <2>3, <2>4, Zenon DEF IInv
<1>7. QED BY Zenon, <1>1, <1>2, <1>3, <1>4, <1>5, <1>6 DEF Next

\* The inductive invariant holds in every reachable state of the queue.
LEMMA Invariance == Spec => []IInv
BY InitLemma, NextLemma, PTL DEF Spec

\* The unsigned counters of CCheckQueue never go below zero nor above the
\* number of threads or of checks.
THEOREM TypeCorrect == Spec => []TypeOK
<1>1. IInv => TypeOK
  BY Zenon DEF IInv
<1>2. QED BY <1>1, Invariance, PTL

\* nTodo, nIdle and nTotal count what they are meant to count, and no check is
\* in two places, in every interleaving of the critical sections of Loop.
THEOREM CountersHold == Spec => []CountersAreRight
<1>1. IInv => CountersAreRight
  BY Zenon DEF IInv
<1>2. QED BY <1>1, Invariance, PTL

\* Wait returns true exactly if no check of the block is bad, though batches
\* are skipped once one has failed.
THEOREM VerdictHolds == Spec => []ResultIsRight
<1>1. IInv => ResultIsRight
  BY Zenon DEF IInv
<1>2. QED BY <1>1, Invariance, PTL

\* Two blocks never mix: nothing of the first is left when Wait has returned.
THEOREM BlocksAreSeparate == Spec => []NothingLeftBehind
<1>1. IInv => NothingLeftBehind
  BY Zenon DEF IInv
<1>2. QED BY <1>1, Invariance, PTL

\* No wakeup is lost: a master that waits on condMaster waits for a worker at a
\* batch, also while the worker threads are being interrupted.
THEOREM NoLostWakeup == Spec => []MasterWaitsForWork
<1>1. ASSUME IInv PROVE MasterWaitsForWork
  <2>1. SUFFICES ASSUME NEW m \in Master, pc[m] = "wait"
                 PROVE  queue = {} /\ \E w \in Worker : pc[w] = "work"
    BY Zenon DEF MasterWaitsForWork
  <2>2. queue = {} /\ Outstanding # {}
    BY Zenon, <1>1, <2>1 DEF IInv, WaitsForChecks
  <2>3. PICK t \in Thread : vChecks[t] # {}
    BY Zenon, <2>2 DEF Outstanding
  <2>4. pc[t] = "work"
    BY Zenon, <1>1, <2>3 DEF IInv, BatchesAtWork
  <2>5. t \notin Master
    BY Zenon, <1>1, <2>1, <2>4 DEF IInv, MutexHeld
  <2>6. QED BY Zenon, <2>2, <2>4, <2>5 DEF Thread
<1>2. QED BY <1>1, Invariance, PTL

=============================================================================
