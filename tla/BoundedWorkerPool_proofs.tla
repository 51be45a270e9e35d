---------------------- MODULE BoundedWorkerPool_proofs ----------------------
(***************************************************************************)
(* Proofs about BoundedWorkerPool for any sets of threads and tasks, any   *)
(* capacity and any pair of policies, with or without spurious wakeups.    *)
(*                                                                         *)
(* PoolInv is the inductive invariant: the type invariant, how the flags   *)
(* and the program points of the threads go together, and where an         *)
(* accepted task is.  It is preserved by each action on its own; the       *)
(* properties of BoundedWorkerPool then follow from it one by one.         *)
(***************************************************************************)
EXTENDS BoundedWorkerPool, FiniteSetTheorems, TLAPS

\* The workers that have popped a task and not counted it yet.
Busy == {w \in Workers : wpc[w] \in {"popped", "running"}}

\* A submit call that sleeps, or was just woken, still holds its task.
WaitersHoldTask ==
    \A c \in Clients : cpc[c] \in {"waiting", "woken"} => ctask[c] \in Tasks

\* The two flags change together, in one critical section.
StopRefuses == stopping <=> ~accepting

\* No call reaches the pool before its constructor has returned.
IdleUntilOpen ==
    phase # "open" => /\ queue = <<>>
                      /\ \A c \in Clients : cpc[c] = "idle"
                      /\ \A s \in Closers : spc[s] = "idle"

\* The constructor returns only with every thread started.
OpenAllStarted ==
    phase = "open" => \A w \in Workers : wpc[w] # "unstarted"

\* A worker leaves its loop only when stopping on an empty queue; since no
\* task is accepted after that, the queue stays empty.
ExitedMeansEmpty ==
    \A w \in Workers : wpc[w] = "exited" => stopping /\ queue = <<>>

\* shutdown has set the flags before it notifies or joins.
ClosersStop ==
    \A s \in Closers :
        spc[s] \in {"notify_space", "notify_work", "join", "joined"} => stopping

\* shutdown returns from the join only when no worker is left.
JoinedAllExited ==
    \A s \in Closers : spc[s] = "joined" => \A w \in Workers : wpc[w] = "exited"

\* active_ counts the busy workers, and only they hold a task.
ActiveCounted ==
    /\ stats.active = Cardinality(Busy)
    /\ \A w \in Workers : wtask[w] # NoTask => w \in Busy

\* A task that was accepted and has no outcome is queued or held by a worker.
AcceptedSomewhere ==
    \A t \in Tasks : fate[t] = "accepted" =>
        \/ \E i \in DOMAIN queue : queue[i] = t
        \/ \E w \in Workers : wtask[w] = t

ControlInv ==
    /\ WaitersHoldTask
    /\ IdleUntilOpen
    /\ OpenAllStarted
    /\ ExitedMeansEmpty
    /\ ClosersStop
    /\ JoinedAllExited

PoolInv ==
    /\ TypeOK
    /\ StopRefuses
    /\ ControlInv
    /\ ActiveCounted
    /\ AcceptedSomewhere

-----------------------------------------------------------------------------
(* Lemmas about the notifications and about the busy workers.              *)

\* notify_one and notify_all on work_available_ move sleeping workers to
\* "ready" and touch no other worker.
LEMMA NotifyWorkersOnlyWakes ==
    ASSUME wpc \in [Workers -> WorkerPC], NotifyOneWorker \/ NotifyAllWorkers
    PROVE  /\ wpc' \in [Workers -> WorkerPC]
           /\ \A w \in Workers : \/ wpc'[w] = wpc[w]
                                 \/ wpc[w] = "waiting" /\ wpc'[w] = "ready"
<1>1. CASE NotifyOneWorker
    BY <1>1 DEF NotifyOneWorker, SleepingWorkers, WorkerPC
<1>2. CASE NotifyAllWorkers
    BY <1>2 DEF NotifyAllWorkers, WorkerPC
<1> QED BY <1>1, <1>2

\* The same for queue_space_available_ and the submitters that sleep on it.
LEMMA NotifyClientsOnlyWakes ==
    ASSUME cpc \in [Clients -> ClientPC], NotifyOneClient \/ NotifyAllClients
    PROVE  /\ cpc' \in [Clients -> ClientPC]
           /\ \A c \in Clients : \/ cpc'[c] = cpc[c]
                                 \/ cpc[c] = "waiting" /\ cpc'[c] = "woken"
<1>1. CASE NotifyOneClient
    BY <1>1 DEF NotifyOneClient, SleepingClients, ClientPC
<1>2. CASE NotifyAllClients
    BY <1>2 DEF NotifyAllClients, ClientPC
<1> QED BY <1>1, <1>2

\* There are finitely many busy workers.
LEMMA BusyFinite == IsFiniteSet(Busy) /\ Cardinality(Busy) \in Nat
BY PoolAssumption, FS_Subset, FS_CardinalityType, Busy \in SUBSET Workers DEF Busy

\* Initially the invariant holds.
LEMMA PoolInvInit == Init => PoolInv
<1> SUFFICES ASSUME Init PROVE PoolInv OBVIOUS
<1> USE DEF Init
<1>1. TypeOK
  <2>0. accepting \in BOOLEAN /\ stopping \in BOOLEAN
    OBVIOUS
  <2>1. /\ queue \in Seq(Tasks)
        /\ phase \in {"constructing", "open", "failing", "joining", "threw"}
    OBVIOUS
  <2>2. stats \in BoundedWorkerPoolStats
    BY DEF BoundedWorkerPoolStats
  <2>3. /\ wpc \in [Workers -> WorkerPC]
        /\ cpc \in [Clients -> ClientPC]
        /\ spc \in [Closers -> CloserPC]
    BY DEF WorkerPC, ClientPC, CloserPC
  <2>4. /\ wtask \in [Workers -> Tasks \cup {NoTask}]
        /\ ctask \in [Clients -> Tasks \cup {NoTask}]
    OBVIOUS
  <2>5. fate \in [Tasks -> Fates]
    BY DEF Fates
  <2> QED BY <2>0, <2>1, <2>2, <2>3, <2>4, <2>5 DEF TypeOK
<1>2. ActiveCounted
    BY FS_EmptySet, Busy = {} DEF ActiveCounted, Busy
<1> QED BY <1>1, <1>2 DEF PoolInv, WaitersHoldTask, StopRefuses, IdleUntilOpen,
        ControlInv, OpenAllStarted, ExitedMeansEmpty, ClosersStop, JoinedAllExited,
        AcceptedSomewhere
-----------------------------------------------------------------------------
(* Type correctness, one lemma for each of the larger actions.             *)

\* TypeOK without the flags, which the SMT solver does not take together
\* with the arithmetic.
DataTypeOK ==
    /\ queue \in Seq(Tasks)
    /\ stats \in BoundedWorkerPoolStats
    /\ phase \in {"constructing", "open", "failing", "joining", "threw"}
    /\ wpc \in [Workers -> WorkerPC]
    /\ wtask \in [Workers -> Tasks \cup {NoTask}]
    /\ cpc \in [Clients -> ClientPC]
    /\ ctask \in [Clients -> Tasks \cup {NoTask}]
    /\ spc \in [Closers -> CloserPC]
    /\ fate \in [Tasks -> Fates]

\* Every counter of stats is a natural number.
LEMMA StatsNat ==
    ASSUME stats \in BoundedWorkerPoolStats
    PROVE  /\ stats.submitted \in Nat /\ stats.completed \in Nat
           /\ stats.failed \in Nat /\ stats.dropped \in Nat
           /\ stats.active \in Nat /\ stats.peak_pending \in Nat
BY DEF BoundedWorkerPoolStats

\* Assigning naturals to the counters keeps the type of stats.
LEMMA StatsUpdates ==
    ASSUME stats \in BoundedWorkerPoolStats
    PROVE  /\ \A x \in Nat : [stats EXCEPT !.active = x] \in BoundedWorkerPoolStats
           /\ \A x \in Nat : [stats EXCEPT !.dropped = x] \in BoundedWorkerPoolStats
           /\ \A x, y \in Nat : [stats EXCEPT !.submitted = x, !.peak_pending = y]
                                   \in BoundedWorkerPoolStats
           /\ \A x, y, z \in Nat :
                 [stats EXCEPT !.active = x, !.completed = y, !.failed = z]
                     \in BoundedWorkerPoolStats
BY DEF BoundedWorkerPoolStats

\* The critical section of submit.
LEMMA SubmitLockedTypes ==
    ASSUME DataTypeOK, NEW c \in Clients, NEW t \in Tasks, SubmitLocked(c, t)
    PROVE  DataTypeOK'
<1> USE DEF DataTypeOK
<1>0. UNCHANGED <<phase, wpc, wtask, spc>>
    BY DEF SubmitLocked
<1>1. CASE Refuse(c, t)
    BY <1>0, <1>1 DEF Refuse, ClientPC, Fates
<1>2. CASE Reject(c, t)
  <2>1. stats.dropped + 1 \in Nat BY StatsNat
  <2>2. stats' = [stats EXCEPT !.dropped = stats.dropped + 1] BY <1>2, Zenon DEF Reject
  <2>3. stats' \in BoundedWorkerPoolStats BY <2>1, <2>2, StatsUpdates, Zenon
  <2> QED BY <1>0, <1>2, <2>3 DEF Reject, Fates
<1>3. CASE WaitForSpace(c, t)
    BY <1>0, <1>3 DEF WaitForSpace, ClientPC, Fates
<1>4. CASE Enqueue(c, t)
  <2>1. queue' \in Seq(Tasks) /\ Len(queue') \in Nat
    BY <1>4 DEF Enqueue, Push
  <2>2. stats' \in BoundedWorkerPoolStats
    <3> DEFINE peak == IF Len(queue') > stats.peak_pending
                         THEN Len(queue') ELSE stats.peak_pending
    <3>1. stats.submitted + 1 \in Nat /\ peak \in Nat
      BY <2>1, StatsNat
    <3>2. stats' = [stats EXCEPT !.submitted = stats.submitted + 1, !.peak_pending = peak]
      BY <1>4, Zenon DEF Enqueue, Push
    <3> HIDE DEF peak
    <3> QED BY <3>1, <3>2, StatsUpdates, Zenon
  <2>3. cpc' \in [Clients -> ClientPC] /\ fate' \in [Tasks -> Fates]
    BY <1>4 DEF Enqueue, Push, ClientPC, Fates
  <2>4. ctask' \in [Clients -> Tasks \cup {NoTask}]
    BY <1>4 DEF Enqueue, Push
  <2> QED BY <1>0, <2>1, <2>2, <2>3, <2>4
<1> QED BY <1>1, <1>2, <1>3, <1>4 DEF SubmitLocked

\* Popping the front task.
LEMMA TakeTypes ==
    ASSUME DataTypeOK, NEW w \in Workers, WorkerTake(w)
    PROVE  DataTypeOK'
<1> USE DEF DataTypeOK, WorkerTake, TakeFront
<1>1. queue' \in Seq(Tasks) /\ Head(queue) \in Tasks
    OBVIOUS
<1>2. stats' \in BoundedWorkerPoolStats
  <2>1. stats.active + 1 \in Nat BY StatsNat
  <2>2. stats' = [stats EXCEPT !.active = stats.active + 1] BY Zenon
  <2> QED BY <2>1, <2>2, StatsUpdates, Zenon
<1>3. wpc' \in [Workers -> WorkerPC]
    BY DEF WorkerPC
<1>4. wtask' \in [Workers -> Tasks \cup {NoTask}]
    BY <1>1
<1> QED BY <1>1, <1>2, <1>3, <1>4

\* Counting a task that ran.
LEMMA FinishTypes ==
    ASSUME DataTypeOK, ActiveCounted, NEW w \in Workers, FinishTask(w)
    PROVE  DataTypeOK'
<1> USE DEF DataTypeOK, FinishTask, CountTask
<1>1. stats.active - 1 \in Nat
  <2>1. w \in Busy BY DEF Busy
  <2>2. Cardinality(Busy) # 0 BY <2>1, BusyFinite, FS_EmptySet
  <2> QED BY <2>2, BusyFinite DEF ActiveCounted
<1>2. stats' \in BoundedWorkerPoolStats
  <2>1. PICK y, z \in {0, 1} :
          stats' = [stats EXCEPT !.active = stats.active - 1,
                      !.completed = stats.completed + y, !.failed = stats.failed + z]
    BY Zenon
  <2>2. stats.completed + y \in Nat /\ stats.failed + z \in Nat BY StatsNat
  <2> QED BY <1>1, <2>1, <2>2, StatsUpdates, Zenon
<1>3. wpc' \in [Workers -> WorkerPC]
    BY DEF WorkerPC
<1>4. fate' \in [Tasks -> Fates]
    BY DEF Fates
<1>5. wtask' \in [Workers -> Tasks \cup {NoTask}]
    OBVIOUS
<1> QED BY <1>2, <1>3, <1>4, <1>5

\* Closing the queue, with or without what is in it.
LEMMA ShutdownTypes ==
    ASSUME DataTypeOK, NEW s \in Closers, Shutdown(s)
    PROVE  DataTypeOK'
<1> USE DEF DataTypeOK, Shutdown
<1>1. /\ queue' \in Seq(Tasks)
      /\ stats' \in BoundedWorkerPoolStats
      /\ fate' \in [Tasks -> Fates]
  <2>1. CASE shutdown_policy = "discard_pending"
    <3>1. queue' \in Seq(Tasks) /\ fate' \in [Tasks -> Fates]
        BY <2>1 DEF DiscardPending, Fates
    <3>2. Len(queue) \in Nat OBVIOUS
    <3>3. stats.dropped + Len(queue) \in Nat BY <3>2, StatsNat
    <3>4. stats' = [stats EXCEPT !.dropped = stats.dropped + Len(queue)]
        BY <2>1, Zenon DEF DiscardPending
    <3>5. stats' \in BoundedWorkerPoolStats BY <3>3, <3>4, StatsUpdates, Zenon
    <3> QED BY <3>1, <3>5
  <2>2. CASE shutdown_policy # "discard_pending"
    BY <2>2
  <2> QED BY <2>1, <2>2
<1>2. spc' \in [Closers -> CloserPC]
    BY DEF CloserPC
<1> QED BY <1>1, <1>2 DEF held

\* Every step either leaves the two flags alone or clears the one and sets the
\* other.
LEMMA FlagsStep ==
    ASSUME [Next]_vars
    PROVE  UNCHANGED flags \/ (accepting' = FALSE /\ stopping' = TRUE)
<1>1. CASE Constructor
    BY <1>1, Zenon DEF Constructor, FinishConstruction, FailConstruction,
        NotifyStartedWorkers, JoinStartedWorkers
<1>2. ASSUME NEW w \in Workers, WorkerStep(w) PROVE UNCHANGED flags
    BY <1>2, Zenon DEF WorkerStep, StartWorker, WorkerWait, WorkerExit, WorkerTake,
        TakeFront, NotifySpace, FinishTask, CountTask
<1>3. ASSUME NEW c \in Clients, ClientStep(c) PROVE UNCHANGED flags
    BY <1>3, Zenon DEF ClientStep, ResumeSubmit, SubmitLocked, NotifyWork
<1>4. ASSUME NEW c \in Clients, NEW t \in Tasks, Submit(c, t) PROVE UNCHANGED flags
    BY <1>4, Zenon DEF Submit, SubmitLocked
<1>5. ASSUME NEW s \in Closers, CloserStep(s) \/ Shutdown(s) \/ ShutdownAgain(s)
      PROVE  UNCHANGED flags \/ (accepting' = FALSE /\ stopping' = TRUE)
    BY <1>5, Zenon DEF CloserStep, NotifyBlockedClients, NotifyIdleWorkers, JoinWorkers,
        Shutdown, ShutdownAgain
<1>6. CASE SpuriousWakeup BY <1>6, Zenon DEF SpuriousWakeup
<1>7. CASE Quiescent \/ UNCHANGED vars BY <1>7, Zenon DEF Quiescent, vars
<1> QED BY <1>1, <1>2, <1>3, <1>4, <1>5, <1>6, <1>7, Zenon DEF Next

\* Every step preserves the types of the variables.
LEMMA TypeStep == PoolInv /\ [Next]_vars => TypeOK'
<1> SUFFICES ASSUME PoolInv, [Next]_vars PROVE TypeOK' OBVIOUS
<1>0. DataTypeOK /\ ActiveCounted /\ WaitersHoldTask
    BY Zenon DEF PoolInv, ControlInv, TypeOK, DataTypeOK
<1>1. accepting' \in BOOLEAN /\ stopping' \in BOOLEAN
    BY FlagsStep, Zenon DEF PoolInv, TypeOK, flags
<1>2. DataTypeOK'
  <2>1. CASE Constructor
      BY <1>0, <2>1, NotifyWorkersOnlyWakes DEF DataTypeOK, Constructor,
          FinishConstruction, FailConstruction, NotifyStartedWorkers,
          JoinStartedWorkers, held
  <2>2. ASSUME NEW w \in Workers, WorkerStep(w) PROVE DataTypeOK'
    <3>1. CASE StartWorker(w) \/ WorkerWait(w) \/ WorkerExit(w)
        BY <1>0, <3>1 DEF DataTypeOK, StartWorker, WorkerWait, WorkerExit, held, WorkerPC
    <3>2. CASE WorkerTake(w) BY <1>0, <3>2, TakeTypes
    <3>3. CASE NotifySpace(w)
        BY <1>0, <3>3, NotifyClientsOnlyWakes DEF DataTypeOK, NotifySpace, held, WorkerPC
    <3>4. CASE FinishTask(w) BY <1>0, <3>4, FinishTypes
    <3> QED BY <2>2, <3>1, <3>2, <3>3, <3>4 DEF WorkerStep
  <2>3. ASSUME NEW c \in Clients, ClientStep(c) PROVE DataTypeOK'
    <3>1. CASE ResumeSubmit(c)
        BY <1>0, <3>1, SubmitLockedTypes DEF ResumeSubmit, WaitersHoldTask
    <3>2. CASE NotifyWork(c)
        BY <1>0, <3>2, NotifyWorkersOnlyWakes DEF DataTypeOK, NotifyWork, held, ClientPC
    <3> QED BY <2>3, <3>1, <3>2 DEF ClientStep
  <2>4. ASSUME NEW c \in Clients, NEW t \in Tasks, Submit(c, t) PROVE DataTypeOK'
      BY <1>0, <2>4, SubmitLockedTypes DEF Submit
  <2>5. ASSUME NEW s \in Closers, CloserStep(s) \/ Shutdown(s) \/ ShutdownAgain(s)
        PROVE  DataTypeOK'
    <3>1. CASE NotifyBlockedClients(s)
        BY <1>0, <3>1, NotifyClientsOnlyWakes DEF DataTypeOK, NotifyBlockedClients, held,
            CloserPC
    <3>2. CASE NotifyIdleWorkers(s)
        BY <1>0, <3>2, NotifyWorkersOnlyWakes DEF DataTypeOK, NotifyIdleWorkers, held,
            CloserPC
    <3>3. CASE JoinWorkers(s) \/ ShutdownAgain(s)
        BY <1>0, <3>3 DEF DataTypeOK, JoinWorkers, ShutdownAgain, held, CloserPC
    <3>4. CASE Shutdown(s) BY <1>0, <3>4, ShutdownTypes
    <3> QED BY <2>5, <3>1, <3>2, <3>3, <3>4 DEF CloserStep
  <2>6. CASE SpuriousWakeup
      BY <1>0, <2>6, NotifyWorkersOnlyWakes, NotifyClientsOnlyWakes
          DEF DataTypeOK, SpuriousWakeup, held
  <2>7. CASE Quiescent \/ UNCHANGED vars
      BY <1>0, <2>7 DEF DataTypeOK, Quiescent, vars, held
  <2> QED BY <2>1, <2>2, <2>3, <2>4, <2>5, <2>6, <2>7 DEF Next
<1> QED BY <1>1, <1>2, Zenon DEF TypeOK, DataTypeOK

-----------------------------------------------------------------------------
(* The rest of the invariant.                                              *)

\* The two flags stay opposite.
LEMMA StopRefusesStep == PoolInv /\ [Next]_vars => StopRefuses'
BY FlagsStep, Zenon DEF PoolInv, StopRefuses, flags

\* Every step preserves how program points, flags and the queue go together.
LEMMA ControlStep == PoolInv /\ [Next]_vars => ControlInv'
<1> SUFFICES ASSUME PoolInv, [Next]_vars PROVE ControlInv' OBVIOUS
<1>0. DataTypeOK /\ StopRefuses /\ ControlInv
    BY Zenon DEF PoolInv, TypeOK, DataTypeOK
<1> USE <1>0 DEF DataTypeOK, ControlInv, WaitersHoldTask, IdleUntilOpen,
        OpenAllStarted, ExitedMeansEmpty, ClosersStop, JoinedAllExited, held, flags,
        WorkerPC, ClientPC, CloserPC
<1>1. CASE Constructor
  <2>1. CASE FinishConstruction BY <2>1 DEF FinishConstruction
  <2>2. CASE FailConstruction BY <2>2 DEF FailConstruction
  <2>3. CASE NotifyStartedWorkers
      BY <2>3, NotifyWorkersOnlyWakes DEF NotifyStartedWorkers
  <2>4. CASE JoinStartedWorkers BY <2>4 DEF JoinStartedWorkers
  <2> QED BY <1>1, <2>1, <2>2, <2>3, <2>4 DEF Constructor
<1>2. ASSUME NEW w \in Workers, WorkerStep(w) PROVE ControlInv'
  <2>1. CASE StartWorker(w) BY <2>1 DEF StartWorker
  <2>2. CASE WorkerWait(w) BY <2>2 DEF WorkerWait
  <2>3. CASE WorkerExit(w) BY <2>3 DEF WorkerExit
  <2>4. CASE WorkerTake(w) BY <2>4 DEF WorkerTake, TakeFront
  <2>5. CASE NotifySpace(w) BY <2>5, NotifyClientsOnlyWakes DEF NotifySpace
  <2>6. CASE FinishTask(w) BY <2>6 DEF FinishTask, CountTask
  <2> QED BY <1>2, <2>1, <2>2, <2>3, <2>4, <2>5, <2>6 DEF WorkerStep
<1>3. ASSUME NEW c \in Clients, NEW t \in Tasks, phase = "open", SubmitLocked(c, t)
      PROVE  ControlInv'
  <2>1. CASE Refuse(c, t) BY <1>3, <2>1 DEF SubmitLocked, Refuse
  <2>2. CASE Reject(c, t) BY <1>3, <2>2 DEF SubmitLocked, Reject
  <2>3. CASE WaitForSpace(c, t) BY <1>3, <2>3 DEF SubmitLocked, WaitForSpace
  <2>4. CASE Enqueue(c, t) BY <1>3, <2>4 DEF SubmitLocked, Enqueue, Push, StopRefuses
  <2> QED BY <1>3, <2>1, <2>2, <2>3, <2>4 DEF SubmitLocked
<1>4. ASSUME NEW c \in Clients, ClientStep(c) PROVE ControlInv'
  <2>1. CASE ResumeSubmit(c) BY <2>1, <1>3 DEF ResumeSubmit
  <2>2. CASE NotifyWork(c) BY <2>2, NotifyWorkersOnlyWakes DEF NotifyWork
  <2> QED BY <1>4, <2>1, <2>2 DEF ClientStep
<1>5. ASSUME NEW c \in Clients, NEW t \in Tasks, Submit(c, t) PROVE ControlInv'
    BY <1>5, <1>3 DEF Submit
<1>6. ASSUME NEW s \in Closers, CloserStep(s) \/ Shutdown(s) \/ ShutdownAgain(s)
      PROVE  ControlInv'
  <2>1. CASE NotifyBlockedClients(s)
      BY <2>1, NotifyClientsOnlyWakes DEF NotifyBlockedClients
  <2>2. CASE NotifyIdleWorkers(s)
      BY <2>2, NotifyWorkersOnlyWakes DEF NotifyIdleWorkers
  <2>3. CASE JoinWorkers(s) BY <2>3 DEF JoinWorkers
  <2>4. CASE ShutdownAgain(s) BY <2>4 DEF ShutdownAgain
  <2>5. CASE Shutdown(s) BY <2>5 DEF Shutdown, DiscardPending
  <2> QED BY <1>6, <2>1, <2>2, <2>3, <2>4, <2>5 DEF CloserStep
<1>7. CASE SpuriousWakeup
    BY <1>7, NotifyWorkersOnlyWakes, NotifyClientsOnlyWakes DEF SpuriousWakeup
<1>8. CASE Quiescent \/ UNCHANGED vars
    BY <1>8 DEF Quiescent, vars
<1> QED BY <1>1, <1>2, <1>4, <1>5, <1>6, <1>7, <1>8 DEF Next

\* active_ stays the number of busy workers, and only they hold a task.
LEMMA ActiveStep == PoolInv /\ [Next]_vars => ActiveCounted'
<1> SUFFICES ASSUME PoolInv, [Next]_vars PROVE ActiveCounted' OBVIOUS
<1>0. DataTypeOK /\ ActiveCounted
    BY Zenon DEF PoolInv, TypeOK, DataTypeOK
<1>1. stats.active \in Nat
    BY <1>0, StatsNat DEF DataTypeOK
<1>2. ASSUME stats'.active = stats.active, wtask' = wtask, Busy' = Busy
      PROVE  ActiveCounted'
    BY <1>0, <1>2 DEF ActiveCounted
<1>3. CASE Constructor
  <2>1. UNCHANGED <<stats, wtask>>
      BY <1>3 DEF Constructor, FinishConstruction, FailConstruction,
          NotifyStartedWorkers, JoinStartedWorkers, held
  <2>2. Busy' = Busy
      BY <1>0, <1>3, NotifyWorkersOnlyWakes DEF DataTypeOK, Busy, Constructor,
          FinishConstruction, FailConstruction, NotifyStartedWorkers, JoinStartedWorkers
  <2> QED BY <1>2, <2>1, <2>2
<1>4. ASSUME NEW w \in Workers, WorkerStep(w) PROVE ActiveCounted'
  <2>1. CASE StartWorker(w) \/ WorkerWait(w) \/ WorkerExit(w)
    <3>1. UNCHANGED <<stats, wtask>>
        BY <2>1 DEF StartWorker, WorkerWait, WorkerExit, held
    <3>2. Busy' = Busy
        BY <1>0, <2>1 DEF DataTypeOK, Busy, StartWorker, WorkerWait, WorkerExit
    <3> QED BY <1>2, <3>1, <3>2
  <2>2. CASE WorkerTake(w)
    <3>1. w \notin Busy /\ Busy' = Busy \cup {w}
        BY <1>0, <2>2 DEF DataTypeOK, Busy, WorkerTake, TakeFront
    <3>2. Cardinality(Busy') = Cardinality(Busy) + 1
        BY <3>1, BusyFinite, FS_AddElement
    <3>3. stats'.active = stats.active + 1
        BY <1>0, <2>2 DEF DataTypeOK, BoundedWorkerPoolStats, WorkerTake, TakeFront
    <3>4. \A v \in Workers : wtask'[v] # NoTask => v \in Busy'
        BY <1>0, <2>2, <3>1 DEF DataTypeOK, ActiveCounted, WorkerTake, TakeFront
    <3> QED BY <1>0, <3>2, <3>3, <3>4 DEF ActiveCounted
  <2>3. CASE NotifySpace(w)
    <3>1. UNCHANGED <<stats, wtask>>
        BY <2>3 DEF NotifySpace, held
    <3>2. Busy' = Busy
        BY <1>0, <2>3 DEF DataTypeOK, Busy, NotifySpace
    <3> QED BY <1>2, <3>1, <3>2
  <2>4. CASE FinishTask(w)
    <3>1. w \in Busy /\ Busy' = Busy \ {w}
        BY <1>0, <2>4 DEF DataTypeOK, Busy, FinishTask, CountTask
    <3>2. Cardinality(Busy') = Cardinality(Busy) - 1
        BY <3>1, BusyFinite, FS_RemoveElement
    <3>3. stats'.active = stats.active - 1
        BY <1>0, <2>4 DEF DataTypeOK, BoundedWorkerPoolStats, FinishTask, CountTask
    <3>4. \A v \in Workers : wtask'[v] # NoTask => v \in Busy'
        BY <1>0, <2>4, <3>1 DEF DataTypeOK, ActiveCounted, FinishTask, CountTask
    <3> QED BY <1>0, <3>2, <3>3, <3>4 DEF ActiveCounted
  <2> QED BY <1>4, <2>1, <2>2, <2>3, <2>4 DEF WorkerStep
<1>5. ASSUME NEW c \in Clients, NEW t, SubmitLocked(c, t) PROVE ActiveCounted'
  <2>1. stats'.active = stats.active
      BY <1>0, <1>5 DEF DataTypeOK, BoundedWorkerPoolStats, SubmitLocked, Refuse, Reject,
          WaitForSpace, Enqueue, Push
  <2>2. wtask' = wtask /\ Busy' = Busy
      BY <1>5 DEF SubmitLocked, Busy
  <2> QED BY <1>2, <2>1, <2>2
<1>6. ASSUME NEW c \in Clients, ClientStep(c) PROVE ActiveCounted'
  <2>1. CASE NotifyWork(c)
    <3>1. UNCHANGED <<stats, wtask>>
        BY <2>1 DEF NotifyWork, held
    <3>2. Busy' = Busy
        BY <1>0, <2>1, NotifyWorkersOnlyWakes DEF DataTypeOK, Busy, NotifyWork
    <3> QED BY <1>2, <3>1, <3>2
  <2> QED BY <1>5, <1>6, <2>1 DEF ClientStep, ResumeSubmit
<1>7. ASSUME NEW c \in Clients, NEW t \in Tasks, Submit(c, t) PROVE ActiveCounted'
    BY <1>5, <1>7 DEF Submit
<1>8. ASSUME NEW s \in Closers, CloserStep(s) \/ Shutdown(s) \/ ShutdownAgain(s)
      PROVE  ActiveCounted'
  <2>1. stats'.active = stats.active /\ wtask' = wtask
      BY <1>0, <1>8 DEF DataTypeOK, BoundedWorkerPoolStats, CloserStep,
          NotifyBlockedClients, NotifyIdleWorkers, JoinWorkers, Shutdown, ShutdownAgain,
          DiscardPending, held
  <2>2. Busy' = Busy
      BY <1>0, <1>8, NotifyWorkersOnlyWakes DEF DataTypeOK, Busy, CloserStep,
          NotifyBlockedClients, NotifyIdleWorkers, JoinWorkers, Shutdown, ShutdownAgain
  <2> QED BY <1>2, <2>1, <2>2
<1>9. CASE SpuriousWakeup
  <2>1. UNCHANGED <<stats, wtask>>
      BY <1>9 DEF SpuriousWakeup, held
  <2>2. Busy' = Busy
      BY <1>0, <1>9, NotifyWorkersOnlyWakes DEF DataTypeOK, Busy, SpuriousWakeup
  <2> QED BY <1>2, <2>1, <2>2
<1>10. CASE Quiescent \/ UNCHANGED vars
  <2>1. UNCHANGED <<stats, wtask, wpc>>
      BY <1>10 DEF Quiescent, vars, held
  <2> QED BY <1>2, <2>1 DEF Busy
<1> QED BY <1>3, <1>4, <1>6, <1>7, <1>8, <1>9, <1>10 DEF Next

\* Every step keeps an accepted task in the queue or with a worker until it has
\* an outcome.
LEMMA AcceptedStep == PoolInv /\ [Next]_vars => AcceptedSomewhere'
<1> SUFFICES ASSUME PoolInv, [Next]_vars, NEW t \in Tasks, fate'[t] = "accepted"
             PROVE  \/ \E i \in DOMAIN queue' : queue'[i] = t
                    \/ \E w \in Workers : wtask'[w] = t
    BY DEF AcceptedSomewhere
<1>0. DataTypeOK /\ AcceptedSomewhere /\ ActiveCounted
    BY Zenon DEF PoolInv, TypeOK, DataTypeOK
<1> DEFINE Goal == \/ \E i \in DOMAIN queue' : queue'[i] = t
                   \/ \E w \in Workers : wtask'[w] = t
<1>1. ASSUME UNCHANGED <<queue, wtask, fate>> PROVE Goal
    BY <1>0, <1>1 DEF AcceptedSomewhere
<1>2. ASSUME NEW w \in Workers, WorkerTake(w) PROVE Goal
  <2> USE <1>0, <1>2 DEF DataTypeOK, WorkerTake, TakeFront
  <2>1. wtask[w] = NoTask
      BY DEF ActiveCounted, Busy
  <2>2. CASE \E v \in Workers : wtask[v] = t
      BY <2>1, <2>2, PoolAssumption
  <2>3. CASE \E i \in DOMAIN queue : queue[i] = t
    <3>0. queue \in Seq(Tasks) BY Zenon
    <3>d. DOMAIN queue = 1..Len(queue) BY ONLY <3>0
    <3>1. PICK i \in 1..Len(queue) : queue[i] = t BY ONLY <2>3, <3>d
    <3>2. CASE i = 1 BY <3>1, <3>2, SMTT(30)
    <3>3. CASE i # 1
      <4>1. i - 1 \in DOMAIN Tail(queue) /\ Tail(queue)[i - 1] = t
          BY <3>1, <3>3, SMTT(30)
      <4> QED BY <4>1
    <3> QED BY <3>2, <3>3
  <2> QED BY <2>2, <2>3 DEF AcceptedSomewhere
<1>3. ASSUME NEW w \in Workers, FinishTask(w) PROVE Goal
  <2> USE <1>0, <1>3 DEF DataTypeOK, FinishTask, CountTask
  <2>1. fate[t] = "accepted" /\ t # wtask[w]
      OBVIOUS
  <2> QED BY <2>1 DEF AcceptedSomewhere
<1>4. ASSUME NEW c \in Clients, NEW u \in Tasks, SubmitLocked(c, u) PROVE Goal
  <2> USE <1>0, <1>4 DEF DataTypeOK, SubmitLocked
  <2>1. CASE Refuse(c, u) \/ Reject(c, u) \/ WaitForSpace(c, u)
    <3>1. fate[t] = "accepted" /\ queue' = queue /\ wtask' = wtask
        BY <2>1 DEF Refuse, Reject, WaitForSpace
    <3> QED BY <3>1 DEF AcceptedSomewhere
  <2>2. CASE Enqueue(c, u)
    <3>1. /\ \A i \in DOMAIN queue : i \in DOMAIN queue' /\ queue'[i] = queue[i]
          /\ Len(queue) + 1 \in DOMAIN queue' /\ queue'[Len(queue) + 1] = u
        BY <2>2 DEF Enqueue, Push
    <3>2. CASE t = u BY <3>1, <3>2
    <3>3. CASE t # u
      <4>1. fate[t] = "accepted" /\ wtask' = wtask
          BY <2>2, <3>3 DEF Enqueue, Push
      <4> QED BY <3>1, <4>1 DEF AcceptedSomewhere
    <3> QED BY <3>2, <3>3
  <2> QED BY <2>1, <2>2
<1>5. ASSUME NEW s \in Closers, Shutdown(s) PROVE Goal
  <2>1. CASE shutdown_policy = "discard_pending"
    <3>1. fate[t] = "accepted" /\ t \notin Range(queue) /\ wtask' = wtask
        BY <1>0, <1>5, <2>1 DEF DataTypeOK, Shutdown, DiscardPending, held
    <3> QED BY <1>0, <3>1 DEF AcceptedSomewhere, Range
  <2>2. CASE shutdown_policy # "discard_pending"
      BY <1>1, <1>5, <2>2 DEF Shutdown, held
  <2> QED BY <2>1, <2>2
<1>6. CASE Constructor \/ SpuriousWakeup \/ Quiescent \/ UNCHANGED vars
    BY <1>1, <1>6 DEF Constructor, FinishConstruction, FailConstruction,
        NotifyStartedWorkers, JoinStartedWorkers, SpuriousWakeup, Quiescent, vars, held
<1>7. ASSUME NEW w \in Workers, WorkerStep(w) PROVE Goal
    BY <1>1, <1>2, <1>3, <1>7 DEF WorkerStep, StartWorker, WorkerWait, WorkerExit,
        NotifySpace, held
<1>8. ASSUME NEW c \in Clients, ClientStep(c) PROVE Goal
  <2>1. CASE ResumeSubmit(c)
    <3>1. ctask[c] \in Tasks
        BY <2>1 DEF ResumeSubmit, PoolInv, ControlInv, WaitersHoldTask
    <3> QED BY <1>4, <2>1, <3>1 DEF ResumeSubmit
  <2>2. CASE NotifyWork(c) BY <1>1, <2>2 DEF NotifyWork, held
  <2> QED BY <1>8, <2>1, <2>2 DEF ClientStep
<1>9. ASSUME NEW s \in Closers, CloserStep(s) \/ ShutdownAgain(s) PROVE Goal
    BY <1>1, <1>9 DEF CloserStep, NotifyBlockedClients, NotifyIdleWorkers, JoinWorkers,
        ShutdownAgain, held
<1>10. ASSUME NEW c \in Clients, NEW u \in Tasks, Submit(c, u) PROVE Goal
    BY <1>4, <1>10 DEF Submit
<1> QED BY <1>5, <1>6, <1>7, <1>8, <1>9, <1>10 DEF Next

\* PoolInv is inductive, and so an invariant of the pool.
THEOREM PoolInvariant == Spec => []PoolInv
<1>1. PoolInv /\ [Next]_vars => PoolInv'
    BY TypeStep, StopRefusesStep, ControlStep, ActiveStep, AcceptedStep DEF PoolInv
<1> QED BY PoolInvInit, <1>1, PTL DEF Spec

-----------------------------------------------------------------------------
(* The properties of BoundedWorkerPool.                                    *)

\* Every variable always has its type; in particular active_ never goes below
\* zero, because it counts the workers between their two critical sections.
THEOREM TypeCorrect == Spec => []TypeOK
BY PoolInvariant, PTL DEF PoolInv

\* What a step may do to the queue and the counters: nothing, or one of the
\* critical sections that touch them.
LEMMA QueueSteps ==
    ASSUME PoolInv, [Next]_vars
    PROVE  \/ UNCHANGED <<queue, stats>>
           \/ \E c \in Clients, t \in Tasks : Reject(c, t) \/ Enqueue(c, t)
           \/ \E w \in Workers : WorkerTake(w) \/ FinishTask(w)
           \/ ~stopping /\ shutdown_policy = "discard_pending" /\ DiscardPending
<1> DEFINE Goal == \/ UNCHANGED <<queue, stats>>
                   \/ \E c \in Clients, t \in Tasks : Reject(c, t) \/ Enqueue(c, t)
                   \/ \E w \in Workers : WorkerTake(w) \/ FinishTask(w)
                   \/ /\ ~stopping /\ shutdown_policy = "discard_pending"
                      /\ DiscardPending
<1>1. CASE Constructor \/ SpuriousWakeup \/ Quiescent \/ UNCHANGED vars
    BY <1>1, Zenon DEF Constructor, FinishConstruction, FailConstruction,
        NotifyStartedWorkers, JoinStartedWorkers, SpuriousWakeup, Quiescent, vars
<1>2. ASSUME NEW w \in Workers, WorkerStep(w) PROVE Goal
    BY <1>2, Zenon DEF WorkerStep, StartWorker, WorkerWait, WorkerExit, NotifySpace
<1>3. ASSUME NEW c \in Clients, NEW t \in Tasks, SubmitLocked(c, t) PROVE Goal
    BY <1>3, Zenon DEF SubmitLocked, Refuse, WaitForSpace
<1>4. ASSUME NEW c \in Clients, ClientStep(c) PROVE Goal
  <2>1. CASE ResumeSubmit(c)
    <3>1. ctask[c] \in Tasks
        BY <2>1 DEF ResumeSubmit, PoolInv, ControlInv, WaitersHoldTask
    <3> QED BY <1>3, <2>1, <3>1, Zenon DEF ResumeSubmit
  <2>2. CASE NotifyWork(c) BY <2>2, Zenon DEF NotifyWork
  <2> QED BY <1>4, <2>1, <2>2 DEF ClientStep
<1>5. ASSUME NEW s \in Closers, CloserStep(s) \/ Shutdown(s) \/ ShutdownAgain(s)
      PROVE  Goal
    BY <1>5, Zenon DEF CloserStep, NotifyBlockedClients, NotifyIdleWorkers, JoinWorkers,
        ShutdownAgain, Shutdown
<1>6. ASSUME NEW c \in Clients, NEW t \in Tasks, Submit(c, t) PROVE Goal
    BY <1>3, <1>6, Zenon DEF Submit
<1> QED BY <1>1, <1>2, <1>4, <1>5, <1>6, Zenon DEF Next

\* However submitters barge past those asleep on the full queue, the queue never
\* exceeds its capacity and peak_pending is a true peak.
THEOREM QueueStaysBounded == Spec => []QueueBounded
<1>1. Init => QueueBounded
    BY PoolAssumption DEF Init, QueueBounded
<1>2. PoolInv /\ QueueBounded /\ [Next]_vars => QueueBounded'
  <2> SUFFICES ASSUME PoolInv, QueueBounded, [Next]_vars PROVE QueueBounded' OBVIOUS
  <2>0. queue \in Seq(Tasks) /\ stats \in BoundedWorkerPoolStats
      BY Zenon DEF PoolInv, TypeOK
  <2>1. Len(queue) \in Nat /\ stats.peak_pending \in Nat /\ queue_capacity \in Nat
      BY <2>0, StatsNat, PoolAssumption
  <2>2. CASE UNCHANGED <<queue, stats>>
      BY <2>2 DEF QueueBounded
  <2>3. ASSUME NEW c \in Clients, NEW t \in Tasks, Reject(c, t) \/ Enqueue(c, t)
        PROVE  QueueBounded'
    <3>1. CASE Reject(c, t)
      <4>1. stats'.peak_pending = stats.peak_pending /\ queue' = queue
          BY <2>0, <3>1 DEF Reject, BoundedWorkerPoolStats
      <4> QED BY <4>1 DEF QueueBounded
    <3>2. CASE Enqueue(c, t)
      <4>1. Len(queue') = Len(queue) + 1 /\ Len(queue) < queue_capacity
          BY <2>0, <2>1, <3>2 DEF Enqueue, Push, Full
      <4>2. stats'.peak_pending = IF Len(queue') > stats.peak_pending
                                    THEN Len(queue') ELSE stats.peak_pending
          BY <2>0, <3>2 DEF Enqueue, Push, BoundedWorkerPoolStats
      <4> QED BY <2>1, <4>1, <4>2 DEF QueueBounded
    <3> QED BY <2>3, <3>1, <3>2
  <2>4. ASSUME NEW w \in Workers, WorkerTake(w) \/ FinishTask(w) PROVE QueueBounded'
    <3>1. stats'.peak_pending = stats.peak_pending
        BY <2>0, <2>4 DEF WorkerTake, TakeFront, FinishTask, CountTask,
            BoundedWorkerPoolStats
    <3>2. Len(queue') \in Nat /\ Len(queue') <= Len(queue)
        BY <2>0, <2>4 DEF WorkerTake, TakeFront, FinishTask, CountTask
    <3> QED BY <2>1, <3>1, <3>2 DEF QueueBounded
  <2>5. CASE DiscardPending
    <3>1. stats'.peak_pending = stats.peak_pending /\ Len(queue') = 0
        BY <2>0, <2>5 DEF DiscardPending, BoundedWorkerPoolStats
    <3> QED BY <2>1, <3>1 DEF QueueBounded
  <2> QED BY <2>2, <2>3, <2>4, <2>5, QueueSteps
<1> QED BY PoolInvariant, <1>1, <1>2, PTL DEF Spec

\* The sums behind the balance, over plain numbers: what a task adds when it is
\* accepted, taken from the queue and finished, and what a discarded queue adds.
LEMMA BalanceGrows ==
  ASSUME NEW m \in Nat, NEW q \in Nat, NEW d \in Nat
  PROVE  m + (q + 1) + d = (m + q + d) + 1
BY SMT

\* A task leaves the queue and becomes active.
LEMMA BalanceTakes ==
  ASSUME NEW m \in Nat, NEW q \in Nat
  PROVE  m + (q + 1) = (m + q) + 1 /\ (m + 1) + q = m + (q + 1)
BY SMT

\* An active task ends.
LEMMA BalanceFinishes ==
  ASSUME NEW n \in Nat, NEW a \in Nat
  PROVE  (n + 1) + (a - 1) = n + a
BY SMT

\* The queued tasks are dropped.
LEMMA BalanceDiscards ==
  ASSUME NEW m \in Nat, NEW q \in Nat, NEW d \in Nat
  PROVE  m + 0 + (d + q) = m + q + d
BY SMT

\* The counters that stats() returns add up in every state.
THEOREM StatsAlwaysBalance == Spec => []StatsBalance
<1>1. Init => StatsBalance
    BY DEF Init, StatsBalance
<1>2. PoolInv /\ StatsBalance /\ [Next]_vars => StatsBalance'
  <2> SUFFICES ASSUME PoolInv, StatsBalance, [Next]_vars PROVE StatsBalance' OBVIOUS
  <2>0. queue \in Seq(Tasks) /\ stats \in BoundedWorkerPoolStats
      BY Zenon DEF PoolInv, TypeOK
  <2>1. /\ Len(queue) \in Nat
        /\ stats.submitted \in Nat /\ stats.completed \in Nat /\ stats.failed \in Nat
        /\ stats.dropped \in Nat /\ stats.active \in Nat
      BY <2>0, StatsNat
  <2>2. PICK d \in 0..stats.dropped :
          /\ stats.submitted = stats.completed + stats.failed + stats.active
                                 + Len(queue) + d
          /\ full_policy = "block" => d = stats.dropped
          /\ shutdown_policy = "drain" => d = 0
      BY DEF StatsBalance
  <2>types. stats' \in BoundedWorkerPoolStats /\ queue' \in Seq(Tasks)
      BY TypeStep, Zenon DEF TypeOK
  <2>nats. /\ stats'.completed \in Nat /\ stats'.failed \in Nat /\ stats'.active \in Nat
        /\ stats'.submitted \in Nat /\ Len(queue') \in Nat /\ d \in Nat
      BY <2>1, <2>types DEF BoundedWorkerPoolStats
  <2>ends. /\ stats.completed + stats.failed \in Nat
        /\ stats.completed + stats.failed + stats.active \in Nat
      BY <2>1, <2>nats, SMTT(30)
  <2>3. CASE UNCHANGED <<queue, stats>>
      BY <2>3 DEF StatsBalance
  <2>4. ASSUME NEW c \in Clients, NEW t \in Tasks, Reject(c, t) PROVE StatsBalance'
    <3>1. /\ stats'.dropped = stats.dropped + 1 /\ queue' = queue
          /\ stats'.submitted = stats.submitted /\ stats'.completed = stats.completed
          /\ stats'.failed = stats.failed /\ stats'.active = stats.active
          /\ full_policy # "block"
        BY <2>0, <2>4 DEF Reject, BoundedWorkerPoolStats
    <3>2. d \in 0..stats'.dropped BY <2>1, <3>1
    <3> QED BY <2>2, <3>1, <3>2 DEF StatsBalance
  <2>5. ASSUME NEW c \in Clients, NEW t \in Tasks, Enqueue(c, t) PROVE StatsBalance'
    <3>1. /\ stats'.dropped = stats.dropped /\ Len(queue') = Len(queue) + 1
          /\ stats'.submitted = stats.submitted + 1
          /\ stats'.completed = stats.completed
          /\ stats'.failed = stats.failed /\ stats'.active = stats.active
        BY <2>0, <2>5 DEF Enqueue, Push, BoundedWorkerPoolStats
    <3>2. stats'.submitted = stats'.completed + stats'.failed + stats'.active
                               + Len(queue') + d
      <4>1. stats.completed + stats.failed + stats.active + (Len(queue) + 1) + d
              = (stats.completed + stats.failed + stats.active + Len(queue) + d) + 1
          BY <2>1, <2>nats, <2>ends, BalanceGrows
      <4> QED BY <2>2, <3>1, <4>1, SMTT(30)
    <3> QED BY <2>2, <3>1, <3>2 DEF StatsBalance
  <2>6. ASSUME NEW w \in Workers, WorkerTake(w) PROVE StatsBalance'
    <3>1. /\ stats'.dropped = stats.dropped /\ Len(queue) = Len(queue') + 1
          /\ Len(queue') \in Nat
          /\ stats'.submitted = stats.submitted /\ stats'.completed = stats.completed
          /\ stats'.failed = stats.failed /\ stats'.active = stats.active + 1
        BY <2>0, <2>6 DEF WorkerTake, TakeFront, BoundedWorkerPoolStats
    <3>2. stats'.submitted = stats'.completed + stats'.failed + stats'.active
                               + Len(queue') + d
      <4>1. stats.completed + stats.failed + (stats.active + 1)
              = (stats.completed + stats.failed + stats.active) + 1
          BY <2>1, <2>ends, BalanceTakes
      <4>3. (stats.completed + stats.failed + stats.active) + 1 + Len(queue')
              = stats.completed + stats.failed + stats.active + (Len(queue') + 1)
          BY <2>nats, <2>ends, BalanceTakes
      <4>2. stats.submitted
              = stats.completed + stats.failed + stats.active + (Len(queue') + 1) + d
          BY <2>2, <3>1, SMTT(30)
      <4> QED BY <3>1, <4>1, <4>2, <4>3, SMTT(30)
    <3> QED BY <2>2, <3>1, <3>2 DEF StatsBalance
  <2>7. ASSUME NEW w \in Workers, FinishTask(w) PROVE StatsBalance'
    <3>1. /\ stats'.dropped = stats.dropped /\ queue' = queue
          /\ stats'.submitted = stats.submitted
          /\ stats'.active = stats.active - 1
        BY <2>0, <2>7 DEF FinishTask, CountTask, BoundedWorkerPoolStats
    <3>2. stats'.completed + stats'.failed = stats.completed + stats.failed + 1
      <4>1. CASE CountTask(w, 1, 0)
          BY <2>0, <2>1, <4>1 DEF CountTask, BoundedWorkerPoolStats
      <4>2. CASE CountTask(w, 0, 1)
          BY <2>0, <2>1, <4>2 DEF CountTask, BoundedWorkerPoolStats
      <4> QED BY <2>7, <4>1, <4>2 DEF FinishTask
    <3>3. stats'.submitted = stats'.completed + stats'.failed + stats'.active
                               + Len(queue') + d
      <4>1. (stats.completed + stats.failed + 1) + (stats.active - 1)
              = stats.completed + stats.failed + stats.active
          BY <2>1, <2>ends, BalanceFinishes
      <4> QED BY <2>2, <3>1, <3>2, <4>1, SMTT(30)
    <3> QED BY <2>2, <3>1, <3>3 DEF StatsBalance
  <2>8. CASE shutdown_policy = "discard_pending" /\ DiscardPending
    <3>1. /\ stats'.dropped = stats.dropped + Len(queue) /\ Len(queue') = 0
          /\ stats'.submitted = stats.submitted /\ stats'.completed = stats.completed
          /\ stats'.failed = stats.failed /\ stats'.active = stats.active
        BY <2>0, <2>8 DEF DiscardPending, BoundedWorkerPoolStats
    <3>2. d + Len(queue) \in 0..stats'.dropped
        BY <2>1, <3>1
    <3>3. stats'.submitted = stats'.completed + stats'.failed + stats'.active
                               + Len(queue') + (d + Len(queue))
      <4>1. stats.completed + stats.failed + stats.active + 0 + (d + Len(queue))
              = stats.completed + stats.failed + stats.active + Len(queue) + d
          BY <2>1, <2>nats, <2>ends, BalanceDiscards
      <4> QED BY <2>2, <3>1, <4>1
    <3>4. full_policy = "block" => d + Len(queue) = stats'.dropped
        BY <2>2, <3>1
    <3> QED BY <2>8, <3>2, <3>3, <3>4 DEF StatsBalance
  <2> QED BY <2>3, <2>4, <2>5, <2>6, <2>7, <2>8, QueueSteps
<1> QED BY PoolInvariant, <1>1, <1>2, PTL DEF Spec

-----------------------------------------------------------------------------
(* No lost wakeups.                                                        *)

\* A worker that is awake, or a notification still to be sent, for every queued
\* task: no order of notifications, pops and shutdowns strands one.
THEOREM NoStrandedWork == Spec => []WorkNotStranded
<1>1. Init => WorkNotStranded
    BY DEF Init, WorkNotStranded
<1>2. PoolInv /\ WorkNotStranded /\ [Next]_vars => WorkNotStranded'
  <2> SUFFICES ASSUME PoolInv, WorkNotStranded, [Next]_vars PROVE WorkNotStranded'
      OBVIOUS
  <2>0. DataTypeOK /\ StopRefuses /\ ControlInv
      BY Zenon DEF PoolInv, TypeOK, DataTypeOK
  <2> USE <2>0 DEF DataTypeOK, ControlInv, IdleUntilOpen, OpenAllStarted,
          ExitedMeansEmpty, WorkNotStranded, held, flags, WorkerPC, ClientPC, CloserPC
  <2>1. CASE Constructor
      BY <2>1 DEF Constructor, FinishConstruction, FailConstruction,
          NotifyStartedWorkers, JoinStartedWorkers
  <2>2. ASSUME NEW w \in Workers, WorkerStep(w) PROVE WorkNotStranded'
    <3>1. CASE StartWorker(w) \/ WorkerWait(w) \/ WorkerExit(w)
        BY <3>1 DEF StartWorker, WorkerWait, WorkerExit
    <3>2. CASE WorkerTake(w) BY <3>2 DEF WorkerTake, TakeFront
    <3>3. CASE NotifySpace(w) BY <3>3, NotifyClientsOnlyWakes DEF NotifySpace
    <3>4. CASE FinishTask(w) BY <3>4 DEF FinishTask, CountTask
    <3> QED BY <2>2, <3>1, <3>2, <3>3, <3>4 DEF WorkerStep
  <2>3. ASSUME NEW c \in Clients, NEW t \in Tasks, cpc[c] # "notify", SubmitLocked(c, t)
        PROVE  WorkNotStranded'
    <3>1. CASE Refuse(c, t) \/ Reject(c, t) \/ WaitForSpace(c, t)
        BY <2>3, <3>1 DEF SubmitLocked, Refuse, Reject, WaitForSpace
    <3>2. CASE Enqueue(c, t)
        BY <2>3, <3>2 DEF SubmitLocked, Enqueue, Push
    <3> QED BY <2>3, <3>1, <3>2 DEF SubmitLocked
  <2>4. ASSUME NEW c \in Clients, ClientStep(c) PROVE WorkNotStranded'
    <3>1. CASE ResumeSubmit(c)
        BY <2>3, <3>1 DEF ResumeSubmit, WaitersHoldTask
    <3>2. CASE NotifyWork(c)
      <4> SUFFICES ASSUME queue # <<>> PROVE \E w \in Workers : wpc'[w] = "ready" \/ wpc'[w] \in {"popped", "running"}
          BY <3>2 DEF NotifyWork
      <4>1. CASE SleepingWorkers # {}
          BY <3>2, <4>1 DEF NotifyWork, NotifyOneWorker, SleepingWorkers
      <4>2. CASE SleepingWorkers = {}
        <5>1. PICK w \in Workers : TRUE BY PoolAssumption
        <5>2. wpc[w] \notin {"unstarted", "exited", "waiting"}
            BY <3>2, <4>2 DEF NotifyWork, SleepingWorkers
        <5> QED BY <3>2, <4>2, <5>2 DEF NotifyWork, NotifyOneWorker
      <4> QED BY <4>1, <4>2
    <3> QED BY <2>4, <3>1, <3>2 DEF ClientStep
  <2>5. ASSUME NEW c \in Clients, NEW t \in Tasks, Submit(c, t) PROVE WorkNotStranded'
      BY <2>3, <2>5 DEF Submit
  <2>6. ASSUME NEW s \in Closers, CloserStep(s) \/ Shutdown(s) \/ ShutdownAgain(s)
        PROVE  WorkNotStranded'
    <3>1. CASE NotifyBlockedClients(s)
        BY <3>1, NotifyClientsOnlyWakes DEF NotifyBlockedClients
    <3>2. CASE NotifyIdleWorkers(s)
      <4> SUFFICES ASSUME queue # <<>> PROVE \E w \in Workers : wpc'[w] \in {"ready", "popped", "running"}
          BY <3>2 DEF NotifyIdleWorkers
      <4>1. PICK w \in Workers : TRUE BY PoolAssumption
      <4>2. wpc[w] \notin {"unstarted", "exited"} BY <3>2
      <4> QED BY <3>2, <4>2 DEF NotifyIdleWorkers, NotifyAllWorkers
    <3>3. CASE JoinWorkers(s) \/ ShutdownAgain(s)
        BY <3>3 DEF JoinWorkers, ShutdownAgain
    <3>4. CASE Shutdown(s) BY <3>4 DEF Shutdown
    <3> QED BY <2>6, <3>1, <3>2, <3>3, <3>4 DEF CloserStep
  <2>7. CASE SpuriousWakeup
      BY <2>7, NotifyWorkersOnlyWakes, NotifyClientsOnlyWakes DEF SpuriousWakeup
  <2>8. CASE Quiescent \/ UNCHANGED vars
      BY <2>8 DEF Quiescent, vars
  <2> QED BY <2>1, <2>2, <2>4, <2>5, <2>6, <2>7, <2>8 DEF Next
<1> QED BY PoolInvariant, <1>1, <1>2, PTL DEF Spec

\* While the pool stops, no worker sleeps unless the notify_all is still ahead:
\* the join of shutdown, and that of a failed constructor, wait for no sleeper.
THEOREM NoStrandedStop == Spec => []StopNotStranded
<1>1. Init => StopNotStranded
    BY DEF Init, StopNotStranded
<1>2. PoolInv /\ StopNotStranded /\ [Next]_vars => StopNotStranded'
  <2> SUFFICES ASSUME PoolInv, StopNotStranded, [Next]_vars PROVE StopNotStranded'
      OBVIOUS
  <2>0. DataTypeOK /\ StopRefuses /\ ControlInv
      BY Zenon DEF PoolInv, TypeOK, DataTypeOK
  <2> USE <2>0 DEF DataTypeOK, ControlInv, IdleUntilOpen, StopNotStranded,
          SleepingWorkers, held, flags, WorkerPC, ClientPC, CloserPC
  <2>1. CASE Constructor
    <3>1. CASE FinishConstruction \/ FailConstruction \/ JoinStartedWorkers
        BY <3>1 DEF FinishConstruction, FailConstruction, JoinStartedWorkers
    <3>2. CASE NotifyStartedWorkers
        BY <3>2 DEF NotifyStartedWorkers, NotifyAllWorkers
    <3> QED BY <2>1, <3>1, <3>2 DEF Constructor
  <2>2. ASSUME NEW w \in Workers, WorkerStep(w) PROVE StopNotStranded'
    <3>1. CASE StartWorker(w) \/ WorkerExit(w)
        BY <3>1 DEF StartWorker, WorkerExit
    <3>2. CASE WorkerWait(w)
        BY <3>2 DEF WorkerWait
    <3>3. CASE WorkerTake(w)
        BY <3>3, SMTT(30) DEF WorkerTake, TakeFront
    <3>4. CASE NotifySpace(w)
        BY <3>4 DEF NotifySpace
    <3>5. CASE FinishTask(w)
        BY <3>5, ZenonT(30) DEF FinishTask, CountTask
    <3> QED BY ONLY <2>2, <3>1, <3>2, <3>3, <3>4, <3>5 DEF WorkerStep
  <2>3. ASSUME NEW c \in Clients, NEW t, SubmitLocked(c, t) PROVE StopNotStranded'
      BY <2>3 DEF SubmitLocked
  <2>4. ASSUME NEW c \in Clients, ClientStep(c) PROVE StopNotStranded'
    <3>1. CASE NotifyWork(c) BY <3>1, NotifyWorkersOnlyWakes DEF NotifyWork
    <3> QED BY <2>3, <2>4, <3>1 DEF ClientStep, ResumeSubmit
  <2>5. ASSUME NEW c \in Clients, NEW t \in Tasks, Submit(c, t) PROVE StopNotStranded'
      BY <2>3, <2>5 DEF Submit
  <2>6. ASSUME NEW s \in Closers, CloserStep(s) \/ Shutdown(s) \/ ShutdownAgain(s)
        PROVE  StopNotStranded'
    <3>1. CASE NotifyBlockedClients(s) BY <3>1 DEF NotifyBlockedClients
    <3>2. CASE NotifyIdleWorkers(s)
        BY <3>2 DEF NotifyIdleWorkers, NotifyAllWorkers
    <3>3. CASE JoinWorkers(s) \/ ShutdownAgain(s)
        BY <3>3 DEF JoinWorkers, ShutdownAgain
    <3>4. CASE Shutdown(s) BY <3>4 DEF Shutdown
    <3> QED BY <2>6, <3>1, <3>2, <3>3, <3>4 DEF CloserStep
  <2>7. CASE SpuriousWakeup
      BY <2>7, NotifyWorkersOnlyWakes DEF SpuriousWakeup
  <2>8. CASE Quiescent \/ UNCHANGED vars
      BY <2>8 DEF Quiescent, vars
  <2> QED BY <2>1, <2>2, <2>4, <2>5, <2>6, <2>7, <2>8 DEF Next
<1> QED BY PoolInvariant, <1>1, <1>2, PTL DEF Spec

\* The notifications a worker still owes the blocked submitters, and the
\* submitters that have been woken and have not looked at the queue yet.
Owed == {w \in Workers : wpc[w] = "popped"}
Woken == {c \in Clients : cpc[c] = "woken"}

\* Both are finite.
LEMMA OwedWokenFinite ==
    /\ IsFiniteSet(Owed) /\ Cardinality(Owed) \in Nat
    /\ IsFiniteSet(Woken) /\ Cardinality(Woken) \in Nat
BY PoolAssumption, FS_Subset, FS_CardinalityType, Owed \in SUBSET Workers,
   Woken \in SUBSET Clients DEF Owed, Woken

\* A step that takes no slot, leaves the queue and the flags alone and loses
\* neither an owed notification nor a woken submitter keeps the sleepers safe.
LEMMA SpaceKept ==
    ASSUME SpaceNotStranded,
           UNCHANGED <<queue, accepting>>, SleepingClients' \subseteq SleepingClients,
           Owed' = Owed, Woken' = Woken,
           \A s \in Closers : spc[s] = "notify_space" => spc'[s] = "notify_space"
    PROVE  SpaceNotStranded'
<1> SUFFICES ASSUME SleepingClients' # {}
             PROVE  IF accepting'
                      THEN queue_capacity - Len(queue')
                             <= Cardinality(Owed') + Cardinality(Woken')
                      ELSE \E s \in Closers : spc'[s] = "notify_space"
    BY DEF SpaceNotStranded, Owed, Woken
<1>1. SleepingClients # {} OBVIOUS
<1>2. IF accepting
        THEN queue_capacity - Len(queue) <= Cardinality(Owed) + Cardinality(Woken)
        ELSE \E s \in Closers : spc[s] = "notify_space"
    BY <1>1 DEF SpaceNotStranded, Owed, Woken
<1>3. CASE accepting BY <1>2, <1>3
<1>4. CASE ~accepting BY <1>2, <1>4
<1> QED BY <1>3, <1>4

\* No submitter sleeps beside a free slot: barging submitters and single
\* notifications never leave a blocked submit without a wakeup to come.
THEOREM NoStrandedSpace == Spec => []SpaceNotStranded
<1>1. Init => SpaceNotStranded
    BY DEF Init, SpaceNotStranded, SleepingClients
<1>2. PoolInv /\ SpaceNotStranded /\ [Next]_vars => SpaceNotStranded'
  <2> SUFFICES ASSUME PoolInv, SpaceNotStranded, [Next]_vars PROVE SpaceNotStranded'
      OBVIOUS
  <2>0. DataTypeOK /\ StopRefuses /\ ControlInv
      BY Zenon DEF PoolInv, TypeOK, DataTypeOK
  <2>1. /\ Len(queue) \in Nat /\ queue_capacity \in Nat
        /\ accepting /\ SleepingClients # {} =>
             queue_capacity - Len(queue) <= Cardinality(Owed) + Cardinality(Woken)
      BY <2>0, PoolAssumption DEF DataTypeOK, SpaceNotStranded, Owed, Woken
  <2> USE <2>0 DEF DataTypeOK, SleepingClients, Owed, Woken, held, flags
  <2>2. CASE Constructor
      BY <2>2 DEF Constructor, FinishConstruction, FailConstruction,
          NotifyStartedWorkers, JoinStartedWorkers, SpaceNotStranded, ControlInv,
          IdleUntilOpen
  <2>3. ASSUME NEW w \in Workers, WorkerStep(w) PROVE SpaceNotStranded'
    <3>1. CASE StartWorker(w) \/ WorkerWait(w) \/ WorkerExit(w)
        BY <3>1, SpaceKept DEF StartWorker, WorkerWait, WorkerExit
    <3>2. CASE WorkerTake(w)
      <4>1. /\ Owed' = Owed \cup {w} /\ w \notin Owed /\ Woken' = Woken
            /\ SleepingClients' = SleepingClients /\ UNCHANGED <<accepting, spc>>
          BY <3>2 DEF WorkerTake, TakeFront
      <4>2. Len(queue) = Len(queue') + 1 /\ Len(queue') \in Nat
          BY <3>2 DEF WorkerTake, TakeFront
      <4>3. Cardinality(Owed') = Cardinality(Owed) + 1
          BY <4>1, OwedWokenFinite, FS_AddElement
      <4>4. accepting' /\ SleepingClients' # {} =>
              queue_capacity - Len(queue') <= Cardinality(Owed') + Cardinality(Woken')
        <5> HIDE DEF DataTypeOK, SleepingClients, Owed, Woken
        <5> QED BY <2>1, <4>1, <4>2, <4>3, OwedWokenFinite
      <4> QED BY <4>1, <4>4 DEF SpaceNotStranded
    <3>3. CASE NotifySpace(w)
      <4>0. UNCHANGED <<queue, accepting, spc>> BY <3>3 DEF NotifySpace
      <4>1. CASE SleepingClients = {}
        <5>1. SleepingClients' = {} BY <3>3, <4>1 DEF NotifySpace, NotifyOneClient
        <5> QED BY <5>1 DEF SpaceNotStranded
      <4>2. CASE SleepingClients # {}
        <5>1. PICK c \in SleepingClients : cpc' = [cpc EXCEPT ![c] = "woken"]
            BY <3>3, <4>2 DEF NotifySpace, NotifyOneClient
        <5>2. /\ Owed' = Owed \ {w} /\ w \in Owed
              /\ Woken' = Woken \cup {c} /\ c \notin Woken
            BY <3>3, <5>1 DEF NotifySpace
        <5>3. /\ Cardinality(Owed') = Cardinality(Owed) - 1
              /\ Cardinality(Woken') = Cardinality(Woken) + 1
          <6> HIDE DEF DataTypeOK, SleepingClients, Owed, Woken
          <6> QED BY <5>2, OwedWokenFinite, FS_AddElement, FS_RemoveElement
        <5>4. accepting' =>
                queue_capacity - Len(queue') <= Cardinality(Owed') + Cardinality(Woken')
            BY <2>1, <4>0, <4>2, <5>3, OwedWokenFinite
        <5> QED BY <4>0, <4>2, <5>4 DEF SpaceNotStranded
      <4> QED BY <4>1, <4>2
    <3>4. CASE FinishTask(w)
        BY <3>4, SpaceKept DEF FinishTask, CountTask
    <3> QED BY <2>3, <3>1, <3>2, <3>3, <3>4 DEF WorkerStep
  <2>4. ASSUME NEW c \in Clients, NEW t \in Tasks, cpc[c] \in {"idle", "woken"},
               SubmitLocked(c, t)
        PROVE  SpaceNotStranded'
    <3>0. UNCHANGED <<accepting, spc>> /\ Owed' = Owed
        BY <2>4 DEF SubmitLocked
    <3>1. CASE Refuse(c, t)
        BY <2>4, <3>0, <3>1 DEF Refuse, SpaceNotStranded
    <3>2. CASE Reject(c, t)
        BY <3>0, <3>2, SpaceKept DEF Reject
    <3>3. CASE WaitForSpace(c, t)
      <4>1. accepting' /\ Len(queue') >= queue_capacity
          BY <3>0, <3>3 DEF WaitForSpace, Full
      <4>2. IsFiniteSet(Woken') /\ Cardinality(Woken') \in Nat
        <5>1. Woken' \in SUBSET Clients OBVIOUS
        <5> QED BY <5>1, PoolAssumption, FS_Subset, FS_CardinalityType
      <4>3. Len(queue') \in Nat
          BY <3>3 DEF WaitForSpace
      <4>4. queue_capacity - Len(queue') <= Cardinality(Owed') + Cardinality(Woken')
        <5> HIDE DEF DataTypeOK, SleepingClients, Owed, Woken
        <5> QED BY <2>1, <3>0, <4>1, <4>2, <4>3, OwedWokenFinite
      <4> QED BY <4>1, <4>4 DEF SpaceNotStranded
    <3>4. CASE Enqueue(c, t)
      <4>1. Len(queue') = Len(queue) + 1 /\ SleepingClients' = SleepingClients
          BY <2>4, <3>4 DEF Enqueue, Push
      <4>2. Woken' = Woken \ {c}
          BY <3>4 DEF Enqueue, Push
      <4>3. Cardinality(Woken) <= Cardinality(Woken') + 1 /\ Cardinality(Woken') \in Nat
        <5> HIDE DEF DataTypeOK, SleepingClients, Owed, Woken
        <5> QED BY <4>2, OwedWokenFinite, FS_RemoveElement, FS_CardinalityType
      <4>4. accepting' /\ SleepingClients' # {} =>
              queue_capacity - Len(queue') <= Cardinality(Owed') + Cardinality(Woken')
        <5> HIDE DEF DataTypeOK, SleepingClients, Owed, Woken
        <5> QED BY <2>1, <3>0, <4>1, <4>3, OwedWokenFinite
      <4>5. accepting' BY <3>0, <3>4 DEF Enqueue
      <4> QED BY <4>4, <4>5 DEF SpaceNotStranded
    <3> QED BY <2>4, <3>1, <3>2, <3>3, <3>4 DEF SubmitLocked
  <2>5. ASSUME NEW c \in Clients, ClientStep(c) PROVE SpaceNotStranded'
    <3>1. CASE ResumeSubmit(c)
        BY <2>4, <3>1 DEF ResumeSubmit, ControlInv, WaitersHoldTask
    <3>2. CASE NotifyWork(c)
        BY <3>2, SpaceKept, NotifyWorkersOnlyWakes DEF NotifyWork
    <3> QED BY <2>5, <3>1, <3>2 DEF ClientStep
  <2>6. ASSUME NEW c \in Clients, NEW t \in Tasks, Submit(c, t) PROVE SpaceNotStranded'
      BY <2>4, <2>6 DEF Submit
  <2>7. ASSUME NEW s \in Closers, CloserStep(s) \/ Shutdown(s) \/ ShutdownAgain(s)
        PROVE  SpaceNotStranded'
    <3>1. CASE NotifyBlockedClients(s)
        BY <3>1 DEF NotifyBlockedClients, NotifyAllClients, SpaceNotStranded
    <3>2. CASE NotifyIdleWorkers(s)
        BY <3>2, SpaceKept, NotifyWorkersOnlyWakes DEF NotifyIdleWorkers
    <3>3. CASE JoinWorkers(s) \/ ShutdownAgain(s)
        BY <3>3, SpaceKept DEF JoinWorkers, ShutdownAgain
    <3>4. CASE Shutdown(s)
        BY <3>4 DEF Shutdown, SpaceNotStranded
    <3> QED BY <2>7, <3>1, <3>2, <3>3, <3>4 DEF CloserStep
  <2>8. CASE SpuriousWakeup
    <3>0. UNCHANGED <<queue, accepting, spc>> BY <2>8 DEF SpuriousWakeup
    <3>1. CASE NotifyOneWorker /\ UNCHANGED cpc
        BY <3>0, <3>1, SpaceKept, NotifyWorkersOnlyWakes
    <3>2. CASE SleepingClients # {} /\ NotifyOneClient /\ UNCHANGED wpc
      <4>1. PICK c \in SleepingClients : cpc' = [cpc EXCEPT ![c] = "woken"]
          BY <3>2 DEF NotifyOneClient
      <4>2. Woken' = Woken \cup {c} /\ c \notin Woken /\ Owed' = Owed
          BY <3>2, <4>1
      <4>3. Cardinality(Woken') = Cardinality(Woken) + 1
          BY <4>2, OwedWokenFinite, FS_AddElement
      <4>4. accepting' =>
              queue_capacity - Len(queue') <= Cardinality(Owed') + Cardinality(Woken')
          BY <2>1, <3>0, <3>2, <4>2, <4>3, OwedWokenFinite
      <4> QED BY <3>0, <3>2, <4>4 DEF SpaceNotStranded
    <3> QED BY <2>8, <3>1, <3>2 DEF SpuriousWakeup
  <2>9. CASE Quiescent \/ UNCHANGED vars
      BY <2>9, SpaceKept DEF Quiescent, vars
  <2> QED BY <2>2, <2>3, <2>5, <2>6, <2>7, <2>8, <2>9 DEF Next
<1> QED BY PoolInvariant, <1>1, <1>2, PTL DEF Spec

\* The three together, the invariant the runs check: notifications sent one at a
\* time and outside the mutex leave nobody asleep who should be awake.
THEOREM NobodyIsStranded == Spec => []NobodyStranded
<1>1. WorkNotStranded /\ StopNotStranded /\ SpaceNotStranded => NobodyStranded
    BY Zenon DEF NobodyStranded
<1> QED BY NoStrandedWork, NoStrandedStop, NoStrandedSpace, <1>1, PTL

-----------------------------------------------------------------------------
(* What the end of shutdown means.                                         *)

\* When shutdown has joined the workers, every accepted task has its outcome,
\* and with the drain policy every submitted task has run.
THEOREM ShutdownDrains == Spec => []JoinedMeansDrained
<1>1. PoolInv /\ StatsBalance => JoinedMeansDrained
  <2> SUFFICES ASSUME PoolInv, StatsBalance,
                      NEW s \in Closers, spc[s] = "joined"
               PROVE  /\ \A w \in Workers : wpc[w] = "exited"
                      /\ queue = <<>> /\ stats.active = 0
                      /\ \A t \in Tasks : fate[t] # "accepted"
                      /\ shutdown_policy = "drain" =>
                            stats.submitted = stats.completed + stats.failed
      BY DEF JoinedMeansDrained
  <2>1. \A w \in Workers : wpc[w] = "exited"
      BY DEF PoolInv, ControlInv, JoinedAllExited
  <2>2. queue = <<>>
      BY <2>1, PoolAssumption DEF PoolInv, ControlInv, ExitedMeansEmpty
  <2>3. Busy = {}
      BY <2>1 DEF Busy
  <2>4. stats.active = 0
      BY <2>3, FS_EmptySet DEF PoolInv, ActiveCounted
  <2>5. \A t \in Tasks : fate[t] # "accepted"
      BY <2>2, <2>3, PoolAssumption DEF PoolInv, ActiveCounted, AcceptedSomewhere
  <2>6. ASSUME shutdown_policy = "drain"
        PROVE  stats.submitted = stats.completed + stats.failed
    <3>1. stats \in BoundedWorkerPoolStats
        BY Zenon DEF PoolInv, TypeOK
    <3>2. stats.submitted = stats.completed + stats.failed + stats.active + Len(queue) + 0
        BY <2>6 DEF StatsBalance
    <3> QED BY <2>2, <2>4, <3>1, <3>2, StatsNat
  <2> QED BY <2>1, <2>2, <2>4, <2>5, <2>6
<1> QED BY PoolInvariant, StatsAlwaysBalance, <1>1, PTL

\* Once shutdown has joined the workers, no later call changes the queue or a
\* counter, so the stats read then are final.
THEOREM StatsAreFinal == Spec => StatsFinal
<1>1. PoolInv /\ [Next]_vars =>
        [(\E s \in Closers : spc[s] = "joined") => UNCHANGED <<queue, stats>>]_vars
  <2> SUFFICES ASSUME PoolInv, [Next]_vars, NEW s \in Closers, spc[s] = "joined"
               PROVE  UNCHANGED <<queue, stats>>
      BY Zenon
  <2>1. \A w \in Workers : wpc[w] = "exited"
      BY DEF PoolInv, ControlInv, JoinedAllExited
  <2>2. stopping /\ ~accepting
      BY DEF PoolInv, ControlInv, ClosersStop, StopRefuses
  <2>3. ~\E c \in Clients, t \in Tasks : Reject(c, t) \/ Enqueue(c, t)
      BY <2>2, Zenon DEF Reject, Enqueue
  <2>4. ~\E w \in Workers : WorkerTake(w) \/ FinishTask(w)
      BY <2>1 DEF WorkerTake, TakeFront, FinishTask, CountTask
  <2> QED BY <2>2, <2>3, <2>4, QueueSteps
<1> QED BY PoolInvariant, <1>1, PTL DEF Spec, StatsFinal

-----------------------------------------------------------------------------
(* Where a task is.  Together with AcceptedSomewhere, PlacesInv says that  *)
(* the queue, the workers and the sleeping submitters share no task.       *)

\* No task is queued twice, and whatever is queued has been accepted.
QueuedOnce ==
    /\ \A i, j \in DOMAIN queue : queue[i] = queue[j] => i = j
    /\ \A i \in DOMAIN queue : fate[queue[i]] = "accepted"

\* What a worker holds is accepted, held by no other worker and not queued.
HeldOnce ==
    \A w \in Workers : wtask[w] # NoTask =>
        /\ fate[wtask[w]] = "accepted"
        /\ \A v \in Workers : wtask[v] = wtask[w] => v = w
        /\ \A i \in DOMAIN queue : queue[i] # wtask[w]

\* A submit call that sleeps, or was just woken, exists only with the block
\* policy; its task has no other submitter and is not accepted yet.
Waits(c) == cpc[c] \in {"waiting", "woken"}

OfferedOnce ==
    \A c \in Clients : Waits(c) =>
        /\ full_policy = "block"
        /\ fate[ctask[c]] = "offered"
        /\ \A d \in Clients : Waits(d) /\ ctask[d] = ctask[c] => d = c

PlacesInv == QueuedOnce /\ HeldOnce /\ OfferedOnce

\* Initially no task is anywhere.
LEMMA PlacesInit == Init => PlacesInv
BY DEF Init, PlacesInv, QueuedOnce, HeldOnce, OfferedOnce, Waits

\* The critical section of submit keeps every task in its one place.  A new call
\* brings a task nobody else has; a woken one brings the task it slept with.
LEMMA SubmitPlaces ==
    ASSUME DataTypeOK, WaitersHoldTask, PlacesInv, NEW c \in Clients, NEW t \in Tasks,
           \/ fate[t] = "new" /\ ~Waits(c)
           \/ fate[t] = "offered" /\ Waits(c) /\ ctask[c] = t,
           SubmitLocked(c, t)
    PROVE  PlacesInv'
<1>q. queue \in Seq(Tasks) /\ DOMAIN queue = 1..Len(queue) /\ Len(queue) \in Nat
  <2>1. queue \in Seq(Tasks) BY DEF DataTypeOK
  <2> QED BY ONLY <2>1
<1>f. /\ fate \in [Tasks -> Fates] /\ cpc \in [Clients -> ClientPC]
      /\ ctask \in [Clients -> Tasks \cup {NoTask}]
      /\ wtask \in [Workers -> Tasks \cup {NoTask}] /\ wtask' = wtask
    BY DEF DataTypeOK, SubmitLocked
<1>o. QueuedOnce /\ HeldOnce /\ OfferedOnce
    BY DEF PlacesInv
<1>n. fate[t] # "accepted"
    OBVIOUS
<1>i. \A i \in DOMAIN queue : queue[i] \in Tasks /\ queue[i] # t
    BY <1>q, <1>o, <1>n DEF QueuedOnce
<1>w. \A w \in Workers : wtask[w] # t
    BY <1>o, <1>n, PoolAssumption DEF HeldOnce
<1>d. \A d \in Clients : Waits(d) /\ d # c => ctask[d] \in Tasks \ {t}
    BY <1>o DEF OfferedOnce, WaitersHoldTask, Waits
<1>1. CASE Refuse(c, t)
  <2>1. /\ queue' = queue /\ cpc' = [cpc EXCEPT ![c] = "idle"]
        /\ ctask' = [ctask EXCEPT ![c] = NoTask] /\ fate' = [fate EXCEPT ![t] = "refused"]
      BY <1>1 DEF Refuse
  <2>2. QueuedOnce' BY <1>o, <1>i, <1>f, <2>1 DEF QueuedOnce
  <2>3. HeldOnce' BY <1>o, <1>w, <1>f, <2>1 DEF HeldOnce
  <2>4. OfferedOnce' BY <1>o, <1>d, <1>f, <2>1 DEF OfferedOnce, Waits
  <2> QED BY <2>2, <2>3, <2>4 DEF PlacesInv
<1>2. CASE Reject(c, t)
  <2>1. /\ queue' = queue /\ cpc' = cpc /\ ctask' = ctask
        /\ fate' = [fate EXCEPT ![t] = "rejected"] /\ full_policy # "block"
      BY <1>2 DEF Reject
  <2>2. QueuedOnce' BY <1>o, <1>i, <1>f, <2>1 DEF QueuedOnce
  <2>3. HeldOnce' BY <1>o, <1>w, <1>f, <2>1 DEF HeldOnce
  <2>4. OfferedOnce' BY <1>o, <1>d, <1>f, <2>1 DEF OfferedOnce, Waits
  <2> QED BY <2>2, <2>3, <2>4 DEF PlacesInv
<1>3. CASE WaitForSpace(c, t)
  <2>1. /\ queue' = queue /\ cpc' = [cpc EXCEPT ![c] = "waiting"]
        /\ ctask' = [ctask EXCEPT ![c] = t] /\ fate' = [fate EXCEPT ![t] = "offered"]
        /\ full_policy = "block"
      BY <1>3 DEF WaitForSpace
  <2>2. QueuedOnce' BY <1>o, <1>i, <1>f, <2>1 DEF QueuedOnce
  <2>3. HeldOnce' BY <1>o, <1>w, <1>f, <2>1 DEF HeldOnce
  <2>4. \A d \in Clients : d # c => (Waits(d)' <=> Waits(d)) /\ ctask'[d] = ctask[d]
      BY <1>f, <2>1 DEF Waits
  <2>5. Waits(c)' /\ ctask'[c] = t /\ fate'[t] = "offered"
      BY <1>f, <2>1 DEF Waits
  <2>6. \A u \in Tasks : u # t => fate'[u] = fate[u]
      BY <1>f, <2>1
  <2>7. OfferedOnce'
    <3> SUFFICES ASSUME NEW d \in Clients, Waits(d)'
                 PROVE  /\ fate'[ctask'[d]] = "offered"
                        /\ \A e \in Clients : Waits(e)' /\ ctask'[e] = ctask'[d] => e = d
        BY <2>1 DEF OfferedOnce
    <3>1. CASE d = c BY <1>d, <2>4, <2>5, <3>1
    <3>2. CASE d # c BY <1>o, <1>d, <2>4, <2>5, <2>6, <3>2 DEF OfferedOnce
    <3> QED BY <3>1, <3>2
  <2> QED BY <2>2, <2>3, <2>7 DEF PlacesInv
<1>4. CASE Enqueue(c, t)
  <2>1. /\ queue' = Append(queue, t) /\ cpc' = [cpc EXCEPT ![c] = "notify"]
        /\ ctask' = [ctask EXCEPT ![c] = NoTask] /\ fate' = [fate EXCEPT ![t] = "accepted"]
      BY <1>4 DEF Enqueue, Push
  <2>2. /\ DOMAIN queue' = 1..(Len(queue) + 1) /\ queue'[Len(queue) + 1] = t
        /\ \A i \in 1..Len(queue) : queue'[i] = queue[i]
    <3>1. queue \in Seq(Tasks) /\ t \in Tasks /\ queue' = Append(queue, t)
        BY <1>q, <2>1
    <3> QED BY ONLY <3>1
  <2>3. \A i \in 1..(Len(queue) + 1) : i \in 1..Len(queue) \/ i = Len(queue) + 1
      BY <1>q
  <2>4. fate'[t] = "accepted" /\ \A u \in Tasks : u # t => fate'[u] = fate[u]
      BY <1>f, <2>1
  <2>5. QueuedOnce' BY <1>o, <1>i, <1>q, <2>2, <2>3, <2>4 DEF QueuedOnce
  <2>6. HeldOnce' BY <1>o, <1>w, <1>f, <1>q, <2>2, <2>3, <2>4 DEF HeldOnce
  <2>7. OfferedOnce' BY <1>o, <1>d, <1>f, <2>1 DEF OfferedOnce, Waits
  <2> QED BY <2>5, <2>6, <2>7 DEF PlacesInv
<1> QED BY <1>1, <1>2, <1>3, <1>4 DEF SubmitLocked

\* Popping the front task moves it from the queue to the worker.
LEMMA TakePlaces ==
    ASSUME DataTypeOK, ActiveCounted, PlacesInv, NEW w \in Workers, WorkerTake(w)
    PROVE  PlacesInv'
<1>q. /\ queue \in Seq(Tasks) /\ DOMAIN queue = 1..Len(queue) /\ Len(queue) \in Nat
      /\ queue # <<>>
  <2>1. queue \in Seq(Tasks) /\ queue # <<>>
      BY DEF DataTypeOK, WorkerTake, TakeFront
  <2> QED BY ONLY <2>1
<1>1. /\ wtask' = [wtask EXCEPT ![w] = Head(queue)] /\ queue' = Tail(queue)
      /\ UNCHANGED <<cpc, ctask, fate>>
    BY DEF WorkerTake, TakeFront
<1>2. /\ Len(queue) >= 1 /\ Head(queue) = queue[1] /\ Head(queue) \in Tasks
      /\ DOMAIN queue' = 1..(Len(queue) - 1)
      /\ \A i \in 1..(Len(queue) - 1) : queue'[i] = queue[i + 1]
  <2>1. queue \in Seq(Tasks) /\ queue # <<>> /\ queue' = Tail(queue)
      BY <1>q, <1>1
  <2> QED BY ONLY <2>1
<1>3. 1 \in DOMAIN queue /\ \A i \in 1..(Len(queue) - 1) : i + 1 \in DOMAIN queue /\ i + 1 # 1
    BY <1>q, <1>2
<1>4. QueuedOnce /\ HeldOnce /\ OfferedOnce
    BY DEF PlacesInv
<1>5. QueuedOnce'
  <2>1. \A i, j \in DOMAIN queue' : queue'[i] = queue'[j] => i + 1 = j + 1
      BY <1>2, <1>3, <1>4 DEF QueuedOnce
  <2>2. \A i, j \in DOMAIN queue' : i + 1 = j + 1 => i = j
      BY <1>q, <1>2
  <2>3. \A i \in DOMAIN queue' : fate'[queue'[i]] = "accepted"
      BY <1>1, <1>2, <1>3, <1>4 DEF QueuedOnce
  <2> QED BY <2>1, <2>2, <2>3 DEF QueuedOnce
<1>6. HeldOnce'
  <2>1. /\ wtask'[w] = queue[1]
        /\ \A v \in Workers : v # w => wtask'[v] = wtask[v]
      BY <1>1, <1>2 DEF DataTypeOK
  <2>2. \A i \in DOMAIN queue' : queue'[i] # queue[1]
      BY <1>2, <1>3, <1>4 DEF QueuedOnce
  <2>3. \A v \in Workers : wtask[v] # NoTask => wtask[v] # queue[1]
      BY <1>3, <1>4 DEF HeldOnce
  <2>4. queue[1] # NoTask /\ fate[queue[1]] = "accepted"
      BY <1>2, <1>3, <1>4, PoolAssumption DEF QueuedOnce
  <2>5. \A v \in Workers : wtask[v] # NoTask =>
            \A i \in DOMAIN queue' : queue'[i] # wtask[v]
      BY <1>2, <1>3, <1>4 DEF HeldOnce
  <2> QED BY <1>1, <1>4, <2>1, <2>2, <2>3, <2>4, <2>5 DEF HeldOnce
<1>7. OfferedOnce'
    BY <1>1, <1>4 DEF OfferedOnce, Waits
<1> QED BY <1>5, <1>6, <1>7 DEF PlacesInv

\* Counting a task ends it where it was, with the worker that ran it.
LEMMA FinishPlaces ==
    ASSUME DataTypeOK, WaitersHoldTask, PlacesInv, NEW w \in Workers, FinishTask(w)
    PROVE  PlacesInv'
<1>q. DOMAIN queue = 1..Len(queue) /\ \A i \in DOMAIN queue : queue[i] \in Tasks
  <2>1. queue \in Seq(Tasks) BY DEF DataTypeOK
  <2> QED BY ONLY <2>1
<1>1. /\ wtask' = [wtask EXCEPT ![w] = NoTask]
      /\ UNCHANGED <<queue, cpc, ctask>>
    BY DEF FinishTask, CountTask
<1>2. PICK f : fate' = [fate EXCEPT ![wtask[w]] = f]
    BY DEF FinishTask, CountTask
<1>3. QueuedOnce /\ HeldOnce /\ OfferedOnce
    BY DEF PlacesInv
<1>4. \A u \in Tasks : u # wtask[w] => fate'[u] = fate[u]
    BY <1>2 DEF DataTypeOK
<1>5. QueuedOnce'
  <2>1. \A i \in DOMAIN queue : queue[i] # wtask[w]
      BY <1>q, <1>3, PoolAssumption DEF HeldOnce
  <2> QED BY <1>q, <1>1, <1>3, <1>4, <2>1 DEF QueuedOnce
<1>6. HeldOnce'
  <2>1. /\ wtask'[w] = NoTask
        /\ \A v \in Workers : v # w => wtask'[v] = wtask[v]
        /\ \A v \in Workers : wtask[v] # NoTask => wtask[v] \in Tasks
      BY <1>1 DEF DataTypeOK
  <2> QED BY <1>1, <1>3, <1>4, <2>1 DEF HeldOnce
<1>7. OfferedOnce'
  <2>1. \A d \in Clients : Waits(d) => ctask[d] \in Tasks
      BY DEF WaitersHoldTask, Waits
  <2>2. \A d \in Clients : Waits(d) => ctask[d] # wtask[w]
      BY <1>3, <2>1, PoolAssumption DEF HeldOnce, OfferedOnce
  <2> QED BY <1>1, <1>3, <1>4, <2>1, <2>2 DEF OfferedOnce, Waits
<1> QED BY <1>5, <1>6, <1>7 DEF PlacesInv

\* Discarding the queue ends what was queued and nothing else.
LEMMA DiscardPlaces ==
    ASSUME DataTypeOK, WaitersHoldTask, PlacesInv, DiscardPending,
           UNCHANGED <<wtask, cpc, ctask>>
    PROVE  PlacesInv'
<1>1. /\ queue' = <<>>
      /\ \A u \in Tasks : (\A i \in DOMAIN queue : queue[i] # u) => fate'[u] = fate[u]
    BY DEF DiscardPending, Range
<1>2. QueuedOnce /\ HeldOnce /\ OfferedOnce
    BY DEF PlacesInv
<1>3. QueuedOnce'
    BY <1>1 DEF QueuedOnce
<1>4. HeldOnce'
  <2>1. \A v \in Workers : wtask[v] # NoTask => wtask[v] \in Tasks
      BY DEF DataTypeOK
  <2> QED BY <1>1, <1>2, <2>1 DEF HeldOnce
<1>5. OfferedOnce'
  <2>1. \A d \in Clients : Waits(d) => ctask[d] \in Tasks
      BY DEF WaitersHoldTask, Waits
  <2>2. \A d \in Clients : Waits(d) => \A i \in DOMAIN queue : queue[i] # ctask[d]
      BY <1>2, <2>1 DEF QueuedOnce, OfferedOnce
  <2> QED BY <1>1, <1>2, <2>1, <2>2 DEF OfferedOnce, Waits
<1> QED BY <1>3, <1>4, <1>5 DEF PlacesInv

\* Every step keeps every task in its one place.
LEMMA PlacesStep == PoolInv /\ PlacesInv /\ [Next]_vars => PlacesInv'
<1> SUFFICES ASSUME PoolInv, PlacesInv, [Next]_vars PROVE PlacesInv' OBVIOUS
<1>0. DataTypeOK /\ ActiveCounted /\ WaitersHoldTask
    BY Zenon DEF PoolInv, TypeOK, ControlInv, DataTypeOK
<1>1. ASSUME UNCHANGED <<queue, wtask, ctask, fate>>,
             \A c \in Clients : Waits(c)' => Waits(c)
      PROVE  PlacesInv'
    BY <1>1 DEF PlacesInv, QueuedOnce, HeldOnce, OfferedOnce
<1>2. ASSUME cpc' = cpc \/ NotifyOneClient \/ NotifyAllClients
      PROVE  \A c \in Clients : Waits(c)' => Waits(c)
    BY <1>0, <1>2, NotifyClientsOnlyWakes DEF Waits, DataTypeOK
<1>3. CASE Constructor \/ SpuriousWakeup \/ Quiescent \/ UNCHANGED vars
  <2>1. /\ UNCHANGED <<queue, wtask, ctask, fate>>
        /\ cpc' = cpc \/ NotifyOneClient \/ NotifyAllClients
      BY <1>3, Zenon DEF Constructor, FinishConstruction, FailConstruction,
          NotifyStartedWorkers, JoinStartedWorkers, SpuriousWakeup, Quiescent, vars, held
  <2> QED BY <1>1, <1>2, <2>1
<1>4. ASSUME NEW w \in Workers, WorkerStep(w) PROVE PlacesInv'
  <2>1. CASE StartWorker(w) \/ WorkerWait(w) \/ WorkerExit(w) \/ NotifySpace(w)
    <3>1. /\ UNCHANGED <<queue, wtask, ctask, fate>>
          /\ cpc' = cpc \/ NotifyOneClient \/ NotifyAllClients
        BY <2>1, Zenon DEF StartWorker, WorkerWait, WorkerExit, NotifySpace, held
    <3> QED BY <1>1, <1>2, <3>1
  <2>2. CASE WorkerTake(w) BY <1>0, <2>2, TakePlaces
  <2>3. CASE FinishTask(w) BY <1>0, <2>3, FinishPlaces
  <2> QED BY <1>4, <2>1, <2>2, <2>3 DEF WorkerStep
<1>5. ASSUME NEW c \in Clients, ClientStep(c) PROVE PlacesInv'
  <2>1. CASE ResumeSubmit(c)
    <3>1. cpc[c] = "woken" /\ SubmitLocked(c, ctask[c])
        BY <2>1 DEF ResumeSubmit
    <3>2. Waits(c) /\ ctask[c] \in Tasks
        BY <1>0, <3>1 DEF Waits, WaitersHoldTask
    <3>3. fate[ctask[c]] = "offered"
        BY <3>2 DEF PlacesInv, OfferedOnce
    <3> QED BY <1>0, <3>1, <3>2, <3>3, SubmitPlaces
  <2>2. CASE NotifyWork(c)
    <3>1. UNCHANGED <<queue, wtask, ctask, fate>>
        BY <2>2, Zenon DEF NotifyWork, held
    <3>2. \A d \in Clients : Waits(d)' => Waits(d)
        BY <1>0, <2>2 DEF NotifyWork, Waits, DataTypeOK
    <3> QED BY <1>1, <3>1, <3>2
  <2> QED BY <1>5, <2>1, <2>2 DEF ClientStep
<1>6. ASSUME NEW c \in Clients, NEW t \in Tasks, Submit(c, t) PROVE PlacesInv'
  <2>1. fate[t] = "new" /\ ~Waits(c) /\ SubmitLocked(c, t)
      BY <1>6 DEF Submit, Waits
  <2> QED BY <1>0, <2>1, SubmitPlaces
<1>7. ASSUME NEW s \in Closers, CloserStep(s) \/ ShutdownAgain(s) PROVE PlacesInv'
  <2>1. /\ UNCHANGED <<queue, wtask, ctask, fate>>
        /\ cpc' = cpc \/ NotifyOneClient \/ NotifyAllClients
      BY <1>7, Zenon DEF CloserStep, NotifyBlockedClients, NotifyIdleWorkers, JoinWorkers,
          ShutdownAgain, held
  <2> QED BY <1>1, <1>2, <2>1
<1>8. ASSUME NEW s \in Closers, Shutdown(s) PROVE PlacesInv'
  <2>1. UNCHANGED <<wtask, cpc, ctask>>
      BY <1>8, Zenon DEF Shutdown, held
  <2>2. CASE DiscardPending BY <1>0, <2>1, <2>2, DiscardPlaces
  <2>3. CASE UNCHANGED <<queue, fate>> BY <1>1, <1>2, <2>1, <2>3
  <2> QED BY <1>8, <2>2, <2>3 DEF Shutdown
<1> QED BY <1>3, <1>4, <1>5, <1>6, <1>7, <1>8 DEF Next

\* However submitters, workers and shutdown interleave, a task for which submit
\* returned true and that has not ended is in exactly one place, queued once or
\* held by one worker, and any other task is nowhere.
THEOREM EveryTaskHasOnePlace == Spec => []AcceptedTaskHasOnePlace
<1>1. PoolInv /\ PlacesInv => AcceptedTaskHasOnePlace
  <2> SUFFICES ASSUME PoolInv, PlacesInv, NEW t \in Tasks
               PROVE  Cardinality({i \in DOMAIN queue : queue[i] = t})
                        + Cardinality({w \in Workers : wtask[w] = t})
                      = IF fate[t] = "accepted" THEN 1 ELSE 0
      BY DEF AcceptedTaskHasOnePlace
  <2> DEFINE Q == {i \in DOMAIN queue : queue[i] = t}
             W == {w \in Workers : wtask[w] = t}
  <2>1. QueuedOnce /\ HeldOnce /\ AcceptedSomewhere /\ t # NoTask
      BY Zenon, PoolAssumption DEF PlacesInv, PoolInv
  <2>2. CASE fate[t] # "accepted"
    <3>1. Q = {} /\ W = {} BY <2>1, <2>2 DEF QueuedOnce, HeldOnce
    <3>2. Cardinality(Q) = 0 /\ Cardinality(W) = 0
        BY <3>1, FS_EmptySet
    <3> HIDE DEF Q, W
    <3>3. Cardinality(Q) + Cardinality(W) = 0 BY <3>2
    <3> QED BY <2>2, <3>3 DEF Q, W
  <2>3. CASE fate[t] = "accepted" /\ \E i \in DOMAIN queue : queue[i] = t
    <3>1. PICK i \in DOMAIN queue : queue[i] = t BY <2>3
    <3>2. Q = {i} /\ W = {} BY <2>1, <3>1 DEF QueuedOnce, HeldOnce
    <3>3. Cardinality(Q) = 1 /\ Cardinality(W) = 0
        BY <3>2, FS_EmptySet, FS_Singleton
    <3> HIDE DEF Q, W
    <3>4. Cardinality(Q) + Cardinality(W) = 1 BY <3>3
    <3> QED BY <2>3, <3>4 DEF Q, W
  <2>4. CASE fate[t] = "accepted" /\ \E w \in Workers : wtask[w] = t
    <3>1. PICK w \in Workers : wtask[w] = t BY <2>4
    <3>2. Q = {} /\ W = {w} BY <2>1, <3>1 DEF HeldOnce
    <3>3. Cardinality(Q) = 0 /\ Cardinality(W) = 1
        BY <3>2, FS_EmptySet, FS_Singleton
    <3> HIDE DEF Q, W
    <3>4. Cardinality(Q) + Cardinality(W) = 1 BY <3>3
    <3> QED BY <2>4, <3>4 DEF Q, W
  <2> QED BY <2>1, <2>2, <2>3, <2>4 DEF AcceptedSomewhere
<1> QED BY PlacesInit, PoolInvariant, PlacesStep, <1>1, PTL DEF Spec
==============================================================================
