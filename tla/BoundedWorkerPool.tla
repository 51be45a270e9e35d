-------------------------- MODULE BoundedWorkerPool --------------------------
(***************************************************************************)
(* The bounded worker pool of                                              *)
(* src/infrastructure/concurrency/bounded_worker_pool.cpp: client threads  *)
(* submit tasks, worker threads run them, closer threads shut the pool     *)
(* down.                                                                   *)
(*                                                                         *)
(* Everything the threads share is guarded by mutex_, so a critical        *)
(* section is one step.  What is left to interleave is the order of the    *)
(* critical sections, the notifications (all sent after the mutex has been *)
(* released), the threads that sleep on the two condition variables, and   *)
(* the task bodies, which run without the mutex.  A thread woken from a    *)
(* condition variable evaluates its predicate again in a step of its own.  *)
(***************************************************************************)
EXTENDS Naturals, Sequences, FiniteSets, Functions

CONSTANTS
    Workers,          \* the worker threads the constructor starts
    Clients,          \* threads that call submit
    Closers,          \* threads that call shutdown (the destructor is one)
    Tasks,            \* task closures; each is offered to submit once
    NoTask,           \* a worker or client that holds no task
    queue_capacity,
    full_policy,
    shutdown_policy,
    SpuriousWakeups   \* whether a wait may return without a notification

\* The constructor's checks (the upper bounds 256 and 65536 only limit size).
ASSUME PoolAssumption ==
    /\ IsFiniteSet(Workers) /\ Workers # {}
    /\ IsFiniteSet(Clients)
    /\ NoTask \notin Tasks
    /\ queue_capacity \in Nat \ {0}
    /\ full_policy \in {"reject_newest", "block"}
    /\ shutdown_policy \in {"drain", "discard_pending"}
    /\ SpuriousWakeups \in BOOLEAN

VARIABLES
    queue, accepting, stopping,
    stats,            \* the counters stats() returns (pending is Len(queue))
    phase,            \* how far the constructor is
    wpc, wtask,       \* worker: program point, task held
    cpc, ctask,       \* client: program point, task held by a waiting submit
    spc,              \* closer: program point in shutdown
    fate              \* history: what became of each task

flags == <<accepting, stopping>>
held == <<wtask, ctask>>
vars == <<queue, flags, stats, phase, wpc, cpc, spc, held, fate>>

BoundedWorkerPoolStats ==
    [submitted : Nat, completed : Nat, failed : Nat, dropped : Nat, active : Nat,
     peak_pending : Nat]

Fates == {"new", "offered", "accepted", "refused", "rejected",
          "completed", "failed", "discarded"}

Init ==
    /\ queue = <<>>
    /\ accepting = TRUE
    /\ stopping = FALSE
    /\ stats = [submitted |-> 0, completed |-> 0, failed |-> 0, dropped |-> 0,
                active |-> 0, peak_pending |-> 0]
    /\ phase = "constructing"
    /\ wpc = [w \in Workers |-> "unstarted"]
    /\ wtask = [w \in Workers |-> NoTask]
    /\ cpc = [c \in Clients |-> "idle"]
    /\ ctask = [c \in Clients |-> NoTask]
    /\ spc = [s \in Closers |-> "idle"]
    /\ fate = [t \in Tasks |-> "new"]

Full == Len(queue) >= queue_capacity

SleepingWorkers == {w \in Workers : wpc[w] = "waiting"}
SleepingClients == {c \in Clients : cpc[c] = "waiting"}

-----------------------------------------------------------------------------
(* work_available_ is waited on by workers only, queue_space_available_ by *)
(* blocked submitters only.                                                *)

NotifyOneWorker ==
    IF SleepingWorkers = {} THEN UNCHANGED wpc
    ELSE \E w \in SleepingWorkers : wpc' = [wpc EXCEPT ![w] = "ready"]

NotifyOneClient ==
    IF SleepingClients = {} THEN UNCHANGED cpc
    ELSE \E c \in SleepingClients : cpc' = [cpc EXCEPT ![c] = "woken"]

NotifyAllWorkers ==
    wpc' = [w \in Workers |-> IF wpc[w] = "waiting" THEN "ready" ELSE wpc[w]]

NotifyAllClients ==
    cpc' = [c \in Clients |-> IF cpc[c] = "waiting" THEN "woken" ELSE cpc[c]]

-----------------------------------------------------------------------------
(* The constructor.  A worker runs as soon as its thread exists; no other  *)
(* thread can reach the pool before the constructor returns.               *)

StartWorker(w) ==
    /\ phase = "constructing"
    /\ wpc[w] = "unstarted"
    /\ wpc' = [wpc EXCEPT ![w] = "ready"]
    /\ UNCHANGED <<queue, flags, stats, phase, cpc, spc, held, fate>>

FinishConstruction ==
    /\ phase = "constructing"
    /\ \A w \in Workers : wpc[w] # "unstarted"
    /\ phase' = "open"
    /\ UNCHANGED <<queue, flags, stats, wpc, cpc, spc, held, fate>>

\* A std::thread cannot be created: the catch block stops the workers that
\* have started, wakes them, joins them and throws.
FailConstruction ==
    /\ phase = "constructing"
    /\ \E w \in Workers : wpc[w] = "unstarted"
    /\ accepting' = FALSE
    /\ stopping' = TRUE
    /\ phase' = "failing"
    /\ UNCHANGED <<queue, stats, wpc, cpc, spc, held, fate>>

NotifyStartedWorkers ==
    /\ phase = "failing"
    /\ NotifyAllWorkers
    /\ phase' = "joining"
    /\ UNCHANGED <<queue, flags, stats, cpc, spc, held, fate>>

JoinStartedWorkers ==
    /\ phase = "joining"
    /\ \A w \in Workers : wpc[w] \in {"unstarted", "exited"}
    /\ phase' = "threw"
    /\ UNCHANGED <<queue, flags, stats, wpc, cpc, spc, held, fate>>

-----------------------------------------------------------------------------
(* submit: the critical section, entered by a new call and again by a call *)
(* that wakes from queue_space_available_.                                 *)

\* !accepting_: return false, and no counter records the attempt.
Refuse(c, t) ==
    /\ ~accepting
    /\ cpc' = [cpc EXCEPT ![c] = "idle"]
    /\ ctask' = [ctask EXCEPT ![c] = NoTask]
    /\ fate' = [fate EXCEPT ![t] = "refused"]
    /\ UNCHANGED <<queue, stats>>

Reject(c, t) ==
    /\ accepting /\ Full
    /\ full_policy = "reject_newest"
    /\ stats' = [stats EXCEPT !.dropped = @ + 1]
    /\ fate' = [fate EXCEPT ![t] = "rejected"]
    /\ UNCHANGED <<queue, cpc, ctask>>

WaitForSpace(c, t) ==
    /\ accepting /\ Full
    /\ full_policy = "block"
    /\ cpc' = [cpc EXCEPT ![c] = "waiting"]
    /\ ctask' = [ctask EXCEPT ![c] = t]
    /\ fate' = [fate EXCEPT ![t] = "offered"]
    /\ UNCHANGED <<queue, stats>>

Push(c, t) ==
    /\ queue' = Append(queue, t)
    /\ stats' = [stats EXCEPT !.submitted = @ + 1,
                              !.peak_pending = IF Len(queue') > @
                                                 THEN Len(queue') ELSE @]
    /\ cpc' = [cpc EXCEPT ![c] = "notify"]
    /\ ctask' = [ctask EXCEPT ![c] = NoTask]
    /\ fate' = [fate EXCEPT ![t] = "accepted"]

Enqueue(c, t) == accepting /\ ~Full /\ Push(c, t)

SubmitLocked(c, t) ==
    /\ Refuse(c, t) \/ Reject(c, t) \/ WaitForSpace(c, t) \/ Enqueue(c, t)
    /\ UNCHANGED <<flags, phase, wpc, wtask, spc>>

Submit(c, t) ==
    /\ phase = "open"
    /\ cpc[c] = "idle"
    /\ fate[t] = "new"
    /\ SubmitLocked(c, t)

\* Mutant: a plain wait, without its predicate and the check that follows it.
ResumeUnchecked(c) ==
    /\ cpc[c] = "woken"
    /\ Push(c, ctask[c])
    /\ UNCHANGED <<flags, phase, wpc, wtask, spc>>

ResumeSubmit(c) == cpc[c] = "woken" /\ SubmitLocked(c, ctask[c])

\* Mutant: wake a worker only when the queue was empty before the push.
NotifyIfFirst(c) ==
    /\ cpc[c] = "notify"
    /\ cpc' = [cpc EXCEPT ![c] = "idle"]
    /\ IF Len(queue) = 1 THEN NotifyOneWorker ELSE UNCHANGED wpc
    /\ UNCHANGED <<queue, flags, stats, phase, spc, held, fate>>

\* work_available_.notify_one() after lock.unlock().
NotifyWork(c) ==
    /\ cpc[c] = "notify"
    /\ cpc' = [cpc EXCEPT ![c] = "idle"]
    /\ NotifyOneWorker
    /\ UNCHANGED <<queue, flags, stats, phase, spc, held, fate>>

-----------------------------------------------------------------------------
(* worker_loop.                                                            *)

WorkerWait(w) ==
    /\ wpc[w] = "ready"
    /\ ~stopping /\ queue = <<>>
    /\ wpc' = [wpc EXCEPT ![w] = "waiting"]
    /\ UNCHANGED <<queue, flags, stats, phase, cpc, spc, held, fate>>

\* Mutant: the loop returns as soon as stopping_ is set.
ExitUndrained(w) ==
    /\ wpc[w] = "ready" /\ stopping
    /\ wpc' = [wpc EXCEPT ![w] = "exited"]
    /\ UNCHANGED <<queue, flags, stats, phase, cpc, spc, held, fate>>

WorkerExit(w) ==
    /\ wpc[w] = "ready"
    /\ stopping /\ queue = <<>>
    /\ wpc' = [wpc EXCEPT ![w] = "exited"]
    /\ UNCHANGED <<queue, flags, stats, phase, cpc, spc, held, fate>>

\* Take the front task; rest is the queue left behind, busy what active_ gains.
TakeFront(w, rest, busy) ==
    /\ wpc[w] = "ready" /\ queue # <<>>
    /\ wtask' = [wtask EXCEPT ![w] = Head(queue)]
    /\ queue' = rest
    /\ stats' = [stats EXCEPT !.active = @ + busy]
    /\ wpc' = [wpc EXCEPT ![w] = "popped"]
    /\ UNCHANGED <<flags, phase, cpc, spc, ctask, fate>>

\* Mutant: no ++active_.
TakeUncounted(w) == TakeFront(w, Tail(queue), 0)

WorkerTake(w) == TakeFront(w, Tail(queue), 1)

\* Mutant: the popping worker wakes a submitter only when the queue was full
\* before the pop.
NotifyIfWasFull(w) ==
    /\ wpc[w] = "popped"
    /\ wpc' = [wpc EXCEPT ![w] = "running"]
    /\ IF Len(queue) = queue_capacity - 1 THEN NotifyOneClient ELSE UNCHANGED cpc
    /\ UNCHANGED <<queue, flags, stats, phase, spc, held, fate>>

\* queue_space_available_.notify_one(), outside the critical section.
NotifySpace(w) ==
    /\ wpc[w] = "popped"
    /\ wpc' = [wpc EXCEPT ![w] = "running"]
    /\ NotifyOneClient
    /\ UNCHANGED <<queue, flags, stats, phase, spc, held, fate>>

\* The task body has returned (completed) or thrown (failed): count it under
\* the mutex and loop.
CountTask(w, completed, failed) ==
    /\ wpc[w] = "running"
    /\ stats' = [stats EXCEPT !.active = @ - 1, !.completed = @ + completed,
                              !.failed = @ + failed]
    /\ fate' = [fate EXCEPT ![wtask[w]] =
                   IF completed = 1 THEN "completed" ELSE "failed"]
    /\ wtask' = [wtask EXCEPT ![w] = NoTask]
    /\ wpc' = [wpc EXCEPT ![w] = "ready"]
    /\ UNCHANGED <<queue, flags, phase, cpc, spc, ctask>>

\* Mutant: a task that throws is not counted.
FinishUncounted(w) == CountTask(w, 1, 0) \/ CountTask(w, 0, 0)

FinishTask(w) == CountTask(w, 1, 0) \/ CountTask(w, 0, 1)

-----------------------------------------------------------------------------
(* shutdown.                                                               *)

\* Another call has already stopped the pool: this one returns at once,
\* whether or not the workers have been joined.
ShutdownAgain(s) ==
    /\ phase = "open" /\ spc[s] = "idle"
    /\ stopping
    /\ spc' = [spc EXCEPT ![s] = "returned"]
    /\ UNCHANGED <<queue, flags, stats, phase, wpc, cpc, held, fate>>

\* Mutant: the discarded tasks are counted but stay in the queue.
DiscardUncleared ==
    /\ stats' = [stats EXCEPT !.dropped = @ + Len(queue)]
    /\ fate' = [t \in Tasks |-> IF t \in Range(queue) THEN "discarded" ELSE fate[t]]
    /\ UNCHANGED queue

DiscardPending ==
    /\ stats' = [stats EXCEPT !.dropped = @ + Len(queue)]
    /\ queue' = <<>>
    /\ fate' = [t \in Tasks |-> IF t \in Range(queue) THEN "discarded" ELSE fate[t]]

Shutdown(s) ==
    /\ phase = "open" /\ spc[s] = "idle"
    /\ ~stopping
    /\ accepting' = FALSE
    /\ stopping' = TRUE
    /\ IF shutdown_policy = "discard_pending" THEN DiscardPending
       ELSE UNCHANGED <<queue, stats, fate>>
    /\ spc' = [spc EXCEPT ![s] = "notify_space"]
    /\ UNCHANGED <<phase, wpc, cpc, held>>

NotifyBlockedClients(s) ==
    /\ spc[s] = "notify_space"
    /\ NotifyAllClients
    /\ spc' = [spc EXCEPT ![s] = "notify_work"]
    /\ UNCHANGED <<queue, flags, stats, phase, wpc, held, fate>>

NotifyIdleWorkers(s) ==
    /\ spc[s] = "notify_work"
    /\ NotifyAllWorkers
    /\ spc' = [spc EXCEPT ![s] = "join"]
    /\ UNCHANGED <<queue, flags, stats, phase, cpc, held, fate>>

JoinWorkers(s) ==
    /\ spc[s] = "join"
    /\ \A w \in Workers : wpc[w] = "exited"
    /\ spc' = [spc EXCEPT ![s] = "joined"]
    /\ UNCHANGED <<queue, flags, stats, phase, wpc, cpc, held, fate>>

-----------------------------------------------------------------------------
(* A wait on a condition variable may return without a notification.       *)

SpuriousWakeup ==
    /\ SpuriousWakeups
    /\ \/ SleepingWorkers # {} /\ NotifyOneWorker /\ UNCHANGED cpc
       \/ SleepingClients # {} /\ NotifyOneClient /\ UNCHANGED wpc
    /\ UNCHANGED <<queue, flags, stats, phase, spc, held, fate>>

\* Everything that was asked of the pool has been answered.
Quiescent ==
    /\ \/ phase = "threw"
       \/ phase = "open" /\ \A s \in Closers : spc[s] \in {"returned", "joined"}
    /\ \A w \in Workers : wpc[w] \in {"unstarted", "exited"}
    /\ \A c \in Clients : cpc[c] = "idle"
    /\ phase = "open" => \A t \in Tasks : fate[t] # "new"
    /\ UNCHANGED vars

Constructor == \/ FinishConstruction \/ FailConstruction
               \/ NotifyStartedWorkers \/ JoinStartedWorkers

WorkerStep(w) == \/ StartWorker(w) \/ WorkerWait(w) \/ WorkerExit(w)
                 \/ WorkerTake(w) \/ NotifySpace(w) \/ FinishTask(w)

\* What a client does once it is inside submit.
ClientStep(c) == ResumeSubmit(c) \/ NotifyWork(c)

\* What a closer does once it has stopped the pool.
CloserStep(s) == NotifyBlockedClients(s) \/ NotifyIdleWorkers(s) \/ JoinWorkers(s)

Next ==
    \/ Constructor
    \/ \E w \in Workers : WorkerStep(w)
    \/ \E c \in Clients : ClientStep(c)
    \/ \E c \in Clients, t \in Tasks : Submit(c, t)
    \/ \E s \in Closers : CloserStep(s) \/ Shutdown(s) \/ ShutdownAgain(s)
    \/ SpuriousWakeup
    \/ Quiescent

Spec == Init /\ [][Next]_vars

(***************************************************************************)
(* Every thread that can run is eventually scheduled, mutex_ is eventually *)
(* granted to a thread that asks for it and task bodies return.  Nobody is *)
(* obliged to call submit or shutdown, the constructor need not fail, and  *)
(* no wait is obliged to return without a notification.                    *)
(***************************************************************************)
Fairness ==
    /\ WF_vars(NotifyStartedWorkers) /\ WF_vars(JoinStartedWorkers)
    /\ WF_vars(FinishConstruction)
    /\ \A w \in Workers : WF_vars(WorkerStep(w))
    /\ \A c \in Clients : WF_vars(ClientStep(c))
    /\ \A s \in Closers : WF_vars(CloserStep(s))

FairSpec == Spec /\ Fairness

-----------------------------------------------------------------------------
(* Invariants.                                                             *)

WorkerPC == {"unstarted", "ready", "waiting", "popped", "running", "exited"}
ClientPC == {"idle", "waiting", "woken", "notify"}
CloserPC == {"idle", "notify_space", "notify_work", "join", "joined",
             "returned"}

\* Every variable has its type.
TypeOK ==
    /\ queue \in Seq(Tasks)
    /\ accepting \in BOOLEAN /\ stopping \in BOOLEAN
    /\ stats \in BoundedWorkerPoolStats
    /\ phase \in {"constructing", "open", "failing", "joining", "threw"}
    /\ wpc \in [Workers -> WorkerPC]
    /\ wtask \in [Workers -> Tasks \cup {NoTask}]
    /\ cpc \in [Clients -> ClientPC]
    /\ ctask \in [Clients -> Tasks \cup {NoTask}]
    /\ spc \in [Closers -> CloserPC]
    /\ fate \in [Tasks -> Fates]

\* However submitters barge past the ones that sleep on the full queue, the
\* queue never exceeds queue_capacity, and peak_pending is a true peak.
QueueBounded ==
    /\ Len(queue) <= stats.peak_pending
    /\ stats.peak_pending <= queue_capacity

\* What stats() returns always adds up: a submitted task is completed, failed,
\* active, pending or was discarded by shutdown.  dropped counts the discarded
\* tasks together with the rejected ones, which were never submitted, so d is
\* known exactly only when one of the two cannot happen.
StatsBalance ==
    \E d \in 0..stats.dropped :
        /\ stats.submitted = stats.completed + stats.failed + stats.active
                               + Len(queue) + d
        /\ full_policy = "block" => d = stats.dropped
        /\ shutdown_policy = "drain" => d = 0

\* A task for which submit returned true and that has not ended is in exactly
\* one place, queued once or held by one worker; any other task is nowhere.
AcceptedTaskHasOnePlace ==
    \A t \in Tasks :
        Cardinality({i \in DOMAIN queue : queue[i] = t})
          + Cardinality({w \in Workers : wtask[w] = t})
        = IF fate[t] = "accepted" THEN 1 ELSE 0

\* No lost wakeup on work_available_: pending work implies that some worker is
\* awake, or that a notification is still to be sent.
WorkNotStranded ==
    queue # <<>> =>
        \/ \E w \in Workers : wpc[w] \in {"ready", "popped", "running"}
        \/ \E c \in Clients : cpc[c] = "notify"
        \/ \E s \in Closers : spc[s] \in {"notify_space", "notify_work"}

\* No lost wakeup at shutdown or after a failed constructor: a worker that
\* still sleeps while the pool is stopping has its notify_all ahead of it.
StopNotStranded ==
    stopping /\ SleepingWorkers # {} =>
        \/ phase = "failing"
        \/ \E s \in Closers : spc[s] \in {"notify_space", "notify_work"}

\* No lost wakeup on queue_space_available_: while submitters sleep, every free
\* slot of the queue is matched by a notification to come or by a submitter
\* already woken; once the pool stops, the notify_all is still to come.
SpaceNotStranded ==
    SleepingClients # {} =>
        IF accepting
          THEN queue_capacity - Len(queue)
                 <= Cardinality({w \in Workers : wpc[w] = "popped"})
                      + Cardinality({c \in Clients : cpc[c] = "woken"})
          ELSE \E s \in Closers : spc[s] = "notify_space"

\* No lost wakeup at all: the notifications are sent outside the mutex and one
\* at a time, yet nobody sleeps over work, a stop or free space.
NobodyStranded == WorkNotStranded /\ StopNotStranded /\ SpaceNotStranded

\* When the shutdown call that stopped the pool returns, no thread is left, no
\* accepted task is left without an outcome, and with the drain policy every
\* submitted task has run.
JoinedMeansDrained ==
    (\E s \in Closers : spc[s] = "joined") =>
        /\ \A w \in Workers : wpc[w] = "exited"
        /\ queue = <<>> /\ stats.active = 0
        /\ \A t \in Tasks : fate[t] # "accepted"
        /\ shutdown_policy = "drain" => stats.submitted = stats.completed + stats.failed

-----------------------------------------------------------------------------
(* Action and liveness properties.                                         *)

\* The stats are final once shutdown has joined the workers, whatever blocked
\* submitters and late callers still do.
StatsFinal ==
    [][(\E s \in Closers : spc[s] = "joined") => UNCHANGED <<queue, stats>>]_vars

\* Every submit call returns, also one that sleeps on the full queue when the
\* pool is shut down under it.
SubmitReturns ==
    \A c \in Clients : cpc[c] # "idle" ~> cpc[c] = "idle"

\* Every accepted task is run or discarded: no worker sleeps while it is queued.
AcceptedTaskEnds ==
    \A t \in Tasks :
        fate[t] = "accepted" ~> fate[t] \in {"completed", "failed", "discarded"}

\* The shutdown call that stops the pool joins all workers and returns.
ShutdownReturns ==
    \A s \in Closers : spc[s] = "notify_space" ~> spc[s] = "joined"

\* A constructor that cannot start a thread joins the workers it has started
\* and throws.
FailedConstructionJoins == phase = "failing" ~> phase = "threw"

\* Whoever calls into the pool gets out again: a submitter, the closer that
\* joins the workers, and the constructor that cannot finish.
CallsReturn == SubmitReturns /\ ShutdownReturns /\ FailedConstructionJoins

\* Nothing hangs: every call into the pool gets out again, and every task the pool
\* has taken is run or discarded.
NothingHangs == CallsReturn /\ AcceptedTaskEnds
==============================================================================
