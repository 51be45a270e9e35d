---------------------------- MODULE AtomicModelSlot ----------------------------
(***************************************************************************)
(* The slot through which requests use a model while others reload it      *)
(* (include/fac_lpr/infrastructure/model/atomic_model_slot.hpp).           *)
(*                                                                         *)
(* A request takes a shared_ptr snapshot of the active model with one      *)
(* atomic load.  A reload, on the caller's thread or on one of its own,    *)
(* holds reload_mutex while it loads a candidate, validates it, and swaps  *)
(* it in with one atomic store.  Reference counts are kept as the code     *)
(* moves and copies its pointers: refs of each model, owners of the State  *)
(* block, which the slot and every reload_async share.  A model or State   *)
(* whose count falls to zero is destroyed.                                 *)
(*                                                                         *)
(* Model k is what the k-th call of a loader makes; model 0 is the initial *)
(* one.  The caller's side of the contract: nobody calls a method of a     *)
(* slot that is destroyed, or destroys it while a call is inside.          *)
(***************************************************************************)
EXTENDS Integers, FiniteSets

CONSTANTS
    Readers,       \* requests
    Reloaders,     \* reloads that may be in progress together
    MaxLoads       \* bound on the number of reloads

ASSUME SlotAssumption ==
    MaxLoads \in Nat /\ IsFiniteSet(Readers) /\ IsFiniteSet(Reloaders)

NoModel == -1
Models == 0..MaxLoads
Free == "free"
ASSUME FreeAssumption == Free \notin Reloaders

VARIABLES
    slot,          \* the AtomicModelSlot exists
    active, reload_mutex, owners,     \* State, and its reference count
    snapshot,      \* what each request holds
    pc, async,     \* how far a reload is, and whether reload_async started it
    candidate,     \* the pointer a reload holds
    calls, loads,  \* reloads called, loaders called
    refs,          \* reference count of each model
    validated      \* history: the models their validators accepted

vars == <<slot, active, reload_mutex, owners, snapshot, pc, async, candidate,
          calls, loads, refs, validated>>
reloads == <<pc, async, candidate, calls, loads>>

Init ==
    /\ slot = TRUE /\ active = 0 /\ reload_mutex = Free /\ owners = 1
    /\ snapshot = [r \in Readers |-> NoModel]
    /\ pc = [t \in Reloaders |-> "idle"]
    /\ async = [t \in Reloaders |-> FALSE]
    /\ candidate = [t \in Reloaders |-> NoModel]
    /\ calls = 0 /\ loads = 0
    /\ refs = [m \in Models |-> IF m = 0 THEN 1 ELSE 0]
    /\ validated = {0}

-----------------------------------------------------------------------------
(* Requests.                                                               *)

Acquire(r) ==
    /\ slot /\ snapshot[r] = NoModel
    /\ snapshot' = [snapshot EXCEPT ![r] = active]
    /\ refs' = [refs EXCEPT ![active] = @ + 1]
    /\ UNCHANGED <<slot, active, reload_mutex, owners, reloads, validated>>

\* The request ends and its snapshot goes.
Release(r) ==
    /\ snapshot[r] # NoModel
    /\ refs' = [refs EXCEPT ![snapshot[r]] = @ - 1]
    /\ snapshot' = [snapshot EXCEPT ![r] = NoModel]
    /\ UNCHANGED <<slot, active, reload_mutex, owners, reloads, validated>>

-----------------------------------------------------------------------------
(* Reloads.                                                                *)

Start(t) ==
    /\ slot /\ pc[t] = "idle" /\ calls < MaxLoads
    /\ pc' = [pc EXCEPT ![t] = "called"]
    /\ calls' = calls + 1
    /\ UNCHANGED <<slot, active, reload_mutex, snapshot, candidate, loads, refs,
                   validated>>

Reload(t) ==
    /\ Start(t)
    /\ async' = [async EXCEPT ![t] = FALSE]
    /\ UNCHANGED owners

\* The task on its own thread keeps the State alive by a reference of its own.
ReloadAsync(t) ==
    /\ Start(t)
    /\ async' = [async EXCEPT ![t] = TRUE]
    /\ owners' = owners + 1

\* Mutant: reloads are not serialized.
LockNothing(t) ==
    /\ pc[t] = "called"
    /\ reload_mutex' = t
    /\ pc' = [pc EXCEPT ![t] = "loading"]
    /\ UNCHANGED <<slot, active, owners, snapshot, async, candidate, calls, loads,
                   refs, validated>>

Lock(t) ==
    /\ pc[t] = "called" /\ reload_mutex = Free
    /\ reload_mutex' = t
    /\ pc' = [pc EXCEPT ![t] = "loading"]
    /\ UNCHANGED <<slot, active, owners, snapshot, async, candidate, calls, loads,
                   refs, validated>>

\* The loader returns a model.
LoadSucceeds(t) ==
    /\ pc[t] = "loading"
    /\ loads' = loads + 1
    /\ candidate' = [candidate EXCEPT ![t] = loads']
    /\ refs' = [refs EXCEPT ![loads'] = 1]
    /\ pc' = [pc EXCEPT ![t] = "validating"]
    /\ UNCHANGED <<slot, active, reload_mutex, owners, snapshot, async, calls, validated>>

\* The loader returns null or throws.
LoadFails(t) ==
    /\ pc[t] = "loading"
    /\ loads' = loads + 1
    /\ pc' = [pc EXCEPT ![t] = "returning"]
    /\ UNCHANGED <<slot, active, reload_mutex, owners, snapshot, async, candidate,
                   calls, refs, validated>>

ValidatorAccepts(t) ==
    /\ pc[t] = "validating"
    /\ validated' = validated \cup {candidate[t]}
    /\ pc' = [pc EXCEPT ![t] = "publishing"]
    /\ UNCHANGED <<slot, active, reload_mutex, owners, snapshot, async, candidate,
                   calls, loads, refs>>

\* Mutant: a validator that throws does not stop the publication.
ValidatorIgnored(t) ==
    /\ pc[t] = "validating"
    /\ pc' = [pc EXCEPT ![t] = "publishing"]
    /\ UNCHANGED <<slot, active, reload_mutex, owners, snapshot, async, candidate,
                   calls, loads, refs, validated>>

\* The validator returns false or throws.
ValidatorRejects(t) ==
    /\ pc[t] = "validating"
    /\ pc' = [pc EXCEPT ![t] = "returning"]
    /\ UNCHANGED <<slot, active, reload_mutex, owners, snapshot, async, candidate,
                   calls, loads, refs, validated>>

\* Mutant: the store copies the candidate and forgets the model it replaces.
PublishLeaking(t) ==
    /\ pc[t] = "publishing"
    /\ active' = candidate[t]
    /\ candidate' = [candidate EXCEPT ![t] = NoModel]
    /\ pc' = [pc EXCEPT ![t] = "returning"]
    /\ UNCHANGED <<slot, reload_mutex, owners, snapshot, async, calls, loads, refs,
                   validated>>

\* The store swaps the pointers: the reload now holds the model it replaced.
Publish(t) ==
    /\ pc[t] = "publishing"
    /\ active' = candidate[t]
    /\ candidate' = [candidate EXCEPT ![t] = active]
    /\ pc' = [pc EXCEPT ![t] = "returning"]
    /\ UNCHANGED <<slot, reload_mutex, owners, snapshot, async, calls, loads, refs,
                   validated>>

\* Mutant: the path of a failed reload leaves the mutex locked.
ReturnLocked(t) ==
    /\ pc[t] = "returning"
    /\ refs' = IF candidate[t] = NoModel THEN refs
               ELSE [refs EXCEPT ![candidate[t]] = @ - 1]
    /\ candidate' = [candidate EXCEPT ![t] = NoModel]
    /\ reload_mutex' = IF candidate[t] = NoModel THEN reload_mutex ELSE Free
    /\ pc' = [pc EXCEPT ![t] = IF async[t] THEN "ready" ELSE "idle"]
    /\ UNCHANGED <<slot, active, owners, snapshot, async, calls, loads, validated>>

\* The reload drops what it holds and unlocks; an async one leaves its future.
Return(t) ==
    /\ pc[t] = "returning"
    /\ refs' = IF candidate[t] = NoModel THEN refs
               ELSE [refs EXCEPT ![candidate[t]] = @ - 1]
    /\ candidate' = [candidate EXCEPT ![t] = NoModel]
    /\ reload_mutex' = Free
    /\ pc' = [pc EXCEPT ![t] = IF async[t] THEN "ready" ELSE "idle"]
    /\ UNCHANGED <<slot, active, owners, snapshot, async, calls, loads, validated>>

-----------------------------------------------------------------------------
(* Ends of lifetimes.                                                      *)

\* One reference to the State goes; with the last, the active model's.
LeaveState ==
    /\ owners' = owners - 1
    /\ IF owners = 1
         THEN active' = NoModel /\ refs' = [refs EXCEPT ![active] = @ - 1]
         ELSE UNCHANGED <<active, refs>>

\* The caller lets go of the future of a finished reload_async, and with it of
\* the task and its reference.
DropFuture(t) ==
    /\ pc[t] = "ready"
    /\ pc' = [pc EXCEPT ![t] = "idle"]
    /\ LeaveState
    /\ UNCHANGED <<slot, reload_mutex, snapshot, async, candidate, calls, loads,
                   validated>>

InReload(t) == pc[t] \notin {"idle", "ready"}

DestroySlot ==
    /\ slot
    /\ \A t \in Reloaders : InReload(t) => async[t]
    /\ slot' = FALSE
    /\ LeaveState
    /\ UNCHANGED <<reload_mutex, snapshot, reloads, validated>>

\* Nothing is left of the slot.
Finished ==
    /\ ~slot
    /\ \A t \in Reloaders : pc[t] = "idle"
    /\ \A r \in Readers : snapshot[r] = NoModel
    /\ UNCHANGED vars

ReloadStep(t) ==
    \/ Lock(t) \/ LoadSucceeds(t) \/ LoadFails(t)
    \/ ValidatorAccepts(t) \/ ValidatorRejects(t) \/ Publish(t) \/ Return(t)

Next ==
    \/ \E r \in Readers : Acquire(r) \/ Release(r)
    \/ \E t \in Reloaders : Reload(t) \/ ReloadAsync(t) \/ ReloadStep(t) \/ DropFuture(t)
    \/ DestroySlot
    \/ Finished

Spec == Init /\ [][Next]_vars

\* Loaders and validators return, requests end, and a thread that runs goes on.
\* A mutex waited for by finitely many reloads needs no fairness of its own.
FairSpec ==
    /\ Spec
    /\ \A t \in Reloaders : WF_vars(ReloadStep(t))
    /\ \A r \in Readers : WF_vars(Release(r))

-----------------------------------------------------------------------------
(* Properties.                                                             *)

\* Every variable has its type.
TypeOK ==
    /\ slot \in BOOLEAN
    /\ active \in Models \cup {NoModel}
    /\ reload_mutex \in Reloaders \cup {Free}
    /\ owners \in Nat
    /\ snapshot \in [Readers -> Models \cup {NoModel}]
    /\ pc \in [Reloaders -> {"idle", "called", "loading", "validating", "publishing",
                             "returning", "ready"}]
    /\ async \in [Reloaders -> BOOLEAN]
    /\ candidate \in [Reloaders -> Models \cup {NoModel}]
    /\ calls \in 0..MaxLoads /\ loads \in 0..MaxLoads
    /\ refs \in [Models -> Nat]
    /\ validated \subseteq Models

\* The model that a request works with, the one published, and the one a reload
\* holds are alive, and a model nobody holds is destroyed: through every swap,
\* failed reload and end of the slot each reference is counted once.
ModelsLiveWhileHeld ==
    \A m \in Models :
        refs[m] = Cardinality({r \in Readers : snapshot[r] = m})
                  + Cardinality({t \in Reloaders : candidate[t] = m})
                  + (IF active = m THEN 1 ELSE 0)

\* A reload in progress never outlives the State it locks and publishes to,
\* even if the slot is destroyed meanwhile.
StateOutlivesReload == \A t \in Reloaders : InReload(t) => owners > 0 /\ active # NoModel

\* No model and no State is destroyed while a request or a reload works with it,
\* and none is kept that nobody holds.
NothingFreedInUse == ModelsLiveWhileHeld /\ StateOutlivesReload

\* However many reloads are asked for, at most one model is in memory besides
\* the active one and those that requests still use.
OneSpareModel ==
    Cardinality({m \in Models : /\ refs[m] > 0 /\ m # active
                                /\ \A r \in Readers : snapshot[r] # m}) <= 1

Register == INSTANCE PublishedModel WITH
    current <- active, seen <- snapshot, valid <- validated

\* To the requests the slot is a register of validated models that only moves
\* to a model loaded later: a slow reload never overwrites a newer model, and a
\* failed one changes nothing.
ImplementsRegister == Register!RegisterSpec

\* Once replaced, a model is eventually destroyed.
ReplacedIsFreed ==
    \A m \in Models : (refs[m] > 0 /\ m # active) ~> (refs[m] = 0 \/ m = active)

\* Every reload returns, whatever became of the ones before it.
ReloadReturns == \A t \in Reloaders : InReload(t) ~> ~InReload(t)

\* Reloads come to an end: each call, and the model it replaced.
ReloadsSettle == ReplacedIsFreed /\ ReloadReturns
==============================================================================
