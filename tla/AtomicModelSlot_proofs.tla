------------------------ MODULE AtomicModelSlot_proofs ------------------------
(***************************************************************************)
(* Proofs about AtomicModelSlot for any finite sets of requests and        *)
(* reloads and any number of loads.  SlotInv is the inductive invariant:   *)
(* types, the mutex, what a reload holds, and the three counts (loads,     *)
(* owners of the State, references of the models).                         *)
(***************************************************************************)
EXTENDS AtomicModelSlot, CountsAndSums

\* The reloads that have the loader still to call, and the ones that own a
\* reference to the State.
ToLoad == {t \in Reloaders : pc[t] \in {"called", "loading"}}
Tasks == {t \in Reloaders : async[t] /\ pc[t] # "idle"}

\* The mutex is held exactly by the reload between its lock and its return.
MutexInv ==
    \A t \in Reloaders :
        pc[t] \in {"loading", "validating", "publishing", "returning"}
            <=> reload_mutex = t

\* A candidate is the newest model, newer than the active one, and validated
\* before it is published.
CandidateInv ==
    \A t \in Reloaders :
        /\ candidate[t] # NoModel => pc[t] \in {"validating", "publishing", "returning"}
        /\ pc[t] \in {"validating", "publishing"} =>
              candidate[t] = loads /\ active < loads
        /\ pc[t] = "publishing" => candidate[t] \in validated

\* No pointer refers to a model not loaded yet.
LoadedInv ==
    /\ active <= loads
    /\ \A r \in Readers : snapshot[r] <= loads
    /\ \A t \in Reloaders : candidate[t] <= loads

\* Each reload calls its loader once.
LoadsInv == loads + Cardinality(ToLoad) = calls

\* The State is owned by the slot and by each task of reload_async; a reload on
\* the caller's thread relies on the slot.
OwnersInv ==
    /\ owners = Cardinality(Tasks) + (IF slot THEN 1 ELSE 0)
    /\ active = NoModel <=> owners = 0
    /\ \A t \in Reloaders : pc[t] # "idle" /\ ~async[t] => slot /\ pc[t] # "ready"

\* ModelsLiveWhileHeld in terms of Count.
RefsInv ==
    \A m \in Models :
        refs[m] = Count(snapshot, Readers, m) + Count(candidate, Reloaders, m)
                  + (IF active = m THEN 1 ELSE 0)

SlotInv ==
    /\ TypeOK
    /\ MutexInv
    /\ CandidateInv
    /\ LoadedInv
    /\ LoadsInv
    /\ OwnersInv
    /\ RefsInv

-----------------------------------------------------------------------------
(* Initially.                                                              *)

\* There are finitely many reloads of each kind.
LEMMA CountsFinite ==
    /\ IsFiniteSet(ToLoad) /\ Cardinality(ToLoad) \in Nat
    /\ IsFiniteSet(Tasks) /\ Cardinality(Tasks) \in Nat
BY SlotAssumption, FS_Subset, FS_CardinalityType, ToLoad \in SUBSET Reloaders,
   Tasks \in SUBSET Reloaders DEF ToLoad, Tasks

\* Initially the invariant holds.
LEMMA SlotInvInit == Init => SlotInv
<1> SUFFICES ASSUME Init PROVE SlotInv OBVIOUS
<1> USE DEF Init, Models, NoModel
<1>1. TypeOK
  <2>1. slot \in BOOLEAN /\ async \in [Reloaders -> BOOLEAN]
    OBVIOUS
  <2>2. refs \in [Models -> Nat]
    OBVIOUS
  <2> QED BY <2>1, <2>2, SlotAssumption DEF TypeOK
<1>2. MutexInv
    BY FreeAssumption DEF MutexInv
<1>3. CandidateInv /\ LoadedInv
    BY DEF CandidateInv, LoadedInv
<1>4. LoadsInv
  <2>1. ToLoad = {}
    BY DEF ToLoad
  <2> QED BY <2>1, FS_EmptySet DEF LoadsInv
<1>5. OwnersInv
  <2>1. Tasks = {}
    BY DEF Tasks
  <2>2. owners = Cardinality(Tasks) + (IF slot THEN 1 ELSE 0)
    BY <2>1, FS_EmptySet
  <2> QED BY <2>2 DEF OwnersInv
<1>6. RefsInv
  <2> SUFFICES ASSUME NEW m \in Models
               PROVE  refs[m] = Count(snapshot, Readers, m) + Count(candidate, Reloaders, m)
                                + (IF active = m THEN 1 ELSE 0)
    BY DEF RefsInv
  <2>1. Count(snapshot, Readers, m) = 0 /\ Count(candidate, Reloaders, m) = 0
    BY CountNone
  <2> QED BY <2>1
<1> QED BY <1>1, <1>2, <1>3, <1>4, <1>5, <1>6 DEF SlotInv

-----------------------------------------------------------------------------
(* Steps.                                                                  *)

\* The mutex passes from a reload that returns to one that waits.
LEMMA MutexStep == SlotInv /\ [Next]_vars => MutexInv'
<1> SUFFICES ASSUME SlotInv, [Next]_vars PROVE MutexInv' OBVIOUS
<1> USE FreeAssumption DEF SlotInv, MutexInv
<1>0. pc \in [Reloaders -> {"idle", "called", "loading", "validating", "publishing",
                            "returning", "ready"}]
    BY DEF TypeOK
<1>1. ASSUME NEW r \in Readers, Acquire(r) \/ Release(r) PROVE MutexInv'
    BY <1>1 DEF Acquire, Release, reloads
<1>2. ASSUME NEW t \in Reloaders, Reload(t) \/ ReloadAsync(t) PROVE MutexInv'
    BY <1>0, <1>2 DEF Reload, ReloadAsync, Start
<1>3. ASSUME NEW t \in Reloaders, Lock(t) PROVE MutexInv'
    BY <1>0, <1>3 DEF Lock
<1>4. ASSUME NEW t \in Reloaders,
             \/ LoadSucceeds(t) \/ LoadFails(t) \/ ValidatorAccepts(t)
             \/ ValidatorRejects(t) \/ Publish(t)
      PROVE  MutexInv'
    BY <1>0, <1>4 DEF LoadSucceeds, LoadFails, ValidatorAccepts, ValidatorRejects, Publish
<1>5. ASSUME NEW t \in Reloaders, Return(t) PROVE MutexInv'
    BY <1>0, <1>5 DEF Return
<1>6. ASSUME NEW t \in Reloaders, DropFuture(t) PROVE MutexInv'
    BY <1>0, <1>6 DEF DropFuture
<1>7. CASE DestroySlot
    BY <1>7 DEF DestroySlot, reloads
<1>8. CASE UNCHANGED vars
    BY <1>8 DEF vars
<1> QED BY <1>1, <1>2, <1>3, <1>4, <1>5, <1>6, <1>7, <1>8
        DEF Next, ReloadStep, Finished

\* loads counts the reloads that are past their loader.
LEMMA LoadsStep ==
    SlotInv /\ [Next]_vars =>
        LoadsInv' /\ calls' \in 0..MaxLoads /\ loads' \in 0..MaxLoads
<1> DEFINE G == LoadsInv' /\ calls' \in 0..MaxLoads /\ loads' \in 0..MaxLoads
<1> SUFFICES ASSUME SlotInv, [Next]_vars PROVE G OBVIOUS
<1>0. /\ pc \in [Reloaders -> {"idle", "called", "loading", "validating", "publishing",
                            "returning", "ready"}]
      /\ calls \in 0..MaxLoads /\ loads \in 0..MaxLoads /\ MaxLoads \in Nat
      /\ loads + Cardinality(ToLoad) = calls
    BY SlotAssumption DEF SlotInv, TypeOK, LoadsInv
<1>1. ASSUME UNCHANGED <<calls, loads>>, ToLoad' = ToLoad PROVE G
    BY <1>0, <1>1 DEF LoadsInv
<1>2. ASSUME NEW r \in Readers, Acquire(r) \/ Release(r) PROVE G
  <2>1. UNCHANGED <<pc, calls, loads>>
    BY <1>2 DEF Acquire, Release, reloads
  <2> QED BY <1>1, <2>1 DEF ToLoad
<1>3. ASSUME NEW t \in Reloaders, Reload(t) \/ ReloadAsync(t) PROVE G
  <2>1. /\ pc[t] = "idle" /\ pc' = [pc EXCEPT ![t] = "called"]
        /\ calls < MaxLoads /\ calls' = calls + 1 /\ loads' = loads
    BY <1>3 DEF Reload, ReloadAsync, Start
  <2>2. t \notin ToLoad /\ ToLoad' = ToLoad \cup {t}
    BY <1>0, <2>1 DEF ToLoad
  <2>3. Cardinality(ToLoad') = Cardinality(ToLoad) + 1
    BY <2>2, CountsFinite, FS_AddElement
  <2> QED BY <1>0, <2>1, <2>3, CountsFinite DEF LoadsInv
<1>4. ASSUME NEW t \in Reloaders, Lock(t) PROVE G
  <2>1. UNCHANGED <<calls, loads>> /\ ToLoad' = ToLoad
    BY <1>0, <1>4 DEF Lock, ToLoad
  <2> QED BY <1>1, <2>1
<1>5. ASSUME NEW t \in Reloaders, LoadSucceeds(t) \/ LoadFails(t) PROVE G
  <2>1. /\ pc[t] = "loading" /\ calls' = calls /\ loads' = loads + 1
        /\ \/ pc' = [pc EXCEPT ![t] = "validating"]
           \/ pc' = [pc EXCEPT ![t] = "returning"]
    BY <1>5 DEF LoadSucceeds, LoadFails
  <2>2. t \in ToLoad /\ ToLoad' = ToLoad \ {t}
    BY <1>0, <2>1 DEF ToLoad
  <2>3. Cardinality(ToLoad') = Cardinality(ToLoad) - 1 /\ Cardinality(ToLoad') \in Nat
    BY <2>2, CountsFinite, FS_RemoveElement, FS_CardinalityType
  <2> QED BY <1>0, <2>1, <2>3, CountsFinite DEF LoadsInv
<1>6. ASSUME NEW t \in Reloaders,
             \/ ValidatorAccepts(t) \/ ValidatorRejects(t) \/ Publish(t) \/ Return(t)
             \/ DropFuture(t)
      PROVE  G
  <2>1. UNCHANGED <<calls, loads>> /\ ToLoad' = ToLoad
    BY <1>0, <1>6 DEF ValidatorAccepts, ValidatorRejects, Publish, Return,
                      DropFuture, ToLoad
  <2> QED BY <1>1, <2>1
<1>7. CASE DestroySlot \/ UNCHANGED vars
  <2>1. UNCHANGED <<pc, calls, loads>>
    BY <1>7 DEF DestroySlot, reloads, vars
  <2> QED BY <1>1, <2>1 DEF ToLoad
<1> QED BY <1>2, <1>3, <1>4, <1>5, <1>6, <1>7 DEF Next, ReloadStep, Finished

\* A candidate stays the newest model until it is published: no other reload
\* can load one meanwhile.
LEMMA CandidateStep == SlotInv /\ [Next]_vars => CandidateInv' /\ LoadedInv'
<1> DEFINE G == CandidateInv' /\ LoadedInv'
<1> SUFFICES ASSUME SlotInv, [Next]_vars PROVE G OBVIOUS
<1> USE DEF NoModel
<1>0. /\ pc \in [Reloaders -> {"idle", "called", "loading", "validating", "publishing",
                               "returning", "ready"}]
      /\ active \in Int /\ loads \in Nat
      /\ snapshot \in [Readers -> Int] /\ candidate \in [Reloaders -> Int]
      /\ MutexInv /\ CandidateInv /\ LoadedInv
    BY SlotAssumption DEF SlotInv, TypeOK, Models
<1> HIDE DEF NoModel
<1>1. ASSUME NEW r \in Readers, Acquire(r) \/ Release(r) PROVE G
  <2>1. CASE Acquire(r)
    BY <1>0, <2>1 DEF Acquire, reloads, CandidateInv, LoadedInv
  <2>2. CASE Release(r)
    BY <1>0, <2>2 DEF Release, reloads, CandidateInv, LoadedInv, NoModel
  <2> QED BY <1>1, <2>1, <2>2
<1>2. ASSUME NEW t \in Reloaders, Reload(t) \/ ReloadAsync(t) PROVE G
    BY <1>0, <1>2 DEF Reload, ReloadAsync, Start, CandidateInv, LoadedInv
<1>3. ASSUME NEW t \in Reloaders, Lock(t) PROVE G
    BY <1>0, <1>3 DEF Lock, CandidateInv, LoadedInv
<1>4. ASSUME NEW t \in Reloaders, LoadSucceeds(t) \/ LoadFails(t) PROVE G
  <2>1. \A u \in Reloaders \ {t} : pc[u] \notin {"loading", "validating", "publishing"}
    BY <1>0, <1>4 DEF LoadSucceeds, LoadFails, MutexInv
  <2>2. CASE LoadSucceeds(t)
    BY <1>0, <2>1, <2>2 DEF LoadSucceeds, CandidateInv, LoadedInv
  <2>3. CASE LoadFails(t)
    BY <1>0, <2>1, <2>3 DEF LoadFails, CandidateInv, LoadedInv
  <2> QED BY <1>4, <2>2, <2>3
<1>5. ASSUME NEW t \in Reloaders, ValidatorAccepts(t) \/ ValidatorRejects(t) PROVE G
  <2>1. CASE ValidatorAccepts(t)
    BY <1>0, <2>1 DEF ValidatorAccepts, CandidateInv, LoadedInv
  <2>2. CASE ValidatorRejects(t)
    BY <1>0, <2>2 DEF ValidatorRejects, CandidateInv, LoadedInv
  <2> QED BY <1>5, <2>1, <2>2
<1>6. ASSUME NEW t \in Reloaders, Publish(t) PROVE G
  <2>1. \A u \in Reloaders \ {t} : pc[u] \notin {"loading", "validating", "publishing"}
    BY <1>0, <1>6 DEF Publish, MutexInv
  <2> QED BY <1>0, <1>6, <2>1 DEF Publish, CandidateInv, LoadedInv
<1>7. ASSUME NEW t \in Reloaders, Return(t) PROVE G
    BY <1>0, <1>7 DEF Return, CandidateInv, LoadedInv, NoModel
<1>8. ASSUME LeaveState, UNCHANGED <<snapshot, candidate, loads, validated>>,
             \A u \in Reloaders : pc'[u] = pc[u] \/ (pc[u] = "ready" /\ pc'[u] = "idle")
      PROVE  G
  <2>1. active' = active \/ active' = -1
    BY <1>8 DEF LeaveState, NoModel
  <2>2. active' <= loads /\ (active < loads => active' < loads)
    BY <1>0, <2>1 DEF LoadedInv
  <2>3. LoadedInv'
    BY <1>0, <1>8, <2>2 DEF LoadedInv
  <2>4. CandidateInv'
    BY <1>0, <1>8, <2>2 DEF CandidateInv
  <2> QED BY <2>3, <2>4
<1>9. ASSUME NEW t \in Reloaders, DropFuture(t) PROVE G
  <2>1. /\ LeaveState /\ UNCHANGED <<snapshot, candidate, loads, validated>>
        /\ pc[t] = "ready" /\ pc' = [pc EXCEPT ![t] = "idle"]
    BY <1>9 DEF DropFuture
  <2>2. \A u \in Reloaders : pc'[u] = pc[u] \/ (pc[u] = "ready" /\ pc'[u] = "idle")
    BY <1>0, <2>1
  <2> QED BY <1>8, <2>1, <2>2
<1>10. CASE DestroySlot
    BY <1>8, <1>10 DEF DestroySlot, reloads
<1>11. CASE UNCHANGED vars
    BY <1>0, <1>11 DEF vars, CandidateInv, LoadedInv
<1> QED BY <1>1, <1>2, <1>3, <1>4, <1>5, <1>6, <1>7, <1>9, <1>10, <1>11
        DEF Next, ReloadStep, Finished

\* While the State has an owner it has an active model, and a reload that is in
\* progress is one of its owners or relies on the slot.
LEMMA InReloadOwned ==
    ASSUME SlotInv, NEW t \in Reloaders, pc[t] # "idle"
    PROVE  owners > 0 /\ active # NoModel
<1>1. CASE async[t]
  <2>1. Cardinality(Tasks) # 0
    BY <1>1, CountsFinite, FS_EmptySet, t \in Tasks DEF Tasks
  <2>2. owners = Cardinality(Tasks) \/ owners = Cardinality(Tasks) + 1
    BY CountsFinite DEF SlotInv, OwnersInv
  <2> QED BY <2>1, <2>2, CountsFinite DEF SlotInv, OwnersInv
<1>2. CASE ~async[t]
  <2>1. slot
    BY <1>2 DEF SlotInv, OwnersInv
  <2>2. owners = Cardinality(Tasks) + 1
    BY <2>1, CountsFinite DEF SlotInv, OwnersInv
  <2> QED BY <2>2, CountsFinite DEF SlotInv, OwnersInv
<1> QED BY <1>1, <1>2

\* owners counts the slot and the tasks, and the State keeps its active model
\* as long as it has an owner.
LEMMA OwnersStep == SlotInv /\ [Next]_vars => OwnersInv'
<1> SUFFICES ASSUME SlotInv, [Next]_vars PROVE OwnersInv' OBVIOUS
<1> DEFINE Borrows == \A t \in Reloaders :
                          pc[t] # "idle" /\ ~async[t] => slot /\ pc[t] # "ready"
           SlotCount == IF slot THEN 1 ELSE 0
<1>0. /\ pc \in [Reloaders -> {"idle", "called", "loading", "validating", "publishing",
                               "returning", "ready"}]
      /\ async \in [Reloaders -> BOOLEAN]
      /\ owners \in Nat /\ owners = Cardinality(Tasks) + SlotCount
      /\ active = NoModel <=> owners = 0
      /\ Borrows
    BY DEF SlotInv, TypeOK, OwnersInv
<1>1. ASSUME UNCHANGED <<slot, owners>>, Tasks' = Tasks, Borrows',
             active' = NoModel <=> active = NoModel
      PROVE  OwnersInv'
    BY <1>0, <1>1 DEF OwnersInv
<1>2. ASSUME NEW r \in Readers, Acquire(r) \/ Release(r) PROVE OwnersInv'
  <2>1. UNCHANGED <<slot, owners, active, pc, async>>
    BY <1>2 DEF Acquire, Release, reloads
  <2> QED BY <1>0, <1>1, <2>1 DEF Tasks
<1>3. ASSUME NEW t \in Reloaders, Reload(t) PROVE OwnersInv'
  <2>1. /\ slot /\ pc[t] = "idle" /\ pc' = [pc EXCEPT ![t] = "called"]
        /\ async' = [async EXCEPT ![t] = FALSE] /\ UNCHANGED <<slot, owners, active>>
    BY <1>3 DEF Reload, Start
  <2>2. Tasks' = Tasks
    BY <1>0, <2>1 DEF Tasks
  <2>3. Borrows'
    BY <1>0, <2>1
  <2> QED BY <1>1, <2>1, <2>2, <2>3
<1>4. ASSUME NEW t \in Reloaders, ReloadAsync(t) PROVE OwnersInv'
  <2>1. /\ slot /\ pc[t] = "idle" /\ pc' = [pc EXCEPT ![t] = "called"]
        /\ async' = [async EXCEPT ![t] = TRUE] /\ UNCHANGED <<slot, active>>
        /\ owners' = owners + 1
    BY <1>4 DEF ReloadAsync, Start
  <2>2. t \notin Tasks /\ Tasks' = Tasks \cup {t}
    BY <1>0, <2>1 DEF Tasks
  <2>3. Cardinality(Tasks') = Cardinality(Tasks) + 1
    BY <2>2, CountsFinite, FS_AddElement
  <2>4. SlotCount = 1 /\ SlotCount' = 1
    BY <2>1
  <2>5. owners' = Cardinality(Tasks') + SlotCount' /\ owners # 0 /\ owners' # 0
    BY <1>0, <2>1, <2>3, <2>4, CountsFinite
  <2>6. Borrows'
    BY <1>0, <2>1
  <2>7. active' = NoModel <=> owners' = 0
    BY <1>0, <2>1, <2>5
  <2> QED BY <2>5, <2>6, <2>7 DEF OwnersInv
<1>5. ASSUME NEW t \in Reloaders,
             \/ Lock(t) \/ LoadSucceeds(t) \/ LoadFails(t) \/ ValidatorAccepts(t)
             \/ ValidatorRejects(t)
      PROVE  OwnersInv'
  <2>1. /\ UNCHANGED <<slot, owners, active, async>> /\ pc[t] \notin {"idle", "ready"}
        /\ \E q \in {"loading", "validating", "publishing", "returning"} :
              pc' = [pc EXCEPT ![t] = q]
    BY <1>5 DEF Lock, LoadSucceeds, LoadFails, ValidatorAccepts, ValidatorRejects
  <2>2. Tasks' = Tasks /\ Borrows'
    BY <1>0, <2>1 DEF Tasks
  <2> QED BY <1>1, <2>1, <2>2
<1>6. ASSUME NEW t \in Reloaders, Publish(t) PROVE OwnersInv'
  <2>1. /\ UNCHANGED <<slot, owners, async>> /\ pc[t] = "publishing"
        /\ active' = candidate[t] /\ pc' = [pc EXCEPT ![t] = "returning"]
    BY <1>6 DEF Publish
  <2>2. Tasks' = Tasks /\ Borrows'
    BY <1>0, <2>1 DEF Tasks
  <2>3. candidate[t] # NoModel
    BY <2>1, SlotAssumption DEF SlotInv, CandidateInv, TypeOK, NoModel
  <2>4. active # NoModel
    BY <2>1, InReloadOwned
  <2> QED BY <1>1, <2>1, <2>2, <2>3, <2>4
<1>7. ASSUME NEW t \in Reloaders, Return(t) PROVE OwnersInv'
  <2>1. /\ UNCHANGED <<slot, owners, active, async>> /\ pc[t] = "returning"
        /\ pc' = [pc EXCEPT ![t] = IF async[t] THEN "ready" ELSE "idle"]
    BY <1>7 DEF Return
  <2>2. Tasks' = Tasks /\ Borrows'
    BY <1>0, <2>1 DEF Tasks
  <2> QED BY <1>1, <2>1, <2>2
<1>8. ASSUME LeaveState, active # NoModel PROVE active' = NoModel <=> owners' = 0
    BY <1>0, <1>8 DEF LeaveState
<1>9. ASSUME NEW t \in Reloaders, DropFuture(t) PROVE OwnersInv'
  <2>1. /\ slot' = slot /\ async' = async /\ pc[t] = "ready"
        /\ pc' = [pc EXCEPT ![t] = "idle"] /\ LeaveState
    BY <1>9 DEF DropFuture
  <2>2. t \in Tasks /\ Tasks' = Tasks \ {t}
    BY <1>0, <2>1 DEF Tasks
  <2>3. Cardinality(Tasks') = Cardinality(Tasks) - 1
    BY <2>2, CountsFinite, FS_RemoveElement
  <2>4. SlotCount' = SlotCount /\ SlotCount \in Nat
    BY <2>1
  <2>5. owners' = owners - 1
    BY <2>1 DEF LeaveState
  <2>6. owners' = Cardinality(Tasks') + SlotCount'
    BY <1>0, <2>3, <2>4, <2>5, CountsFinite
  <2>7. Borrows'
    BY <1>0, <2>1
  <2>8. active' = NoModel <=> owners' = 0
    BY <1>8, <2>1, InReloadOwned
  <2> QED BY <2>6, <2>7, <2>8 DEF OwnersInv
<1>10. ASSUME DestroySlot PROVE OwnersInv'
  <2>1. /\ slot /\ slot' = FALSE /\ UNCHANGED <<pc, async>> /\ LeaveState
        /\ \A t \in Reloaders : pc[t] \notin {"idle", "ready"} => async[t]
    BY <1>10 DEF DestroySlot, reloads, InReload
  <2>2. Tasks' = Tasks /\ SlotCount = 1 /\ SlotCount' = 0
    BY <2>1 DEF Tasks
  <2>3. owners' = owners - 1
    BY <2>1 DEF LeaveState
  <2>4. owners' = Cardinality(Tasks') + SlotCount' /\ owners # 0
    BY <1>0, <2>2, <2>3, CountsFinite
  <2>5. Borrows'
    BY <1>0, <2>1
  <2>6. active' = NoModel <=> owners' = 0
    BY <1>0, <1>8, <2>1, <2>4
  <2> QED BY <2>4, <2>5, <2>6 DEF OwnersInv
<1>11. CASE UNCHANGED vars
  <2>1. UNCHANGED <<slot, owners, active, pc, async>>
    BY <1>11 DEF vars
  <2> QED BY <1>0, <1>1, <2>1 DEF Tasks
<1> QED BY <1>2, <1>3, <1>4, <1>5, <1>6, <1>7, <1>9, <1>10, <1>11
        DEF Next, ReloadStep, Finished

\* While the slot exists it has an active model.
LEMMA SlotHasModel == ASSUME SlotInv, slot PROVE active \in Models
<1>1. owners = Cardinality(Tasks) + 1
    BY DEF SlotInv, OwnersInv
<1>2. owners # 0
    BY <1>1, CountsFinite
<1> QED BY <1>2 DEF SlotInv, OwnersInv, TypeOK

\* Each action moves references without losing or inventing one.
LEMMA RefsStep == SlotInv /\ [Next]_vars => RefsInv' /\ refs' \in [Models -> Nat]
<1> DEFINE G == RefsInv' /\ refs' \in [Models -> Nat]
           Held(m) == IF active = m THEN 1 ELSE 0
           Snap(m) == Count(snapshot, Readers, m)
           Cand(m) == Count(candidate, Reloaders, m)
<1> SUFFICES ASSUME SlotInv, [Next]_vars PROVE G OBVIOUS
<1>0. /\ refs \in [Models -> Nat] /\ active \in Models \cup {NoModel}
      /\ snapshot \in [Readers -> Models \cup {NoModel}]
      /\ candidate \in [Reloaders -> Models \cup {NoModel}]
      /\ IsFiniteSet(Readers) /\ IsFiniteSet(Reloaders)
      /\ \A m \in Models : refs[m] = Snap(m) + Cand(m) + Held(m)
    BY SlotAssumption DEF SlotInv, TypeOK, RefsInv
<1>a. NoModel \notin Models
    BY DEF NoModel, Models
<1>b. \A m \in Models :
          /\ Snap(m) \in Nat /\ Snap(m)' \in Nat
          /\ Cand(m) \in Nat /\ Cand(m)' \in Nat
    BY <1>0, CountType
<1> DEFINE SnapMoved(r, v) == \A m \in Models :
               Snap(m)' = IF snapshot[r] = m /\ v # m THEN Snap(m) - 1
                          ELSE IF snapshot[r] # m /\ v = m THEN Snap(m) + 1 ELSE Snap(m)
           CandMoved(t, v) == \A m \in Models :
               Cand(m)' = IF candidate[t] = m /\ v # m THEN Cand(m) - 1
                          ELSE IF candidate[t] # m /\ v = m THEN Cand(m) + 1 ELSE Cand(m)
<1>c. ASSUME NEW r \in Readers, NEW v, snapshot' = [snapshot EXCEPT ![r] = v]
      PROVE  SnapMoved(r, v)
  <2>1. /\ IsFiniteSet(Readers) /\ snapshot'[r] = v
        /\ \A x \in Readers \ {r} : snapshot'[x] = snapshot[x]
    BY <1>0, <1>c
  <2> SUFFICES ASSUME NEW m \in Models
               PROVE  Snap(m)' = IF snapshot[r] = m /\ v # m THEN Snap(m) - 1
                                 ELSE IF snapshot[r] # m /\ v = m THEN Snap(m) + 1
                                 ELSE Snap(m)
    OBVIOUS
  <2>2. CASE snapshot[r] = m /\ v # m
    BY <2>1, <2>2, CountLoses
  <2>3. CASE snapshot[r] # m /\ v = m
    BY <2>1, <2>3, CountGains
  <2>4. CASE snapshot[r] = m <=> v = m
    BY <2>1, <2>4, CountKeeps
  <2> QED BY <2>2, <2>3, <2>4
<1>d. ASSUME NEW t \in Reloaders, NEW v, candidate' = [candidate EXCEPT ![t] = v]
      PROVE  CandMoved(t, v)
  <2>1. /\ IsFiniteSet(Reloaders) /\ candidate'[t] = v
        /\ \A x \in Reloaders \ {t} : candidate'[x] = candidate[x]
    BY <1>0, <1>d
  <2> SUFFICES ASSUME NEW m \in Models
               PROVE  Cand(m)' = IF candidate[t] = m /\ v # m THEN Cand(m) - 1
                                 ELSE IF candidate[t] # m /\ v = m THEN Cand(m) + 1
                                 ELSE Cand(m)
    OBVIOUS
  <2>2. CASE candidate[t] = m /\ v # m
    BY <2>1, <2>2, CountLoses
  <2>3. CASE candidate[t] # m /\ v = m
    BY <2>1, <2>3, CountGains
  <2>4. CASE candidate[t] = m <=> v = m
    BY <2>1, <2>4, CountKeeps
  <2> QED BY <2>2, <2>3, <2>4
<1> HIDE DEF Snap, Cand
<1>1. ASSUME UNCHANGED <<snapshot, candidate, active, refs>> PROVE G
    BY <1>0, <1>1 DEF RefsInv, Snap, Cand
<1>2. ASSUME DOMAIN refs' = Models, refs' = [m \in Models |-> refs'[m]],
             \A m \in Models : refs'[m] = Snap(m)' + Cand(m)' + Held(m)'
      PROVE  G
  <2>1. RefsInv'
    BY <1>2 DEF RefsInv, Snap, Cand
  <2>2. \A m \in Models : refs'[m] \in Nat
    BY <1>b, <1>2
  <2>3. refs' \in [Models -> Nat]
    BY <1>2, <2>2
  <2> QED BY <2>1, <2>3
<1>3. ASSUME NEW r \in Readers, Acquire(r) PROVE G
  <2>1. /\ active \in Models /\ snapshot[r] = NoModel
        /\ snapshot' = [snapshot EXCEPT ![r] = active]
        /\ refs' = [refs EXCEPT ![active] = @ + 1]
        /\ UNCHANGED <<active, candidate>>
    BY <1>3, SlotHasModel DEF Acquire, reloads
  <2>2. \A m \in Models : Snap(m)' = IF m = active THEN Snap(m) + 1 ELSE Snap(m)
    <3>1. SnapMoved(r, active)
      BY <1>c, <2>1
    <3> QED BY <1>a, <2>1, <3>1
  <2>3. \A m \in Models : Cand(m)' = Cand(m) /\ Held(m)' = Held(m)
    BY <2>1 DEF Cand
  <2>4. \A m \in Models : refs'[m] = IF m = active THEN refs[m] + 1 ELSE refs[m]
    BY <1>0, <2>1
  <2>5. \A m \in Models : refs'[m] = Snap(m)' + Cand(m)' + Held(m)'
    BY <1>0, <1>b, <2>2, <2>3, <2>4
  <2> QED BY <1>0, <1>2, <2>1, <2>5
<1>4. ASSUME NEW r \in Readers, Release(r) PROVE G
  <2>1. /\ snapshot[r] \in Models
        /\ snapshot' = [snapshot EXCEPT ![r] = NoModel]
        /\ refs' = [refs EXCEPT ![snapshot[r]] = @ - 1]
        /\ UNCHANGED <<active, candidate>>
    BY <1>0, <1>4 DEF Release, reloads
  <2>2. \A m \in Models : Snap(m)' = IF m = snapshot[r] THEN Snap(m) - 1 ELSE Snap(m)
    <3>1. SnapMoved(r, NoModel)
      BY <1>c, <2>1
    <3> QED BY <1>a, <2>1, <3>1
  <2>3. \A m \in Models : Cand(m)' = Cand(m) /\ Held(m)' = Held(m)
    BY <2>1 DEF Cand
  <2>4. \A m \in Models : refs'[m] = IF m = snapshot[r] THEN refs[m] - 1 ELSE refs[m]
    BY <1>0, <2>1
  <2>5. \A m \in Models : refs'[m] = Snap(m)' + Cand(m)' + Held(m)'
    BY <1>0, <1>b, <2>2, <2>3, <2>4
  <2> QED BY <1>0, <1>2, <2>1, <2>5
<1>5. ASSUME NEW t \in Reloaders,
             \/ Reload(t) \/ ReloadAsync(t) \/ Lock(t) \/ LoadFails(t)
             \/ ValidatorAccepts(t) \/ ValidatorRejects(t)
      PROVE  G
  <2>1. UNCHANGED <<snapshot, candidate, active, refs>>
    BY <1>5 DEF Reload, ReloadAsync, Start, Lock, LoadFails, ValidatorAccepts,
                ValidatorRejects
  <2> QED BY <1>1, <2>1
<1>6. ASSUME NEW t \in Reloaders, LoadSucceeds(t) PROVE G
  <2>1. /\ candidate[t] = NoModel /\ loads' = loads + 1
        /\ candidate' = [candidate EXCEPT ![t] = loads']
        /\ refs' = [refs EXCEPT ![loads'] = 1]
        /\ UNCHANGED <<active, snapshot>>
    BY <1>6 DEF LoadSucceeds, SlotInv, CandidateInv
  <2>2. loads' \in Models /\ loads \in Nat
    BY LoadsStep DEF SlotInv, TypeOK, Models
  <2>3. /\ active # loads' /\ \A r \in Readers : snapshot[r] # loads'
        /\ \A u \in Reloaders : candidate[u] # loads'
    BY <1>0, <2>1, <2>2, SlotAssumption, SMTT(30) DEF SlotInv, LoadedInv, Models, NoModel
  <2>4. Snap(loads') = 0 /\ Cand(loads') = 0 /\ Held(loads') = 0
    BY <2>3, CountNone DEF Snap, Cand
  <2>5. \A m \in Models : Cand(m)' = IF m = loads' THEN Cand(m) + 1 ELSE Cand(m)
    <3>1. CandMoved(t, loads')
      <4>1. candidate' = [candidate EXCEPT ![t] = loads']
        BY <2>1
      <4> HIDE DEF CandMoved
      <4> QED BY <1>d, <4>1
    <3> QED BY <1>a, <2>1, <3>1
  <2>6. \A m \in Models : Snap(m)' = Snap(m) /\ Held(m)' = Held(m)
    BY <2>1 DEF Snap
  <2>7. \A m \in Models : refs'[m] = IF m = loads' THEN 1 ELSE refs[m]
    BY <1>0, <2>1
  <2>8. \A m \in Models : refs'[m] = Snap(m)' + Cand(m)' + Held(m)'
    BY <1>0, <1>b, <2>4, <2>5, <2>6, <2>7
  <2> QED BY <1>0, <1>2, <2>1, <2>8
<1>7. ASSUME NEW t \in Reloaders, Publish(t) PROVE G
  <2>1. /\ active' = candidate[t] /\ candidate' = [candidate EXCEPT ![t] = active]
        /\ UNCHANGED <<snapshot, refs>>
    BY <1>7 DEF Publish
  <2>2. CandMoved(t, active)
    BY <1>d, <2>1
  <2>b. \A m \in Models : Cand(m)' + Held(m)' = Cand(m) + Held(m)
    BY <1>b, <2>1, <2>2
  <2>3. \A m \in Models : Snap(m)' = Snap(m)
    BY <2>1 DEF Snap
  <2>4. \A m \in Models : refs'[m] = Snap(m)' + Cand(m)' + Held(m)'
    BY <1>0, <1>b, <2>1, <2>b, <2>3
  <2> QED BY <1>0, <1>2, <2>1, <2>4
<1>8. ASSUME NEW t \in Reloaders, Return(t) PROVE G
  <2>1. /\ refs' = IF candidate[t] = NoModel THEN refs
                   ELSE [refs EXCEPT ![candidate[t]] = @ - 1]
        /\ candidate' = [candidate EXCEPT ![t] = NoModel]
        /\ UNCHANGED <<active, snapshot>>
    BY <1>8 DEF Return
  <2>2. CASE candidate[t] = NoModel
    BY <1>0, <1>1, <2>1, <2>2
  <2>3. CASE candidate[t] \in Models
    <3>1. \A m \in Models : Cand(m)' = IF m = candidate[t] THEN Cand(m) - 1 ELSE Cand(m)
      <4>1. CandMoved(t, NoModel)
        BY <1>d, <2>1
      <4> QED BY <1>a, <2>1, <4>1
    <3>2. \A m \in Models : Snap(m)' = Snap(m) /\ Held(m)' = Held(m)
      BY <2>1 DEF Snap
    <3>3. \A m \in Models : refs'[m] = IF m = candidate[t] THEN refs[m] - 1 ELSE refs[m]
      BY <1>0, <1>a, <2>1, <2>3
    <3>4. \A m \in Models : refs'[m] = Snap(m)' + Cand(m)' + Held(m)'
      BY <1>0, <1>b, <3>1, <3>2, <3>3
    <3> QED BY <1>0, <1>2, <1>a, <2>1, <2>3, <3>4
  <2> QED BY <1>0, <2>2, <2>3
<1>9. ASSUME LeaveState, UNCHANGED <<snapshot, candidate>>, active \in Models PROVE G
  <2>1. CASE UNCHANGED <<active, refs>>
    BY <1>1, <1>9, <2>1
  <2>2. CASE active' = NoModel /\ refs' = [refs EXCEPT ![active] = @ - 1]
    <3>1. \A m \in Models : Snap(m)' = Snap(m) /\ Cand(m)' = Cand(m) /\ Held(m)' = 0
      BY <1>9, <1>a, <2>2 DEF Snap, Cand
    <3>2. \A m \in Models : refs'[m] = IF m = active THEN refs[m] - 1 ELSE refs[m]
      BY <1>0, <2>2
    <3>3. \A m \in Models : refs'[m] = Snap(m)' + Cand(m)' + Held(m)'
      BY <1>0, <1>b, <3>1, <3>2
    <3> QED BY <1>0, <1>2, <2>2, <3>3
  <2> QED BY <1>9, <2>1, <2>2 DEF LeaveState
<1>10. ASSUME NEW t \in Reloaders, DropFuture(t) PROVE G
    BY <1>0, <1>9, <1>10, InReloadOwned DEF DropFuture
<1>11. CASE DestroySlot
    BY <1>9, <1>11, SlotHasModel DEF DestroySlot, reloads
<1>12. CASE UNCHANGED vars
    BY <1>1, <1>12 DEF vars
<1> QED BY <1>3, <1>4, <1>5, <1>6, <1>7, <1>8, <1>10, <1>11, <1>12
        DEF Next, ReloadStep, Finished

\* The other variables keep their types.
LEMMA TypeStep == SlotInv /\ [Next]_vars => TypeOK'
<1> SUFFICES ASSUME SlotInv, [Next]_vars PROVE TypeOK' OBVIOUS
<1> DEFINE PCs == {"idle", "called", "loading", "validating", "publishing",
                   "returning", "ready"}
           Pointer == Models \cup {NoModel}
           Flags == slot \in BOOLEAN /\ async \in [Reloaders -> BOOLEAN]
           Rest == /\ active \in Pointer
                   /\ reload_mutex \in Reloaders \cup {Free}
                   /\ owners \in Nat
                   /\ snapshot \in [Readers -> Pointer]
                   /\ pc \in [Reloaders -> PCs]
                   /\ candidate \in [Reloaders -> Pointer]
                   /\ validated \subseteq Models
<1>0. Flags /\ Rest
    BY DEF SlotInv, TypeOK
<1>1. ASSUME Flags', Rest' PROVE TypeOK'
    BY <1>1, LoadsStep, RefsStep DEF TypeOK
<1>2. ASSUME NEW r \in Readers, Acquire(r) \/ Release(r) PROVE TypeOK'
  <2>1. Flags'
    BY <1>0, <1>2 DEF Acquire, Release, reloads
  <2>2. Rest'
    BY <1>0, <1>2 DEF Acquire, Release, reloads
  <2> QED BY <1>1, <2>1, <2>2
<1>3. ASSUME NEW t \in Reloaders, Reload(t) \/ ReloadAsync(t) PROVE TypeOK'
  <2>1. Flags'
    BY <1>0, <1>3 DEF Reload, ReloadAsync, Start
  <2>2. Rest'
    BY <1>0, <1>3 DEF Reload, ReloadAsync, Start
  <2> QED BY <1>1, <2>1, <2>2
<1>4. ASSUME NEW t \in Reloaders, Lock(t) \/ LoadFails(t) \/ ValidatorRejects(t)
      PROVE  TypeOK'
  <2>1. Flags'
    BY <1>0, <1>4 DEF Lock, LoadFails, ValidatorRejects
  <2>2. Rest'
    BY <1>0, <1>4 DEF Lock, LoadFails, ValidatorRejects
  <2> QED BY <1>1, <2>1, <2>2
<1>5. ASSUME NEW t \in Reloaders, LoadSucceeds(t) PROVE TypeOK'
  <2>1. Flags'
    BY <1>0, <1>5 DEF LoadSucceeds
  <2>2. loads' \in Models
    BY <1>5, LoadsStep DEF LoadSucceeds, Models
  <2>3. Rest'
    BY <1>0, <1>5, <2>2 DEF LoadSucceeds
  <2> QED BY <1>1, <2>1, <2>3
<1>6. ASSUME NEW t \in Reloaders, ValidatorAccepts(t) PROVE TypeOK'
  <2>1. Flags'
    BY <1>0, <1>6 DEF ValidatorAccepts
  <2>2. candidate[t] \in Models
    BY <1>6, SlotAssumption DEF ValidatorAccepts, SlotInv, CandidateInv, TypeOK, Models
  <2>3. Rest'
    BY <1>0, <1>6, <2>2 DEF ValidatorAccepts
  <2> QED BY <1>1, <2>1, <2>3
<1>7. ASSUME NEW t \in Reloaders, Publish(t) PROVE TypeOK'
  <2>1. Flags'
    BY <1>0, <1>7 DEF Publish
  <2>2. Rest'
    BY <1>0, <1>7 DEF Publish
  <2> QED BY <1>1, <2>1, <2>2
<1>8. ASSUME NEW t \in Reloaders, Return(t) PROVE TypeOK'
  <2>1. Flags'
    BY <1>0, <1>8 DEF Return
  <2>2. Rest'
    BY <1>0, <1>8 DEF Return
  <2> QED BY <1>1, <2>1, <2>2
<1>9. ASSUME LeaveState, active # NoModel PROVE active' \in Pointer /\ owners' \in Nat
  <2>1. owners > 0
    BY <1>0, <1>9 DEF SlotInv, OwnersInv
  <2> QED BY <1>0, <1>9, <2>1 DEF LeaveState
<1>10. ASSUME NEW t \in Reloaders, DropFuture(t) PROVE TypeOK'
  <2>1. Flags'
    BY <1>0, <1>10 DEF DropFuture
  <2>2. Rest'
    BY <1>0, <1>9, <1>10, InReloadOwned DEF DropFuture
  <2> QED BY <1>1, <2>1, <2>2
<1>11. CASE DestroySlot
  <2>1. Flags'
    BY <1>0, <1>11 DEF DestroySlot, reloads
  <2>2. active # NoModel
    BY <1>11, SlotHasModel DEF DestroySlot, Models, NoModel
  <2>3. Rest'
    BY <1>0, <1>9, <1>11, <2>2 DEF DestroySlot, reloads
  <2> QED BY <1>1, <2>1, <2>3
<1>12. CASE UNCHANGED vars
  <2>1. Flags'
    BY <1>0, <1>12 DEF vars
  <2>2. Rest'
    BY <1>0, <1>12 DEF vars
  <2> QED BY <1>1, <2>1, <2>2
<1> QED BY <1>2, <1>3, <1>4, <1>5, <1>6, <1>7, <1>8, <1>10, <1>11, <1>12
        DEF Next, ReloadStep, Finished

-----------------------------------------------------------------------------
(* Theorems.                                                               *)

\* The inductive invariant holds in every reachable state, for any number of
\* requests, reloads and loads.
THEOREM SlotInvariant == Spec => []SlotInv
<1>1. SlotInv /\ [Next]_vars => SlotInv'
    BY MutexStep, LoadsStep, CandidateStep, OwnersStep, RefsStep, TypeStep DEF SlotInv
<1> QED BY SlotInvInit, <1>1, PTL DEF Spec

\* Every variable of the slot keeps its type.
THEOREM TypeCorrect == Spec => []TypeOK
BY SlotInvariant, PTL DEF SlotInv

\* References are counted exactly, so a model is alive precisely as long as a
\* request, a reload or the slot points to it.
THEOREM ReferencesBalance == Spec => []ModelsLiveWhileHeld
<1>1. SlotInv => ModelsLiveWhileHeld
    BY DEF SlotInv, RefsInv, ModelsLiveWhileHeld, Count
<1> QED BY <1>1, SlotInvariant, PTL

\* A reload never runs on a State that is gone, whoever destroys the slot.
THEOREM ReloadKeepsState == Spec => []StateOutlivesReload
<1>1. SlotInv => StateOutlivesReload
    BY InReloadOwned DEF StateOutlivesReload, InReload
<1> QED BY <1>1, SlotInvariant, PTL

\* The two together: acquire and the reloads only work with what is alive.
THEOREM NothingIsFreedInUse == Spec => []NothingFreedInUse
BY ReferencesBalance, ReloadKeepsState, PTL DEF NothingFreedInUse

\* At most one model beyond the active one and those in use is in memory.
THEOREM SpareModelBound == Spec => []OneSpareModel
<1> DEFINE Spare == {m \in Models : /\ refs[m] > 0 /\ m # active
                                    /\ \A r \in Readers : snapshot[r] # m}
<1>1. SlotInv => OneSpareModel
  <2> SUFFICES ASSUME SlotInv PROVE Cardinality(Spare) <= 1
    BY DEF OneSpareModel
  <2>1. ASSUME NEW m \in Spare
        PROVE  \E t \in Reloaders : candidate[t] = m /\ reload_mutex = t
    <3>1. Count(snapshot, Readers, m) = 0
      BY CountNone
    <3>2. Count(candidate, Reloaders, m) # 0
      BY <3>1, SlotAssumption, CountType DEF SlotInv, RefsInv
    <3>3. PICK t \in Reloaders : candidate[t] = m
      BY <3>2, CountNone
    <3>4. candidate[t] # NoModel
      BY <3>3 DEF Models, NoModel
    <3>5. reload_mutex = t
      BY <3>4 DEF SlotInv, CandidateInv, MutexInv
    <3> QED BY <3>3, <3>5
  <2> HIDE DEF Spare
  <2>2. CASE Spare = {}
    <3>1. Cardinality(Spare) = 0
      BY <2>2, FS_EmptySet, Zenon
    <3> QED BY <3>1
  <2>3. CASE \E m \in Spare : Spare = {m}
    <3>1. Cardinality(Spare) = 1
      BY <2>3, FS_Singleton, Zenon
    <3> QED BY <3>1
  <2> QED BY <2>1, <2>2, <2>3
<1> QED BY <1>1, SlotInvariant, PTL

\* The slot implements the register: the swap under the mutex is the only step
\* that changes the published model, and it moves to a newer, validated one.
THEOREM SlotImplementsRegister == Spec => ImplementsRegister
<1> USE DEF Register!NoModel, Register!Models, NoModel, Models
<1>1. Init => Register!RegisterInit
    BY DEF Init, Register!RegisterInit
<1>2. SlotInv /\ [Next]_vars => [Register!RegisterNext]_(Register!registerVars)
  <2> SUFFICES ASSUME SlotInv, [Next]_vars
               PROVE  [Register!RegisterNext]_(Register!registerVars)
    OBVIOUS
  <2> USE DEF Register!RegisterNext, Register!registerVars
  <2>1. ASSUME NEW r \in Readers, Acquire(r) \/ Release(r) PROVE Register!RegisterNext
    <3>1. Acquire(r) => Register!Take(r)
      BY SlotHasModel DEF Acquire, reloads, Register!Take
    <3>2. Release(r) => Register!LetGo(r)
      BY DEF Release, reloads, Register!LetGo
    <3> QED BY <2>1, <3>1, <3>2
  <2>2. ASSUME NEW t \in Reloaders,
               \/ Reload(t) \/ ReloadAsync(t) \/ Lock(t) \/ LoadSucceeds(t) \/ LoadFails(t)
               \/ ValidatorRejects(t) \/ Return(t)
        PROVE  UNCHANGED Register!registerVars
    BY <2>2 DEF Reload, ReloadAsync, Start, Lock, LoadSucceeds, LoadFails,
                ValidatorRejects, Return
  <2>3. ASSUME NEW t \in Reloaders, ValidatorAccepts(t) PROVE Register!RegisterNext
    <3>1. candidate[t] \in Models
      BY <2>3, SlotAssumption DEF ValidatorAccepts, SlotInv, CandidateInv, TypeOK
    <3>2. Register!Accept(candidate[t])
      BY <2>3 DEF ValidatorAccepts, Register!Accept
    <3> QED BY <3>1, <3>2
  <2>4. ASSUME NEW t \in Reloaders, Publish(t) PROVE Register!RegisterNext
    <3>1. /\ candidate[t] \in Models /\ candidate[t] > active
          /\ candidate[t] \in validated
      BY <2>4, SlotAssumption DEF Publish, SlotInv, CandidateInv, TypeOK
    <3>2. active # NoModel
      BY <2>4, InReloadOwned DEF Publish
    <3>3. Register!Replace(candidate[t])
      BY <2>4, <3>1, <3>2 DEF Publish, Register!Replace
    <3> QED BY <3>1, <3>3
  <2>5. ASSUME LeaveState, UNCHANGED <<snapshot, validated>>
        PROVE  Register!Retire \/ UNCHANGED Register!registerVars
    BY <2>5 DEF LeaveState, Register!Retire
  <2>6. ASSUME NEW t \in Reloaders, DropFuture(t)
        PROVE  Register!Retire \/ UNCHANGED Register!registerVars
    BY <2>5, <2>6 DEF DropFuture
  <2>7. CASE DestroySlot
    BY <2>5, <2>7 DEF DestroySlot
  <2>8. CASE UNCHANGED vars
    BY <2>8 DEF vars
  <2> QED BY <2>1, <2>2, <2>3, <2>4, <2>6, <2>7, <2>8 DEF Next, ReloadStep, Finished
<1> QED BY <1>1, <1>2, SlotInvariant, PTL
        DEF Spec, ImplementsRegister, Register!RegisterSpec
==============================================================================
