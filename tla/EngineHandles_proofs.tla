------------------------- MODULE EngineHandles_proofs -------------------------
(***************************************************************************)
(* Proofs about EngineHandles for any finite sets of threads and           *)
(* addresses and any number of pipelines.  HandlesInv is the inductive     *)
(* invariant: a thread owns an object outside the registry exactly while   *)
(* its create or destroy call is between its critical sections, and holds  *)
(* a pipeline exactly while it recognizes.                                 *)
(***************************************************************************)
EXTENDS EngineHandles, CountsAndSums

\* TypeOK without the claim that the reference counts are not negative.
Shape ==
    /\ live \subseteq Addresses
    /\ storage \in [Addresses -> Pipelines \cup {Shell, Freed}]
    /\ refs \in [Pipelines -> Int]
    /\ built \in 0..MaxPipelines
    /\ handle \in [Threads -> Addresses \cup {Null}]
    /\ raw \in [Threads -> Addresses \cup {Null}]
    /\ snapshot \in [Threads -> Pipelines \cup {Shell, Freed}]
    /\ pc \in [Threads -> {"idle", "publishing", "deleting", "recognizing"}]

\* What a call holds between its steps.
HeldInv ==
    \A t \in Threads :
        /\ raw[t] # Null <=> pc[t] \in {"publishing", "deleting"}
        /\ snapshot[t] # Freed <=> pc[t] = "recognizing"

\* The thread-local results.
ErrorsInv ==
    /\ last_error \in [Threads -> Errors \cup {NoError}]
    /\ status \in [Threads -> Statuses]
    /\ LastErrorIsOwn

\* PipelineOutlivesCalls in terms of Count.
RefsInv ==
    \A p \in Pipelines :
        refs[p] = Count(storage, Addresses, p) + Count(snapshot, Threads, p)

HandlesInv ==
    /\ Shape
    /\ HeldInv
    /\ StorageHasOneOwner
    /\ ErrorsInv
    /\ RefsInv

\* Initially the invariant holds.
LEMMA HandlesInvInit == Init => HandlesInv
<1> SUFFICES ASSUME Init PROVE HandlesInv OBVIOUS
<1> USE DEF Init
<1>1. Shape
    BY HandlesAssumption DEF Shape, Pipelines
<1>2. HeldInv /\ StorageHasOneOwner
    BY HandlesAssumption DEF HeldInv, StorageHasOneOwner
<1>3. ErrorsInv
    BY DEF ErrorsInv, LastErrorIsOwn, Statuses, Errors, NoError
<1>4. RefsInv
  <2> SUFFICES ASSUME NEW p \in Pipelines
               PROVE  refs[p] = Count(storage, Addresses, p) + Count(snapshot, Threads, p)
    BY DEF RefsInv
  <2>1. p # Freed
    BY HandlesAssumption
  <2>2. Count(storage, Addresses, p) = 0 /\ Count(snapshot, Threads, p) = 0
    BY <2>1, CountNone
  <2> QED BY <2>2
<1> QED BY <1>1, <1>2, <1>3, <1>4 DEF HandlesInv

\* The steps that touch neither the heap nor the registry: calls that return
\* at once, failed ones included.
Idle(t) ==
    /\ pc[t] = "idle" /\ pc' = [pc EXCEPT ![t] = "idle"]
    /\ \/ UNCHANGED handle
       \/ \E v \in Addresses \cup {Null} : handle' = [handle EXCEPT ![t] = v]
    /\ UNCHANGED <<live, storage, refs, built, raw, snapshot>>

\* Each action of that kind is such a step.
LEMMA IdleSteps ==
    ASSUME Shape, NEW t \in Threads,
           \/ GetVersion(t) \/ RejectArguments(t)
           \/ \E s \in Errors : CreateFails(t, s)
           \/ DestroyNothing(t) \/ LookupFails(t)
           \/ \E u \in Threads \ {t} : PassHandle(t, u)
    PROVE  Idle(t)
<1>1. pc[t] = "idle" => pc = [pc EXCEPT ![t] = "idle"]
    BY DEF Shape
<1>2. CASE GetVersion(t) \/ RejectArguments(t) \/ LookupFails(t)
    BY <1>2 DEF GetVersion, RejectArguments, LookupFails, Return, Throw, Idle
<1>3. CASE \E s \in Errors : CreateFails(t, s)
    BY <1>3 DEF CreateFails, Throw, Idle
<1>4. CASE DestroyNothing(t)
    BY <1>4 DEF DestroyNothing, Return, Idle
<1>5. ASSUME NEW u \in Threads \ {t}, PassHandle(t, u) PROVE Idle(t)
  <2>1. handle[u] \in Addresses \cup {Null}
    BY DEF Shape
  <2> QED BY <1>1, <1>5, <2>1 DEF PassHandle, callVars, Idle
<1> QED BY <1>2, <1>3, <1>4, <1>5

\* A recognition that ends, with an exception or a status.
EndRecognize(t) ==
    /\ DropSnapshot(t)
    /\ pc' = [pc EXCEPT ![t] = "idle"]

\* PublishHandle, or the destruction of the handle that could not be published.
EndCreate(t) ==
    \/ PublishHandle(t)
    \/ /\ pc[t] = "publishing" /\ pc' = [pc EXCEPT ![t] = "idle"]
       /\ FreeStorage(t)
       /\ UNCHANGED <<live, built, handle, snapshot>>

\* Every step is one of these, as far as the heap and the registry go.
LEMMA Steps ==
    ASSUME Shape, [Next]_vars
    PROVE  \/ UNCHANGED vars
           \/ \E t \in Threads :
                \/ Idle(t)
                \/ \E a \in Addresses, p \in Pipelines \cup {Shell} :
                      Allocate(t, a, p) /\ built' \in 0..MaxPipelines
                \/ EndCreate(t) \/ Erase(t) \/ Delete(t) \/ Lookup(t) \/ EndRecognize(t)
<1> SUFFICES ASSUME NEW t \in Threads,
                    \/ GetVersion(t) \/ RejectArguments(t)
                    \/ Create(t) \/ Destroy(t) \/ Recognize(t)
                    \/ \E u \in Threads \ {t} : PassHandle(t, u)
             PROVE  \/ Idle(t)
                    \/ \E a \in Addresses, p \in Pipelines \cup {Shell} :
                          Allocate(t, a, p) /\ built' \in 0..MaxPipelines
                    \/ EndCreate(t) \/ Erase(t) \/ Delete(t) \/ Lookup(t)
                    \/ EndRecognize(t)
    BY Zenon DEF Next
<1>1. CASE \/ GetVersion(t) \/ RejectArguments(t)
           \/ \E u \in Threads \ {t} : PassHandle(t, u)
    BY <1>1, IdleSteps, Zenon
<1>2. CASE Create(t)
  <2>1. ASSUME NEW s \in Errors, CreateFails(t, s) PROVE Idle(t)
    BY <2>1, IdleSteps, Zenon
  <2>2. ASSUME NEW a \in Addresses, CreateShell(t, a)
        PROVE  Allocate(t, a, Shell) /\ built' \in 0..MaxPipelines
    BY <2>2 DEF CreateShell, Shape
  <2>3. ASSUME NEW a \in Addresses, CreateFromContract(t, a)
        PROVE  /\ Allocate(t, a, built + 1) /\ built + 1 \in Pipelines
               /\ built' \in 0..MaxPipelines
    <3>1. Allocate(t, a, built + 1) /\ built < MaxPipelines /\ built' = built + 1
      BY <2>3, Zenon DEF CreateFromContract
    <3>2. built \in 0..MaxPipelines /\ MaxPipelines \in Nat
      BY HandlesAssumption, Zenon DEF Shape
    <3>3. built + 1 \in 1..MaxPipelines /\ built' \in 0..MaxPipelines
      <4> HIDE DEF Allocate
      <4> QED BY <3>1, <3>2
    <3> QED BY <3>1, <3>3 DEF Pipelines
  <2>4. CASE PublishHandle(t) \/ PublishFails(t)
    BY <2>4 DEF PublishFails, EndCreate, Throw
  <2> QED BY <1>2, <2>1, <2>2, <2>3, <2>4, Zenon DEF Create, Errors
<1>3. CASE Destroy(t)
    BY <1>3, IdleSteps, Zenon DEF Destroy
<1>4. CASE Recognize(t)
  <2>1. CASE LookupFails(t)
    BY <2>1, IdleSteps, Zenon
  <2>2. ASSUME NEW s, RecognizeThrows(t, s) \/ RecognizeReturns(t, s)
        PROVE  EndRecognize(t)
    BY <2>2 DEF RecognizeThrows, RecognizeReturns, Throw, Return, EndRecognize
  <2> QED BY <1>4, <2>1, <2>2, Zenon DEF Recognize
<1> QED BY <1>1, <1>2, <1>3, <1>4

-----------------------------------------------------------------------------
(* Who owns which object.                                                  *)

\* The three parts of the invariant about the heap and the registry.
Owned == Shape /\ HeldInv /\ StorageHasOneOwner

\* What the steps do to the counts keeps them integers.
LEMMA RefsType ==
    ASSUME Shape, NEW p, refs' \in {refs, Retained(p), Released(p)}
    PROVE  refs' \in [Pipelines -> Int]
BY DEF Shape, Retained, Released

\* A handle is allocated at a free address, which nobody owns.
LEMMA AllocateOwned ==
    ASSUME Owned, NEW t \in Threads, NEW a \in Addresses, NEW p \in Pipelines \cup {Shell},
           Allocate(t, a, p), built' \in 0..MaxPipelines
    PROVE  Owned'
<1>1. /\ pc[t] = "idle" /\ storage[a] = Freed
      /\ storage' = [storage EXCEPT ![a] = p]
      /\ raw' = [raw EXCEPT ![t] = a]
      /\ pc' = [pc EXCEPT ![t] = "publishing"]
      /\ UNCHANGED <<live, handle, snapshot>>
    BY DEF Allocate, Enter
<1>2. Shape'
  <2>1. refs' \in [Pipelines -> Int]
    BY RefsType DEF Owned, Allocate
  <2> QED BY <1>1, <2>1 DEF Owned, Shape
<1>3. HeldInv'
    BY <1>1, HandlesAssumption DEF Owned, Shape, HeldInv
<1>4. a \notin live /\ \A u \in Threads : raw[u] # a
    BY <1>1, HandlesAssumption DEF Owned, StorageHasOneOwner
<1>5. p # Freed
    BY HandlesAssumption
<1>6. StorageHasOneOwner'
  <2>1. /\ raw[t] = Null /\ raw'[t] = a
        /\ \A u \in Threads \ {t} : raw'[u] = raw[u]
    BY <1>1 DEF Owned, Shape, HeldInv
  <2>2. /\ storage'[a] = p
        /\ \A b \in Addresses \ {a} : storage'[b] = storage[b]
    BY <1>1 DEF Owned, Shape
  <2>3. \A b \in live' : storage'[b] # Freed
    BY <1>1, <1>4, <2>2 DEF Owned, Shape, StorageHasOneOwner
  <2>4. ASSUME NEW u \in Threads, raw'[u] # Null
        PROVE  /\ storage'[raw'[u]] # Freed /\ raw'[u] \notin live'
               /\ \A v \in Threads \ {u} : raw'[v] # raw'[u]
    <3>1. CASE u = t
      BY <1>1, <1>4, <1>5, <2>1, <2>2, <3>1
    <3>2. CASE u # t
      <4>1. raw'[u] = raw[u] /\ raw[u] \in Addresses \ {a}
        BY <1>4, <2>1, <2>4, <3>2 DEF Owned, Shape
      <4>2. /\ storage[raw[u]] # Freed /\ raw[u] \notin live
            /\ \A v \in Threads \ {u} : raw[v] # raw[u]
        BY <2>4, <4>1 DEF Owned, StorageHasOneOwner
      <4> QED BY <1>1, <2>1, <2>2, <3>2, <4>1, <4>2
    <3> QED BY <3>1, <3>2
  <2>5. \A b \in Addresses : storage'[b] # Freed =>
          b \in live' \/ \E u \in Threads : raw'[u] = b
    BY <1>1, <2>1, <2>2, HandlesAssumption DEF Owned, StorageHasOneOwner
  <2> QED BY <2>3, <2>4, <2>5 DEF StorageHasOneOwner
<1> QED BY <1>2, <1>3, <1>6 DEF Owned

\* The call that owns an object puts it into the registry.
LEMMA PublishOwned ==
    ASSUME Owned, NEW t \in Threads, PublishHandle(t)
    PROVE  Owned'
<1>1. /\ pc[t] = "publishing"
      /\ live' = live \cup {raw[t]}
      /\ handle' = [handle EXCEPT ![t] = raw[t]]
      /\ raw' = [raw EXCEPT ![t] = Null]
      /\ pc' = [pc EXCEPT ![t] = "idle"]
      /\ UNCHANGED <<storage, refs, built, snapshot>>
    BY DEF PublishHandle, Return
<1>2. raw[t] \in Addresses
    BY <1>1 DEF Owned, Shape, HeldInv
<1>3. Shape'
    BY <1>1, <1>2 DEF Owned, Shape
<1>4. HeldInv'
    BY <1>1 DEF Owned, Shape, HeldInv
<1>5. StorageHasOneOwner'
    BY <1>1, <1>2, HandlesAssumption DEF Owned, Shape, StorageHasOneOwner
<1> QED BY <1>3, <1>4, <1>5 DEF Owned

\* The call that owns an object deletes it.
LEMMA FreeOwned ==
    ASSUME Owned, NEW t \in Threads, pc[t] \in {"publishing", "deleting"},
           FreeStorage(t), pc' = [pc EXCEPT ![t] = "idle"],
           handle' \in [Threads -> Addresses \cup {Null}],
           UNCHANGED <<live, built, snapshot>>
    PROVE  Owned'
<1>1. /\ storage' = [storage EXCEPT ![raw[t]] = Freed]
      /\ raw' = [raw EXCEPT ![t] = Null]
    BY DEF FreeStorage
<1>2. raw[t] \in Addresses /\ raw[t] # Null
    BY DEF Owned, Shape, HeldInv
<1>3. Shape'
  <2>1. refs' \in [Pipelines -> Int]
    BY RefsType DEF Owned, FreeStorage
  <2> QED BY <1>1, <1>2, <2>1 DEF Owned, Shape
<1>4. HeldInv'
    BY <1>1 DEF Owned, Shape, HeldInv
<1>5. StorageHasOneOwner'
    BY <1>1, <1>2, HandlesAssumption DEF Owned, Shape, StorageHasOneOwner
<1> QED BY <1>3, <1>4, <1>5 DEF Owned

\* The destroy that finds the handle in the registry becomes its only owner.
LEMMA EraseOwned ==
    ASSUME Owned, NEW t \in Threads, Erase(t)
    PROVE  Owned'
<1>1. /\ pc[t] = "idle" /\ handle[t] \in live
      /\ live' = live \ {handle[t]}
      /\ raw' = [raw EXCEPT ![t] = handle[t]]
      /\ pc' = [pc EXCEPT ![t] = "deleting"]
      /\ UNCHANGED <<storage, refs, built, handle, snapshot>>
    BY DEF Erase, Enter
<1>2. handle[t] \in Addresses
    BY <1>1 DEF Owned, Shape
<1>3. Shape'
    BY <1>1, <1>2 DEF Owned, Shape
<1>4. HeldInv'
    BY <1>1, <1>2, HandlesAssumption DEF Owned, Shape, HeldInv
<1>5. StorageHasOneOwner'
  <2>1. handle[t] # Null /\ storage[handle[t]] # Freed /\ raw[t] = Null
        /\ \A u \in Threads : raw[u] # handle[t]
    BY <1>1, <1>2, HandlesAssumption DEF Owned, HeldInv, StorageHasOneOwner
  <2>2. raw'[t] = handle[t] /\ \A u \in Threads \ {t} : raw'[u] = raw[u]
    BY <1>1 DEF Owned, Shape
  <2>3. \A a \in live' : storage'[a] # Freed
    BY <1>1 DEF Owned, StorageHasOneOwner
  <2>4. \A u \in Threads : raw'[u] # Null =>
          /\ storage'[raw'[u]] # Freed /\ raw'[u] \notin live'
          /\ \A v \in Threads \ {u} : raw'[v] # raw'[u]
    <3> SUFFICES ASSUME NEW u \in Threads, raw'[u] # Null
                 PROVE  /\ storage'[raw'[u]] # Freed /\ raw'[u] \notin live'
                        /\ \A v \in Threads \ {u} : raw'[v] # raw'[u]
      OBVIOUS
    <3>1. CASE u = t
      BY <1>1, <2>1, <2>2, <3>1
    <3>2. CASE u # t
      <4>1. raw'[u] = raw[u]
        BY <2>2, <3>2
      <4>2. /\ storage[raw[u]] # Freed /\ raw[u] \notin live
            /\ \A v \in Threads \ {u} : raw[v] # raw[u]
        BY <4>1 DEF Owned, StorageHasOneOwner
      <4> QED BY <1>1, <2>1, <2>2, <3>2, <4>1, <4>2
    <3> QED BY <3>1, <3>2
  <2>5. \A a \in Addresses : storage'[a] # Freed =>
          a \in live' \/ \E u \in Threads : raw'[u] = a
    BY <1>1, <2>1, <2>2, HandlesAssumption DEF Owned, StorageHasOneOwner
  <2> QED BY <2>3, <2>4, <2>5 DEF StorageHasOneOwner
<1> QED BY <1>3, <1>4, <1>5 DEF Owned

\* A recognition takes and drops its snapshot without touching the heap.
LEMMA SnapshotOwned ==
    ASSUME Owned, NEW t \in Threads, Lookup(t) \/ EndRecognize(t)
    PROVE  Owned'
<1>1. refs' \in [Pipelines -> Int]
    BY RefsType DEF Owned, Lookup, EndRecognize, DropSnapshot
<1>2. UNCHANGED <<live, storage, built, handle, raw>>
    BY DEF Lookup, EndRecognize, DropSnapshot
<1>3. StorageHasOneOwner'
    BY <1>2 DEF Owned, StorageHasOneOwner
<1>4. CASE Lookup(t)
  <2>1. /\ pc[t] = "idle" /\ handle[t] \in live
        /\ snapshot' = [snapshot EXCEPT ![t] = storage[handle[t]]]
        /\ pc' = [pc EXCEPT ![t] = "recognizing"]
    BY <1>4 DEF Lookup, Enter
  <2>2. storage[handle[t]] \in Pipelines \cup {Shell} /\ storage[handle[t]] # Freed
    BY <2>1 DEF Owned, Shape, StorageHasOneOwner
  <2>3. Shape'
    BY <1>1, <1>2, <2>1, <2>2 DEF Owned, Shape
  <2>4. HeldInv'
    BY <1>2, <2>1, <2>2 DEF Owned, Shape, HeldInv
  <2> QED BY <1>3, <2>3, <2>4 DEF Owned
<1>5. CASE EndRecognize(t)
  <2>1. /\ pc[t] = "recognizing"
        /\ snapshot' = [snapshot EXCEPT ![t] = Freed]
        /\ pc' = [pc EXCEPT ![t] = "idle"]
    BY <1>5 DEF EndRecognize, DropSnapshot
  <2>2. Shape'
    BY <1>1, <1>2, <2>1 DEF Owned, Shape
  <2>3. HeldInv'
    BY <1>2, <2>1 DEF Owned, Shape, HeldInv
  <2> QED BY <1>3, <2>2, <2>3 DEF Owned
<1> QED BY <1>4, <1>5

\* Every step keeps the ownership.
LEMMA OwnedStep == Owned /\ [Next]_vars => Owned'
<1> SUFFICES ASSUME Owned, [Next]_vars PROVE Owned' OBVIOUS
<1>1. CASE UNCHANGED vars
    BY <1>1 DEF vars, Owned, Shape, HeldInv, StorageHasOneOwner, callVars
<1>2. ASSUME NEW t \in Threads, Idle(t) PROVE Owned'
  <2>1. UNCHANGED <<live, storage, refs, built, raw, snapshot>>
        /\ pc' \in [Threads -> {"idle", "publishing", "deleting", "recognizing"}]
        /\ pc' = [pc EXCEPT ![t] = "idle"] /\ pc[t] = "idle"
    BY <1>2 DEF Idle, Owned, Shape
  <2>2. handle' \in [Threads -> Addresses \cup {Null}]
    BY <1>2 DEF Idle, Owned, Shape
  <2>3. Shape'
    BY <2>1, <2>2 DEF Owned, Shape
  <2>4. HeldInv' /\ StorageHasOneOwner'
    BY <2>1 DEF Owned, Shape, HeldInv, StorageHasOneOwner
  <2> QED BY <2>3, <2>4 DEF Owned
<1>3. ASSUME NEW t \in Threads, EndCreate(t) PROVE Owned'
  <2>1. CASE PublishHandle(t)
    BY <2>1, PublishOwned
  <2>2. CASE /\ pc[t] = "publishing" /\ pc' = [pc EXCEPT ![t] = "idle"]
             /\ FreeStorage(t)
             /\ UNCHANGED <<live, built, handle, snapshot>>
    <3>1. handle' \in [Threads -> Addresses \cup {Null}]
      BY <2>2 DEF Owned, Shape
    <3> QED BY <2>2, <3>1, FreeOwned
  <2> QED BY <1>3, <2>1, <2>2, Zenon DEF EndCreate
<1>4. ASSUME NEW t \in Threads, Delete(t) PROVE Owned'
  <2>1. /\ pc[t] = "deleting" /\ pc' = [pc EXCEPT ![t] = "idle"]
        /\ FreeStorage(t) /\ UNCHANGED <<live, built, snapshot>>
        /\ handle' = [handle EXCEPT ![t] = Null]
    BY <1>4 DEF Delete, Return
  <2>2. handle' \in [Threads -> Addresses \cup {Null}]
    BY <2>1 DEF Owned, Shape
  <2> QED BY <2>1, <2>2, FreeOwned
<1>5. Shape
    BY DEF Owned
<1> QED BY <1>1, <1>2, <1>3, <1>4, <1>5, Steps, AllocateOwned, EraseOwned, SnapshotOwned, Zenon

-----------------------------------------------------------------------------
(* The errors of the threads.                                              *)

\* A call either stores the status it throws in the string of its own thread,
\* or leaves that string empty.
LEMMA ErrorsStep == Shape /\ ErrorsInv /\ [Next]_vars => ErrorsInv'
<1> SUFFICES ASSUME Shape, ErrorsInv, [Next]_vars PROVE ErrorsInv' OBVIOUS
<1> USE DEF Statuses, Errors, NoError
<1>0. pc \in [Threads -> {"idle", "publishing", "deleting", "recognizing"}]
    BY DEF Shape
<1>1. ASSUME NEW t \in Threads, NEW next, next # "idle", Enter(t, next) PROVE ErrorsInv'
    BY <1>0, <1>1 DEF Enter, ErrorsInv, LastErrorIsOwn
<1>2. ASSUME NEW t \in Threads, NEW s \in Statuses, Return(t, s) PROVE ErrorsInv'
    BY <1>0, <1>2 DEF Return, ErrorsInv, LastErrorIsOwn
<1>3. ASSUME NEW t \in Threads, NEW s \in Errors, Throw(t, s) PROVE ErrorsInv'
    BY <1>0, <1>3 DEF Throw, StoreLastError, ErrorsInv, LastErrorIsOwn
<1>4. ASSUME UNCHANGED callVars PROVE ErrorsInv'
    BY <1>4 DEF callVars, ErrorsInv, LastErrorIsOwn
<1>5. ASSUME NEW t \in Threads,
             GetVersion(t) \/ RejectArguments(t) \/ \E u \in Threads : PassHandle(t, u)
      PROVE  ErrorsInv'
    BY <1>2, <1>3, <1>4, <1>5 DEF GetVersion, RejectArguments, PassHandle
<1>6. ASSUME NEW t \in Threads, Create(t) PROVE ErrorsInv'
    BY <1>1, <1>2, <1>3, <1>6
       DEF Create, CreateFails, CreateShell, CreateFromContract, Allocate,
           PublishHandle, PublishFails
<1>7. ASSUME NEW t \in Threads, Destroy(t) PROVE ErrorsInv'
    BY <1>1, <1>2, <1>7 DEF Destroy, DestroyNothing, Erase, Delete
<1>8. ASSUME NEW t \in Threads, Recognize(t) PROVE ErrorsInv'
    BY <1>1, <1>2, <1>3, <1>8
       DEF Recognize, LookupFails, Lookup, RecognizeThrows, RecognizeReturns
<1>9. CASE UNCHANGED vars
    BY <1>4, <1>9 DEF vars
<1> QED BY <1>5, <1>6, <1>7, <1>8, <1>9, Zenon DEF Next

-----------------------------------------------------------------------------
(* The references to the pipelines.                                        *)

\* The counts of both kinds of holders are natural numbers.
LEMMA CountsNat ==
    ASSUME NEW f, NEW g, NEW p
    PROVE  Count(f, Addresses, p) \in Nat /\ Count(g, Threads, p) \in Nat
BY CountType, HandlesAssumption

\* The object at address a, free until now, refers to q.
LEMMA StorageGains ==
    ASSUME Shape, RefsInv, NEW a \in Addresses, NEW q \in Pipelines \cup {Shell},
           storage[a] = Freed, storage' = [storage EXCEPT ![a] = q],
           refs' = Retained(q), snapshot' = snapshot
    PROVE  RefsInv'
<1> SUFFICES ASSUME NEW p \in Pipelines
             PROVE  refs'[p] = Count(storage', Addresses, p) + Count(snapshot, Threads, p)
    BY DEF RefsInv
<1>0. /\ storage \in [Addresses -> Pipelines \cup {Shell, Freed}]
      /\ p # Freed
      /\ refs[p] = Count(storage, Addresses, p) + Count(snapshot, Threads, p)
      /\ storage'[a] = q /\ \A b \in Addresses \ {a} : storage'[b] = storage[b]
    BY HandlesAssumption DEF Shape, RefsInv
<1>1. CASE q = p
  <2>0. /\ storage[a] # p /\ storage'[a] = p /\ IsFiniteSet(Addresses)
        /\ \A b \in Addresses \ {a} : storage'[b] = storage[b]
    BY <1>0, <1>1, HandlesAssumption
  <2>1. Count(storage', Addresses, p) = Count(storage, Addresses, p) + 1
    BY ONLY <2>0, a \in Addresses, CountGains
  <2>2. refs'[p] = refs[p] + 1
    BY <1>1 DEF Retained
  <2> QED BY <1>0, <2>1, <2>2, CountsNat
<1>2. CASE q # p
  <2>1. Count(storage', Addresses, p) = Count(storage, Addresses, p)
    BY ONLY <1>0, <1>2, a \in Addresses, storage[a] = Freed, CountKeeps
  <2>2. refs'[p] = refs[p]
    BY <1>2 DEF Retained
  <2> QED BY <1>0, <2>1, <2>2
<1> QED BY <1>1, <1>2

\* The object at address a, which refers to q, is deleted.
LEMMA StorageLoses ==
    ASSUME Shape, RefsInv, NEW a \in Addresses, storage[a] # Freed,
           storage' = [storage EXCEPT ![a] = Freed],
           refs' = Released(storage[a]), snapshot' = snapshot
    PROVE  RefsInv'
<1> SUFFICES ASSUME NEW p \in Pipelines
             PROVE  refs'[p] = Count(storage', Addresses, p) + Count(snapshot, Threads, p)
    BY DEF RefsInv
<1>0. /\ p # Freed /\ IsFiniteSet(Addresses)
      /\ refs[p] = Count(storage, Addresses, p) + Count(snapshot, Threads, p)
      /\ storage'[a] = Freed /\ \A b \in Addresses \ {a} : storage'[b] = storage[b]
    BY HandlesAssumption DEF Shape, RefsInv
<1>1. CASE storage[a] = p
  <2>1. Count(storage', Addresses, p) = Count(storage, Addresses, p) - 1
    <3>1. storage'[a] # p
      BY <1>0
    <3> QED BY ONLY <1>0, <1>1, <3>1, a \in Addresses, CountLoses
  <2>2. refs'[p] = refs[p] - 1
    BY <1>1 DEF Released
  <2> QED BY <1>0, <2>1, <2>2, CountsNat
<1>2. CASE storage[a] # p
  <2>1. Count(storage', Addresses, p) = Count(storage, Addresses, p)
    BY ONLY <1>0, <1>2, a \in Addresses, CountKeeps
  <2>2. refs'[p] = refs[p]
    BY <1>2 DEF Released
  <2> QED BY <1>0, <2>1, <2>2
<1> QED BY <1>1, <1>2

\* Thread t, without a snapshot until now, copies a reference to q.
LEMMA SnapshotGains ==
    ASSUME Shape, RefsInv, NEW t \in Threads, NEW q \in Pipelines \cup {Shell},
           snapshot[t] = Freed, snapshot' = [snapshot EXCEPT ![t] = q],
           refs' = Retained(q), storage' = storage
    PROVE  RefsInv'
<1> SUFFICES ASSUME NEW p \in Pipelines
             PROVE  refs'[p] = Count(storage, Addresses, p) + Count(snapshot', Threads, p)
    BY DEF RefsInv
<1>0. /\ p # Freed /\ IsFiniteSet(Threads)
      /\ refs[p] = Count(storage, Addresses, p) + Count(snapshot, Threads, p)
      /\ snapshot'[t] = q /\ \A u \in Threads \ {t} : snapshot'[u] = snapshot[u]
    BY HandlesAssumption DEF Shape, RefsInv
<1>1. CASE q = p
  <2>1. Count(snapshot', Threads, p) = Count(snapshot, Threads, p) + 1
    <3>1. snapshot[t] # p /\ snapshot'[t] = p
      BY <1>0, <1>1
    <3> QED BY ONLY <1>0, <3>1, t \in Threads, CountGains
  <2>2. refs'[p] = refs[p] + 1
    BY <1>1 DEF Retained
  <2> QED BY <1>0, <2>1, <2>2, CountsNat
<1>2. CASE q # p
  <2>1. Count(snapshot', Threads, p) = Count(snapshot, Threads, p)
    BY ONLY <1>0, <1>2, t \in Threads, snapshot[t] = Freed, CountKeeps
  <2>2. refs'[p] = refs[p]
    BY <1>2 DEF Retained
  <2> QED BY <1>0, <2>1, <2>2
<1> QED BY <1>1, <1>2

\* Thread t drops its snapshot.
LEMMA SnapshotLoses ==
    ASSUME Shape, RefsInv, NEW t \in Threads, snapshot[t] # Freed,
           snapshot' = [snapshot EXCEPT ![t] = Freed],
           refs' = Released(snapshot[t]), storage' = storage
    PROVE  RefsInv'
<1> SUFFICES ASSUME NEW p \in Pipelines
             PROVE  refs'[p] = Count(storage, Addresses, p) + Count(snapshot', Threads, p)
    BY DEF RefsInv
<1>0. /\ p # Freed /\ IsFiniteSet(Threads)
      /\ refs[p] = Count(storage, Addresses, p) + Count(snapshot, Threads, p)
      /\ snapshot'[t] = Freed /\ \A u \in Threads \ {t} : snapshot'[u] = snapshot[u]
    BY HandlesAssumption DEF Shape, RefsInv
<1>1. CASE snapshot[t] = p
  <2>1. Count(snapshot', Threads, p) = Count(snapshot, Threads, p) - 1
    <3>1. snapshot'[t] # p
      BY <1>0
    <3> QED BY ONLY <1>0, <1>1, <3>1, t \in Threads, CountLoses
  <2>2. refs'[p] = refs[p] - 1
    BY <1>1 DEF Released
  <2> QED BY <1>0, <2>1, <2>2, CountsNat
<1>2. CASE snapshot[t] # p
  <2>1. Count(snapshot', Threads, p) = Count(snapshot, Threads, p)
    BY ONLY <1>0, <1>2, t \in Threads, CountKeeps
  <2>2. refs'[p] = refs[p]
    BY <1>2 DEF Released
  <2> QED BY <1>0, <2>1, <2>2
<1> QED BY <1>1, <1>2

\* Every step keeps the counts exact.
LEMMA RefsStep == Owned /\ RefsInv /\ [Next]_vars => RefsInv'
<1> SUFFICES ASSUME Owned, RefsInv, [Next]_vars PROVE RefsInv' OBVIOUS
<1>0. Shape
    BY DEF Owned
<1>1. ASSUME UNCHANGED <<refs, storage, snapshot>> PROVE RefsInv'
    BY <1>1 DEF RefsInv
<1>2. CASE UNCHANGED vars
    BY <1>1, <1>2 DEF vars
<1>3. ASSUME NEW t \in Threads, NEW a \in Addresses, NEW p \in Pipelines \cup {Shell},
             Allocate(t, a, p)
      PROVE  RefsInv'
    BY <1>0, <1>3, StorageGains DEF Allocate
<1>4. ASSUME NEW t \in Threads, pc[t] \in {"publishing", "deleting"},
             FreeStorage(t), UNCHANGED snapshot
      PROVE  RefsInv'
  <2>1. raw[t] \in Addresses /\ storage[raw[t]] # Freed
    BY <1>4 DEF Owned, Shape, HeldInv, StorageHasOneOwner
  <2> QED BY <1>0, <1>4, <2>1, StorageLoses DEF FreeStorage
<1>5. ASSUME NEW t \in Threads, EndCreate(t) PROVE RefsInv'
  <2>1. CASE PublishHandle(t)
    BY <1>1, <2>1 DEF PublishHandle
  <2>2. CASE pc[t] = "publishing" /\ FreeStorage(t) /\ UNCHANGED snapshot
    BY <1>4, <2>2
  <2> QED BY <1>5, <2>1, <2>2 DEF EndCreate
<1>6. ASSUME NEW t \in Threads, Delete(t) PROVE RefsInv'
    BY <1>4, <1>6 DEF Delete
<1>7. ASSUME NEW t \in Threads, Lookup(t) PROVE RefsInv'
  <2>1. /\ storage[handle[t]] \in Pipelines \cup {Shell}
        /\ snapshot[t] = Freed
    BY <1>7 DEF Owned, Shape, HeldInv, StorageHasOneOwner, Lookup
  <2> QED BY <1>0, <1>7, <2>1, SnapshotGains DEF Lookup
<1>8. ASSUME NEW t \in Threads, EndRecognize(t) PROVE RefsInv'
  <2>1. snapshot[t] # Freed
    BY <1>8 DEF Owned, HeldInv, EndRecognize, DropSnapshot
  <2> QED BY <1>0, <1>8, <2>1, SnapshotLoses DEF EndRecognize, DropSnapshot
<1>9. ASSUME NEW t \in Threads, Idle(t) \/ Erase(t) PROVE RefsInv'
    BY <1>1, <1>9 DEF Idle, Erase
<1> QED BY <1>0, <1>2, <1>3, <1>5, <1>6, <1>7, <1>8, <1>9, Steps, Zenon

-----------------------------------------------------------------------------
(* The theorems.                                                           *)

\* HandlesInv holds in every reachable state.
THEOREM HandlesInvariant == Spec => []HandlesInv
<1>1. HandlesInv /\ [Next]_vars => HandlesInv'
  <2> SUFFICES ASSUME HandlesInv, [Next]_vars PROVE HandlesInv' OBVIOUS
  <2>1. Owned /\ Shape /\ ErrorsInv /\ RefsInv
    BY DEF HandlesInv, Owned
  <2>2. Owned' /\ ErrorsInv' /\ RefsInv'
    BY <2>1, OwnedStep, ErrorsStep, RefsStep
  <2> QED BY <2>2 DEF HandlesInv, Owned
<1> QED BY HandlesInvInit, <1>1, PTL DEF Spec

\* The variables of the handle registry, the heap and the threads' calls keep
\* their types; a reference count is never negative.
THEOREM TypeCorrect == Spec => []TypeOK
<1>1. HandlesInv => TypeOK
  <2> SUFFICES ASSUME HandlesInv PROVE TypeOK OBVIOUS
  <2>1. \A p \in Pipelines : refs[p] \in Nat
    <3> SUFFICES ASSUME NEW p \in Pipelines PROVE refs[p] \in Nat OBVIOUS
    <3> QED BY CountsNat DEF HandlesInv, RefsInv
  <2>2. refs \in [Pipelines -> Nat]
    BY <2>1 DEF HandlesInv, Shape
  <2> QED BY <2>2 DEF HandlesInv, Shape, ErrorsInv, TypeOK
<1> QED BY HandlesInvariant, <1>1, PTL

\* For any number of threads that share, race for and reuse raw handles, every
\* handle object is in the registry or owned by exactly one call.
THEOREM HandlesHaveOneOwner == Spec => []StorageHasOneOwner
<1>1. HandlesInv => StorageHasOneOwner
    BY DEF HandlesInv
<1> QED BY HandlesInvariant, <1>1, PTL

\* A pipeline's reference count is the number of handles and recognitions that
\* use it, so that a destroy never takes it from a recognition in progress.
THEOREM PipelinesOutliveCalls == Spec => []PipelineOutlivesCalls
<1>1. HandlesInv => PipelineOutlivesCalls
    BY DEF HandlesInv, RefsInv, Count, PipelineOutlivesCalls
<1> QED BY HandlesInvariant, <1>1, PTL

\* The two together: destroy frees nothing that a call still uses.
THEOREM NothingIsFreedInUse == Spec => []NothingFreedInUse
BY HandlesHaveOneOwner, PipelinesOutliveCalls, PTL DEF NothingFreedInUse

\* The last error a thread reads between its calls is that of its own last
\* call, whatever the others do.
THEOREM ErrorsAreOwn == Spec => []LastErrorIsOwn
<1>1. HandlesInv => LastErrorIsOwn
    BY DEF HandlesInv, ErrorsInv
<1> QED BY HandlesInvariant, <1>1, PTL
=============================================================================
