---------------------------- MODULE EngineHandles ----------------------------
(***************************************************************************)
(* The engine handles of the C ABI (src/c_api/fac_lpr_engine_c_api.cpp):   *)
(* create, recognize and destroy called by any number of threads, the set  *)
(* of live handles they share under g_handle_mutex, and the last error of  *)
(* each thread.                                                            *)
(*                                                                         *)
(* A handle is the address of a heap object that owns a reference to a     *)
(* pipeline.  The allocator may give the address of a destroyed handle to  *)
(* the next one.  Each thread has one pointer variable of its own, NULL    *)
(* when it is filled; raw handle values are passed between threads, as the *)
(* ABI allows.  A call is split at its critical sections: what it does     *)
(* before, inside and after the lock are steps of their own.               *)
(***************************************************************************)
EXTENDS Naturals, FiniteSets, TLC

CONSTANTS
    Threads,
    Addresses,
    Null, Freed,
    Shell,           \* a handle without a pipeline, from fac_lpr_engine_create_v1
    MaxPipelines,    \* bound on the pipelines built
    AllocationFails  \* whether small allocations may fail

Pipelines == 1..MaxPipelines

ASSUME HandlesAssumption ==
    /\ IsFiniteSet(Threads) /\ IsFiniteSet(Addresses)
    /\ Null \notin Addresses
    /\ MaxPipelines \in Nat
    /\ Freed \notin Pipelines \cup {Shell} /\ Shell \notin Pipelines
    /\ AllocationFails \in BOOLEAN

VARIABLES
    live,         \* g_live_handles
    storage,      \* the pipeline held by the object at each address, or Freed
    refs,         \* strong references to each pipeline
    built,        \* pipelines built so far
    handle,       \* each thread's pointer variable
    raw,          \* the object a create or destroy call owns, outside the lock
    snapshot,     \* the pipeline a recognize call works with
    pc,
    last_error,   \* g_last_error, by the status it belongs to
    status        \* what the thread's last call returned

callVars == <<pc, last_error, status>>
vars == <<live, storage, refs, built, handle, raw, snapshot, callVars>>

\* The errors the steps tell apart: "provider" stands for all that a factory or
\* a recognition lets out besides the others, as model_load, inference,
\* cancelled, timeout and internal, which invoke_c_api handles alike.
Errors == {"configuration", "invalid_image", "provider", "exhausted"}
NoError == "none"

Init ==
    /\ live = {}
    /\ storage = [a \in Addresses |-> Freed]
    /\ refs = [p \in Pipelines |-> 0]
    /\ built = 0
    /\ handle = [t \in Threads |-> Null]
    /\ raw = [t \in Threads |-> Null]
    /\ snapshot = [t \in Threads |-> Freed]
    /\ pc = [t \in Threads |-> "idle"]
    /\ last_error = [t \in Threads |-> NoError]
    /\ status = [t \in Threads |-> "ok"]

-----------------------------------------------------------------------------
(* invoke_c_api: every call clears the last error of its thread; one that  *)
(* throws stores a message, one that returns a status stores none.         *)

Enter(t, next) ==
    /\ pc' = [pc EXCEPT ![t] = next]
    /\ last_error' = [last_error EXCEPT ![t] = NoError]
    /\ UNCHANGED status

Return(t, s) ==
    /\ pc' = [pc EXCEPT ![t] = "idle"]
    /\ status' = [status EXCEPT ![t] = s]
    /\ last_error' = [last_error EXCEPT ![t] = NoError]

\* Mutant: one string for all threads.
StoreLastErrorGlobal(t, s) == last_error' = [u \in Threads |-> s]

\* A string that cannot grow is cleared instead.
StoreLastError(t, s) ==
    \/ last_error' = [last_error EXCEPT ![t] = s]
    \/ AllocationFails /\ last_error' = [last_error EXCEPT ![t] = NoError]

Throw(t, s) ==
    /\ pc' = [pc EXCEPT ![t] = "idle"]
    /\ status' = [status EXCEPT ![t] = s]
    /\ StoreLastError(t, s)

\* The reference counts after one more, one less owner of p, which may be a
\* shell or nothing.
Retained(p) == [q \in Pipelines |-> IF q = p THEN refs[q] + 1 ELSE refs[q]]
Released(p) == [q \in Pipelines |-> IF q = p THEN refs[q] - 1 ELSE refs[q]]

-----------------------------------------------------------------------------
(* Calls of one step.                                                      *)

GetVersion(t) ==
    /\ pc[t] = "idle"
    /\ Return(t, "ok")
    /\ UNCHANGED <<live, storage, refs, built, handle, raw, snapshot>>

\* A null pointer, a struct of another version, a path that is missing.
RejectArguments(t) ==
    /\ pc[t] = "idle"
    /\ Throw(t, "configuration")
    /\ UNCHANGED <<live, storage, refs, built, handle, raw, snapshot>>

\* A raw handle value reaches another thread; the variable it is read from is
\* not being written.
PassHandle(t, u) ==
    /\ pc[t] = "idle" /\ pc[u] \in {"idle", "recognizing"}
    /\ handle[t] = Null
    /\ handle' = [handle EXCEPT ![t] = handle[u]]
    /\ UNCHANGED <<live, storage, refs, built, raw, snapshot, callVars>>

-----------------------------------------------------------------------------
(* create and create_from_contract.                                        *)

\* The factory throws, or the handle cannot be allocated.
CreateFails(t, s) ==
    /\ pc[t] = "idle" /\ handle[t] = Null
    /\ Throw(t, s)
    /\ UNCHANGED <<live, storage, refs, built, handle, raw, snapshot>>

\* make_handle.
Allocate(t, a, p) ==
    /\ pc[t] = "idle" /\ handle[t] = Null
    /\ storage[a] = Freed
    /\ storage' = [storage EXCEPT ![a] = p]
    /\ refs' = Retained(p)
    /\ raw' = [raw EXCEPT ![t] = a]
    /\ Enter(t, "publishing")
    /\ UNCHANGED <<live, handle, snapshot>>

CreateShell(t, a) == Allocate(t, a, Shell) /\ UNCHANGED built

CreateFromContract(t, a) ==
    /\ built < MaxPipelines
    /\ built' = built + 1
    /\ Allocate(t, a, built + 1)

PublishHandle(t) ==
    /\ pc[t] = "publishing"
    /\ live' = live \cup {raw[t]}
    /\ handle' = [handle EXCEPT ![t] = raw[t]]
    /\ raw' = [raw EXCEPT ![t] = Null]
    /\ Return(t, "ok")
    /\ UNCHANGED <<storage, refs, built, snapshot>>

FreeStorage(t) ==
    /\ storage' = [storage EXCEPT ![raw[t]] = Freed]
    /\ refs' = Released(storage[raw[t]])
    /\ raw' = [raw EXCEPT ![t] = Null]

\* The set cannot grow: the unique_ptr deletes the handle again.
PublishFails(t) ==
    /\ AllocationFails
    /\ pc[t] = "publishing"
    /\ FreeStorage(t)
    /\ Throw(t, "exhausted")
    /\ UNCHANGED <<live, built, handle, snapshot>>

-----------------------------------------------------------------------------
(* destroy.                                                                *)

\* Nothing to destroy: the variable is NULL, or another thread has erased the
\* handle first.
DestroyNothing(t) ==
    /\ pc[t] = "idle"
    /\ handle[t] \notin live
    /\ handle' = [handle EXCEPT ![t] = Null]
    /\ Return(t, "ok")
    /\ UNCHANGED <<live, storage, refs, built, raw, snapshot>>

Erase(t) ==
    /\ pc[t] = "idle"
    /\ handle[t] \in live
    /\ live' = live \ {handle[t]}
    /\ raw' = [raw EXCEPT ![t] = handle[t]]
    /\ Enter(t, "deleting")
    /\ UNCHANGED <<storage, refs, built, handle, snapshot>>

Delete(t) ==
    /\ pc[t] = "deleting"
    /\ FreeStorage(t)
    /\ handle' = [handle EXCEPT ![t] = Null]
    /\ Return(t, "ok")
    /\ UNCHANGED <<live, built, snapshot>>

-----------------------------------------------------------------------------
(* recognize.                                                              *)

LookupFails(t) ==
    /\ pc[t] = "idle"
    /\ handle[t] \notin live
    /\ Throw(t, "configuration")
    /\ UNCHANGED <<live, storage, refs, built, handle, raw, snapshot>>

\* Mutant: the pipeline is borrowed instead of copied.
LookupBorrowed(t) ==
    /\ pc[t] = "idle"
    /\ handle[t] \in live
    /\ snapshot' = [snapshot EXCEPT ![t] = storage[handle[t]]]
    /\ Enter(t, "recognizing")
    /\ UNCHANGED <<live, storage, refs, built, handle, raw>>

\* pipeline_for_live_handle: lookup and copy of the shared_ptr under the mutex.
Lookup(t) ==
    /\ pc[t] = "idle"
    /\ handle[t] \in live
    /\ snapshot' = [snapshot EXCEPT ![t] = storage[handle[t]]]
    /\ refs' = Retained(storage[handle[t]])
    /\ Enter(t, "recognizing")
    /\ UNCHANGED <<live, storage, built, handle, raw>>

DropSnapshot(t) ==
    /\ pc[t] = "recognizing"
    /\ refs' = Released(snapshot[t])
    /\ snapshot' = [snapshot EXCEPT ![t] = Freed]
    /\ UNCHANGED <<live, storage, built, handle, raw>>

\* The image is checked first, then the pipeline is asked if there is one.
RecognizeThrows(t, s) ==
    /\ \/ s = "invalid_image"
       \/ s = "configuration" /\ snapshot[t] = Shell
       \/ s \in {"provider", "exhausted"} /\ snapshot[t] # Shell
    /\ DropSnapshot(t)
    /\ Throw(t, s)

\* serialize_result_v1 reports by its return value, errors included: a buffer
\* too small or misaligned, a number that is not finite, a result too large.
RecognizeReturns(t, s) ==
    /\ snapshot[t] # Shell
    /\ s \in {"ok", "too_small", "configuration", "provider", "exhausted"}
    /\ DropSnapshot(t)
    /\ Return(t, s)

-----------------------------------------------------------------------------

Create(t) ==
    \/ \E s \in Errors \ {"invalid_image"} : CreateFails(t, s)
    \/ \E a \in Addresses : CreateShell(t, a) \/ CreateFromContract(t, a)
    \/ PublishHandle(t) \/ PublishFails(t)

Destroy(t) == DestroyNothing(t) \/ Erase(t) \/ Delete(t)

Recognize(t) ==
    \/ LookupFails(t) \/ Lookup(t)
    \/ \E s \in Errors : RecognizeThrows(t, s)
    \/ \E s \in Errors \cup {"ok", "too_small"} : RecognizeReturns(t, s)

Next ==
    \E t \in Threads :
        \/ GetVersion(t) \/ RejectArguments(t)
        \/ Create(t) \/ Destroy(t) \/ Recognize(t)
        \/ \E u \in Threads \ {t} : PassHandle(t, u)

Spec == Init /\ [][Next]_vars

-----------------------------------------------------------------------------
(* Properties.                                                             *)

Statuses == Errors \cup {"ok", "too_small"}

\* Every variable has its type.
TypeOK ==
    /\ live \subseteq Addresses
    /\ storage \in [Addresses -> Pipelines \cup {Shell, Freed}]
    /\ refs \in [Pipelines -> Nat]
    /\ built \in 0..MaxPipelines
    /\ handle \in [Threads -> Addresses \cup {Null}]
    /\ raw \in [Threads -> Addresses \cup {Null}]
    /\ snapshot \in [Threads -> Pipelines \cup {Shell, Freed}]
    /\ pc \in [Threads -> {"idle", "publishing", "deleting", "recognizing"}]
    /\ last_error \in [Threads -> Errors \cup {NoError}]
    /\ status \in [Threads -> Statuses]

\* Every handle object is in the registry or owned by exactly one create or
\* destroy call, and neither holds one that is freed: no call reads retired
\* storage, nothing is deleted twice or leaked, however raw handles are shared,
\* raced for and reused.
StorageHasOneOwner ==
    /\ \A a \in live : storage[a] # Freed
    /\ \A t \in Threads : raw[t] # Null =>
          /\ storage[raw[t]] # Freed /\ raw[t] \notin live
          /\ \A u \in Threads \ {t} : raw[u] # raw[t]
    /\ \A a \in Addresses : storage[a] # Freed =>
          a \in live \/ \E t \in Threads : raw[t] = a

\* A pipeline is alive as long as, and no longer than, a handle or a
\* recognition in progress refers to it, also when its engine is destroyed
\* during the recognition.
PipelineOutlivesCalls ==
    \A p \in Pipelines :
        refs[p] = Cardinality({a \in Addresses : storage[a] = p})
                    + Cardinality({t \in Threads : snapshot[t] = p})

\* Neither a handle nor a pipeline is freed while a call uses it, or leaked.
NothingFreedInUse == StorageHasOneOwner /\ PipelineOutlivesCalls

\* The last error a thread can read belongs to its own last call: nothing after
\* a success, never what another thread left.
LastErrorIsOwn ==
    \A t \in Threads : pc[t] = "idle" =>
        /\ last_error[t] \in {NoError, status[t]}
        /\ status[t] = "ok" => last_error[t] = NoError

\* docs/c-api-v1.md: a call that fails stores a thread-local diagnostic message
\* (a size query is not counted as a failure here).
FailureLeavesMessage ==
    \A t \in Threads :
        pc[t] = "idle" /\ status[t] \in Errors => last_error[t] # NoError

\* What TLC may exchange: neither threads nor addresses are ever compared.
Symmetry == Permutations(Threads) \cup Permutations(Addresses)
==============================================================================
