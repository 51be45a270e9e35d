---------------------------- MODULE Runtime_proofs ----------------------------
(***************************************************************************)
(* Proofs about what runs beside the pipeline: OnnxInference for any set of*)
(* threads and any number of calls, EngineStartup for any contracts, files *)
(* and replacements, EngineDiagnostics for any number of publishers, and   *)
(* the cache of PaddleOcrAdapter as an implementation of RecencyCache, for *)
(* any threads, keys, answers, capacity and number of failed stores.       *)
(***************************************************************************)
EXTENDS OnnxInference, EngineStartup, PaddleOcrAdapter, CountsAndSums, SequenceTheorems

-----------------------------------------------------------------------------
(* OnnxInference.  InferenceInv is the inductive invariant: the calls under*)
(* the mutex are those the lock names, so between the last byte a call     *)
(* writes into the workspace and the moment the session reads it nobody    *)
(* else writes; and what the session has read stays the call's own.        *)

\* execution_mutex_ names the one call that is under it.
MutexInv == \A t \in Threads : pc[t] \in Holding <=> lock = t

\* From the end of preprocessing on, the workspace or the output is the call's own.
TensorInv ==
    \A t \in Threads : /\ pc[t] = "built" => workspace = call[t]
                       /\ pc[t] = "ran" => output[t] = call[t]

InferenceInv == TypeOK /\ MutexInv /\ TensorInv /\ StoppedWaiterLeaves

\* Every step of the calls, as one action.
CallStep(t) == Begin(t) \/ Step(t) \/ GoBad(t)

\* A new recognizer.
LEMMA InferenceInvInit == Init => InferenceInv
<1> SUFFICES ASSUME Init PROVE InferenceInv OBVIOUS
<1> USE DEF Init
<1>1. TypeOK
    BY DEF TypeOK, Places, InTime
<1>2. MutexInv
    BY InferenceAssumption DEF MutexInv, Holding
<1>3. TensorInv
    BY DEF TensorInv
<1>4. StoppedWaiterLeaves
    BY DEF StoppedWaiterLeaves, InTime
<1> QED BY <1>1, <1>2, <1>3, <1>4 DEF InferenceInv

\* Every step of a call keeps the types.
LEMMA TypeStep ==
    ASSUME TypeOK, NEW t \in Threads, CallStep(t)
    PROVE  TypeOK'
<1> USE DEF TypeOK, Places, InTime, Forget, Move, Good
<1>1. CASE Begin(t)
    BY <1>1 DEF Begin
<1>2. CASE Enter(t)
    BY <1>2 DEF Enter
<1>3. CASE BeginPreprocess(t)
    BY <1>3 DEF BeginPreprocess
<1>4. CASE EndPreprocess(t)
    BY <1>4 DEF EndPreprocess
<1>5. CASE Run(t)
    BY <1>5 DEF Run
<1>6. CASE Leave(t)
    BY <1>6 DEF Leave
<1>7. CASE GoBad(t)
    BY <1>7 DEF GoBad
<1> QED BY <1>1, <1>2, <1>3, <1>4, <1>5, <1>6, <1>7 DEF CallStep, Step, Decode, Fail

\* The mutex is entered only when free and left only by the call that holds it.
LEMMA MutexStep ==
    ASSUME TypeOK, MutexInv, NEW t \in Threads, CallStep(t)
    PROVE  MutexInv'
<1> USE InferenceAssumption DEF TypeOK, MutexInv, Holding, Places, Move, Forget
<1>1. CASE Begin(t)
    BY <1>1 DEF Begin
<1>2. CASE Enter(t)
    BY <1>2 DEF Enter
<1>3. CASE BeginPreprocess(t)
    BY <1>3 DEF BeginPreprocess
<1>4. CASE EndPreprocess(t)
    BY <1>4 DEF EndPreprocess
<1>5. CASE Run(t)
    BY <1>5 DEF Run
<1>6. CASE Leave(t)
    BY <1>6 DEF Leave
<1>7. CASE GoBad(t)
    BY <1>7 DEF GoBad
<1> QED BY <1>1, <1>2, <1>3, <1>4, <1>5, <1>6, <1>7 DEF CallStep, Step, Decode, Fail

\* Only the call under the mutex writes the workspace: all others have read theirs.
LEMMA TensorStep ==
    ASSUME TypeOK, MutexInv, TensorInv, NEW t \in Threads, CallStep(t)
    PROVE  TensorInv'
<1> USE DEF TypeOK, TensorInv, Move, Forget
<1>1. CASE Begin(t)
    BY <1>1 DEF Begin
<1>2. CASE Enter(t)
    BY <1>2 DEF Enter
<1>3. ASSUME pc[t] \in {"locked", "writing"}, NEW u \in Threads, u # t
      PROVE  pc[u] # "built"
    BY <1>3 DEF MutexInv, Holding
<1>4. CASE BeginPreprocess(t)
    BY <1>3, <1>4 DEF BeginPreprocess
<1>5. CASE EndPreprocess(t)
    BY <1>3, <1>5 DEF EndPreprocess
<1>6. CASE Run(t)
    BY <1>6 DEF Run
<1>7. CASE Leave(t)
    BY <1>7 DEF Leave
<1>8. CASE GoBad(t)
    BY <1>8 DEF GoBad
<1> QED BY <1>1, <1>2, <1>4, <1>5, <1>6, <1>7, <1>8 DEF CallStep, Step, Decode, Fail

\* The second look at the context is what sends a stopped waiter away.
LEMMA StoppedStep ==
    ASSUME TypeOK, StoppedWaiterLeaves, NEW t \in Threads, CallStep(t)
    PROVE  StoppedWaiterLeaves'
<1> USE DEF TypeOK, StoppedWaiterLeaves, Places, InTime, Move, Forget, Good
<1>1. CASE Begin(t)
    BY <1>1 DEF Begin
<1>2. CASE Enter(t)
    BY <1>2 DEF Enter
<1>3. CASE BeginPreprocess(t)
    BY <1>3 DEF BeginPreprocess
<1>4. CASE EndPreprocess(t)
    BY <1>4 DEF EndPreprocess
<1>5. CASE Run(t)
    BY <1>5 DEF Run
<1>6. CASE Leave(t)
    BY <1>6 DEF Leave
<1>7. CASE GoBad(t)
    BY <1>7 DEF GoBad
<1> QED BY <1>1, <1>2, <1>3, <1>4, <1>5, <1>6, <1>7 DEF CallStep, Step, Decode, Fail

\* The invariant is inductive.
LEMMA InferenceInvStep == InferenceInv /\ [Next]_vars => InferenceInv'
<1> SUFFICES ASSUME InferenceInv, [Next]_vars PROVE InferenceInv'
    OBVIOUS
<1>1. CASE UNCHANGED vars
    BY <1>1 DEF InferenceInv, TypeOK, MutexInv, TensorInv, StoppedWaiterLeaves, vars
<1>2. ASSUME NEW t \in Threads, CallStep(t) PROVE InferenceInv'
    BY <1>2, TypeStep, MutexStep, TensorStep, StoppedStep DEF InferenceInv
<1> QED BY <1>1, <1>2 DEF Next, Finished, CallStep

\* Whatever the calls of one recognizer do, who is under the execution mutex and whose
\* tensor the workspace holds go together.
THEOREM InferenceInvariant == Spec => []InferenceInv
BY InferenceInvInit, InferenceInvStep, PTL DEF Spec

\* detect and recognize parse the output of their own tensor, for any number of
\* threads that share the session and its workspace and for any pattern of failures.
THEOREM OwnTensorIsRead == Spec => []ReadsOwnTensor
<1>1. InferenceInv => ReadsOwnTensor
    BY DEF InferenceInv, TensorInv, ReadsOwnTensor
<1> QED BY <1>1, InferenceInvariant, PTL

\* A call whose context went bad in the queue for execution_mutex_ does no work.
THEOREM StoppedWaitersLeave == Spec => []StoppedWaiterLeaves
BY InferenceInvariant, PTL DEF InferenceInv

-----------------------------------------------------------------------------
(* EngineStartup.  What each phase of the startup can rely on is written   *)
(* down for that phase and all that follow it; the figures of the engine   *)
(* play no part until it serves.                                           *)

\* The phases from a step of the factory on.
AfterRead == {"resolve", "loadDetector", "loadRecognizer", "assemble", "readAgain",
              "verifyDetector", "verifyRecognizer", "register", "selfTest", "tested",
              "serving"}
AfterResolve == AfterRead \ {"resolve"}
AfterLoad(role) ==
    AfterResolve \ IF role = "detector" THEN {"loadDetector"}
                   ELSE {"loadDetector", "loadRecognizer"}
AfterAssemble == AfterLoad("recognizer") \ {"assemble"}
AfterVerify(role) ==
    AfterAssemble \ IF role = "detector" THEN {"readAgain", "verifyDetector"}
                    ELSE {"readAgain", "verifyDetector", "verifyRecognizer"}
AfterRegister == {"selfTest", "tested", "serving"}
AfterTest == {"tested", "serving"}
Phases == AfterRead \cup {"readContract", "refused"}

RolesOf(models) == {m.role : m \in models}

\* The sessions fit their roles, the models shown are of both roles, and the
\* engine is ready only after an inference with each session.
BuildInv ==
    /\ phase \in Phases
    /\ DOMAIN metadata = {"readiness", "models"}
    /\ DOMAIN loaded = Roles
    /\ phase \in AfterAssemble => \A r \in Roles : r \in loaded[r].fits
    /\ RolesOf(verified) \subseteq Roles
    /\ \A r \in Roles : phase \in AfterVerify(r) \ {"serving"} => r \in RolesOf(verified)
    /\ phase \in AfterRegister => RolesOf(metadata.models) = Roles
    /\ phase \in AfterTest /\ metadata.readiness # "failed" =>
         metadata.readiness = "ready" /\ \A r \in Roles : loaded[r].infers
    /\ phase = "serving" => metadata.readiness # "failed"

\* While nobody replaces a file, every read of it gives the same.
PinnedInv ==
    /\ replacements \in Nat
    /\ replacements = 0 =>
         /\ phase \in AfterRead \ {"serving"} => manifest = contract
         /\ \A r \in Roles :
              /\ phase \in AfterResolve => contract[r].model \notin Escaping
              /\ phase \in AfterLoad(r) => loaded[r] = files[contract[r].model]
              /\ phase \in AfterVerify(r) =>
                   files[contract[r].model].sha256 = contract[r].sha256

\* What has been verified is what the manifest pins, the contract as it was when it
\* was read for the second time, and the metadata show that.
ShownInv ==
    /\ contract \in Contracts \cup {Unreadable}
    /\ phase \notin AfterVerify("detector") \cup {"verifyDetector", "refused"} => verified = {}
    /\ phase \in {"verifyDetector", "verifyRecognizer", "register"} =>
         manifest \in Contracts /\ verified \subseteq ShownFor(manifest)
    /\ phase \in AfterRegister => \E entries \in Contracts : metadata.models = ShownFor(entries)

Loads == {"accepted", "review", "rejected", "failures", Rest}

\* A snapshot is of an engine that serves, and ends with the copy of the rest.
SnapshotInv ==
    /\ snapshots \in Nat /\ reading \in Seq(Loads)
    /\ phase # "serving" => reading = <<>> /\ snapshots = 0
    /\ reading # <<>> => reading[Len(reading)] = Rest
    /\ reading = <<>> /\ snapshots > 0 =>
         /\ shown.metadata.readiness = "ready"
         /\ \E entries \in Contracts : shown.metadata.models = ShownFor(entries)

StartupInv == BuildInv /\ PinnedInv /\ ShownInv /\ SnapshotInv

\* The invariant holds before the contract is read.
LEMMA StartupInvInit == StartupInit => StartupInv
<1> SUFFICES ASSUME StartupInit PROVE StartupInv OBVIOUS
<1>1. BuildInv
    BY DEF StartupInit, DiagnosticsInit, Unset, BuildInv, Phases, AfterRead, AfterResolve,
        AfterLoad, AfterAssemble, AfterVerify, AfterRegister, AfterTest, RolesOf
<1>2. PinnedInv
    BY DEF StartupInit, PinnedInv, AfterRead, AfterResolve, AfterLoad, AfterAssemble,
        AfterVerify
<1>3. SnapshotInv
    BY DEF StartupInit, DiagnosticsInit, SnapshotInv
<1>4. ShownInv
    BY DEF StartupInit, ShownInv, AfterRegister
<1> QED BY <1>1, <1>2, <1>3, <1>4 DEF StartupInv

\* The steps of the factory, as one action.
FactoryStep ==
    \/ ReadContract \/ ResolvePaths
    \/ LoadSession("detector", "loadDetector", "loadRecognizer")
    \/ LoadSession("recognizer", "loadRecognizer", "assemble")
    \/ Assemble \/ ReadManifest
    \/ Verify("detector", "verifyDetector", "verifyRecognizer")
    \/ Verify("recognizer", "verifyRecognizer", "register")
    \/ Register \/ SelfTest \/ HandOut

\* The factory goes from phase to phase, and each phase finds what the earlier ones
\* have established.
LEMMA BuildStep ==
    ASSUME BuildInv, FactoryStep
    PROVE  BuildInv'
<1> USE DEF At, AfterRead, AfterResolve, AfterLoad, AfterAssemble, AfterVerify,
            AfterRegister, AfterTest, Phases, Roles
<1>1. CASE ReadContract \/ ResolvePaths \/ ReadManifest
    BY <1>1 DEF ReadContract, ResolvePaths, ReadManifest, BuildInv, buildVars,
        diagnosticsVars
<1>2. CASE LoadSession("detector", "loadDetector", "loadRecognizer")
    BY <1>2 DEF LoadSession, BuildInv, diagnosticsVars
<1>3. CASE LoadSession("recognizer", "loadRecognizer", "assemble")
    BY <1>3 DEF LoadSession, BuildInv, diagnosticsVars
<1>4. CASE Assemble
    BY <1>4 DEF Assemble, BuildInv, buildVars, diagnosticsVars
<1>5. ASSUME NEW r \in Roles, NEW entry, entry.role = r, verified' = verified \cup {entry}
      PROVE  RolesOf(verified') = RolesOf(verified) \cup {r}
    BY <1>5 DEF RolesOf
<1>6. CASE Verify("detector", "verifyDetector", "verifyRecognizer")
  <2>1. RolesOf(verified') = RolesOf(verified) \cup {"detector"}
    <3> DEFINE entry == [role |-> "detector", sha256 |-> manifest["detector"].sha256,
                         integrity_verified |-> TRUE]
    <3>1. entry.role = "detector" /\ verified' = verified \cup {entry}
        BY <1>6 DEF Verify
    <3> HIDE DEF entry
    <3> QED BY <1>5, <3>1
  <2> QED BY <1>6, <2>1 DEF Verify, BuildInv, diagnosticsVars
<1>7. CASE Verify("recognizer", "verifyRecognizer", "register")
  <2>1. RolesOf(verified') = RolesOf(verified) \cup {"recognizer"}
    <3> DEFINE entry == [role |-> "recognizer", sha256 |-> manifest["recognizer"].sha256,
                         integrity_verified |-> TRUE]
    <3>1. entry.role = "recognizer" /\ verified' = verified \cup {entry}
        BY <1>7 DEF Verify
    <3> HIDE DEF entry
    <3> QED BY <1>5, <3>1
  <2> QED BY <1>7, <2>1 DEF Verify, BuildInv, diagnosticsVars
<1>8. CASE Register
  <2>1. /\ phase = "register" /\ phase' = "selfTest" /\ UNCHANGED <<loaded, verified>>
        /\ metadata' = [metadata EXCEPT !["models"] = verified]
      BY <1>8 DEF Register, Set, buildVars
  <2>2. RolesOf(verified) = Roles
      BY <2>1 DEF BuildInv
  <2>3. DOMAIN metadata' = {"readiness", "models"} /\ metadata'.models = verified
      BY <2>1 DEF BuildInv
  <2> QED BY <2>1, <2>2, <2>3 DEF BuildInv
<1>9. CASE SelfTest
  <2> DEFINE report == IF \A c \in DOMAIN Checks : Checks[c] THEN "ready" ELSE "failed"
  <2>1. /\ phase = "selfTest" /\ phase' = "tested" /\ UNCHANGED <<loaded, verified>>
        /\ metadata' = [metadata EXCEPT !["readiness"] = report]
      BY <1>9 DEF SelfTest, Set, buildVars
  <2>2. report # "failed" => report = "ready" /\ \A r \in Roles : loaded[r].infers
      BY DEF Checks
  <2> HIDE DEF report
  <2>3. /\ DOMAIN metadata' = {"readiness", "models"}
        /\ metadata'.readiness = report /\ metadata'.models = metadata.models
      BY <2>1 DEF BuildInv
  <2> QED BY <2>1, <2>2, <2>3 DEF BuildInv
<1>10. CASE HandOut
    BY <1>10 DEF HandOut, BuildInv, diagnosticsVars, RolesOf
<1> QED BY <1>1, <1>2, <1>3, <1>4, <1>6, <1>7, <1>8, <1>9, <1>10 DEF FactoryStep

\* While the files rest, what a phase read is what the next one reads.
LEMMA PinnedStep ==
    ASSUME BuildInv, PinnedInv, FactoryStep
    PROVE  PinnedInv'
<1> USE DEF At, AfterRead, AfterResolve, AfterLoad, AfterAssemble, AfterVerify, Roles,
            fileVars
<1>0. /\ UNCHANGED <<contract, files, replacements>>
    BY DEF FactoryStep, ReadContract, ResolvePaths, LoadSession, Assemble, ReadManifest,
        Verify, Register, SelfTest, HandOut
<1>1. CASE ReadContract \/ ReadManifest
    BY <1>0, <1>1 DEF ReadContract, ReadManifest, PinnedInv
<1>2. CASE ResolvePaths
    BY <1>0, <1>2 DEF ResolvePaths, SafePath, PinnedInv, buildVars
<1>3. CASE LoadSession("detector", "loadDetector", "loadRecognizer")
  <2>1. /\ phase = "loadDetector" /\ phase' \in {"loadRecognizer", "refused"}
        /\ UNCHANGED manifest
        /\ loaded' = [loaded EXCEPT !["detector"] = files[manifest["detector"].model]]
      BY <1>3 DEF LoadSession
  <2>2. loaded'["detector"] = files[manifest["detector"].model]
      BY <2>1 DEF BuildInv
  <2> QED BY <1>0, <2>1, <2>2 DEF PinnedInv
<1>4. CASE LoadSession("recognizer", "loadRecognizer", "assemble")
  <2>1. /\ phase = "loadRecognizer" /\ phase' \in {"assemble", "refused"}
        /\ UNCHANGED manifest
        /\ loaded' = [loaded EXCEPT !["recognizer"] = files[manifest["recognizer"].model]]
      BY <1>4 DEF LoadSession
  <2>2. /\ loaded'["recognizer"] = files[manifest["recognizer"].model]
        /\ loaded'["detector"] = loaded["detector"]
      BY <2>1 DEF BuildInv
  <2> QED BY <1>0, <2>1, <2>2 DEF PinnedInv
<1>5. CASE Verify("detector", "verifyDetector", "verifyRecognizer")
    BY <1>0, <1>5 DEF Verify, PinnedInv
<1>6. CASE Verify("recognizer", "verifyRecognizer", "register")
    BY <1>0, <1>6 DEF Verify, PinnedInv
<1>7. CASE Assemble \/ Register \/ SelfTest \/ HandOut
    BY <1>0, <1>7 DEF Assemble, Register, SelfTest, HandOut, PinnedInv, buildVars
<1> QED BY <1>1, <1>2, <1>3, <1>4, <1>5, <1>6, <1>7 DEF FactoryStep

\* The entries are verified one after the other against the manifest.
LEMMA ShownStep ==
    ASSUME BuildInv, ShownInv, FactoryStep
    PROVE  ShownInv'
<1> USE DEF At, AfterRead, AfterResolve, AfterLoad, AfterAssemble, AfterVerify,
            AfterRegister, fileVars
<1>0. UNCHANGED contract
    BY DEF FactoryStep, ReadContract, ResolvePaths, LoadSession, Assemble, ReadManifest,
        Verify, Register, SelfTest, HandOut
<1>1. CASE ReadContract \/ ResolvePaths \/ Assemble
    BY <1>0, <1>1 DEF ReadContract, ResolvePaths, Assemble, ShownInv, buildVars
<1>2. CASE \/ LoadSession("detector", "loadDetector", "loadRecognizer")
           \/ LoadSession("recognizer", "loadRecognizer", "assemble")
    BY <1>0, <1>2 DEF LoadSession, ShownInv
<1>3. CASE ReadManifest
    BY <1>0, <1>3 DEF ReadManifest, ShownInv
<1>4. ASSUME NEW r \in Roles,
             verified' = verified \cup {[role |-> r, sha256 |-> manifest[r].sha256,
                                        integrity_verified |-> TRUE]},
             UNCHANGED manifest, verified \subseteq ShownFor(manifest)
      PROVE  verified' \subseteq ShownFor(manifest')
    BY <1>4, Zenon DEF ShownFor
<1>5. CASE Verify("detector", "verifyDetector", "verifyRecognizer")
  <2>1. /\ phase = "verifyDetector" /\ phase' \in {"verifyRecognizer", "refused"}
        /\ UNCHANGED manifest
      BY <1>5 DEF Verify
  <2>2. verified' \subseteq ShownFor(manifest')
      BY <1>4, <1>5, <2>1 DEF Verify, ShownInv, Roles
  <2> QED BY <1>0, <2>1, <2>2 DEF ShownInv
<1>6. CASE Verify("recognizer", "verifyRecognizer", "register")
  <2>1. /\ phase = "verifyRecognizer" /\ phase' \in {"register", "refused"}
        /\ UNCHANGED manifest
      BY <1>6 DEF Verify
  <2>2. verified' \subseteq ShownFor(manifest')
      BY <1>4, <1>6, <2>1 DEF Verify, ShownInv, Roles
  <2> QED BY <1>0, <2>1, <2>2 DEF ShownInv
<1>7. CASE Register
  <2>1. /\ phase = "register" /\ phase' = "selfTest"
        /\ metadata' = [metadata EXCEPT !["models"] = verified]
      BY <1>7 DEF Register, Set
  <2>2. metadata'.models = verified
      BY <2>1 DEF BuildInv
  <2>3. manifest \in Contracts /\ verified \subseteq ShownFor(manifest)
      BY <2>1 DEF ShownInv
  <2>4. \A r \in Roles : r \in RolesOf(verified)
      BY <2>1 DEF BuildInv, Roles
  <2>5. ShownFor(manifest) \subseteq verified
    <3> SUFFICES ASSUME NEW r \in Roles
                 PROVE  [role |-> r, sha256 |-> manifest[r].sha256,
                         integrity_verified |-> TRUE] \in verified
        BY DEF ShownFor
    <3>1. PICK m \in verified : m.role = r
        BY <2>4 DEF RolesOf
    <3>2. PICK s \in Roles : m = [role |-> s, sha256 |-> manifest[s].sha256,
                                  integrity_verified |-> TRUE]
        BY <2>3, <3>1 DEF ShownFor
    <3> QED BY <3>1, <3>2
  <2>6. verified = ShownFor(manifest)
      BY <2>3, <2>5
  <2> QED BY <1>0, <2>1, <2>2, <2>3, <2>6 DEF ShownInv
<1>8. CASE SelfTest
  <2>1. /\ phase = "selfTest" /\ phase' = "tested"
        /\ \E report : metadata' = [metadata EXCEPT !["readiness"] = report]
      BY <1>8 DEF SelfTest, Set
  <2>2. metadata'.models = metadata.models
      BY <2>1 DEF BuildInv
  <2> QED BY <1>0, <2>1, <2>2 DEF ShownInv
<1>9. CASE HandOut
    BY <1>0, <1>9 DEF HandOut, ShownInv, diagnosticsVars
<1> QED BY <1>1, <1>2, <1>3, <1>5, <1>6, <1>7, <1>8, <1>9 DEF FactoryStep

\* Replacing a file changes nothing of what was read, and is remembered; serving
\* changes neither.
LEMMA OthersKeepBuild ==
    ASSUME BuildInv, PinnedInv, ShownInv,
           Replace \/ Serve \/ Idle \/ UNCHANGED startupVars
    PROVE  BuildInv' /\ PinnedInv' /\ ShownInv'
<1>1. UNCHANGED <<phase, manifest, loaded, verified, metadata>>
    BY DEF Replace, Serve, Idle, BeginPublish, Record, BeginSnapshot, Load, startupVars,
        buildVars, diagnosticsVars
<1>2. \/ UNCHANGED <<contract, files, replacements>>
      \/ replacements' = replacements + 1
    BY DEF Replace, Serve, Idle, startupVars, fileVars
<1>3. BuildInv'
    BY <1>1 DEF BuildInv
<1>4. PinnedInv'
    BY <1>1, <1>2 DEF PinnedInv
<1>5. contract' = contract \/ contract' \in Contracts \cup {Unreadable}
    BY DEF Replace, Serve, Idle, startupVars, fileVars
<1>6. ShownInv'
    BY <1>1, <1>5 DEF ShownInv
<1> QED BY <1>3, <1>4, <1>6

\* The last thing a snapshot does is copy what the startup has set.
LEMMA SnapshotStep ==
    ASSUME StartupInv, [StartupNext]_startupVars
    PROVE  SnapshotInv'
<1>1. CASE FactoryStep
  <2>1. phase # "serving" /\ UNCHANGED snapshotVars
      BY <1>1 DEF FactoryStep, At, ReadContract, ResolvePaths, LoadSession, Assemble,
          ReadManifest, Verify, Register, SelfTest, HandOut, Set, diagnosticsVars
  <2> QED BY <2>1 DEF StartupInv, SnapshotInv, snapshotVars
<1>2. CASE Replace \/ Idle \/ UNCHANGED startupVars
  <2>1. UNCHANGED <<phase, snapshotVars>>
      BY <1>2 DEF Replace, Idle, startupVars, diagnosticsVars
  <2> QED BY <2>1 DEF StartupInv, SnapshotInv, snapshotVars
<1>3. ASSUME NEW p \in Publishers, phase = "serving", UNCHANGED phase,
             (\E r \in Results : BeginPublish(p, r)) \/ Record(p)
      PROVE  SnapshotInv'
    BY <1>3 DEF BeginPublish, Record, StartupInv, SnapshotInv, snapshotVars
<1>4. CASE phase = "serving" /\ BeginSnapshot /\ UNCHANGED phase
  <2>1. Counters \in Seq(Loads) /\ Rest \in Loads
      BY DEF Counters, Loads
  <2>2. /\ Append(Counters, Rest) \in Seq(Loads)
        /\ Len(Append(Counters, Rest)) = Len(Counters) + 1
        /\ Append(Counters, Rest)[Len(Counters) + 1] = Rest
      BY ONLY <2>1
  <2>3. /\ reading' = Append(Counters, Rest) /\ reading' # <<>>
        /\ snapshots' = snapshots + 1 /\ snapshots \in Nat
      BY <1>4, <2>1, <2>2 DEF BeginSnapshot, StartupInv, SnapshotInv
  <2> QED BY <1>4, <2>2, <2>3 DEF SnapshotInv
<1>5. CASE phase = "serving" /\ Load /\ UNCHANGED phase
  <2>1. /\ reading # <<>> /\ reading' = Tail(reading) /\ reading \in Seq(Loads)
        /\ reading[Len(reading)] = Rest /\ snapshots' = snapshots /\ snapshots \in Nat
      BY <1>5 DEF Load, StartupInv, SnapshotInv
  <2>2. /\ Len(reading) \in Nat \ {0} /\ Tail(reading) \in Seq(Loads)
        /\ Len(Tail(reading)) = Len(reading) - 1
        /\ \A i \in 1..(Len(reading) - 1) : Tail(reading)[i] = reading[i + 1]
        /\ Head(reading) = reading[1]
      BY ONLY <2>1
  <2>2a. reading' = <<>> => Head(reading) = Rest
    <3>1. reading' = <<>> => Len(reading') = 0
        OBVIOUS
    <3> QED BY ONLY <2>1, <2>2, <3>1
  <2>2b. reading' # <<>> => reading'[Len(reading')] = Rest
    <3> SUFFICES ASSUME reading' # <<>> PROVE reading'[Len(reading')] = Rest OBVIOUS
    <3>1. Len(reading') \in Nat \ {0}
        BY ONLY <2>1, <2>2, reading' # <<>>
    <3> QED BY ONLY <2>1, <2>2, <3>1
  <2>3. reading' = <<>> => shown'.metadata = metadata
      BY <1>5, <2>2a DEF Load
  <2>4. /\ metadata.readiness = "ready"
        /\ \E entries \in Contracts : metadata.models = ShownFor(entries)
      BY <1>5 DEF StartupInv, BuildInv, ShownInv, AfterTest, AfterRegister
  <2> QED BY <1>5, <2>1, <2>2, <2>2b, <2>3, <2>4 DEF SnapshotInv
<1> QED BY <1>1, <1>2, <1>3, <1>4, <1>5 DEF StartupNext, FactoryStep, Serve

\* StartupInv is inductive.
THEOREM StartupInvariant == StartupSpec => []StartupInv
<1>1. StartupInv /\ [StartupNext]_startupVars => StartupInv'
  <2> SUFFICES ASSUME StartupInv, [StartupNext]_startupVars PROVE StartupInv' OBVIOUS
  <2>1. BuildInv' /\ PinnedInv' /\ ShownInv'
      BY BuildStep, PinnedStep, ShownStep, OthersKeepBuild
      DEF StartupInv, StartupNext, FactoryStep
  <2> QED BY <2>1, SnapshotStep DEF StartupInv
<1> QED BY StartupInvInit, <1>1, PTL DEF StartupSpec

\* Whoever replaces a file, and whenever, what serves has been through an inference
\* with the sessions it keeps, and every snapshot shows a ready engine and the
\* checksums that one contract pins; and if nobody did, the sessions are made of the
\* bytes that the contract pins.
THEOREM ServesTested == StartupSpec => []ServesWhatWasTested
<1>1. StartupInv => ServesWhatWasTested
  <2> SUFFICES ASSUME StartupInv PROVE ServesWhatWasTested OBVIOUS
  <2> USE DEF AfterRead, AfterResolve, AfterLoad, AfterAssemble, AfterVerify, AfterRegister,
              AfterTest
  <2>1. ServingIsReady
      BY DEF StartupInv, BuildInv, SnapshotInv, ServingIsReady
  <2>2. ServesPinnedModels
      BY DEF StartupInv, PinnedInv, ServesPinnedModels
  <2> QED BY <2>1, <2>2 DEF ServesWhatWasTested
<1> QED BY StartupInvariant, <1>1, PTL

-----------------------------------------------------------------------------
(* EngineDiagnostics.  FiguresInv is the inductive invariant: every measure*)
(* is what the calls that have ended and the parts of those in progress add*)
(* up to, and a figure that the snapshot has read lies between the ended   *)
(* calls at its beginning and the measure.                                 *)

Records == Measures \X Nat

\* What some of the records add to a measure.
Amount(records, m) ==
    [i \in DOMAIN records |-> IF records[i][1] = m THEN records[i][2] ELSE 0]
PartOf(records, S, m) == SumFunctionOnSet(Amount(records, m), S)

\* Of the result a publisher is at: what it has recorded, and what it has not yet.
Made(p, m) ==
    IF done[p] < Len(result[p]) THEN PartOf(result[p], 1..done[p], m) ELSE 0
Pending(p, m) == PartOf(result[p], (done[p] + 1)..Len(result[p]), m)
MadeOf(m) == [p \in Publishers |-> Made(p, m)]
PendingOf(m) == [p \in Publishers |-> Pending(p, m)]
AllMade(m) == SumFunctionOnSet(MadeOf(m), Publishers)
AllPending(m) == SumFunctionOnSet(PendingOf(m), Publishers)

Unread == {reading[i] : i \in DOMAIN reading}
Read(m) == (IF m \in Stages THEN Rest ELSE m) \notin Unread

FigureTypes ==
    /\ recorded \in [Measures -> Nat] /\ begun \in [Measures -> Nat]
    /\ finished \in [Measures -> Nat] /\ floor \in [Measures -> Nat]
    /\ shown.figures \in [Measures -> Nat]
    /\ reading \in Seq(Loads)
    /\ result \in [Publishers -> Seq(Records)] /\ done \in [Publishers -> Nat]
    /\ \A p \in Publishers : done[p] <= Len(result[p])

Balance(m) ==
    /\ recorded[m] = finished[m] + AllMade(m)
    /\ begun[m] = recorded[m] + AllPending(m)
Between(m) ==
    /\ floor[m] <= finished[m]
    /\ Read(m) => floor[m] <= shown.figures[m] /\ shown.figures[m] <= recorded[m]

FiguresInv == FigureTypes /\ \A m \in Measures : Balance(m) /\ Between(m)

\* The measures are the four counters and the stages.
LEMMA MeasuresAre ==
    /\ Measures = {"accepted", "review", "rejected", "failures"} \cup Stages
    /\ Rest \notin Measures
<1>1. ToSet(Counters) = {"accepted", "review", "rejected", "failures"}
  <2>1. DOMAIN Counters = 1..4
      BY DEF Counters
  <2>2. /\ Counters[1] = "accepted" /\ Counters[2] = "review"
        /\ Counters[3] = "rejected" /\ Counters[4] = "failures"
      BY DEF Counters
  <2>3. ToSet(Counters) = {Counters[i] : i \in 1..4}
      BY <2>1 DEF ToSet
  <2> HIDE DEF Counters
  <2> QED BY ONLY <2>2, <2>3
<1> QED BY <1>1, DiagnosticsAssumption DEF Measures, Rest

\* The records of a result name measures and natural amounts; there is always that
\* of its failures.
LEMMA RecordsTyped ==
    ASSUME NEW r \in Results
    PROVE  RecordsOf(r) \in Seq(Records) /\ Len(RecordsOf(r)) \in Nat \ {0}
<1> DEFINE One == [i \in DOMAIN r.statuses |-> <<r.statuses[i], 1>>]
           Middle == <<<<"failures", r.failures>>>>
           Third == [i \in DOMAIN r.timings |-> <<r.timings[i], 1>>]
<1>1. /\ r.statuses \in Seq({"accepted", "review", "rejected"})
      /\ r.failures \in Nat /\ r.timings \in Seq(Stages)
    BY DiagnosticsAssumption
<1>2. One \in Seq(Records)
  <2>1. \A i \in DOMAIN r.statuses : <<r.statuses[i], 1>> \in Records
      BY <1>1, MeasuresAre DEF Records
  <2>2. DOMAIN r.statuses = 1..Len(r.statuses) /\ Len(r.statuses) \in Nat
      BY <1>1
  <2>3. One \in [1..Len(r.statuses) -> Records]
      BY <2>1, <2>2
  <2> HIDE DEF One
  <2> QED BY ONLY <2>2, <2>3
<1>3. Middle \in Seq(Records) /\ Len(Middle) = 1
  <2>1. <<"failures", r.failures>> \in Records
      BY <1>1, MeasuresAre DEF Records
  <2> QED BY ONLY <2>1
<1>4. Third \in Seq(Records)
  <2>1. \A i \in DOMAIN r.timings : <<r.timings[i], 1>> \in Records
      BY <1>1, MeasuresAre DEF Records
  <2>2. DOMAIN r.timings = 1..Len(r.timings) /\ Len(r.timings) \in Nat
      BY <1>1
  <2>3. Third \in [1..Len(r.timings) -> Records]
      BY <2>1, <2>2
  <2> HIDE DEF Third
  <2> QED BY ONLY <2>2, <2>3
<1>5. RecordsOf(r) = One \o Middle \o Third
    BY DEF RecordsOf
<1> HIDE DEF One, Middle, Third
<1> QED BY ONLY <1>2, <1>3, <1>4, <1>5

\* Any part of the records adds a natural number.
LEMMA AmountIs ==
    ASSUME NEW records \in Seq(Records), NEW m
    PROVE  /\ DOMAIN Amount(records, m) = 1..Len(records)
           /\ \A i \in 1..Len(records) :
                /\ Amount(records, m)[i] \in Nat
                /\ Amount(records, m)[i] = IF records[i][1] = m THEN records[i][2] ELSE 0
<1>1. DOMAIN records = 1..Len(records) /\ \A i \in 1..Len(records) : records[i] \in Records
    OBVIOUS
<1> QED BY <1>1 DEF Amount, Records

\* The parts on either side of a record.
LEMMA PartsSplit ==
    ASSUME NEW records \in Seq(Records), NEW m, NEW n \in Nat, n < Len(records)
    PROVE  /\ PartOf(records, 1..n, m) \in Nat
           /\ PartOf(records, (n + 2)..Len(records), m) \in Nat
           /\ PartOf(records, 1..(n + 1), m) = PartOf(records, 1..n, m) + Amount(records, m)[n + 1]
           /\ PartOf(records, (n + 1)..Len(records), m) =
                PartOf(records, (n + 2)..Len(records), m) + Amount(records, m)[n + 1]
<1> DEFINE f == Amount(records, m)
           L == Len(records)
<1>1. L \in Nat /\ n < L /\ \A i \in 1..L : f[i] \in Nat
    BY AmountIs
<1>2. /\ IsFiniteSet(1..n) /\ (n + 1) \notin 1..n /\ 1..(n + 1) = (1..n) \cup {n + 1}
      /\ IsFiniteSet((n + 2)..L) /\ (n + 1) \notin (n + 2)..L
      /\ (n + 1)..L = ((n + 2)..L) \cup {n + 1}
  <2>1. IsFiniteSet(1..n) /\ IsFiniteSet((n + 2)..L)
      BY <1>1, FS_Interval
  <2> HIDE DEF f, L
  <2> QED BY <1>1, <2>1
<1>3. n + 1 \in 1..L /\ 1..n \subseteq 1..L /\ (n + 2)..L \subseteq 1..L
    BY <1>1
<1> HIDE DEF f, L
<1>4. /\ SumFunctionOnSet(f, (1..n) \cup {n + 1}) = SumFunctionOnSet(f, 1..n) + f[n + 1]
      /\ SumFunctionOnSet(f, 1..n) \in Nat
  <2>1. \A y \in (1..n) \cup {n + 1} : f[y] \in Nat
      BY <1>1, <1>3
  <2> QED BY <1>2, <2>1, SumAdd
<1>5. /\ SumFunctionOnSet(f, ((n + 2)..L) \cup {n + 1}) = SumFunctionOnSet(f, (n + 2)..L) + f[n + 1]
      /\ SumFunctionOnSet(f, (n + 2)..L) \in Nat
  <2>1. \A y \in ((n + 2)..L) \cup {n + 1} : f[y] \in Nat
      BY <1>1, <1>3
  <2> QED BY <1>2, <2>1, SumAdd
<1> QED BY <1>2, <1>4, <1>5 DEF PartOf, f, L

\* All the records together, and none of them.
LEMMA PartsAtEnds ==
    ASSUME NEW records \in Seq(Records), NEW m
    PROVE  /\ Total(records, m) = PartOf(records, 1..Len(records), m)
           /\ Total(records, m) \in Nat
           /\ PartOf(records, 1..0, m) = 0
           /\ PartOf(records, (Len(records) + 1)..Len(records), m) = 0
<1> DEFINE f == Amount(records, m)
           L == Len(records)
<1>1. L \in Nat /\ (\A i \in 1..L : f[i] \in Nat) /\ DOMAIN f = 1..L
    BY AmountIs
<1>2. Total(records, m) = SumFunction(f)
    BY DEF Total, Amount
<1> HIDE DEF f, L
<1>3. Total(records, m) = SumFunctionOnSet(f, 1..L)
    BY <1>1, <1>2 DEF SumFunction, SumFunctionOnSet, FoldFunction
<1>4. IsFiniteSet(1..L)
    BY <1>1, FS_Interval
<1>5. Total(records, m) \in Nat
    BY <1>1, <1>3, <1>4, SumNat
<1>6. 1..0 = {} /\ (L + 1)..L = {}
    BY <1>1
<1> QED BY <1>3, <1>5, <1>6, SumEmpty DEF PartOf, f, L

\* What a publisher has recorded, and has not yet, are natural numbers.
LEMMA MadeNat ==
    ASSUME FigureTypes, NEW p \in Publishers, NEW m
    PROVE  Made(p, m) \in Nat /\ Pending(p, m) \in Nat
<1>1. result[p] \in Seq(Records) /\ done[p] \in Nat /\ done[p] <= Len(result[p])
    BY DEF FigureTypes
<1>2. CASE done[p] < Len(result[p])
  <2>1. /\ PartOf(result[p], 1..done[p], m) \in Nat
        /\ PartOf(result[p], (done[p] + 1)..Len(result[p]), m) =
             PartOf(result[p], (done[p] + 2)..Len(result[p]), m)
                + Amount(result[p], m)[done[p] + 1]
        /\ PartOf(result[p], (done[p] + 2)..Len(result[p]), m) \in Nat
      BY <1>1, <1>2, PartsSplit
  <2>2. Amount(result[p], m)[done[p] + 1] \in Nat
      BY <1>1, <1>2, AmountIs
  <2> QED BY <1>2, <2>1, <2>2 DEF Made, Pending
<1>3. CASE done[p] = Len(result[p])
    BY <1>1, <1>3, PartsAtEnds DEF Made, Pending
<1> QED BY <1>1, <1>2, <1>3

\* The sums over the publishers are natural, and move with the one that moves.
LEMMA SumsNat == ASSUME FigureTypes, NEW m PROVE AllMade(m) \in Nat /\ AllPending(m) \in Nat
<1> DEFINE F == MadeOf(m)
           G == PendingOf(m)
<1>1. \A p \in Publishers : F[p] \in Nat /\ G[p] \in Nat
    BY MadeNat DEF MadeOf, PendingOf
<1> HIDE DEF F, G
<1> QED BY <1>1, DiagnosticsAssumption, SumNat DEF AllMade, AllPending, F, G

\* A step of one publisher changes the two sums by what it changes of its own terms.
LEMMA OneMoves ==
    ASSUME FigureTypes, NEW p \in Publishers, NEW m,
           Made(p, m)' \in Nat, Pending(p, m)' \in Nat,
           \A q \in Publishers \ {p} : done'[q] = done[q] /\ result'[q] = result[q]
    PROVE  /\ AllMade(m)' + Made(p, m) = AllMade(m) + Made(p, m)'
           /\ AllPending(m)' + Pending(p, m) = AllPending(m) + Pending(p, m)'
           /\ AllMade(m)' \in Nat /\ AllPending(m)' \in Nat
<1> DEFINE F == MadeOf(m)
           G == MadeOf(m)'
           H == PendingOf(m)
           K == PendingOf(m)'
<1>1. \A q \in Publishers : F[q] = Made(q, m) /\ H[q] = Pending(q, m)
    BY DEF MadeOf, PendingOf
<1>2. \A q \in Publishers : G[q] = Made(q, m)' /\ K[q] = Pending(q, m)'
    BY DEF MadeOf, PendingOf
<1>3. \A q \in Publishers : Made(q, m) \in Nat /\ Pending(q, m) \in Nat
    BY MadeNat
<1>4. IsFiniteSet(Publishers)
    BY DiagnosticsAssumption
<1>5. \A q \in Publishers \ {p} : Made(q, m)' = Made(q, m) /\ Pending(q, m)' = Pending(q, m)
    BY DEF Made, Pending
<1> HIDE DEF F, G, H, K
<1>6. /\ \A q \in Publishers : F[q] \in Nat /\ G[q] \in Nat
      /\ \A q \in Publishers \ {p} : F[q] = G[q]
    BY <1>1, <1>2, <1>3, <1>5
<1>7. /\ SumFunctionOnSet(G, Publishers) + F[p] = SumFunctionOnSet(F, Publishers) + G[p]
      /\ SumFunctionOnSet(G, Publishers) \in Nat
    BY <1>4, <1>6, SumUpdate
<1>8. /\ \A q \in Publishers : H[q] \in Nat /\ K[q] \in Nat
      /\ \A q \in Publishers \ {p} : H[q] = K[q]
    BY <1>1, <1>2, <1>3, <1>5
<1>9. /\ SumFunctionOnSet(K, Publishers) + H[p] = SumFunctionOnSet(H, Publishers) + K[p]
      /\ SumFunctionOnSet(K, Publishers) \in Nat
    BY <1>4, <1>8, SumUpdate
<1>10. /\ AllMade(m) = SumFunctionOnSet(F, Publishers)
       /\ AllMade(m)' = SumFunctionOnSet(G, Publishers)
       /\ AllPending(m) = SumFunctionOnSet(H, Publishers)
       /\ AllPending(m)' = SumFunctionOnSet(K, Publishers)
    BY DEF AllMade, AllPending, F, G, H, K
<1> QED BY <1>1, <1>2, <1>7, <1>9, <1>10

\* A publisher that is at the end of its result takes the next.
LEMMA BeginPublishStep ==
    ASSUME FiguresInv, NEW p \in Publishers, NEW r \in Results, BeginPublish(p, r)
    PROVE  FiguresInv'
<1> DEFINE records == RecordsOf(r)
<1>1. records \in Seq(Records) /\ Len(records) \in Nat \ {0}
    BY RecordsTyped
<1>2. /\ result' = [result EXCEPT ![p] = records] /\ done' = [done EXCEPT ![p] = 0]
      /\ done[p] = Len(result[p]) /\ begun' = Plus(begun, records)
      /\ UNCHANGED <<recorded, finished, reading, shown, floor>>
    BY DEF BeginPublish, snapshotVars
<1>3. \A m \in Measures : /\ Total(records, m) \in Nat
                          /\ Total(records, m) = PartOf(records, 1..Len(records), m)
                          /\ PartOf(records, 1..0, m) = 0
    BY <1>1, PartsAtEnds
<1> HIDE DEF records
<1>4. FigureTypes
    BY DEF FiguresInv
<1>5. result'[p] = records /\ done'[p] = 0
    BY <1>2, <1>4 DEF FigureTypes
<1>6. FigureTypes'
    BY <1>1, <1>2, <1>3, <1>4 DEF FigureTypes, Plus
<1>7. ASSUME NEW m \in Measures PROVE Balance(m)' /\ Between(m)'
  <2>1. Made(p, m) = 0 /\ Pending(p, m) = 0
      BY <1>2, <1>4, PartsAtEnds DEF Made, Pending, FigureTypes
  <2>2. Made(p, m)' = 0 /\ Pending(p, m)' = Total(records, m)
      BY <1>1, <1>3, <1>5 DEF Made, Pending
  <2>3. \A q \in Publishers \ {p} : done'[q] = done[q] /\ result'[q] = result[q]
      BY <1>2, <1>4 DEF FigureTypes
  <2>4. Total(records, m) \in Nat
      BY <1>3
  <2>5. /\ AllMade(m)' + Made(p, m) = AllMade(m) + Made(p, m)'
        /\ AllPending(m)' + Pending(p, m) = AllPending(m) + Pending(p, m)'
        /\ AllMade(m)' \in Nat /\ AllPending(m)' \in Nat
      BY <1>4, <2>2, <2>3, <2>4, OneMoves
  <2>6. AllMade(m) \in Nat /\ AllPending(m) \in Nat
      BY <1>4, SumsNat
  <2>7. AllMade(m)' = AllMade(m) /\ AllPending(m)' = AllPending(m) + Total(records, m)
      BY ONLY <2>1, <2>2, <2>4, <2>5, <2>6
  <2>8. begun'[m] = begun[m] + Total(records, m) /\ begun[m] \in Nat /\ recorded[m] \in Nat
      BY <1>2, <1>4 DEF Plus, FigureTypes
  <2>9. Balance(m) /\ Between(m)
      BY DEF FiguresInv
  <2>10. Balance(m)'
      BY <1>2, <2>4, <2>6, <2>7, <2>8, <2>9 DEF Balance
  <2>11. Between(m)'
      BY <1>2, <2>9 DEF Between, Read, Unread
  <2> QED BY <2>10, <2>11
<1> QED BY <1>6, <1>7 DEF FiguresInv

\* The next record of a publisher goes into the measure it names.
LEMMA RecordStep ==
    ASSUME FiguresInv, NEW p \in Publishers, Record(p)
    PROVE  FiguresInv'
<1> DEFINE records == result[p]
           n == done[p]
           amount(m) == Amount(records, m)[n + 1]
<1>1. FigureTypes
    BY DEF FiguresInv
<1>2. /\ records \in Seq(Records) /\ n \in Nat /\ n < Len(records)
      /\ Len(records) \in Nat
      /\ done' = [done EXCEPT ![p] = n + 1] /\ done'[p] = n + 1
      /\ UNCHANGED <<result, begun, reading, shown, floor>>
    BY <1>1 DEF Record, FigureTypes, snapshotVars
<1>3. \A m : amount(m) \in Nat
              /\ amount(m) = IF records[n + 1][1] = m THEN records[n + 1][2] ELSE 0
    BY <1>2, AmountIs
<1>4. /\ recorded' = Added(recorded, records[n + 1])
      /\ finished' = IF n + 1 = Len(records) THEN Plus(finished, records) ELSE finished
    BY <1>2 DEF Record
<1>5. \A m : /\ PartOf(records, 1..n, m) \in Nat
              /\ PartOf(records, 1..(n + 1), m) = PartOf(records, 1..n, m) + amount(m)
              /\ PartOf(records, (n + 2)..Len(records), m) \in Nat
              /\ PartOf(records, (n + 1)..Len(records), m) =
                   PartOf(records, (n + 2)..Len(records), m) + amount(m)
    BY <1>2, PartsSplit
<1>6. \A m : /\ Total(records, m) = PartOf(records, 1..Len(records), m)
              /\ Total(records, m) \in Nat
    BY <1>2, PartsAtEnds
<1>7. \A m \in Measures : recorded'[m] = recorded[m] + amount(m)
    BY <1>1, <1>3, <1>4 DEF Added, FigureTypes
<1>8. \A m \in Measures :
        finished'[m] = IF n + 1 = Len(records) THEN finished[m] + Total(records, m) ELSE finished[m]
    BY <1>4 DEF Plus
<1>9. FigureTypes'
  <2> HIDE DEF amount, n, records
  <2>1. recorded' \in [Measures -> Nat]
    <3>1. \A m \in Measures : recorded'[m] \in Nat
        BY <1>1, <1>3, <1>7 DEF FigureTypes
    <3>2. recorded' = [m \in Measures |-> recorded'[m]]
        BY <1>4 DEF Added
    <3> QED BY <3>1, <3>2
  <2>2. finished' \in [Measures -> Nat]
    <3>1. \A m \in Measures : finished'[m] \in Nat
        BY <1>1, <1>6, <1>8 DEF FigureTypes
    <3>2. finished' = [m \in Measures |-> finished'[m]]
        BY <1>1, <1>4 DEF Plus, FigureTypes
    <3> QED BY <3>1, <3>2
  <2>3. done' \in [Publishers -> Nat] /\ \A q \in Publishers : done'[q] <= Len(result'[q])
      BY <1>1, <1>2 DEF FigureTypes, n, records
  <2> QED BY <1>1, <1>2, <2>1, <2>2, <2>3 DEF FigureTypes
<1>10. ASSUME NEW m \in Measures PROVE Balance(m)' /\ Between(m)'
  <2> DEFINE before == PartOf(records, 1..n, m)
             after == PartOf(records, (n + 2)..Len(records), m)
             now == amount(m)
  <2>1. /\ before \in Nat /\ after \in Nat /\ now \in Nat
        /\ PartOf(records, 1..(n + 1), m) = before + now
        /\ PartOf(records, (n + 1)..Len(records), m) = after + now
      BY <1>3, <1>5
  <2>2. Made(p, m) = before /\ Pending(p, m) = after + now
      BY <1>2, <2>1 DEF Made, Pending
  <2>3. Made(p, m)' = IF n + 1 = Len(records) THEN 0 ELSE before + now
    <3>1. /\ result'[p] = records /\ done'[p] = n + 1
          /\ (n + 1 < Len(records)) <=> (n + 1 # Len(records))
        BY <1>2
    <3>2. Made(p, m)' = IF n + 1 < Len(records) THEN PartOf(records, 1..(n + 1), m) ELSE 0
        BY <3>1 DEF Made
    <3> QED BY <2>1, <3>1, <3>2
  <2>4. Pending(p, m)' = after
    <3>1. (n + 1) + 1 = n + 2
        BY <1>2
    <3> QED BY <1>2, <3>1 DEF Pending
  <2>5. n + 1 = Len(records) => Total(records, m) = before + now
      BY <1>6, <2>1
  <2> HIDE DEF before, after, now
  <2>6. \A q \in Publishers \ {p} : done'[q] = done[q] /\ result'[q] = result[q]
      BY <1>1, <1>2 DEF FigureTypes
  <2>6a. Made(p, m)' \in Nat /\ Pending(p, m)' \in Nat
      BY <2>1, <2>3, <2>4
  <2>7. /\ AllMade(m)' + Made(p, m) = AllMade(m) + Made(p, m)'
        /\ AllPending(m)' + Pending(p, m) = AllPending(m) + Pending(p, m)'
        /\ AllMade(m)' \in Nat /\ AllPending(m)' \in Nat
      BY <1>1, <2>6, <2>6a, OneMoves
  <2>8. AllMade(m) \in Nat /\ AllPending(m) \in Nat
      BY <1>1, SumsNat
  <2>9. AllPending(m)' + now = AllPending(m)
      BY ONLY <2>1, <2>2, <2>4, <2>7, <2>8
  <2>10. finished'[m] + AllMade(m)' = finished[m] + AllMade(m) + now
    <3>1. finished[m] \in Nat
        BY <1>1 DEF FigureTypes
    <3>2. finished'[m] = IF n + 1 = Len(records) THEN finished[m] + before + now ELSE finished[m]
        BY <1>8, <2>1, <2>5, <3>1
    <3>3. AllMade(m)' + before = AllMade(m)
                + IF n + 1 = Len(records) THEN 0 ELSE before + now
        BY <2>2, <2>3, <2>7
    <3>4. CASE n + 1 = Len(records)
      <4>1. /\ finished'[m] = finished[m] + before + now
            /\ AllMade(m)' + before = AllMade(m)
          BY <2>1, <2>8, <3>2, <3>3, <3>4
      <4> QED BY ONLY <2>1, <2>7, <2>8, <3>1, <4>1
    <3>5. CASE n + 1 # Len(records)
      <4>1. /\ finished'[m] = finished[m]
            /\ AllMade(m)' + before = AllMade(m) + (before + now)
          BY <3>2, <3>3, <3>5
      <4>2. /\ before \in Nat /\ now \in Nat /\ AllMade(m) \in Nat /\ AllMade(m)' \in Nat
          BY <2>1, <2>7, <2>8
      <4>3. AllMade(m)' = AllMade(m) + now
          BY ONLY <4>1, <4>2
      <4> QED BY ONLY <3>1, <4>1, <4>2, <4>3
    <3> QED BY <3>4, <3>5
  <2>11. Balance(m) /\ Between(m)
      BY DEF FiguresInv
  <2>12. /\ recorded[m] \in Nat /\ begun[m] \in Nat /\ finished[m] \in Nat
         /\ floor[m] \in Nat /\ shown.figures[m] \in Nat
      BY <1>1 DEF FigureTypes
  <2>13. recorded'[m] = recorded[m] + now /\ begun'[m] = begun[m]
      BY <1>2, <1>7 DEF now
  <2>14. Balance(m)'
    <3>1. recorded[m] = finished[m] + AllMade(m) /\ begun[m] = recorded[m] + AllPending(m)
        BY <2>11 DEF Balance
    <3>2. recorded'[m] = finished'[m] + AllMade(m)' /\ begun'[m] = recorded'[m] + AllPending(m)'
      <4>1. /\ now \in Nat /\ AllMade(m) \in Nat /\ AllMade(m)' \in Nat
            /\ AllPending(m) \in Nat /\ AllPending(m)' \in Nat
          BY <2>1, <2>7, <2>8
      <4>2. finished'[m] \in Nat
          BY <1>9 DEF FigureTypes
      <4> QED BY ONLY <2>9, <2>10, <2>12, <2>13, <3>1, <4>1, <4>2
    <3> QED BY <3>2 DEF Balance
  <2>15. finished[m] <= finished'[m]
      BY <1>6, <1>8, <2>12
  <2>16. finished'[m] \in Nat
      BY <1>9 DEF FigureTypes
  <2>17. Between(m)'
    <3>1. Read(m)' = Read(m) /\ shown'.figures[m] = shown.figures[m] /\ floor'[m] = floor[m]
        BY <1>2 DEF Read, Unread
    <3>2. floor[m] <= finished'[m]
        BY <2>11, <2>12, <2>15, <2>16 DEF Between
    <3>3. recorded[m] <= recorded'[m]
      <4>1. now \in Nat
          BY <2>1
      <4> QED BY ONLY <2>12, <2>13, <4>1
    <3>4. Read(m) => floor[m] <= shown.figures[m] /\ shown.figures[m] <= recorded'[m]
      <4>1. recorded'[m] \in Nat
          BY <1>9 DEF FigureTypes
      <4> QED BY <2>11, <2>12, <3>3, <4>1 DEF Between
    <3> QED BY <3>1, <3>2, <3>4 DEF Between
  <2> QED BY <2>14, <2>17
<1> QED BY <1>9, <1>10 DEF FiguresInv

\* A new snapshot has read nothing.
LEMMA BeginSnapshotStep ==
    ASSUME FiguresInv, BeginSnapshot
    PROVE  FiguresInv'
<1>1. FigureTypes
    BY DEF FiguresInv
<1>2. /\ reading' = Append(Counters, Rest) /\ shown'.figures = Nothing /\ floor' = finished
      /\ UNCHANGED <<recorded, begun, finished, result, done>>
    BY DEF BeginSnapshot, countVars
<1>3. Counters \in Seq(Loads) /\ Rest \in Loads
    BY DEF Counters, Loads
<1>4. reading' \in Seq(Loads)
    BY ONLY <1>2, <1>3
<1>5. Nothing \in [Measures -> Nat]
    BY DEF Nothing
<1>6. FigureTypes'
    BY <1>1, <1>2, <1>4, <1>5 DEF FigureTypes
<1>7. ASSUME NEW m \in Measures PROVE ~ Read(m)'
  <2>1. (IF m \in Stages THEN Rest ELSE m) \in {"accepted", "review", "rejected", "failures", Rest}
      BY MeasuresAre
  <2>2. /\ DOMAIN reading' = 1..5
        /\ reading'[1] = "accepted" /\ reading'[2] = "review" /\ reading'[3] = "rejected"
        /\ reading'[4] = "failures" /\ reading'[5] = Rest
    <3>1. /\ Len(Counters) = 4 /\ Counters[1] = "accepted" /\ Counters[2] = "review"
          /\ Counters[3] = "rejected" /\ Counters[4] = "failures"
        BY DEF Counters
    <3>2. reading' = Append(Counters, Rest)
        BY <1>2
    <3>3. /\ Len(reading') = Len(Counters) + 1 /\ reading'[Len(Counters) + 1] = Rest
          /\ \A i \in 1..Len(Counters) : reading'[i] = Counters[i]
        BY ONLY <1>3, <3>2
    <3>4. /\ Len(reading') = 5 /\ reading'[5] = Rest
          /\ \A i \in 1..4 : reading'[i] = Counters[i]
        BY ONLY <3>1, <3>3
    <3>5. DOMAIN reading' = 1..5
        BY ONLY <1>4, <3>4
    <3> QED BY ONLY <3>1, <3>4, <3>5
  <2>3. {"accepted", "review", "rejected", "failures", Rest} \subseteq Unread'
      BY <2>2 DEF Unread
  <2> QED BY <2>1, <2>3 DEF Read
<1>8. ASSUME NEW m \in Measures PROVE Balance(m)' /\ Between(m)'
  <2>1. Balance(m)
      BY DEF FiguresInv
  <2>2. Balance(m)'
      BY <1>2, <2>1 DEF Balance, AllMade, AllPending, MadeOf, PendingOf, Made, Pending
  <2>3. finished[m] \in Nat
      BY <1>1 DEF FigureTypes
  <2> QED BY <1>2, <1>7, <2>2, <2>3 DEF Between
<1> QED BY <1>6, <1>8 DEF FiguresInv

\* A load brings the figures as they are now.
LEMMA LoadStep ==
    ASSUME FiguresInv, Load
    PROVE  FiguresInv'
<1> DEFINE now == Head(reading)
<1>1. FigureTypes
    BY DEF FiguresInv
<1>2. /\ reading \in Seq(Loads) /\ reading # <<>> /\ reading' = Tail(reading)
      /\ shown'.figures = [m \in Measures |->
                             IF m \in ReadWith(now) THEN recorded[m] ELSE shown.figures[m]]
      /\ UNCHANGED <<recorded, begun, finished, floor, result, done>>
    BY <1>1 DEF Load, countVars, FigureTypes
<1> HIDE DEF now
<1>3. /\ reading' \in Seq(Loads) /\ Len(reading) \in Nat \ {0}
      /\ Len(reading') = Len(reading) - 1 /\ reading[1] = Head(reading)
      /\ \A i \in 1..(Len(reading) - 1) : reading'[i] = reading[i + 1]
    BY ONLY <1>2
<1>4. Unread \subseteq Unread' \cup {now}
  <2>1. DOMAIN reading = 1..Len(reading) /\ DOMAIN reading' = 1..(Len(reading) - 1)
      BY <1>2, <1>3
  <2>2. ASSUME NEW i \in DOMAIN reading PROVE reading[i] \in Unread' \cup {now}
    <3>1. CASE i = 1
        BY <1>3, <3>1 DEF now
    <3>2. CASE i # 1
      <4>1. i - 1 \in DOMAIN reading' /\ reading'[i - 1] = reading[i]
          BY <1>3, <2>1, <3>2
      <4> QED BY <4>1 DEF Unread
    <3> QED BY <3>1, <3>2
  <2> QED BY <2>2 DEF Unread
<1>5. FigureTypes'
  <2>1. shown'.figures \in [Measures -> Nat]
      BY <1>1, <1>2 DEF FigureTypes
  <2> QED BY <1>1, <1>2, <1>3, <2>1 DEF FigureTypes
<1>6. ASSUME NEW m \in Measures PROVE Balance(m)' /\ Between(m)'
  <2>1. Balance(m) /\ Between(m)
      BY DEF FiguresInv
  <2>2. Balance(m)'
      BY <1>2, <2>1 DEF Balance, AllMade, AllPending, MadeOf, PendingOf, Made, Pending
  <2>3. floor[m] <= finished[m] /\ finished[m] <= recorded[m]
    <3>1. /\ recorded[m] = finished[m] + AllMade(m) /\ AllMade(m) \in Nat
          /\ finished[m] \in Nat /\ floor[m] <= finished[m]
        BY <1>1, <2>1, SumsNat DEF Balance, Between, FigureTypes
    <3> QED BY ONLY <3>1
  <2>4. /\ recorded[m] \in Nat /\ finished[m] \in Nat /\ floor[m] \in Nat
        /\ shown.figures[m] \in Nat
      BY <1>1 DEF FigureTypes
  <2>5. Read(m)' => Read(m) \/ m \in ReadWith(now)
    <3>1. Read(m)' => Read(m) \/ now = (IF m \in Stages THEN Rest ELSE m)
        BY <1>4 DEF Read
    <3>2. now = (IF m \in Stages THEN Rest ELSE m) => m \in ReadWith(now)
        BY MeasuresAre DEF ReadWith
    <3> QED BY <3>1, <3>2
  <2>6. shown'.figures[m] = IF m \in ReadWith(now) THEN recorded[m] ELSE shown.figures[m]
      BY <1>2
  <2>7. floor[m] <= recorded[m]
      BY <2>3, <2>4
  <2>8. floor'[m] = floor[m] /\ recorded'[m] = recorded[m] /\ finished'[m] = finished[m]
      BY <1>2
  <2>9. Read(m)' => floor[m] <= shown'.figures[m] /\ shown'.figures[m] <= recorded[m]
      BY <2>1, <2>4, <2>5, <2>6, <2>7 DEF Between
  <2>10. Between(m)'
      BY <2>3, <2>8, <2>9 DEF Between
  <2> QED BY <2>2, <2>10
<1> QED BY <1>5, <1>6 DEF FiguresInv

\* At first nothing has been recorded or read.
LEMMA FiguresInvInit == StartupInit => FiguresInv
<1> SUFFICES ASSUME StartupInit PROVE FiguresInv OBVIOUS
<1>1. /\ recorded = Nothing /\ begun = Nothing /\ finished = Nothing /\ floor = Nothing
      /\ result = [p \in Publishers |-> <<>>] /\ done = [p \in Publishers |-> 0]
      /\ reading = <<>> /\ shown.figures = Nothing
    BY DEF StartupInit, DiagnosticsInit
<1>2. Nothing \in [Measures -> Nat] /\ \A m \in Measures : Nothing[m] = 0
    BY DEF Nothing
<1>3. <<>> \in Seq(Records) /\ Len(<<>>) = 0 /\ <<>> \in Seq(Loads)
    OBVIOUS
<1>4. FigureTypes
    BY <1>1, <1>2, <1>3 DEF FigureTypes
<1>5. ASSUME NEW m \in Measures PROVE Balance(m) /\ Between(m)
  <2>1. ASSUME NEW p \in Publishers PROVE Made(p, m) = 0 /\ Pending(p, m) = 0
    <3>1. result[p] = <<>> /\ done[p] = 0
        BY <1>1
    <3>2. PartOf(<<>>, (0 + 1)..0, m) = 0
        BY <1>3, PartsAtEnds
    <3> QED BY <1>3, <3>1, <3>2 DEF Made, Pending
  <2> DEFINE F == MadeOf(m)
             G == PendingOf(m)
  <2>2. \A p \in Publishers : F[p] = 0 /\ G[p] = 0
      BY <2>1 DEF MadeOf, PendingOf
  <2> HIDE DEF F, G
  <2>3. IsFiniteSet(Publishers)
      BY DiagnosticsAssumption
  <2>4. SumFunctionOnSet(F, Publishers) = 0 /\ SumFunctionOnSet(G, Publishers) = 0
      BY <2>2, <2>3, SumZero
  <2>5. AllMade(m) = 0 /\ AllPending(m) = 0
      BY <2>4 DEF AllMade, AllPending, F, G
  <2> QED BY <1>1, <1>2, <2>5 DEF Balance, Between
<1> QED BY <1>4, <1>5 DEF FiguresInv

\* FiguresInv is inductive: before it serves an engine changes none of its figures.
THEOREM FiguresInvariant == StartupSpec => []FiguresInv
<1>1. FiguresInv /\ [StartupNext]_startupVars => FiguresInv'
  <2> SUFFICES ASSUME FiguresInv, [StartupNext]_startupVars PROVE FiguresInv' OBVIOUS
  <2>1. CASE UNCHANGED <<countVars, snapshotVars>>
    <3>1. \A m \in Measures : Balance(m) /\ Between(m)
        BY DEF FiguresInv
    <3>2. ASSUME NEW m \in Measures PROVE Balance(m)' /\ Between(m)'
        BY <2>1, <3>1 DEF countVars, snapshotVars, Balance, Between, AllMade, AllPending,
            MadeOf, PendingOf, Made, Pending, Read, Unread
    <3>3. FigureTypes'
        BY <2>1 DEF countVars, snapshotVars, FiguresInv, FigureTypes
    <3> QED BY <3>2, <3>3 DEF FiguresInv
  <2>2. CASE FactoryStep \/ Replace \/ Idle \/ UNCHANGED startupVars
    <3>1. UNCHANGED <<countVars, snapshotVars>>
        BY <2>2 DEF FactoryStep, Replace, Idle, At, ReadContract, ResolvePaths, LoadSession,
            Assemble, ReadManifest, Verify, Register, SelfTest, HandOut, Set,
            diagnosticsVars, startupVars
    <3> QED BY <2>1, <3>1
  <2>3. CASE Serve
      BY <2>3, BeginPublishStep, RecordStep, BeginSnapshotStep, LoadStep DEF Serve
  <2> QED BY <2>2, <2>3 DEF StartupNext, FactoryStep
<1> QED BY FiguresInvInit, <1>1, PTL DEF StartupSpec

\* However many callers publish while the snapshot is taken, without a lock over the
\* counters, it shows all of every call that had ended before and nothing of a call
\* that has not begun.
THEOREM SnapshotsCover == StartupSpec => []SnapshotCoversEndedCalls
<1>1. FiguresInv => SnapshotCoversEndedCalls
  <2> SUFFICES ASSUME FiguresInv, reading = <<>>, NEW m \in Measures
               PROVE  floor[m] <= shown.figures[m] /\ shown.figures[m] <= begun[m]
      BY DEF SnapshotCoversEndedCalls
  <2>1. Read(m)
      BY DEF Read, Unread
  <2>2. /\ begun[m] = recorded[m] + AllPending(m) /\ AllPending(m) \in Nat
        /\ recorded[m] \in Nat /\ shown.figures[m] \in Nat
        /\ floor[m] <= shown.figures[m] /\ shown.figures[m] <= recorded[m]
      BY <2>1, SumsNat DEF FiguresInv, FigureTypes, Balance, Between
  <2> QED BY ONLY <2>2
<1> QED BY FiguresInvariant, <1>1, PTL
-----------------------------------------------------------------------------
(* PaddleOcrAdapter.  The first lemmas are about any list of nodes and any *)
(* map: Live says that the map's iterators point into the list, Where      *)
(* where, and Order which keys are before which.  Each operation on the    *)
(* list (a splice, a push, n rounds of the eviction loop) keeps Live and   *)
(* changes Order as the abstract cache does (Touched).  CacheInv adds how  *)
(* far list and map may be apart after f failures; while there was none    *)
(* every node has its entry, so what the loop takes from the back of the   *)
(* list is what was used least recently (GoneOld, GivenUpExact).           *)

\* The nodes of the list.
Nodes == [id : Nat, key : Keys]

\* NodeAt of any list.
Index(list, id) == CHOOSE i \in DOMAIN list : list[i].id = id

\* Every entry's iterator points at a node of the list with the entry's key, and no
\* two nodes are the same.
Live(list, entries) ==
    /\ list \in Seq(Nodes)
    /\ \A i, j \in DOMAIN list : list[i].id = list[j].id => i = j
    /\ \A k \in DOMAIN entries :
           \E i \in DOMAIN list : list[i] = [id |-> entries[k].node, key |-> k]

\* Where the entry of a key points.
Where(list, entries, k) == Index(list, entries[k].node)

\* A live iterator is at one index.
LEMMA IndexIs ==
    ASSUME NEW list, NEW entries, Live(list, entries),
           NEW i \in DOMAIN list, NEW id, list[i].id = id
    PROVE  Index(list, id) = i
BY DEF Index, Live

\* An entry's node is where Where says, and has its key.
LEMMA AtIs ==
    ASSUME NEW list, NEW entries, Live(list, entries), NEW k \in DOMAIN entries
    PROVE  /\ Where(list, entries, k) \in 1..Len(list)
           /\ list[Where(list, entries, k)] = [id |-> entries[k].node, key |-> k]
<1>1. PICK i \in DOMAIN list : list[i] = [id |-> entries[k].node, key |-> k]
    BY DEF Live
<1>2. list[i].id = entries[k].node
    BY <1>1
<1>3. Index(list, entries[k].node) = i
    BY ONLY <1>2, IndexIs, Live(list, entries)
<1>4. DOMAIN list = 1..Len(list)
    BY DEF Live
<1> QED BY <1>1, <1>3, <1>4 DEF Where

\* No two entries have the same node.
LEMMA AtApart ==
    ASSUME NEW list, NEW entries, Live(list, entries),
           NEW k \in DOMAIN entries, NEW l \in DOMAIN entries, k # l
    PROVE  Where(list, entries, k) # Where(list, entries, l)
<1>1. /\ list[Where(list, entries, k)] = [id |-> entries[k].node, key |-> k]
      /\ list[Where(list, entries, l)] = [id |-> entries[l].node, key |-> l]
    BY AtIs
<1>2. list[Where(list, entries, k)].key = k /\ list[Where(list, entries, l)].key = l
    BY <1>1
<1> QED BY <1>2

-----------------------------------------------------------------------------
(* A splice.                                                               *)

\* Two lists in a row.
LEMMA Joined ==
    ASSUME NEW S, NEW a \in Seq(S), NEW b \in Seq(S)
    PROVE  /\ a \o b \in Seq(S) /\ Len(a \o b) = Len(a) + Len(b)
           /\ \A i \in 1..(Len(a) + Len(b)) :
                (a \o b)[i] = IF i <= Len(a) THEN a[i] ELSE b[i - Len(a)]
OBVIOUS

\* list2 is list with the node at p moved to the front.
Fronted(list, p, list2) ==
    /\ list2 \in Seq(Nodes) /\ Len(list2) = Len(list)
    /\ list2[1] = list[p]
    /\ \A i \in 1..(p - 1) : list2[i + 1] = list[i]
    /\ \A i \in (p + 1)..Len(list) : list2[i] = list[i]

\* So it is after a splice.
LEMMA SplicedIs ==
    ASSUME NEW list \in Seq(Nodes), NEW p \in 1..Len(list)
    PROVE  Fronted(list, p, <<list[p]>> \o RemoveAt(list, p))
<1> DEFINE R == RemoveAt(list, p)
<1>1. /\ R \in Seq(Nodes) /\ Len(R) = Len(list) - 1
      /\ \A i \in 1..(Len(list) - 1) : R[i] = IF i < p THEN list[i] ELSE list[i + 1]
  <2> DEFINE a == SubSeq(list, 1, p - 1)
             b == SubSeq(list, p + 1, Len(list))
  <2>1. /\ a \in Seq(Nodes) /\ Len(a) = p - 1 /\ \A i \in 1..(p - 1) : a[i] = list[i]
      OBVIOUS
  <2>2. /\ b \in Seq(Nodes) /\ Len(b) = Len(list) - p
        /\ \A i \in 1..(Len(list) - p) : b[i] = list[p + i]
      OBVIOUS
  <2>3. R = a \o b
      BY DEF RemoveAt
  <2> HIDE DEF R, a, b
  <2>4. a \in Seq(Nodes) /\ b \in Seq(Nodes)
      BY <2>1, <2>2
  <2>5. /\ R \in Seq(Nodes) /\ Len(R) = Len(a) + Len(b)
        /\ \A i \in 1..(Len(a) + Len(b)) : R[i] = IF i <= Len(a) THEN a[i] ELSE b[i - Len(a)]
      BY ONLY <2>3, <2>4, Joined
  <2>6. Len(R) = Len(list) - 1
      BY <2>1, <2>2, <2>5
  <2>7. ASSUME NEW i \in 1..(Len(list) - 1)
        PROVE  R[i] = IF i < p THEN list[i] ELSE list[i + 1]
    <3> i \in 1..(Len(a) + Len(b)) /\ Len(a) = p - 1
        BY <2>1, <2>2
    <3>0. R[i] = IF i <= Len(a) THEN a[i] ELSE b[i - Len(a)]
        BY <2>5
    <3>1. CASE i < p
      <4>1. i \in 1..(p - 1) /\ i <= Len(a)
          BY <3>1
      <4> QED BY <2>1, <3>0, <3>1, <4>1
    <3>2. CASE i >= p
      <4>1. i - (p - 1) \in 1..(Len(list) - p) /\ p + (i - (p - 1)) = i + 1
          BY <3>2
      <4>2. b[i - (p - 1)] = list[i + 1]
          BY <2>2, <4>1
      <4>3. R[i] = b[i - (p - 1)]
          BY <3>0, <3>2
      <4> QED BY <3>2, <4>2, <4>3
    <3> QED BY <3>1, <3>2
  <2> QED BY <2>5, <2>6, <2>7
<1> DEFINE F == <<list[p]>>
           S == F \o R
<1> HIDE DEF R
<1>2. F \in Seq(Nodes) /\ Len(F) = 1 /\ F[1] = list[p]
    OBVIOUS
<1>3. /\ S \in Seq(Nodes) /\ Len(S) = Len(list)
      /\ \A i \in 1..Len(S) : S[i] = IF i = 1 THEN list[p] ELSE R[i - 1]
  <2> HIDE DEF F
  <2>1. /\ S \in Seq(Nodes) /\ Len(S) = Len(F) + Len(R)
        /\ \A i \in 1..(Len(F) + Len(R)) : S[i] = IF i <= Len(F) THEN F[i] ELSE R[i - Len(F)]
      BY ONLY <1>1, <1>2, Joined
  <2> QED BY <1>1, <1>2, <2>1
<1> HIDE DEF S
<1>4. S[1] = list[p]
    BY <1>3
<1>5. ASSUME NEW i \in 1..(p - 1) PROVE S[i + 1] = list[i]
    BY <1>1, <1>3
<1>6. ASSUME NEW i \in (p + 1)..Len(list) PROVE S[i] = list[i]
    BY <1>1, <1>3
<1>7. Fronted(list, p, S)
    BY <1>3, <1>4, <1>5, <1>6 DEF Fronted
<1> QED BY <1>7 DEF S, R

\* Where a node is afterwards.
Behind(p, i) == IF i = p THEN 1 ELSE IF i < p THEN i + 1 ELSE i

\* Behind goes through all places of the new list.
LEMMA FrontedAt ==
    ASSUME NEW list \in Seq(Nodes), NEW p \in 1..Len(list), NEW list2,
           Fronted(list, p, list2)
    PROVE  /\ DOMAIN list2 = 1..Len(list) /\ DOMAIN list = 1..Len(list)
           /\ \A i \in 1..Len(list) : Behind(p, i) \in 1..Len(list) /\ list2[Behind(p, i)] = list[i]
           /\ \A j \in 1..Len(list) : \E i \in 1..Len(list) : j = Behind(p, i)
<1>1. DOMAIN list2 = 1..Len(list) /\ DOMAIN list = 1..Len(list)
    BY DEF Fronted
<1>2. ASSUME NEW i \in 1..Len(list)
      PROVE  Behind(p, i) \in 1..Len(list) /\ list2[Behind(p, i)] = list[i]
    BY DEF Fronted, Behind
<1>3. ASSUME NEW j \in 1..Len(list)
      PROVE  \E i \in 1..Len(list) : j = Behind(p, i)
  <2>1. CASE j = 1
      BY <2>1 DEF Behind
  <2>2. CASE j > 1 /\ j <= p
    <3>1. j - 1 \in 1..Len(list) /\ j = Behind(p, j - 1)
        BY <2>2 DEF Behind
    <3> QED BY <3>1
  <2>3. CASE j > p
      BY <2>3 DEF Behind
  <2> QED BY <2>1, <2>2, <2>3
<1> QED BY <1>1, <1>2, <1>3

\* Moving a node moves no iterator to another node.
LEMMA FrontedLive ==
    ASSUME NEW list, NEW entries, Live(list, entries), NEW p \in 1..Len(list), NEW list2,
           Fronted(list, p, list2), NEW entries2, DOMAIN entries2 = DOMAIN entries,
           \A k \in DOMAIN entries : entries2[k].node = entries[k].node
    PROVE  /\ Live(list2, entries2)
           /\ \A k \in DOMAIN entries :
                Where(list2, entries2, k) = Behind(p, Where(list, entries, k))
<1>0. list \in Seq(Nodes) /\ list2 \in Seq(Nodes)
    BY DEF Live, Fronted
<1>1. /\ DOMAIN list2 = 1..Len(list) /\ DOMAIN list = 1..Len(list)
      /\ \A i \in 1..Len(list) : Behind(p, i) \in 1..Len(list) /\ list2[Behind(p, i)] = list[i]
      /\ \A j \in 1..Len(list) : \E i \in 1..Len(list) : j = Behind(p, i)
    BY <1>0, FrontedAt
<1>2. ASSUME NEW i \in DOMAIN list2, NEW j \in DOMAIN list2, list2[i].id = list2[j].id
      PROVE  i = j
  <2>1. PICK a \in 1..Len(list) : i = Behind(p, a)
      BY <1>1
  <2>2. PICK b \in 1..Len(list) : j = Behind(p, b)
      BY <1>1
  <2>3. list[a].id = list[b].id
      BY <1>1, <1>2, <2>1, <2>2
  <2> QED BY <1>1, <2>1, <2>2, <2>3 DEF Live
<1>3. ASSUME NEW k \in DOMAIN entries
      PROVE  /\ Behind(p, Where(list, entries, k)) \in DOMAIN list2
             /\ list2[Behind(p, Where(list, entries, k))] = [id |-> entries2[k].node, key |-> k]
  <2> DEFINE i == Where(list, entries, k)
  <2>1. i \in 1..Len(list) /\ list[i] = [id |-> entries[k].node, key |-> k]
      BY AtIs
  <2> HIDE DEF i
  <2>2. entries2[k].node = entries[k].node
      OBVIOUS
  <2> QED BY <1>1, <2>1, <2>2 DEF i
<1>4. Live(list2, entries2)
    BY <1>0, <1>2, <1>3 DEF Live
<1>5. ASSUME NEW k \in DOMAIN entries
      PROVE  Where(list2, entries2, k) = Behind(p, Where(list, entries, k))
  <2> DEFINE j == Behind(p, Where(list, entries, k))
             id == entries2[k].node
  <2>1. j \in DOMAIN list2 /\ list2[j] = [id |-> id, key |-> k]
      BY <1>3
  <2> HIDE DEF j, id
  <2>2. list2[j].id = id
      BY <2>1
  <2>3. Index(list2, id) = j
      BY ONLY <1>4, <2>1, <2>2, IndexIs
  <2> QED BY <2>3 DEF Where, j, id
<1> QED BY <1>4, <1>5

-----------------------------------------------------------------------------
(* The order of the keys.                                                  *)

\* The pairs of keys of which the first is before the second.
Order(list, entries) ==
    {p \in (DOMAIN entries) \X (DOMAIN entries) :
        Where(list, entries, p[1]) < Where(list, entries, p[2])}

\* RecencyCache!Use.
Touched(newer, k, K) == {p \in K \X K : p[2] # k /\ (p[1] = k \/ p \in newer)}

\* Sets of pairs that agree on all pairs are equal.
LEMMA SamePairs ==
    ASSUME NEW K, NEW A, NEW B, A \subseteq K \X K, B \subseteq K \X K,
           \A k, l \in K : <<k, l>> \in A <=> <<k, l>> \in B
    PROVE  A = B
OBVIOUS

\* Order, pair by pair.
LEMMA PairIn ==
    ASSUME NEW list, NEW entries, NEW k \in DOMAIN entries, NEW l \in DOMAIN entries
    PROVE  <<k, l>> \in Order(list, entries) <=> Where(list, entries, k) < Where(list, entries, l)
BY DEF Order

\* Afterwards the entry whose node was moved is the most recent one, and the others
\* are in their order.
LEMMA FrontedOrder ==
    ASSUME NEW list, NEW entries, Live(list, entries), NEW k \in DOMAIN entries, NEW list2,
           Fronted(list, Where(list, entries, k), list2),
           NEW entries2, DOMAIN entries2 = DOMAIN entries,
           \A l \in DOMAIN entries : entries2[l].node = entries[l].node
    PROVE  Order(list2, entries2) = Touched(Order(list, entries), k, DOMAIN entries)
<1> DEFINE K == DOMAIN entries
           p == Where(list, entries, k)
<1>1. p \in 1..Len(list)
    BY AtIs
<1>2. \A l \in K : Where(list2, entries2, l) = Behind(p, Where(list, entries, l))
    BY <1>1, FrontedLive
<1>3. \A l \in K : /\ Where(list, entries, l) \in 1..Len(list)
                   /\ Where(list, entries, l) = p => l = k
    BY AtIs, AtApart
<1>4. Len(list) \in Nat
    BY DEF Live
<1>5. ASSUME NEW l \in K, NEW m \in K
      PROVE  <<l, m>> \in Order(list2, entries2) <=>
                 <<l, m>> \in Touched(Order(list, entries), k, K)
  <2>1. <<l, m>> \in Order(list2, entries2) <=>
            Behind(p, Where(list, entries, l)) < Behind(p, Where(list, entries, m))
      BY <1>2, PairIn
  <2>2. <<l, m>> \in Touched(Order(list, entries), k, K) <=>
            m # k /\ (l = k \/ Where(list, entries, l) < Where(list, entries, m))
      BY PairIn DEF Touched
  <2>3. DEFINE x == Where(list, entries, l)
               y == Where(list, entries, m)
  <2>4. /\ x \in 1..Len(list) /\ y \in 1..Len(list) /\ p \in 1..Len(list)
        /\ (x = p <=> l = k) /\ (y = p <=> m = k)
      BY <1>1, <1>3
  <2> HIDE DEF x, y, p
  <2>5. Behind(p, x) < Behind(p, y) <=> m # k /\ (l = k \/ x < y)
      BY <1>4, <2>4 DEF Behind
  <2> QED BY <2>1, <2>2, <2>5 DEF x, y
<1>6. /\ Order(list2, entries2) \subseteq K \X K
      /\ Touched(Order(list, entries), k, K) \subseteq K \X K
    BY DEF Order, Touched
<1> DEFINE A == Order(list2, entries2)
           B == Touched(Order(list, entries), k, K)
<1>7. /\ A \subseteq K \X K /\ B \subseteq K \X K
      /\ \A l, m \in K : <<l, m>> \in A <=> <<l, m>> \in B
    BY <1>5, <1>6
<1> HIDE DEF K, A, B
<1>8. A = B
    BY ONLY <1>7, SamePairs
<1> QED BY <1>8 DEF A, B, K

-----------------------------------------------------------------------------
(* A push.                                                                 *)

\* A new node in front.
Pushed(list, id, k) == <<[id |-> id, key |-> k]>> \o list

\* What such a list is made of.
LEMMA PushedIs ==
    ASSUME NEW list \in Seq(Nodes), NEW id \in Nat, NEW k \in Keys
    PROVE  /\ Pushed(list, id, k) \in Seq(Nodes) /\ Len(Pushed(list, id, k)) = Len(list) + 1
           /\ Pushed(list, id, k)[1] = [id |-> id, key |-> k]
           /\ \A i \in 1..Len(list) : Pushed(list, id, k)[i + 1] = list[i]
<1> DEFINE F == <<[id |-> id, key |-> k]>>
<1>1. F \in Seq(Nodes) /\ Len(F) = 1 /\ F[1] = [id |-> id, key |-> k]
    BY DEF Nodes
<1> HIDE DEF F
<1>2. /\ F \o list \in Seq(Nodes) /\ Len(F \o list) = Len(F) + Len(list)
      /\ \A i \in 1..(Len(F) + Len(list)) :
           (F \o list)[i] = IF i <= Len(F) THEN F[i] ELSE list[i - Len(F)]
    BY ONLY <1>1, Joined, list \in Seq(Nodes)
<1> DEFINE S == F \o list
<1>3. S = Pushed(list, id, k)
    BY DEF Pushed, F
<1> HIDE DEF S
<1>4. /\ S \in Seq(Nodes) /\ Len(S) = Len(list) + 1
      /\ \A i \in 1..(Len(list) + 1) : S[i] = IF i <= 1 THEN F[i] ELSE list[i - 1]
    BY <1>1, <1>2 DEF S
<1>5. S[1] = [id |-> id, key |-> k]
    BY <1>1, <1>4
<1>6. ASSUME NEW i \in 1..Len(list) PROVE S[i + 1] = list[i]
  <2>1. i + 1 \in 1..(Len(list) + 1) /\ ~ (i + 1 <= 1) /\ (i + 1) - 1 = i
      OBVIOUS
  <2> QED BY <1>4, <2>1
<1> QED BY <1>3, <1>4, <1>5, <1>6

\* Some number up to the length of a list is no node's: there are not enough nodes.
LEMMA SomeIsFresh ==
    ASSUME NEW list \in Seq(Nodes)
    PROVE  \E i \in 0..Len(list) : \A j \in DOMAIN list : list[j].id # i
<1> SUFFICES ASSUME \A i \in 0..Len(list) : \E j \in DOMAIN list : list[j].id = i
             PROVE  FALSE
    OBVIOUS
<1> DEFINE n == Len(list)
           f == [i \in 0..n |-> CHOOSE j \in 1..n : list[j].id = i]
<1>1. n \in Nat /\ DOMAIN list = 1..n
    OBVIOUS
<1>2. \A i \in 0..n : f[i] \in 1..n /\ list[f[i]].id = i
    BY <1>1
<1>3. f \in [0..n -> 1..n]
    BY <1>2
<1> HIDE DEF f, n
<1>4. /\ IsFiniteSet(0..n) /\ Cardinality(0..n) = n + 1
      /\ IsFiniteSet(1..n) /\ Cardinality(1..n) = n
  <2>1. n \in Int /\ 0 \in Int /\ 1 \in Int
      BY <1>1
  <2>2. IsFiniteSet(0..n) /\ Cardinality(0..n) = IF 0 > n THEN 0 ELSE n - 0 + 1
      BY ONLY <2>1, FS_Interval
  <2>3. IsFiniteSet(1..n) /\ Cardinality(1..n) = IF 1 > n THEN 0 ELSE n - 1 + 1
      BY ONLY <2>1, FS_Interval
  <2> QED BY <1>1, <2>2, <2>3
<1>5. PICK x \in 0..n, y \in 0..n : x # y /\ f[x] = f[y]
  <2>1. n < n + 1
      BY <1>1
  <2> QED BY ONLY <1>3, <1>4, <2>1, FS_PigeonHole
<1> QED BY <1>2, <1>5

\* A new node, and perhaps an entry that points to it.
LEMMA PushedLive ==
    ASSUME NEW list, NEW entries, Live(list, entries), NEW k \in Keys, NEW id \in Nat,
           \A j \in DOMAIN list : list[j].id # id,
           NEW entries2, DOMAIN entries2 \subseteq DOMAIN entries \cup {k},
           \A l \in DOMAIN entries2 : entries2[l].node = IF l = k THEN id ELSE entries[l].node
    PROVE  /\ Live(Pushed(list, id, k), entries2)
           /\ \A l \in DOMAIN entries2 : Where(Pushed(list, id, k), entries2, l) =
                  IF l = k THEN 1 ELSE Where(list, entries, l) + 1
<1> DEFINE S == Pushed(list, id, k)
<1>0. list \in Seq(Nodes) /\ DOMAIN list = 1..Len(list) /\ Len(list) \in Nat
    BY DEF Live
<1>1. /\ S \in Seq(Nodes) /\ DOMAIN S = 1..(Len(list) + 1)
      /\ S[1] = [id |-> id, key |-> k]
      /\ \A i \in 1..Len(list) : S[i + 1] = list[i]
    BY <1>0, PushedIs
<1> HIDE DEF S
<1>2. \A i \in DOMAIN S : i = 1 \/ (i - 1 \in DOMAIN list /\ S[i] = list[i - 1])
  <2> SUFFICES ASSUME NEW i \in DOMAIN S, i # 1
               PROVE  i - 1 \in DOMAIN list /\ S[i] = list[i - 1]
      OBVIOUS
  <2>1. i - 1 \in 1..Len(list) /\ (i - 1) + 1 = i
      BY <1>0, <1>1
  <2> QED BY <1>0, <1>1, <2>1
<1>3. ASSUME NEW i \in DOMAIN S, NEW j \in DOMAIN S, S[i].id = S[j].id
      PROVE  i = j
  <2>1. S[1].id = id
      BY <1>1
  <2>2. CASE i = 1
      BY <1>2, <1>3, <2>1, <2>2
  <2>3. CASE j = 1
      BY <1>2, <1>3, <2>1, <2>3
  <2>4. CASE i # 1 /\ j # 1
    <3>1. i - 1 \in DOMAIN list /\ j - 1 \in DOMAIN list /\ list[i - 1].id = list[j - 1].id
        BY <1>2, <1>3, <2>4
    <3>2. i - 1 = j - 1
        BY <3>1 DEF Live
    <3>3. i \in Nat /\ j \in Nat
        BY <1>0, <1>1
    <3> QED BY <3>2, <3>3
  <2> QED BY <2>2, <2>3, <2>4
<1> DEFINE at(l) == IF l = k THEN 1 ELSE Where(list, entries, l) + 1
<1>4. ASSUME NEW l \in DOMAIN entries2
      PROVE  at(l) \in DOMAIN S /\ S[at(l)] = [id |-> entries2[l].node, key |-> l]
  <2>1. CASE l = k
      BY <1>0, <1>1, <2>1
  <2>2. CASE l # k
    <3> DEFINE i == Where(list, entries, l)
    <3>1. i \in 1..Len(list) /\ list[i] = [id |-> entries[l].node, key |-> l]
        BY <2>2, AtIs
    <3> HIDE DEF i
    <3>2. i + 1 \in DOMAIN S /\ S[i + 1] = list[i]
        BY <1>0, <1>1, <3>1
    <3>3. entries2[l].node = entries[l].node
        BY <2>2
    <3> QED BY <2>2, <3>1, <3>2, <3>3 DEF i
  <2> QED BY <2>1, <2>2
<1> HIDE DEF at
<1>5. Live(S, entries2)
    BY <1>1, <1>3, <1>4 DEF Live
<1>6. ASSUME NEW l \in DOMAIN entries2 PROVE Where(S, entries2, l) = at(l)
  <2> DEFINE j == at(l)
             n == entries2[l].node
  <2>1. j \in DOMAIN S /\ S[j] = [id |-> n, key |-> l]
      BY <1>4
  <2> HIDE DEF j, n
  <2>2. S[j].id = n
      BY <2>1
  <2>3. Index(S, n) = j
      BY ONLY <1>5, <2>1, <2>2, IndexIs
  <2> QED BY <2>3 DEF Where, j, n
<1> QED BY <1>5, <1>6 DEF S, at

-----------------------------------------------------------------------------
(* The loop over the back of the list.                                     *)

\* The keys of the last n nodes, and what is left when they are taken.
Gone(list, n) == {list[i].key : i \in Len(list) - n + 1..Len(list)}
Cut(list, n) == SubSeq(list, 1, Len(list) - n)

\* The keys that are left.
LEMMA ErasedIs ==
    ASSUME NEW list, NEW entries, NEW n
    PROVE  DOMAIN Erased(list, entries, n) = DOMAIN entries \ Gone(list, n)
BY DEF Erased, Gone

\* The nodes that are left.
LEMMA CutIs ==
    ASSUME NEW list \in Seq(Nodes), NEW n \in 0..Len(list)
    PROVE  /\ Cut(list, n) \in Seq(Nodes)
           /\ Len(Cut(list, n)) = Len(list) - n
           /\ DOMAIN Cut(list, n) = 1..(Len(list) - n)
           /\ \A i \in 1..(Len(list) - n) : Cut(list, n)[i] = list[i]
BY DEF Cut

\* What is left is live: the entry of a node that goes has gone.
LEMMA CutLive ==
    ASSUME NEW list, NEW entries, Live(list, entries), NEW n \in 0..Len(list)
    PROVE  /\ Live(Cut(list, n), Erased(list, entries, n))
           /\ \A k \in DOMAIN Erased(list, entries, n) :
                Where(Cut(list, n), Erased(list, entries, n), k) = Where(list, entries, k)
<1> DEFINE S == Cut(list, n)
           E == Erased(list, entries, n)
<1>0. list \in Seq(Nodes) /\ DOMAIN list = 1..Len(list) /\ Len(list) \in Nat
    BY DEF Live
<1>1. /\ S \in Seq(Nodes) /\ DOMAIN S = 1..(Len(list) - n)
      /\ \A i \in 1..(Len(list) - n) : S[i] = list[i]
    BY <1>0, CutIs
<1>2. /\ DOMAIN E = DOMAIN entries \ Gone(list, n)
      /\ \A k \in DOMAIN E : E[k] = entries[k]
  <2>1. DOMAIN E = DOMAIN entries \ Gone(list, n)
      BY ONLY ErasedIs
  <2>2. ASSUME NEW k \in DOMAIN E PROVE E[k] = entries[k]
      BY DEF Erased
  <2> QED BY <2>1, <2>2
<1> HIDE DEF S, E
<1>3. \A i \in DOMAIN S : i \in DOMAIN list /\ S[i] = list[i]
    BY <1>0, <1>1
<1>4. ASSUME NEW i \in DOMAIN S, NEW j \in DOMAIN S, S[i].id = S[j].id
      PROVE  i = j
    BY <1>3, <1>4 DEF Live
<1>5. ASSUME NEW k \in DOMAIN E
      PROVE  /\ Where(list, entries, k) \in DOMAIN S
             /\ S[Where(list, entries, k)] = [id |-> E[k].node, key |-> k]
  <2> DEFINE i == Where(list, entries, k)
  <2>1. i \in 1..Len(list) /\ list[i] = [id |-> entries[k].node, key |-> k]
      BY <1>2, AtIs
  <2> HIDE DEF i
  <2>2. list[i].key = k
      BY <2>1
  <2>3. i \notin Len(list) - n + 1..Len(list)
      BY <1>2, <2>2 DEF Gone
  <2>4. i \in 1..(Len(list) - n)
      BY <1>0, <2>1, <2>3
  <2> QED BY <1>1, <1>2, <2>1, <2>4 DEF i
<1>6. Live(S, E)
    BY <1>1, <1>4, <1>5 DEF Live
<1>7. ASSUME NEW k \in DOMAIN E PROVE Where(S, E, k) = Where(list, entries, k)
  <2> DEFINE j == Where(list, entries, k)
             m == E[k].node
  <2>1. j \in DOMAIN S /\ S[j] = [id |-> m, key |-> k]
      BY <1>5
  <2> HIDE DEF j, m
  <2>2. S[j].id = m
      BY <2>1
  <2>3. Index(S, m) = j
      BY ONLY <1>6, <2>1, <2>2, IndexIs
  <2> QED BY <2>3 DEF Where, j, m
<1> QED BY <1>6, <1>7 DEF S, E

\* No round takes more than one entry.
LEMMA GoneFew ==
    ASSUME NEW list \in Seq(Nodes), NEW n \in 0..Len(list)
    PROVE  IsFiniteSet(Gone(list, n)) /\ Cardinality(Gone(list, n)) <= n
<1> DEFINE I == Len(list) - n + 1..Len(list)
           f == [i \in I |-> list[i].key]
           T == Gone(list, n)
<1>1. Len(list) \in Nat /\ n \in Nat /\ n <= Len(list)
    OBVIOUS
<1>2. \A t \in T : \E i \in I : f[i] = t
    BY DEF Gone
<1>3. f \in [I -> T]
    BY DEF Gone
<1>4. f \in Surjection(I, T)
  <2> HIDE DEF f, I, T
  <2> QED BY <1>2, <1>3 DEF Surjection
<1>5. IsFiniteSet(I) /\ Cardinality(I) = n
  <2>1. Len(list) - n + 1 \in Int /\ Len(list) \in Int
      BY <1>1
  <2> DEFINE a == Len(list) - n + 1
             b == Len(list)
  <2>2. a \in Int /\ b \in Int
      BY <2>1
  <2> HIDE DEF a, b
  <2>3. IsFiniteSet(a..b) /\ Cardinality(a..b) = IF a > b THEN 0 ELSE b - a + 1
      BY ONLY <2>2, FS_Interval
  <2>4. I = a..b
      BY DEF a, b
  <2> HIDE DEF I
  <2> QED BY <1>1, <2>3, <2>4 DEF a, b
<1> HIDE DEF f, I, T
<1>6. IsFiniteSet(T) /\ Cardinality(T) <= Cardinality(I)
    BY <1>4, <1>5, FS_Surjection
<1> QED BY <1>5, <1>6 DEF T

\* How many entries are left after n rounds.
LEMMA ErasedCount ==
    ASSUME NEW list \in Seq(Nodes), NEW entries, IsFiniteSet(DOMAIN entries),
           NEW n \in 0..Len(list)
    PROVE  LET D == DOMAIN Erased(list, entries, n)
           IN  /\ IsFiniteSet(D) /\ Cardinality(D) \in Nat /\ Cardinality(DOMAIN entries) \in Nat
               /\ Cardinality(D) <= Cardinality(DOMAIN entries)
               /\ Cardinality(DOMAIN entries) <= Cardinality(D) + n
<1> DEFINE K == DOMAIN entries
           G == Gone(list, n)
           D == DOMAIN Erased(list, entries, n)
<1>1. D = K \ G
    BY ErasedIs
<1>2. IsFiniteSet(G) /\ Cardinality(G) <= n /\ n \in Nat
    BY GoneFew
<1>3. IsFiniteSet(K)
    OBVIOUS
<1> HIDE DEF K, G, D
<1>4. IsFiniteSet(D) /\ Cardinality(D) = Cardinality(K) - Cardinality(K \cap G)
    BY ONLY <1>1, <1>3, FS_Difference
<1>5. IsFiniteSet(K \cap G) /\ Cardinality(K \cap G) <= Cardinality(G)
  <2>1. K \cap G \in SUBSET G
      OBVIOUS
  <2> QED BY ONLY <1>2, <2>1, FS_Subset
<1>6. /\ Cardinality(K) \in Nat
      /\ Cardinality(G) \in Nat
      /\ Cardinality(K \cap G) \in Nat
      /\ Cardinality(D) \in Nat
    BY <1>2, <1>3, <1>4, <1>5, FS_CardinalityType
<1> QED BY <1>2, <1>4, <1>5, <1>6 DEF K, D

\* No round takes nothing.
LEMMA ErasedNone ==
    ASSUME NEW list \in Seq(Nodes), NEW entries
    PROVE  DOMAIN Erased(list, entries, 0) = DOMAIN entries
<1>1. Gone(list, 0) = {}
    BY DEF Gone
<1>2. DOMAIN Erased(list, entries, 0) = DOMAIN entries \ Gone(list, 0)
    BY ErasedIs
<1> QED BY <1>1, <1>2

\* With the whole list all entries go.
LEMMA ErasedAll ==
    ASSUME NEW list, NEW entries, Live(list, entries)
    PROVE  DOMAIN Erased(list, entries, Len(list)) = {}
<1>1. list \in Seq(Nodes) /\ Len(list) \in Nat
    BY DEF Live
<1>2. Len(list) - Len(list) + 1 = 1
    BY <1>1
<1>3. Gone(list, Len(list)) = {list[i].key : i \in 1..Len(list)}
    BY <1>2 DEF Gone
<1>4. ASSUME NEW k \in DOMAIN entries PROVE k \in Gone(list, Len(list))
  <2>1. /\ Where(list, entries, k) \in 1..Len(list)
        /\ list[Where(list, entries, k)] = [id |-> entries[k].node, key |-> k]
      BY AtIs
  <2>2. list[Where(list, entries, k)].key = k
      BY <2>1
  <2> QED BY <1>3, <2>1, <2>2
<1>5. DOMAIN Erased(list, entries, Len(list)) = DOMAIN entries \ Gone(list, Len(list))
    BY ErasedIs
<1> QED BY <1>4, <1>5

\* The loop over the back of the list ends: some number of rounds is the first after
\* which the entries fit.
FirstFit(list, entries, n) ==
    /\ n \in 0..Len(list) /\ Fits(list, entries, n)
    /\ \A m \in 0..(n - 1) : ~ Fits(list, entries, m)

\* There is such a number: at the latest the whole list has gone.
LEMMA LoopEnds ==
    ASSUME NEW list, NEW entries, Live(list, entries), capacity \in Nat
    PROVE  \E n \in 0..Len(list) : FirstFit(list, entries, n)
<1> DEFINE B == {n \in 0..Len(list) : Fits(list, entries, n)}
<1>1. Len(list) \in Nat
    BY DEF Live
<1>2. Fits(list, entries, Len(list))
    BY ErasedAll, FS_EmptySet DEF Fits
<1>3. Len(list) \in B
    BY <1>1, <1>2
<1>4. B \in SUBSET Nat /\ B # {}
    BY <1>1, <1>3
<1> HIDE DEF B
<1>5. PICK n \in B : \A m \in B : n <= m
    BY ONLY <1>4, LeastNatural
<1>6. n \in 0..Len(list) /\ Fits(list, entries, n)
    BY <1>5 DEF B
<1>7. ASSUME NEW m \in 0..(n - 1) PROVE ~ Fits(list, entries, m)
  <2>1. m \in 0..Len(list) /\ ~ (n <= m)
      BY <1>1, <1>6
  <2> QED BY <1>5, <2>1 DEF B
<1> QED BY <1>6, <1>7 DEF FirstFit

\* After a push and n rounds the new entry, if it is kept, is in front and the others
\* are in their order.
LEMMA PushedOrder ==
    ASSUME NEW list, NEW entries, Live(list, entries),
           NEW k, k \notin DOMAIN entries,
           NEW list2, NEW entries2, DOMAIN entries2 \subseteq DOMAIN entries \cup {k},
           \A l \in DOMAIN entries2 :
               Where(list2, entries2, l) = IF l = k THEN 1 ELSE Where(list, entries, l) + 1
    PROVE  Order(list2, entries2) = Touched(Order(list, entries), k, DOMAIN entries2)
<1> DEFINE K == DOMAIN entries2
<1>1. \A l \in K : l # k => Where(list, entries, l) \in Nat \ {0}
  <2>1. Len(list) \in Nat
      BY DEF Live
  <2>2. ASSUME NEW l \in K, l # k PROVE Where(list, entries, l) \in Nat \ {0}
    <3>1. l \in DOMAIN entries
        BY <2>2
    <3>2. Where(list, entries, l) \in 1..Len(list)
        BY <3>1, AtIs
    <3> QED BY <2>1, <3>2
  <2> QED BY <2>2
<1>2. ASSUME NEW l \in K, NEW m \in K
      PROVE  <<l, m>> \in Order(list2, entries2) <=>
                 <<l, m>> \in Touched(Order(list, entries), k, K)
  <2>1. <<l, m>> \in Order(list2, entries2) <=>
            Where(list2, entries2, l) < Where(list2, entries2, m)
      BY PairIn
  <2>2. <<l, m>> \in Touched(Order(list, entries), k, K) <=>
            m # k /\ (l = k \/ <<l, m>> \in Order(list, entries))
      BY DEF Touched
  <2>3. CASE m = k
      BY <1>1, <2>1, <2>2, <2>3
  <2>4. CASE m # k /\ l = k
      BY <1>1, <2>1, <2>2, <2>4
  <2>5. CASE m # k /\ l # k
    <3>1. l \in DOMAIN entries /\ m \in DOMAIN entries
        BY <2>5
    <3>2. <<l, m>> \in Order(list, entries) <=> Where(list, entries, l) < Where(list, entries, m)
        BY <3>1, PairIn
    <3> QED BY <1>1, <2>1, <2>2, <2>5, <3>2
  <2> QED BY <2>3, <2>4, <2>5
<1>3. /\ Order(list2, entries2) \subseteq K \X K
      /\ Touched(Order(list, entries), k, K) \subseteq K \X K
    BY DEF Order, Touched
<1> HIDE DEF K
<1> QED BY <1>2, <1>3, SamePairs DEF K

-----------------------------------------------------------------------------
(* A new entry.                                                            *)

\* What the entries are made of.
Typed(entries) ==
    /\ DOMAIN entries \subseteq Keys
    /\ \A k \in DOMAIN entries : entries[k].evidence \in Answers /\ entries[k].node \in Nat

\* Every node is that of an entry.
AllOwned(list, entries) ==
    \A i \in DOMAIN list :
        list[i].key \in DOMAIN entries /\ entries[list[i].key].node = list[i].id

\* The entries with one for k, which points to a node.
Enlarged(entries, k, a, id) ==
    [l \in DOMAIN entries \cup {k} |->
        IF l = k THEN [evidence |-> a, node |-> id] ELSE entries[l]]

\* It has the keys and types it should have.
LEMMA AddedIs ==
    ASSUME NEW entries, NEW k \in Keys, NEW a \in Answers, NEW id \in Nat, Typed(entries)
    PROVE  /\ DOMAIN Enlarged(entries, k, a, id) = DOMAIN entries \cup {k}
           /\ Typed(Enlarged(entries, k, a, id))
BY DEF Enlarged, Typed

\* The list and the map after k was pushed with the answer a and n rounds of the loop.
Inserted(list, entries, list3, entries3, k, a, n) ==
    /\ Live(list3, entries3) /\ Typed(entries3)
    /\ DOMAIN entries3 \subseteq DOMAIN entries \cup {k}
    /\ \A l \in DOMAIN entries3 :
          entries3[l].evidence = IF l = k THEN a ELSE entries[l].evidence
    /\ Order(list3, entries3) = Touched(Order(list, entries), k, DOMAIN entries3)
    /\ Len(list3) = Len(list) + 1 - n
    /\ IsFiniteSet(DOMAIN entries3) /\ Cardinality(DOMAIN entries3) \in Nat
    /\ Cardinality(DOMAIN entries) + 1 - n <= Cardinality(DOMAIN entries3)
    /\ Cardinality(DOMAIN entries3) <= Cardinality(DOMAIN entries) + 1

LEMMA InsertIs ==
    ASSUME NEW list, NEW entries, Live(list, entries), Typed(entries),
           IsFiniteSet(DOMAIN entries),
           NEW k \in Keys, k \notin DOMAIN entries, NEW a \in Answers,
           NEW id \in Nat, \A j \in DOMAIN list : list[j].id # id,
           NEW n \in 0..(Len(list) + 1)
    PROVE  Inserted(list, entries, Cut(Pushed(list, id, k), n),
                    Erased(Pushed(list, id, k), Enlarged(entries, k, a, id), n), k, a, n)
<1> DEFINE list2 == Pushed(list, id, k)
           entries2 == Enlarged(entries, k, a, id)
           list3 == Cut(list2, n)
           entries3 == Erased(list2, entries2, n)
           K == DOMAIN entries3
<1>0. list \in Seq(Nodes) /\ Len(list) \in Nat
    BY DEF Live
<1>1. list2 \in Seq(Nodes) /\ Len(list2) = Len(list) + 1 /\ n \in 0..Len(list2)
  <2>1. list2 \in Seq(Nodes) /\ Len(list2) = Len(list) + 1
      BY <1>0, PushedIs
  <2> QED BY <2>1
<1>2. DOMAIN entries2 = DOMAIN entries \cup {k} /\ Typed(entries2)
    BY AddedIs
<1>16. ASSUME NEW l \in DOMAIN entries2
       PROVE  /\ entries2[l].node = IF l = k THEN id ELSE entries[l].node
              /\ entries2[l].evidence = IF l = k THEN a ELSE entries[l].evidence
    BY DEF Enlarged
<1> HIDE DEF entries2
<1>3. /\ Live(list2, entries2)
      /\ \A l \in DOMAIN entries2 :
            Where(list2, entries2, l) = IF l = k THEN 1 ELSE Where(list, entries, l) + 1
  <2>1. /\ DOMAIN entries2 \subseteq DOMAIN entries \cup {k}
        /\ \A l \in DOMAIN entries2 : entries2[l].node = IF l = k THEN id ELSE entries[l].node
      BY <1>2, <1>16
  <2> QED BY <2>1, PushedLive
<1> HIDE DEF list2
<1>4. K = DOMAIN entries2 \ Gone(list2, n)
    BY ErasedIs
<1>5. ASSUME NEW l \in K PROVE entries3[l] = entries2[l]
    BY DEF Erased
<1>6. /\ Live(list3, entries3)
      /\ \A l \in K : Where(list3, entries3, l) = Where(list2, entries2, l)
  <2>1. Live(list2, entries2) /\ n \in 0..Len(list2)
      BY <1>1, <1>3
  <2> QED BY ONLY <2>1, CutLive
<1>7. Len(list3) = Len(list) + 1 - n
  <2>1. Len(list3) = Len(list2) - n
      BY ONLY <1>1, CutIs
  <2> QED BY ONLY <2>1, <1>1
<1>8. /\ IsFiniteSet(DOMAIN entries2)
      /\ Cardinality(DOMAIN entries2) = Cardinality(DOMAIN entries) + 1
    BY <1>2, FS_AddElement
<1>9. /\ IsFiniteSet(K) /\ Cardinality(K) \in Nat
      /\ Cardinality(K) <= Cardinality(DOMAIN entries2)
      /\ Cardinality(DOMAIN entries2) <= Cardinality(K) + n
    BY ONLY <1>1, <1>8, ErasedCount
<1> HIDE DEF list3, entries3
<1>10. K \subseteq DOMAIN entries \cup {k}
    BY <1>2, <1>4
<1>11. \A l \in K : Where(list3, entries3, l) = IF l = k THEN 1 ELSE Where(list, entries, l) + 1
    BY <1>3, <1>4, <1>6
<1>12. Order(list3, entries3) = Touched(Order(list, entries), k, K)
    BY ONLY <1>10, <1>11, PushedOrder, Live(list, entries), k \notin DOMAIN entries
<1>13. \A l \in K : entries3[l].evidence = IF l = k THEN a ELSE entries[l].evidence
    BY <1>4, <1>5, <1>16
<1>14. Typed(entries3)
    BY <1>2, <1>4, <1>5 DEF Typed
<1>15. /\ Cardinality(DOMAIN entries) + 1 - n <= Cardinality(K)
       /\ Cardinality(K) <= Cardinality(DOMAIN entries) + 1
  <2>1. n \in Nat /\ Cardinality(DOMAIN entries) \in Nat
      BY <1>0, FS_CardinalityType
  <2> QED BY <1>8, <1>9, <2>1
<1>17. Inserted(list, entries, list3, entries3, k, a, n)
    BY <1>6, <1>7, <1>9, <1>10, <1>12, <1>13, <1>14, <1>15 DEF Inserted
<1> QED BY <1>17 DEF list2, entries2, list3, entries3

-----------------------------------------------------------------------------
(* What is given up.                                                       *)

\* While every node is that of an entry, the loop keeps that, and takes what was used
\* least recently.
LEMMA OwnedInserted ==
    ASSUME NEW list, NEW entries, Live(list, entries), AllOwned(list, entries),
           NEW k \in Keys, k \notin DOMAIN entries, NEW a \in Answers, NEW id \in Nat,
           Typed(entries)
    PROVE  AllOwned(Pushed(list, id, k), Enlarged(entries, k, a, id))
<1> DEFINE S == Pushed(list, id, k)
           E == Enlarged(entries, k, a, id)
<1>0. list \in Seq(Nodes) /\ DOMAIN list = 1..Len(list) /\ Len(list) \in Nat
    BY DEF Live
<1>1. /\ DOMAIN S = 1..(Len(list) + 1)
      /\ S[1] = [id |-> id, key |-> k]
      /\ \A i \in 1..Len(list) : S[i + 1] = list[i]
    BY <1>0, PushedIs
<1>2. DOMAIN E = DOMAIN entries \cup {k}
    BY AddedIs
<1>4. ASSUME NEW l \in DOMAIN E
      PROVE  E[l].node = IF l = k THEN id ELSE entries[l].node
    BY DEF Enlarged
<1> HIDE DEF S, E
<1>3. ASSUME NEW i \in DOMAIN S
      PROVE  S[i].key \in DOMAIN E /\ E[S[i].key].node = S[i].id
  <2>1. CASE i = 1
    <3>1. S[1].key = k /\ S[1].id = id
        BY <1>1
    <3> QED BY <1>2, <1>4, <2>1, <3>1
  <2>2. CASE i # 1
    <3>1. i - 1 \in 1..Len(list) /\ (i - 1) + 1 = i
        BY <1>0, <1>1, <2>2
    <3>2. S[i] = list[i - 1]
        BY <1>1, <3>1
    <3>3. list[i - 1].key \in DOMAIN entries /\ entries[list[i - 1].key].node = list[i - 1].id
        BY <1>0, <3>1 DEF AllOwned
    <3>4. list[i - 1].key # k
        BY <3>3
    <3> QED BY <1>2, <1>4, <3>2, <3>3, <3>4
  <2> QED BY <2>1, <2>2
<1> QED BY <1>3 DEF AllOwned, S, E

\* After the loop that still holds.
LEMMA OwnedCut ==
    ASSUME NEW list, NEW entries, Live(list, entries), AllOwned(list, entries),
           NEW n \in 0..Len(list)
    PROVE  AllOwned(Cut(list, n), Erased(list, entries, n))
<1> DEFINE S == Cut(list, n)
           E == Erased(list, entries, n)
<1>0. list \in Seq(Nodes) /\ DOMAIN list = 1..Len(list) /\ Len(list) \in Nat
    BY DEF Live
<1>1. /\ DOMAIN S = 1..(Len(list) - n)
      /\ \A i \in 1..(Len(list) - n) : S[i] = list[i]
    BY <1>0, CutIs
<1>2. DOMAIN E = DOMAIN entries \ Gone(list, n)
    BY ErasedIs
<1>3. ASSUME NEW l \in DOMAIN E PROVE E[l] = entries[l]
    BY DEF Erased
<1> HIDE DEF S, E
<1>4. ASSUME NEW i \in DOMAIN S
      PROVE  S[i].key \in DOMAIN E /\ E[S[i].key].node = S[i].id
  <2>1. i \in DOMAIN list /\ S[i] = list[i]
      BY <1>0, <1>1
  <2>2. list[i].key \in DOMAIN entries /\ entries[list[i].key].node = list[i].id
      BY <2>1 DEF AllOwned
  <2>3. list[i].key \notin Gone(list, n)
    <3> SUFFICES ASSUME NEW j \in Len(list) - n + 1..Len(list), list[j].key = list[i].key
                 PROVE  FALSE
        BY DEF Gone
    <3>1. j \in DOMAIN list /\ j # i
        BY <1>0, <1>1
    <3>2. entries[list[j].key].node = list[j].id
        BY <3>1 DEF AllOwned
    <3>3. list[j].id = list[i].id
        BY <2>2, <3>2
    <3> QED BY <2>1, <3>1, <3>3 DEF Live
  <2> QED BY <1>2, <1>3, <2>1, <2>2, <2>3
<1> QED BY <1>4 DEF AllOwned, S, E

\* An entry that goes was used less recently than one that stays.
LEMMA GoneOld ==
    ASSUME NEW list, NEW entries, Live(list, entries), AllOwned(list, entries),
           NEW n \in 0..Len(list),
           NEW l \in DOMAIN entries, l \in Gone(list, n),
           NEW m \in DOMAIN Erased(list, entries, n)
    PROVE  Where(list, entries, m) < Where(list, entries, l)
<1>0. list \in Seq(Nodes) /\ DOMAIN list = 1..Len(list) /\ Len(list) \in Nat
    BY DEF Live
<1>1. PICK i \in Len(list) - n + 1..Len(list) : list[i].key = l
    BY DEF Gone
<1>2. i \in DOMAIN list
    BY <1>0
<1>3. list[i].id = entries[l].node
    BY <1>1, <1>2 DEF AllOwned
<1>4. Where(list, entries, l) = i
    BY ONLY <1>2, <1>3, IndexIs, Live(list, entries) DEF Where
<1>5. m \in DOMAIN entries \ Gone(list, n)
    BY ErasedIs
<1> DEFINE j == Where(list, entries, m)
<1>6. j \in 1..Len(list) /\ list[j] = [id |-> entries[m].node, key |-> m]
    BY <1>5, AtIs
<1> HIDE DEF j
<1>7. list[j].key = m
    BY <1>6
<1>8. j \notin Len(list) - n + 1..Len(list)
    BY <1>5, <1>7 DEF Gone
<1>9. j < i
    BY <1>0, <1>6, <1>8
<1> QED BY <1>4, <1>9 DEF j

\* And it takes no more than there is no room for.
LEMMA GivenUpExact ==
    ASSUME NEW list, NEW entries, Live(list, entries), AllOwned(list, entries),
           IsFiniteSet(DOMAIN entries), Cardinality(DOMAIN entries) <= capacity + 1,
           capacity \in Nat,
           NEW n, FirstFit(list, entries, n)
    PROVE  Cardinality(DOMAIN Erased(list, entries, n)) =
               IF Cardinality(DOMAIN entries) <= capacity THEN Cardinality(DOMAIN entries)
                                                          ELSE capacity
<1> DEFINE c == Cardinality(DOMAIN entries)
           e(m) == Cardinality(DOMAIN Erased(list, entries, m))
<1>0. list \in Seq(Nodes) /\ DOMAIN list = 1..Len(list) /\ Len(list) \in Nat /\ c \in Nat
    BY FS_CardinalityType DEF Live
<1>1. /\ n \in 0..Len(list) /\ e(n) <= capacity
      /\ \A m \in 0..(n - 1) : ~ (e(m) <= capacity)
    BY DEF FirstFit, Fits
<1>2. e(n) \in Nat /\ c <= e(n) + n /\ e(n) <= c
    BY <1>0, <1>1, ErasedCount
<1>3. e(0) = c
    BY <1>0, ErasedNone
<1>4. CASE n = 0
    BY <1>0, <1>1, <1>3, <1>4
<1>5. CASE n # 0
  <2>1. c = capacity + 1
    <3>1. 0 \in 0..(n - 1)
        BY <1>1, <1>5
    <3> HIDE DEF c, e
    <3>2. ~ (e(0) <= capacity)
        BY <1>1, <3>1
    <3> QED BY <1>0, <1>3, <3>2 DEF c
  <2>2. e(1) <= capacity
    <3>1. Len(list) >= 1
        BY <1>0, <1>1, <1>5
    <3> DEFINE last == list[Len(list)].key
    <3>2. Gone(list, 1) = {last}
      <4>1. Len(list) - 1 + 1..Len(list) = {Len(list)}
          BY <1>0, <3>1
      <4> QED BY <4>1 DEF Gone
    <3>3. last \in DOMAIN entries
        BY <1>0, <3>1 DEF AllOwned
    <3> HIDE DEF last
    <3>4. DOMAIN Erased(list, entries, 1) = DOMAIN entries \ {last}
      <4>1. DOMAIN Erased(list, entries, 1) = DOMAIN entries \ Gone(list, 1)
          BY ErasedIs
      <4> QED BY <3>2, <4>1
    <3>5. e(1) = c - 1
        BY <3>3, <3>4, FS_RemoveElement
    <3> QED BY <1>0, <2>1, <3>5
  <2>3. n = 1
    <3> HIDE DEF c, e
    <3>1. 1 \notin 0..(n - 1)
        BY <1>1, <2>2
    <3> QED BY <1>0, <1>1, <1>5, <3>1
  <2> HIDE DEF c, e
  <2>4. e(n) = capacity /\ ~ (c <= capacity)
      BY <1>0, <1>1, <1>2, <2>1, <2>3
  <2> QED BY <2>4 DEF c, e
<1> QED BY <1>4, <1>5

-----------------------------------------------------------------------------
(* The invariants.                                                         *)

\* What holds of the list and the map after f stores have failed.
Fine(list, entries, f) ==
    /\ Live(list, entries) /\ Typed(entries) /\ IsFiniteSet(DOMAIN entries) /\ f \in Nat
    /\ Len(list) <= Cardinality(DOMAIN entries) + f
    /\ Len(list) <= capacity + f
    /\ f = 0 => AllOwned(list, entries) /\ Cardinality(DOMAIN entries) <= capacity

\* The invariant of the cache.
CacheInv == Fine(lru, cache, failures)

\* What the calls hold.
CallTypes ==
    /\ AdapterTypeOK
    /\ key \in [Callers -> Keys \cup {None}] /\ answer \in [Callers -> Answers \cup {None}]
    /\ \A t \in Callers : /\ place[t] \in {"lookup", "ask", "worker", "store"} => key[t] \in Keys
                          /\ place[t] = "store" => answer[t] \in Answers

\* After a splice all of it still holds.
LEMMA FrontedFine ==
    ASSUME NEW list, NEW entries, NEW f, Fine(list, entries, f), capacity \in Nat,
           NEW k \in DOMAIN entries, NEW list2,
           Fronted(list, Where(list, entries, k), list2),
           NEW entries2, DOMAIN entries2 = DOMAIN entries, Typed(entries2),
           \A l \in DOMAIN entries : entries2[l].node = entries[l].node
    PROVE  Fine(list2, entries2, f)
<1> DEFINE p == Where(list, entries, k)
<1>0. Live(list, entries) /\ list \in Seq(Nodes)
    BY DEF Fine, Live
<1>1. p \in 1..Len(list)
    BY <1>0, AtIs
<1>2. Live(list2, entries2)
    BY <1>0, <1>1, FrontedLive
<1>3. Len(list2) = Len(list)
    BY DEF Fronted
<1>9. Fronted(list, p, list2)
    OBVIOUS
<1>4. ASSUME AllOwned(list, entries) PROVE AllOwned(list2, entries2)
  <2> HIDE DEF p
  <2>1. /\ DOMAIN list2 = 1..Len(list) /\ DOMAIN list = 1..Len(list)
        /\ \A i \in 1..Len(list) : Behind(p, i) \in 1..Len(list) /\ list2[Behind(p, i)] = list[i]
        /\ \A j \in 1..Len(list) : \E i \in 1..Len(list) : j = Behind(p, i)
      BY ONLY <1>0, <1>1, <1>9, FrontedAt
  <2>2. ASSUME NEW j \in DOMAIN list2
        PROVE  list2[j].key \in DOMAIN entries2 /\ entries2[list2[j].key].node = list2[j].id
    <3>1. PICK i \in 1..Len(list) : j = Behind(p, i)
        BY <2>1
    <3>2. i \in DOMAIN list /\ list2[j] = list[i]
        BY <2>1, <3>1
    <3>3. list[i].key \in DOMAIN entries /\ entries[list[i].key].node = list[i].id
        BY <1>4, <3>2 DEF AllOwned
    <3> QED BY <3>2, <3>3
  <2> QED BY <2>2 DEF AllOwned
<1> QED BY <1>2, <1>3, <1>4 DEF Fine

\* Before, in the words of the lemmas.
LEMMA BeforeIs == Before = Order(lru, cache)
BY DEF Before, Position, NodeAt, Order, Where, Index

\* And afterwards.
LEMMA BeforeIsPrimed == Before' = Order(lru', cache')
BY DEF Before, Position, NodeAt, Order, Where, Index

\* The model's splice is the lemmas'.
LEMMA SplicedFronts ==
    ASSUME Live(lru, cache), NEW k \in DOMAIN cache
    PROVE  Fronted(lru, Where(lru, cache, k), Spliced(cache[k].node))
<1>1. Where(lru, cache, k) \in 1..Len(lru) /\ lru \in Seq(Nodes)
    BY AtIs DEF Live
<1>2. NodeAt(cache[k].node) = Where(lru, cache, k)
    BY DEF NodeAt, Where, Index
<1> QED BY <1>1, <1>2, SplicedIs DEF Spliced

-----------------------------------------------------------------------------
(* What a step of the cache is in the abstract one.                        *)

\* A splice alone is a hit.
LEMMA HitMaps ==
    ASSUME NEW k \in DOMAIN cache, cache' = cache, failures' = failures,
           Before' = Touched(Before, k, DOMAIN cache)
    PROVE  Recency!Hit(k)
<1>1. DOMAIN Evidence = DOMAIN cache /\ Evidence' = Evidence
    BY DEF Evidence
<1> QED BY <1>1 DEF Recency!Hit, Recency!Use, Recency!Cached, Touched

\* The entries of K are kept, that of k with a for its answer.
Kept(k, a, K) ==
    /\ K \subseteq DOMAIN cache \cup {k} /\ DOMAIN cache' = K
    /\ \A l \in K : cache'[l].evidence = IF l = k THEN a ELSE cache[l].evidence
    /\ Before' = Touched(Before, k, K)

\* They are kept in the abstract cache.
LEMMA KeepMaps ==
    ASSUME NEW k, NEW a, NEW K, Kept(k, a, K)
    PROVE  /\ Recency!Keep(k, a, K)
           /\ K \in SUBSET (Recency!Cached \cup {k}) /\ Recency!Cached = DOMAIN cache
<1>1. DOMAIN Evidence = DOMAIN cache
    BY DEF Evidence
<1>2. \A l \in DOMAIN cache : Evidence[l] = cache[l].evidence
    BY DEF Evidence
<1>3. Evidence' = [l \in K |-> cache'[l].evidence]
    BY DEF Kept, Evidence
<1>4. ASSUME NEW l \in K
      PROVE  cache'[l].evidence = IF l = k THEN a ELSE Evidence[l]
    BY <1>2 DEF Kept
<1>5. Evidence' = [l \in K |-> IF l = k THEN a ELSE Evidence[l]]
    BY <1>3, <1>4
<1> QED BY <1>1, <1>5 DEF Kept, Recency!Keep, Recency!Use, Recency!Cached, Touched

\* The abstract cache counts as the concrete one does.
LEMMA SameCardinality == \A S : Recency!Cardinality(S) = Cardinality(S)
BY Zenon DEF Cardinality, Recency!Cardinality

\* A store without a failure is a Put if it gives up no more than Put may.
LEMMA PutMaps ==
    ASSUME NEW k, NEW a, NEW K, Kept(k, a, K), failures' = failures,
           IF failures > 0
           THEN \/ Cardinality(K) <= capacity
                \/ Cardinality(K) <= Cardinality(DOMAIN cache)
           ELSE LET all == DOMAIN cache \cup {k} IN
                /\ Cardinality(K) =
                       IF Cardinality(all) <= capacity THEN Cardinality(all) ELSE capacity
                /\ \A l \in all \ K, m \in K : m = k \/ <<m, l>> \in Before
    PROVE  Recency!Put(k, a)
<1>1. /\ Recency!Keep(k, a, K)
      /\ K \in SUBSET (Recency!Cached \cup {k}) /\ Recency!Cached = DOMAIN cache
    BY KeepMaps
<1>2. IF failures > 0
      THEN Cardinality(K) <= capacity \/ Cardinality(K) <= Cardinality(Recency!Cached)
      ELSE Recency!LeastRecent(k, K)
    BY <1>1, SameCardinality DEF Recency!LeastRecent
<1> QED BY <1>1, <1>2, SameCardinality DEF Recency!Put

\* A store that fails is a FailedPut.
LEMMA FailedPutMaps ==
    ASSUME NEW k, NEW a, NEW K, Kept(k, a, K), failures \in Nat, failures' = failures + 1
    PROVE  Recency!FailedPut(k, a)
<1>1. /\ Recency!Keep(k, a, K)
      /\ K \in SUBSET (Recency!Cached \cup {k})
    BY KeepMaps
<1>2. failures' > 0
    OBVIOUS
<1> QED BY <1>1, <1>2 DEF Recency!FailedPut

\* What a step of the cache does, whatever becomes of the call.
CacheStep == Fine(lru', cache', failures') /\ [Recency!Next]_(Recency!vars)

\* Most steps of a call leave the cache alone.
LEMMA CacheRests ==
    ASSUME CacheInv, UNCHANGED cacheVars
    PROVE  CacheStep
<1>1. lru' = lru /\ cache' = cache /\ failures' = failures
    BY DEF cacheVars
<1>2. Fine(lru', cache', failures')
    BY <1>1 DEF CacheInv
<1>3. Before' = Before /\ Evidence' = Evidence /\ (failures > 0)' = (failures > 0)
    BY <1>1, BeforeIs, BeforeIsPrimed DEF Evidence
<1> QED BY <1>2, <1>3 DEF CacheStep, Recency!vars

\* try_get_cached with a hit.
LEMMA HitSteps ==
    ASSUME CacheInv, capacity \in Nat, NEW k \in Keys, k \in DOMAIN cache,
           lru' = Spliced(cache[k].node), cache' = cache, failures' = failures
    PROVE  CacheStep
<1>1. Fine(lru, cache, failures) /\ Live(lru, cache) /\ Typed(cache)
    BY DEF CacheInv, Fine
<1>2. Fronted(lru, Where(lru, cache, k), lru')
    BY <1>1, SplicedFronts
<1>3. Fine(lru', cache, failures)
    BY <1>1, <1>2, FrontedFine
<1>4. Order(lru', cache) = Touched(Order(lru, cache), k, DOMAIN cache)
    BY <1>1, <1>2, FrontedOrder
<1>5. Before' = Touched(Before, k, DOMAIN cache)
    BY <1>4, BeforeIs, BeforeIsPrimed
<1>6. Recency!Hit(k)
    BY <1>5, HitMaps
<1> QED BY <1>3, <1>6 DEF CacheStep, Recency!Next

\* store_cached of a key that another call has stored meanwhile.
LEMMA ReplaceSteps ==
    ASSUME CacheInv, capacity \in Nat, NEW k \in Keys, k \in DOMAIN cache, NEW a \in Answers,
           lru' = Spliced(cache[k].node), cache' = [cache EXCEPT ![k].evidence = a],
           failures' = failures
    PROVE  CacheStep
<1>1. Fine(lru, cache, failures) /\ Live(lru, cache) /\ Typed(cache)
    BY DEF CacheInv, Fine
<1>2. Fronted(lru, Where(lru, cache, k), lru')
    BY <1>1, SplicedFronts
<1>3. DOMAIN cache' = DOMAIN cache
    OBVIOUS
<1>4. ASSUME NEW l \in DOMAIN cache
      PROVE  /\ cache'[l].node = cache[l].node
             /\ cache'[l].evidence = IF l = k THEN a ELSE cache[l].evidence
    BY <1>4
<1>5. Typed(cache')
    BY <1>1, <1>3, <1>4 DEF Typed
<1>6. Fine(lru', cache', failures')
    BY <1>1, <1>2, <1>3, <1>4, <1>5, FrontedFine
<1>7. Order(lru', cache') = Touched(Order(lru, cache), k, DOMAIN cache)
  <2>1. \A l \in DOMAIN cache : cache'[l].node = cache[l].node
      BY <1>4
  <2> QED BY ONLY <1>1, <1>2, <1>3, <2>1, k \in DOMAIN cache, FrontedOrder
<1>8. Before' = Touched(Before, k, DOMAIN cache)
    BY <1>7, BeforeIs, BeforeIsPrimed
<1>9. Kept(k, a, DOMAIN cache)
    BY <1>3, <1>4, <1>8 DEF Kept
<1>10. failures = 0 => Cardinality(DOMAIN cache) <= capacity
    BY <1>1 DEF Fine
<1>11. DOMAIN cache \cup {k} = DOMAIN cache /\ Cardinality(DOMAIN cache) \in Nat
    BY <1>1, FS_CardinalityType DEF Fine
<1>12. failures > 0 \/ failures = 0
    BY <1>1 DEF Fine
<1>13. IF failures > 0
       THEN \/ Cardinality(DOMAIN cache) <= capacity
            \/ Cardinality(DOMAIN cache) <= Cardinality(DOMAIN cache)
       ELSE LET all == DOMAIN cache \cup {k} IN
            /\ Cardinality(DOMAIN cache) =
                   IF Cardinality(all) <= capacity THEN Cardinality(all) ELSE capacity
            /\ \A l \in all \ DOMAIN cache, m \in DOMAIN cache : m = k \/ <<m, l>> \in Before
    BY <1>10, <1>11, <1>12
<1>14. Recency!Put(k, a)
    BY <1>9, <1>13, PutMaps
<1> QED BY <1>6, <1>14 DEF CacheStep, Recency!Next

-----------------------------------------------------------------------------
(* store_cached of a key that is not there.                                *)

\* n rounds of the loop after push_front and emplace.
LEMMA EvictKeeps ==
    ASSUME CacheInv, NEW k \in Keys, k \notin DOMAIN cache, NEW a \in Answers,
           NEW id \in Nat, \A j \in DOMAIN lru : lru[j].id # id,
           NEW n \in 0..(Len(lru) + 1),
           Evict(Pushed(lru, id, k), Enlarged(cache, k, a, id), n)
    PROVE  /\ Kept(k, a, DOMAIN cache')
           /\ Live(lru', cache') /\ Typed(cache') /\ IsFiniteSet(DOMAIN cache')
           /\ Cardinality(DOMAIN cache') \in Nat /\ Cardinality(DOMAIN cache) \in Nat
           /\ Len(lru') = Len(lru) + 1 - n /\ Len(lru) \in Nat
           /\ Cardinality(DOMAIN cache) + 1 - n <= Cardinality(DOMAIN cache')
           /\ Cardinality(DOMAIN cache') <= Cardinality(DOMAIN cache) + 1
<1>1. Live(lru, cache) /\ Typed(cache) /\ IsFiniteSet(DOMAIN cache) /\ Len(lru) \in Nat
    BY DEF CacheInv, Fine, Live
<1>2. /\ lru' = Cut(Pushed(lru, id, k), n)
      /\ cache' = Erased(Pushed(lru, id, k), Enlarged(cache, k, a, id), n)
    BY DEF Evict, Cut
<1>3. Inserted(lru, cache, lru', cache', k, a, n)
  <2>1. Inserted(lru, cache, Cut(Pushed(lru, id, k), n),
                 Erased(Pushed(lru, id, k), Enlarged(cache, k, a, id), n), k, a, n)
      BY <1>1, InsertIs
  <2> QED BY <1>2, <2>1
<1>4. Before' = Touched(Before, k, DOMAIN cache')
    BY <1>3, BeforeIs, BeforeIsPrimed DEF Inserted
<1>5. Kept(k, a, DOMAIN cache')
    BY <1>3, <1>4 DEF Kept, Inserted
<1>6. Cardinality(DOMAIN cache) \in Nat
    BY <1>1, FS_CardinalityType
<1> QED BY <1>1, <1>3, <1>5, <1>6 DEF Inserted

\* store_cached without a failure.
LEMMA InsertSteps ==
    ASSUME CacheInv, capacity \in Nat,
           NEW k \in Keys, k \notin DOMAIN cache, NEW a \in Answers,
           NEW id \in Nat, \A j \in DOMAIN lru : lru[j].id # id,
           NEW n, FirstFit(Pushed(lru, id, k), Enlarged(cache, k, a, id), n),
           Evict(Pushed(lru, id, k), Enlarged(cache, k, a, id), n), failures' = failures
    PROVE  CacheStep
<1> DEFINE list == Pushed(lru, id, k)
           entries == Enlarged(cache, k, a, id)
           K == DOMAIN cache'
           all == DOMAIN cache \cup {k}
           c == Cardinality(DOMAIN cache)
<1>1. /\ Live(lru, cache) /\ Typed(cache) /\ IsFiniteSet(DOMAIN cache) /\ failures \in Nat
      /\ Len(lru) <= c + failures /\ Len(lru) <= capacity + failures
      /\ failures = 0 => AllOwned(lru, cache) /\ c <= capacity
    BY DEF CacheInv, Fine
<1>2. lru \in Seq(Nodes) /\ Len(lru) \in Nat /\ c \in Nat
    BY <1>1, FS_CardinalityType DEF Live
<1>3. n \in 0..(Len(lru) + 1)
  <2>1. Len(list) = Len(lru) + 1
      BY <1>2, PushedIs
  <2> QED BY <2>1 DEF FirstFit
<1>4. /\ Kept(k, a, K) /\ Live(lru', cache') /\ Typed(cache') /\ IsFiniteSet(K)
      /\ Cardinality(K) \in Nat /\ Len(lru') = Len(lru) + 1 - n
      /\ c + 1 - n <= Cardinality(K) /\ Cardinality(K) <= c + 1
    BY <1>3, EvictKeeps
<1>5. lru' = Cut(list, n) /\ cache' = Erased(list, entries, n)
    BY DEF Evict, Cut
<1>6. /\ DOMAIN entries = all /\ Typed(entries) /\ IsFiniteSet(all)
      /\ Cardinality(all) = c + 1
    BY <1>1, AddedIs, FS_AddElement
<1>7. Cardinality(K) <= capacity
    BY <1>5 DEF FirstFit, Fits
<1>8. n = 0 => Cardinality(all) <= capacity
  <2> HIDE DEF list, entries
  <2> SUFFICES ASSUME n = 0 PROVE Cardinality(all) <= capacity
      OBVIOUS
  <2>1. list \in Seq(Nodes)
      BY <1>2, PushedIs DEF list
  <2>2. K = all
      BY <1>5, <1>6, <2>1, ErasedNone
  <2> QED BY <1>7, <2>2
<1>9. Len(lru') <= Cardinality(K) + failures
    BY <1>1, <1>2, <1>3, <1>4
<1>10. Len(lru') <= capacity + failures
  <2>1. CASE n = 0
      BY <1>1, <1>2, <1>4, <1>6, <1>8, <2>1
  <2>2. CASE n # 0
      BY <1>1, <1>2, <1>3, <1>4, <2>2
  <2> QED BY <2>1, <2>2
<1>11. /\ Live(list, entries) /\ n \in 0..Len(list)
  <2>1. /\ DOMAIN entries \subseteq DOMAIN cache \cup {k}
        /\ \A l \in DOMAIN entries : entries[l].node = IF l = k THEN id ELSE cache[l].node
      BY DEF Enlarged
  <2> HIDE DEF entries
  <2>2. Live(list, entries)
      BY <1>1, <2>1, PushedLive
  <2> QED BY <2>2 DEF FirstFit, entries
<1>12. ASSUME failures = 0
       PROVE  /\ AllOwned(lru', cache')
              /\ Cardinality(K) =
                     IF Cardinality(all) <= capacity THEN Cardinality(all) ELSE capacity
              /\ \A l \in all \ K, m \in K : m = k \/ <<m, l>> \in Before
  <2>1. AllOwned(lru, cache) /\ c <= capacity
      BY <1>1, <1>12
  <2>2. AllOwned(list, entries)
      BY <1>1, <2>1, OwnedInserted
  <2>3. FirstFit(list, entries, n) /\ Cardinality(DOMAIN entries) <= capacity + 1
      BY <1>2, <1>6, <2>1
  <2> HIDE DEF list, entries
  <2>4. AllOwned(lru', cache')
      BY <1>5, <1>11, <2>2, OwnedCut
  <2>5. Cardinality(K) = IF Cardinality(all) <= capacity THEN Cardinality(all) ELSE capacity
      BY <1>5, <1>6, <1>11, <2>2, <2>3, GivenUpExact
  <2>6. ASSUME NEW l \in all \ K, NEW m \in K, m # k
        PROVE  <<m, l>> \in Before
    <3>1. DOMAIN cache' = DOMAIN entries \ Gone(list, n)
        BY <1>5, ErasedIs
    <3>2. l \in DOMAIN entries /\ l \in Gone(list, n)
        BY <1>6, <2>6, <3>1
    <3>3. Where(list, entries, m) < Where(list, entries, l)
        BY <1>5, <1>11, <2>2, <2>6, <3>2, GoneOld
    <3>4. \A x \in DOMAIN entries :
              Where(list, entries, x) = IF x = k THEN 1 ELSE Where(lru, cache, x) + 1
      <4>1. /\ DOMAIN entries \subseteq DOMAIN cache \cup {k}
            /\ \A x \in DOMAIN entries : entries[x].node = IF x = k THEN id ELSE cache[x].node
          BY DEF Enlarged, entries
      <4> QED BY <1>1, <4>1, PushedLive DEF list
    <3>5. m \in DOMAIN cache
        BY <1>6, <2>6, <3>1
    <3>6. Where(list, entries, m) = Where(lru, cache, m) + 1 /\ Where(lru, cache, m) \in 1..Len(lru)
        BY <1>1, <1>6, <2>6, <3>4, <3>5, AtIs
    <3>7. l # k
      <4>1. SUFFICES ASSUME l = k PROVE FALSE
          OBVIOUS
      <4>2. Where(list, entries, l) = 1
          BY <3>2, <3>4, <4>1
      <4> QED BY <1>2, <3>3, <3>6, <4>2
    <3>8. l \in DOMAIN cache
        BY <1>6, <3>2, <3>7
    <3>9. Where(list, entries, l) = Where(lru, cache, l) + 1 /\ Where(lru, cache, l) \in 1..Len(lru)
        BY <1>1, <3>2, <3>4, <3>7, <3>8, AtIs
    <3>10. Where(lru, cache, m) < Where(lru, cache, l)
        BY <1>2, <3>3, <3>6, <3>9
    <3> QED BY <3>5, <3>8, <3>10, PairIn, BeforeIs
  <2> QED BY <2>4, <2>5, <2>6
<1> HIDE DEF K, all, c
<1>13. Fine(lru', cache', failures')
  <2>1. failures' = failures
      OBVIOUS
  <2> QED BY <1>1, <1>4, <1>7, <1>9, <1>10, <1>12, <2>1 DEF Fine, K
<1>14. IF failures > 0
       THEN Cardinality(K) <= capacity \/ Cardinality(K) <= Cardinality(DOMAIN cache)
       ELSE /\ Cardinality(K) = IF Cardinality(all) <= capacity THEN Cardinality(all) ELSE capacity
            /\ \A l \in all \ K, m \in K : m = k \/ <<m, l>> \in Before
  <2>1. failures > 0 \/ failures = 0
      BY <1>1
  <2> QED BY <1>7, <1>12, <2>1
<1>15. Recency!Put(k, a)
    BY <1>4, <1>14, PutMaps DEF all
<1> QED BY <1>13, <1>15 DEF CacheStep, Recency!Next

\* store_cached runs out of memory.
LEMMA FailureSteps ==
    ASSUME CacheInv, capacity \in Nat,
           NEW k \in Keys, k \notin DOMAIN cache, NEW a \in Answers,
           NEW id \in Nat, \A j \in DOMAIN lru : lru[j].id # id,
           failures' = failures + 1,
           \/ UNCHANGED <<lru, cache>>
           \/ lru' = Pushed(lru, id, k) /\ UNCHANGED cache
           \/ \E n \in 0..Len(lru) : Evict(Pushed(lru, id, k), Enlarged(cache, k, a, id), n)
    PROVE  CacheStep
<1> DEFINE c == Cardinality(DOMAIN cache)
           list == Pushed(lru, id, k)
<1>1. /\ Live(lru, cache) /\ Typed(cache) /\ IsFiniteSet(DOMAIN cache) /\ failures \in Nat
      /\ Len(lru) <= c + failures /\ Len(lru) <= capacity + failures
    BY DEF CacheInv, Fine
<1>2. lru \in Seq(Nodes) /\ Len(lru) \in Nat /\ c \in Nat
    BY <1>1, FS_CardinalityType DEF Live
<1>3. failures' \in Nat /\ failures' # 0 /\ failures' = failures + 1
    BY <1>1
<1>4. SUFFICES ASSUME NEW K, Kept(k, a, K), Fine(lru', cache', failures')
               PROVE  CacheStep
  <2>1. CASE UNCHANGED <<lru, cache>>
    <3>1. Fine(lru', cache', failures')
        BY <1>1, <1>2, <1>3, <2>1 DEF Fine
    <3>2. Before' = Before
        BY <2>1, BeforeIs, BeforeIsPrimed
    <3>3. Before = Touched(Before, k, DOMAIN cache)
        BY DEF Before, Touched
    <3>4. Kept(k, a, DOMAIN cache)
        BY <2>1, <3>2, <3>3 DEF Kept
    <3> QED BY <3>1, <3>4
  <2>2. CASE lru' = list /\ UNCHANGED cache
    <3>1. /\ Live(lru', cache)
          /\ \A l \in DOMAIN cache :
                 Where(lru', cache, l) = IF l = k THEN 1 ELSE Where(lru, cache, l) + 1
      <4>1. \A l \in DOMAIN cache : cache[l].node = IF l = k THEN id ELSE cache[l].node
          OBVIOUS
      <4>2. lru' = Pushed(lru, id, k) /\ Live(lru, cache)
          BY <1>1, <2>2
      <4>3. DOMAIN cache \subseteq DOMAIN cache \cup {k}
          OBVIOUS
      <4> QED BY ONLY <4>1, <4>2, <4>3, PushedLive, k \in Keys, id \in Nat,
                      \A j \in DOMAIN lru : lru[j].id # id
    <3>2. Len(lru') = Len(lru) + 1
        BY <1>2, <2>2, PushedIs
    <3>3. Fine(lru', cache', failures')
        BY <1>1, <1>2, <1>3, <2>2, <3>1, <3>2 DEF Fine
    <3>4. Order(lru', cache) = Touched(Order(lru, cache), k, DOMAIN cache)
        BY <1>1, <3>1, PushedOrder
    <3>5. Before' = Touched(Before, k, DOMAIN cache)
        BY <2>2, <3>4, BeforeIs, BeforeIsPrimed
    <3>6. Kept(k, a, DOMAIN cache)
        BY <2>2, <3>5 DEF Kept
    <3> QED BY <3>3, <3>6
  <2>3. ASSUME NEW n \in 0..Len(lru), Evict(list, Enlarged(cache, k, a, id), n)
        PROVE  CacheStep
    <3>1. n \in 0..(Len(lru) + 1)
        BY <1>2
    <3>2. /\ Kept(k, a, DOMAIN cache')
          /\ Live(lru', cache') /\ Typed(cache') /\ IsFiniteSet(DOMAIN cache')
          /\ Cardinality(DOMAIN cache') \in Nat
          /\ Len(lru') = Len(lru) + 1 - n
          /\ c + 1 - n <= Cardinality(DOMAIN cache')
        BY <2>3, <3>1, EvictKeeps
    <3>3. /\ Len(lru') <= Cardinality(DOMAIN cache') + failures'
          /\ Len(lru') <= capacity + failures'
        BY <1>1, <1>2, <1>3, <3>1, <3>2
    <3>4. Fine(lru', cache', failures')
        BY <1>3, <3>2, <3>3 DEF Fine
    <3> QED BY <3>2, <3>4
  <2> QED BY <2>1, <2>2, <2>3
<1>5. Recency!FailedPut(k, a)
    BY <1>1, <1>4, FailedPutMaps
<1> QED BY <1>4, <1>5 DEF CacheStep, Recency!Next

-----------------------------------------------------------------------------
(* The steps of a call.                                                    *)

\* A list has an identity to spare, so FreshId is one.
LEMMA FreshIs ==
    ASSUME Live(lru, cache)
    PROVE  FreshId \in Nat /\ \A j \in DOMAIN lru : lru[j].id # FreshId
<1>1. lru \in Seq(Nodes) /\ Len(lru) \in Nat
    BY DEF Live
<1>2. \E i \in 0..Len(lru) : \A j \in DOMAIN lru : lru[j].id # i
    BY <1>1, SomeIsFresh
<1>3. FreshId \in 0..Len(lru) /\ \A j \in DOMAIN lru : lru[j].id # FreshId
    BY <1>2 DEF FreshId
<1> QED BY <1>1, <1>3

\* Insert is one of the two.
LEMMA InsertIsStep ==
    ASSUME CacheInv, capacity \in Nat, NEW t \in Callers, key[t] \in Keys,
           key[t] \notin DOMAIN cache, answer[t] \in Answers, Insert(t)
    PROVE  CacheStep
<1> DEFINE k == key[t]
           a == answer[t]
           list == Pushed(lru, FreshId, k)
           entries == Enlarged(cache, k, a, FreshId)
           rounds == CHOOSE n \in 0..Len(list) :
                         Fits(list, entries, n) /\ \A m \in 0..(n - 1) : ~Fits(list, entries, m)
<1>1. Live(lru, cache) /\ Typed(cache) /\ lru \in Seq(Nodes) /\ Len(lru) \in Nat
    BY DEF CacheInv, Fine, Live
<1>2. FreshId \in Nat /\ \A j \in DOMAIN lru : lru[j].id # FreshId
    BY <1>1, FreshIs
<1>3. \/ Evict(list, entries, rounds) /\ UNCHANGED failures
      \/ /\ failures' = failures + 1
         /\ \/ UNCHANGED <<lru, cache>>
            \/ lru' = list /\ UNCHANGED cache
            \/ \E n \in 0..(rounds - 1) : Evict(list, entries, n)
    BY Zenon DEF Insert, Pushed, Enlarged
<1>4. Live(list, entries)
  <2>1. /\ DOMAIN entries \subseteq DOMAIN cache \cup {k}
        /\ \A l \in DOMAIN entries : entries[l].node = IF l = k THEN FreshId ELSE cache[l].node
      BY DEF Enlarged
  <2> HIDE DEF entries
  <2> QED BY <1>1, <1>2, <2>1, PushedLive
<1> HIDE DEF rounds, entries
<1>5. Len(list) = Len(lru) + 1
  <2>1. lru \in Seq(Nodes) /\ k \in Keys /\ FreshId \in Nat
      BY <1>1, <1>2
  <2> QED BY ONLY <2>1, PushedIs
<1> HIDE DEF list
<1>6. FirstFit(list, entries, rounds)
  <2>1. \E n \in 0..Len(list) :
            Fits(list, entries, n) /\ \A m \in 0..(n - 1) : ~Fits(list, entries, m)
      BY <1>4, LoopEnds DEF FirstFit
  <2>2. /\ rounds \in 0..Len(list) /\ Fits(list, entries, rounds)
        /\ \A m \in 0..(rounds - 1) : ~Fits(list, entries, m)
      BY <2>1 DEF rounds
  <2> QED BY <2>2 DEF FirstFit
<1>7. CASE Evict(list, entries, rounds) /\ UNCHANGED failures
    BY <1>2, <1>6, <1>7, InsertSteps DEF list, entries
<1>8. CASE /\ failures' = failures + 1
           /\ \/ UNCHANGED <<lru, cache>>
              \/ lru' = list /\ UNCHANGED cache
              \/ \E n \in 0..(rounds - 1) : Evict(list, entries, n)
  <2>1. \A n \in 0..(rounds - 1) : n \in 0..Len(lru)
      BY <1>1, <1>5, <1>6 DEF FirstFit
  <2>2. \/ UNCHANGED <<lru, cache>>
        \/ lru' = list /\ UNCHANGED cache
        \/ \E n \in 0..Len(lru) : Evict(list, entries, n)
      BY <1>8, <2>1
  <2> QED BY <1>2, <1>8, <2>2, FailureSteps DEF list, entries
<1> QED BY <1>3, <1>7, <1>8

\* All of store_cached.
LEMMA StoreSteps ==
    ASSUME CacheInv, CallTypes, capacity \in Nat, NEW t \in Callers, Store(t)
    PROVE  CacheStep
<1>1. key[t] \in Keys /\ answer[t] \in Answers
    BY DEF Store, CallTypes
<1>2. CASE UNCHANGED cacheVars
    BY <1>2, CacheRests
<1>3. CASE key[t] \in DOMAIN cache /\ ReplaceAnswer(t)
    BY <1>1, <1>3, ReplaceSteps DEF ReplaceAnswer
<1>4. CASE key[t] \notin DOMAIN cache /\ Insert(t)
    BY <1>1, <1>4, InsertIsStep
<1> QED BY <1>2, <1>3, <1>4 DEF Store

\* try_get_cached.
LEMMA LookupSteps ==
    ASSUME CacheInv, CallTypes, capacity \in Nat, NEW t \in Callers, Lookup(t)
    PROVE  CacheStep
<1>1. key[t] \in Keys
    BY DEF Lookup, CallTypes
<1>2. CASE UNCHANGED cacheVars
    BY <1>2, CacheRests
<1>3. CASE /\ key[t] \in DOMAIN cache
           /\ lru' = Spliced(cache[key[t]].node)
           /\ UNCHANGED <<cache, failures>>
    BY <1>1, <1>3, HitSteps
<1> QED BY <1>2, <1>3 DEF Lookup

\* Every step of the adapter is one of the abstract cache, or a stutter.
LEMMA CacheSteps ==
    ASSUME CacheInv, CallTypes, capacity \in Nat, [AdapterNext]_adapterVars
    PROVE  CacheStep
<1>1. CASE UNCHANGED adapterVars
    BY <1>1, CacheRests DEF adapterVars
<1>2. ASSUME NEW t \in Callers, AdapterStep(t) PROVE CacheStep
  <2>1. CASE BeginLookup(t)
      BY <2>1, CacheRests DEF BeginLookup
  <2>2. CASE Encoded(t)
      BY <2>2, CacheRests DEF Encoded
  <2>3. CASE Lookup(t)
      BY <2>3, LookupSteps
  <2>4. CASE Ask(t)
      BY <2>4, CacheRests DEF Ask
  <2>5. CASE Answered(t)
      BY <2>5, CacheRests DEF Answered
  <2>6. CASE Store(t)
      BY <2>6, StoreSteps
  <2>7. CASE Expire(t)
      BY <2>7, CacheRests DEF Expire
  <2> QED BY <1>2, <2>1, <2>2, <2>3, <2>4, <2>5, <2>6, <2>7 DEF AdapterStep
<1> QED BY <1>1, <1>2 DEF AdapterNext, AdapterFinished

\* What is in the cache has the types AdapterTypeOK says.
LEMMA CacheTypes ==
    ASSUME CacheInv
    PROVE  /\ lru \in Seq([id : Nat, key : Keys]) /\ DOMAIN cache \subseteq Keys
           /\ \A k \in DOMAIN cache : cache[k].evidence \in Answers /\ cache[k].node \in Nat
BY DEF CacheInv, Fine, Live, Nodes, Typed

\* What the calls hold, without what is in the cache.
Holdings ==
    /\ place \in [Callers -> {"idle", "encode", "lookup", "ask", "worker", "store"}]
    /\ expired \in [Callers -> BOOLEAN]
    /\ key \in [Callers -> Keys \cup {None}] /\ answer \in [Callers -> Answers \cup {None}]
    /\ \A t \in Callers : /\ place[t] \in {"lookup", "ask", "worker", "store"} => key[t] \in Keys
                          /\ place[t] = "store" => answer[t] \in Answers

\* Together they are CallTypes.
LEMMA TypesSplit == CacheInv => (CallTypes <=> Holdings)
BY CacheTypes DEF CallTypes, Holdings, AdapterTypeOK

\* A call that looks up has a digest, and one that stores an answer.
LEMMA HoldingsStep ==
    ASSUME Holdings, [AdapterNext]_adapterVars
    PROVE  Holdings'
<1>1. CASE UNCHANGED adapterVars
    BY <1>1 DEF Holdings, adapterVars, callVars
<1>2. ASSUME NEW t \in Callers, AdapterStep(t) PROVE Holdings'
  <2> USE DEF Holdings, Go, End
  <2>1. CASE BeginLookup(t)
      BY <2>1 DEF BeginLookup
  <2>2. CASE Encoded(t)
      BY <2>2 DEF Encoded
  <2>3. CASE Lookup(t)
    <3>1. CASE End(t)
        BY <3>1
    <3>2. CASE Go(t, "ask") /\ place[t] = "lookup" /\ UNCHANGED <<key, answer>>
        BY <3>2
    <3> QED BY <2>3, <3>1, <3>2 DEF Lookup
  <2>4. CASE Ask(t)
    <3>1. CASE End(t)
        BY <3>1
    <3>2. CASE Go(t, "worker") /\ place[t] = "ask" /\ UNCHANGED <<key, answer>>
        BY <3>2
    <3> QED BY <2>4, <3>1, <3>2 DEF Ask
  <2>5. CASE Answered(t)
      BY <2>5 DEF Answered
  <2>6. CASE Store(t)
    <3>1. End(t)
        BY <2>6 DEF Store, ReplaceAnswer, Insert
    <3> QED BY <3>1
  <2>7. CASE Expire(t)
      BY <2>7 DEF Expire
  <2> QED BY <1>2, <2>1, <2>2, <2>3, <2>4, <2>5, <2>6, <2>7 DEF AdapterStep
<1> QED BY <1>1, <1>2 DEF AdapterNext, AdapterFinished

\* The inductive invariant.
AdapterInv == CacheInv /\ Holdings

\* A new adapter.
LEMMA AdapterInvInit == capacity \in Nat /\ AdapterInit => AdapterInv /\ Recency!Init
<1> SUFFICES ASSUME capacity \in Nat, AdapterInit PROVE AdapterInv /\ Recency!Init
    OBVIOUS
<1>1. lru = <<>> /\ cache = <<>> /\ failures = 0
    BY DEF AdapterInit
<1>2. DOMAIN cache = {} /\ Len(lru) = 0 /\ DOMAIN lru = {}
    BY <1>1
<1>3. IsFiniteSet(DOMAIN cache) /\ Cardinality(DOMAIN cache) = 0
    BY <1>2, FS_EmptySet
<1>4. Live(lru, cache) /\ Typed(cache) /\ AllOwned(lru, cache)
    BY <1>1, <1>2 DEF Live, Typed, AllOwned
<1>5. CacheInv
    BY <1>1, <1>2, <1>3, <1>4 DEF CacheInv, Fine
<1>6. Holdings
    BY DEF AdapterInit, Holdings
<1>7. Evidence = <<>>
    BY <1>1, <1>2 DEF Evidence
<1>8. Before = {}
    BY <1>2 DEF Before
<1> QED BY <1>1, <1>5, <1>6, <1>7, <1>8 DEF AdapterInv, Recency!Init

\* The invariant is inductive, and with it each step implements one of the abstract cache.
LEMMA AdapterInvStep ==
    ASSUME AdapterInv, capacity \in Nat, [AdapterNext]_adapterVars
    PROVE  AdapterInv' /\ [Recency!Next]_(Recency!vars)
<1>1. CacheStep
    BY CacheSteps, TypesSplit DEF AdapterInv
<1>2. Holdings'
    BY HoldingsStep DEF AdapterInv
<1> QED BY <1>1, <1>2 DEF AdapterInv, CacheStep, CacheInv

\* The invariant contains the safety property.
LEMMA InvIsLive == AdapterInv => IteratorsLive
BY DEF AdapterInv, CacheInv, Fine, Live, IteratorsLive

-----------------------------------------------------------------------------
(* The theorems.                                                           *)

\* For any threads, keys and answers, any capacity and any number of failed stores: the
\* iterators are live and the list is longer than the map by at most one node for every
\* store that failed.
THEOREM AdapterInvariant == AdapterSpec => []AdapterInv
<1>1. AdapterInit => AdapterInv
    BY AdapterInvInit, AdapterAssumption
<1>2. AdapterInv /\ [AdapterNext]_adapterVars => AdapterInv'
    BY AdapterInvStep, AdapterAssumption
<1> QED BY <1>1, <1>2, PTL DEF AdapterSpec

\* PaddleOcrAdapter::try_get_cached and store_cached implement RecencyCache: as long as no
\* store has failed, what the loop over the back of the list gives up is what was used
\* least recently and no more than there is no room for; after a failure between
\* push_front, emplace and erase no key has the answer of another one, and no iterator
\* points to a node that was freed.
THEOREM CacheImplementsRecency == AdapterSpec => ImplementsRecency
<1>1. AdapterInit => AdapterInv /\ Recency!Init
    BY AdapterInvInit, AdapterAssumption
<1>2. AdapterInv /\ [AdapterNext]_adapterVars => AdapterInv' /\ [Recency!Next]_(Recency!vars)
    BY AdapterInvStep, AdapterAssumption
<1>3. AdapterInv => IteratorsLive
    BY InvIsLive
<1> QED BY <1>1, <1>2, <1>3, PTL DEF AdapterSpec, ImplementsRecency, Recency!Spec
=============================================================================
