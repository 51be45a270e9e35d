----------------------------- MODULE EngineStartup -----------------------------
(***************************************************************************)
(* The production startup: build_pipeline_from_contract reads the contract *)
(* and loads two sessions, and activate_production_pipeline reads the      *)
(* contract and both files once more, verifies what it reads now, registers*)
(* the metadata and runs the self test before the pipeline is handed out.  *)
(* Every step reads the files as they are at that moment; somebody may     *)
(* replace them between two steps.  Once handed out, the pipeline serves   *)
(* calls and snapshots.                                                    *)
(***************************************************************************)
EXTENDS EngineDiagnostics

CONSTANTS
    Names,              \* what a contract may call a model file
    Dotted,             \* names safe_model_path refuses: "..", absolute, empty
    Climbing,           \* those a manifest refuses: absolute, empty, above the root
                        \* even when normalised
    Escaping,           \* names that resolve to a place outside the model directory
    Contents,           \* [sha256, size, fits, infers]: roles it can be built for,
                        \* and whether an inference with it succeeds
    Contracts,          \* [detector, recognizer]: each [model, sha256, size]
    MaxReplacements

ASSUME StartupAssumption == Climbing \subseteq Dotted /\ Dotted \subseteq Names

VARIABLES
    contract,           \* the contract file: a contract or Unreadable
    files,              \* name -> contents or Missing
    phase,
    manifest,           \* the contract as read last
    loaded,             \* role -> what its session was made of
    verified,           \* the entries validate_and_activate has accepted
    replacements

fileVars == <<contract, files, replacements>>
buildVars == <<manifest, loaded, verified>>
diagnosticsVars == <<countVars, metadata, snapshotVars>>
startupVars == <<fileVars, phase, buildVars, diagnosticsVars>>

Roles == {"detector", "recognizer"}
Missing == [missing |-> TRUE]
Unreadable == [unreadable |-> TRUE]

StartupInit ==
    /\ contract \in Contracts \cup {Unreadable}
    /\ files \in [Names -> Contents \cup {Missing}]
    /\ phase = "readContract" /\ manifest = <<>> /\ verified = {}
    /\ loaded = [r \in Roles |-> Missing]
    /\ replacements = 0
    /\ DiagnosticsInit

\* A step of the factory: it goes on if its checks hold and throws otherwise.
At(here, next, holds) ==
    /\ phase = here
    /\ phase' = IF holds THEN next ELSE "refused"
    /\ UNCHANGED fileVars

-----------------------------------------------------------------------------
(* build_pipeline_from_contract.                                           *)

ReadContract ==
    /\ At("readContract", "resolve", contract # Unreadable)
    /\ manifest' = contract
    /\ UNCHANGED <<loaded, verified, diagnosticsVars>>

\* safe_model_path of both names.
SafePath(name) == name \notin Dotted \cup Escaping /\ files[name] # Missing
ResolvePaths ==
    /\ At("resolve", "loadDetector", \A r \in Roles : SafePath(manifest[r].model))
    /\ UNCHANGED <<buildVars, diagnosticsVars>>

\* An OnnxSession is made of what the file holds now.
LoadSession(role, here, next) ==
    LET content == files[manifest[role].model] IN
    /\ At(here, next, content # Missing)
    /\ loaded' = [loaded EXCEPT ![role] = content]
    /\ UNCHANGED <<manifest, verified, diagnosticsVars>>

\* The descriptors are held against the contract, the providers constructed and
\* the pipeline built.
Assemble ==
    /\ At("assemble", "readAgain", \A r \in Roles : r \in loaded[r].fits)
    /\ UNCHANGED <<buildVars, diagnosticsVars>>

-----------------------------------------------------------------------------
(* activate_production_pipeline.                                           *)

\* The contract is read a second time, and a ModelLifecycleManager made of it.
ReadManifest ==
    /\ At("readAgain", "verifyDetector",
            contract # Unreadable /\ \A r \in Roles : contract[r].model \notin Climbing)
    /\ manifest' = contract
    /\ UNCHANGED <<loaded, verified, diagnosticsVars>>

\* validate_and_activate, one entry of the manifest.
Verify(role, here, next) ==
    LET entry == manifest[role]
        content == files[entry.model]
    IN
    /\ At(here, next,
            /\ entry.model \notin Escaping
            /\ content # Missing /\ content.size = entry.size /\ content.sha256 = entry.sha256)
    /\ verified' = verified \cup {[role |-> role, sha256 |-> entry.sha256, integrity_verified |-> TRUE]}
    /\ UNCHANGED <<manifest, loaded, diagnosticsVars>>

Register ==
    /\ At("register", "selfTest", TRUE)
    /\ Set("models", verified)
    /\ UNCHANGED buildVars

\* startup_self_test: the checks of the one detector and the one recognizer, both
\* required, and of the metadata; run sums them up.
Checks ==
    [model_integrity |-> metadata.models # {} /\ \A m \in metadata.models : m.integrity_verified,
     detector        |-> loaded["detector"].infers,
     recognizer      |-> loaded["recognizer"].infers]
SelfTest ==
    /\ At("selfTest", "tested", TRUE)
    /\ Set("readiness", IF \A c \in DOMAIN Checks : Checks[c] THEN "ready" ELSE "failed")
    /\ UNCHANGED buildVars

\* Mutant: the report is not looked at.
HandOutAnyway ==
    /\ At("tested", "serving", TRUE)
    /\ manifest' = <<>> /\ verified' = {}
    /\ UNCHANGED <<loaded, diagnosticsVars>>

\* The pipeline is returned to the caller unless the report says failed.
HandOut ==
    /\ At("tested", "serving", metadata.readiness # "failed")
    /\ manifest' = <<>> /\ verified' = {}
    /\ UNCHANGED <<loaded, diagnosticsVars>>

-----------------------------------------------------------------------------
\* Somebody replaces, adds or removes a file while the engine is being built.
Replace ==
    /\ phase \notin {"serving", "refused"} /\ replacements < MaxReplacements
    /\ replacements' = replacements + 1
    /\ \/ contract' \in Contracts \cup {Unreadable} /\ UNCHANGED files
       \/ UNCHANGED contract /\ \E n \in Names, c \in Contents \cup {Missing} :
              files' = [files EXCEPT ![n] = c]
    /\ UNCHANGED <<phase, buildVars, diagnosticsVars>>

\* A pipeline that has been handed out serves; one that has not is gone.
Serve ==
    /\ phase = "serving"
    /\ \/ \E p \in Publishers : (\E r \in Results : BeginPublish(p, r)) \/ Record(p)
       \/ BeginSnapshot \/ Load
    /\ UNCHANGED <<fileVars, phase, buildVars>>

Idle ==
    /\ phase = "refused" \/ (/\ phase = "serving" /\ reading = <<>> /\ snapshots = MaxSnapshots
                          /\ published = MaxResults /\ \A p \in Publishers : done[p] = Len(result[p]))
    /\ UNCHANGED startupVars

StartupNext ==
    \/ ReadContract \/ ResolvePaths
    \/ LoadSession("detector", "loadDetector", "loadRecognizer")
    \/ LoadSession("recognizer", "loadRecognizer", "assemble")
    \/ Assemble
    \/ ReadManifest
    \/ Verify("detector", "verifyDetector", "verifyRecognizer")
    \/ Verify("recognizer", "verifyRecognizer", "register")
    \/ Register \/ SelfTest \/ HandOut \/ Replace \/ Serve \/ Idle

StartupSpec == StartupInit /\ [][StartupNext]_startupVars

-----------------------------------------------------------------------------
(* Properties.                                                             *)

\* The metadata of models that are what a contract says they are.
ShownFor(entries) ==
    {[role |-> r, sha256 |-> entries[r].sha256, integrity_verified |-> TRUE] : r \in Roles}

\* Whatever happens to the files in the meantime, a pipeline that serves has been
\* through an inference with the very sessions it keeps, and every snapshot of it
\* shows a ready engine and its two models with the checksums that one contract pins.
ServingIsReady ==
    phase = "serving" =>
        /\ \A r \in Roles : loaded[r].infers /\ r \in loaded[r].fits
        /\ reading = <<>> /\ snapshots > 0 =>
               /\ shown.metadata.readiness = "ready"
               /\ \E entries \in Contracts : shown.metadata.models = ShownFor(entries)

\* If nobody replaced a file meanwhile, the sessions are made of the very bytes the
\* contract pins, from inside the model directory: the checksums are compared
\* after the sessions have been made, and of a second read of every file.
ServesPinnedModels ==
    phase = "serving" /\ replacements = 0 =>
        \A r \in Roles :
            /\ loaded[r] = files[contract[r].model] /\ loaded[r].sha256 = contract[r].sha256
            /\ contract[r].model \notin Escaping

\* The two together: a pipeline that startup hands out serves the models that were
\* tested and, while the files rest, verified.
ServesWhatWasTested == ServingIsReady /\ ServesPinnedModels
=============================================================================
