------------------------------- MODULE MCRuntime -------------------------------
(* What runs beside the pipeline: inference through a shared session, the PaddleOCR *)
(* adapter, and a startup whose pipeline serves.  They share nothing, so a          *)
(* behaviour has one of them move and the others rest.                              *)
EXTENDS OnnxInference, EngineStartup, PaddleOcrAdapter

CONSTANTS Pinned, Unpinned, Sick

VARIABLE part

\* Contents and contracts: each role has a model of its own; the recognizer may be
\* another version than the pinned one, or one whose inference fails.
File(sha256, role, infers) == [sha256 |-> sha256, size |-> 1, fits |-> {role}, infers |-> infers]
Detector == File(Pinned, "detector", TRUE)
MCContents == {Detector, File(Pinned, "recognizer", TRUE),
               File(Unpinned, "recognizer", TRUE), File(Sick, "recognizer", FALSE)}
Pin(name, sha256) == [model |-> name, sha256 |-> sha256, size |-> 1]
MCContracts == [detector : {Pin(n, Pinned) : n \in {"a", "link"}},
                recognizer : {Pin("b", h) : h \in {Pinned, Sick}} \cup {Pin("up", Pinned)}]
MCResults == {[statuses |-> <<"accepted", "review">>, failures |-> 1, timings |-> <<"ocr">>]}

RuntimeInit ==
    /\ part \in {"inference", "adapter", "startup"}
    /\ Init /\ AdapterInit /\ StartupInit
    /\ IF part = "startup" THEN \A n \in Escaping \cup Dotted : files[n] = Detector
       ELSE contract = Unreadable /\ \A n \in Names : files[n] = Missing

RuntimeNext ==
    \/ part = "inference" /\ Next /\ UNCHANGED <<part, adapterVars, startupVars>>
    \/ part = "adapter" /\ AdapterNext /\ UNCHANGED <<part, vars, startupVars>>
    \/ part = "startup" /\ StartupNext /\ UNCHANGED <<part, vars, adapterVars>>

\* The fairness of OnnxInference!FairSpec.
RuntimeSpec ==
    /\ RuntimeInit /\ [][RuntimeNext]_<<part, vars, adapterVars, startupVars>>
    /\ \A t \in Threads : WF_vars(Step(t))
=============================================================================
