------------------------------ MODULE LprPipeline ------------------------------
(***************************************************************************)
(* One recognize call of the pipeline and of its recognizer ensemble       *)
(* (src/application/lpr_pipeline.cpp, recognition_ensemble.cpp), with the  *)
(* engine's counters (engine_diagnostics.cpp), which calls share.          *)
(*                                                                         *)
(* pc names the provider a call is inside, so a step is the return of that *)
(* provider and all the code up to the next one.  Meanwhile the caller may *)
(* request cancellation and the deadline may pass; a provider may notice,  *)
(* or not, and may fail in any other way.  The providers are interfaces:   *)
(* what they return and throw is chosen freely.  Scores, candidates and    *)
(* latencies are left out except where a decision depends on them.         *)
(*                                                                         *)
(* asked, answered, late and the failures of a recognition are history:    *)
(* the providers called for the detection in progress, those that did      *)
(* their work, the providers called after the call was cancelled or its    *)
(* deadline had passed, and asked - answered for a finished detection.     *)
(***************************************************************************)
EXTENDS SafeRecognitionDecisionPolicy, FiniteSets, Functions

CONSTANTS
    Calls,
    recognizers,       \* the registered recognizers, in order
    Enabled,           \* those with enabled and a positive weight
    Required,          \* those with required
    MaxDetections, MaxCrops,   \* bounds on what the providers find
    MaxFailures        \* bound on the tolerated failures of a call

ASSUME PipelineAssumption ==
    /\ Enabled \cup Required \subseteq {recognizers[k] : k \in DOMAIN recognizers}
    /\ MaxDetections \in Nat /\ MaxCrops \in Nat /\ MaxFailures \in Nat

\* Finitely many calls are ever made.
ASSUME CallsAssumption == IsFiniteSet(Calls)

VARIABLES
    stopped, overdue,  \* the caller's stop_token and deadline
    pc,
    work,              \* the locals of the call
    result,            \* pipeline_result
    outcome,           \* how the call ended: "ok" or an error code
    diagnostics,       \* the counters of EngineDiagnostics
    late

locals == <<work, result>>
vars == <<stopped, overdue, pc, locals, outcome, diagnostics, late>>

Statuses == {"accepted", "review", "rejected"}

\* A fresh RecognitionDecisionContext, and nothing known of the detection.
Fresh == [degraded |-> FALSE, failures |-> 0, evidence |-> FALSE,
          geometryFailed |-> FALSE, asked |-> 0, answered |-> 0]
NoEnsemble == [next |-> 1, degraded |-> FALSE, failures |-> <<>>, evidence |-> FALSE]

Init ==
    /\ stopped = [c \in Calls |-> FALSE] /\ overdue = [c \in Calls |-> FALSE]
    /\ pc = [c \in Calls |-> "called"]
    /\ work = [c \in Calls |-> [detections |-> 0, crops |-> 0, detection |-> Fresh,
                                ensemble |-> NoEnsemble, published |-> 0]]
    /\ result = [c \in Calls |-> [recognitions |-> <<>>, failures |-> <<>>,
                                  count |-> 0, degraded |-> FALSE]]
    /\ outcome = [c \in Calls |-> "none"]
    /\ diagnostics = [k \in Statuses \cup {"provider_failures"} |-> 0]
    /\ late = [c \in Calls |-> 0]

-----------------------------------------------------------------------------
(* How a call goes on and how it ends.                                     *)

\* check_context: cancellation is reported before the deadline.
Check(c) ==
    IF stopped[c] THEN "cancelled" ELSE IF overdue[c] THEN "timeout" ELSE "none"

Abort(c, error) ==
    /\ pc' = [pc EXCEPT ![c] = "returned"]
    /\ outcome' = [outcome EXCEPT ![c] = error]

Goto(c, stage) ==
    /\ pc' = [pc EXCEPT ![c] = stage]
    /\ UNCHANGED outcome

CheckThenGoto(c, stage) ==
    IF Check(c) = "none" THEN Goto(c, stage) ELSE Abort(c, Check(c))

\* What a provider that was given the caller's context may throw.
Errors(c) ==
    {"provider", "other"} \cup {e \in {"cancelled"} : stopped[c]}
                          \cup {e \in {"timeout"} : overdue[c]}

\* An exception that nothing in the pipeline catches.
Throws(c, errors) ==
    \E e \in errors : Abort(c, e) /\ UNCHANGED locals

Answered(d) == [d EXCEPT !.asked = @ + 1, !.answered = @ + 1]

Failed(d) ==
    [d EXCEPT !.asked = @ + 1, !.degraded = TRUE, !.failures = @ + 1]

\* Mutant: one failure is counted, however many there were on a crop.
AddFailuresOnce(c, failures) ==
    result' = [result EXCEPT ![c].failures = @ \o failures,
                             ![c].count = @ + IF failures = <<>> THEN 0 ELSE 1,
                             ![c].degraded = @ \/ failures # <<>>]

\* Tolerated failures go to pipeline_result.
AddFailures(c, failures) ==
    result' = [result EXCEPT ![c].failures = @ \o failures,
                             ![c].count = @ + Len(failures),
                             ![c].degraded = @ \/ failures # <<>>]

MayFail(c, more) == Len(result[c].failures) + more <= MaxFailures

\* A provider whose ProviderError is recorded and survived; no other error is.
Tolerant(c, provider, next) ==
    LET d == work[c].detection IN
    \/ /\ work' = [work EXCEPT ![c].detection = Answered(d)]
       /\ UNCHANGED result
       /\ CheckThenGoto(c, next)
    \/ /\ MayFail(c, 1)
       /\ work' = [work EXCEPT ![c].detection =
                     [Failed(d) EXCEPT !.geometryFailed = @ \/ provider = "geometry"]]
       /\ AddFailures(c, <<[provider |-> provider, code |-> "provider"]>>)
       /\ CheckThenGoto(c, next)
    \/ Throws(c, Errors(c) \ {"provider"})

-----------------------------------------------------------------------------
(* The stages of recognize.                                                *)

\* The context and the image are checked before anything else.
Begin(c) ==
    /\ pc[c] = "called"
    /\ \/ CheckThenGoto(c, "detection") /\ UNCHANGED locals
       \/ Check(c) = "none" /\ Throws(c, {"other"})

Detect(c) ==
    /\ pc[c] = "detection"
    /\ \/ \E n \in 0..MaxDetections :
            /\ work' = [work EXCEPT ![c].detections = n]
            /\ UNCHANGED result
            /\ CheckThenGoto(c, IF n = 0 THEN "publish" ELSE "geometry")
       \/ Throws(c, Errors(c))

Geometry(c) == pc[c] = "geometry" /\ Tolerant(c, "geometry", "alignment")

Align(c) == pc[c] = "alignment" /\ Tolerant(c, "alignment", "crop_generation")

\* A missing alignment is the crop generator's to cope with.
GenerateCrops(c) ==
    /\ pc[c] = "crop_generation"
    /\ \/ \E n \in 0..MaxCrops :
            /\ work' = [work EXCEPT ![c].crops = n]
            /\ UNCHANGED result
            /\ CheckThenGoto(c, IF n = 0 THEN "decision" ELSE "crop")
       \/ Throws(c, Errors(c))

-----------------------------------------------------------------------------
(* RecognitionEnsemble::recognize on one crop.                             *)

\* Mutant: the ensemble does not look at its context.
EnterEnsembleUnchecked(c) ==
    /\ pc[c] = "crop"
    /\ work' = [work EXCEPT ![c].ensemble = NoEnsemble]
    /\ UNCHANGED result
    /\ Goto(c, "recognition")

\* The crop quality must be finite and the context good; from here to the end of
\* the crop nobody looks at the context but the providers.
EnterEnsemble(c) ==
    /\ pc[c] = "crop"
    /\ \/ /\ work' = [work EXCEPT ![c].ensemble = NoEnsemble]
          /\ UNCHANGED result
          /\ CheckThenGoto(c, "recognition")
       \/ Throws(c, {"other"})

Active == SelectSeq(recognizers, LAMBDA p : p \in Enabled)

\* The loop asks a sequence of enabled recognizers; no stage of the pipeline has
\* the name of a recognizer.
ASSUME RecognizerAssumption ==
    /\ Active \in Seq(Enabled)
    /\ {"geometry", "alignment", "layout"} \cap (Enabled \cup Required) = {}

Recognizing(c) == pc[c] = "recognition" /\ work[c].ensemble.next <= Len(Active)

RecognizerAnswers(c) ==
    /\ Recognizing(c)
    /\ work' = [work EXCEPT ![c].ensemble.next = @ + 1,
                            ![c].ensemble.evidence = TRUE,
                            ![c].detection = Answered(@)]
    /\ UNCHANGED result
    /\ Goto(c, "recognition")

\* A recognizer has a deadline of its own, so it may time out at any time;
\* "internal" stands for what is not an EngineError.
RecognizerErrors(c) ==
    {"provider", "internal", "timeout"} \cup {e \in {"cancelled"} : stopped[c]}

\* What the ensemble keeps of an optional recognizer's failure.
Noted(e, failure) ==
    [e EXCEPT !.next = @ + 1, !.degraded = TRUE, !.failures = Append(@, failure)]

OptionalFails(c, p, error) ==
    /\ MayFail(c, Len(work[c].ensemble.failures) + 1)
    /\ work' = [work EXCEPT
         ![c].ensemble = Noted(@, [provider |-> p, code |-> error]),
         ![c].detection.asked = @ + 1]
    /\ UNCHANGED result
    /\ Goto(c, "recognition")

\* Whatever a recognizer throws: the ensemble gives up if it is required, and
\* notes a failure if it is not.
RecognizerThrows(c) ==
    /\ Recognizing(c)
    /\ LET p == Active[work[c].ensemble.next] IN
       IF p \in Required THEN Throws(c, {"provider"})
       ELSE \E e \in RecognizerErrors(c) : OptionalFails(c, p, e)

\* What the decision on a detection learns from the ensemble.
Merge(d, e) ==
    [d EXCEPT !.degraded = @ \/ e.degraded,
              !.failures = @ + Len(e.failures),
              !.evidence = @ \/ e.evidence]

\* The ensemble returns and its evidence is calibrated; the calibrator refuses a
\* quality outside [0,1].
EnsembleReturns(c) ==
    /\ pc[c] = "recognition" /\ ~Recognizing(c)
    /\ LET e == work[c].ensemble IN
       \/ /\ work' = [work EXCEPT ![c].detection = Merge(@, e),
                                  ![c].crops = @ - 1]
          /\ AddFailures(c, e.failures)
          /\ Goto(c, "layout")
       \/ e.evidence /\ Throws(c, {"provider"})

\* The last provider of a crop; the context is checked after it.
Layout(c) ==
    /\ pc[c] = "layout"
    /\ Tolerant(c, "layout", IF work[c].crops = 0 THEN "decision" ELSE "crop")

-----------------------------------------------------------------------------
(* Fusion, decision and the counters.                                      *)

\* The confidences of two candidates, best first, or of fewer.
Candidates ==
    {<<>>} \cup {<<s>> : s \in Scores}
           \cup {<<s, t>> : s \in Scores, t \in Scores}
Fused == {v \in Candidates : Len(v) = 2 => v[1] >= v[2]}

DecideOn(c, after) ==
    LET d == work[c].detection
        degraded == d.degraded \/ d.failures > 0 IN
    \E detector, geometry, quality \in Scores, valid \in Fused :
        /\ d.geometryFailed => geometry = 0
        /\ ~d.evidence => quality = 0 /\ valid = <<>>
        /\ result' = [result EXCEPT ![c].recognitions = Append(@,
             [status |-> Decide(detector, geometry, quality, valid, degraded),
              degraded |-> degraded,
              failures |-> d.asked - d.answered])]
        /\ work' = [work EXCEPT ![c].detections = @ - 1,
                                ![c].detection = after]
        /\ CheckThenGoto(c, IF work[c].detections = 1 THEN "publish" ELSE "geometry")

\* Mutant: the decision context outlives its detection.
DecideKeepingContext(c) ==
    /\ pc[c] = "decision"
    /\ DecideOn(c, [work[c].detection EXCEPT !.asked = 0, !.answered = 0,
                       !.evidence = FALSE, !.geometryFailed = FALSE])

\* The recognition is kept, and dropped with all the others if the context has
\* gone bad by then.
DecideDetection(c) == pc[c] = "decision" /\ DecideOn(c, Fresh)

\* publish_diagnostics, one atomic addition at a time.
PublishRecognition(c) ==
    LET k == work[c].published + 1 IN
    /\ pc[c] = "publish" /\ k <= Len(result[c].recognitions)
    /\ diagnostics' = [diagnostics EXCEPT ![result[c].recognitions[k].status] = @ + 1]
    /\ work' = [work EXCEPT ![c].published = k]
    /\ UNCHANGED <<stopped, overdue, pc, result, outcome>>

PublishFailures(c) ==
    /\ pc[c] = "publish" /\ work[c].published = Len(result[c].recognitions)
    /\ diagnostics' = [diagnostics EXCEPT !["provider_failures"] = @ + result[c].count]
    /\ Abort(c, "ok")
    /\ UNCHANGED <<stopped, overdue, locals>>

-----------------------------------------------------------------------------
(* The caller, and the specification.                                      *)

RequestStop(c) ==
    /\ ~stopped[c] /\ pc[c] # "returned"
    /\ stopped' = [stopped EXCEPT ![c] = TRUE]
    /\ UNCHANGED <<overdue, pc, locals, outcome, diagnostics>>

DeadlinePasses(c) ==
    /\ ~overdue[c] /\ pc[c] # "returned"
    /\ overdue' = [overdue EXCEPT ![c] = TRUE]
    /\ UNCHANGED <<stopped, pc, locals, outcome, diagnostics>>

Stage(c) ==
    /\ \/ Begin(c) \/ Detect(c) \/ Geometry(c) \/ Align(c) \/ GenerateCrops(c)
       \/ EnterEnsemble(c) \/ RecognizerAnswers(c) \/ RecognizerThrows(c)
       \/ EnsembleReturns(c) \/ Layout(c) \/ DecideDetection(c)
    /\ UNCHANGED <<stopped, overdue, diagnostics>>

Step(c) ==
    \/ Stage(c) \/ PublishRecognition(c) \/ PublishFailures(c)
    \/ RequestStop(c) \/ DeadlinePasses(c)

\* The provider a call is inside, told from the one before it.
Inside(p, w) ==
    CASE p = "recognition" /\ w.ensemble.next <= Len(Active) ->
           <<p, w.ensemble.next>>
      [] p \in {"detection", "geometry", "alignment", "crop_generation", "layout"} ->
           <<p, 0>>
      [] OTHER -> <<"none", 0>>

Calling(c) ==
    /\ Inside(pc'[c], work'[c]) # Inside(pc[c], work[c])
    /\ Inside(pc'[c], work'[c])[1] # "none"

Work == \E c \in Calls :
    /\ Step(c)
    /\ late' = [late EXCEPT ![c] =
                  IF Calling(c) /\ (stopped[c] \/ overdue[c]) THEN @ + 1 ELSE @]

\* Every call has returned.
Done == (\A c \in Calls : pc[c] = "returned") /\ UNCHANGED vars

Next == Work \/ Done

Spec == Init /\ [][Next]_vars

-----------------------------------------------------------------------------
(* Properties.                                                             *)

Providers == {"geometry", "alignment", "layout"} \cup Enabled
Codes == {"provider", "internal", "timeout", "cancelled"}
Failures == [provider : Providers, code : Codes]
Detections == [degraded : BOOLEAN, failures : Nat, evidence : BOOLEAN,
               geometryFailed : BOOLEAN, asked : Nat, answered : Nat]
Recognitions == [status : Statuses, degraded : BOOLEAN, failures : Nat]

\* The domains of the variables.
TypeOK ==
    /\ stopped \in [Calls -> BOOLEAN] /\ overdue \in [Calls -> BOOLEAN]
    /\ pc \in [Calls -> {"called", "detection", "geometry", "alignment",
                         "crop_generation", "crop", "recognition", "layout",
                         "decision", "publish", "returned"}]
    /\ outcome \in [Calls -> {"none", "ok", "cancelled", "timeout", "provider",
                              "other"}]
    /\ DOMAIN diagnostics = Statuses \cup {"provider_failures"}
    /\ \A c \in Calls :
         /\ work[c].detections \in 0..MaxDetections /\ work[c].crops \in 0..MaxCrops
         /\ work[c].detection \in Detections
         /\ Len(work[c].ensemble.failures) <= MaxFailures
         /\ Len(result[c].failures) <= MaxFailures
         /\ \A k \in DOMAIN result[c].failures : result[c].failures[k] \in Failures
         /\ Len(result[c].recognitions) <= MaxDetections
         /\ \A k \in DOMAIN result[c].recognitions :
              result[c].recognitions[k] \in Recognitions

Total(c) ==
    LET r == result[c].recognitions IN
    SumFunctionOnSet([k \in DOMAIN r |-> r[k].failures], DOMAIN r)

\* A recognition is degraded exactly when a provider failed it while that
\* detection was worked on: not one that failed for its neighbour, and none
\* forgotten between ensemble, pipeline and decision (three sets of counters).
DegradedForItsOwnFailures ==
    \A c \in Calls : \A k \in DOMAIN result[c].recognitions :
        LET r == result[c].recognitions[k] IN r.degraded <=> r.failures > 0

\* A plate is accepted only if every provider asked for its detection, every
\* enabled recognizer on every crop included, did its work.
AcceptedOnFullEvidence ==
    \A c \in Calls : \A k \in DOMAIN result[c].recognitions :
        LET r == result[c].recognitions[k] IN r.status = "accepted" => r.failures = 0

\* The failures the caller gets are those of the recognitions the caller gets,
\* each once, and the list, the count and the flag agree.
FailuresAccountedFor ==
    \A c \in Calls : outcome[c] = "ok" =>
        /\ result[c].count = Len(result[c].failures)
        /\ result[c].count = Total(c)
        /\ result[c].degraded <=> result[c].count > 0

\* A returned result never says that a provider was cancelled: the recognizer
\* that noticed the caller's cancellation is noted as failed, but the pipeline
\* sees the same token before it hands the result out.
CancellationNotBlamedOnProvider ==
    \A c \in Calls : outcome[c] = "ok" =>
        \A k \in DOMAIN result[c].failures : result[c].failures[k].code # "cancelled"

\* The pipeline reports a timeout only if the deadline of the caller passed, and
\* cancellation only if the caller asked: a recognizer's own deadline, which
\* runs out in the same way, is a provider failure.
ErrorIsTheCallers ==
    \A c \in Calls :
        /\ outcome[c] = "timeout" => overdue[c]
        /\ outcome[c] = "cancelled" => stopped[c]

\* What a required recognizer does not deliver is never made up for: no result
\* lists its failure, so every returned recognition has its evidence.
RequiredNeverMissing ==
    \A c \in Calls : outcome[c] = "ok" =>
        \A k \in DOMAIN result[c].failures : result[c].failures[k].provider \notin Required

\* What the caller is told about its own cancellation, its own deadline and the
\* recognizers it requires is true, whoever noticed it first.
CallEndsTruthfully ==
    CancellationNotBlamedOnProvider /\ ErrorIsTheCallers /\ RequiredNeverMissing

\* A call that was cancelled or is out of time calls at most the other recognizers
\* and the layout analyzer of the crop it is at.
FewCallsAfterStop ==
    \A c \in Calls : late[c] <= IF Active = <<>> THEN 1 ELSE Len(Active)

Returned(c) == outcome[c] = "ok"

\* How many of the recognitions of a call have a status.
WithStatus(c, s) ==
    Cardinality({k \in DOMAIN result[c].recognitions :
                   result[c].recognitions[k].status = s})

\* With no call in the middle of publish_diagnostics the counters are the sums
\* over the results handed out: a call that threw left nothing, and a failure
\* counts as often as the result lists it.
DiagnosticsMatchResults ==
    LET Returning == {c \in Calls : Returned(c)} IN
    (\A c \in Calls : pc[c] # "publish") =>
        /\ \A s \in Statuses :
             diagnostics[s] = SumFunctionOnSet([c \in Calls |-> WithStatus(c, s)], Returning)
        /\ diagnostics["provider_failures"] =
             SumFunctionOnSet([c \in Calls |-> Len(result[c].failures)], Returning)

\* The failures of a recognition decide about it and only they: it is degraded by
\* its own, and not accepted with any.
FailuresDecide == DegradedForItsOwnFailures /\ AcceptedOnFullEvidence

\* Every failure is counted once: in the result the caller gets, and in the
\* diagnostics of the engine.
FailuresCounted == FailuresAccountedFor /\ DiagnosticsMatchResults

\* A call that is stopped says so truthfully, and soon.
StopsAreHonoured == CallEndsTruthfully /\ FewCallsAfterStop
==============================================================================
