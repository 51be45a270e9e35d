-------------------- MODULE SafeRecognitionDecisionPolicy --------------------
(***************************************************************************)
(* The decision on one detection                                           *)
(* (src/application/safe_decision_policy.cpp).  Scores and confidences are *)
(* whole numbers from 0 to Scale, which stands for 1.0; the thresholds are *)
(* those of DecisionConfig.  The reasons and the copies of the evidence    *)
(* that the result also carries are left out.                              *)
(***************************************************************************)
EXTENDS Integers, Sequences

CONSTANTS
    Scale,
    accepted_confidence_threshold,
    review_confidence_threshold,
    strong_conflict_threshold,
    minimum_crop_quality,
    minimum_geometry_score,
    minimum_effective_detector_confidence

Scores == 0..Scale

\* What validate_engine_config demands of the thresholds.
ASSUME DecisionAssumption ==
    /\ Scale \in Nat
    /\ {accepted_confidence_threshold, review_confidence_threshold,
        strong_conflict_threshold, minimum_crop_quality, minimum_geometry_score,
        minimum_effective_detector_confidence} \subseteq Scores
    /\ review_confidence_threshold <= accepted_confidence_threshold

\* valid: the confidences of the fused candidates of valid format, best first;
\* their texts are distinct (candidate_fusion.cpp gathers them by text).
Rejected(detector, valid) ==
    \/ detector < minimum_effective_detector_confidence
    \/ valid = <<>>
    \/ valid[1] < review_confidence_threshold

Review(geometry, quality, valid, degraded) ==
    \/ geometry < minimum_geometry_score
    \/ quality < minimum_crop_quality
    \/ valid[1] < accepted_confidence_threshold
    \/ Len(valid) > 1 /\ valid[2] >= strong_conflict_threshold
    \/ degraded

\* The status of decide; the pipeline never sets fatal_provider_failure.
Decide(detector, geometry, quality, valid, degraded) ==
    IF Rejected(detector, valid) THEN "rejected"
    ELSE IF Review(geometry, quality, valid, degraded) THEN "review"
    ELSE "accepted"
==============================================================================
