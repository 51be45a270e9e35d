---------------------------- MODULE CandidateFusion ----------------------------
(***************************************************************************)
(* Fusion of what the recognizers read in the crops of one detection       *)
(* (WeightedMultiCropCandidateFusion,                                      *)
(* src/application/candidate_fusion.cpp), and how the pipeline collects    *)
(* its input (src/application/lpr_pipeline.cpp).                           *)
(*                                                                         *)
(* A crop is [layout, evidence]: the evidence of each recognizer that      *)
(* answered, [source, quality, candidates], and what the layout analyzer   *)
(* said, [reliable, confidence].  A candidate is [text, confidence,        *)
(* calibrated, format_valid].                                              *)
(* Confidences, weights and qualities are numbers of Unit-ths, texts are   *)
(* numbers in the order of the texts.                                      *)
(***************************************************************************)
EXTENDS Integers, Sequences, SequencesExt

CONSTANTS
    Unit,
    source_weights,     \* of every source, the default filled in
    recognition_weight, crop_quality_weight, candidate_margin_weight, layout_weight,
    minimum_candidate_confidence, max_candidates

TotalWeight ==
    recognition_weight + crop_quality_weight + candidate_margin_weight + layout_weight

ASSUME CandidateFusionAssumption ==
    /\ Unit \in Nat \ {0} /\ max_candidates \in 1..64
    /\ {recognition_weight, crop_quality_weight, candidate_margin_weight, layout_weight,
        minimum_candidate_confidence} \subseteq 0..Unit
    /\ TotalWeight > 0
    /\ \A s \in DOMAIN source_weights : source_weights[s] \in 0..Unit

-----------------------------------------------------------------------------
(* The input.                                                              *)

\* Mutant: one layout for each crop.
CollectPerCrop(crops) ==
    [evidence |-> FlattenSeq([c \in DOMAIN crops |-> crops[c].evidence]),
     layouts |-> [c \in DOMAIN crops |-> crops[c].layout]]

\* all_evidence and all_layout: evidence and layout meet by their index.
Collect(crops) ==
    [evidence |-> FlattenSeq([c \in DOMAIN crops |-> crops[c].evidence]),
     layouts |-> FlattenSeq([c \in DOMAIN crops |->
                    [e \in DOMAIN crops[c].evidence |-> crops[c].layout]])]

-----------------------------------------------------------------------------
(* Scores are numbers of One-ths.                                          *)

One == Unit * Unit * TotalWeight

LayoutQuality(layouts, i) ==
    IF i \in DOMAIN layouts /\ layouts[i].reliable THEN layouts[i].confidence ELSE 0

EffectiveConfidence(c) == IF c.calibrated > 0 THEN c.calibrated ELSE c.confidence

CandidateMargin(e, k) ==
    LET rivals == {c \in ToSet(e.candidates) : c.text # e.candidates[k].text}
    IN  Max({0, EffectiveConfidence(e.candidates[k])
                  - Max({0} \cup {EffectiveConfidence(c) : c \in rivals})})

CandidateScore(e, layouts, i, k) ==
    source_weights[e.source] *
        ( EffectiveConfidence(e.candidates[k]) * recognition_weight
        + e.quality * crop_quality_weight
        + CandidateMargin(e, k) * candidate_margin_weight
        + LayoutQuality(layouts, i) * layout_weight )

\* The candidates of an evidence that count.
Counted(e) ==
    {k \in DOMAIN e.candidates :
        /\ source_weights[e.source] > 0
        /\ EffectiveConfidence(e.candidates[k]) >= minimum_candidate_confidence}

\* per_crop_support: of several readings of a text in one evidence the best.
Support(input, i, text) ==
    LET e == input.evidence[i]
    IN  Max({0} \cup {CandidateScore(e, input.layouts, i, k) :
                         k \in {j \in Counted(e) : e.candidates[j].text = text}})

\* What the support of a text leaves open, a number of One^n-ths with n the
\* number of evidences.
Doubt(input, text) ==
    LET doubt[i \in 0..Len(input.evidence)] ==
          IF i = 0 THEN 1 ELSE doubt[i - 1] * (One - Support(input, i, text))
    IN  doubt[Len(input.evidence)]

MoreSupported(input, s, t) ==
    \/ Doubt(input, s) < Doubt(input, t)
    \/ Doubt(input, s) = Doubt(input, t) /\ s < t

Fuse(input) ==
    LET counted(i) == {input.evidence[i].candidates[k] : k \in Counted(input.evidence[i])}
        all == UNION {counted(i) : i \in DOMAIN input.evidence}
        texts == {c.text : c \in all}
        ranked == [r \in 1..Cardinality(texts) |->
                      CHOOSE t \in texts : Cardinality({s \in texts : MoreSupported(input, s, t)}) + 1 = r]
    IN  [r \in 1..Min({max_candidates, Cardinality(texts)}) |->
            [text |-> ranked[r], doubt |-> Doubt(input, ranked[r]),
             format_valid |-> \E c \in all : c.text = ranked[r] /\ c.format_valid]]
==============================================================================
