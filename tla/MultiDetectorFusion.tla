-------------------------- MODULE MultiDetectorFusion --------------------------
(***************************************************************************)
(* Fusion of the detections of several detectors                           *)
(* (src/application/multi_detector_fusion.cpp): duplicates of one detector *)
(* are dropped, overlapping boxes of different detectors are grouped by a  *)
(* disjoint-set forest, each group keeps the strongest detection of every  *)
(* detector, and the groups of highest fused confidence are returned.      *)
(*                                                                         *)
(* A detection is [provider, confidence, x, width]; providers are numbers  *)
(* ordered as their names are.                                             *)
(***************************************************************************)
EXTENDS Boxes

CONSTANTS
    weight,              \* of each provider, as registered
    same_model_iou_threshold, same_model_min_area_overlap_threshold,
    cross_model_iou_threshold, cross_model_min_area_overlap_threshold,
    maximum_groups

ASSUME FusionAssumption ==
    /\ maximum_groups \in Nat \ {0}
    /\ \A p \in DOMAIN weight : weight[p] \in 0..Scale
    /\ {same_model_iou_threshold, same_model_min_area_overlap_threshold,
        cross_model_iou_threshold, cross_model_min_area_overlap_threshold}
         \subseteq 0..Scale

OverlapsEnough(a, b, iou_threshold, min_area_threshold) ==
    \/ Intersection(a, b) * Scale >= iou_threshold * BoxUnion(a, b)
    \/ Intersection(a, b) * Scale >= min_area_threshold * Min({a.width, b.width})

SameModel(a, b) ==
    /\ a.provider = b.provider
    /\ OverlapsEnough(a, b, same_model_iou_threshold, same_model_min_area_overlap_threshold)

CrossModel(a, b) ==
    /\ a.provider # b.provider
    /\ OverlapsEnough(a, b, cross_model_iou_threshold, cross_model_min_area_overlap_threshold)

\* evidence_order
Before(a, b) ==
    \/ a.provider < b.provider
    \/ a.provider = b.provider /\ a.confidence > b.confidence
    \/ a.provider = b.provider /\ a.confidence = b.confidence /\ a.x < b.x
    \/ a.provider = b.provider /\ a.confidence = b.confidence /\ a.x = b.x
         /\ a.width < b.width

Sorted(evidence) ==
    LET order == SetToSortSeq(DOMAIN evidence, LAMBDA i, j :
                    \/ Before(evidence[i], evidence[j])
                    \/ ~Before(evidence[j], evidence[i]) /\ i < j)
    IN  [i \in DOMAIN evidence |-> evidence[order[i]]]

DeduplicateSameModel(evidence) ==
    FoldLeft(LAMBDA kept, e :
                 IF \E k \in DOMAIN kept : SameModel(kept[k], e) THEN kept
                 ELSE Append(kept, e),
             <<>>, Sorted(evidence))

\* The disjoint-set forest as the function that find computes.
\* Mutant: the two elements are joined and not the sets they are in.
UniteElements(find, i, j) == [find EXCEPT ![j] = find[i]]

Unite(find, i, j) == [k \in DOMAIN find |-> IF find[k] = find[j] THEN find[i] ELSE find[k]]

Groups(evidence) ==
    LET n == Len(evidence)
        pairs == SetToSortSeq({p \in (1..n) \X (1..n) : p[1] < p[2]},
                              LAMBDA p, q : p[1] * n + p[2] < q[1] * n + q[2])
    IN  FoldLeft(LAMBDA find, p :
                     IF CrossModel(evidence[p[1]], evidence[p[2]])
                       THEN Unite(find, p[1], p[2]) ELSE find,
                 [i \in 1..n |-> i], pairs)

Contribution(e) == e.confidence * weight[e.provider]

\* build_group: of each provider the first of those with the highest score.
StrongestByProvider(evidence, group) ==
    {i \in group : \A j \in group :
        evidence[i].provider = evidence[j].provider =>
            \/ Contribution(evidence[i]) > Contribution(evidence[j])
            \/ Contribution(evidence[i]) = Contribution(evidence[j]) /\ i <= j}

\* Complement of the fused confidence, over the common denominator of groups of
\* at most n members.
Complement(members, n) ==
    LET one == Scale * Scale
        complement[m \in 0..n] ==
          IF m = 0 THEN 1
          ELSE complement[m - 1] *
                 (IF m <= Len(members) THEN one - Contribution(members[m]) ELSE one)
    IN  complement[n]

\* detect_groups: the members of each group, best groups first.  Groups of equal
\* confidence are ordered by their fused boxes in the code, by their first
\* members here.
DetectGroups(detections) ==
    LET enabled == SelectSeq(detections, LAMBDA d : weight[d.provider] > 0)
        evidence == DeduplicateSameModel(enabled)
        find == Groups(evidence)
        roots == {find[i] : i \in DOMAIN find}
        members(r) ==
          LET chosen == StrongestByProvider(evidence, {i \in DOMAIN find : find[i] = r})
              order == SetToSortSeq(chosen, <)
          IN  [k \in DOMAIN order |-> evidence[order[k]]]
        rank(r) == Complement(members(r), Len(evidence))
        best == SetToSortSeq(roots, LAMBDA r, q :
                    \/ rank(r) < rank(q)
                    \/ rank(r) = rank(q) /\ r < q)
    IN  [k \in 1..Min({Len(best), maximum_groups}) |-> members(best[k])]
==============================================================================
