-------------------------- MODULE AdaptiveTileDetector --------------------------
(***************************************************************************)
(* Detection on overlapping tiles                                          *)
(* (src/infrastructure/adaptive/adaptive_tile_detector.cpp): where the     *)
(* tiles are placed, and how the detections of the whole image and of the  *)
(* tiles are merged.  A detection is [x, width, confidence, geometry].     *)
(***************************************************************************)
EXTENDS Boxes, FiniteSets

CONSTANTS
    tiling_enabled,
    tile_width, tile_height, overlap_ratio,
    maximum_tiles, merge_iou_threshold, maximum_detections

ASSUME TileAssumption ==
    /\ tiling_enabled \in BOOLEAN
    /\ {tile_width, tile_height} \subseteq Nat \ {0}
    /\ maximum_tiles \in 1..4096 /\ maximum_detections \in 1..4096
    /\ overlap_ratio \in Nat /\ 2 * overlap_ratio < Scale
    /\ merge_iou_threshold \in 0..Scale

-----------------------------------------------------------------------------
(* Placing the tiles.                                                      *)

Overlap(tile) == (tile * overlap_ratio) \div Scale

NextOrigin(origin, extent, tile) ==
    Min({origin + (tile - Overlap(tile)), extent - tile})

\* axis_origins; the step is positive, so next_origin always advances.
AxisOrigins(extent, tile) ==
    LET from[origin \in 0..extent] ==
          IF origin + tile >= extent THEN <<origin>>
          ELSE <<origin>> \o from[NextOrigin(origin, extent, tile)]
    IN  from[0]

NeedsTiles(width, height) ==
    tiling_enabled /\ (width > tile_width \/ height > tile_height)

TooManyTiles(width, height) ==
    Len(AxisOrigins(width, tile_width)) * Len(AxisOrigins(height, tile_height)) > maximum_tiles

-----------------------------------------------------------------------------
(* Merging the detections.                                                 *)

Clamp(value, extent) == Max({0, Min({value, extent})})

\* The box of a tile in the image, cut at its borders.
TranslateDetection(d, offset, extent) ==
    LET x1 == Clamp(d.x + offset, extent)
        x2 == Clamp(d.x + offset + d.width, extent)
    IN  [d EXCEPT !.x = x1, !.width = x2 - x1]

IoUAbove(a, b) == Intersection(a, b) * Scale > merge_iou_threshold * BoxUnion(a, b)

\* stable_sort by confidence, then by geometry score.
StrongestFirst(detections) ==
    LET before(i) ==
          {j \in DOMAIN detections :
             LET a == detections[i]  b == detections[j] IN
             \/ b.confidence > a.confidence
             \/ b.confidence = a.confidence /\ b.geometry > a.geometry
             \/ b.confidence = a.confidence /\ b.geometry = a.geometry /\ j < i}
        place(i) == Cardinality(before(i)) + 1
    IN  [k \in DOMAIN detections |->
            detections[CHOOSE i \in DOMAIN detections : place(i) = k]]

\* Mutant: only the strongest detection kept so far is looked at.
DuplicateOfFirst(kept, d) == kept # <<>> /\ IoUAbove(d, Head(kept))

Duplicate(kept, d) == \E k \in DOMAIN kept : IoUAbove(d, kept[k])

KeepIfNew(kept, d) ==
    IF d.width = 0 \/ Len(kept) >= maximum_detections \/ Duplicate(kept, d)
    THEN kept ELSE Append(kept, d)

MergeDetections(detections) == FoldLeft(KeepIfNew, <<>>, StrongestFirst(detections))

\* What detect returns for an image of one row of tiles, in a set that is empty
\* when it throws: whole are the detections in the whole image, found[i] those in
\* its i-th tile.
Detect(width, whole, found) ==
    LET origins == AxisOrigins(width, tile_width)
        moved(i) == [k \in DOMAIN found[i] |->
                        TranslateDetection(found[i][k], origins[i], width)]
    IN  IF ~NeedsTiles(width, tile_height) THEN {MergeDetections(whole)}
        ELSE IF TooManyTiles(width, tile_height) THEN {}
        ELSE {MergeDetections(FoldLeft(LAMBDA all, more : all \o more, whole,
                                       [i \in DOMAIN origins |-> moved(i)]))}
==============================================================================
