------------------------------- MODULE YoloPose -------------------------------
(***************************************************************************)
(* What the plate detector computes around its session: the letterbox that *)
(* puts an image into the model's input, and the parser that turns the     *)
(* model's rows of numbers into detections in the image's own coordinates. *)
(* The letterbox scale is the fraction num / den.  Model coordinates are   *)
(* whole numbers of 1 / Unit, source coordinates of 1 / (Unit * num);      *)
(* NaN stands for every value that is not finite, and confidences are      *)
(* numbers of One-ths.                                                     *)
(***************************************************************************)
EXTENDS BilinearSampling, Sequences, FiniteSets, FiniteSetsExt, Functions, TLC

CONSTANTS Unit, One, NaN

-----------------------------------------------------------------------------
(* make_letterbox_metadata for an image and an input [width, height].      *)

RoundedRatio(a, b) == (2 * a + b) \div (2 * b)     \* llround, of positive numbers
Resized(extent, scale, limit) ==
    Clamped(RoundedRatio(extent * scale.num, scale.den), 1, limit)

\* The smaller of the two ratios.
LetterboxScale(image, input) ==
    IF input.width * image.height <= input.height * image.width
    THEN [num |-> input.width, den |-> image.width]
    ELSE [num |-> input.height, den |-> image.height]

LetterboxOf(image, input, scale) ==
    LET width == Resized(image.width, scale, input.width)
        height == Resized(image.height, scale, input.height)
    IN  [source_width |-> image.width, source_height |-> image.height,
         num |-> scale.num, den |-> scale.den,
         resized_width |-> width, resized_height |-> height,
         pad_left |-> (input.width - width) \div 2,
         pad_top |-> (input.height - height) \div 2]
Letterbox(image, input) == LetterboxOf(image, input, LetterboxScale(image, input))

\* The samples of the workspace; every other element has been filled with the
\* padding before.
LetterboxSample(image, meta, x, y, colour) ==
    BilinearSample(image, Axis(x, image.width, meta.resized_width),
                   Axis(y, image.height, meta.resized_height), colour)
PreprocessLetterboxed(image, input, meta) ==
    {[index |-> plane * input.width * input.height
                  + (meta.pad_top + y) * input.width + meta.pad_left + x,
      sample |-> LetterboxSample(image, meta, x, y, <<"red", "green", "blue">>[plane + 1])] :
        plane \in 0..2, x \in 0..(meta.resized_width - 1), y \in 0..(meta.resized_height - 1)}

-----------------------------------------------------------------------------
(* The output matrix, of the session's numbers data[0], data[1], ...       *)

MatrixIndex(layout, features, candidates, feature, candidate) ==
    IF layout = "features_first" THEN feature * candidates + candidate
                                 ELSE candidate * features + feature

\* Rank 2 or rank 3 with one batch, every dimension positive: the matrix, or
\* nothing if that is refused.
ResolveMatrix(layout, shape, count) ==
    LET dims == IF Len(shape) = 3 THEN Tail(shape) ELSE shape
    IN  IF \/ Len(shape) \notin {2, 3}
           \/ Len(shape) = 3 /\ shape[1] # 1
           \/ \E i \in 1..2 : dims[i] <= 0
           \/ dims[1] * dims[2] # count
        THEN {}
        ELSE IF layout = "features_first"
             THEN {[layout |-> layout, features |-> dims[1], candidates |-> dims[2]]}
             ELSE {[layout |-> layout, features |-> dims[2], candidates |-> dims[1]]}

\* Of a specification of the output [layout, box, objectness, class_score,
\* class_count, keypoint, keypoint_stride, confidence_threshold,
\* nms_iou_threshold, maximum_detections]; an objectness of -1 is none, and a
\* keypoint is x and y, followed by what its stride leaves room for.
RequiredFeatures(spec) ==
    Max({spec.box + 4, spec.class_score + spec.class_count,
         spec.keypoint + 4 * spec.keypoint_stride, spec.objectness + 1})

\* validate_spec, which the constructor demands.
ValidSpec(spec) ==
    /\ spec.class_count > 0 /\ spec.keypoint_stride >= 2
    /\ spec.confidence_threshold \in 0..One /\ spec.nms_iou_threshold \in 0..One
    /\ spec.maximum_detections \in 1..4096

-----------------------------------------------------------------------------
(* A candidate: its row of features, row[0], row[1], ...                   *)

Probability(value) == IF value = NaN THEN 0 ELSE Clamped(value, 0, One)

\* In 1 / (One * One).
RowConfidence(spec, row) ==
    Max({Probability(row[spec.class_score + k]) : k \in 0..(spec.class_count - 1)})
      * (IF spec.objectness = -1 THEN One ELSE Probability(row[spec.objectness]))

\* Mutant: the padding is not taken off.
ToSourceUnpadded(at, pad, extent, meta) == Clamped(at * meta.den, 0, extent * Unit * meta.num)
ToSource(at, pad, extent, meta) ==
    Clamped((at - pad * Unit) * meta.den, 0, extent * Unit * meta.num)
SourceX(at, meta) == ToSource(at, meta.pad_left, meta.source_width, meta)
SourceY(at, meta) == ToSource(at, meta.pad_top, meta.source_height, meta)

\* Centre and size; sizes are even numbers of units.
BoxOf(spec, row, meta) ==
    LET half(f) == row[spec.box + f] \div 2
        x1 == SourceX(row[spec.box] - half(2), meta)
        y1 == SourceY(row[spec.box + 1] - half(3), meta)
        x2 == SourceX(row[spec.box] + half(2), meta)
        y2 == SourceY(row[spec.box + 1] + half(3), meta)
    IN  [x |-> x1, y |-> y1, width |-> x2 - x1, height |-> y2 - y1]

\* The four corners, or none if one of them is not finite.
QuadrilateralOf(spec, row, meta) ==
    LET corner(k) == spec.keypoint + (k - 1) * spec.keypoint_stride
    IN  IF \E k \in 1..4 : row[corner(k)] = NaN \/ row[corner(k) + 1] = NaN
        THEN <<>>
        ELSE [k \in 1..4 |-> [x |-> SourceX(row[corner(k)], meta),
                              y |-> SourceY(row[corner(k) + 1], meta)]]

FiniteBox(spec, row) ==
    /\ \A f \in 0..3 : row[spec.box + f] # NaN
    /\ row[spec.box + 2] > 0 /\ row[spec.box + 3] > 0

DetectionOf(spec, row, meta, i) ==
    [box |-> BoxOf(spec, row, meta), quadrilateral |-> QuadrilateralOf(spec, row, meta),
     confidence |-> RowConfidence(spec, row), source_index |-> i]

\* The candidates above the threshold with a box that is not empty in the image.
RankedOf(found) ==
    LET seen == {d \in found : d.box.width > 0 /\ d.box.height > 0}
        before(d) == {e \in seen :
                        \/ e.confidence > d.confidence
                        \/ e.confidence = d.confidence /\ e.source_index < d.source_index}
    IN  [k \in 1..Cardinality(seen) |-> CHOOSE d \in seen : Cardinality(before(d)) + 1 = k]
Ranked(spec, rows, meta) ==
    RankedOf({DetectionOf(spec, rows[i], meta, i) :
                 i \in {j \in DOMAIN rows :
                           /\ RowConfidence(spec, rows[j]) >= spec.confidence_threshold * One
                           /\ FiniteBox(spec, rows[j])}})

-----------------------------------------------------------------------------
(* Suppression.                                                            *)

Shared(a, b) ==
    LET extent(p, m, q, n) == Max({0, Min({p + m, q + n}) - Max({p, q})})
    IN  extent(a.x, a.width, b.x, b.width) * extent(a.y, a.height, b.y, b.height)
\* intersection_over_union > nms_iou_threshold.
Suppresses(spec, a, b) ==
    Shared(a, b) * One >
        spec.nms_iou_threshold * (a.width * a.height + b.width * b.height - Shared(a, b))

\* Mutant: only the strongest kept one suppresses.
KeepAgainstFirst(spec, kept, d) ==
    IF \/ Len(kept) >= spec.maximum_detections
       \/ kept # <<>> /\ Suppresses(spec, kept[1].box, d.box)
    THEN kept ELSE Append(kept, d)
Keep(spec, kept, d) ==
    IF \/ Len(kept) >= spec.maximum_detections
       \/ \E i \in DOMAIN kept : Suppresses(spec, kept[i].box, d.box)
    THEN kept ELSE Append(kept, d)

KeptAmong(spec, ranked) ==
    MapThenFoldSet(LAMBDA d, kept : Keep(spec, kept, d), <<>>,
                   LAMBDA i : ranked[i], Max, DOMAIN ranked)

RowsOf(matrix, data) ==
    [i \in 0..(matrix.candidates - 1) |->
        [f \in 0..(matrix.features - 1) |->
            data[MatrixIndex(matrix.layout, matrix.features, matrix.candidates, f, i)]]]

\* YoloPoseOutputParser::parse: the detections, or nothing if it throws.
Parse(spec, data, shape, meta) ==
    IF DOMAIN data = {} THEN {<<>>}
    ELSE {KeptAmong(spec, Ranked(spec, RowsOf(matrix, data), meta)) :
            matrix \in {m \in ResolveMatrix(spec.layout, shape, Cardinality(DOMAIN data)) :
                           m.features >= RequiredFeatures(spec)}}
===============================================================================
