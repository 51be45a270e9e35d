----------------------------- MODULE PlateGeometry -----------------------------
(***************************************************************************)
(* PlateGeometryValidator: whether the corners a detector reports make a   *)
(* plate.  The model may report them in any order; they are put in that of *)
(* their angle round their centre and turned until the top left comes      *)
(* first.  Corners are points <<x, y>> with y downward, or NaN; lengths    *)
(* are rounded down to Unit-ths and ratios and scores are numbers of       *)
(* Unit-ths.  The text of a refusal is left out.                           *)
(***************************************************************************)
EXTENDS Integers, Sequences, FiniteSets, FiniteSetsExt, Functions, TLC

CONSTANTS Unit, NaN

Corners == 1..4
After(i, n) == ((i + n - 1) % 4) + 1

-----------------------------------------------------------------------------
(* order_plate_corners.                                                    *)

Total(points, axis) == MapThenSumSet(LAMBDA i : points[i][axis], Corners)

\* Four times the way from the centre.
FromCentre(points, p) == <<4 * p[1] - Total(points, 1), 4 * p[2] - Total(points, 2)>>

Product(d, e) == d[1] * e[2] - d[2] * e[1]

\* The ranges atan2 runs through: above, to the right (or at the centre), below,
\* to the left.
AngleRange(d) ==
    CASE d[2] < 0 -> 1
      [] d[2] = 0 /\ d[1] >= 0 -> 2
      [] d[2] > 0 -> 3
      [] d[2] = 0 /\ d[1] < 0 -> 4

AngleBefore(d, e) ==
    \/ AngleRange(d) < AngleRange(e)
    \/ AngleRange(d) = AngleRange(e) /\ Product(d, e) > 0

UpperLeft(p, q) == p[2] < q[2] \/ (p[2] = q[2] /\ p[1] < q[1])

ByAngle(points) ==
    SortSeq(points, LAMBDA p, q :
        LET d == FromCentre(points, p)
            e == FromCentre(points, q)
        IN  \/ AngleBefore(d, e)
            \/ ~AngleBefore(e, d) /\ UpperLeft(p, q))

TopLeft(points) ==
    CHOOSE i \in Corners : \A j \in Corners \ {i} :
        LET sum(k) == points[k][1] + points[k][2] IN
        \/ sum(i) < sum(j)
        \/ /\ sum(i) = sum(j)
           /\ points[i][2] < points[j][2] \/ (points[i][2] = points[j][2] /\ i < j)

StartingAt(points, first) == [i \in Corners |-> points[After(first, i - 1)]]

OrderPlateCorners(points) ==
    LET ordered == ByAngle(points) IN StartingAt(ordered, TopLeft(ordered))

-----------------------------------------------------------------------------
(* The shape.                                                              *)

Cross(a, b, c) == Product(<<b[1] - a[1], b[2] - a[2]>>, <<c[1] - a[1], c[2] - a[2]>>)

IsConvex(points) ==
    LET turn(i) == Cross(points[i], points[After(i, 1)], points[After(i, 2)]) IN
    \/ \A i \in Corners : turn(i) > 0
    \/ \A i \in Corners : turn(i) < 0

Magnitude(n) == IF n < 0 THEN -n ELSE n
Lesser(a, b) == IF a < b THEN a ELSE b
Greater(a, b) == IF a < b THEN b ELSE a
Clamped(n) == Greater(0, Lesser(Unit, n))

TwiceArea(points) ==
    Magnitude(MapThenSumSet(LAMBDA i : Product(points[i], points[After(i, 1)]), Corners))

\* The length of the way <<dx, dy>>, in scale-ths of its unit.
Length(dx, dy, scale) ==
    LET square == scale * scale * (dx * dx + dy * dy)
        least == scale * Greater(Magnitude(dx), Magnitude(dy))
        most == scale * (Magnitude(dx) + Magnitude(dy))
    IN  CHOOSE n \in least..most : n * n <= square /\ square < (n + 1) * (n + 1)

Hypot(dx, dy) == Length(dx, dy, Unit)

Distance(p, q) == Hypot(q[1] - p[1], q[2] - p[2])

\* By how much a coordinate lies outside of an interval.
Beyond(n, from, to) == IF n < from THEN from - n ELSE IF n > to THEN n - to ELSE 0

PointNearBox(p, box, maximum_ratio) ==
    Hypot(Beyond(p[1], box.x, box.x + box.width), Beyond(p[2], box.y, box.y + box.height))
        <= maximum_ratio * Greater(box.width, box.height)

-----------------------------------------------------------------------------
(* The scores.  A range is [hard_min, preferred_min, preferred_max,        *)
(* hard_max].                                                              *)

Share(part, whole) == IF whole = 0 THEN Unit ELSE Clamped((part * Unit) \div whole)

RangeScore(value, range) ==
    CASE value < range.hard_min \/ value > range.hard_max -> 0
      [] value \in range.preferred_min..range.preferred_max -> Unit
      [] value \in range.hard_min..(range.preferred_min - 1) ->
             Share(value - range.hard_min, range.preferred_min - range.hard_min)
      [] value \in (range.preferred_max + 1)..range.hard_max ->
             Share(range.hard_max - value, range.hard_max - range.preferred_max)

FillScore(ratio, range) ==
    RangeScore(ratio, [hard_min |-> range.minimum, preferred_min |-> Unit,
                       preferred_max |-> Unit, hard_max |-> range.maximum])

RangeValid(range) ==
    /\ 0 < range.hard_min /\ range.hard_min <= range.preferred_min
    /\ range.preferred_min <= range.preferred_max /\ range.preferred_max <= range.hard_max

ConfigValid(config) ==
    /\ config.minimum_keypoint_confidence \in 0..Unit
    /\ RangeValid(config.box_aspect) /\ RangeValid(config.crop_aspect)
    /\ config.area_ratio.minimum \in 1..Unit /\ config.area_ratio.maximum >= Unit
    /\ config.minimum_horizontal_edge > 0 /\ config.minimum_vertical_edge > 0
    /\ config.maximum_point_distance_ratio >= 0

-----------------------------------------------------------------------------
(* evaluate, of a detection [bbox, points, confidences], points empty if   *)
(* the detector reports no corners.                                        *)

BoxScore(config, box) ==
    IF box.width > 0 /\ box.height > 0
    THEN RangeScore((box.width * Unit) \div box.height, config.box_aspect) ELSE 0

CornersDistinct(points) ==
    /\ points # <<>> /\ \A i \in Corners : points[i] # NaN
    /\ Cardinality(Range(points)) = 4

KeypointsConfident(config, confidences) ==
    \A i \in Corners : /\ confidences[i] # NaN
                       /\ confidences[i] \in config.minimum_keypoint_confidence..Unit

EdgesOf(ordered) == [i \in Corners |-> Distance(ordered[i], ordered[After(i, 1)])]

CropScore(config, edge) ==
    IF edge[2] + edge[4] = 0 THEN 0
    ELSE RangeScore(((edge[1] + edge[3]) * Unit) \div (edge[2] + edge[4]), config.crop_aspect)

AreaRatio(box, ordered) == (TwiceArea(ordered) * Unit) \div (2 * box.width * box.height)

EdgesLongEnough(config, edge) ==
    /\ Lesser(edge[1], edge[3]) >= config.minimum_horizontal_edge
    /\ Lesser(edge[2], edge[4]) >= config.minimum_vertical_edge

ShapeValid(config, detection, ordered, edge) ==
    /\ IsConvex(ordered)
    /\ \A i \in Corners :
           PointNearBox(ordered[i], detection.bbox, config.maximum_point_distance_ratio)
    /\ KeypointsConfident(config, detection.confidences)
    /\ EdgesLongEnough(config, edge)
    /\ CropScore(config, edge) > 0
    /\ AreaRatio(detection.bbox, ordered)
           \in config.area_ratio.minimum..config.area_ratio.maximum

Score(config, detection, ordered, edge) ==
    LET keypoints == MapThenSumSet(LAMBDA i : detection.confidences[i], Corners) \div 4
        pixels == Lesser(Share(Lesser(edge[1], edge[3]), config.minimum_horizontal_edge),
                         Share(Lesser(edge[2], edge[4]), config.minimum_vertical_edge))
        deformation == (Share(Lesser(edge[1], edge[3]), Greater(edge[1], edge[3]))
                          + Share(Lesser(edge[2], edge[4]), Greater(edge[2], edge[4]))) \div 2
        fill == FillScore(AreaRatio(detection.bbox, ordered), config.area_ratio)
    IN  Clamped((15 * BoxScore(config, detection.bbox) + 20 * CropScore(config, edge)
                   + 15 * pixels + 20 * keypoints + 15 * deformation + 15 * fill) \div 100)

\* Nothing if the detection is refused.
Evaluated(config, detection, ordered, edge) ==
    IF ShapeValid(config, detection, ordered, edge)
    THEN {[score |-> Score(config, detection, ordered, edge), ordered_corners |-> ordered]}
    ELSE {}

EvaluatedOrdered(config, detection, ordered) ==
    Evaluated(config, detection, ordered, EdgesOf(ordered))

Evaluate(config, detection) ==
    IF BoxScore(config, detection.bbox) > 0 /\ CornersDistinct(detection.points)
    THEN EvaluatedOrdered(config, detection, OrderPlateCorners(detection.points)) ELSE {}
==============================================================================
