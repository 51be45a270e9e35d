----------------------------- MODULE PlateAlignment -----------------------------
(***************************************************************************)
(* OpenCvPerspectiveAligner: the corners the plate is taken from and the   *)
(* size of the image it is stretched to, or the box it is cut from.  The   *)
(* warp is OpenCV's; it may refuse, and then the box is taken.  A          *)
(* configuration is                                                        *)
(*   [horizontal_padding, vertical_padding, width, height (each [minimum,  *)
(*    maximum]), allow_bbox_fallback, prefer_landscape,                    *)
(*    rotation_threshold], ratios in Unit-ths.                             *)
(***************************************************************************)
EXTENDS PlateGeometry

Crops == INSTANCE CropHypotheses

AlignerValid(config, limits) ==
    /\ {2 * config.horizontal_padding, 2 * config.vertical_padding} \subseteq 0..Unit
    /\ 0 < config.width.minimum /\ config.width.minimum <= config.width.maximum
    /\ config.width.maximum <= limits.max_image_width
    /\ 0 < config.height.minimum /\ config.height.minimum <= config.height.maximum
    /\ config.height.maximum <= limits.max_image_height
    /\ config.rotation_threshold >= Unit

-----------------------------------------------------------------------------
(* Corners in whole pixels, and in Unit-ths once they are padded.          *)

\* What is left if the corners are exchanged instead of turned.
FlipToLandscape(corners) == <<corners[1], corners[4], corners[3], corners[2]>>

RotateToLandscape(corners) == StartingAt(corners, 4)

\* The way from one corner to another, of length one.
Direction(from, to) ==
    LET along(axis) == ((to[axis] - from[axis]) * Unit * Unit) \div Distance(from, to)
    IN  <<along(1), along(2)>>

\* The mean lengths of top and bottom and of left and right, twice.
TwiceWidth(edge) == edge[1] + edge[3]
TwiceHeight(edge) == edge[2] + edge[4]

\* Out from its neighbours along both of its edges.
PushedOut(config, corners, edge, i) ==
    LET beside == IF i % 2 = 1 THEN After(i, 1) ELSE After(i, 3)
        across == IF i % 2 = 1 THEN After(i, 3) ELSE After(i, 1)
        along == Direction(corners[beside], corners[i])
        up == Direction(corners[across], corners[i])
        horizontal == (TwiceWidth(edge) * config.horizontal_padding) \div (2 * Unit)
        vertical == (TwiceHeight(edge) * config.vertical_padding) \div (2 * Unit)
    IN  [axis \in 1..2 |-> corners[i][axis] * Unit
            + (along[axis] * horizontal + up[axis] * vertical) \div Unit]

ClampPoint(point, source) ==
    <<Crops!Clamped(point[1], (source.width - 1) * Unit),
      Crops!Clamped(point[2], (source.height - 1) * Unit)>>

PaddedCorners(config, corners, source) ==
    [i \in Corners |-> ClampPoint(PushedOut(config, corners, EdgesOf(corners), i), source)]

Landscape(config, corners) ==
    LET edge == EdgesOf(corners) IN
    IF config.prefer_landscape
       /\ TwiceHeight(edge) * Unit > TwiceWidth(edge) * config.rotation_threshold
    THEN RotateToLandscape(corners) ELSE corners

-----------------------------------------------------------------------------
(* align: its outcomes, an aligned image, a region of the source, or a     *)
(* failure; or none, where the plate is given up.                          *)

Fallback(config, source, box) ==
    IF config.allow_bbox_fallback
    THEN {[of |-> "region", region |-> r] :
             r \in Crops!BboxRegion([x |-> box.x * Unit, y |-> box.y * Unit,
                                     width |-> box.width * Unit, height |-> box.height * Unit],
                       source, config.horizontal_padding, config.vertical_padding)}
    ELSE {}

\* Rounded to whole pixels, half up.
BoundedDimension(measured, bounds) ==
    Greater(bounds.minimum, Lesser(bounds.maximum, (measured + Unit) \div (2 * Unit)))

Warped(config, corners) ==
    LET edge == [i \in Corners |->
                    LET p == corners[i]
                        q == corners[After(i, 1)]
                    IN  Length(q[1] - p[1], q[2] - p[2], 1)]
    IN  IF TwiceWidth(edge) > 0 /\ TwiceHeight(edge) > 0
        THEN {[of |-> "aligned", corners |-> corners,
               width |-> BoundedDimension(TwiceWidth(edge), config.width),
               height |-> BoundedDimension(TwiceHeight(edge), config.height)]}
        ELSE {[of |-> "failed"]}

Align(config, geometry, source, detection) ==
    LET evaluated == Evaluate(geometry, detection)
        fallback == Fallback(config, source, detection.bbox)
    IN  IF evaluated = {} THEN fallback
        ELSE UNION {Warped(config,
                        PaddedCorners(config, Landscape(config, e.ordered_corners), source)) :
                        e \in evaluated} \cup fallback
==============================================================================
