------------------------------- MODULE DoubleRows -------------------------------
(***************************************************************************)
(* DoubleRowPlateNormalizer: a plate of two rows is cut where it has least *)
(* ink and its rows are put side by side.  The image, thresholded by       *)
(* OpenCV, is a sequence of rows, each the set of its columns with ink, of *)
(* `width' columns.  Ratios are numbers of Unit-ths.  A configuration is   *)
(*   [enabled, minimum_width, minimum_height, aspect, split_search,        *)
(*    row_foreground (each [minimum, maximum]), target_row_height,         *)
(*    separator_width, maximum_output_width].                              *)
(* minimum_height is at least 3 here: the code accepts less, and clamps    *)
(* the rows it searches between 1 and rows - 2.                            *)
(***************************************************************************)
EXTENDS Integers, Sequences, FiniteSetsExt, Functions

CONSTANT Unit

ShareValid(range) ==
    range.minimum \in 1..Unit /\ range.maximum \in 1..Unit /\ range.minimum < range.maximum

OutputValid(config) ==
    /\ config.target_row_height \in 1..4096 /\ config.separator_width \in 0..128
    /\ config.maximum_output_width \in 1..16384

ConfigValid(config) ==
    /\ config.minimum_width > 0 /\ config.minimum_height > 2
    /\ 0 < config.aspect.minimum /\ config.aspect.minimum < config.aspect.maximum
    /\ config.aspect.maximum <= 10 * Unit
    /\ ShareValid(config.split_search) /\ ShareValid(config.row_foreground)
    /\ OutputValid(config)

ShouldApply(config, width, height) ==
    /\ config.enabled /\ width >= config.minimum_width /\ height >= config.minimum_height
    /\ config.aspect.minimum * height <= width * Unit
    /\ width * Unit <= config.aspect.maximum * height

-----------------------------------------------------------------------------
(* Rows and columns are counted from 0, as in the code.                    *)

Clamped(n, least, most) == Max({least, Min({most, n})})
Rounded(n, d) == (2 * n + d) \div (2 * d)

InkAt(rows, y) == Cardinality(rows[y + 1])

SearchRows(config, rows) ==
    LET height == Len(rows)
        min_row == Clamped(Rounded(height * config.split_search.minimum, Unit), 1, height - 2)
    IN  min_row..Clamped(Rounded(height * config.split_search.maximum, Unit), min_row, height - 1)

FindSplitRow(config, rows) ==
    CHOOSE y \in SearchRows(config, rows) : \A z \in SearchRows(config, rows) :
        InkAt(rows, y) < InkAt(rows, z) \/ (InkAt(rows, y) = InkAt(rows, z) /\ y <= z)

\* The ink of the rows from first up to, not including, end.
Ink(rows, first, end) ==
    {p \in (UNION Range(rows)) \X (first..(end - 1)) : p[1] \in rows[p[2] + 1]}

ForegroundFits(config, width, rows, first, end) ==
    LET area == width * (end - first)
        ink == Cardinality(Ink(rows, first, end)) * Unit
    IN  config.row_foreground.minimum * area <= ink /\ ink <= config.row_foreground.maximum * area

Bounds(ink) ==
    LET xs == {p[1] : p \in ink}
        ys == {p[2] : p \in ink}
    IN  [x |-> Min(xs), y |-> Min(ys), width |-> Max(xs) - Min(xs) + 1,
         height |-> Max(ys) - Min(ys) + 1]

\* What is found if the bounds are left relative to the mask of the rows.
RelativeRowBounds(rows, first, end) ==
    LET ink == Ink(rows, first, end) IN
    IF ink = {} \/ Bounds(ink).width < 2 \/ Bounds(ink).height < 2 THEN {}
    ELSE {[Bounds(ink) EXCEPT !.y = @ - first]}

\* trimmed_row_bounds, or nothing.
TrimmedRowBounds(rows, first, end) ==
    LET ink == Ink(rows, first, end) IN
    IF ink = {} \/ Bounds(ink).width < 2 \/ Bounds(ink).height < 2 THEN {} ELSE {Bounds(ink)}

ResizedWidth(config, bounds) ==
    Max({1, Rounded(bounds.width * config.target_row_height, bounds.height)})

\* The two rows and where they are copied to.
Joined(config, upper, lower) ==
    LET first == ResizedWidth(config, upper)
        second == ResizedWidth(config, lower)
        total == first + config.separator_width + second
    IN  IF total > config.maximum_output_width THEN {}
        ELSE {[upper |-> upper, lower |-> lower, width |-> total,
               height |-> config.target_row_height, upper_width |-> first,
               lower_x |-> first + config.separator_width, lower_width |-> second]}

Split(config, width, rows, split) ==
    IF /\ 1 < split /\ split + 1 < Len(rows)
       /\ ForegroundFits(config, width, rows, 0, split)
       /\ ForegroundFits(config, width, rows, split, Len(rows))
    THEN UNION {Joined(config, upper, lower) :
                   upper \in TrimmedRowBounds(rows, 0, split),
                   lower \in TrimmedRowBounds(rows, split, Len(rows))}
    ELSE {}

\* normalize: the joined image, or nothing.
Normalize(config, width, rows) ==
    IF ShouldApply(config, width, Len(rows))
    THEN Split(config, width, rows, FindSplitRow(config, rows)) ELSE {}
==============================================================================
