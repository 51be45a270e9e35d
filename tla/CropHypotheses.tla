----------------------------- MODULE CropHypotheses -----------------------------
(***************************************************************************)
(* CropHypothesisGenerator: the crops of one plate that the recognizers    *)
(* read.  Boxes are in Unit-ths of a pixel, ratios are numbers of Unit-ths.*)
(* The fingerprint of a crop, a hash of its size and pixels, is taken to   *)
(* tell apart what differs; a source is [width, height, plain], plain if   *)
(* all of its pixels are alike.  A configuration is                        *)
(*   [generator_order, maximum_hypotheses, minimum_width, minimum_height,  *)
(*    horizontal_padding, vertical_padding, prefer_source, dominant_area,  *)
(*    left_inset, right_inset, vertical_inset].                            *)
(***************************************************************************)
EXTENDS Integers, Sequences, FiniteSetsExt, Functions

CONSTANT Unit

Kinds == {"rectified", "raw_bbox", "padded_bbox"}

ConfigValid(config) ==
    LET order == config.generator_order IN
    /\ Len(order) \in 1..32 /\ Range(order) \subseteq Kinds /\ IsInjective(order)
    /\ config.maximum_hypotheses \in 1..32
    /\ config.minimum_width > 0 /\ config.minimum_height > 0
    /\ {2 * config.horizontal_padding, 2 * config.vertical_padding} \subseteq 0..Unit
    /\ config.dominant_area \in 1..Unit
    /\ \A inset \in {config.left_inset, config.right_inset, config.vertical_inset} :
           inset >= 0 /\ 2 * inset < Unit
    /\ 4 * (config.left_inset + config.right_inset) < 3 * Unit
    /\ 8 * config.vertical_inset < 3 * Unit

-----------------------------------------------------------------------------
(* Regions of the source; there is none where the code's is empty.         *)

Clamped(n, most) == Max({0, Min({n, most})})
Floor(n) == n \div Unit
Ceiling(n) == -((-n) \div Unit)

Region(x, y, x2, y2) ==
    IF x2 > x /\ y2 > y THEN {[x |-> x, y |-> y, width |-> x2 - x, height |-> y2 - y]} ELSE {}

BoxValid(box) == box.width > 0 /\ box.height > 0

\* The box as far as it lies in the source, in Unit-ths.
Clipped(box, source, pad_x, pad_y) ==
    [left |-> Clamped(box.x - pad_x, source.width * Unit),
     top |-> Clamped(box.y - pad_y, source.height * Unit),
     right |-> Clamped(box.x + box.width + pad_x, source.width * Unit),
     bottom |-> Clamped(box.y + box.height + pad_y, source.height * Unit)]

BboxRegion(box, source, horizontal_padding, vertical_padding) ==
    LET c == Clipped(box, source, (box.width * horizontal_padding) \div Unit,
                                  (box.height * vertical_padding) \div Unit)
    IN  IF BoxValid(box) /\ c.right > c.left /\ c.bottom > c.top
        THEN Region(Floor(c.left), Floor(c.top), Min({source.width, Ceiling(c.right)}),
                    Min({source.height, Ceiling(c.bottom)}))
        ELSE {}

PlateTextRegion(source, config) ==
    LET left == Floor(source.width * config.left_inset)
        right_inset == Floor(source.width * config.right_inset)
        vertical == Floor(source.height * config.vertical_inset)
    IN  Region(left, vertical, source.width - right_inset, source.height - vertical)

\* Whether detection_area_ratio reaches the configured share.
Dominates(box, source, config) ==
    LET c == Clipped(box, source, 0, 0) IN
    /\ config.prefer_source /\ BoxValid(box)
    /\ c.right > c.left /\ c.bottom > c.top
    /\ (c.right - c.left) * (c.bottom - c.top)
         >= config.dominant_area * Unit * source.width * source.height

-----------------------------------------------------------------------------
(* The crops.  What a view shows is told by where it lies in the source,   *)
(* unless the source is plain; an aligned image, [width, height, at], may  *)
(* show what a view shows, or something of its own.                        *)

OwnPixels == <<-1, -1>>
PlainPixels == <<>>

ViewOf(source, region) ==
    [width |-> region.width, height |-> region.height, region |-> {region},
     pixels |-> IF source.plain THEN PlainPixels ELSE <<region.x, region.y>>]

AlignedView(aligned) ==
    [width |-> aligned.width, height |-> aligned.height, region |-> {}, pixels |-> aligned.pixels]

Fingerprint(view) == <<view.width, view.height, view.pixels>>

Fits(config, hypotheses, view) ==
    /\ Len(hypotheses) < config.maximum_hypotheses
    /\ view.width >= config.minimum_width /\ view.height >= config.minimum_height

\* try_add, before it looked for duplicates.
TryAddAnew(config, hypotheses, view, kind) ==
    IF Fits(config, hypotheses, view)
    THEN Append(hypotheses, [view |-> view, type |-> kind, fingerprint |-> Fingerprint(view)])
    ELSE hypotheses

TryAdd(config, hypotheses, view, kind) ==
    IF /\ Fits(config, hypotheses, view)
       /\ \A i \in DOMAIN hypotheses : hypotheses[i].fingerprint # Fingerprint(view)
    THEN Append(hypotheses, [view |-> view, type |-> kind, fingerprint |-> Fingerprint(view)])
    ELSE hypotheses

\* The view a generator offers, if it has one.
Offered(config, source, box, aligned, kind) ==
    CASE kind = "rectified" -> {AlignedView(a) : a \in aligned}
      [] kind = "raw_bbox" -> {ViewOf(source, r) : r \in BboxRegion(box, source, 0, 0)}
      [] kind = "padded_bbox" ->
             {ViewOf(source, r) : r \in BboxRegion(box, source, config.horizontal_padding,
                                                   config.vertical_padding)}

OfferedTo(config, hypotheses, views, kind) ==
    IF views = {} THEN hypotheses
    ELSE TryAdd(config, hypotheses, CHOOSE v \in views : TRUE, kind)

\* generate; aligned is the aligned image or nothing.
Generate(config, source, box, aligned) ==
    LET whole == [x |-> 0, y |-> 0, width |-> source.width, height |-> source.height]
        text == {ViewOf(source, r) : r \in PlateTextRegion(source, config)}
    IN  IF Dominates(box, source, config)
        THEN OfferedTo(config,
                 OfferedTo(config, <<>>, {ViewOf(source, whole)}, "plate_dominant_source"),
                 text, "plate_dominant_text_region")
        ELSE MapThenFoldSet(LAMBDA kind, made :
                 OfferedTo(config, made, Offered(config, source, box, aligned, kind), kind),
                 <<>>, LAMBDA i : config.generator_order[i], Max, DOMAIN config.generator_order)
==============================================================================
