----------------------------- MODULE MCAlgorithms -----------------------------
(* A TLC instance of Algorithms.                                           *)
EXTENDS Algorithms

-----------------------------------------------------------------------------
(* Constants of the modules.                                               *)

MCLetters == {65, 66}                   \* A, B
MCWeight == <<4, 2, 3, 0>>
MCCharset == <<48, 79, 49>>             \* 0, O, 1
MCPairs == {<<48, 79>>}
MCPlates == {<<48>>, <<79, 49>>, <<48, 48>>, <<49, 79, 49>>}
MCSources == <<2, 1>>

-----------------------------------------------------------------------------
(* What the inputs are made of.                                            *)

MCProvinceCodes == {48, 49, 56, 57, 65, 45}   \* 0, 1, 8, 9, A, hyphen
MCTailCodes == {49, 65, 97, 81, 45}           \* 1, A, a, Q, hyphen

FoundBox(x, width, confidence, geometry) ==
    [x |-> x, width |-> width, confidence |-> confidence, geometry |-> geometry]
MCFoundBoxes ==
    {FoundBox(-1, 3, 1, 1), FoundBox(0, 3, 2, 1), FoundBox(1, 3, 1, 2),
     FoundBox(2, 3, 2, 2), FoundBox(3, 3, 1, 1), FoundBox(0, 0, 2, 1)}

MCTiledExtents == {tile_width, 11}

MCDetections ==
    {[provider |-> p, confidence |-> c, x |-> x, width |-> 4] :
        p \in 1..3, c \in {2, 4}, x \in {0, 2, 4, 8}}
      \cup {[provider |-> 4, confidence |-> 4, x |-> 2, width |-> 4]}

Row(a, b, c, d) == [k \in Classes |-> <<a, b, c, d>>[k + 1]]
MCRows == {Row(3, 1, 2, 1), Row(1, 3, 1, 2), Row(1, 2, 3, 2), Row(2, 1, 1, 3), Row(2, 2, 2, 2)}

Read(text, confidence, calibrated, valid) ==
    [text |-> text, confidence |-> confidence, calibrated |-> calibrated, format_valid |-> valid]
Evidence ==
    {[source |-> 1, quality |-> 1, candidates |-> <<>>],
     [source |-> 1, quality |-> 0, candidates |-> <<Read(1, 2, 2, TRUE)>>],
     [source |-> 2, quality |-> 2, candidates |-> <<Read(1, 1, 2, TRUE), Read(2, 2, 1, FALSE)>>],
     [source |-> 2, quality |-> 1, candidates |-> <<Read(2, 1, 0, TRUE), Read(2, 2, 2, FALSE)>>],
     [source |-> 1, quality |-> 2, candidates |-> <<Read(3, 1, 1, FALSE), Read(1, 0, 0, TRUE)>>]}
MCCropsRead ==
    {[layout |-> [reliable |-> r, confidence |-> 2], evidence |-> e] :
        r \in BOOLEAN, e \in {<<>>} \cup {<<f>> : f \in Evidence}
                               \cup {<<f, g>> : f \in Evidence, g \in Evidence}}

MCViews ==
    [offset : {0}, bytes : {0, 1, 7, 9, 16, 25, 31}, width : 0..3, height : 0..3,
     stride : {1, 3, 7, 9, 16, 31}, channels : {1, 3}]
MCDestinations ==
    [width : 1..2, height : 1..2, channels : {1, 3}, stride : {1, 3, 16, 31}, bytes : {1, 6, 31}]
MCRegions == [x : {0, 1, 31}, y : {0, 1, 31}, width : 0..2, height : 0..2]

Text(id, length) == [id |-> id, length |-> length]
NoText == Text(0, 0)
MCCandidates ==
    {[text |-> NoText, sound |-> TRUE], [text |-> Text(1, 3), sound |-> TRUE],
     [text |-> Text(2, 8), sound |-> FALSE]}
MCEmptyPlates ==
    {[plate |-> t, sound |-> s, evidence |-> <<>>, alternatives |-> <<>>,
      decision_reasons |-> <<>>] : t \in {NoText, Text(3, 7)}, s \in BOOLEAN}
MCEmptyEvidence == [source |-> Text(4, 5), sound |-> TRUE, candidates |-> <<>>]

MCLetterboxes ==
    [image : {ImageOf(w, h, "bgr", 1) : w \in {1, 2, 3, 4, 5, 6, 12}, h \in {1, 2, 3, 5, 6, 12}},
     input : [width : {2, 4, 5}, height : {1, 4}]]

MCTensorShapes == {<<b, c, d, e>> : b \in {1, -1, 2}, c, d, e \in {-1, 1, 2, 3, 4}}
MCImages ==
    {ImageOf(w, h, format, slack) : w \in {1, 3, 4}, h \in {1, 2}, slack \in {0, 1},
                                   format \in {"gray", "rgb", "bgr"}}

\* Of a candidate: two class scores, objectness, box and the four corners.
CandidateRow(s1, s2, o, cx, cy, w, h, corner) ==
    [f \in 0..14 |-> IF f < 4 THEN <<cx, cy, w, h>>[f + 1]
                     ELSE IF f < 7 THEN <<s1, s2, o>>[f - 3] ELSE corner]
MCCandidateRows ==
    {CandidateRow(1, 2, 2, 120, 120, 120, 60, 60), CandidateRow(2, 0, 1, 150, 120, 120, 60, NaN),
     CandidateRow(2, 2, 2, 180, 120, 120, 60, 300), CandidateRow(0, 9, 2, 30, 60, 120, 120, -60),
     CandidateRow(NaN, 1, 2, 120, 60, 60, 60, 0), CandidateRow(2, 2, 2, NaN, 60, 60, 60, 0),
     CandidateRow(2, 2, 2, 120, 60, 0, 60, 0), CandidateRow(2, 2, 2, -60, 60, 60, 60, 0),
     CandidateRow(2, NaN, 1, 120, 120, 120, 120, 90)}
RowSpec(most) ==
    [layout |-> "features_first", box |-> 0, class_score |-> 4, class_count |-> 2, objectness |-> 6,
     keypoint |-> 7, keypoint_stride |-> 2, confidence_threshold |-> 1,
     nms_iou_threshold |-> 1, maximum_detections |-> most]
MCOutputSpecs == {RowSpec(1), RowSpec(3)}
MCRowImage == ImageOf(8, 4, "rgb", 0)
MCRowInput == [width |-> 4, height |-> 4]

Node(name, type, shape) == [name |-> name, element_type |-> type, shape |-> shape]
\* Sizes on both sides of what a contract pins, of the decoder's limits and of the
\* features the parser needs.
MCSizes == {0, 1, 2, 3, 8, 9}
OutputShapes ==
    {<<1, a, b>> : a, b \in MCSizes \cup {-1}} \cup {<<-1, 2, 2>>, <<2, 2>>, <<1, 2, 2, 1>>}
ModelsOf(inputs) ==
    {[inputs |-> <<Node("in", "float", i)>>,
      outputs |-> <<Node("aux", other, <<1, 1, 2>>), Node("out", "float", o)>>] :
        i \in inputs, o \in OutputShapes, other \in {"float", "none"}}
OcrInputs == {<<-1, 1, 2, 4>>, <<1, 2, 4, 1>>, <<-1, 1, 7, 7>>}
DetectorInputs == {<<1, 3, 2, 2>>, <<-1, 3, 1, 1>>, <<1, 3, 4, 4>>}
ContractsOf(type) ==
    [type : {type}, rows : {2, 8, 9}, columns : {1, 2, 3}, charset : {1, 2},
     layout : IF type = "ocr" THEN {"bct", "btc"} ELSE {"features_first", "candidates_first"},
     spec : {[RowSpec(2) EXCEPT !.class_count = n, !.keypoint = 0, !.objectness = -1] :
                n \in IF type = "ocr" THEN {1} ELSE {1, 2}},
     model : ModelsOf(IF type = "ocr" THEN OcrInputs ELSE DetectorInputs)]
MCContracts ==
    {c \in ContractsOf("ocr") \cup ContractsOf("detector") :
        c.type = "detector" => c.charset = c.spec.class_count}

-----------------------------------------------------------------------------
(* Corners: of a grid of a source of 16 by 8, in every order.              *)

MCCornerPoints == ({0, 4, 8, 12} \X {0, 3, 6}) \cup {<<2, 0>>, <<2, 6>>}

MCGeometryConfig ==
    [minimum_keypoint_confidence |-> 10, minimum_horizontal_edge |-> 40,
     minimum_vertical_edge |-> 40, maximum_point_distance_ratio |-> 10,
     box_aspect |-> [hard_min |-> 10, preferred_min |-> 20, preferred_max |-> 120,
                     hard_max |-> 240],
     crop_aspect |-> [hard_min |-> 8, preferred_min |-> 30, preferred_max |-> 120,
                      hard_max |-> 240],
     area_ratio |-> [minimum |-> 4, maximum |-> 36]]
MCAlignerConfig ==
    [horizontal_padding |-> 2, vertical_padding |-> 2, width |-> [minimum |-> 2, maximum |-> 12],
     height |-> [minimum |-> 1, maximum |-> 6], allow_bbox_fallback |-> TRUE,
     prefer_landscape |-> TRUE, rotation_threshold |-> 23]
MCAlignedSource == [width |-> 14, height |-> 8]
MCBoxOfCorners == [x |-> 1, y |-> 0, width |-> 10, height |-> 6]
MCCornerConfidences == <<20, 15, 18, 20>>

ASSUME Alignment!ConfigValid(GeometryConfig)
       /\ Alignment!AlignerValid(AlignerConfig, [max_image_width |-> 16, max_image_height |-> 8])

-----------------------------------------------------------------------------
(* Crops, in quarters of a pixel.                                          *)

CropConfigs ==
    {[generator_order |-> order, maximum_hypotheses |-> most, minimum_width |-> 2,
      minimum_height |-> 1, horizontal_padding |-> 1, vertical_padding |-> 1,
      prefer_source |-> prefer, dominant_area |-> 3, left_inset |-> 1, right_inset |-> 1,
      vertical_inset |-> 1] :
        order \in {<<"rectified", "raw_bbox", "padded_bbox">>, <<"padded_bbox", "raw_bbox">>},
        most \in {1, 3}, prefer \in BOOLEAN}
CropSources == [width : {1, 3, 5}, height : {2, 4}, plain : BOOLEAN]
CropBoxes == [x : {-9, -2, 0, 5, 11}, y : {-1, 2}, width : {0, 3, 8, 19}, height : {4, 6, 30}]
AlignedImages ==
    {{}} \cup {{[width |-> 4, height |-> 2, pixels |-> pixels]} :
                  pixels \in {PlateCrops!OwnPixels, PlateCrops!PlainPixels, <<0, 0>>, <<1, 0>>}}
MCCropInputs ==
    {c \in [config : CropConfigs, source : CropSources, box : CropBoxes,
            aligned : AlignedImages] :
        \A a \in c.aligned : (a.pixels = PlateCrops!PlainPixels) = c.source.plain}

-----------------------------------------------------------------------------
(* A plate of components.                                                  *)

MCLayoutConfig ==
    [enabled |-> TRUE, height_ratio |-> [minimum |-> 6, maximum |-> 19],
     width_ratio |-> [minimum |-> 1, maximum |-> 5], aspect |-> [minimum |-> 2, maximum |-> 25],
     minimum_character_count |-> 5, maximum_character_count |-> 9,
     maximum_height_variation |-> 7, minimum_boundary_gap_strength |-> 24,
     minimum_confidence |-> 9]
MCComponentPlate == [width |-> 60, height |-> 10]
ASSUME Layout!ConfigValid(LayoutConfig)

-----------------------------------------------------------------------------
(* Rows of a thresholded plate.                                            *)

MCRowConfig ==
    [enabled |-> TRUE, minimum_width |-> 3, minimum_height |-> 3,
     aspect |-> [minimum |-> 8, maximum |-> 40], split_search |-> [minimum |-> 6, maximum |-> 14],
     row_foreground |-> [minimum |-> 1, maximum |-> 18], target_row_height |-> 3,
     separator_width |-> 1, maximum_output_width |-> 11]
MCPlateRows == {{}, {0}, {1, 2}, {0, 1, 3}}
==============================================================================
