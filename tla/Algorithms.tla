------------------------------- MODULE Algorithms -------------------------------
(***************************************************************************)
(* The pure algorithms and their inputs.  A state is the input of one of   *)
(* them; a step makes it longer by one character, detection, crop, corner, *)
(* component, row or timestep.  Every invariant compares the algorithm, as *)
(* the code runs it, with what it is meant to compute, without its loops.  *)
(***************************************************************************)
EXTENDS TurkishPlateGrammar, AdaptiveTileDetector, MultiDetectorFusion,
        ConstrainedCtcBeamSearch, CandidateFusion, ImageViews, ResultBuffer

CONSTANTS
    ProvinceCodes, TailCodes, MaxTextLength,        \* of texts: two, and the rest
    FoundBoxes, MaxExtent, TiledExtents, MaxTile, MaxFound,
    Detections, MaxEvidence,
    Rows, MaxTimesteps,
    CropsRead, MaxCrops,
    Candidates, EmptyPlates, EmptyEvidence, MaxParts,
    Letterboxes,                                    \* [image, input]
    TensorShapes, Images,
    OutputSpecs, CandidateRows, MaxRows, RowImage, RowInput,
    Contracts, Sizes, tensor_budget,
    CornerPoints, GeometryConfig, AlignerConfig, AlignedSource, BoxOfCorners, CornerConfidences,
    CropInputs,
    LayoutConfig, ComponentPlate, MaxCharacters,
    RowConfig, PlateWidth, PlateRows, MaxPlateRows

\* The units that the modules count in, and the limits of the decoder.
CONSTANTS NaN, ModelUnit, ModelOne, max_model_timesteps, max_model_classes,
          AlignmentUnit, CropUnit, LayoutUnit, RowUnit

VARIABLE input

Models == INSTANCE OnnxContracts WITH
              maximum_timesteps <- max_model_timesteps, maximum_classes <- max_model_classes,
              Unit <- ModelUnit, One <- ModelOne
Alignment == INSTANCE PlateAlignment WITH Unit <- AlignmentUnit
PlateCrops == INSTANCE CropHypotheses WITH Unit <- CropUnit
Layout == INSTANCE PlateLayout WITH Unit <- LayoutUnit
Doubled == INSTANCE DoubleRows WITH Unit <- RowUnit

-----------------------------------------------------------------------------
(* What is assumed of the configurations and of the inputs.                *)

ASSUME TextInputAssumption == ProvinceCodes \cup TailCodes \subseteq 0..255

ASSUME TilesInputAssumption ==
    /\ {MaxExtent, MaxTile} \subseteq Nat
    /\ FoundBoxes \subseteq [x : Int, width : Nat, confidence : Int, geometry : Int]

ASSUME RowsAssumption ==
    /\ RowUnit \in Nat \ {0} /\ PlateWidth \in Nat
    /\ {RowConfig.minimum_height, RowConfig.target_row_height, RowConfig.separator_width,
        RowConfig.maximum_output_width} \subseteq Nat
    /\ Doubled!ConfigValid(RowConfig)
    /\ PlateRows \subseteq SUBSET (0..(PlateWidth - 1))

-----------------------------------------------------------------------------
(* What the inputs are made of.                                            *)

ColorOrders == {"gray", "rgb", "bgr"}

\* Slack is what a line of the image is longer than its pixels.
ImageOf(width, height, format, slack) ==
    [width |-> width, height |-> height, format |-> format,
     stride |-> width * (IF format = "gray" THEN 1 ELSE 3) + slack]

RowMeta == Models!Letterbox(RowImage, RowInput)
Features == 15

ASSUME CandidatesAssumption ==
    /\ {ModelUnit, ModelOne} \subseteq Nat \ {0} /\ NaN \notin Int
    /\ {RowImage.width, RowImage.height, RowInput.width, RowInput.height} \subseteq Nat \ {0}
    /\ CandidateRows \subseteq [0..(Features - 1) -> Int \cup {NaN}]
    /\ OutputSpecs \subseteq
           [layout : {"features_first", "candidates_first"}, box : Nat, class_score : Nat,
            class_count : Nat, objectness : Nat \cup {-1}, keypoint : Nat, keypoint_stride : Nat,
            confidence_threshold : Nat, nms_iou_threshold : Nat, maximum_detections : Nat]
    /\ \A spec \in OutputSpecs : Models!ValidSpec(spec)

\* The nodes the contract names: the first input and the second output.
ASSUME ContractsAssumption ==
    \A c \in Contracts :
        LET inputs == c.model.inputs
            outputs == c.model.outputs
        IN  /\ {c.rows, c.columns} \subseteq Nat
            /\ c.type = "ocr" => c.layout \in {"bct", "btc"}
            /\ c.type # "ocr" =>
                   c.type = "detector" /\ c.layout \in {"features_first", "candidates_first"}
            /\ 1 \in DOMAIN inputs /\ DOMAIN inputs \subseteq Nat \ {0}
            /\ 2 \in DOMAIN outputs /\ DOMAIN outputs \subseteq Nat \ {0}
            /\ inputs[1].name = "in" /\ outputs[1].name # "out" /\ outputs[2].name = "out"
            /\ inputs[1].shape \in Seq(Int) /\ outputs[2].shape \in Seq(Int)

ASSUME CropsAssumption ==
    CropsRead \subseteq
        [layout : [reliable : BOOLEAN, confidence : Nat],
         evidence : Seq([source : DOMAIN source_weights, quality : Nat,
                         candidates : Seq([text : Int, confidence : Nat, calibrated : Nat,
                                           format_valid : BOOLEAN])])]

ASSUME CropInputsAssumption ==
    /\ CropUnit \in Nat \ {0}
    /\ \A c \in CropInputs :
           /\ c.config.generator_order \in Seq(PlateCrops!Kinds)
           /\ {c.config.maximum_hypotheses, c.config.minimum_width, c.config.minimum_height,
               c.config.horizontal_padding, c.config.vertical_padding, c.config.left_inset,
               c.config.right_inset, c.config.vertical_inset} \subseteq Int
           /\ PlateCrops!ConfigValid(c.config)
           /\ {c.source.width, c.source.height} \subseteq Nat
           /\ {c.box.x, c.box.y, c.box.width, c.box.height} \subseteq Int

DetectionOf(points) ==
    [bbox |-> BoxOfCorners, points |-> points, confidences |-> CornerConfidences]

\* A speck on the plate, and characters.
Speck == [x |-> 30, y |-> 1, width |-> 3, height |-> 1]
Character(x, height) == [x |-> x, y |-> 0, width |-> 3, height |-> height]
CharactersAdded == SelectSeq(input.boxes, LAMBDA c : c # Speck)

Inputs ==
    \/ input = [of |-> "text", text |-> <<>>]
    \/ \E extent \in 1..MaxExtent :
           input = [of |-> "tiles", extent |-> extent, whole |-> <<>>,
                    found |-> [i \in DOMAIN AxisOrigins(extent, tile_width) |-> <<>>]]
    \/ input = [of |-> "detections", detections |-> <<>>]
    \/ input = [of |-> "rows", rows |-> <<>>]
    \/ input = [of |-> "crops", crops |-> <<>>]
    \/ \E s \in BOOLEAN :
           input = [of |-> "result", parts |-> 0,
                    result |-> [sound |-> s, recognitions |-> <<>>]]
    \/ \E l \in Letterboxes : input = [of |-> "letterbox", box |-> l]
    \/ \E shape \in TensorShapes, order \in ColorOrders :
           input = [of |-> "tensor", shape |-> shape, color_order |-> order]
    \/ \E c \in Contracts : input = [of |-> "contract", contract |-> c]
    \/ \E spec \in OutputSpecs : input = [of |-> "candidates", spec |-> spec, rows |-> <<>>]
    \/ input = [of |-> "corners", points |-> <<>>]
    \/ \E c \in CropInputs : input = [of |-> "crop", crop |-> c]
    \/ \E specks \in {<<>>, <<Speck>>} : input = [of |-> "components", boxes |-> specks]
    \/ input = [of |-> "plate rows", rows |-> <<>>]

\* The views have a state of their own.
NoView == [offset |-> 0, bytes |-> 0, width |-> 0, height |-> 0, stride |-> 1, channels |-> 1]
Init ==
    \/ input = [of |-> "view"] /\ ViewsInit
    \/ owned = NoView /\ view = NoView /\ origin = <<0, 0>> /\ Inputs

AddCharacter ==
    /\ input.of = "text" /\ Len(input.text) < MaxTextLength
    /\ Len(input.text) <= 2 \/ IsValidPrefix(input.text)
    /\ \E c \in IF Len(input.text) < 2 THEN ProvinceCodes ELSE TailCodes :
           input' = [of |-> "text", text |-> Append(input.text, c)]
    /\ UNCHANGED viewsVars

FoundCount == Len(input.whole) + Len(FlattenSeq(input.found))

TilesFound(whole, found) ==
    [of |-> "tiles", extent |-> input.extent, whole |-> whole, found |-> found]

AddFoundBox ==
    /\ input.of = "tiles" /\ FoundCount < MaxFound
    /\ input.extent \in TiledExtents
    /\ \E d \in FoundBoxes :
           \/ input' = TilesFound(Append(input.whole, d), input.found)
           \/ \E i \in DOMAIN input.found :
                  input' = TilesFound(input.whole, [input.found EXCEPT ![i] = Append(@, d)])
    /\ UNCHANGED viewsVars

AddDetection ==
    /\ input.of = "detections" /\ Len(input.detections) < MaxEvidence
    /\ \E d \in Detections :
           input' = [of |-> "detections", detections |-> Append(input.detections, d)]
    /\ UNCHANGED viewsVars

AddTimestep ==
    /\ input.of = "rows" /\ Len(input.rows) < MaxTimesteps
    /\ \E r \in Rows : input' = [of |-> "rows", rows |-> Append(input.rows, r)]
    /\ UNCHANGED viewsVars

AddCrop ==
    /\ input.of = "crops" /\ Len(input.crops) < MaxCrops
    /\ \E c \in CropsRead : input' = [of |-> "crops", crops |-> Append(input.crops, c)]
    /\ UNCHANGED viewsVars

\* To the last plate of the result, or to its last evidence.
GrowPlate(plate) ==
    {[plate EXCEPT !.evidence = Append(@, EmptyEvidence)],
     [plate EXCEPT !.decision_reasons = Append(@, Len(@))]}
      \cup {[plate EXCEPT !.alternatives = Append(@, c)] : c \in Candidates}
      \cup (IF plate.evidence = <<>> THEN {}
            ELSE {[plate EXCEPT !.evidence[Len(plate.evidence)].candidates = Append(@, c)] :
                     c \in Candidates})

AddPart ==
    /\ input.of = "result" /\ input.parts < MaxParts
    /\ LET made == input.result.recognitions IN
       \E more \in {Append(made, p) : p \in EmptyPlates}
                     \cup (IF made = <<>> THEN {}
                           ELSE {Append(Front(made), p) : p \in GrowPlate(Last(made))}) :
           input' = [of |-> "result", parts |-> input.parts + 1,
                     result |-> [sound |-> input.result.sound, recognitions |-> more]]
    /\ UNCHANGED viewsVars

AddRow ==
    /\ input.of = "candidates" /\ Len(input.rows) < MaxRows
    /\ \E r \in CandidateRows :
           input' = [of |-> "candidates", spec |-> input.spec, rows |-> Append(input.rows, r)]
    /\ UNCHANGED viewsVars

AddCorner ==
    /\ input.of = "corners" /\ Len(input.points) < 4
    /\ \E p \in CornerPoints \ ToSet(input.points) :
           input' = [of |-> "corners", points |-> Append(input.points, p)]
    /\ UNCHANGED viewsVars

AddComponent ==
    /\ input.of = "components" /\ Len(CharactersAdded) < MaxCharacters
    /\ LET added == CharactersAdded IN
       \E c \in IF added = <<>> THEN {Character(0, 5), Character(0, 9)}
                ELSE {Character(Last(added).x + 3 + gap, 5) : gap \in {-1, 1, 4}} :
           input' = [of |-> "components", boxes |-> Append(input.boxes, c)]
    /\ UNCHANGED viewsVars

AddPlateRow ==
    /\ input.of = "plate rows" /\ Len(input.rows) < MaxPlateRows
    /\ \E r \in PlateRows : input' = [of |-> "plate rows", rows |-> Append(input.rows, r)]
    /\ UNCHANGED viewsVars

Next ==
    \/ AddPart \/ AddRow \/ AddCorner \/ AddComponent \/ AddPlateRow
    \/ AddCharacter \/ AddFoundBox \/ AddDetection
    \/ AddTimestep \/ AddCrop
    \/ (Crop /\ UNCHANGED input)

Spec == Init /\ [][Next]_<<input, viewsVars>>

-----------------------------------------------------------------------------
\* What may follow of a plate: digits of the province, letters, digits.
SomeLetter == CHOOSE c \in allowed_letters : TRUE
Completion(i, j, k) ==
    [x \in 1..(i + j + k) |-> IF x \in (i + 1)..(i + j) THEN SomeLetter ELSE 49]

\* TurkishPlateGrammar: a text is accepted as a prefix exactly if some text that
\* begins with it is a plate, so the beam search neither loses a plate to
\* is_valid_prefix nor carries a text that can only fail at the end.  A text of
\* nothing but stripped characters is the exception: it is rejected; and so is one
\* with no room left for a plate.
PrefixExact ==
    input.of = "text" =>
        \/ input.text # <<>> /\ Normalize(input.text) = <<>>
        \/ Len(input.text) + 8 > maximum_input_length
        \/ IsValidPrefix(input.text) <=>
               \E i \in 0..2, j \in 0..3, k \in 0..5 :
                   IsValid(input.text \o Completion(i, j, k))

\* axis_origins: the tiles lie in the image, advance, are no more than needed,
\* and whatever is no wider than the overlap lies whole in one of them, the last
\* tile, which is moved back to the border, included.
SmallPlatesInOneTile ==
    input.of = "tiles" =>
        \A tile \in 1..MaxTile :
            LET extent == input.extent
                origins == AxisOrigins(extent, tile)
                step == tile - Overlap(tile)
            IN  /\ \A i \in DOMAIN origins :
                       /\ origins[i] + Min({tile, extent}) <= extent
                       /\ i > 1 => origins[i - 1] < origins[i]
                /\ (Len(origins) - 1) * step < Max({extent - tile, 0}) + step
                /\ \A width \in 1..(Overlap(tile) + 1), a \in 0..(extent - 1) :
                       a + width <= extent =>
                           \E i \in DOMAIN origins :
                               origins[i] <= a /\ a + width <= origins[i] + tile

\* AdaptiveTileDetector::detect: what is found several times, in the whole image
\* and in tiles that overlap, is returned once and with its strongest box; what
\* is left out overlaps a kept one at least as strong, or maximum_detections at
\* least as strong ones were kept; and no box of a tile leaves the image.
PlatesFoundOnce ==
    LET origins == AxisOrigins(input.extent, tile_width)
        tiled == UNION {{TranslateDetection(input.found[i][k], origins[i], input.extent) :
                            k \in DOMAIN input.found[i]} : i \in DOMAIN origins}
        all == ToSet(input.whole) \cup
               IF NeedsTiles(input.extent, tile_height) THEN tiled ELSE {}
        stronger(a, b) ==
            \/ a.confidence > b.confidence
            \/ a.confidence = b.confidence /\ a.geometry >= b.geometry
    IN  input.of = "tiles" =>
            \A kept \in Detect(input.extent, input.whole, input.found) :
                /\ \A i, j \in DOMAIN kept : i # j => ~IoUAbove(kept[i], kept[j])
                /\ \A i \in DOMAIN kept :
                       \/ kept[i] \in ToSet(input.whole)
                       \/ kept[i] \in all /\ kept[i].x >= 0
                            /\ kept[i].x + kept[i].width <= input.extent
                /\ \A d \in {e \in all : e.width > 0} :
                       \/ \E i \in DOMAIN kept :
                              stronger(kept[i], d) /\ (kept[i] = d \/ IoUAbove(kept[i], d))
                       \/ /\ Len(kept) = maximum_detections
                          /\ \A i \in DOMAIN kept : stronger(kept[i], d)

\* Tiling loses no plate and doubles none.
TilesFindOnce == SmallPlatesInOneTile /\ PlatesFoundOnce

\* Of the connected component of d, the strongest detection of every detector.
GroupOf(d, distinct) ==
    LET closed(S) == \A a \in S, b \in distinct : CrossModel(a, b) => b \in S
        component == {e \in distinct :
            \A S \in SUBSET distinct : d \in S /\ closed(S) => e \in S}
    IN  {a \in component : \A b \in component :
            a.provider = b.provider /\ a # b => Before(a, b)}

Doubtful(G) == Complement(SetToSeq(G), MaxEvidence)

GroupsAre(groups, meant) ==
    /\ \A i \in DOMAIN groups : ToSet(groups[i]) \in meant
    /\ Len(groups) = Min({Cardinality(meant), maximum_groups})
    /\ \A i, j \in DOMAIN groups : i # j => groups[i] # groups[j]
    /\ \A G \in meant : \A i \in DOMAIN groups :
           \/ \E j \in DOMAIN groups : ToSet(groups[j]) = G
           \/ Doubtful(ToSet(groups[i])) <= Doubtful(G)
    /\ \A p \in Permutations(DOMAIN input.detections) :
           DetectGroups([k \in DOMAIN p |-> input.detections[p[k]]]) = groups

\* MultiDetectorFusion::detect_groups: whatever the order in which the detectors
\* are registered and report, each group holds, of one connected component of the
\* overlaps between detectors, the strongest detection of every detector; no
\* detection is lost but to a stronger one of its detector, and the groups that
\* maximum_groups cuts off are not more confident than those returned.
GroupsAreComponents ==
    input.of = "detections" =>
        \A evidence \in {SelectSeq(input.detections, LAMBDA d : weight[d.provider] > 0)} :
        \A distinct \in {ToSet(DeduplicateSameModel(evidence))} :
            /\ distinct \subseteq ToSet(evidence)
            /\ \A d, e \in distinct : d # e => ~SameModel(d, e)
            /\ \A e \in ToSet(evidence) \ distinct :
                   \E d \in distinct : SameModel(d, e) /\ Before(d, e)
            /\ GroupsAre(DetectGroups(input.detections),
                         {GroupOf(d, distinct) : d \in distinct})

\* The weight of reading a text: the sum over all paths of classes, and over all
\* readings of what they emit.
PathSum(rows, text) ==
    LET steps == DOMAIN rows
        paths == {p \in [steps -> Classes] :
                     \A t \in steps : p[t] \in SelectedClasses(rows[t])}
        emits(p) == {t \in steps : p[t] # blank_index /\ (t > 1 => p[t - 1] # p[t])}
        factor(p, emitted, t) ==
            IF t \notin emitted THEN ConfusionScale
            ELSE MapThenSumSet(LAMBDA r : r[2],
                     {r \in Readings(p[t]) :
                         r[1] = text[Cardinality({u \in emitted : u <= t})]})
        weigh(p, emitted) ==
            IF Cardinality(emitted) # Len(text) THEN 0
            ELSE FoldLeft(LAMBDA product, t : product * rows[t][p[t]] * factor(p, emitted, t),
                          1, [t \in steps |-> t])
    IN  MapThenSumSet(LAMBDA p : weigh(p, emits(p)), paths)

DecodedAre(wide, narrow, weights) ==
    /\ ~wide.fallback_used =>
           \A i \in DOMAIN wide.candidates :
               /\ wide.candidates[i].weight = weights[wide.candidates[i].text]
               /\ \A text \in plates :
                      \/ \E j \in DOMAIN wide.candidates : wide.candidates[j].text = text
                      \/ /\ weights[text] <= wide.candidates[i].weight
                         /\ weights[text] > 0 => Len(wide.candidates) = result_limit
    /\ (wide.fallback_used \/ wide.candidates = <<>>) =>
           \A text \in plates : weights[text] = 0
    /\ ~narrow.fallback_used =>
           \A i \in DOMAIN narrow.candidates :
               narrow.candidates[i].weight \in 1..weights[narrow.candidates[i].text]

\* ConstrainedCtcBeamSearch::decode: a candidate's weight is the sum over all
\* ways to read it, that is, sequences of the selected classes and readings of
\* what they emit; a wide beam misses no way, a narrow one counts none twice, and
\* the greedy text is fallen back to only if no plate was reached.
BeamSumsPaths ==
    input.of = "rows" /\ input.rows # <<>> =>
        DecodedAre(Decode(input.rows, 512), Decode(input.rows, 2),
                   [text \in plates |-> PathSum(input.rows, text)])

Product(s) == FoldLeft(LAMBDA d, x : d * x, 1, s)

\* The best reading of a text in an evidence, scored with the layout of its crop,
\* and what all readings of it leave open.
BestReading(crop, e, text) ==
    Max({0} \cup {CandidateScore(e, <<crop.layout>>, 1, k) :
                      k \in {j \in Counted(e) : e.candidates[j].text = text}})
DoubtIn(crop, text) ==
    Product([i \in DOMAIN crop.evidence |-> One - BestReading(crop, crop.evidence[i], text)])
DoubtLeft(crops, text) == Product([c \in DOMAIN crops |-> DoubtIn(crops[c], text)])

TextsRead(crops) ==
    UNION {{e.candidates[k].text : k \in Counted(e)} :
              e \in UNION {ToSet(crops[c].evidence) : c \in DOMAIN crops}}

\* LprPipeline and WeightedMultiCropCandidateFusion::fuse: the support of a text
\* joins, over all crops and recognizers, its best reading in each, scored with
\* the layout of the crop it was read in; no text is returned twice, and those cut
\* by max_candidates have no more support.
ReadingsMeetTheirLayout ==
    input.of = "crops" =>
        LET fused == Fuse(Collect(input.crops))
            texts == {fused[i].text : i \in DOMAIN fused}
            read == TextsRead(input.crops)
        IN  /\ Cardinality(texts) = Len(fused)
            /\ texts \subseteq read /\ Len(fused) = Min({max_candidates, Cardinality(read)})
            /\ \A i \in DOMAIN fused :
                   /\ fused[i].doubt = DoubtLeft(input.crops, fused[i].text)
                   /\ \A text \in read \ texts :
                          fused[i].doubt <= DoubtLeft(input.crops, text)

\* Whether every number of a result has a place on the wire.
SoundResult(r) ==
    LET all(items) == \A i \in DOMAIN items : items[i].sound
    IN  /\ r.sound /\ all(r.recognitions)
        /\ \A i \in DOMAIN r.recognitions :
               LET plate == r.recognitions[i]
               IN  /\ all(plate.alternatives) /\ all(plate.evidence)
                   /\ \A k \in DOMAIN plate.evidence : all(plate.evidence[k].candidates)

\* A buffer that was filled holds the result, in cells apart from each other.
Holds(memory, required, result) ==
    /\ LET root == Cell(memory, 0, RootBytes)
           texts(candidates) == [i \in DOMAIN candidates |-> candidates[i].text]
           evidence(e) == [i \in DOMAIN e |-> <<e[i].source, texts(e[i].candidates)>>]
           plates_of(p) == [i \in DOMAIN p |->
               <<p[i].plate, evidence(p[i].evidence), texts(p[i].alternatives),
                 p[i].decision_reasons>>]
       IN  ReadPlates(memory, root.offset.recognitions, root.holds.recognitions)
             = plates_of(result.recognitions)
    /\ \A c \in memory :
           /\ c.at % wire_alignment = 0 /\ c.at + c.size <= required
           /\ \A d \in memory : c # d => c.at + c.size <= d.at \/ d.at + d.size <= c.at

\* serialize_result_v1: the size asked for first is the size written, whatever
\* the buffer, and a buffer of that size that is aligned holds the whole result:
\* its records, read through their offsets, give it back, none overlaps another.
\* With any other buffer, one sized by the answer to a former result included,
\* nothing is written; a result that has no place on the wire or in the budget
\* has no size either.
BufferHoldsResult ==
    input.of = "result" =>
        LET buffer(present, aligned, capacity) ==
                [present |-> present, aligned |-> aligned, capacity |-> capacity]
        IN  \A query \in {SerializeResult(input.result, buffer(FALSE, TRUE, 0))} :
                /\ query.required > 0 => SoundResult(input.result)
                /\ query.required = 0 /\ SoundResult(input.result) =>
                       query.status = Exhausted
                /\ query.required > 0 <=> query.status = "buffer too small"
                /\ query.required \in 0..max_result_bytes
                /\ \A capacity \in {0, RootBytes, query.required - 1, query.required,
                                    max_result_bytes} :
                   \A aligned \in BOOLEAN :
                   \A call \in {SerializeResult(input.result, buffer(TRUE, aligned, capacity))} :
                       /\ call.required = query.required
                       /\ call.status = "ok" <=> query.required \in 1..capacity /\ aligned
                       /\ IF call.status = "ok"
                          THEN Holds(call.memory, call.required, input.result)
                          ELSE call.memory = {}

\* The bytes of an image that a sample may read.
InBuffer(image, sample) ==
    LET last == (image.height - 1) * image.stride
                  + image.width * (IF image.format = "gray" THEN 1 ELSE 3)
    IN  \A corner \in DOMAIN sample.bytes : sample.bytes[corner] \in 0..(last - 1)

Distance(a, b) == IF a < b THEN b - a ELSE a - b

\* YoloPosePreprocessor and YoloPoseOutputParser: the resized image lies in the
\* model's input and every sample in the image; what the model reports at the
\* place where an edge of the source was put comes back to that edge, to half a
\* model pixel, or to one if the image was too thin to be seen.
LetterboxReturns ==
    input.of = "letterbox" =>
        LET image == input.box.image
            size == input.box.input
        IN  \A m \in {Models!Letterbox(image, size)} :
            \A written \in {Models!PreprocessLetterboxed(image, size, m)} :
                /\ m.pad_left + m.resized_width <= size.width
                /\ m.pad_top + m.resized_height <= size.height
                /\ Cardinality({w.index : w \in written})
                     = 3 * m.resized_width * m.resized_height
                /\ \A w \in written : /\ w.index \in 0..(3 * size.width * size.height - 1)
                                      /\ InBuffer(image, w.sample)
                /\ \A x \in 0..image.width :
                       2 * Distance(Models!SourceX(ModelUnit * m.pad_left
                                        + (x * ModelUnit * m.resized_width) \div image.width, m),
                                    x * ModelUnit * m.num)
                         <= (IF m.resized_width = 1 THEN 2 ELSE 1) * ModelUnit * m.den
                /\ \A y \in 0..image.height :
                       2 * Distance(Models!SourceY(ModelUnit * m.pad_top
                                        + (y * ModelUnit * m.resized_height) \div image.height, m),
                                    y * ModelUnit * m.num)
                         <= (IF m.resized_height = 1 THEN 2 ELSE 1) * ModelUnit * m.den

\* The rows of features in the order of a layout.
Flat(rows, layout) ==
    [k \in 0..(Features * Len(rows) - 1) |->
        IF layout = "features_first" THEN rows[(k % Len(rows)) + 1][k \div Len(rows)]
                                     ELSE rows[(k \div Features) + 1][k % Features]]
ShapeOf(rows, layout) ==
    IF layout = "features_first" THEN <<1, Features, Len(rows)>> ELSE <<1, Len(rows), Features>>

\* YoloPoseOutputParser::parse: both layouts and both ranks of an output give the
\* same detections; each lies in the image with its corners and is not empty; they
\* come strongest first and none overlaps another too much; and a candidate above
\* the threshold is left out only for one at least as strong that it overlaps, for
\* maximum_detections such ones, or because nothing of it is in the image.
DetectionsAreCandidates ==
    input.of = "candidates" /\ input.rows # <<>> =>
        LET rows == input.rows
            spec == input.spec
            parsed(layout, shape) ==
                Models!Parse([spec EXCEPT !.layout = layout], Flat(rows, layout), shape, RowMeta)
            right == RowImage.width * ModelUnit * RowMeta.num
            bottom == RowImage.height * ModelUnit * RowMeta.num
            inside(box) == /\ box.x >= 0 /\ box.y >= 0 /\ box.width > 0 /\ box.height > 0
                           /\ box.x + box.width <= right /\ box.y + box.height <= bottom
        IN  \A kept \in parsed("features_first", ShapeOf(rows, "features_first")) :
                /\ \A layout \in {"features_first", "candidates_first"} :
                       LET shape == ShapeOf(rows, layout) IN
                       /\ parsed(layout, shape) = {kept} /\ parsed(layout, Tail(shape)) = {kept}
                       /\ parsed(layout, <<2>> \o Tail(shape)) = {}
                /\ \A i \in DOMAIN kept :
                       /\ inside(kept[i].box)
                       /\ \A k \in DOMAIN kept[i].quadrilateral :
                              /\ kept[i].quadrilateral[k].x \in 0..right
                              /\ kept[i].quadrilateral[k].y \in 0..bottom
                       /\ \A j \in 1..(i - 1) :
                              /\ kept[j].confidence >= kept[i].confidence
                              /\ ~Models!Suppresses(spec, kept[j].box, kept[i].box)
                /\ \A i \in DOMAIN rows :
                       /\ Models!RowConfidence(spec, rows[i]) >= spec.confidence_threshold * ModelOne
                       /\ Models!FiniteBox(spec, rows[i])
                       => \A d \in {Models!DetectionOf(spec, rows[i], RowMeta, i - 1)} :
                              \/ d.box.width = 0 \/ d.box.height = 0
                              \/ \E k \in DOMAIN kept :
                                     /\ kept[k].confidence >= d.confidence
                                     /\ kept[k] = d \/ Models!Suppresses(spec, kept[k].box, d.box)
                              \/ /\ Len(kept) = spec.maximum_detections
                                 /\ \A k \in DOMAIN kept : kept[k].confidence >= d.confidence

\* LprNetPreprocessor, for an input the contract accepted: the tensor has the
\* model's shape; every element is written exactly once, so nothing of the image
\* before is left in the workspace; no byte outside the image is read; samples lie
\* symmetric in the image; and of an image of the model's size each element is the
\* right colour of its own pixel.
TensorIsImage ==
    input.of = "tensor" =>
        LET descriptor == [element_type |-> "float", shape |-> input.shape]
        IN  \A spec \in Models!MakeInputSpec(descriptor, input.color_order) :
            LET shape == Models!MakeShape(spec)
                place(c, y, x) == IF spec.layout = "nchw" THEN <<0, c, y, x>> ELSE <<0, y, x, c>>
                at(p) == ((p[1] * shape[2] + p[2]) * shape[3] + p[3]) * shape[4] + p[4]
            IN  /\ \A i \in 1..4 : input.shape[i] \in {-1, shape[i]}
                /\ \A image \in Images \cup {ImageOf(spec.width, spec.height, "bgr", 2)} :
                   \A written \in {Models!Preprocess(image, spec)} :
                       /\ {w.index : w \in written} = 0..(Models!TensorSize(spec) - 1)
                       /\ Cardinality(written) = Models!TensorSize(spec)
                       /\ \A w \in written, s \in UNION {w.samples : w \in written} :
                              InBuffer(image, s)
                       /\ \A x \in 0..(spec.width - 1) :
                              LET left == Models!Axis(x, image.width, spec.width)
                                  right == Models!Axis(spec.width - 1 - x, image.width, spec.width)
                              IN  (left.low + right.low) * 2 * spec.width + left.part + right.part
                                    = (image.width - 1) * 2 * spec.width
                       /\ image.width = spec.width /\ image.height = spec.height =>
                              \A c \in 0..(spec.channels - 1), y \in 0..(spec.height - 1),
                                 x \in 0..(spec.width - 1) :
                                 \E w \in written :
                                     /\ w.index = at(place(c, y, x))
                                     /\ {s.bytes[<<"low", "low">>] : s \in w.samples}
                                          = {Models!PixelAt(image, x, y)
                                               + Models!ColourByte(image.format, colour) :
                                               colour \in Models!ColoursOf(spec.color_order, c)}
                                     /\ \A s \in w.samples : s.dx = 0 /\ s.dy = 0

\* The shapes a session may give for a descriptor: any size where it is open.
Concrete(shape) ==
    {s \in [DOMAIN shape -> Sizes] :
        \A i \in DOMAIN shape : IF shape[i] = -1 THEN s[i] > 0 ELSE s[i] = shape[i]}

\* build_pipeline_from_contract and the self test: with models that were built,
\* the inference of the self test decides for all later ones whether the shapes
\* fit, budgets, decoder limits and parser included, the tensor handed in is one
\* the model takes, and the decoder gets every logit once, the one of its class
\* and its timestep.
SelfTestDecides ==
    input.of = "contract" =>
        LET given == input.contract
            contract == [input_name |-> "in", output_name |-> "out", layout |-> given.layout,
                         features |-> given.rows, candidates |-> given.columns,
                         classes |-> given.rows, timesteps |-> given.columns,
                         charset |-> given.charset, color_order |-> "gray"]
            in == given.model.inputs[1].shape
            out == given.model.outputs[2].shape
            builds == IF given.type = "ocr"
                      THEN Models!BuildsRecognizer(given.model, contract, tensor_budget)
                      ELSE Models!BuildsDetector(given.model, contract, given.spec, tensor_budget)
            tensors == IF given.type = "detector" THEN {in}
                       ELSE {Models!MakeShape(s) :
                                s \in Models!MakeInputSpec(given.model.inputs[1], "gray")}
            accepts(tensor, o) ==
                IF given.type = "ocr"
                THEN Models!RecognizeAccepts(contract, tensor, o, tensor_budget)
                ELSE Models!DetectAccepts(contract, given.spec, tensor, o, tensor_budget)
        IN  builds => \A tensor \in tensors :
                /\ \A i \in 1..4 : in[i] \in {-1, tensor[i]}
                /\ \A o, p \in Concrete(out) : accepts(tensor, o) = accepts(tensor, p)
                /\ given.type = "ocr" => \A o \in Concrete(out) :
                       \A read \in {Models!TimestepMajor(given.layout, o)} :
                           accepts(tensor, o) =>
                               /\ IsInjective(read) /\ Range(read) = 0..(o[2] * o[3] - 1)
                               /\ \A t \in 0..(contract.timesteps - 1) :
                                  \A c \in 0..(contract.classes - 1) :
                                     read[<<t, c>>] = IF given.layout = "bct"
                                                      THEN c * o[3] + t ELSE t * o[3] + c

-----------------------------------------------------------------------------
(* The shapes of plates.                                                   *)

\* Four points of which none lies in the triangle of the others.
InConvexPosition(points) ==
    \A p \in points : \A a, b, c \in points \ {p} :
        Cardinality({a, b, c}) = 3 =>
            LET turns == {Alignment!Cross(a, b, p), Alignment!Cross(b, c, p),
                          Alignment!Cross(c, a, p)}
            IN  (\E t \in turns : t > 0) /\ (\E t \in turns : t < 0)

Clockwise(corners) ==
    \A i, j \in 1..4 : j \notin {i, Alignment!After(i, 1)} =>
        Alignment!Cross(corners[i], corners[Alignment!After(i, 1)], corners[j]) >= 0

\* Twice what the corners enclose, if they run clockwise.
SignedArea(corners) ==
    MapThenSumSet(LAMBDA i : Alignment!Product(corners[i], corners[Alignment!After(i, 1)]), 1..4)

Parallel(corners) ==
    \A axis \in 1..2 : corners[1][axis] + corners[3][axis] = corners[2][axis] + corners[4][axis]

\* order_plate_corners, evaluate and align: the order in which the model reports
\* the corners decides nothing; four points pass as convex exactly if no one lies
\* in the triangle of the others, and then run clockwise round the plate; and an
\* aligned plate is taken from corners that still run clockwise after padding,
\* clamping to the image and a turn to landscape, so it is never shown mirrored.
CornersInOrder ==
    input.of = "corners" /\ Len(input.points) = 4 =>
        LET points == input.points
            sorted == SetToSeq(ToSet(points))
            evaluated(p) == Alignment!Evaluate(GeometryConfig, DetectionOf(p))
            outcomes == Alignment!Align(AlignerConfig, GeometryConfig, AlignedSource,
                                        DetectionOf(points))
        IN  /\ \A ordered \in {Alignment!OrderPlateCorners(points)} :
                   /\ ordered = Alignment!OrderPlateCorners(sorted)
                   /\ ToSet(ordered) = ToSet(points)
                   /\ Alignment!IsConvex(ordered) <=> InConvexPosition(ToSet(points))
                   /\ Alignment!IsConvex(ordered) => Clockwise(ordered)
            /\ \A mine \in {evaluated(points)} :
                   /\ mine = evaluated(sorted)
                   /\ \A e \in mine : \A o \in outcomes :
                          o.of = "aligned" =>
                              /\ SignedArea(o.corners) > 0
                              /\ Parallel(e.ordered_corners) => Clockwise(o.corners)
                              /\ o.width \in AlignerConfig.width.minimum..AlignerConfig.width.maximum
                              /\ o.height \in AlignerConfig.height.minimum
                                               ..AlignerConfig.height.maximum
                   /\ mine = {} => \A o \in outcomes : o.of = "region"

\* CropHypothesisGenerator::generate: the recognizers are given at most
\* maximum_hypotheses crops, no two of the same pixels, each in the image; a crop
\* of the box holds exactly the pixels that the box touches, the padded one those
\* too; the box is left uncropped only if it is too small, is given already, has no
\* place left or is not asked for; and no crop of the box is made of a source the plate fills.
CropsCoverPlate ==
    input.of = "crop" =>
        LET config == input.crop.config
            source == input.crop.source
            box == input.crop.box
            pixels == (0..(source.width - 1)) \X (0..(source.height - 1))
            touched == {p \in pixels :
                           /\ CropUnit * p[1] < box.x + box.width /\ box.x < CropUnit * (p[1] + 1)
                           /\ CropUnit * p[2] < box.y + box.height /\ box.y < CropUnit * (p[2] + 1)
                           /\ box.width > 0 /\ box.height > 0}
            covers(r, p) == /\ p[1] \in r.x..(r.x + r.width - 1)
                            /\ p[2] \in r.y..(r.y + r.height - 1)
            held(r) == {p \in pixels : covers(r, p)}
            small(S) == \/ Cardinality({p[1] : p \in S}) < config.minimum_width
                        \/ Cardinality({p[2] : p \in S}) < config.minimum_height
        IN  \A made \in {PlateCrops!Generate(config, source, box, input.crop.aligned)} :
                /\ Len(made) <= config.maximum_hypotheses
                /\ \A i, j \in DOMAIN made : i # j =>
                       made[i].view.region = {} \/ made[i].view.region # made[j].view.region
                /\ \A i \in DOMAIN made : \A r \in made[i].view.region :
                       /\ r.x + r.width <= source.width /\ r.y + r.height <= source.height
                       /\ made[i].type = "raw_bbox" => held(r) = touched
                       /\ made[i].type = "padded_bbox" => touched \subseteq held(r)
                       /\ ~small(held(r))
                /\ (\E i \in DOMAIN made : made[i].type \in PlateCrops!Kinds)
                       => ~PlateCrops!Dominates(box, source, config)
                /\ \/ PlateCrops!Dominates(box, source, config) \/ small(touched)
                   \/ Len(made) = config.maximum_hypotheses
                   \/ "raw_bbox" \notin ToSet(config.generator_order)
                   \/ \E i \in DOMAIN made : \/ \E r \in made[i].view.region : held(r) = touched
                                             \/ source.plain \/ made[i].view.region = {}

\* ConnectedComponentPlateLayoutAnalyzer::analyze: the order in which components
\* are labelled and specks decide nothing; a reliable layout has two digits of the
\* province, its letters and two to five digits; no other choice of letters has
\* wider gaps, or as wide and fewer letters, and half of the gaps are no wider than
\* the two that part the groups; and a plate whose groups are plainly apart is read.
LayoutSeparatesGroups ==
    input.of = "components" =>
        LET boxes == input.boxes
            characters == CharactersAdded
            n == Len(characters)
            analyzed(b) == Layout!Analyze(LayoutConfig, ComponentPlate, b)
            gap == [i \in 1..(n - 1) |-> characters[i + 1].x - characters[i].x - 3]
            wide(i) == Max({0, gap[i]})
            possible == {l \in 1..3 : n - 2 - l \in 2..5}
            plain(l) == /\ \A i \in DOMAIN gap : gap[i] = IF i \in {2, l + 2} THEN 4 ELSE 1
                        /\ \A c \in ToSet(characters) : c.height = 5
        IN  \A layout \in {analyzed(boxes)} :
                /\ layout = analyzed(Reverse(boxes))
                /\ boxes # <<>> => layout = analyzed(Tail(boxes) \o <<Head(boxes)>>)
                /\ layout.character_count = n
                /\ layout.reliable => \E l \in possible :
                       /\ layout.letter_group_size = {l}
                       /\ \A m \in possible :
                              wide(l + 2) > wide(m + 2) \/ (wide(l + 2) = wide(m + 2) /\ l <= m)
                       /\ 2 * Cardinality({i \in DOMAIN gap : 2 * wide(i) <= wide(2) + wide(l + 2)})
                            >= n - 1
                /\ \A l \in possible :
                       plain(l) => layout.reliable /\ layout.letter_group_size = {l}

InBounds(b, p) ==
    p[1] \in b.x..(b.x + b.width - 1) /\ p[2] \in b.y..(b.y + b.height - 1)

JoinsAllInk(rows, joined) ==
    /\ \A p \in Doubled!Ink(rows, 0, Len(rows)) :
           InBounds(joined.upper, p) # InBounds(joined.lower, p)
    /\ joined.upper.y + joined.upper.height <= joined.lower.y
    /\ joined.lower.y + joined.lower.height <= Len(rows)

\* Nothing but the rows first to last are blank, and all of them may be cut at.
BlankBetween(rows, first, last) ==
    /\ first <= last
    /\ {y \in 0..(Len(rows) - 1) : rows[y + 1] = {}} = first..last
    /\ first..last \subseteq Doubled!SearchRows(RowConfig, rows)

KeepsBandsWhole(rows, joined) ==
    \A first, last \in 0..(Len(rows) - 1) :
        BlankBetween(rows, first, last) =>
            joined.upper.y + joined.upper.height <= first /\ last < joined.lower.y

FitsOutput(joined) ==
    /\ joined.upper_width > 0 /\ joined.lower_width > 0
    /\ joined.upper_width <= joined.lower_x
    /\ joined.lower_x + joined.lower_width = joined.width
    /\ joined.width <= RowConfig.maximum_output_width

\* DoubleRowPlateNormalizer::normalize: a plate is cut where it has least ink, every
\* pixel with ink is in one of the two rows, the upper above the lower, and both have
\* their place in the image they are put side by side in; two bands of ink apart by
\* a blank are never cut through.
RowsKeepInk ==
    input.of = "plate rows" =>
        \A joined \in Doubled!Normalize(RowConfig, PlateWidth, input.rows) :
            /\ JoinsAllInk(input.rows, joined)
            /\ KeepsBandsWhole(input.rows, joined)
            /\ FitsOutput(joined)
==============================================================================
