--------------------------- MODULE Algorithms_proofs ---------------------------
(***************************************************************************)
(* Proofs about the pure algorithms.  Their inputs are values of any size: *)
(* what a component computes is shown for every value of its type, and     *)
(* then that the inputs of every behaviour are of that type.               *)
(***************************************************************************)
EXTENDS Algorithms, CountsAndSums, SequenceTheorems, FunctionTheorems, TLAPS

-----------------------------------------------------------------------------
(* The inputs.                                                             *)

\* What the first inputs of each algorithm are.
FirstInputs ==
    /\ input.of = "text" => input.text = <<>>
    /\ input.of = "tiles" =>
           /\ input.extent \in 1..MaxExtent /\ input.whole = <<>>
           /\ input.found = [i \in DOMAIN AxisOrigins(input.extent, tile_width) |-> <<>>]
    /\ input.of = "detections" => input.detections = <<>>
    /\ input.of = "crops" => input.crops = <<>>
    /\ input.of = "letterbox" => input.box \in Letterboxes
    /\ input.of = "tensor" => input.shape \in TensorShapes /\ input.color_order \in ColorOrders
    /\ input.of = "contract" => input.contract \in Contracts
    /\ input.of = "candidates" => input.spec \in OutputSpecs /\ input.rows = <<>>
    /\ input.of = "corners" => input.points = <<>>
    /\ input.of = "crop" => input.crop \in CropInputs
    /\ input.of = "components" => input.boxes \in {<<>>, <<Speck>>}
    /\ input.of = "plate rows" => input.rows = <<>>

LEMMA InitIsFirst == Init => FirstInputs
<1> SUFFICES ASSUME Init PROVE FirstInputs
    OBVIOUS
<1>1. CASE input = [of |-> "view"]
    BY <1>1 DEF FirstInputs
<1>2. CASE Inputs
  <2>1. CASE input = [of |-> "text", text |-> <<>>]
      BY <2>1 DEF FirstInputs
  <2>2. ASSUME NEW extent \in 1..MaxExtent,
               input = [of |-> "tiles", extent |-> extent, whole |-> <<>>,
                        found |-> [i \in DOMAIN AxisOrigins(extent, tile_width) |-> <<>>]]
        PROVE  FirstInputs
      BY <2>2 DEF FirstInputs
  <2>3. CASE input = [of |-> "detections", detections |-> <<>>]
      BY <2>3 DEF FirstInputs
  <2>4. CASE input = [of |-> "rows", rows |-> <<>>]
      BY <2>4 DEF FirstInputs
  <2>5. CASE input = [of |-> "crops", crops |-> <<>>]
      BY <2>5 DEF FirstInputs
  <2>6. ASSUME NEW s \in BOOLEAN,
               input = [of |-> "result", parts |-> 0,
                        result |-> [sound |-> s, recognitions |-> <<>>]]
        PROVE  FirstInputs
      BY <2>6 DEF FirstInputs
  <2>7. ASSUME NEW l \in Letterboxes, input = [of |-> "letterbox", box |-> l]
        PROVE  FirstInputs
      BY <2>7 DEF FirstInputs
  <2>8. ASSUME NEW shape \in TensorShapes, NEW order \in ColorOrders,
               input = [of |-> "tensor", shape |-> shape, color_order |-> order]
        PROVE  FirstInputs
      BY <2>8 DEF FirstInputs
  <2>9. ASSUME NEW c \in Contracts, input = [of |-> "contract", contract |-> c]
        PROVE  FirstInputs
      BY <2>9 DEF FirstInputs
  <2>10. ASSUME NEW spec \in OutputSpecs,
                input = [of |-> "candidates", spec |-> spec, rows |-> <<>>]
         PROVE  FirstInputs
      BY <2>10 DEF FirstInputs
  <2>11. CASE input = [of |-> "corners", points |-> <<>>]
      BY <2>11 DEF FirstInputs
  <2>12. ASSUME NEW c \in CropInputs, input = [of |-> "crop", crop |-> c]
         PROVE  FirstInputs
      BY <2>12 DEF FirstInputs
  <2>13. ASSUME NEW specks \in {<<>>, <<Speck>>},
                input = [of |-> "components", boxes |-> specks]
         PROVE  FirstInputs
      BY <2>13 DEF FirstInputs
  <2>14. CASE input = [of |-> "plate rows", rows |-> <<>>]
      BY <2>14 DEF FirstInputs
  <2> HIDE DEF FirstInputs
  <2> QED BY <1>2, <2>1, <2>2, <2>3, <2>4, <2>5, <2>6, <2>7, <2>8, <2>9, <2>10, <2>11,
             <2>12, <2>13, <2>14 DEF Inputs
<1> QED BY <1>1, <1>2 DEF Init

\* How a step makes the input of each algorithm longer.
NextInputs ==
    /\ input'.of = "text" =>
           input.of = "text" /\ \E c \in ProvinceCodes \cup TailCodes :
               input'.text = Append(input.text, c)
    /\ input'.of = "tiles" =>
           /\ input.of = "tiles" /\ input'.extent = input.extent
           /\ \E d \in FoundBoxes :
                  \/ input'.whole = Append(input.whole, d) /\ input'.found = input.found
                  \/ /\ input'.whole = input.whole
                     /\ \E i \in DOMAIN input.found :
                            input'.found = [input.found EXCEPT ![i] = Append(@, d)]
    /\ input'.of = "detections" =>
           input.of = "detections" /\ \E d \in Detections :
               input'.detections = Append(input.detections, d)
    /\ input'.of = "crops" =>
           input.of = "crops" /\ \E c \in CropsRead : input'.crops = Append(input.crops, c)
    /\ input'.of = "candidates" =>
           /\ input.of = "candidates" /\ input'.spec = input.spec
           /\ \E r \in CandidateRows : input'.rows = Append(input.rows, r)
    /\ input'.of = "corners" =>
           input.of = "corners" /\ \E p \in CornerPoints : input'.points = Append(input.points, p)
    /\ input'.of = "plate rows" =>
           input.of = "plate rows" /\ \E r \in PlateRows : input'.rows = Append(input.rows, r)
    /\ input'.of \notin {"letterbox", "tensor", "contract", "crop"}

LEMMA StepIsNext == [Next]_<<input, viewsVars>> => NextInputs \/ input' = input
<1> SUFFICES ASSUME [Next]_<<input, viewsVars>>, input' # input PROVE NextInputs
    OBVIOUS
<1>1. CASE AddCharacter
  <2>1. PICK c \in ProvinceCodes \cup TailCodes :
            input' = [of |-> "text", text |-> Append(input.text, c)]
      BY <1>1 DEF AddCharacter
  <2>2. input.of = "text"
      BY <1>1 DEF AddCharacter
  <2> QED BY <2>1, <2>2 DEF NextInputs
<1>2. CASE AddFoundBox
  <2>1. PICK d \in FoundBoxes :
            \/ input' = TilesFound(Append(input.whole, d), input.found)
            \/ \E i \in DOMAIN input.found :
                   input' = TilesFound(input.whole, [input.found EXCEPT ![i] = Append(@, d)])
      BY <1>2 DEF AddFoundBox
  <2>2. input.of = "tiles"
      BY <1>2 DEF AddFoundBox
  <2>3. CASE input' = TilesFound(Append(input.whole, d), input.found)
      BY <2>2, <2>3 DEF NextInputs, TilesFound
  <2>4. ASSUME NEW i \in DOMAIN input.found,
               input' = TilesFound(input.whole, [input.found EXCEPT ![i] = Append(@, d)])
        PROVE  NextInputs
      BY <2>2, <2>4 DEF NextInputs, TilesFound
  <2> HIDE DEF NextInputs
  <2> QED BY <2>1, <2>3, <2>4
<1>3. CASE AddDetection
  <2>1. PICK d \in Detections :
            input' = [of |-> "detections", detections |-> Append(input.detections, d)]
      BY <1>3 DEF AddDetection
  <2>2. input.of = "detections"
      BY <1>3 DEF AddDetection
  <2> QED BY <2>1, <2>2 DEF NextInputs
<1>4. CASE AddTimestep
  <2>1. PICK r \in Rows : input' = [of |-> "rows", rows |-> Append(input.rows, r)]
      BY <1>4 DEF AddTimestep
  <2> QED BY <2>1 DEF NextInputs
<1>5. CASE AddCrop
  <2>1. PICK c \in CropsRead : input' = [of |-> "crops", crops |-> Append(input.crops, c)]
      BY <1>5 DEF AddCrop
  <2>2. input.of = "crops"
      BY <1>5 DEF AddCrop
  <2> QED BY <2>1, <2>2 DEF NextInputs
<1>6. CASE AddPart
  <2>1. input'.of = "result"
      BY <1>6 DEF AddPart
  <2> QED BY <2>1 DEF NextInputs
<1>7. CASE AddRow
  <2>1. PICK r \in CandidateRows :
            input' = [of |-> "candidates", spec |-> input.spec, rows |-> Append(input.rows, r)]
      BY <1>7 DEF AddRow
  <2>2. input.of = "candidates"
      BY <1>7 DEF AddRow
  <2> QED BY <2>1, <2>2 DEF NextInputs
<1>8. CASE AddCorner
  <2>1. PICK p \in CornerPoints : input' = [of |-> "corners", points |-> Append(input.points, p)]
      BY <1>8 DEF AddCorner
  <2>2. input.of = "corners"
      BY <1>8 DEF AddCorner
  <2> QED BY <2>1, <2>2 DEF NextInputs
<1>9. CASE AddComponent
  <2>1. input'.of = "components"
      BY <1>9 DEF AddComponent
  <2> QED BY <2>1 DEF NextInputs
<1>10. CASE AddPlateRow
  <2>1. PICK r \in PlateRows : input' = [of |-> "plate rows", rows |-> Append(input.rows, r)]
      BY <1>10 DEF AddPlateRow
  <2>2. input.of = "plate rows"
      BY <1>10 DEF AddPlateRow
  <2> QED BY <2>1, <2>2 DEF NextInputs
<1> HIDE DEF NextInputs
<1> QED BY <1>1, <1>2, <1>3, <1>4, <1>5, <1>6, <1>7, <1>8, <1>9, <1>10 DEF Next

-----------------------------------------------------------------------------
(* Views: products and the checked arithmetic.                             *)

\* A product grows with its first factor.
LEMMA Monotone ==
    ASSUME NEW a \in Nat, NEW b \in Nat, NEW c \in Nat, a <= b
    PROVE  a * c \in Nat /\ a * c <= b * c
<1>1. b = a + (b - a) /\ b - a \in Nat
    OBVIOUS
<1>2. (a + (b - a)) * c = a * c + (b - a) * c
    OBVIOUS
<1>3. a * c \in Nat /\ (b - a) * c \in Nat
    BY <1>1
<1> QED BY <1>1, <1>2, <1>3

\* The comparison with a quotient is one with a product.
LEMMA QuotientBounds ==
    ASSUME NEW a \in Nat \ {0}, NEW b \in Nat, NEW m \in Nat
    PROVE  b > m \div a <=> a * b > m
<1> DEFINE q == m \div a
           r == m % a
<1>1. q \in Nat /\ r \in 0..(a - 1) /\ m = a * q + r
    OBVIOUS
<1> HIDE DEF q, r
<1>2. CASE b <= q
  <2>1. b * a <= q * a
      BY <1>1, <1>2, Monotone
  <2>2. b * a = a * b /\ q * a = a * q
      BY <1>1
  <2> QED BY <1>1, <1>2, <2>1, <2>2 DEF q
<1>3. CASE q + 1 <= b
  <2>1. (q + 1) * a <= b * a
      BY <1>1, <1>3, Monotone
  <2>2. b * a = a * b /\ (q + 1) * a = a * q + a
      BY <1>1
  <2> QED BY <1>1, <1>3, <2>1, <2>2 DEF q
<1> QED BY <1>1, <1>2, <1>3

\* checked_add.
LEMMA AddIs ==
    ASSUME NEW a \in SizeT, NEW b \in SizeT
    PROVE  CheckedAdd(a, b) = IF a + b <= size_max THEN {a + b} ELSE {}
BY SizeAssumption DEF CheckedAdd, SizeT

\* checked_multiply.
LEMMA MultiplyIs ==
    ASSUME NEW a \in SizeT, NEW b \in Nat
    PROVE  /\ a * b \in Nat
           /\ CheckedMultiply(a, b) = IF a * b <= size_max THEN {a * b} ELSE {}
<1>1. a \in Nat /\ b \in Nat /\ size_max \in Nat
    BY SizeAssumption DEF SizeT
<1>2. CASE a = 0
  <2>1. a * b = 0
      BY <1>1, <1>2
  <2> QED BY <1>1, <1>2, <2>1 DEF CheckedMultiply
<1>3. CASE a # 0
  <2>1. b > size_max \div a <=> a * b > size_max
      BY <1>1, <1>3, QuotientBounds
  <2>2. a * b \in Nat
      BY <1>1
  <2>3. a * b > size_max <=> ~(a * b <= size_max)
      BY <1>1, <2>2
  <2> QED BY <1>3, <2>1, <2>2, <2>3, Zenon DEF CheckedMultiply
<1> QED BY <1>2, <1>3

\* The arithmetic of an extent, for validate_image, crop_bytes and copy_crop.
LEMMA ExtentIs ==
    ASSUME NEW s \in SizeT, NEW h \in SizeT \ {0}, NEW row \in SizeT
    PROVE  /\ (h - 1) * s \in Nat
           /\ StridedExtent(s, h, row) =
                  IF (h - 1) * s + row <= size_max THEN {(h - 1) * s + row} ELSE {}
<1> DEFINE tail == s * (h - 1)
<1>1. s \in Nat /\ h - 1 \in Nat /\ row \in Nat /\ size_max \in Nat
    BY SizeAssumption DEF SizeT
<1>2. /\ tail \in Nat
      /\ CheckedMultiply(s, h - 1) = IF tail <= size_max THEN {tail} ELSE {}
    BY <1>1, MultiplyIs
<1>3. tail = (h - 1) * s
    BY <1>1
<1> HIDE DEF tail
<1>4. CASE tail <= size_max
  <2>1. CheckedAdd(tail, row) = IF tail + row <= size_max THEN {tail + row} ELSE {}
      BY <1>1, <1>2, <1>4, AddIs DEF SizeT
  <2>2. StridedExtent(s, h, row) = CheckedAdd(tail, row)
      BY <1>2, <1>4, Zenon DEF StridedExtent
  <2> QED BY <1>2, <1>3, <2>1, <2>2
<1>5. CASE ~(tail <= size_max)
  <2>1. StridedExtent(s, h, row) = {}
      BY <1>2, <1>5, Zenon DEF StridedExtent
  <2>2. ~(tail + row <= size_max)
      BY <1>1, <1>2, <1>5
  <2> QED BY <1>2, <1>3, <2>1, <2>2
<1> QED BY <1>4, <1>5

-----------------------------------------------------------------------------
(* Views and regions.                                                      *)

\* What is said of a view the caller hands in.
IsView(v) ==
    /\ v = [offset |-> v.offset, bytes |-> v.bytes, width |-> v.width,
            height |-> v.height, stride |-> v.stride, channels |-> v.channels]
    /\ v.offset \in Nat /\ v.channels \in {1, 3}
    /\ v.bytes \in SizeT /\ v.width \in SizeT /\ v.height \in SizeT /\ v.stride \in SizeT

IsRegion(r) == r \in [x : SizeT, y : SizeT, width : SizeT, height : SizeT]

\* Its rows lie in its buffer.
Sound(v) ==
    /\ IsView(v) /\ v.width # 0 /\ v.height # 0
    /\ RowBytes(v) <= v.stride /\ Extent(v) <= v.bytes

\* The sizes of a view are natural numbers.
LEMMA ViewNumbers ==
    ASSUME NEW v, IsView(v), v.height # 0
    PROVE  /\ v.width \in Nat /\ v.height - 1 \in Nat /\ v.stride \in Nat /\ v.channels \in Nat
           /\ RowBytes(v) \in Nat /\ (v.height - 1) * v.stride \in Nat /\ Extent(v) \in Nat
<1>1. v.width \in Nat /\ v.height - 1 \in Nat /\ v.stride \in Nat /\ v.channels \in Nat
    BY SizeAssumption DEF IsView, SizeT
<1>2. v.width * v.channels \in Nat /\ (v.height - 1) * v.stride \in Nat
    BY <1>1
<1> QED BY <1>1, <1>2 DEF RowBytes, Extent

\* validate_image accepts what it should.
LEMMA AcceptedIs ==
    ASSUME NEW v, IsView(v)
    PROVE  AcceptedIfInside(v)
<1> USE SizeAssumption
<1> DEFINE Sized == v.width \in 1..max_image_width /\ v.height \in 1..max_image_height
<1>1. CASE ~Sized
    BY <1>1 DEF AcceptedIfInside, Validates
<1>2. CASE Sized
  <2>1. /\ v.width \in SizeT \ {0} /\ v.height \in SizeT \ {0} /\ v.stride \in SizeT
        /\ v.bytes \in SizeT /\ v.channels \in Nat \ {0} /\ size_max \in Nat
      BY <1>2 DEF IsView, SizeT
  <2>2. /\ RowBytes(v) \in Nat
        /\ CheckedMultiply(v.width, v.channels) =
               IF RowBytes(v) <= size_max THEN {RowBytes(v)} ELSE {}
      BY <2>1, MultiplyIs DEF RowBytes
  <2>3. RowBytes(v) # 0
    <3>1. 1 * v.channels <= v.width * v.channels
        BY <2>1, Monotone DEF SizeT
    <3> QED BY <2>1, <3>1 DEF RowBytes
  <2>4. Extent(v) = (v.height - 1) * v.stride + RowBytes(v) /\ (v.height - 1) * v.stride \in Nat
      BY <2>1, <2>2, ViewNumbers DEF Extent
  <2>5. CASE RowBytes(v) <= size_max
    <3>1. StridedExtent(v.stride, v.height, RowBytes(v)) =
              IF Extent(v) <= size_max THEN {Extent(v)} ELSE {}
      <4>1. RowBytes(v) \in SizeT
          BY <2>1, <2>2, <2>5 DEF SizeT
      <4>2. /\ v.stride \in SizeT /\ v.height \in SizeT \ {0}
            /\ Extent(v) = (v.height - 1) * v.stride + RowBytes(v)
          BY <2>1, <2>4
      <4> QED BY ONLY <4>1, <4>2, ExtentIs
    <3>2. Validates(v) <=>
              /\ v.bytes \in 1..max_image_bytes /\ v.stride >= RowBytes(v)
              /\ Extent(v) <= size_max /\ Extent(v) <= v.bytes /\ Extent(v) <= max_image_bytes
        BY <1>2, <2>2, <2>5, <3>1, Zenon DEF Validates
    <3> HIDE DEF Sized
    <3>3. Extent(v) \in Nat /\ Extent(v) # 0
        BY <2>2, <2>3, <2>4
    <3>4. Validates(v) <=>
              /\ v.bytes <= max_image_bytes
              /\ RowBytes(v) <= v.stride /\ Extent(v) <= v.bytes
        BY <2>1, <2>2, <3>2, <3>3 DEF SizeT
    <3> QED BY <1>2, <3>4, Zenon DEF AcceptedIfInside, Sized
  <2>6. CASE ~(RowBytes(v) <= size_max)
    <3>1. ~Validates(v)
        BY <2>2, <2>6 DEF Validates
    <3>2. ~(RowBytes(v) <= v.stride)
        BY <2>1, <2>2, <2>6 DEF SizeT
    <3> QED BY <3>1, <3>2 DEF AcceptedIfInside
  <2> QED BY <2>5, <2>6
<1> QED BY <1>1, <1>2

\* What was validated is sound, and what is sound and within the limits would be.
LEMMA ValidIsSound ==
    ASSUME NEW v, IsView(v)
    PROVE  /\ Validates(v) => Sound(v)
           /\ /\ Sound(v)
              /\ v.width <= max_image_width /\ v.height <= max_image_height
              /\ v.bytes <= max_image_bytes
              => Validates(v)
           /\ Validates(v) => /\ v.width <= max_image_width /\ v.height <= max_image_height
                              /\ v.bytes <= max_image_bytes
<1>1. AcceptedIfInside(v)
    BY AcceptedIs
<1>2. v.width \in Nat /\ v.height \in Nat /\ max_image_width \in Nat /\ max_image_height \in Nat
    BY SizeAssumption DEF IsView, SizeT
<1> QED BY <1>1, <1>2 DEF AcceptedIfInside, Sound

-----------------------------------------------------------------------------
(* Crops.                                                                  *)

\* validate_region refuses what does not lie in the view.
LEMMA RegionIs ==
    ASSUME NEW v, IsView(v), NEW r, IsRegion(r)
    PROVE  RegionInside(v.width, v.height, r) <=> Within(r, v)
<1>1. /\ r.x \in SizeT /\ r.y \in SizeT /\ r.width \in SizeT /\ r.height \in SizeT
      /\ v.width \in SizeT /\ v.height \in SizeT /\ size_max \in Nat
    BY SizeAssumption DEF IsRegion, IsView
<1>2. (\E right \in CheckedAdd(r.x, r.width) : right <= v.width) <=> r.x + r.width <= v.width
    BY <1>1, AddIs DEF SizeT
<1>3. (\E b \in CheckedAdd(r.y, r.height) : b <= v.height) <=> r.y + r.height <= v.height
    BY <1>1, AddIs DEF SizeT
<1> QED BY <1>1, <1>2, <1>3 DEF RegionInside, Within, SizeT

\* Where a region begins in a view, and the bytes from there to its last pixel.
Skipped(v, r) == r.y * v.stride + r.x * v.channels
Spanned(v, r) == (r.height - 1) * v.stride + r.width * v.channels

\* A region that lies in a view ends no later than the view.
LEMMA RegionSpan ==
    ASSUME NEW v, IsView(v), v.height # 0, NEW r, IsRegion(r), Within(r, v)
    PROVE  /\ r.y * v.stride \in Nat /\ r.x * v.channels \in Nat
           /\ (r.height - 1) * v.stride \in Nat /\ r.width * v.channels \in Nat
           /\ Skipped(v, r) + Spanned(v, r) <= Extent(v)
           /\ r.width * v.channels <= RowBytes(v)
<1>1. /\ r.x \in Nat /\ r.y \in Nat /\ r.width \in Nat /\ r.height - 1 \in Nat
      /\ v.width \in Nat /\ v.height - 1 \in Nat /\ v.stride \in Nat /\ v.channels \in Nat
      /\ r.height \in Nat /\ v.height \in Nat
    BY ViewNumbers, SizeAssumption DEF IsRegion, IsView, Within, SizeT
<1>2. /\ r.y * v.stride \in Nat /\ r.x * v.channels \in Nat
      /\ (r.height - 1) * v.stride \in Nat /\ r.width * v.channels \in Nat
    BY <1>1
<1>3. (r.y + (r.height - 1)) * v.stride <= (v.height - 1) * v.stride
  <2>1. r.y + (r.height - 1) <= v.height - 1
      BY <1>1 DEF Within
  <2> QED BY <1>1, <2>1, Monotone
<1>4. (r.x + r.width) * v.channels <= v.width * v.channels
    BY <1>1, Monotone DEF Within
<1>5. /\ (r.y + (r.height - 1)) * v.stride = r.y * v.stride + (r.height - 1) * v.stride
      /\ (r.x + r.width) * v.channels = r.x * v.channels + r.width * v.channels
    BY <1>1
<1>6. /\ (v.height - 1) * v.stride \in Nat /\ v.width * v.channels \in Nat
    BY <1>1
<1> DEFINE ys == r.y * v.stride
           xs == r.x * v.channels
           hs == (r.height - 1) * v.stride
           ws == r.width * v.channels
           tail == (v.height - 1) * v.stride
           row == v.width * v.channels
<1>7. /\ Skipped(v, r) = ys + xs /\ Spanned(v, r) = hs + ws
      /\ Extent(v) = tail + row /\ RowBytes(v) = row
    BY DEF Skipped, Spanned, Extent, RowBytes
<1>8. /\ ys \in Nat /\ xs \in Nat /\ hs \in Nat /\ ws \in Nat /\ tail \in Nat /\ row \in Nat
      /\ ys + hs <= tail /\ xs + ws <= row
    BY <1>2, <1>3, <1>4, <1>5, <1>6
<1> HIDE DEF ys, xs, hs, ws, tail, row
<1>9. /\ Skipped(v, r) + Spanned(v, r) <= Extent(v) /\ ws <= RowBytes(v)
    BY <1>7, <1>8
<1> QED BY <1>2, <1>9 DEF ws

\* crop_bytes: there is room for every region that lies in a sound view.
LEMMA CropBytesIs ==
    ASSUME NEW v, Sound(v), NEW r, IsRegion(r), Within(r, v)
    PROVE  CropBytes(v, r) = {<<Skipped(v, r), Spanned(v, r)>>}
<1> DEFINE ys == r.y * v.stride
           xs == r.x * v.channels
           hs == (r.height - 1) * v.stride
           ws == r.width * v.channels
<1>1. /\ ys \in Nat /\ xs \in Nat /\ hs \in Nat /\ ws \in Nat
      /\ ys + xs + (hs + ws) <= Extent(v)
      /\ Skipped(v, r) = ys + xs /\ Spanned(v, r) = hs + ws
    BY RegionSpan DEF Sound, Skipped, Spanned
<1>2. Extent(v) \in Nat /\ Extent(v) <= v.bytes /\ v.bytes \in SizeT /\ size_max \in Nat
    BY ViewNumbers, SizeAssumption DEF Sound, IsView
<1>3. /\ r.x \in SizeT /\ r.y \in SizeT /\ r.width \in SizeT /\ r.height \in SizeT \ {0}
      /\ v.stride \in SizeT /\ v.stride \in Nat /\ v.channels \in Nat
    BY ViewNumbers, SizeAssumption DEF IsRegion, Within, Sound, IsView, SizeT
<1>4. CheckedMultiply(r.y, v.stride) = IF ys <= size_max THEN {ys} ELSE {}
    BY <1>3, MultiplyIs
<1>5. CheckedMultiply(r.x, v.channels) = IF xs <= size_max THEN {xs} ELSE {}
    BY <1>3, MultiplyIs
<1>6. CheckedMultiply(r.width, v.channels) = IF ws <= size_max THEN {ws} ELSE {}
    BY <1>3, MultiplyIs
<1>6a. ws \in SizeT => StridedExtent(v.stride, r.height, ws) =
                           IF hs + ws <= size_max THEN {hs + ws} ELSE {}
    BY <1>3, ExtentIs
<1> HIDE DEF ys, xs, hs, ws
<1>7. /\ ys \in SizeT /\ xs \in SizeT /\ ws \in SizeT
      /\ ys + xs <= size_max /\ hs + ws <= size_max
      /\ ys + xs <= v.bytes /\ hs + ws <= v.bytes - (ys + xs)
    BY <1>1, <1>2 DEF SizeT
<1>8. CheckedAdd(ys, xs) = {ys + xs}
    BY <1>7, AddIs
<1>9. UNION {CheckedAdd(y, x) : y \in CheckedMultiply(r.y, v.stride),
                                x \in CheckedMultiply(r.x, v.channels)} = {ys + xs}
  <2>1. CheckedMultiply(r.y, v.stride) = {ys} /\ CheckedMultiply(r.x, v.channels) = {xs}
      BY <1>4, <1>5, <1>7 DEF SizeT
  <2>2. {CheckedAdd(y, x) : y \in {ys}, x \in {xs}} = {CheckedAdd(ys, xs)}
      OBVIOUS
  <2>3. UNION {CheckedAdd(ys, xs)} = CheckedAdd(ys, xs)
      OBVIOUS
  <2> QED BY <1>8, <2>1, <2>2, <2>3
<1>10. UNION {StridedExtent(v.stride, r.height, row) :
                  row \in CheckedMultiply(r.width, v.channels)} = {hs + ws}
  <2>1. CheckedMultiply(r.width, v.channels) = {ws}
      BY <1>6, <1>7 DEF SizeT
  <2>2. StridedExtent(v.stride, r.height, ws) = {hs + ws}
      BY <1>6a, <1>7
  <2> QED BY <2>1, <2>2, Zenon
<1>11. CropBytes(v, r) =
           {b \in {<<ys + xs, hs + ws>>} : b[1] <= v.bytes /\ b[2] <= v.bytes - b[1]}
  <2>1. {<<offset, required>> : offset \in {ys + xs}, required \in {hs + ws}}
            = {<<ys + xs, hs + ws>>}
      OBVIOUS
  <2> QED BY <1>9, <1>10, <2>1 DEF CropBytes
<1> QED BY <1>1, <1>7, <1>11

\* The crop of a view.
Cropped(v, r) ==
    [offset |-> v.offset + Skipped(v, r), bytes |-> Spanned(v, r), width |-> r.width,
     height |-> r.height, stride |-> v.stride, channels |-> v.channels]

\* make_crop_view.
LEMMA CropIs ==
    ASSUME NEW v, Sound(v), NEW r, IsRegion(r)
    PROVE  MakeCropView(v, r) = IF Within(r, v) THEN {Cropped(v, r)} ELSE {}
<1>1. RegionInside(v.width, v.height, r) <=> Within(r, v)
    BY RegionIs DEF Sound
<1>2. CASE Within(r, v)
  <2>1. CropBytes(v, r) = {<<Skipped(v, r), Spanned(v, r)>>}
      BY <1>2, CropBytesIs
  <2> DEFINE a == Skipped(v, r)
             b == Spanned(v, r)
  <2>2. MakeCropView(v, r) =
            {[offset |-> v.offset + c[1], bytes |-> c[2], width |-> r.width,
              height |-> r.height, stride |-> v.stride, channels |-> v.channels] :
                c \in {<<a, b>>}}
      BY <1>1, <1>2, <2>1 DEF MakeCropView
  <2> HIDE DEF a, b
  <2>3. MakeCropView(v, r) =
            {[offset |-> v.offset + a, bytes |-> b, width |-> r.width,
              height |-> r.height, stride |-> v.stride, channels |-> v.channels]}
      BY <2>2
  <2> QED BY <1>2, <2>3 DEF Cropped, a, b
<1>3. CASE ~Within(r, v)
    BY <1>1, <1>3 DEF MakeCropView
<1> QED BY <1>2, <1>3

\* A crop of a sound view is sound, and of a validated one valid.
LEMMA CroppedIsSound ==
    ASSUME NEW v, Sound(v), NEW r, IsRegion(r), Within(r, v)
    PROVE  /\ Sound(Cropped(v, r))
           /\ Validates(v) => Validates(Cropped(v, r))
<1> DEFINE c == Cropped(v, r)
<1>1. /\ c.offset = v.offset + Skipped(v, r) /\ c.bytes = Spanned(v, r) /\ c.width = r.width
      /\ c.height = r.height /\ c.stride = v.stride /\ c.channels = v.channels
    BY DEF Cropped
<1>2. /\ Skipped(v, r) \in Nat /\ Spanned(v, r) \in Nat
      /\ Skipped(v, r) + Spanned(v, r) <= Extent(v)
      /\ r.width * v.channels <= RowBytes(v)
  <2>1. /\ r.y * v.stride \in Nat /\ r.x * v.channels \in Nat
        /\ (r.height - 1) * v.stride \in Nat /\ r.width * v.channels \in Nat
        /\ Skipped(v, r) + Spanned(v, r) <= Extent(v) /\ r.width * v.channels <= RowBytes(v)
      BY RegionSpan DEF Sound
  <2> DEFINE ys == r.y * v.stride
             xs == r.x * v.channels
             hs == (r.height - 1) * v.stride
             ws == r.width * v.channels
  <2>2. Skipped(v, r) = ys + xs /\ Spanned(v, r) = hs + ws
      BY DEF Skipped, Spanned
  <2>3. ys \in Nat /\ xs \in Nat /\ hs \in Nat /\ ws \in Nat
      BY <2>1
  <2> HIDE DEF ys, xs, hs, ws
  <2> QED BY <2>1, <2>2, <2>3
<1>3. /\ IsView(v) /\ Extent(v) \in Nat /\ Extent(v) <= v.bytes /\ RowBytes(v) <= v.stride
      /\ RowBytes(v) \in Nat /\ v.bytes \in Nat /\ v.bytes <= size_max /\ v.stride \in Nat
      /\ v.offset \in Nat
    BY ViewNumbers, SizeAssumption DEF Sound, IsView, SizeT
<1>4. IsView(c)
  <2>1. c = [offset |-> c.offset, bytes |-> c.bytes, width |-> c.width,
             height |-> c.height, stride |-> c.stride, channels |-> c.channels]
      BY <1>1 DEF Cropped
  <2>2. c.offset \in Nat /\ c.bytes \in SizeT
      BY <1>1, <1>2, <1>3, SizeAssumption DEF SizeT
  <2>3. /\ c.width \in SizeT /\ c.height \in SizeT /\ c.stride \in SizeT
        /\ c.channels \in {1, 3}
      BY <1>1, <1>3 DEF IsView, IsRegion
  <2> HIDE DEF c
  <2> QED BY <2>1, <2>2, <2>3 DEF IsView
<1>5. RowBytes(c) = r.width * v.channels /\ Extent(c) = Spanned(v, r)
    BY <1>1 DEF RowBytes, Extent, Spanned
<1>6. r.width \in Nat \ {0} /\ r.height \in Nat \ {0}
    BY SizeAssumption DEF IsRegion, Within, SizeT
<1> HIDE DEF c
<1>7. RowBytes(c) \in Nat
    BY <1>1, <1>4, <1>6, ViewNumbers
<1>8. Sound(c)
    BY <1>1, <1>2, <1>3, <1>4, <1>5, <1>6, <1>7 DEF Sound
<1>9. ASSUME Validates(v) PROVE Validates(c)
  <2>1. /\ v.width <= max_image_width /\ v.height <= max_image_height
        /\ v.bytes <= max_image_bytes
      BY <1>3, <1>9, ValidIsSound
  <2>2. /\ r.width <= v.width /\ r.height <= v.height
        /\ v.width \in Nat /\ v.height \in Nat /\ Spanned(v, r) <= v.bytes
    <3>1. r.x \in Nat /\ r.y \in Nat /\ v.width \in Nat /\ v.height \in Nat
        BY <1>3, SizeAssumption DEF IsRegion, IsView, SizeT
    <3> QED BY <1>2, <1>3, <1>6, <3>1 DEF Within
  <2>3. /\ max_image_width \in Nat /\ max_image_height \in Nat /\ max_image_bytes \in Nat
      BY SizeAssumption
  <2>4. /\ c.width <= max_image_width /\ c.height <= max_image_height
        /\ c.bytes <= max_image_bytes
      BY <1>1, <1>2, <1>3, <1>6, <2>1, <2>2, <2>3
  <2> QED BY <1>4, <1>8, <2>4, ValidIsSound
<1> QED BY <1>8, <1>9 DEF c

\* The part of an image a view shows that begins at a given place.
Frame(at, v) == [x |-> at[1], y |-> at[2], width |-> v.width, height |-> v.height]

\* The view is the image, as far as it lies in that frame.
Part(whole, at, v) ==
    /\ IsRegion(Frame(at, v)) /\ Within(Frame(at, v), whole)
    /\ v.stride = whole.stride /\ v.channels = whole.channels
    /\ v.offset = whole.offset + Skipped(whole, Frame(at, v))

\* A region of a part, moved to where the part begins, is a region of the whole.
LEMMA ShiftedIs ==
    ASSUME NEW whole, IsView(whole), NEW v, NEW at, Part(whole, at, v),
           NEW r, IsRegion(r), Within(r, v)
    PROVE  /\ IsRegion(Shifted(r, at)) /\ Within(Shifted(r, at), whole)
           /\ at[1] \in Nat /\ at[2] \in Nat
<1> DEFINE s == Shifted(r, at)
<1>1. s = [x |-> r.x + at[1], y |-> r.y + at[2], width |-> r.width, height |-> r.height]
    BY DEF Shifted
<1>2. s.x = r.x + at[1] /\ s.y = r.y + at[2] /\ s.width = r.width /\ s.height = r.height
    BY <1>1
<1>3. /\ r.x \in Nat /\ r.y \in Nat /\ r.width \in Nat \ {0} /\ r.height \in Nat \ {0}
      /\ at[1] \in Nat /\ at[2] \in Nat /\ v.width \in Nat /\ v.height \in Nat
      /\ r.x + r.width <= v.width /\ r.y + r.height <= v.height
      /\ at[1] + v.width <= whole.width /\ at[2] + v.height <= whole.height
      /\ whole.width \in Nat /\ whole.height \in Nat
      /\ whole.width <= size_max /\ whole.height <= size_max /\ size_max \in Nat
  <2>1. /\ Frame(at, v).x = at[1] /\ Frame(at, v).y = at[2]
        /\ Frame(at, v).width = v.width /\ Frame(at, v).height = v.height
      BY DEF Frame
  <2>2. IsRegion(Frame(at, v)) /\ Within(Frame(at, v), whole)
      BY DEF Part
  <2> QED BY <2>1, <2>2, SizeAssumption DEF IsRegion, IsView, Within, SizeT
<1> HIDE DEF s
<1>4. s \in [x : SizeT, y : SizeT, width : SizeT, height : SizeT]
  <2>1. r.x + at[1] \in SizeT /\ r.y + at[2] \in SizeT /\ r.width \in SizeT /\ r.height \in SizeT
      BY <1>3 DEF SizeT
  <2> QED BY <1>1, <2>1
<1>5. Within(s, whole)
    BY <1>2, <1>3 DEF Within
<1> QED BY <1>3, <1>4, <1>5 DEF s, IsRegion

\* The crop of a part is the crop of the whole, and a part itself.
LEMMA PartOfPart ==
    ASSUME NEW whole, Sound(whole), NEW v, NEW at, Part(whole, at, v),
           NEW r, IsRegion(r), Within(r, v)
    PROVE  /\ Cropped(whole, Shifted(r, at)) = Cropped(v, r)
           /\ Part(whole, <<at[1] + r.x, at[2] + r.y>>, Cropped(v, r))
<1> DEFINE s == Shifted(r, at)
           c == Cropped(v, r)
           p == <<at[1] + r.x, at[2] + r.y>>
           stride == whole.stride
           channels == whole.channels
<1>1. /\ s = [x |-> r.x + at[1], y |-> r.y + at[2], width |-> r.width, height |-> r.height]
      /\ IsRegion(s) /\ Within(s, whole)
      /\ at[1] \in Nat /\ at[2] \in Nat
    BY ShiftedIs DEF Sound, Shifted
<1>2. s.x = r.x + at[1] /\ s.y = r.y + at[2] /\ s.width = r.width /\ s.height = r.height
    BY <1>1
<1>3. /\ r.x \in Nat /\ r.y \in Nat /\ stride \in Nat /\ channels \in Nat /\ whole.offset \in Nat
    BY ViewNumbers, SizeAssumption DEF IsRegion, Sound, IsView, SizeT
<1>4. /\ v.stride = stride /\ v.channels = channels
      /\ v.offset = whole.offset + (at[2] * stride + at[1] * channels)
  <2>1. Skipped(whole, Frame(at, v)) = at[2] * stride + at[1] * channels
      BY DEF Skipped, Frame
  <2> QED BY <2>1 DEF Part
<1>5. /\ (r.y + at[2]) * stride = r.y * stride + at[2] * stride
      /\ (r.x + at[1]) * channels = r.x * channels + at[1] * channels
      /\ r.y * stride \in Nat /\ at[2] * stride \in Nat
      /\ r.x * channels \in Nat /\ at[1] * channels \in Nat
    BY <1>1, <1>3
<1>6. whole.offset + Skipped(whole, s) = v.offset + Skipped(v, r)
  <2>1. Skipped(whole, s) = (r.y + at[2]) * stride + (r.x + at[1]) * channels
      BY <1>2 DEF Skipped
  <2>2. Skipped(v, r) = r.y * stride + r.x * channels
      BY <1>4 DEF Skipped
  <2> DEFINE a == r.y * stride
             b == at[2] * stride
             d == r.x * channels
             e == at[1] * channels
  <2>3. /\ Skipped(whole, s) = (a + b) + (d + e) /\ Skipped(v, r) = a + d
        /\ v.offset = whole.offset + (b + e)
        /\ a \in Nat /\ b \in Nat /\ d \in Nat /\ e \in Nat
      BY <1>4, <1>5, <2>1, <2>2
  <2> HIDE DEF a, b, d, e, s
  <2> QED BY <1>3, <2>3
<1>7. Spanned(whole, s) = Spanned(v, r)
    BY <1>2, <1>4 DEF Spanned
<1>8. Cropped(whole, s) = c
  <2> HIDE DEF s
  <2> QED BY <1>2, <1>4, <1>6, <1>7 DEF Cropped
<1>9. Frame(p, c) = s
  <2>1. c.width = r.width /\ c.height = r.height
      BY DEF Cropped
  <2>2. p[1] = r.x + at[1] /\ p[2] = r.y + at[2]
      BY <1>1, <1>3
  <2> HIDE DEF p, c, s
  <2> QED BY <1>1, <2>1, <2>2 DEF Frame
<1>10. Part(whole, p, c)
  <2>1. /\ c.stride = stride /\ c.channels = channels
        /\ c.offset = whole.offset + Skipped(whole, s)
      BY <1>4, <1>6 DEF Cropped
  <2> HIDE DEF c, p, s
  <2> QED BY <1>1, <1>9, <2>1 DEF Part
<1> QED BY <1>8, <1>10

\* A part lies where the image does.
LEMMA PartLiesInside ==
    ASSUME NEW whole, Sound(whole), NEW v, Sound(v), NEW at, Part(whole, at, v)
    PROVE  LiesInside(v, whole, at)
<1> DEFINE f == Frame(at, v)
           stride == whole.stride
           channels == whole.channels
<1>1. /\ IsRegion(f) /\ Within(f, whole) /\ v.stride = stride /\ v.channels = channels
      /\ v.offset = whole.offset + Skipped(whole, f)
    BY DEF Part
<1>2. /\ Skipped(whole, f) = at[2] * stride + at[1] * channels
      /\ Spanned(whole, f) = Extent(v)
    BY <1>1 DEF Skipped, Spanned, Frame, Extent, RowBytes
<1>3. /\ at[2] * stride \in Nat /\ at[1] * channels \in Nat
      /\ Skipped(whole, f) + Spanned(whole, f) <= Extent(whole)
  <2>1. /\ f.y * whole.stride \in Nat /\ f.x * whole.channels \in Nat
        /\ Skipped(whole, f) + Spanned(whole, f) <= Extent(whole)
    <3> HIDE DEF f
    <3> QED BY <1>1, RegionSpan DEF Sound
  <2> QED BY <2>1 DEF Frame
<1>4. /\ Extent(whole) \in Nat /\ Extent(whole) <= whole.bytes /\ whole.bytes \in Nat
      /\ whole.offset \in Nat /\ Extent(v) \in Nat /\ stride \in Nat /\ channels \in Nat
    BY ViewNumbers, SizeAssumption DEF Sound, IsView, SizeT
<1> DEFINE ys == at[2] * stride
           xs == at[1] * channels
<1>5. Address(v, 0, 0) = v.offset /\ Address(whole, at[1], at[2]) = whole.offset + ys + xs
  <2>1. 0 * stride = 0 /\ 0 * channels = 0 /\ v.offset \in Nat
      BY <1>4 DEF Sound, IsView
  <2> QED BY <1>1, <2>1 DEF Address
<1> HIDE DEF ys, xs, f
<1>6. ys \in Nat /\ xs \in Nat /\ Skipped(whole, f) = ys + xs
    BY <1>2, <1>3 DEF ys, xs
<1> QED BY <1>1, <1>2, <1>3, <1>4, <1>5, <1>6 DEF LiesInside

\* make_crop_view crops every region of a part as it would crop the whole image.
LEMMA PartCropsExactly ==
    ASSUME NEW whole, Sound(whole), NEW v, Sound(v), NEW at, Part(whole, at, v),
           NEW r, IsRegion(r)
    PROVE  CropsExactly(v, whole, at, r)
<1>1. MakeCropView(v, r) = IF Within(r, v) THEN {Cropped(v, r)} ELSE {}
    BY CropIs
<1>2. CASE ~Within(r, v)
    BY <1>1, <1>2 DEF CropsExactly
<1>3. CASE Within(r, v)
  <2>1. MakeCropView(whole, Shifted(r, at)) = {Cropped(whole, Shifted(r, at))}
    <3>1. IsRegion(Shifted(r, at)) /\ Within(Shifted(r, at), whole)
        BY <1>3, ShiftedIs DEF Sound
    <3> QED BY <3>1, CropIs
  <2>2. Cropped(whole, Shifted(r, at)) = Cropped(v, r)
    <3>1. /\ Cropped(whole, Shifted(r, at)) = Cropped(v, r)
          /\ Part(whole, <<at[1] + r.x, at[2] + r.y>>, Cropped(v, r))
        BY <1>3, PartOfPart
    <3> QED BY <3>1
  <2>3. Address(Cropped(v, r), 0, 0) = Address(v, r.x, r.y)
    <3>1. /\ r.y * v.stride \in Nat /\ r.x * v.channels \in Nat
        BY <1>3, RegionSpan DEF Sound
    <3>2. v.offset \in Nat /\ v.stride \in Nat /\ v.channels \in Nat
        BY ViewNumbers DEF Sound, IsView
    <3>3. 0 * v.stride = 0 /\ 0 * v.channels = 0
        BY <3>2
    <3> DEFINE ys == r.y * v.stride
               xs == r.x * v.channels
    <3>4. /\ Address(Cropped(v, r), 0, 0) = v.offset + (ys + xs) + 0 + 0
          /\ Address(v, r.x, r.y) = v.offset + ys + xs
        BY <3>3 DEF Address, Cropped, Skipped
    <3>5. ys \in Nat /\ xs \in Nat
        BY <3>1
    <3> HIDE DEF ys, xs
    <3> QED BY <3>2, <3>4, <3>5
  <2> QED BY <1>1, <1>3, <2>1, <2>2, <2>3 DEF CropsExactly
<1> QED BY <1>2, <1>3

\* copy_crop writes every row into the destination or refuses.
LEMMA CopyIsInside ==
    ASSUME NEW v, Sound(v), NEW r, IsRegion(r), NEW d,
           d.bytes \in SizeT, d.height \in SizeT, d.stride \in SizeT
    PROVE  CopiesInside(v, r, d)
<1> SUFFICES ASSUME NEW copy \in CopyCrop(v, r, d), NEW at \in copy.rows
             PROVE  at + copy.row <= d.bytes
    BY DEF CopiesInside
<1>1. PICK c \in MakeCropView(v, r), row \in CheckedMultiply(r.width, v.channels) :
          /\ d.height = c.height
          /\ \E n \in StridedExtent(d.stride, d.height, row) : n <= d.bytes
          /\ copy = [rows |-> {y * d.stride : y \in 0..(c.height - 1)}, row |-> row]
    BY DEF CopyCrop
<1>2. Within(r, v) /\ c = Cropped(v, r)
    BY <1>1, CropIs
<1>3. c.height = r.height /\ r.height \in SizeT \ {0}
    BY <1>2, SizeAssumption DEF Cropped, IsRegion, Within, SizeT
<1>4. row \in SizeT
  <2>1. r.width \in SizeT /\ v.channels \in Nat
      BY DEF IsRegion, Sound, IsView
  <2>2. /\ r.width * v.channels \in Nat
        /\ CheckedMultiply(r.width, v.channels) =
               IF r.width * v.channels <= size_max THEN {r.width * v.channels} ELSE {}
      BY <2>1, MultiplyIs
  <2>3. row = r.width * v.channels /\ r.width * v.channels <= size_max
      BY <1>1, <2>2, Zenon
  <2> QED BY <2>2, <2>3, SizeAssumption DEF SizeT
<1>5. (d.height - 1) * d.stride \in Nat /\ (d.height - 1) * d.stride + row <= d.bytes
    BY <1>1, <1>3, <1>4, ExtentIs
<1>6. PICK y \in 0..(c.height - 1) : at = y * d.stride
    BY <1>1
<1>7. y * d.stride \in Nat /\ y * d.stride <= (d.height - 1) * d.stride
  <2>1. y \in Nat /\ d.height - 1 \in Nat /\ d.stride \in Nat /\ y <= d.height - 1
      BY <1>1, <1>3, <1>6, SizeAssumption DEF SizeT
  <2> QED BY <2>1, Monotone
<1> DEFINE a == y * d.stride
           b == (d.height - 1) * d.stride
<1>8. a \in Nat /\ b \in Nat /\ a <= b /\ b + row <= d.bytes /\ at = a /\ copy.row = row
    BY <1>1, <1>5, <1>6, <1>7
<1> HIDE DEF a, b
<1> QED BY <1>4, <1>8, SizeAssumption DEF SizeT

-----------------------------------------------------------------------------
(* Crops of crops.                                                         *)

\* The inductive invariant: as long as the caller's image is valid, so is the view,
\* and it is the part of the image that begins at origin.
ViewsInv ==
    /\ IsView(owned) /\ IsView(view)
    /\ Validates(owned) => Validates(view) /\ Part(owned, origin, view)

\* An image is a part of itself.
LEMMA ViewsInvInit == ViewsInit => ViewsInv
<1> SUFFICES ASSUME ViewsInit PROVE ViewsInv
    OBVIOUS
<1>1. IsView(owned) /\ view = owned /\ origin[1] = 0 /\ origin[2] = 0
    BY ViewsAssumption DEF ViewsInit, IsView
<1>2. ASSUME Validates(owned) PROVE Part(owned, origin, view)
  <2> DEFINE f == Frame(origin, owned)
  <2>1. f.x = 0 /\ f.y = 0 /\ f.width = owned.width /\ f.height = owned.height
      BY <1>1 DEF Frame
  <2>2. /\ owned.width \in SizeT \ {0} /\ owned.height \in SizeT \ {0}
        /\ owned.stride \in Nat /\ owned.channels \in Nat /\ owned.offset \in Nat
      BY <1>1, <1>2, ValidIsSound, SizeAssumption DEF Sound, IsView, SizeT
  <2>3. IsRegion(f)
      BY <1>1, <2>2, SizeAssumption DEF Frame, IsRegion, SizeT
  <2>4. Within(f, owned)
    <3> HIDE DEF f
    <3> QED BY <2>1, <2>2, SizeAssumption DEF Within, SizeT
  <2>5. Skipped(owned, f) = 0
    <3>1. 0 * owned.stride = 0 /\ 0 * owned.channels = 0
        BY <2>2
    <3> HIDE DEF f
    <3> QED BY <2>1, <3>1 DEF Skipped
  <2> HIDE DEF f
  <2>6. owned.offset = owned.offset + Skipped(owned, f)
      BY <2>2, <2>5
  <2> QED BY <1>1, <2>3, <2>4, <2>6 DEF Part, f
<1> QED BY <1>1, <1>2 DEF ViewsInv

\* A crop of a part is a part.
LEMMA ViewsInvStep == ViewsInv /\ [Crop]_viewsVars => ViewsInv'
<1> SUFFICES ASSUME ViewsInv, [Crop]_viewsVars PROVE ViewsInv'
    OBVIOUS
<1>1. CASE UNCHANGED viewsVars
    BY <1>1 DEF ViewsInv, viewsVars
<1>2. CASE Crop
  <2>1. PICK r \in Regions : /\ view' \in MakeCropView(view, r)
                             /\ origin' = <<origin[1] + r.x, origin[2] + r.y>>
      BY <1>2 DEF Crop
  <2>2. /\ Validates(owned) /\ owned' = owned /\ IsRegion(r)
        /\ IsView(owned) /\ IsView(view) /\ Validates(view) /\ Part(owned, origin, view)
      BY <1>2, ViewsAssumption DEF Crop, ViewsInv, IsRegion
  <2>3. Sound(owned) /\ Sound(view)
      BY <2>2, ValidIsSound
  <2>4. Within(r, view) /\ view' = Cropped(view, r)
      BY <2>1, <2>2, <2>3, CropIs
  <2>5. Sound(view') /\ Validates(view')
      BY <2>2, <2>3, <2>4, CroppedIsSound
  <2>6. Part(owned, origin', view')
      BY <2>1, <2>2, <2>3, <2>4, PartOfPart
  <2> QED BY <2>2, <2>5, <2>6 DEF ViewsInv, Sound
<1> QED BY <1>1, <1>2

\* The property follows.
LEMMA InvStaysInside == ViewsInv => ViewsStayInside
<1> SUFFICES ASSUME ViewsInv PROVE ViewsStayInside
    OBVIOUS
<1>1. AcceptedIfInside(view)
    BY AcceptedIs DEF ViewsInv
<1>2. ASSUME Validates(owned)
      PROVE  /\ Validates(view) /\ LiesInside(view, owned, origin)
             /\ \A r \in Regions :
                    /\ CropsExactly(view, owned, origin, r)
                    /\ \A d \in Destinations : CopiesInside(view, r, d)
  <2>1. /\ Validates(view) /\ Part(owned, origin, view) /\ Sound(owned) /\ Sound(view)
      BY <1>2, ValidIsSound DEF ViewsInv
  <2>2. LiesInside(view, owned, origin)
      BY <2>1, PartLiesInside
  <2>3. ASSUME NEW r \in Regions
        PROVE  /\ CropsExactly(view, owned, origin, r)
               /\ \A d \in Destinations : CopiesInside(view, r, d)
    <3>1. IsRegion(r)
        BY ViewsAssumption DEF IsRegion
    <3>2. \A d \in Destinations : d.bytes \in SizeT /\ d.height \in SizeT /\ d.stride \in SizeT
        BY ViewsAssumption
    <3>3. CropsExactly(view, owned, origin, r)
        BY <2>1, <3>1, PartCropsExactly
    <3>4. \A d \in Destinations : CopiesInside(view, r, d)
        BY <2>1, <3>1, <3>2, CopyIsInside
    <3> QED BY <3>3, <3>4
  <2> QED BY <2>1, <2>2, <2>3
<1> QED BY <1>1, <1>2 DEF ViewsStayInside

\* make_crop_view and copy_crop of native_image.cpp, validate_image: for any width of
\* size_t, any limits, any image and any regions, one crop after another: no view leaves
\* the buffer of the caller, each one is accepted and shows the pixels it should, no
\* region that lies in a view is refused, no other one is cropped, and no copy leaves
\* its destination.
THEOREM ViewsAlwaysInside == Spec => []ViewsStayInside
<1>1. Init => ViewsInv
  <2>1. ASSUME owned = NoView, view = NoView PROVE ViewsInv
    <3>1. {0, 1} \subseteq SizeT
        BY SizeAssumption DEF SizeT
    <3>2. IsView(owned) /\ IsView(view)
        BY <2>1, <3>1 DEF NoView, IsView
    <3>3. ~Validates(owned)
        BY <2>1, SizeAssumption DEF NoView, Validates
    <3> QED BY <3>2, <3>3 DEF ViewsInv
  <2> QED BY <2>1, ViewsInvInit DEF Init
<1>2. ViewsInv /\ [Next]_<<input, viewsVars>> => ViewsInv'
  <2>1. [Next]_<<input, viewsVars>> => [Crop]_viewsVars
      BY DEF Next, AddPart, AddRow, AddCorner, AddComponent, AddPlateRow, AddCharacter,
             AddFoundBox, AddDetection, AddTimestep, AddCrop
  <2> QED BY <2>1, ViewsInvStep
<1>3. ViewsInv => ViewsStayInside
    BY InvStaysInside
<1> QED BY <1>1, <1>2, <1>3, PTL DEF Spec

-----------------------------------------------------------------------------
(* Double rows.                                                            *)

PlatesRows == Seq(SUBSET (0..(PlateWidth - 1)))

LEMMA DoubledMax == \A S : Doubled!Max(S) = Max(S)
BY DEF Max, Doubled!Max
LEMMA DoubledMin == \A S : Doubled!Min(S) = Min(S)
BY DEF Min, Doubled!Min

LEMMA DoubledCardinality == \A S : Doubled!Cardinality(S) = Cardinality(S)
BY DEF Cardinality, Doubled!Cardinality

LEMMA DoubledClamped ==
    ASSUME NEW n \in Int, NEW least \in Int, NEW most \in Int, least <= most
    PROVE  Doubled!Clamped(n, least, most) \in least..most
<1> DEFINE m == Min({most, n})
<1>1. m \in Int /\ m <= most
    BY MinOfTwo
<1> HIDE DEF m
<1>2. Max({least, m}) = IF least <= m THEN m ELSE least
    BY <1>1, MaxOfTwo
<1>3. Max({least, m}) \in least..most
    BY <1>1, <1>2
<1> QED BY <1>3, DoubledMax, DoubledMin DEF Doubled!Clamped, m

LEMMA DoubledRounded ==
    ASSUME NEW n \in Int, NEW d \in Nat \ {0}
    PROVE  Doubled!Rounded(n, d) \in Int
BY DEF Doubled!Rounded

\* What the configuration says of the sizes.
LEMMA RowConfigIs ==
    /\ RowConfig.minimum_height > 2
    /\ RowConfig.minimum_height \in Nat /\ RowConfig.target_row_height \in Nat
    /\ RowConfig.separator_width \in Nat /\ RowConfig.maximum_output_width \in Nat
    /\ RowConfig.split_search.minimum \in 1..RowUnit
    /\ RowConfig.split_search.maximum \in 1..RowUnit
<1>1. Doubled!ConfigValid(RowConfig)
    BY RowsAssumption
<1>2. RowConfig.minimum_height > 2 /\ Doubled!ShareValid(RowConfig.split_search)
    BY ONLY <1>1 DEF Doubled!ConfigValid
<1> QED BY <1>2, RowsAssumption DEF Doubled!ShareValid

\* The rows that are searched lie in the plate, and there are some.
LEMMA SearchRowsAre ==
    ASSUME NEW rows \in PlatesRows, Len(rows) > 2
    PROVE  /\ Doubled!SearchRows(RowConfig, rows) \subseteq 1..(Len(rows) - 1)
           /\ Doubled!SearchRows(RowConfig, rows) # {}
<1> DEFINE height == Len(rows)
           above == Doubled!Rounded(height * RowConfig.split_search.minimum, RowUnit)
           below == Doubled!Rounded(height * RowConfig.split_search.maximum, RowUnit)
           first == Doubled!Clamped(above, 1, height - 2)
           last == Doubled!Clamped(below, first, height - 1)
<1>1. height \in Nat /\ height > 2
    BY DEF PlatesRows
<1>2. RowConfig.split_search.minimum \in Nat /\ RowConfig.split_search.maximum \in Nat
  <2>1. /\ RowConfig.split_search.minimum \in 1..RowUnit
        /\ RowConfig.split_search.maximum \in 1..RowUnit
      BY RowConfigIs
  <2> QED BY <2>1, RowsAssumption
<1>3. /\ height * RowConfig.split_search.minimum \in Int
      /\ height * RowConfig.split_search.maximum \in Int
  <2> HIDE DEF height
  <2> QED BY <1>1, <1>2
<1>4. above \in Int /\ below \in Int
    BY <1>3, DoubledRounded, RowsAssumption
<1>5. first \in 1..(height - 2)
  <2>1. height - 2 \in Int /\ 1 <= height - 2
      BY <1>1
  <2>2. above \in Int
      BY <1>4
  <2> HIDE DEF height, above, below
  <2>3. Doubled!Clamped(above, 1, height - 2) \in 1..(height - 2)
      BY ONLY <1>1, <2>1, <2>2, DoubledClamped
  <2> QED BY ONLY <2>3 DEF first
<1>6. last \in first..(height - 1)
  <2> HIDE DEF first, below
  <2>1. first \in Int /\ height - 1 \in Int /\ first <= height - 1
      BY <1>1, <1>5
  <2> QED BY <1>4, <2>1, DoubledClamped
<1>7. Doubled!SearchRows(RowConfig, rows) = first..last
    BY DEF Doubled!SearchRows
<1> HIDE DEF first, last, height
<1>8. first..last \subseteq 1..(height - 1) /\ first \in first..last
    BY <1>1, <1>5, <1>6
<1> QED BY <1>7, <1>8 DEF height

LEMMA InkIsNat ==
    ASSUME NEW rows \in PlatesRows, NEW y \in 0..(Len(rows) - 1)
    PROVE  /\ Doubled!InkAt(rows, y) \in Nat
           /\ Doubled!InkAt(rows, y) = 0 <=> rows[y + 1] = {}
<1>1. y + 1 \in 1..Len(rows)
    BY DEF PlatesRows
<1>2. rows[y + 1] \in SUBSET (0..(PlateWidth - 1))
    BY <1>1 DEF PlatesRows
<1>3. IsFiniteSet(0..(PlateWidth - 1))
    BY FS_Interval, RowsAssumption
<1>4. IsFiniteSet(rows[y + 1])
    BY <1>2, <1>3, FS_Subset
<1> QED BY <1>4, FS_CardinalityType, FS_EmptySet, DoubledCardinality DEF Doubled!InkAt

\* A plate is cut at the first of the rows with the least ink.
LEMMA SplitRowIs ==
    ASSUME NEW rows \in PlatesRows, Len(rows) > 2
    PROVE  LET y == Doubled!FindSplitRow(RowConfig, rows)
           IN  /\ y \in Doubled!SearchRows(RowConfig, rows)
               /\ \A z \in Doubled!SearchRows(RowConfig, rows) :
                      \/ Doubled!InkAt(rows, y) < Doubled!InkAt(rows, z)
                      \/ Doubled!InkAt(rows, y) = Doubled!InkAt(rows, z) /\ y <= z
<1> DEFINE S == Doubled!SearchRows(RowConfig, rows)
           ink(z) == Doubled!InkAt(rows, z)
           T == {ink(z) : z \in S}
<1>1. S \subseteq 1..(Len(rows) - 1) /\ S # {}
    BY SearchRowsAre
<1>2. Len(rows) \in Nat
    BY DEF PlatesRows
<1>3. \A z \in S : z \in Nat /\ ink(z) \in Nat
  <2> SUFFICES ASSUME NEW z \in S PROVE z \in Nat /\ ink(z) \in Nat
      OBVIOUS
  <2>1. z \in 0..(Len(rows) - 1) /\ z \in Nat
      BY <1>1, <1>2
  <2> QED BY <2>1, InkIsNat
<1> HIDE DEF S, ink
<1>4. T \in SUBSET Nat /\ T # {}
    BY <1>1, <1>3
<1>5. PICK n \in T : \A m \in T : n <= m
    BY <1>4, LeastNatural
<1> DEFINE U == {z \in S : ink(z) = n}
<1>6. U \in SUBSET Nat /\ U # {}
    BY <1>3, <1>5
<1>7. PICK y \in U : \A z \in U : y <= z
    BY <1>6, LeastNatural
<1>8. \A z \in S : ink(y) < ink(z) \/ (ink(y) = ink(z) /\ y <= z)
  <2> SUFFICES ASSUME NEW z \in S
               PROVE  ink(y) < ink(z) \/ (ink(y) = ink(z) /\ y <= z)
      OBVIOUS
  <2>1. ink(y) = n /\ n <= ink(z) /\ n \in Nat /\ ink(z) \in Nat
      BY <1>3, <1>4, <1>5, <1>7
  <2>2. ink(z) = n => y <= z
      BY <1>7
  <2> QED BY <2>1, <2>2
<1>9. Doubled!FindSplitRow(RowConfig, rows)
        = CHOOSE v \in S : \A z \in S : ink(v) < ink(z) \/ (ink(v) = ink(z) /\ v <= z)
    BY DEF Doubled!FindSplitRow, S, ink
<1>10. y \in S
    BY <1>7
<1> QED BY <1>8, <1>9, <1>10 DEF S, ink

\* The pixels with ink between two rows.
LEMMA InkIs ==
    ASSUME NEW rows \in PlatesRows, NEW first \in Nat, NEW end \in Nat, end <= Len(rows)
    PROVE  LET ink == Doubled!Ink(rows, first, end)
           IN  /\ ink \subseteq Int \X Int /\ IsFiniteSet(ink)
               /\ \A p \in Int \X Int :
                      p \in ink <=> p[2] \in first..(end - 1) /\ p[1] \in rows[p[2] + 1]
<1> DEFINE columns == UNION Doubled!Range(rows)
           between == first..(end - 1)
           ink == Doubled!Ink(rows, first, end)
<1>1. ink = {p \in columns \X between : p[1] \in rows[p[2] + 1]}
    BY DEF Doubled!Ink
<1>2. \A y \in between : y + 1 \in 1..Len(rows) /\ y \in Int
    BY DEF PlatesRows
<1>3. Doubled!Range(rows) = {rows[i] : i \in 1..Len(rows)}
    BY DEF Doubled!Range, PlatesRows
<1>4. \A i \in 1..Len(rows) : rows[i] \in SUBSET (0..(PlateWidth - 1))
    BY DEF PlatesRows
<1>5. columns \in SUBSET (0..(PlateWidth - 1))
    BY <1>3, <1>4
<1>6. IsFiniteSet(0..(PlateWidth - 1)) /\ IsFiniteSet(between)
  <2>1. PlateWidth - 1 \in Int /\ end - 1 \in Int /\ first \in Int /\ 0 \in Int
      BY RowsAssumption
  <2> QED BY ONLY <2>1, FS_Interval
<1>7. IsFiniteSet(columns)
    BY <1>5, <1>6, FS_Subset
<1>8. IsFiniteSet(columns \X between)
    BY <1>6, <1>7, FS_Product
<1>9. columns \subseteq Int
    BY <1>5
<1>10. \A y \in between : \A x \in rows[y + 1] : x \in columns
    BY <1>2, <1>3
<1> HIDE DEF columns, between
<1>11. ink \in SUBSET (columns \X between)
    BY <1>1
<1>12. IsFiniteSet(ink)
    BY ONLY <1>8, <1>11, FS_Subset
<1>13. between \subseteq Int
    BY <1>2
<1>14. ink \subseteq Int \X Int
    BY <1>9, <1>11, <1>13
<1>15. \A p \in Int \X Int :
          p \in ink <=> p[2] \in between /\ p[1] \in rows[p[2] + 1]
  <2> SUFFICES ASSUME NEW p \in Int \X Int
               PROVE  p \in ink <=> p[2] \in between /\ p[1] \in rows[p[2] + 1]
      OBVIOUS
  <2>1. p \in columns \X between <=> p[1] \in columns /\ p[2] \in between
      OBVIOUS
  <2> QED BY <1>1, <1>10, <2>1
<1> QED BY <1>12, <1>14, <1>15 DEF between

\* The bounds of some ink hold all of it and have some in their first row and
\* in their last.
LEMMA BoundsAre ==
    ASSUME NEW ink, ink \subseteq Int \X Int, IsFiniteSet(ink), ink # {}
    PROVE  LET b == Doubled!Bounds(ink)
           IN  /\ b.x \in Int /\ b.y \in Int /\ b.width \in Int /\ b.height \in Int
               /\ \A p \in ink : InBounds(b, p)
               /\ \E p \in ink : p[2] = b.y
               /\ \E p \in ink : p[2] = b.y + b.height - 1
<1> DEFINE xs == {p[1] : p \in ink}
           ys == {p[2] : p \in ink}
<1>1. xs \subseteq Int /\ xs # {} /\ ys \subseteq Int /\ ys # {}
    OBVIOUS
<1>2. IsFiniteSet(xs) /\ IsFiniteSet(ys)
  <2> DEFINE column == [p \in ink |-> p[1]]
             row == [p \in ink |-> p[2]]
  <2>1. xs = {column[p] : p \in ink} /\ ys = {row[p] : p \in ink}
      OBVIOUS
  <2> HIDE DEF xs, ys, column, row
  <2> QED BY <2>1, ImageFinite
<1>3. /\ Min(xs) \in xs /\ Max(xs) \in xs /\ \A x \in xs : Min(xs) <= x /\ x <= Max(xs)
      /\ Min(ys) \in ys /\ Max(ys) \in ys /\ \A y \in ys : Min(ys) <= y /\ y <= Max(ys)
  <2> HIDE DEF xs, ys
  <2> QED BY <1>1, <1>2, MaxIs, MinIs
<1> DEFINE b == Doubled!Bounds(ink)
           left == Min(xs)
           right == Max(xs)
           top == Min(ys)
           bottom == Max(ys)
<1>4. b = [x |-> left, y |-> top, width |-> right - left + 1, height |-> bottom - top + 1]
    BY DoubledMax, DoubledMin DEF Doubled!Bounds
<1>5. {left, right, top, bottom} \subseteq Int
    BY <1>1, <1>3
<1>6. \A p \in ink : left <= p[1] /\ p[1] <= right /\ top <= p[2] /\ p[2] <= bottom
    BY <1>3
<1>7. (\E p \in ink : p[2] = top) /\ (\E p \in ink : p[2] = bottom)
    BY <1>3
<1> HIDE DEF left, right, top, bottom, b
<1>8. b.x = left /\ b.y = top /\ b.width = right - left + 1 /\ b.height = bottom - top + 1
    BY <1>4
<1>9. \A p \in ink : InBounds(b, p)
    BY <1>5, <1>6, <1>8 DEF InBounds
<1>10. b.y + b.height - 1 = bottom
    BY <1>5, <1>8
<1> QED BY <1>5, <1>7, <1>8, <1>9, <1>10 DEF b

\* A trimmed row lies between its ends, holds its ink and has ink in its first
\* row and in its last.
LEMMA TrimmedAre ==
    ASSUME NEW rows \in PlatesRows, NEW first \in Nat, NEW end \in Nat, end <= Len(rows),
           NEW b \in Doubled!TrimmedRowBounds(rows, first, end)
    PROVE  /\ b.x \in Int /\ b.y \in Int /\ b.width \in Int /\ b.height \in Int
           /\ b.width >= 2 /\ b.height >= 2
           /\ first <= b.y /\ b.y + b.height <= end
           /\ \A p \in Doubled!Ink(rows, first, end) : InBounds(b, p)
           /\ rows[b.y + 1] # {} /\ rows[b.y + b.height] # {}
<1> DEFINE ink == Doubled!Ink(rows, first, end)
<1>1. /\ ink \subseteq Int \X Int /\ IsFiniteSet(ink)
      /\ \A p \in Int \X Int :
            p \in ink <=> p[2] \in first..(end - 1) /\ p[1] \in rows[p[2] + 1]
    BY InkIs
<1>2. ink # {} /\ b = Doubled!Bounds(ink) /\ ~ b.width < 2 /\ ~ b.height < 2
    BY DEF Doubled!TrimmedRowBounds
<1> HIDE DEF ink
<1>3. /\ b.x \in Int /\ b.y \in Int /\ b.width \in Int /\ b.height \in Int
      /\ \A p \in ink : InBounds(b, p)
    BY <1>1, <1>2, BoundsAre
<1>4. PICK p \in ink : p[2] = b.y
    BY <1>1, <1>2, BoundsAre
<1>5. PICK q \in ink : q[2] = b.y + b.height - 1
    BY <1>1, <1>2, BoundsAre
<1>6. p[2] \in first..(end - 1) /\ rows[p[2] + 1] # {}
    BY <1>1
<1>7. q[2] \in first..(end - 1) /\ rows[q[2] + 1] # {}
    BY <1>1
<1>8. b.y + b.height - 1 + 1 = b.y + b.height
    BY <1>3
<1>9. rows[b.y + 1] # {} /\ rows[b.y + b.height] # {}
    BY <1>4, <1>5, <1>6, <1>7, <1>8
<1>10. first <= b.y /\ b.y + b.height <= end
    BY <1>3, <1>4, <1>5, <1>6, <1>7
<1> QED BY <1>2, <1>3, <1>9, <1>10 DEF ink

\* Where two rows are put side by side.
LEMMA JoinedFit ==
    ASSUME NEW upper, NEW lower,
           upper.width \in Nat, upper.height \in Nat \ {0},
           lower.width \in Nat, lower.height \in Nat \ {0},
           NEW joined \in Doubled!Joined(RowConfig, upper, lower)
    PROVE  joined.upper = upper /\ joined.lower = lower /\ FitsOutput(joined)
<1> DEFINE first == Doubled!ResizedWidth(RowConfig, upper)
           second == Doubled!ResizedWidth(RowConfig, lower)
<1>1. \A r : r.width \in Nat /\ r.height \in Nat \ {0}
                => Doubled!ResizedWidth(RowConfig, r) \in Nat \ {0}
  <2> SUFFICES ASSUME NEW r, r.width \in Nat, r.height \in Nat \ {0}
               PROVE  Doubled!ResizedWidth(RowConfig, r) \in Nat \ {0}
      OBVIOUS
  <2>1. RowConfig.target_row_height \in Nat
      BY RowConfigIs
  <2>2. r.width * RowConfig.target_row_height \in Int
      BY <2>1
  <2> DEFINE n == Doubled!Rounded(r.width * RowConfig.target_row_height, r.height)
  <2>3. n \in Int
      BY <2>2, DoubledRounded
  <2> HIDE DEF n
  <2>4. Max({1, n}) \in Nat \ {0}
      BY <2>3, MaxOfTwo
  <2> QED BY <2>4, DoubledMax DEF Doubled!ResizedWidth, n
<1>2. first \in Nat \ {0} /\ second \in Nat \ {0}
    BY <1>1
<1>3. RowConfig.separator_width \in Nat /\ RowConfig.maximum_output_width \in Nat
    BY RowConfigIs
<1> HIDE DEF first, second
<1> DEFINE total == first + RowConfig.separator_width + second
<1>4. /\ ~ total > RowConfig.maximum_output_width
      /\ joined = [upper |-> upper, lower |-> lower, width |-> total,
                   height |-> RowConfig.target_row_height, upper_width |-> first,
                   lower_x |-> first + RowConfig.separator_width, lower_width |-> second]
    BY DEF Doubled!Joined, first, second
<1>5. /\ joined.upper = upper /\ joined.lower = lower /\ joined.width = total
      /\ joined.upper_width = first /\ joined.lower_width = second
      /\ joined.lower_x = first + RowConfig.separator_width
    BY <1>4
<1> QED BY <1>2, <1>3, <1>4, <1>5 DEF FitsOutput

\* A plate of two rows is cut as the property says.
LEMMA NormalizeKeepsInk ==
    ASSUME NEW rows \in PlatesRows,
           NEW joined \in Doubled!Normalize(RowConfig, PlateWidth, rows)
    PROVE  JoinsAllInk(rows, joined) /\ KeepsBandsWhole(rows, joined) /\ FitsOutput(joined)
<1> DEFINE height == Len(rows)
           split == Doubled!FindSplitRow(RowConfig, rows)
<1>1. height \in Nat
    BY DEF PlatesRows
<1>2. /\ height > 2
      /\ joined \in Doubled!Split(RowConfig, PlateWidth, rows, split)
  <2>1. /\ Doubled!ShouldApply(RowConfig, PlateWidth, height)
        /\ joined \in Doubled!Split(RowConfig, PlateWidth, rows, split)
      BY DEF Doubled!Normalize
  <2>2. height >= RowConfig.minimum_height
      BY <2>1 DEF Doubled!ShouldApply
  <2>3. RowConfig.minimum_height > 2 /\ RowConfig.minimum_height \in Nat
      BY RowConfigIs
  <2> HIDE DEF height, split
  <2> QED BY <1>1, <2>1, <2>2, <2>3
<1>3. /\ split \in Doubled!SearchRows(RowConfig, rows)
      /\ \A z \in Doubled!SearchRows(RowConfig, rows) :
             \/ Doubled!InkAt(rows, split) < Doubled!InkAt(rows, z)
             \/ Doubled!InkAt(rows, split) = Doubled!InkAt(rows, z) /\ split <= z
    BY <1>2, SplitRowIs
<1>4. split \in 1..(height - 1) /\ split \in Nat /\ split <= height
  <2>1. split \in 1..(height - 1)
      BY <1>2, <1>3, SearchRowsAre
  <2> HIDE DEF split, height
  <2> QED BY <1>1, <2>1
<1> HIDE DEF split
<1>5. PICK upper \in Doubled!TrimmedRowBounds(rows, 0, split),
           lower \in Doubled!TrimmedRowBounds(rows, split, height) :
               joined \in Doubled!Joined(RowConfig, upper, lower)
    BY <1>2, SMT DEF Doubled!Split
<1>6. /\ upper.x \in Int /\ upper.y \in Int /\ upper.width \in Int /\ upper.height \in Int
      /\ upper.width >= 2 /\ upper.height >= 2
      /\ 0 <= upper.y /\ upper.y + upper.height <= split
      /\ \A p \in Doubled!Ink(rows, 0, split) : InBounds(upper, p)
      /\ rows[upper.y + 1] # {} /\ rows[upper.y + upper.height] # {}
  <2>1. 0 \in Nat
      OBVIOUS
  <2> HIDE DEF height
  <2> QED BY <1>4, <2>1, TrimmedAre DEF height
<1>7. /\ lower.x \in Int /\ lower.y \in Int /\ lower.width \in Int /\ lower.height \in Int
      /\ lower.width >= 2 /\ lower.height >= 2
      /\ split <= lower.y /\ lower.y + lower.height <= height
      /\ \A p \in Doubled!Ink(rows, split, height) : InBounds(lower, p)
      /\ rows[lower.y + 1] # {} /\ rows[lower.y + lower.height] # {}
  <2>1. height <= Len(rows)
      BY <1>1
  <2> QED BY <1>1, <1>4, <2>1, TrimmedAre
<1>8. joined.upper = upper /\ joined.lower = lower /\ FitsOutput(joined)
  <2>1. /\ upper.width \in Nat /\ upper.height \in Nat \ {0}
        /\ lower.width \in Nat /\ lower.height \in Nat \ {0}
    <3>1. \A n \in Int : n >= 2 => n \in Nat \ {0}
        OBVIOUS
    <3> QED BY <1>6, <1>7, <3>1
  <2> QED BY <1>5, <2>1, JoinedFit
<1>9. JoinsAllInk(rows, joined)
  <2>1. ASSUME NEW p \in Doubled!Ink(rows, 0, height)
        PROVE  InBounds(upper, p) # InBounds(lower, p)
    <3>1. p \in Int \X Int /\ p[2] \in 0..(height - 1) /\ p[1] \in rows[p[2] + 1]
      <4>1. 0 \in Nat /\ height <= Len(rows)
          BY <1>1
      <4> QED BY <1>1, <2>1, <4>1, InkIs
    <3>2. CASE p[2] < split
      <4>1. p[2] \in 0..(split - 1)
          BY <1>4, <3>1, <3>2
      <4>2. p \in Doubled!Ink(rows, 0, split)
        <5>1. 0 \in Nat
            OBVIOUS
        <5> QED BY <1>4, <3>1, <4>1, <5>1, InkIs
      <4>3. InBounds(upper, p)
          BY <1>6, <4>2
      <4>4. ~ InBounds(lower, p)
          BY <1>4, <1>7, <3>1, <3>2 DEF InBounds
      <4> QED BY <4>3, <4>4
    <3>3. CASE split <= p[2]
      <4>1. p[2] \in split..(height - 1)
          BY <1>4, <3>1, <3>3
      <4>2. p \in Doubled!Ink(rows, split, height)
        <5>1. height <= Len(rows)
            BY <1>1
        <5> QED BY <1>1, <1>4, <3>1, <4>1, <5>1, InkIs
      <4>3. InBounds(lower, p)
          BY <1>7, <4>2
      <4>4. ~ InBounds(upper, p)
        <5>1. /\ upper.y \in Int /\ upper.height \in Int /\ p[2] \in Int
              /\ upper.y + upper.height <= split
            BY <1>6, <3>1
        <5>2. ~ p[2] \in upper.y..(upper.y + upper.height - 1)
            BY ONLY <1>4, <3>3, <5>1
        <5> QED BY <5>2 DEF InBounds
      <4> QED BY <4>3, <4>4
    <3> QED BY <1>4, <3>1, <3>2, <3>3
  <2>2. upper.y + upper.height <= lower.y
    <3>1. {upper.y, upper.height, lower.y} \subseteq Int
        BY <1>6, <1>7
    <3>2. upper.y + upper.height <= split /\ split <= lower.y
        BY <1>6, <1>7
    <3> QED BY ONLY <1>4, <3>1, <3>2
  <2> QED BY <1>7, <1>8, <2>1, <2>2 DEF JoinsAllInk
<1>10. KeepsBandsWhole(rows, joined)
  <2> SUFFICES ASSUME NEW first \in 0..(height - 1), NEW last \in 0..(height - 1),
                      BlankBetween(rows, first, last)
               PROVE  upper.y + upper.height <= first /\ last < lower.y
      BY <1>8 DEF KeepsBandsWhole
  <2>1. /\ first <= last /\ first \in Int /\ last \in Int
        /\ {y \in 0..(height - 1) : rows[y + 1] = {}} = first..last
        /\ first..last \subseteq Doubled!SearchRows(RowConfig, rows)
      BY DEF BlankBetween
  <2>2. first \in first..last
      BY <2>1
  <2>3. Doubled!InkAt(rows, first) = 0 /\ Doubled!InkAt(rows, split) \in Nat
    <3>1. rows[first + 1] = {}
        BY <2>1, <2>2
    <3>2. split \in 0..(height - 1)
        BY <1>1, <1>4
    <3> QED BY <3>1, <3>2, InkIsNat
  <2>4. /\ first \in Doubled!SearchRows(RowConfig, rows)
        /\ \/ Doubled!InkAt(rows, split) < Doubled!InkAt(rows, first)
           \/ Doubled!InkAt(rows, split) = Doubled!InkAt(rows, first) /\ split <= first
      BY <1>3, <2>1, <2>2
  <2>5. Doubled!InkAt(rows, split) = 0 /\ split <= first
      BY <2>3, <2>4
  <2>6. upper.y + upper.height <= first
      BY <1>4, <1>6, <2>1, <2>5
  <2>7. split \in first..last
    <3>1. split \in 0..(height - 1)
        BY <1>1, <1>4
    <3>2. rows[split + 1] = {}
        BY <2>5, <3>1, InkIsNat
    <3> QED BY <2>1, <3>1, <3>2
  <2>8. lower.y \notin first..last
    <3>1. lower.y \in 0..(height - 1)
        BY <1>1, <1>4, <1>7
    <3> QED BY <1>7, <2>1, <3>1
  <2> QED BY <1>7, <2>1, <2>6, <2>7, <2>8
<1> QED BY <1>8, <1>9, <1>10

\* An input of plate rows is made of plate rows.
RowsTyped == input.of = "plate rows" => input.rows \in PlatesRows

\* RowsKeepInk: no ink is lost where a plate is cut, and no band of ink is.
THEOREM RowsAlwaysKeepInk == Spec => []RowsKeepInk
<1>1. Init => RowsTyped
  <2>1. <<>> \in PlatesRows
      BY EmptySeq DEF PlatesRows
  <2> QED BY <2>1, InitIsFirst DEF FirstInputs, RowsTyped
<1>2. RowsTyped /\ [Next]_<<input, viewsVars>> => RowsTyped'
  <2> SUFFICES ASSUME RowsTyped, [Next]_<<input, viewsVars>> PROVE RowsTyped'
      OBVIOUS
  <2>1. CASE input' = input
      BY <2>1 DEF RowsTyped
  <2>2. ASSUME NextInputs, input'.of = "plate rows" PROVE input'.rows \in PlatesRows
    <3>1. PICK r \in PlateRows : input'.rows = Append(input.rows, r)
        BY <2>2 DEF NextInputs
    <3>2. input.rows \in PlatesRows
        BY <2>2 DEF NextInputs, RowsTyped
    <3>3. r \in SUBSET (0..(PlateWidth - 1))
        BY RowsAssumption
    <3> QED BY <3>1, <3>2, <3>3, AppendProperties DEF PlatesRows
  <2> QED BY <2>1, <2>2, StepIsNext DEF RowsTyped
<1>3. RowsTyped => RowsKeepInk
    BY NormalizeKeepsInk DEF RowsTyped, RowsKeepInk
<1> QED BY <1>1, <1>2, <1>3, PTL DEF Spec

-----------------------------------------------------------------------------
(* Tiles along an axis.                                                    *)

\* What a number is a multiple of, and what is left.
LEMMA DivisionIs ==
    ASSUME NEW a \in Nat, NEW d \in Nat \ {0}
    PROVE  /\ a \div d \in Nat /\ (a \div d) * d \in Nat
           /\ (a \div d) * d <= a /\ a < (a \div d) * d + d
<1> DEFINE q == a \div d
           r == a % d
<1>1. q \in Nat /\ r \in 0..(d - 1) /\ a = d * q + r
    OBVIOUS
<1> HIDE DEF q, r
<1>2. d * q = q * d /\ q * d \in Nat
    BY <1>1
<1> QED BY <1>1, <1>2 DEF q

\* A quotient is the number of multiples.
LEMMA QuotientIs ==
    ASSUME NEW a \in Nat, NEW d \in Nat \ {0}, NEW q \in Nat, q * d <= a, a < q * d + d
    PROVE  a \div d = q
<1> DEFINE p == a \div d
<1>1. p \in Nat /\ p * d \in Nat /\ p * d <= a /\ a < p * d + d
    BY DivisionIs
<1> HIDE DEF p
<1>2. q * d \in Nat
    OBVIOUS
<1>3. ASSUME p + 1 <= q PROVE FALSE
  <2>1. (p + 1) * d <= q * d
      BY <1>1, <1>3, Monotone
  <2>2. (p + 1) * d = p * d + d
      BY <1>1
  <2> QED BY <1>1, <1>2, <2>1, <2>2
<1>4. ASSUME q + 1 <= p PROVE FALSE
  <2>1. (q + 1) * d <= p * d
      BY <1>1, <1>4, Monotone
  <2>2. (q + 1) * d = q * d + d
      OBVIOUS
  <2> QED BY <1>1, <1>2, <2>1, <2>2
<1> QED BY <1>1, <1>3, <1>4 DEF p

LEMMA QuotientNext ==
    ASSUME NEW a \in Nat, NEW d \in Nat \ {0}
    PROVE  (a + d) \div d = (a \div d) + 1
<1> DEFINE q == a \div d
<1>1. q \in Nat /\ q * d \in Nat /\ q * d <= a /\ a < q * d + d
    BY DivisionIs
<1> HIDE DEF q
<1>2. (q + 1) * d = q * d + d
    BY <1>1
<1>3. q + 1 \in Nat /\ a + d \in Nat /\ (q + 1) * d <= a + d /\ a + d < (q + 1) * d + d
    BY <1>1, <1>2
<1>4. (a + d) \div d = q + 1
    BY <1>3, QuotientIs
<1> QED BY <1>4 DEF q

\* The overlap is less than half a tile, so that tiles advance.
LEMMA OverlapIs ==
    ASSUME NEW tile \in Nat \ {0}
    PROVE  Overlap(tile) \in 0..(tile - 1)
<1> DEFINE a == tile * overlap_ratio
           q == a \div Scale
<1>1. overlap_ratio \in Nat /\ overlap_ratio <= Scale - 1 /\ Scale \in Nat \ {0}
  <2>1. overlap_ratio \in Nat /\ 2 * overlap_ratio < Scale /\ Scale \in Nat \ {0}
      BY TileAssumption, ScaleAssumption
  <2> QED BY <2>1
<1>2. a \in Nat /\ a <= (Scale - 1) * tile
  <2>1. overlap_ratio * tile <= (Scale - 1) * tile
      BY <1>1, Monotone
  <2>2. overlap_ratio * tile = a /\ a \in Nat
      BY <1>1
  <2> QED BY <2>1, <2>2
<1> HIDE DEF a
<1>3. q \in Nat /\ q * Scale \in Nat /\ q * Scale <= a
    BY <1>1, <1>2, DivisionIs
<1> HIDE DEF q
<1>4. ASSUME tile <= q PROVE FALSE
  <2>1. tile * Scale <= q * Scale
      BY <1>1, <1>3, <1>4, Monotone
  <2>2. (Scale - 1) * tile = tile * Scale - tile /\ tile * Scale \in Nat
      BY <1>1
  <2> QED BY <1>2, <1>3, <2>1, <2>2
<1>5. q \in 0..(tile - 1)
    BY <1>3, <1>4
<1> QED BY <1>5 DEF Overlap, q, a

\* The tiles from an start on: one every `step` up to the last start.
TilesFrom(start, last, step) ==
    IF start >= last THEN <<start>>
    ELSE [i \in 1..((last - start - 1) \div step + 2) |-> Min({start + (i - 1) * step, last})]

LEMMA TilesFromNext ==
    ASSUME NEW start \in Nat, NEW last \in Int, NEW step \in Nat \ {0}, start < last
    PROVE  LET next == Min({start + step, last})
           IN  /\ next \in (start + 1)..last
               /\ TilesFrom(start, last, step) = <<start>> \o TilesFrom(next, last, step)
<1> DEFINE next == Min({start + step, last})
           n == (last - start - 1) \div step + 2
           rest == TilesFrom(next, last, step)
           whole == TilesFrom(start, last, step)
<1>1. next = IF start + step <= last THEN start + step ELSE last
    BY MinOfTwo
<1>2. next \in (start + 1)..last
    BY <1>1
<1>3. last - start - 1 \in Nat
    OBVIOUS
<1>4. n \in Nat /\ n >= 2
  <2>1. (last - start - 1) \div step \in Nat
      BY <1>3, DivisionIs
  <2> QED BY <2>1
<1>5. whole = [i \in 1..n |-> Min({start + (i - 1) * step, last})]
    BY DEF TilesFrom
<1>6. \A i \in 1..n : start + (i - 1) * step \in Nat /\ Min({start + (i - 1) * step, last}) \in Int
  <2> SUFFICES ASSUME NEW i \in 1..n
               PROVE  /\ start + (i - 1) * step \in Nat
                      /\ Min({start + (i - 1) * step, last}) \in Int
      OBVIOUS
  <2>1. i - 1 \in Nat
      BY <1>4
  <2>2. start + (i - 1) * step \in Nat
      BY <2>1
  <2> QED BY <2>2, MinOfTwo
<1>7. whole \in Seq(Int) /\ Len(whole) = n
  <2> HIDE DEF n, whole
  <2>1. whole \in [1..n -> Int]
      BY <1>5, <1>6
  <2> QED BY <1>4, <2>1, SequenceOf
<1>8. whole[1] = start
  <2>1. 1 \in 1..n
      BY <1>4
  <2>2. (1 - 1) * step = 0
      OBVIOUS
  <2>3. Min({start, last}) = start
      BY MinOfTwo
  <2> HIDE DEF n
  <2>4. whole[1] = Min({start + (1 - 1) * step, last})
      BY <1>5, <2>1
  <2> QED BY <2>2, <2>3, <2>4
<1>9. rest \in Seq(Int) /\ Len(rest) = n - 1 /\ \A i \in 1..(n - 1) : rest[i] = whole[i + 1]
  <2>1. CASE next >= last
    <3>1. next = last /\ last <= start + step
        BY <1>1, <1>2, <2>1
    <3>2. n = 2
      <4>1. 0 * step = 0 /\ last - start - 1 < 0 * step + step
          BY <3>1
      <4>2. (last - start - 1) \div step = 0
          BY <1>3, <4>1, QuotientIs
      <4> QED BY <4>2
    <3>3. rest = <<next>>
        BY <2>1 DEF TilesFrom
    <3>4. whole[2] = last
      <4>1. whole[2] = Min({start + (2 - 1) * step, last})
          BY <1>5, <3>2
      <4>2. (2 - 1) * step = step
          OBVIOUS
      <4>3. Min({start + step, last}) = last
          BY <1>1, <3>1
      <4> QED BY <4>1, <4>2, <4>3
    <3> HIDE DEF n, rest, whole
    <3>5. rest \in Seq(Int) /\ Len(rest) = 1 /\ rest[1] = whole[2]
      <4>1. next \in Int
          BY <1>2
      <4> HIDE DEF next
      <4> QED BY <3>1, <3>3, <3>4, <4>1
    <3>6. \A i \in 1..(n - 1) : i = 1
        BY <3>2
    <3> QED BY <3>2, <3>5, <3>6
  <2>2. CASE next < last
    <3> DEFINE m == (last - next - 1) \div step + 2
    <3>1. next = start + step
        BY <1>1, <2>2
    <3>2. m = n - 1
      <4>1. last - next - 1 \in Nat /\ last - start - 1 = (last - next - 1) + step
          BY <1>2, <2>2, <3>1
      <4>2. (last - start - 1) \div step = ((last - next - 1) \div step) + 1
          BY <4>1, QuotientNext
      <4>3. (last - next - 1) \div step \in Nat
          BY <4>1, DivisionIs
      <4> HIDE DEF next
      <4> QED BY <4>2, <4>3
    <3>3. rest = [i \in 1..m |-> Min({next + (i - 1) * step, last})]
      <4>1. ~(next >= last)
          BY <1>2, <2>2
      <4> HIDE DEF next
      <4> QED BY <4>1 DEF TilesFrom
    <3> HIDE DEF m, n, whole, rest, next
    <3>4. ASSUME NEW i \in 1..m PROVE i + 1 \in 1..n /\ rest[i] = whole[i + 1] /\ rest[i] \in Int
      <4>1. i \in Nat /\ i + 1 \in 1..n
          BY <1>4, <3>2
      <4>2. whole[i + 1] = Min({start + ((i + 1) - 1) * step, last})
          BY <1>5, <4>1
      <4>3. start + ((i + 1) - 1) * step = next + (i - 1) * step
        <5>1. (i + 1) - 1 = i /\ i - 1 \in Int /\ (i - 1) * step \in Int
            BY <4>1
        <5>2. i * step = (i - 1) * step + step
            BY <4>1
        <5> QED BY <3>1, <5>1, <5>2
      <4>4. rest[i] = Min({next + (i - 1) * step, last})
          BY <3>3
      <4> QED BY <1>6, <4>1, <4>2, <4>3, <4>4
    <3>5. m \in Nat
        BY <1>4, <3>2
    <3>6. rest \in [1..m -> Int]
        BY <3>3, <3>4
    <3>7. rest \in Seq(Int) /\ Len(rest) = m
        BY <3>5, <3>6, SequenceOf
    <3> QED BY <3>2, <3>4, <3>7
  <2> HIDE DEF n, whole, rest, next
  <2> QED BY <1>2, <2>1, <2>2
<1> HIDE DEF n, whole, rest, next
<1>10. whole = <<start>> \o rest
  <2>1. <<start>> \in Seq(Int) /\ Len(<<start>>) = 1 /\ <<start>>[1] = start
      OBVIOUS
  <2> DEFINE first == <<start>>
  <2> HIDE DEF first
  <2>2. first \o rest \in Seq(Int) /\ Len(first \o rest) = n
      BY <1>4, <1>9, <2>1 DEF first
  <2>3. ASSUME NEW i \in 1..n PROVE (first \o rest)[i] = whole[i]
    <3>1. CASE i = 1
        BY <1>8, <1>9, <2>1, <3>1 DEF first
    <3>2. CASE i # 1
      <4>1. i - 1 \in 1..(n - 1) /\ i = (i - 1) + 1
          BY <1>4, <3>2
      <4>2. (first \o rest)[i] = rest[i - 1]
          BY <1>4, <1>9, <2>1, <3>2 DEF first
      <4> QED BY <1>9, <4>1, <4>2
    <3> QED BY <3>1, <3>2
  <2> QED BY <1>4, <1>7, <2>2, <2>3 DEF first
<1> QED BY <1>2, <1>10 DEF next, whole, rest

\* axis_origins.
LEMMA AxisOriginsAre ==
    ASSUME NEW extent \in Nat, NEW tile \in Nat \ {0}
    PROVE  AxisOrigins(extent, tile) = TilesFrom(0, extent - tile, tile - Overlap(tile))
<1> DEFINE last == extent - tile
           step == tile - Overlap(tile)
           Eq(f) == f = [start \in 0..extent |->
                            IF start + tile >= extent THEN <<start>>
                            ELSE <<start>> \o f[NextOrigin(start, extent, tile)]]
           from == CHOOSE f : Eq(f)
           g == [start \in 0..extent |-> TilesFrom(start, last, step)]
<1>1. last \in Int /\ step \in Nat \ {0}
    BY OverlapIs
<1>2. \A start \in 0..extent : start + tile >= extent <=> start >= last
    OBVIOUS
<1>3. \A start \in 0..extent : NextOrigin(start, extent, tile) = Min({start + step, last})
    BY DEF NextOrigin
<1>4. last <= extent
    OBVIOUS
<1> HIDE DEF last, step
<1>5. ASSUME NEW start \in 0..extent
      PROVE  /\ start >= last => TilesFrom(start, last, step) = <<start>>
             /\ start < last =>
                    /\ NextOrigin(start, extent, tile) \in (start + 1)..last
                    /\ NextOrigin(start, extent, tile) \in 0..extent
                    /\ TilesFrom(start, last, step) =
                           <<start>> \o TilesFrom(NextOrigin(start, extent, tile), last, step)
  <2>1. CASE start >= last
      BY <1>1, <2>1 DEF TilesFrom
  <2>2. CASE start < last
    <3> DEFINE next == Min({start + step, last})
    <3>0. start \in Nat
        OBVIOUS
    <3>1. /\ next \in (start + 1)..last
          /\ TilesFrom(start, last, step) = <<start>> \o TilesFrom(next, last, step)
        BY ONLY <1>1, <2>2, <3>0, TilesFromNext
    <3>2. next = NextOrigin(start, extent, tile)
        BY <1>3
    <3> HIDE DEF next
    <3>3. next \in 0..extent
        BY <1>1, <1>4, <3>1
    <3> QED BY <1>1, <2>2, <3>1, <3>2, <3>3
  <2> QED BY <1>1, <2>1, <2>2
<1>6. \A start \in 0..extent :
          g[start] = IF start + tile >= extent THEN <<start>>
                      ELSE <<start>> \o g[NextOrigin(start, extent, tile)]
  <2> SUFFICES ASSUME NEW start \in 0..extent
               PROVE  g[start] = IF start + tile >= extent THEN <<start>>
                                  ELSE <<start>> \o g[NextOrigin(start, extent, tile)]
      BY Zenon
  <2>1. g[start] = TilesFrom(start, last, step)
      OBVIOUS
  <2>2. CASE start >= last
    <3> HIDE DEF g
    <3> QED BY <1>2, <1>5, <2>1, <2>2
  <2>3. CASE start < last
    <3> DEFINE next == NextOrigin(start, extent, tile)
    <3>1. next \in 0..extent /\ TilesFrom(start, last, step) = <<start>> \o TilesFrom(next, last, step)
        BY <1>5, <2>3
    <3>2. ~(start + tile >= extent)
        BY <1>1, <1>2, <2>3
    <3> HIDE DEF next
    <3>3. g[next] = TilesFrom(next, last, step)
        BY <3>1
    <3> HIDE DEF g
    <3>4. g[start] = <<start>> \o g[next]
        BY <2>1, <3>1, <3>3
    <3> QED BY <3>2, <3>4 DEF next
  <2> HIDE DEF g
  <2> QED BY <1>1, <2>2, <2>3
<1>7. Eq(g)
  <2>1. g = [start \in 0..extent |-> g[start]]
      OBVIOUS
  <2> HIDE DEF g
  <2> QED BY <1>6, <2>1, Zenon
<1> HIDE DEF g
<1>8. Eq(from)
  <2> HIDE DEF Eq
  <2> QED BY <1>7
<1>9. AxisOrigins(extent, tile) = from[0]
    BY Zenon DEF AxisOrigins
<1> HIDE DEF from
<1>10. \A start \in 0..extent :
          from[start] = IF start + tile >= extent THEN <<start>>
                         ELSE <<start>> \o from[NextOrigin(start, extent, tile)]
    BY ONLY <1>8, Zenon
<1> HIDE DEF Eq
<1> DEFINE B == {start \in 0..extent : from[start] # TilesFrom(start, last, step)}
<1>11. B = {}
  <2> SUFFICES ASSUME B # {} PROVE FALSE
      OBVIOUS
  <2>1. B \in SUBSET (0..extent) /\ B \subseteq Int
      OBVIOUS
  <2>2. IsFiniteSet(B)
    <3>1. 0 \in Int /\ extent \in Int
        OBVIOUS
    <3>2. IsFiniteSet(0..extent)
        BY ONLY <3>1, FS_Interval
    <3> HIDE DEF B
    <3> QED BY ONLY <2>1, <3>2, FS_Subset
  <2>3. PICK start \in B : \A o \in B : o <= start
    <3> HIDE DEF B
    <3> QED BY <2>1, <2>2, HasMax
  <2>4. start \in 0..extent /\ from[start] # TilesFrom(start, last, step)
      BY <2>3
  <2>5. CASE start >= last
      BY <1>2, <1>5, <1>10, <2>4, <2>5
  <2>6. CASE start < last
    <3> DEFINE next == NextOrigin(start, extent, tile)
    <3>1. /\ next \in (start + 1)..last /\ next \in 0..extent
          /\ TilesFrom(start, last, step) = <<start>> \o TilesFrom(next, last, step)
        BY <1>5, <2>4, <2>6
    <3>2. next \notin B
        BY <1>1, <2>3, <2>4, <3>1
    <3>3. ~(start + tile >= extent)
        BY <1>1, <1>2, <2>4, <2>6
    <3>4. from[start] = <<start>> \o from[next]
        BY <1>10, <2>4, <3>3
    <3> HIDE DEF next
    <3>5. from[next] = TilesFrom(next, last, step)
        BY <3>1, <3>2
    <3> QED BY <2>4, <3>1, <3>4, <3>5
  <2> QED BY <1>1, <2>4, <2>5, <2>6
<1>12. from[0] = TilesFrom(0, last, step)
    BY <1>11
<1> QED BY <1>9, <1>12 DEF last, step

\* Where the tiles of an axis are: one if it is no longer than a tile.
LEMMA AxisTiles ==
    ASSUME NEW extent \in Nat, NEW tile \in Nat \ {0}
    PROVE  LET origins == AxisOrigins(extent, tile)
               step == tile - Overlap(tile)
               last == extent - tile
               n == Len(origins)
           IN  /\ origins \in Seq(Nat) /\ n \in Nat \ {0} /\ DOMAIN origins = 1..n
               /\ last <= 0 => n = 1 /\ origins[1] = 0
               /\ last > 0 =>
                      /\ n = (last - 1) \div step + 2
                      /\ \A i \in 1..n :
                             /\ (i - 1) * step \in Nat
                             /\ origins[i] = IF (i - 1) * step <= last THEN (i - 1) * step ELSE last
<1> DEFINE origins == AxisOrigins(extent, tile)
           step == tile - Overlap(tile)
           last == extent - tile
           n == (last - 1) \div step + 2
<1>1. last \in Int /\ step \in Nat \ {0}
    BY OverlapIs
<1>2. origins = TilesFrom(0, last, step)
    BY AxisOriginsAre
<1> HIDE DEF origins, step, last
<1>3. CASE last <= 0
  <2>1. origins = <<0>>
      BY <1>1, <1>2, <1>3 DEF TilesFrom
  <2>2. origins \in Seq(Nat) /\ Len(origins) = 1 /\ DOMAIN origins = 1..1 /\ origins[1] = 0
      BY <2>1
  <2> QED BY <1>1, <1>3, <2>2 DEF origins, step, last
<1>4. CASE last > 0
  <2>1. n \in Nat \ {0}
    <3>1. (last - 1) \div step \in Nat
        BY <1>1, <1>4, DivisionIs
    <3> QED BY <3>1
  <2>2. origins = [i \in 1..n |-> Min({0 + (i - 1) * step, last})]
    <3>1. ~(0 >= last) /\ last - 0 - 1 = last - 1
        BY <1>1, <1>4
    <3> QED BY <1>2, <3>1 DEF TilesFrom
  <2> HIDE DEF n
  <2>3. ASSUME NEW i \in 1..n
        PROVE  /\ (i - 1) * step \in Nat
               /\ origins[i] = IF (i - 1) * step <= last THEN (i - 1) * step ELSE last
               /\ origins[i] \in Nat
    <3> DEFINE a == (i - 1) * step
    <3>1. a \in Nat /\ 0 + a = a
      <4>1. i - 1 \in Nat
          BY <2>1
      <4> QED BY <1>1, <4>1
    <3>2. origins[i] = Min({0 + a, last})
        BY <2>2
    <3> HIDE DEF a
    <3>3. Min({a, last}) = IF a <= last THEN a ELSE last
        BY <1>1, <3>1, MinOfTwo
    <3>4. (IF a <= last THEN a ELSE last) \in Nat
        BY <1>1, <1>4, <3>1
    <3> QED BY <3>1, <3>2, <3>3, <3>4 DEF a
  <2>4. origins \in [1..n -> Nat]
      BY <2>2, <2>3
  <2>5. origins \in Seq(Nat) /\ Len(origins) = n /\ DOMAIN origins = 1..n
      BY <2>1, <2>4, SequenceOf
  <2>6. ~(last <= 0)
      BY <1>1, <1>4
  <2> QED BY <2>1, <2>3, <2>5, <2>6 DEF origins, step, last, n
<1> QED BY <1>1, <1>3, <1>4

-----------------------------------------------------------------------------
\* The tiles lie in the image and advance, and there are no more than needed.
LEMMA TilesAdvance ==
    ASSUME NEW extent \in Nat, NEW tile \in Nat \ {0}
    PROVE  LET origins == AxisOrigins(extent, tile)
               step == tile - Overlap(tile)
           IN  /\ \A i \in DOMAIN origins :
                      /\ origins[i] + Min({tile, extent}) <= extent
                      /\ i > 1 => origins[i - 1] < origins[i]
               /\ (Len(origins) - 1) * step < Max({extent - tile, 0}) + step
<1> DEFINE origins == AxisOrigins(extent, tile)
           step == tile - Overlap(tile)
           last == extent - tile
           n == Len(origins)
           least == Min({tile, extent})
<1>1. /\ origins \in Seq(Nat) /\ n \in Nat \ {0} /\ DOMAIN origins = 1..n
      /\ last <= 0 => n = 1 /\ origins[1] = 0
      /\ last > 0 =>
             /\ n = (last - 1) \div step + 2
             /\ \A i \in 1..n :
                    /\ (i - 1) * step \in Nat
                    /\ origins[i] = IF (i - 1) * step <= last THEN (i - 1) * step ELSE last
    BY AxisTiles
<1>2. last \in Int /\ step \in Nat \ {0}
    BY OverlapIs
<1>3. least = IF tile <= extent THEN tile ELSE extent
    BY MinOfTwo
<1>4. Max({last, 0}) = IF last <= 0 THEN 0 ELSE last
    BY MaxOfTwo
<1>5. last > 0 => least = tile /\ last + tile = extent
    BY <1>3
<1>6. last <= 0 => least = extent
    BY <1>3
<1> HIDE DEF origins, step, last, n, least
<1>7. CASE last <= 0
  <2>1. n = 1 /\ origins[1] = 0
      BY <1>1, <1>7
  <2>2. (n - 1) * step < Max({last, 0}) + step
    <3>1. (1 - 1) * step = 0
        BY <1>2
    <3> QED BY <1>2, <1>4, <1>7, <2>1, <3>1
  <2>3. \A i \in DOMAIN origins : i = 1
      BY <1>1, <2>1
  <2>4. \A i \in DOMAIN origins : origins[i] + least <= extent /\ ~(i > 1)
      BY <1>6, <1>7, <2>1, <2>3
  <2> QED BY <2>2, <2>4 DEF origins, step, last, n, least
<1>8. CASE last > 0
  <2> DEFINE q == (last - 1) \div step
  <2>1. q \in Nat /\ q * step \in Nat /\ q * step <= last - 1 /\ n = q + 2
      BY <1>1, <1>2, <1>8, DivisionIs
  <2> HIDE DEF q
  <2>2. (n - 1) * step < last + step
    <3>1. (q + 1) * step = q * step + step
        BY <1>2, <2>1
    <3>2. n - 1 = q + 1
        BY <2>1
    <3> QED BY <1>2, <2>1, <3>1, <3>2
  <2>3. ASSUME NEW i \in 1..n
        PROVE  origins[i] + least <= extent /\ (i > 1 => origins[i - 1] < origins[i])
    <3>1. origins[i] <= last /\ origins[i] \in Nat
        BY <1>1, <1>2, <1>8
    <3>2. ASSUME i > 1 PROVE origins[i - 1] < origins[i]
      <4> DEFINE a == (i - 2) * step
                 b == (i - 1) * step
      <4>1. i - 1 \in 1..n /\ i - 2 \in Nat /\ i - 2 <= q /\ (i - 1) - 1 = i - 2
          BY <1>1, <2>1, <3>2
      <4>2. a \in Nat /\ a <= q * step
          BY <1>2, <2>1, <4>1, Monotone
      <4>3. b = a + step
        <5>1. i - 1 = (i - 2) + 1
            BY <4>1
        <5>2. ((i - 2) + 1) * step = (i - 2) * step + step
            BY <1>2, <4>1
        <5> QED BY <5>1, <5>2
      <4>4. origins[i - 1] = IF a <= last THEN a ELSE last
          BY <1>1, <1>8, <4>1
      <4>5. origins[i] = IF b <= last THEN b ELSE last
          BY <1>1, <1>8
      <4> HIDE DEF a, b
      <4> QED BY <1>2, <2>1, <4>2, <4>3, <4>4, <4>5
    <3> QED BY <1>2, <1>5, <1>8, <3>1, <3>2
  <2>4. (n - 1) * step < Max({last, 0}) + step
      BY <1>2, <1>4, <1>8, <2>2
  <2> QED BY <1>1, <2>3, <2>4 DEF origins, step, last, n, least
<1>9. last <= 0 \/ last > 0
    BY <1>2
<1> QED BY <1>7, <1>8, <1>9, Zenon

\* Whatever is no wider than the overlap, and one more, lies in a tile.
LEMMA TilesOverlap ==
    ASSUME NEW extent \in Nat, NEW tile \in Nat \ {0},
           NEW width \in 1..(Overlap(tile) + 1), NEW a \in 0..(extent - 1), a + width <= extent
    PROVE  LET origins == AxisOrigins(extent, tile)
           IN  \E i \in DOMAIN origins : origins[i] <= a /\ a + width <= origins[i] + tile
<1> DEFINE origins == AxisOrigins(extent, tile)
           overlap == Overlap(tile)
           step == tile - overlap
           last == extent - tile
           n == Len(origins)
<1>1. /\ n \in Nat \ {0} /\ DOMAIN origins = 1..n
      /\ last <= 0 => n = 1 /\ origins[1] = 0
      /\ last > 0 =>
             /\ n = (last - 1) \div step + 2
             /\ \A i \in 1..n :
                    /\ (i - 1) * step \in Nat
                    /\ origins[i] = IF (i - 1) * step <= last THEN (i - 1) * step ELSE last
    BY AxisTiles
<1>2. overlap \in Nat /\ step \in Nat \ {0} /\ tile = step + overlap
    BY OverlapIs
<1>3. last \in Int /\ extent = last + tile
    OBVIOUS
<1>4. a \in Nat /\ width \in Nat /\ width <= overlap + 1
    BY <1>2
<1> HIDE DEF origins, overlap, step, last, n
<1>5. CASE last <= 0
    BY <1>1, <1>3, <1>4, <1>5 DEF origins
<1>6. CASE last > 0
  <2> DEFINE q == (last - 1) \div step
  <2>1. q \in Nat /\ q * step \in Nat /\ last - 1 < q * step + step /\ n = q + 2
      BY <1>1, <1>2, <1>3, <1>6, DivisionIs
  <2> HIDE DEF q
  <2>2. CASE a >= last
    <3> DEFINE b == (q + 1) * step
    <3>1. b = q * step + step
        BY <1>2, <2>1
    <3>2. b \in Nat /\ last <= b
        BY <1>2, <1>3, <2>1, <3>1
    <3>3. n \in 1..n /\ n - 1 = q + 1
        BY <2>1
    <3>4. origins[n] = IF b <= last THEN b ELSE last
        BY <1>1, <1>6, <3>3
    <3> HIDE DEF b
    <3>5. origins[n] = last
        BY <1>3, <3>2, <3>4
    <3> QED BY <1>1, <1>3, <1>4, <2>2, <3>3, <3>5 DEF origins
  <2>3. CASE a < last
    <3> DEFINE k == a \div step
               b == k * step
    <3>1. k \in Nat /\ b \in Nat /\ b <= a /\ a < b + step
        BY <1>2, <1>4, DivisionIs
    <3> HIDE DEF k
    <3>2. k <= q
      <4>1. ASSUME q + 1 <= k PROVE FALSE
        <5>1. (q + 1) * step <= k * step
            BY <1>2, <2>1, <3>1, <4>1, Monotone
        <5>2. (q + 1) * step = q * step + step
            BY <1>2, <2>1
        <5> HIDE DEF b
        <5> QED BY <1>2, <1>3, <1>4, <2>1, <2>3, <3>1, <5>1, <5>2 DEF b
      <4> QED BY <2>1, <3>1, <4>1
    <3>3. k + 1 \in 1..n /\ (k + 1) - 1 = k
        BY <2>1, <3>1, <3>2
    <3>4. origins[k + 1] = IF b <= last THEN b ELSE last
        BY <1>1, <1>6, <3>3
    <3> HIDE DEF b
    <3>5. origins[k + 1] = b
        BY <1>3, <1>4, <2>3, <3>1, <3>4
    <3>6. b <= a /\ a + width <= b + tile
        BY <1>2, <1>4, <3>1
    <3> QED BY <1>1, <3>3, <3>5, <3>6 DEF origins
  <2> QED BY <1>3, <1>4, <2>2, <2>3
<1> QED BY <1>3, <1>5, <1>6

-----------------------------------------------------------------------------
(* Merging the detections of the tiles.                                    *)

FoundBoxRecords == [x : Int, width : Nat, confidence : Int, geometry : Int]

\* Boxes without extent, and the boxes that are duplicates of a box.
EmptyBoxes == {d \in FoundBoxRecords : d.width = 0}
BoxesLike == [d \in FoundBoxRecords |-> {k \in FoundBoxRecords : IoUAbove(d, k)}]

LEMMA KeepIfNewIs ==
    ASSUME NEW kept \in Seq(FoundBoxRecords), NEW d \in FoundBoxRecords
    PROVE  Suppression(FoundBoxRecords, EmptyBoxes, BoxesLike, maximum_detections)[kept][d]
             = KeepIfNew(kept, d)
<1>1. d \in EmptyBoxes <=> d.width = 0
    BY DEF EmptyBoxes
<1>2. \A i \in DOMAIN kept : kept[i] \in BoxesLike[d] <=> IoUAbove(d, kept[i])
    BY DEF BoxesLike
<1> QED BY <1>1, <1>2 DEF Suppression, KeepIfNew, Duplicate

\* What merge_detections keeps of the sorted detections.
LEMMA MergedAre ==
    ASSUME NEW s \in Seq(FoundBoxRecords)
    PROVE  LET kept == FoldLeft(KeepIfNew, <<>>, s)
           IN  /\ kept \in Seq(FoundBoxRecords)
               /\ Survivors(kept, s, Len(s), EmptyBoxes, BoxesLike, maximum_detections)
<1> DEFINE E == FoundBoxRecords
           V == Seq(E)
           D == 1..Len(s)
           F == Suppression(E, EmptyBoxes, BoxesLike, maximum_detections)
           Eq(h) == h = [T \in SUBSET D |->
                            IF T = {} THEN <<>> ELSE KeepIfNew(h[T \ {Max(T)}], s[Max(T)])]
           h == CHOOSE f : Eq(f)
<1>0. s \in Seq(E)
    OBVIOUS
<1>1. Indices(D) /\ DOMAIN s = D
    BY IndicesOf
<1>2. F \in [V -> [E -> V]]
    BY SuppressionTyped
<1>3. \A v \in V : \A e \in E : F[v][e] = KeepIfNew(v, e)
    BY KeepIfNewIs
<1>4. \A v \in V : \A e \in E : F[v][e] \in V
    BY <1>2
<1>5. <<>> \in V
    BY EmptySeq
<1>6. FoldLeft(KeepIfNew, <<>>, s) = h[D]
  <2> HIDE DEF D
  <2> QED BY <1>1, Zenon DEF FoldLeft, MapThenFoldSet
<1> HIDE DEF F, h
<1>7. \A T \in SUBSET D : T # {} => T \ {Max(T)} \in SUBSET D /\ s[Max(T)] \in E
  <2> SUFFICES ASSUME NEW T \in SUBSET D, T # {}
               PROVE  T \ {Max(T)} \in SUBSET D /\ s[Max(T)] \in E
      OBVIOUS
  <2>1. Max(T) \in T /\ T \ {Max(T)} \in SUBSET D
      BY <1>1, MaxOfPart
  <2>2. Max(T) \in 1..Len(s)
      BY <2>1
  <2> HIDE DEF D, E
  <2> QED BY <1>0, <2>1, <2>2
<1>8. Eq(h)
  <2>1. PICK g : Folding(g, F, <<>>, s, D)
      BY <1>1, FoldingExists
  <2>2. \A T \in SUBSET D : g[T] \in V
      BY ONLY <1>4, <1>5, <2>1, s \in Seq(E), FoldingTyped
  <2>3. g = [T \in SUBSET D |-> IF T = {} THEN <<>> ELSE F[g[T \ {Max(T)}]][s[Max(T)]]]
      BY ONLY <2>1, Zenon DEF Folding
  <2> HIDE DEF D, E, V
  <2>4. \A T \in SUBSET D : T # {} =>
            F[g[T \ {Max(T)}]][s[Max(T)]] = KeepIfNew(g[T \ {Max(T)}], s[Max(T)])
      BY <1>3, <1>7, <2>2, Zenon
  <2>5. Eq(g)
      BY ONLY <2>3, <2>4, Zenon
  <2> QED BY <2>5, Zenon DEF h
<1> DEFINE W == V \cup {h[T] : T \in SUBSET D}
           G == [v \in W |-> [e \in E |-> KeepIfNew(v, e)]]
<1>9. Folding(h, G, <<>>, s, D)
  <2> HIDE DEF D, E, V
  <2>1. \A T \in SUBSET D : T # {} =>
            G[h[T \ {Max(T)}]][s[Max(T)]] = KeepIfNew(h[T \ {Max(T)}], s[Max(T)])
    <3>1. \A v \in W : \A e \in E : G[v][e] = KeepIfNew(v, e)
        BY Zenon
    <3>2. \A T \in SUBSET D : h[T] \in W
        BY Zenon
    <3> HIDE DEF G, W
    <3> QED BY <1>7, <3>1, <3>2, Zenon
  <2> HIDE DEF G
  <2> QED BY <1>8, <2>1, Zenon DEF Folding
<1>10. \A v \in V : \A e \in E : G[v][e] = F[v][e]
    BY <1>3, Zenon
<1> HIDE DEF G, Eq
<1>11. FoldsTo(h[D], V, F, <<>>, s)
    BY ONLY <1>4, <1>5, <1>9, <1>10, s \in Seq(E), FoldsLike
<1>12. maximum_detections \in Nat
    BY TileAssumption
<1> HIDE DEF E, V
<1>13. h[D] \in V /\ Survivors(h[D], s, Len(s), EmptyBoxes, BoxesLike, maximum_detections)
    BY ONLY <1>11, <1>12, <1>0, SurvivorsAre DEF F, V
<1> QED BY <1>6, <1>13 DEF E, V

Stronger(a, b) ==
    \/ a.confidence > b.confidence
    \/ a.confidence = b.confidence /\ a.geometry >= b.geometry

\* stable_sort.
LEMMA StrongestFirstIs ==
    ASSUME NEW s \in Seq(FoundBoxRecords)
    PROVE  LET sorted == StrongestFirst(s)
               n == Len(s)
           IN  /\ sorted \in Seq(FoundBoxRecords) /\ Len(sorted) = n
               /\ \A k \in 1..n : \E i \in 1..n : sorted[k] = s[i]
               /\ \A i \in 1..n : \E k \in 1..n : sorted[k] = s[i]
               /\ \A k, l \in 1..n : k <= l => Stronger(sorted[k], sorted[l])
<1> DEFINE n == Len(s)
           D == DOMAIN s
           first(i) == {j \in D :
                          LET a == s[i]  b == s[j] IN
                          \/ b.confidence > a.confidence
                          \/ b.confidence = a.confidence /\ b.geometry > a.geometry
                          \/ b.confidence = a.confidence /\ b.geometry = a.geometry /\ j < i}
           before == [i \in D |-> first(i)]
           order == [k \in D |-> CHOOSE i \in D : Cardinality(first(i)) + 1 = k]
           sorted == StrongestFirst(s)
<1>7. sorted = [k \in D |-> s[order[k]]]
  <2>1. sorted = [k \in D |-> s[CHOOSE i \in D : Cardinality(first(i)) + 1 = k]]
      BY Zenon DEF StrongestFirst
  <2> HIDE DEF D, first, sorted
  <2> QED BY <2>1
<1>0. n \in Nat /\ D = 1..n /\ s \in [D -> FoundBoxRecords]
    OBVIOUS
<1> HIDE DEF sorted, D
<1>1. \A i \in D : s[i].confidence \in Int /\ s[i].geometry \in Int
    BY <1>0 DEF FoundBoxRecords
<1>2. IsFiniteSet(D) /\ Cardinality(D) = n /\ 1..Cardinality(D) = D
    BY <1>0, FS_Interval
<1>3. before \in [D -> SUBSET D]
    OBVIOUS
<1> HIDE DEF n
<1>4. Ordering(before, D)
  <2>1. \A i \in D : i \notin before[i]
      BY <1>0, <1>1
  <2>2. \A i, j, k \in D : i \in before[j] /\ j \in before[k] => i \in before[k]
    <3> SUFFICES ASSUME NEW i \in D, NEW j \in D, NEW k \in D,
                        i \in before[j], j \in before[k]
                 PROVE  i \in before[k]
        OBVIOUS
    <3>1. /\ i \in Int /\ j \in Int /\ k \in Int
          /\ s[i].confidence \in Int /\ s[j].confidence \in Int /\ s[k].confidence \in Int
          /\ s[i].geometry \in Int /\ s[j].geometry \in Int /\ s[k].geometry \in Int
        BY <1>0, <1>1
    <3> QED BY <3>1
  <2>3. \A i, j \in D : i = j \/ i \in before[j] \/ j \in before[i]
    <3> SUFFICES ASSUME NEW i \in D, NEW j \in D, i # j, i \notin before[j]
                 PROVE  j \in before[i]
        OBVIOUS
    <3>1. /\ i \in Int /\ j \in Int
          /\ s[i].confidence \in Int /\ s[j].confidence \in Int
          /\ s[i].geometry \in Int /\ s[j].geometry \in Int
        BY <1>0, <1>1
    <3> QED BY <3>1
  <2> HIDE DEF before
  <2> QED BY <2>1, <2>2, <2>3 DEF Ordering
<1>5. \A i \in D : Placed(D, before)[i] = Cardinality(first(i)) + 1
  <2>1. \A i \in D : before[i] = first(i)
      OBVIOUS
  <2> HIDE DEF first, before
  <2> QED BY <2>1 DEF Placed
<1> HIDE DEF first
<1>6. Arranged(order, D, before)
  <2>1. \A k \in 1..Cardinality(D) :
            (\E a \in D : Placed(D, before)[a] = k) =>
                order[k] \in D /\ Placed(D, before)[order[k]] = k
    <3> SUFFICES ASSUME NEW k \in D, NEW a \in D, Placed(D, before)[a] = k
                 PROVE  order[k] \in D /\ Placed(D, before)[order[k]] = k
        BY <1>2
    <3>1. Cardinality(first(a)) + 1 = k
        BY <1>5
    <3>2. order[k] \in D /\ Cardinality(first(order[k])) + 1 = k
        BY <3>1
    <3> QED BY <1>5, <3>2
  <2>2. order = [k \in 1..Cardinality(D) |-> order[k]]
      BY <1>2
  <2> HIDE DEF order, before, D
  <2> QED BY ONLY <1>2, <1>3, <1>4, <2>1, <2>2, ArrangedIs
<1> HIDE DEF order
<1>8. /\ order \in [D -> D]
      /\ \A i \in D : \E k \in D : order[k] = i
      /\ \A k, l \in D : k < l => order[k] \in before[order[l]]
    BY <1>2, <1>6 DEF Arranged
<1>9. sorted \in [D -> FoundBoxRecords]
    BY <1>0, <1>7, <1>8
<1>10. sorted \in Seq(FoundBoxRecords) /\ Len(sorted) = n
    BY <1>0, <1>9, SequenceOf
<1>11. \A k \in D : sorted[k] = s[order[k]] /\ order[k] \in D
    BY <1>7, <1>8
<1>12. ASSUME NEW k \in D, NEW l \in D, k <= l PROVE Stronger(sorted[k], sorted[l])
  <2>1. CASE k = l
      BY <1>1, <1>11, <2>1 DEF Stronger
  <2>2. CASE k < l
    <3>1. order[k] \in before[order[l]]
        BY <1>8, <2>2
    <3>2. order[k] \in first(order[l])
        BY <1>11, <3>1
    <3> DEFINE a == s[order[l]]
               b == s[order[k]]
    <3>3. /\ a.confidence \in Int /\ b.confidence \in Int
          /\ a.geometry \in Int /\ b.geometry \in Int
        BY <1>1, <1>11
    <3>4. \/ b.confidence > a.confidence
          \/ b.confidence = a.confidence /\ b.geometry > a.geometry
          \/ b.confidence = a.confidence /\ b.geometry = a.geometry
        BY <3>2 DEF first
    <3>5. Stronger(b, a)
      <4> HIDE DEF a, b
      <4> QED BY <3>3, <3>4 DEF Stronger
    <3> QED BY <1>11, <3>5
  <2> QED BY <1>0, <1>12, <2>1, <2>2
<1>13. ASSUME NEW i \in D PROVE \E k \in D : sorted[k] = s[i]
  <2>1. PICK k \in D : order[k] = i
      BY <1>8
  <2> QED BY <1>11, <2>1
<1>14. \A k \in D : \E i \in D : sorted[k] = s[i]
    BY <1>11
<1> QED BY <1>0, <1>10, <1>12, <1>13, <1>14 DEF sorted, n

\* Overlap is mutual.
LEMMA AlikeBothWays ==
    \A a, b \in FoundBoxRecords : IoUAbove(a, b) <=> IoUAbove(b, a)
<1> SUFFICES ASSUME NEW a \in FoundBoxRecords, NEW b \in FoundBoxRecords
             PROVE  IoUAbove(a, b) <=> IoUAbove(b, a)
    OBVIOUS
<1>1. Intersection(a, b) = Intersection(b, a)
  <2>1. {a.x + a.width, b.x + b.width} = {b.x + b.width, a.x + a.width} /\ {a.x, b.x} = {b.x, a.x}
      OBVIOUS
  <2> QED BY <2>1 DEF Intersection
<1>2. BoxUnion(a, b) = BoxUnion(b, a)
  <2>1. a.width \in Int /\ b.width \in Int /\ a.x \in Int /\ b.x \in Int
      BY DEF FoundBoxRecords
  <2>2. Intersection(a, b) \in Int
    <3> DEFINE right == Min({a.x + a.width, b.x + b.width})
               left == Max({a.x, b.x})
    <3>1. right \in Int /\ left \in Int
        BY <2>1, MinOfTwo, MaxOfTwo
    <3> HIDE DEF right, left
    <3>2. Max({0, right - left}) \in Int
        BY <3>1, MaxOfTwo
    <3> QED BY <3>2 DEF Intersection, right, left
  <2> QED BY <1>1, <2>1, <2>2 DEF BoxUnion
<1> QED BY <1>1, <1>2 DEF IoUAbove

\* merge_detections: what is kept of detections.
LEMMA MergeIs ==
    ASSUME NEW s \in Seq(FoundBoxRecords)
    PROVE  LET kept == MergeDetections(s)
           IN  /\ \A i, j \in DOMAIN kept : i # j => ~IoUAbove(kept[i], kept[j])
               /\ \A i \in DOMAIN kept : \E l \in DOMAIN s : kept[i] = s[l]
               /\ \A l \in DOMAIN s : s[l].width > 0 =>
                      \/ \E i \in DOMAIN kept :
                             /\ Stronger(kept[i], s[l])
                             /\ kept[i] = s[l] \/ IoUAbove(kept[i], s[l])
                      \/ /\ Len(kept) = maximum_detections
                         /\ \A i \in DOMAIN kept : Stronger(kept[i], s[l])
<1> DEFINE sorted == StrongestFirst(s)
           kept == MergeDetections(s)
           E == FoundBoxRecords
           n == Len(s)
           m == Len(kept)
<1>1. /\ sorted \in Seq(E) /\ Len(sorted) = n
      /\ \A k \in 1..n : \E i \in 1..n : sorted[k] = s[i]
      /\ \A i \in 1..n : \E k \in 1..n : sorted[k] = s[i]
      /\ \A k, l \in 1..n : k <= l => Stronger(sorted[k], sorted[l])
    BY StrongestFirstIs
<1>2. kept = FoldLeft(KeepIfNew, <<>>, sorted)
    BY Zenon DEF MergeDetections
<1>3. n \in Nat /\ DOMAIN s = 1..n /\ \A l \in 1..n : s[l] \in E
    OBVIOUS
<1> HIDE DEF sorted, E, n
<1>4. kept \in Seq(E) /\ Survivors(kept, sorted, n, EmptyBoxes, BoxesLike, maximum_detections)
  <2> HIDE DEF kept
  <2> QED BY <1>1, <1>2, MergedAre DEF E
<1> HIDE DEF kept
<1>5. m \in Nat /\ DOMAIN kept = 1..m /\ kept \in [1..m -> E]
    BY <1>4
<1> HIDE DEF m
<1>6. PICK p : KeptOf(kept, p, sorted, n, EmptyBoxes, BoxesLike, maximum_detections)
    BY <1>4 DEF Survivors
<1>7. /\ p \in [1..m -> 1..n]
      /\ \A i, j \in 1..m : i < j => kept[i] \notin BoxesLike[kept[j]]
      /\ \A i \in 1..m : kept[i] = sorted[p[i]]
      /\ \A l \in 1..n :
             \/ sorted[l] \in EmptyBoxes
             \/ \E i \in 1..m :
                    p[i] <= l /\ (kept[i] = sorted[l] \/ kept[i] \in BoxesLike[sorted[l]])
             \/ m = maximum_detections /\ \A i \in 1..m : p[i] <= l
    BY <1>6 DEF KeptOf, m
<1>8. \A a, b \in E : IoUAbove(a, b) <=> IoUAbove(b, a)
    BY AlikeBothWays DEF E
<1>9. ASSUME NEW i \in 1..m, NEW j \in 1..m, i # j PROVE ~IoUAbove(kept[i], kept[j])
  <2>1. \A a, b \in 1..m : a < b => ~IoUAbove(kept[b], kept[a])
      BY <1>5, <1>7 DEF BoxesLike, E
  <2>2. i < j \/ j < i
      BY <1>5, <1>9
  <2>3. kept[i] \in E /\ kept[j] \in E
      BY <1>5
  <2> QED BY <1>8, <2>1, <2>2, <2>3
<1>0. \A i \in 1..m : p[i] \in 1..n /\ kept[i] = sorted[p[i]]
    BY <1>7
<1>10. ASSUME NEW i \in 1..m PROVE \E l \in 1..n : kept[i] = s[l]
  <2>1. p[i] \in 1..n /\ kept[i] = sorted[p[i]]
      BY <1>0
  <2>2. \A k \in 1..n : \E l \in 1..n : sorted[k] = s[l]
      BY ONLY <1>1
  <2>3. PICK l \in 1..n : sorted[p[i]] = s[l]
      BY ONLY <2>1, <2>2
  <2> QED BY <2>1, <2>3
<1>11. ASSUME NEW l \in 1..n, s[l].width > 0
       PROVE  \/ \E i \in 1..m :
                     Stronger(kept[i], s[l]) /\ (kept[i] = s[l] \/ IoUAbove(kept[i], s[l]))
              \/ m = maximum_detections /\ \A i \in 1..m : Stronger(kept[i], s[l])
  <2>1. PICK k \in 1..n : sorted[k] = s[l]
      BY <1>1
  <2>2. s[l] \in E /\ s[l].width \in Nat
      BY <1>3 DEF E, FoundBoxRecords
  <2>3. s[l] \notin EmptyBoxes
      BY <1>11, <2>2 DEF EmptyBoxes
  <2>4. \A i \in 1..m : p[i] <= k => Stronger(kept[i], s[l])
    <3> SUFFICES ASSUME NEW i \in 1..m, p[i] <= k PROVE Stronger(kept[i], s[l])
        OBVIOUS
    <3>1. p[i] \in 1..n /\ kept[i] = sorted[p[i]]
        BY <1>0
    <3>2. \A a, b \in 1..n : a <= b => Stronger(sorted[a], sorted[b])
        BY ONLY <1>1
    <3> QED BY ONLY p[i] <= k, <2>1, <3>1, <3>2
  <2>5. \A i \in 1..m : kept[i] \in BoxesLike[s[l]] => IoUAbove(kept[i], s[l])
      BY <1>5, <1>8, <2>2 DEF BoxesLike, E
  <2> QED BY <1>7, <2>1, <2>3, <2>4, <2>5
<1> QED BY <1>3, <1>5, <1>9, <1>10, <1>11 DEF kept, m, n

\* The elements of two sequences, one after the other.
LEMMA JoinedElements ==
    ASSUME NEW S, NEW a \in Seq(S), NEW b \in Seq(S)
    PROVE  a \o b \in Seq(S) /\ ToSet(a \o b) = ToSet(a) \cup ToSet(b)
<1>1. /\ a \o b \in Seq(S) /\ Len(a) \in Nat /\ Len(b) \in Nat
      /\ DOMAIN a = 1..Len(a) /\ DOMAIN b = 1..Len(b)
      /\ DOMAIN (a \o b) = 1..(Len(a) + Len(b))
    OBVIOUS
<1>2. \A i \in 1..Len(a) : i \in 1..(Len(a) + Len(b)) /\ (a \o b)[i] = a[i]
    BY <1>1
<1>3. ASSUME NEW i \in 1..Len(b)
      PROVE  Len(a) + i \in 1..(Len(a) + Len(b)) /\ (a \o b)[Len(a) + i] = b[i]
    BY <1>1
<1>4. \A i \in 1..(Len(a) + Len(b)) : i \notin 1..Len(a) =>
          i - Len(a) \in 1..Len(b) /\ (a \o b)[i] = b[i - Len(a)]
    BY <1>1
<1> DEFINE c == a \o b
<1> HIDE DEF c
<1>5. ToSet(c) \subseteq ToSet(a) \cup ToSet(b)
    BY <1>1, <1>2, <1>4 DEF ToSet, c
<1>6. ToSet(a) \subseteq ToSet(c)
    BY <1>1, <1>2 DEF ToSet, c
<1>7. ToSet(b) \subseteq ToSet(c)
    BY <1>1, <1>3 DEF ToSet, c
<1> QED BY <1>1, <1>5, <1>6, <1>7 DEF c

\* All the detections, of the whole image and of the tiles.
Joining(S) == [all \in Seq(S) |-> [more \in Seq(S) |-> all \o more]]

LEMMA JoinedAre ==
    ASSUME NEW S, NEW whole \in Seq(S), NEW s \in Seq(Seq(S))
    PROVE  LET joined == FoldLeft(LAMBDA all, more : all \o more, whole, s)
           IN  /\ joined \in Seq(S)
               /\ ToSet(joined) = ToSet(whole) \cup UNION {ToSet(s[i]) : i \in DOMAIN s}
<1> DEFINE V == Seq(S)
           D == 1..Len(s)
           F == Joining(S)
           Eq(h) == h = [T \in SUBSET D |->
                            IF T = {} THEN whole ELSE h[T \ {Max(T)}] \o s[Max(T)]]
           h == CHOOSE f : Eq(f)
           joined == FoldLeft(LAMBDA all, more : all \o more, whole, s)
<1>0. s \in Seq(V) /\ whole \in V
    OBVIOUS
<1>1. Indices(D) /\ DOMAIN s = D
    BY IndicesOf
<1>3. \A v \in V : \A e \in V : F[v][e] = v \o e
    BY DEF Joining
<1>4. \A v \in V : \A e \in V : F[v][e] \in V
    BY <1>3, JoinedElements
<1>6. joined = h[D]
  <2> HIDE DEF D
  <2> QED BY <1>1, Zenon DEF FoldLeft, MapThenFoldSet
<1> HIDE DEF F, h, joined
<1>7. \A T \in SUBSET D : T # {} => T \ {Max(T)} \in SUBSET D /\ s[Max(T)] \in V
  <2> SUFFICES ASSUME NEW T \in SUBSET D, T # {}
               PROVE  T \ {Max(T)} \in SUBSET D /\ s[Max(T)] \in V
      OBVIOUS
  <2>1. Max(T) \in T /\ T \ {Max(T)} \in SUBSET D
      BY <1>1, MaxOfPart
  <2>2. Max(T) \in 1..Len(s)
      BY <2>1
  <2> HIDE DEF D, V
  <2> QED BY <1>0, <2>1, <2>2
<1>8. Eq(h)
  <2>1. PICK g : Folding(g, F, whole, s, D)
      BY <1>1, FoldingExists
  <2>2. \A T \in SUBSET D : g[T] \in V
      BY ONLY <1>0, <1>4, <2>1, FoldingTyped
  <2>3. g = [T \in SUBSET D |-> IF T = {} THEN whole ELSE F[g[T \ {Max(T)}]][s[Max(T)]]]
      BY ONLY <2>1, Zenon DEF Folding
  <2> HIDE DEF D, V
  <2>4. \A T \in SUBSET D : T # {} =>
            F[g[T \ {Max(T)}]][s[Max(T)]] = g[T \ {Max(T)}] \o s[Max(T)]
      BY <1>3, <1>7, <2>2, Zenon
  <2>5. Eq(g)
      BY ONLY <2>3, <2>4, Zenon
  <2> QED BY <2>5, Zenon DEF h
<1> DEFINE W == V \cup {h[T] : T \in SUBSET D}
           G == [v \in W |-> [e \in V |-> v \o e]]
<1>9. Folding(h, G, whole, s, D)
  <2> HIDE DEF D, V
  <2>1. \A T \in SUBSET D : T # {} =>
            G[h[T \ {Max(T)}]][s[Max(T)]] = h[T \ {Max(T)}] \o s[Max(T)]
    <3>1. \A v \in W : \A e \in V : G[v][e] = v \o e
        BY Zenon
    <3>2. \A T \in SUBSET D : h[T] \in W
        BY Zenon
    <3> HIDE DEF G, W
    <3> QED BY <1>7, <3>1, <3>2, Zenon
  <2> HIDE DEF G
  <2> QED BY <1>8, <2>1, Zenon DEF Folding
<1>10. \A v \in V : \A e \in V : G[v][e] = F[v][e]
    BY <1>3, Zenon
<1> HIDE DEF G, Eq
<1>11. FoldsTo(h[D], V, F, whole, s)
    BY ONLY <1>0, <1>4, <1>9, <1>10, FoldsLike
<1> DEFINE n == Len(s)
<1>12. PICK m \in [0..n -> V] :
           m[0] = whole /\ joined = m[n] /\ \A k \in 1..n : m[k] = F[m[k - 1]][s[k]]
    BY <1>6, <1>11 DEF FoldsTo
<1>13. n \in Nat /\ \A k \in 1..n : s[k] \in V
    BY <1>0
<1> DEFINE elements(k) == ToSet(whole) \cup UNION {ToSet(s[i]) : i \in 1..k}
           B == {k \in 0..n : ToSet(m[k]) # elements(k)}
<1> HIDE DEF n, V
<1>14. ASSUME B # {} PROVE FALSE
  <2>1. B \in SUBSET Nat
      BY <1>13
  <2>2. PICK k \in B : \A l \in B : k <= l
    <3> HIDE DEF B
    <3> QED BY <1>14, <2>1, LeastNatural
  <2>3. k \in 0..n /\ ToSet(m[k]) # elements(k)
      BY <2>2
  <2>4. CASE k = 0
    <3>1. 1..k = {}
        BY <2>4
    <3> QED BY <1>12, <2>3, <2>4, <3>1
  <2>5. CASE k # 0
    <3>1. k \in 1..n /\ k - 1 \in 0..n /\ k - 1 < k
        BY <1>13, <2>3, <2>5
    <3>2. k - 1 \notin B
      <4>1. k \in Int /\ ~(k <= k - 1)
          BY <1>13, <3>1
      <4> HIDE DEF B
      <4> QED BY ONLY <2>2, <4>1
    <3>3. ToSet(m[k - 1]) = elements(k - 1)
        BY <3>1, <3>2
    <3>4. m[k - 1] \in V /\ s[k] \in V /\ m[k] = m[k - 1] \o s[k]
        BY <1>3, <1>12, <1>13, <3>1
    <3>5. ToSet(m[k]) = ToSet(m[k - 1]) \cup ToSet(s[k])
        BY <3>4, JoinedElements DEF V
    <3>6. 1..k = (1..(k - 1)) \cup {k}
        BY <1>13, <3>1
    <3>7. elements(k) = elements(k - 1) \cup ToSet(s[k])
        BY <3>6
    <3> QED BY <2>3, <3>3, <3>5, <3>7
  <2> QED BY <2>4, <2>5
<1>15. n \in 0..n
    BY <1>13
<1>16. ToSet(m[n]) = elements(n)
    BY <1>14, <1>15
<1> QED BY <1>1, <1>12, <1>15, <1>16, ZenonT(40) DEF joined, n, V

\* A box of a tile, cut at the borders of the image.
LEMMA TranslatedIs ==
    ASSUME NEW d \in FoundBoxRecords, NEW offset \in Int, NEW extent \in Nat
    PROVE  LET moved == TranslateDetection(d, offset, extent)
           IN  moved \in FoundBoxRecords /\ moved.x >= 0 /\ moved.x + moved.width <= extent
<1> DEFINE x1 == Clamp(d.x + offset, extent)
           x2 == Clamp(d.x + offset + d.width, extent)
<1>1. \A v \in Int : Clamp(v, extent) = IF v <= 0 THEN 0 ELSE IF v <= extent THEN v ELSE extent
  <2> SUFFICES ASSUME NEW v \in Int
               PROVE  Clamp(v, extent) = IF v <= 0 THEN 0 ELSE IF v <= extent THEN v ELSE extent
      OBVIOUS
  <2> DEFINE c == Min({v, extent})
  <2>1. c = IF v <= extent THEN v ELSE extent
      BY MinOfTwo
  <2>2. c \in Int
      BY <2>1
  <2> HIDE DEF c
  <2>3. Max({0, c}) = IF 0 <= c THEN c ELSE 0
      BY <2>2, MaxOfTwo
  <2> QED BY <2>1, <2>2, <2>3 DEF Clamp, c
<1>2. d.x \in Int /\ d.width \in Nat /\ d.x + offset \in Int /\ d.x + offset + d.width \in Int
    BY DEF FoundBoxRecords
<1>3. x1 \in Nat /\ x2 \in Nat /\ x1 <= x2 /\ x2 <= extent
    BY <1>1, <1>2
<1> HIDE DEF x1, x2
<1>4. TranslateDetection(d, offset, extent) = [d EXCEPT !.x = x1, !.width = x2 - x1]
    BY DEF TranslateDetection, x1, x2
<1>5. x2 - x1 \in Nat
    BY <1>3
<1> DEFINE moved == TranslateDetection(d, offset, extent)
<1>6. moved \in FoundBoxRecords
  <2>1. d \in [x : Int, width : Nat, confidence : Int, geometry : Int] /\ x1 \in Int
      BY <1>3 DEF FoundBoxRecords
  <2>2. [d EXCEPT !.x = x1, !.width = x2 - x1]
            \in [x : Int, width : Nat, confidence : Int, geometry : Int]
      BY ONLY <1>5, <2>1
  <2> QED BY <1>4, <2>2, Zenon DEF FoundBoxRecords
<1>7. moved.x = x1 /\ moved.width = x2 - x1
    BY <1>4 DEF FoundBoxRecords
<1> HIDE DEF moved
<1>8. moved.x >= 0 /\ moved.x + moved.width <= extent
    BY <1>3, <1>7
<1> QED BY <1>6, <1>8 DEF moved

-----------------------------------------------------------------------------
(* The inputs of the tile detector.                                        *)

TilesInv ==
    input.of = "tiles" =>
        /\ input.extent \in 1..MaxExtent
        /\ input.whole \in Seq(FoundBoxRecords)
        /\ input.found \in [DOMAIN AxisOrigins(input.extent, tile_width) -> Seq(FoundBoxRecords)]

LEMMA TilesInvInit == Init => TilesInv
<1> SUFFICES ASSUME FirstInputs PROVE TilesInv
    BY InitIsFirst
<1>1. <<>> \in Seq(FoundBoxRecords)
    BY EmptySeq
<1>2. ASSUME input.of = "tiles"
      PROVE  input.found \in
                 [DOMAIN AxisOrigins(input.extent, tile_width) -> Seq(FoundBoxRecords)]
    BY <1>1, <1>2 DEF FirstInputs
<1> QED BY <1>1, <1>2 DEF FirstInputs, TilesInv

LEMMA TilesInvStep == TilesInv /\ [Next]_<<input, viewsVars>> => TilesInv'
<1> SUFFICES ASSUME TilesInv, [Next]_<<input, viewsVars>>, input'.of = "tiles"
             PROVE  /\ input'.extent \in 1..MaxExtent
                    /\ input'.whole \in Seq(FoundBoxRecords)
                    /\ input'.found \in [DOMAIN AxisOrigins(input'.extent, tile_width)
                                            -> Seq(FoundBoxRecords)]
    BY Zenon DEF TilesInv
<1>1. CASE input' = input
    BY <1>1 DEF TilesInv
<1>2. CASE NextInputs
  <2>1. PICK d \in FoundBoxes :
            /\ input.of = "tiles" /\ input'.extent = input.extent
            /\ \/ input'.whole = Append(input.whole, d) /\ input'.found = input.found
               \/ /\ input'.whole = input.whole
                  /\ \E i \in DOMAIN input.found :
                         input'.found = [input.found EXCEPT ![i] = Append(@, d)]
      BY <1>2 DEF NextInputs
  <2>2. d \in FoundBoxRecords
      BY TilesInputAssumption DEF FoundBoxRecords
  <2> DEFINE whole == input.whole
             found == input.found
             D == DOMAIN AxisOrigins(input.extent, tile_width)
  <2>3. whole \in Seq(FoundBoxRecords) /\ found \in [D -> Seq(FoundBoxRecords)]
      BY <2>1 DEF TilesInv
  <2>4. \A s \in Seq(FoundBoxRecords) : Append(s, d) \in Seq(FoundBoxRecords)
      BY <2>2, AppendProperties
  <2> HIDE DEF D
  <2>5. \A i \in D : [found EXCEPT ![i] = Append(@, d)] \in [D -> Seq(FoundBoxRecords)]
    <3> HIDE DEF found
    <3> QED BY <2>3, <2>4
  <2>6. input'.whole \in Seq(FoundBoxRecords)
      BY <2>1, <2>3, <2>4
  <2>7. input'.found \in [D -> Seq(FoundBoxRecords)]
      BY <2>1, <2>3, <2>5
  <2>8. input'.extent = input.extent /\ input.extent \in 1..MaxExtent
      BY <2>1 DEF TilesInv
  <2> QED BY <2>6, <2>7, <2>8 DEF D
<1> QED BY <1>1, <1>2, StepIsNext

\* The boxes of the tiles, moved to where they are in the image, and all of them.
MovedBoxes(width, found) ==
    LET origins == AxisOrigins(width, tile_width)
    IN  [i \in DOMAIN origins |->
            [k \in DOMAIN found[i] |-> TranslateDetection(found[i][k], origins[i], width)]]
TiledBoxes(width, found) ==
    LET origins == AxisOrigins(width, tile_width)
    IN  UNION {{TranslateDetection(found[i][k], origins[i], width) : k \in DOMAIN found[i]} :
                  i \in DOMAIN origins}

LEMMA TilesBoxesAre ==
    ASSUME NEW width \in Nat,
           NEW found \in [DOMAIN AxisOrigins(width, tile_width) -> Seq(FoundBoxRecords)]
    PROVE  LET moved == MovedBoxes(width, found)
           IN  /\ moved \in Seq(Seq(FoundBoxRecords))
               /\ \A i \in DOMAIN moved : \A d \in ToSet(moved[i]) :
                      d.x >= 0 /\ d.x + d.width <= width
               /\ UNION {ToSet(moved[i]) : i \in DOMAIN moved} = TiledBoxes(width, found)
<1> DEFINE origins == AxisOrigins(width, tile_width)
           n == Len(origins)
           row(i) == [k \in DOMAIN found[i] |->
                         TranslateDetection(found[i][k], origins[i], width)]
           moved == [i \in DOMAIN origins |-> row(i)]
<1>1. origins \in Seq(Nat) /\ n \in Nat /\ DOMAIN origins = 1..n
  <2>1. tile_width \in Nat \ {0}
      BY TileAssumption
  <2> QED BY <2>1, AxisTiles
<1>2. \A i \in 1..n : origins[i] \in Nat
    BY <1>1
<1>3. found \in [1..n -> Seq(FoundBoxRecords)]
    BY <1>1
<1> HIDE DEF origins, n
<1>4. ASSUME NEW i \in 1..n
      PROVE  /\ row(i) \in Seq(FoundBoxRecords) /\ DOMAIN row(i) = DOMAIN found[i]
             /\ \A d \in ToSet(row(i)) : d.x >= 0 /\ d.x + d.width <= width
  <2> DEFINE s == found[i]
             m == Len(s)
  <2>1. s \in Seq(FoundBoxRecords) /\ m \in Nat /\ DOMAIN s = 1..m
      BY <1>3
  <2>2. \A k \in 1..m : s[k] \in FoundBoxRecords
      BY <2>1
  <2> HIDE DEF s, m
  <2>3. row(i) = [k \in 1..m |-> TranslateDetection(s[k], origins[i], width)]
      BY <2>1 DEF s
  <2>4. \A k \in 1..m : LET d == TranslateDetection(s[k], origins[i], width)
                        IN  d \in FoundBoxRecords /\ d.x >= 0 /\ d.x + d.width <= width
    <3> SUFFICES ASSUME NEW k \in 1..m
                 PROVE  LET d == TranslateDetection(s[k], origins[i], width)
                        IN  d \in FoundBoxRecords /\ d.x >= 0 /\ d.x + d.width <= width
        OBVIOUS
    <3>1. s[k] \in FoundBoxRecords /\ origins[i] \in Int /\ width \in Nat
        BY <1>2, <2>2
    <3> QED BY <3>1, TranslatedIs
  <2> HIDE DEF row
  <2>5. row(i) \in [1..m -> FoundBoxRecords]
      BY <2>3, <2>4
  <2>6. row(i) \in Seq(FoundBoxRecords) /\ DOMAIN row(i) = 1..m
      BY <2>1, <2>5, SequenceOf
  <2>7. \A d \in ToSet(row(i)) : d.x >= 0 /\ d.x + d.width <= width
      BY <2>3, <2>4, <2>6 DEF ToSet
  <2> QED BY <2>1, <2>6, <2>7 DEF s
<1>5. \A i \in 1..n : moved[i] = row(i)
    BY <1>1
<1>6. moved \in [1..n -> Seq(FoundBoxRecords)]
  <2> HIDE DEF row
  <2> QED BY <1>1, <1>4
<1> HIDE DEF moved
<1>7. moved \in Seq(Seq(FoundBoxRecords)) /\ DOMAIN moved = 1..n
    BY <1>1, <1>6, SequenceOf
<1>8. \A i \in 1..n : ToSet(moved[i]) = {TranslateDetection(found[i][k], origins[i], width) :
                                            k \in DOMAIN found[i]}
  <2> SUFFICES ASSUME NEW i \in 1..n
               PROVE  ToSet(moved[i]) = {TranslateDetection(found[i][k], origins[i], width) :
                                           k \in DOMAIN found[i]}
      BY Zenon
  <2> DEFINE r == row(i)
  <2>1. \A k \in DOMAIN found[i] : r[k] = TranslateDetection(found[i][k], origins[i], width)
      BY Zenon
  <2>2. moved[i] = r /\ DOMAIN r = DOMAIN found[i]
      BY <1>4, <1>5, Zenon
  <2> HIDE DEF r
  <2>3. ToSet(r) = {r[k] : k \in DOMAIN found[i]}
      BY <2>2, Zenon DEF ToSet
  <2> QED BY <2>1, <2>2, <2>3
<1>9. \A i \in 1..n : \A d \in ToSet(moved[i]) : d.x >= 0 /\ d.x + d.width <= width
  <2> HIDE DEF row
  <2> QED BY <1>4, <1>5
<1>10. UNION {ToSet(moved[i]) : i \in DOMAIN moved}
         = UNION {{TranslateDetection(found[i][k], origins[i], width) :
                      k \in DOMAIN found[i]} : i \in DOMAIN origins}
  <2> DEFINE tiled(i) == {TranslateDetection(found[i][k], origins[i], width) :
                             k \in DOMAIN found[i]}
  <2>1. \A i \in 1..n : ToSet(moved[i]) = tiled(i)
      BY <1>8
  <2> HIDE DEF tiled
  <2>2. UNION {ToSet(moved[i]) : i \in DOMAIN moved} = UNION {tiled(i) : i \in DOMAIN origins}
      BY <1>1, <1>7, <2>1
  <2> QED BY <2>2 DEF tiled
<1>11. \A i \in DOMAIN moved : \A d \in ToSet(moved[i]) : d.x >= 0 /\ d.x + d.width <= width
    BY <1>7, <1>9
<1>12. moved = MovedBoxes(width, found)
    BY Zenon DEF MovedBoxes, moved, row, origins
<1>13. UNION {ToSet(moved[i]) : i \in DOMAIN moved} = TiledBoxes(width, found)
    BY <1>10, Zenon DEF TiledBoxes, origins
<1> QED BY <1>7, <1>11, <1>12, <1>13, Zenon

-----------------------------------------------------------------------------
(* What the tile detector returns.                                         *)

LEMMA TilesInvFinds == TilesInv => PlatesFoundOnce
<1> SUFFICES ASSUME TilesInv, input.of = "tiles" PROVE PlatesFoundOnce
    BY DEF PlatesFoundOnce
<1> DEFINE extent == input.extent
           whole == input.whole
           found == input.found
           origins == AxisOrigins(extent, tile_width)
           tiled == UNION {{TranslateDetection(found[i][k], origins[i], extent) :
                               k \in DOMAIN found[i]} : i \in DOMAIN origins}
           needs == NeedsTiles(extent, tile_height)
           all == ToSet(whole) \cup IF needs THEN tiled ELSE {}
           moved == [i \in DOMAIN origins |->
                        [k \in DOMAIN found[i] |->
                            TranslateDetection(found[i][k], origins[i], extent)]]
           joined == FoldLeft(LAMBDA a, b : a \o b, whole, moved)
<1>1. /\ extent \in Nat /\ whole \in Seq(FoundBoxRecords)
      /\ found \in [DOMAIN origins -> Seq(FoundBoxRecords)]
  <2>1. MaxExtent \in Nat
      BY TilesInputAssumption
  <2> QED BY <2>1 DEF TilesInv
<1>2. ASSUME NEW kept, NEW s \in Seq(FoundBoxRecords), ToSet(s) = all, kept = MergeDetections(s)
      PROVE  /\ \A i, j \in DOMAIN kept : i # j => ~IoUAbove(kept[i], kept[j])
             /\ \A i \in DOMAIN kept : kept[i] \in all
             /\ \A d \in {e \in all : e.width > 0} :
                    \/ \E i \in DOMAIN kept :
                           Stronger(kept[i], d) /\ (kept[i] = d \/ IoUAbove(kept[i], d))
                    \/ /\ Len(kept) = maximum_detections
                       /\ \A i \in DOMAIN kept : Stronger(kept[i], d)
  <2> HIDE DEF all
  <2>1. /\ \A i, j \in DOMAIN kept : i # j => ~IoUAbove(kept[i], kept[j])
        /\ \A i \in DOMAIN kept : \E l \in DOMAIN s : kept[i] = s[l]
        /\ \A l \in DOMAIN s : s[l].width > 0 =>
               \/ \E i \in DOMAIN kept :
                      Stronger(kept[i], s[l]) /\ (kept[i] = s[l] \/ IoUAbove(kept[i], s[l]))
               \/ /\ Len(kept) = maximum_detections
                  /\ \A i \in DOMAIN kept : Stronger(kept[i], s[l])
      BY <1>2, MergeIs
  <2>2. \A l \in DOMAIN s : s[l] \in all
      BY <1>2, Zenon DEF ToSet
  <2>3. \A d \in all : \E l \in DOMAIN s : d = s[l]
      BY <1>2, Zenon DEF ToSet
  <2>4. \A i \in DOMAIN kept : kept[i] \in all
      BY <2>1, <2>2, Zenon
  <2>5. ASSUME NEW d \in {e \in all : e.width > 0}
        PROVE  \/ \E i \in DOMAIN kept :
                      Stronger(kept[i], d) /\ (kept[i] = d \/ IoUAbove(kept[i], d))
               \/ /\ Len(kept) = maximum_detections
                  /\ \A i \in DOMAIN kept : Stronger(kept[i], d)
    <3>1. d \in all /\ d.width > 0
        OBVIOUS
    <3>2. PICK l \in DOMAIN s : d = s[l]
        BY <2>3, <3>1
    <3> QED BY ONLY <2>1, <3>1, <3>2, Zenon
  <2> QED BY <2>1, <2>4, <2>5
<1>3. /\ moved \in Seq(Seq(FoundBoxRecords))
      /\ \A i \in DOMAIN moved : \A d \in ToSet(moved[i]) : d.x >= 0 /\ d.x + d.width <= extent
      /\ UNION {ToSet(moved[i]) : i \in DOMAIN moved} = tiled
  <2>1. moved = MovedBoxes(extent, found)
      BY Zenon DEF MovedBoxes
  <2>2. tiled = TiledBoxes(extent, found)
      BY Zenon DEF TiledBoxes
  <2> HIDE DEF moved, tiled, extent, found
  <2>3. LET m == MovedBoxes(extent, found)
        IN  /\ m \in Seq(Seq(FoundBoxRecords))
            /\ \A i \in DOMAIN m : \A d \in ToSet(m[i]) : d.x >= 0 /\ d.x + d.width <= extent
            /\ UNION {ToSet(m[i]) : i \in DOMAIN m} = TiledBoxes(extent, found)
      BY ONLY <1>1, TilesBoxesAre
  <2> QED BY ONLY <2>1, <2>2, <2>3, Zenon
<1>4. \A d \in tiled : d.x >= 0 /\ d.x + d.width <= extent
  <2> HIDE DEF moved, tiled, extent
  <2> QED BY <1>3
<1>5. joined \in Seq(FoundBoxRecords) /\ ToSet(joined) = ToSet(whole) \cup tiled
  <2> HIDE DEF moved, tiled, whole
  <2> QED BY <1>1, <1>3, JoinedAre
<1>6. \A kept \in Detect(extent, whole, found) :
          \E s \in Seq(FoundBoxRecords) : ToSet(s) = all /\ kept = MergeDetections(s)
  <2>1. CASE ~needs
    <3>1. Detect(extent, whole, found) = {MergeDetections(whole)}
        BY <2>1, Zenon DEF Detect
    <3>2. ToSet(whole) = all
        BY <2>1
    <3> HIDE DEF all, whole
    <3> QED BY <1>1, <3>1, <3>2
  <2>2. CASE needs
    <3>1. Detect(extent, whole, found) = IF TooManyTiles(extent, tile_height) THEN {}
                                         ELSE {MergeDetections(joined)}
        BY <2>2, Zenon DEF Detect
    <3>2. ToSet(joined) = all
        BY <1>5, <2>2
    <3> HIDE DEF all, joined
    <3> QED BY <1>5, <3>1, <3>2
  <2> QED BY <2>1, <2>2
<1>7. \A d \in all : d \in ToSet(whole) \/ (d \in all /\ d.x >= 0 /\ d.x + d.width <= extent)
    BY <1>4
<1> HIDE DEF all
<1>8. ASSUME NEW kept \in Detect(extent, whole, found)
      PROVE  /\ \A i, j \in DOMAIN kept : i # j => ~IoUAbove(kept[i], kept[j])
             /\ \A i \in DOMAIN kept :
                    \/ kept[i] \in ToSet(whole)
                    \/ kept[i] \in all /\ kept[i].x >= 0 /\ kept[i].x + kept[i].width <= extent
             /\ \A d \in {e \in all : e.width > 0} :
                    \/ \E i \in DOMAIN kept :
                           Stronger(kept[i], d) /\ (kept[i] = d \/ IoUAbove(kept[i], d))
                    \/ /\ Len(kept) = maximum_detections
                       /\ \A i \in DOMAIN kept : Stronger(kept[i], d)
  <2>1. PICK s \in Seq(FoundBoxRecords) : ToSet(s) = all /\ kept = MergeDetections(s)
      BY <1>6, <1>8
  <2> HIDE DEF whole, extent
  <2>2. /\ \A i, j \in DOMAIN kept : i # j => ~IoUAbove(kept[i], kept[j])
        /\ \A i \in DOMAIN kept : kept[i] \in all
        /\ \A d \in {e \in all : e.width > 0} :
               \/ \E i \in DOMAIN kept :
                      Stronger(kept[i], d) /\ (kept[i] = d \/ IoUAbove(kept[i], d))
               \/ /\ Len(kept) = maximum_detections
                  /\ \A i \in DOMAIN kept : Stronger(kept[i], d)
      BY ONLY <1>2, <2>1
  <2> QED BY ONLY <1>7, <2>2, Zenon
<1> QED BY <1>8, Zenon DEF PlatesFoundOnce, Stronger, all, needs, tiled, origins, whole, found, extent

LEMMA TilesInvPlaces == TilesInv => SmallPlatesInOneTile
<1> SUFFICES ASSUME TilesInv, input.of = "tiles" PROVE SmallPlatesInOneTile
    BY DEF SmallPlatesInOneTile
<1> DEFINE extent == input.extent
<1>1. extent \in Nat /\ MaxTile \in Nat
  <2>1. MaxExtent \in Nat /\ MaxTile \in Nat
      BY TilesInputAssumption
  <2> QED BY <2>1 DEF TilesInv
<1> HIDE DEF extent
<1>2. ASSUME NEW tile \in 1..MaxTile
      PROVE  LET origins == AxisOrigins(extent, tile)
                 step == tile - Overlap(tile)
             IN  /\ \A i \in DOMAIN origins :
                        /\ origins[i] + Min({tile, extent}) <= extent
                        /\ i > 1 => origins[i - 1] < origins[i]
                 /\ (Len(origins) - 1) * step < Max({extent - tile, 0}) + step
                 /\ \A width \in 1..(Overlap(tile) + 1), a \in 0..(extent - 1) :
                        a + width <= extent =>
                            \E i \in DOMAIN origins :
                                origins[i] <= a /\ a + width <= origins[i] + tile
  <2>1. tile \in Nat \ {0}
      BY <1>1
  <2>2. \A width \in 1..(Overlap(tile) + 1), a \in 0..(extent - 1) :
            a + width <= extent =>
                \E i \in DOMAIN AxisOrigins(extent, tile) :
                    /\ AxisOrigins(extent, tile)[i] <= a
                    /\ a + width <= AxisOrigins(extent, tile)[i] + tile
      BY <1>1, <2>1, TilesOverlap
  <2> QED BY <1>1, <2>1, <2>2, TilesAdvance, Zenon
<1> QED BY <1>2, Zenon DEF SmallPlatesInOneTile, extent

\* Tiling loses no plate and doubles none (axis_origins and merge_detections),
\* for any tile, any overlap, any boxes and any limit.
THEOREM TilesAlwaysFindOnce == Spec => []TilesFindOnce
<1>1. TilesInv => TilesFindOnce
    BY TilesInvFinds, TilesInvPlaces DEF TilesFindOnce
<1> QED BY <1>1, TilesInvInit, TilesInvStep, PTL DEF Spec

-----------------------------------------------------------------------------
(* The output parser of the plate detector: places in the image.           *)

LEMMA ModelsMax == \A S : Models!Max(S) = Max(S)
BY DEF Max, Models!Max
LEMMA ModelsCardinality == \A S : Models!Cardinality(S) = Cardinality(S)
BY DEF Cardinality, Models!Cardinality

LEMMA ClampedIs ==
    ASSUME NEW n \in Int, NEW low \in Int, NEW high \in Int, low <= high
    PROVE  Models!Clamped(n, low, high) \in low..high
BY DEF Models!Clamped

LEMMA ClampedGrows ==
    ASSUME NEW m \in Int, NEW n \in Int, NEW low \in Int, NEW high \in Int,
           low <= high, m <= n
    PROVE  Models!Clamped(m, low, high) <= Models!Clamped(n, low, high)
BY DEF Models!Clamped

\* The sizes of the image that candidates are found in.
LEMMA RowImageIs ==
    /\ RowImage.width \in Nat \ {0} /\ RowImage.height \in Nat \ {0}
    /\ RowInput.width \in Nat \ {0} /\ RowInput.height \in Nat \ {0}
    /\ ModelUnit \in Nat \ {0} /\ ModelOne \in Nat \ {0}
BY CandidatesAssumption

LEMMA ResizedIs ==
    ASSUME NEW extent \in Nat \ {0}, NEW num \in Nat \ {0}, NEW den \in Nat \ {0},
           NEW limit \in Nat \ {0}
    PROVE  Models!Resized(extent, [num |-> num, den |-> den], limit) \in 1..limit
<1> DEFINE a == extent * num
           ratio == Models!RoundedRatio(a, den)
<1>1. a \in Nat
    OBVIOUS
<1> HIDE DEF a
<1>2. ratio \in Nat
  <2>1. 2 * a + den \in Nat /\ 2 * den \in Nat \ {0}
      BY <1>1
  <2>2. (2 * a + den) \div (2 * den) \in Nat
      BY <2>1, DivisionIs
  <2> QED BY <2>2 DEF Models!RoundedRatio
<1> HIDE DEF ratio
<1>3. Models!Clamped(ratio, 1, limit) \in 1..limit
    BY <1>2, ClampedIs
<1> QED BY <1>3 DEF Models!Resized, ratio, a

LEMMA RowMetaIs ==
    /\ RowMeta.num \in Nat \ {0} /\ RowMeta.den \in Nat \ {0}
    /\ RowMeta.source_width = RowImage.width /\ RowMeta.source_height = RowImage.height
    /\ RowMeta.pad_left \in Int /\ RowMeta.pad_top \in Int
<1> DEFINE scale == Models!LetterboxScale(RowImage, RowInput)
           width == Models!Resized(RowImage.width, scale, RowInput.width)
           height == Models!Resized(RowImage.height, scale, RowInput.height)
<1>1. \E num, den \in Nat \ {0} : scale = [num |-> num, den |-> den]
    BY RowImageIs DEF Models!LetterboxScale
<1>2. PICK num \in Nat \ {0}, den \in Nat \ {0} : scale = [num |-> num, den |-> den]
    BY <1>1
<1> HIDE DEF scale
<1>3. scale.num = num /\ scale.den = den
    BY <1>2
<1>4. width \in Int /\ height \in Int
  <2>1. width \in 1..RowInput.width /\ height \in 1..RowInput.height
      BY <1>2, RowImageIs, ResizedIs
  <2> QED BY <2>1, RowImageIs
<1>5. (RowInput.width - width) \div 2 \in Int /\ (RowInput.height - height) \div 2 \in Int
  <2> HIDE DEF width, height
  <2>1. RowInput.width - width \in Int /\ RowInput.height - height \in Int
      BY <1>4, RowImageIs
  <2> QED BY <2>1
<1>6. /\ RowMeta.num = scale.num /\ RowMeta.den = scale.den
      /\ RowMeta.source_width = RowImage.width /\ RowMeta.source_height = RowImage.height
      /\ RowMeta.pad_left = (RowInput.width - width) \div 2
      /\ RowMeta.pad_top = (RowInput.height - height) \div 2
    BY DEF RowMeta, Models!Letterbox, Models!LetterboxOf, scale
<1> QED BY <1>3, <1>5, <1>6

\* The borders of the source.
Right == RowImage.width * ModelUnit * RowMeta.num
Bottom == RowImage.height * ModelUnit * RowMeta.num

\* A place comes back into the source, and places keep their order.
LEMMA ToSourceIs ==
    ASSUME NEW a \in Int, NEW b \in Int, a <= b, NEW pad \in Int, NEW extent \in Nat
    PROVE  LET most == extent * ModelUnit * RowMeta.num
               low == Models!ToSource(a, pad, extent, RowMeta)
               high == Models!ToSource(b, pad, extent, RowMeta)
           IN  most \in Nat /\ low \in 0..most /\ high \in 0..most /\ low <= high
<1> DEFINE most == extent * ModelUnit * RowMeta.num
           c == (a - pad * ModelUnit) * RowMeta.den
           d == (b - pad * ModelUnit) * RowMeta.den
           den == RowMeta.den
<1>1. RowMeta.num \in Nat /\ den \in Nat /\ ModelUnit \in Nat
    BY RowMetaIs, RowImageIs
<1>2. most \in Nat
  <2>1. extent * ModelUnit \in Nat
      BY <1>1
  <2> QED BY <1>1, <2>1
<1>3. c \in Int /\ d \in Int /\ c <= d
  <2> DEFINE p == pad * ModelUnit
  <2>1. p \in Int
      BY <1>1
  <2> HIDE DEF p, den
  <2>2. (a - p) * den \in Int /\ (b - p) * den \in Int /\ (b - a) * den \in Nat
      BY <1>1, <2>1
  <2>3. (b - p) * den = (a - p) * den + (b - a) * den
    <3>1. b - p = (a - p) + (b - a)
        BY <2>1
    <3>2. ((a - p) + (b - a)) * den = (a - p) * den + (b - a) * den
        BY <1>1, <2>1
    <3> QED BY <3>1, <3>2
  <2>4. (a - p) * den <= (b - p) * den
    <3> DEFINE x == (a - p) * den
               y == (b - a) * den
    <3> HIDE DEF x, y
    <3>1. x \in Int /\ y \in Nat /\ (b - p) * den = x + y
        BY <2>2, <2>3 DEF x, y
    <3> QED BY <3>1 DEF x
  <2> QED BY <2>2, <2>4 DEF p, den
<1> HIDE DEF most, c, d
<1>4. /\ Models!Clamped(c, 0, most) \in 0..most /\ Models!Clamped(d, 0, most) \in 0..most
      /\ Models!Clamped(c, 0, most) <= Models!Clamped(d, 0, most)
    BY <1>2, <1>3, ClampedIs, ClampedGrows
<1> QED BY <1>2, <1>4 DEF Models!ToSource, most, c, d

LEMMA SourceXIs ==
    ASSUME NEW a \in Int, NEW b \in Int, a <= b
    PROVE  /\ Right \in Nat
           /\ Models!SourceX(a, RowMeta) \in 0..Right /\ Models!SourceX(b, RowMeta) \in 0..Right
           /\ Models!SourceX(a, RowMeta) <= Models!SourceX(b, RowMeta)
<1>1. /\ RowMeta.pad_left \in Int /\ RowImage.width \in Nat
      /\ RowMeta.source_width = RowImage.width
    BY RowMetaIs, RowImageIs
<1> QED BY <1>1, ToSourceIs DEF Models!SourceX, Right

LEMMA SourceYIs ==
    ASSUME NEW a \in Int, NEW b \in Int, a <= b
    PROVE  /\ Bottom \in Nat
           /\ Models!SourceY(a, RowMeta) \in 0..Bottom /\ Models!SourceY(b, RowMeta) \in 0..Bottom
           /\ Models!SourceY(a, RowMeta) <= Models!SourceY(b, RowMeta)
<1>1. /\ RowMeta.pad_top \in Int /\ RowImage.height \in Nat
      /\ RowMeta.source_height = RowImage.height
    BY RowMetaIs, RowImageIs
<1> QED BY <1>1, ToSourceIs DEF Models!SourceY, Bottom

-----------------------------------------------------------------------------
(* Candidates and what becomes of them.                                    *)

CandidateRecords == [0..(Features - 1) -> Int \cup {NaN}]

\* A specification whose features are all there.
FitSpec(spec) ==
    /\ spec \in OutputSpecs /\ Models!RequiredFeatures(spec) <= Features

LEMMA SpecIs ==
    ASSUME NEW spec \in OutputSpecs
    PROVE  /\ spec.box \in Nat /\ spec.class_score \in Nat /\ spec.class_count \in Nat \ {0}
           /\ spec.objectness \in Nat \cup {-1} /\ spec.keypoint \in Nat
           /\ spec.keypoint_stride \in Nat /\ spec.keypoint_stride >= 2
           /\ spec.confidence_threshold \in Nat /\ spec.nms_iou_threshold \in Nat
           /\ spec.maximum_detections \in Nat
<1>1. spec \in [layout : {"features_first", "candidates_first"}, box : Nat, class_score : Nat,
                class_count : Nat, objectness : Nat \cup {-1}, keypoint : Nat,
                keypoint_stride : Nat, confidence_threshold : Nat, nms_iou_threshold : Nat,
                maximum_detections : Nat]
    BY CandidatesAssumption
<1>2. spec.class_count > 0 /\ spec.keypoint_stride >= 2
    BY CandidatesAssumption DEF Models!ValidSpec
<1> QED BY ONLY <1>1, <1>2

\* The features it names are in every row.
LEMMA FeaturesAreThere ==
    ASSUME NEW spec, FitSpec(spec)
    PROVE  /\ \A f \in 0..3 : spec.box + f \in 0..(Features - 1)
           /\ \A k \in 0..(spec.class_count - 1) : spec.class_score + k \in 0..(Features - 1)
           /\ spec.objectness # -1 => spec.objectness \in 0..(Features - 1)
           /\ \A k \in 1..4 :
                  LET corner == spec.keypoint + (k - 1) * spec.keypoint_stride
                  IN  corner \in 0..(Features - 1) /\ corner + 1 \in 0..(Features - 1)
<1> DEFINE a == spec.box + 4
           b == spec.class_score + spec.class_count
           c == spec.keypoint + 4 * spec.keypoint_stride
           d == spec.objectness + 1
           S == {a, b, c, d}
<1>1. spec \in OutputSpecs /\ Models!RequiredFeatures(spec) <= Features
    BY DEF FitSpec
<1>2. /\ spec.box \in Nat /\ spec.class_score \in Nat /\ spec.class_count \in Nat \ {0}
      /\ spec.objectness \in Nat \cup {-1} /\ spec.keypoint \in Nat
      /\ spec.keypoint_stride \in Nat /\ spec.keypoint_stride >= 2
    BY <1>1, SpecIs
<1>3. a \in Int /\ b \in Int /\ c \in Int /\ d \in Int
    BY <1>2
<1>4. Models!RequiredFeatures(spec) = Max(S)
    BY ModelsMax DEF Models!RequiredFeatures
<1> HIDE DEF a, b, c, d
<1>5. S \subseteq Int /\ IsFiniteSet(S) /\ S # {}
  <2>1. IsFiniteSet({a, b}) /\ IsFiniteSet({c, d})
    <3>1. IsFiniteSet({a}) /\ IsFiniteSet({b}) /\ IsFiniteSet({c}) /\ IsFiniteSet({d})
        BY FS_Singleton
    <3>2. {a, b} = {a} \cup {b} /\ {c, d} = {c} \cup {d}
        OBVIOUS
    <3>3. IsFiniteSet({a} \cup {b}) /\ IsFiniteSet({c} \cup {d})
        BY ONLY <3>1, FS_Union
    <3> QED BY ONLY <3>2, <3>3, Zenon
  <2>2. S = {a, b} \cup {c, d}
      OBVIOUS
  <2>3. IsFiniteSet(S)
      BY <2>1, <2>2, FS_Union
  <2> QED BY <1>3, <2>3
<1>6. \A y \in S : y <= Max(S)
  <2> HIDE DEF S
  <2> QED BY <1>5, MaxIs
<1>7. Max(S) <= 15 /\ Max(S) \in Int
  <2>1. Max(S) \in S
    <3> HIDE DEF S
    <3> QED BY <1>5, MaxIs
  <2>2. Max(S) \in Int
      BY <1>3, <2>1
  <2> QED BY <1>1, <1>4, <2>2 DEF Features
<1>8. a <= 15 /\ b <= 15 /\ c <= 15 /\ d <= 15
  <2> DEFINE top == Max(S)
  <2>1. a <= top /\ b <= top /\ c <= top /\ d <= top /\ top <= 15 /\ top \in Int
      BY <1>6, <1>7
  <2> HIDE DEF top
  <2> QED BY <1>3, <2>1
<1>9. Features - 1 = 14
    BY DEF Features
<1>10. \A f \in 0..3 : spec.box + f \in 0..14
    BY <1>2, <1>8 DEF a
<1>11. \A k \in 0..(spec.class_count - 1) : spec.class_score + k \in 0..14
    BY <1>2, <1>8 DEF b
<1>12. spec.objectness # -1 => spec.objectness \in 0..14
    BY <1>2, <1>8 DEF d
<1>13. ASSUME NEW k \in 1..4
       PROVE  /\ spec.keypoint + (k - 1) * spec.keypoint_stride \in 0..14
              /\ spec.keypoint + (k - 1) * spec.keypoint_stride + 1 \in 0..14
  <2> DEFINE s == spec.keypoint_stride
  <2>1. k = 1 \/ k = 2 \/ k = 3 \/ k = 4
      OBVIOUS
  <2>2. (k - 1) * s \in Nat /\ (k - 1) * s + s <= 4 * s
      BY <1>2, <2>1
  <2> HIDE DEF s
  <2>3. s \in Nat /\ s >= 2 /\ spec.keypoint + 4 * s <= 15
      BY <1>2, <1>8 DEF s, c
  <2> DEFINE t == (k - 1) * s
  <2> HIDE DEF t
  <2>4. t \in Nat /\ t + s <= 4 * s
      BY <2>2 DEF t
  <2>5. spec.keypoint + t \in 0..14 /\ spec.keypoint + t + 1 \in 0..14
      BY <1>2, <2>3, <2>4
  <2> QED BY <2>5 DEF t, s
<1> QED BY <1>9, <1>10, <1>11, <1>12, <1>13

LEMMA ConfidenceIs ==
    ASSUME NEW spec, FitSpec(spec), NEW row \in CandidateRecords
    PROVE  Models!RowConfidence(spec, row) \in Int
<1> DEFINE S == {Models!Probability(row[spec.class_score + k]) : k \in 0..(spec.class_count - 1)}
           f == [k \in 0..(spec.class_count - 1) |->
                    Models!Probability(row[spec.class_score + k])]
           o == IF spec.objectness = -1 THEN ModelOne
                ELSE Models!Probability(row[spec.objectness])
<1>1. \A g \in 0..(Features - 1) : Models!Probability(row[g]) \in Int
  <2> SUFFICES ASSUME NEW g \in 0..(Features - 1) PROVE Models!Probability(row[g]) \in Int
      OBVIOUS
  <2> DEFINE v == row[g]
  <2>1. v \in Int \cup {NaN}
      BY DEF CandidateRecords
  <2> HIDE DEF v
  <2>2. CASE v = NaN
      BY <2>2 DEF Models!Probability, v
  <2>3. CASE v # NaN
    <3>1. v \in Int /\ 0 \in Int /\ ModelOne \in Int /\ 0 <= ModelOne
        BY <2>1, <2>3, RowImageIs
    <3>2. Models!Clamped(v, 0, ModelOne) \in 0..ModelOne
        BY ONLY <3>1, ClampedIs
    <3>3. Models!Probability(v) = Models!Clamped(v, 0, ModelOne)
        BY <2>3 DEF Models!Probability
    <3> QED BY <3>1, <3>2, <3>3 DEF v
  <2> QED BY <2>2, <2>3
<1>2. spec.class_count \in Nat \ {0} /\ spec.objectness \in Nat \cup {-1}
    BY SpecIs DEF FitSpec
<1>3. /\ \A k \in 0..(spec.class_count - 1) : spec.class_score + k \in 0..(Features - 1)
      /\ spec.objectness # -1 => spec.objectness \in 0..(Features - 1)
    BY FeaturesAreThere
<1>4. S \subseteq Int
    BY <1>1, <1>3
<1>5. S # {}
  <2>1. 0 \in 0..(spec.class_count - 1)
      BY <1>2
  <2> QED BY <2>1
<1>6. IsFiniteSet(S)
  <2>1. 0 \in Int /\ spec.class_count - 1 \in Int
      BY <1>2
  <2>2. IsFiniteSet(0..(spec.class_count - 1))
      BY ONLY <2>1, FS_Interval
  <2>3. S = {f[k] : k \in 0..(spec.class_count - 1)}
      OBVIOUS
  <2> HIDE DEF S, f
  <2> QED BY <2>2, <2>3, ImageFinite
<1>7. o \in Int
    BY <1>1, <1>2, <1>3, RowImageIs
<1> HIDE DEF S, o
<1>8. Max(S) \in Int
    BY <1>4, <1>5, <1>6, MaxIs
<1>9. Models!RowConfidence(spec, row) = Max(S) * o
    BY ModelsMax DEF Models!RowConfidence, S, o
<1> QED BY <1>7, <1>8, <1>9

\* A detection lies in the image, with its corners.
LEMMA DetectionIs ==
    ASSUME NEW spec, FitSpec(spec), NEW row \in CandidateRecords, Models!FiniteBox(spec, row),
           NEW i
    PROVE  LET d == Models!DetectionOf(spec, row, RowMeta, i)
           IN  /\ d.box.x \in Nat /\ d.box.y \in Nat
               /\ d.box.width \in Nat /\ d.box.height \in Nat
               /\ d.box.x + d.box.width <= Right /\ d.box.y + d.box.height <= Bottom
               /\ \A k \in DOMAIN d.quadrilateral :
                      d.quadrilateral[k].x \in 0..Right /\ d.quadrilateral[k].y \in 0..Bottom
               /\ d.confidence \in Int /\ d.source_index = i
<1> DEFINE d == Models!DetectionOf(spec, row, RowMeta, i)
           b == spec.box
           h == row[b + 2] \div 2
           v == row[b + 3] \div 2
           x1 == Models!SourceX(row[b] - h, RowMeta)
           y1 == Models!SourceY(row[b + 1] - v, RowMeta)
           x2 == Models!SourceX(row[b] + h, RowMeta)
           y2 == Models!SourceY(row[b + 1] + v, RowMeta)
<1>0. spec \in OutputSpecs /\ b \in Nat
    BY SpecIs DEF FitSpec
<1>1. \A f \in 0..3 : b + f \in 0..(Features - 1)
    BY FeaturesAreThere
<1>2. \A f \in 0..3 : row[b + f] \in Int
  <2> SUFFICES ASSUME NEW f \in 0..3 PROVE row[b + f] \in Int
      OBVIOUS
  <2>1. row[b + f] # NaN
      BY DEF Models!FiniteBox
  <2>2. row[b + f] \in Int \cup {NaN}
      BY <1>1 DEF CandidateRecords
  <2> QED BY <2>1, <2>2
<1>3. /\ row[b] \in Int /\ row[b + 1] \in Int /\ row[b + 2] \in Int /\ row[b + 3] \in Int
  <2>1. b + 0 = b
      BY <1>0
  <2>2. 0 \in 0..3 /\ 1 \in 0..3 /\ 2 \in 0..3 /\ 3 \in 0..3
      OBVIOUS
  <2>3. row[b + 0] \in Int /\ row[b + 1] \in Int /\ row[b + 2] \in Int /\ row[b + 3] \in Int
      BY <1>2, <2>2
  <2> HIDE DEF b
  <2> QED BY ONLY <2>1, <2>3
<1>4. row[b + 2] > 0 /\ row[b + 3] > 0
    BY DEF Models!FiniteBox
<1>5. h \in Nat /\ v \in Nat
  <2> DEFINE p == row[b + 2]
             q == row[b + 3]
  <2>1. p \in Nat /\ q \in Nat
      BY <1>3, <1>4
  <2> HIDE DEF p, q
  <2>2. p \div 2 \in Nat /\ q \div 2 \in Nat
      BY <2>1
  <2> QED BY <2>2 DEF p, q
<1> HIDE DEF h, v
<1>6. /\ row[b] - h \in Int /\ row[b] + h \in Int /\ row[b] - h <= row[b] + h
      /\ row[b + 1] - v \in Int /\ row[b + 1] + v \in Int /\ row[b + 1] - v <= row[b + 1] + v
  <2> DEFINE p == row[b]
             q == row[b + 1]
  <2>1. p \in Int /\ q \in Int
      BY <1>3
  <2> HIDE DEF p, q
  <2>2. p - h \in Int /\ p + h \in Int /\ p - h <= p + h
        /\ q - v \in Int /\ q + v \in Int /\ q - v <= q + v
      BY <1>5, <2>1
  <2> QED BY <2>2 DEF p, q
<1>7. Right \in Nat /\ x1 \in 0..Right /\ x2 \in 0..Right /\ x1 <= x2
    BY <1>6, SourceXIs
<1>8. Bottom \in Nat /\ y1 \in 0..Bottom /\ y2 \in 0..Bottom /\ y1 <= y2
    BY <1>6, SourceYIs
<1>9. d.box = [x |-> x1, y |-> y1, width |-> x2 - x1, height |-> y2 - y1]
    BY DEF Models!DetectionOf, Models!BoxOf, h, v
<1>10. /\ d.confidence = Models!RowConfidence(spec, row) /\ d.source_index = i
       /\ d.quadrilateral = Models!QuadrilateralOf(spec, row, RowMeta)
    BY DEF Models!DetectionOf
<1> HIDE DEF x1, x2, y1, y2, d
<1>11. /\ d.box.x \in Nat /\ d.box.y \in Nat
       /\ d.box.width \in Nat /\ d.box.height \in Nat
       /\ d.box.x + d.box.width <= Right /\ d.box.y + d.box.height <= Bottom
  <2>1. d.box.x = x1 /\ d.box.y = y1 /\ d.box.width = x2 - x1 /\ d.box.height = y2 - y1
      BY <1>9
  <2> QED BY <1>7, <1>8, <2>1
<1>12. d.confidence \in Int
    BY <1>10, ConfidenceIs
<1>13. ASSUME NEW k \in DOMAIN d.quadrilateral
       PROVE  d.quadrilateral[k].x \in 0..Right /\ d.quadrilateral[k].y \in 0..Bottom
  <2> DEFINE corner(j) == spec.keypoint + (j - 1) * spec.keypoint_stride
             none == \E j \in 1..4 : row[corner(j)] = NaN \/ row[corner(j) + 1] = NaN
             all == [j \in 1..4 |-> [x |-> Models!SourceX(row[corner(j)], RowMeta),
                                     y |-> Models!SourceY(row[corner(j) + 1], RowMeta)]]
  <2>1. d.quadrilateral = IF none THEN <<>> ELSE all
      BY <1>10, Zenon DEF Models!QuadrilateralOf
  <2>2. \A j \in 1..4 : corner(j) \in 0..(Features - 1) /\ corner(j) + 1 \in 0..(Features - 1)
      BY FeaturesAreThere
  <2> HIDE DEF corner
  <2>3. ~none /\ k \in 1..4
    <3>1. CASE none
      <4>1. d.quadrilateral = <<>>
          BY <2>1, <3>1
      <4> QED BY <4>1
    <3>2. CASE ~none
      <4>1. d.quadrilateral = all
          BY <2>1, <3>2
      <4> QED BY <3>2, <4>1
    <3> QED BY <3>1, <3>2
  <2> DEFINE px == row[corner(k)]
             py == row[corner(k) + 1]
  <2>4. px \in Int /\ py \in Int
    <3>1. px \in Int \cup {NaN} /\ py \in Int \cup {NaN}
        BY <2>2, <2>3 DEF CandidateRecords
    <3> QED BY <2>3, <3>1
  <2>5. d.quadrilateral[k] = [x |-> Models!SourceX(px, RowMeta), y |-> Models!SourceY(py, RowMeta)]
      BY <2>1, <2>3
  <2> HIDE DEF px, py
  <2>6. Models!SourceX(px, RowMeta) \in 0..Right /\ Models!SourceY(py, RowMeta) \in 0..Bottom
    <3>1. px <= px /\ py <= py
        BY <2>4
    <3> QED BY <2>4, <3>1, SourceXIs, SourceYIs
  <2> QED BY <2>5, <2>6
<1> QED BY <1>10, <1>11, <1>12, <1>13 DEF d

-----------------------------------------------------------------------------
(* Ranking and suppression.                                                *)

\* Two folds of the same are the same.
LEMMA FoldsToUnique ==
    ASSUME NEW V, NEW F, NEW base, NEW E, NEW s \in Seq(E),
           NEW a, FoldsTo(a, V, F, base, s), NEW b, FoldsTo(b, V, F, base, s)
    PROVE  a = b
<1> DEFINE n == Len(s)
<1>1. n \in Nat
    OBVIOUS
<1>2. PICK p : p[0] = base /\ a = p[n] /\ \A k \in 1..n : p[k] = F[p[k - 1]][s[k]]
    BY DEF FoldsTo
<1>3. PICK q : q[0] = base /\ b = q[n] /\ \A k \in 1..n : q[k] = F[q[k - 1]][s[k]]
    BY DEF FoldsTo
<1> HIDE DEF n
<1> DEFINE B == {k \in 0..n : p[k] # q[k]}
<1>4. ASSUME B # {} PROVE FALSE
  <2>1. B \in SUBSET Nat
      BY <1>1
  <2>2. PICK k \in B : \A l \in B : k <= l
    <3> HIDE DEF B
    <3> QED BY <1>4, <2>1, LeastNatural
  <2>3. k \in 0..n /\ p[k] # q[k] /\ k # 0
      BY <1>2, <1>3, <2>2
  <2>4. k \in 1..n /\ k - 1 \in 0..n /\ ~(k <= k - 1)
      BY <1>1, <2>3
  <2>5. k - 1 \notin B
    <3> HIDE DEF B
    <3> QED BY ONLY <2>2, <2>4
  <2>6. p[k - 1] = q[k - 1]
      BY <2>4, <2>5
  <2> QED BY <1>2, <1>3, <2>3, <2>4, <2>6
<1>5. n \in 0..n
    BY <1>1
<1> QED BY <1>2, <1>3, <1>4, <1>5

\* Which candidates pass, and what they are as detections.
Passing(spec, R) ==
    {i \in DOMAIN R : /\ Models!RowConfidence(spec, R[i]) >= spec.confidence_threshold * ModelOne
                      /\ Models!FiniteBox(spec, R[i])}
FoundIn(spec, R) == {Models!DetectionOf(spec, R[i], RowMeta, i) : i \in Passing(spec, R)}
SeenIn(spec, R) == {d \in FoundIn(spec, R) : d.box.width > 0 /\ d.box.height > 0}
BetterIn(S) ==
    [d \in S |-> {e \in S : \/ e.confidence > d.confidence
                            \/ e.confidence = d.confidence /\ e.source_index < d.source_index}]
ClashIn(spec, S) == [d \in S |-> {e \in S : Models!Suppresses(spec, e.box, d.box)}]

\* The rows as the parser reads them.
RowsRead(rows) == [i \in 0..(Len(rows) - 1) |-> rows[i + 1]]

LEMMA FoundAre ==
    ASSUME NEW spec, FitSpec(spec), NEW n \in Nat, NEW R \in [0..(n - 1) -> CandidateRecords]
    PROVE  LET S == SeenIn(spec, R)
           IN  /\ IsFiniteSet(S)
               /\ \A d \in S :
                      /\ d.box.x \in Nat /\ d.box.y \in Nat
                      /\ d.box.width \in Nat \ {0} /\ d.box.height \in Nat \ {0}
                      /\ d.box.x + d.box.width <= Right /\ d.box.y + d.box.height <= Bottom
                      /\ \A k \in DOMAIN d.quadrilateral :
                             d.quadrilateral[k].x \in 0..Right /\ d.quadrilateral[k].y \in 0..Bottom
                      /\ d.confidence \in Int /\ d.source_index \in Nat
               /\ \A d, e \in S : d.source_index = e.source_index => d = e
               /\ Ordering(BetterIn(S), S)
<1> DEFINE P == Passing(spec, R)
           f == [i \in P |-> Models!DetectionOf(spec, R[i], RowMeta, i)]
           S == SeenIn(spec, R)
<1>1. P \in SUBSET (0..(n - 1)) /\ \A i \in P : R[i] \in CandidateRecords /\ Models!FiniteBox(spec, R[i])
    BY DEF Passing
<1>2. IsFiniteSet(P)
  <2>1. 0 \in Int /\ n - 1 \in Int
      OBVIOUS
  <2>2. IsFiniteSet(0..(n - 1))
      BY ONLY <2>1, FS_Interval
  <2> HIDE DEF P
  <2> QED BY ONLY <1>1, <2>2, FS_Subset
<1>3. FoundIn(spec, R) = {f[i] : i \in P}
    BY DEF FoundIn
<1>4. IsFiniteSet(S)
  <2>1. IsFiniteSet(FoundIn(spec, R))
    <3> HIDE DEF P, f
    <3> QED BY ONLY <1>2, <1>3, ImageFinite
  <2>2. S \in SUBSET FoundIn(spec, R)
      BY DEF SeenIn
  <2> HIDE DEF S
  <2> QED BY ONLY <2>1, <2>2, FS_Subset
<1>5. \A d \in S : \E i \in P : d = Models!DetectionOf(spec, R[i], RowMeta, i)
    BY DEF SeenIn, FoundIn
<1>6. \A d \in S : d.box.width > 0 /\ d.box.height > 0
    BY DEF SeenIn
<1> HIDE DEF P, S
<1>7. ASSUME NEW d \in S
      PROVE  /\ d.box.x \in Nat /\ d.box.y \in Nat
             /\ d.box.width \in Nat \ {0} /\ d.box.height \in Nat \ {0}
             /\ d.box.x + d.box.width <= Right /\ d.box.y + d.box.height <= Bottom
             /\ \A k \in DOMAIN d.quadrilateral :
                    d.quadrilateral[k].x \in 0..Right /\ d.quadrilateral[k].y \in 0..Bottom
             /\ d.confidence \in Int /\ d.source_index \in Nat
  <2>1. PICK i \in P : d = Models!DetectionOf(spec, R[i], RowMeta, i)
      BY <1>5
  <2>2. R[i] \in CandidateRecords /\ Models!FiniteBox(spec, R[i]) /\ i \in Nat
      BY <1>1
  <2>3. /\ d.box.x \in Nat /\ d.box.y \in Nat
        /\ d.box.width \in Nat /\ d.box.height \in Nat
        /\ d.box.x + d.box.width <= Right /\ d.box.y + d.box.height <= Bottom
        /\ \A k \in DOMAIN d.quadrilateral :
               d.quadrilateral[k].x \in 0..Right /\ d.quadrilateral[k].y \in 0..Bottom
        /\ d.confidence \in Int /\ d.source_index = i
      BY <2>1, <2>2, DetectionIs
  <2>4. d.box.width \in Nat \ {0} /\ d.box.height \in Nat \ {0}
      BY <1>6, <2>3
  <2> QED BY <2>2, <2>3, <2>4
<1>8. ASSUME NEW d \in S, NEW e \in S, d.source_index = e.source_index PROVE d = e
  <2>1. PICK i \in P : d = Models!DetectionOf(spec, R[i], RowMeta, i)
      BY <1>5
  <2>2. PICK j \in P : e = Models!DetectionOf(spec, R[j], RowMeta, j)
      BY <1>5
  <2>3. d.source_index = i /\ e.source_index = j
      BY <2>1, <2>2 DEF Models!DetectionOf
  <2> QED BY <1>8, <2>1, <2>2, <2>3
<1>9. Ordering(BetterIn(S), S)
  <2> DEFINE before == BetterIn(S)
  <2>0. \A d \in S : d.confidence \in Int /\ d.source_index \in Int
      BY <1>7
  <2>1. \A d, e \in S : e \in before[d] <=>
            \/ e.confidence > d.confidence
            \/ e.confidence = d.confidence /\ e.source_index < d.source_index
      BY DEF BetterIn
  <2> HIDE DEF before
  <2>2. \A d \in S : d \notin before[d]
      BY <2>0, <2>1
  <2>3. ASSUME NEW a \in S, NEW b \in S, NEW c \in S, a \in before[b], b \in before[c]
        PROVE  a \in before[c]
    <3>1. /\ a.confidence \in Int /\ b.confidence \in Int /\ c.confidence \in Int
          /\ a.source_index \in Int /\ b.source_index \in Int /\ c.source_index \in Int
        BY <2>0
    <3>2. a.confidence > b.confidence \/ (a.confidence = b.confidence /\ a.source_index < b.source_index)
        BY <2>1, <2>3
    <3>3. b.confidence > c.confidence \/ (b.confidence = c.confidence /\ b.source_index < c.source_index)
        BY <2>1, <2>3
    <3>4. a.confidence > c.confidence \/ (a.confidence = c.confidence /\ a.source_index < c.source_index)
        BY ONLY <3>1, <3>2, <3>3
    <3> QED BY <2>1, <3>4
  <2>4. ASSUME NEW a \in S, NEW b \in S, a # b, a \notin before[b] PROVE b \in before[a]
    <3>1. /\ a.confidence \in Int /\ b.confidence \in Int
          /\ a.source_index \in Int /\ b.source_index \in Int
        BY <2>0
    <3>2. a.source_index # b.source_index
        BY <1>8, <2>4
    <3>3. ~(a.confidence > b.confidence \/ (a.confidence = b.confidence /\ a.source_index < b.source_index))
        BY <2>1, <2>4
    <3>4. b.confidence > a.confidence \/ (b.confidence = a.confidence /\ b.source_index < a.source_index)
        BY ONLY <3>1, <3>2, <3>3
    <3> QED BY <2>1, <3>4
  <2>5. Ordering(before, S)
      BY <2>2, <2>3, <2>4 DEF Ordering
  <2> QED BY <2>5 DEF before
<1> QED BY <1>4, <1>7, <1>8, <1>9 DEF S

\* The set RankedOf sorts, and what it puts at every place.
SeenOf(found) == {d \in found : d.box.width > 0 /\ d.box.height > 0}
AheadOf(S, d) ==
    {e \in S : \/ e.confidence > d.confidence
               \/ e.confidence = d.confidence /\ e.source_index < d.source_index}
InPlaces(S) ==
    [k \in 1..Models!Cardinality(S) |->
        CHOOSE d \in S : Models!Cardinality(AheadOf(S, d)) + 1 = k]

LEMMA RankedOfIs ==
    ASSUME NEW found
    PROVE  Models!RankedOf(found) = InPlaces(SeenOf(found))
BY Zenon DEF Models!RankedOf, InPlaces, SeenOf, AheadOf

\* The ranked detections: all that are seen, the strongest first.
LEMMA RankedAre ==
    ASSUME NEW spec, FitSpec(spec), NEW n \in Nat, NEW R \in [0..(n - 1) -> CandidateRecords]
    PROVE  LET S == SeenIn(spec, R)
               ranked == Models!Ranked(spec, R, RowMeta)
           IN  /\ ranked \in Seq(S) /\ Len(ranked) = Cardinality(S)
               /\ Arranged(ranked, S, BetterIn(S))
<1> DEFINE S == SeenIn(spec, R)
           ranked == Models!Ranked(spec, R, RowMeta)
           before == BetterIn(S)
<1>1. ranked = InPlaces(S)
  <2>1. ranked = Models!RankedOf(FoundIn(spec, R))
      BY Zenon DEF Models!Ranked, FoundIn, Passing
  <2>2. SeenIn(spec, R) = SeenOf(FoundIn(spec, R))
      BY Zenon DEF SeenIn, SeenOf
  <2> QED BY <2>1, <2>2, RankedOfIs
<1>2. IsFiniteSet(S) /\ Ordering(before, S) /\ Cardinality(S) \in Nat
  <2>1. IsFiniteSet(S) /\ Ordering(before, S)
      BY FoundAre
  <2> HIDE DEF S
  <2> QED BY <2>1, FS_CardinalityType
<1>3. before \in [S -> SUBSET S]
  <2> HIDE DEF S
  <2> QED BY DEF BetterIn
<1>4. \A d \in S : Placed(S, before)[d] = Models!Cardinality(AheadOf(S, d)) + 1
  <2> HIDE DEF S
  <2>1. \A d \in S : before[d] = AheadOf(S, d)
      BY Zenon DEF BetterIn, AheadOf
  <2>2. \A T : Models!Cardinality(T) = Cardinality(T)
      BY ModelsCardinality
  <2> HIDE DEF before
  <2> QED BY <2>1, <2>2 DEF Placed
<1> HIDE DEF before, S, ranked
<1> DEFINE order == InPlaces(S)
<1>5. Arranged(order, S, before)
  <2>0. Models!Cardinality(S) = Cardinality(S)
      BY ModelsCardinality
  <2>1. \A k \in 1..Cardinality(S) :
            (\E a \in S : Placed(S, before)[a] = k) =>
                order[k] \in S /\ Placed(S, before)[order[k]] = k
    <3> SUFFICES ASSUME NEW k \in 1..Cardinality(S), NEW a \in S, Placed(S, before)[a] = k
                 PROVE  order[k] \in S /\ Placed(S, before)[order[k]] = k
        OBVIOUS
    <3>1. Models!Cardinality(AheadOf(S, a)) + 1 = k
        BY <1>4
    <3>2. order[k] = CHOOSE d \in S : Models!Cardinality(AheadOf(S, d)) + 1 = k
        BY <2>0 DEF InPlaces
    <3>3. order[k] \in S /\ Models!Cardinality(AheadOf(S, order[k])) + 1 = k
        BY <3>1, <3>2
    <3> HIDE DEF order
    <3> QED BY <1>4, <3>3
  <2>2. order = [k \in 1..Cardinality(S) |-> order[k]]
    <3>1. order = [k \in 1..Models!Cardinality(S) |-> order[k]]
        BY DEF InPlaces
    <3> HIDE DEF order
    <3> QED BY <2>0, <3>1
  <2> HIDE DEF order
  <2> QED BY ONLY <1>2, <1>3, <2>1, <2>2, ArrangedIs
<1>6. Arranged(ranked, S, before)
    BY <1>1, <1>5
<1> HIDE DEF order
<1>7. ranked \in [1..Cardinality(S) -> S]
    BY <1>6 DEF Arranged
<1>8. ranked \in Seq(S) /\ Len(ranked) = Cardinality(S)
    BY <1>2, <1>7, SequenceOf
<1> QED BY <1>6, <1>8 DEF ranked, S, before

LEMMA KeepIs ==
    ASSUME NEW S, NEW spec, NEW kept \in Seq(S), NEW d \in S
    PROVE  Suppression(S, {}, ClashIn(spec, S), spec.maximum_detections)[kept][d]
             = Models!Keep(spec, kept, d)
<1>1. \A i \in DOMAIN kept :
          kept[i] \in ClashIn(spec, S)[d] <=> Models!Suppresses(spec, kept[i].box, d.box)
    BY DEF ClashIn
<1>2. d \notin {}
    OBVIOUS
<1> QED BY <1>1, <1>2 DEF Suppression, Models!Keep

LEMMA KeptFolds ==
    ASSUME NEW S, NEW spec, NEW s \in Seq(S)
    PROVE  FoldsTo(Models!KeptAmong(spec, s), Seq(S),
                   Suppression(S, {}, ClashIn(spec, S), spec.maximum_detections), <<>>, s)
<1> DEFINE V == Seq(S)
           D == 1..Len(s)
           F == Suppression(S, {}, ClashIn(spec, S), spec.maximum_detections)
           Eq(h) == h = [T \in SUBSET D |->
                            IF T = {} THEN <<>>
                            ELSE Models!Keep(spec, h[T \ {Models!Max(T)}], s[Models!Max(T)])]
           h == CHOOSE f : Eq(f)
<1>0. s \in Seq(S)
    OBVIOUS
<1>1. Indices(D) /\ DOMAIN s = D
    BY IndicesOf
<1>2. F \in [V -> [S -> V]]
    BY SuppressionTyped
<1>3. \A v \in V : \A e \in S : F[v][e] = Models!Keep(spec, v, e)
    BY KeepIs
<1>4. \A v \in V : \A e \in S : F[v][e] \in V
    BY <1>2
<1>5. <<>> \in V
    BY EmptySeq
<1>6. Models!KeptAmong(spec, s) = h[D]
  <2> HIDE DEF D
  <2> QED BY <1>1, Zenon DEF Models!KeptAmong, Models!MapThenFoldSet
<1> HIDE DEF F, h
<1>7. \A T \in SUBSET D : T # {} => T \ {Max(T)} \in SUBSET D /\ s[Max(T)] \in S
  <2> SUFFICES ASSUME NEW T \in SUBSET D, T # {}
               PROVE  T \ {Max(T)} \in SUBSET D /\ s[Max(T)] \in S
      OBVIOUS
  <2>1. Max(T) \in T /\ T \ {Max(T)} \in SUBSET D
      BY <1>1, MaxOfPart
  <2>2. Max(T) \in 1..Len(s)
      BY <2>1
  <2> HIDE DEF D
  <2> QED BY <1>0, <2>1, <2>2
<1>8. Eq(h)
  <2>1. PICK g : Folding(g, F, <<>>, s, D)
      BY <1>1, FoldingExists
  <2>2. \A T \in SUBSET D : g[T] \in V
      BY ONLY <1>4, <1>5, <2>1, s \in Seq(S), FoldingTyped
  <2>3. g = [T \in SUBSET D |-> IF T = {} THEN <<>> ELSE F[g[T \ {Max(T)}]][s[Max(T)]]]
      BY ONLY <2>1, Zenon DEF Folding
  <2> HIDE DEF D, V
  <2>4. \A T \in SUBSET D : T # {} =>
            F[g[T \ {Max(T)}]][s[Max(T)]]
              = Models!Keep(spec, g[T \ {Models!Max(T)}], s[Models!Max(T)])
    <3> SUFFICES ASSUME NEW T \in SUBSET D, T # {}
                 PROVE  F[g[T \ {Max(T)}]][s[Max(T)]]
                          = Models!Keep(spec, g[T \ {Models!Max(T)}], s[Models!Max(T)])
        OBVIOUS
    <3>1. Models!Max(T) = Max(T)
        BY ModelsMax
    <3>2. F[g[T \ {Max(T)}]][s[Max(T)]] = Models!Keep(spec, g[T \ {Max(T)}], s[Max(T)])
        BY <1>3, <1>7, <2>2, Zenon
    <3> QED BY ONLY <3>1, <3>2, Zenon
  <2>5. Eq(g)
      BY ONLY <2>3, <2>4, Zenon
  <2> QED BY <2>5, Zenon DEF h
<1> DEFINE W == V \cup {h[T] : T \in SUBSET D}
           G == [v \in W |-> [e \in S |-> Models!Keep(spec, v, e)]]
<1>9. Folding(h, G, <<>>, s, D)
  <2> HIDE DEF D, V
  <2>1. \A T \in SUBSET D : T # {} =>
            G[h[T \ {Max(T)}]][s[Max(T)]]
              = Models!Keep(spec, h[T \ {Models!Max(T)}], s[Models!Max(T)])
    <3>1. \A v \in W : \A e \in S : G[v][e] = Models!Keep(spec, v, e)
        BY Zenon
    <3>2. \A T \in SUBSET D : h[T] \in W
        BY Zenon
    <3> HIDE DEF G, W
    <3> SUFFICES ASSUME NEW T \in SUBSET D, T # {}
                 PROVE  G[h[T \ {Max(T)}]][s[Max(T)]]
                          = Models!Keep(spec, h[T \ {Models!Max(T)}], s[Models!Max(T)])
        OBVIOUS
    <3>3. Models!Max(T) = Max(T)
        BY ModelsMax
    <3>4. G[h[T \ {Max(T)}]][s[Max(T)]] = Models!Keep(spec, h[T \ {Max(T)}], s[Max(T)])
        BY <1>7, <3>1, <3>2, Zenon
    <3> QED BY ONLY <3>3, <3>4, Zenon
  <2> HIDE DEF G
  <2> QED BY <1>8, <2>1, Zenon DEF Folding
<1>10. \A v \in V : \A e \in S : G[v][e] = F[v][e]
    BY <1>3, Zenon
<1> HIDE DEF G, Eq
<1>11. FoldsTo(h[D], V, F, <<>>, s)
    BY ONLY <1>4, <1>5, <1>9, <1>10, s \in Seq(S), FoldsLike
<1> QED BY <1>6, <1>11 DEF F

-----------------------------------------------------------------------------
(* The layout of the output says only where a number is.                   *)

SameButLayout(a, b) ==
    /\ a.box = b.box /\ a.class_score = b.class_score /\ a.class_count = b.class_count
    /\ a.objectness = b.objectness /\ a.keypoint = b.keypoint
    /\ a.keypoint_stride = b.keypoint_stride
    /\ a.confidence_threshold = b.confidence_threshold
    /\ a.nms_iou_threshold = b.nms_iou_threshold
    /\ a.maximum_detections = b.maximum_detections

LEMMA SameOfRow ==
    ASSUME NEW a, NEW b, SameButLayout(a, b), NEW row
    PROVE  /\ Models!RowConfidence(a, row) = Models!RowConfidence(b, row)
           /\ Models!FiniteBox(a, row) <=> Models!FiniteBox(b, row)
           /\ \A i : Models!DetectionOf(a, row, RowMeta, i) = Models!DetectionOf(b, row, RowMeta, i)
<1>1. Models!RowConfidence(a, row) = Models!RowConfidence(b, row)
  <2>1. {Models!Probability(row[a.class_score + k]) : k \in 0..(a.class_count - 1)}
          = {Models!Probability(row[b.class_score + k]) : k \in 0..(b.class_count - 1)}
      BY DEF SameButLayout
  <2> QED BY <2>1 DEF SameButLayout, Models!RowConfidence
<1>2. Models!FiniteBox(a, row) <=> Models!FiniteBox(b, row)
    BY DEF SameButLayout, Models!FiniteBox
<1>3. Models!BoxOf(a, row, RowMeta) = Models!BoxOf(b, row, RowMeta)
    BY DEF SameButLayout, Models!BoxOf
<1>4. Models!QuadrilateralOf(a, row, RowMeta) = Models!QuadrilateralOf(b, row, RowMeta)
    BY DEF SameButLayout, Models!QuadrilateralOf
<1> QED BY <1>1, <1>2, <1>3, <1>4 DEF Models!DetectionOf

LEMMA SameRanked ==
    ASSUME NEW a, NEW b, SameButLayout(a, b), NEW R
    PROVE  Models!Ranked(a, R, RowMeta) = Models!Ranked(b, R, RowMeta)
<1>1. Passing(a, R) = Passing(b, R)
    BY SameOfRow DEF Passing, SameButLayout
<1>2. FoundIn(a, R) = FoundIn(b, R)
    BY <1>1, SameOfRow DEF FoundIn
<1>3. \A spec : Models!Ranked(spec, R, RowMeta) = Models!RankedOf(FoundIn(spec, R))
    BY Zenon DEF Models!Ranked, FoundIn, Passing
<1> QED BY <1>2, <1>3

LEMMA SameKept ==
    ASSUME NEW a, NEW b, SameButLayout(a, b), NEW S, NEW s \in Seq(S)
    PROVE  Models!KeptAmong(a, s) = Models!KeptAmong(b, s)
<1>1. \A p, q : Models!Suppresses(a, p, q) <=> Models!Suppresses(b, p, q)
    BY DEF SameButLayout, Models!Suppresses
<1>2. ClashIn(a, S) = ClashIn(b, S)
    BY <1>1 DEF ClashIn
<1>3. a.maximum_detections = b.maximum_detections
    BY DEF SameButLayout
<1> DEFINE F == Suppression(S, {}, ClashIn(b, S), b.maximum_detections)
<1>4. FoldsTo(Models!KeptAmong(a, s), Seq(S), F, <<>>, s)
    BY <1>2, <1>3, KeptFolds
<1>5. FoldsTo(Models!KeptAmong(b, s), Seq(S), F, <<>>, s)
    BY KeptFolds
<1> HIDE DEF F
<1> QED BY ONLY <1>4, <1>5, s \in Seq(S), FoldsToUnique

-----------------------------------------------------------------------------
(* The numbers of the output, row by row.                                  *)

\* A pair of numbers in one, and each of them back.
LEMMA PairedIs ==
    ASSUME NEW n \in Nat \ {0}, NEW m \in Nat \ {0}, NEW i \in 0..(n - 1), NEW f \in 0..(m - 1)
    PROVE  /\ f * n + i \in 0..(m * n - 1)
           /\ (f * n + i) \div n = f /\ (f * n + i) % n = i
<1>1. f * n \in Nat /\ m * n \in Nat /\ (f + 1) * n = f * n + n
    OBVIOUS
<1>2. (f + 1) * n <= m * n
    BY Monotone
<1> DEFINE p == f * n
           a == p + i
<1>3. p \in Nat /\ a \in Nat /\ p <= a /\ a < p + n /\ p + n <= m * n
    BY <1>1, <1>2
<1>4. a \div n = f
    BY <1>3, QuotientIs
<1>5. a = (a \div n) * n + (a % n)
  <2>1. a = n * (a \div n) + (a % n) /\ a \div n \in Nat /\ a % n \in Nat
      BY <1>3
  <2>2. n * (a \div n) = (a \div n) * n
      BY <2>1
  <2> QED BY <2>1, <2>2
<1>6. a % n = i
  <2>1. a % n \in Nat
      BY <1>3
  <2>2. a = p + (a % n)
      BY <1>4, <1>5
  <2> QED BY <1>3, <2>1, <2>2
<1>7. a \in 0..(m * n - 1)
  <2> DEFINE k == m * n
  <2>1. k \in Nat /\ a < k
      BY <1>1, <1>3
  <2> HIDE DEF k
  <2> QED BY <1>3, <2>1
<1> QED BY <1>4, <1>6, <1>7

Layouts == {"features_first", "candidates_first"}

\* The matrix of n candidates.
MatrixOf(layout, n) == [layout |-> layout, features |-> Features, candidates |-> n]

LEMMA FlatIs ==
    ASSUME NEW rows \in Seq(CandidateRecords), rows # <<>>, NEW layout \in Layouts
    PROVE  LET data == Flat(rows, layout)
               n == Len(rows)
           IN  /\ DOMAIN data # {} /\ Cardinality(DOMAIN data) = Features * n
               /\ Models!RowsOf(MatrixOf(layout, n), data) = RowsRead(rows)
<1> DEFINE data == Flat(rows, layout)
           n == Len(rows)
           m == Features
           D == 0..(m * n - 1)
<1>1. n \in Nat \ {0} /\ m = 15
    BY EmptySeq DEF Features
<1>2. \A i \in 0..(n - 1) : rows[i + 1] \in [0..(m - 1) -> Int \cup {NaN}]
    BY <1>1 DEF CandidateRecords
<1> HIDE DEF n
<1>3. m * n \in Nat \ {0}
    BY <1>1
<1>4. data = [k \in D |-> IF layout = "features_first" THEN rows[(k % n) + 1][k \div n]
                          ELSE rows[(k \div m) + 1][k % m]]
    BY Zenon DEF Flat, n
<1> HIDE DEF data
<1>5. D # {} /\ Cardinality(D) = m * n
  <2> DEFINE c == m * n - 1
  <2>1. 0 \in Int /\ c \in Int /\ c >= 0 /\ c + 1 = m * n
      BY <1>3
  <2> HIDE DEF c
  <2>2. Cardinality(0..c) = c + 1
      BY ONLY <2>1, FS_Interval
  <2>3. 0 \in 0..c
      BY <2>1
  <2> QED BY <2>1, <2>2, <2>3 DEF c
<1>6. DOMAIN data = D
    BY <1>4
<1> DEFINE at(f, i) == Models!MatrixIndex(layout, m, n, f, i)
<1>7. ASSUME NEW i \in 0..(n - 1), NEW f \in 0..(m - 1)
      PROVE  data[at(f, i)] = rows[i + 1][f]
  <2>1. CASE layout = "features_first"
    <3>1. at(f, i) = f * n + i
        BY <2>1 DEF Models!MatrixIndex
    <3>2. /\ f * n + i \in D
          /\ (f * n + i) \div n = f /\ (f * n + i) % n = i
      <4> HIDE DEF m
      <4> QED BY <1>1, PairedIs
    <3> DEFINE k == at(f, i)
    <3>3. k \in D /\ k \div n = f /\ k % n = i
        BY <3>1, <3>2
    <3> HIDE DEF k, D
    <3>4. data[k] = rows[(k % n) + 1][k \div n]
        BY <1>4, <2>1, <3>3
    <3>5. data[k] = rows[i + 1][f]
        BY <3>3, <3>4
    <3> QED BY <3>5 DEF k
  <2>2. CASE layout = "candidates_first"
    <3>1. at(f, i) = i * m + f
        BY <2>2 DEF Models!MatrixIndex
    <3>2. /\ i * m + f \in 0..(n * m - 1)
          /\ (i * m + f) \div m = i /\ (i * m + f) % m = f
      <4>1. m \in Nat \ {0}
          BY <1>1
      <4> HIDE DEF m
      <4> QED BY <1>1, <4>1, PairedIs
    <3>0. n * m = m * n
        BY <1>1
    <3> DEFINE k == at(f, i)
    <3>3. k \in D /\ k \div m = i /\ k % m = f
        BY <3>0, <3>1, <3>2
    <3> HIDE DEF k, D, m
    <3>4. data[k] = rows[(k \div m) + 1][k % m]
        BY <1>4, <2>2, <3>3
    <3>5. data[k] = rows[i + 1][f]
        BY <3>3, <3>4
    <3> QED BY <3>5 DEF k
  <2> QED BY <2>1, <2>2 DEF Layouts
<1> DEFINE matrix == MatrixOf(layout, n)
<1>8. matrix.layout = layout /\ matrix.features = m /\ matrix.candidates = n
    BY DEF MatrixOf
<1>9. Models!RowsOf(matrix, data)
        = [i \in 0..(n - 1) |-> [f \in 0..(m - 1) |-> data[at(f, i)]]]
  <2> HIDE DEF matrix, m
  <2> QED BY <1>8, Zenon DEF Models!RowsOf
<1> HIDE DEF at, m, matrix
<1>10. \A i \in 0..(n - 1) : [f \in 0..(m - 1) |-> data[at(f, i)]] = rows[i + 1]
  <2> SUFFICES ASSUME NEW i \in 0..(n - 1)
               PROVE  [f \in 0..(m - 1) |-> data[at(f, i)]] = rows[i + 1]
      OBVIOUS
  <2>1. rows[i + 1] = [f \in 0..(m - 1) |-> rows[i + 1][f]]
      BY <1>2
  <2>2. \A f \in 0..(m - 1) : data[at(f, i)] = rows[i + 1][f]
      BY <1>7
  <2> QED BY ONLY <2>1, <2>2, Zenon
<1>11. Models!RowsOf(matrix, data) = RowsRead(rows)
    BY <1>9, <1>10, Zenon DEF RowsRead, n
<1> QED BY <1>5, <1>6, <1>11 DEF n, data, matrix, m

-----------------------------------------------------------------------------
(* What parse gives for each layout and rank.                              *)

\* The matrices an output may be read as, and what is kept of each.
MatricesOf(spec, data, shape) ==
    {m \in Models!ResolveMatrix(spec.layout, shape, Models!Cardinality(DOMAIN data)) :
        m.features >= Models!RequiredFeatures(spec)}
KeptOfEach(spec, data, matrices) ==
    {Models!KeptAmong(spec, Models!Ranked(spec, Models!RowsOf(matrix, data), RowMeta)) :
        matrix \in matrices}

LEMMA ParseIs ==
    ASSUME NEW spec, NEW data, NEW shape, DOMAIN data # {}
    PROVE  Models!Parse(spec, data, shape, RowMeta)
             = KeptOfEach(spec, data, MatricesOf(spec, data, shape))
BY Zenon DEF Models!Parse, MatricesOf, KeptOfEach

LEMMA ResolvedIs ==
    ASSUME NEW layout \in Layouts, NEW n \in Nat \ {0}, NEW count, count = Features * n,
           NEW rows, Len(rows) = n
    PROVE  LET shape == ShapeOf(rows, layout)
           IN  /\ Models!ResolveMatrix(layout, shape, count) = {MatrixOf(layout, n)}
               /\ Models!ResolveMatrix(layout, Tail(shape), count) = {MatrixOf(layout, n)}
               /\ Models!ResolveMatrix(layout, <<2>> \o Tail(shape), count) = {}
<1> DEFINE m == Features
           a == IF layout = "features_first" THEN m ELSE n
           b == IF layout = "features_first" THEN n ELSE m
           shape == ShapeOf(rows, layout)
<1>1. m \in Nat \ {0}
    BY DEF Features
<1>2. shape = <<1, a, b>>
    BY DEF ShapeOf
<1>3. a \in Nat \ {0} /\ b \in Nat \ {0} /\ a * b = count
    BY <1>1
<1>4. {MatrixOf(layout, n)}
        = IF layout = "features_first"
          THEN {[layout |-> layout, features |-> a, candidates |-> b]}
          ELSE {[layout |-> layout, features |-> b, candidates |-> a]}
    BY DEF MatrixOf
<1> HIDE DEF a, b, shape, m
<1>5. Tail(shape) = <<a, b>>
    BY <1>2
<1> DEFINE two == <<2>> \o Tail(shape)
<1>6. Len(two) = 3 /\ two[1] = 2
  <2>1. <<2>> \in Seq(Nat) /\ <<a, b>> \in Seq(Nat) /\ Len(<<2>>) = 1 /\ Len(<<a, b>>) = 2
      BY <1>3
  <2>2. two = <<2>> \o <<a, b>> /\ <<2>>[1] = 2
      BY <1>5
  <2> HIDE DEF two
  <2> QED BY <2>1, <2>2
<1> HIDE DEF two
<1>7. Models!ResolveMatrix(layout, <<a, b>>, count) = {MatrixOf(layout, n)}
  <2>1. Len(<<a, b>>) = 2 /\ <<a, b>>[1] = a /\ <<a, b>>[2] = b
      OBVIOUS
  <2> QED BY <1>3, <1>4, <2>1 DEF Models!ResolveMatrix
<1>8. Models!ResolveMatrix(layout, <<1, a, b>>, count) = {MatrixOf(layout, n)}
  <2>1. /\ Len(<<1, a, b>>) = 3 /\ <<1, a, b>>[1] = 1 /\ Tail(<<1, a, b>>) = <<a, b>>
        /\ <<a, b>>[1] = a /\ <<a, b>>[2] = b
      OBVIOUS
  <2> QED BY <1>3, <1>4, <2>1 DEF Models!ResolveMatrix
<1>9. Models!ResolveMatrix(layout, two, count) = {}
    BY <1>6 DEF Models!ResolveMatrix
<1> QED BY <1>2, <1>5, <1>7, <1>8, <1>9 DEF shape, two

\* Both layouts and both ranks give the same; two batches give nothing.
LEMMA ParsedAre ==
    ASSUME NEW spec \in OutputSpecs, NEW rows \in Seq(CandidateRecords), rows # <<>>,
           NEW layout \in Layouts,
           NEW other, other = [spec EXCEPT !.layout = layout],
           NEW S, Models!RequiredFeatures(spec) <= Features =>
                      Models!Ranked(spec, RowsRead(rows), RowMeta) \in Seq(S)
    PROVE  LET data == Flat(rows, layout)
               shape == ShapeOf(rows, layout)
               kept == Models!KeptAmong(spec, Models!Ranked(spec, RowsRead(rows), RowMeta))
               parsed == IF Models!RequiredFeatures(spec) <= Features THEN {kept} ELSE {}
           IN  /\ Models!Parse(other, data, shape, RowMeta) = parsed
               /\ Models!Parse(other, data, Tail(shape), RowMeta) = parsed
               /\ Models!Parse(other, data, <<2>> \o Tail(shape), RowMeta) = {}
<1> DEFINE data == Flat(rows, layout)
           shape == ShapeOf(rows, layout)
           n == Len(rows)
           matrix == MatrixOf(layout, n)
           ranked == Models!Ranked(spec, RowsRead(rows), RowMeta)
           kept == Models!KeptAmong(spec, ranked)
           parsed == IF Models!RequiredFeatures(spec) <= Features THEN {kept} ELSE {}
           count == Models!Cardinality(DOMAIN data)
<1>1. SameButLayout(other, spec) /\ other.layout = layout
  <2>1. spec \in [layout : {"features_first", "candidates_first"}, box : Nat, class_score : Nat,
            class_count : Nat, objectness : Nat \cup {-1}, keypoint : Nat, keypoint_stride : Nat,
            confidence_threshold : Nat, nms_iou_threshold : Nat, maximum_detections : Nat]
      BY CandidatesAssumption
  <2> QED BY ONLY <2>1, other = [spec EXCEPT !.layout = layout] DEF SameButLayout
<1>2. n \in Nat \ {0}
    BY EmptySeq
<1>3. /\ DOMAIN data # {} /\ count = Features * n
      /\ Models!RowsOf(matrix, data) = RowsRead(rows)
    BY FlatIs, ModelsCardinality
<1>4. Models!RequiredFeatures(other) = Models!RequiredFeatures(spec)
    BY <1>1 DEF SameButLayout, Models!RequiredFeatures
<1>5. ASSUME Models!RequiredFeatures(spec) <= Features
      PROVE  Models!KeptAmong(other, Models!Ranked(other, RowsRead(rows), RowMeta)) = kept
  <2>1. Models!Ranked(other, RowsRead(rows), RowMeta) = ranked
      BY <1>1, SameRanked
  <2>2. ranked \in Seq(S)
      BY <1>5
  <2> HIDE DEF ranked
  <2>3. Models!KeptAmong(other, ranked) = Models!KeptAmong(spec, ranked)
      BY <1>1, <2>2, SameKept
  <2> QED BY <2>1, <2>3
<1>6. matrix.features = Features
    BY DEF MatrixOf
<1>7. ASSUME NEW s, NEW found, Models!ResolveMatrix(layout, s, count) = found,
             found \in {{}, {matrix}}
      PROVE  Models!Parse(other, data, s, RowMeta) = IF found = {} THEN {} ELSE parsed
  <2> DEFINE matrices == {m \in found : m.features >= Models!RequiredFeatures(other)}
  <2>1. matrices = MatricesOf(other, data, s)
      BY <1>1, <1>7 DEF MatricesOf
  <2> HIDE DEF data
  <2>2. Models!Parse(other, data, s, RowMeta) = KeptOfEach(other, data, matrices)
    <3>1. Models!Parse(other, data, s, RowMeta)
            = KeptOfEach(other, data, MatricesOf(other, data, s))
        BY <1>3, ParseIs
    <3> HIDE DEF matrices
    <3> QED BY ONLY <2>1, <3>1
  <2>3. CASE found = {}
      BY <2>2, <2>3 DEF KeptOfEach
  <2>4. CASE found = {matrix}
    <3>1. found # {}
        BY <2>4
    <3> DEFINE enough == Models!RequiredFeatures(spec) <= Features
    <3>2. Features >= Models!RequiredFeatures(spec) <=> enough
        OBVIOUS
    <3>5. enough => Models!KeptAmong(other, Models!Ranked(other, RowsRead(rows), RowMeta)) = kept
        BY <1>5
    <3> HIDE DEF enough
    <3>3. CASE enough
      <4>1. matrices = {matrix}
          BY <1>4, <1>6, <2>4, <3>2, <3>3
      <4> HIDE DEF matrices, matrix, kept
      <4>2. Models!Parse(other, data, s, RowMeta) = {kept}
          BY <1>3, <3>3, <3>5, <2>2, <4>1 DEF KeptOfEach
      <4> QED BY <3>1, <3>3, <4>2 DEF enough
    <3>4. CASE ~enough
      <4>1. matrices = {}
          BY <1>4, <1>6, <2>4, <3>2, <3>4
      <4> HIDE DEF matrices
      <4>2. Models!Parse(other, data, s, RowMeta) = {}
          BY <2>2, <4>1 DEF KeptOfEach
      <4> QED BY <3>1, <3>4, <4>2 DEF enough
    <3> QED BY <3>3, <3>4
  <2> QED BY <1>7, <2>3, <2>4
<1>8. /\ Models!ResolveMatrix(layout, shape, count) = {matrix}
      /\ Models!ResolveMatrix(layout, Tail(shape), count) = {matrix}
      /\ Models!ResolveMatrix(layout, <<2>> \o Tail(shape), count) = {}
  <2> HIDE DEF count
  <2> QED BY <1>2, <1>3, ResolvedIs
<1> HIDE DEF data, shape, matrix, parsed, count, kept
<1>9. /\ Models!Parse(other, data, shape, RowMeta) = parsed
      /\ Models!Parse(other, data, Tail(shape), RowMeta) = parsed
      /\ Models!Parse(other, data, <<2>> \o Tail(shape), RowMeta) = {}
    BY <1>7, <1>8
<1> QED BY <1>9, Zenon DEF data, shape, parsed, kept, ranked

CandidatesInv ==
    input.of = "candidates" => input.spec \in OutputSpecs /\ input.rows \in Seq(CandidateRecords)

\* What is kept of the candidates of rows.
LEMMA KeptAre ==
    ASSUME NEW spec, FitSpec(spec), NEW rows \in Seq(CandidateRecords)
    PROVE  LET ranked == Models!Ranked(spec, RowsRead(rows), RowMeta)
               kept == Models!KeptAmong(spec, ranked)
               S == SeenIn(spec, RowsRead(rows))
           IN  /\ kept \in Seq(S) /\ ranked \in Seq(S)
               /\ \A i, j \in DOMAIN kept : j < i =>
                      /\ kept[j].confidence >= kept[i].confidence
                      /\ ~Models!Suppresses(spec, kept[j].box, kept[i].box)
               /\ \A d \in S :
                      \/ \E k \in DOMAIN kept :
                             /\ kept[k].confidence >= d.confidence
                             /\ kept[k] = d \/ Models!Suppresses(spec, kept[k].box, d.box)
                      \/ /\ Len(kept) = spec.maximum_detections
                         /\ \A k \in DOMAIN kept : kept[k].confidence >= d.confidence
<1> DEFINE R == RowsRead(rows)
           n == Len(rows)
           S == SeenIn(spec, R)
           ranked == Models!Ranked(spec, R, RowMeta)
           kept == Models!KeptAmong(spec, ranked)
           clash == ClashIn(spec, S)
           most == spec.maximum_detections
           N == Cardinality(S)
<1>1. n \in Nat /\ R \in [0..(n - 1) -> CandidateRecords]
  <2>1. n \in Nat /\ \A i \in 0..(n - 1) : rows[i + 1] \in CandidateRecords
    <3>1. n \in Nat /\ \A k \in 1..n : rows[k] \in CandidateRecords
        OBVIOUS
    <3> HIDE DEF n
    <3>2. \A i \in 0..(n - 1) : i + 1 \in 1..n
        BY <3>1
    <3> QED BY <3>1, <3>2
  <2> QED BY <2>1 DEF RowsRead
<1> HIDE DEF R, n
<1>2. ranked \in Seq(S) /\ Len(ranked) = N /\ Arranged(ranked, S, BetterIn(S))
    BY <1>1, RankedAre
<1>3. IsFiniteSet(S) /\ \A d \in S : d.confidence \in Int
    BY <1>1, FoundAre
<1>4. most \in Nat
    BY SpecIs DEF FitSpec
<1> HIDE DEF S, ranked, most
<1>5. FoldsTo(kept, Seq(S), Suppression(S, {}, clash, most), <<>>, ranked)
    BY <1>2, KeptFolds DEF most
<1> HIDE DEF kept, clash
<1>6. kept \in Seq(S) /\ Survivors(kept, ranked, Len(ranked), {}, clash, most)
    BY ONLY <1>2, <1>4, <1>5, SurvivorsAre
<1>7. PICK p : KeptOf(kept, p, ranked, N, {}, clash, most)
    BY <1>2, <1>6 DEF Survivors
<1>8. N \in Nat
    BY <1>3, FS_CardinalityType
<1> HIDE DEF N
<1>9. /\ \A k \in 1..N : ranked[k] \in S
      /\ \A d \in S : \E l \in 1..N : ranked[l] = d
      /\ \A k, l \in 1..N : k < l => ranked[k] \in BetterIn(S)[ranked[l]]
    BY <1>2 DEF Arranged, N
<1>10. ASSUME NEW k \in 1..N, NEW l \in 1..N, k <= l
       PROVE  ranked[k].confidence >= ranked[l].confidence
  <2>1. ranked[k] \in S /\ ranked[l] \in S
      BY <1>9
  <2>2. ranked[k].confidence \in Int /\ ranked[l].confidence \in Int
      BY <1>3, <2>1
  <2>3. CASE k = l
      BY <2>2, <2>3
  <2>4. CASE k < l
    <3>1. ranked[k] \in BetterIn(S)[ranked[l]]
        BY <1>9, <2>4
    <3>2. \/ ranked[k].confidence > ranked[l].confidence
          \/ ranked[k].confidence = ranked[l].confidence
        BY <2>1, <3>1 DEF BetterIn
    <3> QED BY <2>2, <3>2
  <2> QED BY <1>8, <1>10, <2>3, <2>4
<1>11. DOMAIN kept = 1..Len(kept) /\ \A i \in DOMAIN kept : kept[i] \in S
    BY <1>6
<1>12. \A i \in DOMAIN kept : p[i] \in 1..N /\ kept[i] = ranked[p[i]]
    BY <1>7, <1>11 DEF KeptOf
<1>13. \A d, e \in S : e \in clash[d] <=> Models!Suppresses(spec, e.box, d.box)
    BY DEF ClashIn, clash
<1>14. ASSUME NEW i \in DOMAIN kept, NEW j \in DOMAIN kept, j < i
       PROVE  /\ kept[j].confidence >= kept[i].confidence
              /\ ~Models!Suppresses(spec, kept[j].box, kept[i].box)
  <2>1. p[j] < p[i] /\ kept[j] \notin clash[kept[i]]
      BY <1>7, <1>11, <1>14 DEF KeptOf
  <2>2. p[j] \in 1..N /\ p[i] \in 1..N
      BY <1>12
  <2>3. p[j] <= p[i]
      BY <1>8, <2>1, <2>2
  <2>4. kept[j].confidence >= kept[i].confidence
      BY <1>10, <1>12, <2>2, <2>3
  <2> QED BY <1>11, <1>13, <2>1, <2>4
<1>15. ASSUME NEW d \in S
       PROVE  \/ \E k \in DOMAIN kept :
                     /\ kept[k].confidence >= d.confidence
                     /\ kept[k] = d \/ Models!Suppresses(spec, kept[k].box, d.box)
              \/ /\ Len(kept) = most
                 /\ \A k \in DOMAIN kept : kept[k].confidence >= d.confidence
  <2>1. PICK l \in 1..N : ranked[l] = d
      BY <1>9
  <2>2. \/ \E i \in DOMAIN kept : p[i] <= l /\ (kept[i] = d \/ kept[i] \in clash[d])
        \/ Len(kept) = most /\ \A i \in DOMAIN kept : p[i] <= l
      BY <1>7, <1>11, <2>1 DEF KeptOf
  <2>3. \A i \in DOMAIN kept : p[i] <= l => kept[i].confidence >= d.confidence
      BY <1>10, <1>12, <2>1
  <2>4. CASE \E i \in DOMAIN kept : p[i] <= l /\ (kept[i] = d \/ kept[i] \in clash[d])
      BY <1>11, <1>13, <2>3, <2>4
  <2>5. CASE Len(kept) = most /\ \A i \in DOMAIN kept : p[i] <= l
      BY <2>3, <2>5
  <2> QED BY <2>2, <2>4, <2>5
<1> QED BY <1>2, <1>6, <1>14, <1>15, Zenon DEF R, S, ranked, kept, most

\* The parts of DetectionsAreCandidates.
ParsedAs(spec, rows, layout, shape) ==
    Models!Parse([spec EXCEPT !.layout = layout], Flat(rows, layout), shape, RowMeta)
LayoutsAgree(spec, rows, kept) ==
    \A layout \in {"features_first", "candidates_first"} :
        LET shape == ShapeOf(rows, layout) IN
        /\ ParsedAs(spec, rows, layout, shape) = {kept}
        /\ ParsedAs(spec, rows, layout, Tail(shape)) = {kept}
        /\ ParsedAs(spec, rows, layout, <<2>> \o Tail(shape)) = {}
KeptInside(spec, kept) ==
    \A i \in DOMAIN kept :
        /\ /\ kept[i].box.x >= 0 /\ kept[i].box.y >= 0
           /\ kept[i].box.width > 0 /\ kept[i].box.height > 0
           /\ kept[i].box.x + kept[i].box.width <= Right
           /\ kept[i].box.y + kept[i].box.height <= Bottom
        /\ \A k \in DOMAIN kept[i].quadrilateral :
               /\ kept[i].quadrilateral[k].x \in 0..Right
               /\ kept[i].quadrilateral[k].y \in 0..Bottom
        /\ \A j \in 1..(i - 1) :
               /\ kept[j].confidence >= kept[i].confidence
               /\ ~Models!Suppresses(spec, kept[j].box, kept[i].box)
NoneLost(spec, rows, kept) ==
    \A i \in DOMAIN rows :
        /\ Models!RowConfidence(spec, rows[i]) >= spec.confidence_threshold * ModelOne
        /\ Models!FiniteBox(spec, rows[i])
        => \A d \in {Models!DetectionOf(spec, rows[i], RowMeta, i - 1)} :
               \/ d.box.width = 0 \/ d.box.height = 0
               \/ \E k \in DOMAIN kept :
                      /\ kept[k].confidence >= d.confidence
                      /\ kept[k] = d \/ Models!Suppresses(spec, kept[k].box, d.box)
               \/ /\ Len(kept) = spec.maximum_detections
                  /\ \A k \in DOMAIN kept : kept[k].confidence >= d.confidence

LEMMA CandidateParts ==
    ASSUME \A kept \in ParsedAs(input.spec, input.rows, "features_first",
                                ShapeOf(input.rows, "features_first")) :
               /\ LayoutsAgree(input.spec, input.rows, kept)
               /\ KeptInside(input.spec, kept)
               /\ NoneLost(input.spec, input.rows, kept)
    PROVE  DetectionsAreCandidates
BY ZenonT(40) DEF DetectionsAreCandidates, ParsedAs, LayoutsAgree, KeptInside, NoneLost, Right, Bottom

LEMMA CandidatesHold == CandidatesInv => DetectionsAreCandidates
<1> SUFFICES ASSUME CandidatesInv, input.of = "candidates", input.rows # <<>>
             PROVE  DetectionsAreCandidates
    BY DEF DetectionsAreCandidates
<1> DEFINE rows == input.rows
           spec == input.spec
           R == RowsRead(rows)
           n == Len(rows)
           S == SeenIn(spec, R)
           ranked == Models!Ranked(spec, R, RowMeta)
           kept == Models!KeptAmong(spec, ranked)
           parsed(layout, shape) == ParsedAs(spec, rows, layout, shape)
           enough == Models!RequiredFeatures(spec) <= Features
           result == IF enough THEN {kept} ELSE {}
<1>1. spec \in OutputSpecs /\ rows \in Seq(CandidateRecords) /\ rows # <<>>
    BY DEF CandidatesInv
<1> HIDE DEF rows, spec
<1>2. ASSUME NEW T, enough => ranked \in Seq(T), NEW layout \in Layouts
      PROVE  /\ parsed(layout, ShapeOf(rows, layout)) = result
             /\ parsed(layout, Tail(ShapeOf(rows, layout))) = result
             /\ parsed(layout, <<2>> \o Tail(ShapeOf(rows, layout))) = {}
    BY <1>1, <1>2, ParsedAre DEF ParsedAs
<1> HIDE DEF ranked, kept, enough, parsed, S, R
<1>3. CASE ~enough
  <2>1. parsed("features_first", ShapeOf(rows, "features_first")) = {}
    <3>2. "features_first" \in Layouts
        BY DEF Layouts
    <3> QED BY <1>2, <1>3, <3>2
  <2> QED BY <2>1, CandidateParts, Zenon DEF parsed, rows, spec
<1>4. CASE enough
  <2>1. FitSpec(spec)
      BY <1>1, <1>4 DEF FitSpec, enough
  <2>2. /\ kept \in Seq(S) /\ ranked \in Seq(S)
        /\ \A i, j \in DOMAIN kept : j < i =>
               /\ kept[j].confidence >= kept[i].confidence
               /\ ~Models!Suppresses(spec, kept[j].box, kept[i].box)
        /\ \A d \in S :
               \/ \E k \in DOMAIN kept :
                      /\ kept[k].confidence >= d.confidence
                      /\ kept[k] = d \/ Models!Suppresses(spec, kept[k].box, d.box)
               \/ /\ Len(kept) = spec.maximum_detections
                  /\ \A k \in DOMAIN kept : kept[k].confidence >= d.confidence
      BY <1>1, <2>1, KeptAre, Zenon DEF kept, ranked, S, R
  <2>3. n \in Nat /\ R \in [0..(n - 1) -> CandidateRecords] /\ DOMAIN rows = 1..n
        /\ \A i \in DOMAIN rows : i - 1 \in 0..(n - 1) /\ R[i - 1] = rows[i]
                                 /\ rows[i] \in CandidateRecords
    <3>1. n \in Nat /\ DOMAIN rows = 1..n /\ \A k \in 1..n : rows[k] \in CandidateRecords
        BY <1>1
    <3> HIDE DEF n
    <3>2. \A i \in 0..(n - 1) : i + 1 \in 1..n
        BY <3>1
    <3>3. \A i \in 1..n : i - 1 \in 0..(n - 1) /\ (i - 1) + 1 = i
        BY <3>1
    <3>4. R = [i \in 0..(n - 1) |-> rows[i + 1]]
        BY Zenon DEF R, RowsRead, n
    <3> QED BY <3>1, <3>2, <3>3, <3>4
  <2> HIDE DEF n
  <2>4. \A d \in S :
            /\ d.box.x \in Nat /\ d.box.y \in Nat
            /\ d.box.width \in Nat \ {0} /\ d.box.height \in Nat \ {0}
            /\ d.box.x + d.box.width <= Right /\ d.box.y + d.box.height <= Bottom
            /\ \A k \in DOMAIN d.quadrilateral :
                   d.quadrilateral[k].x \in 0..Right /\ d.quadrilateral[k].y \in 0..Bottom
    <3>1. LET T == SeenIn(spec, R)
          IN  \A d \in T :
                  /\ d.box.x \in Nat /\ d.box.y \in Nat
                  /\ d.box.width \in Nat \ {0} /\ d.box.height \in Nat \ {0}
                  /\ d.box.x + d.box.width <= Right /\ d.box.y + d.box.height <= Bottom
                  /\ \A k \in DOMAIN d.quadrilateral :
                         d.quadrilateral[k].x \in 0..Right /\ d.quadrilateral[k].y \in 0..Bottom
        BY <2>1, <2>3, FoundAre
    <3> QED BY <3>1, Zenon DEF S
  <2>5. \A layout \in {"features_first", "candidates_first"} :
            /\ parsed(layout, ShapeOf(rows, layout)) = {kept}
            /\ parsed(layout, Tail(ShapeOf(rows, layout))) = {kept}
            /\ parsed(layout, <<2>> \o Tail(ShapeOf(rows, layout))) = {}
      BY <1>2, <1>4, <2>2 DEF Layouts
  <2>6. DOMAIN kept = 1..Len(kept) /\ Len(kept) \in Nat /\ \A i \in DOMAIN kept : kept[i] \in S
      BY <2>2
  <2>7. ASSUME NEW i \in DOMAIN kept
        PROVE  /\ kept[i].box.x >= 0 /\ kept[i].box.y >= 0
               /\ kept[i].box.width > 0 /\ kept[i].box.height > 0
               /\ kept[i].box.x + kept[i].box.width <= Right
               /\ kept[i].box.y + kept[i].box.height <= Bottom
               /\ \A k \in DOMAIN kept[i].quadrilateral :
                      /\ kept[i].quadrilateral[k].x \in 0..Right
                      /\ kept[i].quadrilateral[k].y \in 0..Bottom
               /\ \A j \in 1..(i - 1) :
                      /\ kept[j].confidence >= kept[i].confidence
                      /\ ~Models!Suppresses(spec, kept[j].box, kept[i].box)
    <3>1. kept[i] \in S
        BY <2>6
    <3>2. \A j \in 1..(i - 1) : j \in DOMAIN kept /\ j < i
        BY <2>6
    <3> QED BY <2>2, <2>4, <3>1, <3>2
  <2>8. ASSUME NEW i \in DOMAIN rows,
               /\ Models!RowConfidence(spec, rows[i]) >= spec.confidence_threshold * ModelOne
               /\ Models!FiniteBox(spec, rows[i]),
               NEW d, d = Models!DetectionOf(spec, rows[i], RowMeta, i - 1)
        PROVE  \/ d.box.width = 0 \/ d.box.height = 0
               \/ \E k \in DOMAIN kept :
                      /\ kept[k].confidence >= d.confidence
                      /\ kept[k] = d \/ Models!Suppresses(spec, kept[k].box, d.box)
               \/ /\ Len(kept) = spec.maximum_detections
                  /\ \A k \in DOMAIN kept : kept[k].confidence >= d.confidence
    <3>1. i - 1 \in 0..(n - 1) /\ R[i - 1] = rows[i] /\ rows[i] \in CandidateRecords
          /\ DOMAIN R = 0..(n - 1)
        BY <2>3
    <3>2. d.box.width \in Nat /\ d.box.height \in Nat
        BY <2>1, <2>8, <3>1, DetectionIs
    <3>3. d \in FoundIn(spec, R)
      <4>1. i - 1 \in Passing(spec, R)
          BY <2>8, <3>1 DEF Passing
      <4> QED BY <2>8, <3>1, <4>1 DEF FoundIn
    <3>4. d.box.width = 0 \/ d.box.height = 0 \/ d \in S
        BY <3>2, <3>3 DEF SeenIn, S
    <3> QED BY <2>2, <3>4
  <2>9. \A i \in DOMAIN rows :
            /\ Models!RowConfidence(spec, rows[i]) >= spec.confidence_threshold * ModelOne
            /\ Models!FiniteBox(spec, rows[i])
            => \A d \in {Models!DetectionOf(spec, rows[i], RowMeta, i - 1)} :
                   \/ d.box.width = 0 \/ d.box.height = 0
                   \/ \E k \in DOMAIN kept :
                          /\ kept[k].confidence >= d.confidence
                          /\ kept[k] = d \/ Models!Suppresses(spec, kept[k].box, d.box)
                   \/ /\ Len(kept) = spec.maximum_detections
                      /\ \A k \in DOMAIN kept : kept[k].confidence >= d.confidence
    <3> SUFFICES ASSUME NEW i \in DOMAIN rows,
                   /\ Models!RowConfidence(spec, rows[i]) >= spec.confidence_threshold * ModelOne
                   /\ Models!FiniteBox(spec, rows[i]),
                   NEW d \in {Models!DetectionOf(spec, rows[i], RowMeta, i - 1)}
                 PROVE  \/ d.box.width = 0 \/ d.box.height = 0
                        \/ \E k \in DOMAIN kept :
                               /\ kept[k].confidence >= d.confidence
                               /\ kept[k] = d \/ Models!Suppresses(spec, kept[k].box, d.box)
                        \/ /\ Len(kept) = spec.maximum_detections
                           /\ \A k \in DOMAIN kept : kept[k].confidence >= d.confidence
        BY Zenon
    <3>1. d = Models!DetectionOf(spec, rows[i], RowMeta, i - 1)
        OBVIOUS
    <3> QED BY <2>8, <3>1, Zenon
  <2>10. parsed("features_first", ShapeOf(rows, "features_first")) = {kept}
      BY <2>5
  <2>11. LayoutsAgree(spec, rows, kept) /\ KeptInside(spec, kept) /\ NoneLost(spec, rows, kept)
      BY <2>5, <2>7, <2>9, Zenon DEF LayoutsAgree, KeptInside, NoneLost, parsed
  <2>12. \A some \in parsed("features_first", ShapeOf(rows, "features_first")) : some = kept
      BY ONLY <2>10
  <2> QED BY ONLY <2>11, <2>12, CandidateParts, Zenon DEF parsed, rows, spec
<1> QED BY <1>3, <1>4

\* YoloPoseOutputParser::parse keeps of the candidates what it should, for any
\* number of candidates, any features, any image and any specification.
THEOREM DetectionsAlwaysCandidates == Spec => []DetectionsAreCandidates
<1>1. Init => CandidatesInv
  <2> SUFFICES ASSUME FirstInputs PROVE CandidatesInv
      BY InitIsFirst
  <2>1. <<>> \in Seq(CandidateRecords)
      BY EmptySeq
  <2> QED BY <2>1 DEF FirstInputs, CandidatesInv
<1>2. CandidatesInv /\ [Next]_<<input, viewsVars>> => CandidatesInv'
  <2> SUFFICES ASSUME CandidatesInv, [Next]_<<input, viewsVars>> PROVE CandidatesInv'
      OBVIOUS
  <2>1. CASE input' = input
      BY <2>1 DEF CandidatesInv
  <2>2. ASSUME NextInputs, input'.of = "candidates"
        PROVE  input'.spec \in OutputSpecs /\ input'.rows \in Seq(CandidateRecords)
    <3>1. PICK r \in CandidateRows : input'.rows = Append(input.rows, r)
        BY <2>2 DEF NextInputs
    <3>2. input.of = "candidates" /\ input'.spec = input.spec
        BY <2>2 DEF NextInputs
    <3>3. input.spec \in OutputSpecs /\ input.rows \in Seq(CandidateRecords)
        BY <3>2 DEF CandidatesInv
    <3>4. r \in CandidateRecords
        BY CandidatesAssumption DEF CandidateRecords
    <3>5. Append(input.rows, r) \in Seq(CandidateRecords)
        BY ONLY <3>3, <3>4, AppendProperties
    <3> QED BY <3>1, <3>2, <3>3, <3>5
  <2> QED BY <2>1, <2>2, StepIsNext DEF CandidatesInv
<1> QED BY <1>1, <1>2, CandidatesHold, PTL DEF Spec

-----------------------------------------------------------------------------
(* Normalizing: one character after the other.                             *)

Codes == 0..255

\* What PushNormalized is, on sequences of numbers.
Pushing == [t \in Seq(Nat) |-> [c \in Codes |-> PushNormalized(t, c)]]

LEMMA PushingTyped == \A t \in Seq(Nat) : \A c \in Codes : Pushing[t][c] \in Seq(Nat)
<1> SUFFICES ASSUME NEW t \in Seq(Nat), NEW c \in Codes PROVE Pushing[t][c] \in Seq(Nat)
    OBVIOUS
<1>1. Upper(c) \in Nat
    BY DEF Upper, Codes
<1>2. Append(t, Upper(c)) \in Seq(Nat)
    BY <1>1, AppendProperties
<1> QED BY <1>2 DEF Pushing, PushNormalized

LEMMA PushedFolds ==
    ASSUME NEW text \in Seq(Codes), NEW n, n = Len(text), NEW h,
           h = CHOOSE f : f = [i \in 0..n |-> IF i = 0 THEN <<>>
                                              ELSE PushNormalized(f[i - 1], text[i])]
    PROVE  FoldsTo(h[n], Seq(Nat), Pushing, <<>>, text)
<1> DEFINE Eq(f) == f = [i \in 0..n |-> IF i = 0 THEN <<>>
                                        ELSE PushNormalized(f[i - 1], text[i])]
<1>1. n \in Nat /\ \A k \in 1..n : text[k] \in Codes
    OBVIOUS
<1>2. PICK m \in [0..n -> Seq(Nat)] :
          m[0] = <<>> /\ \A k \in 1..n : m[k] = Pushing[m[k - 1]][text[k]]
  <2>1. <<>> \in Seq(Nat)
      BY EmptySeq
  <2>2. Indices(1..n)
      BY IndicesOf
  <2>3. PICK g : Folding(g, Pushing, <<>>, text, 1..n)
      BY <2>2, FoldingExists
  <2>4. FoldsTo(g[1..n], Seq(Nat), Pushing, <<>>, text)
      BY <2>1, <2>3, PushingTyped, FoldingPrefixes
  <2> QED BY <2>4 DEF FoldsTo
<1>3. \A k \in 1..n : m[k] = PushNormalized(m[k - 1], text[k])
  <2> SUFFICES ASSUME NEW k \in 1..n PROVE m[k] = PushNormalized(m[k - 1], text[k])
      OBVIOUS
  <2>1. k - 1 \in 0..n /\ text[k] \in Codes
      BY <1>1
  <2>2. m[k - 1] \in Seq(Nat)
      BY <2>1
  <2> QED BY <1>2, <2>1, <2>2 DEF Pushing
<1>4. Eq(m)
  <2>1. \A i \in 0..n : i # 0 => i \in 1..n
      BY <1>1
  <2>2. \A i \in 0..n : m[i] = IF i = 0 THEN <<>> ELSE PushNormalized(m[i - 1], text[i])
      BY <1>2, <1>3, <2>1
  <2>3. m = [i \in 0..n |-> m[i]]
      OBVIOUS
  <2> QED BY <2>2, <2>3, Zenon
<1>5. Eq(h)
    BY <1>4, Zenon
<1>6. h[0] = <<>> /\ \A k \in 1..n : h[k] = PushNormalized(h[k - 1], text[k])
  <2> HIDE DEF Eq
  <2>1. \A i \in 0..n : h[i] = IF i = 0 THEN <<>> ELSE PushNormalized(h[i - 1], text[i])
      BY <1>5, Zenon DEF Eq
  <2>2. 0 \in 0..n /\ \A k \in 1..n : k \in 0..n /\ k # 0
      BY <1>1
  <2> QED BY <2>1, <2>2, Zenon
<1> HIDE DEF Eq
<1> DEFINE B == {k \in 0..n : h[k] # m[k]}
<1>7. ASSUME B # {} PROVE FALSE
  <2>1. B \in SUBSET Nat
      BY <1>1
  <2>2. PICK k \in B : \A l \in B : k <= l
    <3> HIDE DEF B
    <3> QED BY <1>7, <2>1, LeastNatural
  <2>3. k \in 0..n /\ h[k] # m[k]
      BY <2>2
  <2>4. k # 0
      BY <1>2, <1>6, <2>3
  <2>5. k \in 1..n /\ k - 1 \in 0..n /\ ~(k <= k - 1)
      BY <1>1, <2>3, <2>4
  <2>6. h[k - 1] = m[k - 1]
      BY <2>2, <2>5
  <2> QED BY <1>3, <1>6, <2>3, <2>5, <2>6, Zenon
<1>8. h[n] = m[n]
  <2>1. n \in 0..n
      BY <1>1
  <2>2. n \notin B
    <3> HIDE DEF B
    <3> QED BY <1>7
  <2> QED BY <2>1, <2>2
<1> QED BY <1>2, <1>8 DEF FoldsTo

\* Sequences of the same length with the same elements.
LEMMA SameSequences ==
    ASSUME NEW S, NEW s \in Seq(S), NEW t \in Seq(S), NEW n, Len(s) = n, Len(t) = n,
           \A i \in 1..n : s[i] = t[i]
    PROVE  s = t
<1>1. s = [i \in 1..n |-> s[i]] /\ t = [i \in 1..n |-> t[i]]
    OBVIOUS
<1> QED BY <1>1

LEMMA ElementsAfter ==
    ASSUME NEW S, NEW s \in Seq(S), NEW t \in Seq(S), NEW l, l = Len(s), NEW n, n = Len(t)
    PROVE  /\ l \in Nat /\ n \in Nat
           /\ s \o t \in Seq(S) /\ Len(s \o t) = l + n
           /\ \A i \in 1..l : (s \o t)[i] = s[i]
           /\ \A i \in 1..n : (s \o t)[l + i] = t[i]
<1>1. l \in Nat /\ n \in Nat /\ s \o t \in Seq(S) /\ Len(s \o t) = l + n
    OBVIOUS
<1>2. \A i \in 1..l : (s \o t)[i] = s[i]
    BY <1>1
<1>3. ASSUME NEW i \in 1..n PROVE (s \o t)[l + i] = t[i]
  <2>1. l + i \in 1..(l + n) /\ ~(l + i <= l) /\ (l + i) - l = i
      BY <1>1
  <2> QED BY <1>1, <2>1
<1> QED BY <1>1, <1>2, <1>3

\* Characters that are kept as they are.
Plain(c) == c \in Codes /\ \A t \in Seq(Nat) : PushNormalized(t, c) = Append(t, c)

\* What follows of plain characters is appended.
LEMMA PlainAppended ==
    ASSUME NEW a \in Seq(Nat), NEW w \in Seq(Codes), \A i \in 1..Len(w) : Plain(w[i])
    PROVE  FoldsTo(a \o w, Seq(Nat), Pushing, a, w)
<1> DEFINE n == Len(w)
           l == Len(a)
           m == [k \in 0..n |-> a \o SubSeq(w, 1, k)]
<1>0. /\ n \in Nat /\ l \in Nat /\ Len(a) = l /\ Len(w) = n
      /\ (\A i \in 1..n : w[i] \in Codes) /\ \A i \in 1..n : Plain(w[i])
    OBVIOUS
<1> HIDE DEF n, l
<1>1. n \in Nat /\ l \in Nat /\ Len(a) = l /\ Len(w) = n /\ \A i \in 1..n : w[i] \in Nat
  <2>1. Codes \subseteq Nat
      BY DEF Codes
  <2> QED BY <1>0, <2>1
<1>2. ASSUME NEW k \in 0..n
      PROVE  /\ SubSeq(w, 1, k) \in Seq(Nat) /\ Len(SubSeq(w, 1, k)) = k
             /\ \A i \in 1..k : SubSeq(w, 1, k)[i] = w[i]
    BY <1>1
<1>3. ASSUME NEW k \in 0..n
      PROVE  /\ m[k] \in Seq(Nat) /\ Len(m[k]) = l + k
             /\ \A i \in 1..l : m[k][i] = a[i]
             /\ \A i \in 1..k : m[k][l + i] = w[i]
  <2> DEFINE b == SubSeq(w, 1, k)
  <2>1. b \in Seq(Nat) /\ Len(b) = k /\ \A i \in 1..k : b[i] = w[i]
      BY <1>2
  <2>2. m[k] = a \o b
      OBVIOUS
  <2> HIDE DEF b, m
  <2>3. /\ a \o b \in Seq(Nat) /\ Len(a \o b) = l + k
        /\ \A i \in 1..l : (a \o b)[i] = a[i]
        /\ \A i \in 1..k : (a \o b)[l + i] = b[i]
    <3>1. a \in Seq(Nat) /\ b \in Seq(Nat) /\ l = Len(a) /\ k = Len(b)
        BY <1>1, <2>1
    <3> QED BY <3>1, ElementsAfter
  <2> QED BY ONLY <2>1, <2>2, <2>3
<1> HIDE DEF m
<1>4. m[0] = a
  <2>1. /\ m[0] \in Seq(Nat) /\ Len(m[0]) = l /\ \A i \in 1..l : m[0][i] = a[i]
      BY <1>1, <1>3
  <2> QED BY <1>1, <2>1, SameSequences
<1>5. m[n] = a \o w
  <2>1. /\ m[n] \in Seq(Nat) /\ Len(m[n]) = l + n /\ \A i \in 1..l : m[n][i] = a[i]
        /\ \A i \in 1..n : m[n][l + i] = w[i]
      BY <1>1, <1>3
  <2>2. w \in Seq(Nat)
      BY <1>1
  <2>3. /\ a \o w \in Seq(Nat) /\ Len(a \o w) = l + n
        /\ \A i \in 1..l : (a \o w)[i] = a[i]
    <3>1. l = Len(a) /\ n = Len(w)
        BY <1>1
    <3> QED BY <2>2, <3>1, ElementsAfter
  <2>4. \A j \in 1..n : (a \o w)[l + j] = w[j]
      BY <1>1, <2>2, ElementsAfter
  <2> DEFINE c == a \o w
  <2> HIDE DEF c
  <2>5. \A i \in 1..(l + n) : m[n][i] = c[i]
    <3> SUFFICES ASSUME NEW i \in 1..(l + n) PROVE m[n][i] = c[i]
        OBVIOUS
    <3>1. CASE i \in 1..l
        BY <2>1, <2>3, <3>1 DEF c
    <3>2. CASE i \notin 1..l
      <4>1. i - l \in 1..n /\ l + (i - l) = i
          BY <1>1, <3>2
      <4> QED BY <2>1, <2>4, <4>1 DEF c
    <3> QED BY <3>1, <3>2
  <2> QED BY <2>1, <2>3, <2>5, SameSequences DEF c
<1>6. ASSUME NEW k \in 1..n PROVE m[k] = Pushing[m[k - 1]][w[k]]
  <2>1. k \in Nat \ {0} /\ k - 1 \in 0..n /\ k \in 0..n /\ w[k] \in Codes /\ Plain(w[k])
      BY <1>0
  <2>2. m[k - 1] \in Seq(Nat) /\ Len(m[k - 1]) = l + (k - 1)
      BY <1>3, <2>1
  <2>3. Pushing[m[k - 1]][w[k]] = Append(m[k - 1], w[k])
      BY <2>1, <2>2 DEF Plain, Pushing
  <2> DEFINE c == Append(m[k - 1], w[k])
  <2>4. /\ c \in Seq(Nat) /\ Len(c) = l + k /\ c[l + k] = w[k]
        /\ \A i \in 1..(l + (k - 1)) : c[i] = m[k - 1][i]
      BY <1>1, <2>1, <2>2
  <2> HIDE DEF c
  <2>5. ASSUME NEW i \in 1..(l + k) PROVE m[k][i] = c[i]
    <3>1. CASE i \in 1..l
      <4>1. m[k][i] = a[i] /\ m[k - 1][i] = a[i]
          BY <1>3, <2>1, <3>1
      <4>2. i \in 1..(l + (k - 1))
          BY <1>1, <2>1, <3>1
      <4> QED BY <2>4, <4>1, <4>2
    <3>2. CASE i = l + k
        BY <1>1, <1>3, <2>1, <2>4, <3>2
    <3>3. CASE i \notin 1..l /\ i # l + k
      <4> DEFINE y == i - l
      <4>1. y \in 1..(k - 1) /\ y \in 1..k /\ l + y = i /\ i \in 1..(l + (k - 1))
          BY <1>1, <2>1, <3>3
      <4> HIDE DEF y
      <4>2. m[k][l + y] = w[y]
          BY <1>3, <2>1, <4>1
      <4>3. m[k - 1][l + y] = w[y]
          BY <1>3, <2>1, <4>1
      <4> QED BY ONLY <2>4, <4>1, <4>2, <4>3
    <3> QED BY <3>1, <3>2, <3>3
  <2>7. m[k] = c
    <3>1. m[k] \in Seq(Nat) /\ Len(m[k]) = l + k
        BY <1>3, <2>1
    <3> QED BY ONLY <2>4, <2>5, <3>1, SameSequences
  <2> QED BY <2>3, <2>7 DEF c
<1>7. m \in [0..n -> Seq(Nat)]
    BY <1>3 DEF m
<1>8. \A k \in 1..n : m[k] = Pushing[m[k - 1]][w[k]]
    BY <1>6
<1> HIDE DEF m
<1>9. Len(w) = n
    BY <1>1
<1> QED BY ONLY <1>4, <1>5, <1>7, <1>8, <1>9, Zenon DEF FoldsTo

\* To fold a sequence after another is to fold the two as one.
LEMMA FoldsToConcat ==
    ASSUME NEW E, NEW s \in Seq(E), NEW t \in Seq(E), NEW V, NEW F, NEW base,
           NEW a, FoldsTo(a, V, F, base, s), NEW b, FoldsTo(b, V, F, a, t)
    PROVE  FoldsTo(b, V, F, base, s \o t)
<1> DEFINE l == Len(s)
           n == Len(t)
           st == s \o t
<1>1. /\ l \in Nat /\ n \in Nat /\ Len(st) = l + n
      /\ \A i \in 1..l : st[i] = s[i]
      /\ \A i \in 1..n : st[l + i] = t[i]
    BY ElementsAfter
<1>2. PICK p \in [0..l -> V] :
          p[0] = base /\ a = p[l] /\ \A k \in 1..l : p[k] = F[p[k - 1]][s[k]]
    BY DEF FoldsTo
<1>3. PICK q \in [0..n -> V] :
          q[0] = a /\ b = q[n] /\ \A k \in 1..n : q[k] = F[q[k - 1]][t[k]]
    BY DEF FoldsTo
<1> HIDE DEF l, n, st
<1> DEFINE m == [k \in 0..(l + n) |-> IF k <= l THEN p[k] ELSE q[k - l]]
<1>4. \A k \in 0..l : k \in 0..(l + n) /\ m[k] = p[k]
    BY <1>1
<1>5. \A k \in 0..n : l + k \in 0..(l + n) /\ m[l + k] = q[k]
  <2> SUFFICES ASSUME NEW k \in 0..n PROVE l + k \in 0..(l + n) /\ m[l + k] = q[k]
      OBVIOUS
  <2>1. l + k \in 0..(l + n) /\ (l + k) - l = k /\ (l + k <= l => k = 0 /\ l + k = l)
      BY <1>1
  <2> QED BY <1>2, <1>3, <2>1
<1>6. \A k \in 0..(l + n) : m[k] \in V
  <2> SUFFICES ASSUME NEW k \in 0..(l + n) PROVE m[k] \in V
      OBVIOUS
  <2>1. k <= l => k \in 0..l
      BY <1>1
  <2>2. ~(k <= l) => k - l \in 0..n
      BY <1>1
  <2> QED BY <1>2, <1>3, <2>1, <2>2
<1>7. m \in [0..(l + n) -> V]
    BY <1>6
<1> HIDE DEF m
<1>8. m[0] = base /\ b = m[l + n]
    BY <1>1, <1>2, <1>3, <1>4, <1>5
<1>9. ASSUME NEW k \in 1..(l + n) PROVE m[k] = F[m[k - 1]][st[k]]
  <2>1. CASE k \in 1..l
    <3>1. k \in 0..l /\ k - 1 \in 0..l
        BY <1>1, <2>1
    <3>2. m[k] = p[k] /\ m[k - 1] = p[k - 1] /\ st[k] = s[k]
        BY <1>1, <1>4, <2>1, <3>1
    <3> QED BY <1>2, <2>1, <3>2
  <2>2. CASE k \notin 1..l
    <3> DEFINE j == k - l
    <3>1. j \in 1..n /\ j \in 0..n /\ j - 1 \in 0..n /\ l + j = k /\ l + (j - 1) = k - 1
        BY <1>1, <2>2
    <3> HIDE DEF j
    <3>2. m[k] = q[j] /\ m[k - 1] = q[j - 1] /\ st[k] = t[j]
        BY <1>1, <1>5, <3>1
    <3> QED BY <1>3, <3>1, <3>2
  <2> QED BY <2>1, <2>2
<1>10. Len(st) = l + n
    BY <1>1
<1>11. FoldsTo(b, V, F, base, st)
  <2>1. \A k \in 1..(l + n) : m[k] = F[m[k - 1]][st[k]]
      BY <1>9
  <2> QED BY ONLY <1>7, <1>8, <1>10, <2>1 DEF FoldsTo
<1> QED BY <1>11 DEF st

-----------------------------------------------------------------------------
(* The letters after the province.                                         *)

LEMMA DigitIsNoLetter ==
    allowed_letters \cap Digits = {} /\ SomeLetter \in allowed_letters
<1>1. \E c \in allowed_letters : TRUE
    BY GrammarAssumption
<1>2. SomeLetter \in allowed_letters
    BY <1>1, Zenon DEF SomeLetter
<1> QED BY <1>2, GrammarAssumption DEF Digits

LEMMA LetterCountIs ==
    ASSUME NEW s \in Seq(Nat), NEW n \in Nat, n = Len(s), n >= 2
    PROVE  /\ LetterCount(s) \in 0..(n - 2)
           /\ \A i \in 3..(LetterCount(s) + 2) : s[i] \in allowed_letters
           /\ LetterCount(s) < n - 2 => s[LetterCount(s) + 3] \notin allowed_letters
<1> DEFINE others == {i \in 3..Len(s) : s[i] \notin allowed_letters}
           l == LetterCount(s)
<1>1. l = IF others = {} THEN Len(s) - 2 ELSE Min(others) - 3
    BY DEF LetterCount
<1>2. CASE others = {}
  <2>1. l = n - 2
      BY <1>1, <1>2
  <2>2. \A i \in 3..n : s[i] \in allowed_letters
      BY <1>2
  <2> HIDE DEF l
  <2>3. l \in 0..(n - 2) /\ l + 2 = n
      BY <2>1
  <2> QED BY <2>2, <2>3 DEF l
<1>3. CASE others # {}
  <2> DEFINE m == Min(others)
  <2>1. others \subseteq 3..n /\ IsFiniteSet(3..n)
      BY FS_Interval
  <2>2. m \in others /\ \A j \in others : m <= j
    <3>1. others \subseteq Int /\ IsFiniteSet(others)
        BY <2>1, FS_Subset
    <3> HIDE DEF others
    <3> QED BY <1>3, <3>1, MinIs
  <2>3. m \in 3..n /\ s[m] \notin allowed_letters
      BY <2>2
  <2>4. \A i \in 3..(m - 1) : i \in 3..n /\ ~(m <= i)
      BY <2>3
  <2>5. \A i \in 3..(m - 1) : s[i] \in allowed_letters
      BY <2>2, <2>4
  <2>6. l = m - 3
      BY <1>1, <1>3
  <2> HIDE DEF l, m
  <2>7. l \in 0..(n - 2) /\ l + 2 = m - 1 /\ l + 3 = m
      BY <2>3, <2>6
  <2> QED BY <2>3, <2>5, <2>7 DEF l
<1> QED BY <1>2, <1>3

LEMMA LetterCountOnly ==
    ASSUME NEW s \in Seq(Nat), NEW n \in Nat, n = Len(s), n >= 2, NEW l \in 0..(n - 2),
           \A i \in 3..(l + 2) : s[i] \in allowed_letters,
           l < n - 2 => s[l + 3] \notin allowed_letters
    PROVE  LetterCount(s) = l
<1> DEFINE c == LetterCount(s)
<1>1. /\ c \in 0..(n - 2)
      /\ \A i \in 3..(c + 2) : s[i] \in allowed_letters
      /\ c < n - 2 => s[c + 3] \notin allowed_letters
    BY LetterCountIs
<1> HIDE DEF c
<1>2. ASSUME c < l PROVE FALSE
  <2>1. c < n - 2 /\ c + 3 \in 3..(l + 2)
      BY <1>1, <1>2
  <2> QED BY <1>1, <2>1
<1>3. ASSUME l < c PROVE FALSE
  <2>1. l < n - 2 /\ l + 3 \in 3..(c + 2)
      BY <1>1, <1>3
  <2> QED BY <1>1, <2>1
<1>4. c = l
    BY <1>1, <1>2, <1>3
<1> QED BY <1>4 DEF c

\* A plate of l letters and d digits.
Formed(s, l, d) ==
    /\ Len(s) = 2 + l + d /\ HasProvince(s)
    /\ \A i \in 3..(2 + l) : s[i] \in allowed_letters
    /\ \A i \in (3 + l)..(2 + l + d) : s[i] \in Digits

LEMMA DigitCounts ==
    \A l \in 1..3 : /\ AllowedDigitCount[l] \subseteq 2..5
                    /\ MaximumDigitCount[l] \in AllowedDigitCount[l]
                    /\ MaximumDigitCount[l] \in 2..5
                    /\ \A d \in AllowedDigitCount[l] :
                           d <= MaximumDigitCount[l] /\ 2 + l + d \in 6..8
<1> SUFFICES ASSUME NEW l \in 1..3
             PROVE  /\ AllowedDigitCount[l] \subseteq 2..5
                    /\ MaximumDigitCount[l] \in AllowedDigitCount[l]
                    /\ MaximumDigitCount[l] \in 2..5
                    /\ \A d \in AllowedDigitCount[l] :
                           d <= MaximumDigitCount[l] /\ 2 + l + d \in 6..8
    OBVIOUS
<1>1. l = 1 \/ l = 2 \/ l = 3
    OBVIOUS
<1>2. /\ AllowedDigitCount[1] = {4, 5} /\ MaximumDigitCount[1] = 5
      /\ AllowedDigitCount[2] = {3, 4} /\ MaximumDigitCount[2] = 4
      /\ AllowedDigitCount[3] = {2, 3} /\ MaximumDigitCount[3] = 3
    BY DEF AllowedDigitCount, MaximumDigitCount
<1>3. CASE l = 1
    BY <1>2, <1>3
<1>4. CASE l = 2
    BY <1>2, <1>4
<1>5. CASE l = 3
    BY <1>2, <1>5
<1> QED BY <1>1, <1>3, <1>4, <1>5

LEMMA FormedValid ==
    ASSUME NEW s \in Seq(Nat), NEW l \in 1..3, NEW d \in AllowedDigitCount[l], Formed(s, l, d)
    PROVE  IsValidNormalized(s)
<1> DEFINE n == 2 + l + d
<1>1. d \in 2..5 /\ n \in 6..8
    BY DigitCounts
<1>2. /\ Len(s) = n /\ HasProvince(s)
      /\ \A i \in 3..(2 + l) : s[i] \in allowed_letters
      /\ \A i \in (3 + l)..n : s[i] \in Digits
    BY DEF Formed
<1>3. l \in Nat /\ d \in Nat /\ n = 2 + l + d
    BY <1>1
<1> HIDE DEF n
<1>4. l \in 0..(n - 2) /\ l + 3 \in (3 + l)..n /\ n \in Nat /\ n >= 2
    BY <1>1, <1>3
<1>5. s[l + 3] \notin allowed_letters
    BY <1>2, <1>4, DigitIsNoLetter
<1>6. LetterCount(s) = l
  <2>1. 2 + l = l + 2
      BY <1>3
  <2> QED BY <1>2, <1>4, <1>5, <2>1, LetterCountOnly
<1>7. OnlyDigitsAfter(s, 2 + l)
  <2>1. (2 + l) + 1 = 3 + l
      BY <1>3
  <2> QED BY <1>2, <2>1 DEF OnlyDigitsAfter
<1>8. n - 2 - l = d
    BY <1>3
<1> QED BY <1>1, <1>2, <1>6, <1>7, <1>8 DEF IsValidNormalized

LEMMA ValidFormed ==
    ASSUME NEW s \in Seq(Nat), IsValidNormalized(s)
    PROVE  \E l \in 1..3 : \E d \in AllowedDigitCount[l] : Formed(s, l, d)
<1> DEFINE n == Len(s)
           l == LetterCount(s)
           d == n - 2 - l
<1>1. /\ n \in 6..8 /\ HasProvince(s) /\ l \in 1..3
      /\ OnlyDigitsAfter(s, 2 + l) /\ d \in AllowedDigitCount[l]
    BY DEF IsValidNormalized
<1>2. \A i \in 3..(l + 2) : s[i] \in allowed_letters
  <2>1. n \in 6..8
      BY <1>1
  <2>2. n = Len(s)
      OBVIOUS
  <2> HIDE DEF n, l, d
  <2>3. n \in Nat /\ n >= 2
      BY <2>1
  <2> QED BY <2>2, <2>3, LetterCountIs DEF l
<1>3. \A i \in ((2 + l) + 1)..n : s[i] \in Digits
    BY <1>1 DEF OnlyDigitsAfter
<1>4. d = n - 2 - l
    OBVIOUS
<1>5. Len(s) = n
    OBVIOUS
<1> HIDE DEF n, l, d
<1>6. n = 2 + l + d /\ 2 + l = l + 2 /\ (2 + l) + 1 = 3 + l
    BY <1>1, <1>4
<1>7. Formed(s, l, d)
    BY <1>1, <1>2, <1>3, <1>5, <1>6 DEF Formed
<1> QED BY <1>1, <1>7

-----------------------------------------------------------------------------
(* What is accepted as a prefix can be completed, and nothing else.        *)

\* IsValidPrefix, of a normalized text.
IsBegun(t) ==
    /\ Len(t) \in 1..8
    /\ IF Len(t) = 1 THEN t[1] \in 48..56
       ELSE HasProvince(t) /\ (Len(t) > 2 => IsValidTail(t))

LEMMA BegunOfPlate ==
    ASSUME NEW t \in Seq(Nat), t # <<>>, NEW more \in Seq(Nat), IsValidNormalized(t \o more)
    PROVE  IsBegun(t)
<1> DEFINE s == t \o more
           n == Len(t)
           r == Len(more)
<1>1. /\ n \in Nat /\ r \in Nat /\ s \in Seq(Nat) /\ Len(s) = n + r
      /\ \A i \in 1..n : s[i] = t[i]
    BY ElementsAfter
<1>2. n # 0
    OBVIOUS
<1>3. IsValidNormalized(s)
    OBVIOUS
<1>4. Len(t) = n
    OBVIOUS
<1> HIDE DEF s, n, r
<1>0. PICK l \in 1..3 : \E d \in AllowedDigitCount[l] : Formed(s, l, d)
    BY <1>1, <1>3, ValidFormed
<1>5. PICK d \in AllowedDigitCount[l] : Formed(s, l, d)
    BY <1>0
<1>6. /\ l \in 1..3 /\ d \in 2..5 /\ d <= MaximumDigitCount[l]
      /\ MaximumDigitCount[l] \in 2..5 /\ 2 + l + d \in 6..8
    BY <1>5, DigitCounts
<1>7. /\ n + r = 2 + l + d /\ HasProvince(s)
      /\ \A i \in 3..(2 + l) : s[i] \in allowed_letters
      /\ \A i \in (3 + l)..(2 + l + d) : s[i] \in Digits
    BY <1>1, <1>5 DEF Formed
<1>8. n \in 1..8
    BY <1>1, <1>2, <1>6, <1>7
<1>9. CASE n = 1
  <2>1. s[1] = t[1]
      BY <1>1, <1>9
  <2>2. s[1] \in 48..57 /\ s[2] \in 48..57 /\ (s[1] - 48) * 10 + (s[2] - 48) \in 1..81
      BY <1>7 DEF HasProvince, Digits
  <2>3. \A x, y \in 48..57 : (x - 48) * 10 + (y - 48) \in 1..81 => x \in 48..56
      OBVIOUS
  <2>4. s[1] \in 48..56
      BY <2>2, <2>3
  <2> QED BY <1>4, <1>8, <1>9, <2>1, <2>4 DEF IsBegun
<1>10. CASE n > 1
  <2>1. 1 \in 1..n /\ 2 \in 1..n
      BY <1>8, <1>10
  <2>2. HasProvince(t)
      BY <1>1, <1>7, <2>1 DEF HasProvince
  <2>3. ASSUME n > 2 PROVE IsValidTail(t)
    <3>1. CASE n <= 2 + l
      <4> DEFINE c == n - 2
      <4>1. c \in 1..3 /\ c \in 0..(n - 2) /\ ~(c < n - 2) /\ c + 2 = n /\ 2 + c = n
          BY <1>6, <1>8, <2>3, <3>1
      <4>2. n - 2 - c = 0 /\ n \in Nat /\ n >= 2
          BY <1>8, <2>3
      <4> HIDE DEF c
      <4>3. \A i \in 3..n : i \in 3..(2 + l) /\ i \in 1..n
          BY <1>6, <1>8, <3>1
      <4>4. \A i \in 3..(c + 2) : t[i] \in allowed_letters
          BY <1>1, <1>7, <4>1, <4>3
      <4>5. LetterCount(t) = c
          BY <1>4, <4>1, <4>2, <4>4, LetterCountOnly
      <4>6. OnlyDigitsAfter(t, 2 + c)
        <5>1. (n + 1)..n = {}
            BY <4>2
        <5> QED BY <1>4, <4>1, <5>1 DEF OnlyDigitsAfter
      <4>7. 0 <= MaximumDigitCount[c]
        <5>1. MaximumDigitCount[c] \in 2..5
            BY <4>1, DigitCounts
        <5> QED BY <5>1
      <4> QED BY <1>4, <4>1, <4>2, <4>5, <4>6, <4>7 DEF IsValidTail
    <3>2. CASE n > 2 + l
      <4>1. /\ l \in 0..(n - 2) /\ n \in Nat /\ n >= 2 /\ l + 3 \in 1..n
            /\ l + 3 \in (3 + l)..(2 + l + d)
        <5>1. l \in 1..3 /\ d \in 2..5 /\ n \in 1..8 /\ n > 2 + l
            BY <1>6, <1>8, <3>2
        <5> QED BY ONLY <5>1
      <4>2. \A i \in 3..(l + 2) : i \in 1..n /\ i \in 3..(2 + l)
          BY <1>6, <1>8, <3>2
      <4>3. \A i \in 3..(l + 2) : t[i] \in allowed_letters
          BY <1>1, <1>7, <4>2
      <4>4. t[l + 3] \notin allowed_letters
          BY <1>1, <1>7, <4>1, DigitIsNoLetter
      <4>5. LetterCount(t) = l
          BY <1>4, <4>1, <4>3, <4>4, LetterCountOnly
      <4>6. \A i \in ((2 + l) + 1)..n : i \in 1..n /\ i \in (3 + l)..(2 + l + d)
          BY <1>1, <1>6, <1>7, <1>8
      <4>7. OnlyDigitsAfter(t, 2 + l)
          BY <1>1, <1>4, <1>7, <4>6 DEF OnlyDigitsAfter
      <4>8. n - 2 - l <= MaximumDigitCount[l]
        <5>1. l \in 1..3 /\ d \in 2..5 /\ n \in 1..8 /\ r \in Nat /\ n + r = 2 + l + d
            BY <1>1, <1>6, <1>7, <1>8
        <5>2. (n - 2) - l <= d
            BY ONLY <5>1
        <5>3. MaximumDigitCount[l] \in Int /\ d <= MaximumDigitCount[l]
            BY <1>6
        <5> QED BY <5>1, <5>2, <5>3
      <4> QED BY <1>4, <1>6, <4>5, <4>7, <4>8 DEF IsValidTail
    <3> QED BY <1>6, <1>8, <3>1, <3>2
  <2>4. n # 1
      BY <1>10
  <2> QED BY <1>4, <1>8, <2>2, <2>3, <2>4 DEF IsBegun
<1> QED BY <1>8, <1>9, <1>10

\* c is n plain characters.
PlainText(c, n) ==
    /\ c \in Seq(Codes) /\ c \in Seq(Nat) /\ Len(c) = n
    /\ \A x \in 1..n : Plain(c[x]) /\ c[x] < 128

LEMMA CompletionIs ==
    ASSUME NEW i \in 0..2, NEW j \in 0..3, NEW k \in 0..5
    PROVE  PlainText(Completion(i, j, k), i + j + k)
<1> DEFINE n == i + j + k
           c == [x \in 1..n |-> IF x \in (i + 1)..(i + j) THEN SomeLetter ELSE 49]
<1>1. n \in Nat
    OBVIOUS
<1>2. SomeLetter \in 65..90
    BY DigitIsNoLetter, GrammarAssumption
<1>3. ASSUME NEW x \in 65..90 \cup {49} PROVE Plain(x) /\ x < 128 /\ x \in Codes /\ x \in Nat
  <2>1. x < 128 /\ x \in Codes /\ x \in Nat
      BY DEF Codes
  <2>2. x \notin Whitespace /\ x # Hyphen /\ Upper(x) = x
      BY DEF Whitespace, Hyphen, Upper
  <2>3. \A t \in Seq(Nat) : PushNormalized(t, x) = Append(t, x)
      BY <2>2 DEF PushNormalized
  <2> QED BY <2>1, <2>3 DEF Plain
<1>4. c = Completion(i, j, k)
    BY DEF Completion
<1> HIDE DEF n
<1>5. \A x \in 1..n : c[x] = (IF x \in (i + 1)..(i + j) THEN SomeLetter ELSE 49)
                      /\ c[x] \in 65..90 \cup {49}
    BY <1>2
<1>6. \A x \in 1..n : Plain(c[x]) /\ c[x] < 128 /\ c[x] \in Codes /\ c[x] \in Nat
    BY <1>3, <1>5
<1>7. DOMAIN c = 1..n /\ c = [x \in 1..n |-> c[x]]
    OBVIOUS
<1> HIDE DEF c
<1>8. c \in Seq(Codes) /\ c \in Seq(Nat) /\ Len(c) = n
    BY <1>1, <1>6, <1>7, SequenceOf
<1> QED BY <1>4, <1>6, <1>8 DEF n, PlainText

\* What is begun with n characters, and with digits and letters after, is formed.
LEMMA BegunCompleted ==
    ASSUME NEW t \in Seq(Nat), t # <<>> => IsBegun(t)
    PROVE  \E i \in 0..2, j \in 0..3, k \in 0..5 :
               i + j + k <= 8 /\ IsValidNormalized(t \o Completion(i, j, k))
<1> DEFINE n == Len(t)
<1>1. n \in 0..8
    BY EmptySeq DEF IsBegun
<1>2. n = Len(t) /\ (n = 0 <=> t = <<>>)
    OBVIOUS
<1> HIDE DEF n
<1> DEFINE Completed(s, i, j, m) ==
               /\ s \in Seq(Nat) /\ Len(s) = n + m
               /\ \A x \in 1..n : s[x] = t[x]
               /\ \A x \in 1..m : s[n + x] = IF x \in (i + 1)..(i + j) THEN SomeLetter ELSE 49
<1>3. ASSUME NEW i \in 0..2, NEW j \in 0..3, NEW k \in 0..5
      PROVE  Completed(t \o Completion(i, j, k), i, j, i + j + k)
  <2> DEFINE c == Completion(i, j, k)
             m == i + j + k
  <2>1. /\ c \in Seq(Nat) /\ Len(c) = m
        /\ \A x \in 1..m : c[x] = IF x \in (i + 1)..(i + j) THEN SomeLetter ELSE 49
    <3>1. Completion(i, j, k) \in Seq(Nat) /\ Len(Completion(i, j, k)) = i + j + k
        BY CompletionIs DEF PlainText
    <3>2. \A x \in 1..(i + j + k) : Completion(i, j, k)[x] =
              IF x \in (i + 1)..(i + j) THEN SomeLetter ELSE 49
      <4> SUFFICES ASSUME NEW x \in 1..(i + j + k)
                   PROVE  Completion(i, j, k)[x] =
                              IF x \in (i + 1)..(i + j) THEN SomeLetter ELSE 49
          OBVIOUS
      <4> HIDE DEF c, m
      <4> QED BY DEF Completion
    <3> QED BY <3>1, <3>2, Zenon DEF c, m
  <2> HIDE DEF c, m
  <2>2. /\ t \o c \in Seq(Nat) /\ Len(t \o c) = n + m
        /\ \A x \in 1..n : (t \o c)[x] = t[x]
        /\ \A x \in 1..m : (t \o c)[n + x] = c[x]
      BY <1>2, <2>1, ElementsAfter
  <2>3. \A x \in 1..m :
            (t \o c)[n + x] = IF x \in (i + 1)..(i + j) THEN SomeLetter ELSE 49
    <3> SUFFICES ASSUME NEW x \in 1..m
                 PROVE  (t \o c)[n + x] = IF x \in (i + 1)..(i + j) THEN SomeLetter ELSE 49
        OBVIOUS
    <3>1. (t \o c)[n + x] = c[x]
        BY <2>2
    <3>2. c[x] = IF x \in (i + 1)..(i + j) THEN SomeLetter ELSE 49
        BY <2>1
    <3> QED BY ONLY <3>1, <3>2
  <2> QED BY <2>2, <2>3 DEF c, m
<1> HIDE DEF Completed
<1>4. SomeLetter \in allowed_letters /\ 49 \in Digits
    BY DigitIsNoLetter DEF Digits
\* The texts up to the province.
<1>5. CASE n <= 2
  <2> DEFINE i == 2 - n
             s == t \o Completion(i, 1, 4)
  <2>1. i \in 0..2 /\ n \in 0..2 /\ n + i = 2
      BY <1>1, <1>5
  <2> HIDE DEF i
  <2>2. i + 1 + 4 = i + 5 /\ n + (i + 1 + 4) = 7 /\ i + 1 + 4 <= 8
      BY <2>1
  <2>3. /\ s \in Seq(Nat) /\ Len(s) = 7
        /\ \A x \in 1..n : s[x] = t[x]
        /\ \A x \in 1..(i + 5) :
                    s[n + x] = IF x \in (i + 1)..(i + 1) THEN SomeLetter ELSE 49
    <3>1. 1 \in 0..3 /\ 4 \in 0..5
        OBVIOUS
    <3>2. Completed(s, i, 1, i + 1 + 4)
        BY <1>3, <2>1, <3>1
    <3>3. Completed(s, i, 1, i + 5) /\ n + (i + 5) = 7
        BY <2>1, <2>2, <3>2
    <3> QED BY ONLY <3>3 DEF Completed
  <2> HIDE DEF s
  <2>4. \A x \in (n + 1)..2 : s[x] = 49
    <3> SUFFICES ASSUME NEW x \in (n + 1)..2 PROVE s[x] = 49
        OBVIOUS
    <3> DEFINE y == x - n
    <3>1. y \in 1..(i + 5) /\ y \notin (i + 1)..(i + 1) /\ n + y = x
        BY <2>1
    <3> HIDE DEF y
    <3> QED BY <2>3, <3>1
  <2>5. s[3] = SomeLetter
    <3>1. (i + 1) \in 1..(i + 5) /\ (i + 1) \in (i + 1)..(i + 1) /\ n + (i + 1) = 3
        BY <2>1
    <3> QED BY <2>3, <3>1
  <2>6. \A x \in 4..7 : s[x] = 49
    <3> SUFFICES ASSUME NEW x \in 4..7 PROVE s[x] = 49
        OBVIOUS
    <3> DEFINE y == x - n
    <3>1. y \in 1..(i + 5) /\ y \notin (i + 1)..(i + 1) /\ n + y = x
        BY <2>1
    <3> HIDE DEF y
    <3> QED BY <2>3, <3>1
  <2>7. HasProvince(s)
    <3>1. CASE n = 0
      <4>1. 1 \in (n + 1)..2 /\ 2 \in (n + 1)..2
          BY <3>1
      <4>2. s[1] = 49 /\ s[2] = 49
          BY <2>4, <4>1
      <4> QED BY <4>2 DEF HasProvince, Digits
    <3>2. CASE n = 1
      <4>1. 2 \in (n + 1)..2 /\ 1 \in 1..n
          BY <3>2
      <4>2. s[2] = 49 /\ s[1] = t[1]
          BY <2>3, <2>4, <4>1
      <4>3. t[1] \in 48..56
        <5>1. IsBegun(t) /\ Len(t) = 1
            BY <1>2, <3>2
        <5> QED BY <5>1 DEF IsBegun
      <4>4. \A x \in 48..56 : x \in 48..57 /\ (x - 48) * 10 + (49 - 48) \in 1..81
          OBVIOUS
      <4>5. 49 \in 48..57 /\ s[1] \in 48..56
          BY <4>2, <4>3
      <4>6. s[1] \in 48..57 /\ s[2] \in 48..57 /\ (s[1] - 48) * 10 + (s[2] - 48) \in 1..81
          BY ONLY <4>2, <4>4, <4>5
      <4> QED BY ONLY <4>6 DEF HasProvince, Digits
    <3>3. CASE n = 2
      <4>1. 1 \in 1..n /\ 2 \in 1..n
          BY <3>3
      <4>2. HasProvince(t)
          BY <1>2, <3>3 DEF IsBegun
      <4> QED BY <2>3, <4>1, <4>2 DEF HasProvince
    <3> QED BY <2>1, <3>1, <3>2, <3>3
  <2>8. Formed(s, 1, 4)
    <3>1. Len(s) = 2 + 1 + 4
        BY <2>3
    <3>2. \A x \in 3..(2 + 1) : s[x] \in allowed_letters
        BY <1>4, <2>5
    <3>3. \A x \in (3 + 1)..(2 + 1 + 4) : s[x] \in Digits
        BY <1>4, <2>6
    <3> QED BY <2>7, <3>1, <3>2, <3>3 DEF Formed
  <2>9. 1 \in 1..3 /\ 4 \in AllowedDigitCount[1] /\ 1 \in 0..3 /\ 4 \in 0..5
      BY DEF AllowedDigitCount
  <2>10. IsValidNormalized(s)
      BY <2>3, <2>8, <2>9, FormedValid
  <2> QED BY <2>1, <2>2, <2>9, <2>10 DEF s
\* The texts that are longer.
<1>6. CASE n > 2
  <2> DEFINE l == LetterCount(t)
             most == MaximumDigitCount[l]
             d == (n - 2) - l
             k == most - d
             s == t \o Completion(0, 0, k)
  <2>1. HasProvince(t) /\ l \in 1..3 /\ OnlyDigitsAfter(t, 2 + l) /\ d <= most
    <3> HIDE DEF l, most, d, k, s
    <3>1. IsBegun(t) /\ n # 1
      <4>1. n # 0 /\ n # 1
          BY <1>6
      <4> QED BY <1>2, <4>1
    <3> USE DEF l, most, d
    <3>2. HasProvince(t) /\ IsValidTail(t)
        BY <1>2, <1>6, <3>1 DEF IsBegun
    <3> QED BY <1>2, <3>2 DEF IsValidTail
  <2>2. l \in 0..(n - 2) /\ \A x \in 3..(l + 2) : t[x] \in allowed_letters
    <3>1. n \in Nat /\ n >= 2
        BY <1>1, <1>6
    <3> QED BY <1>2, <3>1, LetterCountIs
  <2>3. most \in 2..5 /\ most \in AllowedDigitCount[l] /\ 2 + l + most \in 6..8
      BY <2>1, DigitCounts
  <2>4. d = (n - 2) - l /\ k = most - d
      OBVIOUS
  <2> HIDE DEF l, most, d, k
  <2>5. d \in Nat /\ k \in 0..5 /\ n + k = 2 + l + most /\ k \in Nat /\ n <= 2 + l + most
    <3>1. n \in Nat /\ l \in Nat /\ l <= n - 2 /\ most \in 2..5
        BY <1>1, <2>1, <2>2, <2>3
    <3>2. d \in Nat /\ d <= most
        BY <2>1, <2>4, <3>1
    <3> QED BY ONLY <2>4, <3>1, <3>2
  <2>6. /\ s \in Seq(Nat) /\ Len(s) = n + k
        /\ \A x \in 1..n : s[x] = t[x]
        /\ \A x \in 1..k : s[n + x] = 49
    <3>1. 0 \in 0..2 /\ 0 \in 0..3 /\ 0 + 0 + k = k /\ (0 + 1)..(0 + 0) = {}
        BY <2>5
    <3>2. Completed(s, 0, 0, 0 + 0 + k)
        BY <1>3, <2>5, <3>1
    <3>3. Completed(s, 0, 0, k)
        BY ONLY <3>1, <3>2
    <3> QED BY ONLY <3>1, <3>3 DEF Completed
  <2> HIDE DEF s
  <2>7. HasProvince(s)
    <3>1. 1 \in 1..n /\ 2 \in 1..n
        BY <1>1, <1>6
    <3> QED BY <2>1, <2>6, <3>1 DEF HasProvince
  <2>8. \A x \in 3..(2 + l) : s[x] \in allowed_letters
    <3>1. \A x \in 3..(2 + l) : x \in 1..n /\ x \in 3..(l + 2)
        BY <1>1, <2>1, <2>2
    <3> QED BY <2>2, <2>6, <3>1
  <2>9. \A x \in (3 + l)..(2 + l + most) : s[x] \in Digits
    <3> SUFFICES ASSUME NEW x \in (3 + l)..(2 + l + most) PROVE s[x] \in Digits
        OBVIOUS
    <3>1. CASE x <= n
      <4>1. x \in 1..n /\ x \in ((2 + l) + 1)..n
          BY <1>1, <2>1, <2>3, <3>1
      <4>2. t[x] \in Digits
          BY <1>2, <2>1, <4>1 DEF OnlyDigitsAfter
      <4> QED BY <2>6, <4>1, <4>2
    <3>2. CASE x > n
      <4> DEFINE y == x - n
      <4>1. y \in 1..k /\ n + y = x
          BY <1>1, <2>1, <2>3, <2>5, <3>2
      <4> HIDE DEF y
      <4>2. s[x] = 49
          BY <2>6, <4>1
      <4> QED BY <1>4, <4>2
    <3>3. x \in Int /\ n \in Int
        BY <1>1, <2>1, <2>3
    <3> QED BY <3>1, <3>2, <3>3
  <2>10. Formed(s, l, most)
    <3>1. Len(s) = 2 + l + most
        BY <2>5, <2>6
    <3> QED BY <2>7, <2>8, <2>9, <3>1 DEF Formed
  <2>11. IsValidNormalized(s)
      BY <2>1, <2>3, <2>6, <2>10, FormedValid
  <2>12. 0 \in 0..2 /\ 0 \in 0..3 /\ 0 + 0 + k <= 8
      BY <2>5
  <2> QED BY <2>5, <2>11, <2>12 DEF s
<1> QED BY <1>1, <1>5, <1>6

\* A text that is not too long, and ASCII.
Readable(text) == Len(text) <= maximum_input_length /\ \A i \in DOMAIN text : ~(text[i] >= 128)

LEMMA NormalizeIs ==
    ASSUME NEW text \in Seq(Codes)
    PROVE  /\ Normalize(text) \in Seq(Nat)
           /\ ~Readable(text) => Normalize(text) = <<>>
           /\ Readable(text) => FoldsTo(Normalize(text), Seq(Nat), Pushing, <<>>, text)
<1> DEFINE n == Len(text)
           h == CHOOSE f : f = [i \in 0..n |-> IF i = 0 THEN <<>>
                                               ELSE PushNormalized(f[i - 1], text[i])]
           folded == h[n]
<1>1. FoldsTo(folded, Seq(Nat), Pushing, <<>>, text)
  <2> HIDE DEF n, h
  <2>1. n = Len(text)
      BY DEF n
  <2> QED BY <2>1, PushedFolds DEF h
<1> HIDE DEF folded
<1>2. folded \in Seq(Nat)
  <2>1. PICK m \in [0..Len(text) -> Seq(Nat)] : folded = m[Len(text)]
      BY <1>1 DEF FoldsTo
  <2>2. Len(text) \in 0..Len(text)
      OBVIOUS
  <2> QED BY <2>1, <2>2
<1>3. <<>> \in Seq(Nat)
    BY EmptySeq
<1>4. Len(text) \in Nat /\ maximum_input_length \in Nat
    BY GrammarAssumption
<1>5. Normalize(text) = IF Readable(text) THEN folded ELSE <<>>
  <2>1. Readable(text) <=>
            ~(Len(text) > maximum_input_length \/ \E i \in DOMAIN text : text[i] >= 128)
      BY <1>4 DEF Readable
  <2>2. Normalize(text) =
            IF Len(text) > maximum_input_length \/ \E i \in DOMAIN text : text[i] >= 128
            THEN <<>> ELSE folded
      BY DEF Normalize, folded
  <2> HIDE DEF n, h
  <2> QED BY <2>1, <2>2
<1> QED BY <1>1, <1>2, <1>3, <1>5

\* Plain characters after a text come after what it is normalized to.
LEMMA NormalizeAppends ==
    ASSUME NEW text \in Seq(Codes), NEW more \in Seq(Codes), more \in Seq(Nat),
           \A i \in 1..Len(more) : Plain(more[i]) /\ more[i] < 128,
           Readable(text), Len(text) + Len(more) <= maximum_input_length
    PROVE  Normalize(text \o more) = Normalize(text) \o more
<1> DEFINE l == Len(text)
           n == Len(more)
           both == text \o more
<1>1. /\ l \in Nat /\ n \in Nat /\ both \in Seq(Codes) /\ Len(both) = l + n
      /\ \A i \in 1..l : both[i] = text[i]
      /\ \A i \in 1..n : both[l + i] = more[i]
    BY ElementsAfter
<1>2. /\ \A i \in 1..l : ~(text[i] >= 128)
      /\ l + n <= maximum_input_length
      /\ \A i \in 1..n : ~(more[i] >= 128)
  <2>1. \A i \in 1..l : ~(text[i] >= 128)
      BY DEF Readable
  <2>2. ASSUME NEW i \in 1..n PROVE ~(more[i] >= 128)
    <3>1. more[i] \in Nat /\ more[i] < 128
        OBVIOUS
    <3> QED BY <3>1
  <2> QED BY <2>1, <2>2
<1>3. FoldsTo(Normalize(text), Seq(Nat), Pushing, <<>>, text) /\ Normalize(text) \in Seq(Nat)
    BY NormalizeIs
<1>4. FoldsTo(Normalize(text) \o more, Seq(Nat), Pushing, Normalize(text), more)
  <2>1. \A i \in 1..Len(more) : Plain(more[i])
      OBVIOUS
  <2> QED BY <1>3, <2>1, PlainAppended
<1>5. FoldsTo(Normalize(text) \o more, Seq(Nat), Pushing, <<>>, both)
    BY <1>3, <1>4, FoldsToConcat
<1> HIDE DEF l, n, both
<1>6. Readable(both)
  <2>1. DOMAIN both = 1..(l + n)
      BY <1>1
  <2>2. ASSUME NEW i \in 1..(l + n) PROVE ~(both[i] >= 128)
    <3>1. CASE i \in 1..l
        BY <1>1, <1>2, <3>1
    <3>2. CASE i \notin 1..l
      <4> DEFINE j == i - l
      <4>1. j \in 1..n /\ l + j = i
          BY <1>1, <3>2
      <4> HIDE DEF j
      <4>2. both[i] = more[j] /\ ~(more[j] >= 128)
          BY <1>1, <1>2, <4>1
      <4> QED BY <4>2
    <3> QED BY <3>1, <3>2
  <2> QED BY <1>1, <1>2, <2>1, <2>2 DEF Readable
<1>7. FoldsTo(Normalize(both), Seq(Nat), Pushing, <<>>, both)
    BY <1>1, <1>6, NormalizeIs
<1>8. Normalize(both) = Normalize(text) \o more
    BY <1>1, <1>5, <1>7, FoldsToUnique
<1> QED BY <1>8 DEF both

\* What is not readable is not made so by what follows.
LEMMA UnreadableRemains ==
    ASSUME NEW text \in Seq(Codes), NEW more \in Seq(Codes), Readable(text \o more)
    PROVE  Readable(text) /\ Len(text) + Len(more) <= maximum_input_length
<1> DEFINE l == Len(text)
           n == Len(more)
           both == text \o more
<1>1. /\ l \in Nat /\ n \in Nat /\ both \in Seq(Codes) /\ Len(both) = l + n
      /\ \A i \in 1..l : both[i] = text[i]
    BY ElementsAfter
<1>2. DOMAIN text = 1..l /\ l = Len(text) /\ n = Len(more) /\ Readable(both)
    OBVIOUS
<1> HIDE DEF l, n, both
<1>3. DOMAIN both = 1..(l + n)
    BY <1>1
<1>4. \A i \in 1..l : i \in 1..(l + n)
    BY <1>1
<1>5. \A i \in 1..l : ~(text[i] >= 128)
    BY <1>1, <1>2, <1>3, <1>4 DEF Readable
<1>6. maximum_input_length \in Nat /\ l + n <= maximum_input_length
    BY <1>1, <1>2, GrammarAssumption DEF Readable
<1>7. l <= maximum_input_length
    BY <1>1, <1>6
<1> QED BY <1>2, <1>5, <1>6, <1>7 DEF Readable

-----------------------------------------------------------------------------
TextInv == input.of = "text" => input.text \in Seq(Codes)

LEMMA PrefixHolds == TextInv => PrefixExact
<1> SUFFICES ASSUME input.of = "text", input.text \in Seq(Codes),
                    ~(input.text # <<>> /\ Normalize(input.text) = <<>>),
                    ~(Len(input.text) + 8 > maximum_input_length)
             PROVE  IsValidPrefix(input.text) <=>
                        \E i \in 0..2, j \in 0..3, k \in 0..5 :
                            IsValid(input.text \o Completion(i, j, k))
    BY Zenon DEF TextInv, PrefixExact
<1> DEFINE text == input.text
           t == Normalize(text)
<1>1. text \in Seq(Codes) /\ (text # <<>> => t # <<>>) /\ t \in Seq(Nat)
    BY NormalizeIs
<1>2. text = <<>> => Readable(text) /\ t = <<>>
  <2> SUFFICES ASSUME text = <<>> PROVE Readable(text) /\ t = <<>>
      OBVIOUS
  <2>1. Len(text) = 0 /\ DOMAIN text = {} /\ maximum_input_length \in Nat
      BY GrammarAssumption
  <2>2. Readable(text)
      BY <2>1 DEF Readable
  <2>3. FoldsTo(t, Seq(Nat), Pushing, <<>>, text)
      BY <1>1, <2>2, NormalizeIs
  <2>4. t = <<>>
      BY <2>1, <2>3, Zenon DEF FoldsTo
  <2> QED BY <2>2, <2>4
<1>3. Readable(text)
    BY <1>1, <1>2, NormalizeIs
<1>4. Len(text) \in Nat /\ maximum_input_length \in Nat /\ Len(text) + 8 <= maximum_input_length
    BY GrammarAssumption
<1> HIDE DEF text
<1>5. IsValidPrefix(text) <=> (t # <<>> => IsBegun(t))
  <2>1. text = <<>> => t = <<>> /\ IsValidPrefix(text)
      BY <1>2 DEF IsValidPrefix
  <2>2. text # <<>> => (IsValidPrefix(text) <=> IsBegun(t))
      BY Zenon DEF IsValidPrefix, IsBegun
  <2> QED BY <1>1, <2>1, <2>2
<1> HIDE DEF t
<1>6. ASSUME NEW i \in 0..2, NEW j \in 0..3, NEW k \in 0..5,
             Len(text) + (i + j + k) <= maximum_input_length
      PROVE  Normalize(text \o Completion(i, j, k)) = t \o Completion(i, j, k)
  <2> DEFINE c == Completion(i, j, k)
  <2>1. /\ c \in Seq(Codes) /\ c \in Seq(Nat) /\ Len(c) = i + j + k
        /\ \A x \in 1..(i + j + k) : Plain(c[x]) /\ c[x] < 128
      BY CompletionIs DEF PlainText
  <2> HIDE DEF c
  <2>2. /\ \A x \in 1..Len(c) : Plain(c[x]) /\ c[x] < 128
        /\ Len(text) + Len(c) <= maximum_input_length
      BY <1>6, <2>1
  <2>3. Normalize(text \o c) = Normalize(text) \o c
      BY <1>1, <1>3, <2>1, <2>2, NormalizeAppends
  <2> QED BY <2>3, Zenon DEF c, t
<1>7. ASSUME t # <<>> => IsBegun(t)
      PROVE  \E i \in 0..2, j \in 0..3, k \in 0..5 : IsValid(text \o Completion(i, j, k))
  <2>1. PICK i \in 0..2, j \in 0..3, k \in 0..5 :
            i + j + k <= 8 /\ IsValidNormalized(t \o Completion(i, j, k))
      BY <1>1, <1>7, BegunCompleted
  <2>2. Len(text) + (i + j + k) <= maximum_input_length
      BY <1>4, <2>1
  <2>3. Normalize(text \o Completion(i, j, k)) = t \o Completion(i, j, k)
      BY <1>6, <2>2
  <2>4. t \o Completion(i, j, k) # <<>>
    <3>1. Len(t \o Completion(i, j, k)) \in 6..8
        BY <2>1 DEF IsValidNormalized
    <3>2. t \o Completion(i, j, k) = <<>> => Len(t \o Completion(i, j, k)) = 0
        BY EmptySeq
    <3> QED BY <3>1, <3>2
  <2>5. IsValid(text \o Completion(i, j, k))
      BY <2>1, <2>3, <2>4 DEF IsValid
  <2> QED BY <2>5
<1>8. ASSUME NEW i \in 0..2, NEW j \in 0..3, NEW k \in 0..5,
             IsValid(text \o Completion(i, j, k)), t # <<>>
      PROVE  IsBegun(t)
  <2> DEFINE c == Completion(i, j, k)
  <2>1. c \in Seq(Codes) /\ c \in Seq(Nat) /\ Len(c) = i + j + k
      BY CompletionIs DEF PlainText
  <2>2. Normalize(text \o c) # <<>> /\ IsValidNormalized(Normalize(text \o c))
      BY <1>8 DEF IsValid
  <2>3. text \o c \in Seq(Codes)
      BY <1>1, <2>1, ElementsAfter
  <2>4. Readable(text \o c)
      BY <2>2, <2>3, NormalizeIs
  <2>5. Len(text) + (i + j + k) <= maximum_input_length
    <3> HIDE DEF c
    <3> QED BY <1>1, <2>1, <2>4, UnreadableRemains
  <2>6. IsValidNormalized(t \o c)
      BY <1>6, <2>2, <2>5
  <2>7. t # <<>> /\ t \in Seq(Nat)
      BY <1>1, <1>8
  <2> HIDE DEF c
  <2> QED BY ONLY <2>1, <2>6, <2>7, BegunOfPlate
<1> QED BY <1>5, <1>7, <1>8, Zenon DEF text

\* TurkishPlateGrammar: is_valid_prefix accepts exactly what may become a plate, for
\* any letters, any options and any text; the texts are read character by character.
THEOREM PrefixAlwaysExact == Spec => []PrefixExact
<1>1. Init => TextInv
  <2> SUFFICES ASSUME FirstInputs PROVE TextInv
      BY InitIsFirst
  <2>1. <<>> \in Seq(Codes)
      BY EmptySeq
  <2> QED BY <2>1 DEF FirstInputs, TextInv
<1>2. TextInv /\ [Next]_<<input, viewsVars>> => TextInv'
  <2> SUFFICES ASSUME TextInv, [Next]_<<input, viewsVars>> PROVE TextInv'
      OBVIOUS
  <2>1. CASE input' = input
      BY <2>1 DEF TextInv
  <2>2. ASSUME NextInputs, input'.of = "text" PROVE input'.text \in Seq(Codes)
    <3>1. PICK c \in ProvinceCodes \cup TailCodes : input'.text = Append(input.text, c)
        BY <2>2 DEF NextInputs
    <3>2. input.of = "text" /\ input.text \in Seq(Codes)
        BY <2>2 DEF NextInputs, TextInv
    <3>3. c \in Codes
        BY <3>1, TextInputAssumption DEF Codes
    <3>4. Append(input.text, c) \in Seq(Codes)
        BY ONLY <3>2, <3>3, AppendProperties
    <3> QED BY <3>1, <3>4
  <2> QED BY <2>1, <2>2, StepIsNext DEF TextInv
<1> QED BY <1>1, <1>2, PrefixHolds, PTL DEF Spec

-----------------------------------------------------------------------------
(* The contract of a model, and what an inference demands again.           *)

LEMMA NamedIs ==
    ASSUME NEW ds, NEW name, DOMAIN ds \subseteq Nat \ {0}, NEW n \in DOMAIN ds,
           ds[n].name = name, \A k \in 1..(n - 1) : ds[k].name # name,
           NEW d \in Models!Named(ds, name)
    PROVE  d = ds[n]
<1>1. PICK i \in DOMAIN ds :
          d = ds[i] /\ ds[i].name = name /\ \A k \in 1..(i - 1) : ds[k].name # name
    BY DEF Models!Named
<1>2. i \in Nat \ {0} /\ n \in Nat \ {0}
    OBVIOUS
<1>3. ~(i < n)
  <2>1. i < n => i \in 1..(n - 1)
      BY <1>2
  <2> QED BY <1>1, <2>1
<1>4. ~(n < i)
  <2>1. n < i => n \in 1..(i - 1)
      BY <1>2
  <2> QED BY <1>1, <2>1
<1>5. i = n
    BY <1>2, <1>3, <1>4
<1> QED BY <1>1, <1>5

\* Of a shape that leaves nothing open, a session gives the shape itself.
LEMMA ConcreteIs ==
    ASSUME NEW shape \in Seq(Int), \A i \in DOMAIN shape : shape[i] # -1, NEW o \in Concrete(shape)
    PROVE  o = shape
<1>1. o \in [DOMAIN shape -> Sizes] /\ \A i \in DOMAIN shape : o[i] = shape[i]
    BY DEF Concrete
<1>2. shape = [i \in DOMAIN shape |-> shape[i]]
    OBVIOUS
<1>3. o = [i \in DOMAIN shape |-> o[i]]
    BY <1>1
<1> QED BY <1>1, <1>2, <1>3

\* The tensor made for an input has the sizes the model fixed.
LEMMA MadeFits ==
    ASSUME NEW d, d.shape \in Seq(Int), NEW order, NEW s \in Models!MakeInputSpec(d, order),
           NEW i \in 1..4
    PROVE  d.shape[i] \in {-1, Models!MakeShape(s)[i]}
<1> DEFINE shape == d.shape
           nchw == Models!IsChannelDimension(shape[2])
           spec == IF nchw THEN Models!Spec4("nchw", shape[2], shape[3], shape[4], order)
                           ELSE Models!Spec4("nhwc", shape[4], shape[2], shape[3], order)
<1>1. s = spec /\ shape[1] \in {1, -1}
    BY DEF Models!MakeInputSpec
<1>2. i = 1 \/ i = 2 \/ i = 3 \/ i = 4
    OBVIOUS
<1> HIDE DEF shape
<1>3. CASE nchw
  <2>1. Models!MakeShape(s) = <<1, shape[2], shape[3], shape[4]>>
      BY <1>1, <1>3 DEF Models!MakeShape, Models!Spec4
  <2>2. shape[i] \in {-1, <<1, shape[2], shape[3], shape[4]>>[i]}
      BY <1>1, <1>2
  <2> QED BY <2>1, <2>2 DEF shape
<1>4. CASE ~nchw
  <2>1. Models!MakeShape(s) = <<1, shape[2], shape[3], shape[4]>>
      BY <1>1, <1>4 DEF Models!MakeShape, Models!Spec4
  <2>2. shape[i] \in {-1, <<1, shape[2], shape[3], shape[4]>>[i]}
      BY <1>1, <1>2
  <2> QED BY <2>1, <2>2 DEF shape
<1> QED BY <1>3, <1>4

\* A number of m times n is such a pair.
LEMMA UnpairedIs ==
    ASSUME NEW n \in Nat \ {0}, NEW m \in Nat \ {0}, NEW k \in 0..(m * n - 1)
    PROVE  k % n \in 0..(n - 1) /\ k \div n \in 0..(m - 1) /\ k = (k \div n) * n + (k % n)
<1> DEFINE f == k \div n
           r == k % n
           a == m * n
<1>1. a \in Nat /\ k \in Nat /\ k < a
    OBVIOUS
<1>2. f \in Nat /\ r \in 0..(n - 1) /\ k = n * f + r
    BY <1>1
<1>3. a = m * n
    OBVIOUS
<1> HIDE DEF f, r, a
<1>4. n * f = f * n /\ f * n \in Nat
    BY <1>2
<1>5. ~(m <= f)
  <2> SUFFICES ASSUME m <= f PROVE FALSE
      OBVIOUS
  <2>1. m * n <= f * n
      BY <1>2, Monotone
  <2> DEFINE b == f * n
  <2>2. b \in Nat /\ k = b + r /\ a <= b
      BY <1>2, <1>3, <1>4, <2>1
  <2> HIDE DEF b
  <2> QED BY <1>1, <1>2, <2>2
<1>6. f \in 0..(m - 1)
    BY <1>2, <1>5
<1>7. k = f * n + r
    BY <1>2, <1>4
<1> QED BY <1>2, <1>6, <1>7 DEF f, r

\* The logits of T timesteps and C classes, timestep by timestep.
LEMMA LogitsPaired ==
    ASSUME NEW layout, NEW o, NEW T \in Nat \ {0}, NEW C \in Nat \ {0},
           Models!TimestepCount(layout, o) = T, Models!ClassCount(layout, o) = C
    PROVE  LET read == Models!TimestepMajor(layout, o)
           IN  /\ IsInjective(read) /\ Range(read) = 0..(C * T - 1)
               /\ \A t \in 0..(T - 1) : \A c \in 0..(C - 1) :
                      read[<<t, c>>] = IF layout = "bct" THEN c * T + t ELSE t * C + c
<1> DEFINE A == 0..(T - 1)
           B == 0..(C - 1)
           D == A \X B
           read == [p \in D |-> IF layout = "bct" THEN p[2] * T + p[1] ELSE p[1] * C + p[2]]
           n == C * T
<1>1. Models!TimestepMajor(layout, o) = read
    BY Zenon DEF Models!TimestepMajor
<1>2. n \in Nat /\ n = T * C
    OBVIOUS
<1>3. ASSUME NEW t \in A, NEW c \in B
      PROVE  /\ <<t, c>> \in D
             /\ read[<<t, c>>] = IF layout = "bct" THEN c * T + t ELSE t * C + c
    OBVIOUS
<1>4. ASSUME NEW t \in A, NEW c \in B
      PROVE  /\ read[<<t, c>>] \in 0..(n - 1)
             /\ layout = "bct" => read[<<t, c>>] \div T = c /\ read[<<t, c>>] % T = t
             /\ layout # "bct" => read[<<t, c>>] \div C = t /\ read[<<t, c>>] % C = c
  <2>1. /\ c * T + t \in 0..(C * T - 1)
        /\ (c * T + t) \div T = c /\ (c * T + t) % T = t
      BY PairedIs
  <2>2. /\ t * C + c \in 0..(T * C - 1)
        /\ (t * C + c) \div C = t /\ (t * C + c) % C = c
      BY PairedIs
  <2> HIDE DEF read, D, n
  <2>3. CASE layout = "bct"
    <3>1. read[<<t, c>>] = c * T + t
        BY <1>3, <2>3
    <3> QED BY <2>1, <2>3, <3>1 DEF n
  <2>4. CASE layout # "bct"
    <3>1. read[<<t, c>>] = t * C + c
        BY <1>3, <2>4
    <3>2. t * C + c \in 0..(n - 1)
        BY <1>2, <2>2
    <3> QED BY <2>2, <2>4, <3>1, <3>2
  <2> QED BY <2>3, <2>4
<1>5. ASSUME NEW p \in D PROVE \E t \in A, c \in B : p = <<t, c>>
    OBVIOUS
<1>6. DOMAIN read = D
    OBVIOUS
<1> HIDE DEF read
<1>7. IsInjective(read)
  <2> SUFFICES ASSUME NEW p \in D, NEW q \in D, read[p] = read[q] PROVE p = q
      BY <1>6 DEF IsInjective
  <2>1. PICK t \in A, c \in B : p = <<t, c>>
      BY <1>5
  <2>2. PICK u \in A, d \in B : q = <<u, d>>
      BY <1>5
  <2> HIDE DEF D, A, B
  <2>3. t = u /\ c = d
      BY <1>4, <2>1, <2>2
  <2> QED BY <2>1, <2>2, <2>3
<1>8. Range(read) \subseteq 0..(n - 1)
  <2> SUFFICES ASSUME NEW p \in D PROVE read[p] \in 0..(n - 1)
      BY <1>6 DEF Range
  <2>1. PICK t \in A, c \in B : p = <<t, c>>
      BY <1>5
  <2> HIDE DEF D, A, B
  <2> QED BY <1>4, <2>1
<1>9. ASSUME NEW k \in 0..(n - 1) PROVE k \in Range(read)
  <2>1. CASE layout = "bct"
    <3> DEFINE t == k % T
               c == k \div T
    <3>1. t \in A /\ c \in B /\ k = c * T + t
      <4>1. n = C * T
          OBVIOUS
      <4> HIDE DEF n
      <4> QED BY <1>2, <4>1, UnpairedIs
    <3>2. read[<<t, c>>] = k /\ <<t, c>> \in D
      <4> HIDE DEF t, c, D
      <4> QED BY <1>3, <2>1, <3>1
    <3> QED BY <1>6, <3>2 DEF Range
  <2>2. CASE layout # "bct"
    <3> DEFINE c == k % C
               t == k \div C
    <3>1. t \in A /\ c \in B /\ k = t * C + c
      <4> HIDE DEF n
      <4> QED BY <1>2, UnpairedIs
    <3>2. read[<<t, c>>] = k /\ <<t, c>> \in D
      <4> HIDE DEF t, c, D
      <4> QED BY <1>3, <2>2, <3>1
    <3> QED BY <1>6, <3>2 DEF Range
  <2> QED BY <2>1, <2>2
<1>10. Range(read) = 0..(n - 1)
    BY <1>8, <1>9
<1> HIDE DEF D
<1> QED BY <1>1, <1>3, <1>7, <1>10 DEF n

\* What a model that was built fixes of its shapes.
BuiltShapes(given) ==
    LET in == given.model.inputs[1]
        out == given.model.outputs[2].shape
    IN  /\ Len(out) = 3 /\ out[1] = 1
        /\ given.type = "ocr" =>
               /\ Models!ClassCount(given.layout, out) = given.rows
               /\ Models!TimestepCount(given.layout, out) = given.columns
        /\ given.type # "ocr" =>
               Tail(out) = IF given.layout = "features_first" THEN <<given.rows, given.columns>>
                                                              ELSE <<given.columns, given.rows>>

LEMMA RecognizerBuilt ==
    ASSUME NEW given \in Contracts, NEW contract, given.type = "ocr",
           contract.output_name = "out", contract.layout = given.layout,
           contract.classes = given.rows, contract.timesteps = given.columns,
           Models!BuildsRecognizer(given.model, contract, tensor_budget)
    PROVE  BuiltShapes(given)
<1> DEFINE outputs == given.model.outputs
<1>1. PICK d \in Models!Named(outputs, "out") :
          Models!OcrOutputAccepted(d, given.layout, given.rows, given.columns)
    BY DEF Models!BuildsRecognizer
<1>2. /\ DOMAIN outputs \subseteq Nat \ {0} /\ 2 \in DOMAIN outputs
      /\ outputs[2].name = "out" /\ outputs[1].name # "out"
    BY ContractsAssumption
<1> HIDE DEF outputs
<1>3. \A k \in 1..(2 - 1) : outputs[k].name # "out"
  <2>1. \A k \in 1..(2 - 1) : k = 1
      OBVIOUS
  <2> QED BY <1>2, <2>1
<1>4. d = outputs[2]
    BY <1>2, <1>3, NamedIs
<1> QED BY <1>1, <1>4 DEF BuiltShapes, Models!OcrOutputAccepted, Models!FloatBatchOne, outputs

LEMMA DetectorBuilt ==
    ASSUME NEW given \in Contracts, NEW contract, given.type # "ocr",
           contract.output_name = "out", contract.layout = given.layout,
           contract.features = given.rows, contract.candidates = given.columns,
           Models!BuildsDetector(given.model, contract, given.spec, tensor_budget)
    PROVE  BuiltShapes(given)
<1> DEFINE outputs == given.model.outputs
<1>1. PICK d \in Models!Named(outputs, "out") :
          Models!DetectorOutputAccepted(d, given.layout, given.rows, given.columns)
    BY DEF Models!BuildsDetector
<1>2. /\ DOMAIN outputs \subseteq Nat \ {0} /\ 2 \in DOMAIN outputs
      /\ outputs[2].name = "out" /\ outputs[1].name # "out"
    BY ContractsAssumption
<1> HIDE DEF outputs
<1>3. \A k \in 1..(2 - 1) : outputs[k].name # "out"
  <2>1. \A k \in 1..(2 - 1) : k = 1
      OBVIOUS
  <2> QED BY <1>2, <2>1
<1>4. d = outputs[2]
    BY <1>2, <1>3, NamedIs
<1> QED BY <1>1, <1>4 DEF BuiltShapes, Models!DetectorOutputAccepted, Models!FloatBatchOne, outputs

\* Such shapes leave nothing open.
LEMMA BuiltConcrete ==
    ASSUME NEW given \in Contracts, BuiltShapes(given),
           NEW o \in Concrete(given.model.outputs[2].shape)
    PROVE  o = given.model.outputs[2].shape
<1> DEFINE out == given.model.outputs[2].shape
<1>1. out \in Seq(Int) /\ {given.rows, given.columns} \subseteq Nat
    BY ContractsAssumption
<1>2. Len(out) = 3 /\ out[1] = 1
    BY DEF BuiltShapes
<1>3. {out[2], out[3]} \subseteq {given.rows, given.columns}
  <2>1. CASE given.type = "ocr"
    <3>1. /\ Models!ClassCount(given.layout, out) = given.rows
          /\ Models!TimestepCount(given.layout, out) = given.columns
        BY <2>1 DEF BuiltShapes
    <3> HIDE DEF out
    <3> QED BY <3>1 DEF Models!ClassCount, Models!TimestepCount
  <2>2. CASE given.type # "ocr"
    <3>1. Tail(out) = IF given.layout = "features_first" THEN <<given.rows, given.columns>>
                                                         ELSE <<given.columns, given.rows>>
        BY <2>2 DEF BuiltShapes
    <3> HIDE DEF out
    <3>2. out[2] = Tail(out)[1] /\ out[3] = Tail(out)[2]
      <4>1. out # <<>>
          BY <1>2
      <4>2. Len(Tail(out)) = Len(out) - 1 /\ \A i \in 1..Len(Tail(out)) : Tail(out)[i] = out[i + 1]
          BY <1>1, <4>1, HeadTailProperties
      <4>3. 1 \in 1..Len(Tail(out)) /\ 2 \in 1..Len(Tail(out))
        <5> DEFINE m == Len(Tail(out))
        <5>1. m = 2
            BY <1>2, <4>2
        <5> HIDE DEF m
        <5>2. 1 \in 1..m /\ 2 \in 1..m
            BY ONLY <5>1
        <5> QED BY <5>2 DEF m
      <4> QED BY <4>2, <4>3
    <3>3. CASE given.layout = "features_first"
      <4>1. Tail(out)[1] = given.rows /\ Tail(out)[2] = given.columns
        <5> DEFINE tail == Tail(out)
        <5>1. tail = <<given.rows, given.columns>>
            BY <3>1, <3>3
        <5> HIDE DEF tail
        <5>2. tail[1] = given.rows /\ tail[2] = given.columns
            BY ONLY <5>1
        <5> QED BY <5>2 DEF tail
      <4> QED BY <3>2, <4>1
    <3>4. CASE given.layout # "features_first"
      <4>1. Tail(out)[1] = given.columns /\ Tail(out)[2] = given.rows
        <5> DEFINE tail == Tail(out)
        <5>1. tail = <<given.columns, given.rows>>
            BY <3>1, <3>4
        <5> HIDE DEF tail
        <5>2. tail[1] = given.columns /\ tail[2] = given.rows
            BY ONLY <5>1
        <5> QED BY <5>2 DEF tail
      <4> QED BY <3>2, <4>1
    <3> QED BY <3>3, <3>4
  <2> QED BY <2>1, <2>2
<1> HIDE DEF out
<1>4. \A i \in DOMAIN out : out[i] # -1
  <2> SUFFICES ASSUME NEW i \in DOMAIN out PROVE out[i] # -1
      OBVIOUS
  <2>1. i = 1 \/ i = 2 \/ i = 3
      BY <1>1, <1>2
  <2>2. out[2] \in Nat /\ out[3] \in Nat
      BY <1>1, <1>3
  <2> QED BY <1>2, <2>1, <2>2
<1> QED BY <1>1, <1>4, ConcreteIs DEF out

ContractInv == input.of = "contract" => input.contract \in Contracts

LEMMA SelfTestHolds == ContractInv => SelfTestDecides
<1> SUFFICES ASSUME ContractInv, input.of = "contract" PROVE SelfTestDecides
    BY Zenon DEF SelfTestDecides
<1> DEFINE given == input.contract
           contract == [input_name |-> "in", output_name |-> "out", layout |-> given.layout,
                        features |-> given.rows, candidates |-> given.columns,
                        classes |-> given.rows, timesteps |-> given.columns,
                        charset |-> given.charset, color_order |-> "gray"]
           in == given.model.inputs[1].shape
           out == given.model.outputs[2].shape
           builds == IF given.type = "ocr"
                     THEN Models!BuildsRecognizer(given.model, contract, tensor_budget)
                     ELSE Models!BuildsDetector(given.model, contract, given.spec, tensor_budget)
           tensors == IF given.type = "detector" THEN {in}
                      ELSE {Models!MakeShape(s) :
                               s \in Models!MakeInputSpec(given.model.inputs[1], "gray")}
           accepts(tensor, o) ==
                IF given.type = "ocr"
                THEN Models!RecognizeAccepts(contract, tensor, o, tensor_budget)
                ELSE Models!DetectAccepts(contract, given.spec, tensor, o, tensor_budget)
<1>1. given \in Contracts
    BY DEF ContractInv
<1>2. /\ contract.output_name = "out" /\ contract.layout = given.layout
      /\ contract.features = given.rows /\ contract.candidates = given.columns
      /\ contract.classes = given.rows /\ contract.timesteps = given.columns
    OBVIOUS
<1> HIDE DEF given, contract
<1>3. ASSUME builds PROVE BuiltShapes(given)
  <2>1. CASE given.type = "ocr"
      BY <1>1, <1>2, <1>3, <2>1, RecognizerBuilt
  <2>2. CASE given.type # "ocr"
      BY <1>1, <1>2, <1>3, <2>2, DetectorBuilt
  <2> QED BY <2>1, <2>2
<1>4. in \in Seq(Int) /\ (given.type # "ocr" => given.type = "detector")
    BY <1>1, ContractsAssumption
<1>5. ASSUME NEW tensor \in tensors, NEW i \in 1..4 PROVE in[i] \in {-1, tensor[i]}
  <2>1. CASE given.type = "detector"
      BY <2>1
  <2>2. CASE given.type # "detector"
    <3>1. PICK s \in Models!MakeInputSpec(given.model.inputs[1], "gray") :
              tensor = Models!MakeShape(s)
        BY <2>2
    <3> QED BY <1>4, <3>1, MadeFits
  <2> QED BY <2>1, <2>2
<1>6. ASSUME builds, NEW tensor \in tensors, NEW o \in Concrete(out), NEW p \in Concrete(out)
      PROVE  accepts(tensor, o) = accepts(tensor, p)
  <2>1. BuiltShapes(given)
      BY <1>3, <1>6
  <2>2. o = out /\ p = out
      BY <1>1, <2>1, BuiltConcrete
  <2> QED BY <2>2
<1>7. ASSUME builds, given.type = "ocr", NEW tensor \in tensors, NEW o \in Concrete(out),
             NEW read \in {Models!TimestepMajor(given.layout, o)}, accepts(tensor, o)
      PROVE  /\ IsInjective(read) /\ Range(read) = 0..(o[2] * o[3] - 1)
             /\ \A t \in 0..(contract.timesteps - 1) :
                \A c \in 0..(contract.classes - 1) :
                   read[<<t, c>>] = IF given.layout = "bct"
                                    THEN c * o[3] + t ELSE t * o[3] + c
  <2> DEFINE C == Models!ClassCount(given.layout, o)
             T == Models!TimestepCount(given.layout, o)
  <2>1. BuiltShapes(given)
      BY <1>3, <1>7
  <2>2. o = out
      BY <1>1, <2>1, BuiltConcrete
  <2>3. o \in Seq(Int) /\ Len(o) = 3
      BY <1>1, <2>1, <2>2, ContractsAssumption DEF BuiltShapes
  <2>4. o[2] > 0 /\ o[3] > 0
    <3>1. Models!RecognizeAccepts(contract, tensor, o, tensor_budget)
        BY <1>7
    <3> QED BY <3>1 DEF Models!RecognizeAccepts, Models!DecodeAccepts
  <2>5. o[2] \in Nat \ {0} /\ o[3] \in Nat \ {0}
    <3>1. o[2] \in Int /\ o[3] \in Int
      <4>1. 2 \in 1..Len(o) /\ 3 \in 1..Len(o)
          BY <2>3
      <4> QED BY <2>3, <4>1, ElementOfSeq
    <3> QED BY <2>4, <3>1
  <2>6. given.layout \in {"bct", "btc"}
      BY <1>1, <1>7, ContractsAssumption
  <2>7. /\ given.layout = "bct" => C = o[2] /\ T = o[3]
        /\ given.layout # "bct" => C = o[3] /\ T = o[2]
      BY DEF Models!ClassCount, Models!TimestepCount
  <2>8. C = contract.classes /\ T = contract.timesteps
      BY <1>2, <1>7, <2>1, <2>2 DEF BuiltShapes
  <2>9. C \in Nat \ {0} /\ T \in Nat \ {0} /\ read = Models!TimestepMajor(given.layout, o)
      BY <2>5, <2>7
  <2> HIDE DEF C, T
  <2>10. /\ IsInjective(read) /\ Range(read) = 0..(C * T - 1)
         /\ \A t \in 0..(T - 1) : \A c \in 0..(C - 1) :
                read[<<t, c>>] = IF given.layout = "bct" THEN c * T + t ELSE t * C + c
      BY <2>9, LogitsPaired DEF C, T
  <2>11. C * T = o[2] * o[3]
      BY <2>5, <2>7
  <2>12. \A t \in 0..(T - 1) : \A c \in 0..(C - 1) :
            read[<<t, c>>] = IF given.layout = "bct" THEN c * o[3] + t ELSE t * o[3] + c
    <3>1. CASE given.layout = "bct"
        BY <2>7, <2>10, <3>1
    <3>2. CASE given.layout # "bct"
        BY <2>7, <2>10, <3>2
    <3> QED BY <3>1, <3>2
  <2> QED BY <2>8, <2>10, <2>11, <2>12
<1> HIDE DEF accepts, builds, tensors, in, out
<1>8. builds => \A tensor \in tensors :
          /\ \A i \in 1..4 : in[i] \in {-1, tensor[i]}
          /\ \A o, p \in Concrete(out) : accepts(tensor, o) = accepts(tensor, p)
          /\ given.type = "ocr" => \A o \in Concrete(out) :
                 \A read \in {Models!TimestepMajor(given.layout, o)} :
                     accepts(tensor, o) =>
                         /\ IsInjective(read) /\ Range(read) = 0..(o[2] * o[3] - 1)
                         /\ \A t \in 0..(contract.timesteps - 1) :
                            \A c \in 0..(contract.classes - 1) :
                               read[<<t, c>>] = IF given.layout = "bct"
                                                THEN c * o[3] + t ELSE t * o[3] + c
    BY <1>5, <1>6, <1>7, Zenon
<1> QED BY <1>8, Zenon DEF SelfTestDecides, accepts, builds, tensors, in, out, contract, given

\* build_pipeline_from_contract and the self test: a model that was built leaves of its
\* output nothing open, so what one inference accepts all later ones do, and the
\* decoder is given every logit once; for any models, contracts and budgets.
THEOREM SelfTestAlwaysDecides == Spec => []SelfTestDecides
<1>1. Init => ContractInv
    BY InitIsFirst DEF FirstInputs, ContractInv
<1>2. ContractInv /\ [Next]_<<input, viewsVars>> => ContractInv'
  <2> SUFFICES ASSUME ContractInv, [Next]_<<input, viewsVars>> PROVE ContractInv'
      OBVIOUS
  <2>1. CASE input' = input
      BY <2>1 DEF ContractInv
  <2>2. CASE NextInputs
      BY <2>2 DEF NextInputs, ContractInv
  <2> QED BY <2>1, <2>2, StepIsNext
<1> QED BY <1>1, <1>2, SelfTestHolds, PTL DEF Spec

-----------------------------------------------------------------------------
(* Products of sequences.                                                  *)

Times == [d \in Int |-> [x \in Int |-> d * x]]

LEMMA ProductIs ==
    ASSUME NEW s \in Seq(Int)
    PROVE  FoldsTo(Product(s), Int, Times, 1, s)
<1> DEFINE D == 1..Len(s)
           Eq(h) == h = [T \in SUBSET D |-> IF T = {} THEN 1 ELSE h[T \ {Max(T)}] * s[Max(T)]]
           h == CHOOSE f : Eq(f)
<1>1. Indices(D) /\ DOMAIN s = D
    BY IndicesOf
<1>3. \A v \in Int : \A e \in Int : Times[v][e] = v * e
    BY DEF Times
<1>4. \A v \in Int : \A e \in Int : Times[v][e] \in Int
  <2>1. \A v \in Int : \A e \in Int : v * e \in Int
      OBVIOUS
  <2> QED BY ONLY <1>3, <2>1, Zenon
<1>6. Product(s) = h[D]
  <2> HIDE DEF D
  <2> QED BY <1>1, Zenon DEF Product, FoldLeft, MapThenFoldSet
<1> HIDE DEF h
<1>7. \A T \in SUBSET D : T # {} => T \ {Max(T)} \in SUBSET D /\ s[Max(T)] \in Int
  <2> SUFFICES ASSUME NEW T \in SUBSET D, T # {}
               PROVE  T \ {Max(T)} \in SUBSET D /\ s[Max(T)] \in Int
      OBVIOUS
  <2>1. Max(T) \in T /\ T \ {Max(T)} \in SUBSET D
      BY <1>1, MaxOfPart
  <2>2. Max(T) \in 1..Len(s)
      BY <2>1
  <2> HIDE DEF D
  <2> QED BY <2>1, <2>2
<1>8. Eq(h)
  <2>1. PICK g : Folding(g, Times, 1, s, D)
      BY <1>1, FoldingExists
  <2>2. \A T \in SUBSET D : g[T] \in Int
    <3>1. 1 \in Int
        OBVIOUS
    <3> QED BY ONLY s \in Seq(Int), <1>4, <2>1, <3>1, FoldingTyped
  <2>3. g = [T \in SUBSET D |-> IF T = {} THEN 1 ELSE Times[g[T \ {Max(T)}]][s[Max(T)]]]
      BY ONLY <2>1, Zenon DEF Folding
  <2> HIDE DEF D
  <2>4. \A T \in SUBSET D : T # {} =>
            Times[g[T \ {Max(T)}]][s[Max(T)]] = g[T \ {Max(T)}] * s[Max(T)]
      BY <1>3, <1>7, <2>2, Zenon
  <2>5. Eq(g)
      BY ONLY <2>3, <2>4, Zenon
  <2> QED BY <2>5, Zenon DEF h
<1> DEFINE W == Int \cup {h[T] : T \in SUBSET D}
           G == [v \in W |-> [e \in Int |-> v * e]]
<1>9. Folding(h, G, 1, s, D)
  <2> HIDE DEF D
  <2>1. \A T \in SUBSET D : T # {} =>
            G[h[T \ {Max(T)}]][s[Max(T)]] = h[T \ {Max(T)}] * s[Max(T)]
    <3>1. \A v \in W : \A e \in Int : G[v][e] = v * e
        BY Zenon
    <3>2. \A T \in SUBSET D : h[T] \in W
        BY Zenon
    <3> HIDE DEF G, W
    <3> QED BY <1>7, <3>1, <3>2, Zenon
  <2> HIDE DEF G
  <2> QED BY <1>8, <2>1, Zenon DEF Folding
<1>10. \A v \in Int : \A e \in Int : G[v][e] = Times[v][e]
    BY <1>3, Zenon
<1> HIDE DEF G, Eq
<1>11. FoldsTo(h[D], Int, Times, 1, s)
  <2>1. 1 \in Int
      OBVIOUS
  <2> QED BY ONLY s \in Seq(Int), <1>4, <1>9, <1>10, <2>1, FoldsLike
<1> QED BY <1>6, <1>11

\* What a fold gives is one of its values.
LEMMA FoldsToTyped ==
    ASSUME NEW V, NEW F, NEW base, NEW E, NEW s \in Seq(E), NEW a, FoldsTo(a, V, F, base, s)
    PROVE  a \in V
<1>1. Len(s) \in 0..Len(s)
    OBVIOUS
<1> QED BY <1>1 DEF FoldsTo

\* Of no factors, the product is one; and that of two sequences is that of both.
LEMMA ProductConcat ==
    ASSUME NEW s \in Seq(Int), NEW t \in Seq(Int)
    PROVE  /\ Product(s) \in Int /\ Product(t) \in Int
           /\ Product(s \o t) = Product(s) * Product(t)
<1> DEFINE a == Product(s)
           b == Product(t)
           n == Len(t)
<1>1. FoldsTo(a, Int, Times, 1, s) /\ FoldsTo(b, Int, Times, 1, t)
    BY ProductIs
<1>2. a \in Int /\ b \in Int
    BY <1>1, FoldsToTyped
<1>3. n \in Nat /\ \A k \in 1..n : t[k] \in Int
    OBVIOUS
<1>4. PICK q \in [0..n -> Int] :
          q[0] = 1 /\ b = q[n] /\ \A k \in 1..n : q[k] = Times[q[k - 1]][t[k]]
    BY <1>1 DEF FoldsTo
<1> HIDE DEF a, b, n
<1> DEFINE m == [k \in 0..n |-> a * q[k]]
<1>5. m \in [0..n -> Int] /\ \A k \in 0..n : m[k] = a * q[k]
  <2>1. \A k \in 0..n : a * q[k] \in Int
    <3>1. \A x \in Int : a * x \in Int
        BY <1>2
    <3> QED BY <1>4, <3>1
  <2> QED BY <2>1
<1> HIDE DEF m
<1>6. m[0] = a /\ m[n] = a * b
  <2>1. 0 \in 0..n /\ n \in 0..n /\ a * 1 = a
      BY <1>2, <1>3
  <2> QED BY <1>4, <1>5, <2>1
<1>7. ASSUME NEW k \in 1..n PROVE m[k] = Times[m[k - 1]][t[k]]
  <2>1. k \in 0..n /\ k - 1 \in 0..n
      BY <1>3
  <2> DEFINE x == q[k - 1]
             y == t[k]
  <2>2. x \in Int /\ y \in Int /\ q[k] = Times[x][y] /\ m[k - 1] = a * x /\ m[k] = a * q[k]
      BY <1>3, <1>4, <1>5, <2>1
  <2> HIDE DEF x, y
  <2>3. \A v \in Int : \A w \in Int : Times[v][w] = v * w
      BY DEF Times
  <2>4. a * x \in Int /\ (a * x) * y = a * (x * y)
      BY ONLY <1>2, <2>2
  <2>5. q[k] = x * y /\ Times[a * x][y] = (a * x) * y
      BY ONLY <2>2, <2>3, <2>4
  <2> QED BY ONLY <2>2, <2>4, <2>5 DEF y
<1>8. FoldsTo(a * b, Int, Times, a, t)
  <2>1. /\ m[0] = a /\ a * b = m[n] /\ \A k \in 1..n : m[k] = Times[m[k - 1]][t[k]]
      BY <1>6, <1>7
  <2> QED BY <1>5, <2>1 DEF FoldsTo, n
<1>9. FoldsTo(a * b, Int, Times, 1, s \o t)
    BY <1>1, <1>8, FoldsToConcat
<1>10. s \o t \in Seq(Int)
    OBVIOUS
<1>11. FoldsTo(Product(s \o t), Int, Times, 1, s \o t)
    BY <1>10, ProductIs
<1>12. Product(s \o t) = a * b
    BY <1>9, <1>10, <1>11, FoldsToUnique
<1> QED BY <1>2, <1>12 DEF a, b

LEMMA ProductOfNone == Product(<<>>) = 1
<1>1. <<>> \in Seq(Int) /\ Len(<<>>) = 0
    BY EmptySeq
<1>2. FoldsTo(Product(<<>>), Int, Times, 1, <<>>)
    BY <1>1, ProductIs
<1> QED BY <1>1, <1>2 DEF FoldsTo

\* The recursive function of FlattenSeq is a fold.
LEMMA FlattenSteps ==
    ASSUME NEW X, NEW es \in Seq(Seq(X)), NEW n, n = Len(es), n # 0, NEW h,
           h = CHOOSE f : f = [i \in 1..n |-> IF i = 1 THEN es[i] ELSE f[i - 1] \o es[i]]
    PROVE  FoldsTo(h[n], Seq(X), Joining(X), <<>>, es)
<1> DEFINE Eq(f) == f = [i \in 1..n |-> IF i = 1 THEN es[i] ELSE f[i - 1] \o es[i]]
           V == Seq(X)
           F == Joining(X)
<1>1. n \in Nat \ {0} /\ es \in Seq(V) /\ \A k \in 1..n : es[k] \in V
    OBVIOUS
<1>2. \A a \in V : \A b \in V : F[a][b] = a \o b /\ a \o b \in V
  <2>1. \A a \in V : \A b \in V : F[a][b] = a \o b
      BY DEF Joining
  <2>2. \A a \in V : \A b \in V : a \o b \in V
      OBVIOUS
  <2> QED BY ONLY <2>1, <2>2, Zenon
<1>3. <<>> \in V /\ \A a \in V : <<>> \o a = a
    BY EmptySeq
<1> HIDE DEF V, F
<1>4. PICK m \in [0..n -> V] : m[0] = <<>> /\ \A k \in 1..n : m[k] = F[m[k - 1]][es[k]]
  <2>2. Indices(1..n)
      BY IndicesOf
  <2>3. PICK g : Folding(g, F, <<>>, es, 1..n)
      BY <2>2, FoldingExists
  <2>4. FoldsTo(g[1..n], V, F, <<>>, es)
    <3>1. \A a \in V : \A b \in V : F[a][b] \in V
        BY <1>2
    <3>2. Folding(g, F, <<>>, es, 1..Len(es)) /\ n = Len(es)
        BY <2>3
    <3> QED BY ONLY <1>1, <1>3, <3>1, <3>2, FoldingPrefixes
  <2> QED BY <2>4 DEF FoldsTo
<1>5. \A k \in 1..n : m[k] = m[k - 1] \o es[k]
  <2> SUFFICES ASSUME NEW k \in 1..n PROVE m[k] = m[k - 1] \o es[k]
      OBVIOUS
  <2>1. k - 1 \in 0..n
      BY <1>1
  <2>2. m[k - 1] \in V /\ es[k] \in V
      BY <1>1, <2>1
  <2> QED BY <1>2, <1>4, <2>2
<1> DEFINE r == [i \in 1..n |-> m[i]]
<1>6. Eq(r)
  <2>1. ASSUME NEW i \in 1..n
        PROVE  r[i] = IF i = 1 THEN es[i] ELSE r[i - 1] \o es[i]
    <3>1. CASE i = 1
      <4>1. i - 1 = 0 /\ es[i] \in V
          BY <1>1, <3>1
      <4>2. m[i] = m[i - 1] \o es[i]
          BY <1>5
      <4>3. m[i] = es[i]
          BY <1>3, <1>4, <4>1, <4>2
      <4> QED BY <3>1, <4>3
    <3>2. CASE i # 1
      <4>1. i - 1 \in 1..n
          BY <1>1, <3>2
      <4>2. r[i - 1] = m[i - 1] /\ r[i] = m[i]
          BY <4>1
      <4> HIDE DEF r
      <4> QED BY <1>5, <3>2, <4>2
    <3> QED BY <3>1, <3>2
  <2>2. \A i \in 1..n : r[i] = IF i = 1 THEN es[i] ELSE r[i - 1] \o es[i]
      BY <2>1
  <2>3. r = [i \in 1..n |-> r[i]]
      OBVIOUS
  <2> HIDE DEF r
  <2> QED BY <2>2, <2>3, Zenon
<1>7. Eq(h)
    BY <1>6, Zenon
<1>11. \A i \in 1..n : i = 1 => r[i] = es[i]
  <2> HIDE DEF r
  <2>1. \A i \in 1..n : r[i] = IF i = 1 THEN es[i] ELSE r[i - 1] \o es[i]
      BY <1>6, Zenon DEF Eq
  <2> QED BY <2>1
<1>8. \A i \in 1..n : h[i] = IF i = 1 THEN es[i] ELSE h[i - 1] \o es[i]
  <2> HIDE DEF Eq
  <2> QED BY <1>7, Zenon DEF Eq
<1> HIDE DEF Eq
<1> DEFINE B == {k \in 1..n : h[k] # m[k]}
<1>9. ASSUME B # {} PROVE FALSE
  <2>1. B \in SUBSET Nat
    <3>1. 1..n \subseteq Nat
        BY <1>1
    <3> QED BY ONLY <3>1
  <2>2. PICK k \in B : \A l \in B : k <= l
    <3> HIDE DEF B
    <3> QED BY <1>9, <2>1, LeastNatural
  <2>3. k \in 1..n /\ h[k] # m[k]
      BY <2>2
  <2>4. r[k] = m[k] /\ (k # 1 => r[k - 1] = m[k - 1])
    <3>1. k # 1 => k - 1 \in 1..n
        BY <1>1, <2>3
    <3> QED BY <2>3, <3>1
  <2>5. k # 1
    <3>1. k = 1 => r[k] = es[k]
        BY <1>11, <2>3
    <3>2. k = 1 => h[k] = es[k]
        BY <1>8, <2>3
    <3> HIDE DEF r
    <3> QED BY <2>3, <2>4, <3>1, <3>2
  <2>6. k - 1 \in 1..n /\ ~(k <= k - 1)
      BY <1>1, <2>3, <2>5
  <2>7. h[k - 1] = m[k - 1]
      BY <2>2, <2>6
  <2> QED BY <1>5, <1>8, <2>3, <2>5, <2>7, Zenon
<1>10. h[n] = m[n]
  <2>1. n \in 1..n
      BY <1>1
  <2>2. n \notin B
    <3> HIDE DEF B
    <3> QED BY <1>9
  <2> QED BY <2>1, <2>2
<1> QED BY <1>4, <1>10 DEF FoldsTo, V, F

LEMMA FlattenFolds ==
    ASSUME NEW X, NEW es \in Seq(Seq(X))
    PROVE  FoldsTo(FlattenSeq(es), Seq(X), Joining(X), <<>>, es)
<1> DEFINE n == Len(es)
           Eq(f) == f = [i \in 1..n |-> IF i = 1 THEN es[i] ELSE f[i - 1] \o es[i]]
           h == CHOOSE f : Eq(f)
<1>1. CASE n = 0
  <2>1. es = <<>>
      BY <1>1, EmptySeq
  <2>2. FlattenSeq(es) = <<>>
      BY <1>1, <2>1 DEF FlattenSeq
  <2> DEFINE m == [k \in 0..0 |-> <<>>]
  <2>3. m \in [0..0 -> Seq(X)] /\ m[0] = <<>>
      BY EmptySeq
  <2>4. 1..n = {} /\ 0..n = 0..0
      BY <1>1
  <2>5. m \in [0..Len(es) -> Seq(X)] /\ <<>> = m[Len(es)]
        /\ \A k \in 1..Len(es) : m[k] = Joining(X)[m[k - 1]][es[k]]
    <3> HIDE DEF m
    <3> QED BY <1>1, <2>3, <2>4
  <2> HIDE DEF m
  <2> QED BY <2>2, <2>3, <2>5 DEF FoldsTo
<1>2. CASE n # 0
  <2>1. FlattenSeq(es) = h[n]
      BY <1>2, Zenon DEF FlattenSeq
  <2>2. FoldsTo(h[n], Seq(X), Joining(X), <<>>, es)
      BY <1>2, FlattenSteps
  <2> QED BY <2>1, <2>2
<1> QED BY <1>1, <1>2

\* The weight of every element with the one that lies beside it.
Weights(W, f, g) == [i \in 1..Len(f) |-> W[f[i]][g[i]]]

Weighing(W, X, Y) == \A x \in X : \A y \in Y : W[x][y] \in Int

LEMMA WeightsTyped ==
    ASSUME NEW X, NEW Y, NEW W, Weighing(W, X, Y),
           NEW f \in Seq(X), NEW g \in Seq(Y), Len(g) = Len(f)
    PROVE  Weights(W, f, g) \in Seq(Int) /\ Len(Weights(W, f, g)) = Len(f)
<1> DEFINE n == Len(f)
           w == [i \in 1..n |-> W[f[i]][g[i]]]
<1>1. n \in Nat /\ (\A i \in 1..n : f[i] \in X) /\ \A i \in 1..n : g[i] \in Y
    OBVIOUS
<1>2. Weights(W, f, g) = w
    BY DEF Weights
<1> HIDE DEF n
<1>3. w \in [1..n -> Int]
    BY <1>1 DEF Weighing
<1> HIDE DEF w
<1>4. w \in Seq(Int) /\ Len(w) = n
    BY <1>1, <1>3, SequenceOf
<1> QED BY <1>2, <1>4 DEF n

LEMMA NoWeights == \A W : Weights(W, <<>>, <<>>) = <<>>
<1> SUFFICES ASSUME NEW W PROVE Weights(W, <<>>, <<>>) = <<>>
    OBVIOUS
<1> DEFINE w == Weights(W, <<>>, <<>>)
<1>1. 1..Len(<<>>) = 1..0 /\ 1..0 = {}
    OBVIOUS
<1>2. w = [i \in 1..0 |-> W[<<>>[i]][<<>>[i]]]
    BY <1>1 DEF Weights
<1> HIDE DEF w
<1>3. w \in [1..0 -> {}]
    BY <1>1, <1>2
<1>4. w \in Seq({}) /\ Len(w) = 0
    BY <1>3, SequenceOf
<1>5. w = <<>>
    BY <1>4, EmptySeq
<1> QED BY <1>5 DEF w

LEMMA WeightsConcat ==
    ASSUME NEW X, NEW Y, NEW W, Weighing(W, X, Y),
           NEW f \in Seq(X), NEW g \in Seq(Y), Len(g) = Len(f),
           NEW e \in Seq(X), NEW l \in Seq(Y), Len(l) = Len(e)
    PROVE  Weights(W, f \o e, g \o l) = Weights(W, f, g) \o Weights(W, e, l)
<1> DEFINE n == Len(f)
           k == Len(e)
           a == Weights(W, f, g)
           b == Weights(W, e, l)
           c == Weights(W, f \o e, g \o l)
           d == a \o b
           fe == f \o e
           gl == g \o l
<1>0. /\ Weighing(W, X, Y)
      /\ f \in Seq(X) /\ g \in Seq(Y) /\ n = Len(f) /\ n = Len(g)
      /\ e \in Seq(X) /\ l \in Seq(Y) /\ k = Len(e) /\ k = Len(l)
    OBVIOUS
<1> HIDE DEF n, k
<1>1. /\ n \in Nat /\ k \in Nat /\ fe \in Seq(X) /\ Len(fe) = n + k
      /\ \A i \in 1..n : fe[i] = f[i]
      /\ \A i \in 1..k : fe[n + i] = e[i]
  <2>1. n \in Nat /\ k \in Nat
      BY <1>0
  <2>2. /\ fe \in Seq(X) /\ Len(fe) = n + k
        /\ \A i \in 1..n : fe[i] = f[i]
        /\ \A i \in 1..k : fe[n + i] = e[i]
      BY <1>0, ElementsAfter
  <2> QED BY <2>1, <2>2
<1>2. /\ gl \in Seq(Y) /\ Len(gl) = n + k
      /\ \A i \in 1..n : gl[i] = g[i]
      /\ \A i \in 1..k : gl[n + i] = l[i]
    BY ONLY <1>0, ElementsAfter
<1>3. a \in Seq(Int) /\ n = Len(a) /\ b \in Seq(Int) /\ k = Len(b)
  <2>0. Len(g) = Len(f) /\ Len(l) = Len(e)
      BY ONLY <1>0
  <2>1. a \in Seq(Int) /\ Len(a) = Len(f)
      BY <1>0, <2>0, WeightsTyped
  <2>2. b \in Seq(Int) /\ Len(b) = Len(e)
      BY <1>0, <2>0, WeightsTyped
  <2> QED BY <1>0, <2>1, <2>2
<1>4. c \in Seq(Int) /\ Len(c) = n + k
  <2> HIDE DEF fe, gl
  <2>1. Len(gl) = Len(fe)
      BY <1>1, <1>2
  <2>2. Weights(W, fe, gl) \in Seq(Int) /\ Len(Weights(W, fe, gl)) = Len(fe)
      BY ONLY <1>0, <1>1, <1>2, <2>1, WeightsTyped
  <2> QED BY <1>1, <2>2 DEF fe, gl
<1>5. /\ d \in Seq(Int) /\ Len(d) = n + k
      /\ \A i \in 1..n : d[i] = a[i]
      /\ \A i \in 1..k : d[n + i] = b[i]
  <2> HIDE DEF a, b
  <2> QED BY <1>3, ElementsAfter
<1>6. \A i \in 1..n : a[i] = W[f[i]][g[i]]
    BY <1>0 DEF Weights
<1>7. \A i \in 1..k : b[i] = W[e[i]][l[i]]
    BY <1>0 DEF Weights
<1>8. \A i \in 1..(n + k) : c[i] = W[fe[i]][gl[i]]
  <2> HIDE DEF fe, gl, n, k
  <2> QED BY <1>1 DEF Weights, fe, gl
<1> HIDE DEF a, b, c, d, n, k, fe, gl
<1>9. ASSUME NEW i \in 1..(n + k) PROVE c[i] = d[i]
  <2>1. CASE i \in 1..n
    <3>1. fe[i] = f[i] /\ gl[i] = g[i] /\ d[i] = a[i]
        BY <1>1, <1>2, <1>5, <2>1
    <3> QED BY <1>6, <1>8, <2>1, <3>1
  <2>2. CASE i \notin 1..n
    <3>1. i - n \in 1..k /\ n + (i - n) = i
        BY <1>1, <2>2
    <3> DEFINE j == i - n
    <3> HIDE DEF j
    <3>2. j \in 1..k /\ n + j = i
        BY <3>1 DEF j
    <3>3. fe[i] = e[j] /\ gl[i] = l[j] /\ d[i] = b[j]
        BY <1>1, <1>2, <1>5, <3>2
    <3> QED BY <1>7, <1>8, <3>2, <3>3
  <2> QED BY <2>1, <2>2
<1>10. c = d
    BY ONLY <1>4, <1>5, <1>9, SameSequences
<1> QED BY <1>10 DEF a, b, c, d

\* ps is what the parts weigh.
Weighed(W, es, ls, ps) ==
    \A c \in 1..Len(es) : Len(ls[c]) = Len(es[c]) /\ ps[c] = Product(Weights(W, es[c], ls[c]))

\* f and g lie beside each other and weigh p.
Weighable(W, X, Y, f, g, p) ==
    /\ f \in Seq(X) /\ g \in Seq(Y) /\ Len(g) = Len(f) /\ Product(Weights(W, f, g)) = p

\* Everything weighed in one product, or in a product of products.
LEMMA FlattenedProduct ==
    ASSUME NEW X, NEW Y, NEW W, NEW es, NEW ls, NEW ps, NEW n, NEW f, NEW g,
           Weighing(W, X, Y), es \in Seq(Seq(X)), ls \in Seq(Seq(Y)), ps \in Seq(Int),
           n = Len(es), n = Len(ls), n = Len(ps), Weighed(W, es, ls, ps),
           f = FlattenSeq(es), g = FlattenSeq(ls)
    PROVE  Weighable(W, X, Y, f, g, Product(ps))
<1> DEFINE Fit(a, b, p) == Weighable(W, X, Y, a, b, p)
<1>1. PICK a \in [0..n -> Seq(X)] :
          /\ a[0] = <<>> /\ f = a[n] /\ \A k \in 1..n : a[k] = Joining(X)[a[k - 1]][es[k]]
  <2>1. FoldsTo(f, Seq(X), Joining(X), <<>>, es)
      BY FlattenFolds
  <2> QED BY ONLY <2>1, n = Len(es) DEF FoldsTo
<1>2. PICK b \in [0..n -> Seq(Y)] :
          /\ b[0] = <<>> /\ g = b[n] /\ \A k \in 1..n : b[k] = Joining(Y)[b[k - 1]][ls[k]]
  <2>1. FoldsTo(g, Seq(Y), Joining(Y), <<>>, ls)
      BY FlattenFolds
  <2> QED BY ONLY <2>1, n = Len(ls) DEF FoldsTo
<1>3. PICK p \in [0..n -> Int] :
          /\ p[0] = 1 /\ Product(ps) = p[n] /\ \A k \in 1..n : p[k] = Times[p[k - 1]][ps[k]]
  <2>1. FoldsTo(Product(ps), Int, Times, 1, ps)
      BY ProductIs
  <2> QED BY ONLY <2>1, n = Len(ps) DEF FoldsTo
<1>4. /\ n \in Nat /\ (\A k \in 1..n : es[k] \in Seq(X)) /\ (\A k \in 1..n : ls[k] \in Seq(Y))
      /\ \A k \in 1..n : ps[k] \in Int
  <2>1. n \in Nat
      OBVIOUS
  <2>2. \A k \in 1..n : es[k] \in Seq(X)
      BY ONLY es \in Seq(Seq(X)), n = Len(es)
  <2>3. \A k \in 1..n : ls[k] \in Seq(Y)
      BY ONLY ls \in Seq(Seq(Y)), n = Len(ls)
  <2>4. \A k \in 1..n : ps[k] \in Int
      BY ONLY ps \in Seq(Int), n = Len(ps)
  <2> QED BY ONLY <2>1, <2>2, <2>3, <2>4
<1>0. Weighing(W, X, Y)
    OBVIOUS
<1>5. Fit(a[0], b[0], p[0])
  <2>1. <<>> \in Seq(X) /\ <<>> \in Seq(Y) /\ Len(<<>>) = 0
      BY EmptySeq
  <2> QED BY <1>1, <1>2, <1>3, <2>1, NoWeights, ProductOfNone DEF Weighable
<1>6. ASSUME NEW k \in 1..n, Fit(a[k - 1], b[k - 1], p[k - 1]) PROVE Fit(a[k], b[k], p[k])
  <2> DEFINE s == a[k - 1]
             t == b[k - 1]
             e == es[k]
             l == ls[k]
             u == Product(Weights(W, s, t))
             v == Product(Weights(W, e, l))
  <2>1. /\ s \in Seq(X) /\ t \in Seq(Y) /\ Len(t) = Len(s) /\ p[k - 1] = u
        /\ e \in Seq(X) /\ l \in Seq(Y) /\ Len(l) = Len(e) /\ ps[k] = v
      BY <1>4, <1>6 DEF Weighed, Weighable
  <2>2. a[k] = s \o e /\ b[k] = t \o l
      BY <1>1, <1>2, <2>1 DEF Joining
  <2>3. p[k] = Times[u][v]
      BY <1>3, <2>1
  <2> HIDE DEF s, t, e, l
  <2>4. Weights(W, s, t) \in Seq(Int) /\ Weights(W, e, l) \in Seq(Int)
      BY ONLY <1>0, <2>1, WeightsTyped
  <2>5. /\ u \in Int /\ v \in Int
        /\ Product(Weights(W, s, t) \o Weights(W, e, l)) = u * v
      BY <2>4, ProductConcat
  <2>6. Weights(W, s \o e, t \o l) = Weights(W, s, t) \o Weights(W, e, l)
      BY ONLY <1>0, <2>1, WeightsConcat
  <2>7. s \o e \in Seq(X) /\ t \o l \in Seq(Y) /\ Len(t \o l) = Len(s \o e)
      BY <2>1
  <2> HIDE DEF u, v
  <2>8. Times[u][v] = u * v
      BY <2>5 DEF Times
  <2> QED BY ONLY <2>2, <2>3, <2>5, <2>6, <2>7, <2>8 DEF Weighable
<1> HIDE DEF Fit
<1> DEFINE B == {k \in 0..n : ~Fit(a[k], b[k], p[k])}
<1>7. ASSUME B # {} PROVE FALSE
  <2>1. B \in SUBSET Nat
    <3>1. 0..n \subseteq Nat
        BY <1>4
    <3> QED BY ONLY <3>1
  <2>2. PICK k \in B : \A l \in B : k <= l
    <3> HIDE DEF B
    <3> QED BY <1>7, <2>1, LeastNatural
  <2>3. k \in 0..n /\ ~Fit(a[k], b[k], p[k]) /\ k # 0
      BY <1>5, <2>2
  <2>4. k \in 1..n /\ k - 1 \in 0..n /\ ~(k <= k - 1)
      BY <1>4, <2>3
  <2>5. k - 1 \notin B
    <3> HIDE DEF B
    <3> QED BY ONLY <2>2, <2>4
  <2>6. Fit(a[k - 1], b[k - 1], p[k - 1])
      BY <2>4, <2>5
  <2> QED BY <1>6, <2>3, <2>4, <2>6
<1>8. n \in 0..n
    BY <1>4
<1>9. Fit(a[n], b[n], p[n])
    BY <1>7, <1>8
<1> QED BY <1>1, <1>2, <1>3, <1>9 DEF Fit

LEMMA FlattenedElements ==
    ASSUME NEW X, NEW es \in Seq(Seq(X)), NEW n, n = Len(es), NEW f, f = FlattenSeq(es)
    PROVE  f \in Seq(X) /\ ToSet(f) = UNION {ToSet(es[c]) : c \in 1..n}
<1> DEFINE V == Seq(X)
<1>1. PICK m \in [0..n -> V] :
          /\ m[0] = <<>> /\ f = m[n] /\ \A k \in 1..n : m[k] = Joining(X)[m[k - 1]][es[k]]
  <2>1. FoldsTo(f, Seq(X), Joining(X), <<>>, es)
      BY FlattenFolds
  <2> QED BY ONLY <2>1, n = Len(es) DEF FoldsTo
<1>2. n \in Nat /\ \A k \in 1..n : es[k] \in V
    OBVIOUS
<1>3. \A v \in V : \A e \in V : Joining(X)[v][e] = v \o e
    BY DEF Joining
<1> DEFINE elements(k) == UNION {ToSet(es[c]) : c \in 1..k}
           B == {k \in 0..n : ToSet(m[k]) # elements(k)}
<1> HIDE DEF V
<1>4. ASSUME B # {} PROVE FALSE
  <2>1. B \in SUBSET Nat
    <3>1. 0..n \subseteq Nat
        BY <1>2
    <3> QED BY ONLY <3>1
  <2>2. PICK k \in B : \A l \in B : k <= l
    <3> HIDE DEF B
    <3> QED BY <1>4, <2>1, LeastNatural
  <2>3. k \in 0..n /\ ToSet(m[k]) # elements(k)
      BY <2>2
  <2>4. CASE k = 0
    <3>1. 1..k = {} /\ 1..Len(<<>>) = {} /\ DOMAIN <<>> = {}
        BY <2>4
    <3>2. ToSet(<<>>) = {}
        BY <3>1 DEF ToSet
    <3>3. elements(k) = {}
        BY ONLY <3>1
    <3> HIDE DEF elements
    <3> QED BY ONLY <1>1, <2>3, <2>4, <3>2, <3>3
  <2>5. CASE k # 0
    <3>1. k \in 1..n /\ k - 1 \in 0..n /\ ~(k <= k - 1)
        BY <1>2, <2>3, <2>5
    <3>2. k - 1 \notin B
      <4> HIDE DEF B
      <4> QED BY ONLY <2>2, <3>1
    <3>3. ToSet(m[k - 1]) = elements(k - 1)
        BY <3>1, <3>2
    <3>4. m[k - 1] \in V /\ es[k] \in V /\ m[k] = m[k - 1] \o es[k]
        BY <1>1, <1>2, <1>3, <3>1
    <3>5. ToSet(m[k]) = ToSet(m[k - 1]) \cup ToSet(es[k])
        BY <3>4, JoinedElements DEF V
    <3>6. 1..k = (1..(k - 1)) \cup {k}
        BY <1>2, <3>1
    <3>7. elements(k) = elements(k - 1) \cup ToSet(es[k])
        BY ONLY <3>6
    <3> HIDE DEF elements
    <3> QED BY ONLY <2>3, <3>3, <3>5, <3>7
  <2> QED BY <2>4, <2>5
<1>5. n \in 0..n
    BY <1>2
<1>6. ToSet(m[n]) = elements(n)
    BY <1>4, <1>5
<1>7. f \in V
    BY <1>1, <1>5
<1> QED BY <1>1, <1>6, <1>7 DEF V

-----------------------------------------------------------------------------
(* What a reading is worth.                                                *)

ReadingRecords ==
    [text : Int, confidence : Nat, calibrated : Nat, format_valid : BOOLEAN]
EvidenceRecords ==
    [source : DOMAIN source_weights, quality : Nat, candidates : Seq(ReadingRecords)]
LayoutRecords == [reliable : BOOLEAN, confidence : Nat]
CropRecords == [layout : LayoutRecords, evidence : Seq(EvidenceRecords)]

LEMMA LayoutIs ==
    ASSUME NEW layouts \in Seq(LayoutRecords), NEW i \in 1..Len(layouts)
    PROVE  /\ LayoutQuality(layouts, i) \in Nat
           /\ LayoutQuality(<<layouts[i]>>, 1) = LayoutQuality(layouts, i)
<1>1. layouts[i] \in LayoutRecords /\ DOMAIN layouts = 1..Len(layouts)
    OBVIOUS
<1> DEFINE l == layouts[i]
           one == <<l>>
<1>2. 1 \in DOMAIN one /\ one[1] = l
    OBVIOUS
<1>3. LayoutQuality(layouts, i) = IF l.reliable THEN l.confidence ELSE 0
    BY <1>1 DEF LayoutQuality
<1>4. LayoutQuality(one, 1) = IF l.reliable THEN l.confidence ELSE 0
    BY <1>2 DEF LayoutQuality
<1>5. l.confidence \in Nat
    BY <1>1 DEF LayoutRecords
<1> HIDE DEF l, one
<1>6. (IF l.reliable THEN l.confidence ELSE 0) \in Nat
    BY <1>5
<1>7. LayoutQuality(layouts, i) \in Nat /\ LayoutQuality(one, 1) = LayoutQuality(layouts, i)
    BY ONLY <1>3, <1>4, <1>6
<1> QED BY <1>7 DEF l, one

LEMMA MarginTyped ==
    ASSUME NEW e \in EvidenceRecords, NEW k \in DOMAIN e.candidates
    PROVE  /\ EffectiveConfidence(e.candidates[k]) \in Nat /\ CandidateMargin(e, k) \in Int
<1> DEFINE s == e.candidates
           rivals == {c \in ToSet(s) : c.text # s[k].text}
           f == [c \in rivals |-> EffectiveConfidence(c)]
           R == {0} \cup {EffectiveConfidence(c) : c \in rivals}
           a == EffectiveConfidence(s[k])
           b == Max(R)
<1>1. s \in Seq(ReadingRecords)
    BY DEF EvidenceRecords
<1>2. \A c \in ReadingRecords : EffectiveConfidence(c) \in Nat
    BY DEF EffectiveConfidence, ReadingRecords
<1>3. DOMAIN s = 1..Len(s) /\ \A i \in 1..Len(s) : s[i] \in ReadingRecords
    BY <1>1
<1>4. ToSet(s) = {s[i] : i \in 1..Len(s)} /\ IsFiniteSet(ToSet(s)) /\ ToSet(s) \subseteq ReadingRecords
  <2>1. ToSet(s) = {s[i] : i \in 1..Len(s)}
      BY <1>3 DEF ToSet
  <2>2. IsFiniteSet(1..Len(s))
    <3>1. 1 \in Int /\ Len(s) \in Int
        BY <1>1
    <3> QED BY <3>1, FS_Interval
  <2>3. IsFiniteSet({s[i] : i \in 1..Len(s)})
    <3> HIDE DEF s
    <3> QED BY <2>2, ImageFinite
  <2> QED BY <1>3, <2>1, <2>3
<1> HIDE DEF s
<1>5. IsFiniteSet(rivals) /\ rivals \subseteq ReadingRecords
    BY <1>4, FS_Subset
<1>6. IsFiniteSet(R) /\ R \subseteq Int /\ R # {}
  <2> HIDE DEF rivals
  <2>1. IsFiniteSet({f[c] : c \in rivals})
    <3> HIDE DEF f
    <3> QED BY <1>5, ImageFinite
  <2>2. {f[c] : c \in rivals} = {EffectiveConfidence(c) : c \in rivals}
      BY Zenon
  <2>3. IsFiniteSet(R)
    <3> DEFINE T == {EffectiveConfidence(c) : c \in rivals}
    <3>1. IsFiniteSet(T)
        BY <2>1, <2>2
    <3> HIDE DEF T
    <3>2. IsFiniteSet(T \cup {0})
        BY <3>1, FS_AddElement
    <3>3. T \cup {0} = R
        BY DEF T
    <3> QED BY <3>2, <3>3
  <2>4. R \subseteq Int
      BY <1>2, <1>5
  <2> QED BY <2>3, <2>4
<1>7. b \in Int
  <2> HIDE DEF R
  <2>1. Max(R) \in R
      BY <1>6, MaxIs
  <2> QED BY <1>6, <2>1
<1>8. a \in Nat
    BY <1>2, <1>3 DEF s
<1>9. CandidateMargin(e, k) = Max({0, a - b})
    BY DEF CandidateMargin, s
<1> HIDE DEF a, b
<1>10. Max({0, a - b}) \in Int
  <2>1. 0 \in Int /\ a - b \in Int
      BY <1>7, <1>8
  <2>2. Max({0, a - b}) = IF 0 <= a - b THEN a - b ELSE 0
      BY <2>1, MaxOfTwo
  <2> QED BY <2>1, <2>2
<1> QED BY <1>8, <1>9, <1>10 DEF a, s

LEMMA ScoreIs ==
    ASSUME NEW e \in EvidenceRecords, NEW layouts \in Seq(LayoutRecords),
           NEW i \in 1..Len(layouts), NEW k \in DOMAIN e.candidates
    PROVE  /\ CandidateScore(e, layouts, i, k) \in Int
           /\ CandidateScore(e, <<layouts[i]>>, 1, k) = CandidateScore(e, layouts, i, k)
<1> DEFINE a == EffectiveConfidence(e.candidates[k])
           b == CandidateMargin(e, k)
           l == LayoutQuality(layouts, i)
           w == source_weights[e.source]
           q == e.quality
<1>1. a \in Int /\ b \in Int
    BY MarginTyped
<1>2. l \in Int /\ LayoutQuality(<<layouts[i]>>, 1) = l
    BY LayoutIs
<1>3. /\ recognition_weight \in Int /\ crop_quality_weight \in Int
      /\ candidate_margin_weight \in Int /\ layout_weight \in Int
    BY CandidateFusionAssumption
<1>4. w \in Int
    BY CandidateFusionAssumption DEF EvidenceRecords
<1>5. q \in Int
    BY DEF EvidenceRecords
<1>6. CandidateScore(e, layouts, i, k) =
          w * (a * recognition_weight + q * crop_quality_weight + b * candidate_margin_weight
               + l * layout_weight)
    BY Zenon DEF CandidateScore
<1>7. CandidateScore(e, <<layouts[i]>>, 1, k) =
          w * (a * recognition_weight + q * crop_quality_weight + b * candidate_margin_weight
               + l * layout_weight)
    BY <1>2, Zenon DEF CandidateScore
<1> HIDE DEF a, b, l, w, q
<1>8. w * (a * recognition_weight + q * crop_quality_weight + b * candidate_margin_weight
           + l * layout_weight) \in Int
  <2>1. \A x, y \in Int : x * y \in Int /\ x + y \in Int
      OBVIOUS
  <2>2. /\ a * recognition_weight \in Int /\ q * crop_quality_weight \in Int
        /\ b * candidate_margin_weight \in Int /\ l * layout_weight \in Int
      BY ONLY <1>1, <1>2, <1>3, <1>5, <2>1
  <2>3. a * recognition_weight + q * crop_quality_weight + b * candidate_margin_weight
        + l * layout_weight \in Int
      BY ONLY <2>2
  <2> QED BY ONLY <1>4, <2>1, <2>3
<1> QED BY <1>6, <1>7, <1>8, Zenon

\* The best reading of a text in an evidence, with a layout.
BestWith(layout, e, text) ==
    Max({0} \cup {CandidateScore(e, <<layout>>, 1, k) :
                      k \in {j \in Counted(e) : e.candidates[j].text = text}})

LEMMA CountedFinite ==
    ASSUME NEW e \in EvidenceRecords
    PROVE  IsFiniteSet(Counted(e)) /\ Counted(e) \subseteq DOMAIN e.candidates
<1> DEFINE s == e.candidates
<1>1. s \in Seq(ReadingRecords)
    BY DEF EvidenceRecords
<1>2. Counted(e) \subseteq DOMAIN s
    BY DEF Counted
<1> HIDE DEF s
<1>3. DOMAIN s = 1..Len(s) /\ 1 \in Int /\ Len(s) \in Int
    BY <1>1
<1>4. IsFiniteSet(DOMAIN s)
    BY <1>3, FS_Interval
<1>5. IsFiniteSet(Counted(e))
    BY <1>2, <1>4, FS_Subset
<1> QED BY <1>2, <1>5 DEF s

LEMMA BestTyped ==
    ASSUME NEW e \in EvidenceRecords, NEW layout \in LayoutRecords, NEW text
    PROVE  BestWith(layout, e, text) \in Int
<1> DEFINE K == {j \in Counted(e) : e.candidates[j].text = text}
           f == [k \in K |-> CandidateScore(e, <<layout>>, 1, k)]
           T == {f[k] : k \in K}
<1>1. IsFiniteSet(K) /\ K \subseteq DOMAIN e.candidates
  <2>1. K \subseteq Counted(e)
      OBVIOUS
  <2> HIDE DEF K
  <2> QED BY <2>1, CountedFinite, FS_Subset
<1> HIDE DEF K
<1>2. \A k \in K : f[k] \in Int
  <2> SUFFICES ASSUME NEW k \in K PROVE f[k] \in Int
      OBVIOUS
  <2>1. k \in DOMAIN e.candidates
      BY <1>1
  <2> DEFINE one == <<layout>>
  <2>2. one \in Seq(LayoutRecords) /\ 1 \in 1..Len(one)
      OBVIOUS
  <2> HIDE DEF one
  <2>3. CandidateScore(e, one, 1, k) \in Int
      BY <2>1, <2>2, ScoreIs
  <2> QED BY <2>3 DEF one
<1>3. BestWith(layout, e, text) = Max({0} \cup T)
    BY Zenon DEF BestWith, K
<1> HIDE DEF f
<1>4. IsFiniteSet(T) /\ T \subseteq Int
    BY <1>1, <1>2, ImageFinite
<1> HIDE DEF T
<1>5. IsFiniteSet({0} \cup T) /\ {0} \cup T \subseteq Int /\ {0} \cup T # {}
  <2>1. IsFiniteSet(T \cup {0}) /\ T \cup {0} = {0} \cup T
      BY <1>4, FS_AddElement
  <2> QED BY <1>4, <2>1
<1> DEFINE R == {0} \cup T
<1> HIDE DEF R
<1>6. Max(R) \in R
    BY <1>5, MaxIs DEF R
<1> QED BY <1>3, <1>5, <1>6 DEF R

LEMMA SupportIs ==
    ASSUME NEW given, given.evidence \in Seq(EvidenceRecords), given.layouts \in Seq(LayoutRecords),
           Len(given.layouts) = Len(given.evidence), NEW i \in 1..Len(given.evidence), NEW text
    PROVE  Support(given, i, text) = BestWith(given.layouts[i], given.evidence[i], text)
<1> DEFINE e == given.evidence[i]
           layouts == given.layouts
           K == {j \in Counted(e) : e.candidates[j].text = text}
           S == {CandidateScore(e, layouts, i, k) : k \in K}
           T == {CandidateScore(e, <<layouts[i]>>, 1, k) : k \in K}
<1>1. e \in EvidenceRecords /\ layouts \in Seq(LayoutRecords) /\ i \in 1..Len(layouts)
    OBVIOUS
<1>2. Support(given, i, text) = Max({0} \cup S)
    BY Zenon DEF Support
<1>3. BestWith(layouts[i], e, text) = Max({0} \cup T)
    BY Zenon DEF BestWith
<1>4. \A k \in K : CandidateScore(e, <<layouts[i]>>, 1, k) = CandidateScore(e, layouts, i, k)
  <2> HIDE DEF e, layouts
  <2> SUFFICES ASSUME NEW k \in K
               PROVE  CandidateScore(e, <<layouts[i]>>, 1, k) = CandidateScore(e, layouts, i, k)
      OBVIOUS
  <2>1. k \in DOMAIN e.candidates
      BY <1>1, CountedFinite
  <2> QED BY <1>1, <2>1, ScoreIs
<1>5. S = T
  <2> HIDE DEF e, layouts, K
  <2> QED BY <1>4, Zenon
<1> QED BY <1>2, <1>3, <1>5

\* What a text leaves open in an evidence read with a layout.
OpenWith(text) == [e \in EvidenceRecords |-> [l \in LayoutRecords |-> One - BestWith(l, e, text)]]

LEMMA OpenWeighs == \A text : Weighing(OpenWith(text), EvidenceRecords, LayoutRecords)
<1> SUFFICES ASSUME NEW text, NEW e \in EvidenceRecords, NEW l \in LayoutRecords
             PROVE  OpenWith(text)[e][l] \in Int
    BY DEF Weighing
<1>1. One \in Int
  <2>1. \A x, y \in Int : x * y \in Int
      OBVIOUS
  <2>2. Unit \in Int /\ TotalWeight \in Int
      BY CandidateFusionAssumption DEF TotalWeight
  <2> QED BY <2>1, <2>2 DEF One
<1>2. BestWith(l, e, text) \in Int
    BY BestTyped
<1>3. OpenWith(text)[e][l] = One - BestWith(l, e, text)
    BY DEF OpenWith
<1> QED BY <1>1, <1>2, <1>3

\* The recursive function of Doubt is a product.
LEMMA DoubtIs ==
    ASSUME NEW given, given.evidence \in Seq(EvidenceRecords), given.layouts \in Seq(LayoutRecords),
           Len(given.layouts) = Len(given.evidence), NEW text,
           NEW w, w = Weights(OpenWith(text), given.evidence, given.layouts)
    PROVE  Doubt(given, text) = Product(w) /\ Product(w) \in Int
<1> DEFINE n == Len(given.evidence)
           Eq(f) == f = [i \in 0..n |-> IF i = 0 THEN 1
                                        ELSE f[i - 1] * (One - Support(given, i, text))]
           h == CHOOSE f : Eq(f)
<1>1. n \in Nat
    OBVIOUS
<1>2. w \in Seq(Int) /\ Len(w) = n
    BY OpenWeighs, WeightsTyped
<1>3. \A i \in 1..n : w[i] = One - Support(given, i, text)
  <2> SUFFICES ASSUME NEW i \in 1..n PROVE w[i] = One - Support(given, i, text)
      OBVIOUS
  <2>1. given.evidence[i] \in EvidenceRecords /\ given.layouts[i] \in LayoutRecords
      OBVIOUS
  <2>2. w[i] = OpenWith(text)[given.evidence[i]][given.layouts[i]]
      BY DEF Weights
  <2>3. w[i] = One - BestWith(given.layouts[i], given.evidence[i], text)
      BY <2>1, <2>2 DEF OpenWith
  <2>4. Support(given, i, text) = BestWith(given.layouts[i], given.evidence[i], text)
      BY SupportIs
  <2> QED BY <2>3, <2>4
<1>4. Doubt(given, text) = h[n]
    BY Zenon DEF Doubt
<1> HIDE DEF n
<1>5. PICK m \in [0..n -> Int] :
          m[0] = 1 /\ Product(w) = m[n] /\ \A k \in 1..n : m[k] = Times[m[k - 1]][w[k]]
  <2>1. FoldsTo(Product(w), Int, Times, 1, w)
      BY <1>2, ProductIs
  <2>2. Len(w) = n
      BY <1>2
  <2> QED BY ONLY <2>1, <2>2 DEF FoldsTo
<1>6. \A k \in 1..n : m[k] = m[k - 1] * (One - Support(given, k, text))
  <2> SUFFICES ASSUME NEW k \in 1..n PROVE m[k] = m[k - 1] * (One - Support(given, k, text))
      OBVIOUS
  <2>1. k - 1 \in 0..n /\ w[k] \in Int
      BY <1>1, <1>2
  <2>2. m[k - 1] \in Int /\ m[k] = Times[m[k - 1]][w[k]]
      BY <1>5, <2>1
  <2>3. m[k] = m[k - 1] * w[k]
      BY <2>1, <2>2 DEF Times
  <2>4. w[k] = One - Support(given, k, text)
      BY <1>3
  <2> QED BY ONLY <2>3, <2>4, Zenon
<1>7. Eq(m)
  <2>1. \A i \in 0..n : i # 0 => i \in 1..n
      BY <1>1
  <2>2. \A i \in 0..n : m[i] = IF i = 0 THEN 1 ELSE m[i - 1] * (One - Support(given, i, text))
      BY <1>5, <1>6, <2>1, Zenon
  <2>3. m = [i \in 0..n |-> m[i]]
      OBVIOUS
  <2> QED BY <2>2, <2>3, Zenon
<1>8. Eq(h)
    BY <1>7, Zenon
<1>9. h[0] = 1 /\ \A k \in 1..n : h[k] = h[k - 1] * (One - Support(given, k, text))
  <2> HIDE DEF Eq, h
  <2>1. \A i \in 0..n : h[i] = IF i = 0 THEN 1 ELSE h[i - 1] * (One - Support(given, i, text))
      BY <1>8, Zenon DEF Eq
  <2>2. 0 \in 0..n /\ \A k \in 1..n : k \in 0..n /\ k # 0
      BY <1>1
  <2> QED BY <2>1, <2>2, Zenon
<1> HIDE DEF Eq, h
<1> DEFINE B == {k \in 0..n : h[k] # m[k]}
<1>10. ASSUME B # {} PROVE FALSE
  <2>1. B \in SUBSET Nat
    <3>1. 0..n \subseteq Nat
        BY <1>1
    <3> QED BY ONLY <3>1
  <2>2. PICK k \in B : \A l \in B : k <= l
    <3> HIDE DEF B
    <3> QED BY <1>10, <2>1, LeastNatural
  <2>3. k \in 0..n /\ h[k] # m[k]
      BY <2>2
  <2>4. k # 0
      BY <1>5, <1>9, <2>3
  <2>5. k \in 1..n /\ k - 1 \in 0..n /\ ~(k <= k - 1)
      BY <1>1, <2>3, <2>4
  <2>6. h[k - 1] = m[k - 1]
      BY <2>2, <2>5
  <2> QED BY <1>6, <1>9, <2>3, <2>5, <2>6, Zenon
<1>11. h[n] = m[n] /\ m[n] \in Int
  <2>1. n \in 0..n
      BY <1>1
  <2>2. n \notin B
    <3> HIDE DEF B
    <3> QED BY <1>10
  <2> QED BY <1>5, <2>1, <2>2
<1> QED BY <1>4, <1>5, <1>11

\* What a crop leaves open, with its layout beside each of its evidence.
LEMMA DoubtInIs ==
    ASSUME NEW crop \in CropRecords, NEW text,
           NEW l, l = [e \in DOMAIN crop.evidence |-> crop.layout]
    PROVE  /\ l \in Seq(LayoutRecords) /\ Len(l) = Len(crop.evidence)
           /\ DoubtIn(crop, text) = Product(Weights(OpenWith(text), crop.evidence, l))
           /\ DoubtIn(crop, text) \in Int
<1> DEFINE s == crop.evidence
           n == Len(s)
           w == Weights(OpenWith(text), s, l)
           v == [i \in DOMAIN s |-> One - BestReading(crop, s[i], text)]
<1>1. s \in Seq(EvidenceRecords) /\ crop.layout \in LayoutRecords
    BY DEF CropRecords
<1>2. n \in Nat /\ DOMAIN s = 1..n /\ \A i \in 1..n : s[i] \in EvidenceRecords
    BY <1>1
<1>3. l \in [1..n -> LayoutRecords]
    BY <1>1, <1>2
<1>4. l \in Seq(LayoutRecords) /\ Len(l) = n
    BY <1>2, <1>3, SequenceOf
<1>5. w \in Seq(Int) /\ Len(w) = n
    BY <1>1, <1>4, OpenWeighs, WeightsTyped
<1>6. \A i \in 1..n : w[i] = One - BestReading(crop, s[i], text)
  <2> SUFFICES ASSUME NEW i \in 1..n PROVE w[i] = One - BestReading(crop, s[i], text)
      OBVIOUS
  <2>1. l[i] = crop.layout /\ s[i] \in EvidenceRecords
      BY <1>2
  <2>2. w[i] = OpenWith(text)[s[i]][l[i]]
      BY DEF Weights
  <2>3. w[i] = One - BestWith(crop.layout, s[i], text)
      BY <1>1, <2>1, <2>2 DEF OpenWith
  <2>4. BestReading(crop, s[i], text) = BestWith(crop.layout, s[i], text)
      BY Zenon DEF BestReading, BestWith
  <2> QED BY <2>3, <2>4
<1>7. w = v
  <2> HIDE DEF n, w
  <2>1. w = [i \in 1..n |-> w[i]]
      BY <1>5
  <2> HIDE DEF s
  <2>2. v = [i \in 1..n |-> One - BestReading(crop, s[i], text)]
      BY <1>2, Zenon
  <2> HIDE DEF v
  <2> QED BY ONLY <1>6, <2>1, <2>2, Zenon
<1>8. DoubtIn(crop, text) = Product(v)
    BY Zenon DEF DoubtIn
<1>9. Product(w) \in Int
  <2> HIDE DEF w
  <2> QED BY <1>5, ProductIs, FoldsToTyped
<1> HIDE DEF v, w
<1>10. DoubtIn(crop, text) = Product(w) /\ DoubtIn(crop, text) \in Int
    BY <1>7, <1>8, <1>9
<1> QED BY <1>4, <1>10 DEF w

\* Evidence and layouts, collected crop by crop, lie beside each other.
LEMMA CollectIs ==
    ASSUME NEW crops \in Seq(CropRecords), NEW given, given = Collect(crops)
    PROVE  /\ given.evidence \in Seq(EvidenceRecords) /\ given.layouts \in Seq(LayoutRecords)
           /\ ToSet(given.evidence) = UNION {ToSet(crops[c].evidence) : c \in DOMAIN crops}
           /\ \A text : Doubt(given, text) = DoubtLeft(crops, text) /\ Doubt(given, text) \in Int
<1> DEFINE n == Len(crops)
           es == [c \in 1..n |-> crops[c].evidence]
           l(c) == [e \in DOMAIN crops[c].evidence |-> crops[c].layout]
           ls == [c \in 1..n |-> l(c)]
           f == FlattenSeq(es)
           g == FlattenSeq(ls)
<1>1. n \in Nat /\ DOMAIN crops = 1..n /\ \A c \in 1..n : crops[c] \in CropRecords
    OBVIOUS
<1>2. given.evidence = f /\ given.layouts = g
    BY <1>1, Zenon DEF Collect
<1> HIDE DEF n
<1>3. \A c \in 1..n : crops[c].evidence \in Seq(EvidenceRecords)
    BY <1>1 DEF CropRecords
<1>4. \A c \in 1..n : l(c) \in Seq(LayoutRecords) /\ Len(l(c)) = Len(crops[c].evidence)
    BY <1>1, DoubtInIs
<1>5. es \in Seq(Seq(EvidenceRecords)) /\ n = Len(es) /\ \A c \in 1..n : es[c] = crops[c].evidence
  <2>1. es \in [1..n -> Seq(EvidenceRecords)]
      BY <1>3
  <2>2. \A c \in 1..n : es[c] = crops[c].evidence
      OBVIOUS
  <2> HIDE DEF es
  <2> QED BY <1>1, <2>1, <2>2, SequenceOf
<1> HIDE DEF l
<1>6. ls \in Seq(Seq(LayoutRecords)) /\ n = Len(ls) /\ \A c \in 1..n : ls[c] = l(c)
  <2>1. ls \in [1..n -> Seq(LayoutRecords)]
      BY <1>4
  <2>2. \A c \in 1..n : ls[c] = l(c)
      OBVIOUS
  <2> HIDE DEF ls
  <2> QED BY <1>1, <2>1, <2>2, SequenceOf
<1> HIDE DEF es, ls
<1>7. f \in Seq(EvidenceRecords) /\ ToSet(f) = UNION {ToSet(es[c]) : c \in 1..n}
    BY <1>5, FlattenedElements
<1>8. UNION {ToSet(es[c]) : c \in 1..n} = UNION {ToSet(crops[c].evidence) : c \in DOMAIN crops}
    BY <1>1, <1>5, Zenon
<1>9. ASSUME NEW text
      PROVE  /\ g \in Seq(LayoutRecords) /\ Len(g) = Len(f)
             /\ Product(Weights(OpenWith(text), f, g)) = DoubtLeft(crops, text)
  <2> DEFINE W == OpenWith(text)
             ps == [c \in 1..n |-> DoubtIn(crops[c], text)]
  <2>1. \A c \in 1..n : /\ DoubtIn(crops[c], text) = Product(Weights(W, crops[c].evidence, l(c)))
                        /\ DoubtIn(crops[c], text) \in Int
      BY <1>1, DoubtInIs DEF l
  <2>2. ps \in Seq(Int) /\ n = Len(ps) /\ \A c \in 1..n : ps[c] = DoubtIn(crops[c], text)
    <3>1. ps \in [1..n -> Int]
        BY <2>1
    <3>2. \A c \in 1..n : ps[c] = DoubtIn(crops[c], text)
        OBVIOUS
    <3> HIDE DEF ps
    <3> QED BY <1>1, <3>1, <3>2, SequenceOf
  <2>3. DoubtLeft(crops, text) = Product(ps)
      BY <1>1, Zenon DEF DoubtLeft
  <2>4. Weighing(W, EvidenceRecords, LayoutRecords)
      BY OpenWeighs
  <2> HIDE DEF W, ps
  <2>5. Weighed(W, es, ls, ps)
    <3> SUFFICES ASSUME NEW c \in 1..n
                 PROVE  Len(ls[c]) = Len(es[c]) /\ ps[c] = Product(Weights(W, es[c], ls[c]))
        BY <1>5 DEF Weighed
    <3>1. ls[c] = l(c) /\ es[c] = crops[c].evidence
        BY <1>5, <1>6
    <3>2. Len(ls[c]) = Len(es[c])
        BY <1>4, <3>1
    <3>3. ps[c] = Product(Weights(W, es[c], ls[c]))
        BY <2>1, <2>2, <3>1
    <3> QED BY <3>2, <3>3
  <2> HIDE DEF f, g
  <2>6. f = FlattenSeq(es) /\ g = FlattenSeq(ls)
      BY DEF f, g
  <2>7. /\ g \in Seq(LayoutRecords) /\ Len(g) = Len(f)
        /\ Product(Weights(W, f, g)) = Product(ps)
    <3>1. es \in Seq(Seq(EvidenceRecords)) /\ ls \in Seq(Seq(LayoutRecords)) /\ ps \in Seq(Int)
        BY <1>5, <1>6, <2>2
    <3>2. n = Len(es) /\ n = Len(ls) /\ n = Len(ps)
        BY <1>5, <1>6, <2>2
    <3>3. Weighable(W, EvidenceRecords, LayoutRecords, f, g, Product(ps))
        BY ONLY <3>1, <3>2, <2>4, <2>5, <2>6, FlattenedProduct
    <3> QED BY ONLY <3>3 DEF Weighable
  <2> QED BY <2>3, <2>7 DEF W
<1> HIDE DEF f, g
<1>10. g \in Seq(LayoutRecords) /\ Len(g) = Len(f)
    BY <1>9
<1>11. ASSUME NEW text
       PROVE  Doubt(given, text) = DoubtLeft(crops, text) /\ Doubt(given, text) \in Int
  <2> DEFINE w == Weights(OpenWith(text), given.evidence, given.layouts)
  <2>1. Doubt(given, text) = Product(w) /\ Product(w) \in Int
      BY <1>2, <1>7, <1>10, DoubtIs
  <2>2. Product(w) = DoubtLeft(crops, text)
      BY <1>2, <1>9
  <2> HIDE DEF w
  <2> QED BY <2>1, <2>2
<1> QED BY <1>2, <1>7, <1>8, <1>10, <1>11

-----------------------------------------------------------------------------
(* The ranking of the texts.                                               *)

FusedTexts(given) ==
    {c.text : c \in UNION {{given.evidence[i].candidates[k] : k \in Counted(given.evidence[i])} :
                              i \in DOMAIN given.evidence}}
TextsOf(e) == {e.candidates[k].text : k \in Counted(e)}
Ahead(given, T, t) == {s \in T : MoreSupported(given, s, t)}
Ranking(given, T) ==
    [r \in 1..Cardinality(T) |-> CHOOSE t \in T : Cardinality(Ahead(given, T, t)) + 1 = r]
AheadIn(given, T) == [t \in T |-> Ahead(given, T, t)]

\* The texts that Fuse collects are those that were read, and they are finitely many.
LEMMA FusedTextsAre ==
    ASSUME NEW crops, NEW given, given.evidence \in Seq(EvidenceRecords),
           ToSet(given.evidence) = UNION {ToSet(crops[c].evidence) : c \in DOMAIN crops}
    PROVE  /\ FusedTexts(given) = TextsRead(crops)
           /\ IsFiniteSet(TextsRead(crops)) /\ TextsRead(crops) \subseteq Int
<1> DEFINE s == given.evidence
           n == Len(s)
           E == ToSet(s)
           U == UNION {TextsOf(e) : e \in E}
<1>1. n \in Nat /\ DOMAIN s = 1..n /\ \A i \in 1..n : s[i] \in EvidenceRecords
    OBVIOUS
<1>2. E = {s[i] : i \in 1..n} /\ E \subseteq EvidenceRecords
    BY <1>1 DEF ToSet
<1>3. TextsRead(crops) = U
    BY Zenon DEF TextsRead, TextsOf
<1>4. \A t : t \in FusedTexts(given) <=> \E i \in 1..n : t \in TextsOf(s[i])
    BY <1>1 DEF FusedTexts, TextsOf
<1> HIDE DEF s, n
<1>5. \A t : t \in U <=> \E i \in 1..n : t \in TextsOf(s[i])
    BY <1>2
<1>6. FusedTexts(given) = U
    BY <1>4, <1>5
<1>7. ASSUME NEW e \in EvidenceRecords PROVE IsFiniteSet(TextsOf(e)) /\ TextsOf(e) \subseteq Int
  <2> DEFINE K == Counted(e)
             f == [k \in K |-> e.candidates[k].text]
  <2>1. IsFiniteSet(K) /\ K \subseteq DOMAIN e.candidates
      BY CountedFinite
  <2>2. TextsOf(e) = {f[k] : k \in K}
      BY Zenon DEF TextsOf
  <2>3. \A k \in K : e.candidates[k].text \in Int
    <3>1. e.candidates \in Seq(ReadingRecords)
        BY DEF EvidenceRecords
    <3> HIDE DEF K
    <3>2. \A k \in K : e.candidates[k] \in ReadingRecords
        BY <2>1, <3>1
    <3> QED BY <3>2 DEF ReadingRecords
  <2>4. \A k \in K : f[k] \in Int
      BY <2>3
  <2> HIDE DEF K, f
  <2>5. IsFiniteSet({f[k] : k \in K})
      BY <2>1, ImageFinite
  <2> QED BY <2>2, <2>4, <2>5
<1> DEFINE g == [i \in 1..n |-> TextsOf(s[i])]
           G == {g[i] : i \in 1..n}
<1>8. IsFiniteSet(G) /\ UNION G = U /\ \A T \in G : IsFiniteSet(T)
  <2>1. IsFiniteSet(1..n)
    <3>1. 1 \in Int /\ n \in Int
        BY <1>1
    <3> QED BY <3>1, FS_Interval
  <2>2. \A i \in 1..n : g[i] = TextsOf(s[i])
      OBVIOUS
  <2> HIDE DEF g
  <2>3. IsFiniteSet(G)
      BY <2>1, ImageFinite
  <2>4. \A T \in G : IsFiniteSet(T)
      BY <1>1, <1>7, <2>2
  <2>5. UNION G = U
    <3>1. G = {TextsOf(e) : e \in E}
        BY <1>2, <2>2
    <3> QED BY <3>1
  <2> QED BY <2>3, <2>4, <2>5
<1> HIDE DEF G
<1>9. IsFiniteSet(U)
    BY <1>8, FS_UNION
<1>10. U \subseteq Int
    BY <1>2, <1>7
<1> QED BY <1>3, <1>6, <1>9, <1>10

\* Every text has its place, and more support comes first.
LEMMA RankingIs ==
    ASSUME NEW given, NEW T, IsFiniteSet(T), T \subseteq Int,
           \A t \in T : Doubt(given, t) \in Int
    PROVE  /\ Ordering(AheadIn(given, T), T)
           /\ Arranged(Ranking(given, T), T, AheadIn(given, T))
<1> DEFINE before == AheadIn(given, T)
           order == Ranking(given, T)
<1>1. \A t \in T : before[t] = Ahead(given, T, t)
    BY DEF AheadIn
<1>2. before \in [T -> SUBSET T]
    BY DEF AheadIn, Ahead
<1>3. Ordering(before, T)
  <2>1. \A a, b \in T : a \in before[b] <=>
            \/ Doubt(given, a) < Doubt(given, b)
            \/ Doubt(given, a) = Doubt(given, b) /\ a < b
      BY <1>1 DEF Ahead, MoreSupported
  <2> HIDE DEF before
  <2> DEFINE d == [t \in T |-> Doubt(given, t)]
  <2>2. \A t \in T : d[t] \in Int /\ t \in Int /\ d[t] = Doubt(given, t)
      OBVIOUS
  <2> HIDE DEF d
  <2>3. \A a, b \in T : a \in before[b] <=> d[a] < d[b] \/ (d[a] = d[b] /\ a < b)
      BY <2>1, <2>2
  <2>4. \A a \in T : a \notin before[a]
      BY ONLY <2>2, <2>3
  <2>5. \A a, b, c \in T : a \in before[b] /\ b \in before[c] => a \in before[c]
      BY ONLY <2>2, <2>3
  <2>6. \A a, b \in T : a = b \/ a \in before[b] \/ b \in before[a]
      BY ONLY <2>2, <2>3
  <2> QED BY <2>4, <2>5, <2>6 DEF Ordering
<1>4. \A a \in T : Placed(T, before)[a] = Cardinality(Ahead(given, T, a)) + 1
  <2> HIDE DEF before
  <2> QED BY <1>1 DEF Placed
<1> HIDE DEF before
<1>5. \A k \in 1..Cardinality(T) :
          (\E a \in T : Placed(T, before)[a] = k) =>
              order[k] \in T /\ Placed(T, before)[order[k]] = k
  <2> SUFFICES ASSUME NEW k \in 1..Cardinality(T), NEW a \in T, Placed(T, before)[a] = k
               PROVE  order[k] \in T /\ Placed(T, before)[order[k]] = k
      OBVIOUS
  <2>1. Cardinality(Ahead(given, T, a)) + 1 = k
      BY <1>4
  <2>2. order[k] = CHOOSE t \in T : Cardinality(Ahead(given, T, t)) + 1 = k
      BY DEF Ranking
  <2>3. order[k] \in T /\ Cardinality(Ahead(given, T, order[k])) + 1 = k
      BY <2>1, <2>2
  <2> HIDE DEF order
  <2> QED BY <1>4, <2>3
<1>6. order = [k \in 1..Cardinality(T) |-> order[k]]
    BY DEF Ranking
<1> HIDE DEF order
<1>7. Arranged(order, T, before)
    BY ONLY IsFiniteSet(T), <1>2, <1>3, <1>5, <1>6, ArrangedIs
<1> QED BY <1>3, <1>7 DEF order, before

\* The first m are kept, each once, and what is cut off comes after them.
CutOff(order, T, before, m, kept) ==
    /\ kept \subseteq T /\ Cardinality(kept) = m
    /\ \A i \in 1..m : order[i] \in T
    /\ \A i \in 1..m : \A t \in T \ kept : order[i] \in before[t]

LEMMA CutIs ==
    ASSUME NEW T, NEW before, NEW order, NEW m, NEW kept, IsFiniteSet(T),
           Ordering(before, T), Arranged(order, T, before), m \in Nat, m <= Cardinality(T),
           kept = {order[i] : i \in 1..m}
    PROVE  CutOff(order, T, before, m, kept)
<1> DEFINE n == Cardinality(T)
<1>1. n \in Nat
    BY FS_CardinalityType
<1>2. /\ order \in [1..n -> T]
      /\ \A a \in T : \E k \in 1..n : order[k] = a
      /\ \A k, l \in 1..n : k < l => order[k] \in before[order[l]]
    BY DEF Arranged
<1>0. m \in Nat /\ m <= n /\ \A a \in T : a \notin before[a]
    BY DEF Ordering
<1> HIDE DEF n
<1>3. \A i \in 1..m : i \in 1..n
    BY <1>0, <1>1
<1>4. \A i \in 1..m : order[i] \in T
    BY <1>2, <1>3
<1>5. \A i, j \in 1..m : order[i] = order[j] => i = j
  <2> SUFFICES ASSUME NEW i \in 1..m, NEW j \in 1..m, order[i] = order[j] PROVE i = j
      OBVIOUS
  <2>1. ~(i < j)
      BY <1>0, <1>2, <1>3, <1>4
  <2>2. ~(j < i)
      BY <1>0, <1>2, <1>3, <1>4
  <2> QED BY <2>1, <2>2
<1>6. Cardinality(kept) = m
  <2> DEFINE f == [i \in 1..m |-> order[i]]
  <2>1. f \in [1..m -> kept] /\ \A i \in 1..m : f[i] = order[i]
      OBVIOUS
  <2> HIDE DEF f
  <2>2. \A i, j \in 1..m : f[i] = f[j] => i = j
      BY <1>5, <2>1
  <2>3. \A t \in kept : \E i \in 1..m : f[i] = t
      BY <2>1
  <2>4. f \in Injection(1..m, kept) /\ f \in Surjection(1..m, kept)
      BY <2>1, <2>2, <2>3 DEF Injection, Surjection, IsInjective
  <2>5. IsFiniteSet(1..m) /\ Cardinality(1..m) = m
    <3>1. 1 \in Int /\ m \in Int
        BY <1>0
    <3>2. IsFiniteSet(1..m) /\ Cardinality(1..m) = IF 1 > m THEN 0 ELSE (m - 1) + 1
        BY <3>1, FS_Interval
    <3> QED BY <1>0, <3>2
  <2> QED BY <2>4, <2>5, FS_Surjection
<1>7. ASSUME NEW i \in 1..m, NEW t \in T \ kept PROVE order[i] \in before[t]
  <2>1. PICK k \in 1..n : order[k] = t
      BY <1>2
  <2>2. k \notin 1..m
      BY <2>1
  <2>3. i < k
      BY <1>0, <1>1, <2>2
  <2> QED BY <1>2, <1>3, <2>1, <2>3
<1> QED BY <1>4, <1>6, <1>7 DEF CutOff

FusedValid(given, t) ==
    \E c \in UNION {{given.evidence[i].candidates[k] : k \in Counted(given.evidence[i])} :
                        i \in DOMAIN given.evidence} : c.text = t /\ c.format_valid

\* The first m of a ranking, with what is known of them.
FirstOf(given, order, m) ==
    [r \in 1..m |-> [text |-> order[r], doubt |-> Doubt(given, order[r]),
                     format_valid |-> FusedValid(given, order[r])]]

LEMMA FuseRanks ==
    \A given : Fuse(given) = FirstOf(given, Ranking(given, FusedTexts(given)),
                                    Min({max_candidates, Cardinality(FusedTexts(given))}))
BY Zenon DEF Fuse, FusedTexts, Ranking, Ahead, FusedValid, FirstOf

\* The result: the first of T, each once, and no more doubtful than what is cut off.
Fused(fused, given, T, kept) ==
    /\ Len(fused) = Min({max_candidates, Cardinality(T)}) /\ DOMAIN fused = 1..Len(fused)
    /\ kept \subseteq T /\ Cardinality(kept) = Len(fused)
    /\ \A i \in DOMAIN fused :
           /\ fused[i].text \in T /\ fused[i].doubt = Doubt(given, fused[i].text)
           /\ \A t \in T \ kept : fused[i].doubt <= Doubt(given, t)

LEMMA FuseIs ==
    ASSUME NEW given, NEW T, NEW fused, NEW kept,
           T = FusedTexts(given), IsFiniteSet(T), T \subseteq Int,
           \A t \in T : Doubt(given, t) \in Int,
           fused = Fuse(given), kept = {fused[i].text : i \in DOMAIN fused}
    PROVE  Fused(fused, given, T, kept)
<1> DEFINE order == Ranking(given, T)
           before == AheadIn(given, T)
           m == Min({max_candidates, Cardinality(T)})
<1>1. fused = FirstOf(given, order, m)
    BY FuseRanks
<1>2. m \in Nat /\ m <= Cardinality(T)
  <2>1. Cardinality(T) \in Nat /\ max_candidates \in Nat
      BY FS_CardinalityType, CandidateFusionAssumption
  <2>2. m = IF max_candidates <= Cardinality(T) THEN max_candidates ELSE Cardinality(T)
      BY <2>1, MinOfTwo
  <2> HIDE DEF m
  <2> QED BY <2>1, <2>2
<1>3. Ordering(before, T) /\ Arranged(order, T, before)
    BY RankingIs
<1>4. before \in [T -> SUBSET T] /\ \A t \in T : before[t] = Ahead(given, T, t)
    BY DEF AheadIn, Ahead
<1> HIDE DEF order, before, m
<1>5. /\ DOMAIN fused = 1..m /\ Len(fused) = m
      /\ \A i \in 1..m : fused[i].text = order[i] /\ fused[i].doubt = Doubt(given, order[i])
  <2>1. /\ DOMAIN fused = 1..m
        /\ \A i \in 1..m : fused[i].text = order[i] /\ fused[i].doubt = Doubt(given, order[i])
      BY <1>1 DEF FirstOf
  <2>2. Len(fused) = m
    <3> DEFINE V == {fused[i] : i \in 1..m}
    <3>1. fused \in [1..m -> V]
        BY <1>1 DEF FirstOf
    <3> HIDE DEF V
    <3> QED BY <1>2, <3>1, SequenceOf
  <2> QED BY <2>1, <2>2
<1>7. kept = {order[i] : i \in 1..m}
    BY <1>5
<1>8. CutOff(order, T, before, m, kept)
    BY <1>2, <1>3, <1>7, CutIs
<1>10. /\ kept \subseteq T /\ Cardinality(kept) = m
       /\ \A i \in 1..m : order[i] \in T
       /\ \A i \in 1..m : \A t \in T \ kept : order[i] \in before[t]
    BY ONLY <1>8 DEF CutOff
<1>9. ASSUME NEW i \in 1..m, NEW t \in T \ kept PROVE fused[i].doubt <= Doubt(given, t)
  <2>1. order[i] \in Ahead(given, T, t)
      BY <1>4, <1>10
  <2>2. \/ Doubt(given, order[i]) < Doubt(given, t)
        \/ Doubt(given, order[i]) = Doubt(given, t)
      BY <2>1 DEF Ahead, MoreSupported
  <2>3. Doubt(given, order[i]) \in Int /\ Doubt(given, t) \in Int
      BY <1>10
  <2>4. Doubt(given, order[i]) <= Doubt(given, t)
      BY ONLY <2>2, <2>3
  <2> QED BY <1>5, <2>4
<1> QED BY <1>5, <1>9, <1>10 DEF m, Fused

CropsInv == input.of = "crops" => input.crops \in Seq(CropRecords)

LEMMA ReadingsMeet == CropsInv => ReadingsMeetTheirLayout
<1> SUFFICES ASSUME input.of = "crops", input.crops \in Seq(CropRecords)
             PROVE  ReadingsMeetTheirLayout
    BY DEF CropsInv, ReadingsMeetTheirLayout
<1> DEFINE crops == input.crops
           given == Collect(crops)
           T == TextsRead(crops)
           fused == Fuse(given)
           kept == {fused[i].text : i \in DOMAIN fused}
<1>1. /\ given.evidence \in Seq(EvidenceRecords) /\ given.layouts \in Seq(LayoutRecords)
      /\ ToSet(given.evidence) = UNION {ToSet(crops[c].evidence) : c \in DOMAIN crops}
      /\ \A text : Doubt(given, text) = DoubtLeft(crops, text) /\ Doubt(given, text) \in Int
    BY CollectIs
<1> HIDE DEF given
<1>2. FusedTexts(given) = T /\ IsFiniteSet(T) /\ T \subseteq Int
    BY <1>1, FusedTextsAre
<1> HIDE DEF crops, T, fused
<1>3. Fused(fused, given, T, kept)
  <2>1. fused = Fuse(given)
      BY DEF fused
  <2>2. T = FusedTexts(given)
      BY <1>2
  <2>3. \A t \in T : Doubt(given, t) \in Int
      BY <1>1
  <2>4. kept = {fused[i].text : i \in DOMAIN fused}
      OBVIOUS
  <2> HIDE DEF kept
  <2> QED BY <1>2, <2>1, <2>2, <2>3, <2>4, FuseIs
<1>4. /\ Cardinality(kept) = Len(fused)
      /\ kept \subseteq T /\ Len(fused) = Min({max_candidates, Cardinality(T)})
      /\ \A i \in DOMAIN fused :
             /\ fused[i].doubt = DoubtLeft(crops, fused[i].text)
             /\ \A text \in T \ kept : fused[i].doubt <= DoubtLeft(crops, text)
  <2> HIDE DEF kept
  <2> QED BY <1>1, <1>3 DEF Fused
<1> QED BY <1>4, Zenon DEF ReadingsMeetTheirLayout, crops, given, T, fused

\* LprPipeline and WeightedMultiCropCandidateFusion::fuse: what supports a text is
\* its best reading in every evidence, scored with the layout of its own crop, for
\* any crops, readings and weights; texts are returned once, the best ones first.
THEOREM ReadingsAlwaysMeetTheirLayout == Spec => []ReadingsMeetTheirLayout
<1>1. Init => CropsInv
  <2> SUFFICES ASSUME FirstInputs PROVE CropsInv
      BY InitIsFirst
  <2>1. <<>> \in Seq(CropRecords)
      BY EmptySeq
  <2> QED BY <2>1 DEF FirstInputs, CropsInv
<1>2. CropsInv /\ [Next]_<<input, viewsVars>> => CropsInv'
  <2> SUFFICES ASSUME CropsInv, [Next]_<<input, viewsVars>> PROVE CropsInv'
      OBVIOUS
  <2>1. CASE input' = input
      BY <2>1 DEF CropsInv
  <2>2. CASE NextInputs
    <3>1. \A c \in CropsRead : c \in CropRecords
        BY CropsAssumption DEF CropRecords, LayoutRecords, EvidenceRecords, ReadingRecords
    <3>2. \A crops \in Seq(CropRecords) : \A c \in CropRecords : Append(crops, c) \in Seq(CropRecords)
        BY AppendProperties
    <3> QED BY <2>2, <3>1, <3>2 DEF NextInputs, CropsInv
  <2> QED BY <2>1, <2>2, StepIsNext
<1> QED BY <1>1, <1>2, ReadingsMeet, PTL DEF Spec

-----------------------------------------------------------------------------
(* Crops: from Unit-ths to pixels.                                         *)

LEMMA CropsMax == \A S : PlateCrops!Max(S) = Max(S)
BY DEF Max, PlateCrops!Max
LEMMA CropsMin == \A S : PlateCrops!Min(S) = Min(S)
BY DEF Min, PlateCrops!Min

LEMMA CropUnitIs == CropUnit \in Nat \ {0}
BY CropInputsAssumption

\* The pixel that a place is in is no later than another if the place is before
\* the end of that one.
LEMMA FloorIs ==
    ASSUME NEW n \in Int, NEW p \in Int
    PROVE  /\ PlateCrops!Floor(n) \in Int
           /\ PlateCrops!Floor(n) <= p <=> n < CropUnit * (p + 1)
<1> DEFINE U == CropUnit
           q == n \div U
           r == n % U
<1>1. U \in Nat \ {0}
    BY CropUnitIs
<1> HIDE DEF U
<1>2. q \in Int /\ r \in Int /\ 0 <= r /\ r < U /\ n = U * q + r
    BY <1>1
<1> HIDE DEF q, r
<1>3. U * q \in Int /\ U * (p + 1) \in Int
    BY <1>1, <1>2
<1>4. ASSUME q <= p PROVE n < U * (p + 1)
  <2>1. p - q \in Nat /\ U * (p - q) \in Nat
      BY <1>1, <1>2, <1>4
  <2>2. U * (p + 1) = (U * q + U * (p - q)) + U
    <3>1. p + 1 = (q + (p - q)) + 1
        BY <1>2
    <3>2. U * ((q + (p - q)) + 1) = (U * q + U * (p - q)) + U
        BY <1>1, <1>2, <2>1
    <3> QED BY <3>1, <3>2
  <2> HIDE DEF U
  <2> DEFINE a == U * q
             b == U * (p - q)
             c == U * (p + 1)
  <2>3. a \in Int /\ b \in Nat /\ c = (a + b) + U /\ n = a + r
      BY <1>2, <1>3, <2>1, <2>2
  <2> HIDE DEF a, b, c
  <2>4. n < c
      BY <1>1, <1>2, <2>3
  <2> QED BY <2>4 DEF c
<1>5. ASSUME p + 1 <= q PROVE ~(n < U * (p + 1))
  <2>1. q - (p + 1) \in Nat /\ U * (q - (p + 1)) \in Nat
      BY <1>1, <1>2, <1>5
  <2>2. U * q = U * (p + 1) + U * (q - (p + 1))
    <3>1. q = (p + 1) + (q - (p + 1))
        BY <1>2
    <3>2. U * ((p + 1) + (q - (p + 1))) = U * (p + 1) + U * (q - (p + 1))
        BY <1>1, <1>2, <2>1
    <3> QED BY <3>1, <3>2
  <2> DEFINE a == U * q
             b == U * (q - (p + 1))
             c == U * (p + 1)
  <2>3. a \in Int /\ b \in Nat /\ c \in Int /\ a = c + b /\ n = a + r
      BY <1>2, <1>3, <2>1, <2>2
  <2> HIDE DEF a, b, c
  <2>4. ~(n < c)
      BY <1>2, <2>3
  <2> QED BY <2>4 DEF c
<1>6. q <= p <=> n < U * (p + 1)
  <2>1. q <= p \/ p + 1 <= q
      BY <1>2
  <2>2. p + 1 <= q => ~(q <= p)
      BY <1>2
  <2> QED BY <1>4, <1>5, <2>1, <2>2
<1>7. PlateCrops!Floor(n) = q
    BY DEF PlateCrops!Floor, q, U
<1> QED BY <1>2, <1>6, <1>7 DEF U

LEMMA CeilingIs ==
    ASSUME NEW n \in Int, NEW p \in Int
    PROVE  /\ PlateCrops!Ceiling(n) \in Int
           /\ p < PlateCrops!Ceiling(n) <=> CropUnit * p < n
<1> DEFINE m == -n
           k == -p - 1
           f == PlateCrops!Floor(m)
<1>1. m \in Int /\ k \in Int
    OBVIOUS
<1>2. f \in Int /\ (f <= k <=> m < CropUnit * (k + 1))
    BY <1>1, FloorIs
<1>3. PlateCrops!Ceiling(n) = -f
    BY DEF PlateCrops!Ceiling, PlateCrops!Floor
<1>4. CropUnit * (k + 1) = -(CropUnit * p) /\ CropUnit * p \in Int
  <2>1. k + 1 = -p
      BY <1>1
  <2>2. CropUnit * (-p) = -(CropUnit * p) /\ CropUnit * p \in Int
      BY CropUnitIs
  <2> QED BY <2>1, <2>2
<1> HIDE DEF f
<1> DEFINE a == CropUnit * p
<1>5. a \in Int /\ (f <= k <=> -n < -a)
    BY <1>2, <1>4
<1> HIDE DEF a
<1>6. p < -f <=> a < n
    BY <1>2, <1>5
<1>7. -f \in Int
    BY <1>2
<1> QED BY <1>3, <1>6, <1>7 DEF a

LEMMA CropClampedIs ==
    ASSUME NEW n \in Int, NEW most \in Nat
    PROVE  PlateCrops!Clamped(n, most) = IF n < 0 THEN 0 ELSE IF n > most THEN most ELSE n
<1> DEFINE m == IF n <= most THEN n ELSE most
<1>1. PlateCrops!Min({n, most}) = m
    BY CropsMin, MinOfTwo
<1>2. m \in Int
    OBVIOUS
<1>3. PlateCrops!Max({0, m}) = IF 0 <= m THEN m ELSE 0
  <2> HIDE DEF m
  <2> QED BY <1>2, CropsMax, MaxOfTwo
<1>4. PlateCrops!Clamped(n, most) = IF 0 <= m THEN m ELSE 0
    BY <1>1, <1>3 DEF PlateCrops!Clamped
<1> QED BY <1>4

-----------------------------------------------------------------------------
(* One axis of a box.                                                      *)

\* The place along an axis touches the pixel.
Touches(from, to, p) == CropUnit * p < to /\ from < CropUnit * (p + 1)

FirstPixel(from, extent) == PlateCrops!Floor(PlateCrops!Clamped(from, extent * CropUnit))
EndPixel(to, extent) ==
    PlateCrops!Min({extent, PlateCrops!Ceiling(PlateCrops!Clamped(to, extent * CropUnit))})

LEMMA PixelPlace ==
    ASSUME NEW extent \in Nat, NEW p \in 0..(extent - 1)
    PROVE  /\ CropUnit * p \in Nat /\ CropUnit * (p + 1) \in Nat
           /\ CropUnit * (p + 1) = CropUnit * p + CropUnit
           /\ CropUnit * (p + 1) <= extent * CropUnit
           /\ extent * CropUnit \in Nat
<1>1. p \in Nat /\ p + 1 \in Nat /\ p + 1 <= extent
    OBVIOUS
<1>2. (p + 1) * CropUnit <= extent * CropUnit
    BY <1>1, CropUnitIs, Monotone
<1>3. /\ (p + 1) * CropUnit = CropUnit * (p + 1) /\ CropUnit * (p + 1) = CropUnit * p + CropUnit
      /\ CropUnit * p \in Nat /\ CropUnit * (p + 1) \in Nat /\ extent * CropUnit \in Nat
    BY <1>1, CropUnitIs
<1> QED BY <1>2, <1>3

LEMMA AxisEnds ==
    ASSUME NEW extent \in Nat, NEW from \in Int, NEW to \in Int
    PROVE  /\ FirstPixel(from, extent) \in Nat
           /\ EndPixel(to, extent) \in Int /\ EndPixel(to, extent) <= extent
<1> DEFINE most == extent * CropUnit
           l == PlateCrops!Clamped(from, most)
           h == PlateCrops!Clamped(to, most)
<1>1. most \in Nat
    BY CropUnitIs
<1> HIDE DEF most
<1>2. l \in Nat /\ h \in Nat
    BY <1>1, CropClampedIs
<1> HIDE DEF l, h
<1>3. PlateCrops!Floor(l) \in Nat
  <2>1. PlateCrops!Floor(l) \in Int /\ ~(PlateCrops!Floor(l) <= -1)
    <3>1. PlateCrops!Floor(l) \in Int /\ (PlateCrops!Floor(l) <= -1 <=> l < CropUnit * (-1 + 1))
      <4>1. -1 \in Int /\ l \in Int
          BY <1>2
      <4> QED BY <4>1, FloorIs
    <3>2. CropUnit * (-1 + 1) = 0
        BY CropUnitIs
    <3> QED BY <1>2, <3>1, <3>2
  <2> QED BY <2>1
<1>4. PlateCrops!Ceiling(h) \in Int
  <2>1. h \in Int /\ 0 \in Int
      BY <1>2
  <2> QED BY <2>1, CeilingIs
<1>5. PlateCrops!Min({extent, PlateCrops!Ceiling(h)})
        = IF extent <= PlateCrops!Ceiling(h) THEN extent ELSE PlateCrops!Ceiling(h)
    BY <1>4, CropsMin, MinOfTwo
<1>6. /\ FirstPixel(from, extent) = PlateCrops!Floor(l)
      /\ EndPixel(to, extent) = PlateCrops!Min({extent, PlateCrops!Ceiling(h)})
    BY DEF FirstPixel, EndPixel, l, h, most
<1> QED BY <1>3, <1>4, <1>5, <1>6

\* The pixels from the first to before the end are those that are touched.
LEMMA AxisTouches ==
    ASSUME NEW extent \in Nat, NEW from \in Int, NEW to \in Int, NEW p \in 0..(extent - 1)
    PROVE  FirstPixel(from, extent) <= p /\ p < EndPixel(to, extent) <=> Touches(from, to, p)
<1> DEFINE most == extent * CropUnit
           l == PlateCrops!Clamped(from, most)
           h == PlateCrops!Clamped(to, most)
           a == CropUnit * p
           b == CropUnit * (p + 1)
<1>1. most \in Nat /\ a \in Nat /\ b \in Nat /\ b = a + CropUnit /\ b <= most
    BY PixelPlace
<1> HIDE DEF most
<1>2. /\ l = IF from < 0 THEN 0 ELSE IF from > most THEN most ELSE from
      /\ h = IF to < 0 THEN 0 ELSE IF to > most THEN most ELSE to
    BY <1>1, CropClampedIs
<1>3. l \in Int /\ h \in Int /\ p \in Int
    BY <1>1, <1>2
<1> HIDE DEF l, h
<1>4. PlateCrops!Floor(l) <= p <=> l < b
    BY <1>3, FloorIs
<1>5. PlateCrops!Ceiling(h) \in Int /\ (p < PlateCrops!Ceiling(h) <=> a < h)
    BY <1>3, CeilingIs
<1> HIDE DEF a, b
<1>6. l < b <=> from < b
    BY <1>1, <1>2, CropUnitIs
<1>7. a < h <=> a < to
    BY <1>1, <1>2, CropUnitIs
<1>8. p < PlateCrops!Min({extent, PlateCrops!Ceiling(h)}) <=> p < PlateCrops!Ceiling(h)
  <2>1. PlateCrops!Min({extent, PlateCrops!Ceiling(h)})
          = IF extent <= PlateCrops!Ceiling(h) THEN extent ELSE PlateCrops!Ceiling(h)
      BY <1>5, CropsMin, MinOfTwo
  <2> QED BY <1>5, <2>1
<1>9. /\ FirstPixel(from, extent) = PlateCrops!Floor(l)
      /\ EndPixel(to, extent) = PlateCrops!Min({extent, PlateCrops!Ceiling(h)})
    BY DEF FirstPixel, EndPixel, l, h, most
<1>10. Touches(from, to, p) <=> a < to /\ from < b
    BY DEF Touches, a, b
<1> QED BY <1>4, <1>5, <1>6, <1>7, <1>8, <1>9, <1>10

\* What touches a pixel has a length in the image.
LEMMA AxisWide ==
    ASSUME NEW extent \in Nat, NEW from \in Int, NEW to \in Int, from < to,
           NEW p \in 0..(extent - 1), Touches(from, to, p)
    PROVE  PlateCrops!Clamped(from, extent * CropUnit) < PlateCrops!Clamped(to, extent * CropUnit)
<1> DEFINE most == extent * CropUnit
           a == CropUnit * p
           b == CropUnit * (p + 1)
<1>1. most \in Nat /\ a \in Nat /\ b \in Nat /\ b = a + CropUnit /\ b <= most
    BY PixelPlace
<1>2. a < to /\ from < b
    BY DEF Touches
<1> HIDE DEF most, a, b
<1>3. PlateCrops!Clamped(from, most) < PlateCrops!Clamped(to, most)
    BY <1>1, <1>2, CropClampedIs, CropUnitIs
<1> QED BY <1>3 DEF most

-----------------------------------------------------------------------------
(* The pixels of a region and of a box.                                    *)

PixelsOf(source) == (0..(source.width - 1)) \X (0..(source.height - 1))

Held(source, r) ==
    {p \in PixelsOf(source) : /\ p[1] \in r.x..(r.x + r.width - 1)
                              /\ p[2] \in r.y..(r.y + r.height - 1)}
Touched(source, box) ==
    {p \in PixelsOf(source) :
        /\ CropUnit * p[1] < box.x + box.width /\ box.x < CropUnit * (p[1] + 1)
        /\ CropUnit * p[2] < box.y + box.height /\ box.y < CropUnit * (p[2] + 1)
        /\ box.width > 0 /\ box.height > 0}

IsSource(source) == source.width \in Nat /\ source.height \in Nat
IsBox(box) == box.x \in Int /\ box.y \in Int /\ box.width \in Int /\ box.height \in Int
InImage(source, r) ==
    /\ r.x \in Nat /\ r.y \in Nat /\ r.width \in Nat \ {0} /\ r.height \in Nat \ {0}
    /\ r.x + r.width <= source.width /\ r.y + r.height <= source.height

LEMMA HeldIs ==
    ASSUME NEW source, NEW r, IsSource(source), InImage(source, r)
    PROVE  /\ Cardinality({p[1] : p \in Held(source, r)}) = r.width
           /\ Cardinality({p[2] : p \in Held(source, r)}) = r.height
<1> DEFINE x2 == r.x + r.width - 1
           y2 == r.y + r.height - 1
<1>1. /\ r.x \in Nat /\ r.y \in Nat /\ x2 \in Nat /\ y2 \in Nat
      /\ r.x <= x2 /\ r.y <= y2 /\ x2 <= source.width - 1 /\ y2 <= source.height - 1
      /\ source.width \in Nat /\ source.height \in Nat
      /\ x2 - r.x + 1 = r.width /\ y2 - r.y + 1 = r.height
    BY DEF InImage, IsSource
<1>2. Held(source, r) = {p \in PixelsOf(source) : p[1] \in r.x..x2 /\ p[2] \in r.y..y2}
    BY DEF Held
<1> HIDE DEF x2, y2
<1>3. Held(source, r) = (r.x..x2) \X (r.y..y2)
  <2>1. r.x..x2 \subseteq 0..(source.width - 1) /\ r.y..y2 \subseteq 0..(source.height - 1)
      BY <1>1
  <2> QED BY <1>2, <2>1 DEF PixelsOf
<1>4. r.x \in r.x..x2 /\ r.y \in r.y..y2
    BY <1>1
<1>5. {p[1] : p \in Held(source, r)} = r.x..x2
  <2>1. ASSUME NEW a \in r.x..x2 PROVE \E p \in Held(source, r) : a = p[1]
    <3>1. <<a, r.y>> \in Held(source, r)
        BY <1>3, <1>4
    <3> QED BY <3>1
  <2>2. \A p \in Held(source, r) : p[1] \in r.x..x2
      BY <1>3
  <2> QED BY <2>1, <2>2
<1>6. {p[2] : p \in Held(source, r)} = r.y..y2
  <2>1. ASSUME NEW a \in r.y..y2 PROVE \E p \in Held(source, r) : a = p[2]
    <3>1. <<r.x, a>> \in Held(source, r)
        BY <1>3, <1>4
    <3> QED BY <3>1
  <2>2. \A p \in Held(source, r) : p[2] \in r.y..y2
      BY <1>3
  <2> QED BY <2>1, <2>2
<1>7. Cardinality(r.x..x2) = r.width /\ Cardinality(r.y..y2) = r.height
  <2>1. r.x \in Int /\ x2 \in Int /\ r.y \in Int /\ y2 \in Int
      BY <1>1
  <2>2. /\ Cardinality(r.x..x2) = IF r.x > x2 THEN 0 ELSE x2 - r.x + 1
        /\ Cardinality(r.y..y2) = IF r.y > y2 THEN 0 ELSE y2 - r.y + 1
      BY <2>1, FS_Interval
  <2> QED BY <1>1, <2>2
<1> QED BY <1>5, <1>6, <1>7

LEMMA RegionIsOf ==
    ASSUME NEW x \in Int, NEW y \in Int, NEW x2 \in Int, NEW y2 \in Int,
           NEW r \in PlateCrops!Region(x, y, x2, y2)
    PROVE  /\ r.x = x /\ r.y = y /\ r.x + r.width = x2 /\ r.y + r.height = y2
           /\ x < x2 /\ y < y2 /\ r.width \in Nat \ {0} /\ r.height \in Nat \ {0}
           /\ r = [x |-> x, y |-> y, width |-> x2 - x, height |-> y2 - y]
<1>1. x2 > x /\ y2 > y /\ r = [x |-> x, y |-> y, width |-> x2 - x, height |-> y2 - y]
    BY DEF PlateCrops!Region
<1> QED BY <1>1

\* How far a box is padded.
PadOf(length, ratio) == (length * ratio) \div CropUnit

LEMMA BboxRegionIs ==
    ASSUME NEW source, NEW box, NEW hp, NEW vp,
           NEW r \in PlateCrops!BboxRegion(box, source, hp, vp),
           IsSource(source), IsBox(box),
           PadOf(box.width, hp) \in Int, PadOf(box.height, vp) \in Int
    PROVE  /\ InImage(source, r) /\ box.width > 0 /\ box.height > 0
           /\ r.x = FirstPixel(box.x - PadOf(box.width, hp), source.width)
           /\ r.y = FirstPixel(box.y - PadOf(box.height, vp), source.height)
           /\ r.x + r.width = EndPixel(box.x + box.width + PadOf(box.width, hp), source.width)
           /\ r.y + r.height = EndPixel(box.y + box.height + PadOf(box.height, vp), source.height)
<1> DEFINE px == PadOf(box.width, hp)
           py == PadOf(box.height, vp)
           x == FirstPixel(box.x - px, source.width)
           y == FirstPixel(box.y - py, source.height)
           x2 == EndPixel(box.x + box.width + px, source.width)
           y2 == EndPixel(box.y + box.height + py, source.height)
<1>1. /\ box.x - px \in Int /\ box.x + box.width + px \in Int
      /\ box.y - py \in Int /\ box.y + box.height + py \in Int
  <2> HIDE DEF px, py
  <2>1. px \in Int /\ py \in Int
      BY DEF px, py
  <2> QED BY <2>1 DEF IsBox
<1>2. r \in PlateCrops!Region(x, y, x2, y2) /\ PlateCrops!BoxValid(box)
  <2> DEFINE c == PlateCrops!Clipped(box, source, px, py)
             made == PlateCrops!Region(PlateCrops!Floor(c.left), PlateCrops!Floor(c.top),
                         PlateCrops!Min({source.width, PlateCrops!Ceiling(c.right)}),
                         PlateCrops!Min({source.height, PlateCrops!Ceiling(c.bottom)}))
             cond == PlateCrops!BoxValid(box) /\ c.right > c.left /\ c.bottom > c.top
  <2>1. PlateCrops!BboxRegion(box, source, hp, vp) = IF cond THEN made ELSE {}
      BY Zenon DEF PlateCrops!BboxRegion, PadOf
  <2>2. cond /\ r \in made
    <3> HIDE DEF cond, made
    <3> QED BY <2>1
  <2>3. /\ x = PlateCrops!Floor(c.left) /\ y = PlateCrops!Floor(c.top)
        /\ x2 = PlateCrops!Min({source.width, PlateCrops!Ceiling(c.right)})
        /\ y2 = PlateCrops!Min({source.height, PlateCrops!Ceiling(c.bottom)})
    <3> HIDE DEF px, py
    <3> QED BY DEF FirstPixel, EndPixel, PlateCrops!Clipped
  <2> QED BY <2>2, <2>3
<1> HIDE DEF px, py
<1>3. /\ x \in Nat /\ x2 \in Int /\ x2 <= source.width
      /\ y \in Nat /\ y2 \in Int /\ y2 <= source.height
    BY <1>1, AxisEnds DEF IsSource
<1> HIDE DEF x, y, x2, y2
<1>4. /\ r.x = x /\ r.y = y /\ r.x + r.width = x2 /\ r.y + r.height = y2
      /\ r.width \in Nat \ {0} /\ r.height \in Nat \ {0}
    BY <1>2, <1>3, RegionIsOf
<1>5. box.width > 0 /\ box.height > 0
    BY <1>2 DEF PlateCrops!BoxValid
<1>6. InImage(source, r)
    BY <1>3, <1>4 DEF InImage
<1> QED BY <1>4, <1>5, <1>6 DEF x, y, x2, y2, px, py

LEMMA PixelIn ==
    ASSUME NEW source, IsSource(source), NEW p \in PixelsOf(source)
    PROVE  /\ source.width \in Nat /\ source.height \in Nat
           /\ p[1] \in 0..(source.width - 1) /\ p[2] \in 0..(source.height - 1)
           /\ CropUnit * p[1] \in Nat /\ CropUnit * (p[1] + 1) \in Nat
           /\ CropUnit * p[2] \in Nat /\ CropUnit * (p[2] + 1) \in Nat
<1>1. /\ source.width \in Nat /\ source.height \in Nat
      /\ p[1] \in 0..(source.width - 1) /\ p[2] \in 0..(source.height - 1)
    BY DEF IsSource, PixelsOf
<1> QED BY <1>1, PixelPlace

\* The crop of a box holds what the padded box touches.
LEMMA BboxHolds ==
    ASSUME NEW source, NEW box, NEW hp, NEW vp,
           NEW r \in PlateCrops!BboxRegion(box, source, hp, vp),
           IsSource(source), IsBox(box),
           PadOf(box.width, hp) \in Nat, PadOf(box.height, vp) \in Nat
    PROVE  /\ Touched(source, box) \subseteq Held(source, r)
           /\ PadOf(box.width, hp) = 0 /\ PadOf(box.height, vp) = 0 =>
                  Held(source, r) = Touched(source, box)
<1> DEFINE px == PadOf(box.width, hp)
           py == PadOf(box.height, vp)
<1>1. /\ InImage(source, r) /\ box.width > 0 /\ box.height > 0
      /\ r.x = FirstPixel(box.x - px, source.width)
      /\ r.y = FirstPixel(box.y - py, source.height)
      /\ r.x + r.width = EndPixel(box.x + box.width + px, source.width)
      /\ r.y + r.height = EndPixel(box.y + box.height + py, source.height)
    BY BboxRegionIs
<1>2. px \in Nat /\ py \in Nat
    OBVIOUS
<1> HIDE DEF px, py
<1>3. ASSUME NEW p \in PixelsOf(source)
      PROVE  p \in Held(source, r) <=>
                 /\ Touches(box.x - px, box.x + box.width + px, p[1])
                 /\ Touches(box.y - py, box.y + box.height + py, p[2])
  <2>1. p[1] \in 0..(source.width - 1) /\ p[2] \in 0..(source.height - 1)
      BY <1>3, PixelIn
  <2>2. /\ box.x - px \in Int /\ box.x + box.width + px \in Int
        /\ box.y - py \in Int /\ box.y + box.height + py \in Int
        /\ source.width \in Nat /\ source.height \in Nat
      BY <1>2 DEF IsBox, IsSource
  <2>3. r.x <= p[1] /\ p[1] < r.x + r.width
          <=> Touches(box.x - px, box.x + box.width + px, p[1])
      BY <1>1, <2>1, <2>2, AxisTouches
  <2>4. r.y <= p[2] /\ p[2] < r.y + r.height
          <=> Touches(box.y - py, box.y + box.height + py, p[2])
      BY <1>1, <2>1, <2>2, AxisTouches
  <2>5. p \in Held(source, r) <=> /\ r.x <= p[1] /\ p[1] < r.x + r.width
                                  /\ r.y <= p[2] /\ p[2] < r.y + r.height
    <3>1. p[1] \in Int /\ p[2] \in Int
        BY <2>1
    <3>2. /\ p[1] \in r.x..(r.x + r.width - 1) <=> r.x <= p[1] /\ p[1] < r.x + r.width
          /\ p[2] \in r.y..(r.y + r.height - 1) <=> r.y <= p[2] /\ p[2] < r.y + r.height
        BY <1>1, <3>1 DEF InImage
    <3> QED BY <1>3, <3>2 DEF Held
  <2> QED BY <2>3, <2>4, <2>5
<1>4. ASSUME NEW p \in PixelsOf(source)
      PROVE  /\ p \in Touched(source, box) =>
                    /\ Touches(box.x - px, box.x + box.width + px, p[1])
                    /\ Touches(box.y - py, box.y + box.height + py, p[2])
             /\ px = 0 /\ py = 0 =>
                    (p \in Touched(source, box) <=>
                        /\ Touches(box.x - px, box.x + box.width + px, p[1])
                        /\ Touches(box.y - py, box.y + box.height + py, p[2]))
  <2> DEFINE a == CropUnit * p[1]
             b == CropUnit * (p[1] + 1)
             c == CropUnit * p[2]
             d == CropUnit * (p[2] + 1)
  <2>1. a \in Int /\ b \in Int /\ c \in Int /\ d \in Int
      BY <1>4, PixelIn
  <2>2. p \in Touched(source, box) <=> /\ a < box.x + box.width /\ box.x < b
                                       /\ c < box.y + box.height /\ box.y < d
      BY <1>1, <1>4 DEF Touched
  <2>3. /\ Touches(box.x - px, box.x + box.width + px, p[1])
             <=> a < box.x + box.width + px /\ box.x - px < b
        /\ Touches(box.y - py, box.y + box.height + py, p[2])
             <=> c < box.y + box.height + py /\ box.y - py < d
      BY DEF Touches
  <2> HIDE DEF a, b, c, d
  <2> QED BY <1>2, <2>1, <2>2, <2>3 DEF IsBox
<1>5. Touched(source, box) \subseteq PixelsOf(source) /\ Held(source, r) \subseteq PixelsOf(source)
    BY DEF Touched, Held
<1>6. Touched(source, box) \subseteq Held(source, r)
    BY <1>3, <1>4, <1>5
<1>7. px = 0 /\ py = 0 => Held(source, r) = Touched(source, box)
    BY <1>3, <1>4, <1>5
<1> QED BY <1>6, <1>7 DEF px, py

LEMMA NoPad == \A length \in Int : PadOf(length, 0) = 0
<1> SUFFICES ASSUME NEW length \in Int PROVE PadOf(length, 0) = 0
    OBVIOUS
<1>1. length * 0 = 0 /\ 0 \div CropUnit = 0
    BY CropUnitIs
<1> QED BY <1>1 DEF PadOf

LEMMA PadIs ==
    ASSUME NEW length \in Nat, NEW ratio \in Nat
    PROVE  PadOf(length, ratio) \in Nat
<1>1. length * ratio \in Nat
    OBVIOUS
<1> QED BY <1>1, CropUnitIs DEF PadOf

\* Of a box that touches the image there is a crop.
LEMMA TouchedHasCrop ==
    ASSUME NEW source, NEW box, IsSource(source), IsBox(box), Touched(source, box) # {}
    PROVE  \E r : PlateCrops!BboxRegion(box, source, 0, 0) = {r}
<1>1. PICK p \in PixelsOf(source) : p \in Touched(source, box)
    BY DEF Touched
<1>2. /\ box.width > 0 /\ box.height > 0
      /\ Touches(box.x, box.x + box.width, p[1]) /\ Touches(box.y, box.y + box.height, p[2])
    BY <1>1 DEF Touched, Touches
<1>3. /\ source.width \in Nat /\ source.height \in Nat
      /\ p[1] \in 0..(source.width - 1) /\ p[2] \in 0..(source.height - 1)
    BY <1>1, PixelIn
<1>4. /\ box.x \in Int /\ box.x + box.width \in Int /\ box.x < box.x + box.width
      /\ box.y \in Int /\ box.y + box.height \in Int /\ box.y < box.y + box.height
    BY <1>2 DEF IsBox
<1> DEFINE c == PlateCrops!Clipped(box, source, 0, 0)
<1>5. /\ c.left = PlateCrops!Clamped(box.x, source.width * CropUnit)
      /\ c.right = PlateCrops!Clamped(box.x + box.width, source.width * CropUnit)
      /\ c.top = PlateCrops!Clamped(box.y, source.height * CropUnit)
      /\ c.bottom = PlateCrops!Clamped(box.y + box.height, source.height * CropUnit)
  <2>1. /\ box.x - 0 = box.x /\ box.x + box.width + 0 = box.x + box.width
        /\ box.y - 0 = box.y /\ box.y + box.height + 0 = box.y + box.height
      BY <1>4
  <2> QED BY <2>1, Zenon DEF PlateCrops!Clipped
<1> HIDE DEF c
<1>6. c.left < c.right /\ c.top < c.bottom
    BY <1>2, <1>3, <1>4, <1>5, AxisWide
<1> DEFINE x == PlateCrops!Floor(c.left)
           y == PlateCrops!Floor(c.top)
           x2 == PlateCrops!Min({source.width, PlateCrops!Ceiling(c.right)})
           y2 == PlateCrops!Min({source.height, PlateCrops!Ceiling(c.bottom)})
<1>7. /\ x = FirstPixel(box.x, source.width) /\ x2 = EndPixel(box.x + box.width, source.width)
      /\ y = FirstPixel(box.y, source.height) /\ y2 = EndPixel(box.y + box.height, source.height)
    BY <1>5 DEF FirstPixel, EndPixel
<1>8. x <= p[1] /\ p[1] < x2 /\ y <= p[2] /\ p[2] < y2
  <2> HIDE DEF x, y, x2, y2
  <2> QED BY <1>2, <1>3, <1>4, <1>7, AxisTouches
<1>9. x \in Int /\ x2 \in Int /\ y \in Int /\ y2 \in Int
  <2>1. FirstPixel(box.x, source.width) \in Nat /\ EndPixel(box.x + box.width, source.width) \in Int
      BY <1>3, <1>4, AxisEnds
  <2>2. FirstPixel(box.y, source.height) \in Nat
        /\ EndPixel(box.y + box.height, source.height) \in Int
      BY <1>3, <1>4, AxisEnds
  <2> HIDE DEF x, y, x2, y2
  <2> QED BY <1>7, <2>1, <2>2
<1>10. PlateCrops!BboxRegion(box, source, 0, 0) = PlateCrops!Region(x, y, x2, y2)
  <2>1. c.right > c.left /\ c.bottom > c.top
    <3>1. c.left \in Int /\ c.right \in Int /\ c.top \in Int /\ c.bottom \in Int
      <4>1. source.width * CropUnit \in Nat /\ source.height * CropUnit \in Nat
          BY <1>3, CropUnitIs
      <4> QED BY <1>4, <1>5, <4>1, CropClampedIs
    <3> QED BY <1>6, <3>1
  <2>2. PlateCrops!BoxValid(box)
      BY <1>2 DEF PlateCrops!BoxValid
  <2>3. (box.width * 0) \div CropUnit = 0 /\ (box.height * 0) \div CropUnit = 0
      BY NoPad DEF PadOf, IsBox
  <2>4. c = PlateCrops!Clipped(box, source, 0, 0)
      BY DEF c
  <2> QED BY <2>1, <2>2, <2>3, <2>4, Zenon DEF PlateCrops!BboxRegion
<1> HIDE DEF x, y, x2, y2
<1>11. x2 > x /\ y2 > y
    BY <1>3, <1>8, <1>9
<1> QED BY <1>10, <1>11 DEF PlateCrops!Region

-----------------------------------------------------------------------------
(* try_add.                                                                *)

Hypothesis(crop, kind) ==
    [view |-> crop, type |-> kind, fingerprint |-> PlateCrops!Fingerprint(crop)]

LargeEnough(config, crop) ==
    crop.width >= config.minimum_width /\ crop.height >= config.minimum_height

\* Crops that may be given to the recognizers together.
Distinct(made) ==
    \A i, j \in DOMAIN made : i # j => made[i].fingerprint # made[j].fingerprint
Proper(config, made) ==
    /\ Len(made) <= config.maximum_hypotheses
    /\ \A i \in DOMAIN made : LargeEnough(config, made[i].view)
    /\ Distinct(made)

\* A view that was offered, and is there unless something speaks against it.
Tried(config, made, crop) ==
    \/ Len(made) = config.maximum_hypotheses
    \/ ~LargeEnough(config, crop)
    \/ \E i \in DOMAIN made : made[i].fingerprint = PlateCrops!Fingerprint(crop)

Extends(longer, made) ==
    Len(made) <= Len(longer) /\ \A i \in DOMAIN made : i \in DOMAIN longer /\ longer[i] = made[i]

LEMMA TryAddIs ==
    ASSUME NEW config, NEW X, NEW made, NEW crop, NEW kind,
           config.maximum_hypotheses \in Nat, made \in Seq(X), Proper(config, made),
           Hypothesis(crop, kind) \in X
    PROVE  /\ PlateCrops!TryAdd(config, made, crop, kind) \in Seq(X)
           /\ Proper(config, PlateCrops!TryAdd(config, made, crop, kind))
           /\ Extends(PlateCrops!TryAdd(config, made, crop, kind), made)
           /\ Tried(config, PlateCrops!TryAdd(config, made, crop, kind), crop)
<1> DEFINE n == PlateCrops!TryAdd(config, made, crop, kind)
           h == Hypothesis(crop, kind)
           fits == Len(made) < config.maximum_hypotheses /\ LargeEnough(config, crop)
           new == \A i \in DOMAIN made : made[i].fingerprint # PlateCrops!Fingerprint(crop)
<1>1. n = IF fits /\ new THEN Append(made, h) ELSE made
    BY DEF PlateCrops!TryAdd, PlateCrops!Fits, LargeEnough, Hypothesis
<1>2. /\ h.view = crop /\ h.fingerprint = PlateCrops!Fingerprint(crop)
    BY DEF Hypothesis
<1>3. Len(made) \in Nat /\ DOMAIN made = 1..Len(made) /\ Len(made) <= config.maximum_hypotheses
    BY DEF Proper
<1> HIDE DEF n, h
<1>4. CASE fits /\ new
  <2>1. n = Append(made, h)
      BY <1>1, <1>4
  <2> HIDE DEF fits, new
  <2>2. /\ n \in Seq(X) /\ Len(n) = Len(made) + 1 /\ DOMAIN n = 1..(Len(made) + 1)
        /\ \A i \in 1..Len(made) : n[i] = made[i]
        /\ n[Len(made) + 1] = h
    <3>1. h \in X
        BY DEF h
    <3> QED BY <2>1, <3>1, AppendProperties
  <2>3. Extends(n, made)
      BY <1>3, <2>2 DEF Extends
  <2>4. Len(n) <= config.maximum_hypotheses
      BY <1>3, <1>4, <2>2 DEF fits
  <2>5. \A i \in DOMAIN n : LargeEnough(config, n[i].view)
    <3>1. \A i \in 1..Len(made) : LargeEnough(config, n[i].view)
        BY <1>3, <2>2 DEF Proper
    <3>2. LargeEnough(config, n[Len(made) + 1].view)
        BY <1>2, <1>4, <2>2 DEF fits
    <3>3. \A i \in DOMAIN n : i \in 1..Len(made) \/ i = Len(made) + 1
        BY <1>3, <2>2
    <3> QED BY <3>1, <3>2, <3>3
  <2>6. Distinct(n)
    <3>1. \A i, j \in 1..Len(made) : i # j => n[i].fingerprint # n[j].fingerprint
        BY <1>3, <2>2 DEF Proper, Distinct
    <3>2. \A i \in 1..Len(made) : n[i].fingerprint # n[Len(made) + 1].fingerprint
        BY <1>2, <1>3, <1>4, <2>2 DEF new
    <3>3. \A i \in DOMAIN n : i \in 1..Len(made) \/ i = Len(made) + 1
        BY <1>3, <2>2
    <3> QED BY <3>1, <3>2, <3>3 DEF Distinct
  <2>7. Tried(config, n, crop)
    <3>1. Len(made) + 1 \in DOMAIN n
        BY <1>3, <2>2
    <3> QED BY <1>2, <2>2, <3>1 DEF Tried
  <2> QED BY <2>2, <2>3, <2>4, <2>5, <2>6, <2>7 DEF Proper, n
<1>5. CASE ~(fits /\ new)
  <2>1. n = made
      BY <1>1, <1>5
  <2>2. Extends(made, made)
      BY <1>3 DEF Extends
  <2>3. Tried(config, made, crop)
      BY <1>3, <1>5 DEF Tried
  <2> QED BY <2>1, <2>2, <2>3 DEF n
<1> QED BY <1>4, <1>5

LEMMA TriedStays ==
    ASSUME NEW config, NEW X, NEW made, NEW longer, NEW crop, config.maximum_hypotheses \in Nat,
           made \in Seq(X), longer \in Seq(X), Extends(longer, made), Proper(config, longer),
           Tried(config, made, crop)
    PROVE  Tried(config, longer, crop)
<1>1. Len(made) \in Nat /\ Len(longer) \in Nat
    OBVIOUS
<1>2. Len(made) <= Len(longer) /\ Len(longer) <= config.maximum_hypotheses
    BY DEF Extends, Proper
<1>3. CASE Len(made) = config.maximum_hypotheses
  <2>1. Len(longer) = config.maximum_hypotheses
      BY <1>1, <1>2, <1>3
  <2> QED BY <2>1 DEF Tried
<1>4. CASE ~LargeEnough(config, crop)
    BY <1>4 DEF Tried
<1>5. CASE \E i \in DOMAIN made : made[i].fingerprint = PlateCrops!Fingerprint(crop)
    BY <1>5 DEF Tried, Extends
<1> QED BY <1>3, <1>4, <1>5 DEF Tried

\* A generator that has a view offers it, one that has none offers nothing.
LEMMA OfferedToIs ==
    ASSUME NEW config, NEW X, NEW made, NEW views, NEW kind,
           config.maximum_hypotheses \in Nat, made \in Seq(X), Proper(config, made),
           \A v \in views : Hypothesis(v, kind) \in X
    PROVE  /\ PlateCrops!OfferedTo(config, made, views, kind) \in Seq(X)
           /\ Proper(config, PlateCrops!OfferedTo(config, made, views, kind))
           /\ Extends(PlateCrops!OfferedTo(config, made, views, kind), made)
           /\ \A v : views = {v} =>
                  Tried(config, PlateCrops!OfferedTo(config, made, views, kind), v)
<1> DEFINE crop == CHOOSE v \in views : TRUE
<1>1. CASE views = {}
  <2>1. PlateCrops!OfferedTo(config, made, views, kind) = made
      BY <1>1 DEF PlateCrops!OfferedTo
  <2>2. Extends(made, made)
      BY DEF Extends
  <2> QED BY <1>1, <2>1, <2>2
<1>2. CASE views # {}
  <2>1. crop \in views
      BY <1>2
  <2>2. \A v : views = {v} => crop = v
      BY <2>1
  <2>3. PlateCrops!OfferedTo(config, made, views, kind) = PlateCrops!TryAdd(config, made, crop, kind)
      BY <1>2 DEF PlateCrops!OfferedTo
  <2> HIDE DEF crop
  <2>4. Hypothesis(crop, kind) \in X
      BY <2>1
  <2>5. /\ PlateCrops!TryAdd(config, made, crop, kind) \in Seq(X)
        /\ Proper(config, PlateCrops!TryAdd(config, made, crop, kind))
        /\ Extends(PlateCrops!TryAdd(config, made, crop, kind), made)
        /\ Tried(config, PlateCrops!TryAdd(config, made, crop, kind), crop)
      BY <2>4, TryAddIs
  <2> QED BY <2>2, <2>3, <2>5
<1> QED BY <1>1, <1>2

-----------------------------------------------------------------------------
(* The generators, one after the other.                                    *)

OfferedBy(c, kind) == PlateCrops!Offered(c.config, c.source, c.box, c.aligned, kind)
AllOffered(c) ==
    UNION {{Hypothesis(v, kind) : v \in OfferedBy(c, kind)} : kind \in PlateCrops!Kinds}
Crops(c) == {m \in Seq(AllOffered(c)) : Proper(c.config, m)}
Offering(c) ==
    [m \in Crops(c) |-> [kind \in PlateCrops!Kinds |->
        PlateCrops!OfferedTo(c.config, m, OfferedBy(c, kind), kind)]]
MadeFrom(c, s) ==
    PlateCrops!MapThenFoldSet(LAMBDA kind, made :
        PlateCrops!OfferedTo(c.config, made, OfferedBy(c, kind), kind),
        <<>>, LAMBDA i : s[i], PlateCrops!Max, DOMAIN s)

LEMMA OfferingIs ==
    ASSUME NEW c, c.config.maximum_hypotheses \in Nat,
           NEW m \in Crops(c), NEW kind \in PlateCrops!Kinds
    PROVE  /\ Offering(c)[m][kind] \in Crops(c)
           /\ Extends(Offering(c)[m][kind], m)
           /\ \A v : OfferedBy(c, kind) = {v} => Tried(c.config, Offering(c)[m][kind], v)
<1>1. m \in Seq(AllOffered(c)) /\ Proper(c.config, m)
    BY DEF Crops
<1>2. \A v \in OfferedBy(c, kind) : Hypothesis(v, kind) \in AllOffered(c)
    BY DEF AllOffered
<1> DEFINE n == PlateCrops!OfferedTo(c.config, m, OfferedBy(c, kind), kind)
<1>3. /\ n \in Seq(AllOffered(c)) /\ Proper(c.config, n) /\ Extends(n, m)
      /\ \A v : OfferedBy(c, kind) = {v} => Tried(c.config, n, v)
    BY <1>1, <1>2, OfferedToIs
<1>4. Offering(c)[m][kind] = n
    BY DEF Offering
<1> HIDE DEF n
<1> QED BY <1>3, <1>4 DEF Crops

LEMMA MadeFolds ==
    ASSUME NEW c, c.config.maximum_hypotheses \in Nat, NEW s \in Seq(PlateCrops!Kinds)
    PROVE  FoldsTo(MadeFrom(c, s), Crops(c), Offering(c), <<>>, s)
<1> DEFINE V == Crops(c)
           S == PlateCrops!Kinds
           D == 1..Len(s)
           F == Offering(c)
           Made(m, kind) == PlateCrops!OfferedTo(c.config, m, OfferedBy(c, kind), kind)
           Eq(h) == h = [T \in SUBSET D |->
                            IF T = {} THEN <<>>
                            ELSE Made(h[T \ {PlateCrops!Max(T)}], s[PlateCrops!Max(T)])]
           h == CHOOSE f : Eq(f)
<1>0. s \in Seq(S)
    OBVIOUS
<1>1. Indices(D) /\ DOMAIN s = D
    BY IndicesOf
<1>3. \A v \in V : \A e \in S : F[v][e] = Made(v, e)
    BY DEF Offering
<1>4. \A v \in V : \A e \in S : F[v][e] \in V
    BY OfferingIs
<1>5. <<>> \in V
  <2>1. <<>> \in Seq(AllOffered(c)) /\ Len(<<>>) = 0 /\ DOMAIN <<>> = {}
      BY EmptySeq
  <2> QED BY <2>1 DEF Crops, Proper, Distinct
<1>6. MadeFrom(c, s) = h[D]
  <2> HIDE DEF D
  <2> QED BY <1>1, Zenon DEF MadeFrom, PlateCrops!MapThenFoldSet
<1> HIDE DEF F, h, Made
<1>7. \A T \in SUBSET D : T # {} => T \ {Max(T)} \in SUBSET D /\ s[Max(T)] \in S
  <2> SUFFICES ASSUME NEW T \in SUBSET D, T # {}
               PROVE  T \ {Max(T)} \in SUBSET D /\ s[Max(T)] \in S
      OBVIOUS
  <2>1. Max(T) \in T /\ T \ {Max(T)} \in SUBSET D
      BY <1>1, MaxOfPart
  <2>2. Max(T) \in 1..Len(s)
      BY <2>1
  <2> HIDE DEF D, S
  <2> QED BY <1>0, <2>1, <2>2
<1>8. Eq(h)
  <2>1. PICK g : Folding(g, F, <<>>, s, D)
      BY <1>1, FoldingExists
  <2>2. \A T \in SUBSET D : g[T] \in V
      BY ONLY <1>4, <1>5, <2>1, s \in Seq(S), FoldingTyped
  <2>3. g = [T \in SUBSET D |-> IF T = {} THEN <<>> ELSE F[g[T \ {Max(T)}]][s[Max(T)]]]
      BY ONLY <2>1, Zenon DEF Folding
  <2> HIDE DEF D, V, S
  <2>4. \A T \in SUBSET D : T # {} =>
            F[g[T \ {Max(T)}]][s[Max(T)]]
              = Made(g[T \ {PlateCrops!Max(T)}], s[PlateCrops!Max(T)])
    <3> SUFFICES ASSUME NEW T \in SUBSET D, T # {}
                 PROVE  F[g[T \ {Max(T)}]][s[Max(T)]]
                          = Made(g[T \ {PlateCrops!Max(T)}], s[PlateCrops!Max(T)])
        OBVIOUS
    <3>1. PlateCrops!Max(T) = Max(T)
        BY CropsMax
    <3>2. F[g[T \ {Max(T)}]][s[Max(T)]] = Made(g[T \ {Max(T)}], s[Max(T)])
        BY <1>3, <1>7, <2>2, Zenon
    <3> QED BY ONLY <3>1, <3>2, Zenon
  <2>5. Eq(g)
      BY ONLY <2>3, <2>4, Zenon
  <2> QED BY <2>5, Zenon DEF h
<1> DEFINE W == V \cup {h[T] : T \in SUBSET D}
           G == [v \in W |-> [e \in S |-> Made(v, e)]]
<1>9. Folding(h, G, <<>>, s, D)
  <2> HIDE DEF D, V, S
  <2>1. \A T \in SUBSET D : T # {} =>
            G[h[T \ {Max(T)}]][s[Max(T)]]
              = Made(h[T \ {PlateCrops!Max(T)}], s[PlateCrops!Max(T)])
    <3>1. \A v \in W : \A e \in S : G[v][e] = Made(v, e)
        BY Zenon
    <3>2. \A T \in SUBSET D : h[T] \in W
        BY Zenon
    <3> HIDE DEF G, W
    <3> SUFFICES ASSUME NEW T \in SUBSET D, T # {}
                 PROVE  G[h[T \ {Max(T)}]][s[Max(T)]]
                          = Made(h[T \ {PlateCrops!Max(T)}], s[PlateCrops!Max(T)])
        OBVIOUS
    <3>3. PlateCrops!Max(T) = Max(T)
        BY CropsMax
    <3>4. G[h[T \ {Max(T)}]][s[Max(T)]] = Made(h[T \ {Max(T)}], s[Max(T)])
        BY <1>7, <3>1, <3>2, Zenon
    <3> QED BY ONLY <3>3, <3>4, Zenon
  <2> HIDE DEF G
  <2> QED BY <1>8, <2>1, Zenon DEF Folding
<1>10. \A v \in V : \A e \in S : G[v][e] = F[v][e]
    BY <1>3, Zenon
<1> HIDE DEF G, Eq
<1>11. FoldsTo(h[D], V, F, <<>>, s)
    BY ONLY <1>4, <1>5, <1>9, <1>10, s \in Seq(S), FoldsLike
<1> QED BY <1>6, <1>11 DEF F

\* The crops may be given together, and every generator was tried.
LEMMA MadeIs ==
    ASSUME NEW c, c.config.maximum_hypotheses \in Nat, NEW s \in Seq(PlateCrops!Kinds)
    PROVE  /\ MadeFrom(c, s) \in Crops(c)
           /\ \A i \in DOMAIN s : \A v :
                  OfferedBy(c, s[i]) = {v} => Tried(c.config, MadeFrom(c, s), v)
<1> DEFINE n == Len(s)
<1>1. n \in Nat /\ DOMAIN s = 1..n /\ \A k \in 1..n : s[k] \in PlateCrops!Kinds
    OBVIOUS
<1>2. PICK p \in [0..n -> Crops(c)] :
          /\ MadeFrom(c, s) = p[n]
          /\ \A k \in 1..n : p[k] = Offering(c)[p[k - 1]][s[k]]
  <2>1. FoldsTo(MadeFrom(c, s), Crops(c), Offering(c), <<>>, s)
      BY MadeFolds
  <2> QED BY <2>1 DEF FoldsTo
<1> HIDE DEF n
<1> DEFINE Missed(k, i, v) ==
               i \in 1..k /\ OfferedBy(c, s[i]) = {v} /\ ~Tried(c.config, p[k], v)
           B == {k \in 0..n : \E i, v : Missed(k, i, v)}
<1>3. ASSUME B # {} PROVE FALSE
  <2>1. B \in SUBSET Nat
      BY <1>1
  <2>2. PICK k \in B : \A l \in B : k <= l
    <3> HIDE DEF B
    <3> QED BY <1>3, <2>1, LeastNatural
  <2>3. PICK i, v : Missed(k, i, v)
      BY <2>2
  <2>4. k \in 1..n /\ k - 1 \in 0..n /\ k - 1 \notin B /\ i \in 1..n /\ k - 1 \in Nat
    <3>1. k \in 0..n /\ i \in 1..k
        BY <2>2, <2>3
    <3>2. k \in 1..n /\ k - 1 \in 0..n /\ i \in 1..n /\ ~(k <= k - 1) /\ k - 1 \in Nat
        BY <1>1, <3>1
    <3> HIDE DEF B
    <3> QED BY <2>2, <3>2
  <2> DEFINE m == p[k - 1]
  <2>5. m \in Crops(c) /\ p[k] \in Crops(c) /\ p[k] = Offering(c)[m][s[k]]
    <3>1. k \in 0..n
        BY <1>1, <2>4
    <3> QED BY <1>2, <2>4, <3>1
  <2> HIDE DEF m
  <2>6. /\ Extends(p[k], m)
        /\ OfferedBy(c, s[k]) = {v} => Tried(c.config, p[k], v)
      BY <1>1, <2>4, <2>5, OfferingIs
  <2>7. i # k
      BY <2>3, <2>6
  <2>8. i \in 1..(k - 1)
    <3>1. i \in 1..k
        BY <2>3
    <3> QED BY <2>4, <2>7, <3>1
  <2>9. Tried(c.config, m, v)
    <3>1. ~Missed(k - 1, i, v)
        BY <2>4
    <3> QED BY <2>3, <2>8, <3>1 DEF m
  <2>10. /\ m \in Seq(AllOffered(c)) /\ p[k] \in Seq(AllOffered(c)) /\ Proper(c.config, p[k])
      BY <2>5 DEF Crops
  <2>11. Tried(c.config, p[k], v)
      BY <2>6, <2>9, <2>10, TriedStays
  <2> QED BY <2>3, <2>11
<1>4. n \in 0..n
    BY <1>1
<1>5. p[n] \in Crops(c)
    BY <1>2, <1>4
<1>6. ASSUME NEW i \in DOMAIN s, NEW v, OfferedBy(c, s[i]) = {v}
      PROVE  Tried(c.config, p[n], v)
  <2>1. ~Missed(n, i, v)
      BY <1>3, <1>4
  <2> QED BY <1>1, <1>6, <2>1
<1> QED BY <1>2, <1>5, <1>6

-----------------------------------------------------------------------------
(* What a crop shows.                                                      *)

\* The crop is an aligned image or a region of the source.
Shows(c, h) ==
    \/ h.view.region = {}
    \/ \E r : /\ h.view = PlateCrops!ViewOf(c.source, r) /\ InImage(c.source, r)
              /\ h.type = "raw_bbox" => Held(c.source, r) = Touched(c.source, c.box)
              /\ h.type = "padded_bbox" => Touched(c.source, c.box) \subseteq Held(c.source, r)

Showing(c, made) ==
    \A i \in DOMAIN made :
        Shows(c, made[i]) /\ made[i].fingerprint = PlateCrops!Fingerprint(made[i].view)

LEMMA CropInputIs ==
    ASSUME NEW c \in CropInputs
    PROVE  /\ c.config.generator_order \in Seq(PlateCrops!Kinds)
           /\ c.config.maximum_hypotheses \in Nat
           /\ c.config.minimum_width \in Nat \ {0} /\ c.config.minimum_height \in Nat \ {0}
           /\ c.config.horizontal_padding \in Nat /\ c.config.vertical_padding \in Nat
           /\ c.config.left_inset \in Nat /\ c.config.right_inset \in Nat
           /\ c.config.vertical_inset \in Nat
           /\ IsSource(c.source) /\ IsBox(c.box)
<1>1. /\ c.config.generator_order \in Seq(PlateCrops!Kinds)
      /\ {c.config.maximum_hypotheses, c.config.minimum_width, c.config.minimum_height,
          c.config.horizontal_padding, c.config.vertical_padding, c.config.left_inset,
          c.config.right_inset, c.config.vertical_inset} \subseteq Int
      /\ PlateCrops!ConfigValid(c.config)
      /\ {c.source.width, c.source.height} \subseteq Nat
      /\ {c.box.x, c.box.y, c.box.width, c.box.height} \subseteq Int
    BY CropInputsAssumption
<1>2. /\ c.config.maximum_hypotheses \in 1..32
      /\ c.config.minimum_width > 0 /\ c.config.minimum_height > 0
      /\ {2 * c.config.horizontal_padding, 2 * c.config.vertical_padding} \subseteq 0..CropUnit
      /\ \A inset \in {c.config.left_inset, c.config.right_inset, c.config.vertical_inset} :
             inset >= 0
    BY <1>1 DEF PlateCrops!ConfigValid
<1>3. /\ c.config.maximum_hypotheses \in Int /\ c.config.minimum_width \in Int
      /\ c.config.minimum_height \in Int
      /\ c.config.horizontal_padding \in Int /\ c.config.vertical_padding \in Int
      /\ c.config.left_inset \in Int /\ c.config.right_inset \in Int
      /\ c.config.vertical_inset \in Int
    BY <1>1, Zenon
<1>4. c.config.horizontal_padding \in Nat /\ c.config.vertical_padding \in Nat
  <2> DEFINE h == c.config.horizontal_padding
             v == c.config.vertical_padding
  <2>1. 2 * h \in 0..CropUnit /\ 2 * v \in 0..CropUnit
      BY <1>2, Zenon
  <2>2. h \in Int /\ v \in Int
      BY <1>3
  <2> HIDE DEF h, v
  <2>3. h \in Nat /\ v \in Nat
      BY ONLY <2>1, <2>2, CropUnitIs
  <2> QED BY <2>3 DEF h, v
<1>5. /\ c.config.left_inset \in Nat /\ c.config.right_inset \in Nat
      /\ c.config.vertical_inset \in Nat
    BY <1>2, <1>3
<1>6. IsSource(c.source) /\ IsBox(c.box)
    BY <1>1 DEF IsSource, IsBox
<1>7. /\ c.config.maximum_hypotheses \in Nat
      /\ c.config.minimum_width \in Nat \ {0} /\ c.config.minimum_height \in Nat \ {0}
    BY <1>2, <1>3
<1> QED BY <1>1, <1>4, <1>5, <1>6, <1>7

LEMMA ViewIs ==
    ASSUME NEW source, NEW r
    PROVE  /\ PlateCrops!ViewOf(source, r).region = {r}
           /\ PlateCrops!ViewOf(source, r).width = r.width
           /\ PlateCrops!ViewOf(source, r).height = r.height
           /\ PlateCrops!ViewOf(source, r).pixels
                = IF source.plain THEN PlateCrops!PlainPixels ELSE <<r.x, r.y>>
BY DEF PlateCrops!ViewOf

LEMMA OfferedShows ==
    ASSUME NEW c \in CropInputs, NEW h \in AllOffered(c)
    PROVE  /\ Shows(c, h) /\ h.type \in PlateCrops!Kinds
           /\ h.fingerprint = PlateCrops!Fingerprint(h.view)
<1>1. PICK kind \in PlateCrops!Kinds : \E v \in OfferedBy(c, kind) : h = Hypothesis(v, kind)
    BY DEF AllOffered
<1>2. PICK v \in OfferedBy(c, kind) : h = Hypothesis(v, kind)
    BY <1>1
<1>3. h.view = v /\ h.type = kind /\ h.fingerprint = PlateCrops!Fingerprint(v)
    BY <1>2 DEF Hypothesis
<1>4. /\ IsSource(c.source) /\ IsBox(c.box)
      /\ c.config.horizontal_padding \in Nat /\ c.config.vertical_padding \in Nat
    BY CropInputIs
<1>5. kind \in {"rectified", "raw_bbox", "padded_bbox"}
    BY DEF PlateCrops!Kinds
<1>6. CASE kind = "rectified"
  <2>1. PICK a \in c.aligned : v = PlateCrops!AlignedView(a)
      BY <1>2, <1>6 DEF OfferedBy, PlateCrops!Offered
  <2>2. v.region = {}
      BY <2>1 DEF PlateCrops!AlignedView
  <2> QED BY <1>1, <1>3, <2>2 DEF Shows
<1>7. CASE kind = "raw_bbox"
  <2>1. PICK r \in PlateCrops!BboxRegion(c.box, c.source, 0, 0) :
            v = PlateCrops!ViewOf(c.source, r)
      BY <1>2, <1>7 DEF OfferedBy, PlateCrops!Offered
  <2>2. PadOf(c.box.width, 0) = 0 /\ PadOf(c.box.height, 0) = 0
      BY <1>4, NoPad DEF IsBox
  <2>3. InImage(c.source, r)
      BY <1>4, <2>2, BboxRegionIs
  <2>4. Held(c.source, r) = Touched(c.source, c.box)
      BY <1>4, <2>2, BboxHolds
  <2> QED BY <1>1, <1>3, <1>7, <2>1, <2>3, <2>4 DEF Shows
<1>8. CASE kind = "padded_bbox"
  <2> DEFINE hp == c.config.horizontal_padding
             vp == c.config.vertical_padding
  <2>1. PICK r \in PlateCrops!BboxRegion(c.box, c.source, hp, vp) :
            v = PlateCrops!ViewOf(c.source, r)
      BY <1>2, <1>8 DEF OfferedBy, PlateCrops!Offered
  <2>2. PlateCrops!BoxValid(c.box)
      BY <2>1, Zenon DEF PlateCrops!BboxRegion
  <2>3. PadOf(c.box.width, hp) \in Nat /\ PadOf(c.box.height, vp) \in Nat
    <3>1. c.box.width \in Nat /\ c.box.height \in Nat
        BY <1>4, <2>2 DEF IsBox, PlateCrops!BoxValid
    <3> QED BY <1>4, <3>1, PadIs
  <2> HIDE DEF hp, vp
  <2>4. InImage(c.source, r)
      BY <1>4, <2>3, BboxRegionIs
  <2>5. Touched(c.source, c.box) \subseteq Held(c.source, r)
      BY <1>4, <2>3, BboxHolds
  <2> QED BY <1>1, <1>3, <1>8, <2>1, <2>4, <2>5 DEF Shows
<1> QED BY <1>5, <1>6, <1>7, <1>8

-----------------------------------------------------------------------------
(* A source that the plate fills.                                          *)

WholeOf(source) == [x |-> 0, y |-> 0, width |-> source.width, height |-> source.height]
TextViews(c) ==
    {PlateCrops!ViewOf(c.source, r) : r \in PlateCrops!PlateTextRegion(c.source, c.config)}
AllDominant(c) ==
    {Hypothesis(PlateCrops!ViewOf(c.source, WholeOf(c.source)), "plate_dominant_source")}
      \cup {Hypothesis(v, "plate_dominant_text_region") : v \in TextViews(c)}

LEMMA TextRegionIs ==
    ASSUME NEW c \in CropInputs, NEW r \in PlateCrops!PlateTextRegion(c.source, c.config)
    PROVE  InImage(c.source, r)
<1> DEFINE W == c.source.width
           H == c.source.height
           x == PlateCrops!Floor(W * c.config.left_inset)
           inset == PlateCrops!Floor(W * c.config.right_inset)
           y == PlateCrops!Floor(H * c.config.vertical_inset)
<1>1. \A n \in Nat : PlateCrops!Floor(n) \in Nat
    BY CropUnitIs DEF PlateCrops!Floor
<1>2. W \in Nat /\ H \in Nat
    BY CropInputIs DEF IsSource
<1>3. /\ W * c.config.left_inset \in Nat /\ W * c.config.right_inset \in Nat
      /\ H * c.config.vertical_inset \in Nat
  <2>1. /\ c.config.left_inset \in Nat /\ c.config.right_inset \in Nat
        /\ c.config.vertical_inset \in Nat
      BY CropInputIs
  <2> HIDE DEF W, H
  <2> QED BY <1>2, <2>1
<1>4. x \in Nat /\ inset \in Nat /\ y \in Nat
    BY <1>1, <1>3
<1>5. r \in PlateCrops!Region(x, y, W - inset, H - y)
    BY DEF PlateCrops!PlateTextRegion
<1> HIDE DEF x, inset, y, W, H
<1>6. W - inset \in Int /\ H - y \in Int /\ W - inset <= W /\ H - y <= H
    BY <1>2, <1>4
<1>7. /\ r.x = x /\ r.y = y /\ r.x + r.width = W - inset /\ r.y + r.height = H - y
      /\ r.width \in Nat \ {0} /\ r.height \in Nat \ {0}
    BY <1>4, <1>5, <1>6, RegionIsOf
<1> QED BY <1>4, <1>6, <1>7 DEF InImage, W, H

LEMMA DominantShows ==
    ASSUME NEW c \in CropInputs, NEW h \in AllDominant(c), LargeEnough(c.config, h.view)
    PROVE  /\ Shows(c, h) /\ h.type \notin PlateCrops!Kinds
           /\ h.fingerprint = PlateCrops!Fingerprint(h.view)
<1>1. CASE h = Hypothesis(PlateCrops!ViewOf(c.source, WholeOf(c.source)), "plate_dominant_source")
  <2> DEFINE r == WholeOf(c.source)
  <2>1. /\ h.view = PlateCrops!ViewOf(c.source, r) /\ h.type = "plate_dominant_source"
        /\ h.fingerprint = PlateCrops!Fingerprint(h.view)
      BY <1>1 DEF Hypothesis
  <2>2. r.x = 0 /\ r.y = 0 /\ r.width = c.source.width /\ r.height = c.source.height
      BY DEF WholeOf
  <2> HIDE DEF r
  <2>3. r.width >= c.config.minimum_width /\ r.height >= c.config.minimum_height
    <3>1. h.view.width >= c.config.minimum_width /\ h.view.height >= c.config.minimum_height
        BY DEF LargeEnough
    <3>2. h.view.width = r.width /\ h.view.height = r.height
        BY <2>1 DEF PlateCrops!ViewOf
    <3> QED BY <3>1, <3>2
  <2>4. InImage(c.source, r)
    <3>1. /\ c.source.width \in Nat /\ c.source.height \in Nat
          /\ c.config.minimum_width \in Nat \ {0} /\ c.config.minimum_height \in Nat \ {0}
        BY CropInputIs DEF IsSource
    <3> QED BY <2>2, <2>3, <3>1 DEF InImage
  <2> QED BY <2>1, <2>4 DEF Shows, PlateCrops!Kinds
<1>2. CASE \E v \in TextViews(c) : h = Hypothesis(v, "plate_dominant_text_region")
  <2>1. PICK v \in TextViews(c) : h = Hypothesis(v, "plate_dominant_text_region")
      BY <1>2
  <2>2. PICK r \in PlateCrops!PlateTextRegion(c.source, c.config) :
            v = PlateCrops!ViewOf(c.source, r)
      BY DEF TextViews
  <2>3. /\ h.view = PlateCrops!ViewOf(c.source, r) /\ h.type = "plate_dominant_text_region"
        /\ h.fingerprint = PlateCrops!Fingerprint(h.view)
      BY <2>1, <2>2 DEF Hypothesis
  <2>4. InImage(c.source, r)
      BY TextRegionIs
  <2> QED BY <2>3, <2>4 DEF Shows, PlateCrops!Kinds
<1> QED BY <1>1, <1>2 DEF AllDominant

-----------------------------------------------------------------------------
(* generate.                                                               *)

LEMMA DominatedMade ==
    ASSUME NEW c \in CropInputs, PlateCrops!Dominates(c.box, c.source, c.config)
    PROVE  LET made == PlateCrops!Generate(c.config, c.source, c.box, c.aligned)
           IN  /\ Proper(c.config, made) /\ Showing(c, made)
               /\ \A i \in DOMAIN made : made[i].type \notin PlateCrops!Kinds
<1> DEFINE whole == {PlateCrops!ViewOf(c.source, WholeOf(c.source))}
           text == TextViews(c)
           first == PlateCrops!OfferedTo(c.config, <<>>, whole, "plate_dominant_source")
           made == PlateCrops!OfferedTo(c.config, first, text, "plate_dominant_text_region")
           X == AllDominant(c)
<1>1. PlateCrops!Generate(c.config, c.source, c.box, c.aligned) = made
    BY Zenon DEF PlateCrops!Generate, WholeOf, TextViews
<1>2. c.config.maximum_hypotheses \in Nat
    BY CropInputIs
<1>3. <<>> \in Seq(X) /\ Proper(c.config, <<>>)
  <2>1. <<>> \in Seq(X) /\ Len(<<>>) = 0 /\ DOMAIN <<>> = {}
      BY EmptySeq
  <2> QED BY <1>2, <2>1 DEF Proper, Distinct
<1>4. \A v \in whole : Hypothesis(v, "plate_dominant_source") \in X
    BY DEF AllDominant
<1>5. \A v \in text : Hypothesis(v, "plate_dominant_text_region") \in X
    BY DEF AllDominant
<1> HIDE DEF X, whole, text
<1>6. first \in Seq(X) /\ Proper(c.config, first)
    BY <1>2, <1>3, <1>4, OfferedToIs
<1> HIDE DEF first
<1>7. made \in Seq(X) /\ Proper(c.config, made)
    BY <1>2, <1>5, <1>6, OfferedToIs
<1> HIDE DEF made
<1>8. ASSUME NEW i \in DOMAIN made
      PROVE  /\ Shows(c, made[i]) /\ made[i].type \notin PlateCrops!Kinds
             /\ made[i].fingerprint = PlateCrops!Fingerprint(made[i].view)
  <2>1. made[i] \in AllDominant(c)
      BY <1>7, <1>8 DEF X
  <2>2. LargeEnough(c.config, made[i].view)
      BY <1>7, <1>8 DEF Proper
  <2> QED BY <2>1, <2>2, DominantShows
<1> QED BY <1>1, <1>7, <1>8 DEF Showing

LEMMA OrderMade ==
    ASSUME NEW c \in CropInputs, ~PlateCrops!Dominates(c.box, c.source, c.config)
    PROVE  LET made == PlateCrops!Generate(c.config, c.source, c.box, c.aligned)
           IN  /\ Proper(c.config, made) /\ Showing(c, made)
               /\ \A v : /\ OfferedBy(c, "raw_bbox") = {v}
                         /\ "raw_bbox" \in ToSet(c.config.generator_order)
                         => Tried(c.config, made, v)
<1> DEFINE order == c.config.generator_order
           made == MadeFrom(c, order)
<1>1. PlateCrops!Generate(c.config, c.source, c.box, c.aligned) = made
    BY Zenon DEF PlateCrops!Generate, MadeFrom, OfferedBy
<1>2. c.config.maximum_hypotheses \in Nat /\ order \in Seq(PlateCrops!Kinds)
    BY CropInputIs
<1> HIDE DEF order
<1>3. /\ made \in Crops(c)
      /\ \A i \in DOMAIN order : \A v :
             OfferedBy(c, order[i]) = {v} => Tried(c.config, made, v)
    BY <1>2, MadeIs
<1> HIDE DEF made
<1>4. made \in Seq(AllOffered(c)) /\ Proper(c.config, made)
    BY <1>3 DEF Crops
<1>5. Showing(c, made)
  <2> SUFFICES ASSUME NEW i \in DOMAIN made
               PROVE  /\ Shows(c, made[i])
                      /\ made[i].fingerprint = PlateCrops!Fingerprint(made[i].view)
      BY DEF Showing
  <2>1. made[i] \in AllOffered(c)
      BY <1>4
  <2> QED BY <2>1, OfferedShows
<1>6. ASSUME NEW v, OfferedBy(c, "raw_bbox") = {v}, "raw_bbox" \in ToSet(order)
      PROVE  Tried(c.config, made, v)
  <2>1. PICK i \in DOMAIN order : order[i] = "raw_bbox"
      BY <1>6 DEF ToSet
  <2> QED BY <1>3, <1>6, <2>1
<1> QED BY <1>1, <1>4, <1>5, <1>6 DEF order

-----------------------------------------------------------------------------
(* What the crops of a plate hold.                                         *)

Small(c, S) ==
    \/ Cardinality({p[1] : p \in S}) < c.config.minimum_width
    \/ Cardinality({p[2] : p \in S}) < c.config.minimum_height

LEMMA SamePlace ==
    ASSUME NEW source, NEW q, NEW r, q.x = r.x, q.y = r.y, q.width = r.width, q.height = r.height
    PROVE  Held(source, q) = Held(source, r)
BY DEF Held

LEMMA RegionsDiffer ==
    ASSUME NEW c, NEW made, Distinct(made), Showing(c, made), NEW i \in DOMAIN made,
           NEW j \in DOMAIN made, i # j
    PROVE  made[i].view.region = {} \/ made[i].view.region # made[j].view.region
<1> SUFFICES ASSUME made[i].view.region # {}, made[i].view.region = made[j].view.region
             PROVE  FALSE
    OBVIOUS
<1>1. made[j].view.region # {}
    OBVIOUS
<1>2. PICK q : made[i].view = PlateCrops!ViewOf(c.source, q)
    BY DEF Showing, Shows
<1>3. PICK r : made[j].view = PlateCrops!ViewOf(c.source, r)
    BY <1>1 DEF Showing, Shows
<1>4. made[i].view.region = {q} /\ made[j].view.region = {r}
    BY <1>2, <1>3 DEF PlateCrops!ViewOf
<1>5. q = r
    BY <1>4
<1>6. made[i].fingerprint = made[j].fingerprint
    BY <1>2, <1>3, <1>5 DEF Showing
<1> QED BY <1>6 DEF Distinct

LEMMA RegionHolds ==
    ASSUME NEW c, NEW made, IsSource(c.source), Proper(c.config, made), Showing(c, made),
           c.config.minimum_width \in Nat, c.config.minimum_height \in Nat,
           NEW i \in DOMAIN made, NEW r \in made[i].view.region
    PROVE  /\ r.x + r.width <= c.source.width /\ r.y + r.height <= c.source.height
           /\ made[i].type = "raw_bbox" => Held(c.source, r) = Touched(c.source, c.box)
           /\ made[i].type = "padded_bbox" => Touched(c.source, c.box) \subseteq Held(c.source, r)
           /\ ~Small(c, Held(c.source, r))
<1>1. made[i].view.region # {}
    OBVIOUS
<1>2. PICK q : /\ made[i].view = PlateCrops!ViewOf(c.source, q) /\ InImage(c.source, q)
               /\ made[i].type = "raw_bbox" => Held(c.source, q) = Touched(c.source, c.box)
               /\ made[i].type = "padded_bbox" =>
                      Touched(c.source, c.box) \subseteq Held(c.source, q)
    BY <1>1 DEF Showing, Shows
<1>3. q = r /\ made[i].view.width = r.width /\ made[i].view.height = r.height
    BY <1>2 DEF PlateCrops!ViewOf
<1>4. r.width >= c.config.minimum_width /\ r.height >= c.config.minimum_height
    BY <1>3 DEF Proper, LargeEnough
<1>5. InImage(c.source, r)
    BY <1>2, <1>3
<1>6. ~Small(c, Held(c.source, r))
  <2>1. /\ Cardinality({p[1] : p \in Held(c.source, r)}) = r.width
        /\ Cardinality({p[2] : p \in Held(c.source, r)}) = r.height
      BY <1>5, HeldIs
  <2>2. r.width \in Nat /\ r.height \in Nat
      BY <1>5 DEF InImage
  <2> QED BY <1>4, <2>1, <2>2 DEF Small
<1> QED BY <1>2, <1>3, <1>5, <1>6 DEF InImage

\* Of a box that is large enough in the image there is a crop, unless another is alike.
LEMMA BoxIsCropped ==
    ASSUME NEW c \in CropInputs, NEW made, Showing(c, made),
           ~Small(c, Touched(c.source, c.box)), Len(made) # c.config.maximum_hypotheses,
           \A v : OfferedBy(c, "raw_bbox") = {v} => Tried(c.config, made, v)
    PROVE  \E i \in DOMAIN made :
               \/ \E r \in made[i].view.region : Held(c.source, r) = Touched(c.source, c.box)
               \/ c.source.plain \/ made[i].view.region = {}
<1>1. /\ IsSource(c.source) /\ IsBox(c.box)
      /\ c.config.minimum_width \in Nat \ {0} /\ c.config.minimum_height \in Nat \ {0}
    BY CropInputIs
<1> DEFINE T == Touched(c.source, c.box)
<1>2. T # {}
  <2> SUFFICES ASSUME T = {} PROVE FALSE
      OBVIOUS
  <2>1. {p[1] : p \in T} = {}
      OBVIOUS
  <2>2. Cardinality({p[1] : p \in T}) = 0
      BY <2>1, FS_EmptySet
  <2> HIDE DEF T
  <2>3. Small(c, T)
      BY <1>1, <2>2 DEF Small
  <2> QED BY <2>3 DEF T
<1>3. PICK r : PlateCrops!BboxRegion(c.box, c.source, 0, 0) = {r}
    BY <1>1, <1>2, TouchedHasCrop
<1>4. InImage(c.source, r) /\ Held(c.source, r) = T
  <2>1. PadOf(c.box.width, 0) = 0 /\ PadOf(c.box.height, 0) = 0
      BY <1>1, NoPad DEF IsBox
  <2>2. r \in PlateCrops!BboxRegion(c.box, c.source, 0, 0)
      BY <1>3
  <2>3. InImage(c.source, r)
      BY <1>1, <2>1, <2>2, BboxRegionIs
  <2>4. Held(c.source, r) = Touched(c.source, c.box)
      BY <1>1, <2>1, <2>2, BboxHolds
  <2> QED BY <2>3, <2>4
<1> DEFINE v == PlateCrops!ViewOf(c.source, r)
<1>5. OfferedBy(c, "raw_bbox") = {v}
    BY <1>3 DEF OfferedBy, PlateCrops!Offered
<1>6. LargeEnough(c.config, v)
  <2>1. /\ Cardinality({p[1] : p \in Held(c.source, r)}) = r.width
        /\ Cardinality({p[2] : p \in Held(c.source, r)}) = r.height
      BY <1>1, <1>4, HeldIs
  <2>2. r.width \in Nat /\ r.height \in Nat
      BY <1>4 DEF InImage
  <2>3. v.width = r.width /\ v.height = r.height
      BY DEF PlateCrops!ViewOf
  <2>4. ~Small(c, Held(c.source, r))
      BY <1>4
  <2> HIDE DEF v, T
  <2> QED BY <1>1, <2>1, <2>2, <2>3, <2>4 DEF LargeEnough, Small
<1>7. PICK i \in DOMAIN made : made[i].fingerprint = PlateCrops!Fingerprint(v)
    BY <1>5, <1>6 DEF Tried
<1>8. CASE made[i].view.region = {} \/ c.source.plain
    BY <1>8
<1>9. CASE made[i].view.region # {} /\ ~c.source.plain
  <2>1. PICK q : made[i].view = PlateCrops!ViewOf(c.source, q)
      BY <1>9 DEF Showing, Shows
  <2>2. PlateCrops!Fingerprint(PlateCrops!ViewOf(c.source, q)) = PlateCrops!Fingerprint(v)
      BY <1>7, <2>1 DEF Showing
  <2>3. \A p : PlateCrops!Fingerprint(PlateCrops!ViewOf(c.source, p))
                 = <<p.width, p.height, <<p.x, p.y>>>>
      BY <1>9 DEF PlateCrops!Fingerprint, PlateCrops!ViewOf
  <2>4. <<q.width, q.height, <<q.x, q.y>>>> = <<r.width, r.height, <<r.x, r.y>>>>
      BY <2>2, <2>3
  <2>5. Held(c.source, q) = Held(c.source, r)
      BY <2>4, SamePlace
  <2>6. q \in made[i].view.region
      BY <2>1 DEF PlateCrops!ViewOf
  <2> QED BY <1>4, <2>5, <2>6
<1> QED BY <1>8, <1>9

CropInv == input.of = "crop" => input.crop \in CropInputs

CropsCover(c, made) ==
    /\ Len(made) <= c.config.maximum_hypotheses
    /\ \A i, j \in DOMAIN made : i # j =>
           made[i].view.region = {} \/ made[i].view.region # made[j].view.region
    /\ \A i \in DOMAIN made : \A r \in made[i].view.region :
           /\ r.x + r.width <= c.source.width /\ r.y + r.height <= c.source.height
           /\ made[i].type = "raw_bbox" => Held(c.source, r) = Touched(c.source, c.box)
           /\ made[i].type = "padded_bbox" => Touched(c.source, c.box) \subseteq Held(c.source, r)
           /\ ~Small(c, Held(c.source, r))
    /\ (\E i \in DOMAIN made : made[i].type \in PlateCrops!Kinds)
           => ~PlateCrops!Dominates(c.box, c.source, c.config)
    /\ \/ PlateCrops!Dominates(c.box, c.source, c.config) \/ Small(c, Touched(c.source, c.box))
       \/ Len(made) = c.config.maximum_hypotheses
       \/ "raw_bbox" \notin ToSet(c.config.generator_order)
       \/ \E i \in DOMAIN made :
              \/ \E r \in made[i].view.region : Held(c.source, r) = Touched(c.source, c.box)
              \/ c.source.plain \/ made[i].view.region = {}

LEMMA CoverIsPlate ==
    ASSUME input.of = "crop" =>
               \A made \in {PlateCrops!Generate(input.crop.config, input.crop.source,
                                               input.crop.box, input.crop.aligned)} :
                   CropsCover(input.crop, made)
    PROVE  CropsCoverPlate
BY Zenon DEF CropsCoverPlate, CropsCover, Held, Touched, Small, PixelsOf

LEMMA CropsAreCover ==
    ASSUME NEW c \in CropInputs
    PROVE  CropsCover(c, PlateCrops!Generate(c.config, c.source, c.box, c.aligned))
<1> DEFINE made == PlateCrops!Generate(c.config, c.source, c.box, c.aligned)
           filled == PlateCrops!Dominates(c.box, c.source, c.config)
           T == Touched(c.source, c.box)
<1>1. /\ IsSource(c.source) /\ c.config.maximum_hypotheses \in Nat
      /\ c.config.minimum_width \in Nat /\ c.config.minimum_height \in Nat
    BY CropInputIs
<1>2. /\ Proper(c.config, made) /\ Showing(c, made)
      /\ filled => \A i \in DOMAIN made : made[i].type \notin PlateCrops!Kinds
      /\ ~filled /\ "raw_bbox" \in ToSet(c.config.generator_order) =>
             \A v : OfferedBy(c, "raw_bbox") = {v} => Tried(c.config, made, v)
  <2>1. CASE filled
    <3> HIDE DEF made
    <3>1. /\ Proper(c.config, made) /\ Showing(c, made)
          /\ \A i \in DOMAIN made : made[i].type \notin PlateCrops!Kinds
        BY <2>1, DominatedMade DEF made
    <3> HIDE DEF filled
    <3> QED BY <2>1, <3>1
  <2>2. CASE ~filled
    <3> HIDE DEF made
    <3>1. /\ Proper(c.config, made) /\ Showing(c, made)
          /\ \A v : /\ OfferedBy(c, "raw_bbox") = {v}
                    /\ "raw_bbox" \in ToSet(c.config.generator_order)
                    => Tried(c.config, made, v)
        BY <2>2, OrderMade DEF made
    <3> HIDE DEF filled
    <3> QED BY <2>2, <3>1
  <2> QED BY <2>1, <2>2
<1> HIDE DEF made, filled
<1>4. Len(made) <= c.config.maximum_hypotheses
    BY <1>2 DEF Proper
<1>5. \A i, j \in DOMAIN made : i # j =>
          made[i].view.region = {} \/ made[i].view.region # made[j].view.region
    BY <1>2, RegionsDiffer DEF Proper
<1>6. \A i \in DOMAIN made : \A r \in made[i].view.region :
          /\ r.x + r.width <= c.source.width /\ r.y + r.height <= c.source.height
          /\ made[i].type = "raw_bbox" => Held(c.source, r) = T
          /\ made[i].type = "padded_bbox" => T \subseteq Held(c.source, r)
          /\ ~Small(c, Held(c.source, r))
    BY <1>1, <1>2, RegionHolds
<1>7. (\E i \in DOMAIN made : made[i].type \in PlateCrops!Kinds) => ~filled
    BY <1>2
<1>8. \/ filled \/ Small(c, T)
      \/ Len(made) = c.config.maximum_hypotheses
      \/ "raw_bbox" \notin ToSet(c.config.generator_order)
      \/ \E i \in DOMAIN made : \/ \E r \in made[i].view.region : Held(c.source, r) = T
                                \/ c.source.plain \/ made[i].view.region = {}
    BY <1>2, BoxIsCropped
<1> QED BY <1>4, <1>5, <1>6, <1>7, <1>8, Zenon DEF CropsCover, made, filled

LEMMA CropsHold == CropInv => CropsCoverPlate
BY CropsAreCover, CoverIsPlate DEF CropInv

\* CropHypothesisGenerator::generate: whatever the plate, the source and the order
\* of the generators, the recognizers are given no pixels twice, and the crop of
\* the box holds exactly the pixels that the box touches.
THEOREM CropsAlwaysCoverPlate == Spec => []CropsCoverPlate
<1>1. Init => CropInv
  <2> SUFFICES ASSUME FirstInputs PROVE CropInv
      BY InitIsFirst
  <2> QED BY DEF FirstInputs, CropInv
<1>2. CropInv /\ [Next]_<<input, viewsVars>> => CropInv'
  <2> SUFFICES ASSUME CropInv, [Next]_<<input, viewsVars>> PROVE CropInv'
      OBVIOUS
  <2>1. CASE input' = input
      BY <2>1 DEF CropInv
  <2>2. CASE NextInputs
      BY <2>2 DEF NextInputs, CropInv
  <2> QED BY <2>1, <2>2, StepIsNext
<1> QED BY <1>1, <1>2, CropsHold, PTL DEF Spec
================================================================================
