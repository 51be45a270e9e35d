------------------------------- MODULE ImageViews -------------------------------
(***************************************************************************)
(* Views of an image in the caller's buffer: their validation              *)
(* (src/application/image_validation.cpp) and the crops taken of them      *)
(* (src/infrastructure/native_image/native_image.cpp), in the arithmetic   *)
(* of size_t.                                                              *)
(*                                                                         *)
(* A view is [offset, bytes, width, height, stride, channels]: its span is *)
(* the bytes bytes from offset on in the buffer.  An operation that may    *)
(* throw is the set of its results, empty when it throws.                  *)
(*                                                                         *)
(* The state is a view of the caller, a view it has become by being        *)
(* cropped again and again, and where in the first one the second begins.  *)
(***************************************************************************)
EXTENDS Integers

CONSTANTS
    size_max,               \* the largest size_t
    max_image_width, max_image_height, max_image_bytes,
    Views,                  \* what a caller may hand in, sound or not
    Regions,                \* where it may be cropped
    Destinations            \* what a crop may be copied to

ASSUME SizeAssumption ==
    /\ size_max \in Nat \ {0}
    /\ {max_image_width, max_image_height, max_image_bytes} \subseteq 1..size_max

SizeT == 0..size_max
ASSUME ViewsAssumption ==
    /\ \A v \in Views :
           /\ v = [offset |-> v.offset, bytes |-> v.bytes, width |-> v.width,
                   height |-> v.height, stride |-> v.stride, channels |-> v.channels]
           /\ v.offset \in Nat /\ v.channels \in {1, 3}
           /\ {v.bytes, v.width, v.height, v.stride} \subseteq SizeT
    /\ Regions \subseteq [x : SizeT, y : SizeT, width : SizeT, height : SizeT]
    /\ \A d \in Destinations : {d.bytes, d.width, d.height, d.stride} \subseteq SizeT

VARIABLES
    owned,      \* the caller's view
    view,       \* the view cropped from it
    origin      \* column and row of the first pixel of view in owned

viewsVars == <<owned, view, origin>>

CheckedAdd(left, right) == IF right > size_max - left THEN {} ELSE {left + right}

\* Mutant: the product wraps around.
MultiplyWraps(left, right) == {(left * right) % (size_max + 1)}

CheckedMultiply(left, right) ==
    IF left # 0 /\ right > size_max \div left THEN {} ELSE {left * right}

\* Bytes from the first of a view to the last one its pixels use.
StridedExtent(stride, height, row) ==
    UNION {CheckedAdd(tail, row) : tail \in CheckedMultiply(stride, height - 1)}

Validates(v) ==
    /\ v.width \in 1..max_image_width /\ v.height \in 1..max_image_height
    /\ v.bytes \in 1..max_image_bytes
    /\ \E row \in CheckedMultiply(v.width, v.channels) :
           /\ v.stride >= row
           /\ \E required \in StridedExtent(v.stride, v.height, row) :
                  required <= v.bytes /\ required <= max_image_bytes

RegionInside(width, height, region) ==
    /\ region.width # 0 /\ region.height # 0
    /\ \E right \in CheckedAdd(region.x, region.width) : right <= width
    /\ \E bottom \in CheckedAdd(region.y, region.height) : bottom <= height

\* crop_bytes: where the span of the crop begins in that of the source, and its
\* length.
CropBytes(v, region) ==
    {b \in {<<offset, required>> :
               offset \in UNION {CheckedAdd(y, x) :
                                    y \in CheckedMultiply(region.y, v.stride),
                                    x \in CheckedMultiply(region.x, v.channels)},
               required \in UNION {StridedExtent(v.stride, region.height, row) :
                                    row \in CheckedMultiply(region.width, v.channels)}} :
        b[1] <= v.bytes /\ b[2] <= v.bytes - b[1]}

MakeCropView(v, region) ==
    IF ~RegionInside(v.width, v.height, region) THEN {}
    ELSE {[offset |-> v.offset + b[1], bytes |-> b[2], width |-> region.width,
           height |-> region.height, stride |-> v.stride, channels |-> v.channels] :
             b \in CropBytes(v, region)}

\* copy_crop: the offsets of the rows it writes in the destination, with the
\* bytes it writes in each.
CopyCrop(v, region, destination) ==
    {[rows |-> {y * destination.stride : y \in 0..(crop.height - 1)}, row |-> row] :
        crop \in {c \in MakeCropView(v, region) :
                     /\ destination.width = c.width /\ destination.height = c.height
                     /\ destination.channels = c.channels},
        row \in {r \in CheckedMultiply(region.width, v.channels) :
                     /\ destination.stride >= r
                     /\ \E n \in StridedExtent(destination.stride, destination.height, r) :
                            n <= destination.bytes}}

-----------------------------------------------------------------------------
(* Crops of crops.                                                         *)

ViewsInit == owned \in Views /\ view = owned /\ origin = <<0, 0>>

\* An image that was validated, or a crop of it, is cropped.
Crop ==
    /\ Validates(owned)
    /\ \E r \in Regions :
           /\ view' \in MakeCropView(view, r)
           /\ origin' = <<origin[1] + r.x, origin[2] + r.y>>
    /\ UNCHANGED owned

-----------------------------------------------------------------------------
(* Properties.                                                             *)

RowBytes(v) == v.width * v.channels
Extent(v) == (v.height - 1) * v.stride + RowBytes(v)
Address(v, x, y) == v.offset + y * v.stride + x * v.channels
Within(r, v) ==
    /\ r.width > 0 /\ r.x + r.width <= v.width
    /\ r.height > 0 /\ r.y + r.height <= v.height

Shifted(r, at) ==
    [x |-> r.x + at[1], y |-> r.y + at[2], width |-> r.width, height |-> r.height]

\* validate_image: in the arithmetic of size_t, an image is accepted exactly if
\* all its rows lie in its buffer.
AcceptedIfInside(v) ==
    Validates(v) <=>
        /\ v.width \in 1..max_image_width /\ v.height \in 1..max_image_height
        /\ v.bytes <= max_image_bytes
        /\ RowBytes(v) <= v.stride /\ Extent(v) <= v.bytes

\* A view of an image lies in the caller's buffer and shows the image's pixels.
LiesInside(v, whole, at) ==
    /\ v.offset >= whole.offset
    /\ v.offset + Extent(v) <= whole.offset + whole.bytes
    /\ Address(v, 0, 0) = Address(whole, at[1], at[2])

\* make_crop_view: a region that lies in the view is cropped, to the same view as
\* from the whole image; any other one, those whose ends overflow included, is
\* refused.
CropsExactly(v, whole, at, r) ==
    IF Within(r, v)
    THEN \E c \in MakeCropView(v, r) :
             /\ Address(c, 0, 0) = Address(v, r.x, r.y)
             /\ MakeCropView(whole, Shifted(r, at)) = {c}
    ELSE MakeCropView(v, r) = {}

\* copy_crop: every row written lies in the destination.
CopiesInside(v, r, d) ==
    \A copy \in CopyCrop(v, r, d) : \A at \in copy.rows : at + copy.row <= d.bytes

\* validate_image, make_crop_view and copy_crop: whatever a validated image is
\* cropped to, again and again, stays in the caller's buffer, is itself accepted
\* and shows the pixels it should; and nothing is copied out of a destination.
ViewsStayInside ==
    /\ AcceptedIfInside(view)
    /\ Validates(owned) =>
           /\ Validates(view) /\ LiesInside(view, owned, origin)
           /\ \A r \in Regions :
                  /\ CropsExactly(view, owned, origin, r)
                  /\ \A d \in Destinations : CopiesInside(view, r, d)
==============================================================================
