------------------------------- MODULE Images -------------------------------
(***************************************************************************)
(* Owners and borrowers of pixel storage (image.cpp, rasterforge.hpp,      *)
(* composite.cpp, pixel_transform.cpp, example/consumer/external_rgba.hpp):*)
(* a caller creates, moves, assigns, destroys, views and writes images,    *)
(* makes new ones out of views and copies them into another library's      *)
(* image.  heap holds the storage of every std::vector that is not empty;  *)
(* an object exists while its slot is in the domain of object or copy.     *)
(***************************************************************************)
EXTENDS DecodeLimits

CONSTANTS
  ImageSlots,      \* variables of type Image
  DecodedSlots,    \* variables of type DecodedImage
  ViewSlots,       \* variables of type ImageView or MutableImageView
  CopySlots,       \* variables of type external_rgba::Image
  Buffers,         \* addresses
  NoBuffer,        \* of an empty vector
  RequestExtents,  \* extents asked for or decoded
  CallLimits,      \* the Limits of every call
  MaxWrites        \* bound on the pixels a caller writes

VARIABLES
  object,   \* image of each live Image and DecodedImage
  encoded,  \* encoded_extent_ of each live DecodedImage
  heap,     \* pixels of each allocated buffer
  view,     \* views the caller holds and may use
  copy,     \* live external images
  result,   \* how the last call ended
  writes,   \* pixels written
  taken     \* observed: what each external image was copied from

vars == <<object, encoded, heap, view, copy, result, writes, taken>>

(* A variable has one type, and a caller can only ask for what an Extent   *)
(* and a Limits can say.                                                   *)
ASSUME ImagesAssumption ==
  /\ NoBuffer \notin Buffers
  /\ ImageSlots \cap DecodedSlots = {}
  /\ RequestExtents \subseteq Extent
  /\ CallLimits \in Limits

Colors == {"blank", "ink"}

Put(f, key, value) ==
  [k \in (DOMAIN f) \cup {key} |-> IF k = key THEN value ELSE f[k]]

Without(f, keys) == [k \in (DOMAIN f) \ keys |-> f[k]]

Empty == [k \in {} |-> k]

NoExtent == [width |-> 0, height |-> 0]

EmptyImage == [extent |-> NoExtent, stride |-> 0, buffer |-> NoBuffer]

Init ==
  /\ object = Empty /\ encoded = Empty /\ heap = Empty
  /\ view = Empty /\ copy = Empty /\ taken = Empty
  /\ result = "ok"
  /\ writes = 0

(* The error is returned and nothing else happened.  Errors for what the   *)
(* caller asked, for a limit and for memory are one outcome, "refused".    *)
Fail(code) ==
  /\ result' = code
  /\ UNCHANGED <<object, encoded, heap, view, copy, writes, taken>>

Refuse == Fail("refused")

-----------------------------------------------------------------------------
(* Views.  A view is the buffer, extent and stride of its image.           *)

ViewOf(slot) == object[slot]

InHand == {view[v] : v \in DOMAIN view} \cup {ViewOf(s) : s \in DOMAIN object}

(* Mutant: the stride is counted in bytes.                                 *)
RowStartBytes(v, y) == y * v.stride

RowStart(v, y) == y * (v.stride \div BytesPerPixel)

(* ImageView::row and MutableImageView::row.                               *)
Row(v, y) ==
  IF y >= v.extent.height THEN Err("row_out_of_range")
  ELSE Ok([x \in 0 .. v.extent.width - 1 |-> heap[v.buffer][RowStart(v, y) + x]])

Borrow ==
  /\ \E v \in ViewSlots, s \in DOMAIN object : view' = Put(view, v, ViewOf(s))
  /\ result' = "ok"
  /\ UNCHANGED <<object, encoded, heap, copy, writes, taken>>

(* A pixel of an Image is written through its mutable view; a DecodedImage *)
(* gives read-only ones.                                                   *)
Write ==
  /\ writes < MaxWrites
  /\ \E s \in ImageSlots \cap DOMAIN object :
       \E x \in 0 .. ViewOf(s).extent.width - 1,
          y \in 0 .. ViewOf(s).extent.height - 1 :
         heap' = [heap EXCEPT
                    ![object[s].buffer][RowStart(ViewOf(s), y) + x] = "ink"]
  /\ writes' = writes + 1
  /\ result' = "ok"
  /\ UNCHANGED <<object, encoded, view, copy, taken>>

-----------------------------------------------------------------------------
(* Image: creation, moves, destruction.                                    *)

Points(extent) == (0 .. extent.width - 1) \X (0 .. extent.height - 1)

(* Image::create, and the rows that are written before the image is        *)
(* returned: pixels is what they write.                                    *)
NewImage(slot, extent, pixels) ==
  LET layout == CheckedDecodeLayout(extent, FALSE, CallLimits)
      width  == extent.width
  IN  IF ~layout.ok THEN Refuse
      ELSE \/ Refuse
           \/ \E b \in Buffers \ DOMAIN heap :
                /\ heap' = Put(heap, b,
                               [i \in 0 .. layout.value.pixel_count - 1 |->
                                  pixels[<<i % width, i \div width>>]])
                /\ object' = Put(object, slot,
                                 [ extent |-> extent,
                                   stride |-> layout.value.row_bytes,
                                   buffer |-> b ])
                /\ result' = "ok"
                /\ UNCHANGED <<view, copy, writes, taken>>

Blank(extent) == [p \in Points(extent) |-> "blank"]

Create ==
  \E s \in ImageSlots \ DOMAIN object, e \in RequestExtents :
    NewImage(s, e, Blank(e)) /\ UNCHANGED encoded

(* decode returned: its image has the encoded extent or its transpose.     *)
Decode ==
  \E s \in DecodedSlots \ DOMAIN object, e \in RequestExtents :
    \E output \in {e, Transposed(e)} :
      /\ NewImage(s, output, Blank(output))
      /\ encoded' = IF s \in DOMAIN object' THEN Put(encoded, s, e) ELSE encoded

(* Mutant: the defaulted move, which empties the vector alone.             *)
MovedFromDefaulted(image) == [image EXCEPT !.buffer = NoBuffer]

(* What a move leaves behind.                                              *)
MovedFrom(image) == EmptyImage

SameType(s, t) == {s, t} \subseteq ImageSlots \/ {s, t} \subseteq DecodedSlots

(* A DecodedImage moves its image and copies the rest.                     *)
CopyMetadata(from, to) ==
  encoded' = IF from \in DecodedSlots THEN Put(encoded, to, encoded[from])
             ELSE encoded

MoveConstruct ==
  \E from \in DOMAIN object, to \in (ImageSlots \cup DecodedSlots) \ DOMAIN object :
    /\ SameType(from, to)
    /\ object' = Put([object EXCEPT ![from] = MovedFrom(@)], to, object[from])
    /\ CopyMetadata(from, to)
    /\ result' = "ok"
    /\ UNCHANGED <<heap, view, copy, writes, taken>>

(* Storage is returned and views of it expire: the caller stops using them *)
(* (README "must not outlive that owner").                                 *)
Free(buffer) ==
  /\ heap' = Without(heap, {buffer})
  /\ view' = Without(view, {v \in DOMAIN view : /\ view[v].buffer = buffer
                                                /\ buffer # NoBuffer})

(* Mutant: an image is assigned to itself like any other.                  *)
AssignUnguarded(from, to) ==
  /\ object' = [object EXCEPT ![to] = object[from], ![from] = MovedFrom(@)]
  /\ Free(object[to].buffer)

(* Image::operator=: nothing happens to an image assigned to itself.       *)
Assign(from, to) ==
  IF from = to THEN UNCHANGED <<object, heap, view>>
  ELSE /\ object' = [object EXCEPT ![to] = object[from], ![from] = MovedFrom(@)]
       /\ Free(object[to].buffer)

MoveAssign ==
  \E from, to \in DOMAIN object :
    /\ SameType(from, to)
    /\ Assign(from, to)
    /\ CopyMetadata(from, to)
    /\ result' = "ok"
    /\ UNCHANGED <<copy, writes, taken>>

Destroy ==
  \E s \in DOMAIN object :
    /\ object' = Without(object, {s})
    /\ encoded' = Without(encoded, {s})
    /\ Free(object[s].buffer)
    /\ result' = "ok"
    /\ UNCHANGED <<copy, writes, taken>>

-----------------------------------------------------------------------------
(* Operations that borrow views and return an image of their own.          *)

(* source_over_srgba on two colors.                                        *)
Over(source, backdrop) == IF source = "ink" THEN "ink" ELSE backdrop

(* The pixel of a view at a point of it.                                   *)
PixelAt(v, p) == Row(v, p[2]).value[p[1]]

(* Mutant: a backdrop is good when it is wide enough.                      *)
WidthCovered(source, backdrop) ==
  source.extent.width <= backdrop.extent.width

ExtentsMatch(source, backdrop) == source.extent = backdrop.extent

(* composite_over of two views.  A row the backdrop does not have would    *)
(* be the call's error, and the output made so far is gone.                *)
CompositeOver ==
  \E to \in ImageSlots \ DOMAIN object, source, backdrop \in InHand :
    LET pixels == [p \in Points(source.extent) |->
                     Over(PixelAt(source, p), PixelAt(backdrop, p))]
    IN  /\ IF ~ExtentsMatch(source, backdrop) THEN Refuse
           ELSE IF \E y \in 0 .. source.extent.height - 1 :
                     ~Row(backdrop, y).ok
           THEN Fail("row_out_of_range")
           ELSE NewImage(to, source.extent, pixels)
        /\ UNCHANGED encoded

(* composite_over on one color, tint, dim and adjust_opacity: one pixel    *)
(* function of the source.                                                 *)
TransformPixels ==
  \E to \in ImageSlots \ DOMAIN object, source \in InHand, backdrop \in Colors :
    LET pixels == [p \in Points(source.extent) |->
                     Over(PixelAt(source, p), backdrop)]
    IN  NewImage(to, source.extent, pixels) /\ UNCHANGED encoded

(* A factor that is not finite is refused whatever the view is.            *)
RefuseFactor == InHand # {} /\ Refuse

-----------------------------------------------------------------------------
(* external_rgba.                                                          *)

(* Mutant: every row copied is the first one.                              *)
CopyPixelsFirstRow(source, b) ==
  LET width == source.extent.width
  IN  Put(heap, b,
          [i \in 0 .. width * source.extent.height - 1 |->
             Row(source, 0).value[i % width]])

(* The loop of copy_to_external_rgba8, tightly packed.                     *)
CopyPixels(source, b) ==
  LET width == source.extent.width
  IN  Put(heap, b,
          [i \in 0 .. width * source.extent.height - 1 |->
             Row(source, i \div width).value[i % width]])

CopyToExternal ==
  \E c \in CopySlots \ DOMAIN copy, source \in InHand :
    LET width  == source.extent.width
        height == source.extent.height
    IN  IF width = 0 \/ height = 0 THEN Refuse
        ELSE IF width > SizeMax \div BytesPerPixel \/ height > SizeMax \div width
        THEN Refuse
        ELSE \/ Refuse
             \/ \E b \in Buffers \ DOMAIN heap :
                  /\ heap' = CopyPixels(source, b)
                  /\ copy' = Put(copy, c, [ width |-> width, height |-> height,
                                            stride |-> BytesPerPixel * width,
                                            buffer |-> b ])
                  /\ taken' = Put(taken, c, [y \in 0 .. height - 1 |->
                                               Row(source, y).value])
                  /\ result' = "ok"
                  /\ UNCHANGED <<object, encoded, view, writes>>

(* The defaulted move: the vector is emptied, the dimensions stay.         *)
MoveCopy ==
  \E from \in DOMAIN copy, to \in CopySlots \ DOMAIN copy :
    /\ copy' = Put([copy EXCEPT ![from].buffer = NoBuffer], to, copy[from])
    /\ taken' = Put(taken, to, taken[from])
    /\ result' = "ok"
    /\ UNCHANGED <<object, encoded, heap, view, writes>>

DestroyCopy ==
  \E c \in DOMAIN copy :
    /\ copy' = Without(copy, {c})
    /\ taken' = Without(taken, {c})
    /\ heap' = Without(heap, {copy[c].buffer})
    /\ result' = "ok"
    /\ UNCHANGED <<object, encoded, view, writes>>

Next ==
  \/ Borrow \/ Write
  \/ Create \/ Decode \/ MoveConstruct \/ MoveAssign \/ Destroy
  \/ CompositeOver \/ TransformPixels \/ RefuseFactor
  \/ CopyToExternal \/ MoveCopy \/ DestroyCopy

Spec == Init /\ [][Next]_vars

-----------------------------------------------------------------------------

Owns(image, buffer) == image.buffer = buffer

(* Extent, stride and storage move together: an image is empty in all      *)
(* three or its storage is allocated and as large as its extent says, so a *)
(* moved-from Image or DecodedImage is a safe empty owner whatever metadata*)
(* it keeps; every buffer has exactly one owner, so none is leaked, shared *)
(* or freed twice; and the extents of a decoded image that has pixels      *)
(* belong to it (test/10image "A moved-from Image is a safe empty owner"). *)
Shaped(image) ==
  /\ image.buffer \in DOMAIN heap
  /\ image.extent.width > 0 /\ image.extent.height > 0
  /\ image.stride = BytesPerPixel * image.extent.width
  /\ DOMAIN heap[image.buffer] =
       0 .. image.extent.width * image.extent.height - 1

OwnersSound ==
  /\ \A s \in DOMAIN object : object[s] = EmptyImage \/ Shaped(object[s])
  /\ \A b \in DOMAIN heap :
       \/ /\ \E s \in DOMAIN object : Owns(object[s], b)
          /\ \A c \in DOMAIN copy : ~Owns(copy[c], b)
       \/ \E c \in DOMAIN copy : Owns(copy[c], b)
  /\ \A s, t \in DOMAIN object :
       Owns(object[s], object[t].buffer) =>
         s = t \/ object[t].buffer = NoBuffer
  /\ \A s \in DecodedSlots \cap DOMAIN object :
       object[s] # EmptyImage =>
         object[s].extent \in {encoded[s], Transposed(encoded[s])}

(* Every view a caller may still use reads inside live storage, also after *)
(* its image was moved to another owner: its rows split the storage among  *)
(* them, each pixel in one row, and the rows past them are refused.        *)
RowIndices(v, y) == RowStart(v, y) .. RowStart(v, y) + v.extent.width - 1

ViewsInside ==
  \A v \in InHand :
    \/ v = EmptyImage
    \/ /\ v.buffer \in DOMAIN heap
       /\ UNION {RowIndices(v, y) : y \in 0 .. v.extent.height - 1} =
            DOMAIN heap[v.buffer]
       /\ \A y, z \in 0 .. v.extent.height - 1 :
            y # z => RowIndices(v, y) \cap RowIndices(v, z) = {}

(* Pixels disappear only with their owner: a step that frees a buffer      *)
(* destroys its owner or moves another image into it, never the image      *)
(* itself; storage that stays keeps its owner's shape through every move,  *)
(* and its pixels through everything but a write, one at a time, so no     *)
(* operation changes what it borrows.                                      *)
Replaced(s) ==
  s \in DOMAIN object' =>
    \E t \in DOMAIN object \ {s} :
      object'[s] = object[t] /\ object'[t] = EmptyImage

Keeps ==
  /\ \A s \in DOMAIN object :
       object[s].buffer \in (DOMAIN heap) \ (DOMAIN heap') => Replaced(s)
  /\ \A s \in DOMAIN object, t \in DOMAIN object' :
       Owns(object'[t], object[s].buffer) => object'[t] = object[s]
  /\ \A b \in (DOMAIN heap) \cap (DOMAIN heap') :
       \/ heap'[b] = heap[b]
       \/ /\ writes' = writes + 1
          /\ \E i \in DOMAIN heap[b] :
               heap'[b] = [heap[b] EXCEPT ![i] = "ink"]

NothingLost == [][Keeps]_vars

(* Operations on views in hand never fail on a row: what they report is    *)
(* the caller's argument, a limit or memory (ADR 0013 "Image backdrops     *)
(* must exactly match the source extent. A mismatch returns                *)
(* invalid_argument").                                                     *)
NoRowFails == result # "row_out_of_range"

(* An external image holds, row by row, the pixels its source had when it  *)
(* was copied, whatever is written to, moved into or destroyed at the      *)
(* source, until the copy itself is moved from (README "After copying, the *)
(* external image is independent of the RasterForge owner").               *)
ExternalExact ==
  \A c \in DOMAIN copy :
    copy[c].buffer # NoBuffer =>
      /\ DOMAIN taken[c] = 0 .. copy[c].height - 1
      /\ \A y \in DOMAIN taken[c] :
           taken[c][y] = [x \in 0 .. copy[c].width - 1 |->
                            heap[copy[c].buffer][RowStart(copy[c], y) + x]]

-----------------------------------------------------------------------------
(* Why these hold, step by step: the inductive invariant.                  *)

Bounded(image) ==
  \/ image = EmptyImage
  \/ Shaped(image) /\ image.extent \in Extent

ObjectsSound ==
  /\ DOMAIN heap \subseteq Buffers
  /\ DOMAIN object \subseteq ImageSlots \cup DecodedSlots
  /\ \A s \in DOMAIN object : Bounded(object[s])

(* No buffer is nobody's, and none has two owners.                         *)
OneOwner ==
  /\ \A b \in DOMAIN heap :
       \/ \E s \in DOMAIN object : Owns(object[s], b)
       \/ \E c \in DOMAIN copy : Owns(copy[c], b)
  /\ \A s, t \in DOMAIN object :
       Owns(object[s], object[t].buffer) =>
         s = t \/ object[t].buffer = NoBuffer
  /\ \A c, d \in DOMAIN copy :
       Owns(copy[c], copy[d].buffer) => c = d \/ copy[d].buffer = NoBuffer
  /\ \A s \in DOMAIN object, c \in DOMAIN copy :
       Owns(object[s], copy[c].buffer) => copy[c].buffer = NoBuffer

(* A view in hand is that of an image which still lives, under whatever    *)
(* name it has now.                                                        *)
ViewsHeld ==
  \A v \in DOMAIN view :
    view[v] = EmptyImage \/ \E s \in DOMAIN object : view[v] = object[s]

CopiesSound ==
  \A c \in DOMAIN copy :
    /\ c \in DOMAIN taken
    /\ copy[c] \in [ width : Nat \ {0}, height : Nat, stride : Nat,
                     buffer : Buffers \cup {NoBuffer} ]
    /\ copy[c].stride = BytesPerPixel * copy[c].width
    /\ copy[c].buffer # NoBuffer => copy[c].buffer \in DOMAIN heap

EncodedSound ==
  \A s \in DecodedSlots \cap DOMAIN object :
    /\ s \in DOMAIN encoded
    /\ object[s] # EmptyImage =>
         object[s].extent \in {encoded[s], Transposed(encoded[s])}

IInv ==
  /\ ObjectsSound /\ OneOwner /\ ViewsHeld /\ CopiesSound /\ EncodedSound
  /\ ExternalExact /\ NoRowFails
=============================================================================
