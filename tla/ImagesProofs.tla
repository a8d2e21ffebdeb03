---------------------------- MODULE ImagesProofs ----------------------------
(***************************************************************************)
(* Owners, views and external copies, for any number of them, every extent *)
(* and every limit.  The inductive invariant is Images!IInv; each way an   *)
(* operation can touch the storage (nothing, a view, one pixel, a new      *)
(* image, a move, a destruction, a copy) is proved once.                   *)
(***************************************************************************)
EXTENDS Images, LayoutProofs

-----------------------------------------------------------------------------
(* Rows of a packed image.                                                 *)

LEMMA Division ==
  ASSUME NEW i \in Nat, NEW w \in Nat, w > 0
  PROVE  /\ i \div w \in Nat /\ i % w \in 0 .. w - 1
         /\ (i \div w) * w <= i /\ i < (i \div w + 1) * w
         /\ i = (i \div w) * w + (i % w)
OBVIOUS

(* The pixel at column x of row y, and back.                               *)
LEMMA Position ==
  ASSUME NEW w \in Nat, NEW x \in 0 .. w - 1, NEW y \in Nat
  PROVE  /\ y * w + x \in Nat
         /\ (y * w + x) \div w = y /\ (y * w + x) % w = x
<1> DEFINE i == y * w + x
           q == i \div w
<1>1. i \in Nat /\ w > 0 /\ y * w <= i /\ i < (y + 1) * w
  BY ProductMonotone
<1>2. q \in Nat /\ q * w <= i /\ i < (q + 1) * w /\ i = q * w + (i % w)
        /\ i % w \in 0 .. w - 1
  <2> HIDE DEF i
  <2>1. QED
    BY <1>1, Division
<1> HIDE DEF i, q
<1>3. ~(q < y)
  <2> SUFFICES ASSUME q + 1 <= y PROVE FALSE
    BY <1>2
  <2>1. (q + 1) * w <= y * w
    BY <1>2, ProductMonotone
  <2>2. (q + 1) * w \in Nat /\ y * w \in Nat
    BY <1>2
  <2>3. QED
    BY <1>1, <1>2, <2>1, <2>2
<1>4. ~(y < q)
  <2> SUFFICES ASSUME y + 1 <= q PROVE FALSE
    BY <1>2
  <2>1. (y + 1) * w <= q * w
    BY <1>2, ProductMonotone
  <2>2. (y + 1) * w \in Nat /\ q * w \in Nat
    BY <1>2
  <2>3. QED
    BY <1>1, <1>2, <2>1, <2>2
<1>5. q = y
  BY <1>2, <1>3, <1>4
<1>6. i % w = x
  <2>1. y * w \in Nat /\ i = y * w + x
    BY DEF i
  <2>2. QED
    BY <1>2, <1>5, <2>1
<1>7. QED
  BY <1>1, <1>5, <1>6 DEF i, q

LEMMA InsideImage ==
  ASSUME NEW w \in Nat, NEW h \in Nat, NEW x \in 0 .. w - 1,
         NEW y \in 0 .. h - 1
  PROVE  y * w + x \in 0 .. w * h - 1
<1>1. (y + 1) * w <= h * w
  BY ProductMonotone
<1>2. /\ y * w \in Nat /\ (y + 1) * w = y * w + w /\ h * w = w * h
      /\ w * h \in Nat
  OBVIOUS
<1>3. QED
  BY <1>1, <1>2

(* The rows split the storage.                                             *)
LEMMA RowsTile ==
  ASSUME NEW w \in Nat, NEW h \in Nat, w > 0
  PROVE  /\ UNION {(y * w) .. (y * w + w - 1) : y \in 0 .. h - 1}
              = 0 .. w * h - 1
         /\ \A y, z \in 0 .. h - 1 :
              y # z => ((y * w) .. (y * w + w - 1))
                         \cap ((z * w) .. (z * w + w - 1)) = {}
<1>1. ASSUME NEW y \in 0 .. h - 1, NEW i \in (y * w) .. (y * w + w - 1)
      PROVE  i \in 0 .. w * h - 1 /\ i \div w = y
  <2> DEFINE x == i - y * w
  <2>1. y * w \in Nat /\ i \in Int
    OBVIOUS
  <2>2. x \in 0 .. w - 1 /\ i = y * w + x
    BY <2>1
  <2> HIDE DEF x
  <2>3. QED
    BY <2>2, InsideImage, Position
<1>2. ASSUME NEW i \in 0 .. w * h - 1
      PROVE  \E y \in 0 .. h - 1 : i \in (y * w) .. (y * w + w - 1)
  <2> DEFINE y == i \div w
  <2>1. i \in Nat /\ w * h \in Nat
    OBVIOUS
  <2>2. y \in Nat /\ y * w <= i /\ i < (y + 1) * w
    BY <2>1, Division
  <2> HIDE DEF y
  <2>3. y * w \in Nat /\ (y + 1) * w = y * w + w
    BY <2>2
  <2>4. y < h
    <3> SUFFICES ASSUME h <= y PROVE FALSE
      BY <2>2
    <3>1. h * w <= y * w /\ h * w = w * h
      BY <2>2, ProductMonotone
    <3>2. QED
      BY <2>1, <2>2, <2>3, <3>1
  <2>5. y \in 0 .. h - 1 /\ i \in (y * w) .. (y * w + w - 1)
    BY <2>1, <2>2, <2>3, <2>4
  <2>6. QED
    BY <2>5
<1> DEFINE Span(y) == (y * w) .. (y * w + w - 1)
           all == 0 .. w * h - 1
           ys == 0 .. h - 1
<1>3. /\ \A y \in ys : \A i \in Span(y) : i \in all /\ i \div w = y
      /\ \A i \in all : \E y \in ys : i \in Span(y)
  BY <1>1, <1>2, Zenon
<1> HIDE DEF Span, all, ys
<1>4. UNION {Span(y) : y \in ys} = all
  BY <1>3
<1>5. \A y, z \in ys : y # z => Span(y) \cap Span(z) = {}
  <2>1. ASSUME NEW y \in ys, NEW z \in ys, NEW i, i \in Span(y), i \in Span(z)
        PROVE  y = z
    BY <1>3, <2>1, Zenon
  <2>2. QED
    BY <2>1, Zenon
<1>6. QED
  BY <1>4, <1>5, Zenon DEF Span, all, ys

-----------------------------------------------------------------------------
(* Put and Without.                                                        *)

LEMMA PutFacts ==
  ASSUME NEW f, NEW key, NEW value
  PROVE  /\ DOMAIN Put(f, key, value) = (DOMAIN f) \cup {key}
         /\ Put(f, key, value)[key] = value
         /\ \A k \in DOMAIN f : k # key => Put(f, key, value)[k] = f[k]
BY DEF Put

LEMMA WithoutFacts ==
  ASSUME NEW f, NEW keys
  PROVE  /\ DOMAIN Without(f, keys) = (DOMAIN f) \ keys
         /\ \A k \in (DOMAIN f) \ keys : Without(f, keys)[k] = f[k]
BY DEF Without

-----------------------------------------------------------------------------
(* What the invariant says of one object, one view, one buffer.            *)

LEMMA ObjectFacts ==
  ASSUME IInv, NEW s \in DOMAIN object
  PROVE  /\ object[s] = EmptyImage \/ Shaped(object[s])
         /\ object[s] = EmptyImage <=> object[s].buffer = NoBuffer
         /\ object[s].buffer \in DOMAIN heap \/ object[s].buffer = NoBuffer
         /\ object[s].extent \in Extent
<1>1. NoBuffer \notin DOMAIN heap
  BY ImagesAssumption DEF IInv, ObjectsSound
<1>2. Bounded(object[s])
  BY DEF IInv, ObjectsSound
<1>3. CASE object[s] = EmptyImage
  BY <1>3, WidthAssumption DEF EmptyImage, NoExtent, Extent
<1>4. CASE Shaped(object[s]) /\ object[s].extent \in Extent
  BY <1>1, <1>4 DEF Shaped, EmptyImage
<1>5. QED
  BY <1>2, <1>3, <1>4 DEF Bounded

LEMMA ViewFacts ==
  ASSUME IInv, NEW v \in InHand
  PROVE  /\ v = EmptyImage \/ Shaped(v)
         /\ v.extent \in Extent
<1>1. v = EmptyImage \/ \E s \in DOMAIN object : v = object[s]
  BY DEF InHand, ViewOf, IInv, ViewsHeld
<1>2. CASE v = EmptyImage
  BY <1>2, WidthAssumption DEF EmptyImage, NoExtent, Extent
<1>3. CASE \E s \in DOMAIN object : v = object[s]
  BY <1>3, ObjectFacts
<1>4. QED
  BY <1>1, <1>2, <1>3

LEMMA RowStartExact ==
  ASSUME NEW v, NEW w \in Nat, v.stride = BytesPerPixel * w, NEW y \in Nat
  PROVE  RowStart(v, y) = y * w
<1>1. (4 * w) \div 4 = w
  OBVIOUS
<1>2. QED
  BY <1>1 DEF RowStart, BytesPerPixel

(* Two objects with one buffer are one object, or both empty.              *)
LEMMA SameBuffer ==
  ASSUME IInv, NEW s \in DOMAIN object, NEW t \in DOMAIN object,
         object[t].buffer = object[s].buffer
  PROVE  object[t] = object[s]
BY ObjectFacts DEF IInv, OneOwner, Owns

(* A buffer that is not allocated belongs to nobody.                       *)
LEMMA FreshBuffer ==
  ASSUME IInv, NEW b \in Buffers \ DOMAIN heap
  PROVE  /\ b # NoBuffer
         /\ \A s \in DOMAIN object : object[s].buffer # b
         /\ \A c \in DOMAIN copy : copy[c].buffer # b
<1>1. b # NoBuffer
  BY ImagesAssumption
<1>2. QED
  BY <1>1, ObjectFacts DEF IInv, CopiesSound

-----------------------------------------------------------------------------
(* What the invariant implies.                                             *)

LEMMA OwnersFromIInv == IInv => OwnersSound
<1> SUFFICES ASSUME IInv PROVE OwnersSound
  OBVIOUS
<1>1. \A s \in DOMAIN object : object[s] = EmptyImage \/ Shaped(object[s])
  BY ObjectFacts
<1>2. ASSUME NEW b \in DOMAIN heap
      PROVE  \/ /\ \E s \in DOMAIN object : Owns(object[s], b)
                /\ \A c \in DOMAIN copy : ~Owns(copy[c], b)
             \/ \E c \in DOMAIN copy : Owns(copy[c], b)
  BY DEF IInv, OneOwner
<1>3. QED
  BY <1>1, <1>2 DEF OwnersSound, IInv, OneOwner, EncodedSound

LEMMA ViewsFromIInv == IInv => ViewsInside
<1> SUFFICES ASSUME IInv, NEW v \in InHand, v # EmptyImage
             PROVE  /\ v.buffer \in DOMAIN heap
                    /\ UNION {RowIndices(v, y) : y \in 0 .. v.extent.height - 1}
                         = DOMAIN heap[v.buffer]
                    /\ \A y, z \in 0 .. v.extent.height - 1 :
                         y # z => RowIndices(v, y) \cap RowIndices(v, z) = {}
  BY DEF ViewsInside
<1> DEFINE w == v.extent.width
           h == v.extent.height
<1>1. /\ Shaped(v) /\ w \in Nat /\ h \in Nat /\ w > 0
  BY ViewFacts, ExtentTypes DEF Shaped
<1>2. \A y \in 0 .. h - 1 : RowIndices(v, y) = (y * w) .. (y * w + w - 1)
  BY <1>1, RowStartExact DEF RowIndices, Shaped
<1>3. UNION {RowIndices(v, y) : y \in 0 .. h - 1}
        = UNION {(y * w) .. (y * w + w - 1) : y \in 0 .. h - 1}
  BY <1>2
<1>4. DOMAIN heap[v.buffer] = 0 .. w * h - 1
  BY <1>1 DEF Shaped
<1> HIDE DEF w, h
<1>5. UNION {(y * w) .. (y * w + w - 1) : y \in 0 .. h - 1} = 0 .. w * h - 1
  BY <1>1, RowsTile
<1>6. \A y, z \in 0 .. h - 1 :
        y # z => RowIndices(v, y) \cap RowIndices(v, z) = {}
  BY <1>1, <1>2, RowsTile
<1>7. QED
  BY <1>1, <1>3, <1>4, <1>5, <1>6 DEF Shaped, w, h

-----------------------------------------------------------------------------
(* Steps that leave the storage alone.                                     *)

LEMMA QuietStep ==
  ASSUME IInv, UNCHANGED <<object, encoded, heap, copy, taken>>,
         ViewsHeld', result' # "row_out_of_range"
  PROVE  IInv' /\ Keeps
<1>1. ObjectsSound'
  BY DEF IInv, ObjectsSound, Bounded, Shaped
<1>2. OneOwner' /\ CopiesSound' /\ EncodedSound'
  BY DEF IInv, OneOwner, CopiesSound, EncodedSound
<1>3. ExternalExact' /\ NoRowFails'
  <2>1. copy' = copy /\ taken' = taken /\ heap' = heap
    OBVIOUS
  <2>2. QED
    BY <2>1 DEF IInv, ExternalExact, NoRowFails
<1>4. Keeps
  BY SameBuffer DEF Keeps, Owns
<1>5. QED
  BY <1>1, <1>2, <1>3, <1>4 DEF IInv

LEMMA FailStep ==
  ASSUME IInv, NEW code, code # "row_out_of_range", Fail(code)
  PROVE  IInv' /\ Keeps
<1>1. ViewsHeld'
  BY DEF Fail, IInv, ViewsHeld
<1>2. QED
  BY <1>1, QuietStep DEF Fail

LEMMA BorrowStep ==
  ASSUME IInv, Borrow
  PROVE  IInv' /\ Keeps
<1>1. PICK v \in ViewSlots, s \in DOMAIN object :
        view' = Put(view, v, object[s])
  BY DEF Borrow, ViewOf
<1>2. /\ DOMAIN view' = (DOMAIN view) \cup {v} /\ view'[v] = object[s]
      /\ \A k \in DOMAIN view : k # v => view'[k] = view[k]
  BY <1>1 DEF Put
<1>3. ViewsHeld'
  BY <1>2 DEF Borrow, IInv, ViewsHeld
<1>4. QED
  BY <1>3, QuietStep DEF Borrow

-----------------------------------------------------------------------------
(* One pixel is written.                                                   *)

LEMMA WriteStep ==
  ASSUME IInv, Write
  PROVE  IInv' /\ Keeps
<1>1. PICK s \in ImageSlots \cap DOMAIN object :
        \E x \in 0 .. object[s].extent.width - 1,
           y \in 0 .. object[s].extent.height - 1 :
          heap' = [heap EXCEPT
                     ![object[s].buffer][RowStart(object[s], y) + x] = "ink"]
  BY DEF Write, ViewOf
<1> DEFINE b == object[s].buffer
           w == object[s].extent.width
           h == object[s].extent.height
<1>2. PICK x \in 0 .. w - 1, y \in 0 .. h - 1 :
        heap' = [heap EXCEPT ![b][RowStart(object[s], y) + x] = "ink"]
  BY <1>1
<1> DEFINE i == RowStart(object[s], y) + x
<1>3. /\ Shaped(object[s]) /\ b \in DOMAIN heap /\ b # NoBuffer
      /\ w \in Nat /\ h \in Nat
  <2>1. w \in Nat /\ h \in Nat
    BY ObjectFacts, ExtentTypes
  <2>2. w > 0
    BY <2>1
  <2>3. object[s] # EmptyImage
    BY <2>2 DEF EmptyImage, NoExtent
  <2>4. QED
    BY <2>1, <2>3, ObjectFacts DEF Shaped
<1>4. i \in DOMAIN heap[b]
  <2>1. object[s].stride = BytesPerPixel * w /\ DOMAIN heap[b] = 0 .. w * h - 1
    BY <1>3 DEF Shaped
  <2>2. RowStart(object[s], y) = y * w
    BY <1>3, <2>1, RowStartExact
  <2>3. y * w + x \in 0 .. w * h - 1
    BY <1>3, InsideImage
  <2>4. QED
    BY <2>1, <2>2, <2>3
<1> HIDE DEF i
<1>5. /\ DOMAIN heap' = DOMAIN heap
      /\ heap'[b] = [heap[b] EXCEPT ![i] = "ink"]
      /\ \A a \in DOMAIN heap : a # b => heap'[a] = heap[a]
      /\ \A a \in DOMAIN heap : DOMAIN heap'[a] = DOMAIN heap[a]
  BY <1>2, <1>3 DEF i
<1>6. /\ object' = object /\ encoded' = encoded /\ view' = view
      /\ copy' = copy /\ taken' = taken /\ writes' = writes + 1
      /\ result' = "ok"
  BY DEF Write
<1>7. \A c \in DOMAIN copy : copy[c].buffer # b
  BY <1>3 DEF IInv, OneOwner, Owns
<1> HIDE DEF b, w, h
<1>8. ObjectsSound'
  BY <1>5, <1>6 DEF IInv, ObjectsSound, Bounded, Shaped
<1>9. OneOwner' /\ ViewsHeld' /\ CopiesSound' /\ EncodedSound' /\ NoRowFails'
  BY <1>5, <1>6 DEF IInv, OneOwner, ViewsHeld, CopiesSound, EncodedSound,
                    NoRowFails
<1>10. ExternalExact'
  <2>1. SUFFICES ASSUME NEW c \in DOMAIN copy, copy[c].buffer # NoBuffer
                 PROVE  /\ DOMAIN taken[c] = 0 .. copy[c].height - 1
                        /\ \A k \in DOMAIN taken[c] :
                             taken[c][k] =
                               [j \in 0 .. copy[c].width - 1 |->
                                  heap'[copy[c].buffer][RowStart(copy[c], k) + j]]
    BY <1>6 DEF ExternalExact, RowStart
  <2>2. copy[c].buffer \in DOMAIN heap /\ copy[c].buffer # b
    BY <1>7, <2>1 DEF IInv, CopiesSound
  <2>3. heap'[copy[c].buffer] = heap[copy[c].buffer]
    BY <1>5, <2>2
  <2>4. QED
    BY <2>1, <2>3 DEF IInv, ExternalExact
<1>11. Keeps
  BY <1>3, <1>4, <1>5, <1>6, SameBuffer DEF Keeps, Owns, b
<1>12. QED
  BY <1>8, <1>9, <1>10, <1>11 DEF IInv

-----------------------------------------------------------------------------
(* An image is made.                                                       *)

LEMMA NewImageStep ==
  ASSUME IInv, NEW slot \in (ImageSlots \cup DecodedSlots) \ DOMAIN object,
         NEW extent \in Extent, NEW pixels, NewImage(slot, extent, pixels),
         \/ slot \in ImageSlots /\ UNCHANGED encoded
         \/ /\ slot \in DecodedSlots
            /\ \E e \in Extent :
                 /\ extent \in {e, Transposed(e)}
                 /\ encoded' = IF slot \in DOMAIN object'
                                 THEN Put(encoded, slot, e) ELSE encoded
  PROVE  IInv' /\ Keeps
<1> DEFINE layout == CheckedDecodeLayout(extent, FALSE, CallLimits)
           w == extent.width
           h == extent.height
<1>1. CASE Refuse
  BY <1>1, FailStep DEF Refuse
<1>2. CASE ~Refuse
  <2>1. layout.ok
    BY <1>2 DEF NewImage
  <2>2. /\ w \in Nat /\ h \in Nat /\ w > 0 /\ h > 0
        /\ layout.value.row_bytes = BytesPerPixel * w
        /\ layout.value.pixel_count = w * h
    <3>1. FitsLimits(extent, CallLimits)
      BY <2>1, LayoutExact, ImagesAssumption
    <3>2. layout.value = [ encoded_extent |-> extent,
                           output_extent  |-> extent,
                           pixel_count    |-> w * h,
                           row_bytes      |-> w * BytesPerPixel,
                           output_bytes   |-> PixelBytes(extent) ]
      BY <2>1, LayoutExact, ImagesAssumption DEF OutputExtent
    <3>3. w \in Nat /\ h \in Nat /\ w * BytesPerPixel = BytesPerPixel * w
      BY ExtentTypes DEF BytesPerPixel
    <3> HIDE DEF layout
    <3>4. QED
      BY <3>1, <3>2, <3>3 DEF FitsLimits
  <2>3. PICK b \in Buffers \ DOMAIN heap :
          /\ heap' = Put(heap, b,
                         [i \in 0 .. layout.value.pixel_count - 1 |->
                            pixels[<<i % w, i \div w>>]])
          /\ object' = Put(object, slot, [ extent |-> extent,
                                           stride |-> layout.value.row_bytes,
                                           buffer |-> b ])
          /\ result' = "ok"
          /\ UNCHANGED <<view, copy, writes, taken>>
    BY <1>2, <2>1 DEF NewImage
  <2> DEFINE image == [ extent |-> extent, stride |-> BytesPerPixel * w,
                        buffer |-> b ]
  <2>4. /\ DOMAIN heap' = (DOMAIN heap) \cup {b}
        /\ DOMAIN heap'[b] = 0 .. w * h - 1
        /\ \A a \in DOMAIN heap : a # b /\ heap'[a] = heap[a]
    BY <2>2, <2>3 DEF Put
  <2>5. /\ DOMAIN object' = (DOMAIN object) \cup {slot}
        /\ object'[slot] = image
        /\ \A s \in DOMAIN object : s # slot /\ object'[s] = object[s]
    BY <2>2, <2>3 DEF Put
  <2>6. /\ image.extent = extent /\ image.stride = BytesPerPixel * w
        /\ image.buffer = b /\ b \in Buffers
    OBVIOUS
  <2>7. /\ result' = "ok" /\ view' = view /\ copy' = copy /\ taken' = taken
    BY <2>3
  <2>8. /\ b # NoBuffer
        /\ \A s \in DOMAIN object : object[s].buffer # b
        /\ \A c \in DOMAIN copy : copy[c].buffer # b
    BY FreshBuffer
  <2> HIDE DEF layout, image
  <2>9. ObjectsSound'
    <3>1. ASSUME NEW s \in DOMAIN object PROVE Bounded(object[s])'
      <4>1. Bounded(object[s]) /\ object'[s] = object[s]
        BY <2>5 DEF IInv, ObjectsSound
      <4>2. QED
        BY <2>4, <4>1 DEF Bounded, Shaped
    <3>2. Bounded(object[slot])'
      BY <2>2, <2>4, <2>5, <2>6 DEF Bounded, Shaped
    <3>3. QED
      BY <2>4, <2>5, <2>6, <3>1, <3>2 DEF IInv, ObjectsSound
  <2>10. OneOwner'
    BY <2>4, <2>5, <2>6, <2>7, <2>8 DEF IInv, OneOwner, Owns
  <2>11. ViewsHeld'
    BY <2>5, <2>7 DEF IInv, ViewsHeld
  <2>12. CopiesSound' /\ ExternalExact'
    BY <2>4, <2>7 DEF IInv, CopiesSound, ExternalExact
  <2>13. EncodedSound'
    <3>1. CASE slot \in ImageSlots /\ UNCHANGED encoded
      <4>1. slot \notin DecodedSlots
        BY <3>1, ImagesAssumption
      <4>2. QED
        BY <2>5, <3>1, <4>1 DEF IInv, EncodedSound
    <3>2. ASSUME NEW e \in Extent, extent \in {e, Transposed(e)},
                 encoded' = Put(encoded, slot, e)
          PROVE  EncodedSound'
      <4>1. /\ DOMAIN encoded' = (DOMAIN encoded) \cup {slot}
            /\ encoded'[slot] = e
            /\ \A k \in DOMAIN encoded : k # slot => encoded'[k] = encoded[k]
        BY <3>2 DEF Put
      <4>2. QED
        BY <2>5, <2>6, <3>2, <4>1 DEF IInv, EncodedSound
    <3>3. QED
      BY <2>5, <3>1, <3>2
  <2>14. NoRowFails'
    BY <2>7 DEF NoRowFails
  <2>15. Keeps
    BY <2>4, <2>5, <2>6, <2>8, SameBuffer DEF Keeps, Owns
  <2>16. QED
    BY <2>9, <2>10, <2>11, <2>12, <2>13, <2>14, <2>15 DEF IInv
<1>3. QED
  BY <1>1, <1>2

LEMMA CreateStep ==
  ASSUME IInv, Create
  PROVE  IInv' /\ Keeps
BY NewImageStep, ImagesAssumption DEF Create

LEMMA DecodeStep ==
  ASSUME IInv, Decode
  PROVE  IInv' /\ Keeps
<1>1. PICK s \in DecodedSlots \ DOMAIN object, e \in RequestExtents :
        \E output \in {e, Transposed(e)} :
          /\ NewImage(s, output, Blank(output))
          /\ encoded' = IF s \in DOMAIN object' THEN Put(encoded, s, e)
                        ELSE encoded
  BY DEF Decode
<1>2. e \in Extent /\ Transposed(e) \in Extent
  BY ImagesAssumption DEF Transposed, Extent
<1>3. QED
  BY <1>1, <1>2, NewImageStep

(* Operations on views make an image of the extent of the first.           *)
LEMMA TransformStep ==
  ASSUME IInv, TransformPixels
  PROVE  IInv' /\ Keeps
<1>1. PICK to \in ImageSlots \ DOMAIN object, source \in InHand :
        \E pixels : NewImage(to, source.extent, pixels) /\ UNCHANGED encoded
  BY DEF TransformPixels
<1>2. source.extent \in Extent
  BY ViewFacts
<1>3. QED
  BY <1>1, <1>2, NewImageStep

LEMMA CompositeStep ==
  ASSUME IInv, CompositeOver
  PROVE  IInv' /\ Keeps
<1>1. PICK to \in ImageSlots \ DOMAIN object, source \in InHand,
           backdrop \in InHand :
        /\ \/ Refuse
           \/ /\ ExtentsMatch(source, backdrop)
              /\ \E y \in 0 .. source.extent.height - 1 : ~Row(backdrop, y).ok
           \/ \E pixels : NewImage(to, source.extent, pixels)
        /\ UNCHANGED encoded
  BY DEF CompositeOver
<1>2. source.extent \in Extent
  BY ViewFacts
<1>3. ASSUME ExtentsMatch(source, backdrop),
             NEW y \in 0 .. source.extent.height - 1
      PROVE  Row(backdrop, y).ok
  <2>1. source.extent.height \in Nat
    BY <1>2, ExtentTypes
  <2>2. backdrop.extent.height = source.extent.height
    BY <1>3 DEF ExtentsMatch
  <2>3. ~(y >= backdrop.extent.height)
    BY <2>1, <2>2
  <2>4. QED
    BY <2>3 DEF Row, Ok
<1>4. CASE Refuse
  BY <1>4, FailStep DEF Refuse
<1>5. CASE \E pixels : NewImage(to, source.extent, pixels)
  BY <1>1, <1>2, <1>5, NewImageStep
<1>6. QED
  BY <1>1, <1>3, <1>4, <1>5

-----------------------------------------------------------------------------
(* An image moves to another owner, which frees what it owned.             *)

LEMMA MovedStep ==
  ASSUME IInv, NEW from \in DOMAIN object,
         NEW to \in ImageSlots \cup DecodedSlots, from # to,
         SameType(from, to), CopyMetadata(from, to),
         NEW old, \/ to \in DOMAIN object /\ old = object[to].buffer
                  \/ to \notin DOMAIN object /\ old = NoBuffer,
         DOMAIN object' = (DOMAIN object) \cup {to},
         object'[to] = object[from], object'[from] = EmptyImage,
         \A s \in DOMAIN object : s \notin {from, to} => object'[s] = object[s],
         DOMAIN heap' = (DOMAIN heap) \ {old},
         \A b \in DOMAIN heap' : heap'[b] = heap[b],
         \A v \in DOMAIN view' : v \in DOMAIN view /\ view'[v] = view[v],
         \A v \in DOMAIN view' : view[v].buffer # old \/ old = NoBuffer,
         UNCHANGED <<copy, taken>>, result' = "ok"
  PROVE  IInv' /\ Keeps
<1>1. copy' = copy /\ taken' = taken
  OBVIOUS
<1>2. EmptyImage.buffer = NoBuffer /\ NoBuffer \notin DOMAIN heap
  BY ImagesAssumption DEF EmptyImage, IInv, ObjectsSound
(* Nothing but the owner it had is left without its buffer.                *)
<1>3. /\ \A s \in DOMAIN object :
           s # to => object[s].buffer # old \/ object[s].buffer = NoBuffer
      /\ \A c \in DOMAIN copy :
           copy[c].buffer # old \/ copy[c].buffer = NoBuffer
  BY DEF IInv, OneOwner, Owns
<1>4. ObjectsSound'
  <2>1. ASSUME NEW s \in DOMAIN object, s # to, NEW t \in DOMAIN object',
               object'[t] = object[s]
        PROVE  Bounded(object[t])'
    <3>1. \/ object[s] = EmptyImage
          \/ /\ Shaped(object[s]) /\ object[s].extent \in Extent
             /\ object[s].buffer # old
      BY <1>2, <1>3, <2>1, ObjectFacts DEF Shaped
    <3>2. QED
      BY <2>1, <3>1 DEF Bounded, Shaped
  <2>2. Bounded(object[from])'
    BY DEF Bounded
  <2>3. \A t \in DOMAIN object' : Bounded(object[t])'
    BY <2>1, <2>2
  <2>4. QED
    BY <2>3 DEF IInv, ObjectsSound
<1>5. OneOwner'
  <2>1. ASSUME NEW b \in DOMAIN heap'
        PROVE  \/ \E s \in DOMAIN object' : object'[s].buffer = b
               \/ \E c \in DOMAIN copy : copy[c].buffer = b
    <3>1. b # old /\ b # NoBuffer
      BY <1>2
    <3>2. CASE \E c \in DOMAIN copy : copy[c].buffer = b
      BY <3>2
    <3>3. ASSUME NEW s \in DOMAIN object, object[s].buffer = b
          PROVE  \E t \in DOMAIN object' : object'[t].buffer = b
      <4>1. s # to
        BY <3>1, <3>3
      <4>2. CASE s = from
        BY <3>3, <4>2
      <4>3. CASE s # from
        BY <3>3, <4>1, <4>3
      <4>4. QED
        BY <4>2, <4>3
    <3>4. QED
      BY <3>2, <3>3 DEF IInv, OneOwner, Owns
  <2>2. ASSUME NEW s \in DOMAIN object', NEW t \in DOMAIN object',
               object'[s].buffer = object'[t].buffer
        PROVE  s = t \/ object'[t].buffer = NoBuffer
    BY <1>2, <2>2 DEF IInv, OneOwner, Owns
  <2>3. ASSUME NEW s \in DOMAIN object', NEW c \in DOMAIN copy,
               object'[s].buffer = copy[c].buffer
        PROVE  copy[c].buffer = NoBuffer
    BY <1>2, <2>3 DEF IInv, OneOwner, Owns
  <2>4. QED
    BY <1>1, <2>1, <2>2, <2>3 DEF IInv, OneOwner, Owns
<1>6. ViewsHeld'
  <2>1. ASSUME NEW v \in DOMAIN view', NEW s \in DOMAIN object,
               view[v] = object[s]
        PROVE  \/ view[v] = EmptyImage
               \/ \E t \in DOMAIN object' : view[v] = object'[t]
    <3>1. CASE s = to
      <4>1. object[s].buffer = NoBuffer
        BY <2>1, <3>1
      <4>2. QED
        BY <2>1, <4>1, ObjectFacts
    <3>2. CASE s = from
      BY <2>1, <3>2
    <3>3. CASE s \notin {from, to}
      BY <2>1, <3>3
    <3>4. QED
      BY <3>1, <3>2, <3>3
  <2>2. QED
    BY <2>1 DEF IInv, ViewsHeld
<1>7. CopiesSound' /\ ExternalExact'
  BY <1>1, <1>3 DEF IInv, CopiesSound, ExternalExact
<1>8. EncodedSound'
  <2>1. CASE from \in DecodedSlots
    <3>1. /\ DOMAIN encoded' = (DOMAIN encoded) \cup {to}
          /\ encoded'[to] = encoded[from]
          /\ \A k \in DOMAIN encoded : k # to => encoded'[k] = encoded[k]
      BY <2>1 DEF CopyMetadata, Put
    <3>2. QED
      BY <2>1, <3>1 DEF IInv, EncodedSound
  <2>2. CASE from \notin DecodedSlots
    <3>1. encoded' = encoded /\ to \notin DecodedSlots
      BY <2>2, ImagesAssumption DEF CopyMetadata, SameType
    <3>2. QED
      BY <2>2, <3>1 DEF IInv, EncodedSound
  <2>3. QED
    BY <2>1, <2>2
<1>9. NoRowFails'
  BY DEF NoRowFails
<1>10. Keeps
  <2>1. ASSUME NEW s \in DOMAIN object,
               object[s].buffer \in (DOMAIN heap) \ (DOMAIN heap')
        PROVE  Replaced(s)
    <3>1. object[s].buffer = old /\ old # NoBuffer
      BY <1>2, <2>1
    <3>2. s = to
      BY <1>3, <3>1
    <3>3. QED
      BY <3>2 DEF Replaced
  <2>2. ASSUME NEW s \in DOMAIN object, NEW t \in DOMAIN object',
               object'[t].buffer = object[s].buffer
        PROVE  object'[t] = object[s]
    <3>1. CASE t = from
      BY <1>2, <2>2, <3>1, ObjectFacts
    <3>2. CASE t # from
      <4>1. PICK u \in DOMAIN object : object'[t] = object[u]
        BY <3>2
      <4>2. QED
        BY <2>2, <4>1, SameBuffer
    <3>3. QED
      BY <3>1, <3>2
  <2>3. QED
    BY <2>1, <2>2 DEF Keeps, Owns
<1>11. QED
  BY <1>4, <1>5, <1>6, <1>7, <1>8, <1>9, <1>10 DEF IInv

LEMMA MoveConstructStep ==
  ASSUME IInv, MoveConstruct
  PROVE  IInv' /\ Keeps
<1>1. PICK from \in DOMAIN object,
           to \in (ImageSlots \cup DecodedSlots) \ DOMAIN object :
        /\ SameType(from, to)
        /\ object' = Put([object EXCEPT ![from] = EmptyImage], to, object[from])
        /\ CopyMetadata(from, to)
        /\ result' = "ok"
        /\ UNCHANGED <<heap, view, copy, writes, taken>>
  BY DEF MoveConstruct, MovedFrom
<1>2. /\ DOMAIN object' = (DOMAIN object) \cup {to}
      /\ object'[to] = object[from] /\ object'[from] = EmptyImage
      /\ \A s \in DOMAIN object : s \notin {from, to} => object'[s] = object[s]
  BY <1>1 DEF Put
<1>3. DOMAIN heap' = (DOMAIN heap) \ {NoBuffer} /\ heap' = heap /\ view' = view
  BY <1>1, ImagesAssumption DEF IInv, ObjectsSound
<1>4. QED
  BY <1>1, <1>2, <1>3, MovedStep

LEMMA MoveAssignStep ==
  ASSUME IInv, MoveAssign
  PROVE  IInv' /\ Keeps
<1>1. PICK from \in DOMAIN object, to \in DOMAIN object :
        /\ SameType(from, to) /\ Assign(from, to) /\ CopyMetadata(from, to)
        /\ result' = "ok" /\ UNCHANGED <<copy, writes, taken>>
  BY DEF MoveAssign
<1>2. CASE from = to
  <2>1. /\ object' = object /\ heap' = heap /\ view' = view /\ copy' = copy
        /\ taken' = taken
    BY <1>1, <1>2 DEF Assign
  <2>2. EncodedSound'
    <3>1. CASE from \in DecodedSlots
      <4>1. /\ DOMAIN encoded' = (DOMAIN encoded) \cup {to}
            /\ encoded'[to] = encoded[to]
            /\ \A k \in DOMAIN encoded : k # to => encoded'[k] = encoded[k]
        BY <1>1, <1>2, <3>1 DEF CopyMetadata, Put
      <4>2. QED
        BY <2>1, <4>1 DEF IInv, EncodedSound
    <3>2. CASE from \notin DecodedSlots
      BY <1>1, <2>1, <3>2 DEF CopyMetadata, IInv, EncodedSound
    <3>3. QED
      BY <3>1, <3>2
  <2>3. ObjectsSound'
    BY <2>1 DEF IInv, ObjectsSound, Bounded, Shaped
  <2>4. OneOwner' /\ ViewsHeld' /\ CopiesSound' /\ ExternalExact'
    BY <2>1 DEF IInv, OneOwner, ViewsHeld, CopiesSound, ExternalExact
  <2>5. Keeps
    BY <2>1, SameBuffer DEF Keeps, Owns
  <2>6. QED
    BY <1>1, <2>2, <2>3, <2>4, <2>5 DEF IInv, NoRowFails
<1>3. CASE from # to
  <2>1. PICK old : old = object[to].buffer
    OBVIOUS
  <2>2. /\ object' = [object EXCEPT ![to] = object[from],
                                    ![from] = EmptyImage]
        /\ heap' = Without(heap, {old})
        /\ view' = Without(view, {v \in DOMAIN view : /\ view[v].buffer = old
                                                      /\ old # NoBuffer})
    BY <1>1, <1>3, <2>1 DEF Assign, Free, MovedFrom
  <2>3. /\ DOMAIN object' = (DOMAIN object) \cup {to}
        /\ object'[to] = object[from] /\ object'[from] = EmptyImage
        /\ \A s \in DOMAIN object :
             s \notin {from, to} => object'[s] = object[s]
    BY <1>3, <2>2
  <2>4. /\ DOMAIN heap' = (DOMAIN heap) \ {old}
        /\ \A b \in DOMAIN heap' : heap'[b] = heap[b]
    BY <2>2 DEF Without
  <2>5. \A v \in DOMAIN view' :
          /\ v \in DOMAIN view /\ view'[v] = view[v]
          /\ view[v].buffer # old \/ old = NoBuffer
    BY <2>2 DEF Without
  <2>6. to \in ImageSlots \cup DecodedSlots
    BY DEF IInv, ObjectsSound
  <2>7. QED
    BY <1>1, <1>3, <2>1, <2>3, <2>4, <2>5, <2>6, MovedStep
<1>4. QED
  BY <1>2, <1>3

-----------------------------------------------------------------------------
(* An image is destroyed.                                                  *)

LEMMA DestroyStep ==
  ASSUME IInv, Destroy
  PROVE  IInv' /\ Keeps
<1>1. PICK s \in DOMAIN object :
        /\ object' = Without(object, {s}) /\ encoded' = Without(encoded, {s})
        /\ Free(object[s].buffer)
        /\ result' = "ok" /\ UNCHANGED <<copy, writes, taken>>
  BY DEF Destroy
<1>2. PICK old : old = object[s].buffer
  OBVIOUS
<1>3. /\ DOMAIN object' = (DOMAIN object) \ {s}
      /\ \A t \in DOMAIN object' : object'[t] = object[t]
      /\ DOMAIN encoded' = (DOMAIN encoded) \ {s}
      /\ \A t \in DOMAIN encoded' : encoded'[t] = encoded[t]
  BY <1>1 DEF Without
<1>4. /\ DOMAIN heap' = (DOMAIN heap) \ {old}
      /\ \A b \in DOMAIN heap' : heap'[b] = heap[b]
  BY <1>1, <1>2 DEF Free, Without
<1>5. \A v \in DOMAIN view' :
        /\ v \in DOMAIN view /\ view'[v] = view[v]
        /\ view[v].buffer # old \/ old = NoBuffer
  BY <1>1, <1>2 DEF Free, Without
<1>6. copy' = copy /\ taken' = taken /\ result' = "ok"
  BY <1>1
<1>7. NoBuffer \notin DOMAIN heap
  BY ImagesAssumption DEF IInv, ObjectsSound
<1>8. /\ \A t \in DOMAIN object :
           t # s => object[t].buffer # old \/ object[t].buffer = NoBuffer
      /\ \A c \in DOMAIN copy :
           copy[c].buffer # old \/ copy[c].buffer = NoBuffer
  BY <1>2 DEF IInv, OneOwner, Owns
<1>9. ObjectsSound'
  <2>1. ASSUME NEW t \in DOMAIN object' PROVE Bounded(object[t])'
    <3>1. /\ t \in DOMAIN object /\ object'[t] = object[t]
          /\ Bounded(object[t])
          /\ object[t].buffer # old \/ object[t].buffer = NoBuffer
      BY <1>3, <1>8 DEF IInv, ObjectsSound
    <3>2. QED
      BY <1>4, <1>7, <3>1 DEF Bounded, Shaped
  <2>2. QED
    BY <1>3, <1>4, <2>1 DEF IInv, ObjectsSound
<1>10. OneOwner'
  BY <1>2, <1>3, <1>4, <1>6, <1>7 DEF IInv, OneOwner, Owns
<1>11. ViewsHeld'
  <2>1. ASSUME NEW v \in DOMAIN view', NEW t \in DOMAIN object,
               view[v] = object[t]
        PROVE  \/ view[v] = EmptyImage
               \/ \E u \in DOMAIN object' : view[v] = object'[u]
    <3>1. CASE t = s
      <4>1. object[t].buffer = NoBuffer
        BY <1>2, <1>5, <2>1, <3>1
      <4>2. QED
        BY <2>1, <4>1, ObjectFacts
    <3>2. CASE t # s
      BY <1>3, <2>1, <3>2
    <3>3. QED
      BY <3>1, <3>2
  <2>2. QED
    BY <1>5, <2>1 DEF IInv, ViewsHeld
<1>12. CopiesSound' /\ ExternalExact'
  BY <1>4, <1>6, <1>8 DEF IInv, CopiesSound, ExternalExact
<1>13. EncodedSound' /\ NoRowFails'
  BY <1>3, <1>6 DEF IInv, EncodedSound, NoRowFails
<1>14. Keeps
  <2>1. \A t \in DOMAIN object :
          object[t].buffer \in (DOMAIN heap) \ (DOMAIN heap') => Replaced(t)
    BY <1>3, <1>4, <1>7, <1>8 DEF Replaced
  <2>2. \A t \in DOMAIN object, u \in DOMAIN object' :
          Owns(object'[u], object[t].buffer) => object'[u] = object[t]
    BY <1>3, SameBuffer DEF Owns
  <2>3. QED
    BY <1>4, <2>1, <2>2 DEF Keeps
<1>15. QED
  BY <1>9, <1>10, <1>11, <1>12, <1>13, <1>14 DEF IInv

-----------------------------------------------------------------------------
(* External images.                                                        *)

LEMMA CopyStep ==
  ASSUME IInv, CopyToExternal
  PROVE  IInv' /\ Keeps
<1>1. CASE Refuse
  BY <1>1, FailStep DEF Refuse
<1>2. CASE ~Refuse
  <2>1. PICK c \in CopySlots \ DOMAIN copy, source \in InHand,
             b \in Buffers \ DOMAIN heap :
          LET width  == source.extent.width
              height == source.extent.height
          IN  /\ width # 0 /\ height # 0
              /\ heap' = CopyPixels(source, b)
              /\ copy' = Put(copy, c, [ width |-> width, height |-> height,
                                        stride |-> BytesPerPixel * width,
                                        buffer |-> b ])
              /\ taken' = Put(taken, c, [y \in 0 .. height - 1 |->
                                           Row(source, y).value])
              /\ result' = "ok"
              /\ UNCHANGED <<object, encoded, view, writes>>
    BY <1>2 DEF CopyToExternal
  <2> DEFINE w == source.extent.width
             h == source.extent.height
             made == [ width |-> w, height |-> h,
                       stride |-> BytesPerPixel * w, buffer |-> b ]
  <2>2. /\ object' = object /\ encoded' = encoded /\ view' = view
        /\ result' = "ok"
    BY <2>1
  <2>3. w \in Nat /\ h \in Nat /\ w > 0 /\ h > 0
    BY <2>1, ViewFacts, ExtentTypes
  <2>4. /\ DOMAIN heap' = (DOMAIN heap) \cup {b}
        /\ heap'[b] = [i \in 0 .. w * h - 1 |->
                         Row(source, i \div w).value[i % w]]
        /\ \A a \in DOMAIN heap : a # b /\ heap'[a] = heap[a]
    BY <2>1 DEF CopyPixels, Put
  <2>5. /\ DOMAIN copy' = (DOMAIN copy) \cup {c} /\ copy'[c] = made
        /\ \A d \in DOMAIN copy : d # c /\ copy'[d] = copy[d]
    BY <2>1 DEF Put
  <2>6. /\ DOMAIN taken' = (DOMAIN taken) \cup {c}
        /\ taken'[c] = [y \in 0 .. h - 1 |-> Row(source, y).value]
        /\ \A d \in DOMAIN taken : d # c => taken'[d] = taken[d]
    BY <2>1 DEF Put
  <2>7. /\ b # NoBuffer
        /\ \A s \in DOMAIN object : object[s].buffer # b
        /\ \A d \in DOMAIN copy : copy[d].buffer # b
    BY FreshBuffer
  <2>8. /\ made.width = w /\ made.height = h
        /\ made.stride = BytesPerPixel * w /\ made.buffer = b
        /\ made \in [ width : Nat \ {0}, height : Nat, stride : Nat,
                      buffer : Buffers \cup {NoBuffer} ]
    <3>1. w \in Nat \ {0} /\ h \in Nat /\ BytesPerPixel * w \in Nat
      BY <2>3 DEF BytesPerPixel
    <3> HIDE DEF w, h
    <3>2. QED
      BY <3>1
  <2> HIDE DEF made
  (* Row y of the copy is row y of the source.                             *)
  <2>9. ASSUME NEW y \in 0 .. h - 1
        PROVE  taken'[c][y] = [x \in 0 .. w - 1 |->
                                 heap'[b][RowStart(made, y) + x]]
    <3>1. ~(y >= h)
      BY <2>3
    <3>2. Row(source, y).value
            = [x \in 0 .. w - 1 |-> heap[source.buffer][RowStart(source, y) + x]]
      BY <3>1 DEF Row, Ok
    <3>3. ASSUME NEW x \in 0 .. w - 1
          PROVE  heap'[b][RowStart(made, y) + x] = Row(source, y).value[x]
      <4>1. RowStart(made, y) = y * w
        BY <2>3, <2>8, RowStartExact
      <4>2. /\ y * w + x \in 0 .. w * h - 1
            /\ (y * w + x) \div w = y /\ (y * w + x) % w = x
        <5>1. w \in Nat /\ h \in Nat
          BY <2>3
        <5> HIDE DEF w, h
        <5>2. y \in Nat
          BY <5>1
        <5>3. y * w + x \in 0 .. w * h - 1
          BY <5>1, InsideImage
        <5>4. (y * w + x) \div w = y /\ (y * w + x) % w = x
          BY <5>1, <5>2, Position
        <5>5. QED
          BY <5>3, <5>4
      <4>3. heap'[b][y * w + x]
              = Row(source, (y * w + x) \div w).value[(y * w + x) % w]
        BY <2>4, <4>2
      <4>4. QED
        BY <4>1, <4>2, <4>3
    <3>4. taken'[c][y] = Row(source, y).value
      BY <2>6
    <3>5. Row(source, y).value = [x \in 0 .. w - 1 |-> Row(source, y).value[x]]
      BY <3>2
    <3> HIDE DEF w, h
    <3>6. QED
      BY <3>3, <3>4, <3>5
  <2>10. ObjectsSound'
    BY <2>2, <2>4, <2>7 DEF IInv, ObjectsSound, Bounded, Shaped
  <2>11. OneOwner'
    BY <2>2, <2>4, <2>5, <2>7, <2>8 DEF IInv, OneOwner, Owns
  <2>12. ViewsHeld' /\ EncodedSound' /\ NoRowFails'
    BY <2>2 DEF IInv, ViewsHeld, EncodedSound, NoRowFails
  <2>13. CopiesSound'
    BY <2>3, <2>4, <2>5, <2>6, <2>8 DEF IInv, CopiesSound
  <2>14. ExternalExact'
    <3>1. ASSUME NEW d \in DOMAIN copy, copy[d].buffer # NoBuffer
          PROVE  /\ copy'[d] = copy[d] /\ taken'[d] = taken[d]
                 /\ heap'[copy[d].buffer] = heap[copy[d].buffer]
      BY <2>4, <2>5, <2>6, <3>1 DEF IInv, CopiesSound
    <3>2. ASSUME NEW d \in DOMAIN copy, copy'[d].buffer # NoBuffer
          PROVE  /\ DOMAIN taken'[d] = 0 .. copy'[d].height - 1
                 /\ \A y \in DOMAIN taken'[d] :
                      taken'[d][y] = [x \in 0 .. copy'[d].width - 1 |->
                                        heap'[copy'[d].buffer]
                                          [RowStart(copy'[d], y) + x]]
      BY <2>5, <3>1, <3>2 DEF IInv, ExternalExact
    <3>3. DOMAIN taken'[c] = 0 .. copy'[c].height - 1
      BY <2>5, <2>6, <2>8
    <3>4. \A y \in DOMAIN taken'[c] :
            taken'[c][y] = [x \in 0 .. copy'[c].width - 1 |->
                              heap'[copy'[c].buffer][RowStart(copy'[c], y) + x]]
      <4>1. /\ copy'[c] = made /\ made.width = w /\ made.buffer = b
            /\ DOMAIN taken'[c] = 0 .. h - 1
        BY <2>5, <2>6, <2>8
      <4>2. \A y \in 0 .. h - 1 :
              taken'[c][y] = [x \in 0 .. w - 1 |->
                                heap'[b][RowStart(made, y) + x]]
        BY <2>9
      <4> HIDE DEF w, h
      <4>3. QED
        BY <4>1, <4>2
    <3>5. ASSUME NEW d \in DOMAIN copy', copy'[d].buffer # NoBuffer
          PROVE  /\ DOMAIN taken'[d] = 0 .. copy'[d].height - 1
                 /\ \A y \in DOMAIN taken'[d] :
                      taken'[d][y] = [x \in 0 .. copy'[d].width - 1 |->
                                        heap'[copy'[d].buffer]
                                          [RowStart(copy'[d], y) + x]]
      <4>1. CASE d = c
        <5>1. /\ DOMAIN taken'[d] = 0 .. copy'[d].height - 1
          BY <3>3, <4>1
        <5>2. \A y \in DOMAIN taken'[d] :
                taken'[d][y] = [x \in 0 .. copy'[d].width - 1 |->
                                  heap'[copy'[d].buffer]
                                    [RowStart(copy'[d], y) + x]]
          BY <3>4, <4>1
        <5>3. QED
          BY <5>1, <5>2
      <4>2. CASE d \in DOMAIN copy
        BY <3>2, <3>5, <4>2
      <4>3. QED
        BY <2>5, <4>1, <4>2
    <3>6. QED
      BY <3>5 DEF ExternalExact, RowStart
  <2>15. Keeps
    BY <2>2, <2>4, SameBuffer DEF Keeps, Owns
  <2>16. QED
    BY <2>10, <2>11, <2>12, <2>13, <2>14, <2>15 DEF IInv
<1>3. QED
  BY <1>1, <1>2

LEMMA MoveCopyStep ==
  ASSUME IInv, MoveCopy
  PROVE  IInv' /\ Keeps
<1>1. PICK from \in DOMAIN copy, to \in CopySlots \ DOMAIN copy :
        /\ copy' = Put([copy EXCEPT ![from].buffer = NoBuffer], to, copy[from])
        /\ taken' = Put(taken, to, taken[from])
        /\ result' = "ok"
        /\ UNCHANGED <<object, encoded, heap, view, writes>>
  BY DEF MoveCopy
<1>2. /\ object' = object /\ encoded' = encoded /\ heap' = heap
      /\ view' = view /\ result' = "ok"
  BY <1>1
<1>3. /\ DOMAIN copy' = (DOMAIN copy) \cup {to}
      /\ copy'[to] = copy[from]
      /\ copy'[from] = [copy[from] EXCEPT !.buffer = NoBuffer]
      /\ \A d \in DOMAIN copy : d # from => copy'[d] = copy[d]
  BY <1>1 DEF Put
<1>4. /\ DOMAIN taken' = (DOMAIN taken) \cup {to}
      /\ taken'[to] = taken[from]
      /\ \A d \in DOMAIN taken : d # to => taken'[d] = taken[d]
  BY <1>1 DEF Put
<1>5. \A d \in DOMAIN copy :
         /\ [copy[d] EXCEPT !.buffer = NoBuffer].buffer = NoBuffer
         /\ [copy[d] EXCEPT !.buffer = NoBuffer].width = copy[d].width
         /\ [copy[d] EXCEPT !.buffer = NoBuffer].height = copy[d].height
         /\ [copy[d] EXCEPT !.buffer = NoBuffer].stride = copy[d].stride
         /\ [copy[d] EXCEPT !.buffer = NoBuffer]
              \in [ width : Nat \ {0}, height : Nat, stride : Nat,
                    buffer : Buffers \cup {NoBuffer} ]
  BY DEF IInv, CopiesSound
<1>6. \A d \in DOMAIN copy' :
        /\ copy'[d].buffer = NoBuffer
           \/ \E e \in DOMAIN copy : /\ copy'[d] = copy[e]
                                     /\ taken'[d] = taken[e]
        /\ copy'[d] \in [ width : Nat \ {0}, height : Nat, stride : Nat,
                         buffer : Buffers \cup {NoBuffer} ]
        /\ copy'[d].stride = BytesPerPixel * copy'[d].width
        /\ d \in DOMAIN taken'
  <2>1. from # to /\ DOMAIN copy \subseteq DOMAIN taken
    BY DEF IInv, CopiesSound
  <2> SUFFICES ASSUME NEW d \in DOMAIN copy'
               PROVE  /\ copy'[d].buffer = NoBuffer
                         \/ \E e \in DOMAIN copy : /\ copy'[d] = copy[e]
                                                   /\ taken'[d] = taken[e]
                      /\ copy'[d] \in
                           [ width : Nat \ {0}, height : Nat, stride : Nat,
                             buffer : Buffers \cup {NoBuffer} ]
                      /\ copy'[d].stride = BytesPerPixel * copy'[d].width
                      /\ d \in DOMAIN taken'
    OBVIOUS
  <2>2. \A e \in DOMAIN copy :
          /\ copy[e] \in [ width : Nat \ {0}, height : Nat, stride : Nat,
                          buffer : Buffers \cup {NoBuffer} ]
          /\ copy[e].stride = BytesPerPixel * copy[e].width
    BY DEF IInv, CopiesSound
  <2>3. CASE d = to
    BY <1>3, <1>4, <2>3, <2>2
  <2>4. CASE d = from
    <3>1. /\ copy'[from].buffer = NoBuffer
          /\ copy'[from].width = copy[from].width
          /\ copy'[from].stride = copy[from].stride
          /\ copy'[from] \in
               [ width : Nat \ {0}, height : Nat, stride : Nat,
                 buffer : Buffers \cup {NoBuffer} ]
      BY <1>3, <1>5
    <3>2. QED
      BY <1>4, <2>1, <2>4, <2>2, <3>1
  <2>5. CASE d \in DOMAIN copy /\ d # from
    BY <1>3, <1>4, <2>1, <2>5, <2>2
  <2>6. QED
    BY <1>3, <2>3, <2>4, <2>5
<1>7. ObjectsSound'
  BY <1>2 DEF IInv, ObjectsSound, Bounded, Shaped
<1>8. OneOwner'
  <2>1. /\ from # to
        /\ copy'[from].buffer = NoBuffer
        /\ copy'[to].buffer = copy[from].buffer
        /\ \A d \in DOMAIN copy : d # from => copy'[d].buffer = copy[d].buffer
    BY <1>3, <1>5
  <2>2. NoBuffer \notin DOMAIN heap
    BY ImagesAssumption DEF IInv, ObjectsSound
  <2>3. ASSUME NEW b \in DOMAIN heap
        PROVE  \/ \E s \in DOMAIN object : object[s].buffer = b
               \/ \E d \in DOMAIN copy' : copy'[d].buffer = b
    <3>1. CASE \E s \in DOMAIN object : object[s].buffer = b
      BY <3>1
    <3>2. CASE \E d \in DOMAIN copy : copy[d].buffer = b
      BY <1>3, <2>1, <3>2
    <3>3. QED
      BY <3>1, <3>2 DEF IInv, OneOwner, Owns
  <2>4. ASSUME NEW c \in DOMAIN copy', NEW d \in DOMAIN copy',
               copy'[c].buffer = copy'[d].buffer, copy'[d].buffer # NoBuffer
        PROVE  c = d
    <3>1. /\ \A e, f \in DOMAIN copy :
               copy[e].buffer = copy[f].buffer /\ copy[f].buffer # NoBuffer
                 => e = f
      BY DEF IInv, OneOwner, Owns
    <3>2. c # from /\ d # from
      BY <2>1, <2>4
    <3>3. QED
      BY <1>3, <2>1, <2>4, <3>1, <3>2
  <2>5. ASSUME NEW s \in DOMAIN object, NEW d \in DOMAIN copy',
               object[s].buffer = copy'[d].buffer
        PROVE  copy'[d].buffer = NoBuffer
    <3>1. \A e \in DOMAIN copy :
            object[s].buffer = copy[e].buffer => copy[e].buffer = NoBuffer
      BY DEF IInv, OneOwner, Owns
    <3>2. CASE d = from
      BY <2>1, <3>2
    <3>3. CASE d = to
      BY <2>1, <2>5, <3>1, <3>3
    <3>4. CASE d \in DOMAIN copy /\ d # from
      BY <2>1, <2>5, <3>1, <3>4
    <3>5. QED
      BY <1>3, <3>2, <3>3, <3>4
  <2>6. \A s, t \in DOMAIN object' :
          Owns(object'[s], object'[t].buffer) =>
            s = t \/ object'[t].buffer = NoBuffer
    BY <1>2 DEF IInv, OneOwner
  <2>7. QED
    BY <1>2, <2>3, <2>4, <2>5, <2>6 DEF OneOwner, Owns
<1>9. ViewsHeld' /\ EncodedSound' /\ NoRowFails'
  BY <1>2 DEF IInv, ViewsHeld, EncodedSound, NoRowFails
<1>10. CopiesSound'
  BY <1>2, <1>6 DEF IInv, CopiesSound
<1>11. ExternalExact'
  <2>1. ASSUME NEW d \in DOMAIN copy', copy'[d].buffer # NoBuffer
        PROVE  /\ DOMAIN taken'[d] = 0 .. copy'[d].height - 1
               /\ \A y \in DOMAIN taken'[d] :
                    taken'[d][y] = [x \in 0 .. copy'[d].width - 1 |->
                                      heap[copy'[d].buffer]
                                        [RowStart(copy'[d], y) + x]]
    <3>1. PICK e \in DOMAIN copy : copy'[d] = copy[e] /\ taken'[d] = taken[e]
      BY <1>6, <2>1
    <3>2. QED
      BY <2>1, <3>1 DEF IInv, ExternalExact
  <2>2. QED
    BY <1>2, <2>1 DEF ExternalExact, RowStart
<1>12. Keeps
  BY <1>2, SameBuffer DEF Keeps, Owns
<1>13. QED
  BY <1>7, <1>8, <1>9, <1>10, <1>11, <1>12 DEF IInv

LEMMA DestroyCopyStep ==
  ASSUME IInv, DestroyCopy
  PROVE  IInv' /\ Keeps
<1>1. PICK c \in DOMAIN copy :
        /\ copy' = Without(copy, {c}) /\ taken' = Without(taken, {c})
        /\ heap' = Without(heap, {copy[c].buffer})
        /\ result' = "ok" /\ UNCHANGED <<object, encoded, view, writes>>
  BY DEF DestroyCopy
<1>2. PICK old : old = copy[c].buffer
  OBVIOUS
<1>3. /\ object' = object /\ encoded' = encoded /\ view' = view
      /\ result' = "ok"
  BY <1>1
<1>4. /\ DOMAIN copy' = (DOMAIN copy) \ {c}
      /\ \A d \in DOMAIN copy' : copy'[d] = copy[d]
      /\ DOMAIN taken' = (DOMAIN taken) \ {c}
      /\ \A d \in DOMAIN taken' : taken'[d] = taken[d]
  BY <1>1 DEF Without
<1>5. /\ DOMAIN heap' = (DOMAIN heap) \ {old}
      /\ \A b \in DOMAIN heap' : heap'[b] = heap[b]
  BY <1>1, <1>2 DEF Without
<1>6. NoBuffer \notin DOMAIN heap
  BY ImagesAssumption DEF IInv, ObjectsSound
<1>7. /\ \A s \in DOMAIN object :
           object[s].buffer # old \/ object[s].buffer = NoBuffer
      /\ \A d \in DOMAIN copy :
           d # c => copy[d].buffer # old \/ copy[d].buffer = NoBuffer
  BY <1>2 DEF IInv, OneOwner, Owns
<1>8. ObjectsSound'
  <2>1. ASSUME NEW t \in DOMAIN object PROVE Bounded(object[t])'
    <3>1. /\ object'[t] = object[t] /\ Bounded(object[t])
          /\ object[t].buffer # old \/ object[t].buffer = NoBuffer
      BY <1>3, <1>7 DEF IInv, ObjectsSound
    <3>2. QED
      BY <1>5, <1>6, <3>1 DEF Bounded, Shaped
  <2>2. QED
    BY <1>3, <1>5, <2>1 DEF IInv, ObjectsSound
<1>9. OneOwner'
  BY <1>2, <1>3, <1>4, <1>5, <1>6 DEF IInv, OneOwner, Owns
<1>10. ViewsHeld' /\ EncodedSound' /\ NoRowFails'
  BY <1>3 DEF IInv, ViewsHeld, EncodedSound, NoRowFails
<1>11. CopiesSound' /\ ExternalExact'
  BY <1>4, <1>5, <1>7 DEF IInv, CopiesSound, ExternalExact
<1>12. Keeps
  BY <1>3, <1>5, <1>6, <1>7, SameBuffer DEF Keeps, Owns
<1>13. QED
  BY <1>8, <1>9, <1>10, <1>11, <1>12 DEF IInv

-----------------------------------------------------------------------------

LEMMA InitIInv == Init => IInv
<1> SUFFICES ASSUME Init PROVE IInv
  OBVIOUS
<1>1. /\ DOMAIN object = {} /\ DOMAIN encoded = {} /\ DOMAIN heap = {}
      /\ DOMAIN view = {} /\ DOMAIN copy = {}
  BY DEF Init, Empty
<1>2. QED
  BY <1>1 DEF Init, IInv, ObjectsSound, OneOwner, ViewsHeld, CopiesSound,
              EncodedSound, ExternalExact, NoRowFails

LEMMA NextIInv == IInv /\ Next => IInv' /\ Keeps
<1> SUFFICES ASSUME IInv, Next PROVE IInv' /\ Keeps
  OBVIOUS
<1>1. CASE RefuseFactor
  BY <1>1, FailStep DEF RefuseFactor, Refuse
<1>2. QED
  BY <1>1, BorrowStep, WriteStep, CreateStep, DecodeStep, MoveConstructStep,
     MoveAssignStep, DestroyStep, CompositeStep, TransformStep, CopyStep,
     MoveCopyStep, DestroyCopyStep DEF Next

LEMMA StutterIInv == IInv /\ UNCHANGED vars => IInv'
<1> SUFFICES ASSUME IInv, UNCHANGED vars PROVE IInv'
  OBVIOUS
<1>1. /\ UNCHANGED <<object, encoded, heap, copy, taken>>
      /\ view' = view /\ result' = result
  BY DEF vars
<1>2. ViewsHeld' /\ result' # "row_out_of_range"
  BY <1>1 DEF IInv, ViewsHeld, NoRowFails
<1>3. QED
  BY <1>1, <1>2, QuietStep

(* The inductive invariant of owners, views and copies.                    *)
THEOREM ImagesInvariant == Spec => []IInv
BY InitIInv, NextIInv, StutterIInv, PTL DEF Spec

(* However images are created, moved, assigned and destroyed, every buffer *)
(* has one owner and every owner the storage its extent says.              *)
THEOREM OneOwnerEach == Spec => []OwnersSound
BY OwnersFromIInv, ImagesInvariant, PTL

(* A view in hand reads inside live storage, each pixel in one row.        *)
THEOREM ViewsReadInside == Spec => []ViewsInside
BY ViewsFromIInv, ImagesInvariant, PTL

(* No operation on views in hand meets a row that is not there.            *)
THEOREM RowsAlwaysThere == Spec => []NoRowFails
<1>1. IInv => NoRowFails
  BY DEF IInv
<1>2. QED
  BY <1>1, ImagesInvariant, PTL

(* An external image stays what its source was when it was copied.         *)
THEOREM CopiesIndependent == Spec => []ExternalExact
<1>1. IInv => ExternalExact
  BY DEF IInv
<1>2. QED
  BY <1>1, ImagesInvariant, PTL

(* No step loses pixels that still have an owner, or changes what it       *)
(* borrows.                                                                *)
THEOREM PixelsKept == Spec => NothingLost
<1>1. IInv /\ [Next]_vars => [Keeps]_vars
  BY NextIInv
<1>2. QED
  BY <1>1, ImagesInvariant, PTL DEF Spec, NothingLost
=============================================================================
