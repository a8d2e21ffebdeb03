---------------------------- MODULE EncodedProofs ---------------------------
(***************************************************************************)
(* What is read off an encoding.  From an extent: the two properties of a  *)
(* layout call, from LayoutExact, and that normalization is upright; each  *)
(* of its eight cases is linear arithmetic on a pixel's coordinates.  From *)
(* bytes: the signature at the head of a file, the orientation a TIFF      *)
(* block says, the APP1 marker such a block arrives in, and the WebP       *)
(* container whose chunks carry it.                                        *)
(*                                                                         *)
(* A walk reads numbers at places it computes itself.  Stands says that a  *)
(* part of the bytes is found at a place; what was put together with \o,   *)
(* cut or padded still Stands (StandsFirst, StandsLast, StandsWithin,      *)
(* StandsResized), and a number that Stands spelled is read back (Reads16, *)
(* Reads32) if it has room in its field, which is what Blocks requires.    *)
(*                                                                         *)
(* The scan of a container is a loop.  After(f, at, k) is where it stands  *)
(* after k chunks and what they say: FrameRound makes one round of it,     *)
(* ScanEnds adds the rounds up, and the lemmas named Ends... say how the   *)
(* last ones turn out for each way a container may end.  The last section  *)
(* joins both halves: the pixels shown for the bytes that were read.       *)
(***************************************************************************)
EXTENDS MCDecodeLimits, MCEncoded, LayoutProofs, FiniteSetTheorems,
        SequenceTheorems

(* The call of MCDecodeLimits: nothing was answered yet, or the answer is  *)
(* the one the code computes for the query.                                *)
CallInv ==
  /\ query \in Query
  /\ answer = Pending \/
       answer = CheckedDecodeLayout(query.extent, query.swaps, query.limits)

LEMMA QueryTypes ==
  ASSUME query \in Query
  PROVE  /\ query.extent \in Extent
         /\ query.swaps \in BOOLEAN
         /\ query.limits \in Limits
<1>1. QueryLimits \subseteq Limits
  <2> SUFFICES ASSUME NEW l \in QueryLimits PROVE l \in Limits
    OBVIOUS
  <2>1. WordMax \in Word
    BY WidthAssumption DEF Word
  <2>2. QED
    BY <2>1, LimitSetsAssumption DEF QueryLimits, Limits
<1>2. QED
  BY <1>1 DEF Query

LEMMA CallInvariant == Spec => []CallInv
<1>1. Init => CallInv
  BY DEF Init, CallInv
<1>2. CallInv /\ [Next]_vars => CallInv'
  BY DEF CallInv, Next, vars
<1>3. QED
  BY <1>1, <1>2, PTL DEF Spec

(* An accepted layout is exact, tiles its rows and honours every limit.    *)
THEOREM LayoutSoundness == Spec => []LayoutSound
<1>1. CallInv => LayoutSound
  <2> SUFFICES ASSUME CallInv, answer.ok PROVE LayoutSound
    BY DEF LayoutSound
  <2> DEFINE output == OutputExtent(query.extent, query.swaps)
             exact  == [ encoded_extent |-> query.extent,
                         output_extent  |-> output,
                         pixel_count    |-> output.width * output.height,
                         row_bytes      |-> output.width * BytesPerPixel,
                         output_bytes   |-> PixelBytes(query.extent) ]
  <2>1. /\ query.extent \in Extent /\ query.swaps \in BOOLEAN
        /\ query.limits \in Limits
    BY QueryTypes DEF CallInv
  <2>2. answer = CheckedDecodeLayout(query.extent, query.swaps, query.limits)
    BY DEF CallInv, Pending
  <2>3. FitsLimits(query.extent, query.limits) /\ answer.value = exact
    BY <2>1, <2>2, LayoutExact
  <2>4. /\ output.width \in Nat /\ output.height \in Nat
        /\ output.width * output.height = query.extent.width * query.extent.height
    BY <2>1, ExtentTypes DEF OutputExtent, Transposed
  <2>5. /\ PixelBytes(query.extent)
             = BytesPerPixel * (output.width * output.height)
        /\ (output.width * BytesPerPixel) * output.height
             = PixelBytes(query.extent)
    BY <2>4 DEF PixelBytes, BytesPerPixel
  <2> HIDE DEF output
  <2>6. QED
    BY <2>3, <2>5 DEF LayoutSound, output
<1>2. QED
  BY <1>1, CallInvariant, PTL

(* No extent within the limits is refused: the limits are inclusive.       *)
THEOREM LayoutCompleteness == Spec => []LayoutComplete
<1>1. CallInv => LayoutComplete
  <2> SUFFICES ASSUME CallInv, Answered, ~answer.ok PROVE LayoutComplete
    BY DEF LayoutComplete
  <2>1. /\ query.extent \in Extent /\ query.swaps \in BOOLEAN
        /\ query.limits \in Limits
    BY QueryTypes DEF CallInv
  <2>2. answer = CheckedDecodeLayout(query.extent, query.swaps, query.limits)
    BY DEF CallInv, Answered
  <2>3. ~FitsLimits(query.extent, query.limits)
    BY <2>1, <2>2, LayoutExact
  <2>4. answer.error = "invalid_dimensions" <=>
          (query.extent.width = 0 \/ query.extent.height = 0)
    BY <2>2 DEF CheckedDecodeLayout, Ok, Err
  <2>5. QED
    BY <2>3, <2>4 DEF LayoutComplete
<1>2. QED
  BY <1>1, CallInvariant, PTL

-----------------------------------------------------------------------------
(* Normalization.                                                          *)

LEMMA ExtentNat ==
  ASSUME NEW e \in NonEmpty
  PROVE  e.width \in Nat \ {0} /\ e.height \in Nat \ {0}
BY WidthAssumption DEF NonEmpty, Extent

(* An extent with a pixel in it.                                           *)
Solid(e) == e.width \in Nat \ {0} /\ e.height \in Nat \ {0}

(* The copied pixel lies in the source and is the one displayed at (x, y). *)
LEMMA UprightPixel ==
  ASSUME NEW o \in Orientations, NEW e, Solid(e),
         NEW p \in Pixels(OutputExtent(e, OrientationSwapsAxes(o)))
  PROVE  /\ SourceCoordinates(o, e, p[1], p[2]) \in Pixels(e)
         /\ Displayed(o, e, SourceCoordinates(o, e, p[1], p[2])) = p
<1> DEFINE w == e.width
           h == e.height
           x == p[1]
           y == p[2]
<1>1. w \in Nat \ {0} /\ h \in Nat \ {0}
  BY DEF Solid
<1>2. ASSUME o \in 1 .. 4
      PROVE  x \in 0 .. w - 1 /\ y \in 0 .. h - 1 /\ p = <<x, y>>
  BY <1>2 DEF Pixels, OutputExtent, OrientationSwapsAxes
<1>3. ASSUME o \in 5 .. 8
      PROVE  x \in 0 .. h - 1 /\ y \in 0 .. w - 1 /\ p = <<x, y>>
  BY <1>3 DEF Pixels, OutputExtent, OrientationSwapsAxes, Transposed
<1> DEFINE s == SourceCoordinates(o, e, x, y)
<1>4. CASE o \in 1 .. 4
  <2>1. s \in Pixels(e)
    BY <1>1, <1>2, <1>4 DEF SourceCoordinates, Pixels
  <2>2. Displayed(o, e, s) = <<x, y>>
    BY <1>1, <1>2, <1>4
       DEF SourceCoordinates, Displayed, FirstRowSide, FirstColumnSide,
           OutputExtent, OrientationSwapsAxes
  <2>3. QED
    BY <1>2, <1>4, <2>1, <2>2
<1>5. CASE o \in 5 .. 8
  <2>1. s \in Pixels(e)
    BY <1>1, <1>3, <1>5 DEF SourceCoordinates, Pixels
  <2>2. Displayed(o, e, s) = <<x, y>>
    BY <1>1, <1>3, <1>5
       DEF SourceCoordinates, Displayed, FirstRowSide, FirstColumnSide,
           OutputExtent, OrientationSwapsAxes, Transposed
  <2>3. QED
    BY <1>3, <1>5, <2>1, <2>2
<1>6. QED
  BY <1>4, <1>5 DEF Orientations

LEMMA UprightImage ==
  ASSUME NEW o \in Orientations, NEW e, Solid(e),
         NEW p \in DOMAIN Normalized(o, e)
  PROVE  LET s == Normalized(o, e)[p]
         IN  s \in Pixels(e) /\ Displayed(o, e, s) = p
<1>1. /\ p \in Pixels(OutputExtent(e, OrientationSwapsAxes(o)))
      /\ Normalized(o, e)[p] = SourceCoordinates(o, e, p[1], p[2])
  BY DEF Normalized
<1>2. QED
  BY <1>1, UprightPixel

(* Nothing is normalized yet, or the image is the one the loops build.     *)
Built ==
  /\ orientation \in Orientations
  /\ Solid(source)
  /\ image = Unturned \/ image = Normalized(orientation, source)

(* Every normalized pixel is the stored pixel EXIF displays there, for     *)
(* every orientation and every extent.                                     *)
THEOREM Upright == TurnSpec => []UprightExactly
<1>1. TurnInit => Built
  BY ExtentNat DEF TurnInit, Built, Solid
<1>2. Built /\ [Turn]_turnVars => Built'
  BY DEF Built, Turn, turnVars
<1>3. Built => UprightExactly
  BY UprightImage DEF Built, Done, UprightExactly
<1>4. QED
  BY <1>1, <1>2, <1>3, PTL DEF TurnSpec

-----------------------------------------------------------------------------
(* Signatures.                                                             *)

(* What is a prefix is found byte by byte.                                 *)
LEMMA PrefixBytes ==
  ASSUME NEW s \in Seq(Int), NEW u \in Seq(Int)
  PROVE  IsPrefix(s, u) <=> /\ Len(s) <= Len(u)
                            /\ \A i \in 1 .. Len(s) : s[i] = u[i]
<1>1. Len(s) \in Nat /\ Len(u) \in Nat
  BY LenProperties
<1>2. ASSUME Len(s) <= Len(u)
      PROVE  SubSeq(s, 1, Len(s)) = SubSeq(u, 1, Len(s))
               <=> \A i \in 1 .. Len(s) : s[i] = u[i]
  <2>1. SubSeq(s, 1, Len(s)) = [i \in 1 .. Len(s) |-> s[i]]
    BY <1>1
  <2>2. SubSeq(u, 1, Len(s)) = [i \in 1 .. Len(s) |-> u[i]]
    BY <1>1
  <2>3. QED
    BY <2>1, <2>2
<1>3. QED
  BY <1>2 DEF IsPrefix

(* A signature is complete, or may still become complete, exactly when the *)
(* bytes agree with it as far as both go.                                  *)
LEMMA PlainTemplate ==
  ASSUME NEW bytes \in Seq(Nat), NEW signature \in Seq(Nat)
  PROVE  /\ SignatureMatches(bytes, signature) <=>
              Agrees(bytes, signature) /\ Len(bytes) >= Len(signature)
         /\ SignatureRemainsPossible(bytes, signature) <=>
              Agrees(bytes, signature) /\ ~(Len(bytes) >= Len(signature))
<1>1. /\ Len(bytes) \in Nat /\ Len(signature) \in Nat
      /\ DOMAIN bytes = 1 .. Len(bytes)
      /\ DOMAIN signature = 1 .. Len(signature)
      /\ \A i \in DOMAIN signature : signature[i] \in Nat
  BY LenProperties
<1>2. bytes \in Seq(Int) /\ signature \in Seq(Int)
  BY SeqMonotonic
<1>3. /\ IsPrefix(signature, bytes) <=>
           /\ Len(signature) <= Len(bytes)
           /\ \A i \in 1 .. Len(signature) : signature[i] = bytes[i]
      /\ IsPrefix(bytes, signature) <=>
           /\ Len(bytes) <= Len(signature)
           /\ \A i \in 1 .. Len(bytes) : bytes[i] = signature[i]
  BY <1>2, PrefixBytes
<1>4. Agrees(bytes, signature) <=>
        \A i \in 1 .. Len(bytes) :
          i <= Len(signature) => signature[i] = bytes[i]
  BY <1>1 DEF Agrees, AnyByte, None
<1>5. QED
  BY <1>1, <1>3, <1>4 DEF SignatureMatches, SignatureRemainsPossible

LEMMA SignatureTypes ==
  /\ PngSignature \in Seq(Nat) /\ Len(PngSignature) = 8
  /\ JpegSignature \in Seq(Nat) /\ Len(JpegSignature) = 2
  /\ RiffSignature \in Seq(Nat) /\ Len(RiffSignature) = 4
  /\ WebpSignature \in Seq(Nat) /\ Len(WebpSignature) = 4
BY DEF PngSignature, JpegSignature, RiffSignature, WebpSignature

(* The part of a sequence from one index to another.                       *)
LEMMA Part ==
  ASSUME NEW S, NEW s \in Seq(S), NEW m \in Nat, NEW n \in Nat,
         1 <= m, m <= n + 1, n <= Len(s)
  PROVE  /\ SubSeq(s, m, n) \in Seq(S)
         /\ Len(SubSeq(s, m, n)) = n + 1 - m
         /\ \A i \in 1 .. n + 1 - m : SubSeq(s, m, n)[i] = s[m + i - 1]
<1>1. Len(s) \in Nat /\ \A i \in m .. n : s[i] \in S
  BY LenProperties
<1>2. CASE m <= n
  BY <1>1, <1>2, SubSeqProperties
<1>3. CASE m = n + 1
  BY <1>1, <1>3, SubSeqProperties
<1>4. QED
  BY <1>2, <1>3

(* What follows the size bytes.                                            *)
LEMMA FormatBytesAt ==
  ASSUME NEW bytes \in Seq(Nat), Len(bytes) >= 8
  PROVE  /\ FormatBytes(bytes) \in Seq(Nat)
         /\ Len(FormatBytes(bytes)) = Len(bytes) - 8
         /\ \A i \in 1 .. Len(bytes) - 8 : FormatBytes(bytes)[i] = bytes[8 + i]
<1> DEFINE n == Len(bytes)
<1>0. n \in Nat
  BY LenProperties
<1>1. n \in Nat /\ n + 1 - 9 = n - 8 /\ 9 <= n + 1 /\ n >= 8 /\ n <= Len(bytes)
  BY <1>0
<1>3. FormatBytes(bytes) = SubSeq(bytes, 9, n)
  BY DEF FormatBytes
<1> HIDE DEF n
<1>2. /\ SubSeq(bytes, 9, n) \in Seq(Nat)
      /\ Len(SubSeq(bytes, 9, n)) = n + 1 - 9
      /\ \A i \in 1 .. n + 1 - 9 : SubSeq(bytes, 9, n)[i] = bytes[9 + i - 1]
  BY <1>1, Part
<1>4. ASSUME NEW i \in 1 .. n - 8
      PROVE  SubSeq(bytes, 9, n)[i] = bytes[8 + i]
  <2>1. i \in 1 .. n + 1 - 9 /\ 9 + i - 1 = 8 + i
    BY <1>1
  <2>2. QED
    BY <1>2, <2>1
<1>5. QED
  BY <1>1, <1>2, <1>3, <1>4 DEF n

(* The first bytes of four, from offset d of the input, k of them or all.  *)
UpTo(four, bytes, d, k) == \A i \in 1 .. 4 : i <= k => four[i] = bytes[d + i]

(* Four bytes compared with a part of others, as far as that part goes.    *)
LEMMA FourShifted ==
  ASSUME NEW k \in Nat, NEW d \in Nat, NEW part, NEW bytes, NEW four,
         \A i \in 1 .. k : part[i] = bytes[d + i]
  PROVE  /\ 4 <= k =>
              ((\A i \in 1 .. 4 : four[i] = part[i]) <=> UpTo(four, bytes, d, 4))
         /\ k <= 4 =>
              ((\A i \in 1 .. k : part[i] = four[i]) <=> UpTo(four, bytes, d, k))
<1>1. ASSUME 4 <= k
      PROVE  (\A i \in 1 .. 4 : four[i] = part[i]) <=> UpTo(four, bytes, d, 4)
  BY <1>1 DEF UpTo
<1>2. ASSUME k <= 4
      PROVE  (\A i \in 1 .. k : part[i] = four[i]) <=> UpTo(four, bytes, d, k)
  BY <1>2 DEF UpTo
<1>3. QED
  BY <1>1, <1>2

LEMMA UpToFour ==
  ASSUME NEW four, NEW bytes, NEW d \in Nat
  PROVE  /\ \A k \in Int : k >= 4 =>
              (UpTo(four, bytes, d, k) <=> UpTo(four, bytes, d, 4))
         /\ \A k \in Int : k <= 0 => UpTo(four, bytes, d, k)
BY DEF UpTo

(* Four bytes against a sequence, and a sequence against four bytes.       *)
LEMMA FourPrefix ==
  ASSUME NEW four \in Seq(Nat), Len(four) = 4, NEW bytes, NEW d \in Nat,
         NEW part \in Seq(Nat), \A i \in 1 .. Len(part) : part[i] = bytes[d + i]
  PROVE  /\ IsPrefix(four, part) <=> 4 <= Len(part) /\ UpTo(four, bytes, d, 4)
         /\ IsPrefix(part, four) <=>
              Len(part) <= 4 /\ UpTo(four, bytes, d, Len(part))
<1> DEFINE k == Len(part)
<1>1. k \in Nat
  BY LenProperties
<1>2. four \in Seq(Int) /\ part \in Seq(Int)
  BY SeqMonotonic
<1>3. /\ IsPrefix(four, part) <=>
           4 <= k /\ \A i \in 1 .. 4 : four[i] = part[i]
      /\ IsPrefix(part, four) <=>
           k <= 4 /\ \A i \in 1 .. k : part[i] = four[i]
  BY <1>2, PrefixBytes
<1>4. \A i \in 1 .. k : part[i] = bytes[d + i]
  OBVIOUS
<1> HIDE DEF k
<1>5. /\ 4 <= k => ((\A i \in 1 .. 4 : four[i] = part[i])
                     <=> UpTo(four, bytes, d, 4))
      /\ k <= 4 => ((\A i \in 1 .. k : part[i] = four[i])
                     <=> UpTo(four, bytes, d, k))
  BY <1>1, <1>4, FourShifted
<1>6. QED
  BY <1>3, <1>5, Zenon DEF k

(* The same of a WebP, whose signature has any bytes in the middle.        *)
LEMMA WebpAgrees ==
  ASSUME NEW bytes, NEW n \in Nat, DOMAIN bytes = 1 .. n,
         \A i \in 1 .. n : bytes[i] \in Nat
  PROVE  /\ Len(Template["webp"]) = 12
         /\ Agrees(bytes, Template["webp"]) <=>
              UpTo(RiffSignature, bytes, 0, n) /\ UpTo(WebpSignature, bytes, 8, n - 8)
<1> DEFINE webp == <<82, 73, 70, 70, -1, -1, -1, -1, 87, 69, 66, 80>>
<1>1. Template["webp"] = webp
  BY DEF Template, AnyByte, None
<1>2. Len(webp) = 12 /\ DOMAIN webp = 1 .. 12
  OBVIOUS
<1>3. Agrees(bytes, webp) <=>
        \A i \in 1 .. 12 : i <= n => webp[i] = -1 \/ webp[i] = bytes[i]
  <2>1. DOMAIN bytes \cap DOMAIN webp = {i \in 1 .. 12 : i <= n}
    BY <1>2
  <2> HIDE DEF webp
  <2>2. QED
    BY <2>1 DEF Agrees, AnyByte, None
<1>4. (\A i \in 1 .. 12 : i <= n => webp[i] = -1 \/ webp[i] = bytes[i])
        <=> UpTo(RiffSignature, bytes, 0, n) /\ UpTo(WebpSignature, bytes, 8, n - 8)
  BY DEF UpTo, RiffSignature, WebpSignature
<1>5. QED
  BY <1>1, <1>2, <1>3, <1>4, Zenon

LEMMA WebpTemplate ==
  ASSUME NEW bytes \in Seq(Nat)
  PROVE  /\ WebpSignatureMatches(bytes) <=>
              /\ Agrees(bytes, Template["webp"])
              /\ Len(bytes) >= Len(Template["webp"])
         /\ WebpSignatureRemainsPossible(bytes) <=>
              /\ Agrees(bytes, Template["webp"])
              /\ ~(Len(bytes) >= Len(Template["webp"]))
<1> DEFINE n == Len(bytes)
           Riff(k) == UpTo(RiffSignature, bytes, 0, k)
           Webp4(k) == UpTo(WebpSignature, bytes, 8, k)
<1>1. /\ n \in Nat /\ DOMAIN bytes = 1 .. n
      /\ \A i \in 1 .. n : bytes[i] \in Nat /\ bytes[i] = bytes[0 + i]
  BY LenProperties
<1>2. /\ Len(Template["webp"]) = 12
      /\ Agrees(bytes, Template["webp"]) <=> Riff(n) /\ Webp4(n - 8)
  BY <1>1, WebpAgrees
<1>3. /\ IsPrefix(RiffSignature, bytes) <=> 4 <= n /\ Riff(4)
      /\ IsPrefix(bytes, RiffSignature) <=> n <= 4 /\ Riff(n)
  BY <1>1, SignatureTypes, FourPrefix
<1>4. ASSUME n >= 8
      PROVE  /\ IsPrefix(WebpSignature, FormatBytes(bytes)) <=>
                  4 <= n - 8 /\ Webp4(4)
             /\ IsPrefix(FormatBytes(bytes), WebpSignature) <=>
                  n - 8 <= 4 /\ Webp4(n - 8)
             /\ Len(FormatBytes(bytes)) = n - 8
  <2> DEFINE part == FormatBytes(bytes)
  <2>1. /\ part \in Seq(Nat) /\ Len(part) = n - 8
        /\ \A i \in 1 .. n - 8 : part[i] = bytes[8 + i]
    BY <1>4, FormatBytesAt
  <2>2. \A i \in 1 .. Len(part) : part[i] = bytes[8 + i]
    BY <2>1, Zenon
  <2> HIDE DEF part
  <2>3. /\ IsPrefix(WebpSignature, part) <=>
             4 <= Len(part) /\ UpTo(WebpSignature, bytes, 8, 4)
        /\ IsPrefix(part, WebpSignature) <=>
             Len(part) <= 4 /\ UpTo(WebpSignature, bytes, 8, Len(part))
    BY <2>1, <2>2, SignatureTypes, FourPrefix
  <2>4. QED
    BY <2>1, <2>3, Zenon DEF part
<1>5. /\ n >= 4 => (Riff(n) <=> Riff(4))
      /\ n - 8 >= 4 => (Webp4(n - 8) <=> Webp4(4))
      /\ n - 8 <= 0 => Webp4(n - 8)
  <2>1. n \in Int /\ n - 8 \in Int
    BY <1>1
  <2> HIDE DEF n
  <2>2. 0 \in Nat /\ 8 \in Nat
    OBVIOUS
  <2>3. QED
    BY <2>1, <2>2, UpToFour, Zenon
<1>6. Len(RiffSignature) = 4 /\ Len(WebpSignature) = 4
  BY SignatureTypes
<1> HIDE DEF Riff, Webp4
<1>7. WebpSignatureMatches(bytes) <=>
        n >= 12 /\ IsPrefix(RiffSignature, bytes)
          /\ IsPrefix(WebpSignature, FormatBytes(bytes))
  BY Zenon DEF WebpSignatureMatches, SignaturePrefixBytes
<1>8. WebpSignatureRemainsPossible(bytes) <=>
        IF n < 4 THEN IsPrefix(bytes, RiffSignature)
        ELSE /\ IsPrefix(RiffSignature, bytes)
             /\ \/ n <= 8
                \/ /\ Len(FormatBytes(bytes)) < 4
                   /\ IsPrefix(FormatBytes(bytes), WebpSignature)
  BY <1>6, Zenon DEF WebpSignatureRemainsPossible, SignatureRemainsPossible
<1> HIDE DEF n
<1>9. CASE n < 4
  <2>1. ~(n >= 12) /\ n <= 4 /\ n - 8 <= 0
    BY <1>1, <1>9
  <2>2. QED
    BY <1>2, <1>3, <1>5, <1>7, <1>8, <1>9, <2>1, Zenon DEF n
<1>10. CASE n >= 4 /\ n <= 8
  <2>1. ~(n >= 12) /\ ~(n < 4) /\ 4 <= n /\ n - 8 <= 0
    BY <1>1, <1>10
  <2>2. QED
    BY <1>2, <1>3, <1>5, <1>7, <1>8, <1>10, <2>1, Zenon DEF n
<1>11. CASE n > 8 /\ n < 12
  <2>1. /\ ~(n >= 12) /\ ~(n < 4) /\ 4 <= n /\ n >= 4 /\ ~(n <= 8) /\ n >= 8
        /\ n - 8 <= 4 /\ n - 8 < 4
    BY <1>1, <1>11
  <2>2. QED
    BY <1>2, <1>3, <1>4, <1>5, <1>7, <1>8, <2>1, Zenon DEF n
<1>12. CASE n >= 12
  <2>1. /\ ~(n < 4) /\ 4 <= n /\ n >= 4 /\ ~(n <= 8) /\ n >= 8 /\ 4 <= n - 8
        /\ n - 8 >= 4 /\ ~(n - 8 < 4)
    BY <1>1, <1>12
  <2>2. QED
    BY <1>2, <1>3, <1>4, <1>5, <1>7, <1>8, <1>12, <2>1, Zenon DEF n
<1>13. n < 4 \/ (n >= 4 /\ n <= 8) \/ (n > 8 /\ n < 12) \/ n >= 12
  BY <1>1
<1>14. QED
  BY <1>9, <1>10, <1>11, <1>12, <1>13

(* The three signatures differ in their first byte.                        *)
LEMMA FirstByte ==
  ASSUME NEW bytes \in Seq(Nat), Len(bytes) >= 1
  PROVE  /\ Agrees(bytes, Template["jpeg"]) => bytes[1] = 255
         /\ Agrees(bytes, Template["png"]) => bytes[1] = 137
         /\ Agrees(bytes, Template["webp"]) => bytes[1] = 82
<1>1. 1 \in DOMAIN bytes /\ bytes[1] \in Nat
  BY LenProperties
<1>2. /\ 1 \in DOMAIN Template["jpeg"] /\ Template["jpeg"][1] = 255
      /\ 1 \in DOMAIN Template["png"] /\ Template["png"][1] = 137
      /\ 1 \in DOMAIN Template["webp"] /\ Template["webp"][1] = 82
  BY DEF Template, JpegSignature, PngSignature
<1>3. \A format \in DOMAIN Template :
        Agrees(bytes, Template[format]) /\ 1 \in DOMAIN Template[format]
          => Template[format][1] \in {AnyByte, bytes[1]}
  BY <1>1 DEF Agrees
<1>4. {"jpeg", "png", "webp"} = DOMAIN Template
  BY DEF Template
<1>5. QED
  BY <1>1, <1>2, <1>3, <1>4 DEF AnyByte, None

Complete(bytes, format) ==
  Agrees(bytes, Template[format]) /\ Len(bytes) >= Len(Template[format])

Incomplete(bytes, format) ==
  Agrees(bytes, Template[format]) /\ ~(Len(bytes) >= Len(Template[format]))

(* Every input, not only those of the run, gets the class that the         *)
(* signatures of the formats give it.                                      *)
THEOREM SignatureResolves ==
  ASSUME NEW bytes \in Seq(Nat)
  PROVE  /\ \A format \in DOMAIN Template :
              SignatureOf(bytes) = format <=> Complete(bytes, format)
         /\ SignatureOf(bytes) = "prefix" <=>
              \E format \in DOMAIN Template : Incomplete(bytes, format)
<1>1. /\ Template["jpeg"] = JpegSignature /\ Template["png"] = PngSignature
      /\ DOMAIN Template = {"jpeg", "png", "webp"}
  BY DEF Template
<1>2. /\ SignatureMatches(bytes, JpegSignature) <=> Complete(bytes, "jpeg")
      /\ SignatureMatches(bytes, PngSignature) <=> Complete(bytes, "png")
      /\ WebpSignatureMatches(bytes) <=> Complete(bytes, "webp")
      /\ SignatureRemainsPossible(bytes, JpegSignature) <=> Incomplete(bytes, "jpeg")
      /\ SignatureRemainsPossible(bytes, PngSignature) <=> Incomplete(bytes, "png")
      /\ WebpSignatureRemainsPossible(bytes) <=> Incomplete(bytes, "webp")
  BY <1>1, SignatureTypes, PlainTemplate, WebpTemplate, Zenon
     DEF Complete, Incomplete
<1>3. \A f, g \in DOMAIN Template : Complete(bytes, f) /\ f # g =>
        ~Complete(bytes, g) /\ ~Incomplete(bytes, g)
  <2> SUFFICES ASSUME NEW f \in DOMAIN Template, NEW g \in DOMAIN Template,
                      Complete(bytes, f), f # g, Agrees(bytes, Template[g])
               PROVE  FALSE
    BY DEF Complete, Incomplete
  <2>1. \A h \in {"jpeg", "png", "webp"} : Len(Template[h]) \in {2, 8, 12}
    <3>1. Len(Template["jpeg"]) = 2 /\ Len(Template["png"]) = 8
      BY <1>1, SignatureTypes
    <3>2. Len(Template["webp"]) = 12
      BY DEF Template
    <3>3. QED
      BY <3>1, <3>2, Zenon
  <2>2. Len(bytes) \in Nat
    BY LenProperties
  <2>3. Len(bytes) >= 1 /\ Agrees(bytes, Template[f])
    <3>1. PICK k \in {2, 8, 12} : k = Len(Template[f])
      BY <1>1, <2>1
    <3>2. Len(bytes) >= k /\ Agrees(bytes, Template[f])
      BY <3>1, Zenon DEF Complete
    <3>3. QED
      BY <2>2, <3>2
  <2>4. QED
    BY <1>1, <2>3, FirstByte
<1>4. \A f \in DOMAIN Template : ~(Complete(bytes, f) /\ Incomplete(bytes, f))
  BY DEF Complete, Incomplete
<1>5. SignatureOf(bytes) =
        IF Complete(bytes, "jpeg") THEN "jpeg"
        ELSE IF Complete(bytes, "webp") THEN "webp"
        ELSE IF Complete(bytes, "png") THEN "png"
        ELSE IF \/ Incomplete(bytes, "png") \/ Incomplete(bytes, "jpeg")
                \/ Incomplete(bytes, "webp")
        THEN "prefix" ELSE "unknown"
  BY <1>2, Zenon DEF SignatureOf
<1>6. QED
  BY <1>1, <1>3, <1>4, <1>5

-----------------------------------------------------------------------------
(* The files of the run.                                                   *)

(* What was read is what the reader of its kind computes from the bytes.   *)
Read ==
  /\ file \in Files
  /\ HasRead("tiff") => reading = Ok(ParseExifOrientation(TiffBytes(file.tiff)))
  /\ HasRead("webp") => reading = ScanContainerOrientation(WebpBytes(file))
  /\ HasRead("marker") => reading = ProcessExifMarker(MarkerBytes(file))
  /\ HasRead("head") => reading = Ok(SignatureOf(file.bytes))

LEMMA ReadInvariant == EncodedSpec => []Read
<1>1. EncodedInit => Read
  BY DEF EncodedInit, Read, HasRead
<1>2. Read /\ [EncodedNext]_<<turnVars, file, reading>> => Read'
  <2> SUFFICES ASSUME Read, [EncodedNext]_<<turnVars, file, reading>>
               PROVE  Read'
    OBVIOUS
  <2>1. CASE ReadFile /\ ReadTiff
    BY <2>1 DEF Read, ReadFile, ReadTiff, HasRead
  <2>2. CASE ReadFile /\ ReadWebp
    BY <2>2 DEF Read, ReadFile, ReadWebp, HasRead
  <2>3. CASE ReadFile /\ ReadMarker
    BY <2>3 DEF Read, ReadFile, ReadMarker, HasRead
  <2>4. CASE ReadFile /\ ReadHead
    BY <2>4 DEF Read, ReadFile, ReadHead, HasRead
  <2>5. CASE Display
    BY <2>5 DEF Read, Display, HasRead
  <2>6. CASE UNCHANGED <<turnVars, file, reading>>
    BY <2>6 DEF Read, HasRead
  <2>7. QED
    BY <2>1, <2>2, <2>3, <2>4, <2>5, <2>6 DEF EncodedNext, ReadFile
<1>3. QED
  BY <1>1, <1>2, PTL DEF EncodedSpec

(* The bytes of a file of one kind are among those written for it.         *)
LEMMA FileKinds ==
  ASSUME file \in Files
  PROVE  /\ file.kind = "tiff" => file \in TiffFiles
         /\ file.kind = "webp" => file \in WebpFiles
         /\ file.kind = "marker" => file \in MarkerFiles
         /\ file.kind = "head" => file \in HeadFiles
<1>1. \A f \in TiffFiles : f.kind = "tiff"
  BY DEF TiffFiles
<1>2. \A f \in WebpFiles : f.kind = "webp"
  <2>1. \A c, r, l, t : Webp(c, r, l, t).kind = "webp"
    BY DEF Webp
  <2>2. \A f \in Pictures \cup Containers : f.kind = "webp"
    <3>1. \A f \in Pictures : \E c : f = Webp(c, 0, 0, 0)
      <4>1. \A b, o : \E c : Picture(b, o) = Webp(c, 0, 0, 0)
        BY Zenon DEF Picture
      <4>2. QED
        BY <4>1 DEF Pictures
    <3>2. \A f \in Containers : \E c : f = Webp(c, 0, 0, 0)
      BY Zenon DEF Containers
    <3>3. QED
      BY <2>1, <3>1, <3>2
  <2>3. \A f \in Framings : f.kind = "webp"
    BY <2>1 DEF Framings
  <2>4. \A f \in Endings : f.kind = "webp"
    BY <2>1 DEF Endings
  <2>5. QED
    BY <2>2, <2>3, <2>4 DEF WebpFiles
<1>3. \A f \in MarkerFiles : f.kind = "marker"
  BY DEF MarkerFiles
<1>4. \A f \in HeadFiles : f.kind = "head"
  BY DEF HeadFiles
<1>5. QED
  BY <1>1, <1>2, <1>3, <1>4 DEF Files

LEMMA TemplateLengths ==
  /\ Len(Template["jpeg"]) = 2 /\ Len(Template["png"]) = 8
  /\ Len(Template["webp"]) = 12 /\ DOMAIN Template = {"jpeg", "png", "webp"}
<1>1. Len(Template["jpeg"]) = 2 /\ Len(Template["png"]) = 8
  BY SignatureTypes DEF Template
<1>2. Len(Template["webp"]) = 12
  BY DEF Template
<1>3. DOMAIN Template = {"jpeg", "png", "webp"}
  BY DEF Template
<1>4. QED
  BY <1>1, <1>2, <1>3

LEMMA ZerosBytes ==
  ASSUME NEW n \in Nat
  PROVE  /\ Zeros(n) \in Seq(Nat) /\ Len(Zeros(n)) = n
         /\ \A i \in 1 .. n : Zeros(n)[i] = 0
BY DEF Zeros

(* Two parts of known lengths, one after the other.                        *)
LEMMA JoinedType ==
  ASSUME NEW m \in Nat, NEW n \in Nat, NEW s \in Seq(Nat), NEW u \in Seq(Nat),
         Len(s) = m, Len(u) = n
  PROVE  s \o u \in Seq(Nat) /\ Len(s \o u) = m + n
BY ConcatProperties

LEMMA Followed ==
  ASSUME NEW s \in Seq(Nat), NEW u \in Seq(Nat)
  PROVE  s \o u \in Seq(Nat) /\ Len(s \o u) = Len(s) + Len(u)
BY ConcatProperties

LEMMA JoinedParts ==
  ASSUME NEW m \in Nat, NEW n \in Nat, NEW s \in Seq(Nat), NEW u \in Seq(Nat),
         Len(s) = m, Len(u) = n
  PROVE  /\ \A i \in 1 .. m : (s \o u)[i] = s[i]
         /\ \A i \in 1 .. n : (s \o u)[m + i] = u[i]
<1> DEFINE whole == s \o u
<1>1. \A i \in 1 .. m + n : whole[i] = IF i <= m THEN s[i] ELSE u[i - m]
  BY ConcatProperties
<1> HIDE DEF whole
<1>2. \A i \in 1 .. m : whole[i] = s[i]
  BY <1>1
<1>3. ASSUME NEW i \in 1 .. n PROVE whole[m + i] = u[i]
  <2>1. m + i \in 1 .. m + n /\ ~(m + i <= m) /\ (m + i) - m = i
    OBVIOUS
  <2>2. QED
    BY <1>1, <2>1
<1>4. QED
  BY <1>2, <1>3 DEF whole

(* Leading bytes are bytes.                                                *)
LEMMA LeadingBytes ==
  ASSUME NEW format \in DOMAIN Template, NEW filler \in Nat, NEW byte \in Nat,
         NEW at \in 1 .. Len(Template[format]) + 2,
         NEW n \in 1 .. Len(Template[format]) + 2
  PROVE  Leading(format, filler, at, byte, n) \in Seq(Nat)
<1> DEFINE template == Template[format]
           filled   == Filled(template, filler)
           whole    == filled \o Zeros(2)
           struck   == [whole EXCEPT ![at] = byte]
<1>1. template \in Seq(Int) /\ Len(template) \in Nat
      /\ \A i \in DOMAIN template : template[i] = AnyByte \/ template[i] \in Nat
  <2>1. CASE format = "jpeg" \/ format = "png"
    <3>1. template \in Seq(Nat)
      <4>1. Template["jpeg"] = JpegSignature /\ Template["png"] = PngSignature
        BY Zenon DEF Template
      <4>2. QED
        BY <2>1, <4>1, SignatureTypes, Zenon
    <3>2. QED
      BY <3>1, LenProperties, SeqMonotonic
  <2>2. CASE format = "webp"
    BY <2>2 DEF Template, AnyByte, None
  <2>3. QED
    BY <2>1, <2>2, TemplateLengths
<1>2. DOMAIN template = 1 .. Len(template)
  BY <1>1, LenProperties
<1> HIDE DEF template
<1>3. filled \in Seq(Nat) /\ Len(filled) = Len(template)
  BY <1>1, <1>2 DEF Filled
<1> HIDE DEF filled
<1>4. whole \in Seq(Nat) /\ Len(whole) = Len(template) + 2
  <2>1. 2 \in Nat /\ Zeros(2) \in Seq(Nat) /\ Len(Zeros(2)) = 2
    BY ZerosBytes
  <2> HIDE DEF template
  <2>2. /\ whole \in Seq(Nat)
        /\ Len(whole) = Len(filled) + Len(Zeros(2))
    BY <1>3, <2>1, Followed, Zenon
  <2>3. QED
    BY <1>3, <2>1, <2>2, Zenon
<1> HIDE DEF whole
<1>5. at \in 1 .. Len(whole) /\ n \in 1 .. Len(whole)
  BY <1>4 DEF template
<1>6. struck \in Seq(Nat) /\ Len(struck) = Len(whole)
  BY <1>4, <1>5, ExceptSeq
<1> HIDE DEF struck
<1>7. SubSeq(struck, 1, n) \in Seq(Nat)
  BY <1>1, <1>4, <1>5, <1>6, Part
<1>8. QED
  BY <1>7, Zenon DEF Leading, struck, whole, filled, template

LEMMA HeadBytes ==
  ASSUME NEW h \in HeadFiles
  PROVE  h.bytes \in Seq(Nat)
<1>1. h.bytes \in Heads
  BY DEF HeadFiles
<1>2. CASE h.bytes \in ShortHeads
  <2>1. PICK format \in DOMAIN Template, filler \in {0, 82}, at \in 1 .. 4,
             byte \in {82, 255, 137}, n \in 1 .. 4 :
          h.bytes = Leading(format, filler, at, byte, n)
    BY <1>2 DEF ShortHeads
  <2>2. PICK k \in {2, 8, 12} : k = Len(Template[format])
    BY TemplateLengths
  <2>3. at \in 1 .. k + 2 /\ n \in 1 .. k + 2
    OBVIOUS
  <2>4. filler \in Nat /\ byte \in Nat
    OBVIOUS
  <2>5. QED
    BY <2>1, <2>2, <2>3, <2>4, LeadingBytes
<1>3. CASE h.bytes \in LongHeads
  <2>1. PICK format \in {"png", "webp"}, filler \in {0, 82}, at \in 1 .. 10,
             byte \in {0, 80, 82, 87}, n \in 1 .. 10 :
          h.bytes = Leading(format, filler, at, byte, n)
    BY <1>3 DEF LongHeads
  <2>2. /\ format \in DOMAIN Template
        /\ \E k \in {8, 12} : k = Len(Template[format])
    BY TemplateLengths
  <2>3. PICK k \in {8, 12} : k = Len(Template[format])
    BY <2>2
  <2>4. at \in 1 .. k + 2 /\ n \in 1 .. k + 2
    OBVIOUS
  <2>5. filler \in Nat /\ byte \in Nat
    OBVIOUS
  <2>6. QED
    BY <2>1, <2>2, <2>3, <2>4, <2>5, LeadingBytes
<1>4. CASE h.bytes \in WholeHeads
  <2>1. PICK filler \in {0, 82}, at \in 1 .. 14, byte \in {0, 82, 87},
             n \in 11 .. 14 :
          h.bytes = Leading("webp", filler, at, byte, n)
    BY <1>4 DEF WholeHeads
  <2>2. "webp" \in DOMAIN Template
    BY TemplateLengths
  <2>3. PICK k \in {12} : k = Len(Template["webp"])
    BY TemplateLengths
  <2>4. at \in 1 .. k + 2 /\ n \in 1 .. k + 2
    OBVIOUS
  <2>5. filler \in Nat /\ byte \in Nat
    OBVIOUS
  <2>6. QED
    BY <2>1, <2>2, <2>3, <2>4, <2>5, LeadingBytes
<1>5. QED
  BY <1>1, <1>2, <1>3, <1>4 DEF Heads

(* An input is dispatched to a format exactly when it carries its whole    *)
(* signature, and called truncated exactly when more bytes could make it   *)
(* one.                                                                    *)
THEOREM SignaturesExact == EncodedSpec => []SignatureExact
<1>1. Read => SignatureExact
  <2> SUFFICES ASSUME Read, HasRead("head") PROVE SignatureExact
    BY DEF SignatureExact
  <2>1. file.bytes \in Seq(Nat)
    BY FileKinds, HeadBytes DEF Read, HasRead
  <2>2. reading = Ok(SignatureOf(file.bytes))
    BY DEF Read
  <2>3. \A c : reading = Ok(c) <=> SignatureOf(file.bytes) = c
    BY <2>2 DEF Ok
  <2>4. QED
    BY <2>1, <2>3, SignatureResolves, Zenon
       DEF SignatureExact, Complete, Incomplete
<1>2. QED
  BY <1>1, ReadInvariant, PTL

-----------------------------------------------------------------------------
(* TIFF blocks: what is written is what is read.                           *)

ByteOrders == {"little", "big"}

LEMMA SpellBytes ==
  ASSUME NEW n \in Nat, NEW order
  PROVE  /\ Spell(n, 2, order) \in Seq(Nat) /\ Len(Spell(n, 2, order)) = 2
         /\ Spell(n, 4, order) \in Seq(Nat) /\ Len(Spell(n, 4, order)) = 4
<1>1. \A i \in 1 .. 4 : Worth[i] \in Nat \ {0}
  BY SMT DEF Worth
<1>2. \A i \in 1 .. 4 : (n \div Worth[i]) % 256 \in Nat
  BY <1>1
<1>3. /\ \A i \in 1 .. 2 : (IF order = "little" THEN i ELSE 2 + 1 - i) \in 1 .. 4
      /\ \A i \in 1 .. 4 : (IF order = "little" THEN i ELSE 4 + 1 - i) \in 1 .. 4
  OBVIOUS
<1>4. /\ Spell(n, 2, order) \in [1 .. 2 -> Nat]
      /\ Spell(n, 4, order) \in [1 .. 4 -> Nat]
  BY <1>2, <1>3 DEF Spell
<1>5. \A k \in Nat, s \in [1 .. 4 -> Nat] \cup [1 .. 2 -> Nat] :
        s \in [1 .. k -> Nat] => s \in Seq(Nat) /\ Len(s) = k
  OBVIOUS
<1>6. QED
  BY <1>4, <1>5

(* Two digits, and four, make up a number.                                 *)
LEMMA Digit ==
  ASSUME NEW n \in Nat
  PROVE  /\ n \div 256 \in Nat /\ n % 256 \in 0 .. 255
         /\ n = 256 * (n \div 256) + (n % 256)
OBVIOUS

LEMMA LastDigit ==
  ASSUME NEW n \in Nat, n <= 255
  PROVE  n % 256 = n
OBVIOUS

LEMMA TwoDigits ==
  ASSUME NEW n \in Nat, n <= 65535
  PROVE  n = (n % 256) + 256 * ((n \div 256) % 256)
<1>1. n \div 256 <= 255
  BY Digit, SMT
<1>2. (n \div 256) % 256 = n \div 256
  BY <1>1, Digit, LastDigit
<1>3. QED
  BY <1>2, Digit, SMT

LEMMA TwicePlace ==
  ASSUME NEW n \in Nat
  PROVE  /\ n \div 65536 = (n \div 256) \div 256
         /\ n \div 16777216 = ((n \div 256) \div 256) \div 256
<1> DEFINE a == n \div 256
           b == a \div 256
           c == b \div 256
<1>1. a \in Nat /\ n % 256 \in 0 .. 255 /\ n = 256 * a + (n % 256)
  BY Digit
<1>2. b \in Nat /\ a % 256 \in 0 .. 255 /\ a = 256 * b + (a % 256)
  BY <1>1, Digit
<1>3. c \in Nat /\ b % 256 \in 0 .. 255 /\ b = 256 * c + (b % 256)
  BY <1>2, Digit
<1> HIDE DEF a, b, c
<1>4. n \div 65536 = b
  BY <1>1, <1>2, SMT
<1>5. n \div 16777216 = c
  BY <1>1, <1>2, <1>3, SMT
<1>6. QED
  BY <1>4, <1>5, SMT DEF a, b, c

LEMMA FourDigits ==
  ASSUME NEW n \in Nat, n <= 4294967295
  PROVE  n = (n % 256) + 256 * ((n \div 256) % 256)
               + 65536 * ((n \div 65536) % 256)
               + 16777216 * ((n \div 16777216) % 256)
<1> DEFINE a == n \div 256
           b == a \div 256
           c == b \div 256
<1>1. a \in Nat /\ n % 256 \in 0 .. 255 /\ n = 256 * a + (n % 256)
  BY Digit, SMT
<1>2. b \in Nat /\ a % 256 \in 0 .. 255 /\ a = 256 * b + (a % 256)
  BY <1>1, Digit, SMT
<1>3. c \in Nat /\ b % 256 \in 0 .. 255 /\ b = 256 * c + (b % 256)
  BY <1>2, Digit, SMT
<1>4. n \div 65536 = b /\ n \div 16777216 = c
  BY TwicePlace, SMT
<1> HIDE DEF a, b, c
<1>5. c <= 255
  BY <1>1, <1>2, <1>3, SMT
<1>6. c % 256 = c
  BY <1>3, <1>5, LastDigit, SMT
<1>7. n = (n % 256) + 256 * (a % 256) + 65536 * (b % 256) + 16777216 * (c % 256)
  BY <1>1, <1>2, <1>3, <1>6, SMT
<1>8. QED
  BY <1>4, <1>7, SMT DEF a

(* The part stands at the offset, all of it.                               *)
Stands(bytes, offset, part, count) ==
  /\ offset + count <= Len(bytes)
  /\ \A i \in 1 .. count : bytes[offset + i] = part[i]

LEMMA SpelledLittle ==
  ASSUME NEW n \in Nat
  PROVE  /\ Spell(n, 2, "little")[1] = n % 256
         /\ Spell(n, 2, "little")[2] = (n \div 256) % 256
         /\ Spell(n, 4, "little")[1] = n % 256
         /\ Spell(n, 4, "little")[2] = (n \div 256) % 256
         /\ Spell(n, 4, "little")[3] = (n \div 65536) % 256
         /\ Spell(n, 4, "little")[4] = (n \div 16777216) % 256
<1>1. /\ Worth[1] = 1 /\ Worth[2] = 256
      /\ Worth[3] = 65536 /\ Worth[4] = 16777216
  BY SMT DEF Worth
<1>2. n \div 1 = n
  OBVIOUS
<1>3. /\ Spell(n, 2, "little") = [i \in 1 .. 2 |-> (n \div Worth[i]) % 256]
      /\ Spell(n, 4, "little") = [i \in 1 .. 4 |-> (n \div Worth[i]) % 256]
  BY SMT DEF Spell
<1>4. QED
  BY <1>1, <1>2, <1>3, SMT

LEMMA SpelledBig ==
  ASSUME NEW n \in Nat, NEW order, order # "little"
  PROVE  /\ Spell(n, 2, order)[1] = (n \div 256) % 256
         /\ Spell(n, 2, order)[2] = n % 256
         /\ Spell(n, 4, order)[1] = (n \div 16777216) % 256
         /\ Spell(n, 4, order)[2] = (n \div 65536) % 256
         /\ Spell(n, 4, order)[3] = (n \div 256) % 256
         /\ Spell(n, 4, order)[4] = n % 256
<1>1. /\ Worth[1] = 1 /\ Worth[2] = 256
      /\ Worth[3] = 65536 /\ Worth[4] = 16777216
  BY SMT DEF Worth
<1>2. n \div 1 = n
  OBVIOUS
<1>3. /\ Spell(n, 2, order) = [i \in 1 .. 2 |-> (n \div Worth[2 + 1 - i]) % 256]
      /\ Spell(n, 4, order) = [i \in 1 .. 4 |-> (n \div Worth[4 + 1 - i]) % 256]
  BY SMT DEF Spell
<1>4. QED
  BY <1>1, <1>2, <1>3, SMT

(* A number spelled somewhere is read there.                               *)
LEMMA Reads16 ==
  ASSUME NEW bytes \in Seq(Nat), NEW offset \in Nat, NEW n \in Nat,
         n <= 65535, NEW order \in ByteOrders,
         Stands(bytes, offset, Spell(n, 2, order), 2)
  PROVE  Read16(bytes, offset, order) = n
<1>1. Len(bytes) \in Nat /\ offset + 2 <= Len(bytes)
  BY LenProperties DEF Stands
<1>2. /\ bytes[offset + 1] = Spell(n, 2, order)[1]
      /\ bytes[offset + 2] = Spell(n, 2, order)[2]
  BY DEF Stands
<1>3. Read16(bytes, offset, order) =
        IF order = "little"
        THEN bytes[offset + 1] + 256 * bytes[offset + 2]
        ELSE 256 * bytes[offset + 1] + bytes[offset + 2]
  <2>1. ~(offset > Len(bytes) \/ Len(bytes) - offset < 2)
    BY <1>1
  <2>2. offset + 0 + 1 = offset + 1 /\ offset + 1 + 1 = offset + 2
    OBVIOUS
  <2>3. QED
    BY <2>1, <2>2, SMT DEF Read16, ByteAt
<1>4. n = (n % 256) + 256 * ((n \div 256) % 256)
  BY TwoDigits, SMT
<1>5. n % 256 \in Nat /\ (n \div 256) % 256 \in Nat
  BY SMT
<1>6. CASE order = "little"
  <2>1. /\ bytes[offset + 1] = n % 256
        /\ bytes[offset + 2] = (n \div 256) % 256
    BY <1>2, <1>6, SpelledLittle, SMT
  <2>2. QED
    BY <1>3, <1>4, <1>6, <2>1, SMT
<1>7. CASE order = "big"
  <2>1. /\ bytes[offset + 1] = (n \div 256) % 256
        /\ bytes[offset + 2] = n % 256
    BY <1>2, <1>7, SpelledBig, SMT
  <2>2. QED
    BY <1>3, <1>4, <1>5, <1>7, <2>1, SMT
<1>8. QED
  BY <1>6, <1>7 DEF ByteOrders

LEMMA Reads32 ==
  ASSUME NEW bytes \in Seq(Nat), NEW offset \in Nat, NEW n \in Nat,
         n <= 4294967295,
         NEW order \in ByteOrders, Stands(bytes, offset, Spell(n, 4, order), 4)
  PROVE  Read32(bytes, offset, order) = n
<1>1. Len(bytes) \in Nat /\ offset + 4 <= Len(bytes)
  BY LenProperties, SMT DEF Stands
<1>2. /\ bytes[offset + 1] = Spell(n, 4, order)[1]
      /\ bytes[offset + 2] = Spell(n, 4, order)[2]
      /\ bytes[offset + 3] = Spell(n, 4, order)[3]
      /\ bytes[offset + 4] = Spell(n, 4, order)[4]
  BY SMT DEF Stands
<1>3. Read32(bytes, offset, order) =
        IF order = "little"
        THEN bytes[offset + 1] + 256 * bytes[offset + 2]
               + 65536 * bytes[offset + 3] + 16777216 * bytes[offset + 4]
        ELSE 16777216 * bytes[offset + 1] + 65536 * bytes[offset + 2]
               + 256 * bytes[offset + 3] + bytes[offset + 4]
  <2>1. ~(offset > Len(bytes) \/ Len(bytes) - offset < 4)
    BY <1>1, SMT
  <2>2. /\ offset + 0 + 1 = offset + 1 /\ offset + 1 + 1 = offset + 2
        /\ offset + 2 + 1 = offset + 3 /\ offset + 3 + 1 = offset + 4
    BY SMT
  <2>3. QED
    BY <2>1, <2>2, SMT DEF Read32, ByteAt
<1>4. n = (n % 256) + 256 * ((n \div 256) % 256)
            + 65536 * ((n \div 65536) % 256)
            + 16777216 * ((n \div 16777216) % 256)
  BY FourDigits, SMT
<1>5. /\ n % 256 \in Nat /\ (n \div 256) % 256 \in Nat
      /\ (n \div 65536) % 256 \in Nat /\ (n \div 16777216) % 256 \in Nat
  BY SMT
<1>6. CASE order = "little"
  <2>1. /\ bytes[offset + 1] = n % 256
        /\ bytes[offset + 2] = (n \div 256) % 256
        /\ bytes[offset + 3] = (n \div 65536) % 256
        /\ bytes[offset + 4] = (n \div 16777216) % 256
    BY <1>2, <1>6, SpelledLittle, SMT
  <2>2. QED
    BY <1>3, <1>4, <1>6, <2>1, SMT
<1>7. CASE order = "big"
  <2>1. /\ bytes[offset + 1] = (n \div 16777216) % 256
        /\ bytes[offset + 2] = (n \div 65536) % 256
        /\ bytes[offset + 3] = (n \div 256) % 256
        /\ bytes[offset + 4] = n % 256
    <3>1. /\ Spell(n, 4, order)[1] = (n \div 16777216) % 256
          /\ Spell(n, 4, order)[2] = (n \div 65536) % 256
          /\ Spell(n, 4, order)[3] = (n \div 256) % 256
          /\ Spell(n, 4, order)[4] = n % 256
      <4>1. order # "little"
        BY <1>7, SMT
      <4>2. QED
        BY <4>1, SpelledBig, SMT
    <3>2. QED
      BY <1>2, <3>1, SMT
  <2>2. QED
    BY <1>3, <1>4, <1>5, <1>7, <2>1, SMT
<1>8. QED
  BY <1>6, <1>7, SMT DEF ByteOrders

(* What stands in a part stands in the whole.                              *)
LEMMA StandsFirst ==
  ASSUME NEW s \in Seq(Nat), NEW u \in Seq(Nat), NEW offset \in Nat,
         NEW count \in Nat, NEW part, Stands(s, offset, part, count)
  PROVE  Stands(s \o u, offset, part, count)
<1> DEFINE whole == s \o u
           m == Len(s)
           n == Len(u)
<1>1. m \in Nat /\ n \in Nat
  BY LenProperties
<1>2. Len(whole) = m + n
  BY <1>1, JoinedType
<1>3. \A i \in 1 .. m : whole[i] = s[i]
  BY <1>1, JoinedParts
<1>4. offset + count <= m /\ \A i \in 1 .. count : s[offset + i] = part[i]
  BY DEF Stands
<1> HIDE DEF whole, m, n
<1>5. offset + count <= m + n
  BY <1>1, <1>4
<1>6. ASSUME NEW i \in 1 .. count PROVE whole[offset + i] = part[i]
  <2>1. offset + i \in 1 .. m
    BY <1>1, <1>4
  <2>2. QED
    BY <1>3, <1>4, <2>1
<1>7. QED
  BY <1>2, <1>5, <1>6 DEF Stands, whole

LEMMA StandsLast ==
  ASSUME NEW s \in Seq(Nat), NEW u \in Seq(Nat), NEW m \in Nat, NEW n \in Nat,
         Len(s) = m, Len(u) = n
  PROVE  Stands(s \o u, m, u, n)
<1>1. Len(s \o u) = m + n
  BY JoinedType
<1>2. \A i \in 1 .. n : (s \o u)[m + i] = u[i]
  <2> DEFINE whole == s \o u
  <2>1. \A i \in 1 .. m + n : whole[i] = IF i <= m THEN s[i] ELSE u[i - m]
    BY ConcatProperties
  <2> HIDE DEF whole
  <2>2. ASSUME NEW i \in 1 .. n PROVE whole[m + i] = u[i]
    <3>1. m + i \in 1 .. m + n /\ ~(m + i <= m) /\ (m + i) - m = i
      OBVIOUS
    <3>2. QED
      BY <2>1, <3>1
  <2>3. QED
    BY <2>2 DEF whole
<1>3. m + n <= Len(s \o u)
  BY <1>1
<1>4. QED
  BY <1>2, <1>3, Zenon DEF Stands

LEMMA StandsWithin ==
  ASSUME NEW bytes \in Seq(Nat), NEW offset \in Nat, NEW part, NEW count \in Nat,
         Stands(bytes, offset, part, count),
         NEW inner \in Nat, NEW less \in Nat, NEW piece, inner + less <= count,
         \A i \in 1 .. less : part[inner + i] = piece[i]
  PROVE  Stands(bytes, offset + inner, piece, less)
<1>1. Len(bytes) \in Nat
  BY LenProperties
<1>2. offset + count <= Len(bytes)
      /\ \A i \in 1 .. count : bytes[offset + i] = part[i]
  BY DEF Stands
<1>3. (offset + inner) + less <= Len(bytes)
  BY <1>1, <1>2
<1>4. ASSUME NEW i \in 1 .. less
      PROVE  bytes[(offset + inner) + i] = piece[i]
  <2>1. inner + i \in 1 .. count /\ (offset + inner) + i = offset + (inner + i)
    OBVIOUS
  <2>2. QED
    BY <1>2, <2>1
<1>5. QED
  BY <1>3, <1>4 DEF Stands

(* A part of count bytes holds a piece of less behind inner of them.       *)
Holds(part, count, inner, piece, less) ==
  /\ inner + less <= count
  /\ \A i \in 1 .. less : part[inner + i] = piece[i]

LEMMA StandsHeld ==
  ASSUME NEW bytes \in Seq(Nat), NEW offset \in Nat, NEW part, NEW count \in Nat,
         NEW inner \in Nat, NEW less \in Nat, NEW piece,
         Stands(bytes, offset, part, count),
         Holds(part, count, inner, piece, less)
  PROVE  Stands(bytes, offset + inner, piece, less)
<1>1. /\ inner + less <= count
      /\ \A i \in 1 .. less : part[inner + i] = piece[i]
  BY Zenon DEF Holds
<1>2. QED
  BY <1>1, StandsWithin

(* Cutting or padding a block leaves what stands before the cut.           *)
LEMMA ResizedType ==
  ASSUME NEW bytes \in Seq(Nat), NEW tail \in Int
  PROVE  /\ Resized(bytes, tail) \in Seq(Nat)
         /\ Len(bytes) + tail >= 0 => Len(Resized(bytes, tail)) = Len(bytes) + tail
         /\ Len(bytes) + tail < 0 => Len(Resized(bytes, tail)) = 0
<1>1. Len(bytes) \in Nat
  BY LenProperties
<1>2. CASE tail >= 0
  <2>1. /\ tail \in Nat /\ Zeros(tail) \in Seq(Nat) /\ Len(Zeros(tail)) = tail
    BY <1>2, ZerosBytes
  <2>2. /\ bytes \o Zeros(tail) \in Seq(Nat)
        /\ Len(bytes \o Zeros(tail)) = Len(bytes) + tail
    BY <1>1, <2>1, JoinedType
  <2>3. QED
    BY <1>1, <1>2, <2>2 DEF Resized
<1>3. CASE tail < 0 /\ Len(bytes) + tail >= 0
  <2> DEFINE n == Len(bytes) + tail
  <2>1. n \in Nat /\ 1 <= n + 1 /\ n <= Len(bytes) /\ 1 \in Nat /\ n + 1 - 1 = n
    BY <1>1, <1>3
  <2> HIDE DEF n
  <2>2. SubSeq(bytes, 1, n) \in Seq(Nat) /\ Len(SubSeq(bytes, 1, n)) = n + 1 - 1
    BY <2>1, Part
  <2>3. Resized(bytes, tail) = SubSeq(bytes, 1, n)
    BY <1>3 DEF Resized, n
  <2>4. QED
    BY <1>3, <2>1, <2>2, <2>3 DEF n
<1>4. CASE tail < 0 /\ Len(bytes) + tail < 0
  <2>1. SubSeq(bytes, 1, Len(bytes) + tail) = << >>
    BY <1>1, <1>4, SubSeqEmpty
  <2>2. QED
    BY <1>4, <2>1 DEF Resized
<1>5. QED
  BY <1>1, <1>2, <1>3, <1>4

LEMMA StandsResized ==
  ASSUME NEW bytes \in Seq(Nat), NEW tail \in Int, NEW offset \in Nat,
         NEW count \in Nat, NEW part, Stands(bytes, offset, part, count),
         offset + count <= Len(bytes) + tail
  PROVE  Stands(Resized(bytes, tail), offset, part, count)
<1>1. Len(bytes) \in Nat
  BY LenProperties
<1>2. CASE tail >= 0
  <2>1. Zeros(tail) \in Seq(Nat)
    BY <1>2, ZerosBytes
  <2>2. Resized(bytes, tail) = bytes \o Zeros(tail)
    BY <1>2 DEF Resized
  <2>3. QED
    BY <2>1, <2>2, StandsFirst
<1>3. CASE tail < 0
  <2> DEFINE n == Len(bytes) + tail
  <2>1. n \in Nat /\ 1 <= n + 1 /\ n <= Len(bytes) /\ 1 \in Nat /\ n + 1 - 1 = n
    BY <1>1, <1>3
  <2>2. offset + count <= n /\ \A i \in 1 .. count : bytes[offset + i] = part[i]
    BY DEF Stands
  <2>3. Resized(bytes, tail) = SubSeq(bytes, 1, n)
    BY <1>3 DEF Resized
  <2> HIDE DEF n
  <2>4. /\ Len(SubSeq(bytes, 1, n)) = n + 1 - 1
        /\ \A i \in 1 .. n + 1 - 1 : SubSeq(bytes, 1, n)[i] = bytes[1 + i - 1]
    BY <2>1, Part
  <2>5. ASSUME NEW i \in 1 .. count
        PROVE  SubSeq(bytes, 1, n)[offset + i] = part[i]
    <3>1. offset + i \in 1 .. n + 1 - 1 /\ 1 + (offset + i) - 1 = offset + i
      BY <2>1, <2>2
    <3>2. QED
      BY <2>2, <2>4, <3>1
  <2>6. QED
    BY <2>1, <2>2, <2>3, <2>4, <2>5 DEF Stands
<1>4. QED
  BY <1>2, <1>3

Fields == [tag : Nat, type : Nat, count : Nat, value : Nat]

(* Descriptions of blocks whose numbers have room in their fields.         *)
Blocks ==
  { t \in [ order : {"little", "big", "none"}, magic : Nat,
            offset : {"exact", "header", "edge", "end", "past", "huge"},
            gap : Nat, entries : Seq(Fields), extra : Nat, tail : Int ] :
      /\ t.magic <= 65535
      /\ Len(t.entries) + t.extra <= 65535
      /\ 14 + t.gap + EntryBytes * Len(t.entries) < 1073741824
      /\ t.offset # "exact" => TiffSize(t) >= 1 /\ TiffSize(t) < 1073741824
      /\ \A i \in DOMAIN t.entries :
           /\ t.entries[i].tag <= 65535
           /\ t.entries[i].type <= 65535
           /\ t.entries[i].count <= 4294967295
           /\ t.entries[i].value <= 65535 }

LEMMA FieldStands ==
  ASSUME NEW e \in Fields, NEW order
  PROVE  /\ FieldBytes(e, order) \in Seq(Nat) /\ Len(FieldBytes(e, order)) = 12
         /\ Stands(FieldBytes(e, order), 0, Spell(e.tag, 2, order), 2)
         /\ Stands(FieldBytes(e, order), 2, Spell(e.type, 2, order), 2)
         /\ Stands(FieldBytes(e, order), 4, Spell(e.count, 4, order), 4)
         /\ Stands(FieldBytes(e, order), 8, Spell(e.value, 2, order), 2)
<1> DEFINE tag   == Spell(e.tag, 2, order)
           type  == Spell(e.type, 2, order)
           count == Spell(e.count, 4, order)
           value == Spell(e.value, 2, order)
           last  == Zeros(2)
           p1    == tag \o type
           p2    == p1 \o count
           p3    == p2 \o value
           p4    == p3 \o last
<1>1. /\ tag \in Seq(Nat) /\ Len(tag) = 2 /\ type \in Seq(Nat) /\ Len(type) = 2
      /\ count \in Seq(Nat) /\ Len(count) = 4
      /\ value \in Seq(Nat) /\ Len(value) = 2
      /\ last \in Seq(Nat) /\ Len(last) = 2
  BY SpellBytes, ZerosBytes DEF Fields
<1>2. FieldBytes(e, order) = p4
  BY Zenon DEF FieldBytes
<1> HIDE DEF tag, type, count, value, last
<1>3. Stands(tag, 0, tag, 2)
  BY <1>1 DEF Stands
<1>4. /\ p1 \in Seq(Nat) /\ Len(p1) = 4
      /\ Stands(p1, 0, tag, 2) /\ Stands(p1, 2, type, 2)
  <2>1. p1 \in Seq(Nat) /\ Len(p1) = 4
    <3>1. p1 \in Seq(Nat) /\ Len(p1) = Len(tag) + Len(type)
      BY <1>1, Followed, Zenon
    <3>2. QED
      BY <1>1, <3>1
  <2>2. Stands(p1, 0, tag, 2)
    BY <1>1, <1>3, StandsFirst
  <2>3. Stands(p1, 2, type, 2)
    BY <1>1, StandsLast
  <2>4. QED
    BY <2>1, <2>2, <2>3
<1> HIDE DEF p1
<1>5. /\ p2 \in Seq(Nat) /\ Len(p2) = 8 /\ Stands(p2, 0, tag, 2)
      /\ Stands(p2, 2, type, 2) /\ Stands(p2, 4, count, 4)
  <2>1. p2 \in Seq(Nat) /\ Len(p2) = 8
    <3>1. p2 \in Seq(Nat) /\ Len(p2) = Len(p1) + Len(count)
      BY <1>1, <1>4, Followed, Zenon
    <3>2. QED
      BY <1>1, <1>4, <3>1
  <2>2. Stands(p2, 0, tag, 2) /\ Stands(p2, 2, type, 2)
    BY <1>1, <1>4, StandsFirst
  <2>3. Stands(p2, 4, count, 4)
    BY <1>1, <1>4, StandsLast
  <2>4. QED
    BY <2>1, <2>2, <2>3
<1> HIDE DEF p2
<1>6. /\ p3 \in Seq(Nat) /\ Len(p3) = 10 /\ Stands(p3, 0, tag, 2)
      /\ Stands(p3, 2, type, 2) /\ Stands(p3, 4, count, 4)
      /\ Stands(p3, 8, value, 2)
  <2>1. p3 \in Seq(Nat) /\ Len(p3) = 10
    <3>1. p3 \in Seq(Nat) /\ Len(p3) = Len(p2) + Len(value)
      BY <1>1, <1>5, Followed, Zenon
    <3>2. QED
      BY <1>1, <1>5, <3>1
  <2>2. Stands(p3, 0, tag, 2) /\ Stands(p3, 2, type, 2) /\ Stands(p3, 4, count, 4)
    BY <1>1, <1>5, StandsFirst
  <2>3. Stands(p3, 8, value, 2)
    BY <1>1, <1>5, StandsLast
  <2>4. QED
    BY <2>1, <2>2, <2>3
<1> HIDE DEF p3
<1>7. /\ p4 \in Seq(Nat) /\ Len(p4) = 12 /\ Stands(p4, 0, tag, 2)
      /\ Stands(p4, 2, type, 2) /\ Stands(p4, 4, count, 4)
      /\ Stands(p4, 8, value, 2)
  <2>1. p4 \in Seq(Nat) /\ Len(p4) = 12
    <3>1. p4 \in Seq(Nat) /\ Len(p4) = Len(p3) + Len(last)
      BY <1>1, <1>6, Followed, Zenon
    <3>2. QED
      BY <1>1, <1>6, <3>1
  <2>2. /\ Stands(p4, 0, tag, 2) /\ Stands(p4, 2, type, 2)
        /\ Stands(p4, 4, count, 4) /\ Stands(p4, 8, value, 2)
    BY <1>1, <1>6, StandsFirst
  <2>3. QED
    BY <2>1, <2>2
<1>8. QED
  BY <1>2, <1>7, Zenon DEF tag, type, count, value

LEMMA EntriesStand ==
  ASSUME NEW t \in Blocks
  PROVE  LET n == Len(t.entries)
         IN  /\ EntriesBytes(t) \in Seq(Nat) /\ Len(EntriesBytes(t)) = 12 * n
             /\ \A j \in 0 .. n - 1 : \A k \in 1 .. 12 :
                  EntriesBytes(t)[12 * j + k] =
                    FieldBytes(t.entries[j + 1], t.order)[k]
<1> DEFINE n == Len(t.entries)
           bytes == EntriesBytes(t)
           Field(j) == FieldBytes(t.entries[j + 1], t.order)
<1>1. t.entries \in Seq(Fields)
  BY DEF Blocks
<1>2. n \in Nat
  BY <1>1, LenProperties
<1>3. \A j \in 0 .. n - 1 : Field(j) \in Seq(Nat) /\ Len(Field(j)) = 12
  <2> SUFFICES ASSUME NEW j \in 0 .. n - 1
               PROVE  Field(j) \in Seq(Nat) /\ Len(Field(j)) = 12
    OBVIOUS
  <2>1. j + 1 \in 1 .. n
    BY <1>2
  <2>2. t.entries[j + 1] \in Fields
    BY <1>1, <2>1, ElementOfSeq
  <2>3. QED
    BY <2>2, FieldStands
<1>4. \A j \in 0 .. n - 1 : \A k \in 1 .. 12 : Field(j)[k] \in Nat
  BY <1>3, ElementOfSeq
<1>5. bytes = [k \in 1 .. 12 * n |-> Field((k - 1) \div 12)[((k - 1) % 12) + 1]]
  BY DEF EntriesBytes, EntryBytes
<1> HIDE DEF n, bytes, Field
<1>6. ASSUME NEW k \in 1 .. 12 * n
      PROVE  (k - 1) \div 12 \in 0 .. n - 1 /\ ((k - 1) % 12) + 1 \in 1 .. 12
  BY <1>2, SMT
<1>7. bytes \in [1 .. 12 * n -> Nat]
  BY <1>4, <1>5, <1>6
<1>8. 12 * n \in Nat
  BY <1>2
<1>9. bytes \in Seq(Nat) /\ Len(bytes) = 12 * n
  BY <1>7, <1>8
<1>10. ASSUME NEW j \in 0 .. n - 1, NEW k \in 1 .. 12
       PROVE  bytes[12 * j + k] = Field(j)[k]
  <2>1. /\ 12 * j + k \in 1 .. 12 * n
        /\ ((12 * j + k) - 1) \div 12 = j /\ (((12 * j + k) - 1) % 12) + 1 = k
    BY <1>2, SMT
  <2>2. QED
    BY <1>5, <2>1
<1>11. QED
  BY <1>9, <1>10 DEF n, bytes, Field

LEMMA StandsAll ==
  ASSUME NEW s \in Seq(Nat), NEW n \in Nat, Len(s) = n
  PROVE  Stands(s, 0, s, n)
BY DEF Stands

(* Three parts, each where the ones before it end.                         *)
LEMMA ThreeParts ==
  ASSUME NEW a \in Seq(Nat), NEW b \in Seq(Nat), NEW c \in Seq(Nat)
  PROVE  LET whole == a \o b \o c
         IN  /\ whole \in Seq(Nat) /\ Len(whole) = Len(a) + Len(b) + Len(c)
             /\ Stands(whole, 0, a, Len(a))
             /\ Stands(whole, Len(a), b, Len(b))
             /\ Stands(whole, Len(a) + Len(b), c, Len(c))
<1> DEFINE s == a \o b
           p == Len(a)
           q == Len(b)
           r == Len(c)
           at == p + q
           size == p + q + r
<1>1. /\ p \in Nat /\ q \in Nat /\ r \in Nat /\ at \in Nat /\ size \in Nat
      /\ p = Len(a) /\ q = Len(b) /\ r = Len(c) /\ at = p + q /\ size = at + r
  BY LenProperties
<1> HIDE DEF p, q, r, at, size
<1>2. s \in Seq(Nat) /\ Len(s) = at
  BY <1>1, Followed
<1>3. Stands(s, 0, a, p)
  BY <1>1, StandsFirst, StandsAll
<1>4. Stands(s, p, b, q)
  BY <1>1, StandsLast
<1> HIDE DEF s
<1>5. s \o c \in Seq(Nat) /\ Len(s \o c) = size
  <2>1. s \o c \in Seq(Nat) /\ Len(s \o c) = Len(s) + Len(c)
    BY <1>2, ConcatProperties, Zenon
  <2>2. QED
    BY <1>1, <1>2, <2>1, Zenon
<1>6. Stands(s \o c, 0, a, p) /\ Stands(s \o c, p, b, q)
  BY <1>1, <1>2, <1>3, <1>4, StandsFirst
<1>7. Stands(s \o c, at, c, r)
  BY <1>1, <1>2, StandsLast
<1>8. QED
  BY <1>5, <1>6, <1>7, Zenon DEF s, p, q, r, at, size

(* What stands in a part of the whole.                                     *)
LEMMA StandsDeep ==
  ASSUME NEW bytes \in Seq(Nat), NEW offset \in Nat, NEW part \in Seq(Nat),
         Stands(bytes, offset, part, Len(part)),
         NEW inner \in Nat, NEW less \in Nat, NEW piece,
         Stands(part, inner, piece, less)
  PROVE  Stands(bytes, offset + inner, piece, less)
<1>1. Len(part) \in Nat
  BY LenProperties
<1>2. /\ inner + less <= Len(part)
      /\ \A i \in 1 .. less : part[inner + i] = piece[i]
  BY DEF Stands
<1>3. QED
  BY <1>1, <1>2, StandsWithin

LEMMA BlockTypes ==
  ASSUME NEW t \in Blocks
  PROVE  /\ t.order \in {"little", "big", "none"} /\ t.magic \in Nat
         /\ t.gap \in Nat /\ t.extra \in Nat /\ t.tail \in Int
         /\ t.entries \in Seq(Fields) /\ Len(t.entries) \in Nat
         /\ Len(t.entries) + t.extra \in Nat
         /\ TiffSize(t) = 14 + t.gap + 12 * Len(t.entries) + t.tail
         /\ TiffSize(t) \in Int
<1>1. /\ t.order \in {"little", "big", "none"} /\ t.magic \in Nat
      /\ t.gap \in Nat /\ t.extra \in Nat /\ t.tail \in Int
      /\ t.entries \in Seq(Fields)
  BY SMT DEF Blocks
<1>2. Len(t.entries) \in Nat
  BY <1>1, LenProperties
<1>3. /\ TiffSize(t) = 14 + t.gap + 12 * Len(t.entries) + t.tail
      /\ Len(t.entries) + t.extra \in Nat
  BY <1>1, <1>2, SMT DEF TiffSize, EntryBytes
<1>4. TiffSize(t) \in Int
  BY <1>1, <1>2, <1>3, SMT
<1>5. QED
  BY <1>1, <1>2, <1>3, <1>4, Zenon

LEMMA OffsetRoom ==
  ASSUME NEW t \in Blocks
  PROVE  DirectoryOffset(t) \in Nat /\ DirectoryOffset(t) <= 4294967295
<1>1. /\ t.offset \in {"exact", "header", "edge", "end", "past", "huge"}
      /\ 14 + t.gap + 12 * Len(t.entries) < 1073741824
      /\ t.offset # "exact" => TiffSize(t) >= 1 /\ TiffSize(t) < 1073741824
  BY SMT DEF Blocks, EntryBytes
<1>2. /\ t.gap \in Nat /\ Len(t.entries) \in Nat /\ TiffSize(t) \in Int
  BY BlockTypes, SMT
<1>3. CASE t.offset = "exact"
  <2> DEFINE g == t.gap
             k == Len(t.entries)
  <2>1. g \in Nat /\ k \in Nat /\ 14 + g + 12 * k < 1073741824
    BY <1>1, <1>2, SMT
  <2>2. DirectoryOffset(t) = 8 + g
    BY <1>3, SMT DEF DirectoryOffset
  <2> HIDE DEF g, k
  <2>3. 8 + g \in Nat /\ 8 + g <= 4294967295
    BY <2>1, SMT
  <2>4. QED
    BY <2>2, <2>3, SMT
<1>4. CASE t.offset = "header"
  BY <1>4, SMT DEF DirectoryOffset
<1>5. CASE t.offset = "edge"
  BY <1>1, <1>2, <1>5, SMT DEF DirectoryOffset
<1>6. CASE t.offset = "end"
  BY <1>1, <1>2, <1>6, SMT DEF DirectoryOffset
<1>7. CASE t.offset = "past"
  BY <1>1, <1>2, <1>7, SMT DEF DirectoryOffset
<1>8. CASE t.offset = "huge"
  BY <1>8, SMT DEF DirectoryOffset
<1>9. QED
  BY <1>1, <1>3, <1>4, <1>5, <1>6, <1>7, <1>8, SMT

LEMMA WholeStands ==
  ASSUME NEW t \in Blocks
  PROVE  LET n == Len(t.entries)
             whole == TiffWhole(t)
         IN  /\ whole \in Seq(Nat) /\ Len(whole) = 14 + t.gap + 12 * n
             /\ Stands(whole, 0, Mark(t.order), 2)
             /\ Stands(whole, 2, Spell(t.magic, 2, t.order), 2)
             /\ Stands(whole, 4, Spell(DirectoryOffset(t), 4, t.order), 4)
             /\ Stands(whole, 8 + t.gap, Spell(n + t.extra, 2, t.order), 2)
             /\ Stands(whole, 10 + t.gap, EntriesBytes(t), 12 * n)
             /\ Stands(whole, 10 + t.gap + 12 * n, Zeros(4), 4)
<1> DEFINE n == Len(t.entries)
           a == Mark(t.order)
           b == Spell(t.magic, 2, t.order)
           c == Spell(DirectoryOffset(t), 4, t.order)
           d == Zeros(t.gap)
           e == Spell(n + t.extra, 2, t.order)
           f == EntriesBytes(t)
           g == Zeros(4)
           p == t.gap
           q == 12 * n
           k == 8 + p
           l == 10 + p
           m == 10 + p + q
           size == 14 + p + q
           header == TiffHeader(t)
           directory == TiffDirectory(t)
           whole == TiffWhole(t)
<1>1. /\ p \in Nat /\ n \in Nat /\ n + t.extra \in Nat /\ t.magic \in Nat
      /\ t.order \in {"little", "big", "none"} /\ DirectoryOffset(t) \in Nat
  BY BlockTypes, OffsetRoom, SMT
<1>3. a \in Seq(Nat) /\ Len(a) = 2
  BY <1>1 DEF Mark, LetterI, LetterM
<1>4. /\ b \in Seq(Nat) /\ Len(b) = 2 /\ c \in Seq(Nat) /\ Len(c) = 4
      /\ e \in Seq(Nat) /\ Len(e) = 2
  BY <1>1, SpellBytes
<1>5. d \in Seq(Nat) /\ Len(d) = p /\ g \in Seq(Nat) /\ Len(g) = 4
  BY <1>1, ZerosBytes
<1>6. f \in Seq(Nat) /\ Len(f) = q
  BY EntriesStand
<1>7. /\ header = a \o b \o c /\ directory = e \o f \o g
      /\ whole = header \o d \o directory
  BY Zenon DEF TiffHeader, TiffDirectory, TiffWhole
<1> HIDE DEF n, a, b, c, d, e, f, g, header, directory, whole
<1>2. /\ q \in Nat /\ k \in Nat /\ l \in Nat /\ m \in Nat
      /\ l = k + 2 /\ m = k + (2 + q)
  BY <1>1
<1>0. 0 \in Nat /\ 2 \in Nat /\ 4 \in Nat
  OBVIOUS
<1>8. /\ header \in Seq(Nat) /\ Len(header) = 8
      /\ Stands(header, 0, a, 2) /\ Stands(header, 2, b, 2)
      /\ Stands(header, 4, c, 4)
  <2>1. /\ header \in Seq(Nat) /\ Len(header) = Len(a) + Len(b) + Len(c)
        /\ Stands(header, 0, a, Len(a)) /\ Stands(header, Len(a), b, Len(b))
        /\ Stands(header, Len(a) + Len(b), c, Len(c))
    BY <1>3, <1>4, <1>7, ThreeParts, Zenon
  <2>2. Len(a) + Len(b) = 4 /\ Len(a) + Len(b) + Len(c) = 8
    BY <1>3, <1>4
  <2>3. QED
    BY <1>3, <1>4, <2>1, <2>2, Zenon
<1>9. /\ directory \in Seq(Nat) /\ Len(directory) = 6 + q
      /\ Stands(directory, 0, e, 2) /\ Stands(directory, 2, f, q)
      /\ Stands(directory, 2 + q, g, 4)
  <2>1. /\ directory \in Seq(Nat) /\ Len(directory) = Len(e) + Len(f) + Len(g)
        /\ Stands(directory, 0, e, Len(e)) /\ Stands(directory, Len(e), f, Len(f))
        /\ Stands(directory, Len(e) + Len(f), g, Len(g))
    BY <1>4, <1>5, <1>6, <1>7, ThreeParts, Zenon
  <2>2. Len(e) + Len(f) = 2 + q /\ Len(e) + Len(f) + Len(g) = 6 + q
    BY <1>2, <1>4, <1>5, <1>6
  <2>3. QED
    BY <1>4, <1>5, <1>6, <2>1, <2>2, Zenon
<1>10. /\ whole \in Seq(Nat) /\ Len(whole) = size
       /\ Stands(whole, 0, header, Len(header))
       /\ Stands(whole, k, directory, Len(directory))
  <2>1. /\ whole \in Seq(Nat)
        /\ Len(whole) = Len(header) + Len(d) + Len(directory)
        /\ Stands(whole, 0, header, Len(header))
        /\ Stands(whole, Len(header) + Len(d), directory, Len(directory))
    BY <1>5, <1>7, <1>8, <1>9, ThreeParts, Zenon
  <2>2. /\ Len(header) + Len(d) = k
        /\ Len(header) + Len(d) + Len(directory) = size
    <3>1. Len(header) = 8 /\ Len(d) = p /\ Len(directory) = 6 + q
      BY <1>5, <1>8, <1>9, Zenon
    <3>2. p \in Nat /\ q \in Nat /\ k = 8 + p /\ size = 14 + p + q
      BY <1>1, <1>2, Zenon
    <3> HIDE DEF p, q, k, size
    <3>3. QED
      BY <3>1, <3>2
  <2>3. QED
    BY <2>1, <2>2, Zenon
<1>11. /\ Stands(whole, 0, a, 2) /\ Stands(whole, 2, b, 2)
       /\ Stands(whole, 4, c, 4)
  <2>1. /\ Stands(whole, 0 + 0, a, 2) /\ Stands(whole, 0 + 2, b, 2)
        /\ Stands(whole, 0 + 4, c, 4)
    BY <1>0, <1>8, <1>10, StandsDeep, Zenon
  <2>2. 0 + 0 = 0 /\ 0 + 2 = 2 /\ 0 + 4 = 4
    OBVIOUS
  <2>3. QED
    BY <2>1, <2>2, Zenon
<1>12. /\ Stands(whole, k, e, 2) /\ Stands(whole, l, f, q)
       /\ Stands(whole, m, g, 4)
  <2>1. /\ Stands(whole, k + 0, e, 2) /\ Stands(whole, k + 2, f, q)
        /\ Stands(whole, k + (2 + q), g, 4)
    <3>1. 2 + q \in Nat
      BY <1>2
    <3> HIDE DEF k, q
    <3>2. QED
      BY <1>0, <1>2, <1>9, <1>10, <3>1, StandsDeep, Zenon
  <2>2. k + 0 = k
    BY <1>2
  <2>3. QED
    BY <1>2, <2>1, <2>2, Zenon
<1>13. QED
  BY <1>10, <1>11, <1>12, Zenon DEF n, a, b, c, e, f, g, whole

(* What of the whole block its tail leaves: each part that ends before the *)
(* cut, and zeros behind the entries.                                      *)
LEMMA TiffLength ==
  ASSUME NEW t \in Blocks
  PROVE  /\ TiffBytes(t) \in Seq(Nat)
         /\ TiffSize(t) >= 0 => Len(TiffBytes(t)) = TiffSize(t)
         /\ TiffSize(t) < 0 => Len(TiffBytes(t)) = 0
<1>1. /\ TiffWhole(t) \in Seq(Nat)
      /\ Len(TiffWhole(t)) = 14 + t.gap + 12 * Len(t.entries)
  BY WholeStands, Zenon
<1>2. /\ t.tail \in Int
      /\ TiffSize(t) = 14 + t.gap + 12 * Len(t.entries) + t.tail
  BY BlockTypes, Zenon
<1>3. Len(TiffWhole(t)) + t.tail = TiffSize(t)
  BY <1>1, <1>2, Zenon
<1>4. QED
  BY <1>1, <1>2, <1>3, ResizedType, Zenon DEF TiffBytes

LEMMA TiffPart ==
  ASSUME NEW t \in Blocks, NEW offset \in Nat, NEW part, NEW count \in Nat,
         Stands(TiffWhole(t), offset, part, count),
         offset + count <= TiffSize(t)
  PROVE  Stands(TiffBytes(t), offset, part, count)
<1>1. /\ TiffWhole(t) \in Seq(Nat)
      /\ Len(TiffWhole(t)) = 14 + t.gap + 12 * Len(t.entries)
  BY WholeStands, Zenon
<1>2. /\ t.tail \in Int
      /\ TiffSize(t) = 14 + t.gap + 12 * Len(t.entries) + t.tail
  BY BlockTypes, Zenon
<1>3. offset + count <= Len(TiffWhole(t)) + t.tail
  BY <1>1, <1>2, Zenon
<1>4. QED
  BY <1>1, <1>2, <1>3, StandsResized, Zenon DEF TiffBytes

LEMMA Places ==
  ASSUME NEW g \in Nat, NEW n \in Nat
  PROVE  /\ 10 + g + 12 * n \in Nat /\ 14 + g + 12 * n = 10 + g + 12 * n + 4
         /\ 14 + g + 12 * n \in Nat /\ 14 + g + 12 * n >= 14
         /\ (14 + g + 12 * n) - 4 = 10 + g + 12 * n
<1>1. 12 * n \in Nat
  OBVIOUS
<1>2. \A k \in Nat :
        /\ 10 + g + k \in Nat /\ 14 + g + k = 10 + g + k + 4
        /\ 14 + g + k \in Nat /\ 14 + g + k >= 14
        /\ (14 + g + k) - 4 = 10 + g + k
  OBVIOUS
<1>3. QED
  BY <1>1, <1>2

LEMMA TiffEnd ==
  ASSUME NEW t \in Blocks, t.tail >= 0,
         NEW i \in Nat, 10 + t.gap + 12 * Len(t.entries) < i, i <= TiffSize(t)
  PROVE  TiffBytes(t)[i] = 0
<1> DEFINE n == Len(t.entries)
           whole == TiffWhole(t)
           m == Len(whole)
           at == 10 + t.gap + 12 * n
           rest == Zeros(t.tail)
<1>1. /\ whole \in Seq(Nat) /\ m = 14 + t.gap + 12 * n
      /\ Stands(whole, at, Zeros(4), 4)
  BY WholeStands, Zenon
<1>2. /\ t.tail \in Int /\ t.gap \in Nat /\ n \in Nat
      /\ TiffSize(t) = 14 + t.gap + 12 * n + t.tail
  BY BlockTypes, Zenon
<1>3. t.tail \in Nat
  BY <1>2
<1>4. /\ rest \in Seq(Nat) /\ Len(rest) = t.tail
      /\ \A j \in 1 .. t.tail : rest[j] = 0
      /\ \A j \in 1 .. 4 : Zeros(4)[j] = 0
  BY <1>3, ZerosBytes
<1>5. TiffBytes(t) = whole \o rest
  BY DEF TiffBytes, Resized
<1>6. m \in Nat
  BY <1>1, LenProperties
<1>7. /\ \A j \in 1 .. m : (whole \o rest)[j] = whole[j]
      /\ \A j \in 1 .. t.tail : (whole \o rest)[m + j] = rest[j]
  BY <1>1, <1>3, <1>4, <1>6, JoinedParts
<1>8. \A j \in 1 .. 4 : whole[at + j] = 0
  BY <1>1, <1>4 DEF Stands
<1> DEFINE bytes == TiffBytes(t)
           size == TiffSize(t)
<1>9. at \in Nat /\ at < i /\ i <= size /\ m = at + 4 /\ size = m + t.tail
  <2>1. at < i /\ i <= size
    BY Zenon
  <2>2. /\ n \in Nat /\ t.gap \in Nat /\ t.tail \in Nat
        /\ m = 14 + t.gap + 12 * n /\ size = 14 + t.gap + 12 * n + t.tail
    BY <1>1, <1>2, <1>3, Zenon
  <2>3. at \in Nat /\ m = at + 4 /\ size = m + t.tail
    BY <2>2, Places, Zenon
  <2>4. QED
    BY <2>1, <2>3, Zenon
<1>10. \A j \in 1 .. m : bytes[j] = whole[j]
  BY <1>5, <1>7
<1>11. \A j \in 1 .. t.tail : bytes[m + j] = 0
  BY <1>4, <1>5, <1>7
<1> HIDE DEF bytes, size, whole, m, at, rest, n
<1>12. CASE i <= m
  <2>1. i \in 1 .. m /\ i - at \in 1 .. 4 /\ at + (i - at) = i
    BY <1>6, <1>9, <1>12
  <2>2. whole[i] = 0
    BY <1>8, <2>1
  <2>3. QED
    BY <1>10, <2>1, <2>2 DEF bytes
<1>13. CASE i > m
  <2>1. i - m \in 1 .. t.tail /\ m + (i - m) = i
    BY <1>3, <1>6, <1>9, <1>13
  <2>2. QED
    BY <1>11, <2>1 DEF bytes
<1>14. QED
  BY <1>6, <1>12, <1>13

(* The announced byte order, and the numbers of the header and the count.  *)
LEMMA TiffOrder ==
  ASSUME NEW t \in Blocks, TiffSize(t) >= 2
  PROVE  ByteOrder(TiffBytes(t)) = t.order
<1> DEFINE bytes == TiffBytes(t)
           mark == Mark(t.order)
<1>1. t.order \in {"little", "big", "none"} /\ TiffSize(t) \in Int
  BY BlockTypes, Zenon
<1>2. bytes \in Seq(Nat) /\ Len(bytes) = TiffSize(t)
  BY <1>1, TiffLength
<1>3. Stands(bytes, 0, mark, 2)
  <2>1. Stands(TiffWhole(t), 0, mark, 2)
    BY WholeStands, Zenon
  <2>2. 0 \in Nat /\ 2 \in Nat /\ 0 + 2 <= TiffSize(t)
    BY <1>1
  <2>3. QED
    BY <2>1, <2>2, TiffPart, Zenon
<1>4. bytes[1] = mark[1] /\ bytes[2] = mark[2]
  <2>1. \A i \in 1 .. 2 : bytes[0 + i] = mark[i]
    BY <1>3, Zenon DEF Stands
  <2> HIDE DEF bytes, mark
  <2>2. QED
    BY <2>1
<1>5. SubSeq(bytes, 1, 2) = <<bytes[1], bytes[2]>>
  <2> DEFINE k == 2
  <2>1. k \in Nat /\ 1 \in Nat /\ 1 <= k + 1 /\ k <= Len(bytes) /\ k + 1 - 1 = 2
    BY <1>1, <1>2
  <2> HIDE DEF k, bytes
  <2>2. /\ SubSeq(bytes, 1, k) \in Seq(Nat) /\ Len(SubSeq(bytes, 1, k)) = k + 1 - 1
        /\ \A i \in 1 .. k + 1 - 1 : SubSeq(bytes, 1, k)[i] = bytes[1 + i - 1]
    BY <1>2, <2>1, Part
  <2> DEFINE s == SubSeq(bytes, 1, 2)
  <2>3. s = SubSeq(bytes, 1, k)
    BY Zenon DEF s, k
  <2> HIDE DEF s
  <2>4. s \in Seq(Nat) /\ Len(s) = 2 /\ s[1] = bytes[1] /\ s[2] = bytes[2]
    BY <2>1, <2>2, <2>3
  <2>5. s = <<bytes[1], bytes[2]>>
    BY <2>4
  <2>6. QED
    BY <2>5, Zenon DEF s
<1> DEFINE x == bytes[1]
           y == bytes[2]
<1>6. ByteOrder(bytes) =
        CASE <<x, y>> = <<LetterI, LetterI>> -> "little"
          [] <<x, y>> = <<LetterM, LetterM>> -> "big"
          [] OTHER -> "none"
  BY <1>5, Zenon DEF ByteOrder
<1> HIDE DEF bytes, mark, x, y
<1>7. x = mark[1] /\ y = mark[2]
  BY <1>4 DEF x, y
<1>8. CASE t.order = "little"
  BY <1>6, <1>7, <1>8, SMT DEF mark, Mark, LetterI, LetterM, bytes
<1>9. CASE t.order = "big"
  BY <1>6, <1>7, <1>9, SMT DEF mark, Mark, LetterI, LetterM, bytes
<1>10. CASE t.order = "none"
  BY <1>6, <1>7, <1>10, SMT DEF mark, Mark, LetterI, LetterM, bytes
<1>11. QED
  BY <1>1, <1>8, <1>9, <1>10

LEMMA TiffHead ==
  ASSUME NEW t \in Blocks, TiffSize(t) >= 8, t.order \in ByteOrders
  PROVE  /\ Read16(TiffBytes(t), 2, t.order) = t.magic
         /\ Read32(TiffBytes(t), 4, t.order) = DirectoryOffset(t)
<1> DEFINE bytes == TiffBytes(t)
           two   == Spell(t.magic, 2, t.order)
           four  == Spell(DirectoryOffset(t), 4, t.order)
<1>1. TiffSize(t) \in Int /\ t.magic \in Nat /\ bytes \in Seq(Nat)
  BY BlockTypes, TiffLength, Zenon
<1>2. Stands(TiffWhole(t), 2, two, 2) /\ Stands(TiffWhole(t), 4, four, 4)
  BY WholeStands, Zenon
<1>3. /\ 2 \in Nat /\ 4 \in Nat
      /\ 2 + 2 <= TiffSize(t) /\ 4 + 4 <= TiffSize(t)
  BY <1>1
<1>4. Stands(bytes, 2, two, 2) /\ Stands(bytes, 4, four, 4)
  BY <1>2, <1>3, TiffPart, Zenon
<1>5. t.magic <= 65535
  BY SMT DEF Blocks
<1>6. Read16(bytes, 2, t.order) = t.magic
  <2> HIDE DEF bytes
  <2>1. QED
    BY <1>1, <1>4, <1>5, Reads16, SMT
<1>7. Read32(bytes, 4, t.order) = DirectoryOffset(t)
  <2>1. DirectoryOffset(t) \in Nat /\ DirectoryOffset(t) <= 4294967295
    BY OffsetRoom, SMT
  <2> HIDE DEF bytes
  <2>2. QED
    BY <1>1, <1>4, <2>1, Reads32, SMT
<1>8. QED
  BY <1>6, <1>7

LEMMA TiffCount ==
  ASSUME NEW t \in Blocks, 10 + t.gap <= TiffSize(t), t.order \in ByteOrders
  PROVE  Read16(TiffBytes(t), 8 + t.gap, t.order) = Len(t.entries) + t.extra
<1> DEFINE bytes == TiffBytes(t)
           k     == Len(t.entries) + t.extra
           two   == Spell(k, 2, t.order)
           at    == 8 + t.gap
<1>1. TiffSize(t) \in Int /\ t.gap \in Nat /\ k \in Nat /\ bytes \in Seq(Nat)
  BY BlockTypes, TiffLength, Zenon
<1>2. Stands(TiffWhole(t), at, two, 2)
  BY WholeStands, Zenon
<1>3. at \in Nat /\ 2 \in Nat /\ at + 2 <= TiffSize(t)
  BY <1>1
<1>4. Stands(bytes, at, two, 2)
  BY <1>2, <1>3, TiffPart, Zenon
<1>5. k <= 65535
  BY SMT DEF Blocks
<1> HIDE DEF bytes, k, at
<1>6. Read16(bytes, at, t.order) = k
  BY <1>1, <1>3, <1>4, <1>5, Reads16, SMT
<1>7. QED
  BY <1>6 DEF bytes, k, at

LEMMA EntryRoom ==
  ASSUME NEW t \in Blocks, NEW j \in 1 .. Len(t.entries)
  PROVE  LET e == t.entries[j]
         IN  /\ e \in Fields /\ e.tag \in Nat /\ e.type \in Nat
             /\ e.count \in Nat /\ e.value \in Nat
             /\ e.tag <= 65535 /\ e.type <= 65535
             /\ e.count <= 4294967295 /\ e.value <= 65535
<1>1. t.entries \in Seq(Fields)
  BY BlockTypes, Zenon
<1>2. t.entries[j] \in Fields /\ j \in DOMAIN t.entries
  BY <1>1, ElementOfSeq, LenProperties, SMT
<1>3. /\ t.entries[j].tag <= 65535 /\ t.entries[j].type <= 65535
      /\ t.entries[j].count <= 4294967295 /\ t.entries[j].value <= 65535
  BY <1>2, SMT DEF Blocks
<1>4. QED
  BY <1>2, <1>3, SMT DEF Fields

LEMMA EntryStands ==
  ASSUME NEW t \in Blocks, NEW i \in Nat, i < Len(t.entries),
         22 + t.gap + 12 * i <= TiffSize(t)
  PROVE  Stands(TiffBytes(t), 10 + t.gap + 12 * i,
                FieldBytes(t.entries[i + 1], t.order), 12)
<1> DEFINE n     == Len(t.entries)
           whole == TiffWhole(t)
           part  == EntriesBytes(t)
           piece == FieldBytes(t.entries[i + 1], t.order)
           start == 10 + t.gap
           count == 12 * n
           inner == 12 * i
           at    == 10 + t.gap + 12 * i
<1>1. n \in Nat /\ t.gap \in Nat /\ whole \in Seq(Nat)
      /\ Stands(whole, start, part, count)
  BY BlockTypes, WholeStands, Zenon
<1>2. \A k \in 1 .. 12 : part[inner + k] = piece[k]
  <2>1. i \in 0 .. n - 1
    BY <1>1
  <2>2. QED
    BY <2>1, EntriesStand, Zenon
<1> HIDE DEF n, whole, part, piece
<1>3. /\ start \in Nat /\ count \in Nat /\ inner \in Nat /\ 12 \in Nat
      /\ inner + 12 <= count
  <2>1. i < n
    BY Zenon DEF n
  <2>2. QED
    BY <1>1, <2>1
<1>4. Stands(whole, start + inner, piece, 12)
  <2> DEFINE less == 12
  <2> HIDE DEF start, count, inner
  <2>1. /\ start \in Nat /\ count \in Nat /\ inner \in Nat /\ less \in Nat
        /\ inner + less <= count
        /\ whole \in Seq(Nat) /\ Stands(whole, start, part, count)
        /\ \A k \in 1 .. less : part[inner + k] = piece[k]
    BY <1>1, <1>2, <1>3, Zenon
  <2> HIDE DEF less
  <2>2. Stands(whole, start + inner, piece, less)
    <3>1. Holds(part, count, inner, piece, less)
      BY <2>1, Zenon DEF Holds
    <3>2. QED
      BY <2>1, <3>1, StandsHeld, Zenon
  <2>3. QED
    BY <2>2, Zenon DEF less
<1>5. start + inner = at /\ at \in Nat
  BY <1>1
<1>6. at + 12 <= TiffSize(t)
  <2>1. at + 12 = 22 + t.gap + 12 * i
    BY <1>1
  <2>2. QED
    BY <2>1, Zenon
<1>7. Stands(TiffBytes(t), at, piece, 12)
  BY <1>3, <1>4, <1>5, <1>6, TiffPart, Zenon DEF whole
<1>8. QED
  BY <1>7, Zenon DEF piece

LEMMA EntryPlace ==
  ASSUME NEW g \in Nat, NEW i \in Nat
  PROVE  LET at == 10 + g + 12 * i
         IN  /\ at \in Nat /\ at + 0 = at /\ at + 1 \in Nat /\ at + 2 \in Nat
             /\ at + 4 \in Nat /\ at + 8 \in Nat /\ 12 + g + 12 * i = at + 2
             /\ at < at + 1 /\ at < at + 2
             /\ \A n \in Nat : n <= i => 10 + g + 12 * n <= at
<1>1. 12 * i \in Nat /\ \A n \in Nat : n <= i => 12 * n \in Nat /\ 12 * n <= 12 * i
  OBVIOUS
<1>2. \A k \in Nat :
        LET at == 10 + g + k
        IN  /\ at \in Nat /\ at + 0 = at /\ at + 1 \in Nat /\ at + 2 \in Nat
            /\ at + 4 \in Nat /\ at + 8 \in Nat /\ 12 + g + k = at + 2
            /\ at < at + 1 /\ at < at + 2
            /\ \A l \in Nat : l <= k => 10 + g + l <= at
  OBVIOUS
<1>3. QED
  BY <1>1, <1>2

LEMMA TiffEntry ==
  ASSUME NEW t \in Blocks, t.order \in ByteOrders,
         NEW i \in Nat, i < Len(t.entries),
         22 + t.gap + 12 * i <= TiffSize(t)
  PROVE  LET at == 10 + t.gap + 12 * i
             e  == t.entries[i + 1]
         IN  /\ Read16(TiffBytes(t), at, t.order) = e.tag
             /\ Read16(TiffBytes(t), at + 2, t.order) = e.type
             /\ Read32(TiffBytes(t), at + 4, t.order) = e.count
             /\ Read16(TiffBytes(t), at + 8, t.order) = e.value
<1> DEFINE at    == 10 + t.gap + 12 * i
           e     == t.entries[i + 1]
           bytes == TiffBytes(t)
           field == FieldBytes(e, t.order)
           tag   == Spell(e.tag, 2, t.order)
           type  == Spell(e.type, 2, t.order)
           count == Spell(e.count, 4, t.order)
           value == Spell(e.value, 2, t.order)
<1>1. t.gap \in Nat /\ bytes \in Seq(Nat) /\ Len(t.entries) \in Nat
  BY BlockTypes, TiffLength, Zenon
<1>2. /\ at \in Nat /\ 0 \in Nat /\ 2 \in Nat /\ 4 \in Nat /\ 8 \in Nat
      /\ at + 2 \in Nat /\ at + 4 \in Nat /\ at + 8 \in Nat /\ at + 0 = at
      /\ i + 1 \in 1 .. Len(t.entries)
  <2>1. /\ at \in Nat /\ at + 2 \in Nat /\ at + 4 \in Nat /\ at + 8 \in Nat
        /\ at + 0 = at
    BY <1>1, EntryPlace, Zenon
  <2>2. i + 1 \in 1 .. Len(t.entries)
    BY <1>1
  <2>3. QED
    BY <2>1, <2>2
<1>3. /\ e \in Fields /\ e.tag \in Nat /\ e.type \in Nat
      /\ e.count \in Nat /\ e.value \in Nat
      /\ e.tag <= 65535 /\ e.type <= 65535
      /\ e.count <= 4294967295 /\ e.value <= 65535
  BY <1>2, EntryRoom, SMT
<1>4. e \in Fields
  BY <1>3, SMT
<1>5. /\ field \in Seq(Nat) /\ Len(field) = 12
      /\ Stands(field, 0, tag, 2) /\ Stands(field, 2, type, 2)
      /\ Stands(field, 4, count, 4) /\ Stands(field, 8, value, 2)
  BY <1>4, FieldStands, Zenon
<1>6. Stands(bytes, at, field, Len(field))
  BY <1>5, EntryStands, Zenon
<1> HIDE DEF at, e, bytes, field, tag, type, count, value
<1>7. /\ Stands(bytes, at + 0, tag, 2) /\ Stands(bytes, at + 2, type, 2)
      /\ Stands(bytes, at + 4, count, 4) /\ Stands(bytes, at + 8, value, 2)
  BY <1>1, <1>2, <1>5, <1>6, StandsDeep, Zenon
<1>8. Stands(bytes, at, tag, 2)
  BY <1>2, <1>7, Zenon
<1>9. Read16(bytes, at, t.order) = e.tag
  <2> DEFINE c == e.tag
             o == at
  <2>1. c \in Nat /\ c <= 65535 /\ o \in Nat /\ bytes \in Seq(Nat)
    BY <1>1, <1>2, <1>3, SMT
  <2>2. Stands(bytes, o, Spell(c, 2, t.order), 2)
    BY <1>8, Zenon DEF tag
  <2> HIDE DEF c, o
  <2>3. Read16(bytes, o, t.order) = c
    BY <2>1, <2>2, Reads16, SMT
  <2>4. QED
    BY <2>3, Zenon DEF c, o
<1>10. Read16(bytes, at + 2, t.order) = e.type
  <2> DEFINE c == e.type
             o == at + 2
  <2>1. c \in Nat /\ c <= 65535 /\ o \in Nat /\ bytes \in Seq(Nat)
    BY <1>1, <1>2, <1>3, SMT
  <2>2. Stands(bytes, o, Spell(c, 2, t.order), 2)
    BY <1>7, Zenon DEF type
  <2> HIDE DEF c, o
  <2>3. Read16(bytes, o, t.order) = c
    BY <2>1, <2>2, Reads16, SMT
  <2>4. QED
    BY <2>3, Zenon DEF c, o
<1>11. Read32(bytes, at + 4, t.order) = e.count
  <2> DEFINE c == e.count
             o == at + 4
  <2>1. c \in Nat /\ c <= 4294967295 /\ o \in Nat /\ bytes \in Seq(Nat)
    BY <1>1, <1>2, <1>3, SMT
  <2>2. Stands(bytes, o, Spell(c, 4, t.order), 4)
    BY <1>7, Zenon DEF count
  <2> HIDE DEF c, o
  <2>3. Read32(bytes, o, t.order) = c
    BY <2>1, <2>2, Reads32, SMT
  <2>4. QED
    BY <2>3, Zenon DEF c, o
<1>12. Read16(bytes, at + 8, t.order) = e.value
  <2> DEFINE c == e.value
             o == at + 8
  <2>1. c \in Nat /\ c <= 65535 /\ o \in Nat /\ bytes \in Seq(Nat)
    BY <1>1, <1>2, <1>3, SMT
  <2>2. Stands(bytes, o, Spell(c, 2, t.order), 2)
    BY <1>7, Zenon DEF value
  <2> HIDE DEF c, o
  <2>3. Read16(bytes, o, t.order) = c
    BY <2>1, <2>2, Reads16, SMT
  <2>4. QED
    BY <2>3, Zenon DEF c, o
<1>13. QED
  BY <1>9, <1>10, <1>11, <1>12, Zenon DEF at, e, bytes

(* Behind the entries there is no orientation.                             *)
LEMMA TiffSpare ==
  ASSUME NEW t \in Blocks, t.order \in ByteOrders, t.tail >= 0,
         NEW i \in Nat, i >= Len(t.entries),
         12 + t.gap + 12 * i <= TiffSize(t)
  PROVE  Read16(TiffBytes(t), 10 + t.gap + 12 * i, t.order) = 0
<1> DEFINE at    == 10 + t.gap + 12 * i
           bytes == TiffBytes(t)
           n     == Len(t.entries)
           size  == TiffSize(t)
<1>1. /\ t.gap \in Nat /\ bytes \in Seq(Nat) /\ n \in Nat /\ size \in Int
      /\ size >= 0 => Len(bytes) = size
  BY BlockTypes, TiffLength, Zenon
<1>2. /\ at \in Nat /\ at + 1 \in Nat /\ at + 2 \in Nat
      /\ at < at + 1 /\ at < at + 2 /\ 12 + t.gap + 12 * i = at + 2
      /\ 10 + t.gap + 12 * n <= at
  <2>1. n <= i
    BY <1>1
  <2>2. QED
    BY <1>1, <2>1, EntryPlace, Zenon
<1>3. at + 2 <= size
  BY <1>2, Zenon
<1>4. bytes[at + 1] = 0 /\ bytes[at + 2] = 0
  <2> DEFINE k == 10 + t.gap + 12 * n
  <2>1. k \in Nat /\ k <= at
    BY <1>1, <1>2, EntryPlace, Zenon
  <2> HIDE DEF k, at, size, n
  <2>2. k < at + 1 /\ at + 1 <= size /\ k < at + 2 /\ at + 2 <= size
    BY <1>1, <1>2, <1>3, <2>1
  <2>3. QED
    BY <1>2, <2>2, TiffEnd, Zenon DEF k, size, n
<1> HIDE DEF at, bytes, n, size
<1>5. Len(bytes) = size /\ size \in Nat
  BY <1>1, <1>2, <1>3
<1>6. /\ ~(at > Len(bytes) \/ Len(bytes) - at < 2)
      /\ at + 0 + 1 = at + 1 /\ at + 1 + 1 = at + 2
  BY <1>2, <1>3, <1>5
<1>7. Read16(bytes, at, t.order) = 0
  BY <1>4, <1>6, SMT DEF Read16, ByteAt
<1>8. QED
  BY <1>7, Zenon DEF at, bytes

LEMMA OneMember ==
  ASSUME NEW S, IsFiniteSet(S), NEW x \in S
  PROVE  Cardinality(S) > 1 <=> S # {x}
<1>1. CASE S = {x}
  BY <1>1, FS_Singleton
<1>2. CASE S # {x}
  <2>1. PICK y \in S : y # x
    BY <1>2
  <2> DEFINE T == S \ {x}
  <2>2. IsFiniteSet(T) /\ Cardinality(T) = Cardinality(S) - 1
    BY FS_RemoveElement
  <2>3. T # {}
    BY <2>1
  <2>4. Cardinality(T) \in Nat /\ Cardinality(T) # 0
    BY <2>2, <2>3, FS_EmptySet, FS_CardinalityType
  <2>5. Cardinality(S) \in Nat
    BY FS_CardinalityType
  <2>6. QED
    BY <1>2, <2>2, <2>4, <2>5
<1>3. QED
  BY <1>1, <1>2

(* An entry that carries the tag is usable when its fields say so.         *)
LEMMA UsableEntry ==
  ASSUME NEW t \in Blocks, t.order \in ByteOrders,
         NEW i \in Nat, i < Len(t.entries),
         22 + t.gap + 12 * i <= TiffSize(t),
         t.entries[i + 1].tag = OrientationTag
  PROVE  EntryUsable(TiffBytes(t), 10 + t.gap + 12 * i, t.order) <=>
           \E o \in Orientations : t.entries[i + 1] = Usable(o)
<1> DEFINE at == 10 + t.gap + 12 * i
           e == t.entries[i + 1]
           bytes == TiffBytes(t)
<1>1. /\ Read16(bytes, at + 2, t.order) = e.type
      /\ Read32(bytes, at + 4, t.order) = e.count
      /\ Read16(bytes, at + 8, t.order) = e.value
  BY TiffEntry, Zenon
<1>2. e \in Fields
  <2>1. i + 1 \in 1 .. Len(t.entries)
    BY BlockTypes, SMT
  <2>2. QED
    BY <2>1, EntryRoom, SMT
<1>3. e.tag = OrientationTag
  BY Zenon
<1> HIDE DEF at, e, bytes
<1>4. EntryUsable(bytes, at, t.order) <=>
        e.type = ShortType /\ e.count = 1 /\ e.value \in Orientations
  BY <1>1, Zenon DEF EntryUsable
<1>5. ASSUME e.type = ShortType, e.count = 1
      PROVE  e = Usable(e.value)
  BY <1>2, <1>3, <1>5 DEF Fields, Usable, Entry
<1>6. \A o : /\ Usable(o).type = ShortType /\ Usable(o).count = 1
             /\ Usable(o).value = o
  BY DEF Usable, Entry
<1>7. QED
  BY <1>4, <1>5, <1>6, Zenon DEF at, e, bytes

(* Distinct places, one for each entry that carries the tag: the walk over *)
(* the places and the description of the entries come to the same.         *)
Placed(tiff, directory, count, order, entries, place) ==
  LET P == TaggedEntries(tiff, directory, count, order)
      tagged == Tagged(entries)
  IN  /\ IsFiniteSet(P)
      /\ \A e \in P : \E j \in tagged : e = place[j]
      /\ \A j \in tagged : place[j] \in P
      /\ \A j, k \in tagged : place[j] = place[k] => j = k
      /\ \A j \in tagged :
           EntryUsable(tiff, place[j], order) <=>
             \E o \in Orientations : entries[j] = Usable(o)
      /\ \A j \in tagged : Read16(tiff, place[j] + 8, order) = entries[j].value

LEMMA WalkAgrees ==
  ASSUME NEW tiff, NEW directory, NEW count, NEW order, NEW entries, NEW place,
         Placed(tiff, directory, count, order, entries, place)
  PROVE  DirectoryMetadata(tiff, directory, count, order) = EntriesSay(entries)
<1> DEFINE P == TaggedEntries(tiff, directory, count, order)
           tagged == Tagged(entries)
<1>1. DirectoryMetadata(tiff, directory, count, order) =
        IF P = {} THEN NoMetadata
        ELSE IF \/ Cardinality(P) > 1
                \/ \E e \in P : ~EntryUsable(tiff, e, order)
        THEN InvalidMetadata
        ELSE ValueMetadata(Read16(tiff, (CHOOSE e \in P : TRUE) + 8, order))
  BY Zenon DEF DirectoryMetadata
<1>2. EntriesSay(entries) =
        IF tagged = {} THEN NoMetadata
        ELSE IF \E o \in Orientations : \E i \in tagged :
                  tagged = {i} /\ entries[i] = Usable(o)
        THEN ValueMetadata(entries[CHOOSE i \in tagged : TRUE].value)
        ELSE InvalidMetadata
  BY Zenon DEF EntriesSay
<1>3. IsFiniteSet(P)
  BY Zenon DEF Placed
<1>4. /\ \A e \in P : \E j \in tagged : e = place[j]
      /\ \A j \in tagged : place[j] \in P
      /\ \A j, k \in tagged : place[j] = place[k] => j = k
      /\ \A j \in tagged :
           EntryUsable(tiff, place[j], order) <=>
             \E o \in Orientations : entries[j] = Usable(o)
      /\ \A j \in tagged : Read16(tiff, place[j] + 8, order) = entries[j].value
  BY Zenon DEF Placed
<1> HIDE DEF P, tagged
<1>5. CASE tagged = {}
  <2>1. P = {}
    BY <1>5, <1>4
  <2>2. QED
    BY <1>2, <1>1, <1>5, <2>1, Zenon
<1>6. CASE \E j \in tagged : tagged = {j}
  <2>1. PICK j \in tagged : tagged = {j}
    BY <1>6
  <2>2. P = {place[j]}
    BY <1>4, <2>1
  <2>3. ~(Cardinality(P) > 1)
    BY <1>3, <2>2, OneMember
  <2>4. (CHOOSE e \in P : TRUE) = place[j] /\ (CHOOSE i \in tagged : TRUE) = j
    BY <2>1, <2>2, Zenon
  <2>5. Read16(tiff, place[j] + 8, order) = entries[j].value
    BY <1>4, <2>1, Zenon
  <2>6. (\E e \in P : ~EntryUsable(tiff, e, order)) <=>
          ~ \E o \in Orientations : entries[j] = Usable(o)
    BY <1>4, <2>1, <2>2, Zenon
  <2>7. P # {} /\ tagged # {}
    BY <2>1, <2>2
  <2>8. (\E o \in Orientations : \E i \in tagged :
           tagged = {i} /\ entries[i] = Usable(o)) <=>
          \E o \in Orientations : entries[j] = Usable(o)
    BY <2>1, Zenon
  <2>9. CASE \E o \in Orientations : entries[j] = Usable(o)
    <3>1. DirectoryMetadata(tiff, directory, count, order)
            = ValueMetadata(entries[j].value)
      BY <1>1, <2>3, <2>4, <2>5, <2>6, <2>7, <2>9, Zenon
    <3>2. QED
      BY <1>2, <2>4, <2>7, <2>8, <2>9, <3>1, Zenon
  <2>10. CASE ~ \E o \in Orientations : entries[j] = Usable(o)
    <3>1. DirectoryMetadata(tiff, directory, count, order) = InvalidMetadata
      BY <1>1, <2>6, <2>7, <2>10, Zenon
    <3>2. QED
      BY <1>2, <2>7, <2>8, <2>10, <3>1, Zenon
  <2>11. QED
    BY <2>9, <2>10, Zenon
<1>7. CASE tagged # {} /\ ~ \E j \in tagged : tagged = {j}
  <2>1. PICK j \in tagged : TRUE
    BY <1>7
  <2>2. PICK k \in tagged : k # j
    BY <1>7, <2>1
  <2>3. place[j] \in P /\ place[k] \in P /\ place[k] # place[j]
    BY <1>4, <2>1, <2>2, Zenon
  <2>4. Cardinality(P) > 1
    <3>1. P # {place[j]}
      BY <2>3
    <3>2. QED
      BY <1>3, <2>3, <3>1, OneMember, Zenon
  <2>5. P # {}
    BY <2>3
  <2>6. DirectoryMetadata(tiff, directory, count, order) = InvalidMetadata
    BY <1>1, <2>4, <2>5, Zenon
  <2>7. ~ \E o \in Orientations : \E i \in tagged :
            tagged = {i} /\ entries[i] = Usable(o)
    BY <1>7, Zenon
  <2>8. QED
    BY <1>2, <1>7, <2>6, <2>7, Zenon
<1>8. QED
  BY <1>5, <1>6, <1>7, Zenon

LEMMA PlacesDiffer ==
  ASSUME NEW g \in Nat, NEW i \in Nat, NEW j \in Nat,
         10 + g + 12 * i = 10 + g + 12 * j
  PROVE  i = j
OBVIOUS

LEMMA DirectoryRead ==
  ASSUME NEW t \in Blocks, t.order \in ByteOrders,
         t.tail >= 12 * t.extra
  PROVE  DirectoryMetadata(TiffBytes(t), 8 + t.gap,
                           Len(t.entries) + t.extra, t.order)
           = EntriesSay(t.entries)
<1> DEFINE n      == Len(t.entries)
           bytes  == TiffBytes(t)
           count  == n + t.extra
           at(i)  == 10 + t.gap + 12 * i
           tagged == Tagged(t.entries)
           place  == [j \in 1 .. n |-> at(j - 1)]
           walk   == {8 + t.gap + 2 + EntryBytes * i : i \in 0 .. count - 1}
           P      == TaggedEntries(bytes, 8 + t.gap, count, t.order)
<1>1. /\ t.gap \in Nat /\ t.extra \in Nat /\ t.tail \in Int /\ n \in Nat
      /\ count \in Nat /\ TiffSize(t) \in Int
      /\ TiffSize(t) = 14 + t.gap + 12 * n + t.tail
      /\ t.entries \in Seq(Fields)
  BY BlockTypes, Zenon
<1>2. DOMAIN t.entries = 1 .. n
  BY <1>1
<1>3. \A i \in Nat : at(i) \in Nat /\ 8 + t.gap + 2 + EntryBytes * i = at(i)
  <2> DEFINE g == t.gap
  <2>1. g \in Nat
    BY <1>1, Zenon
  <2> HIDE DEF g
  <2>2. \A i \in Nat : 10 + g + 12 * i \in Nat
                      /\ 8 + g + 2 + 12 * i = 10 + g + 12 * i
    BY <2>1
  <2>3. QED
    BY <2>2, Zenon DEF g, EntryBytes
<1>4. \A i \in Nat : i < n => 22 + t.gap + 12 * i <= TiffSize(t)
  <2>1. t.tail >= 0
    BY <1>1
  <2> DEFINE g == t.gap
             size == TiffSize(t)
             tail == t.tail
  <2>2. g \in Nat /\ n \in Nat /\ tail \in Nat /\ size = 14 + g + 12 * n + tail
    BY <1>1, <2>1
  <2> HIDE DEF g, size, tail, n
  <2>3. \A i \in Nat : i < n => 22 + g + 12 * i <= size
    BY <2>2
  <2>4. QED
    BY <2>3, Zenon DEF g, size, n
<1>5. \A i \in Nat : n <= i /\ i < count =>
        t.tail >= 0 /\ 12 + t.gap + 12 * i <= TiffSize(t)
  <2> DEFINE g == t.gap
             size == TiffSize(t)
             tail == t.tail
             extra == t.extra
  <2>2. /\ g \in Nat /\ n \in Nat /\ tail \in Int /\ extra \in Nat
        /\ tail >= 12 * extra /\ size = 14 + g + 12 * n + tail
        /\ count = n + extra
    BY <1>1
  <2> HIDE DEF g, size, tail, n, extra, count
  <2>3. \A i \in Nat : n <= i /\ i < count =>
          tail >= 0 /\ 12 + g + 12 * i <= size
    BY <2>2
  <2>4. QED
    BY <2>3, Zenon DEF g, size, tail
<1>6. ASSUME NEW i \in 0 .. count - 1
      PROVE  Read16(bytes, at(i), t.order) = OrientationTag <=> i + 1 \in tagged
  <2>1. i \in Nat /\ i < count
    BY <1>1
  <2>2. CASE i < n
    <3>1. Read16(bytes, at(i), t.order) = t.entries[i + 1].tag
      BY <1>4, <2>1, <2>2, TiffEntry, Zenon
    <3>2. i + 1 \in DOMAIN t.entries
      BY <1>1, <1>2, <2>1, <2>2
    <3>3. QED
      BY <3>1, <3>2, Zenon DEF Tagged
  <2>3. CASE ~(i < n)
    <3>1. n <= i /\ i >= Len(t.entries)
      BY <1>1, <2>1, <2>3
    <3>2. Read16(bytes, at(i), t.order) = 0
      BY <1>5, <2>1, <3>1, TiffSpare, Zenon
    <3>3. i + 1 \notin DOMAIN t.entries /\ OrientationTag # 0
      BY <1>1, <1>2, <2>1, <3>1 DEF OrientationTag
    <3>4. QED
      BY <3>2, <3>3, Zenon DEF Tagged
  <2>4. QED
    BY <2>2, <2>3, Zenon
<1>7. ASSUME NEW j \in tagged
      PROVE  /\ j \in 1 .. n /\ j - 1 \in Nat /\ j - 1 < n
             /\ j - 1 \in 0 .. count - 1 /\ (j - 1) + 1 = j
             /\ place[j] = at(j - 1)
  <2>1. j \in 1 .. n
    BY <1>2, Zenon DEF Tagged
  <2>2. n \in Nat /\ t.extra \in Nat
    BY <1>1, Zenon
  <2>3. place[j] = at(j - 1)
    BY <2>1, Zenon
  <2> HIDE DEF n, place, at, tagged
  <2>4. /\ j - 1 \in Nat /\ j - 1 < n
        /\ j - 1 \in 0 .. count - 1 /\ (j - 1) + 1 = j
    BY <2>1, <2>2
  <2>5. QED
    BY <2>1, <2>3, <2>4, Zenon
<1>8. P = {e \in walk : Read16(bytes, e, t.order) = OrientationTag}
  BY Zenon DEF TaggedEntries
<1>9. IsFiniteSet(P)
  <2> DEFINE top == at(count)
  <2>1. P \subseteq 0 .. top
    <3>1. ASSUME NEW i \in 0 .. count - 1
          PROVE  8 + t.gap + 2 + EntryBytes * i \in 0 .. top
      <4>1. i \in Nat /\ i <= count
        BY <1>1
      <4>2. at(i) \in Nat /\ at(i) <= top /\ top \in Nat
        BY <1>1, <4>1, EntryPlace, Zenon
      <4>3. 8 + t.gap + 2 + EntryBytes * i = at(i)
        BY <1>3, <4>1, Zenon
      <4> HIDE DEF top, at
      <4>4. QED
        BY <4>2, <4>3
    <3>2. QED
      BY <1>8, <3>1, Zenon
  <2>2. 0 \in Int /\ top \in Int
    BY <1>1
  <2>3. IsFiniteSet(0 .. top)
    BY <2>2, FS_Interval, Zenon
  <2>4. QED
    BY <2>1, <2>3, FS_Subset, Zenon
<1>10. /\ \A e \in P : \E j \in tagged : e = place[j]
       /\ \A j \in tagged : place[j] \in P
       /\ \A j, k \in tagged : place[j] = place[k] => j = k
  <2>1. ASSUME NEW e \in P PROVE \E j \in tagged : e = place[j]
    <3>1. PICK i \in 0 .. count - 1 : e = 8 + t.gap + 2 + EntryBytes * i
      BY <1>8, Zenon
    <3>2. i \in Nat /\ e = at(i)
      BY <1>1, <1>3, <3>1
    <3>3. i + 1 \in tagged
      BY <1>6, <1>8, <3>2, Zenon
    <3>4. (i + 1) - 1 = i
      BY <3>2
    <3>5. place[i + 1] = e
      BY <1>7, <3>2, <3>3, <3>4, Zenon
    <3>6. QED
      BY <3>3, <3>5, Zenon
  <2>2. ASSUME NEW j \in tagged PROVE place[j] \in P
    <3>1. Read16(bytes, at(j - 1), t.order) = OrientationTag
      BY <1>6, <1>7, Zenon
    <3>2. at(j - 1) \in walk
      BY <1>3, <1>7, Zenon
    <3>3. QED
      BY <1>7, <1>8, <3>1, <3>2, Zenon
  <2>3. ASSUME NEW j \in tagged, NEW k \in tagged, place[j] = place[k]
        PROVE  j = k
    <3> DEFINE x == j - 1
               y == k - 1
    <3>1. /\ x \in Nat /\ y \in Nat /\ at(x) = at(y)
          /\ x + 1 = j /\ y + 1 = k
      BY <1>7, <2>3, Zenon
    <3> HIDE DEF x, y, place, tagged
    <3>2. x = y
      BY <1>1, <3>1, PlacesDiffer, Zenon
    <3>3. QED
      BY <3>1, <3>2, Zenon
  <2>4. QED
    BY <2>1, <2>2, <2>3, Zenon
<1>11. ASSUME NEW j \in tagged
       PROVE  /\ EntryUsable(bytes, place[j], t.order) <=>
                   \E o \in Orientations : t.entries[j] = Usable(o)
              /\ Read16(bytes, place[j] + 8, t.order) = t.entries[j].value
  <2> DEFINE i == j - 1
  <2>1. /\ i \in Nat /\ i < n /\ i + 1 = j /\ place[j] = at(i)
        /\ 22 + t.gap + 12 * i <= TiffSize(t)
        /\ t.entries[i + 1].tag = OrientationTag
    BY <1>4, <1>7, Zenon DEF Tagged
  <2> HIDE DEF i
  <2>2. EntryUsable(bytes, at(i), t.order) <=>
          \E o \in Orientations : t.entries[i + 1] = Usable(o)
    BY <2>1, UsableEntry, Zenon
  <2>3. Read16(bytes, at(i) + 8, t.order) = t.entries[i + 1].value
    BY <2>1, TiffEntry, Zenon
  <2>4. QED
    BY <2>1, <2>2, <2>3, Zenon
<1>12. /\ \A j \in tagged :
            EntryUsable(bytes, place[j], t.order) <=>
              \E o \in Orientations : t.entries[j] = Usable(o)
       /\ \A j \in tagged :
            Read16(bytes, place[j] + 8, t.order) = t.entries[j].value
  BY <1>11, Zenon
<1> HIDE DEF place, bytes, count
<1>13. DirectoryMetadata(bytes, 8 + t.gap, count, t.order) = EntriesSay(t.entries)
  <2>1. Placed(bytes, 8 + t.gap, count, t.order, t.entries, place)
    BY <1>9, <1>10, <1>12, Zenon DEF Placed
  <2>2. QED
    BY <2>1, WalkAgrees, Zenon
<1>14. QED
  BY <1>13, Zenon DEF bytes, count

(* A directory said to be at none of the offsets it could stand at.        *)
LEMMA OffsetElsewhere ==
  ASSUME NEW t \in Blocks, t.offset # "exact", TiffSize(t) >= 8
  PROVE  LET d == DirectoryOffset(t)
         IN  \/ d < 8 \/ d > Len(TiffBytes(t))
             \/ Read16(TiffBytes(t), d, t.order) = None
<1> DEFINE bytes == TiffBytes(t)
           size  == TiffSize(t)
           d     == DirectoryOffset(t)
<1>1. size \in Int /\ size >= 8 /\ Len(bytes) = size
  BY BlockTypes, TiffLength
<1>2. t.offset \in {"header", "edge", "end", "past", "huge"} /\ size < 1073741824
  BY SMT DEF Blocks
<1>3. /\ t.offset = "header" => d = 7
      /\ t.offset = "edge" => d = size - 1
      /\ t.offset = "end" => d = size
      /\ t.offset = "past" => d = size + 1
      /\ t.offset = "huge" => d = 1073741824
  BY SMT DEF DirectoryOffset
<1>4. ASSUME Len(bytes) - d < 2 PROVE Read16(bytes, d, t.order) = None
  BY <1>4, Zenon DEF Read16
<1> HIDE DEF bytes, size, d
<1>5. d < 8 \/ d > Len(bytes) \/ Len(bytes) - d < 2
  BY <1>1, <1>2, <1>3, SMT
<1>6. QED
  BY <1>4, <1>5, Zenon DEF bytes, d

(* THEOREM.  The parser (parse_exif_orientation) answers what the block    *)
(* says, for every block: any entries in any order, any gap, any number of *)
(* bytes cut off or added, either byte order, and a directory said to be   *)
(* in the header, at or past the end.                                      *)
THEOREM TiffRead ==
  ASSUME NEW t \in Blocks
  PROVE  ParseExifOrientation(TiffBytes(t)) = TiffSays(t)
<1> DEFINE bytes == TiffBytes(t)
           size  == TiffSize(t)
           n     == Len(t.entries)
           Count(d) == Read16(bytes, d, ByteOrder(bytes))
           Start == Read32(bytes, 4, ByteOrder(bytes))
<1>1. /\ t.order \in {"little", "big", "none"}
      /\ t.gap \in Nat /\ t.extra \in Nat /\ t.tail \in Int /\ n \in Nat
      /\ n + t.extra \in Nat /\ size \in Int
      /\ size = 14 + t.gap + 12 * n + t.tail
  BY BlockTypes, Zenon
<1>2. size >= 8 => Len(bytes) = size
  BY <1>1, TiffLength
<1>3. size < 8 => Len(bytes) < 8
  BY <1>1, TiffLength
<1>4. ParseExifOrientation(bytes) =
        IF \/ Len(bytes) < 8 \/ ByteOrder(bytes) = "none"
           \/ Read16(bytes, 2, ByteOrder(bytes)) # 42
           \/ Start < 8 \/ Start > Len(bytes)
        THEN InvalidMetadata
        ELSE IF \/ Count(Start) = None
                \/ DirectoryEnd(Start, Count(Start)) > Len(bytes)
        THEN InvalidMetadata
        ELSE DirectoryMetadata(bytes, Start, Count(Start), ByteOrder(bytes))
  BY Zenon DEF ParseExifOrientation
<1>5. t.tail >= EntryBytes * t.extra => size >= 14 + t.gap
  <2> DEFINE tail == t.tail
             extra == t.extra
             g == t.gap
  <2>1. /\ g \in Nat /\ n \in Nat /\ extra \in Nat /\ tail \in Int
        /\ size = 14 + g + 12 * n + tail
    BY <1>1, Zenon
  <2> HIDE DEF tail, extra, g, n, size
  <2>2. tail >= 12 * extra => size >= 14 + g
    BY <2>1
  <2>3. QED
    BY <2>2, Zenon DEF tail, extra, g, EntryBytes
<1>6. \/ t.order = "none" \/ t.magic # 42 \/ t.offset # "exact"
      \/ t.tail < EntryBytes * t.extra
      => TiffSays(t) = InvalidMetadata
  BY Zenon DEF TiffSays
<1>7. CASE size < 8
  <2>1. ParseExifOrientation(bytes) = InvalidMetadata
    BY <1>3, <1>4, <1>7, Zenon
  <2>2. t.tail < EntryBytes * t.extra
    BY <1>1, <1>5, <1>7 DEF EntryBytes
  <2>3. QED
    BY <1>6, <2>1, <2>2, Zenon
<1>8. CASE size >= 8 /\ t.order = "none"
  <2>1. ByteOrder(bytes) = "none"
    BY <1>1, <1>8, TiffOrder
  <2>2. QED
    BY <1>4, <1>6, <1>8, <2>1, Zenon
<1>9. CASE size >= 8 /\ t.order # "none"
  <2>1. t.order \in ByteOrders
    BY <1>1, <1>9 DEF ByteOrders
  <2>2. ByteOrder(bytes) = t.order
    <3>1. size >= 2
      BY <1>1, <1>9
    <3>2. QED
      BY <3>1, TiffOrder, Zenon
  <2>3. /\ Read16(bytes, 2, t.order) = t.magic
        /\ Read32(bytes, 4, t.order) = DirectoryOffset(t)
    BY <1>9, <2>1, TiffHead, Zenon
  <2>4. /\ Start = DirectoryOffset(t)
        /\ \A d : Count(d) = Read16(bytes, d, t.order)
    BY <2>2, <2>3, Zenon
  <2>5. CASE t.magic # 42
    BY <1>4, <1>6, <2>2, <2>3, <2>5, Zenon
  <2>6. CASE t.offset # "exact"
    <3>1. \/ Start < 8 \/ Start > Len(bytes) \/ Count(Start) = None
      BY <1>9, <2>4, <2>6, OffsetElsewhere, Zenon
    <3>2. QED
      BY <1>4, <1>6, <2>6, <3>1, Zenon
  <2>7. CASE t.magic = 42 /\ t.offset = "exact"
    <3>1. Start = 8 + t.gap
      BY <2>4, <2>7, SMT DEF DirectoryOffset
    <3>2. CASE size < 10 + t.gap
      <4>1. Start > Len(bytes) \/ Len(bytes) - Start < 2
        <5> DEFINE g == t.gap
                   length == Len(bytes)
        <5>1. g \in Nat /\ size \in Int /\ length = size /\ size < 10 + g
          BY <1>1, <1>2, <1>9, <3>2, Zenon
        <5> HIDE DEF g, length, size
        <5>2. 8 + g > length \/ length - (8 + g) < 2
          BY <5>1
        <5>3. QED
          BY <3>1, <5>2, Zenon DEF g, length
      <4>2. Count(Start) = None
        BY <4>1, Zenon DEF Read16
      <4>3. t.tail < EntryBytes * t.extra
        BY <1>1, <1>5, <3>2 DEF EntryBytes
      <4>4. QED
        BY <1>4, <1>6, <4>2, <4>3, Zenon
    <3>3. CASE size >= 10 + t.gap
      <4>1. Count(Start) = n + t.extra
        <5>1. 10 + t.gap <= size
          BY <1>1, <3>3
        <5>2. QED
          BY <2>1, <2>4, <3>1, <5>1, TiffCount, Zenon
      <4>2. n + t.extra # None
        BY <1>1 DEF None
      <4>3. DirectoryEnd(8 + t.gap, n + t.extra) > Len(bytes) <=>
              t.tail < EntryBytes * t.extra
        <5> DEFINE tail == t.tail
                   extra == t.extra
                   g == t.gap
                   length == Len(bytes)
        <5>1. /\ g \in Nat /\ n \in Nat /\ extra \in Nat /\ tail \in Int
              /\ length = 14 + g + 12 * n + tail
          BY <1>1, <1>2, <1>9, Zenon
        <5> HIDE DEF tail, extra, g, n, size, length
        <5>2. 8 + g + 2 + 12 * (n + extra) + 4 > length <=> tail < 12 * extra
          BY <5>1
        <5>3. QED
          BY <5>2, Zenon DEF tail, extra, g, length, DirectoryEnd, EntryBytes
      <4>4. CASE t.tail < EntryBytes * t.extra
        BY <1>4, <1>6, <3>1, <4>1, <4>3, <4>4, Zenon
      <4>5. CASE ~(t.tail < EntryBytes * t.extra)
        <5>1. ParseExifOrientation(bytes) =
                DirectoryMetadata(bytes, 8 + t.gap, n + t.extra, t.order)
          <6>1. ~(Len(bytes) < 8) /\ ~(Start < 8) /\ ~(Start > Len(bytes))
            <7> DEFINE g == t.gap
                       length == Len(bytes)
            <7>1. /\ g \in Nat /\ size \in Int /\ length = size
                  /\ size >= 8 /\ size >= 10 + g
              BY <1>1, <1>2, <1>9, <3>3, Zenon
            <7> HIDE DEF g, length, size
            <7>2. ~(length < 8) /\ ~(8 + g < 8) /\ ~(8 + g > length)
              BY <7>1
            <7>3. QED
              BY <3>1, <7>2, Zenon DEF g, length
          <6>2. t.order # "none" /\ t.magic = 42
            BY <1>9, <2>7, Zenon
          <6>3. ~(DirectoryEnd(Start, Count(Start)) > Len(bytes))
                /\ Count(Start) # None
            BY <3>1, <4>1, <4>2, <4>3, <4>5, Zenon
          <6>4. QED
            BY <1>4, <2>2, <2>3, <3>1, <4>1, <6>1, <6>2, <6>3, Zenon
        <5>2. t.tail >= 12 * t.extra
          BY <1>1, <4>5 DEF EntryBytes
        <5>3. DirectoryMetadata(bytes, 8 + t.gap, n + t.extra, t.order)
                = EntriesSay(t.entries)
          BY <2>1, <5>2, DirectoryRead, Zenon
        <5>4. TiffSays(t) = EntriesSay(t.entries)
          BY <1>9, <2>7, <4>5, Zenon DEF TiffSays
        <5>5. QED
          BY <5>1, <5>3, <5>4, Zenon
      <4>6. QED
        BY <4>4, <4>5, Zenon
    <3>4. QED
      BY <1>1, <3>2, <3>3
  <2>8. QED
    BY <2>5, <2>6, <2>7, Zenon
<1>10. QED
  BY <1>1, <1>7, <1>8, <1>9

(* The blocks that are checked are blocks.                                 *)
Roomy ==
  { e \in Fields : /\ e.tag <= 65535 /\ e.type <= 65535
                   /\ e.count <= 4294967295 /\ e.value <= 65535 }

LEMMA EntriesRoomy ==
  Entries \subseteq Roomy /\ Some \subseteq Roomy
  /\ {Usable(6)} \subseteq Roomy /\ {Usable(6), Entry(256, 3, 1, 6)} \subseteq Roomy
<1>1. \A a, b, c, d \in Nat :
        a <= 65535 /\ b <= 65535 /\ c <= 4294967295 /\ d <= 65535
          => Entry(a, b, c, d) \in Roomy
  BY SMT DEF Entry, Roomy, Fields
<1>2. \A o \in Orientations : Usable(o) \in Roomy
  BY <1>1, SMT DEF Usable, Orientations, OrientationTag, ShortType
<1>3. /\ Entry(274, 4, 1, 6) \in Roomy /\ Entry(274, 768, 1, 6) \in Roomy
      /\ Entry(274, 3, 0, 6) \in Roomy /\ Entry(274, 3, 2, 6) \in Roomy
      /\ Entry(274, 3, 65537, 6) \in Roomy /\ Entry(274, 3, 1, 0) \in Roomy
      /\ Entry(274, 3, 1, 9) \in Roomy /\ Entry(274, 3, 1, 262) \in Roomy
      /\ Entry(256, 3, 1, 6) \in Roomy /\ Entry(4609, 3, 1, 6) \in Roomy
  BY <1>1, SMT
<1>4. 6 \in Orientations
  BY DEF Orientations
<1>5. QED
  BY <1>2, <1>3, <1>4, SMT DEF Entries, Some

LEMMA ListTypes ==
  ASSUME NEW S, NEW n \in Nat, NEW l \in Lists(S, n)
  PROVE  /\ l \in Seq(S) /\ Len(l) \in Nat /\ Len(l) <= n
         /\ \A i \in DOMAIN l : l[i] \in S
<1>1. PICK k \in 0 .. n : l \in [1 .. k -> S]
  BY Zenon DEF Lists
<1>2. k \in Nat /\ k <= n
  BY <1>1
<1>3. QED
  BY <1>1, <1>2

LEMMA DescribedBlock ==
  ASSUME NEW e \in Seq(Fields), Len(e) \in Nat, Len(e) <= 3,
         \A i \in DOMAIN e : e[i] \in Roomy,
         NEW o \in {"little", "big", "none"}, NEW m \in Nat, m <= 65535,
         NEW f \in {"exact", "header", "edge", "end", "past", "huge"},
         NEW g \in Nat, g <= 1, NEW x \in Nat, x <= 1, NEW n \in Int,
         f # "exact" => n = 0
  PROVE  Described(o, m, f, g, e, x, n) \in Blocks
<1> DEFINE t == Described(o, m, f, g, e, x, n)
<1>1. /\ t.order = o /\ t.magic = m /\ t.offset = f /\ t.gap = g
      /\ t.entries = e /\ t.extra = x /\ t.tail = n
  BY SMT DEF Described
<1>2. t \in [ order : {"little", "big", "none"}, magic : Nat,
              offset : {"exact", "header", "edge", "end", "past", "huge"},
              gap : Nat, entries : Seq(Fields), extra : Nat, tail : Int ]
  BY SMT DEF Described
<1> HIDE DEF t
<1>3. /\ Len(e) + x <= 65535 /\ 14 + g + 12 * Len(e) < 1073741824
      /\ n = 0 => /\ 14 + g + 12 * Len(e) + n >= 1
                  /\ 14 + g + 12 * Len(e) + n < 1073741824
  BY SMT
<1>4. \A i \in DOMAIN e : /\ e[i].tag <= 65535 /\ e[i].type <= 65535
                          /\ e[i].count <= 4294967295 /\ e[i].value <= 65535
  BY SMT DEF Roomy
<1>5. t \in Blocks
  BY <1>1, <1>2, <1>3, <1>4, SMT DEF Blocks, TiffSize, EntryBytes
<1>6. QED
  BY <1>5 DEF t

Few(e) ==
  /\ e \in Seq(Fields) /\ Len(e) \in Nat /\ Len(e) <= 3
  /\ \A i \in DOMAIN e : e[i] \in Roomy

LEMMA ListsFew ==
  ASSUME NEW S, S \subseteq Roomy, NEW n \in Nat, n <= 3, NEW e \in Lists(S, n)
  PROVE  Few(e)
<1>1. Roomy \subseteq Fields
  BY SMT DEF Roomy
<1>2. /\ e \in Seq(S) /\ Len(e) \in Nat /\ Len(e) <= n
      /\ \A i \in DOMAIN e : e[i] \in S
  BY ListTypes, Zenon
<1>3. e \in Seq(Fields)
  BY <1>1, <1>2, SMT
<1>4. Len(e) <= 3
  BY <1>2
<1>5. QED
  BY <1>2, <1>3, <1>4, Zenon DEF Few

LEMMA TiffsBlocks == Tiffs \subseteq Blocks
<1> SUFFICES ASSUME NEW t \in Tiffs PROVE t \in Blocks
  OBVIOUS
<1>1. /\ 1 \in Nat /\ 1 <= 3 /\ 2 \in Nat /\ 2 <= 3 /\ 3 \in Nat /\ 3 <= 3
  OBVIOUS
<1>2. /\ Entries \subseteq Roomy /\ Some \subseteq Roomy
      /\ {Usable(6)} \subseteq Roomy
      /\ {Usable(6), Entry(256, 3, 1, 6)} \subseteq Roomy
  BY EntriesRoomy
<1>3. CASE t \in Whole
  <2> DEFINE O == {"little", "big"}
             E == Lists(Entries, 2) \cup Lists(Some, 3)
             G == {0, 1}
  <2>1. t \in { Described(o, 42, "exact", g, e, 0, 0) : o \in O, e \in E, g \in G }
    BY <1>3, SMT DEF Whole
  <2> HIDE DEF O, E, G
  <2>2. PICK o \in O, e \in E, g \in G :
          t = Described(o, 42, "exact", g, e, 0, 0)
    BY <2>1, SMT
  <2>3. Few(e)
    <3>1. CASE e \in Lists(Entries, 2)
      BY <1>1, <1>2, <3>1, ListsFew, Zenon
    <3>2. CASE e \in Lists(Some, 3)
      BY <1>1, <1>2, <3>2, ListsFew, Zenon
    <3>3. QED
      BY <3>1, <3>2, Zenon DEF E
  <2>4. o \in {"little", "big", "none"} /\ g \in Nat /\ g <= 1
    BY SMT DEF O, E, G
  <2>5. QED
    BY <2>2, <2>3, <2>4, DescribedBlock, SMT DEF Few
<1>4. CASE t \in Misplaced
  <2> DEFINE O == {"little", "big", "none"}
             E == Lists({Usable(6)}, 1)
             M == {42, 43, 10752}
             F == {"exact", "header", "edge", "end", "past", "huge"}
  <2>1. t \in { Described(o, m, f, 0, e, 0, 0) :
                 o \in O, e \in E, m \in M, f \in F }
    BY <1>4, SMT DEF Misplaced
  <2> HIDE DEF O, E, M, F
  <2>2. PICK o \in O, e \in E, m \in M, f \in F :
          t = Described(o, m, f, 0, e, 0, 0)
    BY <2>1, SMT
  <2>3. Few(e)
    BY <1>1, <1>2, ListsFew, Zenon DEF E
  <2>4. /\ o \in {"little", "big", "none"} /\ m \in Nat /\ m <= 65535
        /\ f \in {"exact", "header", "edge", "end", "past", "huge"}
    BY SMT DEF O, E, M, F
  <2>5. QED
    BY <2>2, <2>3, <2>4, DescribedBlock, SMT DEF Few
<1>5. CASE t \in Cut
  <2> DEFINE O == {"little", "big"}
             E == Lists({Usable(6), Entry(256, 3, 1, 6)}, 2)
             G == {0, 1}
             X == {0, 1}
             N == Tails
  <2>1. t \in { Described(o, 42, "exact", g, e, x, n) :
                 o \in O, e \in E, g \in G, x \in X, n \in N }
    BY <1>5, SMT DEF Cut
  <2> HIDE DEF O, E, G, X, N
  <2>2. PICK o \in O, e \in E, g \in G, x \in X, n \in N :
          t = Described(o, 42, "exact", g, e, x, n)
    BY <2>1, SMT
  <2>3. Few(e)
    BY <1>1, <1>2, ListsFew, Zenon DEF E
  <2>4. /\ o \in {"little", "big", "none"} /\ g \in Nat /\ g <= 1
        /\ x \in Nat /\ x <= 1 /\ n \in Int
    BY SMT DEF O, G, X, N, Tails
  <2>5. QED
    BY <2>2, <2>3, <2>4, DescribedBlock, SMT DEF Few
<1>6. QED
  BY <1>3, <1>4, <1>5, Zenon DEF Tiffs

(* THEOREM.  TiffExact: whatever block is read, the answer is what it says.*)
THEOREM TiffsExact == EncodedSpec => []TiffExact
<1>1. Read => TiffExact
  <2> SUFFICES ASSUME Read, HasRead("tiff") PROVE reading = Ok(TiffSays(file.tiff))
    BY Zenon DEF TiffExact
  <2>1. file \in Files /\ file.kind = "tiff" /\ reading # Unread
    BY Zenon DEF Read, HasRead
  <2>2. file \in TiffFiles
    BY <2>1, FileKinds, Zenon
  <2>3. file.tiff \in Tiffs
    BY <2>2 DEF TiffFiles
  <2>4. reading = Ok(ParseExifOrientation(TiffBytes(file.tiff)))
    BY <2>1, Zenon DEF Read
  <2>5. QED
    BY <2>3, <2>4, TiffsBlocks, TiffRead, Zenon
<1>2. QED
  BY <1>1, ReadInvariant, PTL

-----------------------------------------------------------------------------
(* APP1 markers: the payload is the block with another tail.               *)

LEMMA ResizedBytes ==
  ASSUME NEW bytes \in Seq(Nat), NEW tail \in Int,
         NEW i \in 1 .. Len(Resized(bytes, tail))
  PROVE  Resized(bytes, tail)[i] = IF i <= Len(bytes) THEN bytes[i] ELSE 0
<1> DEFINE n == Len(bytes)
           r == Resized(bytes, tail)
<1>1. n \in Nat
  BY LenProperties
<1>2. /\ n + tail >= 0 => Len(r) = n + tail
      /\ n + tail < 0 => Len(r) = 0
  BY ResizedType, Zenon
<1>3. CASE tail >= 0
  <2>1. tail \in Nat /\ Zeros(tail) \in Seq(Nat) /\ Len(Zeros(tail)) = tail
        /\ \A j \in 1 .. tail : Zeros(tail)[j] = 0
    BY <1>3, ZerosBytes
  <2>2. r = bytes \o Zeros(tail)
    BY <1>3 DEF Resized
  <2>3. /\ \A j \in 1 .. n : r[j] = bytes[j]
        /\ \A j \in 1 .. tail : r[n + j] = Zeros(tail)[j]
    BY <1>1, <2>1, <2>2, JoinedParts
  <2>4. Len(r) = n + tail
    BY <1>1, <1>2, <1>3
  <2> HIDE DEF r, n
  <2>5. CASE i <= n
    BY <1>1, <2>3, <2>5 DEF n, r
  <2>6. CASE i > n
    <3>1. i - n \in 1 .. tail /\ n + (i - n) = i
      BY <1>1, <2>1, <2>4, <2>6 DEF r
    <3>2. r[i] = 0
      BY <2>1, <2>3, <3>1
    <3>3. ~(i <= n)
      BY <1>1, <2>6
    <3>4. QED
      BY <3>2, <3>3 DEF n, r
  <2>7. QED
    BY <1>1, <2>5, <2>6
<1>4. CASE tail < 0
  <2> DEFINE k == n + tail
  <2>1. i \in 1 .. k /\ k \in Nat /\ k <= n /\ i <= n
    BY <1>1, <1>2, <1>4
  <2>2. r = SubSeq(bytes, 1, k)
    BY <1>4 DEF Resized
  <2>3. 1 \in Nat /\ 1 <= k + 1 /\ k + 1 - 1 = k /\ 1 + i - 1 = i
    BY <2>1
  <2> HIDE DEF k, r
  <2>4. \A j \in 1 .. k + 1 - 1 : SubSeq(bytes, 1, k)[j] = bytes[1 + j - 1]
    BY <2>1, <2>3, Part
  <2>5. r[i] = bytes[i]
    BY <2>1, <2>2, <2>3, <2>4
  <2>6. QED
    BY <2>1, <2>5 DEF r
<1>5. QED
  BY <1>3, <1>4

LEMMA ShortBlock ==
  ASSUME NEW bytes, Len(bytes) < 8
  PROVE  ParseExifOrientation(bytes) = InvalidMetadata
BY Zenon DEF ParseExifOrientation

LEMMA SameBytes ==
  ASSUME NEW s \in Seq(Nat), NEW u \in Seq(Nat), NEW n \in Nat,
         Len(s) = n, Len(u) = n, \A i \in 1 .. n : s[i] = u[i]
  PROVE  s = u
OBVIOUS

(* The bytes of a block, fewer or followed by zeros, are those of the      *)
(* block with another tail; cut below eight bytes neither is one.          *)
LEMMA BlockRetailed ==
  ASSUME NEW t \in Blocks, t.offset = "exact", NEW d \in Int,
         NEW b \in Seq(Nat), Len(b) = Len(TiffBytes(t)) + d,
         \A i \in 1 .. Len(b) :
           b[i] = IF i <= Len(TiffBytes(t)) THEN TiffBytes(t)[i] ELSE 0,
         t.tail >= -4 \/ Len(b) < 8
  PROVE  ParseExifOrientation(b) = TiffSays(Retailed(t, d))
<1> DEFINE u == Retailed(t, d)
           whole == TiffWhole(t)
           m == Len(TiffBytes(t))
           n == Len(t.entries)
           w == 14 + t.gap + 12 * n
           tail == t.tail
           extra == t.extra
           k == Len(b)
<1>1. /\ t.gap \in Nat /\ n \in Nat /\ tail \in Int /\ extra \in Nat
      /\ TiffSize(t) = w + tail
  BY BlockTypes, Zenon
<1>2. w \in Nat /\ w - 4 = 10 + t.gap + 12 * n /\ w >= 14
  BY <1>1, Places, Zenon
<1>3. /\ w + tail >= 0 => m = w + tail
      /\ w + tail < 0 => m = 0
      /\ m \in Nat /\ k \in Nat
  BY <1>1, TiffLength, LenProperties, Zenon
<1>4. /\ u.order = t.order /\ u.magic = t.magic /\ u.offset = t.offset
      /\ u.gap = t.gap /\ u.entries = t.entries /\ u.extra = t.extra
      /\ u.tail = tail + d /\ u \in Blocks
  <2>1. /\ t \in [ order : {"little", "big", "none"}, magic : Nat,
                   offset : {"exact", "header", "edge", "end", "past", "huge"},
                   gap : Nat, entries : Seq(Fields), extra : Nat, tail : Int ]
        /\ t.magic <= 65535 /\ Len(t.entries) + t.extra <= 65535
        /\ 14 + t.gap + EntryBytes * Len(t.entries) < 1073741824
        /\ \A i \in DOMAIN t.entries :
             /\ t.entries[i].tag <= 65535
             /\ t.entries[i].type <= 65535
             /\ t.entries[i].count <= 4294967295
             /\ t.entries[i].value <= 65535
    BY SMT DEF Blocks
  <2>2. tail + d \in Int
    BY <1>1
  <2>3. /\ u.order = t.order /\ u.magic = t.magic /\ u.offset = t.offset
        /\ u.gap = t.gap /\ u.entries = t.entries /\ u.extra = t.extra
        /\ u.tail = tail + d
        /\ u \in [ order : {"little", "big", "none"}, magic : Nat,
                   offset : {"exact", "header", "edge", "end", "past", "huge"},
                   gap : Nat, entries : Seq(Fields), extra : Nat, tail : Int ]
    BY <2>1, <2>2, SMT DEF Retailed, Described
  <2> HIDE DEF u
  <2>4. u \in Blocks
    BY <2>1, <2>3, SMT DEF Blocks
  <2>5. QED
    BY <2>3, <2>4, SMT
<1>5. TiffWhole(u) = whole
  <2> HIDE DEF u
  <2>1. /\ DirectoryOffset(u) = DirectoryOffset(t)
        /\ EntriesBytes(u) = EntriesBytes(t)
    BY <1>4, SMT DEF DirectoryOffset, EntriesBytes
  <2>2. QED
    BY <1>4, <2>1, Zenon DEF TiffWhole, TiffHeader, TiffDirectory
<1>6. TiffSays(u) = IF \/ t.order = "none" \/ t.magic # 42
                       \/ tail + d < EntryBytes * extra
                    THEN InvalidMetadata ELSE EntriesSay(t.entries)
  <2> HIDE DEF u
  <2>1. QED
    BY <1>4, Zenon DEF TiffSays
<1> HIDE DEF u
<1>7. CASE k < 8
  <2>1. ParseExifOrientation(b) = InvalidMetadata
    BY <1>7, ShortBlock
  <2>2. k = m + d
    BY Zenon
  <2>3. EntryBytes * extra \in Nat
    BY <1>1 DEF EntryBytes
  <2>4. tail + d < EntryBytes * extra
    <3> DEFINE e == EntryBytes * extra
    <3>1. e \in Nat /\ tail \in Int
      BY <1>1, <2>3
    <3> HIDE DEF w, m, k, tail, e
    <3>2. tail + d < e
      BY <1>2, <1>3, <1>7, <2>2, <3>1
    <3>3. QED
      BY <3>2 DEF e
  <2>5. QED
    BY <1>6, <2>1, <2>4, Zenon DEF u
<1>8. CASE ~(k < 8)
  <2>1. /\ tail >= -4 /\ m = w + tail /\ k = m + d
        /\ whole \in Seq(Nat) /\ Len(whole) = w
    <3>1. tail >= -4
      BY <1>8
    <3>2. w + tail >= 0
      <4> HIDE DEF w, tail
      <4>1. QED
        BY <1>1, <1>2, <3>1
    <3>3. whole \in Seq(Nat) /\ Len(whole) = w
      BY WholeStands, Zenon
    <3>4. QED
      BY <1>3, <3>1, <3>2, <3>3, Zenon
  <2>2. /\ TiffBytes(u) = Resized(whole, tail + d)
        /\ TiffBytes(t) = Resized(whole, tail)
    BY <1>4, <1>5, Zenon DEF TiffBytes
  <2>3. TiffBytes(u) \in Seq(Nat) /\ Len(TiffBytes(u)) = k
    <3>1. w + (tail + d) = k /\ k >= 0 /\ tail + d \in Int
      <4> HIDE DEF w, tail, k, m
      <4>1. QED
        BY <1>1, <1>2, <1>3, <2>1
    <3>2. Len(whole) + (tail + d) >= 0 /\ Len(whole) + (tail + d) = k
      BY <2>1, <3>1, Zenon
    <3>3. QED
      BY <2>1, <2>2, <3>1, <3>2, ResizedType, Zenon
  <2>4. \A i \in 1 .. 4 : whole[(w - 4) + i] = 0
    <3>1. Stands(whole, w - 4, Zeros(4), 4)
      BY <1>2, WholeStands, Zenon
    <3>2. \A i \in 1 .. 4 : Zeros(4)[i] = 0
      BY ZerosBytes
    <3>3. QED
      BY <3>1, <3>2, Zenon DEF Stands
  <2>5. ASSUME NEW i \in 1 .. k PROVE b[i] = TiffBytes(u)[i]
    <3>1. tail + d \in Int
      BY <1>1
    <3>2. TiffBytes(u)[i] = IF i <= w THEN whole[i] ELSE 0
      <4>1. i \in 1 .. Len(Resized(whole, tail + d))
        BY <2>2, <2>3, Zenon
      <4>2. Resized(whole, tail + d)[i] = IF i <= Len(whole) THEN whole[i] ELSE 0
        BY <2>1, <3>1, <4>1, ResizedBytes, Zenon
      <4>3. QED
        BY <2>1, <2>2, <4>2, Zenon
    <3>3. CASE i <= m
      <4>1. i \in 1 .. m
        BY <1>3, <3>3
      <4>2. TiffBytes(t)[i] = IF i <= w THEN whole[i] ELSE 0
        <5>1. i \in 1 .. Len(Resized(whole, tail)) /\ tail \in Int
          BY <1>1, <2>2, <4>1, Zenon
        <5>2. Resized(whole, tail)[i] = IF i <= Len(whole) THEN whole[i] ELSE 0
          BY <2>1, <5>1, ResizedBytes, Zenon
        <5>3. QED
          BY <2>1, <2>2, <5>2, Zenon
      <4>3. b[i] = TiffBytes(t)[i]
        BY <3>3, Zenon
      <4>4. QED
        BY <3>2, <4>2, <4>3, Zenon
    <3>4. CASE ~(i <= m)
      <4>1. b[i] = 0
        BY <3>4, Zenon
      <4>2. CASE i <= w
        <5>1. i - (w - 4) \in 1 .. 4 /\ (w - 4) + (i - (w - 4)) = i
          <6> HIDE DEF w, tail, m, k
          <6>1. QED
            BY <1>1, <1>2, <1>3, <2>1, <3>4, <4>2
        <5>2. whole[i] = 0
          BY <2>4, <5>1, Zenon
        <5>3. QED
          BY <3>2, <4>1, <4>2, <5>2, Zenon
      <4>3. CASE ~(i <= w)
        BY <3>2, <4>1, <4>3, Zenon
      <4>4. QED
        BY <4>2, <4>3
    <3>5. QED
      BY <3>3, <3>4
  <2>6. b = TiffBytes(u)
    BY <1>3, <2>3, <2>5, SameBytes, Zenon
  <2>7. QED
    BY <1>4, <2>6, TiffRead, Zenon DEF u
<1>9. QED
  BY <1>7, <1>8

LEMMA IdentifierBytes ==
  /\ ExifIdentifier \in Seq(Nat) /\ Len(ExifIdentifier) = 6
  /\ OtherIdentifier \in Seq(Nat) /\ Len(OtherIdentifier) = 6
  /\ ExifIdentifier[6] = 0 /\ OtherIdentifier[6] = 1
BY DEF ExifIdentifier, OtherIdentifier

LEMMA MarkerParts ==
  ASSUME NEW n \in Nat, NEW id \in Seq(Nat), Len(id) = 6, NEW block \in Seq(Nat)
  PROVE  LET whole == Spell(n, 2, "big") \o id \o block
         IN  /\ whole \in Seq(Nat) /\ Len(whole) = 8 + Len(block)
             /\ Stands(whole, 0, Spell(n, 2, "big"), 2)
             /\ \A j \in 1 .. 6 : whole[2 + j] = id[j]
             /\ \A j \in 1 .. Len(block) : whole[8 + j] = block[j]
<1> DEFINE a == Spell(n, 2, "big")
           whole == a \o id \o block
<1>1. a \in Seq(Nat) /\ Len(a) = 2 /\ Len(block) \in Nat
  BY SpellBytes, LenProperties
<1> HIDE DEF a
<1>2. /\ whole \in Seq(Nat) /\ Len(whole) = Len(a) + Len(id) + Len(block)
      /\ Stands(whole, 0, a, Len(a)) /\ Stands(whole, Len(a), id, Len(id))
      /\ Stands(whole, Len(a) + Len(id), block, Len(block))
  BY <1>1, ThreeParts, Zenon
<1>3. Len(a) + Len(id) = 8 /\ Len(a) + Len(id) + Len(block) = 8 + Len(block)
  BY <1>1
<1>4. /\ Stands(whole, 0, a, 2) /\ Stands(whole, 2, id, 6)
      /\ Stands(whole, 8, block, Len(block)) /\ Len(whole) = 8 + Len(block)
  BY <1>1, <1>2, <1>3, Zenon
<1>5. QED
  BY <1>2, <1>4, Zenon DEF a, Stands

(* What two length bytes can say.                                          *)
ShortLengths == {n \in Nat : n <= 65535}

(* A marker of any length its two bytes can say and any number of bytes    *)
(* kept, about a block in Blocks cut no deeper than its last four zero     *)
(* bytes when the length reaches the order, the magic and the offset.      *)
Marked(f) ==
  /\ f.tiff \in Blocks /\ f.tiff.offset = "exact" /\ f.exif \in BOOLEAN
  /\ f.length \in ShortLengths /\ f.tail \in Int
  /\ f.tiff.tail >= -4 \/ f.length < 16

LEMMA ShortLength ==
  ASSUME NEW n \in ShortLengths PROVE n \in Nat /\ n <= 65535
BY SMT DEF ShortLengths

(* THEOREM.  A marker (process_exif_marker) is left at its declared end    *)
(* and answers what its block says, for every block it may carry whole,    *)
(* cut or followed by other bytes, every length and every input.           *)
THEOREM MarkerRead ==
  ASSUME NEW f, Marked(f)
  PROVE  ProcessExifMarker(MarkerBytes(f)) = MarkerSays(f)
<1> DEFINE t      == f.tiff
           block  == TiffBytes(t)
           m      == Len(block)
           id     == IF f.exif THEN ExifIdentifier ELSE OtherIdentifier
           length == f.length
           tail   == f.tail
           two    == Spell(length, 2, "big")
           whole  == two \o id \o block
           bytes  == MarkerBytes(f)
           L      == Len(bytes)
           exact  == MarkerExact(t)
           payload == Slice(bytes, 2, length - 2)
           rest    == DropBytes(payload, Len(ExifIdentifier))
<1>a. /\ f.tiff \in Blocks /\ f.tiff.offset = "exact" /\ f.exif \in BOOLEAN
      /\ f.length \in ShortLengths /\ f.tail \in Int
      /\ f.tiff.tail >= -4 \/ f.length < 16
  BY Zenon DEF Marked
<1>b. length \in Nat
  BY <1>a, ShortLength, SMT
<1>0. /\ id \in Seq(Nat) /\ Len(id) = 6
      /\ f.exif => id = ExifIdentifier
      /\ ~f.exif => id[6] # ExifIdentifier[6]
  BY <1>a, IdentifierBytes
<1>3. bytes = Resized(whole, tail)
  BY Zenon DEF MarkerBytes
<1> HIDE DEF id
<1>1. /\ t \in Blocks /\ block \in Seq(Nat) /\ m \in Nat
      /\ length \in Nat /\ tail \in Int
  BY <1>a, <1>b, TiffLength, LenProperties, Zenon
<1>2. /\ whole \in Seq(Nat) /\ Len(whole) = 8 + m
      /\ Stands(whole, 0, two, 2)
      /\ \A j \in 1 .. 6 : whole[2 + j] = id[j]
      /\ \A j \in 1 .. m : whole[8 + j] = block[j]
  BY <1>0, <1>1, MarkerParts, Zenon
<1>4. exact = 8 + m /\ exact \in Nat
  <2>1. exact = 2 + 6 + m
    BY Zenon DEF MarkerExact
  <2> HIDE DEF exact, m
  <2>2. QED
    BY <1>1, <2>1
<1>5. /\ bytes \in Seq(Nat) /\ L \in Nat
      /\ exact + tail >= 0 => L = exact + tail
      /\ exact + tail < 0 => L = 0
  <2>1. Len(whole) = exact
    BY <1>2, <1>4, Zenon
  <2> HIDE DEF whole, bytes, tail, exact, m
  <2>2. /\ bytes \in Seq(Nat)
        /\ exact + tail >= 0 => Len(bytes) = exact + tail
        /\ exact + tail < 0 => Len(bytes) = 0
    BY <1>1, <1>2, <1>3, <2>1, ResizedType, Zenon
  <2>3. QED
    BY <2>2, LenProperties, Zenon
<1> SUFFICES ProcessExifMarker(bytes) = MarkerSays(f)
  BY Zenon
<1> HIDE DEF bytes, whole, two
<1>6. ProcessExifMarker(bytes) =
        LET said == Read16(bytes, 0, "big")
            part == Slice(bytes, 2, said - 2)
        IN  IF L < 2 THEN Err("truncated")
            ELSE IF said < 2 THEN Err("malformed")
            ELSE IF said - 2 > L - 2 THEN Err("truncated")
            ELSE Ok([ consumed |-> 2 + (said - 2),
                      metadata |->
                        IF IsPrefix(ExifIdentifier, part)
                          THEN ParseExifOrientation(
                                 DropBytes(part, Len(ExifIdentifier)))
                          ELSE NoMetadata ])
  BY Zenon DEF ProcessExifMarker, MarkerPayload
<1>7. MarkerSays(f) =
        IF exact + tail < 2 THEN Err("truncated")
        ELSE IF length < 2 THEN Err("malformed")
        ELSE IF length > exact + tail THEN Err("truncated")
        ELSE Ok([ consumed |-> length,
                  metadata |->
                    IF f.exif /\ length >= 8
                      THEN TiffSays(Retailed(t, length - exact))
                      ELSE NoMetadata ])
  BY Zenon DEF MarkerSays
<1>8. CASE exact + tail < 2
  <2>1. L < 2
    <3> HIDE DEF exact, L, tail
    <3>1. QED
      BY <1>1, <1>4, <1>5, <1>8
  <2>2. QED
    BY <1>6, <1>7, <1>8, <2>1, Zenon
<1>9. CASE ~(exact + tail < 2)
  <2>1. L = exact + tail /\ L >= 2 /\ ~(L < 2) /\ 0 + 2 <= Len(whole) + tail
        /\ 0 \in Nat /\ 2 \in Nat
    <3>1. Len(whole) = exact
      BY <1>2, <1>4, Zenon
    <3> HIDE DEF exact, L, tail, whole
    <3>2. QED
      BY <1>1, <1>4, <1>5, <1>9, <3>1
  <2>2. Read16(bytes, 0, "big") = length
    <3>1. Stands(bytes, 0, two, 2)
      BY <1>1, <1>2, <1>3, <2>1, StandsResized, Zenon
    <3>2. length <= 65535 /\ "big" \in ByteOrders
      BY <1>a, ShortLength, SMT DEF ByteOrders
    <3> DEFINE at == 0
    <3>3. at \in Nat /\ Stands(bytes, at, two, 2)
      BY <2>1, <3>1, Zenon
    <3> HIDE DEF bytes, length, at
    <3>4. Read16(bytes, at, "big") = length
      BY <1>1, <1>5, <3>2, <3>3, Reads16, SMT DEF two
    <3>5. QED
      BY <3>4, Zenon DEF at
  <2>3. /\ length - 2 > L - 2 <=> length > exact + tail
        /\ 2 + (length - 2) = length
    <3> HIDE DEF exact, L, tail, length
    <3>1. QED
      BY <1>1, <1>4, <1>5, <2>1
  <2> DEFINE found == IF IsPrefix(ExifIdentifier, payload)
                        THEN ParseExifOrientation(rest) ELSE NoMetadata
             meant == IF f.exif /\ length >= 8
                        THEN TiffSays(Retailed(t, length - exact))
                        ELSE NoMetadata
  <2>4. ProcessExifMarker(bytes) =
          IF length < 2 THEN Err("malformed")
          ELSE IF length - 2 > L - 2 THEN Err("truncated")
          ELSE Ok([ consumed |-> 2 + (length - 2), metadata |-> found ])
    BY <1>6, <2>1, <2>2, Zenon
  <2>5. MarkerSays(f) =
          IF length < 2 THEN Err("malformed")
          ELSE IF length > exact + tail THEN Err("truncated")
          ELSE Ok([ consumed |-> length, metadata |-> meant ])
    BY <1>7, <1>9, Zenon
  <2>6. CASE length < 2 \/ length > exact + tail
    <3> HIDE DEF found, meant, length, L, exact, tail
    <3>1. CASE length < 2
      BY <2>4, <2>5, <3>1, Zenon
    <3>2. CASE ~(length < 2)
      <4>1. length > exact + tail
        BY <2>6, <3>2, Zenon
      <4>2. length - 2 > L - 2
        BY <2>3, <4>1, Zenon
      <4>3. QED
        BY <2>4, <2>5, <3>2, <4>1, <4>2, Zenon
    <3>3. QED
      BY <3>1, <3>2, Zenon
  <2>7. CASE ~(length < 2 \/ length > exact + tail)
    <3>1. length >= 2 /\ length <= L
      <4> HIDE DEF exact, L, tail, length
      <4>1. QED
        BY <1>1, <1>4, <1>5, <2>1, <2>7
    <3>2. ASSUME NEW j \in 1 .. L
          PROVE  bytes[j] = IF j <= exact THEN whole[j] ELSE 0
      <4>1. Resized(whole, tail)[j] = IF j <= Len(whole) THEN whole[j] ELSE 0
        BY <1>1, <1>2, <1>3, ResizedBytes, Zenon
      <4>2. QED
        BY <1>2, <1>3, <1>4, <4>1, Zenon
    <3>3. /\ payload \in Seq(Nat) /\ Len(payload) = length - 2
          /\ \A i \in 1 .. length - 2 : payload[i] = bytes[2 + i]
      <4> DEFINE k == 3
      <4>1. payload = SubSeq(bytes, 2 + 1, 2 + (length - 2))
        BY Zenon DEF Slice
      <4> HIDE DEF bytes, length, payload, L
      <4>2. /\ k \in Nat /\ 1 <= k /\ k <= length + 1 /\ length <= L
            /\ length + 1 - k = length - 2 /\ 2 + 1 = k
            /\ \A i \in Nat : k + i - 1 = 2 + i
        BY <1>1, <1>5, <3>1
      <4>3. payload = SubSeq(bytes, k, length)
        BY <2>3, <4>1, <4>2, Zenon
      <4> HIDE DEF k
      <4>4. /\ SubSeq(bytes, k, length) \in Seq(Nat)
            /\ Len(SubSeq(bytes, k, length)) = length + 1 - k
            /\ \A i \in 1 .. length + 1 - k :
                 SubSeq(bytes, k, length)[i] = bytes[k + i - 1]
        BY <1>1, <1>5, <4>2, Part DEF L
      <4>5. QED
        BY <4>2, <4>3, <4>4
    <3>4. IsPrefix(ExifIdentifier, payload) <=> f.exif /\ length >= 8
      <4>1. ExifIdentifier \in Seq(Int) /\ payload \in Seq(Int)
        BY <3>3, IdentifierBytes, SeqMonotonic
      <4>2. IsPrefix(ExifIdentifier, payload) <=>
              /\ 6 <= length - 2
              /\ \A i \in 1 .. 6 : ExifIdentifier[i] = payload[i]
        <5>1. IsPrefix(ExifIdentifier, payload) <=>
                /\ Len(ExifIdentifier) <= Len(payload)
                /\ \A i \in 1 .. Len(ExifIdentifier) :
                     ExifIdentifier[i] = payload[i]
          <6> HIDE DEF payload
          <6>1. QED
            BY <4>1, PrefixBytes, Zenon
        <5>2. Len(ExifIdentifier) = 6 /\ Len(payload) = length - 2
          BY <3>3, IdentifierBytes, Zenon
        <5> HIDE DEF payload, length
        <5>3. QED
          BY <5>1, <5>2, Zenon
      <4>3. ASSUME length >= 8, NEW i \in 1 .. 6 PROVE payload[i] = id[i]
        <5>1. i \in 1 .. length - 2 /\ 2 + i \in 1 .. L /\ 2 + i <= exact
          <6> HIDE DEF length, L, exact, m
          <6>1. QED
            BY <1>1, <1>4, <1>5, <3>1, <4>3
        <5>2. payload[i] = whole[2 + i]
          BY <3>2, <3>3, <5>1, Zenon
        <5>3. QED
          BY <1>2, <5>2, Zenon
      <4>4. 6 <= length - 2 <=> length >= 8
        <5> HIDE DEF length
        <5>1. QED
          BY <1>1
      <4>5. 6 \in 1 .. 6
        OBVIOUS
      <4> DEFINE long == length >= 8
      <4>6. IsPrefix(ExifIdentifier, payload) <=>
              long /\ \A i \in 1 .. 6 : ExifIdentifier[i] = payload[i]
        BY <4>2, <4>4, Zenon
      <4>7. long => \A i \in 1 .. 6 : payload[i] = id[i]
        BY <4>3, Zenon
      <4>8. ~f.exif /\ long => payload[6] # ExifIdentifier[6]
        BY <1>0, <4>5, <4>7, Zenon
      <4> HIDE DEF payload, length, long
      <4>9. f.exif /\ long => \A i \in 1 .. 6 : ExifIdentifier[i] = payload[i]
        BY <1>0, <4>7, Zenon
      <4>10. IsPrefix(ExifIdentifier, payload) <=> f.exif /\ long
        BY <4>5, <4>6, <4>8, <4>9, Zenon
      <4>11. QED
        BY <4>10, Zenon DEF long
    <3>5. ASSUME f.exif, length >= 8
          PROVE  ParseExifOrientation(rest)
                   = TiffSays(Retailed(t, length - exact))
      <4> DEFINE d == length - exact
                 n == length - 2
                 k == 7
      <4>1. rest = SubSeq(payload, 6 + 1, n)
        BY <3>3, IdentifierBytes, Zenon DEF DropBytes
      <4>2. /\ d \in Int /\ n \in Nat /\ k \in Nat /\ 1 <= k /\ k <= n + 1
            /\ n <= Len(payload) /\ n + 1 - k = length - 8 /\ 6 + 1 = k
            /\ length - 8 = m + d /\ length - 8 \in Nat
            /\ \A i \in Nat : k + i - 1 = 6 + i
        <5>1. Len(payload) = length - 2
          BY <3>3, Zenon
        <5> HIDE DEF length, exact, m, payload
        <5>2. QED
          BY <1>1, <1>4, <3>5, <5>1
      <4>3. rest = SubSeq(payload, k, n)
        BY <4>1, <4>2, Zenon
      <4> HIDE DEF k, n, d, rest, payload, length, exact, m, block, whole, bytes, L
      <4>4. /\ SubSeq(payload, k, n) \in Seq(Nat)
            /\ Len(SubSeq(payload, k, n)) = n + 1 - k
            /\ \A i \in 1 .. n + 1 - k :
                 SubSeq(payload, k, n)[i] = payload[k + i - 1]
        BY <3>3, <4>2, Part
      <4>5. /\ rest \in Seq(Nat) /\ Len(rest) = length - 8
            /\ \A i \in 1 .. length - 8 : rest[i] = payload[6 + i]
        BY <4>2, <4>3, <4>4
      <4>6. ASSUME NEW i \in 1 .. length - 8
            PROVE  rest[i] = IF i <= m THEN block[i] ELSE 0
        <5>1. /\ 6 + i \in 1 .. length - 2 /\ 2 + (6 + i) = 8 + i
              /\ 8 + i \in 1 .. L
              /\ 8 + i <= exact <=> i <= m
          BY <1>1, <1>4, <1>5, <3>1, <4>2
        <5>2. rest[i] = bytes[8 + i]
          BY <3>3, <4>5, <5>1, Zenon
        <5>3. rest[i] = IF 8 + i <= exact THEN whole[8 + i] ELSE 0
          BY <3>2, <5>1, <5>2, Zenon
        <5>4. i <= m => i \in 1 .. m
          BY <1>1, <4>2
        <5>5. QED
          BY <1>2, <5>1, <5>3, <5>4, Zenon
      <4>7. t.tail >= -4 \/ Len(rest) < 8
        <5>1. t.tail >= -4 \/ length < 16
          BY <1>a DEF length
        <5>2. QED
          BY <1>1, <4>5, <5>1
      <4>8. /\ t \in Blocks /\ t.offset = "exact" /\ Len(rest) = m + d
            /\ \A i \in 1 .. Len(rest) :
                 rest[i] = IF i <= m THEN block[i] ELSE 0
        BY <1>1, <1>a, <4>2, <4>5, <4>6, Zenon
      <4>9. ParseExifOrientation(rest) = TiffSays(Retailed(t, d))
        BY <4>2, <4>5, <4>7, <4>8, BlockRetailed, Zenon DEF m, block
      <4>10. QED
        BY <4>9, Zenon DEF d
    <3>6. found = meant
      BY <3>4, <3>5, Zenon
    <3> HIDE DEF found, meant, length, L, exact, tail
    <3>7. QED
      BY <2>3, <2>7, <2>4, <2>5, <3>6, Zenon
  <2>8. QED
    BY <2>6, <2>7
<1>10. QED
  BY <1>8, <1>9

(* A block that says what it holds, but for a tail of n bytes.             *)
Plain(t, e, n) ==
  /\ t \in Blocks /\ t.offset = "exact" /\ t.tail = n
  /\ LET size == 14 + 12 * Len(e) + n
     IN  Len(TiffBytes(t)) = IF size >= 0 THEN size ELSE 0

LEMMA PlainBlock ==
  ASSUME NEW o \in {"little", "big"}, NEW e, Few(e), NEW n \in Int, NEW t,
         t = Described(o, 42, "exact", 0, e, 0, n)
  PROVE  Plain(t, e, n)
<1>1. t \in Blocks
  <2>1. o \in {"little", "big", "none"}
    OBVIOUS
  <2>2. QED
    BY <2>1, DescribedBlock, SMT DEF Few
<1>2. t.offset = "exact" /\ t.tail = n /\ t.gap = 0 /\ t.entries = e
  BY SMT DEF Described
<1>3. TiffSize(t) = 14 + 0 + 12 * Len(e) + n
  BY <1>1, <1>2, BlockTypes, Zenon
<1>4. Len(e) \in Nat
  BY Zenon DEF Few
<1>5. TiffSize(t) = 14 + 12 * Len(e) + n
  BY <1>3, <1>4
<1> DEFINE size == 14 + 12 * Len(e) + n
<1>6. TiffSize(t) = size /\ (~(size >= 0) => size < 0)
  BY <1>4, <1>5
<1> HIDE DEF size
<1>7. Len(TiffBytes(t)) = IF size >= 0 THEN size ELSE 0
  BY <1>1, <1>6, TiffLength, Zenon
<1>8. QED
  BY <1>1, <1>2, <1>7, Zenon DEF Plain, size

LEMMA PlainLists ==
  /\ Few(<<Usable(6)>>) /\ Len(<<Usable(6)>>) = 1
  /\ Few(<< >>) /\ Len(<< >>) = 0
<1>1. Usable(6) \in Roomy /\ Roomy \subseteq Fields
  BY EntriesRoomy, SMT DEF Roomy
<1> DEFINE x == Usable(6)
<1>2. x \in Roomy /\ x \in Fields
  BY <1>1
<1> HIDE DEF x
<1>3. Few(<<x>>) /\ Len(<<x>>) = 1
  <2>1. /\ <<x>> \in Seq(Fields) /\ Len(<<x>>) = 1
        /\ \A i \in DOMAIN <<x>> : <<x>>[i] \in Roomy
    BY <1>2
  <2>2. Len(<<x>>) \in Nat /\ Len(<<x>>) <= 3
    BY <2>1
  <2>3. QED
    BY <2>1, <2>2, Zenon DEF Few
<1>4. Few(<< >>) /\ Len(<< >>) = 0
  BY DEF Few
<1>5. QED
  BY <1>3, <1>4 DEF x

(* The blocks markers carry: the one cut below its last zero bytes is      *)
(* written as no byte at all.                                              *)
LEMMA MarkerBlocks ==
  ASSUME NEW t \in {Sample, Odd, Untagged, Broken, Absent}
  PROVE  /\ t \in Blocks /\ t.offset = "exact"
         /\ Len(TiffBytes(t)) \in Nat /\ Len(TiffBytes(t)) <= 27
         /\ t.tail >= -4 \/ Len(TiffBytes(t)) = 0
<1> DEFINE one == <<Usable(6)>>
           L == Len(TiffBytes(t))
<1>1. /\ Few(one) /\ Len(one) = 1 /\ Few(<< >>) /\ Len(<< >>) = 0
  BY PlainLists
<1>2. /\ Sample = Described("little", 42, "exact", 0, one, 0, 0)
      /\ Untagged = Described("big", 42, "exact", 0, << >>, 0, 0)
  BY Zenon DEF Sample, Untagged, Tiff
<1>3. /\ Odd = Described("little", 42, "exact", 0, one, 0, 0 + 1)
      /\ Broken = Described("little", 42, "exact", 0, one, 0, 0 + (-1))
      /\ Absent = Described("big", 42, "exact", 0, << >>, 0, 0 + (-20))
  <2> HIDE DEF one
  <2>1. QED
    BY <1>2, SMT DEF Odd, Broken, Absent, Retailed, Described
<1>4. PICK o \in {"little", "big"}, e \in {one, << >>}, n \in {0, 1, -1, -20} :
        /\ t = Described(o, 42, "exact", 0, e, 0, n)
        /\ n = -20 => e = << >>
  <2> HIDE DEF one
  <2>1. 0 + 1 = 1 /\ 0 + (-1) = -1 /\ 0 + (-20) = -20
    OBVIOUS
  <2>2. QED
    BY <1>2, <1>3, <2>1, SMT
<1>5. Few(e) /\ Len(e) \in {0, 1} /\ n \in Int /\ (n = -20 => Len(e) = 0)
  <2> HIDE DEF one
  <2>1. QED
    BY <1>1, <1>4, SMT
<1>6. Plain(t, e, n)
  BY <1>4, <1>5, PlainBlock, Zenon
<1> DEFINE q == Len(e)
           size == 14 + 12 * q + n
<1>7. /\ t \in Blocks /\ t.offset = "exact" /\ t.tail = n
      /\ L = IF size >= 0 THEN size ELSE 0
  BY <1>6, Zenon DEF Plain
<1>8. q \in {0, 1} /\ n \in {0, 1, -1, -20} /\ (n = -20 => q = 0)
  BY <1>5, Zenon
<1> HIDE DEF q, L, one
<1>9. L \in Nat /\ L <= 27 /\ (n >= -4 \/ L = 0)
  <2>1. CASE n = -20
    BY <1>7, <1>8, <2>1
  <2>2. CASE n # -20
    BY <1>7, <1>8, <2>2
  <2>3. QED
    BY <2>1, <2>2
<1>10. QED
  BY <1>7, <1>9, Zenon DEF L

LEMMA MarkersMarked ==
  ASSUME NEW f \in MarkerFiles
  PROVE  Marked(f)
<1> DEFINE B == {Sample, Odd, Untagged, Broken, Absent}
<1>1. PICK t \in B :
        f \in [ kind : {"marker"}, exif : BOOLEAN, tiff : {t},
                length : {0, 1, 2, 7, 8} \cup
                           {MarkerExact(t) + d : d \in {-1, 0, 1, 3}},
                tail : {-100, -1, 0, 2, 5} ]
  BY Zenon DEF MarkerFiles
<1> DEFINE L == Len(TiffBytes(t))
<1>2. /\ t \in Blocks /\ t.offset = "exact"
      /\ L \in Nat /\ L <= 27 /\ (t.tail >= -4 \/ L = 0)
  BY MarkerBlocks, Zenon
<1>3. MarkerExact(t) = 8 + L
  <2>1. MarkerExact(t) = 2 + 6 + L
    BY Zenon DEF MarkerExact
  <2> HIDE DEF L
  <2>2. QED
    BY <1>2, <2>1
<1> HIDE DEF L, B
<1>4. /\ f.tiff = t /\ f.exif \in BOOLEAN /\ f.tail \in Int
      /\ f.length \in {0, 1, 2, 7, 8} \cup {8 + L + d : d \in {-1, 0, 1, 3}}
  BY <1>1, <1>3, SMT
<1>5. f.length \in Nat /\ f.length <= 38 /\ (L = 0 => f.length < 16)
  BY <1>2, <1>4, SMT
<1>6. f.length \in ShortLengths
  BY <1>5, SMT DEF ShortLengths
<1>7. QED
  BY <1>2, <1>4, <1>5, <1>6, Zenon DEF Marked

(* THEOREM.  MarkerExactly: whatever marker is read, it is left where it   *)
(* ends and answers what the block in it says, or fails as its length does.*)
THEOREM MarkersExact == EncodedSpec => []MarkerExactly
<1>1. Read => MarkerExactly
  <2> SUFFICES ASSUME Read, HasRead("marker") PROVE reading = MarkerSays(file)
    BY Zenon DEF MarkerExactly
  <2>1. file \in Files /\ file.kind = "marker" /\ reading # Unread
    BY Zenon DEF Read, HasRead
  <2>2. file \in MarkerFiles
    BY <2>1, FileKinds, Zenon
  <2>3. reading = ProcessExifMarker(MarkerBytes(file))
    BY <2>1, Zenon DEF Read
  <2>4. QED
    BY <2>2, <2>3, MarkersMarked, MarkerRead, Zenon
<1>2. QED
  BY <1>1, ReadInvariant, PTL

-----------------------------------------------------------------------------
(* WebP containers.                                                        *)

(* The loop ends in state f when s lists the states of its first k rounds  *)
(* and the round after the last of them leads to f, which no round leaves. *)
LEMMA ScanRounds ==
  ASSUME NEW bytes, NEW container \in Nat,
         NEW k \in Nat, k <= container \div ChunkHeaderBytes,
         NEW s, s[0] = ScanStart,
         \A i \in 1 .. k : s[i] = ScanChunk(bytes, container, s[i - 1]),
         NEW f, f = ScanChunk(bytes, container, s[k]),
         f = ScanChunk(bytes, container, f)
  PROVE  ScanChunks(bytes, container) = f
<1> DEFINE rounds == (container \div ChunkHeaderBytes) + 1
           Round(x) == ScanChunk(bytes, container, x)
           Body(g) == [i \in Nat |-> IF i = 0 THEN ScanStart ELSE Round(g[i - 1])]
           w == [i \in Nat |-> IF i <= k THEN s[i] ELSE f]
           after == CHOOSE g : g = Body(g)
<1>1. ScanChunks(bytes, container) = after[rounds]
  BY Zenon DEF ScanChunks
<1> HIDE DEF Round
<1>2. w = Body(w)
  <2>1. ASSUME NEW i \in Nat
        PROVE  w[i] = IF i = 0 THEN ScanStart ELSE Round(w[i - 1])
    <3>1. CASE i = 0
      BY <3>1
    <3>2. CASE i # 0 /\ i <= k
      <4>1. i - 1 \in Nat /\ i - 1 <= k /\ i \in 1 .. k
        BY <3>2
      <4>2. w[i] = s[i] /\ w[i - 1] = s[i - 1]
        BY <3>2, <4>1
      <4>3. s[i] = Round(s[i - 1])
        BY <4>1 DEF Round
      <4>4. QED
        BY <3>2, <4>2, <4>3
    <3>3. CASE i = k + 1
      <4>1. i - 1 = k /\ i # 0 /\ ~(i <= k) /\ k \in Nat /\ k <= k
        BY <3>3
      <4>2. w[i] = f /\ w[i - 1] = s[k]
        BY <4>1
      <4>3. f = Round(s[k])
        BY DEF Round
      <4>4. QED
        BY <4>1, <4>2, <4>3
    <3>4. CASE i > k + 1
      <4>1. i - 1 \in Nat /\ ~(i - 1 <= k) /\ i # 0 /\ ~(i <= k)
        BY <3>4
      <4>2. w[i] = f /\ w[i - 1] = f
        BY <4>1
      <4>3. f = Round(f)
        BY DEF Round
      <4>4. QED
        BY <4>1, <4>2, <4>3
    <3>5. QED
      BY <3>1, <3>2, <3>3, <3>4
  <2>2. QED
    BY <2>1
<1>3. after = Body(after)
  <2>1. \E g : g = Body(g)
    BY <1>2
  <2>2. QED
    BY <2>1
<1> HIDE DEF after, w
<1>4. \A i \in Nat : after[i] = w[i]
  <2> DEFINE Differ == {i \in Nat : after[i] # w[i]}
  <2>1. SUFFICES ASSUME Differ # {} PROVE FALSE
    OBVIOUS
  <2>2. PICK i \in Differ : \A m \in Differ : i <= m
    <3>1. Differ \subseteq Nat
      OBVIOUS
    <3> HIDE DEF Differ
    <3>2. QED
      BY <2>1, <3>1, LeastNatural
  <2>3. /\ after[i] = IF i = 0 THEN ScanStart ELSE Round(after[i - 1])
        /\ w[i] = IF i = 0 THEN ScanStart ELSE Round(w[i - 1])
    BY <1>2, <1>3
  <2>4. i # 0
    BY <2>3
  <2>5. i - 1 \in Nat /\ i - 1 \notin Differ
    <3>1. i - 1 \in Nat /\ ~(i <= i - 1)
      BY <2>4
    <3>2. QED
      BY <2>2, <3>1
  <2>6. after[i - 1] = w[i - 1]
    BY <2>5
  <2>7. QED
    BY <2>3, <2>4, <2>6
<1>5. rounds \in Nat /\ ~(rounds <= k)
  BY DEF ChunkHeaderBytes
<1> HIDE DEF rounds
<1>6. w[rounds] = f
  BY <1>5 DEF w
<1>7. QED
  BY <1>1, <1>4, <1>5, <1>6

(* Sequences one after the other: the i-th ends at[i] from the start.      *)
Laid(seqs, n, at, whole) ==
  /\ whole \in Seq(Nat) /\ at \in [0 .. n -> Nat]
  /\ at[0] = 0 /\ Len(whole) = at[n]
  /\ \A i \in 1 .. n : at[i] = at[i - 1] + Len(seqs[i])
  /\ \A i \in 1 .. n : Stands(whole, at[i - 1], seqs[i], Len(seqs[i]))
  /\ \A i, j \in 0 .. n : i <= j => at[i] + (j - i) <= at[j]

Flattens(seqs, n, g) ==
  g = [i \in 1 .. n |-> IF i = 1 THEN seqs[i] ELSE g[i - 1] \o seqs[i]]

LEMMA FlattenExists ==
  ASSUME NEW seqs, NEW n \in Nat \ {0}
  PROVE  \E g : Flattens(seqs, n, g)
<1> DEFINE Missing == {m \in Nat \ {0} : ~\E g : Flattens(seqs, m, g)}
<1>1. SUFFICES ASSUME Missing # {} PROVE FALSE
  OBVIOUS
<1>2. PICK m \in Missing : \A k \in Missing : m <= k
  <2>1. Missing \subseteq Nat
    OBVIOUS
  <2> HIDE DEF Missing
  <2>2. QED
    BY <1>1, <2>1, LeastNatural
<1>3. CASE m = 1
  <2> DEFINE g == [i \in 1 .. 1 |-> seqs[i]]
  <2>1. g = [i \in 1 .. m |-> IF i = 1 THEN seqs[i] ELSE g[i - 1] \o seqs[i]]
    BY <1>3
  <2>2. QED
    BY <2>1 DEF Flattens
<1>4. CASE m # 1
  <2>1. m - 1 \in Nat \ {0} /\ m \in Nat /\ ~(m <= m - 1)
    BY <1>4
  <2>2. PICK g : Flattens(seqs, m - 1, g)
    BY <1>2, <2>1
  <2> DEFINE h == [i \in 1 .. m |->
                     IF i = m THEN g[m - 1] \o seqs[m] ELSE g[i]]
  <2>3. ASSUME NEW i \in 1 .. m
        PROVE  h[i] = IF i = 1 THEN seqs[i] ELSE h[i - 1] \o seqs[i]
    <3>1. \A j \in 1 .. m - 1 :
            g[j] = IF j = 1 THEN seqs[j] ELSE g[j - 1] \o seqs[j]
      BY <2>2 DEF Flattens
    <3>2. CASE i = m
      <4>1. i # 1 /\ i - 1 \in 1 .. m /\ i - 1 # m /\ i - 1 = m - 1
        BY <2>1, <3>2
      <4>2. h[i] = g[m - 1] \o seqs[m] /\ h[i - 1] = g[m - 1]
        BY <3>2, <4>1
      <4>3. QED
        BY <3>2, <4>1, <4>2
    <3>3. CASE i # m
      <4>1. i \in 1 .. m - 1 /\ (i # 1 => i - 1 \in 1 .. m /\ i - 1 # m)
        BY <2>1, <3>3
      <4>2. h[i] = g[i] /\ (i # 1 => h[i - 1] = g[i - 1])
        BY <3>3, <4>1
      <4>3. g[i] = IF i = 1 THEN seqs[i] ELSE g[i - 1] \o seqs[i]
        BY <3>1, <4>1
      <4> HIDE DEF h
      <4>4. QED
        BY <4>2, <4>3
    <3>4. QED
      BY <3>2, <3>3
  <2>4. h = [i \in 1 .. m |-> IF i = 1 THEN seqs[i] ELSE h[i - 1] \o seqs[i]]
    BY <2>3
  <2>5. QED
    BY <2>4 DEF Flattens
<1>5. QED
  BY <1>3, <1>4

LEMMA FlattenLaid ==
  ASSUME NEW seqs \in Seq(Seq(Nat)),
         \A i \in 1 .. Len(seqs) : Len(seqs[i]) >= 1
  PROVE  \E at : Laid(seqs, Len(seqs), at, FlattenSeq(seqs))
<1> DEFINE n == Len(seqs)
<1>1. n \in Nat /\ \A i \in 1 .. n : seqs[i] \in Seq(Nat) /\ Len(seqs[i]) \in Nat
  BY LenProperties
<1>2. CASE n = 0
  <2>1. FlattenSeq(seqs) = seqs /\ seqs = << >>
    BY <1>2 DEF FlattenSeq
  <2>2. << >> \in Seq(Nat) /\ Len(<< >>) = 0
    OBVIOUS
  <2>3. Laid(seqs, 0, [i \in 0 .. 0 |-> 0], << >>)
    BY <2>2 DEF Laid
  <2>4. QED
    BY <1>2, <2>1, <2>3
<1>3. CASE n # 0
  <2> DEFINE flatten == CHOOSE g : Flattens(seqs, n, g)
             Wrong == {m \in 1 .. n : ~\E at : Laid(seqs, m, at, flatten[m])}
  <2>1. FlattenSeq(seqs) = flatten[n]
    BY <1>3, Zenon DEF FlattenSeq, Flattens
  <2>2. Flattens(seqs, n, flatten)
    <3>1. \E g : Flattens(seqs, n, g)
      BY <1>1, <1>3, FlattenExists
    <3>2. QED
      BY <3>1
  <2> HIDE DEF flatten
  <2>3. \A i \in 1 .. n :
          flatten[i] = IF i = 1 THEN seqs[i] ELSE flatten[i - 1] \o seqs[i]
    BY <2>2 DEF Flattens
  <2>4. Wrong = {}
    <3>1. SUFFICES ASSUME Wrong # {} PROVE FALSE
      OBVIOUS
    <3>2. PICK m \in Wrong : \A k \in Wrong : m <= k
      <4>1. Wrong \subseteq Nat
        OBVIOUS
      <4> HIDE DEF Wrong
      <4>2. QED
        BY <3>1, <4>1, LeastNatural
    <3>3. m \in 1 .. n /\ ~\E at : Laid(seqs, m, at, flatten[m])
      OBVIOUS
    <3>4. CASE m = 1
      <4> DEFINE at == [i \in 0 .. 1 |-> IF i = 0 THEN 0 ELSE Len(seqs[1])]
                 s == seqs[1]
      <4>1. s \in Seq(Nat) /\ Len(s) \in Nat /\ flatten[1] = s /\ Len(s) >= 1
        BY <1>1, <1>3, <2>3
      <4>2. Stands(s, 0, s, Len(s))
        BY <4>1, StandsAll
      <4>3. at \in [0 .. 1 -> Nat] /\ at[0] = 0 /\ at[1] = Len(s)
        BY <4>1
      <4> HIDE DEF at
      <4>4. Laid(seqs, 1, at, s)
        <5>1. \A i \in 1 .. 1 : i = 1 /\ i - 1 = 0
          OBVIOUS
        <5>2. \A i, j \in 0 .. 1 : i <= j => at[i] + (j - i) <= at[j]
          BY <4>1, <4>3
        <5>3. 0 + Len(s) = Len(s)
          BY <4>1
        <5> HIDE DEF s
        <5>4. \A i \in 1 .. 1 : at[i] = at[i - 1] + Len(seqs[i])
          BY <4>3, <5>1, <5>3 DEF s
        <5>5. \A i \in 1 .. 1 : Stands(s, at[i - 1], seqs[i], Len(seqs[i]))
          BY <4>2, <4>3, <5>1 DEF s
        <5>6. QED
          BY <4>1, <4>3, <5>2, <5>4, <5>5 DEF Laid
      <4>5. QED
        BY <3>3, <3>4, <4>1, <4>4
    <3>5. CASE m # 1
      <4> DEFINE p == m - 1
                 s == seqs[m]
                 u == flatten[p]
      <4>1. p \in 1 .. n /\ ~(m <= p) /\ m = p + 1 /\ p \in Nat
        BY <1>1, <3>3, <3>5
      <4>2. PICK at : Laid(seqs, p, at, u)
        BY <3>2, <4>1
      <4>3. s \in Seq(Nat) /\ Len(s) \in Nat /\ Len(s) >= 1 /\ flatten[m] = u \o s
        BY <1>1, <2>3, <3>3, <3>5
      <4> DEFINE to == [i \in 0 .. m |-> IF i = m THEN at[p] + Len(s) ELSE at[i]]
      <4>4. /\ u \in Seq(Nat) /\ at \in [0 .. p -> Nat] /\ at[0] = 0
            /\ Len(u) = at[p]
            /\ \A i \in 1 .. p : at[i] = at[i - 1] + Len(seqs[i])
            /\ \A i \in 1 .. p : Stands(u, at[i - 1], seqs[i], Len(seqs[i]))
            /\ \A i, j \in 0 .. p : i <= j => at[i] + (j - i) <= at[j]
        BY <4>2 DEF Laid
      <4> HIDE DEF p, s, u
      <4>5. at[p] \in Nat
        BY <4>1, <4>4
      <4>6. /\ to \in [0 .. m -> Nat] /\ to[m] = at[p] + Len(s)
            /\ \A i \in 0 .. p : to[i] = at[i]
        <5> DEFINE r == at[p] + Len(s)
        <5>1. r \in Nat
          BY <4>3, <4>5
        <5>2. \A i \in 0 .. m : i = m \/ i \in 0 .. p
          BY <4>1
        <5>3. m \in 0 .. m /\ \A i \in 0 .. p : i \in 0 .. m /\ i # m
          BY <4>1
        <5> HIDE DEF r
        <5>4. to = [i \in 0 .. m |-> IF i = m THEN r ELSE at[i]]
          BY DEF r
        <5> HIDE DEF to
        <5>5. \A i \in 0 .. m : to[i] = (IF i = m THEN r ELSE at[i]) /\ to[i] \in Nat
          BY <4>4, <5>1, <5>2, <5>4
        <5>6. to \in [0 .. m -> Nat]
          BY <5>4, <5>5
        <5>7. to[m] = r /\ \A i \in 0 .. p : to[i] = at[i]
          BY <5>3, <5>5
        <5>8. QED
          BY <5>6, <5>7 DEF r
      <4> HIDE DEF to
      <4>7. u \o s \in Seq(Nat) /\ Len(u \o s) = to[m]
        BY <4>3, <4>4, <4>6, Followed
      <4>8. \A i \in 1 .. m : to[i] = to[i - 1] + Len(seqs[i])
        <5>1. ASSUME NEW i \in 1 .. m PROVE to[i] = to[i - 1] + Len(seqs[i])
          <6>1. CASE i = m
            <7>1. i - 1 = p /\ p \in 0 .. p
              BY <4>1, <6>1
            <7>2. QED
              BY <4>6, <6>1, <7>1 DEF s
          <6>2. CASE i # m
            <7>1. i \in 1 .. p /\ i \in 0 .. p /\ i - 1 \in 0 .. p
              BY <4>1, <6>2
            <7>2. QED
              BY <4>4, <4>6, <7>1
          <6>3. QED
            BY <6>1, <6>2
        <5>2. QED
          BY <5>1
      <4>9. \A i \in 1 .. m : Stands(u \o s, to[i - 1], seqs[i], Len(seqs[i]))
        <5>1. ASSUME NEW i \in 1 .. m
              PROVE  Stands(u \o s, to[i - 1], seqs[i], Len(seqs[i]))
          <6>1. CASE i = m
            <7>1. i - 1 = p /\ p \in 0 .. p
              BY <4>1, <6>1
            <7>2. to[i - 1] = at[p]
              BY <4>6, <7>1
            <7>3. Stands(u \o s, at[p], s, Len(s))
              BY <4>3, <4>4, <4>5, StandsLast
            <7>4. QED
              BY <6>1, <7>2, <7>3 DEF s
          <6>2. CASE i # m
            <7>1. i \in 1 .. p /\ i - 1 \in 0 .. p /\ i \in 1 .. n
              BY <1>1, <4>1, <6>2
            <7>2. to[i - 1] = at[i - 1] /\ at[i - 1] \in Nat /\ Len(seqs[i]) \in Nat
              BY <1>1, <4>4, <4>6, <7>1
            <7>3. Stands(u, at[i - 1], seqs[i], Len(seqs[i]))
              BY <4>4, <7>1
            <7>4. QED
              BY <4>3, <4>4, <7>2, <7>3, StandsFirst
          <6>3. QED
            BY <6>1, <6>2
        <5>2. QED
          BY <5>1
      <4>10. \A i, j \in 0 .. m : i <= j => to[i] + (j - i) <= to[j]
        <5>1. ASSUME NEW i \in 0 .. m, NEW j \in 0 .. m, i <= j
              PROVE  to[i] + (j - i) <= to[j]
          <6>1. CASE j = m /\ i = m
            BY <4>3, <4>5, <4>6, <6>1
          <6>2. CASE j = m /\ i # m
            <7>1. i \in 0 .. p /\ p \in 0 .. p /\ i <= p
              BY <4>1, <6>2
            <7>2. at[i] + (p - i) <= at[p] /\ to[i] = at[i] /\ at[i] \in Nat
              BY <4>4, <4>6, <7>1
            <7> DEFINE a == at[i]
                       b == at[p]
                       l == Len(s)
            <7>3. /\ a \in Nat /\ b \in Nat /\ l \in Nat /\ l >= 1
                  /\ a + (p - i) <= b /\ to[j] = b + l /\ to[i] = a
              BY <4>3, <4>5, <4>6, <6>2, <7>2
            <7> HIDE DEF a, b, l
            <7>4. a + (m - i) <= b + l
              BY <4>1, <7>1, <7>3
            <7>5. QED
              BY <6>2, <7>3, <7>4
          <6>3. CASE j # m
            <7>1. i \in 0 .. p /\ j \in 0 .. p
              BY <4>1, <5>1, <6>3
            <7>2. QED
              BY <4>4, <4>6, <5>1, <7>1
          <6>4. QED
            BY <6>1, <6>2, <6>3
        <5>2. QED
          BY <5>1
      <4>11. to[0] = 0
        <5>1. 0 \in 0 .. p
          BY <4>1
        <5>2. QED
          BY <4>4, <4>6, <5>1
      <4>12. Laid(seqs, m, to, flatten[m])
        BY <4>3, <4>6, <4>7, <4>8, <4>9, <4>10, <4>11 DEF Laid
      <4>13. QED
        BY <3>3, <4>12
    <3>6. QED
      BY <3>4, <3>5
  <2>5. n \in 1 .. n /\ n \notin Wrong
    <3>1. n \in 1 .. n
      BY <1>1, <1>3
    <3> HIDE DEF Wrong, n
    <3>2. QED
      BY <2>4, <3>1
  <2>6. \E at : Laid(seqs, n, at, flatten[n])
    <3> HIDE DEF n
    <3>1. QED
      BY <2>5
  <2>7. QED
    BY <2>1, <2>6, Zenon
<1>4. QED
  BY <1>2, <1>3

(* What k records make together: nothing if none says anything, and what   *)
(* one says if no other does.                                              *)
Verdict(r, k) ==
  LET said == {i \in 1 .. k : r[i] # NoMetadata}
  IN  IF said = {} THEN NoMetadata
      ELSE IF Cardinality(said) = 1 THEN r[CHOOSE i \in said : TRUE]
      ELSE InvalidMetadata

LEMMA MergeCases ==
  /\ \A m : MergeOrientationMetadata(m, NoMetadata) = m
  /\ \A x \in ParsedMetadata : MergeOrientationMetadata(NoMetadata, x) = x
  /\ \A x, y \in ParsedMetadata \ {NoMetadata} :
       MergeOrientationMetadata(y, x) = InvalidMetadata
<1>1. /\ ~NoMetadata.invalid /\ NoMetadata.value = NoOrientation
      /\ InvalidMetadata.invalid
  BY DEF NoMetadata, InvalidMetadata
<1>2. \A o \in Orientations :
        /\ ~ValueMetadata(o).invalid /\ ValueMetadata(o).value = o
        /\ o # NoOrientation
  BY DEF ValueMetadata, Orientations, NoOrientation
<1>3. \A x \in ParsedMetadata :
        \/ x = NoMetadata \/ x = InvalidMetadata
        \/ \E o \in Orientations : x = ValueMetadata(o)
  BY Zenon DEF ParsedMetadata
<1>4. \A m : MergeOrientationMetadata(m, NoMetadata) = m
  BY <1>1, Zenon DEF MergeOrientationMetadata
<1>5. ASSUME NEW x \in ParsedMetadata
      PROVE  MergeOrientationMetadata(NoMetadata, x) = x
  <2>1. CASE x = InvalidMetadata
    BY <1>1, <2>1, Zenon DEF MergeOrientationMetadata
  <2>2. ASSUME NEW o \in Orientations, x = ValueMetadata(o)
        PROVE  MergeOrientationMetadata(NoMetadata, x) = x
    BY <1>1, <1>2, <2>2, Zenon DEF MergeOrientationMetadata
  <2>3. QED
    BY <1>3, <1>4, <2>1, <2>2, Zenon
<1>6. ASSUME NEW x \in ParsedMetadata \ {NoMetadata},
             NEW y \in ParsedMetadata \ {NoMetadata}
      PROVE  MergeOrientationMetadata(y, x) = InvalidMetadata
  <2>1. CASE y = InvalidMetadata
    BY <1>1, <2>1, Zenon DEF MergeOrientationMetadata
  <2>2. ASSUME NEW o \in Orientations, y = ValueMetadata(o)
        PROVE  MergeOrientationMetadata(y, x) = InvalidMetadata
    <3>1. x.invalid \/ x.value # NoOrientation
      BY <1>1, <1>2, <1>3, Zenon
    <3>2. ~y.invalid /\ y.value # NoOrientation
      BY <1>2, <2>2, Zenon
    <3>3. QED
      BY <3>1, <3>2, Zenon DEF MergeOrientationMetadata
  <2>3. QED
    BY <1>3, <2>1, <2>2, Zenon
<1>7. QED
  BY <1>4, <1>5, <1>6

LEMMA VerdictMerged ==
  ASSUME NEW k \in Nat, NEW r, \A i \in 1 .. k + 1 : r[i] \in ParsedMetadata
  PROVE  Verdict(r, k + 1) = MergeOrientationMetadata(Verdict(r, k), r[k + 1])
<1> DEFINE Said(n) == {i \in 1 .. n : r[i] # NoMetadata}
           n == k + 1
           x == r[n]
           S == Said(k)
           T == Said(n)
           y == Verdict(r, k)
<1>1. /\ y = IF S = {} THEN NoMetadata
             ELSE IF Cardinality(S) = 1 THEN r[CHOOSE i \in S : TRUE]
             ELSE InvalidMetadata
      /\ Verdict(r, n) = IF T = {} THEN NoMetadata
             ELSE IF Cardinality(T) = 1 THEN r[CHOOSE i \in T : TRUE]
             ELSE InvalidMetadata
  BY Zenon DEF Verdict
<1>2. /\ n \notin S /\ (x = NoMetadata => T = S)
      /\ (x # NoMetadata => T = S \cup {n})
      /\ x \in ParsedMetadata /\ n \in Nat
  OBVIOUS
<1>3. IsFiniteSet(S) /\ IsFiniteSet(T)
  <2>1. IsFiniteSet(1 .. k) /\ IsFiniteSet(1 .. n)
    BY <1>2, FS_Interval
  <2>2. QED
    BY <2>1, FS_Subset
<1>4. S # {} => y \in ParsedMetadata \ {NoMetadata}
  <2>1. \A i \in S : r[i] \in ParsedMetadata \ {NoMetadata}
    OBVIOUS
  <2>2. InvalidMetadata \in ParsedMetadata \ {NoMetadata}
    BY DEF ParsedMetadata, InvalidMetadata, NoMetadata
  <2> HIDE DEF S, y
  <2>3. QED
    BY <1>1, <2>1, <2>2, Zenon
<1> HIDE DEF S, T, x, y, n
<1>5. CASE x = NoMetadata
  BY <1>1, <1>2, <1>5, MergeCases, Zenon DEF x, y, n
<1>6. CASE x # NoMetadata /\ S = {}
  <2>1. T = {n}
    BY <1>2, <1>6, Zenon
  <2>2. Cardinality(T) = 1 /\ T # {} /\ (CHOOSE i \in T : TRUE) = n
    BY <2>1, FS_Singleton, Zenon
  <2>3. Verdict(r, n) = x
    BY <1>1, <2>2, Zenon DEF x
  <2>4. QED
    BY <1>1, <1>2, <1>6, <2>3, MergeCases, Zenon DEF x, y, n
<1>7. CASE x # NoMetadata /\ S # {}
  <2>1. T # {} /\ n \in T /\ T # {n}
    BY <1>2, <1>7, Zenon
  <2>2. Cardinality(T) # 1
    <3>1. Cardinality(T) > 1
      BY <1>3, <2>1, OneMember, Zenon
    <3>2. QED
      BY <3>1
  <2>3. Verdict(r, n) = InvalidMetadata
    BY <1>1, <2>1, <2>2, Zenon
  <2>4. QED
    BY <1>2, <1>4, <1>7, <2>3, MergeCases, Zenon DEF x, y, n
<1>8. QED
  BY <1>5, <1>6, <1>7

LEMMA SaysParsed ==
  ASSUME NEW t
  PROVE  TiffSays(t) \in ParsedMetadata
<1> DEFINE e == t.entries
           tagged == Tagged(e)
<1>1. InvalidMetadata \in ParsedMetadata /\ NoMetadata \in ParsedMetadata
  BY DEF ParsedMetadata
<1>2. ASSUME NEW o \in Orientations, NEW i \in tagged,
             tagged = {i} /\ e[i] = Usable(o)
      PROVE  ValueMetadata(e[CHOOSE j \in tagged : TRUE].value)
               \in ParsedMetadata
  <2>1. (CHOOSE j \in tagged : TRUE) = i
    BY <1>2, Zenon
  <2>2. Usable(o).value = o
    BY DEF Usable, Entry
  <2>3. ValueMetadata(o) \in ParsedMetadata
    BY Zenon DEF ParsedMetadata
  <2>4. QED
    BY <1>2, <2>1, <2>2, <2>3, Zenon
<1>3. EntriesSay(e) \in ParsedMetadata
  BY <1>1, <1>2, Zenon DEF EntriesSay
<1>4. QED
  BY <1>1, <1>3, Zenon DEF TiffSays

(* Fewer bytes than none says nothing.                                     *)
LEMMA SaysLess ==
  ASSUME NEW t \in Blocks, NEW d \in Int, t.tail + d < 0
  PROVE  TiffSays(Retailed(t, d)) = InvalidMetadata
<1> DEFINE u == Retailed(t, d)
<1>1. u.tail = t.tail + d /\ u.extra = t.extra
  BY SMT DEF Retailed, Described
<1>2. t.tail \in Int /\ t.extra \in Nat
  BY BlockTypes, Zenon
<1>3. t.tail + d < EntryBytes * t.extra
  <2> DEFINE x == t.tail
             e == t.extra
  <2>1. x \in Int /\ e \in Nat /\ x + d < 0
    BY <1>2
  <2> HIDE DEF x, e
  <2>2. x + d < 12 * e
    BY <2>1
  <2>3. QED
    BY <2>2 DEF x, e, EntryBytes
<1> HIDE DEF u
<1>4. TiffSays(u) = InvalidMetadata
  BY <1>1, <1>3, Zenon DEF TiffSays
<1>5. QED
  BY <1>4 DEF u

(* What a chunk may carry: a block with its directory where it says, cut   *)
(* no deeper than its last four zero bytes or too short to be one.         *)
Carried ==
  {t \in Blocks : /\ t.offset = "exact"
                  /\ t.tail >= -4 \/ Len(TiffBytes(t)) < 7}

Carriers == [exif : BOOLEAN, identifier : BOOLEAN, tiff : Carried]

LEMMA CarrierTypes ==
  ASSUME NEW c \in Carriers
  PROVE  /\ c.exif \in BOOLEAN /\ c.identifier \in BOOLEAN
         /\ c.tiff \in Blocks /\ c.tiff.offset = "exact"
         /\ c.tiff.tail >= -4 \/ Len(TiffBytes(c.tiff)) < 7
         /\ TiffBytes(c.tiff) \in Seq(Nat) /\ Len(TiffBytes(c.tiff)) \in Nat
<1>1. c.exif \in BOOLEAN /\ c.identifier \in BOOLEAN /\ c.tiff \in Carried
  BY DEF Carriers
<1>2. /\ c.tiff \in Blocks /\ c.tiff.offset = "exact"
      /\ c.tiff.tail >= -4 \/ Len(TiffBytes(c.tiff)) < 7
  BY <1>1, Zenon DEF Carried
<1>3. TiffBytes(c.tiff) \in Seq(Nat)
  BY <1>2, TiffLength, Zenon
<1>4. QED
  BY <1>1, <1>2, <1>3, LenProperties

LEMMA PayloadBytes ==
  ASSUME NEW c \in Carriers
  PROVE  LET block == TiffBytes(c.tiff)
             payload == ChunkPayload(c)
         IN  /\ payload \in Seq(Nat) /\ Len(payload) \in Nat
             /\ c.identifier =>
                  /\ Len(payload) = 6 + Len(block)
                  /\ \A i \in 1 .. 6 : payload[i] = ExifIdentifier[i]
                  /\ \A i \in 1 .. Len(block) : payload[6 + i] = block[i]
             /\ ~c.identifier => payload = block
<1> DEFINE block == TiffBytes(c.tiff)
           payload == ChunkPayload(c)
           m == Len(block)
<1>1. block \in Seq(Nat) /\ m \in Nat /\ c.identifier \in BOOLEAN
  BY CarrierTypes
<1>2. ExifIdentifier \in Seq(Nat) /\ Len(ExifIdentifier) = 6 /\ 6 \in Nat
  BY IdentifierBytes
<1> HIDE DEF block
<1>3. payload = (IF c.identifier THEN ExifIdentifier ELSE << >>) \o block
  BY Zenon DEF ChunkPayload, block
<1> HIDE DEF payload
<1>4. CASE c.identifier
  <2>1. payload = ExifIdentifier \o block
    BY <1>3, <1>4
  <2>2. payload \in Seq(Nat) /\ Len(payload) = 6 + m
    BY <1>1, <1>2, <2>1, JoinedType
  <2>3. /\ \A i \in 1 .. 6 : payload[i] = ExifIdentifier[i]
        /\ \A i \in 1 .. m : payload[6 + i] = block[i]
    <3>1. /\ \A i \in 1 .. 6 : (ExifIdentifier \o block)[i] = ExifIdentifier[i]
          /\ \A i \in 1 .. m : (ExifIdentifier \o block)[6 + i] = block[i]
      BY <1>1, <1>2, JoinedParts, Zenon
    <3>2. QED
      BY <2>1, <3>1, Zenon
  <2>4. QED
    BY <1>1, <1>4, <2>2, <2>3 DEF payload, block
<1>5. CASE ~c.identifier
  <2>1. payload = << >> \o block
    BY <1>3, <1>5
  <2>2. payload = block
    BY <1>1, <2>1
  <2>3. QED
    BY <1>1, <1>5, <2>2 DEF payload, block
<1>6. QED
  BY <1>1, <1>4, <1>5

LEMMA IdentifierPrefix ==
  ASSUME NEW b \in Seq(Nat)
  PROVE  IsPrefix(ExifIdentifier, b) <=>
           6 <= Len(b) /\ \A i \in 1 .. 6 : ExifIdentifier[i] = b[i]
<1>1. ExifIdentifier \in Seq(Int) /\ b \in Seq(Int)
  BY IdentifierBytes, SeqMonotonic
<1>2. IsPrefix(ExifIdentifier, b) <=>
        /\ Len(ExifIdentifier) <= Len(b)
        /\ \A i \in 1 .. Len(ExifIdentifier) : ExifIdentifier[i] = b[i]
  BY <1>1, PrefixBytes, Zenon
<1>3. Len(ExifIdentifier) = 6
  BY IdentifierBytes
<1>4. QED
  BY <1>2, <1>3, Zenon

LEMMA BytesPart ==
  ASSUME NEW s \in Seq(Nat), NEW m \in Nat, NEW n \in Nat,
         1 <= m, m <= n + 1, n <= Len(s)
  PROVE  /\ SubSeq(s, m, n) \in Seq(Nat)
         /\ Len(SubSeq(s, m, n)) = n + 1 - m
         /\ \A i \in 1 .. n + 1 - m : SubSeq(s, m, n)[i] = s[m + i - 1]
BY Part

LEMMA Dropped ==
  ASSUME NEW b \in Seq(Nat), Len(b) >= 6
  PROVE  LET rest == DropBytes(b, Len(ExifIdentifier))
         IN  /\ rest \in Seq(Nat) /\ Len(rest) = Len(b) - 6
             /\ \A i \in 1 .. Len(b) - 6 : rest[i] = b[6 + i]
<1> DEFINE n == Len(b)
           k == 7
<1> DEFINE rest == SubSeq(b, k, n)
<1>1. DropBytes(b, Len(ExifIdentifier)) = SubSeq(b, 6 + 1, n)
  BY IdentifierBytes, Zenon DEF DropBytes
<1>2. /\ n \in Nat /\ k \in Nat /\ 1 <= k /\ k <= n + 1 /\ n <= Len(b)
      /\ n + 1 - k = n - 6 /\ 6 + 1 = k /\ \A i \in Nat : k + i - 1 = 6 + i
      /\ b \in Seq(Nat)
  BY LenProperties
<1> HIDE DEF k, n
<1>3. /\ rest \in Seq(Nat) /\ Len(rest) = n + 1 - k
      /\ \A i \in 1 .. n + 1 - k : rest[i] = b[k + i - 1]
  <2>1. /\ k \in Nat /\ n \in Nat /\ 1 <= k /\ k <= n + 1 /\ n <= Len(b)
        /\ b \in Seq(Nat)
    BY <1>2
  <2>2. QED
    BY <2>1, BytesPart, Zenon
<1>4. DropBytes(b, Len(ExifIdentifier)) = rest
  BY <1>1, <1>2, Zenon
<1> HIDE DEF rest
<1>5. /\ rest \in Seq(Nat) /\ Len(rest) = n - 6
      /\ \A i \in 1 .. n - 6 : rest[i] = b[6 + i]
  BY <1>2, <1>3
<1>6. QED
  BY <1>4, <1>5, Zenon DEF n

(* A block starts with a letter that no identifier starts with.            *)
LEMMA BlockLetter ==
  ASSUME NEW t \in Blocks, TiffSize(t) >= 2
  PROVE  TiffBytes(t)[1] # ExifIdentifier[1]
<1> DEFINE bytes == TiffBytes(t)
           mark == Mark(t.order)
<1>1. t.order \in {"little", "big", "none"} /\ TiffSize(t) \in Int
  BY BlockTypes, Zenon
<1>2. Stands(bytes, 0, mark, 2)
  <2>1. Stands(TiffWhole(t), 0, mark, 2)
    BY WholeStands, Zenon
  <2>2. 0 \in Nat /\ 2 \in Nat /\ 0 + 2 <= TiffSize(t)
    BY <1>1
  <2>3. QED
    BY <2>1, <2>2, TiffPart, Zenon
<1>3. bytes[1] = mark[1]
  <2>1. \A i \in 1 .. 2 : bytes[0 + i] = mark[i]
    BY <1>2, Zenon DEF Stands
  <2> HIDE DEF bytes, mark
  <2>2. QED
    BY <2>1
<1>4. ExifIdentifier[1] = 69
  BY DEF ExifIdentifier
<1>5. mark[1] = 73 \/ mark[1] = 77
  <2>1. CASE t.order = "little"
    BY <2>1, SMT DEF Mark, LetterI, LetterM
  <2>2. CASE t.order = "big"
    BY <2>2, SMT DEF Mark, LetterI, LetterM
  <2>3. CASE t.order = "none"
    BY <2>3, SMT DEF Mark, LetterI, LetterM
  <2>4. QED
    BY <1>1, <2>1, <2>2, <2>3
<1> HIDE DEF bytes, mark
<1>6. bytes[1] # ExifIdentifier[1]
  BY <1>3, <1>4, <1>5
<1>7. QED
  BY <1>6 DEF bytes

(* The payload of a chunk, as long as its size bytes say it is, says what  *)
(* its block does: the identifier is dropped if it is there, and no block  *)
(* starts like one.                                                        *)
LEMMA ChunkRead ==
  ASSUME NEW c \in Carriers, NEW last \in {-1, 0, 1}, NEW b \in Seq(Nat),
         Len(b) = Len(ChunkPayload(c)) + last,
         \A i \in 1 .. Len(b) :
           b[i] = IF i <= Len(ChunkPayload(c)) THEN ChunkPayload(c)[i] ELSE 0
  PROVE  ChunkMetadata(b) = TiffSays(Retailed(c.tiff, last))
<1> DEFINE t == c.tiff
           block == TiffBytes(t)
           m == Len(block)
           payload == ChunkPayload(c)
           p == Len(payload)
           n == Len(b)
           rest == DropBytes(b, Len(ExifIdentifier))
<1>1. /\ c.identifier \in BOOLEAN /\ t \in Blocks /\ t.offset = "exact"
      /\ t.tail >= -4 \/ m < 7
      /\ block \in Seq(Nat) /\ m \in Nat
  BY CarrierTypes, Zenon
<1>2. /\ payload \in Seq(Nat) /\ p \in Nat
      /\ c.identifier => /\ p = 6 + m
                         /\ \A i \in 1 .. 6 : payload[i] = ExifIdentifier[i]
                         /\ \A i \in 1 .. m : payload[6 + i] = block[i]
      /\ ~c.identifier => payload = block
  BY PayloadBytes, Zenon
<1>3. /\ n \in Nat /\ n = p + last
      /\ \A i \in 1 .. n : b[i] = IF i <= p THEN payload[i] ELSE 0
  BY LenProperties, Zenon
<1>4. IsPrefix(ExifIdentifier, b) <=>
        6 <= n /\ \A i \in 1 .. 6 : ExifIdentifier[i] = b[i]
  BY IdentifierPrefix, Zenon
<1>5. ChunkMetadata(b) = ParseExifOrientation(
                           IF IsPrefix(ExifIdentifier, b) THEN rest ELSE b)
  BY Zenon DEF ChunkMetadata
<1>6. 6 <= n => /\ rest \in Seq(Nat) /\ Len(rest) = n - 6
                /\ \A i \in 1 .. n - 6 : rest[i] = b[6 + i]
  <2>1. SUFFICES ASSUME 6 <= n
                 PROVE  /\ rest \in Seq(Nat) /\ Len(rest) = n - 6
                        /\ \A i \in 1 .. n - 6 : rest[i] = b[6 + i]
    OBVIOUS
  <2>2. Len(b) >= 6
    BY <1>3, <2>1
  <2>3. QED
    BY <2>2, Dropped, Zenon
<1>7. last \in Int
  OBVIOUS
<1> HIDE DEF t, block, m, payload, p, n, rest
<1>8. CASE c.identifier /\ m + last >= 0
  <2>1. p = 6 + m /\ 6 <= n /\ n - 6 = m + last /\ n - 6 \in Nat
    BY <1>1, <1>2, <1>3, <1>8
  <2>2. ASSUME NEW i \in 1 .. 6 PROVE ExifIdentifier[i] = b[i]
    <3>1. i \in 1 .. n /\ i <= p
      BY <1>1, <1>3, <2>1
    <3>2. QED
      BY <1>2, <1>3, <1>8, <3>1, Zenon
  <2>3. IsPrefix(ExifIdentifier, b)
    BY <1>4, <2>1, <2>2, Zenon
  <2>4. /\ rest \in Seq(Nat) /\ Len(rest) = m + last
        /\ \A i \in 1 .. m + last : rest[i] = b[6 + i]
    BY <1>6, <2>1
  <2>5. ASSUME NEW i \in 1 .. m + last
        PROVE  rest[i] = IF i <= m THEN block[i] ELSE 0
    <3>1. 6 + i \in 1 .. n /\ (6 + i <= p <=> i <= m) /\ (i <= m => i \in 1 .. m)
      BY <1>1, <1>3, <1>7, <2>1
    <3>2. rest[i] = IF 6 + i <= p THEN payload[6 + i] ELSE 0
      BY <1>3, <2>4, <3>1, Zenon
    <3>3. i \in 1 .. m => payload[6 + i] = block[i]
      BY <1>2, <1>8, Zenon
    <3>4. QED
      BY <3>1, <3>2, <3>3, Zenon
  <2>6. t.tail >= -4 \/ Len(rest) < 8
    BY <1>1, <2>4
  <2>7. /\ Len(rest) = m + last
        /\ \A i \in 1 .. Len(rest) : rest[i] = IF i <= m THEN block[i] ELSE 0
    BY <2>4, <2>5, Zenon
  <2>8. ParseExifOrientation(rest) = TiffSays(Retailed(t, last))
    BY <1>1, <1>7, <2>4, <2>6, <2>7, BlockRetailed, Zenon DEF m, block
  <2>9. QED
    BY <1>5, <2>3, <2>8, Zenon DEF t
<1>9. CASE c.identifier /\ m + last < 0
  <2>1. m = 0 /\ last = -1 /\ n < 6 /\ n < 8
    <3>1. m \in Nat /\ n = p + last /\ p = 6 + m /\ m + last < 0
      BY <1>1, <1>2, <1>3, <1>9, Zenon
    <3>2. QED
      BY <3>1
  <2>2. ~IsPrefix(ExifIdentifier, b)
    <3>1. ~(6 <= n)
      BY <1>3, <2>1
    <3>2. QED
      BY <1>4, <3>1, Zenon
  <2>3. ParseExifOrientation(b) = InvalidMetadata
    BY <2>1, ShortBlock, Zenon DEF n
  <2>4. t.tail + last < 0
    <3>1. t.tail \in Int /\ t.gap \in Nat /\ Len(t.entries) \in Nat
          /\ TiffSize(t) = 14 + t.gap + 12 * Len(t.entries) + t.tail
          /\ TiffSize(t) \in Int
      BY <1>1, BlockTypes, Zenon
    <3>2. TiffSize(t) >= 0 => TiffSize(t) = 0
      BY <1>1, <2>1, TiffLength, Zenon DEF m, block
    <3> DEFINE size == TiffSize(t)
               g == t.gap
               k == Len(t.entries)
               tail == t.tail
    <3>3. /\ tail \in Int /\ g \in Nat /\ k \in Nat /\ size \in Int
          /\ size = 14 + g + 12 * k + tail /\ (size >= 0 => size = 0)
      BY <3>1, <3>2, Zenon
    <3> HIDE DEF size, g, k, tail
    <3>4. tail + last < 0
      BY <2>1, <3>3
    <3>5. QED
      BY <3>4 DEF tail
  <2>5. TiffSays(Retailed(t, last)) = InvalidMetadata
    BY <1>1, <1>7, <2>4, SaysLess, Zenon
  <2>6. QED
    BY <1>5, <2>2, <2>3, <2>5, Zenon DEF t
<1>10. CASE ~c.identifier
  <2>1. payload = block /\ p = m
    BY <1>2, <1>10, Zenon DEF p, m
  <2>2. ~IsPrefix(ExifIdentifier, b)
    <3>1. SUFFICES ASSUME 6 <= n PROVE ExifIdentifier[1] # b[1]
      <4>1. 1 \in 1 .. 6
        OBVIOUS
      <4>2. QED
        BY <1>4, <3>1, <4>1, Zenon
    <3>2. 1 \in 1 .. n /\ 1 <= p /\ m >= 2
      BY <1>1, <1>3, <2>1, <3>1
    <3>3. b[1] = block[1]
      BY <1>3, <2>1, <3>2, Zenon
    <3>4. TiffSize(t) >= 2
      <4>1. /\ TiffSize(t) \in Int
            /\ TiffSize(t) >= 0 => m = TiffSize(t)
            /\ TiffSize(t) < 0 => m = 0
        BY <1>1, BlockTypes, TiffLength, Zenon DEF m, block
      <4> DEFINE size == TiffSize(t)
      <4>2. /\ size \in Int /\ (size >= 0 => m = size) /\ (size < 0 => m = 0)
        BY <4>1, Zenon
      <4> HIDE DEF size
      <4>3. size >= 2
        BY <3>2, <4>2
      <4>4. QED
        BY <4>3 DEF size
    <3>5. block[1] # ExifIdentifier[1]
      BY <1>1, <3>4, BlockLetter, Zenon DEF block
    <3>6. QED
      BY <3>3, <3>5, Zenon
  <2>3. t.tail >= -4 \/ Len(b) < 8
    <3>1. n = m + last
      BY <1>3, <2>1
    <3>2. QED
      BY <1>1, <3>1 DEF n
  <2>4. /\ Len(b) = m + last
        /\ \A i \in 1 .. Len(b) : b[i] = IF i <= m THEN block[i] ELSE 0
    BY <1>3, <2>1, Zenon DEF n
  <2>5. ParseExifOrientation(b) = TiffSays(Retailed(t, last))
    BY <1>1, <1>7, <2>3, <2>4, BlockRetailed, Zenon DEF m, block
  <2>6. QED
    BY <1>5, <2>2, <2>5, Zenon DEF t
<1>11. QED
  <2>1. c.identifier => m + last >= 0 \/ m + last < 0
    BY <1>1, <1>7
  <2>2. QED
    BY <1>8, <1>9, <1>10, <2>1

ChunkName(c) == IF c.exif THEN ExifChunk ELSE <<69, 88, 73, 102>>

LEMMA ChunkNames ==
  ASSUME NEW c \in Carriers
  PROVE  /\ ChunkName(c) \in Seq(Nat) /\ Len(ChunkName(c)) = 4
         /\ ChunkName(c) = ExifChunk <=> c.exif
<1>1. ExifChunk \in Seq(Nat) /\ Len(ExifChunk) = 4
  BY DEF ExifChunk
<1>2. <<69, 88, 73, 102>> \in Seq(Nat) /\ Len(<<69, 88, 73, 102>>) = 4
  OBVIOUS
<1>3. ExifChunk # <<69, 88, 73, 102>>
  BY DEF ExifChunk
<1>4. c.exif \in BOOLEAN
  BY CarrierTypes
<1>5. QED
  BY <1>1, <1>2, <1>3, <1>4, Zenon DEF ChunkName

(* A chunk: its name, its size, its payload and padding to an even size.   *)
ChunkLaid(chunk, c, last) ==
  LET p == Len(ChunkPayload(c))
  IN  /\ chunk \in Seq(Nat) /\ Len(chunk) = 8 + p + (p % 2)
      /\ Stands(chunk, 0, ChunkName(c), 4)
      /\ Stands(chunk, 4, Spell(p + last, 4, "little"), 4)
      /\ Stands(chunk, 8, ChunkPayload(c), p)
      /\ Stands(chunk, 8 + p, Zeros(p % 2), p % 2)

LEMMA ChunkStands ==
  ASSUME NEW c \in Carriers, NEW last, Len(ChunkPayload(c)) + last \in Nat
  PROVE  ChunkLaid(ChunkBytes(c, last), c, last)
<1> DEFINE payload == ChunkPayload(c)
           p == Len(payload)
           name == ChunkName(c)
           four == Spell(p + last, 4, "little")
           head == name \o four
           pad == Zeros(p % 2)
           chunk == ChunkBytes(c, last)
<1>1. payload \in Seq(Nat) /\ p \in Nat
  BY PayloadBytes, Zenon
<1>2. name \in Seq(Nat) /\ Len(name) = 4
  BY ChunkNames, Zenon
<1>3. four \in Seq(Nat) /\ Len(four) = 4
  BY SpellBytes
<1>4. p % 2 \in Nat
  BY <1>1
<1>5. pad \in Seq(Nat) /\ Len(pad) = p % 2
  BY <1>4, ZerosBytes
<1>6. chunk = head \o payload \o pad
  BY Zenon DEF ChunkBytes, ChunkName
<1> HIDE DEF payload, p, name, four, pad, chunk
<1>7. head \in Seq(Nat) /\ Len(head) = 8
  <2>1. head \in Seq(Nat) /\ Len(head) = 4 + 4
    BY <1>2, <1>3, JoinedType
  <2>2. QED
    BY <2>1
<1>8. Stands(head, 0, name, 4)
  <2>1. Stands(name, 0, name, 4)
    BY <1>2, StandsAll
  <2>2. 0 \in Nat /\ 4 \in Nat
    OBVIOUS
  <2>3. QED
    BY <1>2, <1>3, <2>1, <2>2, StandsFirst, Zenon
<1>9. Stands(head, 4, four, 4)
  <2>1. 4 \in Nat
    OBVIOUS
  <2>2. QED
    BY <1>2, <1>3, <2>1, StandsLast, Zenon
<1> HIDE DEF head
<1>10. /\ chunk \in Seq(Nat) /\ Len(chunk) = Len(head) + Len(payload) + Len(pad)
       /\ Stands(chunk, 0, head, Len(head))
       /\ Stands(chunk, Len(head), payload, Len(payload))
       /\ Stands(chunk, Len(head) + Len(payload), pad, Len(pad))
  BY <1>1, <1>5, <1>6, <1>7, ThreeParts, Zenon
<1>11. /\ Len(chunk) = 8 + p + (p % 2)
       /\ Stands(chunk, 0, head, 8) /\ Stands(chunk, 8, payload, p)
       /\ Stands(chunk, 8 + p, pad, p % 2)
  BY <1>5, <1>7, <1>10, Zenon DEF p
<1>12. Stands(chunk, 0, name, 4) /\ Stands(chunk, 4, four, 4)
  <2>1. 0 \in Nat /\ 4 \in Nat /\ 0 + 0 = 0 /\ 0 + 4 = 4
    OBVIOUS
  <2>2. Stands(chunk, 0 + 0, name, 4) /\ Stands(chunk, 0 + 4, four, 4)
    BY <1>7, <1>8, <1>9, <1>10, <2>1, StandsDeep, Zenon
  <2>3. QED
    BY <2>1, <2>2, Zenon
<1>13. QED
  BY <1>10, <1>11, <1>12, Zenon
     DEF ChunkLaid, payload, p, name, four, pad, chunk

(* A slice that stands somewhere.                                          *)
LEMMA Sliced ==
  ASSUME NEW bytes \in Seq(Nat), NEW offset \in Nat, NEW count \in Nat,
         offset + count <= Len(bytes)
  PROVE  LET slice == Slice(bytes, offset, count)
         IN  /\ slice \in Seq(Nat) /\ Len(slice) = count
             /\ \A i \in 1 .. count : slice[i] = bytes[offset + i]
<1> DEFINE m == offset + 1
           n == offset + count
           slice == SubSeq(bytes, m, n)
<1>1. Slice(bytes, offset, count) = slice
  BY Zenon DEF Slice
<1>2. /\ m \in Nat /\ n \in Nat /\ 1 <= m /\ m <= n + 1 /\ n <= Len(bytes)
      /\ bytes \in Seq(Nat)
  BY LenProperties
<1>3. n + 1 - m = count /\ \A i \in Nat : m + i - 1 = offset + i
  OBVIOUS
<1> HIDE DEF m, n
<1>4. /\ slice \in Seq(Nat) /\ Len(slice) = n + 1 - m
      /\ \A i \in 1 .. n + 1 - m : slice[i] = bytes[m + i - 1]
  <2>1. /\ m \in Nat /\ n \in Nat /\ 1 <= m /\ m <= n + 1 /\ n <= Len(bytes)
        /\ bytes \in Seq(Nat)
    BY <1>2
  <2>2. QED
    BY <2>1, BytesPart, Zenon
<1> HIDE DEF slice
<1>5. /\ slice \in Seq(Nat) /\ Len(slice) = count
      /\ \A i \in 1 .. count : slice[i] = bytes[offset + i]
  BY <1>3, <1>4
<1>6. QED
  BY <1>1, <1>5, Zenon

LEMMA SliceStands ==
  ASSUME NEW bytes \in Seq(Nat), NEW offset \in Nat, NEW part \in Seq(Nat),
         NEW count \in Nat, Len(part) = count,
         Stands(bytes, offset, part, count)
  PROVE  Slice(bytes, offset, count) = part
<1> DEFINE slice == Slice(bytes, offset, count)
<1>1. /\ offset + count <= Len(bytes)
      /\ \A i \in 1 .. count : bytes[offset + i] = part[i]
  BY Zenon DEF Stands
<1>2. /\ slice \in Seq(Nat) /\ Len(slice) = count
      /\ \A i \in 1 .. count : slice[i] = bytes[offset + i]
  BY <1>1, Sliced, Zenon
<1> HIDE DEF slice
<1>3. \A i \in 1 .. count : slice[i] = part[i]
  BY <1>1, <1>2, Zenon
<1>4. slice = part
  BY <1>2, <1>3, SameBytes, Zenon
<1>5. QED
  BY <1>4 DEF slice

-----------------------------------------------------------------------------
(* Rounds of the scan.                                                     *)

Reached(offset, metadata) ==
  [offset |-> offset, orientation |-> metadata, broken |-> FALSE]

Stopped(offset, metadata) ==
  [offset |-> offset, orientation |-> metadata, broken |-> TRUE]

(* The scan is over: the container ends here, or a chunk was broken.       *)
LEMMA RoundOver ==
  ASSUME NEW bytes, NEW container, NEW offset, NEW metadata
  PROVE  /\ offset >= container =>
              ScanChunk(bytes, container, Reached(offset, metadata))
                = Reached(offset, metadata)
         /\ ScanChunk(bytes, container, Stopped(offset, metadata))
              = Stopped(offset, metadata)
<1> DEFINE scan == Reached(offset, metadata)
           stopped == Stopped(offset, metadata)
<1>1. scan.offset = offset /\ stopped.broken
  BY Zenon DEF Reached, Stopped
<1> HIDE DEF scan, stopped
<1>2. /\ offset >= container => ScanChunk(bytes, container, scan) = scan
      /\ ScanChunk(bytes, container, stopped) = stopped
  BY <1>1, Zenon DEF ScanChunk
<1>3. QED
  BY <1>2 DEF scan, stopped

LEMMA RoundBroken ==
  ASSUME NEW bytes, NEW container, NEW offset, NEW metadata,
         ~(offset >= container),
         \/ container - offset < 8
         \/ offset + 8 + Padded(Read32(bytes, offset + 4, "little")) > container
  PROVE  ScanChunk(bytes, container, Reached(offset, metadata))
           = Stopped(offset, metadata)
<1> DEFINE scan == Reached(offset, metadata)
<1>1. /\ scan.offset = offset /\ scan.orientation = metadata
      /\ ~scan.broken
  BY Zenon DEF Reached
<1> HIDE DEF scan
<1>2. ScanChunk(bytes, container, scan) = Stopped(offset, metadata)
  BY <1>1, Zenon DEF ScanChunk, ChunkHeaderBytes, Stopped
<1>3. QED
  BY <1>1, <1>2, Zenon DEF scan

(* A chunk of this size fits in the container up to next.                  *)
Fits(bytes, container, offset, size, next) ==
  /\ ~(offset >= container) /\ ~(container - offset < 8)
  /\ size = Read32(bytes, offset + 4, "little")
  /\ next = offset + 8 + Padded(size) /\ ~(next > container)

(* What is said once the chunk at offset has been looked at.               *)
Heard(bytes, offset, size, metadata) ==
  IF Slice(bytes, offset, 4) = ExifChunk
  THEN MergeOrientationMetadata(
         metadata, ChunkMetadata(Slice(bytes, offset + 8, size)))
  ELSE metadata

LEMMA RoundOn ==
  ASSUME NEW bytes, NEW container, NEW offset, NEW metadata, NEW size, NEW next,
         Fits(bytes, container, offset, size, next)
  PROVE  ScanChunk(bytes, container, Reached(offset, metadata))
           = Reached(next, Heard(bytes, offset, size, metadata))
<1> DEFINE scan == Reached(offset, metadata)
<1>1. /\ scan.offset = offset /\ scan.orientation = metadata
      /\ ~scan.broken
  BY Zenon DEF Reached
<1> HIDE DEF scan
<1>2. ScanChunk(bytes, container, scan)
        = [ offset |-> next, broken |-> FALSE,
            orientation |-> Heard(bytes, offset, size, metadata) ]
  BY <1>1, Zenon DEF ScanChunk, ChunkHeaderBytes, Fits, Heard
<1>3. QED
  BY <1>2 DEF Reached, scan

(* What four bytes can count, and the size bytes of a chunk.               *)
LongLengths == {n \in Nat : n <= 4294967295}

LEMMA SizeRead ==
  ASSUME NEW bytes \in Seq(Nat), NEW offset \in Nat, NEW n \in LongLengths,
         Stands(bytes, offset, Spell(n, 4, "little"), 4)
  PROVE  Read32(bytes, offset, "little") = n
<1>1. n \in Nat /\ n <= 4294967295
  BY SMT DEF LongLengths
<1>2. "little" \in ByteOrders
  BY DEF ByteOrders
<1>3. QED
  BY <1>1, <1>2, Reads32, SMT

LEMMA PaddedSizes ==
  ASSUME NEW p \in Nat
  PROVE  /\ Padded(p) = p + (p % 2)
         /\ p % 2 = 1 => Padded(p + 1) = p + (p % 2)
         /\ p % 2 = 0 => Padded(p + 1) = p + 2 /\ p + (p % 2) = p
         /\ p % 2 = 0 /\ p >= 1 => Padded(p - 1) = p + (p % 2)
         /\ p % 2 = 1 => Padded(p - 1) = p - 1 /\ p + (p % 2) = p + 1
         /\ p % 2 \in {0, 1}
         /\ (p + (p % 2)) % 2 = 0
<1>1. p % 2 = 1 => (p + 1) % 2 = 0 /\ (p - 1) % 2 = 0
  OBVIOUS
<1>2. p % 2 = 0 => (p + 1) % 2 = 1 /\ (p >= 1 => (p - 1) % 2 = 1)
  OBVIOUS
<1>3. p % 2 \in {0, 1}
  OBVIOUS
<1>4. /\ Padded(p) = p + (p % 2)
      /\ Padded(p + 1) = (p + 1) + ((p + 1) % 2)
      /\ Padded(p - 1) = (p - 1) + ((p - 1) % 2)
  BY Zenon DEF Padded
<1>5. p % 2 = 0 => p + (p % 2) = p
  OBVIOUS
<1>6. QED
  BY <1>1, <1>2, <1>3, <1>4, <1>5

(* A chunk that stands in the container with a size that its padding fits. *)
Readable(bytes, container, offset, chunk, c, last, size, next) ==
  /\ c \in Carriers /\ last \in {-1, 0, 1} /\ ChunkLaid(chunk, c, last)
  /\ bytes \in Seq(Nat) /\ container \in Nat /\ container <= Len(bytes)
  /\ offset \in Nat /\ Stands(bytes, offset, chunk, Len(chunk))
  /\ size \in LongLengths /\ size = Len(ChunkPayload(c)) + last
  /\ next = offset + Len(chunk) /\ next <= container
  /\ next = offset + 8 + Padded(size)

(* What such a chunk says.                                                 *)
Told(c, last) ==
  IF c.exif THEN TiffSays(Retailed(c.tiff, last)) ELSE NoMetadata

(* A size that is one off reaches one byte behind the payload.             *)
LEMMA BehindPayload ==
  ASSUME NEW p \in Nat, NEW last \in {-1, 0, 1}, NEW i \in 1 .. (p + last),
         ~(i <= p)
  PROVE  last = 1 /\ i = p + 1 /\ p + last = p + 1
OBVIOUS

(* It is read, and the scan goes on behind it.                             *)
LEMMA RoundRead ==
  ASSUME NEW c, NEW last, NEW chunk, NEW bytes, NEW offset, NEW container,
         NEW size, NEW next, NEW metadata,
         Readable(bytes, container, offset, chunk, c, last, size, next)
  PROVE  ScanChunk(bytes, container, Reached(offset, metadata))
           = Reached(next, MergeOrientationMetadata(metadata, Told(c, last)))
<1>0. /\ c \in Carriers /\ last \in {-1, 0, 1} /\ ChunkLaid(chunk, c, last)
      /\ bytes \in Seq(Nat) /\ container \in Nat /\ container <= Len(bytes)
      /\ offset \in Nat /\ Stands(bytes, offset, chunk, Len(chunk))
      /\ size \in LongLengths /\ size = Len(ChunkPayload(c)) + last
      /\ next = offset + Len(chunk) /\ next <= container
      /\ next = offset + 8 + Padded(size)
  BY Zenon DEF Readable
<1> USE <1>0
<1> DEFINE payload == ChunkPayload(c)
           p == Len(payload)
           q == p % 2
           name == ChunkName(c)
           four == Spell(size, 4, "little")
           pad == Zeros(q)
           b == Slice(bytes, offset + 8, size)
           n == Len(chunk)
           L == Len(bytes)
           padded == Padded(size)
<1>1. /\ payload \in Seq(Nat) /\ p \in Nat /\ name \in Seq(Nat) /\ Len(name) = 4
      /\ name = ExifChunk <=> c.exif
  BY PayloadBytes, ChunkNames, Zenon
<1>2. /\ chunk \in Seq(Nat) /\ n = 8 + p + q
      /\ Stands(chunk, 0, name, 4) /\ Stands(chunk, 4, four, 4)
      /\ Stands(chunk, 8, payload, p) /\ Stands(chunk, 8 + p, pad, q)
  BY Zenon DEF ChunkLaid
<1>3. q \in Nat /\ q \in {0, 1} /\ 8 + p \in Nat
  <2>1. \A x \in Nat : x % 2 \in Nat /\ x % 2 \in {0, 1} /\ 8 + x \in Nat
    OBVIOUS
  <2>2. QED
    BY <1>1, <2>1, Zenon
<1>4. \A i \in 1 .. q : pad[i] = 0
  BY <1>3, ZerosBytes
<1>5. /\ size \in Nat /\ L \in Nat /\ size = p + last /\ padded \in Nat
      /\ size <= padded
  <2>1. size \in Nat
    BY DEF LongLengths
  <2>2. padded = size + (size % 2)
    BY <2>1, PaddedSizes, Zenon
  <2>3. padded \in Nat /\ size <= padded
    <3>1. \A x \in Nat : x + (x % 2) \in Nat /\ x <= x + (x % 2)
      OBVIOUS
    <3>2. QED
      BY <2>1, <2>2, <3>1, Zenon
  <2>4. L \in Nat
    BY LenProperties
  <2>5. size = p + last
    BY Zenon
  <2>6. QED
    BY <2>1, <2>2, <2>3, <2>4, <2>5, Zenon
<1>6. Stands(bytes, offset, chunk, n) /\ n = Len(chunk) /\ 8 \in Nat
  BY Zenon
<1>7. next = offset + n /\ next = offset + 8 + padded /\ next <= container
      /\ container <= L
  BY Zenon
<1> HIDE DEF payload, p, q, name, four, pad, b, n, L, padded
<1>8. Stands(bytes, offset + 0, name, 4) /\ Stands(bytes, offset + 4, four, 4)
  <2>1. 0 \in Nat /\ 4 \in Nat
    OBVIOUS
  <2>2. QED
    BY <1>2, <1>6, <2>1, StandsDeep, Zenon
<1>9. Stands(bytes, offset + 8, payload, p)
  BY <1>1, <1>2, <1>6, StandsDeep, Zenon
<1>10. Stands(bytes, offset + (8 + p), pad, q)
  BY <1>2, <1>3, <1>6, StandsDeep, Zenon
<1>11. Slice(bytes, offset, 4) = name
  <2>1. offset + 0 = offset /\ 4 \in Nat
    OBVIOUS
  <2>2. QED
    BY <1>1, <1>8, <2>1, SliceStands, Zenon
<1>12. Read32(bytes, offset + 4, "little") = size
  <2>1. offset + 4 \in Nat
    OBVIOUS
  <2>2. QED
    BY <1>8, <2>1, SizeRead, Zenon DEF four
<1>13. /\ ~(offset >= container) /\ ~(container - offset < 8)
       /\ ~(next > container)
  BY <1>1, <1>2, <1>3, <1>7
<1>14. /\ b \in Seq(Nat) /\ Len(b) = size
       /\ \A i \in 1 .. size : b[i] = bytes[(offset + 8) + i]
  <2>1. offset + 8 \in Nat /\ (offset + 8) + size <= L
    BY <1>5, <1>7
  <2>2. QED
    BY <1>5, <2>1, Sliced, Zenon DEF b, L
<1>15. ASSUME NEW i \in 1 .. size
       PROVE  b[i] = IF i <= p THEN payload[i] ELSE 0
  <2>1. b[i] = bytes[(offset + 8) + i]
    BY <1>14, Zenon
  <2>2. CASE i <= p
    <3>1. i \in 1 .. p
      BY <1>1, <2>2
    <3>2. bytes[(offset + 8) + i] = payload[i]
      BY <1>9, <3>1, Zenon DEF Stands
    <3>3. QED
      BY <2>1, <2>2, <3>2, Zenon
  <2>3. CASE ~(i <= p)
    <3>1. last = 1 /\ i = p + 1 /\ size = p + 1
      <4>1. last \in {-1, 0, 1} /\ i \in 1 .. (p + last)
        BY <1>5, Zenon
      <4>2. QED
        BY <1>1, <1>5, <2>3, <4>1, BehindPayload, Zenon
    <3>2. q = 1
      <4>1. offset + (8 + p + q) = offset + 8 + padded /\ p + 1 <= padded
        BY <1>2, <1>5, <1>7, <3>1, Zenon
      <4>2. p + 1 <= p + q
        BY <1>1, <1>3, <1>5, <4>1
      <4>3. QED
        BY <1>1, <1>3, <4>2
    <3>3. 1 \in 1 .. q /\ (offset + (8 + p)) + 1 = (offset + 8) + i
      BY <1>1, <3>1, <3>2
    <3>4. bytes[(offset + (8 + p)) + 1] = pad[1]
      BY <1>10, <3>3, Zenon DEF Stands
    <3>5. QED
      BY <1>4, <2>1, <2>3, <3>3, <3>4, Zenon
  <2>4. QED
    BY <2>2, <2>3
<1>16. ChunkMetadata(b) = TiffSays(Retailed(c.tiff, last))
  <2>1. /\ Len(b) = Len(ChunkPayload(c)) + last
        /\ \A i \in 1 .. Len(b) :
             b[i] = IF i <= Len(ChunkPayload(c)) THEN ChunkPayload(c)[i] ELSE 0
    BY <1>5, <1>14, <1>15, Zenon DEF p, payload
  <2>2. QED
    BY <1>14, <2>1, ChunkRead, Zenon
<1>17. ScanChunk(bytes, container, Reached(offset, metadata))
         = Reached(next, Heard(bytes, offset, size, metadata))
  <2>1. Fits(bytes, container, offset, size, next)
    BY <1>7, <1>12, <1>13, Zenon DEF Fits, padded
  <2>2. QED
    BY <2>1, RoundOn, SMT
<1>18. Heard(bytes, offset, size, metadata)
         = MergeOrientationMetadata(metadata, Told(c, last))
  BY <1>1, <1>11, <1>16, MergeCases, Zenon DEF Heard, Told, b
<1>19. QED
  BY <1>17, <1>18, Zenon

-----------------------------------------------------------------------------
(* Containers.                                                             *)

(* Any chunks, in a container whose size is exact, up to four bytes short  *)
(* or eight too long; if it is exact, the last size may be one off.        *)
Shaped(f) ==
  /\ f.chunks \in Seq(Carriers)
  /\ f.riff \in -4 .. 8 /\ f.last \in {-1, 0, 1} /\ f.tail \in Int
  /\ f.last # 0 => f.riff = 0 /\ f.chunks # << >>
  /\ f.last = -1 => ChunkPayload(f.chunks[Len(f.chunks)]) # << >>

Framed(f) == Shaped(f) /\ Len(WebpBody(f)) + 12 \in LongLengths

Off(f, i) == IF i = Len(f.chunks) THEN f.last ELSE 0

FramedChunk(f, i) == ChunkBytes(f.chunks[i], Off(f, i))

(* The i-th chunk of the whole file ends at[i] from the first one's start. *)
FrameLaid(f, at) ==
  LET n == Len(f.chunks)
      whole == WebpWhole(f)
  IN  /\ whole \in Seq(Nat) /\ Len(whole) = 12 + at[n]
      /\ at \in [0 .. n -> Nat] /\ at[0] = 0 /\ at[n] % 2 = 0
      /\ at[n] + 12 \in LongLengths
      /\ Stands(whole, 4, Spell(at[n] + 4 + f.riff, 4, "little"), 4)
      /\ \A i \in 1 .. n : /\ ChunkLaid(FramedChunk(f, i), f.chunks[i], Off(f, i))
                           /\ at[i] = at[i - 1] + Len(FramedChunk(f, i))
      /\ \A i \in 1 .. n : Stands(whole, 12 + at[i - 1], FramedChunk(f, i),
                                  Len(FramedChunk(f, i)))
      /\ \A i, j \in 0 .. n : i <= j => at[i] + (j - i) <= at[j]

LEMMA ShapeTypes ==
  ASSUME NEW f, Shaped(f), NEW i \in 1 .. Len(f.chunks)
  PROVE  LET p == Len(ChunkPayload(f.chunks[i]))
         IN  /\ f.chunks[i] \in Carriers /\ Off(f, i) \in {-1, 0, 1}
             /\ p \in Nat /\ p + Off(f, i) \in Nat
             /\ p = 0 => Off(f, i) # -1
<1> DEFINE n == Len(f.chunks)
           c == f.chunks[i]
           payload == ChunkPayload(c)
           p == Len(payload)
           d == Off(f, i)
<1>1. /\ f.chunks \in Seq(Carriers) /\ f.last \in {-1, 0, 1}
      /\ f.last = -1 => ChunkPayload(f.chunks[n]) # << >>
  BY Zenon DEF Shaped
<1>2. c \in Carriers
  BY <1>1
<1>3. payload \in Seq(Nat) /\ p \in Nat
  BY <1>2, PayloadBytes, Zenon
<1>4. d \in {-1, 0, 1} /\ (d = -1 => payload # << >>)
  BY <1>1, SMT DEF Off
<1>5. p = 0 => payload = << >>
  BY <1>3
<1> HIDE DEF p, d, payload
<1>6. p = 0 => d # -1
  BY <1>4, <1>5
<1>7. p + d \in Nat
  BY <1>3, <1>4, <1>6
<1>8. QED
  BY <1>2, <1>3, <1>4, <1>6, <1>7, Zenon DEF p, d, payload

LEMMA FrameTypes ==
  ASSUME NEW f, Framed(f), NEW i \in 1 .. Len(f.chunks)
  PROVE  LET p == Len(ChunkPayload(f.chunks[i]))
         IN  /\ f.chunks[i] \in Carriers /\ Off(f, i) \in {-1, 0, 1}
             /\ p \in Nat /\ p + Off(f, i) \in Nat
             /\ p = 0 => Off(f, i) # -1
BY ShapeTypes, Zenon DEF Framed

(* The chunks lie one after the other: the i-th ends at[i] from the first  *)
(* one's start.                                                            *)
BodyAt(f, at) ==
  LET n == Len(f.chunks)
      body == WebpBody(f)
  IN  /\ body \in Seq(Nat) /\ Len(body) = at[n]
      /\ at \in [0 .. n -> Nat] /\ at[0] = 0
      /\ \A i \in 1 .. n :
           /\ ChunkLaid(FramedChunk(f, i), f.chunks[i], Off(f, i))
           /\ FramedChunk(f, i) \in Seq(Nat)
           /\ Len(FramedChunk(f, i)) \in Nat
           /\ Len(FramedChunk(f, i)) % 2 = 0
           /\ at[i] = at[i - 1] + Len(FramedChunk(f, i))
      /\ \A i \in 1 .. n : Stands(body, at[i - 1], FramedChunk(f, i),
                                  Len(FramedChunk(f, i)))
      /\ \A i, j \in 0 .. n : i <= j => at[i] + (j - i) <= at[j]

LEMMA BodyLaid ==
  ASSUME NEW f, Shaped(f)
  PROVE  \E at : BodyAt(f, at)
<1> DEFINE n == Len(f.chunks)
           body == WebpBody(f)
           seqs == [i \in 1 .. n |-> FramedChunk(f, i)]
<1>1. n \in Nat
  BY LenProperties DEF Shaped
<1>2. ASSUME NEW i \in 1 .. n
      PROVE  /\ ChunkLaid(FramedChunk(f, i), f.chunks[i], Off(f, i))
             /\ FramedChunk(f, i) \in Seq(Nat)
             /\ Len(FramedChunk(f, i)) \in Nat /\ Len(FramedChunk(f, i)) >= 1
             /\ Len(FramedChunk(f, i)) % 2 = 0
  <2> DEFINE c == f.chunks[i]
             p == Len(ChunkPayload(c))
             q == p % 2
             chunk == FramedChunk(f, i)
  <2>1. c \in Carriers /\ p \in Nat /\ p + Off(f, i) \in Nat
    BY ShapeTypes, Zenon
  <2>2. ChunkLaid(chunk, c, Off(f, i))
    BY <2>1, ChunkStands, Zenon DEF FramedChunk
  <2>3. chunk \in Seq(Nat) /\ Len(chunk) = 8 + p + q
    BY <2>2, Zenon DEF ChunkLaid
  <2>4. \A x \in Nat : 8 + x + (x % 2) >= 1 /\ (8 + x + (x % 2)) % 2 = 0
                       /\ 8 + x + (x % 2) \in Nat
    OBVIOUS
  <2>5. QED
    BY <2>1, <2>2, <2>3, <2>4, Zenon
<1>3. /\ seqs \in Seq(Seq(Nat)) /\ Len(seqs) = n
      /\ \A i \in 1 .. n : seqs[i] = FramedChunk(f, i) /\ Len(seqs[i]) >= 1
  <2>1. \A i \in 1 .. n : seqs[i] = FramedChunk(f, i)
    OBVIOUS
  <2>2. seqs \in [1 .. n -> Seq(Nat)]
    BY <1>2
  <2> HIDE DEF seqs
  <2>3. seqs \in Seq(Seq(Nat)) /\ Len(seqs) = n
    BY <1>1, <2>2
  <2>4. QED
    BY <1>2, <2>1, <2>3, Zenon
<1>4. body = FlattenSeq(seqs)
  BY DEF WebpBody, FramedChunk, Off
<1> HIDE DEF seqs
<1>5. PICK at : Laid(seqs, n, at, body)
  BY <1>3, <1>4, FlattenLaid, Zenon
<1>6. /\ body \in Seq(Nat) /\ at \in [0 .. n -> Nat]
      /\ at[0] = 0 /\ Len(body) = at[n]
      /\ \A i \in 1 .. n : at[i] = at[i - 1] + Len(FramedChunk(f, i))
      /\ \A i \in 1 .. n : Stands(body, at[i - 1], FramedChunk(f, i),
                                  Len(FramedChunk(f, i)))
      /\ \A i, j \in 0 .. n : i <= j => at[i] + (j - i) <= at[j]
  BY <1>3, <1>5, Zenon DEF Laid
<1>7. BodyAt(f, at)
  BY <1>2, <1>6, Zenon DEF BodyAt
<1>8. QED
  BY <1>7

LEMMA FrameExists ==
  ASSUME NEW f, Framed(f)
  PROVE  \E at : FrameLaid(f, at)
<1> DEFINE n == Len(f.chunks)
           body == WebpBody(f)
           four == Spell(Len(body) + 4 + f.riff, 4, "little")
           head == RiffSignature \o four \o WebpSignature
           whole == WebpWhole(f)
<1>1. n \in Nat /\ f.riff \in -4 .. 8 /\ Len(body) + 12 \in LongLengths
  BY LenProperties DEF Framed, Shaped
<1>2. PICK at : BodyAt(f, at)
  BY BodyLaid, Zenon DEF Framed
<1>3. \A i \in 1 .. n :
        /\ ChunkLaid(FramedChunk(f, i), f.chunks[i], Off(f, i))
        /\ FramedChunk(f, i) \in Seq(Nat)
        /\ Len(FramedChunk(f, i)) \in Nat
        /\ Len(FramedChunk(f, i)) % 2 = 0
  BY <1>2, Zenon DEF BodyAt
<1>4. /\ body \in Seq(Nat) /\ at \in [0 .. n -> Nat]
      /\ at[0] = 0 /\ Len(body) = at[n]
      /\ \A i \in 1 .. n : at[i] = at[i - 1] + Len(FramedChunk(f, i))
      /\ \A i \in 1 .. n : Stands(body, at[i - 1], FramedChunk(f, i),
                                  Len(FramedChunk(f, i)))
      /\ \A i, j \in 0 .. n : i <= j => at[i] + (j - i) <= at[j]
  BY <1>2, Zenon DEF BodyAt
<1>5. at[n] \in Nat
  BY <1>1, <1>4
<1>6. at[n] % 2 = 0
  <2> DEFINE Uneven == {i \in 0 .. n : at[i] % 2 # 0}
  <2>1. SUFFICES ASSUME Uneven # {} PROVE FALSE
    <3>1. n \in 0 .. n
      BY <1>1
    <3>2. QED
      BY <2>1, <3>1
  <2>2. PICK i \in Uneven : \A j \in Uneven : i <= j
    <3>1. Uneven \subseteq Nat
      OBVIOUS
    <3> HIDE DEF Uneven
    <3>2. QED
      BY <2>1, <3>1, LeastNatural
  <2>3. i \in 0 .. n /\ at[i] % 2 # 0 /\ i # 0
    BY <1>4
  <2>4. i - 1 \in 0 .. n /\ ~(i <= i - 1) /\ i \in 1 .. n
    BY <2>3
  <2>5. at[i - 1] % 2 = 0 /\ at[i - 1] \in Nat
    BY <1>4, <2>2, <2>4
  <2> DEFINE l == Len(FramedChunk(f, i))
             a == at[i - 1]
  <2>6. l \in Nat /\ l % 2 = 0 /\ at[i] = a + l
    BY <1>3, <1>4, <2>4, Zenon
  <2> HIDE DEF l, a
  <2>7. (a + l) % 2 = 0
    BY <2>5, <2>6 DEF a
  <2>8. QED
    BY <2>3, <2>6, <2>7, Zenon
<1>7. four \in Seq(Nat) /\ Len(four) = 4
  <2>1. Len(body) + 4 + f.riff \in Nat
    <3>1. \A x \in Nat, r \in -4 .. 8 : x + 4 + r \in Nat
      OBVIOUS
    <3>2. QED
      BY <1>1, <1>4, <1>5, <3>1, Zenon
  <2>2. QED
    BY <2>1, SpellBytes
<1>8. /\ head \in Seq(Nat) /\ Len(head) = 12 /\ Stands(head, 4, four, 4)
  <2>1. /\ RiffSignature \in Seq(Nat) /\ Len(RiffSignature) = 4
        /\ WebpSignature \in Seq(Nat) /\ Len(WebpSignature) = 4
    BY SignatureTypes
  <2> HIDE DEF four
  <2>2. /\ head \in Seq(Nat)
        /\ Len(head) = Len(RiffSignature) + Len(four) + Len(WebpSignature)
        /\ Stands(head, Len(RiffSignature), four, Len(four))
    BY <1>7, <2>1, ThreeParts, Zenon
  <2>3. 4 + 4 + 4 = 12
    OBVIOUS
  <2>4. QED
    BY <1>7, <2>1, <2>2, <2>3, Zenon
<1>9. whole = head \o body
  BY Zenon DEF WebpWhole
<1> HIDE DEF head, four, whole, body
<1>10. 12 \in Nat /\ 4 \in Nat
  OBVIOUS
<1>11. whole \in Seq(Nat) /\ Len(whole) = 12 + at[n]
  <2>1. head \o body \in Seq(Nat) /\ Len(head \o body) = Len(head) + Len(body)
    BY <1>4, <1>8, Followed, Zenon
  <2>2. QED
    BY <1>4, <1>8, <1>9, <2>1, Zenon
<1>12. Stands(whole, 4, four, 4)
  BY <1>4, <1>8, <1>9, <1>10, StandsFirst, Zenon
<1>13. Stands(whole, 12, body, Len(body))
  BY <1>4, <1>5, <1>8, <1>9, <1>10, StandsLast, Zenon
<1>14. ASSUME NEW i \in 1 .. n
       PROVE  Stands(whole, 12 + at[i - 1], FramedChunk(f, i),
                     Len(FramedChunk(f, i)))
  <2>1. at[i - 1] \in Nat
    <3>1. i - 1 \in 0 .. n
      BY <1>1
    <3>2. QED
      BY <1>4, <3>1
  <2>2. QED
    BY <1>3, <1>4, <1>10, <1>11, <1>13, <2>1, StandsDeep, Zenon
<1>15. four = Spell(at[n] + 4 + f.riff, 4, "little")
       /\ at[n] + 12 \in LongLengths
  BY <1>1, <1>4, Zenon DEF four, body
<1>16. FrameLaid(f, at)
  BY <1>3, <1>4, <1>6, <1>11, <1>12, <1>14, <1>15, Zenon DEF FrameLaid, whole
<1>17. QED
  BY <1>16

-----------------------------------------------------------------------------
(* The scan of a container that is there.                                  *)

Records(f) ==
  [i \in 1 .. Len(f.chunks) |-> Told(f.chunks[i], Off(f, i))]

Contained(f, at, container) ==
  /\ Framed(f) /\ FrameLaid(f, at)
  /\ WebpBytes(f) \in Seq(Nat) /\ container \in Nat
  /\ container = 12 + at[Len(f.chunks)] + f.riff
  /\ Len(WebpBytes(f)) = 12 + at[Len(f.chunks)] + f.tail
  /\ container <= Len(WebpBytes(f))

LEMMA FewerLong ==
  ASSUME NEW m \in LongLengths, NEW n \in Nat, n <= m
  PROVE  n \in LongLengths
<1>1. m \in Nat /\ m <= 4294967295
  BY SMT DEF LongLengths
<1>2. n <= 4294967295
  BY <1>1, SMT
<1>3. QED
  BY <1>2, SMT DEF LongLengths

(* Where a chunk stands, and that its size can be read when its header is  *)
(* in the file.                                                            *)
LEMMA FramePlace ==
  ASSUME NEW f, NEW at, NEW container, Contained(f, at, container),
         NEW k \in 1 .. Len(f.chunks)
  PROVE  LET n == Len(f.chunks)
             p == Len(ChunkPayload(f.chunks[k]))
             chunk == FramedChunk(f, k)
         IN  /\ f.chunks[k] \in Carriers /\ Off(f, k) \in {-1, 0, 1}
             /\ p \in Nat /\ p + Off(f, k) \in LongLengths
             /\ p = 0 => Off(f, k) # -1
             /\ ChunkLaid(chunk, f.chunks[k], Off(f, k))
             /\ Len(chunk) = 8 + p + (p % 2) /\ chunk \in Seq(Nat)
             /\ n \in Nat /\ k - 1 \in 0 .. n /\ k \in 0 .. n
             /\ at[k - 1] \in Nat /\ at[k] \in Nat /\ at[n] \in Nat
             /\ at[k] = at[k - 1] + Len(chunk) /\ at[k] <= at[n]
             /\ k < n => at[k] < at[n]
             /\ Stands(WebpWhole(f), 12 + at[k - 1], chunk, Len(chunk))
<1> DEFINE n == Len(f.chunks)
           c == f.chunks[k]
           p == Len(ChunkPayload(c))
           q == p % 2
           d == Off(f, k)
           chunk == FramedChunk(f, k)
           b == at[n]
<1>1. /\ f.chunks \in Seq(Carriers) /\ Framed(f) /\ FrameLaid(f, at)
  BY Zenon DEF Contained, Framed, Shaped
<1>2. n \in Nat
  BY <1>1, LenProperties
<1>3. c \in Carriers /\ d \in {-1, 0, 1} /\ p \in Nat /\ p + d \in Nat
      /\ (p = 0 => d # -1)
  BY <1>1, FrameTypes, Zenon
<1>4. /\ at \in [0 .. n -> Nat] /\ b + 12 \in LongLengths
      /\ ChunkLaid(chunk, c, d) /\ at[k] = at[k - 1] + Len(chunk)
      /\ Stands(WebpWhole(f), 12 + at[k - 1], chunk, Len(chunk))
      /\ \A i, j \in 0 .. n : i <= j => at[i] + (j - i) <= at[j]
  BY <1>1, Zenon DEF FrameLaid
<1>5. Len(chunk) = 8 + p + q /\ chunk \in Seq(Nat)
  BY <1>4, Zenon DEF ChunkLaid
<1>6. k - 1 \in 0 .. n /\ k \in 0 .. n /\ n \in 0 .. n /\ k <= n
  BY <1>2
<1>7. at[k - 1] \in Nat /\ at[k] \in Nat /\ b \in Nat
  BY <1>4, <1>6
<1>8. at[k] + (n - k) <= b
  BY <1>4, <1>6
<1>9. at[k] <= b /\ (k < n => at[k] < b)
  <2> DEFINE a == at[k]
  <2>1. a \in Nat /\ a + (n - k) <= b /\ b \in Nat
    BY <1>7, <1>8
  <2> HIDE DEF a, b, n
  <2>2. a <= b /\ (k < n => a < b)
    BY <1>2, <1>6, <2>1
  <2>3. QED
    BY <2>2 DEF a
<1>10. p + d \in LongLengths
  <2> DEFINE a == at[k - 1]
             e == at[k]
  <2>1. /\ a \in Nat /\ e = a + (8 + p + q) /\ e <= b /\ b \in Nat /\ e \in Nat
    BY <1>4, <1>5, <1>7, <1>9, Zenon
  <2>2. \A x \in Nat : x % 2 \in Nat
    OBVIOUS
  <2>3. q \in Nat
    BY <1>3, <2>2, Zenon
  <2> HIDE DEF a, e, b, q, p, d, n
  <2>4. p + d <= b + 12
    BY <1>3, <2>1, <2>3
  <2>5. b + 12 \in LongLengths
    BY <1>4, Zenon DEF b, n
  <2>6. QED
    BY <1>3, <2>4, <2>5, FewerLong, Zenon
<1>11. QED
  BY <1>2, <1>3, <1>4, <1>5, <1>6, <1>7, <1>9, <1>10, Zenon

LEMMA FrameHeader ==
  ASSUME NEW f, NEW at, NEW container, Contained(f, at, container),
         NEW k \in 1 .. Len(f.chunks),
         12 + at[k - 1] + 8 <= Len(WebpBytes(f))
  PROVE  Read32(WebpBytes(f), 12 + at[k - 1] + 4, "little")
           = Len(ChunkPayload(f.chunks[k])) + Off(f, k)
<1> DEFINE n == Len(f.chunks)
           size == Len(ChunkPayload(f.chunks[k])) + Off(f, k)
           chunk == FramedChunk(f, k)
           whole == WebpWhole(f)
           bytes == WebpBytes(f)
           four == Spell(size, 4, "little")
           a == at[k - 1]
           b == at[n]
           tail == f.tail
<1>1. /\ size \in LongLengths /\ a \in Nat /\ b \in Nat /\ chunk \in Seq(Nat)
      /\ ChunkLaid(chunk, f.chunks[k], Off(f, k))
      /\ Stands(whole, 12 + a, chunk, Len(chunk))
  BY FramePlace, Zenon
<1>2. /\ whole \in Seq(Nat) /\ Len(whole) = 12 + b /\ tail \in Int
      /\ bytes \in Seq(Nat) /\ Len(bytes) = 12 + b + tail
      /\ bytes = Resized(whole, tail)
  BY Zenon DEF Contained, Framed, Shaped, FrameLaid, WebpBytes
<1>3. Stands(chunk, 4, four, 4)
  BY <1>1, Zenon DEF ChunkLaid
<1>4. (12 + a) + 8 <= (12 + b) + tail
  BY <1>2, Zenon
<1> HIDE DEF size, chunk, whole, bytes, four, a, b, tail, n
<1>5. 12 + a \in Nat /\ 4 \in Nat /\ (12 + a) + 4 \in Nat
  BY <1>1
<1>6. Stands(whole, (12 + a) + 4, four, 4)
  BY <1>1, <1>2, <1>3, <1>5, StandsDeep, Zenon
<1>7. ((12 + a) + 4) + 4 <= Len(whole) + tail
  <2>1. ((12 + a) + 4) + 4 <= (12 + b) + tail
    BY <1>1, <1>2, <1>4
  <2>2. QED
    BY <1>2, <2>1, Zenon
<1>8. Stands(bytes, (12 + a) + 4, four, 4)
  BY <1>2, <1>5, <1>6, <1>7, StandsResized, Zenon
<1>9. Read32(bytes, (12 + a) + 4, "little") = size
  BY <1>1, <1>2, <1>5, <1>8, SizeRead, Zenon DEF four
<1>10. QED
  BY <1>9, Zenon DEF bytes, a, size

(* The k-th chunk is inside the container and its padding fits: the scan   *)
(* goes on behind it with what the first k chunks say.                     *)
After(f, at, k) == Reached(12 + at[k], Verdict(Records(f), k))

LEMMA RecordTypes ==
  ASSUME NEW f, NEW k \in 1 .. Len(f.chunks)
  PROVE  /\ Records(f)[k] = Told(f.chunks[k], Off(f, k))
         /\ Records(f)[k] \in ParsedMetadata
<1> DEFINE t == Retailed(f.chunks[k].tiff, Off(f, k))
<1>1. Records(f)[k] = Told(f.chunks[k], Off(f, k))
  BY DEF Records
<1> HIDE DEF t
<1>2. TiffSays(t) \in ParsedMetadata
  BY SaysParsed, Zenon
<1>3. NoMetadata \in ParsedMetadata
  BY DEF ParsedMetadata
<1>4. Told(f.chunks[k], Off(f, k)) \in ParsedMetadata
  BY <1>2, <1>3, Zenon DEF Told, t
<1>5. QED
  BY <1>1, <1>4, Zenon

LEMMA FrameRound ==
  ASSUME NEW f, NEW at, NEW container, Contained(f, at, container),
         NEW k \in 1 .. Len(f.chunks), 12 + at[k] <= container,
         LET p == Len(ChunkPayload(f.chunks[k]))
         IN  Padded(p + Off(f, k)) = p + (p % 2)
  PROVE  After(f, at, k)
           = ScanChunk(WebpBytes(f), container, After(f, at, k - 1))
<1> DEFINE n == Len(f.chunks)
           c == f.chunks[k]
           d == Off(f, k)
           p == Len(ChunkPayload(c))
           q == p % 2
           size == p + d
           chunk == FramedChunk(f, k)
           whole == WebpWhole(f)
           bytes == WebpBytes(f)
           offset == 12 + at[k - 1]
           next == 12 + at[k]
           b == at[n]
           tail == f.tail
           r == Records(f)
           l == Len(chunk)
<1>1. /\ c \in Carriers /\ d \in {-1, 0, 1} /\ p \in Nat
      /\ size \in LongLengths /\ ChunkLaid(chunk, c, d)
      /\ l = 8 + p + q /\ chunk \in Seq(Nat)
      /\ at[k - 1] \in Nat /\ at[k] \in Nat /\ b \in Nat
      /\ at[k] = at[k - 1] + l
      /\ Stands(whole, offset, chunk, l)
  BY FramePlace, Zenon
<1>2. /\ whole \in Seq(Nat) /\ Len(whole) = 12 + b /\ tail \in Int
      /\ bytes \in Seq(Nat) /\ Len(bytes) = 12 + b + tail
      /\ bytes = Resized(whole, tail)
      /\ container \in Nat /\ container <= Len(bytes) /\ next <= container
  BY Zenon DEF Contained, Framed, Shaped, FrameLaid, WebpBytes
<1>3. Padded(size) = p + q
  BY Zenon
<1>4. l \in Nat /\ offset \in Nat /\ next = offset + l
      /\ next = offset + 8 + (p + q)
  <2> DEFINE a == at[k - 1]
             e == at[k]
  <2>1. /\ a \in Nat /\ e = a + l /\ l = 8 + p + q /\ p \in Nat
        /\ offset = 12 + a /\ next = 12 + e
    BY <1>1, Zenon
  <2>2. q \in Nat
    <3>1. \A x \in Nat : x % 2 \in Nat
      OBVIOUS
    <3>2. QED
      BY <1>1, <3>1, Zenon
  <2> HIDE DEF a, e, l, p, q, offset, next
  <2>3. QED
    BY <2>1, <2>2
<1> HIDE DEF c, d, p, size, chunk, whole, bytes, offset, next, b, tail, r, l, n, q
<1>5. offset + l <= Len(whole) + tail
  BY <1>1, <1>2, <1>4
<1>6. Stands(bytes, offset, chunk, l)
  BY <1>1, <1>2, <1>4, <1>5, StandsResized, Zenon
<1>7. next = offset + 8 + Padded(size) /\ next = offset + Len(chunk)
      /\ Stands(bytes, offset, chunk, Len(chunk))
  BY <1>3, <1>4, <1>6, Zenon DEF l
<1>8. size = Len(ChunkPayload(c)) + d
  BY Zenon DEF size, p
<1>9. \A metadata :
        ScanChunk(bytes, container, Reached(offset, metadata))
          = Reached(next, MergeOrientationMetadata(metadata, Told(c, d)))
  <2>1. Readable(bytes, container, offset, chunk, c, d, size, next)
    BY <1>1, <1>2, <1>4, <1>7, <1>8, Zenon DEF Readable
  <2>2. QED
    BY <2>1, RoundRead
<1>10. r[k] = Told(c, d)
  BY RecordTypes, Zenon DEF r, c, d
<1>11. Verdict(r, k) = MergeOrientationMetadata(Verdict(r, k - 1), r[k])
  <2>1. k - 1 \in Nat /\ (k - 1) + 1 = k /\ \A i \in 1 .. (k - 1) + 1 : i \in 1 .. n
    BY DEF n
  <2>2. \A i \in 1 .. (k - 1) + 1 : r[i] \in ParsedMetadata
    BY <2>1, RecordTypes, Zenon DEF r, n
  <2>3. Verdict(r, (k - 1) + 1)
          = MergeOrientationMetadata(Verdict(r, k - 1), r[(k - 1) + 1])
    BY <2>1, <2>2, VerdictMerged, Zenon
  <2>4. QED
    BY <2>1, <2>3, Zenon
<1>12. ScanChunk(bytes, container, Reached(offset, Verdict(r, k - 1)))
         = Reached(next, Verdict(r, k))
  BY <1>9, <1>10, <1>11, Zenon
<1>13. QED
  BY <1>12, Zenon DEF After, offset, next, r, bytes

(* After the rounds for k chunks, two more lead where the scan stays.      *)
LEMMA ScanReaches ==
  ASSUME NEW f, NEW at, at[0] = 0, NEW bytes, NEW container \in Nat,
         NEW k \in Nat, k + 1 <= container \div ChunkHeaderBytes,
         \A i \in 1 .. k :
           After(f, at, i) = ScanChunk(bytes, container, After(f, at, i - 1)),
         NEW g, g = ScanChunk(bytes, container, After(f, at, k)),
         NEW h, h = ScanChunk(bytes, container, g),
         h = ScanChunk(bytes, container, h)
  PROVE  ScanChunks(bytes, container) = h
<1> DEFINE s == [i \in 0 .. k + 1 |-> IF i = k + 1 THEN g ELSE After(f, at, i)]
           Round(x) == ScanChunk(bytes, container, x)
<1>1. s[0] = ScanStart
  <2>1. 0 \in 0 .. k + 1 /\ 0 # k + 1
    OBVIOUS
  <2>2. s[0] = After(f, at, 0)
    BY <2>1
  <2>3. Verdict(Records(f), 0) = NoMetadata
    <3>1. {i \in 1 .. 0 : Records(f)[i] # NoMetadata} = {}
      OBVIOUS
    <3>2. QED
      BY <3>1, Zenon DEF Verdict
  <2>4. 12 + at[0] = 12
    OBVIOUS
  <2>5. QED
    BY <2>2, <2>3, <2>4, Zenon DEF After, Reached, ScanStart, RiffHeaderBytes
<1>2. \A i \in 1 .. k : After(f, at, i) = Round(After(f, at, i - 1))
  OBVIOUS
<1>3. g = Round(After(f, at, k)) /\ h = Round(g) /\ h = Round(h)
  OBVIOUS
<1> HIDE DEF Round
<1>4. ASSUME NEW i \in 1 .. k + 1 PROVE s[i] = Round(s[i - 1])
  <2>1. i - 1 \in 0 .. k + 1 /\ i - 1 # k + 1 /\ i \in 0 .. k + 1
    OBVIOUS
  <2>2. s[i - 1] = After(f, at, i - 1)
    BY <2>1
  <2>3. CASE i = k + 1
    <3>1. s[i] = g /\ i - 1 = k
      BY <2>1, <2>3
    <3>2. QED
      BY <1>3, <2>2, <3>1
  <2>4. CASE i # k + 1
    <3>1. i \in 1 .. k /\ s[i] = After(f, at, i)
      BY <2>1, <2>4
    <3>2. QED
      BY <1>2, <2>2, <3>1
  <2>5. QED
    BY <2>3, <2>4
<1>5. s[k + 1] = g /\ k + 1 \in Nat
  OBVIOUS
<1> HIDE DEF s
<1>6. /\ \A i \in 1 .. k + 1 : s[i] = ScanChunk(bytes, container, s[i - 1])
      /\ h = ScanChunk(bytes, container, s[k + 1])
  BY <1>3, <1>4, <1>5 DEF Round
<1>7. QED
  BY <1>1, <1>5, <1>6, ScanRounds

(* The padding of every chunk but the last fits, and of the last one if    *)
(* its size takes the padding byte in, or leaves its last byte to it.      *)
LastFits(f) ==
  LET n == Len(f.chunks)
      p == Len(ChunkPayload(f.chunks[n]))
  IN  n # 0 => Padded(p + f.last) = p + (p % 2)

(* No chunk is shorter than its header.                                    *)
LEMMA HeadersFit ==
  ASSUME NEW f, NEW at, NEW container, Contained(f, at, container),
         NEW k \in 0 .. Len(f.chunks)
  PROVE  8 * k <= at[k]
<1> DEFINE n == Len(f.chunks)
           Short == {i \in 0 .. n : ~(8 * i <= at[i])}
<1>1. /\ at[0] = 0 /\ k \in 0 .. n
  BY Zenon DEF Contained, FrameLaid
<1>2. SUFFICES ASSUME Short # {} PROVE FALSE
  BY <1>1
<1>3. PICK i \in Short : \A j \in Short : i <= j
  <2>1. Short \subseteq Nat
    OBVIOUS
  <2> HIDE DEF Short
  <2>2. QED
    BY <1>2, <2>1, LeastNatural
<1>4. i \in 0 .. n /\ i # 0
  BY <1>1
<1>5. /\ i \in 1 .. n /\ i - 1 \in 0 .. n /\ ~(i <= i - 1)
  BY <1>4
<1>6. 8 * (i - 1) <= at[i - 1]
  BY <1>3, <1>5
<1> DEFINE p == Len(ChunkPayload(f.chunks[i]))
           a == at[i - 1]
<1>7. p \in Nat /\ a \in Nat /\ at[i] = a + (8 + p + (p % 2))
  BY <1>5, FramePlace, Zenon
<1> HIDE DEF p, a
<1>8. 8 * i <= a + (8 + p + (p % 2))
  <2>1. p % 2 \in Nat /\ 8 * (i - 1) <= a
    BY <1>6, <1>7 DEF a
  <2>2. QED
    BY <1>5, <1>7, <2>1
<1>9. QED
  BY <1>3, <1>7, <1>8

(* The rounds for the first k chunks, and the two that end the scan.       *)
LEMMA ScanEnds ==
  ASSUME NEW f, NEW at, NEW container, Contained(f, at, container),
         NEW k \in 0 .. Len(f.chunks), 12 + at[k] <= container,
         k = Len(f.chunks) => LastFits(f),
         NEW g, g = ScanChunk(WebpBytes(f), container, After(f, at, k)),
         NEW h, h = ScanChunk(WebpBytes(f), container, g),
         h = ScanChunk(WebpBytes(f), container, h)
  PROVE  ScanChunks(WebpBytes(f), container) = h
<1> DEFINE n == Len(f.chunks)
           bytes == WebpBytes(f)
<1>1. /\ container \in Nat /\ Framed(f)
      /\ at \in [0 .. n -> Nat] /\ at[0] = 0
      /\ \A i, j \in 0 .. n : i <= j => at[i] + (j - i) <= at[j]
  BY Zenon DEF Contained, FrameLaid
<1>2. n \in Nat
  BY <1>1, LenProperties DEF Framed, Shaped
<1>3. k \in Nat /\ k <= n /\ 0 \in 0 .. n /\ 0 <= k
  BY <1>2
<1>4. at[k] \in Nat
  BY <1>1
<1>5. k + 1 <= container \div ChunkHeaderBytes
  <2> DEFINE a == at[k]
  <2>1. a \in Nat /\ 8 * k <= a /\ 12 + a <= container
    BY <1>4, HeadersFit, Zenon
  <2> HIDE DEF a, n
  <2>2. QED
    BY <1>1, <1>3, <2>1 DEF ChunkHeaderBytes
<1>6. ASSUME NEW i \in 1 .. k
      PROVE  After(f, at, i) = ScanChunk(bytes, container, After(f, at, i - 1))
  <2> DEFINE p == Len(ChunkPayload(f.chunks[i]))
  <2>1. i \in 1 .. n /\ i \in 0 .. n /\ i <= k /\ (i = n => k = n /\ n # 0)
    BY <1>2, <1>3
  <2>2. 12 + at[i] <= container
    <3>1. at[i] + (k - i) <= at[k] /\ at[i] \in Nat
      BY <1>1, <2>1
    <3> DEFINE a == at[k]
               e == at[i]
    <3>2. a \in Nat /\ e \in Nat /\ e + (k - i) <= a /\ 12 + a <= container
      BY <1>4, <3>1, Zenon
    <3> HIDE DEF a, e, n
    <3>3. 12 + e <= container
      BY <1>1, <1>3, <2>1, <3>2
    <3>4. QED
      BY <3>3, Zenon DEF e
  <2>3. p \in Nat
    BY <1>1, <2>1, FrameTypes, Zenon
  <2>4. Padded(p + Off(f, i)) = p + (p % 2)
    <3>1. CASE i = n
      <4>1. Off(f, i) = f.last
        BY <3>1, Zenon DEF Off
      <4>2. LastFits(f) /\ n # 0
        BY <2>1, <3>1
      <4>3. QED
        BY <3>1, <4>1, <4>2, Zenon DEF LastFits
    <3>2. CASE i # n
      <4> HIDE DEF p
      <4>1. Off(f, i) = 0 /\ p + 0 = p
        BY <2>3, <3>2 DEF Off
      <4>2. QED
        BY <2>3, <4>1, PaddedSizes, Zenon
    <3>3. QED
      BY <3>1, <3>2
  <2>5. QED
    BY <2>1, <2>2, <2>4, FrameRound
<1>7. QED
  BY <1>1, <1>3, <1>5, <1>6, ScanReaches, Zenon

LEMMA EndPlaces ==
  ASSUME NEW f, NEW at, NEW container, Contained(f, at, container)
  PROVE  LET n == Len(f.chunks)
         IN  /\ n \in Nat /\ n \in 0 .. n /\ at[n] \in Nat
             /\ container \in Nat /\ f.riff \in -4 .. 8
             /\ container = 12 + at[n] + f.riff
<1> DEFINE n == Len(f.chunks)
<1>1. /\ container \in Nat /\ Framed(f) /\ at \in [0 .. n -> Nat]
      /\ container = 12 + at[n] + f.riff
  BY Zenon DEF Contained, FrameLaid
<1>2. f.chunks \in Seq(Carriers) /\ f.riff \in -4 .. 8
  BY <1>1, Zenon DEF Framed, Shaped
<1>3. n \in Nat
  BY <1>2, LenProperties
<1>4. n \in 0 .. n
  BY <1>3
<1>5. at[n] \in Nat
  BY <1>1, <1>4
<1>6. QED
  BY <1>1, <1>2, <1>3, <1>4, <1>5, Zenon

(* The container ends with the last chunk.                                 *)
LEMMA EndsExact ==
  ASSUME NEW f, NEW at, NEW container, Contained(f, at, container),
         f.riff = 0, LastFits(f)
  PROVE  LET scan == ScanChunks(WebpBytes(f), container)
         IN  /\ ~scan.broken
             /\ scan.orientation = Verdict(Records(f), Len(f.chunks))
<1> DEFINE n == Len(f.chunks)
           b == at[n]
           v == Verdict(Records(f), n)
           offset == 12 + b
           h == Reached(offset, v)
           bytes == WebpBytes(f)
<1>1. /\ n \in 0 .. n /\ b \in Nat /\ container \in Nat
      /\ container = offset + f.riff
  BY EndPlaces, Zenon
<1>2. h = After(f, at, n)
  BY Zenon DEF After
<1>3. offset <= container /\ offset >= container
  <2> HIDE DEF b
  <2>1. QED
    BY <1>1
<1>4. h = ScanChunk(bytes, container, h)
  <2> HIDE DEF bytes, v, offset
  <2>1. QED
    BY <1>3, RoundOver
<1>5. ScanChunks(bytes, container) = h
  BY <1>1, <1>2, <1>3, <1>4, ScanEnds, Zenon
<1>6. ~h.broken /\ h.orientation = v
  BY Zenon DEF Reached
<1>7. QED
  BY <1>5, <1>6, Zenon

(* It ends in the middle of a chunk's header, behind the k-th chunk or     *)
(* before the end of the one after it.                                     *)
LEMMA EndsBroken ==
  ASSUME NEW f, NEW at, NEW container, Contained(f, at, container),
         NEW k \in 0 .. Len(f.chunks), k = Len(f.chunks) => LastFits(f),
         NEW offset, offset = 12 + at[k], offset < container,
         \/ container - offset < 8
         \/ offset + 8 + Padded(Read32(WebpBytes(f), offset + 4, "little"))
              > container
  PROVE  ScanChunks(WebpBytes(f), container).broken
<1> DEFINE n == Len(f.chunks)
           v == Verdict(Records(f), k)
           h == Stopped(offset, v)
           bytes == WebpBytes(f)
<1>1. at[k] \in Nat /\ container \in Nat
  BY Zenon DEF Contained, FrameLaid
<1>2. After(f, at, k) = Reached(offset, v)
  BY Zenon DEF After
<1>3. 12 + at[k] <= container /\ ~(offset >= container)
  <2> DEFINE a == at[k]
  <2>1. a \in Nat /\ offset = 12 + a
    BY <1>1, Zenon
  <2> HIDE DEF a
  <2>2. 12 + a <= container /\ ~(offset >= container)
    BY <1>1, <2>1
  <2>3. QED
    BY <2>2 DEF a
<1>4. h = ScanChunk(bytes, container, Reached(offset, v))
  <2>1. \/ container - offset < 8
        \/ offset + 8 + Padded(Read32(bytes, offset + 4, "little")) > container
    OBVIOUS
  <2> HIDE DEF bytes, v
  <2>2. QED
    BY <1>3, <2>1, RoundBroken
<1>5. h = ScanChunk(bytes, container, h)
  <2> HIDE DEF bytes, v
  <2>1. QED
    BY RoundOver
<1>6. ScanChunks(bytes, container) = h
  <2>1. h = ScanChunk(bytes, container, After(f, at, k))
    BY <1>2, <1>4, Zenon
  <2>2. QED
    BY <1>3, <1>5, <2>1, ScanEnds, Zenon
<1>7. h.broken
  BY Zenon DEF Stopped
<1>8. QED
  BY <1>6, <1>7, Zenon

LEMMA ZeroSpelled == \A i \in 1 .. 4 : Spell(0, 4, "little")[i] = 0
<1> DEFINE four == Spell(0, 4, "little")
<1>1. \A i \in 1 .. 4 : Worth[i] \in Nat \ {0}
  BY SMT DEF Worth
<1>2. \A w \in Nat \ {0} : (0 \div w) % 256 = 0
  OBVIOUS
<1>3. \A i \in 1 .. 4 : four[i] = (0 \div Worth[i]) % 256
  BY DEF Spell
<1> HIDE DEF four
<1>4. \A i \in 1 .. 4 : four[i] = 0
  BY <1>1, <1>2, <1>3, Zenon
<1>5. QED
  BY <1>4 DEF four

(* It is eight bytes too long: the zeros behind the last chunk are one     *)
(* more, without a name or a payload.                                      *)
LEMMA ZeroSize ==
  ASSUME NEW bytes \in Seq(Nat), NEW offset \in Nat, offset + 4 <= Len(bytes),
         \A i \in 1 .. 4 : bytes[offset + i] = 0
  PROVE  Read32(bytes, offset, "little") = 0
<1> DEFINE four == Spell(0, 4, "little")
<1>1. \A i \in 1 .. 4 : four[i] = 0
  BY ZeroSpelled
<1>2. Stands(bytes, offset, four, 4)
  BY <1>1, Zenon DEF Stands
<1>3. 0 \in LongLengths
  BY SMT DEF LongLengths
<1>4. QED
  BY <1>2, <1>3, SizeRead, Zenon

LEMMA EndsZero ==
  ASSUME NEW f, NEW at, NEW container, Contained(f, at, container),
         f.riff = 8, LastFits(f)
  PROVE  LET scan == ScanChunks(WebpBytes(f), container)
         IN  /\ ~scan.broken
             /\ scan.orientation = Verdict(Records(f), Len(f.chunks))
<1> DEFINE n == Len(f.chunks)
           b == at[n]
           v == Verdict(Records(f), n)
           offset == 12 + b
           next == offset + 8
           h == Reached(next, v)
           whole == WebpWhole(f)
           bytes == WebpBytes(f)
           l == Len(bytes)
           tail == f.tail
<1>1. /\ n \in 0 .. n /\ b \in Nat /\ container \in Nat
      /\ container = offset + f.riff
  BY EndPlaces, Zenon
<1>2. /\ whole \in Seq(Nat) /\ Len(whole) = offset /\ tail \in Int
      /\ bytes \in Seq(Nat) /\ bytes = Resized(whole, tail) /\ container <= l
  BY Zenon DEF Contained, Framed, Shaped, FrameLaid, WebpBytes
<1>3. l \in Nat
  BY <1>2, LenProperties
<1>4. /\ offset \in Nat /\ next \in Nat /\ container = next
      /\ offset + 4 \in Nat /\ offset + 4 <= l /\ (offset + 4) + 4 <= l
      /\ ~(offset >= container) /\ ~(container - offset < 8)
      /\ ~(next > container) /\ next >= container /\ offset <= container
  <2> HIDE DEF b, l
  <2>1. QED
    BY <1>1, <1>2, <1>3
<1>5. After(f, at, n) = Reached(offset, v)
  BY Zenon DEF After
<1> HIDE DEF b, l, v, whole, bytes, tail, n
<1>6. ASSUME NEW i \in 1 .. 8 PROVE bytes[offset + i] = 0
  <2>1. offset + i \in 1 .. l /\ ~(offset + i <= offset)
    BY <1>1, <1>2, <1>3, <1>4
  <2>2. bytes[offset + i] = IF offset + i <= Len(whole) THEN whole[offset + i] ELSE 0
    BY <1>2, <2>1, ResizedBytes, Zenon DEF l
  <2>3. QED
    BY <1>2, <2>1, <2>2, Zenon
<1>7. Read32(bytes, offset + 4, "little") = 0
  <2>1. \A i \in 1 .. 4 : bytes[(offset + 4) + i] = 0
    <3>1. ASSUME NEW i \in 1 .. 4 PROVE bytes[(offset + 4) + i] = 0
      <4>1. 4 + i \in 1 .. 8 /\ offset + (4 + i) = (offset + 4) + i
        BY <1>4
      <4> HIDE DEF offset
      <4>2. bytes[offset + (4 + i)] = 0
        BY <1>6, <4>1, Zenon
      <4>3. QED
        BY <4>1, <4>2, Zenon
    <3>2. QED
      BY <3>1
  <2>2. QED
    BY <1>2, <1>4, <2>1, ZeroSize, Zenon DEF l
<1>8. Slice(bytes, offset, 4) # ExifChunk
  <2> DEFINE slice == Slice(bytes, offset, 4)
  <2>1. 4 \in Nat /\ 1 \in 1 .. 4 /\ 1 \in 1 .. 8 /\ ExifChunk[1] # 0
    BY DEF ExifChunk
  <2>2. slice[1] = bytes[offset + 1]
    BY <1>2, <1>4, <2>1, Sliced, Zenon DEF l
  <2>3. slice[1] = 0
    BY <1>6, <2>1, <2>2, Zenon
  <2>4. QED
    BY <2>1, <2>3, Zenon
<1>9. Fits(bytes, container, offset, 0, next)
  <2>1. Padded(0) = 0
    BY SMT DEF Padded
  <2>2. offset + 8 + 0 = next
    BY <1>4
  <2> HIDE DEF offset, next
  <2>3. QED
    BY <1>4, <1>7, <2>1, <2>2, Zenon DEF Fits
<1>10. Heard(bytes, offset, 0, v) = v
  BY <1>8, Zenon DEF Heard
<1> HIDE DEF offset, next
<1>11. ScanChunk(bytes, container, Reached(offset, v)) = Reached(next, v)
  BY <1>9, <1>10, RoundOn
<1>12. ScanChunk(bytes, container, h) = h
  BY <1>4, RoundOver
<1>13. ScanChunks(bytes, container) = h
  <2>1. h = ScanChunk(bytes, container, After(f, at, n))
    BY <1>5, <1>11, Zenon
  <2>2. 12 + at[n] <= container
    BY <1>4, Zenon DEF offset, b
  <2>3. h = ScanChunk(bytes, container, h)
    BY <1>12, Zenon
  <2>4. QED
    BY <1>1, <2>1, <2>2, <2>3, ScanEnds, Zenon DEF n, bytes
<1>14. ~h.broken /\ h.orientation = v
  BY Zenon DEF Reached
<1>15. QED
  BY <1>13, <1>14, Zenon DEF bytes, v, n

(* The last chunk starts at offset, its size and padding lead to next.     *)
LastChunk(f, at, container, offset, next) ==
  LET n == Len(f.chunks)
  IN  /\ Contained(f, at, container) /\ n # 0
      /\ offset = 12 + at[n - 1]
      /\ next = offset + 8 + Padded(Len(ChunkPayload(f.chunks[n])) + f.last)

LEMMA LastPlace ==
  ASSUME NEW f, NEW at, NEW container, NEW offset, NEW next,
         LastChunk(f, at, container, offset, next)
  PROVE  LET n == Len(f.chunks)
             size == Len(ChunkPayload(f.chunks[n])) + f.last
             bytes == WebpBytes(f)
         IN  /\ Contained(f, at, container)
             /\ n \in 1 .. n /\ n - 1 \in 0 .. n /\ n - 1 # n
             /\ offset = 12 + at[n - 1]
             /\ container \in Nat /\ offset \in Nat /\ next \in Nat
             /\ Len(bytes) \in Nat /\ container <= Len(bytes)
             /\ next = offset + 8 + Padded(size)
             /\ offset + 8 <= Len(bytes) =>
                  Read32(bytes, offset + 4, "little") = size
<1> DEFINE n == Len(f.chunks)
           size == Len(ChunkPayload(f.chunks[n])) + f.last
           bytes == WebpBytes(f)
           a == at[n - 1]
           p == Padded(size)
<1>1. /\ Contained(f, at, container) /\ n # 0
      /\ offset = 12 + a /\ next = offset + 8 + p
  BY Zenon DEF LastChunk
<1>2. n \in Nat
  BY <1>1, EndPlaces, Zenon
<1> HIDE DEF a, p
<1>3. n \in 1 .. n /\ n - 1 \in 0 .. n /\ n - 1 # n
  <2> HIDE DEF n
  <2>1. QED
    BY <1>1, <1>2
<1>4. a \in Nat
  BY <1>1, <1>3, FramePlace, Zenon DEF a
<1>5. Off(f, n) = f.last
  BY Zenon DEF Off
<1>6. size \in Nat
  <2>1. Framed(f)
    BY <1>1, Zenon DEF Contained
  <2>2. QED
    BY <1>3, <1>5, <2>1, FrameTypes, Zenon
<1>7. p \in Nat
  <2>1. \A x \in Nat : x + (x % 2) \in Nat
    OBVIOUS
  <2>2. QED
    BY <1>6, <2>1, Zenon DEF Padded, p
<1>8. offset \in Nat /\ next \in Nat
  <2> HIDE DEF n, size, bytes
  <2>1. QED
    BY <1>1, <1>4, <1>7
<1>9. bytes \in Seq(Nat) /\ container \in Nat /\ container <= Len(bytes)
  BY <1>1, Zenon DEF Contained
<1>10. Len(bytes) \in Nat
  <2> HIDE DEF bytes, n, size
  <2>1. QED
    BY <1>9, LenProperties
<1>11. ASSUME offset + 8 <= Len(bytes)
       PROVE  Read32(bytes, offset + 4, "little") = size
  <2>1. 12 + at[n - 1] + 8 <= Len(bytes)
    BY <1>1, <1>11, Zenon DEF a
  <2>2. Read32(bytes, 12 + at[n - 1] + 4, "little") = size
    BY <1>1, <1>3, <1>5, <2>1, FrameHeader, Zenon
  <2>3. QED
    BY <1>1, <2>2, Zenon DEF a
<1>12. QED
  BY <1>1, <1>3, <1>8, <1>9, <1>10, <1>11, Zenon DEF a, p

(* It leads out of the container, in which it starts.                      *)
LEMMA EndsBeyond ==
  ASSUME NEW f, NEW at, NEW container, NEW offset, NEW next,
         LastChunk(f, at, container, offset, next),
         offset < container, next > container
  PROVE  ScanChunks(WebpBytes(f), container).broken
<1> DEFINE n == Len(f.chunks)
           size == Len(ChunkPayload(f.chunks[n])) + f.last
           bytes == WebpBytes(f)
           l == Len(bytes)
<1>1. /\ Contained(f, at, container)
      /\ n \in 1 .. n /\ n - 1 \in 0 .. n /\ n - 1 # n
      /\ offset = 12 + at[n - 1]
      /\ container \in Nat /\ offset \in Nat /\ next \in Nat
      /\ l \in Nat /\ container <= l
      /\ next = offset + 8 + Padded(size)
      /\ offset + 8 <= l => Read32(bytes, offset + 4, "little") = size
  BY LastPlace, Zenon
<1>2. ~(container - offset < 8) => offset + 8 <= l
  <2>1. \A x, y, z \in Nat : y <= z /\ ~(y - x < 8) => x + 8 <= z
    OBVIOUS
  <2> HIDE DEF l
  <2>2. QED
    BY <1>1, <2>1, Zenon
<1>3. \/ container - offset < 8
      \/ offset + 8 + Padded(Read32(bytes, offset + 4, "little")) > container
  BY <1>1, <1>2, Zenon
<1>4. QED
  BY <1>1, <1>3, EndsBroken, Zenon

(* It leads two bytes before the container's end.                          *)
LEMMA EndsBefore ==
  ASSUME NEW f, NEW at, NEW container, NEW offset, NEW next,
         LastChunk(f, at, container, offset, next),
         next + 2 = container, offset + 8 <= next
  PROVE  ScanChunks(WebpBytes(f), container).broken
<1> DEFINE n == Len(f.chunks)
           size == Len(ChunkPayload(f.chunks[n])) + f.last
           bytes == WebpBytes(f)
           l == Len(bytes)
           v == Verdict(Records(f), n - 1)
           w == Heard(bytes, offset, size, v)
           g == Reached(next, w)
           h == Stopped(next, w)
<1>1. /\ Contained(f, at, container)
      /\ n \in 1 .. n /\ n - 1 \in 0 .. n /\ n - 1 # n
      /\ offset = 12 + at[n - 1]
      /\ container \in Nat /\ offset \in Nat /\ next \in Nat
      /\ l \in Nat /\ container <= l
      /\ next = offset + 8 + Padded(size)
      /\ offset + 8 <= l => Read32(bytes, offset + 4, "little") = size
  BY LastPlace, Zenon
<1>2. After(f, at, n - 1) = Reached(offset, v)
  BY <1>1, Zenon DEF After
<1> HIDE DEF bytes, size, l, v, w, n
<1>3. /\ ~(offset >= container) /\ ~(container - offset < 8)
      /\ ~(next > container) /\ ~(next >= container) /\ container - next < 8
      /\ offset + 8 <= l /\ offset <= container
  <2>1. /\ container \in Nat /\ offset \in Nat /\ next \in Nat
        /\ l \in Nat /\ container <= l
    BY <1>1, Zenon
  <2>2. QED
    BY <2>1
<1>4. Fits(bytes, container, offset, size, next)
  BY <1>1, <1>3, Zenon DEF Fits
<1>5. ScanChunk(bytes, container, Reached(offset, v)) = g
  BY <1>4, RoundOn DEF w
<1>6. ScanChunk(bytes, container, g) = h
  BY <1>3, RoundBroken
<1>7. ScanChunk(bytes, container, h) = h
  BY RoundOver
<1>8. ScanChunks(bytes, container) = h
  <2>1. /\ g = ScanChunk(bytes, container, After(f, at, n - 1))
        /\ h = ScanChunk(bytes, container, g)
        /\ h = ScanChunk(bytes, container, h)
    BY <1>2, <1>5, <1>6, <1>7, Zenon
  <2>2. /\ n - 1 \in 0 .. Len(f.chunks) /\ n - 1 # Len(f.chunks)
        /\ 12 + at[n - 1] <= container
    BY <1>1, <1>3, Zenon DEF n
  <2> HIDE DEF g, h
  <2> DEFINE k == n - 1
  <2>3. /\ k \in 0 .. Len(f.chunks) /\ k # Len(f.chunks)
        /\ 12 + at[k] <= container /\ g = ScanChunk(bytes, container, After(f, at, k))
    BY <2>1, <2>2, Zenon
  <2> HIDE DEF k
  <2>4. /\ Contained(f, at, container)
        /\ h = ScanChunk(bytes, container, g)
        /\ h = ScanChunk(bytes, container, h)
    BY <1>1, <2>1, Zenon
  <2>5. QED
    BY <2>3, <2>4, ScanEnds DEF bytes
<1>9. h.broken
  BY Zenon DEF Stopped
<1>10. QED
  BY <1>8, <1>9, Zenon DEF bytes

(* The last payload has an odd number of bytes.                            *)
LastOdd(f) ==
  LET n == Len(f.chunks) IN n > 0 /\ Len(ChunkPayload(f.chunks[n])) % 2 = 1

(* The last size leads elsewhere than where its chunk ends.                *)
Unpadded(f) == \/ f.last = 1 /\ ~LastOdd(f)
               \/ f.last = -1 /\ LastOdd(f)

LEMMA LastCases ==
  ASSUME NEW f, Framed(f)
  PROVE  LET n == Len(f.chunks)
             p == Len(ChunkPayload(f.chunks[n]))
         IN  /\ ~Unpadded(f) => LastFits(f)
             /\ Unpadded(f) =>
                  /\ n # 0 /\ f.riff = 0 /\ p \in Nat
                  /\ \/ Padded(p + f.last) = p + 2 /\ p % 2 = 0
                     \/ Padded(p + f.last) = p - 1 /\ p % 2 = 1
             /\ n # 0 => p \in Nat
             /\ n # 0 /\ f.riff # 0 => Padded(p + f.last) = p + (p % 2)
<1> DEFINE n == Len(f.chunks)
           p == Len(ChunkPayload(f.chunks[n]))
           last == f.last
           riff == f.riff
           q == p % 2
<1>1. /\ f.chunks \in Seq(Carriers) /\ last \in {-1, 0, 1}
      /\ (last # 0 => riff = 0 /\ f.chunks # << >>)
  BY Zenon DEF Framed, Shaped
<1>2. n \in Nat /\ (n = 0 <=> f.chunks = << >>)
  BY <1>1, LenProperties, EmptySeq
<1>3. ASSUME n # 0 PROVE p \in Nat /\ (p = 0 => last # -1)
  <2>1. n \in 1 .. n
    <3> HIDE DEF n
    <3>1. QED
      BY <1>2, <1>3
  <2>2. Off(f, n) = last
    BY Zenon DEF Off
  <2>3. QED
    BY <2>1, <2>2, FrameTypes, Zenon
<1>4. n # 0 => n > 0
  <2> HIDE DEF n
  <2>1. QED
    BY <1>2
<1>5. LastOdd(f) <=> n > 0 /\ q = 1
  BY Zenon DEF LastOdd
<1> HIDE DEF n, p, last, riff
<1>6. ASSUME n # 0
      PROVE  /\ q \in {0, 1}
             /\ last = 0 => Padded(p + last) = p + q
             /\ last = 1 /\ q = 1 => Padded(p + last) = p + q
             /\ last = 1 /\ q = 0 => Padded(p + last) = p + 2
             /\ last = -1 /\ q = 0 => Padded(p + last) = p + q
             /\ last = -1 /\ q = 1 => Padded(p + last) = p - 1
  <2>1. p \in Nat /\ (p = 0 => last # -1)
    BY <1>3, <1>6
  <2>2. p + 0 = p /\ p + (-1) = p - 1 /\ (p >= 1 \/ p = 0) /\ q \in {0, 1}
    BY <2>1
  <2>3. /\ Padded(p) = p + q
        /\ q = 1 => Padded(p + 1) = p + q
        /\ q = 0 => Padded(p + 1) = p + 2
        /\ q = 0 /\ p >= 1 => Padded(p - 1) = p + q
        /\ q = 1 => Padded(p - 1) = p - 1
    BY <2>1, PaddedSizes, Zenon
  <2> HIDE DEF q
  <2>4. QED
    BY <2>1, <2>2, <2>3, Zenon
<1>7. ASSUME ~Unpadded(f) PROVE LastFits(f)
  <2>1. ~(last = 1 /\ ~LastOdd(f)) /\ ~(last = -1 /\ LastOdd(f))
    BY <1>7, Zenon DEF Unpadded, last
  <2>2. ASSUME n # 0 PROVE Padded(p + last) = p + q
    <3>1. q = 1 \/ q = 0
      BY <1>6, <2>2, Zenon
    <3>2. QED
      BY <1>1, <1>4, <1>5, <1>6, <2>1, <2>2, <3>1, Zenon
  <2>3. QED
    BY <2>2, Zenon DEF LastFits, n, p, last
<1>8. ASSUME Unpadded(f)
      PROVE  /\ n # 0 /\ riff = 0 /\ p \in Nat
             /\ \/ Padded(p + last) = p + 2 /\ q = 0
                \/ Padded(p + last) = p - 1 /\ q = 1
  <2>1. (last = 1 /\ ~LastOdd(f)) \/ (last = -1 /\ LastOdd(f))
    BY <1>8, Zenon DEF Unpadded, last
  <2>2. last # 0
    BY <2>1
  <2>3. n # 0 /\ riff = 0
    BY <1>1, <1>2, <2>2, Zenon
  <2>4. QED
    BY <1>3, <1>4, <1>5, <1>6, <2>1, <2>3, Zenon
<1>9. ASSUME n # 0, riff # 0 PROVE Padded(p + last) = p + q
  <2>1. last = 0
    BY <1>1, <1>9
  <2>2. QED
    BY <1>6, <1>9, <2>1
<1>10. QED
  BY <1>3, <1>7, <1>8, <1>9, Zenon DEF n, p, last, riff

(* How the scan of a container that is there ends.                         *)
LEMMA ScanOutcome ==
  ASSUME NEW f, NEW at, NEW container, Contained(f, at, container),
         container >= 12, f.riff % 2 = 0
  PROVE  LET scan == ScanChunks(WebpBytes(f), container)
         IN  IF f.riff \notin {0, 8} \/ Unpadded(f) THEN scan.broken
             ELSE /\ ~scan.broken
                  /\ scan.orientation = Verdict(Records(f), Len(f.chunks))
<1> DEFINE n == Len(f.chunks)
           p == Len(ChunkPayload(f.chunks[n]))
           q == p % 2
           b == at[n]
           riff == f.riff
           scan == ScanChunks(WebpBytes(f), container)
<1>1. /\ n \in Nat /\ n \in 0 .. n /\ b \in Nat /\ container \in Nat
      /\ riff \in -4 .. 8 /\ container = 12 + b + riff
  BY EndPlaces, Zenon
<1>2. /\ ~Unpadded(f) => LastFits(f)
      /\ Unpadded(f) => /\ n # 0 /\ riff = 0 /\ p \in Nat
                        /\ \/ Padded(p + f.last) = p + 2 /\ q = 0
                           \/ Padded(p + f.last) = p - 1 /\ q = 1
      /\ n # 0 => p \in Nat
      /\ n # 0 /\ riff # 0 => Padded(p + f.last) = p + q
  <2>1. Framed(f)
    BY Zenon DEF Contained
  <2>2. QED
    BY <2>1, LastCases, Zenon
<1>3. riff \in {-4, -2, 0, 2, 4, 6, 8}
  <2> HIDE DEF b, n
  <2>1. riff \in -4 .. 8 /\ riff % 2 = 0
    BY <1>1
  <2> HIDE DEF riff
  <2>2. QED
    BY <2>1
<1> DEFINE a == at[n - 1]
           offset == 12 + a
           pad == Padded(p + f.last)
           next == offset + 8 + pad
<1>4. ASSUME n # 0
      PROVE  /\ a \in Nat /\ b = a + (8 + p + q) /\ q \in {0, 1}
             /\ LastChunk(f, at, container, offset, next)
  <2>1. n \in 1 .. n
    <3> HIDE DEF n, p, b, riff
    <3>1. QED
      BY <1>1, <1>4
  <2>2. a \in Nat /\ b = a + Len(FramedChunk(f, n)) /\ Len(FramedChunk(f, n)) = 8 + p + q
    BY <2>1, FramePlace, Zenon
  <2>3. \A x \in Nat : x % 2 \in {0, 1}
    OBVIOUS
  <2>4. q \in {0, 1}
    BY <1>2, <1>4, <2>3, Zenon
  <2>5. LastChunk(f, at, container, offset, next)
    BY <1>4, Zenon DEF LastChunk
  <2>6. QED
    BY <2>2, <2>4, <2>5, Zenon
<1> HIDE DEF p, b, riff, a, pad, scan
<1>5. CASE riff \in {0, 8} /\ ~Unpadded(f)
  BY <1>2, <1>5, EndsExact, EndsZero DEF riff, scan
<1>6. CASE riff \in {2, 4, 6}
  <2>1. LastFits(f)
    BY <1>2, <1>6
  <2> DEFINE end == 12 + b
  <2>2. end = 12 + at[n] /\ end < container /\ container - end < 8
    <3>1. end < container /\ container - end < 8
      BY <1>1, <1>6
    <3>2. QED
      BY <3>1, Zenon DEF b
  <2> HIDE DEF end
  <2>3. scan.broken
    BY <1>1, <2>1, <2>2, EndsBroken, Zenon DEF scan
  <2>4. QED
    BY <1>6, <2>3 DEF riff, scan
<1>7. CASE riff \in {-2, -4}
  <2>1. n # 0
    <3>1. ASSUME n = 0 PROVE FALSE
      <4>1. b = 0
        BY <3>1, Zenon DEF b, Contained, FrameLaid
      <4>2. QED
        BY <1>1, <1>7, <4>1
    <3>2. QED
      BY <3>1
  <2>2. pad = p + q /\ p \in Nat
    BY <1>2, <1>7, <2>1 DEF pad
  <2>3. offset < container /\ next > container
    <3> HIDE DEF q
    <3>1. /\ a \in Nat /\ b = a + (8 + p + q) /\ q \in {0, 1}
          /\ p \in Nat /\ pad = p + q /\ container = 12 + b + riff
      BY <1>1, <1>4, <2>1, <2>2, Zenon
    <3>2. QED
      BY <1>7, <3>1
  <2>4. scan.broken
    BY <1>4, <2>1, <2>3, EndsBeyond, Zenon DEF scan
  <2>5. QED
    BY <1>7, <2>4 DEF riff, scan
<1>8. CASE Unpadded(f)
  <2>1. n # 0 /\ riff = 0 /\ p \in Nat
        /\ \/ pad = p + 2 /\ q = 0
           \/ pad = p - 1 /\ q = 1
    BY <1>2, <1>8, Zenon DEF pad
  <2>2. /\ a \in Nat /\ b = a + (8 + p + q) /\ q \in {0, 1}
        /\ container = 12 + b + riff
    BY <1>1, <1>4, <2>1, Zenon
  <2>3. CASE pad = p + 2 /\ q = 0
    <3>1. offset < container /\ next > container
      <4> HIDE DEF q
      <4>1. QED
        BY <2>1, <2>2, <2>3
    <3>2. QED
      BY <1>4, <1>8, <2>1, <3>1, EndsBeyond, Zenon
  <2>4. CASE pad = p - 1 /\ q = 1
    <3>1. next + 2 = container /\ offset + 8 <= next
      <4>1. p >= 1
        BY <2>1, <2>4
      <4> HIDE DEF q
      <4>2. QED
        BY <2>1, <2>2, <2>4, <4>1
    <3>2. QED
      BY <1>4, <1>8, <2>1, <3>1, EndsBefore, Zenon
  <2>5. QED
    BY <2>1, <2>3, <2>4
<1>9. QED
  BY <1>3, <1>5, <1>6, <1>7, <1>8

-----------------------------------------------------------------------------
(* What the description says and what the scan answers.                    *)

LEMMA SaysScan ==
  ASSUME NEW f
  PROVE  LET exact == Len(WebpWhole(f))
         IN  WebpSays(f)
               = IF exact + f.tail < 12 THEN Err("truncated_data")
                 ELSE IF exact + f.riff < 12 \/ f.riff % 2 = 1
                 THEN Err("malformed_data")
                 ELSE IF f.riff > f.tail THEN Err("truncated_data")
                 ELSE IF f.riff \notin {0, 8} \/ Unpadded(f)
                 THEN Err("malformed_data")
                 ELSE Ok(Verdict(Records(f), Len(f.chunks)))
<1> DEFINE n == Len(f.chunks)
           Said(i) == TiffSays(Retailed(f.chunks[i].tiff,
                                        IF i = n THEN f.last ELSE 0))
           said == {i \in 1 .. n : f.chunks[i].exif /\ Said(i) # NoMetadata}
           r == Records(f)
           heard == {i \in 1 .. n : r[i] # NoMetadata}
           word == IF said = {} THEN NoMetadata
                   ELSE IF Cardinality(said) = 1
                   THEN Said(CHOOSE i \in said : TRUE)
                   ELSE InvalidMetadata
<1>1. ASSUME NEW i \in 1 .. n
      PROVE  r[i] = IF f.chunks[i].exif THEN Said(i) ELSE NoMetadata
  <2>1. r[i] = Told(f.chunks[i], Off(f, i))
    BY RecordTypes, Zenon
  <2>2. QED
    BY <2>1, Zenon DEF Told, Off
<1>2. word = Verdict(r, n)
  <2>1. Verdict(r, n) = IF heard = {} THEN NoMetadata
                        ELSE IF Cardinality(heard) = 1
                        THEN r[CHOOSE i \in heard : TRUE]
                        ELSE InvalidMetadata
    BY Zenon DEF Verdict
  <2> HIDE DEF r, n, Said
  <2>2. heard = said
    BY <1>1, Zenon
  <2>3. \A i \in said : i \in 1 .. n /\ f.chunks[i].exif
    BY Zenon
  <2> HIDE DEF heard, said
  <2>4. said # {} => (CHOOSE i \in said : TRUE) \in said
    BY Zenon
  <2>5. said # {} =>
          Said(CHOOSE i \in said : TRUE) = r[CHOOSE i \in said : TRUE]
    BY <1>1, <2>3, <2>4, Zenon
  <2>6. QED
    BY <2>1, <2>2, <2>5, Zenon
<1> DEFINE exact == Len(WebpWhole(f))
           odd == n > 0 /\ Len(ChunkPayload(f.chunks[n])) % 2 = 1
<1>3. WebpSays(f)
        = IF exact + f.tail < 12 THEN Err("truncated_data")
          ELSE IF exact + f.riff < 12 \/ f.riff % 2 = 1
          THEN Err("malformed_data")
          ELSE IF f.riff > f.tail THEN Err("truncated_data")
          ELSE IF \/ f.riff \notin {0, 8}
                  \/ f.last = 1 /\ ~odd
                  \/ f.last = -1 /\ odd
          THEN Err("malformed_data")
          ELSE Ok(word)
  BY Zenon DEF WebpSays
<1>4. Unpadded(f) <=> \/ f.last = 1 /\ ~odd
                      \/ f.last = -1 /\ odd
  BY Zenon DEF Unpadded, LastOdd
<1> HIDE DEF word, odd, exact, r
<1>5. QED
  BY <1>2, <1>3, <1>4, Zenon DEF r, n, exact

(* THEOREM.  The scan reads any container: whatever chunks it holds, it    *)
(* answers what its EXIF chunks say together, a container beyond the input *)
(* is truncated, and one whose chunks do not end where it does is          *)
(* malformed (scan_container_orientation).                                 *)
THEOREM ScanRead ==
  ASSUME NEW f, Framed(f)
  PROVE  ScanContainerOrientation(WebpBytes(f)) = WebpSays(f)
<1> DEFINE n == Len(f.chunks)
           whole == WebpWhole(f)
           bytes == WebpBytes(f)
           e == Len(whole)
           l == Len(bytes)
           tail == f.tail
           riff == f.riff
           field == Read32(bytes, 4, "little")
           container == field + 8
           scan == ScanChunks(bytes, container)
<1>1. PICK at : FrameLaid(f, at)
  BY FrameExists, Zenon
<1> DEFINE b == at[n]
           size == b + 4 + riff
           four == Spell(size, 4, "little")
<1>2. /\ whole \in Seq(Nat) /\ e = 12 + b /\ b % 2 = 0
      /\ b + 12 \in LongLengths /\ at \in [0 .. n -> Nat]
      /\ Stands(whole, 4, four, 4)
  BY <1>1, Zenon DEF FrameLaid
<1>3. tail \in Int /\ riff \in -4 .. 8 /\ n \in Nat
  BY LenProperties, Zenon DEF Framed, Shaped
<1>4. b \in Nat /\ e \in Nat /\ l \in Nat
  <2>1. n \in 0 .. n
    BY <1>3
  <2>2. b \in Nat
    BY <1>2, <2>1
  <2>3. l \in Nat /\ e \in Nat
    <3>1. bytes \in Seq(Nat)
      BY <1>2, <1>3, ResizedType, Zenon DEF WebpBytes
    <3> HIDE DEF bytes, whole
    <3>2. QED
      BY <1>2, <3>1, LenProperties
  <2>4. QED
    BY <2>2, <2>3
<1>5. /\ e + tail >= 0 => l = e + tail
      /\ e + tail < 0 => l = 0
      /\ bytes \in Seq(Nat) /\ bytes = Resized(whole, tail)
  BY <1>2, <1>3, ResizedType, Zenon DEF WebpBytes
<1>6. WebpSays(f)
        = IF e + tail < 12 THEN Err("truncated_data")
          ELSE IF e + riff < 12 \/ riff % 2 = 1 THEN Err("malformed_data")
          ELSE IF riff > tail THEN Err("truncated_data")
          ELSE IF riff \notin {0, 8} \/ Unpadded(f) THEN Err("malformed_data")
          ELSE Ok(Verdict(Records(f), n))
  BY SaysScan, Zenon
<1>7. ScanContainerOrientation(bytes)
        = IF l < 12 THEN Err("truncated_data")
          ELSE IF field < 4 \/ field % 2 = 1 THEN Err("malformed_data")
          ELSE IF container > l THEN Err("truncated_data")
          ELSE IF scan.broken THEN Err("malformed_data")
          ELSE Ok(scan.orientation)
  BY Zenon DEF ScanContainerOrientation, RiffHeaderBytes
<1> HIDE DEF e, b, l, riff, tail, bytes, whole, n, size
<1>8. CASE e + tail < 12
  <2>1. l < 12
    BY <1>3, <1>4, <1>5, <1>8
  <2>2. QED
    BY <1>6, <1>7, <1>8, <2>1, Zenon DEF bytes
<1>9. CASE ~(e + tail < 12)
  <2>1. l = e + tail /\ ~(l < 12) /\ 4 + 4 <= e + tail
    BY <1>3, <1>4, <1>5, <1>9
  <2>2. size \in Nat /\ size <= b + 12
    BY <1>3, <1>4 DEF size
  <2>3. field = size
    <3>1. size \in LongLengths
      BY <1>2, <2>2, FewerLong, Zenon
    <3>2. 4 \in Nat
      OBVIOUS
    <3>3. 4 + 4 <= Len(whole) + tail
      BY <2>1, Zenon DEF e
    <3>4. Stands(bytes, 4, four, 4)
      BY <1>2, <1>3, <1>5, <3>2, <3>3, StandsResized, Zenon
    <3>5. QED
      BY <1>5, <3>1, <3>2, <3>4, SizeRead, Zenon
  <2> HIDE DEF field, scan
  <2>4. /\ field < 4 <=> e + riff < 12
        /\ container = e + riff /\ container = 12 + b + riff
        /\ container > l <=> riff > tail
    BY <1>2, <1>3, <1>4, <2>1, <2>3 DEF size
  <2>5. field % 2 = 1 <=> riff % 2 = 1
    <3>1. /\ field = b + 4 + riff /\ b \in Nat /\ b % 2 = 0 /\ riff \in -4 .. 8
      BY <1>2, <1>3, <1>4, <2>3, Zenon DEF size
    <3>2. QED
      BY <3>1
  <2>6. CASE e + riff < 12 \/ riff % 2 = 1 \/ riff > tail
    BY <1>6, <1>7, <1>9, <2>1, <2>4, <2>5, <2>6, Zenon DEF bytes
  <2>7. CASE ~(e + riff < 12) /\ riff % 2 # 1 /\ ~(riff > tail)
    <3>1. /\ container \in Nat /\ container >= 12 /\ container <= l
          /\ riff % 2 = 0
      BY <1>3, <1>4, <2>4, <2>7
    <3>2. Contained(f, at, container)
      <4>1. Len(bytes) = 12 + b + tail
        BY <1>2, <2>1, Zenon DEF l
      <4>2. QED
        BY <1>1, <1>5, <2>4, <3>1, <4>1, Zenon
           DEF Contained, b, n, riff, tail, bytes, l
    <3>3. IF riff \notin {0, 8} \/ Unpadded(f) THEN scan.broken
          ELSE ~scan.broken /\ scan.orientation = Verdict(Records(f), n)
      BY <3>1, <3>2, ScanOutcome, Zenon DEF riff, scan, bytes, n
    <3>4. /\ ~(l < 12) /\ ~(field < 4) /\ ~(field % 2 = 1)
          /\ ~(container > l)
      BY <2>1, <2>4, <2>5, <2>7, Zenon
    <3> DEFINE read == ScanContainerOrientation(bytes)
               says == WebpSays(f)
    <3>5. read = IF scan.broken THEN Err("malformed_data")
                 ELSE Ok(scan.orientation)
      BY <1>7, <3>4, Zenon
    <3>6. says = IF riff \notin {0, 8} \/ Unpadded(f) THEN Err("malformed_data")
                 ELSE Ok(Verdict(Records(f), n))
      BY <1>6, <1>9, <2>7, Zenon
    <3> HIDE DEF read, says
    <3>7. read = says
      BY <3>3, <3>5, <3>6
    <3>8. QED
      BY <3>7, Zenon DEF read, says, bytes
  <2>8. QED
    BY <2>6, <2>7, Zenon
<1>10. QED
  BY <1>8, <1>9, Zenon

(* The containers that are read.                                           *)
SmallChunks == {c \in Carriers : Len(ChunkPayload(c)) <= 33}

LEMMA SmallFramed ==
  ASSUME NEW f, Shaped(f), f.chunks \in Seq(SmallChunks), Len(f.chunks) <= 3
  PROVE  Framed(f)
<1> DEFINE n == Len(f.chunks)
           body == WebpBody(f)
<1>1. PICK at : BodyAt(f, at)
  BY BodyLaid, Zenon
<1>2. /\ Len(body) = at[n] /\ at \in [0 .. n -> Nat] /\ at[0] = 0
      /\ \A i \in 1 .. n :
           /\ ChunkLaid(FramedChunk(f, i), f.chunks[i], Off(f, i))
           /\ at[i] = at[i - 1] + Len(FramedChunk(f, i))
  BY <1>1, Zenon DEF BodyAt
<1>3. n \in 0 .. 3
  <2>1. n \in Nat /\ n <= 3
    BY LenProperties
  <2> HIDE DEF n
  <2>2. QED
    BY <2>1
<1>4. ASSUME NEW i \in 1 .. n
      PROVE  /\ at[i] <= at[i - 1] + 42
             /\ at[i - 1] \in Nat /\ at[i] \in Nat
  <2> DEFINE p == Len(ChunkPayload(f.chunks[i]))
             q == p % 2
             l == Len(FramedChunk(f, i))
  <2>1. f.chunks[i] \in SmallChunks
    OBVIOUS
  <2>2. f.chunks[i] \in Carriers /\ p <= 33
    BY <2>1, Zenon DEF SmallChunks
  <2>3. p \in Nat
    BY <2>2, PayloadBytes, Zenon
  <2>4. l = 8 + p + q /\ at[i] = at[i - 1] + l
    BY <1>2, Zenon DEF ChunkLaid
  <2>5. at[i - 1] \in Nat /\ at[i] \in Nat
    <3>1. i - 1 \in 0 .. n /\ i \in 0 .. n
      <4> HIDE DEF n
      <4>1. QED
        BY <1>3
    <3>2. QED
      BY <1>2, <3>1
  <2> DEFINE a == at[i - 1]
             e == at[i]
  <2>6. \A x \in Nat : x % 2 \in Nat /\ x % 2 <= 1
    OBVIOUS
  <2>7. q \in Nat /\ q <= 1
    BY <2>3, <2>6, Zenon
  <2>8. a \in Nat /\ e \in Nat /\ e = a + l /\ l = 8 + p + q
    BY <2>4, <2>5, Zenon
  <2> HIDE DEF a, e, l, p, q, n
  <2>9. e <= a + 42
    BY <2>2, <2>3, <2>7, <2>8
  <2>10. QED
    BY <2>5, <2>9, Zenon DEF a, e
<1> HIDE DEF n, body
<1>5. at[n] \in Nat /\ at[n] <= 126
  <2>1. at[0] = 0
    BY <1>2, Zenon
  <2>2. CASE n = 0
    BY <2>1, <2>2
  <2>3. ASSUME n \in 1 .. 3 PROVE at[1] <= 42 /\ at[1] \in Nat
    <3>1. at[1] <= at[0] + 42 /\ at[1] \in Nat
      BY <1>4, <2>3
    <3>2. QED
      BY <2>1, <3>1
  <2>4. ASSUME n \in 2 .. 3 PROVE at[2] <= 84 /\ at[2] \in Nat
    <3>1. at[2] <= at[1] + 42 /\ at[2] \in Nat
      BY <1>4, <2>4
    <3>2. QED
      BY <2>3, <2>4, <3>1
  <2>5. CASE n = 3
    <3>1. at[3] <= at[2] + 42 /\ at[3] \in Nat
      BY <1>4, <2>5
    <3>2. QED
      BY <2>4, <2>5, <3>1
  <2>6. QED
    BY <1>3, <2>2, <2>3, <2>4, <2>5
<1>6. Len(body) \in Nat /\ Len(body) <= 126
  BY <1>2, <1>5, Zenon
<1> DEFINE size == Len(body) + 12
<1>7. size \in Nat /\ size <= 138
  BY <1>6
<1> HIDE DEF size
<1>8. size \in LongLengths
  BY <1>7, SMT DEF LongLengths
<1>9. QED
  BY <1>8, Zenon DEF Framed, size, body

LEMMA WebpFramed ==
  ASSUME NEW c \in Seq(SmallChunks), Len(c) <= 3,
         NEW r \in -4 .. 8, NEW l \in {-1, 0, 1}, NEW t \in Int,
         l # 0 => r = 0 /\ c # << >>,
         l = -1 => ChunkPayload(c[Len(c)]) # << >>,
         NEW f, f = Webp(c, r, l, t)
  PROVE  Framed(f)
<1>1. f.chunks = c /\ f.riff = r /\ f.last = l /\ f.tail = t
  BY Zenon DEF Webp
<1>2. SmallChunks \subseteq Carriers
  BY DEF SmallChunks
<1>3. c \in Seq(Carriers)
  BY <1>2
<1>4. Shaped(f)
  BY <1>1, <1>3, Zenon DEF Shaped
<1>5. QED
  BY <1>1, <1>4, SmallFramed, Zenon

LEMMA SmallChunk ==
  ASSUME NEW c \in [exif : BOOLEAN, identifier : BOOLEAN, tiff : Carried],
         Len(TiffBytes(c.tiff)) <= 27
  PROVE  c \in SmallChunks
<1> DEFINE m == Len(TiffBytes(c.tiff))
           p == Len(ChunkPayload(c))
<1>1. c \in Carriers
  BY DEF Carriers
<1>2. m \in Nat /\ c.identifier \in BOOLEAN
  BY <1>1, CarrierTypes, Zenon
<1>3. /\ c.identifier => p = 6 + m
      /\ ~c.identifier => p = m
  BY <1>1, PayloadBytes, Zenon
<1> HIDE DEF m, p
<1>4. m <= 27
  BY DEF m
<1>5. p <= 33
  BY <1>2, <1>3, <1>4
<1>6. QED
  BY <1>1, <1>5, Zenon DEF SmallChunks, p

LEMMA SmallBlocks ==
  /\ \A t \in {Sample, Odd, Untagged, Broken, Absent} :
       t \in Carried /\ Len(TiffBytes(t)) <= 27
  /\ \A o \in Orientations :
       LET t == Tiff("big", <<Usable(o)>>)
       IN  t \in Carried /\ Len(TiffBytes(t)) <= 27
<1>1. ASSUME NEW t \in {Sample, Odd, Untagged, Broken, Absent}
      PROVE  t \in Carried /\ Len(TiffBytes(t)) <= 27
  <2>1. /\ t \in Blocks /\ t.offset = "exact"
        /\ Len(TiffBytes(t)) \in Nat /\ Len(TiffBytes(t)) <= 27
        /\ t.tail >= -4 \/ Len(TiffBytes(t)) = 0
    BY MarkerBlocks, Zenon
  <2> DEFINE m == Len(TiffBytes(t))
  <2>2. m = 0 => m < 7
    OBVIOUS
  <2>3. QED
    BY <2>1, <2>2, Zenon DEF Carried
<1>2. ASSUME NEW o \in Orientations
      PROVE  LET t == Tiff("big", <<Usable(o)>>)
             IN  t \in Carried /\ Len(TiffBytes(t)) <= 27
  <2> DEFINE x == Usable(o)
             e == <<x>>
             t == Tiff("big", e)
  <2>1. x \in Roomy /\ Roomy \subseteq Fields
    <3>1. x \in Entries
      BY DEF Entries
    <3>2. QED
      BY <3>1, EntriesRoomy, SMT DEF Roomy
  <2> HIDE DEF x
  <2>2. Few(e) /\ Len(e) = 1
    <3>1. /\ e \in Seq(Fields) /\ Len(e) = 1
          /\ \A i \in DOMAIN e : e[i] \in Roomy
      BY <2>1
    <3>2. Len(e) \in Nat /\ Len(e) <= 3
      BY <3>1
    <3>3. QED
      BY <3>1, <3>2, Zenon DEF Few
  <2> HIDE DEF e
  <2>3. t = Described("big", 42, "exact", 0, e, 0, 0)
    BY Zenon DEF Tiff
  <2> HIDE DEF t
  <2>4. Plain(t, e, 0)
    <3>1. "big" \in {"little", "big"} /\ 0 \in Int
      OBVIOUS
    <3>2. QED
      BY <2>2, <2>3, <3>1, PlainBlock, Zenon
  <2> DEFINE size == 14 + 12 * Len(e) + 0
             m == Len(TiffBytes(t))
  <2>5. /\ t \in Blocks /\ t.offset = "exact" /\ t.tail = 0
        /\ m = IF size >= 0 THEN size ELSE 0
    BY <2>4, Zenon DEF Plain
  <2>6. m <= 27 /\ 0 >= -4
    <3> HIDE DEF m
    <3>1. size = 26
      BY <2>2
    <3>2. QED
      BY <2>5, <3>1
  <2>7. t \in Carried
    BY <2>5, <2>6, Zenon DEF Carried
  <2>8. QED
    BY <2>6, <2>7, Zenon DEF t, e, x
<1>3. QED
  BY <1>1, <1>2, Zenon

LEMMA ChunksSmall ==
  /\ Chunks \subseteq SmallChunks /\ FewChunks \subseteq Chunks
  /\ \A o \in Orientations, b \in BOOLEAN :
       Chunk(TRUE, b, Tiff("big", <<Usable(o)>>)) \in SmallChunks
<1> DEFINE B == {Sample, Odd, Untagged, Broken, Absent}
           C == {Sample, Odd, Absent}
<1>1. \A t \in B : t \in Carried /\ Len(TiffBytes(t)) <= 27
  BY SmallBlocks, Zenon
<1>2. \A o \in Orientations :
        LET t == Tiff("big", <<Usable(o)>>)
        IN  t \in Carried /\ Len(TiffBytes(t)) <= 27
  BY SmallBlocks, Zenon
<1>3. Sample \in B /\ Odd \in B /\ C \subseteq B /\ Odd \in C
  OBVIOUS
<1> DEFINE X == [exif : {TRUE}, identifier : BOOLEAN, tiff : B]
           Y == [exif : {FALSE}, identifier : {FALSE}, tiff : C]
<1>4. Chunks = X \cup Y
  BY Zenon DEF Chunks
<1> HIDE DEF B, C
<1>5. ASSUME NEW c \in Chunks PROVE c \in SmallChunks
  <2>1. c \in [exif : BOOLEAN, identifier : BOOLEAN, tiff : B]
    BY <1>3, <1>4
  <2>2. c.tiff \in B
    BY <2>1
  <2>3. c.tiff \in Carried /\ Len(TiffBytes(c.tiff)) <= 27
    BY <1>1, <2>2, Zenon
  <2>4. c \in [exif : BOOLEAN, identifier : BOOLEAN, tiff : Carried]
    BY <2>1, <2>3
  <2>5. QED
    BY <2>3, <2>4, SmallChunk, Zenon
<1>6. FewChunks \subseteq Chunks
  <2>1. /\ Chunk(TRUE, TRUE, Sample) \in X /\ Chunk(TRUE, FALSE, Odd) \in X
        /\ Chunk(FALSE, FALSE, Odd) \in Y
    BY <1>3, Zenon DEF Chunk
  <2> HIDE DEF X, Y
  <2>2. QED
    BY <1>4, <2>1, Zenon DEF FewChunks
<1>7. ASSUME NEW o \in Orientations, NEW b \in BOOLEAN
      PROVE  Chunk(TRUE, b, Tiff("big", <<Usable(o)>>)) \in SmallChunks
  <2> DEFINE t == Tiff("big", <<Usable(o)>>)
             c == Chunk(TRUE, b, t)
  <2>1. t \in Carried /\ Len(TiffBytes(t)) <= 27
    BY <1>2, Zenon
  <2> HIDE DEF t
  <2>2. c \in [exif : BOOLEAN, identifier : BOOLEAN, tiff : Carried] /\ c.tiff = t
    BY <2>1, SMT DEF Chunk
  <2> HIDE DEF c
  <2>3. c \in SmallChunks
    BY <2>1, <2>2, SmallChunk, Zenon
  <2>4. QED
    BY <2>3, Zenon DEF c, t
<1>8. QED
  BY <1>5, <1>6, <1>7, Zenon

LEMMA FewMore ==
  ASSUME NEW S, NEW T, S \subseteq T, NEW n \in Nat, NEW c \in Lists(S, n)
  PROVE  c \in Seq(T) /\ Len(c) \in Nat /\ Len(c) <= n
<1>1. c \in Seq(S) /\ Len(c) \in Nat /\ Len(c) <= n
  BY ListTypes, Zenon
<1>2. c \in Seq(T)
  BY <1>1
<1>3. QED
  BY <1>1, <1>2

LEMMA FilesFramed ==
  ASSUME NEW f \in WebpFiles
  PROVE  Framed(f)
<1> DEFINE S == SmallChunks
<1>1. /\ Chunks \subseteq S /\ FewChunks \subseteq S
      /\ \A o \in Orientations, b \in BOOLEAN :
           Chunk(TRUE, b, Tiff("big", <<Usable(o)>>)) \in S
  BY ChunksSmall, Zenon
<1>2. /\ 0 \in -4 .. 8 /\ 0 \in {-1, 0, 1} /\ 0 \in Int /\ 0 # -1
      /\ 1 \in Nat /\ 2 \in Nat /\ 3 \in Nat
      /\ \A m \in Nat : m <= 2 => m <= 3
  OBVIOUS
<1> HIDE DEF S
<1>3. CASE f \in Pictures
  <2>1. PICK b \in BOOLEAN, o \in Orientations : f = Picture(b, o)
    BY <1>3, SMT DEF Pictures
  <2> DEFINE x == Chunk(TRUE, b, Tiff("big", <<Usable(o)>>))
             c == <<x>>
  <2>2. f = Webp(c, 0, 0, 0) /\ x \in S
    BY <1>1, <2>1, Zenon DEF Picture
  <2> HIDE DEF x
  <2>3. c \in Seq(S) /\ Len(c) <= 3
    BY <2>2
  <2> HIDE DEF c
  <2>4. QED
    BY <1>2, <2>2, <2>3, WebpFramed, Zenon DEF S
<1>4. CASE f \in Containers
  <2>1. PICK c \in Lists(Chunks, 2) \cup Lists(FewChunks, 3) :
               f = Webp(c, 0, 0, 0)
    BY <1>4, Zenon DEF Containers
  <2>2. c \in Seq(S) /\ Len(c) <= 3
    <3>1. CASE c \in Lists(Chunks, 2)
      BY <1>1, <1>2, <3>1, FewMore, Zenon
    <3>2. CASE c \in Lists(FewChunks, 3)
      BY <1>1, <1>2, <3>2, FewMore, Zenon
    <3>3. QED
      BY <3>1, <3>2, Zenon
  <2>3. QED
    BY <1>2, <2>1, <2>2, WebpFramed, Zenon DEF S
<1>5. CASE f \in Framings
  <2>1. PICK c \in Lists(FewChunks, 2), r \in {-4, -2, -1, 0, 1, 2, 6, 8},
             t \in {-40, -9, -8, -1, 0, 2, 7, 8} : f = Webp(c, r, 0, t)
    BY <1>5, SMT DEF Framings
  <2>2. c \in Seq(S) /\ Len(c) <= 3
    BY <1>1, <1>2, FewMore, Zenon
  <2>3. r \in -4 .. 8 /\ t \in Int
    OBVIOUS
  <2>4. QED
    BY <1>2, <2>1, <2>2, <2>3, WebpFramed, Zenon DEF S
<1>6. CASE f \in Endings
  <2>1. PICK c \in Lists(FewChunks, 1), l \in {-1, 1},
             d \in {e \in Chunks : ChunkPayload(e) # << >>} :
               f = Webp(Append(c, d), 0, l, 0)
    BY <1>6, SMT DEF Endings
  <2>2. c \in Seq(S) /\ Len(c) \in Nat /\ Len(c) <= 1
    BY <1>1, <1>2, FewMore, Zenon
  <2>3. d \in S /\ ChunkPayload(d) # << >>
    BY <1>1, Zenon
  <2> DEFINE e == Append(c, d)
             m == Len(e)
  <2>4. e \in Seq(S) /\ m = Len(c) + 1 /\ e[m] = d /\ e # << >>
    BY <2>2, <2>3, AppendProperties
  <2>5. m <= 3
    <3> HIDE DEF m
    <3>1. QED
      BY <2>2, <2>4
  <2>6. ChunkPayload(e[m]) # << >>
    BY <2>3, <2>4, Zenon
  <2>7. f = Webp(e, 0, l, 0) /\ l \in {-1, 0, 1}
    BY <2>1
  <2> HIDE DEF e
  <2>8. QED
    BY <1>2, <2>4, <2>5, <2>6, <2>7, WebpFramed, Zenon DEF S
<1>7. QED
  BY <1>3, <1>4, <1>5, <1>6, Zenon DEF WebpFiles

(* THEOREM.  ScanExact: whatever container is read, the scan finds its     *)
(* EXIF chunks and no other, or fails as its framing does.                 *)
THEOREM ScansExact == EncodedSpec => []ScanExact
<1>1. Read => ScanExact
  <2> SUFFICES ASSUME Read, HasRead("webp") PROVE reading = WebpSays(file)
    BY Zenon DEF ScanExact
  <2>1. file \in Files /\ file.kind = "webp" /\ reading # Unread
    BY Zenon DEF Read, HasRead
  <2>2. file \in WebpFiles
    BY <2>1, FileKinds, Zenon
  <2>3. reading = ScanContainerOrientation(WebpBytes(file))
    BY Zenon DEF Read
  <2>4. QED
    BY <2>2, <2>3, FilesFramed, ScanRead, Zenon
<1>2. QED
  BY <1>1, ReadInvariant, PTL

-----------------------------------------------------------------------------
(* From the bytes to the pixels.                                           *)

(* The orientation in which metadata asks an image to be shown.            *)
Wanted(metadata) ==
  IF Applies(metadata, [orientation |-> "apply"]) THEN metadata.value
  ELSE Identity

LEMMA WantedTypes ==
  ASSUME NEW m \in ParsedMetadata
  PROVE  Wanted(m) \in Orientations
BY DEF ParsedMetadata, Wanted, Applies, NoMetadata, InvalidMetadata,
       ValueMetadata, NoOrientation, Orientations, Identity

(* What chunks say together is metadata as one of them has it.             *)
LEMMA SaysMetadata ==
  ASSUME NEW f, WebpSays(f).ok
  PROVE  WebpSays(f).value \in ParsedMetadata
<1> DEFINE n == Len(f.chunks)
           r == Records(f)
           heard == {i \in 1 .. n : r[i] # NoMetadata}
<1>1. Verdict(r, n) \in ParsedMetadata
  <2>1. \A i \in 1 .. n : r[i] \in ParsedMetadata
    BY RecordTypes, Zenon
  <2>2. Verdict(r, n) = IF heard = {} THEN NoMetadata
                        ELSE IF Cardinality(heard) = 1
                        THEN r[CHOOSE i \in heard : TRUE]
                        ELSE InvalidMetadata
    BY Zenon DEF Verdict
  <2>3. NoMetadata \in ParsedMetadata /\ InvalidMetadata \in ParsedMetadata
    BY Zenon DEF ParsedMetadata
  <2>4. heard # {} => (CHOOSE i \in heard : TRUE) \in 1 .. n
    BY Zenon
  <2> HIDE DEF heard, r, n
  <2>5. QED
    BY <2>1, <2>2, <2>3, <2>4, Zenon
<1>2. \A x : ~Err(x).ok
  BY DEF Err
<1>3. WebpSays(f) = Ok(Verdict(r, n))
  BY <1>2, SaysScan, Zenon
<1>4. QED
  BY <1>1, <1>3 DEF Ok

(* An image is shown only after a container was read, and is the source in *)
(* the orientation that was read.                                          *)
Shows ==
  /\ Solid(source)
  /\ reading = Unread => image = Unturned
  /\ HasRead("webp") => orientation = IF reading.ok THEN Wanted(reading.value)
                                      ELSE Identity
  /\ image # Unturned => /\ file.kind = "webp" /\ reading.ok
                         /\ image = Normalized(orientation, source)

LEMMA ShowsInvariant == EncodedSpec => []Shows
<1>1. EncodedInit => Shows
  <2>1. EncodedInit => Solid(source)
    <3>1. Solid([width |-> 1, height |-> 1])
      BY DEF Solid
    <3>2. \A e \in NonEmpty : Solid(e)
      BY ExtentNat DEF Solid
    <3>3. QED
      BY <3>1, <3>2 DEF EncodedInit
  <2>2. QED
    BY <2>1 DEF EncodedInit, Shows, HasRead
<1>2. Shows /\ [EncodedNext]_<<turnVars, file, reading>> => Shows'
  <2> SUFFICES ASSUME Shows, [EncodedNext]_<<turnVars, file, reading>>
               PROVE  Shows'
    OBVIOUS
  <2>1. CASE ReadFile /\ ReadTiff
    BY <2>1, Zenon DEF Shows, ReadFile, ReadTiff, HasRead
  <2>2. CASE ReadFile /\ ReadWebp
    BY <2>2, Zenon DEF Shows, ReadFile, ReadWebp, HasRead, Wanted
  <2>3. CASE ReadFile /\ ReadMarker
    BY <2>3, Zenon DEF Shows, ReadFile, ReadMarker, HasRead
  <2>4. CASE ReadFile /\ ReadHead
    BY <2>4, Zenon DEF Shows, ReadFile, ReadHead, HasRead
  <2>5. CASE Display
    <3>1. reading.ok /\ ~Unread.ok
      BY <2>5 DEF Display, Unread, Err
    <3>2. reading # Unread
      BY <3>1
    <3>3. QED
      BY <2>5, <3>1, <3>2, Zenon DEF Shows, Display, Turn, HasRead
  <2>6. CASE UNCHANGED <<turnVars, file, reading>>
    BY <2>6 DEF Shows, turnVars, HasRead
  <2>7. QED
    BY <2>1, <2>2, <2>3, <2>4, <2>5, <2>6, Zenon DEF EncodedNext, ReadFile
<1>3. QED
  BY <1>1, <1>2, PTL DEF EncodedSpec

(* Every pixel of an image that is shown is the stored pixel that EXIF     *)
(* displays there for what the description of the container says.          *)
ShownAsSaid ==
  Done =>
    LET says == WebpSays(file)
    IN  /\ file \in WebpFiles /\ says.ok
        /\ orientation = Wanted(says.value)
        /\ \A p \in DOMAIN image :
             /\ image[p] \in Pixels(source)
             /\ Displayed(Wanted(says.value), source, image[p]) = p

LEMMA Shown ==
  ASSUME Read, Shows
  PROVE  ShownAsSaid
<1> SUFFICES ASSUME Done PROVE ShownAsSaid
  BY Zenon DEF ShownAsSaid
<1>1. /\ file.kind = "webp" /\ reading.ok /\ reading # Unread
      /\ image = Normalized(orientation, source) /\ Solid(source)
      /\ orientation = Wanted(reading.value)
  BY Zenon DEF Shows, Done, HasRead
<1>2. file \in WebpFiles
  <2>1. file \in Files
    BY Zenon DEF Read
  <2>2. QED
    BY <1>1, <2>1, FileKinds, Zenon
<1>3. reading = WebpSays(file)
  <2>1. reading = ScanContainerOrientation(WebpBytes(file))
    BY <1>1, Zenon DEF Read, HasRead
  <2>2. QED
    BY <1>2, <2>1, FilesFramed, ScanRead, Zenon
<1>4. orientation \in Orientations
  <2>1. reading.value \in ParsedMetadata
    BY <1>1, <1>3, SaysMetadata, Zenon
  <2>2. QED
    BY <1>1, <2>1, WantedTypes, Zenon
<1>5. ASSUME NEW p \in DOMAIN image
      PROVE  /\ image[p] \in Pixels(source)
             /\ Displayed(orientation, source, image[p]) = p
  <2>1. /\ p \in DOMAIN Normalized(orientation, source)
        /\ image[p] = Normalized(orientation, source)[p]
    BY <1>1, Zenon
  <2>2. Solid(source)
    BY <1>1, Zenon
  <2>3. QED
    BY <1>4, <2>1, <2>2, UprightImage
<1>6. WebpSays(file).ok /\ orientation = Wanted(WebpSays(file).value)
  BY <1>1, <1>3, Zenon
<1>7. QED
  BY <1>2, <1>5, <1>6 DEF ShownAsSaid

(* THEOREM.  A container whose scan succeeds is shown upright: the bytes   *)
(* are read, what its chunks say is applied, and each pixel shown comes    *)
(* from the place of the source that EXIF defines for what the description *)
(* says, the identity where it says nothing or nothing valid.              *)
THEOREM DisplayedAsSaid == EncodedSpec => []ShownAsSaid
BY ReadInvariant, ShowsInvariant, Shown, PTL

(* THEOREM.  UprightExactly, in the run that reads the orientation off a   *)
(* file: normalization is upright for what was read.                       *)
THEOREM DisplayedUpright == EncodedSpec => []UprightExactly
<1>1. ShownAsSaid => UprightExactly
  BY Zenon DEF ShownAsSaid, UprightExactly
<1>2. QED
  BY <1>1, DisplayedAsSaid, PTL
=============================================================================
