---------------------------- MODULE LayoutProofs ----------------------------
(***************************************************************************)
(* What checked_decode_layout decides, for every width of its integers;    *)
(* first the least member of a set of naturals, which stands for induction *)
(* wherever a proof counts.                                                *)
(***************************************************************************)
EXTENDS DecodeLimits, WellFoundedInduction, TLAPS

(* Every set of naturals that is not empty has a least member.             *)
LEMMA LeastNatural ==
  ASSUME NEW T, T \subseteq Nat, T # {}
  PROVE  \E n \in T : \A m \in T : n <= m
<1>1. IsWellFoundedOn(OpToRel(<, Nat), Nat)
  BY NatLessThanWellFounded
<1>2. PICK n \in T : \A m \in T : ~(<<m, n>> \in OpToRel(<, Nat))
  BY <1>1, WFMin
<1>3. ASSUME NEW m \in T PROVE n <= m
  <2>1. ~(<<m, n>> \in OpToRel(<, Nat))
    BY <1>2
  <2>2. m \in Nat /\ n \in Nat
    OBVIOUS
  <2>3. ~(m < n)
    BY <2>1, <2>2 DEF OpToRel
  <2>4. QED
    BY <2>2, <2>3
<1>4. QED
  BY <1>3

LEMMA ProductMonotone ==
  ASSUME NEW a \in Nat, NEW b \in Nat, NEW c \in Nat, a <= b
  PROVE  a * c <= b * c
OBVIOUS

LEMMA QuotientBound ==
  ASSUME NEW r \in Nat, r > 0
  PROVE  /\ WordMax \div r \in Nat
         /\ (WordMax \div r) * r <= WordMax
         /\ WordMax < (WordMax \div r + 1) * r
BY WidthAssumption

(* checked_multiply succeeds exactly when the true product is a word, and  *)
(* then returns it.                                                        *)
LEMMA MultiplyExact ==
  ASSUME NEW l \in Nat, NEW r \in Nat
  PROVE  /\ CheckedMultiply(l, r).ok <=> l * r <= WordMax
         /\ CheckedMultiply(l, r).ok => CheckedMultiply(l, r).value = l * r
<1> DEFINE q == WordMax \div r
<1>1. CASE r = 0
  <2>1. l * r = 0 /\ 0 % (WordMax + 1) = 0
    BY <1>1, WidthAssumption
  <2>2. QED
    BY <1>1, <2>1, WidthAssumption DEF CheckedMultiply, Ok, Err
<1>2. CASE r # 0 /\ l > q
  <2>1. q \in Nat /\ WordMax < (q + 1) * r
    BY <1>2, QuotientBound
  <2>2. (q + 1) * r <= l * r
    BY <1>2, <2>1, ProductMonotone
  <2>3. WordMax < l * r
    BY <2>1, <2>2, WidthAssumption
  <2>4. QED
    BY <1>2, <2>3, WidthAssumption DEF CheckedMultiply, Ok, Err
<1>3. CASE r # 0 /\ ~(l > q)
  <2>1. q \in Nat /\ q * r <= WordMax
    BY <1>3, QuotientBound
  <2>2. l * r <= q * r
    BY <1>3, <2>1, ProductMonotone
  <2>3. l * r \in Nat /\ l * r <= WordMax
    BY <2>1, <2>2, WidthAssumption
  <2>4. (l * r) % (WordMax + 1) = l * r
    <3> DEFINE p == l * r
    <3>1. p \in Nat /\ p < WordMax + 1 /\ WordMax \in Nat
      BY <2>3, WidthAssumption
    <3> HIDE DEF p
    <3>2. p % (WordMax + 1) = p
      BY <3>1
    <3>3. QED
      BY <3>2 DEF p
  <2>5. QED
    BY <1>3, <2>3, <2>4 DEF CheckedMultiply, Ok
<1>4. QED
  BY <1>1, <1>2, <1>3, QuotientBound

LEMMA ExtentTypes ==
  ASSUME NEW e \in Extent
  PROVE  /\ e.width \in Nat /\ e.height \in Nat
         /\ e = [width |-> e.width, height |-> e.height]
BY WidthAssumption DEF Extent

LEMMA LimitTypes ==
  ASSUME NEW limits \in Limits
  PROVE  /\ limits.max_pixels \in Nat /\ limits.max_output_bytes \in Nat
         /\ limits.max_dimension \in Nat /\ limits.max_temporary_bytes \in Nat
         /\ limits.max_pixels <= WordMax /\ limits.max_output_bytes <= WordMax
BY WidthAssumption DEF Limits, Word

(* checked_decode_layout accepts exactly the extents whose true size is    *)
(* within every limit, whether or not the axes are swapped, and reports    *)
(* their true sizes.                                                       *)
THEOREM LayoutExact ==
  ASSUME NEW e \in Extent, NEW swaps \in BOOLEAN, NEW limits \in Limits
  PROVE  LET outcome == CheckedDecodeLayout(e, swaps, limits)
             output  == OutputExtent(e, swaps)
         IN  /\ outcome.ok <=> FitsLimits(e, limits)
             /\ outcome.ok =>
                  outcome.value = [ encoded_extent |-> e,
                                    output_extent  |-> output,
                                    pixel_count    |-> output.width * output.height,
                                    row_bytes      |-> output.width * BytesPerPixel,
                                    output_bytes   |-> PixelBytes(e) ]
<1> DEFINE w == OutputExtent(e, swaps).width
           h == OutputExtent(e, swaps).height
           row == w * BytesPerPixel
<1>1. /\ w \in Nat /\ h \in Nat /\ row \in Nat
      /\ w * h \in Nat /\ w * h = e.width * e.height
      /\ row * h = BytesPerPixel * (w * h) /\ row * h \in Nat
      /\ w = 0 \/ h = 0 <=> e.width = 0 \/ e.height = 0
      /\ ExceedsDimension(OutputExtent(e, swaps), limits)
           <=> ExceedsDimension(e, limits)
  BY ExtentTypes DEF OutputExtent, Transposed, BytesPerPixel, ExceedsDimension
<1>2. row * h = PixelBytes(e)
  BY <1>1 DEF PixelBytes
<1>3. h # 0 => row <= row * h
  BY <1>1
<1>4. /\ CheckedMultiply(w, h).ok <=> w * h <= WordMax
      /\ CheckedMultiply(w, h).ok => CheckedMultiply(w, h).value = w * h
  BY <1>1, MultiplyExact
<1>5. /\ CheckedMultiply(w, BytesPerPixel).ok <=> row <= WordMax
      /\ CheckedMultiply(w, BytesPerPixel).ok
           => CheckedMultiply(w, BytesPerPixel).value = row
  BY <1>1, MultiplyExact DEF BytesPerPixel
<1>6. /\ CheckedMultiply(row, h).ok <=> row * h <= WordMax
      /\ CheckedMultiply(row, h).ok => CheckedMultiply(row, h).value = row * h
  BY <1>1, MultiplyExact
<1>7. limits.max_output_bytes \in Nat /\ limits.max_pixels \in Nat
      /\ limits.max_output_bytes <= WordMax /\ limits.max_pixels <= WordMax
      /\ SizeMax \in Nat /\ SizeMax <= WordMax /\ WordMax \in Nat
      /\ limits.max_dimension \in Nat /\ e.width \in Nat /\ e.height \in Nat
  BY LimitTypes, ExtentTypes, WidthAssumption
<1> DEFINE pixels == CheckedMultiply(w, h)
           rowOut == CheckedMultiply(w, BytesPerPixel)
           bytes  == CheckedMultiply(rowOut.value, h)
           empty  == e.width = 0 \/ e.height = 0
           refused == \/ ExceedsDimension(e, limits)
                      \/ ~pixels.ok
                      \/ pixels.value > limits.max_pixels
                      \/ ~rowOut.ok
                      \/ ~bytes.ok
                      \/ bytes.value > limits.max_output_bytes
                      \/ rowOut.value > SizeMax
                      \/ bytes.value > SizeMax
           layout == [ encoded_extent |-> e,
                       output_extent  |-> OutputExtent(e, swaps),
                       pixel_count    |-> pixels.value,
                       row_bytes      |-> rowOut.value,
                       output_bytes   |-> bytes.value ]
<1>8. CheckedDecodeLayout(e, swaps, limits) =
        IF empty THEN Err("invalid_dimensions")
        ELSE IF refused THEN Err("resource_limit") ELSE Ok(layout)
  BY <1>1 DEF CheckedDecodeLayout
<1>9. ~empty => (refused <=> ~FitsLimits(e, limits))
  <2> SUFFICES ASSUME ~empty PROVE refused <=> ~FitsLimits(e, limits)
    OBVIOUS
  <2>1. row <= row * h
    BY <1>1, <1>3
  <2>2. rowOut.ok => bytes = CheckedMultiply(row, h)
    BY <1>5
  <2>3. FitsLimits(e, limits) <=>
          /\ ~ExceedsDimension(e, limits)
          /\ w * h <= limits.max_pixels
          /\ row * h <= limits.max_output_bytes
          /\ row * h <= SizeMax
    BY <1>1, <1>2, <1>7 DEF FitsLimits, ExceedsDimension
  <2> HIDE DEF w, h, row
  <2>4. CASE FitsLimits(e, limits)
    <3>1. w * h <= WordMax /\ row * h <= WordMax /\ row <= WordMax
      BY <2>1, <2>3, <2>4, <1>1, <1>7
    <3>2. QED
      BY <3>1, <2>1, <2>2, <2>3, <2>4, <1>1, <1>4, <1>5, <1>6, <1>7
  <2>5. CASE ~FitsLimits(e, limits)
    BY <2>1, <2>2, <2>3, <2>5, <1>1, <1>4, <1>5, <1>6, <1>7
  <2>6. QED
    BY <2>4, <2>5
<1>10. ~empty /\ ~refused =>
         /\ pixels.value = w * h
         /\ rowOut.value = row
         /\ bytes.value = PixelBytes(e)
  BY <1>2, <1>4, <1>5, <1>6
<1>11. empty => ~FitsLimits(e, limits)
  BY <1>7 DEF FitsLimits
<1> HIDE DEF refused, empty
<1>12. QED
  BY <1>8, <1>9, <1>10, <1>11 DEF Ok, Err
=============================================================================
