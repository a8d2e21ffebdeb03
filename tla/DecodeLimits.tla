---------------------------- MODULE DecodeLimits ----------------------------
(***************************************************************************)
(* Checked layout arithmetic of decode_limits.cpp.  Every image storage    *)
(* request of the library (Image::create, the three decoders, orientation  *)
(* normalization and fitting) is admitted by checked_decode_layout, so the *)
(* widths of its integers are parameters: a proof about this module is a   *)
(* proof for 64-bit and for 32-bit std::size_t alike, and TLC can place    *)
(* the overflow boundary inside a small set of extents.                    *)
(***************************************************************************)
EXTENDS Integers

CONSTANTS
  DimensionMax,  \* largest std::uint32_t, the type of an axis
  WordMax,       \* largest std::uint64_t, the type of the arithmetic
  SizeMax        \* largest std::size_t of the platform

(* An axis product fits the arithmetic (32-bit axes, 64-bit words) and a   *)
(* std::size_t is never wider than a word.                                 *)
ASSUME WidthAssumption ==
  /\ DimensionMax \in Nat
  /\ WordMax \in Nat
  /\ SizeMax \in Nat
  /\ DimensionMax * DimensionMax <= WordMax
  /\ SizeMax <= WordMax

(* sizeof(Rgba8): four one-byte channels, asserted by the public header.   *)
BytesPerPixel == 4

Extent == [width : 0 .. DimensionMax, height : 0 .. DimensionMax]

Word == 0 .. WordMax

Limits ==
  [ max_input_bytes     : Word,
    max_pixels          : Word,
    max_output_bytes    : Word,
    max_dimension       : 0 .. DimensionMax,
    max_temporary_bytes : Word ]

(***************************************************************************)
(* std::expected<T, Error>, reduced to the error code.                     *)
(***************************************************************************)
Ok(v) == [ok |-> TRUE, value |-> v]

Err(code) == [ok |-> FALSE, error |-> code]

-----------------------------------------------------------------------------

(* Mutant: the division guard is missing and the product wraps.            *)
MultiplyWrapping(left, right) == Ok((left * right) % (WordMax + 1))

CheckedMultiply(left, right) ==
  IF right # 0 /\ left > WordMax \div right
    THEN Err("resource_limit")
    ELSE Ok((left * right) % (WordMax + 1))

Transposed(e) == [width |-> e.height, height |-> e.width]

OutputExtent(e, swaps) == IF swaps THEN Transposed(e) ELSE e

(* Mutant: an exclusive limit.                                             *)
ReachesDimension(e, limits) ==
  e.width >= limits.max_dimension \/ e.height >= limits.max_dimension

ExceedsDimension(e, limits) ==
  e.width > limits.max_dimension \/ e.height > limits.max_dimension

(* The checks in the order of the code; the first that fails is the error. *)
CheckedDecodeLayout(encoded, swaps, limits) ==
  LET output == OutputExtent(encoded, swaps)
      pixels == CheckedMultiply(output.width, output.height)
      row    == CheckedMultiply(output.width, BytesPerPixel)
      bytes  == CheckedMultiply(row.value, output.height)
  IN  IF encoded.width = 0 \/ encoded.height = 0 THEN Err("invalid_dimensions")
      ELSE IF \/ ExceedsDimension(encoded, limits)
              \/ ExceedsDimension(output, limits)
              \/ ~pixels.ok
              \/ pixels.value > limits.max_pixels
              \/ ~row.ok
              \/ ~bytes.ok
              \/ bytes.value > limits.max_output_bytes
              \/ row.value > SizeMax
              \/ bytes.value > SizeMax
      THEN Err("resource_limit")
      ELSE Ok([ encoded_extent |-> encoded,
                output_extent  |-> output,
                pixel_count    |-> pixels.value,
                row_bytes      |-> row.value,
                output_bytes   |-> bytes.value ])

-----------------------------------------------------------------------------

(***************************************************************************)
(* Reference: the same question asked of unbounded integers, and the two   *)
(* obligations of the checked arithmetic.                                  *)
(***************************************************************************)
PixelBytes(e) == BytesPerPixel * (e.width * e.height)

FitsLimits(e, limits) ==
  /\ e.width > 0 /\ e.height > 0
  /\ e.width <= limits.max_dimension /\ e.height <= limits.max_dimension
  /\ e.width * e.height <= limits.max_pixels
  /\ PixelBytes(e) <= limits.max_output_bytes
  /\ PixelBytes(e) <= SizeMax
=============================================================================
