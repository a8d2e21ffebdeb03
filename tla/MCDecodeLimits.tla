--------------------------- MODULE MCDecodeLimits ---------------------------
(***************************************************************************)
(* Every extent against a set of limits, one call of checked_decode_layout *)
(* per behavior.  The limits sit on, one below and one above the values    *)
(* the extents of the model reach, and the words are so narrow that        *)
(* 4 * width * height wraps for the largest extents.                       *)
(***************************************************************************)
EXTENDS DecodeLimits

CONSTANTS PixelLimits, OutputLimits, DimensionLimits

ASSUME LimitSetsAssumption ==
  /\ PixelLimits \subseteq Word
  /\ OutputLimits \subseteq Word
  /\ DimensionLimits \subseteq 0 .. DimensionMax

VARIABLES query, answer

vars == <<query, answer>>

Pending == [ok |-> FALSE, error |-> "pending"]

QueryLimits ==
  [ max_input_bytes     : {WordMax},
    max_pixels          : PixelLimits,
    max_output_bytes    : OutputLimits,
    max_dimension       : DimensionLimits,
    max_temporary_bytes : {WordMax} ]

Query == [extent : Extent, swaps : BOOLEAN, limits : QueryLimits]

Init ==
  /\ query \in Query
  /\ answer = Pending

Next ==
  /\ answer = Pending
  /\ answer' = CheckedDecodeLayout(query.extent, query.swaps, query.limits)
  /\ UNCHANGED query

Spec == Init /\ [][Next]_vars

Answered == answer # Pending

(* An accepted layout is exact and within every limit: no product wrapped  *)
(* around, the rows tile the storage, and storage, pixels and both axes    *)
(* honour the caller's limits and std::size_t.  Image::create sizes its    *)
(* vector and decoders write rows by these numbers                         *)
(* (decode_limits.cpp checked_decode_layout).                              *)
LayoutSound ==
  answer.ok =>
    LET layout == answer.value
    IN  /\ FitsLimits(query.extent, query.limits)
        /\ layout.output_extent = OutputExtent(query.extent, query.swaps)
        /\ layout.pixel_count =
             layout.output_extent.width * layout.output_extent.height
        /\ layout.output_bytes = BytesPerPixel * layout.pixel_count
        /\ layout.row_bytes * layout.output_extent.height = layout.output_bytes

(* Limits are inclusive (README "Every limit is inclusive"): an extent     *)
(* whose true size is within every limit is never refused, and a zero axis *)
(* is the only extent reported as invalid_dimensions.                      *)
LayoutComplete ==
  Answered /\ ~answer.ok =>
    /\ ~FitsLimits(query.extent, query.limits)
    /\ answer.error = "invalid_dimensions" <=>
         (query.extent.width = 0 \/ query.extent.height = 0)
=============================================================================
