--------------------------- MODULE DecodeContract ---------------------------
(***************************************************************************)
(* What decode promises its caller (README "Decoding", "Resource limits"   *)
(* and "Errors"; declarations in rasterforge.hpp), with no codec and no    *)
(* adapter in it: a call holds bounded storage while it works, and answers *)
(* once, either with an error and no storage, or with an image whose       *)
(* extents, format and orientation agree with the request.                 *)
(***************************************************************************)
EXTENDS Orientation

CONSTANTS Inputs, OptionSet

VARIABLES
  input, options,  \* the request
  temporary,       \* bytes of working storage
  final,           \* bytes of the image that will be returned
  answer

vars == <<input, options, temporary, final, answer>>

Pending == [code |-> "pending"]

Formats == {"png", "jpeg", "webp"}

(* The call is not one a codec may be asked about.                         *)
Refused ==
  \/ input.size = 0
  \/ input.size > options.limits.max_input_bytes
  \/ options.orientation = "unrecognized"
  \/ input.signature \notin Formats

RefusalCodes ==
  { "empty_input", "input_too_large", "invalid_argument", "truncated_data",
    "unsupported_format" }

DecodeCodes ==
  { "malformed_data", "truncated_data", "invalid_dimensions",
    "resource_limit", "allocation_failure", "unsupported_feature",
    "codec_failure" }

DecodedImages ==
  [ code : {"ok"}, format : Formats,
    encoded_extent : Extent, output_extent : Extent,
    source_orientation : Orientations \cup {NoOrientation},
    orientation_status : {"not_present", "applied", "ignored",
                          "invalid_ignored"} ]

(* The orientation fields agree with each other, with the policy and with  *)
(* the output extent.                                                      *)
Consistent(image) ==
  /\ image.format = input.signature
  /\ image.source_orientation = NoOrientation
       <=> image.orientation_status \in {"not_present", "invalid_ignored"}
  /\ image.orientation_status = "applied" => options.orientation = "apply"
  /\ image.orientation_status = "ignored" => options.orientation = "ignore"
  /\ image.output_extent =
       OutputExtent(image.encoded_extent,
                    /\ image.orientation_status = "applied"
                    /\ OrientationSwapsAxes(image.source_orientation))
  /\ FitsLimits(image.encoded_extent, options.limits)
  /\ FitsLimits(image.output_extent, options.limits)

-----------------------------------------------------------------------------

Init ==
  /\ input \in Inputs
  /\ options \in OptionSet
  /\ temporary = 0
  /\ final = 0
  /\ answer = Pending

Work ==
  /\ answer = Pending
  /\ ~Refused
  /\ temporary' \in 0 .. options.limits.max_temporary_bytes
  /\ final' \in 0 .. options.limits.max_output_bytes
  /\ UNCHANGED <<input, options, answer>>

AnswerError ==
  /\ answer = Pending
  /\ answer' \in [code : IF Refused THEN RefusalCodes ELSE DecodeCodes]
  /\ temporary' = 0
  /\ final' = 0
  /\ UNCHANGED <<input, options>>

AnswerImage ==
  /\ answer = Pending
  /\ ~Refused
  /\ answer' \in DecodedImages
  /\ Consistent(answer')
  /\ temporary' = 0
  /\ final' = PixelBytes(answer'.output_extent)
  /\ UNCHANGED <<input, options>>

Next == Work \/ AnswerError \/ AnswerImage

Spec == Init /\ [][Next]_vars
=============================================================================
