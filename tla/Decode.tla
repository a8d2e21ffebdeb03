------------------------------- MODULE Decode -------------------------------
(***************************************************************************)
(* decode (decode.cpp): admission of the input, dispatch to one adapter,   *)
(* and finish_decode, which applies the orientation the adapter found.     *)
(***************************************************************************)
EXTENDS PngDecode, JpegDecode, WebpDecode

Init ==
  /\ pc = "decode"
  /\ input \in Inputs
  /\ options \in OptionSet
  /\ extent = [width |-> 0, height |-> 0]
  /\ meta = NoMetadata
  /\ failure = "none"
  /\ native = 0
  /\ normalized = 0
  /\ codec = 0
  /\ consumed = 0
  /\ budgetFailure = "none"
  /\ todo = 0
  /\ result = Pending
  /\ seen = << >>
  /\ first = "none"

(* The refusals of decode itself, in its order; "none" dispatches.         *)
AdmissionError(i, o) ==
  IF i.size = 0 THEN "empty_input"
  ELSE IF i.size > o.limits.max_input_bytes THEN "input_too_large"
  ELSE IF o.orientation = "unrecognized" THEN "invalid_argument"
  ELSE IF i.signature = "prefix" THEN "truncated_data"
  ELSE IF i.signature = "unknown" THEN "unsupported_format"
  ELSE "none"

RefuseInput ==
  /\ pc = "decode"
  /\ AdmissionError(input, options) # "none"
  /\ Abort(AdmissionError(input, options))

Dispatch ==
  /\ pc = "decode"
  /\ AdmissionError(input, options) = "none"
  /\ Goto(input.signature)
  /\ UNCHANGED <<extent, meta, failure, storage, budget, todo, observed>>

-----------------------------------------------------------------------------
(* finish_decode                                                           *)

OrientationStatus(metadata, policy) ==
  IF metadata.invalid THEN "invalid_ignored"
  ELSE IF metadata.value = NoOrientation THEN "not_present"
  ELSE IF policy = "ignore" THEN "ignored"
  ELSE "applied"

(* The DecodedImage returned, its image being the extent output.           *)
DecodedImage(output) ==
  [ code               |-> "ok",
    format             |-> input.signature,
    encoded_extent     |-> extent,
    output_extent      |-> output,
    source_orientation |-> meta.value,
    orientation_status |-> OrientationStatus(meta, options.orientation) ]

Succeed(output) ==
  /\ pc' = "done"
  /\ result' = DecodedImage(output)
  /\ UNCHANGED <<request, extent, meta, failure, budget, codec, todo,
                 observed>>

(* Absent, invalid and ignored metadata leave the image as the codec       *)
(* stored it.                                                              *)
FinishUnchanged ==
  /\ pc = "finish"
  /\ ~Applies(meta, options)
  /\ Succeed(extent)
  /\ UNCHANGED <<native, normalized>>

(* apply_orientation: its checks, then the identity returns the image      *)
(* itself and any other value creates the normalized one beside it.        *)
FinishApply ==
  /\ pc = "finish"
  /\ Applies(meta, options)
  /\ LET admitted == AdmitTransform(extent, meta.value, options.limits)
     IN  IF ~admitted.ok THEN Abort(admitted.error)
         ELSE IF meta.value = Identity
         THEN Succeed(extent) /\ UNCHANGED <<native, normalized>>
         ELSE \/ Abort("allocation_failure")
              \/ /\ Goto("transform")
                 /\ normalized' = admitted.value.output_bytes
                 /\ UNCHANGED <<extent, meta, failure, native, codec, budget,
                                todo, observed>>

(* Mutant: the codec-native image is kept beside the normalized one.       *)
FinishTransformKeepsNative ==
  /\ pc = "transform"
  /\ Succeed(OutputExtent(extent, OrientationSwapsAxes(meta.value)))
  /\ UNCHANGED <<native, normalized>>

(* The copy is complete and the codec-native image is destroyed.           *)
FinishTransform ==
  /\ pc = "transform"
  /\ Succeed(OutputExtent(extent, OrientationSwapsAxes(meta.value)))
  /\ native' = 0
  /\ UNCHANGED normalized

Next ==
  \/ RefuseInput \/ Dispatch
  \/ PngNext \/ JpegNext \/ WebpNext
  \/ FinishUnchanged \/ FinishApply \/ FinishTransform

(* The call runs on its caller's thread until it returns, and a codec that *)
(* still has work to do does some: no step waits for another party.        *)
Spec == Init /\ [][Next]_vars /\ WF_vars(Next)

-----------------------------------------------------------------------------

Steps ==
  { "decode", "png", "png_open", "png_header", "png_create", "png_pixels",
    "jpeg", "jpeg_header", "jpeg_layout", "jpeg_create", "jpeg_start",
    "jpeg_rows", "jpeg_finish",
    "webp", "webp_create", "webp_config", "webp_decode",
    "finish", "transform", "done" }

Results ==
  {Pending} \cup [code : ErrorCodes] \cup
  [ code : {"ok"}, format : {"png", "jpeg", "webp"},
    encoded_extent : Extent, output_extent : Extent,
    source_orientation : Orientations \cup {NoOrientation},
    orientation_status : {"not_present", "applied", "ignored",
                          "invalid_ignored"} ]

TypeOK ==
  /\ pc \in Steps
  /\ input \in Inputs
  /\ options \in OptionSet
  /\ extent \in Extent
  /\ meta \in ParsedMetadata
  /\ failure \in Failures
  /\ native \in Nat /\ normalized \in Nat /\ codec \in Nat
  /\ consumed \in Nat
  /\ budgetFailure \in {"none", "resource_limit", "allocation_failure"}
  /\ todo \in Nat
  /\ result \in Results
  /\ seen \in Seq(ParsedMetadata)
  /\ first \in Failures

-----------------------------------------------------------------------------

(* The storage of a call never exceeds what the caller allowed: what is    *)
(* charged to the codec, plus the codec-native image once a normalized one *)
(* exists beside it, stays within max_temporary_bytes, and the image that  *)
(* will be returned stays within max_output_bytes, whatever libpng asks    *)
(* for, whatever a codec reports and wherever it stops (README "Resource   *)
(* limits"); libjpeg and libwebp are charged the reserve admitted for      *)
(* them.  The codec object of the adapter has to be gone before            *)
(* apply_orientation allocates.                                            *)
Temporary == codec + IF normalized > 0 THEN native ELSE 0

Final == IF normalized > 0 THEN normalized ELSE native

StorageWithinLimits ==
  /\ Temporary <= options.limits.max_temporary_bytes
  /\ Final <= options.limits.max_output_bytes

(* Why it holds, step by step: the inductive invariant.                    *)
MaxTemporary == options.limits.max_temporary_bytes

MaxOutput == options.limits.max_output_bytes

PngSteps == {"png", "png_open", "png_header", "png_create", "png_pixels"}

(* No adapter has started, or the budget covers what libpng holds.         *)
BudgetCovers ==
  /\ pc = "decode" => consumed = 0 /\ codec = 0
  /\ pc \in PngSteps => codec <= consumed /\ consumed <= MaxTemporary

(* The reserve an adapter admits and charges is all that its formula asks  *)
(* for, on unbounded integers: no overflow makes a large image look cheap. *)
ReserveAdmitted ==
  /\ pc \in {"webp_create", "webp_config"} =>
       WebpReserve(extent, input.size) <= MaxTemporary
  /\ pc = "webp_decode" => codec = WebpReserve(extent, input.size)
  /\ pc \in {"jpeg_layout", "jpeg_create", "jpeg_start", "jpeg_rows",
            "jpeg_finish"} => codec = JpegReserve(extent)

(* The codec is gone before the second image exists, and the second image  *)
(* only exists beside a first one that fits the temporary limit.           *)
ImagesFit ==
  /\ codec <= MaxTemporary
  /\ native <= MaxOutput /\ normalized <= MaxOutput
  /\ pc \in {"finish", "transform", "done"} => codec = 0
  /\ pc \notin {"transform", "done"} => normalized = 0
  /\ normalized > 0 => native <= MaxTemporary

(* The image is as large as the extent reported: no step resizes either    *)
(* once the codec's dimensions are known.                                  *)
Unsized == {"decode", "png", "jpeg", "jpeg_header", "webp"}

ImageExact ==
  /\ pc \in Unsized => native = 0
  /\ pc # "done" /\ native > 0 => native = PixelBytes(extent)

(* While an adapter or finish_decode runs, the input has a format.         *)
Formatted ==
  pc \notin {"decode", "done"} => input.signature \in {"png", "jpeg", "webp"}

IInv ==
  /\ TypeOK /\ Formatted
  /\ BudgetCovers /\ ReserveAdmitted /\ ImagesFit /\ ImageExact

(* No partially decoded image is returned as a success: every row call of  *)
(* every pass was made, and the only failure a codec recovers from is a    *)
(* refused allocation (ADR 0003 "partial rows never become a successful    *)
(* result").                                                               *)
NoPartialImage ==
  pc = "done" /\ result.code = "ok" =>
    /\ todo = 0
    /\ failure \in {"none", "allocation", "resource_limit"}

(* Several EXIF records, or one that is malformed, leave no usable         *)
(* orientation, whatever the order they are met in (ADR 0010 "duplicate or *)
(* conflicting orientation records produce invalid_ignored, no source      *)
(* orientation, and unchanged pixels"); a single usable value is the one   *)
(* reported, and its transform is what the output extent shows.            *)
Values == {i \in DOMAIN seen : seen[i].value # NoOrientation}

Conflicting ==
  \/ \E i \in DOMAIN seen : seen[i].invalid
  \/ \E i, j \in Values : i # j

OrientationHonest ==
  pc = "done" /\ result.code = "ok" =>
    /\ result.orientation_status = "invalid_ignored" <=> Conflicting
    /\ result.orientation_status = "not_present" <=>
         ~Conflicting /\ Values = {}
    /\ result.source_orientation =
         IF Conflicting \/ Values = {} THEN NoOrientation
         ELSE seen[CHOOSE i \in Values : TRUE].value
    /\ result.output_extent =
         OutputExtent(result.encoded_extent,
                      /\ result.orientation_status = "applied"
                      /\ OrientationSwapsAxes(result.source_orientation))

(* decode implements what it promises its caller: in particular the only   *)
(* storage left by a call is the image of a successful result, and it is   *)
(* as large as that image.                                                 *)
Promised == INSTANCE DecodeContract
              WITH temporary <- Temporary, final <- Final, answer <- result

Contract == Promised!Spec

(* Every call returns: a suspended codec is never called again, and a      *)
(* bounded budget, input and image leave a codec no way to run for ever.   *)
Termination == <>(pc = "done")

-----------------------------------------------------------------------------
(* Properties the JPEG adapter has only in part.                           *)

(* The image storage exists only for an orientation that was validated:    *)
(* while it exists, the transform that the metadata known so far asks for  *)
(* would be admitted, so pixels are never decoded only to be refused by a  *)
(* limit (ADR 0010 "Both native and normalized layouts are validated       *)
(* before codec pixel storage is allocated").                              *)
ValidatedBeforeStorage ==
  native > 0 /\ pc # "done" /\ Applies(meta, options) =>
    AdmitTransform(extent, meta.value, options.limits).ok

(* PNG and WebP keep that promise to the end; a JPEG may still meet a      *)
(* record in its scans.                                                    *)
ValidatedUnlessJpeg == input.signature # "jpeg" => ValidatedBeforeStorage

(* The first failure the codec raised is the one reported, whatever it     *)
(* raises or meets after it: a budget that ran out is not reported as the  *)
(* malformed data libpng complains of next (ADR 0004 "Budget exhaustion    *)
(* and accounting overflow are resource_limit").  The JPEG adapter         *)
(* replaces it by codec_failure when a suspended call ends the decode, and *)
(* by nothing else.                                                        *)
FirstFailureReported ==
  pc = "done" /\ result.code # "ok" /\ first # "none" =>
    \/ result.code = ErrorFor(first)
    \/ input.signature = "jpeg" /\ result.code = "codec_failure"

(* codec_failure is the last resort: it is not reported in place of a more *)
(* specific failure the codec raised (README "The codec failed without a   *)
(* more specific stable classification").                                  *)
CodecFailureIsLastResort ==
  pc = "done" /\ result.code = "codec_failure" => first \in {"none", "codec"}

-----------------------------------------------------------------------------
(* Why the answer is the promised one, step by step: what each step knows  *)
(* of the request, the codec, the image and the metadata, and what has to  *)
(* hold when the call returns.                                             *)

JpegSteps == {"jpeg", "jpeg_header", "jpeg_layout", "jpeg_create",
              "jpeg_start", "jpeg_rows", "jpeg_finish"}

WebpSteps == {"webp", "webp_create", "webp_config", "webp_decode"}

(* Only an input decode admitted reaches the adapter of its format.        *)
Served ==
  /\ pc \notin {"decode", "done"} => AdmissionError(input, options) = "none"
  /\ pc \in PngSteps => input.signature = "png"
  /\ pc \in JpegSteps => input.signature = "jpeg"
  /\ pc \in WebpSteps => input.signature = "webp"

(* A call that goes on recorded the first failure, and libpng recovers     *)
(* from none but a refused allocation.                                     *)
Recoverable ==
  /\ pc # "done" => /\ failure = first
                    /\ failure \in {"none", "allocation", "resource_limit"}
  /\ pc \in JpegSteps \cup WebpSteps \cup {"decode", "png"} => failure = "none"

(* No row is missing once the adapter takes the image for complete.        *)
RowsRead == pc \in {"jpeg_finish", "finish", "transform"} => todo = 0

(* The extent is admitted before anything is sized after it.               *)
Admitted ==
  pc \notin Unsized \cup {"done"} => FitsLimits(extent, options.limits)

(* The steps at which the codec-native image exists.                       *)
ImageSteps == {"png_pixels", "jpeg_start", "jpeg_rows", "jpeg_finish",
               "webp_config", "webp_decode", "finish", "transform"}

Created ==
  /\ pc # "done" =>
       native = IF pc \in ImageSteps THEN PixelBytes(extent) ELSE 0
  /\ pc = "transform" =>
       Applies(meta, options) /\ normalized = PixelBytes(extent)

(* PNG and WebP know their metadata before they create an image.           *)
Validated ==
  /\ input.signature # "jpeg"
  /\ pc \notin Unsized \cup {"png_open", "png_header", "done"}
  => ValidateOrientationLayout(extent, meta, options).ok

(* The merged metadata is what the records seen so far amount to.          *)
Merged ==
  /\ meta.invalid <=> Conflicting
  /\ meta.value # NoOrientation <=> ~Conflicting /\ Values # {}
  /\ \A i \in Values : ~Conflicting => meta.value = seen[i].value

(* The answer is given by the last step, and is one the contract allows.   *)
Answered ==
  /\ pc # "done" => result = Pending
  /\ pc = "done" =>
       /\ Temporary = 0
       /\ IF result.code = "ok"
            THEN /\ Promised!Consistent(result)
                 /\ ~Promised!Refused
                 /\ Final = PixelBytes(result.output_extent)
            ELSE /\ Final = 0
                 /\ result.code \in IF Promised!Refused
                                      THEN Promised!RefusalCodes
                                      ELSE Promised!DecodeCodes

AInv ==
  /\ Served /\ Recoverable /\ RowsRead
  /\ Admitted /\ Created /\ Validated /\ Merged
  /\ Answered
  /\ NoPartialImage /\ OrientationHonest /\ FirstFailureReported

Inv == IInv /\ AInv
=============================================================================
