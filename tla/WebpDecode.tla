----------------------------- MODULE WebpDecode -----------------------------
(***************************************************************************)
(* decode_webp (webp_decoder.cpp).  The RIFF container is scanned by the   *)
(* adapter itself, so that all metadata is known before libwebp is asked   *)
(* for anything; libwebp then writes all rows in one call.                 *)
(***************************************************************************)
EXTENDS DecodeCall

CONSTANTS
  WebpControlBytes,      \* webp_control_bytes
  WebpBytesPerPixel,     \* webp_bytes_per_pixel
  WebpBytesPerInputByte, \* webp_bytes_per_input_byte
  RowBytesMax            \* largest int: the stride libwebp takes

ASSUME WebpAssumption ==
  /\ WebpControlBytes \in Word
  /\ WebpBytesPerPixel \in Nat \ {0}
  /\ WebpBytesPerInputByte \in Nat \ {0}
  /\ RowBytesMax \in Nat

(* The classes error_for maps the statuses of libwebp to.                  *)
WebpStatusFailures ==
  {"truncated", "malformed", "allocation", "unsupported", "codec"}

(* Mutant: the sum is not checked and wraps.                               *)
AddWrapping(left, right) == Ok((left + right) % (WordMax + 1))

CheckedAdd(left, right) ==
  IF right > WordMax - left
    THEN Err("resource_limit")
    ELSE Ok((left + right) % (WordMax + 1))

(* checked_webp_work_bytes: each of its steps may overflow, in this order. *)
CheckedWebpWorkBytes(e, size) ==
  LET pixels    == CheckedMultiply(e.width, e.height)
      pixelPart == CheckedMultiply(pixels.value, WebpBytesPerPixel)
      inputPart == CheckedMultiply(size, WebpBytesPerInputByte)
      variable  == CheckedAdd(pixelPart.value, inputPart.value)
  IN  IF \/ ~pixels.ok
         \/ ~pixelPart.ok
         \/ size > WordMax
         \/ ~inputPart.ok
         \/ ~variable.ok
      THEN Err("resource_limit")
      ELSE CheckedAdd(WebpControlBytes, variable.value)

(* Reference: the reserve that formula stands for, on unbounded integers.  *)
WebpReserve(e, size) ==
  WebpControlBytes + (e.width * e.height * WebpBytesPerPixel
                        + size * WebpBytesPerInputByte)

-----------------------------------------------------------------------------

(* scan_container_orientation: one EXIF chunk.                             *)
WebpExifChunk ==
  /\ pc = "webp"
  /\ \E m \in MetadataFound : Record(m, MergeOrientationMetadata(meta, m))
  /\ UNCHANGED <<pc, request, extent, failure, storage, budget, todo, result,
                 first>>

(* scan_container_orientation: a chunk or the container does not fit.      *)
WebpBrokenContainer ==
  /\ pc = "webp"
  /\ \E f \in {"truncated", "malformed"} :
       Raise(f, failure) /\ Return(ErrorFor(f))

(* WebPGetFeatures reports an error                                        *)
WebpNoFeatures ==
  /\ pc = "webp"
  /\ \E f \in WebpStatusFailures :
       Raise(f, failure) /\ Return(ErrorFor(f))

(* WebPGetFeatures succeeded: animation, dimensions, layout, orientation,  *)
(* working storage and stride are checked in this order.                   *)
WebpFeatures ==
  /\ pc = "webp"
  /\ \/ Abort("unsupported_feature")
     \/ \E e \in CodecExtents :
          LET layout   == CheckedDecodeLayout(e, FALSE, options.limits)
              admitted == ValidateOrientationLayout(e, meta, options)
              work     == CheckedWebpWorkBytes(e, input.size)
          IN  IF e.width = 0 \/ e.height = 0 THEN Abort("malformed_data")
              ELSE IF ~layout.ok THEN Abort(layout.error)
              ELSE IF ~admitted.ok THEN Abort(admitted.error)
              ELSE IF ~work.ok THEN Abort(work.error)
              ELSE IF \/ work.value > options.limits.max_temporary_bytes
                      \/ layout.value.row_bytes > RowBytesMax
              THEN Abort("resource_limit")
              ELSE /\ Goto("webp_create")
                   /\ extent' = e
                   /\ UNCHANGED <<meta, failure, storage, budget, todo,
                                  observed>>

WebpCreate ==
  /\ pc = "webp_create"
  /\ CreateNative(1, "webp_config")

(* WebPInitDecoderConfig; from here the working storage is libwebp's.      *)
WebpConfigure ==
  /\ pc = "webp_config"
  /\ \/ Abort("codec_failure")
     \/ /\ Goto("webp_decode")
        /\ codec' = CheckedWebpWorkBytes(extent, input.size).value
        /\ UNCHANGED <<extent, meta, failure, native, normalized, budget, todo,
                       observed>>

(* WebPDecode wrote all rows into the image.                               *)
WebpDecodeRows == ReadRow("webp_decode")

WebpDecodeFails ==
  /\ pc = "webp_decode"
  /\ \/ \E f \in WebpStatusFailures :
          Raise(f, failure) /\ Return(ErrorFor(f))
     \/ Abort("codec_failure")  \* other dimensions or another buffer

WebpDone ==
  /\ pc = "webp_decode"
  /\ todo = 0
  /\ ReturnImage

WebpNext ==
  \/ WebpExifChunk \/ WebpBrokenContainer \/ WebpNoFeatures \/ WebpFeatures
  \/ WebpCreate \/ WebpConfigure \/ WebpDecodeRows \/ WebpDecodeFails
  \/ WebpDone
=============================================================================
