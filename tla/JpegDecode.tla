----------------------------- MODULE JpegDecode -----------------------------
(***************************************************************************)
(* decode_jpeg (jpeg_decoder.cpp) and the callbacks libjpeg runs inside    *)
(* it.  The APP1 processor is installed for the whole life of the          *)
(* decompressor: libjpeg calls it for every APP1 marker it passes, in the  *)
(* header, between the scans that jpeg_start_decompress absorbs, and       *)
(* between the last scan and EOI in jpeg_finish_decompress.                *)
(***************************************************************************)
EXTENDS DecodeCall

CONSTANTS
  JpegControlBytes,   \* jpeg_control_bytes
  JpegRowMultiplier,  \* jpeg_scanline_row_multiplier
  UnsignedLongMax     \* largest unsigned long: the input size libjpeg takes

ASSUME JpegAssumption ==
  /\ JpegControlBytes \in Nat
  /\ JpegRowMultiplier \in Nat \ {0}
  /\ JpegControlBytes <= WordMax
  /\ UnsignedLongMax \in Nat

(* failure_for_message: the classes of the messages libjpeg can raise.     *)
JpegMessageFailures == Failures \ {"none"}

JpegRunning == pc \in {"jpeg_header", "jpeg_layout", "jpeg_start",
                       "jpeg_rows", "jpeg_finish"}

(* Where libjpeg reads markers.                                            *)
JpegReadsMarkers == pc \in {"jpeg_header", "jpeg_start", "jpeg_finish"}

(* Reference: the reserve of an extent, on unbounded integers.             *)
JpegReserve(e) ==
  JpegControlBytes + (e.width * BytesPerPixel) * JpegRowMultiplier

(* checked_jpeg_work_bytes: two guards keep the sum, taken in a word, from *)
(* wrapping.                                                               *)
CheckedJpegWorkBytes(e) ==
  LET row == e.width * BytesPerPixel
  IN  IF \/ e.width > WordMax \div BytesPerPixel
         \/ row > (WordMax - JpegControlBytes) \div JpegRowMultiplier
        THEN Err("resource_limit")
        ELSE Ok(JpegReserve(e) % (WordMax + 1))

(* jpeg_error_exit, and jpeg_emit_message for a warning: the first failure *)
(* stays, and libjpeg jumps out of the step that runs.                     *)
JpegErrorExit ==
  /\ JpegRunning
  /\ \E f \in JpegMessageFailures :
       Raise(f, IF failure = "none" THEN f ELSE failure)
  /\ Return(ErrorFor(failure'))

-----------------------------------------------------------------------------

(* libjpeg must be able to take the size, and the control reserve must fit *)
(* before a decompressor exists; creating one can fail like any other      *)
(* libjpeg call.                                                           *)
JpegCreateDecompressor ==
  /\ pc = "jpeg"
  /\ IF \/ input.size > UnsignedLongMax
        \/ options.limits.max_temporary_bytes < JpegControlBytes
       THEN Abort("resource_limit")
       ELSE /\ Goto("jpeg_header")
            /\ codec' = JpegControlBytes
            /\ UNCHANGED <<extent, meta, failure, native, normalized, budget,
                           todo, observed>>

(* process_exif_marker on a marker whose payload is inside the input.      *)
JpegExifMarker ==
  /\ JpegReadsMarkers
  /\ \E m \in MetadataFound : Record(m, MergeOrientationMetadata(meta, m))
  /\ UNCHANGED <<pc, request, extent, failure, storage, budget, todo, result,
                 first>>

(* process_exif_marker on a broken marker: the failure is assigned and     *)
(* FALSE suspends the libjpeg call.  jpeg_read_header's caller keeps the   *)
(* recorded failure; read_pixels assigns its own after a suspended         *)
(* jpeg_start_decompress or jpeg_finish_decompress.                        *)
JpegBrokenMarker ==
  /\ JpegReadsMarkers
  /\ \E f \in {"truncated", "malformed"} :
       Raise(f, IF pc = "jpeg_header" THEN f ELSE "codec")
  /\ Return(ErrorFor(failure'))

(* jpeg_read_header returned without an image: malformed unless recorded.  *)
JpegNoHeader ==
  /\ pc = "jpeg_header"
  /\ Raise("malformed", IF failure = "none" THEN "malformed" ELSE failure)
  /\ Return(ErrorFor(failure'))

(* The header is known: process and color, layout, orientation and work    *)
(* are checked in this order.                                              *)
JpegHeader ==
  /\ pc = "jpeg_header"
  /\ \/ Abort("unsupported_feature")
     \/ \E e \in CodecExtents :
          LET layout   == CheckedDecodeLayout(e, FALSE, options.limits)
              admitted == ValidateOrientationLayout(e, meta, options)
              work     == CheckedJpegWorkBytes(e)
          IN  IF ~layout.ok THEN Abort(layout.error)
              ELSE IF ~admitted.ok THEN Abort(admitted.error)
              ELSE IF ~work.ok THEN Abort(work.error)
              ELSE IF work.value > options.limits.max_temporary_bytes
              THEN Abort("resource_limit")
              ELSE /\ Goto("jpeg_layout")
                   /\ extent' = e
                   /\ codec' = work.value
                   /\ UNCHANGED <<meta, failure, native, normalized, budget,
                                  todo, observed>>

(* calculate_output returned; its dimensions must be the header's.         *)
JpegCalculateOutput ==
  /\ pc = "jpeg_layout"
  /\ \/ Abort("codec_failure")
     \/ /\ Goto("jpeg_create")
        /\ UNCHANGED <<extent, meta, failure, storage, budget, todo, observed>>

JpegCreate ==
  /\ pc = "jpeg_create"
  /\ CreateNative(extent.height, "jpeg_start")

(* jpeg_start_decompress returned TRUE.                                    *)
JpegStart ==
  /\ pc = "jpeg_start"
  /\ Goto("jpeg_rows")
  /\ UNCHANGED <<extent, meta, failure, storage, budget, todo, observed>>

JpegReadScanline == ReadRow("jpeg_rows")

(* Mutant: a scanline call that delivers no row ends the loop.             *)
JpegShortReadEndsRows ==
  /\ pc = "jpeg_rows"
  /\ Goto("jpeg_finish")
  /\ UNCHANGED <<extent, meta, failure, storage, budget, todo, observed>>

(* The started layout is not RGBA rows of the image, or a scanline call    *)
(* delivered no row.                                                       *)
JpegLayoutMismatch ==
  /\ pc = "jpeg_rows"
  /\ Raise("codec", "codec")
  /\ Return(ErrorFor(failure'))

JpegRowsDone ==
  /\ pc = "jpeg_rows"
  /\ todo = 0
  /\ Goto("jpeg_finish")
  /\ UNCHANGED <<extent, meta, failure, storage, budget, todo, observed>>

(* jpeg_finish_decompress returned TRUE; the result takes the orientation  *)
(* metadata as it is now.                                                  *)
JpegFinish ==
  /\ pc = "jpeg_finish"
  /\ ReturnImage

JpegNext ==
  \/ JpegErrorExit \/ JpegCreateDecompressor \/ JpegExifMarker
  \/ JpegBrokenMarker \/ JpegNoHeader \/ JpegHeader \/ JpegCalculateOutput
  \/ JpegCreate \/ JpegStart \/ JpegReadScanline \/ JpegLayoutMismatch
  \/ JpegRowsDone \/ JpegFinish
=============================================================================
