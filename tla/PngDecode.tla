------------------------------ MODULE PngDecode ------------------------------
(***************************************************************************)
(* decode_png (png_decoder.cpp) and the callbacks libpng runs inside it.   *)
(* libpng is external: between the adapter's calls it allocates, frees,    *)
(* reads, meets chunks and gives up in any order.  A failure is recorded   *)
(* by a callback when it happens and looked at only when a step fails.     *)
(***************************************************************************)
EXTENDS DecodeCall

CONSTANTS
  RequestSizes,  \* byte counts libpng asks for
  PngPasses      \* interlace passes: png_set_interlace_handling returns 1 or 7

ASSUME PngAssumption ==
  /\ RequestSizes \subseteq 0 .. WordMax
  /\ PngPasses \subseteq Nat \ {0}

(* The decoder's CodecAllocationBudget, built from max_temporary_bytes.    *)
Budget == INSTANCE AllocationBudget
            WITH CountMax <- WordMax,
                 limit    <- options.limits.max_temporary_bytes,
                 failure  <- budgetFailure,
                 live     <- codec

(* libpng is running: inside the constructor, read_header or read_pixels.  *)
LibpngRunning == pc \in {"png_open", "png_header", "png_pixels"}

(* The codec object is dead to the adapter: these never change with it.    *)
adapter == <<pc, request, extent, meta, native, normalized, todo, result>>

(* Mutant: the last failure stays.                                         *)
SetFailureLast(f) == Raise(f, f)

(* set_failure: the first failure stays.                                   *)
SetFailure(f) == Raise(f, IF failure = "none" THEN f ELSE failure)

-----------------------------------------------------------------------------

(* The dimensions are read from the IHDR bytes before libpng exists.       *)
PngValidateIhdr ==
  /\ pc = "png"
  /\ \/ Abort("truncated_data")
     \/ Abort("malformed_data")
     \/ \E e \in CodecExtents :
          LET layout == CheckedDecodeLayout(e, FALSE, options.limits)
          IN  IF ~layout.ok THEN Abort(layout.error)
              ELSE /\ Goto("png_open")
                   /\ extent' = e
                   /\ UNCHANGED <<meta, failure, storage, budget, todo,
                                  observed>>

(* png_allocate.  A null makes libpng raise an error, or go on without     *)
(* the block when it was optional: both are left to its next step.         *)
PngAllocate ==
  /\ LibpngRunning
  /\ UNCHANGED adapter
  /\ \E n \in RequestSizes :
       \/ Budget!Grant(n) /\ UNCHANGED <<failure, observed>>
       \/ /\ Budget!Refuse(n)
          /\ SetFailure(IF budgetFailure' = "resource_limit"
                          THEN "resource_limit" ELSE "allocation")

(* png_deallocate                                                          *)
PngDeallocate ==
  /\ LibpngRunning
  /\ UNCHANGED <<adapter, failure, observed>>
  /\ \E n \in 1 .. codec : Budget!Release(n)

(* The constructor left png_ or info_ null.                                *)
PngNotReady ==
  /\ pc = "png_open"
  /\ IF failure = "none"
       THEN SetFailure(IF budgetFailure = "resource_limit"
                         THEN "resource_limit" ELSE "allocation")
       ELSE UNCHANGED <<failure, observed>>
  /\ Return(ErrorFor(failure'))

PngReady ==
  /\ pc = "png_open"
  /\ Goto("png_header")
  /\ UNCHANGED <<extent, meta, failure, storage, budget, todo, observed>>

(* A callback records why, libpng jumps out of read_header or read_pixels: *)
(* png_read_callback past the end of the input, png_unknown_chunk_callback *)
(* on a critical chunk, png_error_callback for everything else.            *)
PngJump ==
  /\ pc \in {"png_header", "png_pixels"}
  /\ \E f \in {"truncated", "unsupported", "malformed"} : SetFailure(f)
  /\ Return(ErrorFor(failure'))

(* read_header returned: the eXIf chunk libpng kept, if any, is parsed,    *)
(* the layout must be 8-bit RGBA, and decode_png validates what it is told.*)
PngHeader ==
  /\ pc = "png_header"
  /\ \/ SetFailure("codec") /\ Return(ErrorFor(failure'))
     \/ \E e \in CodecExtents, m \in MetadataFound \cup {NoMetadata} :
          LET admitted == ValidateOrientationLayout(e, m, options)
          IN  IF e # extent THEN Abort("codec_failure")
              ELSE IF ~admitted.ok THEN Abort(admitted.error)
              ELSE /\ Goto("png_create")
                   /\ meta' = m
                   /\ seen' = <<m>>
                   /\ UNCHANGED <<extent, failure, storage, budget, todo,
                                  first>>

PngCreate ==
  /\ pc = "png_create"
  /\ \/ Abort("codec_failure")  \* libpng's row size is not the layout's
     \/ \E passes \in PngPasses :
          CreateNative(passes * extent.height, "png_pixels")

PngReadRow == ReadRow("png_pixels")

(* png_read_end returned                                                   *)
PngReadEnd ==
  /\ pc = "png_pixels"
  /\ todo = 0
  /\ ReturnImage

PngNext ==
  \/ PngValidateIhdr \/ PngAllocate \/ PngDeallocate \/ PngNotReady
  \/ PngReady \/ PngJump \/ PngHeader \/ PngCreate \/ PngReadRow
  \/ PngReadEnd
=============================================================================
