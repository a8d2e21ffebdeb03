----------------------------- MODULE DecodeCall -----------------------------
(***************************************************************************)
(* The state of one call of decode and the steps its three codec adapters  *)
(* share.  A call runs on one thread and shares nothing with other calls;  *)
(* what makes it hard is the codec inside it, which calls back into the    *)
(* adapter, stops at any of its own calls by longjmp or by a status, and   *)
(* is trusted by the code for nothing: the dimensions, row sizes and       *)
(* metadata it reports are free choices here.                              *)
(*                                                                         *)
(* Storage is counted in bytes.  An owner (Image, PngReader, JpegReader,   *)
(* WebpConfig) is a local object of the adapter, so that leaving the       *)
(* adapter releases what it owns.                                          *)
(***************************************************************************)
EXTENDS Orientation, Sequences

CONSTANTS
  Inputs,         \* encoded inputs: [size, signature]
  OptionSet,      \* the DecodeOptions of a call
  CodecExtents,   \* image dimensions a codec may report
  MetadataFound,  \* what an EXIF record of an input may parse to
  MaxRecords      \* bound: EXIF records in one input

Signatures == {"png", "jpeg", "webp", "prefix", "unknown"}

ASSUME CallAssumption ==
  /\ Inputs \subseteq [size : Nat, signature : Signatures]
  /\ OptionSet \subseteq [limits : Limits, orientation : Policies]
  /\ CodecExtents \subseteq Extent
  /\ MetadataFound \subseteq ParsedMetadata
  /\ MaxRecords \in Nat

VARIABLES
  pc,             \* the next step of the call
  input,          \* the encoded span
  options,        \* the caller's DecodeOptions
  extent,         \* dimensions of the codec-native image
  meta,           \* the adapter's OrientationMetadata
  failure,        \* PngState::failure, JpegErrors::failure
  native,         \* bytes of the codec-native Image (0: none)
  normalized,     \* bytes of the Image apply_orientation creates (0: none)
  codec,          \* bytes of working storage charged to the codec
  consumed,       \* CodecAllocationBudget::consumed_bytes_
  budgetFailure,  \* CodecAllocationBudget::failure_
  todo,           \* row calls left until the native image is complete
  result,         \* what decode returns
  seen,           \* observed: the EXIF records parsed, in order
  first           \* observed: the first failure raised by a codec that did
                  \* not recover from it (none: the adapter ended the call)

request == <<input, options>>

budget == <<consumed, budgetFailure>>

storage == <<native, normalized, codec>>

observed == <<seen, first>>

vars == <<pc, request, extent, meta, failure, storage, budget, todo, result,
          observed>>

Pending == [code |-> "pending"]

Failures ==
  { "none", "malformed", "truncated", "allocation", "resource_limit",
    "unsupported", "invalid_dimensions", "codec" }

ErrorCodes ==
  { "empty_input", "input_too_large", "unsupported_format", "malformed_data",
    "truncated_data", "invalid_dimensions", "resource_limit",
    "allocation_failure", "unsupported_feature", "codec_failure",
    "invalid_argument" }

(* The public classification of a codec failure.                           *)
ErrorFor(f) ==
  CASE f \in {"none", "malformed"}  -> "malformed_data"
    [] f = "truncated"              -> "truncated_data"
    [] f = "allocation"             -> "allocation_failure"
    [] f = "resource_limit"         -> "resource_limit"
    [] f = "unsupported"            -> "unsupported_feature"
    [] f = "invalid_dimensions"     -> "invalid_dimensions"
    [] f = "codec"                  -> "codec_failure"

-----------------------------------------------------------------------------
(* Ways a step ends.                                                       *)

(* Return an error.  Every owner goes out of scope on the way.             *)
Return(code) ==
  /\ pc' = "done"
  /\ result' = [code |-> code]
  /\ native' = 0
  /\ normalized' = 0
  /\ codec' = 0
  /\ UNCHANGED <<request, extent, meta, budget, todo>>

(* An error the adapter itself detects: the codec recovered from whatever  *)
(* it raised before.                                                       *)
Abort(code) ==
  /\ Return(code)
  /\ first' = "none"
  /\ UNCHANGED <<failure, seen>>

(* The codec raised f and the failure field becomes recorded.              *)
Raise(f, recorded) ==
  /\ failure' = recorded
  /\ first' = IF first = "none" THEN f ELSE first
  /\ UNCHANGED seen

(* Continue at step next; the other variables are the caller's business.   *)
Goto(next) == pc' = next /\ UNCHANGED <<request, result>>

(* The codec meets an EXIF record that parses to m.                        *)
Record(m, merged) ==
  /\ Len(seen) < MaxRecords
  /\ seen' = Append(seen, m)
  /\ meta' = merged

(* Image::create for the codec-native image, whose layout was admitted     *)
(* before: the checks repeat, then the vector is allocated or is not.      *)
CreateNative(calls, next) ==
  LET layout == CheckedDecodeLayout(extent, FALSE, options.limits)
  IN  IF ~layout.ok THEN Abort(layout.error)
      ELSE \/ Abort("allocation_failure")
           \/ /\ Goto(next)
              /\ native' = layout.value.output_bytes
              /\ todo' = calls
              /\ UNCHANGED <<extent, meta, failure, normalized, codec, budget,
                             observed>>

(* Mutant: the codec object lives on until decode returns.                 *)
ReturnImageCodecAlive ==
  /\ Goto("finish")
  /\ UNCHANGED <<extent, meta, failure, storage, budget, todo, observed>>

(* The adapter returns its image: its codec object is destroyed and        *)
(* finish_decode takes the image over.                                     *)
ReturnImage ==
  /\ Goto("finish")
  /\ codec' = 0
  /\ UNCHANGED <<extent, meta, failure, native, normalized, budget, todo,
                 observed>>

-----------------------------------------------------------------------------
(* Row calls of a scanline codec: one at a time, each may be the last.     *)
ReadRow(at) ==
  /\ pc = at
  /\ todo > 0
  /\ todo' = todo - 1
  /\ UNCHANGED <<pc, request, extent, meta, failure, storage, budget, result,
                 observed>>
=============================================================================
