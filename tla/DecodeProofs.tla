---------------------------- MODULE DecodeProofs ----------------------------
(***************************************************************************)
(* The storage of a decode call, for every input, every limit, every width *)
(* of the integers and everything a codec may do.  The inductive invariant *)
(* is Decode!IInv; what a step that leaves an adapter, or creates an       *)
(* image, does to it is proved once and used for every such step.          *)
(***************************************************************************)
EXTENDS Decode, LayoutProofs

LEMMA OptionTypes ==
  ASSUME TypeOK
  PROVE  /\ options.limits \in Limits /\ options.orientation \in Policies
         /\ MaxTemporary \in Nat /\ MaxTemporary <= WordMax
         /\ MaxOutput \in Nat
<1>1. options \in [limits : Limits, orientation : Policies]
  BY CallAssumption DEF TypeOK
<1>2. QED
  BY <1>1, WidthAssumption DEF Limits, Word, MaxTemporary, MaxOutput

(* The storage of an admitted layout.                                      *)
LEMMA LayoutBytes ==
  ASSUME NEW e \in Extent, NEW swaps \in BOOLEAN, NEW limits \in Limits,
         CheckedDecodeLayout(e, swaps, limits).ok
  PROVE  /\ FitsLimits(e, limits)
         /\ CheckedDecodeLayout(e, swaps, limits).value.output_bytes
              = PixelBytes(e)
<1> DEFINE outcome == CheckedDecodeLayout(e, swaps, limits)
           output  == OutputExtent(e, swaps)
           exact   == [ encoded_extent |-> e,
                        output_extent  |-> output,
                        pixel_count    |-> output.width * output.height,
                        row_bytes      |-> output.width * BytesPerPixel,
                        output_bytes   |-> PixelBytes(e) ]
<1>1. FitsLimits(e, limits) /\ outcome.value = exact
  BY LayoutExact
<1>2. exact.output_bytes = PixelBytes(e)
  OBVIOUS
<1> HIDE DEF exact, outcome
<1>3. QED
  BY <1>1, <1>2 DEF outcome

(* An admitted layout fits the output limit; a refused one names one of    *)
(* two errors.                                                             *)
LEMMA LayoutOutcome ==
  ASSUME NEW e \in Extent, NEW swaps \in BOOLEAN, NEW limits \in Limits
  PROVE  LET outcome == CheckedDecodeLayout(e, swaps, limits)
         IN  /\ outcome.ok \in BOOLEAN
             /\ outcome.ok => /\ outcome.value.output_bytes \in Nat
                              /\ outcome.value.output_bytes
                                   <= limits.max_output_bytes
             /\ ~outcome.ok => outcome.error \in ErrorCodes
<1> DEFINE outcome == CheckedDecodeLayout(e, swaps, limits)
<1>1. ~outcome.ok => outcome.error \in ErrorCodes
  BY DEF CheckedDecodeLayout, Ok, Err, ErrorCodes
<1>2. outcome.ok \in BOOLEAN
  BY DEF CheckedDecodeLayout, Ok, Err
<1>3. outcome.ok => FitsLimits(e, limits)
                    /\ outcome.value.output_bytes = PixelBytes(e)
  BY LayoutBytes
<1>4. PixelBytes(e) \in Nat
  BY ExtentTypes DEF PixelBytes, BytesPerPixel
<1> HIDE DEF outcome
<1>5. QED
  BY <1>1, <1>2, <1>3, <1>4 DEF outcome, FitsLimits

LEMMA ErrorTypes ==
  ASSUME NEW f \in Failures
  PROVE  ErrorFor(f) \in ErrorCodes
BY DEF Failures, ErrorFor, ErrorCodes

(* Leaving an adapter with an error releases everything.                   *)
LEMMA ReturnIInv ==
  ASSUME IInv, NEW code \in ErrorCodes, Return(code),
         failure' \in Failures, first' \in Failures, UNCHANGED seen
  PROVE  IInv'
<1>1. /\ pc' = "done" /\ result' = [code |-> code] /\ native' = 0
      /\ normalized' = 0 /\ codec' = 0 /\ input' = input /\ options' = options
      /\ extent' = extent /\ meta' = meta /\ consumed' = consumed
      /\ budgetFailure' = budgetFailure /\ todo' = todo
  BY DEF Return, request, budget
<1>2. TypeOK'
  BY <1>1 DEF IInv, TypeOK, Steps, Results
<1>3. MaxTemporary' \in Nat /\ MaxOutput' \in Nat
  BY <1>1, OptionTypes DEF IInv, MaxTemporary, MaxOutput
<1>4. BudgetCovers' /\ ReserveAdmitted' /\ ImagesFit'
  BY <1>1, <1>3 DEF BudgetCovers, ReserveAdmitted, ImagesFit, PngSteps
<1>5. Formatted' /\ ImageExact'
  BY <1>1 DEF Formatted, ImageExact, Unsized
<1>6. QED
  BY <1>2, <1>4, <1>5 DEF IInv

LEMMA AbortIInv ==
  ASSUME IInv, NEW code \in ErrorCodes, Abort(code)
  PROVE  IInv'
<1>1. failure' \in Failures /\ first' \in Failures /\ UNCHANGED seen
  BY DEF Abort, IInv, TypeOK, Failures
<1>2. QED
  BY <1>1, ReturnIInv DEF Abort

(* Raising a failure and leaving with its classification.                  *)
LEMMA RaiseIInv ==
  ASSUME IInv, NEW f \in Failures, NEW recorded \in Failures,
         NEW code \in ErrorCodes, Raise(f, recorded), Return(code)
  PROVE  IInv'
<1>1. failure' \in Failures /\ first' \in Failures /\ UNCHANGED seen
  BY DEF Raise, IInv, TypeOK
<1>2. QED
  BY <1>1, ReturnIInv

(* What the working storage costs is a matter of the extent and the input. *)
LEMMA ReservesKept ==
  ASSUME extent' = extent, input' = input
  PROVE  /\ WebpReserve(extent, input.size)' = WebpReserve(extent, input.size)
         /\ JpegReserve(extent)' = JpegReserve(extent)
BY DEF WebpReserve, JpegReserve

(* Image::create for the codec-native image.                               *)
LEMMA CreateNativeIInv ==
  ASSUME IInv, NEW calls \in Nat, NEW next \in Steps,
         CreateNative(calls, next),
         pc \notin {"decode", "finish", "transform", "done"},
         next \notin {"decode", "finish", "transform", "done", "webp_create"},
         next \in PngSteps => pc \in PngSteps,
         next = "webp_config" => pc = "webp_create",
         next = "jpeg_start" => pc = "jpeg_create",
         next \in {"webp_config", "jpeg_start"} \cup PngSteps,
         next \notin Unsized
  PROVE  IInv'
<1> DEFINE layout == CheckedDecodeLayout(extent, FALSE, options.limits)
<1>1. /\ layout.ok \in BOOLEAN
      /\ layout.ok => /\ layout.value.output_bytes = PixelBytes(extent)
                      /\ layout.value.output_bytes \in Nat
                      /\ layout.value.output_bytes <= MaxOutput
      /\ ~layout.ok => layout.error \in ErrorCodes
  <2>1. extent \in Extent /\ options.limits \in Limits
    BY OptionTypes DEF IInv, TypeOK
  <2>2. QED
    BY <2>1, LayoutOutcome, LayoutBytes DEF MaxOutput
<1> HIDE DEF layout
<1>2. CASE ~layout.ok
  BY <1>1, <1>2, AbortIInv DEF CreateNative, layout
<1>3. CASE Abort("allocation_failure")
  BY <1>3, AbortIInv DEF ErrorCodes
<1>4. CASE layout.ok /\ ~Abort("allocation_failure")
  <2>1. /\ pc' = next /\ native' = layout.value.output_bytes /\ todo' = calls
        /\ input' = input /\ options' = options /\ result' = result
        /\ extent' = extent /\ meta' = meta /\ failure' = failure
        /\ normalized' = normalized /\ codec' = codec /\ consumed' = consumed
        /\ budgetFailure' = budgetFailure /\ seen' = seen /\ first' = first
    BY <1>4 DEF CreateNative, Goto, request, budget, observed, layout
  <2>2. TypeOK'
    BY <1>1, <1>4, <2>1 DEF IInv, TypeOK
  <2>3. BudgetCovers'
    BY <2>1 DEF IInv, BudgetCovers, PngSteps, MaxTemporary
  <2>4. ReserveAdmitted'
    <3>1. /\ pc' # "webp_create" /\ pc' # "webp_decode"
          /\ pc' = "webp_config" => pc = "webp_create"
          /\ pc' \in {"jpeg_layout", "jpeg_create", "jpeg_start", "jpeg_rows",
                     "jpeg_finish"} => pc = "jpeg_create"
      BY <2>1 DEF PngSteps
    <3>2. QED
      BY <2>1, <3>1, ReservesKept DEF IInv, ReserveAdmitted, MaxTemporary
  <2>5. ImagesFit'
    BY <1>1, <1>4, <2>1 DEF IInv, TypeOK, ImagesFit, MaxTemporary, MaxOutput
  <2>6. ImageExact' /\ Formatted'
    BY <1>1, <1>4, <2>1 DEF IInv, ImageExact, Formatted, Unsized
  <2>7. QED
    BY <2>2, <2>3, <2>4, <2>5, <2>6 DEF IInv
<1>5. QED
  BY <1>1, <1>2, <1>3, <1>4

(* An adapter that returns its image has destroyed its codec.              *)
LEMMA ReturnImageIInv ==
  ASSUME IInv, ReturnImage, pc \notin {"decode", "finish", "transform", "done"}
  PROVE  IInv'
<1>1. /\ pc' = "finish" /\ codec' = 0 /\ input' = input /\ options' = options
      /\ result' = result /\ extent' = extent /\ meta' = meta
      /\ failure' = failure /\ native' = native /\ normalized' = normalized
      /\ consumed' = consumed /\ budgetFailure' = budgetFailure
      /\ todo' = todo /\ seen' = seen /\ first' = first
  BY DEF ReturnImage, Goto, request, budget, observed
<1>2. TypeOK'
  BY <1>1 DEF IInv, TypeOK, Steps
<1>3. MaxTemporary \in Nat
  BY OptionTypes DEF IInv
<1>4. /\ BudgetCovers' /\ ReserveAdmitted' /\ ImagesFit'
      /\ ImageExact' /\ Formatted'
  BY <1>1, <1>3
     DEF IInv, BudgetCovers, ReserveAdmitted, ImagesFit, ImageExact,
         Formatted, Unsized, PngSteps,
                    MaxTemporary, MaxOutput
<1>5. QED
  BY <1>2, <1>4 DEF IInv

LEMMA ReadRowIInv ==
  ASSUME IInv, NEW at, ReadRow(at)
  PROVE  IInv'
<1>1. /\ todo' \in Nat /\ pc' = pc /\ input' = input /\ options' = options
      /\ result' = result /\ extent' = extent /\ meta' = meta
      /\ failure' = failure /\ native' = native /\ normalized' = normalized
      /\ codec' = codec /\ consumed' = consumed
      /\ budgetFailure' = budgetFailure /\ seen' = seen /\ first' = first
  BY DEF ReadRow, request, storage, budget, observed, IInv, TypeOK
<1>2. QED
  BY <1>1 DEF IInv, TypeOK, BudgetCovers, ReserveAdmitted, ImagesFit,
              ImageExact, Formatted, Unsized,
              MaxTemporary, MaxOutput, WebpReserve, JpegReserve

(* A step inside an adapter that touches no storage.                       *)
LEMMA MoveIInv ==
  ASSUME IInv, TypeOK', ReserveAdmitted',
         UNCHANGED <<input, options, storage, consumed>>,
         pc = "decode" => Formatted',
         pc' \in Unsized => pc \in Unsized,
         pc \in Unsized \/ UNCHANGED extent,
         pc \notin {"finish", "transform", "done"},
         pc' \notin {"decode", "finish", "transform", "done"},
         pc' \in PngSteps => pc \in PngSteps \cup {"decode"}
  PROVE  IInv'
<1>1. MaxTemporary \in Nat
  BY OptionTypes DEF IInv
<1>2. BudgetCovers'
  BY <1>1 DEF IInv, BudgetCovers, storage, MaxTemporary, PngSteps
<1>3. ImagesFit'
  BY DEF IInv, ImagesFit, storage, MaxTemporary, MaxOutput
<1>4. ImageExact' /\ Formatted'
  BY DEF IInv, ImageExact, Formatted, storage
<1>5. QED
  BY <1>2, <1>3, <1>4 DEF IInv

LEMMA ValidationOutcome ==
  ASSUME NEW e \in Extent, NEW m, NEW o, o.limits \in Limits
  PROVE  LET outcome == ValidateOrientationLayout(e, m, o)
         IN  ~outcome.ok => outcome.error \in ErrorCodes
<1>1. OrientationSwapsAxes(m.value) \in BOOLEAN
  BY DEF OrientationSwapsAxes
<1>2. /\ ~CheckedDecodeLayout(e, FALSE, o.limits).ok
           => CheckedDecodeLayout(e, FALSE, o.limits).error \in ErrorCodes
      /\ ~CheckedDecodeLayout(e, OrientationSwapsAxes(m.value), o.limits).ok
           => CheckedDecodeLayout(e, OrientationSwapsAxes(m.value), o.limits).error
                \in ErrorCodes
  BY <1>1, LayoutOutcome
<1>3. QED
  BY <1>2 DEF ValidateOrientationLayout, Err, ErrorCodes

LEMMA MergeTypes ==
  ASSUME NEW d \in ParsedMetadata, NEW m \in ParsedMetadata
  PROVE  MergeOrientationMetadata(d, m) \in ParsedMetadata
<1>1. CASE MergeOrientationMetadata(d, m) \in {d, InvalidMetadata}
  BY <1>1 DEF ParsedMetadata
<1>2. CASE /\ MergeOrientationMetadata(d, m) = ValueMetadata(m.value)
           /\ m.value # NoOrientation
  <2>1. m.value \in Orientations
    <3>1. CASE m \in {NoMetadata, InvalidMetadata}
      BY <1>2, <3>1 DEF NoMetadata, InvalidMetadata
    <3>2. CASE \E o \in Orientations : m = ValueMetadata(o)
      BY <3>2 DEF ValueMetadata
    <3>3. QED
      BY <3>1, <3>2 DEF ParsedMetadata
  <2>2. QED
    BY <1>2, <2>1 DEF ParsedMetadata
<1>3. QED
  BY <1>1, <1>2 DEF MergeOrientationMetadata

-----------------------------------------------------------------------------
(* PNG.                                                                    *)

LEMMA PngValidateIhdrIInv == IInv /\ PngValidateIhdr => IInv'
<1> SUFFICES ASSUME IInv, PngValidateIhdr PROVE IInv'
  OBVIOUS
<1>1. CASE Abort("truncated_data") \/ Abort("malformed_data")
  BY <1>1, AbortIInv DEF ErrorCodes
<1>2. ASSUME NEW e \in CodecExtents,
             ~CheckedDecodeLayout(e, FALSE, options.limits).ok,
             Abort(CheckedDecodeLayout(e, FALSE, options.limits).error)
      PROVE  IInv'
  <2>1. e \in Extent /\ options.limits \in Limits
    BY CallAssumption, OptionTypes DEF IInv
  <2>2. CheckedDecodeLayout(e, FALSE, options.limits).error \in ErrorCodes
    BY <1>2, <2>1, LayoutOutcome
  <2>3. QED
    BY <1>2, <2>2, AbortIInv
<1>3. ASSUME NEW e \in CodecExtents, Goto("png_open"), extent' = e,
             UNCHANGED <<meta, failure, storage, budget, todo, observed>>
      PROVE  IInv'
  <2>1. TypeOK'
    BY <1>3, CallAssumption
       DEF IInv, TypeOK, Goto, request, storage, budget, observed, Steps
  <2>2. ReserveAdmitted'
    BY <1>3 DEF ReserveAdmitted, Goto
  <2>3. QED
    BY <1>3, <2>1, <2>2, MoveIInv
       DEF PngValidateIhdr, Goto, request, budget, PngSteps, Unsized
<1>4. QED
  BY <1>1, <1>2, <1>3 DEF PngValidateIhdr

(* libpng may ask for any size at any moment: the budget covers what it    *)
(* holds because nothing it gives back is charged again.                   *)
LEMMA PngAllocateIInv == IInv /\ PngAllocate => IInv'
<1> SUFFICES ASSUME IInv, PngAllocate PROVE IInv'
  OBVIOUS
<1>1. /\ pc \in {"png_open", "png_header", "png_pixels"} /\ pc' = pc
      /\ input' = input /\ options' = options /\ extent' = extent
      /\ meta' = meta /\ native' = native /\ normalized' = normalized
      /\ todo' = todo /\ result' = result
  BY DEF PngAllocate, LibpngRunning, adapter, request
<1>2. /\ MaxTemporary \in Nat /\ MaxTemporary <= WordMax /\ WordMax \in Nat
      /\ consumed \in Nat /\ codec \in Nat
      /\ codec <= consumed /\ consumed <= MaxTemporary
  BY <1>1, OptionTypes, WidthAssumption
     DEF IInv, TypeOK, BudgetCovers, PngSteps
<1>3. PICK n \in RequestSizes :
        \/ Budget!Grant(n) /\ UNCHANGED <<failure, observed>>
        \/ /\ Budget!Refuse(n)
           /\ SetFailure(IF budgetFailure' = "resource_limit"
                           THEN "resource_limit" ELSE "allocation")
  BY DEF PngAllocate
<1>4. CASE Budget!Grant(n) /\ UNCHANGED <<failure, observed>>
  <2> DEFINE size == Budget!Accounted(n)
  <2>1. size \in Nat
    BY PngAssumption DEF Budget!Accounted
  <2>2. Budget!Remaining = MaxTemporary - consumed
    <3>1. (MaxTemporary - consumed) \in 0 .. WordMax
      BY <1>2
    <3>2. (MaxTemporary - consumed) % (WordMax + 1) = MaxTemporary - consumed
      BY <3>1, <1>2
    <3>3. QED
      BY <3>2 DEF Budget!Remaining, MaxTemporary
  <2>3. size <= MaxTemporary - consumed
    BY <1>4, <2>2 DEF Budget!Grant
  <2>4. (consumed + size) % (WordMax + 1) = consumed + size
    <3> HIDE DEF size
    <3>1. consumed + size \in 0 .. WordMax
      BY <1>2, <2>1, <2>3
    <3>2. QED
      BY <3>1, <1>2
  <2>5. /\ consumed' = consumed + size /\ codec' = codec + size
        /\ budgetFailure' = budgetFailure /\ failure' = failure
        /\ seen' = seen /\ first' = first
    BY <1>4, <2>4 DEF Budget!Grant, observed
  <2> HIDE DEF size
  <2>6. codec' <= consumed' /\ consumed' <= MaxTemporary
        /\ codec' \in Nat /\ consumed' \in Nat
    BY <1>2, <2>1, <2>3, <2>5
  <2>7. TypeOK'
    BY <1>1, <2>5, <2>6 DEF IInv, TypeOK
  <2>8. /\ BudgetCovers' /\ ReserveAdmitted' /\ ImagesFit'
        /\ ImageExact' /\ Formatted'
    BY <1>1, <1>2, <2>6
       DEF IInv, BudgetCovers, ReserveAdmitted, ImagesFit, ImageExact,
           Formatted, Unsized, MaxTemporary, MaxOutput, PngSteps
  <2>9. QED
    BY <2>7, <2>8 DEF IInv
<1>5. CASE Budget!Refuse(n)
           /\ SetFailure(IF budgetFailure' = "resource_limit"
                           THEN "resource_limit" ELSE "allocation")
  <2>1. /\ consumed' = consumed /\ codec' = codec
        /\ budgetFailure' \in {"none", "resource_limit", "allocation_failure"}
    BY <1>5 DEF Budget!Refuse, Budget!RefuseSticky, Budget!RefuseOverLimit,
                Budget!RefuseNoMemory, Budget!budgetVars, IInv, TypeOK
  <2>2. failure' \in Failures /\ first' \in Failures /\ seen' = seen
    BY <1>5 DEF SetFailure, Raise, IInv, TypeOK, Failures
  <2>3. TypeOK'
    BY <1>1, <2>1, <2>2 DEF IInv, TypeOK
  <2>4. ReserveAdmitted'
    BY <1>1 DEF ReserveAdmitted
  <2>5. QED
    BY <1>1, <2>1, <2>3, <2>4, MoveIInv DEF storage, PngSteps, Unsized
<1>6. QED
  BY <1>3, <1>4, <1>5

LEMMA PngDeallocateIInv == IInv /\ PngDeallocate => IInv'
<1> SUFFICES ASSUME IInv, PngDeallocate PROVE IInv'
  OBVIOUS
<1>1. PICK n \in 1 .. codec : Budget!Release(n)
  BY DEF PngDeallocate
<1>2. /\ pc \in {"png_open", "png_header", "png_pixels"} /\ pc' = pc
      /\ input' = input /\ options' = options /\ extent' = extent
      /\ meta' = meta /\ native' = native /\ normalized' = normalized
      /\ todo' = todo /\ result' = result /\ failure' = failure
      /\ seen' = seen /\ first' = first
      /\ consumed' = consumed /\ budgetFailure' = budgetFailure
      /\ codec' = codec - n
  BY <1>1 DEF PngDeallocate, LibpngRunning, adapter, request, observed,
              Budget!Release
<1>3. codec \in Nat /\ codec' \in Nat /\ codec' <= codec
  BY <1>1, <1>2 DEF IInv, TypeOK
<1>4. TypeOK'
  BY <1>2, <1>3 DEF IInv, TypeOK
<1>5. /\ BudgetCovers' /\ ReserveAdmitted' /\ ImagesFit'
      /\ ImageExact' /\ Formatted'
  <2>1. /\ consumed \in Nat /\ MaxTemporary \in Nat
        /\ codec <= consumed /\ consumed <= MaxTemporary
    BY <1>2, OptionTypes DEF IInv, TypeOK, BudgetCovers, PngSteps
  <2>2. QED
    BY <2>1, <1>2, <1>3
       DEF IInv, BudgetCovers, ReserveAdmitted, ImagesFit, ImageExact,
           Formatted, Unsized, MaxTemporary, MaxOutput, PngSteps
<1>6. QED
  BY <1>4, <1>5 DEF IInv

LEMMA PngNotReadyIInv == IInv /\ PngNotReady => IInv'
<1> SUFFICES ASSUME IInv, PngNotReady PROVE IInv'
  OBVIOUS
<1>1. failure' \in Failures /\ first' \in Failures /\ UNCHANGED seen
  BY DEF PngNotReady, SetFailure, Raise, observed, IInv, TypeOK, Failures
<1>2. ErrorFor(failure') \in ErrorCodes /\ Return(ErrorFor(failure'))
  BY <1>1, ErrorTypes DEF PngNotReady
<1>3. QED
  BY <1>1, <1>2, ReturnIInv

(* set_failure and the return that follows it.                             *)
LEMMA SetFailureIInv ==
  ASSUME IInv, NEW f \in Failures, SetFailure(f), Return(ErrorFor(failure'))
  PROVE  IInv'
<1>1. failure' \in Failures /\ first' \in Failures /\ UNCHANGED seen
  BY DEF SetFailure, Raise, IInv, TypeOK
<1>2. QED
  BY <1>1, ErrorTypes, ReturnIInv

LEMMA PngJumpIInv == IInv /\ PngJump => IInv'
<1> SUFFICES ASSUME IInv, PngJump PROVE IInv'
  OBVIOUS
<1>1. PICK f \in {"truncated", "unsupported", "malformed"} : SetFailure(f)
  BY DEF PngJump
<1>2. f \in Failures /\ Return(ErrorFor(failure'))
  BY DEF PngJump, Failures
<1>3. QED
  BY <1>1, <1>2, SetFailureIInv

LEMMA PngHeaderIInv == IInv /\ PngHeader => IInv'
<1> SUFFICES ASSUME IInv, PngHeader PROVE IInv'
  OBVIOUS
<1>1. CASE SetFailure("codec") /\ Return(ErrorFor(failure'))
  BY <1>1, SetFailureIInv DEF Failures
<1>2. CASE Abort("codec_failure")
  BY <1>2, AbortIInv DEF ErrorCodes
<1>3. ASSUME NEW e \in CodecExtents, NEW m,
             ~ValidateOrientationLayout(e, m, options).ok,
             Abort(ValidateOrientationLayout(e, m, options).error)
      PROVE  IInv'
  <2>1. e \in Extent /\ options.limits \in Limits
    BY CallAssumption, OptionTypes DEF IInv
  <2>2. ValidateOrientationLayout(e, m, options).error \in ErrorCodes
    BY <1>3, <2>1, ValidationOutcome
  <2>3. QED
    BY <1>3, <2>2, AbortIInv
<1>4. ASSUME NEW m \in MetadataFound \cup {NoMetadata},
             Goto("png_create"), meta' = m, seen' = <<m>>,
             UNCHANGED <<extent, failure, storage, budget, todo, first>>
      PROVE  IInv'
  <2>1. m \in ParsedMetadata
    BY CallAssumption DEF ParsedMetadata
  <2>2. <<m>> \in Seq(ParsedMetadata)
    BY <2>1
  <2>3. TypeOK'
    BY <1>4, <2>1, <2>2
       DEF IInv, TypeOK, Goto, request, storage, budget, Steps
  <2>4. ReserveAdmitted'
    BY <1>4 DEF ReserveAdmitted, Goto
  <2>5. pc = "png_header"
    BY DEF PngHeader
  <2>6. QED
    BY <1>4, <2>3, <2>4, <2>5, MoveIInv
       DEF Goto, request, budget, PngSteps, Unsized
<1>5. QED
  BY <1>1, <1>2, <1>3, <1>4 DEF PngHeader

LEMMA PngCreateIInv == IInv /\ PngCreate => IInv'
<1> SUFFICES ASSUME IInv, PngCreate PROVE IInv'
  OBVIOUS
<1>1. CASE Abort("codec_failure")
  BY <1>1, AbortIInv DEF ErrorCodes
<1>2. ASSUME NEW passes \in PngPasses,
             CreateNative(passes * extent.height, "png_pixels")
      PROVE  IInv'
  <2>1. passes * extent.height \in Nat
    <3>1. passes \in Nat /\ extent.height \in Nat
      BY PngAssumption, ExtentTypes DEF IInv, TypeOK
    <3>2. QED
      BY <3>1
  <2>2. pc = "png_create" /\ "png_pixels" \in Steps
    BY DEF PngCreate, Steps
  <2>3. QED
    BY <1>2, <2>1, <2>2, CreateNativeIInv DEF PngSteps, Unsized
<1>3. QED
  BY <1>1, <1>2 DEF PngCreate

LEMMA PngIInv == IInv /\ PngNext => IInv'
<1> SUFFICES ASSUME IInv, PngNext PROVE IInv'
  OBVIOUS
<1>1. CASE PngReadRow
  BY <1>1, ReadRowIInv DEF PngReadRow
<1>2. CASE PngReadEnd
  BY <1>2, ReturnImageIInv DEF PngReadEnd
<1>3. CASE PngReady
  <2>1. TypeOK'
    BY <1>3 DEF PngReady, IInv, TypeOK, Goto, request, storage, budget,
                observed, Steps
  <2>2. ReserveAdmitted'
    BY <1>3 DEF PngReady, ReserveAdmitted, Goto
  <2>3. QED
    BY <1>3, <2>1, <2>2, MoveIInv
       DEF PngReady, Goto, request, budget, PngSteps, Unsized
<1>4. QED
  BY <1>1, <1>2, <1>3, PngValidateIhdrIInv, PngAllocateIInv, PngDeallocateIInv,
     PngNotReadyIInv, PngJumpIInv, PngHeaderIInv, PngCreateIInv DEF PngNext

-----------------------------------------------------------------------------
(* JPEG.                                                                   *)

LEMMA JpegCreateDecompressorIInv == IInv /\ JpegCreateDecompressor => IInv'
<1> SUFFICES ASSUME IInv, JpegCreateDecompressor PROVE IInv'
  OBVIOUS
<1>1. CASE Abort("resource_limit")
  BY <1>1, AbortIInv DEF ErrorCodes
<1>2. CASE /\ ~(input.size > UnsignedLongMax)
           /\ ~(MaxTemporary < JpegControlBytes)
           /\ Goto("jpeg_header")
  <2>1. /\ pc = "jpeg" /\ pc' = "jpeg_header" /\ codec' = JpegControlBytes
        /\ input' = input /\ options' = options /\ result' = result
        /\ extent' = extent /\ meta' = meta /\ failure' = failure
        /\ native' = native /\ normalized' = normalized
        /\ consumed' = consumed /\ budgetFailure' = budgetFailure
        /\ todo' = todo /\ seen' = seen /\ first' = first
    BY <1>2 DEF JpegCreateDecompressor, Goto, request, budget, observed,
                MaxTemporary
  <2>2. TypeOK'
    BY <2>1, JpegAssumption DEF IInv, TypeOK, Steps
  <2>3. MaxTemporary \in Nat /\ JpegControlBytes <= MaxTemporary
    BY <1>2, OptionTypes, JpegAssumption DEF IInv
  <2>4. /\ BudgetCovers' /\ ReserveAdmitted' /\ ImagesFit'
        /\ ImageExact' /\ Formatted'
    BY <2>1, <2>3
       DEF IInv, BudgetCovers, ReserveAdmitted, ImagesFit, ImageExact,
           Formatted, Unsized, MaxTemporary, MaxOutput, PngSteps
  <2>5. QED
    BY <2>2, <2>4 DEF IInv
<1>3. QED
  BY <1>1, <1>2 DEF JpegCreateDecompressor, MaxTemporary

(* A marker met by either scanning adapter is recorded and merged.         *)
LEMMA RecordIInv ==
  ASSUME IInv, NEW m \in MetadataFound,
         Record(m, MergeOrientationMetadata(meta, m)),
         UNCHANGED <<pc, request, extent, failure, storage, budget, todo,
                     result, first>>,
         pc \notin {"decode", "finish", "transform", "done"}
  PROVE  IInv'
<1>1. /\ m \in ParsedMetadata /\ meta \in ParsedMetadata
      /\ seen \in Seq(ParsedMetadata)
  BY CallAssumption DEF IInv, TypeOK
<1>2. meta' \in ParsedMetadata /\ seen' \in Seq(ParsedMetadata)
  BY <1>1, MergeTypes DEF Record
<1>3. TypeOK'
  BY <1>2 DEF IInv, TypeOK, request, storage, budget
<1>4. ReserveAdmitted'
  BY ReservesKept DEF IInv, ReserveAdmitted, request, storage, MaxTemporary
<1>5. QED
  BY <1>3, <1>4, MoveIInv DEF request, budget, Unsized

LEMMA JpegExifMarkerIInv == IInv /\ JpegExifMarker => IInv'
<1> SUFFICES ASSUME IInv, JpegExifMarker PROVE IInv'
  OBVIOUS
<1>1. PICK m \in MetadataFound : Record(m, MergeOrientationMetadata(meta, m))
  BY DEF JpegExifMarker
<1>2. QED
  BY <1>1, RecordIInv DEF JpegExifMarker, JpegReadsMarkers

LEMMA JpegFailureIInv ==
  IInv /\ (JpegErrorExit \/ JpegBrokenMarker \/ JpegNoHeader
             \/ JpegLayoutMismatch) => IInv'
<1>1. ASSUME IInv, NEW f \in Failures, NEW recorded \in Failures,
             Raise(f, recorded), Return(ErrorFor(failure'))
      PROVE  IInv'
  <2>1. failure' \in Failures /\ first' \in Failures /\ UNCHANGED seen
    BY <1>1 DEF Raise, IInv, TypeOK
  <2>2. QED
    BY <1>1, <2>1, ErrorTypes, ReturnIInv
<1>2. ASSUME IInv, JpegErrorExit PROVE IInv'
  BY <1>1, <1>2 DEF JpegErrorExit, JpegMessageFailures, IInv, TypeOK
<1>3. ASSUME IInv, JpegBrokenMarker PROVE IInv'
  BY <1>1, <1>3 DEF JpegBrokenMarker, Failures
<1>4. ASSUME IInv, JpegNoHeader PROVE IInv'
  BY <1>1, <1>4 DEF JpegNoHeader, Failures, IInv, TypeOK
<1>5. ASSUME IInv, JpegLayoutMismatch PROVE IInv'
  BY <1>1, <1>5 DEF JpegLayoutMismatch, Failures
<1>6. QED
  BY <1>2, <1>3, <1>4, <1>5

(* Two guards are enough: the sum of an admitted extent is a word.         *)
LEMMA JpegWorkExact ==
  ASSUME NEW e \in Extent
  PROVE  LET work == CheckedJpegWorkBytes(e)
         IN  /\ JpegReserve(e) \in Nat
             /\ work.ok => work.value = JpegReserve(e)
             /\ ~work.ok => work.error = "resource_limit"
<1> DEFINE row    == e.width * BytesPerPixel
           room   == WordMax - JpegControlBytes
           narrow == /\ e.width <= WordMax \div BytesPerPixel
                     /\ row <= room \div JpegRowMultiplier
<1>1. row \in Nat
  BY ExtentTypes DEF BytesPerPixel
<1>2. /\ room \in Nat /\ JpegRowMultiplier \in Nat
      /\ JpegRowMultiplier > 0 /\ JpegControlBytes \in Nat
      /\ WordMax \in Nat /\ JpegControlBytes + room = WordMax
  BY JpegAssumption, WidthAssumption
<1>3. JpegReserve(e) = JpegControlBytes + row * JpegRowMultiplier
  BY DEF JpegReserve
<1>4. row * JpegRowMultiplier \in Nat
  <2> HIDE DEF row
  <2>1. QED
    BY <1>1, <1>2
<1>5. /\ room \div JpegRowMultiplier \in Nat
      /\ (room \div JpegRowMultiplier) * JpegRowMultiplier <= room
  <2> HIDE DEF room
  <2>1. QED
    BY <1>2
<1>6. narrow => row * JpegRowMultiplier <= room
  <2> HIDE DEF row, room
  <2>1. narrow =>
          row * JpegRowMultiplier
            <= (room \div JpegRowMultiplier) * JpegRowMultiplier
    BY <1>1, <1>2, <1>5, ProductMonotone
  <2>2. QED
    BY <1>2, <1>4, <1>5, <2>1
<1>7. /\ JpegReserve(e) \in Nat
      /\ narrow => JpegReserve(e) <= WordMax
  <2> DEFINE rows == row * JpegRowMultiplier
  <2>1. rows \in Nat /\ narrow => rows <= room
    BY <1>4, <1>6
  <2>2. rows \in Nat /\ JpegReserve(e) = JpegControlBytes + rows
    BY <1>3, <1>4
  <2> HIDE DEF rows, room, narrow
  <2>3. QED
    BY <1>2, <1>6, <2>2 DEF rows
<1>8. narrow => JpegReserve(e) % (WordMax + 1) = JpegReserve(e)
  <2> HIDE DEF narrow
  <2>1. QED
    BY <1>2, <1>7
<1>9. CheckedJpegWorkBytes(e)
        = IF ~narrow THEN Err("resource_limit")
          ELSE Ok(JpegReserve(e) % (WordMax + 1))
  <2>1. /\ e.width \in Int /\ WordMax \div BytesPerPixel \in Int
        /\ row \in Int /\ room \div JpegRowMultiplier \in Int
    BY <1>1, <1>2, <1>5, ExtentTypes DEF BytesPerPixel
  <2>2. QED
    BY <2>1 DEF CheckedJpegWorkBytes
<1> HIDE DEF narrow
<1>10. QED
  BY <1>7, <1>8, <1>9 DEF Ok, Err

LEMMA JpegHeaderIInv == IInv /\ JpegHeader => IInv'
<1> SUFFICES ASSUME IInv, JpegHeader PROVE IInv'
  OBVIOUS
<1>0. options.limits \in Limits
  BY OptionTypes DEF IInv
<1>1. CASE Abort("unsupported_feature") \/ Abort("resource_limit")
  BY <1>1, AbortIInv DEF ErrorCodes
<1>2. ASSUME NEW e \in CodecExtents,
             \/ /\ ~CheckedDecodeLayout(e, FALSE, options.limits).ok
                /\ Abort(CheckedDecodeLayout(e, FALSE, options.limits).error)
             \/ /\ ~ValidateOrientationLayout(e, meta, options).ok
                /\ Abort(ValidateOrientationLayout(e, meta, options).error)
             \/ /\ ~CheckedJpegWorkBytes(e).ok
                /\ Abort(CheckedJpegWorkBytes(e).error)
      PROVE  IInv'
  <2>1. e \in Extent
    BY CallAssumption
  <2>2. ~CheckedJpegWorkBytes(e).ok
          => CheckedJpegWorkBytes(e).error \in ErrorCodes
    BY <1>0, <2>1, JpegWorkExact DEF ErrorCodes
  <2>3. \E code \in ErrorCodes : Abort(code)
    BY <1>0, <1>2, <2>1, <2>2, LayoutOutcome, ValidationOutcome
  <2>4. QED
    BY <2>3, AbortIInv
<1>3. ASSUME NEW e \in CodecExtents, CheckedJpegWorkBytes(e).ok,
             ~(CheckedJpegWorkBytes(e).value > MaxTemporary),
             Goto("jpeg_layout"), extent' = e,
             codec' = CheckedJpegWorkBytes(e).value,
             UNCHANGED <<meta, failure, native, normalized, budget, todo,
                         observed>>
      PROVE  IInv'
  <2>1. e \in Extent
    BY CallAssumption
  <2>2. /\ codec' \in Nat /\ codec' <= MaxTemporary /\ MaxTemporary \in Nat
        /\ codec' = JpegReserve(e)
    BY <1>3, <2>1, JpegWorkExact, OptionTypes DEF IInv
  <2>3. /\ pc = "jpeg_header" /\ pc' = "jpeg_layout"
        /\ input' = input /\ options' = options /\ result' = result
        /\ extent' = e /\ meta' = meta /\ failure' = failure
        /\ native' = native /\ normalized' = normalized
        /\ consumed' = consumed /\ budgetFailure' = budgetFailure
        /\ todo' = todo /\ seen' = seen /\ first' = first
    BY <1>3 DEF JpegHeader, Goto, request, budget, observed
  <2>4. TypeOK'
    BY <2>1, <2>2, <2>3 DEF IInv, TypeOK, Steps
  <2>5. /\ BudgetCovers' /\ ReserveAdmitted' /\ ImagesFit'
        /\ ImageExact' /\ Formatted'
    BY <2>2, <2>3
       DEF IInv, BudgetCovers, ReserveAdmitted, ImagesFit, ImageExact,
           Formatted, Unsized, MaxTemporary, MaxOutput, PngSteps
  <2>6. QED
    BY <2>4, <2>5 DEF IInv
<1>4. QED
  BY <1>1, <1>2, <1>3 DEF JpegHeader, MaxTemporary

(* The steps of read_pixels that only move on.                             *)
LEMMA JpegMoveIInv ==
  ASSUME IInv, NEW next \in {"jpeg_create", "jpeg_rows", "jpeg_finish"},
         Goto(next), pc \in {"jpeg_layout", "jpeg_start", "jpeg_rows"},
         UNCHANGED <<extent, meta, failure, storage, budget, todo, observed>>
  PROVE  IInv'
<1>1. TypeOK'
  BY DEF IInv, TypeOK, Goto, request, storage, budget, observed, Steps
<1>2. ReserveAdmitted'
  BY ReservesKept DEF IInv, ReserveAdmitted, Goto, request, storage
<1>3. QED
  BY <1>1, <1>2, MoveIInv
       DEF Goto, request, budget, PngSteps, Unsized

LEMMA JpegIInv == IInv /\ JpegNext => IInv'
<1> SUFFICES ASSUME IInv, JpegNext PROVE IInv'
  OBVIOUS
<1>1. CASE JpegCalculateOutput
  <2>1. CASE Abort("codec_failure")
    BY <2>1, AbortIInv DEF ErrorCodes
  <2>2. CASE ~Abort("codec_failure")
    BY <1>1, <2>2, JpegMoveIInv DEF JpegCalculateOutput
  <2>3. QED
    BY <2>1, <2>2
<1>2. CASE JpegCreate
  <2>1. extent.height \in Nat
    BY ExtentTypes DEF IInv, TypeOK
  <2>2. "jpeg_start" \in Steps
    BY DEF Steps
  <2>3. QED
    BY <1>2, <2>1, <2>2, CreateNativeIInv DEF JpegCreate, PngSteps, Unsized
<1>3. CASE JpegStart \/ JpegRowsDone
  BY <1>3, JpegMoveIInv DEF JpegStart, JpegRowsDone
<1>4. CASE JpegReadScanline
  BY <1>4, ReadRowIInv DEF JpegReadScanline
<1>5. CASE JpegFinish
  BY <1>5, ReturnImageIInv DEF JpegFinish
<1>6. QED
  BY <1>1, <1>2, <1>3, <1>4, <1>5, JpegCreateDecompressorIInv, JpegHeaderIInv,
     JpegExifMarkerIInv, JpegFailureIInv DEF JpegNext

-----------------------------------------------------------------------------
(* WebP.                                                                   *)

LEMMA AreaFits ==
  ASSUME NEW e \in Extent
  PROVE  e.width * e.height \in Nat /\ e.width * e.height <= WordMax
<1>1. /\ e.width \in Nat /\ e.height \in Nat /\ DimensionMax \in Nat
      /\ e.width <= DimensionMax /\ e.height <= DimensionMax
      /\ DimensionMax * DimensionMax <= WordMax /\ WordMax \in Nat
  BY WidthAssumption DEF Extent
<1>2. e.width * e.height <= DimensionMax * e.height
  BY <1>1, ProductMonotone
<1>3. e.height * DimensionMax <= DimensionMax * DimensionMax
  BY <1>1, ProductMonotone
<1>4. QED
  BY <1>1, <1>2, <1>3

LEMMA TemporaryIsWord == IInv => MaxTemporary <= WordMax
BY CallAssumption DEF IInv, TypeOK, MaxTemporary, Limits, Word

LEMMA AddExact ==
  ASSUME NEW l \in Nat, NEW r \in Nat
  PROVE  LET sum == CheckedAdd(l, r)
         IN  /\ sum.ok <=> l + r <= WordMax
             /\ sum.ok => sum.value = l + r
             /\ ~sum.ok => sum.error = "resource_limit"
<1>1. CASE r > WordMax - l
  BY <1>1, WidthAssumption DEF CheckedAdd, Err
<1>2. CASE ~(r > WordMax - l)
  <2>1. l + r \in Nat /\ l + r < WordMax + 1
    BY <1>2, WidthAssumption
  <2>2. (l + r) % (WordMax + 1) = l + r
    BY <2>1, WidthAssumption
  <2>3. QED
    BY <1>2, <2>1, <2>2, WidthAssumption DEF CheckedAdd, Ok
<1>3. QED
  BY <1>1, <1>2

(* The five checked steps succeed exactly when the whole sum fits a word,  *)
(* and then they give the sum.                                             *)
LEMMA WebpWorkExact ==
  ASSUME NEW e \in Extent, NEW size \in Nat
  PROVE  LET work == CheckedWebpWorkBytes(e, size)
         IN  /\ WebpReserve(e, size) \in Nat
             /\ work.ok <=> WebpReserve(e, size) <= WordMax
             /\ work.ok => work.value = WebpReserve(e, size)
             /\ ~work.ok => work.error = "resource_limit"
<1> DEFINE area      == e.width * e.height
           pixelNeed == area * WebpBytesPerPixel
           inputNeed == size * WebpBytesPerInputByte
           pixels    == CheckedMultiply(e.width, e.height)
           pixelPart == CheckedMultiply(pixels.value, WebpBytesPerPixel)
           inputPart == CheckedMultiply(size, WebpBytesPerInputByte)
           variable  == CheckedAdd(pixelPart.value, inputPart.value)
           total     == CheckedAdd(WebpControlBytes, variable.value)
           overflows == \/ ~pixels.ok \/ ~pixelPart.ok \/ size > WordMax
                        \/ ~inputPart.ok \/ ~variable.ok
<1>1. /\ e.width \in Nat /\ e.height \in Nat /\ area \in Nat
      /\ area <= WordMax
  BY ExtentTypes, AreaFits
<1>2. /\ WebpControlBytes \in Nat /\ WebpControlBytes <= WordMax
      /\ WebpBytesPerPixel \in Nat /\ WebpBytesPerInputByte \in Nat
      /\ WebpBytesPerInputByte >= 1 /\ WordMax \in Nat
  BY WebpAssumption, WidthAssumption DEF Word
<1>3. pixels.ok /\ pixels.value = area
  BY <1>1, MultiplyExact
<1>4. pixelNeed \in Nat /\ inputNeed \in Nat /\ size <= inputNeed
  <2>1. /\ \A a \in Nat : a * WebpBytesPerPixel \in Nat
        /\ \A a \in Nat : a * WebpBytesPerInputByte \in Nat
    BY <1>2
  <2>2. 1 * size <= WebpBytesPerInputByte * size
    BY <1>2, ProductMonotone
  <2>3. QED
    BY <1>1, <1>2, <2>1, <2>2
<1>5. /\ pixelPart.ok <=> pixelNeed <= WordMax
      /\ pixelPart.ok => pixelPart.value = pixelNeed
  BY <1>1, <1>2, <1>3, MultiplyExact
<1>6. /\ inputPart.ok <=> inputNeed <= WordMax
      /\ inputPart.ok => inputPart.value = inputNeed
  BY <1>2, MultiplyExact
<1>7. WebpReserve(e, size) = WebpControlBytes + (pixelNeed + inputNeed)
  BY DEF WebpReserve
<1>8. CheckedWebpWorkBytes(e, size)
        = IF overflows THEN Err("resource_limit") ELSE total
  BY DEF CheckedWebpWorkBytes
<1> HIDE DEF area, pixelNeed, inputNeed, pixels, pixelPart, inputPart
<1>9. pixelPart.ok /\ inputPart.ok =>
        /\ variable.ok <=> pixelNeed + inputNeed <= WordMax
        /\ variable.ok => variable.value = pixelNeed + inputNeed
  <2> SUFFICES ASSUME pixelPart.ok, inputPart.ok
               PROVE  /\ variable.ok <=> pixelNeed + inputNeed <= WordMax
                      /\ variable.ok => variable.value = pixelNeed + inputNeed
    OBVIOUS
  <2>1. variable = CheckedAdd(pixelNeed, inputNeed)
    BY <1>5, <1>6
  <2> HIDE DEF variable
  <2>2. QED
    BY <1>4, <2>1, AddExact
<1> HIDE DEF variable
<1>10. ~overflows =>
         /\ total.ok <=> WebpReserve(e, size) <= WordMax
         /\ total.ok => total.value = WebpReserve(e, size)
         /\ ~total.ok => total.error = "resource_limit"
  <2> SUFFICES ASSUME ~overflows
               PROVE  /\ total.ok <=> WebpReserve(e, size) <= WordMax
                      /\ total.ok => total.value = WebpReserve(e, size)
                      /\ ~total.ok => total.error = "resource_limit"
    OBVIOUS
  <2>1. variable.value = pixelNeed + inputNeed
    BY <1>9
  <2>2. pixelNeed + inputNeed \in Nat
    BY <1>4
  <2>3. QED
    BY <1>2, <1>7, <2>1, <2>2, AddExact
<1>11. overflows => ~(WebpReserve(e, size) <= WordMax)
  BY <1>2, <1>3, <1>4, <1>5, <1>6, <1>7, <1>9
<1>12. WebpReserve(e, size) \in Nat
  BY <1>2, <1>4, <1>7
<1>13. /\ Err("resource_limit").ok = FALSE
       /\ Err("resource_limit").error = "resource_limit"
  BY DEF Err
<1> HIDE DEF total, overflows
<1>14. QED
  BY <1>8, <1>10, <1>11, <1>12, <1>13

LEMMA InputTypes == TypeOK => input.size \in Nat
BY CallAssumption DEF TypeOK

(* A status libwebp or the scan reports, and the return that follows it.   *)
LEMMA StatusIInv ==
  ASSUME IInv, NEW f \in Failures, Raise(f, failure), Return(ErrorFor(f))
  PROVE  IInv'
BY ErrorTypes, RaiseIInv DEF IInv, TypeOK

LEMMA WebpFeaturesIInv == IInv /\ WebpFeatures => IInv'
<1> SUFFICES ASSUME IInv, WebpFeatures PROVE IInv'
  OBVIOUS
<1>0. options.limits \in Limits /\ input.size \in Nat
  BY OptionTypes, InputTypes DEF IInv
<1>1. CASE \/ Abort("unsupported_feature") \/ Abort("malformed_data")
           \/ Abort("resource_limit")
  BY <1>1, AbortIInv DEF ErrorCodes
<1>2. ASSUME NEW e \in CodecExtents,
             \/ /\ ~CheckedDecodeLayout(e, FALSE, options.limits).ok
                /\ Abort(CheckedDecodeLayout(e, FALSE, options.limits).error)
             \/ /\ ~ValidateOrientationLayout(e, meta, options).ok
                /\ Abort(ValidateOrientationLayout(e, meta, options).error)
             \/ /\ ~CheckedWebpWorkBytes(e, input.size).ok
                /\ Abort(CheckedWebpWorkBytes(e, input.size).error)
      PROVE  IInv'
  <2>1. e \in Extent
    BY CallAssumption
  <2>2. ~CheckedWebpWorkBytes(e, input.size).ok
          => CheckedWebpWorkBytes(e, input.size).error \in ErrorCodes
    BY <1>0, <2>1, WebpWorkExact DEF ErrorCodes
  <2>3. \E code \in ErrorCodes : Abort(code)
    BY <1>0, <1>2, <2>1, <2>2, LayoutOutcome, ValidationOutcome
  <2>4. QED
    BY <2>3, AbortIInv
<1>3. ASSUME NEW e \in CodecExtents, CheckedWebpWorkBytes(e, input.size).ok,
             ~(CheckedWebpWorkBytes(e, input.size).value > MaxTemporary),
             Goto("webp_create"), extent' = e,
             UNCHANGED <<meta, failure, storage, budget, todo, observed>>
      PROVE  IInv'
  <2>1. e \in Extent
    BY CallAssumption
  <2>2. TypeOK'
    BY <1>3, <2>1
       DEF IInv, TypeOK, Goto, request, storage, budget, observed, Steps
  <2>3. WebpReserve(e, input.size) <= MaxTemporary
    BY <1>0, <1>3, <2>1, WebpWorkExact, OptionTypes DEF IInv
  <2>4. ReserveAdmitted'
    BY <1>3, <2>3 DEF ReserveAdmitted, Goto, request, MaxTemporary,
                      WebpReserve
  <2>5. pc = "webp"
    BY DEF WebpFeatures
  <2>6. QED
    BY <1>3, <2>2, <2>4, <2>5, MoveIInv
       DEF Goto, request, budget, PngSteps, Unsized
<1>4. QED
  BY <1>1, <1>2, <1>3 DEF WebpFeatures, MaxTemporary

LEMMA WebpConfigureIInv == IInv /\ WebpConfigure => IInv'
<1> SUFFICES ASSUME IInv, WebpConfigure PROVE IInv'
  OBVIOUS
<1>1. CASE Abort("codec_failure")
  BY <1>1, AbortIInv DEF ErrorCodes
<1>2. CASE ~Abort("codec_failure")
  <2>1. /\ pc = "webp_config" /\ pc' = "webp_decode"
        /\ codec' = CheckedWebpWorkBytes(extent, input.size).value
        /\ input' = input /\ options' = options /\ result' = result
        /\ extent' = extent /\ meta' = meta /\ failure' = failure
        /\ native' = native /\ normalized' = normalized
        /\ consumed' = consumed /\ budgetFailure' = budgetFailure
        /\ todo' = todo /\ seen' = seen /\ first' = first
    BY <1>2 DEF WebpConfigure, Goto, request, budget, observed
  <2>2. /\ codec' \in Nat /\ codec' <= MaxTemporary
        /\ codec' = WebpReserve(extent, input.size)
    <3>1. /\ extent \in Extent /\ input.size \in Nat
          /\ MaxTemporary \in Nat /\ MaxTemporary <= WordMax
      BY InputTypes, OptionTypes, TemporaryIsWord DEF IInv, TypeOK, MaxTemporary
    <3>2. WebpReserve(extent, input.size) <= MaxTemporary
      BY <2>1 DEF IInv, ReserveAdmitted
    <3> DEFINE need == WebpReserve(extent, input.size)
    <3>3. /\ need \in Nat
          /\ need <= WordMax
               => CheckedWebpWorkBytes(extent, input.size).value = need
      BY <3>1, WebpWorkExact
    <3> HIDE DEF need
    <3>4. need <= WordMax
      BY <3>1, <3>2, <3>3, WidthAssumption DEF need
    <3>5. QED
      BY <2>1, <3>2, <3>3, <3>4 DEF need
  <2>3. TypeOK'
    BY <2>1, <2>2 DEF IInv, TypeOK, Steps
  <2>4. /\ BudgetCovers' /\ ReserveAdmitted' /\ ImagesFit'
        /\ ImageExact' /\ Formatted'
    BY <2>1, <2>2
       DEF IInv, BudgetCovers, ReserveAdmitted, ImagesFit, ImageExact,
           Formatted, Unsized, MaxTemporary, MaxOutput, PngSteps
  <2>5. QED
    BY <2>3, <2>4 DEF IInv
<1>3. QED
  BY <1>1, <1>2

LEMMA WebpIInv == IInv /\ WebpNext => IInv'
<1> SUFFICES ASSUME IInv, WebpNext PROVE IInv'
  OBVIOUS
<1>1. CASE WebpExifChunk
  <2>1. PICK m \in MetadataFound : Record(m, MergeOrientationMetadata(meta, m))
    BY <1>1 DEF WebpExifChunk
  <2>2. QED
    BY <1>1, <2>1, RecordIInv DEF WebpExifChunk
<1>2. CASE WebpBrokenContainer \/ WebpNoFeatures
  BY <1>2, StatusIInv
     DEF WebpBrokenContainer, WebpNoFeatures, WebpStatusFailures, Failures
<1>3. CASE WebpCreate
  <2>1. "webp_config" \in Steps /\ 1 \in Nat
    BY DEF Steps
  <2>2. QED
    BY <1>3, <2>1, CreateNativeIInv DEF WebpCreate, PngSteps, Unsized
<1>4. CASE WebpDecodeRows
  BY <1>4, ReadRowIInv DEF WebpDecodeRows
<1>5. CASE WebpDecodeFails
  BY <1>5, StatusIInv, AbortIInv
     DEF WebpDecodeFails, WebpStatusFailures, Failures, ErrorCodes
<1>6. CASE WebpDone
  BY <1>6, ReturnImageIInv DEF WebpDone
<1>7. QED
  BY <1>1, <1>2, <1>3, <1>4, <1>5, <1>6, WebpFeaturesIInv, WebpConfigureIInv
     DEF WebpNext

-----------------------------------------------------------------------------
(* decode and finish_decode.                                               *)

LEMMA DispatchIInv == IInv /\ Dispatch => IInv'
<1> SUFFICES ASSUME IInv, Dispatch PROVE IInv'
  OBVIOUS
<1>1. input.signature \in {"png", "jpeg", "webp"}
  <2>1. input.signature \in Signatures
    BY CallAssumption DEF IInv, TypeOK
  <2>2. input.signature # "prefix" /\ input.signature # "unknown"
    BY DEF Dispatch, AdmissionError
  <2>3. QED
    BY <2>1, <2>2 DEF Signatures
<1>2. TypeOK'
  BY <1>1 DEF Dispatch, IInv, TypeOK, Goto, request, storage, budget, observed,
              Steps
<1>3. ReserveAdmitted'
  BY <1>1 DEF Dispatch, ReserveAdmitted, Goto
<1>4. Formatted'
  BY <1>1 DEF Dispatch, Formatted, Goto, request
<1>5. QED
  BY <1>1, <1>2, <1>3, <1>4, MoveIInv
     DEF Dispatch, Goto, request, budget, PngSteps, Unsized

LEMMA RefuseInputIInv == IInv /\ RefuseInput => IInv'
<1> SUFFICES ASSUME IInv, RefuseInput PROVE IInv'
  OBVIOUS
<1>1. AdmissionError(input, options) \in ErrorCodes
  BY DEF RefuseInput, AdmissionError, ErrorCodes
<1>2. QED
  BY <1>1, AbortIInv DEF RefuseInput

LEMMA DecodedImageTypes ==
  ASSUME TypeOK, Formatted, NEW output \in Extent,
         pc \in {"finish", "transform"}
  PROVE  DecodedImage(output) \in Results
<1>1. input.signature \in {"png", "jpeg", "webp"} /\ extent \in Extent
  BY DEF Formatted, TypeOK
<1>2. meta.value \in Orientations \cup {NoOrientation}
  <2>1. CASE meta \in {NoMetadata, InvalidMetadata}
    BY <2>1 DEF NoMetadata, InvalidMetadata
  <2>2. CASE \E o \in Orientations : meta = ValueMetadata(o)
    BY <2>2 DEF ValueMetadata
  <2>3. QED
    BY <2>1, <2>2 DEF TypeOK, ParsedMetadata
<1>3. OrientationStatus(meta, options.orientation)
        \in {"not_present", "applied", "ignored", "invalid_ignored"}
  BY DEF OrientationStatus
<1>4. QED
  BY <1>1, <1>2, <1>3 DEF DecodedImage, Results

LEMMA FinishUnchangedIInv == IInv /\ FinishUnchanged => IInv'
<1> SUFFICES ASSUME IInv, FinishUnchanged PROVE IInv'
  OBVIOUS
<1>1. DecodedImage(extent) \in Results
  BY DecodedImageTypes DEF IInv, TypeOK, FinishUnchanged
<1>2. /\ pc = "finish" /\ pc' = "done" /\ result' \in Results
      /\ input' = input /\ options' = options /\ extent' = extent
      /\ meta' = meta /\ failure' = failure /\ native' = native
      /\ normalized' = normalized /\ codec' = codec /\ consumed' = consumed
      /\ budgetFailure' = budgetFailure /\ todo' = todo
      /\ seen' = seen /\ first' = first
  BY <1>1 DEF FinishUnchanged, Succeed, request, budget, observed
<1>3. TypeOK'
  BY <1>2 DEF IInv, TypeOK, Steps
<1>4. /\ BudgetCovers' /\ ReserveAdmitted' /\ ImagesFit'
      /\ ImageExact' /\ Formatted'
  BY <1>2
     DEF IInv, BudgetCovers, ReserveAdmitted, ImagesFit, ImageExact,
         Formatted, Unsized, MaxTemporary,
              MaxOutput, PngSteps
<1>5. QED
  BY <1>3, <1>4 DEF IInv

LEMMA FinishApplyIInv == IInv /\ FinishApply => IInv'
<1> SUFFICES ASSUME IInv, FinishApply PROVE IInv'
  OBVIOUS
<1> DEFINE admitted == AdmitTransform(extent, meta.value, options.limits)
           stored   == CheckedDecodeLayout(extent, FALSE, options.limits)
           turned   == CheckedDecodeLayout(extent,
                         OrientationSwapsAxes(meta.value), options.limits)
<1>1. /\ options.limits \in Limits /\ extent \in Extent
      /\ MaxTemporary \in Nat /\ OrientationSwapsAxes(meta.value) \in BOOLEAN
  BY OptionTypes DEF IInv, TypeOK, OrientationSwapsAxes
<1>2. ~admitted.ok => admitted.error \in ErrorCodes
  BY <1>1, LayoutOutcome DEF AdmitTransform, Err, ErrorCodes
<1>3. admitted.ok /\ meta.value # Identity =>
        /\ admitted.value.output_bytes \in Nat
        /\ admitted.value.output_bytes <= MaxOutput
        /\ PixelBytes(extent) <= MaxTemporary
  <2> SUFFICES ASSUME admitted.ok, meta.value # Identity
               PROVE  /\ turned.ok /\ admitted = turned
                      /\ PixelBytes(extent) <= MaxTemporary
    BY <1>1, LayoutOutcome DEF MaxOutput
  <2>1. /\ stored.ok /\ admitted = turned
        /\ ~(stored.value.output_bytes > MaxTemporary)
    BY DEF AdmitTransform, Err, MaxTemporary
  <2>2. stored.value.output_bytes = PixelBytes(extent)
    BY <1>1, <2>1, LayoutBytes
  <2>3. PixelBytes(extent) \in Nat
    BY <1>1, ExtentTypes DEF PixelBytes, BytesPerPixel
  <2> HIDE DEF admitted, stored, turned
  <2>4. QED
    BY <1>1, <2>1, <2>2, <2>3
<1>4. CASE ~admitted.ok \/ Abort("allocation_failure")
  BY <1>2, <1>4, AbortIInv DEF FinishApply, ErrorCodes
<1>5. CASE /\ admitted.ok /\ meta.value = Identity
           /\ Succeed(extent) /\ UNCHANGED <<native, normalized>>
  <2>1. DecodedImage(extent) \in Results
    BY <1>1, DecodedImageTypes DEF IInv, FinishApply
  <2>2. /\ pc = "finish" /\ pc' = "done" /\ result' \in Results
        /\ input' = input /\ options' = options /\ extent' = extent
        /\ meta' = meta /\ failure' = failure /\ native' = native
        /\ normalized' = normalized /\ codec' = codec /\ consumed' = consumed
        /\ budgetFailure' = budgetFailure /\ todo' = todo
        /\ seen' = seen /\ first' = first
    BY <1>5, <2>1 DEF FinishApply, Succeed, request, budget, observed
  <2>3. TypeOK'
    BY <2>2 DEF IInv, TypeOK, Steps
  <2>4. /\ BudgetCovers' /\ ReserveAdmitted' /\ ImagesFit'
        /\ ImageExact' /\ Formatted'
    BY <2>2
       DEF IInv, BudgetCovers, ReserveAdmitted, ImagesFit, ImageExact,
           Formatted, Unsized, MaxTemporary,
                MaxOutput, PngSteps
  <2>5. QED
    BY <2>3, <2>4 DEF IInv
<1>6. CASE /\ admitted.ok /\ meta.value # Identity
           /\ Goto("transform")
           /\ normalized' = admitted.value.output_bytes
           /\ UNCHANGED <<extent, meta, failure, native, codec, budget, todo,
                          observed>>
  <2>1. /\ pc = "finish" /\ pc' = "transform" /\ result' = result
        /\ input' = input /\ options' = options /\ extent' = extent
        /\ meta' = meta /\ failure' = failure /\ native' = native
        /\ codec' = codec /\ consumed' = consumed
        /\ budgetFailure' = budgetFailure /\ todo' = todo
        /\ seen' = seen /\ first' = first
    BY <1>6 DEF FinishApply, Goto, request, budget, observed
  <2>2. TypeOK'
    BY <1>3, <1>6, <2>1 DEF IInv, TypeOK, Steps
  <2>3. native <= MaxTemporary
    BY <1>1, <1>3, <1>6, <2>1 DEF IInv, TypeOK, ImageExact
  <2>4. /\ BudgetCovers' /\ ReserveAdmitted' /\ ImagesFit'
        /\ ImageExact' /\ Formatted'
    BY <1>3, <1>6, <2>1, <2>3
       DEF IInv, BudgetCovers, ReserveAdmitted, ImagesFit, ImageExact,
           Formatted, Unsized, MaxTemporary,
           MaxOutput, PngSteps
  <2>5. QED
    BY <2>2, <2>4 DEF IInv
<1>7. QED
  BY <1>4, <1>5, <1>6 DEF FinishApply

LEMMA FinishTransformIInv == IInv /\ FinishTransform => IInv'
<1> SUFFICES ASSUME IInv, FinishTransform PROVE IInv'
  OBVIOUS
<1> DEFINE output == OutputExtent(extent, OrientationSwapsAxes(meta.value))
<1>1. output \in Extent
  <2>1. extent \in Extent
    BY DEF IInv, TypeOK
  <2>2. QED
    BY <2>1 DEF OutputExtent, Transposed, Extent
<1>2. DecodedImage(output) \in Results
  BY <1>1, DecodedImageTypes DEF IInv, FinishTransform
<1>3. /\ pc = "transform" /\ pc' = "done" /\ result' \in Results
      /\ input' = input /\ options' = options /\ extent' = extent
      /\ meta' = meta /\ failure' = failure /\ native' = 0
      /\ normalized' = normalized /\ codec' = codec /\ consumed' = consumed
      /\ budgetFailure' = budgetFailure /\ todo' = todo
      /\ seen' = seen /\ first' = first
  BY <1>2 DEF FinishTransform, Succeed, request, budget, observed
<1>4. TypeOK'
  BY <1>3 DEF IInv, TypeOK, Steps
<1>5. MaxTemporary \in Nat /\ MaxOutput \in Nat
  BY OptionTypes DEF IInv
<1>6. /\ BudgetCovers' /\ ReserveAdmitted' /\ ImagesFit'
      /\ ImageExact' /\ Formatted'
  BY <1>3, <1>5 DEF IInv, BudgetCovers, ReserveAdmitted, ImagesFit, ImageExact,
                    Formatted, Unsized, MaxTemporary, MaxOutput, PngSteps
<1>7. QED
  BY <1>4, <1>6 DEF IInv

-----------------------------------------------------------------------------

LEMMA InitIInv == Init => IInv
<1> SUFFICES ASSUME Init PROVE IInv
  OBVIOUS
<1>1. TypeOK
  <2>1. extent \in Extent
    BY WidthAssumption DEF Init, Extent
  <2>2. << >> \in Seq(ParsedMetadata)
    OBVIOUS
  <2>3. QED
    BY <2>1, <2>2 DEF Init, TypeOK, Steps, Failures, ParsedMetadata, Results
<1>2. MaxTemporary \in Nat /\ MaxOutput \in Nat
  BY <1>1, OptionTypes
<1>3. QED
  BY <1>1, <1>2 DEF Init, IInv, BudgetCovers, ReserveAdmitted, ImagesFit,
                    ImageExact, Formatted, PngSteps

LEMMA NextIInv == IInv /\ [Next]_vars => IInv'
<1> SUFFICES ASSUME IInv, [Next]_vars PROVE IInv'
  OBVIOUS
<1>1. CASE UNCHANGED vars
  BY <1>1 DEF vars, request, storage, budget, observed, IInv, TypeOK,
              Formatted, BudgetCovers, ReserveAdmitted, ImagesFit, ImageExact,
              MaxTemporary, MaxOutput
<1>2. CASE Next
  BY <1>2, RefuseInputIInv, DispatchIInv, PngIInv, JpegIInv, WebpIInv,
     FinishUnchangedIInv, FinishApplyIInv, FinishTransformIInv DEF Next
<1>3. QED
  BY <1>1, <1>2

(* The inductive invariant of a decode call.                               *)
THEOREM DecodeInvariant == Spec => []IInv
BY InitIInv, NextIInv, PTL DEF Spec

(* Every variable of a call keeps its type, whatever the codecs report.    *)
THEOREM TypeCorrect == Spec => []TypeOK
<1>1. IInv => TypeOK
  BY DEF IInv
<1>2. QED
  BY <1>1, DecodeInvariant, PTL

(* The storage of a call, as the ranges the contract gives it.             *)
StorageBounds ==
  /\ Temporary \in 0 .. options.limits.max_temporary_bytes
  /\ Final \in 0 .. options.limits.max_output_bytes

LEMMA StorageTypes == IInv => StorageBounds
<1> SUFFICES ASSUME IInv PROVE StorageBounds
  OBVIOUS
<1>1. /\ codec \in Nat /\ native \in Nat /\ normalized \in Nat
      /\ MaxTemporary \in Nat /\ MaxOutput \in Nat
  BY OptionTypes DEF IInv, TypeOK
<1>2. normalized > 0 => codec = 0
  BY <1>1 DEF IInv, ImagesFit
<1>3. QED
  BY <1>1, <1>2 DEF IInv, ImagesFit, StorageBounds, Temporary, Final,
                    MaxTemporary, MaxOutput

(* No interleaving of codec allocations, failures, metadata and images     *)
(* takes a call past max_temporary_bytes or max_output_bytes.              *)
THEOREM StorageBounded == Spec => []StorageWithinLimits
<1>1. IInv => StorageWithinLimits
  BY StorageTypes, OptionTypes
     DEF IInv, StorageBounds, StorageWithinLimits, MaxTemporary, MaxOutput
<1>2. QED
  BY <1>1, DecodeInvariant, PTL

-----------------------------------------------------------------------------
(* What a call answers: Decode!AInv beside IInv.                           *)

(* The contract's copies of the operators it shares with the adapters.     *)
LEMMA SharedOperators ==
  /\ Promised!Extent = Extent
  /\ Promised!Orientations = Orientations
  /\ Promised!NoOrientation = NoOrientation
  /\ \A e : Promised!PixelBytes(e) = PixelBytes(e)
  /\ \A e, l : Promised!FitsLimits(e, l) <=> FitsLimits(e, l)
  /\ \A e, b : Promised!OutputExtent(e, b) = OutputExtent(e, b)
  /\ \A o : Promised!OrientationSwapsAxes(o) <=> OrientationSwapsAxes(o)
BY DEF Promised!Extent, Promised!Orientations, Promised!NoOrientation,
       Promised!PixelBytes, Promised!BytesPerPixel, Promised!FitsLimits,
       Promised!OutputExtent, Promised!Transposed,
       Promised!OrientationSwapsAxes, Extent, Orientations, NoOrientation,
       PixelBytes, BytesPerPixel, FitsLimits, OutputExtent, Transposed,
       OrientationSwapsAxes

LEMMA AdmittedOrRefused ==
  ASSUME TypeOK
  PROVE  /\ AdmissionError(input, options) = "none" <=> ~Promised!Refused
         /\ AdmissionError(input, options) # "none"
              => AdmissionError(input, options) \in Promised!RefusalCodes
<1>1. input.signature \in Signatures
  BY CallAssumption DEF TypeOK
<1>2. QED
  BY <1>1 DEF AdmissionError, Promised!Refused, Promised!RefusalCodes,
              Promised!Formats, Signatures

(* Every error an adapter detects itself is one the contract allows.       *)
LEMMA LayoutErrors ==
  ASSUME NEW e, NEW swaps, NEW limits,
         ~CheckedDecodeLayout(e, swaps, limits).ok
  PROVE  CheckedDecodeLayout(e, swaps, limits).error \in Promised!DecodeCodes
BY DEF CheckedDecodeLayout, Ok, Err, Promised!DecodeCodes

LEMMA ValidationErrors ==
  ASSUME NEW e, NEW m, NEW o, ~ValidateOrientationLayout(e, m, o).ok
  PROVE  ValidateOrientationLayout(e, m, o).error \in Promised!DecodeCodes
<1> DEFINE stored == CheckedDecodeLayout(e, FALSE, o.limits)
           turned == CheckedDecodeLayout(e, OrientationSwapsAxes(m.value),
                                         o.limits)
<1>1. /\ ~stored.ok => stored.error \in Promised!DecodeCodes
      /\ ~turned.ok => turned.error \in Promised!DecodeCodes
  BY LayoutErrors
<1>2. ValidateOrientationLayout(e, m, o) \in
        {stored, turned, Err("resource_limit")}
  BY DEF ValidateOrientationLayout
<1> HIDE DEF stored, turned
<1>3. QED
  BY <1>1, <1>2 DEF Err, Promised!DecodeCodes

LEMMA TransformErrors ==
  ASSUME NEW e, NEW o, NEW limits, ~AdmitTransform(e, o, limits).ok
  PROVE  AdmitTransform(e, o, limits).error \in Promised!DecodeCodes
<1> DEFINE stored == CheckedDecodeLayout(e, FALSE, limits)
           turned == CheckedDecodeLayout(e, OrientationSwapsAxes(o), limits)
<1>1. /\ ~stored.ok => stored.error \in Promised!DecodeCodes
      /\ ~turned.ok => turned.error \in Promised!DecodeCodes
  BY LayoutErrors
<1>2. AdmitTransform(e, o, limits) \in {stored, turned, Err("resource_limit")}
  BY DEF AdmitTransform
<1> HIDE DEF stored, turned
<1>3. QED
  BY <1>1, <1>2 DEF Err, Promised!DecodeCodes

LEMMA FailureErrors ==
  ASSUME NEW f \in Failures
  PROVE  ErrorFor(f) \in Promised!DecodeCodes
BY DEF Failures, ErrorFor, Promised!DecodeCodes

(* What validate_orientation_layout admitted, apply_orientation admits.    *)
LEMMA ValidatedTransform ==
  ASSUME NEW e, NEW m, NEW o,
         ValidateOrientationLayout(e, m, o).ok, Applies(m, o)
  PROVE  AdmitTransform(e, m.value, o.limits).ok
<1> DEFINE stored == CheckedDecodeLayout(e, FALSE, o.limits)
           turned == CheckedDecodeLayout(e, OrientationSwapsAxes(m.value),
                                         o.limits)
<1>1. /\ stored.ok /\ turned.ok
      /\ m.value # Identity =>
           ~(stored.value.output_bytes > o.limits.max_temporary_bytes)
  BY DEF ValidateOrientationLayout, Err
<1>2. QED
  BY <1>1 DEF AdmitTransform

LEMMA ReturnAInv ==
  ASSUME IInv, AInv, NEW code, Return(code), UNCHANGED seen,
         code \in IF Promised!Refused THEN Promised!RefusalCodes
                                      ELSE Promised!DecodeCodes,
         \/ first' = "none"
         \/ code = ErrorFor(first')
         \/ input.signature = "jpeg" /\ code = "codec_failure"
  PROVE  AInv'
<1>1. /\ pc' = "done" /\ result' = [code |-> code] /\ native' = 0
      /\ normalized' = 0 /\ codec' = 0 /\ input' = input /\ options' = options
      /\ extent' = extent /\ meta' = meta /\ todo' = todo /\ seen' = seen
  BY DEF Return, request, budget
<1>2. code # "ok"
  BY DEF Promised!RefusalCodes, Promised!DecodeCodes
<1>3. Served' /\ Recoverable' /\ RowsRead'
  BY <1>1 DEF Served, Recoverable, RowsRead, PngSteps, JpegSteps, WebpSteps
<1>4. Admitted' /\ Created' /\ Validated'
  BY <1>1 DEF Admitted, Created, Validated
<1>5. Merged'
  BY <1>1 DEF AInv, Merged, Conflicting, Values
<1>6. Answered'
  BY <1>1, <1>2 DEF Answered, Temporary, Final, Promised!Refused
<1>7. NoPartialImage' /\ OrientationHonest' /\ FirstFailureReported'
  BY <1>1, <1>2 DEF NoPartialImage, OrientationHonest, FirstFailureReported
<1>8. QED
  BY <1>3, <1>4, <1>5, <1>6, <1>7 DEF AInv

LEMMA AbortAInv ==
  ASSUME IInv, AInv, NEW code \in Promised!DecodeCodes, Abort(code),
         pc \notin {"decode", "done"}
  PROVE  AInv'
<1>1. ~Promised!Refused
  BY AdmittedOrRefused DEF IInv, AInv, Served
<1>2. QED
  BY <1>1, ReturnAInv DEF Abort

(* Leaving with the classification of a failure the codec raised.          *)
LEMMA RaiseAInv ==
  ASSUME IInv, AInv, NEW f \in Failures, NEW recorded \in Failures,
         Raise(f, recorded), NEW code, Return(code),
         code \in Promised!DecodeCodes,
         \/ code = ErrorFor(first')
         \/ input.signature = "jpeg" /\ code = "codec_failure",
         pc \notin {"decode", "done"}
  PROVE  AInv'
<1>1. ~Promised!Refused
  BY AdmittedOrRefused DEF IInv, AInv, Served
<1>2. UNCHANGED seen
  BY DEF Raise
<1>3. QED
  BY <1>1, <1>2, ReturnAInv

(* A step that neither starts nor ends the call.                           *)
LEMMA QuietAInv ==
  ASSUME AInv, pc # "done", pc' # "done", UNCHANGED result,
         Served', Recoverable', RowsRead', Admitted', Created', Validated',
         Merged'
  PROVE  AInv'
<1>1. Answered'
  BY DEF AInv, Answered
<1>2. NoPartialImage' /\ OrientationHonest' /\ FirstFailureReported'
  BY DEF NoPartialImage, OrientationHonest, FirstFailureReported
<1>3. QED
  BY <1>1, <1>2 DEF AInv

LEMMA MergedStays ==
  ASSUME AInv, UNCHANGED <<meta, seen>>
  PROVE  Merged'
BY DEF AInv, Merged, Conflicting, Values

(* One more record, merged: what the records amount to, and the metadata.  *)
LEMMA RecordMerged ==
  ASSUME TypeOK, Merged, NEW m \in ParsedMetadata,
         seen' = Append(seen, m), meta' = MergeOrientationMetadata(meta, m)
  PROVE  Merged'
<1> DEFINE n == Len(seen)
<1>1. /\ n \in Nat /\ DOMAIN seen = 1 .. n /\ DOMAIN seen' = 1 .. (n + 1)
      /\ \A i \in 1 .. n : seen'[i] = seen[i]
      /\ seen'[n + 1] = m
  BY DEF TypeOK
<1> HIDE DEF n
<1>2. m.invalid => m.value = NoOrientation
  <2>1. CASE m = NoMetadata \/ m = InvalidMetadata
    BY <2>1 DEF NoMetadata, InvalidMetadata
  <2>2. CASE \E o \in Orientations : m = ValueMetadata(o)
    BY <2>2 DEF ValueMetadata
  <2>3. QED
    BY <2>1, <2>2 DEF ParsedMetadata
<1>3. Values' = Values \cup IF m.value # NoOrientation THEN {n + 1} ELSE {}
  BY <1>1 DEF Values
<1>4. n + 1 \notin Values /\ Values \subseteq 1 .. n
  BY <1>1 DEF Values
<1>5. (\E i \in DOMAIN seen' : seen'[i].invalid)
        <=> m.invalid \/ \E i \in DOMAIN seen : seen[i].invalid
  BY <1>1
<1>6. (\E i, j \in Values' : i # j)
        <=> \/ \E i, j \in Values : i # j
            \/ m.value # NoOrientation /\ Values # {}
  <2>1. CASE m.value = NoOrientation
    BY <1>3, <2>1
  <2>2. CASE m.value # NoOrientation
    <3>1. Values' = Values \cup {n + 1}
      BY <1>3, <2>2
    <3>2. ASSUME NEW i \in Values PROVE \E j, k \in Values' : j # k
      <4>1. i \in Values' /\ n + 1 \in Values' /\ i # n + 1
        BY <1>4, <3>1
      <4>2. QED
        BY <4>1
    <3>3. Values = {} => ~\E j, k \in Values' : j # k
      BY <3>1
    <3>4. QED
      BY <2>2, <3>2, <3>3
  <2>3. QED
    BY <2>1, <2>2
<1>7. Conflicting' <=> \/ Conflicting \/ m.invalid
                       \/ m.value # NoOrientation /\ Values # {}
  BY <1>5, <1>6 DEF Conflicting
<1>8. meta'.invalid <=> Conflicting'
  BY <1>2, <1>7 DEF Merged, MergeOrientationMetadata, InvalidMetadata,
                    ValueMetadata
<1>9. meta'.value # NoOrientation <=> ~Conflicting' /\ Values' # {}
  BY <1>2, <1>3, <1>7 DEF Merged, MergeOrientationMetadata, InvalidMetadata,
                          ValueMetadata
<1>10. ASSUME NEW i \in Values', ~Conflicting'
       PROVE  meta'.value = seen'[i].value
  <2>1. CASE i = n + 1
    <3>1. m.value # NoOrientation /\ ~m.invalid /\ Values = {} /\ ~Conflicting
      BY <1>3, <1>4, <1>7, <1>10, <2>1
    <3>2. meta' = ValueMetadata(m.value)
      BY <3>1 DEF Merged, MergeOrientationMetadata
    <3>3. QED
      BY <1>1, <2>1, <3>2 DEF ValueMetadata
  <2>2. CASE i \in Values
    <3>1. m.value = NoOrientation /\ ~m.invalid /\ ~Conflicting
      BY <1>7, <1>10, <2>2
    <3>2. meta' = meta
      BY <3>1 DEF Merged, MergeOrientationMetadata
    <3>3. QED
      BY <1>1, <1>4, <2>2, <3>1, <3>2 DEF Merged
  <2>3. QED
    BY <1>3, <1>10, <2>1, <2>2
<1>11. QED
  BY <1>8, <1>9, <1>10 DEF Merged

(* Image::create succeeds with the size of the extent, or the call ends.   *)
LEMMA CreateNativeAInv ==
  ASSUME IInv, AInv, NEW calls, NEW next, CreateNative(calls, next),
         \/ pc = "png_create" /\ next = "png_pixels"
         \/ pc = "jpeg_create" /\ next = "jpeg_start"
         \/ pc = "webp_create" /\ next = "webp_config"
  PROVE  AInv'
<1> DEFINE layout == CheckedDecodeLayout(extent, FALSE, options.limits)
<1>1. layout.ok => layout.value.output_bytes = PixelBytes(extent)
  BY OptionTypes, LayoutBytes DEF IInv, TypeOK
<1>2. CASE ~layout.ok \/ Abort("allocation_failure")
  BY <1>2, LayoutErrors, AbortAInv DEF CreateNative, Promised!DecodeCodes
<1>3. CASE layout.ok /\ ~Abort("allocation_failure")
  <2>1. /\ pc' = next /\ native' = PixelBytes(extent)
        /\ input' = input /\ options' = options /\ result' = result
        /\ extent' = extent /\ meta' = meta /\ failure' = failure
        /\ normalized' = normalized /\ seen' = seen /\ first' = first
    BY <1>1, <1>3 DEF CreateNative, Goto, request, budget, observed
  <2> HIDE DEF layout
  <2>2. Served' /\ Recoverable' /\ RowsRead'
    BY <2>1 DEF AInv, Served, Recoverable, RowsRead, PngSteps, JpegSteps,
                WebpSteps
  <2>3. Admitted' /\ Created' /\ Validated'
    BY <2>1 DEF AInv, Admitted, Created, Validated, Unsized, ImageSteps
  <2>4. Merged'
    BY <2>1, MergedStays
  <2>5. QED
    BY <2>1, <2>2, <2>3, <2>4, QuietAInv
<1>4. QED
  BY <1>2, <1>3

(* The adapter hands over a complete image.                                *)
LEMMA ReturnImageAInv ==
  ASSUME AInv, ReturnImage,
         \/ pc \in {"png_pixels", "webp_decode"} /\ todo = 0
         \/ pc = "jpeg_finish"
  PROVE  AInv'
<1>1. /\ pc' = "finish" /\ input' = input /\ options' = options
      /\ result' = result /\ extent' = extent /\ meta' = meta
      /\ failure' = failure /\ native' = native /\ normalized' = normalized
      /\ todo' = todo /\ seen' = seen /\ first' = first
  BY DEF ReturnImage, Goto, request, budget, observed
<1>2. Served' /\ Recoverable' /\ RowsRead'
  BY <1>1 DEF AInv, Served, Recoverable, RowsRead, PngSteps, JpegSteps,
              WebpSteps
<1>3. Admitted' /\ Created' /\ Validated'
  BY <1>1 DEF AInv, Admitted, Created, Validated, Unsized, ImageSteps
<1>4. Merged'
  BY <1>1, MergedStays
<1>5. QED
  BY <1>1, <1>2, <1>3, <1>4, QuietAInv

LEMMA ReadRowAInv ==
  ASSUME AInv, NEW at \in {"png_pixels", "jpeg_rows", "webp_decode"},
         ReadRow(at)
  PROVE  AInv'
<1>1. /\ pc = at /\ pc' = pc /\ input' = input /\ options' = options
      /\ result' = result /\ extent' = extent /\ meta' = meta
      /\ failure' = failure /\ native' = native /\ normalized' = normalized
      /\ seen' = seen /\ first' = first
  BY DEF ReadRow, request, storage, budget, observed
<1>2. Served' /\ Recoverable' /\ RowsRead'
  BY <1>1 DEF AInv, Served, Recoverable, RowsRead
<1>3. Admitted' /\ Created' /\ Validated'
  BY <1>1 DEF AInv, Admitted, Created, Validated
<1>4. Merged'
  BY <1>1, MergedStays
<1>5. QED
  BY <1>1, <1>2, <1>3, <1>4, QuietAInv

(* A step of an adapter that changes only the codec, or the step itself.   *)
LEMMA MoveAInv ==
  ASSUME AInv,
         UNCHANGED <<request, extent, meta, failure, native, normalized, todo,
                     result, observed>>,
         \/ pc' = pc /\ pc \notin {"decode", "done"}
         \/ pc = "png_open" /\ pc' = "png_header"
         \/ pc = "jpeg" /\ pc' = "jpeg_header"
         \/ pc = "jpeg_layout" /\ pc' = "jpeg_create"
         \/ pc = "jpeg_start" /\ pc' = "jpeg_rows"
         \/ pc = "jpeg_rows" /\ todo = 0 /\ pc' = "jpeg_finish"
         \/ pc = "webp_config" /\ pc' = "webp_decode"
  PROVE  AInv'
<1>1. /\ input' = input /\ options' = options /\ result' = result
      /\ extent' = extent /\ meta' = meta /\ failure' = failure
      /\ native' = native /\ normalized' = normalized /\ todo' = todo
      /\ seen' = seen /\ first' = first
  BY DEF request, observed
<1>2. Served' /\ Recoverable' /\ RowsRead'
  BY <1>1 DEF AInv, Served, Recoverable, RowsRead, PngSteps, JpegSteps,
              WebpSteps
<1>3. Admitted'
  BY <1>1 DEF AInv, Admitted, Unsized
<1>4. Created'
  BY <1>1 DEF AInv, Created, ImageSteps
<1>5. Validated'
  BY <1>1 DEF AInv, Validated, Served, JpegSteps, Unsized
<1>6. Merged'
  BY <1>1, MergedStays
<1>7. pc # "done" /\ pc' # "done"
  OBVIOUS
<1>8. QED
  BY <1>1, <1>2, <1>3, <1>4, <1>5, <1>6, <1>7, QuietAInv

(* A record met while no image depends on the metadata.                    *)
LEMMA RecordAInv ==
  ASSUME IInv, AInv, NEW m \in MetadataFound,
         Record(m, MergeOrientationMetadata(meta, m)),
         UNCHANGED <<pc, request, extent, failure, storage, budget, todo,
                     result, first>>,
         pc \in {"jpeg_header", "jpeg_start", "jpeg_finish", "webp"}
  PROVE  AInv'
<1>1. /\ pc' = pc /\ input' = input /\ options' = options
      /\ result' = result /\ extent' = extent /\ failure' = failure
      /\ native' = native /\ normalized' = normalized /\ todo' = todo
      /\ first' = first /\ seen' = Append(seen, m)
      /\ meta' = MergeOrientationMetadata(meta, m)
  BY DEF request, storage, Record
<1>2. Served' /\ Recoverable' /\ RowsRead'
  BY <1>1 DEF AInv, Served, Recoverable, RowsRead
<1>3. Admitted' /\ Created' /\ Validated'
  BY <1>1 DEF AInv, Admitted, Created, Validated, Served, JpegSteps, Unsized
<1>4. Merged'
  BY <1>1, RecordMerged, CallAssumption DEF IInv, AInv
<1>5. pc # "done" /\ pc' # "done"
  BY <1>1
<1>6. QED
  BY <1>1, <1>2, <1>3, <1>4, <1>5, QuietAInv

(* The dimensions are known: from here on the extent is an admitted one.   *)
LEMMA SizedAInv ==
  ASSUME IInv, AInv, NEW e \in CodecExtents,
         CheckedDecodeLayout(e, FALSE, options.limits).ok, extent' = e,
         UNCHANGED <<request, meta, failure, native, normalized, todo, result,
                     observed>>,
         \/ pc = "png" /\ pc' = "png_open"
         \/ /\ \/ pc = "jpeg_header" /\ pc' = "jpeg_layout"
               \/ pc = "webp" /\ pc' = "webp_create"
            /\ ValidateOrientationLayout(e, meta, options).ok
  PROVE  AInv'
<1>1. /\ input' = input /\ options' = options /\ result' = result
      /\ extent' = e /\ meta' = meta /\ failure' = failure
      /\ native' = native /\ normalized' = normalized /\ todo' = todo
      /\ seen' = seen /\ first' = first
  BY DEF request, observed
<1>2. FitsLimits(e, options.limits)
  BY OptionTypes, CallAssumption, LayoutBytes DEF IInv
<1>3. Served' /\ Recoverable' /\ RowsRead'
  BY <1>1 DEF AInv, Served, Recoverable, RowsRead, PngSteps, JpegSteps,
              WebpSteps
<1>4. Admitted'
  BY <1>1, <1>2 DEF Admitted
<1>5. Created'
  BY <1>1 DEF AInv, Created, ImageSteps
<1>6. Validated'
  BY <1>1 DEF Validated, Unsized
<1>7. Merged'
  BY <1>1, MergedStays
<1>8. pc # "done" /\ pc' # "done"
  OBVIOUS
<1>9. QED
  BY <1>1, <1>3, <1>4, <1>5, <1>6, <1>7, <1>8, QuietAInv

-----------------------------------------------------------------------------
(* The answers of the PNG adapter.                                         *)

(* set_failure and the return that follows it.                             *)
LEMMA SetFailureAInv ==
  ASSUME IInv, AInv, NEW f \in Failures \ {"none"}, SetFailure(f),
         Return(ErrorFor(failure')), pc \notin {"decode", "done"}
  PROVE  AInv'
<1> DEFINE recorded == IF failure = "none" THEN f ELSE failure
<1>1. failure = first /\ recorded \in Failures
  BY DEF IInv, TypeOK, AInv, Recoverable
<1>2. failure' = recorded /\ first' = failure'
  BY <1>1 DEF SetFailure, Raise
<1>3. ErrorFor(failure') \in Promised!DecodeCodes
  BY <1>1, <1>2, FailureErrors
<1>4. QED
  BY <1>1, <1>2, <1>3, RaiseAInv DEF SetFailure

LEMMA PngAllocateAInv == IInv /\ AInv /\ PngAllocate => AInv'
<1> SUFFICES ASSUME IInv, AInv, PngAllocate PROVE AInv'
  OBVIOUS
<1>1. /\ pc \in {"png_open", "png_header", "png_pixels"} /\ pc' = pc
      /\ input' = input /\ options' = options /\ extent' = extent
      /\ meta' = meta /\ native' = native /\ normalized' = normalized
      /\ todo' = todo /\ result' = result
  BY DEF PngAllocate, LibpngRunning, adapter, request
<1>2. /\ seen' = seen /\ failure' = first'
      /\ failure' \in {"none", "allocation", "resource_limit"}
  BY <1>1 DEF PngAllocate, SetFailure, Raise, observed, AInv, Recoverable
<1>3. Served' /\ Recoverable' /\ RowsRead'
  BY <1>1, <1>2 DEF AInv, Served, Recoverable, RowsRead, JpegSteps, WebpSteps
<1>4. Admitted' /\ Created' /\ Validated'
  BY <1>1 DEF AInv, Admitted, Created, Validated
<1>5. Merged'
  BY <1>1, <1>2, MergedStays
<1>6. QED
  BY <1>1, <1>3, <1>4, <1>5, QuietAInv

LEMMA PngNotReadyAInv == IInv /\ AInv /\ PngNotReady => AInv'
<1> SUFFICES ASSUME IInv, AInv, PngNotReady PROVE AInv'
  OBVIOUS
<1>1. CASE failure = "none"
  BY <1>1, SetFailureAInv DEF PngNotReady, Failures
<1>2. CASE failure # "none"
  <2>1. /\ seen' = seen /\ failure' = first' /\ failure' \in Failures
        /\ pc = "png_open"
    BY <1>2 DEF PngNotReady, observed, IInv, TypeOK, AInv, Recoverable
  <2>2. ErrorFor(failure') \in Promised!DecodeCodes /\ ~Promised!Refused
    BY <2>1, FailureErrors, AdmittedOrRefused DEF IInv, AInv, Served
  <2>3. QED
    BY <2>1, <2>2, ReturnAInv DEF PngNotReady
<1>3. QED
  BY <1>1, <1>2

LEMMA PngHeaderAInv == IInv /\ AInv /\ PngHeader => AInv'
<1> SUFFICES ASSUME IInv, AInv, PngHeader PROVE AInv'
  OBVIOUS
<1>1. pc = "png_header"
  BY DEF PngHeader
<1>2. CASE SetFailure("codec") /\ Return(ErrorFor(failure'))
  BY <1>1, <1>2, SetFailureAInv DEF Failures
<1>3. CASE Abort("codec_failure")
  BY <1>1, <1>3, AbortAInv DEF Promised!DecodeCodes
<1>4. ASSUME NEW e, NEW m, ~ValidateOrientationLayout(e, m, options).ok,
             Abort(ValidateOrientationLayout(e, m, options).error)
      PROVE  AInv'
  BY <1>1, <1>4, ValidationErrors, AbortAInv
<1>5. ASSUME NEW m \in MetadataFound \cup {NoMetadata},
             ValidateOrientationLayout(extent, m, options).ok,
             Goto("png_create"), meta' = m, seen' = <<m>>,
             UNCHANGED <<extent, failure, storage, budget, todo, first>>
      PROVE  AInv'
  <2>1. /\ pc' = "png_create" /\ input' = input /\ options' = options
        /\ result' = result /\ extent' = extent /\ meta' = m
        /\ failure' = failure /\ native' = native
        /\ normalized' = normalized /\ todo' = todo
        /\ seen' = <<m>> /\ first' = first
    BY <1>5 DEF Goto, request, storage
  <2>2. Served' /\ Recoverable' /\ RowsRead'
    BY <1>1, <2>1 DEF AInv, Served, Recoverable, RowsRead, PngSteps, JpegSteps,
                      WebpSteps
  <2>3. Admitted' /\ Created'
    BY <1>1, <2>1 DEF AInv, Admitted, Created, Unsized, ImageSteps
  <2>4. Validated'
    BY <1>5, <2>1 DEF Validated
  <2>5. Merged'
    <3>1. m.invalid => m.value = NoOrientation
      <4>1. CASE m = NoMetadata \/ m = InvalidMetadata
        BY <4>1 DEF NoMetadata, InvalidMetadata
      <4>2. CASE \E o \in Orientations : m = ValueMetadata(o)
        BY <4>2 DEF ValueMetadata
      <4>3. QED
        BY <4>1, <4>2, CallAssumption DEF ParsedMetadata
    <3>2. DOMAIN seen' = {1} /\ seen'[1] = m
      BY <2>1
    <3>3. Conflicting' <=> m.invalid
      BY <3>2 DEF Conflicting, Values
    <3>4. Values' = IF m.value # NoOrientation THEN {1} ELSE {}
      BY <3>2 DEF Values
    <3>5. QED
      BY <2>1, <3>1, <3>2, <3>3, <3>4 DEF Merged
  <2>6. QED
    BY <1>1, <2>1, <2>2, <2>3, <2>4, <2>5, QuietAInv
<1>6. QED
  BY <1>2, <1>3, <1>4, <1>5 DEF PngHeader

LEMMA PngAInv == IInv /\ AInv /\ PngNext => AInv'
<1> SUFFICES ASSUME IInv, AInv, PngNext PROVE AInv'
  OBVIOUS
<1>1. CASE PngValidateIhdr
  <2>1. pc = "png"
    BY <1>1 DEF PngValidateIhdr
  <2>2. CASE Abort("truncated_data") \/ Abort("malformed_data")
    BY <2>1, <2>2, AbortAInv DEF Promised!DecodeCodes
  <2>3. ASSUME NEW e, ~CheckedDecodeLayout(e, FALSE, options.limits).ok,
               Abort(CheckedDecodeLayout(e, FALSE, options.limits).error)
        PROVE  AInv'
    BY <2>1, <2>3, LayoutErrors, AbortAInv
  <2>4. ASSUME NEW e \in CodecExtents, Goto("png_open"), extent' = e,
               CheckedDecodeLayout(e, FALSE, options.limits).ok,
               UNCHANGED <<meta, failure, storage, budget, todo, observed>>
        PROVE  AInv'
    BY <2>1, <2>4, SizedAInv DEF Goto, storage
  <2>5. QED
    BY <1>1, <2>2, <2>3, <2>4 DEF PngValidateIhdr
<1>2. CASE PngDeallocate \/ PngReady
  BY <1>2, MoveAInv DEF PngDeallocate, PngReady, LibpngRunning, adapter, Goto,
                        storage, request
<1>3. CASE PngJump
  <2>1. PICK f \in {"truncated", "unsupported", "malformed"} : SetFailure(f)
    BY <1>3 DEF PngJump
  <2>2. QED
    BY <1>3, <2>1, SetFailureAInv DEF PngJump, Failures
<1>4. CASE PngCreate
  <2>1. CASE Abort("codec_failure")
    BY <1>4, <2>1, AbortAInv DEF PngCreate, Promised!DecodeCodes
  <2>2. ASSUME NEW calls, CreateNative(calls, "png_pixels") PROVE AInv'
    BY <1>4, <2>2, CreateNativeAInv DEF PngCreate
  <2>3. QED
    BY <1>4, <2>1, <2>2 DEF PngCreate
<1>5. CASE PngReadRow
  BY <1>5, ReadRowAInv DEF PngReadRow
<1>6. CASE PngReadEnd
  BY <1>6, ReturnImageAInv DEF PngReadEnd
<1>7. QED
  BY <1>1, <1>2, <1>3, <1>4, <1>5, <1>6, PngAllocateAInv, PngNotReadyAInv,
     PngHeaderAInv DEF PngNext

-----------------------------------------------------------------------------
(* The answers of the JPEG adapter.                                        *)

(* A failure raised while nothing was recorded before.                     *)
LEMMA FirstRaiseAInv ==
  ASSUME IInv, AInv, NEW f \in Failures \ {"none"},
         NEW recorded \in {f, "codec", failure}, Raise(f, recorded),
         NEW code, Return(code),
         \/ code = ErrorFor(f)
         \/ input.signature = "jpeg" /\ code = "codec_failure",
         pc \in JpegSteps \cup WebpSteps
  PROVE  AInv'
<1>1. first = "none" /\ recorded \in Failures
  BY DEF IInv, TypeOK, AInv, Recoverable, Failures, JpegSteps, WebpSteps
<1>2. first' = f
  BY <1>1 DEF Raise
<1>3. code \in Promised!DecodeCodes
  BY FailureErrors DEF Promised!DecodeCodes
<1>4. pc \notin {"decode", "done"}
  BY DEF JpegSteps, WebpSteps
<1>5. QED
  BY <1>1, <1>2, <1>3, <1>4, RaiseAInv

LEMMA JpegFailureAInv ==
  IInv /\ AInv /\ (JpegErrorExit \/ JpegBrokenMarker \/ JpegNoHeader
                     \/ JpegLayoutMismatch) => AInv'
<1> SUFFICES ASSUME IInv, AInv,
                    \/ JpegErrorExit \/ JpegBrokenMarker
                    \/ JpegNoHeader \/ JpegLayoutMismatch
             PROVE  AInv'
  OBVIOUS
<1>1. pc \in JpegSteps
  BY DEF JpegErrorExit, JpegBrokenMarker, JpegNoHeader, JpegLayoutMismatch,
         JpegRunning, JpegReadsMarkers, JpegSteps
<1>2. input.signature = "jpeg" /\ failure = "none"
  BY <1>1 DEF AInv, Served, Recoverable
<1>3. CASE JpegErrorExit
  <2>1. PICK f \in Failures \ {"none"} : Raise(f, f)
    BY <1>2, <1>3 DEF JpegErrorExit, JpegMessageFailures
  <2>2. Return(ErrorFor(f))
    BY <1>3, <2>1 DEF JpegErrorExit, Raise
  <2>3. QED
    BY <1>1, <2>1, <2>2, FirstRaiseAInv
<1>4. CASE JpegBrokenMarker
  <2>1. PICK f \in {"truncated", "malformed"} :
          Raise(f, IF pc = "jpeg_header" THEN f ELSE "codec")
    BY <1>4 DEF JpegBrokenMarker
  <2>2. PICK recorded \in {f, "codec"} :
          Raise(f, recorded) /\ Return(ErrorFor(recorded))
    BY <1>4, <2>1 DEF JpegBrokenMarker, Raise
  <2>3. ErrorFor("codec") = "codec_failure" /\ f \in Failures \ {"none"}
    BY DEF ErrorFor, Failures
  <2>4. QED
    BY <1>1, <1>2, <2>2, <2>3, FirstRaiseAInv
<1>5. CASE JpegNoHeader
  <2>1. Raise("malformed", "malformed") /\ Return(ErrorFor("malformed"))
    BY <1>2, <1>5 DEF JpegNoHeader, Raise
  <2>2. QED
    BY <1>1, <2>1, FirstRaiseAInv DEF Failures
<1>6. CASE JpegLayoutMismatch
  <2>1. Raise("codec", "codec") /\ Return(ErrorFor("codec"))
    BY <1>6 DEF JpegLayoutMismatch, Raise
  <2>2. QED
    BY <1>1, <2>1, FirstRaiseAInv DEF Failures
<1>7. QED
  BY <1>3, <1>4, <1>5, <1>6

LEMMA JpegAInv == IInv /\ AInv /\ JpegNext => AInv'
<1> SUFFICES ASSUME IInv, AInv, JpegNext PROVE AInv'
  OBVIOUS
<1>1. CASE JpegCreateDecompressor
  <2>1. CASE Abort("resource_limit")
    BY <1>1, <2>1, AbortAInv DEF JpegCreateDecompressor, Promised!DecodeCodes
  <2>2. CASE ~Abort("resource_limit")
    BY <1>1, <2>2, MoveAInv DEF JpegCreateDecompressor, Goto
  <2>3. QED
    BY <2>1, <2>2
<1>2. CASE JpegExifMarker
  <2>1. PICK m \in MetadataFound : Record(m, MergeOrientationMetadata(meta, m))
    BY <1>2 DEF JpegExifMarker
  <2>2. QED
    BY <1>2, <2>1, RecordAInv DEF JpegExifMarker, JpegReadsMarkers
<1>3. CASE JpegHeader
  <2>1. pc = "jpeg_header"
    BY <1>3 DEF JpegHeader
  <2>2. CASE Abort("unsupported_feature") \/ Abort("resource_limit")
    BY <2>1, <2>2, AbortAInv DEF Promised!DecodeCodes
  <2>3. ASSUME NEW e,
               \/ /\ ~CheckedDecodeLayout(e, FALSE, options.limits).ok
                  /\ Abort(CheckedDecodeLayout(e, FALSE, options.limits).error)
               \/ /\ ~ValidateOrientationLayout(e, meta, options).ok
                  /\ Abort(ValidateOrientationLayout(e, meta, options).error)
               \/ /\ ~CheckedJpegWorkBytes(e).ok
                  /\ Abort(CheckedJpegWorkBytes(e).error)
        PROVE  AInv'
    <3>1. ~CheckedJpegWorkBytes(e).ok
            => CheckedJpegWorkBytes(e).error \in Promised!DecodeCodes
      BY DEF CheckedJpegWorkBytes, Ok, Err, Promised!DecodeCodes
    <3>2. \E code \in Promised!DecodeCodes : Abort(code)
      BY <2>3, <3>1, LayoutErrors, ValidationErrors
    <3>3. QED
      BY <2>1, <3>2, AbortAInv
  <2>4. ASSUME NEW e \in CodecExtents, Goto("jpeg_layout"), extent' = e,
               CheckedDecodeLayout(e, FALSE, options.limits).ok,
               ValidateOrientationLayout(e, meta, options).ok,
               UNCHANGED <<meta, failure, native, normalized, budget, todo,
                           observed>>
        PROVE  AInv'
    BY <2>1, <2>4, SizedAInv DEF Goto
  <2>5. QED
    BY <1>3, <2>2, <2>3, <2>4 DEF JpegHeader
<1>4. CASE JpegCalculateOutput
  <2>1. CASE Abort("codec_failure")
    BY <1>4, <2>1, AbortAInv DEF JpegCalculateOutput, Promised!DecodeCodes
  <2>2. CASE ~Abort("codec_failure")
    BY <1>4, <2>2, MoveAInv DEF JpegCalculateOutput, Goto, storage
  <2>3. QED
    BY <2>1, <2>2
<1>5. CASE JpegCreate
  BY <1>5, CreateNativeAInv DEF JpegCreate
<1>6. CASE JpegStart \/ JpegRowsDone
  BY <1>6, MoveAInv DEF JpegStart, JpegRowsDone, Goto, storage
<1>7. CASE JpegReadScanline
  BY <1>7, ReadRowAInv DEF JpegReadScanline
<1>8. CASE JpegFinish
  BY <1>8, ReturnImageAInv DEF JpegFinish
<1>9. QED
  BY <1>1, <1>2, <1>3, <1>4, <1>5, <1>6, <1>7, <1>8, JpegFailureAInv
     DEF JpegNext

-----------------------------------------------------------------------------
(* The answers of the WebP adapter.                                        *)

(* A status libwebp or the scan reports, and the return that follows it.   *)
LEMMA StatusAInv ==
  ASSUME IInv, AInv, NEW f \in WebpStatusFailures, Raise(f, failure),
         Return(ErrorFor(f)), pc \in WebpSteps
  PROVE  AInv'
<1>1. f \in Failures \ {"none"}
  BY DEF WebpStatusFailures, Failures
<1>2. QED
  BY <1>1, FirstRaiseAInv

LEMMA WebpAInv == IInv /\ AInv /\ WebpNext => AInv'
<1> SUFFICES ASSUME IInv, AInv, WebpNext PROVE AInv'
  OBVIOUS
<1>1. CASE WebpExifChunk
  <2>1. PICK m \in MetadataFound : Record(m, MergeOrientationMetadata(meta, m))
    BY <1>1 DEF WebpExifChunk
  <2>2. QED
    BY <1>1, <2>1, RecordAInv DEF WebpExifChunk
<1>2. CASE WebpBrokenContainer \/ WebpNoFeatures
  BY <1>2, StatusAInv
     DEF WebpBrokenContainer, WebpNoFeatures, WebpStatusFailures, WebpSteps
<1>3. CASE WebpFeatures
  <2>1. pc = "webp"
    BY <1>3 DEF WebpFeatures
  <2>2. CASE \/ Abort("unsupported_feature") \/ Abort("malformed_data")
             \/ Abort("resource_limit")
    BY <2>1, <2>2, AbortAInv DEF Promised!DecodeCodes
  <2>3. ASSUME NEW e,
               \/ /\ ~CheckedDecodeLayout(e, FALSE, options.limits).ok
                  /\ Abort(CheckedDecodeLayout(e, FALSE, options.limits).error)
               \/ /\ ~ValidateOrientationLayout(e, meta, options).ok
                  /\ Abort(ValidateOrientationLayout(e, meta, options).error)
               \/ /\ ~CheckedWebpWorkBytes(e, input.size).ok
                  /\ Abort(CheckedWebpWorkBytes(e, input.size).error)
        PROVE  AInv'
    <3>1. ~CheckedWebpWorkBytes(e, input.size).ok
            => CheckedWebpWorkBytes(e, input.size).error
                 \in Promised!DecodeCodes
      BY DEF CheckedWebpWorkBytes, CheckedAdd, Ok, Err, Promised!DecodeCodes
    <3>2. \E code \in Promised!DecodeCodes : Abort(code)
      BY <2>3, <3>1, LayoutErrors, ValidationErrors
    <3>3. QED
      BY <2>1, <3>2, AbortAInv
  <2>4. ASSUME NEW e \in CodecExtents, Goto("webp_create"), extent' = e,
               CheckedDecodeLayout(e, FALSE, options.limits).ok,
               ValidateOrientationLayout(e, meta, options).ok,
               UNCHANGED <<meta, failure, storage, budget, todo, observed>>
        PROVE  AInv'
    BY <2>1, <2>4, SizedAInv DEF Goto, storage
  <2>5. QED
    BY <1>3, <2>2, <2>3, <2>4 DEF WebpFeatures
<1>4. CASE WebpCreate
  BY <1>4, CreateNativeAInv DEF WebpCreate
<1>5. CASE WebpConfigure
  <2>1. CASE Abort("codec_failure")
    BY <1>5, <2>1, AbortAInv DEF WebpConfigure, Promised!DecodeCodes
  <2>2. CASE ~Abort("codec_failure")
    BY <1>5, <2>2, MoveAInv DEF WebpConfigure, Goto
  <2>3. QED
    BY <2>1, <2>2
<1>6. CASE WebpDecodeRows
  BY <1>6, ReadRowAInv DEF WebpDecodeRows
<1>7. CASE WebpDecodeFails
  BY <1>7, StatusAInv, AbortAInv
     DEF WebpDecodeFails, WebpSteps, Promised!DecodeCodes
<1>8. CASE WebpDone
  BY <1>8, ReturnImageAInv DEF WebpDone
<1>9. QED
  BY <1>1, <1>2, <1>3, <1>4, <1>5, <1>6, <1>7, <1>8 DEF WebpNext

-----------------------------------------------------------------------------
(* The answers of decode and finish_decode.                                *)

LEMMA RefuseInputAInv == IInv /\ AInv /\ RefuseInput => AInv'
<1> SUFFICES ASSUME IInv, AInv, RefuseInput PROVE AInv'
  OBVIOUS
<1>1. /\ Promised!Refused
      /\ AdmissionError(input, options) \in Promised!RefusalCodes
  BY AdmittedOrRefused DEF RefuseInput, IInv
<1>2. QED
  BY <1>1, ReturnAInv DEF RefuseInput, Abort

LEMMA DispatchAInv == IInv /\ AInv /\ Dispatch => AInv'
<1> SUFFICES ASSUME IInv, AInv, Dispatch PROVE AInv'
  OBVIOUS
<1>1. /\ pc = "decode" /\ pc' = input.signature
      /\ AdmissionError(input, options) = "none"
      /\ input' = input /\ options' = options /\ result' = result
      /\ extent' = extent /\ meta' = meta /\ failure' = failure
      /\ native' = native /\ normalized' = normalized /\ todo' = todo
      /\ seen' = seen /\ first' = first
  BY DEF Dispatch, Goto, request, storage, observed
<1>2. input.signature \in {"png", "jpeg", "webp"}
  BY <1>1, AdmittedOrRefused DEF IInv, Promised!Refused, Promised!Formats
<1>3. Served' /\ Recoverable' /\ RowsRead'
  BY <1>1, <1>2 DEF AInv, Served, Recoverable, RowsRead, PngSteps, JpegSteps,
                    WebpSteps
<1>4. Admitted' /\ Created' /\ Validated'
  BY <1>1, <1>2 DEF AInv, Admitted, Created, Validated, Unsized, ImageSteps
<1>5. Merged'
  BY <1>1, MergedStays
<1>6. pc # "done" /\ pc' # "done"
  BY <1>1, <1>2
<1>7. QED
  BY <1>1, <1>3, <1>4, <1>5, <1>6, QuietAInv

(* Turning an image changes neither its size nor what it may be.           *)
LEMMA TransposedFits ==
  ASSUME NEW e \in Extent, NEW limits, FitsLimits(e, limits)
  PROVE  /\ FitsLimits(Transposed(e), limits)
         /\ PixelBytes(Transposed(e)) = PixelBytes(e)
<1>1. /\ Transposed(e).width = e.height /\ Transposed(e).height = e.width
      /\ e.height * e.width = e.width * e.height
  BY ExtentTypes DEF Transposed
<1>2. QED
  BY <1>1 DEF FitsLimits, PixelBytes

(* The answer is an image: what finish_decode says of it is what the       *)
(* records and the policy amount to.                                       *)
LEMMA SucceedAInv ==
  ASSUME IInv, AInv, pc \in {"finish", "transform"}, NEW output,
         Succeed(output),
         output = OutputExtent(extent,
                    /\ OrientationStatus(meta, options.orientation) = "applied"
                    /\ OrientationSwapsAxes(meta.value)),
         Temporary' = 0, Final' = PixelBytes(extent)
  PROVE  AInv'
<1> DEFINE status == OrientationStatus(meta, options.orientation)
<1>1. /\ pc' = "done" /\ result' = DecodedImage(output)
      /\ input' = input /\ options' = options /\ extent' = extent
      /\ meta' = meta /\ failure' = failure /\ todo' = todo
      /\ seen' = seen /\ first' = first
  BY DEF Succeed, request, observed
<1>2. /\ result'.code = "ok" /\ result'.format = input.signature
      /\ result'.encoded_extent = extent /\ result'.output_extent = output
      /\ result'.source_orientation = meta.value
      /\ result'.orientation_status = status
  BY <1>1 DEF DecodedImage
<1>3. /\ status = "invalid_ignored" <=> meta.invalid
      /\ status = "not_present"
           <=> ~meta.invalid /\ meta.value = NoOrientation
      /\ status = "applied" <=> /\ ~meta.invalid /\ meta.value # NoOrientation
                                /\ options.orientation # "ignore"
      /\ status = "ignored" <=> /\ ~meta.invalid /\ meta.value # NoOrientation
                                /\ options.orientation = "ignore"
  BY DEF OrientationStatus
<1> HIDE DEF status
<1>4. ~Promised!Refused /\ options.orientation \in {"apply", "ignore"}
  <2>1. ~Promised!Refused /\ options.orientation \in Policies
    BY AdmittedOrRefused, OptionTypes DEF IInv, AInv, Served
  <2>2. QED
    BY <2>1 DEF Promised!Refused, Policies
<1>5. meta.invalid => meta.value = NoOrientation
  BY DEF AInv, Merged
<1>6. /\ FitsLimits(extent, options.limits) /\ FitsLimits(output, options.limits)
      /\ PixelBytes(output) = PixelBytes(extent)
  <2>1. FitsLimits(extent, options.limits)
    BY DEF AInv, Admitted, Unsized
  <2>2. output = extent \/ output = Transposed(extent)
    BY DEF OutputExtent
  <2>3. CASE output = extent
    BY <2>1, <2>3
  <2>4. CASE output = Transposed(extent)
    BY <2>1, <2>4, TransposedFits DEF IInv, TypeOK
  <2>5. QED
    BY <2>2, <2>3, <2>4
<1>7. Answered'
  <2>1. Promised!Consistent(result)'
    <3>1. output = OutputExtent(extent, /\ status = "applied"
                                        /\ OrientationSwapsAxes(meta.value))
      BY DEF status
    <3>2. OutputExtent(extent, /\ status = "applied"
                               /\ OrientationSwapsAxes(meta.value))
            = Promised!OutputExtent(extent,
                /\ status = "applied"
                /\ Promised!OrientationSwapsAxes(meta.value))
      BY DEF OutputExtent, Promised!OutputExtent, OrientationSwapsAxes,
             Promised!OrientationSwapsAxes, Transposed, Promised!Transposed
    <3>3. /\ Promised!FitsLimits(extent, options.limits)
          /\ Promised!FitsLimits(output, options.limits)
      BY <1>6, SharedOperators
    <3>4. meta.value = Promised!NoOrientation
            <=> status \in {"not_present", "invalid_ignored"}
      BY <1>3, <1>5, SharedOperators DEF status
    <3>5. QED
      BY <1>1, <1>2, <1>3, <1>4, <3>1, <3>2, <3>3, <3>4
         DEF Promised!Consistent
  <2>2. ~Promised!Refused'
    BY <1>1, <1>4 DEF Promised!Refused
  <2>3. QED
    BY <1>1, <1>2, <1>6, <2>1, <2>2 DEF Answered
<1>8. OrientationHonest'
  <2>1. Conflicting' = Conflicting /\ Values' = Values
    BY <1>1 DEF Conflicting, Values
  <2>2. /\ meta.invalid <=> Conflicting
        /\ meta.value # NoOrientation <=> ~Conflicting /\ Values # {}
        /\ \A i \in Values : ~Conflicting => meta.value = seen[i].value
    BY DEF AInv, Merged
  <2>3. ~Conflicting /\ Values # {} =>
          meta.value = seen[CHOOSE i \in Values : TRUE].value
    BY <2>2
  <2>4. meta.value = IF Conflicting \/ Values = {} THEN NoOrientation
                     ELSE seen[CHOOSE i \in Values : TRUE].value
    BY <2>2, <2>3
  <2>5. QED
    BY <1>1, <1>2, <1>3, <2>1, <2>2, <2>4 DEF OrientationHonest, status
<1>9. NoPartialImage' /\ FirstFailureReported'
  BY <1>1, <1>2 DEF AInv, RowsRead, Recoverable, NoPartialImage,
                    FirstFailureReported
<1>10. Served' /\ Recoverable' /\ RowsRead'
  BY <1>1 DEF Served, Recoverable, RowsRead, PngSteps, JpegSteps, WebpSteps
<1>11. Admitted' /\ Created' /\ Validated'
  BY <1>1 DEF Admitted, Created, Validated
<1>12. Merged'
  BY <1>1, MergedStays
<1>13. QED
  BY <1>7, <1>8, <1>9, <1>10, <1>11, <1>12 DEF AInv

LEMMA FinishUnchangedAInv == IInv /\ AInv /\ FinishUnchanged => AInv'
<1> SUFFICES ASSUME IInv, AInv, FinishUnchanged PROVE AInv'
  OBVIOUS
<1>1. /\ pc = "finish" /\ ~Applies(meta, options) /\ Succeed(extent)
      /\ native' = native /\ normalized' = normalized /\ codec' = codec
  BY DEF FinishUnchanged, Succeed
<1>2. codec = 0 /\ normalized = 0 /\ native = PixelBytes(extent)
  BY <1>1 DEF IInv, ImagesFit, AInv, Created, ImageSteps
<1>3. Temporary' = 0 /\ Final' = PixelBytes(extent)
  BY <1>1, <1>2 DEF Temporary, Final
<1>4. OrientationStatus(meta, options.orientation) # "applied"
  <2>1. options.orientation \in {"apply", "ignore"}
    <3>1. ~Promised!Refused /\ options.orientation \in Policies
      BY <1>1, AdmittedOrRefused, OptionTypes DEF IInv, AInv, Served
    <3>2. QED
      BY <3>1 DEF Promised!Refused, Policies
  <2>2. QED
    BY <1>1, <2>1 DEF Applies, OrientationStatus
<1>5. QED
  BY <1>1, <1>3, <1>4, SucceedAInv DEF OutputExtent

LEMMA FinishApplyAInv == IInv /\ AInv /\ FinishApply => AInv'
<1> SUFFICES ASSUME IInv, AInv, FinishApply PROVE AInv'
  OBVIOUS
<1> DEFINE admitted == AdmitTransform(extent, meta.value, options.limits)
<1>1. /\ pc = "finish" /\ Applies(meta, options)
      /\ codec = 0 /\ normalized = 0 /\ native = PixelBytes(extent)
  BY DEF FinishApply, IInv, ImagesFit, AInv, Created, ImageSteps
<1>2. CASE ~admitted.ok \/ Abort("allocation_failure")
  BY <1>1, <1>2, TransformErrors, AbortAInv DEF FinishApply, Promised!DecodeCodes
<1>3. CASE /\ admitted.ok /\ meta.value = Identity
           /\ Succeed(extent) /\ UNCHANGED <<native, normalized>>
  <2>1. Temporary' = 0 /\ Final' = PixelBytes(extent)
    BY <1>1, <1>3 DEF Succeed, Temporary, Final
  <2>2. ~OrientationSwapsAxes(meta.value)
    BY <1>3 DEF OrientationSwapsAxes, Identity
  <2>3. QED
    BY <1>1, <1>3, <2>1, <2>2, SucceedAInv DEF OutputExtent
<1>4. CASE /\ admitted.ok /\ meta.value # Identity
           /\ Goto("transform")
           /\ normalized' = admitted.value.output_bytes
           /\ UNCHANGED <<extent, meta, failure, native, codec, budget, todo,
                          observed>>
  <2>1. admitted.value.output_bytes = PixelBytes(extent)
    <3>1. admitted = CheckedDecodeLayout(extent,
                       OrientationSwapsAxes(meta.value), options.limits)
      BY <1>4 DEF AdmitTransform, Err
    <3>2. OrientationSwapsAxes(meta.value) \in BOOLEAN
      BY DEF OrientationSwapsAxes
    <3>3. QED
      BY <1>4, <3>1, <3>2, OptionTypes, LayoutBytes DEF IInv, TypeOK
  <2>2. /\ pc' = "transform" /\ normalized' = PixelBytes(extent)
        /\ input' = input /\ options' = options /\ result' = result
        /\ extent' = extent /\ meta' = meta /\ failure' = failure
        /\ native' = native /\ todo' = todo /\ seen' = seen /\ first' = first
    BY <1>4, <2>1 DEF Goto, request, observed
  <2>3. Served' /\ Recoverable' /\ RowsRead'
    BY <1>1, <2>2 DEF AInv, Served, Recoverable, RowsRead, PngSteps, JpegSteps,
                      WebpSteps
  <2>4. Admitted' /\ Created' /\ Validated'
    BY <1>1, <2>2 DEF AInv, Admitted, Created, Validated, Unsized, ImageSteps
  <2>5. Merged'
    BY <2>2, MergedStays
  <2>6. QED
    BY <1>1, <2>2, <2>3, <2>4, <2>5, QuietAInv
<1>5. QED
  BY <1>2, <1>3, <1>4 DEF FinishApply

LEMMA FinishTransformAInv == IInv /\ AInv /\ FinishTransform => AInv'
<1> SUFFICES ASSUME IInv, AInv, FinishTransform PROVE AInv'
  OBVIOUS
<1>1. /\ pc = "transform" /\ Applies(meta, options) /\ codec = 0
      /\ normalized = PixelBytes(extent) /\ normalized \in Nat
  BY DEF FinishTransform, IInv, TypeOK, ImagesFit, AInv, Created
<1>2. /\ Succeed(OutputExtent(extent, OrientationSwapsAxes(meta.value)))
      /\ native' = 0 /\ normalized' = normalized /\ codec' = codec
  BY DEF FinishTransform, Succeed
<1>3. Temporary' = 0 /\ Final' = PixelBytes(extent)
  BY <1>1, <1>2 DEF Temporary, Final
<1>4. OrientationStatus(meta, options.orientation) = "applied"
  BY <1>1 DEF Applies, OrientationStatus
<1>5. OutputExtent(extent, OrientationSwapsAxes(meta.value))
        = OutputExtent(extent,
            /\ OrientationStatus(meta, options.orientation) = "applied"
            /\ OrientationSwapsAxes(meta.value))
  BY <1>4 DEF OutputExtent
<1>6. QED
  BY <1>1, <1>2, <1>3, <1>5, SucceedAInv

-----------------------------------------------------------------------------

LEMMA InitAInv == Init => AInv
<1> SUFFICES ASSUME Init PROVE AInv
  OBVIOUS
<1>1. Merged
  BY DEF Init, Merged, Conflicting, Values, NoMetadata
<1>2. Served /\ Recoverable /\ RowsRead
  BY DEF Init, Served, Recoverable, RowsRead, PngSteps, JpegSteps, WebpSteps
<1>3. Admitted /\ Created /\ Validated
  BY DEF Init, Admitted, Created, Validated, Unsized, ImageSteps
<1>4. Answered /\ NoPartialImage /\ OrientationHonest /\ FirstFailureReported
  BY DEF Init, Answered, NoPartialImage, OrientationHonest,
         FirstFailureReported
<1>5. QED
  BY <1>1, <1>2, <1>3, <1>4 DEF AInv

LEMMA NextAInv == Inv /\ [Next]_vars => AInv'
<1> SUFFICES ASSUME IInv, AInv, [Next]_vars PROVE AInv'
  BY DEF Inv
<1>1. CASE UNCHANGED vars
  <2>1. /\ pc' = pc /\ input' = input /\ options' = options
        /\ extent' = extent /\ meta' = meta /\ failure' = failure
        /\ native' = native /\ normalized' = normalized /\ codec' = codec
        /\ todo' = todo /\ result' = result /\ seen' = seen /\ first' = first
    BY <1>1 DEF vars, request, storage, observed
  <2>2. Served' /\ Recoverable' /\ RowsRead'
    BY <2>1 DEF AInv, Served, Recoverable, RowsRead
  <2>3. Admitted' /\ Created' /\ Validated'
    BY <2>1 DEF AInv, Admitted, Created, Validated
  <2>4. Merged'
    BY <2>1, MergedStays
  <2>5. Answered'
    BY <2>1 DEF AInv, Answered, Temporary, Final, Promised!Refused,
                Promised!Consistent
  <2>6. NoPartialImage' /\ FirstFailureReported'
    BY <2>1 DEF AInv, NoPartialImage, FirstFailureReported
  <2>7. OrientationHonest'
    BY <2>1 DEF AInv, OrientationHonest, Conflicting, Values
  <2>8. QED
    BY <2>2, <2>3, <2>4, <2>5, <2>6, <2>7 DEF AInv
<1>2. CASE Next
  BY <1>2, RefuseInputAInv, DispatchAInv, PngAInv, JpegAInv, WebpAInv,
     FinishUnchangedAInv, FinishApplyAInv, FinishTransformAInv DEF Next
<1>3. QED
  BY <1>1, <1>2

(* The inductive invariant of what a call answers: with every adapter step *)
(* it keeps the merged metadata equal to what the records amount to, the   *)
(* image sized by an admitted extent and the first failure on record.      *)
THEOREM AnswerInvariant == Spec => []Inv
<1>1. Init => Inv
  BY InitIInv, InitAInv DEF Inv
<1>2. Inv /\ [Next]_vars => Inv'
  BY NextIInv, NextAInv DEF Inv
<1>3. QED
  BY <1>1, <1>2, PTL DEF Spec

(* Whatever a codec does, an image is returned only with every row call    *)
(* made and with no failure left but a refused allocation it recovered     *)
(* from.                                                                   *)
THEOREM NoPartial == Spec => []NoPartialImage
<1>1. Inv => NoPartialImage
  BY DEF Inv, AInv
<1>2. QED
  BY <1>1, AnswerInvariant, PTL

(* For any number of records in any order, the orientation reported and    *)
(* the output extent are the ones the records amount to: none when they    *)
(* conflict or one is malformed.                                           *)
THEOREM OrientationReported == Spec => []OrientationHonest
<1>1. Inv => OrientationHonest
  BY DEF Inv, AInv
<1>2. QED
  BY <1>1, AnswerInvariant, PTL

(* The error returned is the classification of the first failure raised,   *)
(* but for the codec_failure of a suspended JPEG call.                     *)
THEOREM FirstReported == Spec => []FirstFailureReported
<1>1. Inv => FirstFailureReported
  BY DEF Inv, AInv
<1>2. QED
  BY <1>1, AnswerInvariant, PTL

(* A PNG or WebP image exists only when the transform it will go through   *)
(* was admitted.                                                           *)
THEOREM ValidatedBefore == Spec => []ValidatedUnlessJpeg
<1>1. Inv => ValidatedUnlessJpeg
  <2> SUFFICES ASSUME Inv, input.signature # "jpeg", native > 0, pc # "done",
                      Applies(meta, options)
               PROVE  AdmitTransform(extent, meta.value, options.limits).ok
    BY DEF ValidatedUnlessJpeg, ValidatedBeforeStorage
  <2>1. pc \in ImageSteps
    BY DEF Inv, AInv, Created
  <2>2. ValidateOrientationLayout(extent, meta, options).ok
    BY <2>1 DEF Inv, AInv, Validated, ImageSteps, Unsized
  <2>3. QED
    BY <2>2, ValidatedTransform
<1>2. QED
  BY <1>1, AnswerInvariant, PTL

-----------------------------------------------------------------------------
(* decode implements its contract.                                         *)

(* No step changes the request, restarts the call or follows its answer.   *)
LEMMA NextFrame ==
  ASSUME IInv, Next
  PROVE  UNCHANGED <<input, options>> /\ pc # "done" /\ pc' # "decode"
<1>1. CASE RefuseInput \/ Dispatch
  <2>1. CASE RefuseInput
    BY <2>1 DEF RefuseInput, Abort, Return, request
  <2>2. CASE Dispatch
    <3>1. input.signature \in Signatures
      BY CallAssumption DEF IInv, TypeOK
    <3>2. QED
      BY <2>2, <3>1 DEF Dispatch, Goto, request, Signatures
  <2>3. QED
    BY <1>1, <2>1, <2>2
<1>2. CASE PngNext
  BY <1>2 DEF PngNext, PngValidateIhdr, PngAllocate, PngDeallocate,
     PngNotReady, PngReady, PngJump, PngHeader, PngCreate, PngReadRow,
     PngReadEnd, LibpngRunning, adapter, Abort, Return, Goto, CreateNative,
     ReadRow, ReturnImage, request
<1>3. CASE JpegNext
  BY <1>3 DEF JpegNext, JpegErrorExit, JpegCreateDecompressor,
     JpegExifMarker, JpegBrokenMarker, JpegNoHeader, JpegHeader,
     JpegCalculateOutput, JpegCreate, JpegStart, JpegReadScanline,
     JpegLayoutMismatch, JpegRowsDone, JpegFinish, JpegRunning,
     JpegReadsMarkers, Abort, Return, Goto, CreateNative, ReadRow,
     ReturnImage, request
<1>4. CASE WebpNext
  BY <1>4 DEF WebpNext, WebpExifChunk, WebpBrokenContainer, WebpNoFeatures,
     WebpFeatures, WebpCreate, WebpConfigure, WebpDecodeRows,
     WebpDecodeFails, WebpDone, Abort, Return, Goto, CreateNative, ReadRow,
     ReturnImage, request
<1>5. CASE FinishUnchanged \/ FinishApply \/ FinishTransform
  BY <1>5 DEF FinishUnchanged, FinishApply, FinishTransform, Abort, Return,
     Goto, Succeed, request
<1>6. QED
  BY <1>1, <1>2, <1>3, <1>4, <1>5 DEF Next

(* A step that does not return is work within the limits, one that returns *)
(* is one of the two answers.                                              *)
LEMMA StepRefines ==
  ASSUME Inv, Inv', StorageBounds', Next
  PROVE  Promised!Next
<1>1. /\ input' = input /\ options' = options /\ result = Pending
      /\ Promised!Pending = Pending /\ pc' # "decode"
  BY NextFrame DEF Inv, AInv, Answered, Pending, Promised!Pending
<1>2. Promised!Refused' <=> Promised!Refused
  BY <1>1 DEF Promised!Refused
<1>3. CASE pc' # "done"
  <2>1. result' = Pending /\ ~Promised!Refused
    <3>1. AdmissionError(input, options)' = "none" /\ TypeOK'
      BY <1>1, <1>3 DEF Inv, IInv, AInv, Served
    <3>2. AdmissionError(input, options) = "none" /\ TypeOK
      BY <1>1, <3>1 DEF Inv, IInv
    <3>3. QED
      BY <1>3, <3>2, AdmittedOrRefused DEF Inv, AInv, Answered
  <2>2. /\ Temporary' \in 0 .. options.limits.max_temporary_bytes
        /\ Final' \in 0 .. options.limits.max_output_bytes
    BY <1>1 DEF StorageBounds
  <2>3. QED
    BY <1>1, <2>1, <2>2 DEF Promised!Next, Promised!Work
<1>4. CASE pc' = "done" /\ result'.code = "ok"
  <2>1. result' \in Promised!DecodedImages
    <3>1. result' \in Results
      BY DEF Inv, IInv, TypeOK
    <3>2. QED
      BY <1>4, <3>1, SharedOperators
         DEF Results, Pending, ErrorCodes, Promised!DecodedImages,
             Promised!Formats
  <2>2. /\ Temporary' = 0 /\ Promised!Consistent(result)'
        /\ Final' = PixelBytes(result'.output_extent)
        /\ ~Promised!Refused'
    BY <1>4 DEF Inv, AInv, Answered
  <2>3. Promised!Consistent(result')
    BY <1>1, <2>2 DEF Promised!Consistent
  <2>4. Final' = Promised!PixelBytes(result'.output_extent)
    BY <2>2, SharedOperators
  <2>5. QED
    BY <1>1, <1>2, <2>1, <2>2, <2>3, <2>4
       DEF Promised!Next, Promised!AnswerImage
<1>5. CASE pc' = "done" /\ result'.code # "ok"
  <2>1. /\ Temporary' = 0 /\ Final' = 0
        /\ result'.code \in IF Promised!Refused' THEN Promised!RefusalCodes
                                                 ELSE Promised!DecodeCodes
    BY <1>5 DEF Inv, AInv, Answered
  <2>2. result' = [code |-> result'.code]
    <3>1. result' \in Results
      BY DEF Inv, IInv, TypeOK
    <3>2. QED
      BY <1>5, <3>1 DEF Results, Pending
  <2>3. QED
    BY <1>1, <1>2, <2>1, <2>2 DEF Promised!Next, Promised!AnswerError
<1>6. QED
  BY <1>3, <1>4, <1>5

(* A call of decode, with its three adapters and whatever their codecs do, *)
(* is a behaviour of the contract: bounded storage while it works, then    *)
(* one answer, an error with nothing kept or an image that agrees with the *)
(* request and is all the call keeps.                                      *)
THEOREM ContractImplemented == Spec => Contract
<1>1. Init => Promised!Init
  BY DEF Init, Promised!Init, Temporary, Final, Pending, Promised!Pending
<1>2. Inv /\ Inv' /\ StorageBounds' /\ [Next]_vars
        => [Promised!Next]_(Promised!vars)
  <2>1. UNCHANGED vars => UNCHANGED Promised!vars
    BY DEF vars, request, storage, Promised!vars, Temporary, Final
  <2>2. QED
    BY <2>1, StepRefines
<1>3. Inv => StorageBounds
  BY StorageTypes DEF Inv
<1>4. QED
  BY <1>1, <1>2, <1>3, AnswerInvariant, PTL DEF Spec, Contract, Promised!Spec
=============================================================================
