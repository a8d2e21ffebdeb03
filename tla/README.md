# Verification of RasterForge

RasterForge decodes PNG, JPEG and WebP images into owned RGBA storage and
transforms them (fit, composite, tint, dim, opacity). It is a C++23 library
with no threads, files or global state of its own. What makes it hard is what
it stands between: callers who set limits, inputs nobody vouches for, and three
C codecs that call back, jump out with `longjmp`, suspend, allocate and report
dimensions as they please.

This directory holds TLA+ modules translated from `src/`, TLC configurations
that check small instances of them, and TLAPS proofs for every value of their
constants. `PROJECT.json` lists, for machines, what this file explains: the
components, the runs, the source lines each definition models, the hazards and
the theorems.

    tlc -workers 2 -config MCDecode.cfg MCDecode     # one run
    tlapm DecodeProofs.tla                           # one proof module

Paths below are relative to `src/`; line numbers are those of the commit
modelled.

## 1. Inventory

| component | state it keeps | operations | what makes it correct |
| --- | --- | --- | --- |
| layout admission, `src/lib/decode_limits.cpp` | none | `checked_multiply`, `checked_decode_layout` | no product wraps, whatever the width of `size_t`; limits are inclusive; all storage of the library is sized by it |
| codec allocation budget, `decode_limits.cpp` | `limit_`, `consumed_bytes_`, `failure_` | `request`, `release` | cumulative: releases replenish nothing; the first refusal is final; `limit_ - consumed_bytes_` never wraps |
| orientation, `orientation.cpp` | `OrientationMetadata` of one decode | `parse_exif_orientation`, `merge_orientation_metadata`, `validate_orientation_layout`, `apply_orientation` | several records merge the same in any order; both layouts admitted before storage exists; the copied pixel is the one EXIF displays |
| PNG adapter, `png_decoder.cpp` | `PngState` (input cursor, first failure, budget), `PngReader` | `validate_ihdr`, `read_header`, `read_pixels`; callbacks for read, error, warning, unknown chunks, malloc, free | first failure wins; a jump at any row never yields an image; libpng is gone before the transform allocates |
| JPEG adapter, `jpeg_decoder.cpp` | `JpegErrors` (failure, orientation), `JpegReader` | `read_header`, `calculate_output`, `read_pixels`; callbacks for error, warning, APP1 | the same, and suspension of any call ends the decode |
| WebP adapter, `webp_decoder.cpp` | `OrientationMetadata`, `WebPDecoderConfig` | `scan_container_orientation`, `checked_webp_work_bytes`, `decode_webp` | metadata and working storage are known before output exists |
| `decode`, `decode.cpp` | none | admission, signature, dispatch, `finish_decode` | what `DecodeContract` states |
| data model, `include/rasterforge/rasterforge.hpp` | values | `Limits`, `Extent`, `Error`, `DecodedImage` | |
| image ownership, `image.cpp` and the header | `Image`: extent and vector; `DecodedImage` | `create`, moves, `view`, `row` | extent and storage move together; a moved-from object is empty |
| fit geometry, `fit_geometry.cpp` | none | `plan_fit` | rectangles are not empty, stay inside, round to nearest |
| fit, `fit.cpp` | none | `nearest_index`, `fit` | every index is inside the source and nearest to the sample center |
| quality filter, `quality_filter.cpp` | `QualityFilterPlan` | measure, populate, resize | the two passes agree; weights are exact; the storage admitted is the storage used |
| compositing, `composite.cpp`, `premultiplied_rgba.hpp` | none | `composite_over` | one rounding; identity at alpha 0 and 255 |
| pixel transforms, `pixel_transform.cpp` | none | `tint`, `dim`, `adjust_opacity` | one rounding; alpha or color untouched |
| codec probe, command-line program | none | version checks, `--version` | |
| benchmark, `benchmark/` | counters of `allocation_tracker.cpp`, a header before every block; `measure`'s search bounds | `begin`, `end`, `snapshot`, `operator new` and `delete`, `temporary_floor` | a block is charged to the measurement that allocated it; the search ends on the least budget |
| consumer example, `example/consumer/external_rgba.hpp` | another library's `Image`: dimensions and vector | `copy_to_external_rgba8`, moves | a packed, independent copy |
| fuzz harnesses, other examples, tests, build, documentation | | | read, not modelled |

### How they interact

`decode` checks the request, picks one adapter by signature and calls it. The
adapter asks `checked_decode_layout` and `validate_orientation_layout` whether
the image may exist, calls `Image::create` (which asks `checked_decode_layout`
again), lets the codec write into the image and returns image and orientation
metadata by value; its codec object is destroyed on the way. `finish_decode`
then decides by metadata and policy whether `apply_orientation` makes a second
image. What callers get are owners; every other operation (`fit`,
`composite_over`, `tint`, the adapter of the example) borrows views of owners
and returns an owner of its own. There is one thread per call and nothing is shared between calls, so the
interleaving that matters is the one *inside* a call: adapter steps, callbacks,
and the codec stopping at any of its own calls.

### Behaviours that are hard

* **Codec control flow.** libpng and libjpeg leave by `longjmp`; a failure is
  recorded by a callback and looked at much later, possibly after another one.
  libpng survives some refused allocations. libjpeg suspends.
* **State used after it could change.** JPEG's APP1 processor stays installed
  after the header was validated; orientation metadata is read at the end.
* **Budgets.** libpng's is cumulative over churn; JPEG's and WebP's are
  computed reserves; the orientation transform has two images at once.
* **Arithmetic** on dimensions a header may claim, on narrow platforms, and on
  rotated coordinates of non-square images.
* **Rounding** in fit, filter and compositing.
* **Byte walks** over TIFF, RIFF and APP1, where every size is the input's.
* **Moved-from values** of `Image` and `DecodedImage`, and views that outlive
  the object they were taken from but not its storage.
* **Blocks that outlive the measurement** they were allocated in.

`PROJECT.json` lists each hazard at its line, with the properties that cover it.

## 2. Modules

    DecodeLimits ──────────────┬─ MCDecodeLimits ──────┐
      │                        └─ LayoutProofs ────────┤
      ├─ Orientation ──────────┬─ MCOrientation        └─ EncodedProofs
      │    │                   │    └──────────────┐      (with MCEncoded)
      │    │                   ├─ ExifParser ── ExifCarriers ── MCEncoded
      │    │                   │                   Signature ───┘
      │    │                   └─ DecodeContract       (what decode promises)
      │    └─ DecodeCall       (state of one call, shared steps)
      │         ├─ PngDecode ──── INSTANCE AllocationBudget
      │         ├─ JpegDecode
      │         └─ WebpDecode
      │              └─ Decode ── INSTANCE DecodeContract
      │                   ├─ MCDecode
      │                   └─ DecodeProofs  (with LayoutProofs)
      │
      ├─ FitGeometry ──────────── MCFitGeometry ─────────┐
      │    └──────┐                                      │
      ├─ QualityFilter ─ FilterProofs (with LayoutProofs)┤
      │    │      └─ Fit ──────── MCFit                  │
      │    │          └──────────────────────────────────┴─ FitProofs
      │    ├─ MCQualityFilter ─┐
      │    └─ PixelFilter ─────┴─ MCPixelMath ──────────── PixelProofs
      │         PixelMath ──┘                              (with FilterProofs)
      └─ Images ─────────────── MCImages, ImagesProofs  (with LayoutProofs)
    AllocationBudget ── BudgetHistory ──┐
    AllocationTracker ── Benchmark ─────┴─ AllocationProofs  (with FilterProofs)

**DecodeLimits** translates `checked_multiply` and `checked_decode_layout`. The
widths of `uint32_t`, `uint64_t` and `size_t` are constants with one
assumption (an axis product fits a word, a size is a word). Products are taken
modulo the word, so that a missing guard would show. `FitsLimits` is the
reference: the same question asked of unbounded integers.

**AllocationBudget** has one action per way `request` returns (`Grant`,
`RefuseSticky`, `RefuseOverLimit`, `RefuseNoMemory`) and `Release`. Sizes asked
for, releases and `malloc` returning null are the environment's. `live` counts
what the codec holds, which the C++ object does not keep. **BudgetHistory**
adds observation variables (what was handed out over the whole life, in how
many blocks, the first refusal) and states the properties.

**Orientation** has merging, the two admissions (before storage, at the
transform) and the coordinate map. EXIF values are the numbers 1 to 8, the
empty optional is 0. Inside a decode call, what `parse_exif_orientation` does
byte by byte is represented by the set of results it can return. `Displayed` is the reference:
EXIF's definition, by the side of the picture on which the first stored row and
column lie.

**ExifParser**, **ExifCarriers** and **Signature** are the byte walks that the
call of `decode` only sees the results of: the TIFF directory, the RIFF chunks
and the APP1 marker that carry it, and the leading bytes. Offsets count from 0
as in the code. **MCEncoded** writes files from descriptions (a block with two
entries, an odd chunk, a container two bytes too long, a marker cut short) and
reads them back: the reference is the description, which knows no offsets.
One round of the loop in `scan_container_orientation` is `ScanChunk`, and
`ScanChunks` repeats it more often than there are chunks; a round after the last
or after a broken one changes nothing.

**DecodeCall** declares the state of one call. Each adapter step is an action;
`pc` names the step. Storage is three counters in bytes: the codec's
(`codec`), the codec-native image's (`native`) and the normalized image's
(`normalized`); destructors are the zeros in `Return` and `ReturnImage`. Two
variables only observe: `seen` are the EXIF records parsed, in order, and
`first` the first failure a codec raised that it did not recover from.

**PngDecode**, **JpegDecode** and **WebpDecode** are the adapters. A codec is
external: while it runs it may do any callback in any order, report any
dimensions in `CodecExtents`, and stop. So a jump is an action enabled at every
row. `PngAllocate` and `PngDeallocate` are libpng's use of the budget, at any
point of its life. For libjpeg and libwebp, whose allocator the adapters do not
replace, `codec` is the reserve the adapter admitted for them.

**Decode** is admission and dispatch, the adapters, and `finish_decode`.
`FinishApply` and `FinishTransform` split the transform where two images exist.

**DecodeContract** is the abstract specification: no codec, no steps, only the
request, bounded storage while working, and one answer.

**FitGeometry** is `plan_fit` and `nearest_index`, in words of the width the
constants give, so that a product too wide would wrap. **MCFitGeometry** calls
`plan_fit` once per behavior and states what a plan must be.

**QualityFilter** is the coefficient plan of the triangle filter: which source
indices a destination index mixes, with which integer weights, and how many
bytes both axes take. An axis is a function from destination index to a
function from source index to weight, which is what spans and taps encode.
**MCQualityFilter** compares it with the triangle on all integers, clamped.

**PixelMath** is the integer arithmetic of `premultiplied_rgba.hpp` and
`pixel_transform.cpp`, in bytes of a width the constant `ChannelMax` gives, with
the casts as remainders. Red, green and blue are computed alike and apart, so a
pixel is one color and its alpha. **PixelFilter** is the kernel of
`resize_quality_rgba`, from spans and pixels to one pixel. **MCPixelMath**
compares both with exact arithmetic.

**Fit** composes the two with layout admission into one call of `fit`: plan,
coefficients, output, matte row by row, samples row by row. A pixel of the
output is the set of source pixels it is made from; matte is the empty set, and
`Black`, what a new image holds, is no source pixel at all.

**Images** is storage as callers see it. Objects exist in slots, pixels in
buffers of a heap, and an image is its extent, its stride and the buffer it
owns; a view is the same three without owning. Every operation on images is one
action: `Image::create`, a `decode` that succeeded, move construction and
assignment of `Image` and `DecodedImage` (which keeps its encoded extent when its
image is gone), destruction, borrowing and writing, `composite_over`, the pixel
transforms, and the example's copy into another library's image, whose moves
are the defaulted ones. The caller is held to one rule of the library's README:
it uses no view whose storage was freed. A pixel has two colors here, its
arithmetic being PixelMath's.

**AllocationTracker** is the benchmark's `operator new` and `delete` and the
measurement around them; `measured` observes which blocks a measurement
allocated itself. **Benchmark** drives it as `measure` does, case after case:
the search for the temporary budget, the warmup, one operation under the
tracker. Operations are external: they allocate and free at will, keep blocks
for later, and succeed from some budget on.

Names correspond to the code (`png_allocate` is `PngAllocate`,
`CodecAllocationBudget::request` is the four actions above). Operators that
begin with a comment "Mutant" are variants of the operator that follows them,
each a plausible bug; a property is only kept when such a variant breaks it.

### Abstractions

* A message is its error code, a signature is the class it decides (`prefix`
  is a signature cut short) except in Signature, an image is its size and, in
  MCOrientation, the source of each pixel.
* Sample conversions asked of the codecs (`png_set_expand`, `out_color_space`)
  and the flag `has_alpha` are left out: they change no state below.
* `CreateNative` admits again, as `Image::create` does, then may fail to
  allocate. Branches the code only has as defence (`row(0)` of an image just
  created) are inside `Abort("codec_failure")` of the same step where it has
  such an outcome, and left out where it has none: in `JpegCreate`, `WebpCreate`,
  `FinishTransform` and `MatteRow`, whose row is below the height it loops to.
* libjpeg's own limit, `max_memory_to_use`, is enforced inside libjpeg. Here it
  is one of the failures `JpegErrorExit` raises.
* A focal coordinate, a `float`, is a multiple of 1/`FocusOne`, any integer
  multiple, so clamping is real; its product with the slack is then exact,
  where the code rounds a `double` (a 24-bit times a 32-bit significand).
* A factor of `dim` or `adjust_opacity` is likewise a multiple of 1/`FactorOne`,
  any integer multiple, or not finite.
* How an operation fails is one outcome, `refused`, in Images, except for a row
  that is missing, which no caller may ever see.
* The 128-bit integers of `quality_filter.cpp` are unbounded integers: the sums
  they hold stay far below their width for 32-bit axes. What is stored in 64
  bits is compared with the word.
* A vector's `max_size` is `SizeMax` in bytes.
* Reserve formulas of JPEG and WebP are taken in a word that wraps, with the
  checks of the code in the order of the code; their constants are parameters.
  `JpegReserve` and `WebpReserve` are the same sums on unbounded integers.

## 3. Runs

| run | question | states |
| --- | --- | --- |
| `limits` | does `checked_decode_layout` admit exactly what fits, and compute it exactly? | 81 920 |
| `budget` | can any life of a budget pass its limit, or undo a refusal? | 600 |
| `encoded` | is what the readers of bytes find what the file says, and is it displayed upright? | 12 852 |
| `decode` | storage, completeness, metadata, errors, contract and termination of a call of any format | 213 761 |
| `decode_jpeg_validated` | is JPEG's orientation validated before storage exists? violated, see Findings | |
| `decode_jpeg_codec_failure` | is `codec_failure` JPEG's last resort? violated, see Findings | |
| `fit_geometry` | are planned rectangles and samples where they must be? | 64 800 |
| `fit_nearest_centers` | is every nearest sample at the center? violated, see Findings | |
| `pixels` | are weights, resized pixels, compositions and transforms those of exact arithmetic? | 186 086 |
| `fit` | is every pixel of a finished image decided as planned, within the limits? | 20 754 |
| `images` | does storage keep one owner, its shape and its pixels, whatever a caller does with images? | 149 144 |
| `benchmark` | does a sample count its own operation only, and does the search end on the least budget? | 1 888 916 |

**limits.** Axes 0..7, words 0..63, sizes 0..47: `4 * 7 * 7` wraps the word,
and sizes between 48 and 63 fit a word and not a `size_t`. Limits stand on, one
below and one above values the extents reach. `LayoutSound` and
`LayoutComplete` are the two directions of "exactly"; together with the proof
below they say everything about this function.

**budget.** Words 0..7, requests of 0, 1, 3 and 7 bytes, every limit: the limit
is met exactly, missed by one, and passed; the word is narrow enough for
`consumed_bytes_` to wrap if it could. The run also checks the inductive
invariant that is proved. It stops when nothing fits and nothing is held, so
deadlock is not checked, nor in any run of a single call.

**encoded.** About 6000 files, each wrong in at most a few of the places its
reader checks. TIFF blocks: both byte orders and neither, all eight values,
wrong tags, types, counts and values (also ones that are right when read in the
other byte order), up to three entries, a gap before the directory, a directory
in the header, at the edge, at and past the end and far beyond it, an entry
count one too large, and every length from 20 bytes short to 13 too long.
Containers: up to three chunks, odd and even, with and without the identifier,
empty, broken; container and chunk sizes off by what the checks distinguish,
bytes missing or following. Markers: all lengths at the limits. Heads: the three
signatures, each byte replaced, cut at every length, with two fillings of RIFF's
size. Numbers stay below 2^31, the checker's integers; the `huge` directory
offset is 2^30. `TiffExact`, `ScanExact`, `MarkerExactly` and `SignatureExact`
say that the answer is what the description says. A file with an orientation is
then displayed, on all extents up to 4 x 4, squares and lines included:
`UprightExactly` is the one property of MCOrientation. One pixel in a corner of
a 2 x 3 image tells the eight maps apart; the rest is the edges.

**decode.** A call with any of three signatures, or none, or a prefix; all
policies, one unrecognized; limits where the transform fits beside the native
image, does not, and where a dimension, the pixels or the output stop it; seven
extents, one empty and one too large; words of 0..14, so that the working
reserve of an admitted image of three pixels does not fit them; a JPEG input
longer than libjpeg's `unsigned long`; orientations 1 (identity), 3 (same axes)
and 6 (swapped), none, and invalid; two records per input, enough for every
pair of merges; one and two interlace passes; two sizes for libpng's requests.
A reported extent may differ from IHDR's. Its properties:

* `StorageWithinLimits` - codec storage, with the native image once a
  normalized one exists beside it, is within `max_temporary_bytes`; the image to
  be returned is within `max_output_bytes`. It fails if a codec object outlives
  its adapter.
* `NoPartialImage` - success means every row call was made and nothing but a
  refused optional allocation had failed.
* `OrientationHonest` - what the result says of orientation follows from the
  records seen, in whatever order.
* `Contract` - the call implements `DecodeContract`: it answers once, refuses
  what it must with the right class of error, leaves storage only for the image
  it returns, exactly as large as that image, and the image's fields agree with
  one another and with the request.
* `Termination` - every call returns.
* `TypeOK`, and `Inv`, the inductive invariants of the proofs. A part of `Inv`,
  `ReserveAdmitted`, says that what an adapter admits and charges for libjpeg
  and libwebp is the whole reserve of their formulas: it fails if one of the
  checked sums wraps, and an image of three pixels then looks cheap.
* `ValidatedUnlessJpeg` - while pixel storage exists, the transform the metadata
  asks for would be admitted. For JPEG this is not so (Findings).
* `FirstFailureReported` - an exhausted budget is not reported as the malformed
  data a codec complains of afterwards; JPEG may report `codec_failure` instead.

**fit_geometry.** All pairs of extents from 0 x 0 to 5 x 5, every policy, focal
coordinates before 0, at 0, between, on and past 1, and a non-finite one. Words
of 0..25 are just wide enough for a product of two axes. Ratios reach 1 : 5 and
contain equal, nearly equal and half-way cases. `PlanSound` (rectangles inside,
exactly the valid requests planned), `AxesAlike` (turning the request turns the
plan, so the two branches of contain and cover agree where they meet),
`AspectKept` (the derived axis is the nearest integer, ties up), `SamplesSound`
(samples inside, in order, and centered up to a reduction by two).

**pixels.** Axes: all pairs of lengths up to 12 and a word of 0..200, which the
sums of the longer axes exceed: both answers occur. The largest reduction,
12 to 1, folds twelve indices onto each edge. `WeightsExact` compares every
span, index by index, with the reference. Pixels: a channel is 0..15, so a
division by alpha 1 and 2, the largest roundings, are a good part of all; every
pair of the 256 pixels is composited (`SourceOverExact`), each is dimmed and
faded by factors from below 0 to above 1 in eighths and by one that is not
finite (`TransformsExact`). Images of 1, 4 and some of 9 pixels that are hidden,
faint, translucent and opaque are resized to 1 to 3 pixels a side with the
weights of the plan: `HiddenColorsStayHidden` paints the invisible pixels and
sees no difference, `MixesWithinColors` bounds how far two roundings may carry a
color past those it was mixed from. Which images and sizes are resized is the
configuration's choice (`MixImages`, `MixSides`); the proofs hold for any.

**fit.** Five source and five destination extents, one of each empty, lines,
reductions and enlargements; every policy and filter, unrecognized ones
included; limits that admit both coefficient axes, only one of them, neither,
and that refuse the output. Allocation may fail wherever it happens.
`FitComplete` (each pixel is matte or made from the planned crop),
`NothingSkipped` (the triangle filter loses no pixel of the crop),
`StorageAdmitted` (both axes together within `max_temporary_bytes`, nothing
left after an error), `ErrorsAreTheCallers` (the defensive errors of rows and
rectangles are unreachable).

**images.** Two `Image` and two `DecodedImage` variables, two images of the other
library, one view the caller keeps beside the ones it takes on the spot, three
buffers (so that two are composited into a third), images of one row, of one
column, empty and too large, one write. Everything may be done in any order and
any number of times; only writes are bounded (`MaxWrites`). Slots and buffers are
symmetric. Its properties:

* `OwnersSound` - an image is empty in extent, stride and storage or in none of
  them, each buffer has one owner, none is leaked; encoded and output extent of
  a decoded image with pixels belong together.
* `ViewsInside` - rows of every view the caller may use split live storage among
  them, also after the image moved on.
* `NothingLost` (of steps) - a buffer goes with its owner only, keeps its shape
  through moves, and its pixels through everything but a write.
* `NoRowFails` - no operation on live views reports a missing row.
* `ExternalExact` - a copy holds, row by row, what its source held when copied.

**benchmark.** Budgets of 0..3, operations that need any of them or more; three
blocks of 1 and 2 bytes (a request of 0 counts as 1) and requests too large for
a header; generations of 1 and 2, so that the counter wraps past 0 again and
again. Bounds: `MaxCalls` allocations per measurement, and no block lives
through a whole round of generations, 2^64 measurements in the code (the guard
of `Begin`). No measurement allocates 2^64 bytes in all (`TrackerAssumption`).
`SampleExact` recounts the measurement's own blocks; `FloorExact` keeps the least
budget between the two ends of the search and says it ends there.

### Fairness

Only `decode` assumes any: `WF_vars(Next)`. A call runs on its caller's thread
and waits for no one, so as long as a step is possible one is taken; the
assumption on the codec is that inside a call it does something (a callback, a
row, a return) and does not spin. Nothing says *which* step: termination holds
because each step uses something up. Requests use up the budget, releases use
up what was granted, records use up `MaxRecords` (a finite input), rows use up
the image, and everything else moves `pc` forward.

`MaxRecords` is the one bound in a guard. It stands for the length of the
input. The safety theorems do not depend on its value.

## 4. Proofs

What TLC shows on small instances, TLAPS proves for every value of the
constants that satisfies the named assumptions. They are what the types of the
code say (`WidthAssumption`: 32-bit axes multiply within a word and sizes are
words; `AxisAssumption`: three axes add up in a word; `BudgetAssumption`,
`FocusAssumption`, `PixelAssumption`, `CoefficientAssumption`,
`DefaultAssumption`: counts are natural numbers, ranges, fractions and sizes of
elements positive), that the sets a configuration chooses have the right
elements (`LimitSetsAssumption`, `FocalPointsAssumption`,
`PlanFocalPointsAssumption`, `FitAssumption`, `ImagesAssumption`,
`MixAssumption`, `CallAssumption`, `PngAssumption`, `JpegAssumption`,
`WebpAssumption`), and one about the world: `TrackerAssumption`, that what one
measurement may allocate in all fits the tracker's 64-bit counters.

Every safety property of the passing runs is proved.

* **LayoutProofs.** `LayoutExact`: for all extents and limits,
  `CheckedDecodeLayout` succeeds exactly when `FitsLimits`, and its numbers are
  the true products. It rests on `MultiplyExact`: the guard
  `left > max / right` holds exactly when the product exceeds the word. The
  step of interest is that the row fits whenever the image does, so the
  order of the guards loses nothing. The module also holds `LeastNatural`, by
  which all these modules count.
* **EncodedProofs**, extents: `LayoutSoundness` and `LayoutCompleteness`, the two
  properties of the run `limits`, from `LayoutExact`. `Upright`:
  `UprightExactly` for every extent, by the eight cases (`UprightPixel`).
* **EncodedProofs**, bytes: `SignatureResolves`, `TiffRead`, `MarkerRead` and
  `ScanRead` say what the code answers for any head, any TIFF block, any APP1
  marker about one and any WebP container of some; `SignaturesExact`,
  `TiffsExact`, `MarkersExact` and `ScansExact` are the properties of the run
  `encoded`, whose files are among these. A reader computes its places from
  bytes it read, while a description knows only what follows what; `Stands`
  (a part is found at a place) carries the one over to the other through every
  join, cut and padding. Numbers are read back from two or four digits in either
  byte order (`Reads16`, `Reads32`) if they have room there: that, and nothing
  about how many entries there are or where the block ends, is what `Blocks`
  asks. The loop over the entries meets the tagged ones and no other, since
  behind them stand zeros (`WalkAgrees`, `TiffSpare`). A marker's payload is its
  block with another tail (`BlockRetailed`); what is cut from a block and what
  follows it are not told apart by its length, so `Marked` excludes a block that
  lost more than its closing zeros and is followed by others in their place.
* **EncodedProofs**, containers: `ScanRead` is about any number of chunks
  (`Framed`: EXIF or not, odd or even, a container up to four bytes too short or
  eight too long, or exact with the last chunk's size one off; the input may end
  anywhere). Where a chunk stands is the sum of the chunks before it, which
  neither the scan nor the description writes down: `BodyLaid` gives it as a
  function `at`, from the library's `FlattenSeq` by least counterexample
  (`FlattenExists`). One round of the loop leads from `After(f, at, k - 1)` to
  `After(f, at, k)` (`FrameRound`): what the first `k` chunks say together is
  `Verdict`, which merging one more record carries on (`VerdictMerged`).
  `ScanRounds` shows that the loop ends in the state that a round leaves as it
  is: every chunk has a header (`HeadersFit`), so no more rounds lead there than
  headers fit. Then the ends: exact (`EndsExact`), with room for a chunk of eight
  zeros (`EndsZero`), inside a header (`EndsBroken`), inside the last chunk
  (`EndsBeyond`), or two bytes behind it, where an odd payload gave its last byte
  to the padding (`EndsBefore`). `LastCases` says which sizes of the last chunk fit.
* **EncodedProofs**, from bytes to pixels: `DisplayedUpright` is
  `UprightExactly` in the run `encoded`, where the orientation is not chosen but
  read off a container, and `DisplayedAsSaid` joins it to `ScanRead`: a pixel
  that is shown is the stored one that EXIF displays there for what the
  *description* says (`ShownAsSaid`). The invariant `Shows` says that nothing is
  shown before a container was read, and only what was read is applied;
  `SaysMetadata` that chunks say together what one of them could, so that what
  is applied is one of the eight.
* **AllocationProofs**, the budget: `BudgetInvariant`, `CumulativeBudget`,
  `FiniteBlocks`, `RefusalIsFinal`. `CumulativeWithinLimit` alone is not
  inductive: what `request` compares with is `consumed_bytes_`, so the invariant
  adds that it equals what was handed out, that every block cost a byte, and
  that the recorded failure is the first. `RemainingExact` shows that the
  unsigned subtraction does not wrap, the fact without which a grant could be
  anything.
* **AllocationProofs**, the benchmark: `BenchmarkInvariant`, `SamplesCount`,
  `FloorFound`. `SampleExact` recounts with `measured`, which the code does not
  keep; the invariant `BenchmarkInv` says that the blocks a measurement allocated
  and still has are exactly those that bear its generation (what `free` decides
  by), that the outstanding bytes are their sum and at most the peak, and that
  `MaxCalls` times the bytes counted is at most the calls counted times the
  counter's maximum, so that no sum wraps. Sums over sets of blocks change by one
  block at a time (`HeldBy`, from `SetSumInsert` of FilterProofs).
* **DecodeProofs**, storage: `DecodeInvariant`, `TypeCorrect` and
  `StorageBounded`, for every set of inputs, options, dimensions, request sizes
  and constants: no call passes the caller's storage limits, whatever libpng
  requests and wherever a codec stops; what libjpeg and libwebp hold is counted
  as the reserve admitted for them. The invariant `IInv` and why each part is there:
  * `BudgetCovers` - libpng never holds more than the budget consumed, nor the
    budget more than `max_temporary_bytes`;
  * `ReserveAdmitted` - decode_webp charges its reserve after the output image
    exists, from the extent it admitted before, and the reserve is the exact one:
    `WebpWorkExact` shows that the checked steps succeed when the sum fits a word
    and only then, and return it, `JpegWorkExact` that the two guards of JPEG
    leave nothing to wrap;
  * `ImagesFit` - the codec is gone when `finish_decode` starts, and a second
    image exists only beside a first that fits the temporary limit;
  * `ImageExact` - the native image has the size of the extent reported, which
    is what links the transform's check (on the extent) to the storage held;
  * `Formatted` - an adapter runs only for its format.
* **DecodeProofs**, the answer: `AnswerInvariant` and from it `NoPartial`,
  `OrientationReported`, `FirstReported` and `ValidatedBefore`. `Inv` adds to
  `IInv` what a call knows while it works: which failures may stand at which
  step (`Recoverable`: only a refused optional allocation of libpng does),
  how many row calls were made (`RowsRead`), that what exists was admitted
  (`Admitted`, `Created`, `Validated`), and that the metadata is the merge of the
  records seen (`Merged`). Merging is shown to depend on the set of records
  only, which is why their order does not matter.
* **DecodeProofs**, the refinement: `ContractImplemented`. Every step of every
  adapter, mapped by `DecodeContract`'s substitution, is a step of the contract
  or a stutter, and under the invariant the one step that answers has everything
  `AnswerError` or `AnswerImage` asks for. The contract has no fairness, so this
  is all of `Contract`.

  The proofs have one lemma per action and shared lemmas for the ways a step
  ends (`ReturnIInv`, `AbortIInv`, `CreateNativeIInv`, `ReturnImageIInv` and
  their counterparts for the answer).
* **ImagesProofs.** `ImagesInvariant`, and from it `OneOwnerEach`,
  `ViewsReadInside`, `RowsAlwaysThere`, `CopiesIndependent` and, of steps,
  `PixelsKept`. Owners are not enough for an induction: a view reads a buffer it
  does not own, so `ViewsHeld` ties its shape to the buffer's as long as that
  buffer is allocated, and `CopiesSound` does the same for the example's images
  and what they remember of their source.
* **FilterProofs** has no properties of a run; it is about sums, over axes and
  over finite sets, for FitProofs, PixelProofs and AllocationProofs, and about
  spans. A sum is a recursive function, and no library theorem about recursion
  can be used here (they take operators as parameters). What is said of one is
  proved by least counterexample instead: `LeastNatural` and `SmallestSet` give
  the first length, or a smallest set, for which the claim could fail, and the
  step before it does the rest. `SumsExist`, `LevelsExist` and `SetSumsExist`
  show that the functions are defined at all. `SpansExact` says what
  `populate_axis` computes as closed forms: `LeftFold` and `RightFold` are the
  weights folded onto the two edges, `TapsFold` joins them.
* **FitProofs**, geometry: `PlanInside`, `AspectRounded`, `AxesExchange`,
  `NearestInside`, `SamplesInOrder`, for all extents and focal points. The fact
  they rest on is `RatioBound`: a ratio that is at most an integer `b` is rounded
  to at most `b`, because a quotient equal to `b` leaves no remainder to carry.
  `SourceIsWider` decides for which axis that holds, and `OffsetBound` keeps the
  placed rectangle inside. So the `geometry_overflow` branches are dead.
  `AxesExchange` compares the two branches of contain and cover; where the
  aspects are equal neither is strict and both give the whole extent
  (`EqualAspects`). `nearest_index` never passes the last source index, whatever
  the ratio (`NearestInside`); the finding below costs position, not memory
  safety.
* **FitProofs**, the call: `FitInvariant`, and from it `PixelsDecided`,
  `CropUsedUp`, `FitStorageBounded`, `HelpersNeverFail`. The invariant says that
  rows below `row` are what the plan says and rows above untouched, that the plan
  is sound, and that what is held for coefficients is the measure of both axes.
  `CropUsedUp` needs that the footprints of an axis cover it (`FootprintsCover`),
  from `TapsCover`: neighboring spans leave no gap.
* **PixelProofs**, pixels: `CompositionIsExact` and `TransformsAreExact`, for
  channels of any width and factors of any precision. `DivideRounds` shows that
  adding half the divisor rounds half up for odd divisors too, `RoundBetween`
  that a rounded quotient stays between the whole numbers its exact value lies
  between. With `Mixture` (the numerator of a color weighs the two colors by what
  the denominator adds up) the byte casts lose nothing and a color lies between
  its two, and `AlphaShare` shows that the denominator vanishes only when nothing
  is visible. `TwoRoundings` is the error of `dim` and `adjust_opacity`: half a
  step of the factor and half a step of the product never exceed one. The
  invariant `PixelInv` (`SamplesResolve`) says that a sample resolves to what its
  inputs determine.
* **PixelProofs**, resizing: `HiddenStaysHidden` (a hidden color enters every sum
  multiplied by 0) and `ResizingMixes`. The kernel is a mean of means
  (`KernelMeans`), so it lies between the least and the largest value under the
  spans and keeps the order of its arguments (`KernelBetween`, `KernelsCompare`);
  comparing the plane of premultiplied color with that of alpha carries this over
  to colors, up to the two roundings that `MixBounds` adds up.
* **PixelProofs**, weights: `WeightsAreExact`. The reference sums the triangle
  over everything that clamps to an index, up to `Reach`; `ReachSuffices` shows
  that nothing lies beyond, `TrianglesAddUp` and `SpanAgainstTriangle` that the
  folded edge weights of the code are those sums.

**Only model-checked.** `Termination`, which is liveness.

## 5. Findings

* **Late APP1 markers are not validated** (`src/lib/jpeg_decoder.cpp:204`, run
  `decode_jpeg_validated`). ADR 0010:40-41 says both layouts "are validated
  before codec pixel storage is allocated". `process_exif_marker` stays
  installed, and `decode_jpeg` returns the orientation as it is after the pixels
  (`:406`). An Exif APP1 marker between scans or before EOI changes it: the
  native image is allocated and decoded for an orientation never validated. The
  temporary limit still holds, because `apply_orientation` checks again; the
  call then fails after the work was done.
* **`codec_failure` replaces a specific failure** (`src/lib/jpeg_decoder.cpp:255`,
  run `decode_jpeg_codec_failure`). README.md:235 says the codec failed "without
  a more specific stable classification". When a broken APP1 marker suspends
  `jpeg_start_decompress` or `jpeg_finish_decompress`, it was classified as
  malformed or truncated already, and `read_pixels` assigns `codec` over it.
* **Strong reductions sample off the center** (`src/lib/fit.cpp:30`, run
  `fit_nearest_centers`). The comment at `fit.cpp:14` and ADR 0006:16 give
  `floor((index + 0.5) * source_length / destination_length)`. `nearest_index`
  forms the quotient without the half and then adds one at most once, where the
  remainder and the half together may be worth two and more as soon as the
  source is more than twice as long. Reducing 4 pixels to 1 samples index 1
  instead of 2, reducing 100 to 1 samples index 1 instead of 50. Up to a
  reduction by two the formula holds (`SamplesSound`).

## 6. Not modelled, and why

* **Inside the codecs**: entropy decoding, chunk retention, libjpeg's memory
  manager. The adapters trust none of it, and neither does the model.
* **PNG's eXIf retention**: which of several chunks libpng keeps, and that one
  after the image data is read and never looked at, is libpng's doing. The
  payload it hands over goes to ExifParser as it is.
* **`resize_quality_scalar`** and `checked_storage_size`: called by tests only;
  its axes are those of `QualityFilter`, its kernel that of `PixelFilter`.
* **Errors' texts**, `format()` and `has_alpha()` of a result: constants of the
  adapter that returns it.
* **Fuzz harnesses**: drivers that hand generated bytes to `decode` and `fit` and
  assert what DecodeContract and MCFitGeometry state.
* **Probe, command line, build, tests, documentation**: no behaviour over time.
* **Benchmark**: options, timing, statistics and output; the ThreadSanitizer
  build, where the tracker does nothing.
* **Assignment of the example's external images**: a second defaulted move.

## 7. Plan

What this directory holds, in order of importance, and what remains.

1. Decode: layout, budget, orientation, the three adapters, `decode`, the
   contract. Every safety property and the refinement proved.
2. `Images`: owners, views and copies as objects. Proved.
3. `FitGeometry` and `Fit`: the policies against exact ratios, sampling, the
   call of `fit`. Proved.
4. `QualityFilter`: support, the folded edge weights against the sum they stand
   for, both axes under one limit. Proved.
5. `PixelMath` and `PixelFilter`: composition, transforms and the kernel against
   exact rationals. Proved.
6. `ExifParser`, `ExifCarriers` and `Signature`: the byte walks. Proved for
   heads, blocks, markers and containers.
7. `AllocationTracker` and `Benchmark`. Proved.
