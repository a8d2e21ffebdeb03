---------------------------- MODULE Orientation ----------------------------
(***************************************************************************)
(* EXIF orientation (orientation.cpp): how the records found in one input  *)
(* are merged, which pixel of the codec-native image each normalized pixel *)
(* is copied from, and the admission checks of the transform.  A value is  *)
(* the EXIF number 1 .. 8, the enumerators of Orientation.                 *)
(***************************************************************************)
EXTENDS DecodeLimits

Orientations == 1 .. 8

Identity == 1

(* std::optional<Orientation>: NoOrientation is the empty optional.        *)
NoOrientation == 0

Metadata == [invalid : BOOLEAN, value : Orientations \cup {NoOrientation}]

NoMetadata == [invalid |-> FALSE, value |-> NoOrientation]

InvalidMetadata == [invalid |-> TRUE, value |-> NoOrientation]

ValueMetadata(o) == [invalid |-> FALSE, value |-> o]

(* What parse_exif_orientation can return: invalid, no tag, or one value.  *)
ParsedMetadata ==
  {NoMetadata, InvalidMetadata} \cup {ValueMetadata(o) : o \in Orientations}

(* Mutant: the last record wins.                                           *)
MergeLastWins(destination, source) ==
  IF destination.invalid \/ source = NoMetadata THEN destination ELSE source

(* Mutant: a conflict keeps the earlier value beside the flag.             *)
MergeKeepsValue(destination, source) ==
  IF destination.invalid THEN destination
  ELSE IF \/ source.invalid
          \/ destination.value # NoOrientation /\ source.value # NoOrientation
  THEN [destination EXCEPT !.invalid = TRUE]
  ELSE IF source.value # NoOrientation
  THEN ValueMetadata(source.value)
  ELSE destination

(* merge_orientation_metadata: invalid absorbs, two values conflict.       *)
MergeOrientationMetadata(destination, source) ==
  IF destination.invalid THEN destination
  ELSE IF \/ source.invalid
          \/ destination.value # NoOrientation /\ source.value # NoOrientation
  THEN InvalidMetadata
  ELSE IF source.value # NoOrientation
  THEN ValueMetadata(source.value)
  ELSE destination

OrientationSwapsAxes(o) == o \in 5 .. 8

(* Mutant: the two quarter turns are exchanged.                            *)
SourceCoordinatesTurned(o, source, x, y) ==
  LET right  == source.width - 1
      bottom == source.height - 1
  IN  << <<x, y>>, <<right - x, y>>,
         <<right - x, bottom - y>>, <<x, bottom - y>>,
         <<y, x>>, <<right - y, x>>,
         <<right - y, bottom - x>>, <<y, bottom - x>> >>[o]

(* The pixel of the source copied to (x, y) of the normalized image.       *)
SourceCoordinates(o, source, x, y) ==
  LET right  == source.width - 1
      bottom == source.height - 1
  IN  << <<x, y>>, <<right - x, y>>,
         <<right - x, bottom - y>>, <<x, bottom - y>>,
         <<y, x>>, <<y, bottom - x>>,
         <<right - y, bottom - x>>, <<right - y, x>> >>[o]

(* Coordinates <<x, y>> of an image.                                       *)
Pixels(e) == (0 .. e.width - 1) \X (0 .. e.height - 1)

(* The copy loops of apply_orientation: the normalized image as a function *)
(* from its pixels to pixels of the source.                                *)
Normalized(o, source) ==
  [p \in Pixels(OutputExtent(source, OrientationSwapsAxes(o))) |->
     SourceCoordinates(o, source, p[1], p[2])]

-----------------------------------------------------------------------------
(* Admission.  options is a DecodeOptions: its limits and its policy.      *)

Policies == {"apply", "ignore", "unrecognized"}

(* The metadata asks for a transform and the policy grants it.             *)
Applies(metadata, options) ==
  /\ options.orientation = "apply"
  /\ ~metadata.invalid
  /\ metadata.value # NoOrientation

(* Mutant: the temporary limit is left to the transform.                   *)
ValidateLayoutsOnly(source, metadata, options) ==
  LET native == CheckedDecodeLayout(source, FALSE, options.limits)
      output == CheckedDecodeLayout(
                  source, OrientationSwapsAxes(metadata.value), options.limits)
  IN  IF ~native.ok \/ ~Applies(metadata, options) THEN native
      ELSE IF ~output.ok THEN output
      ELSE native

(* validate_orientation_layout: before the codec-native image exists.      *)
ValidateOrientationLayout(source, metadata, options) ==
  LET native == CheckedDecodeLayout(source, FALSE, options.limits)
      output == CheckedDecodeLayout(
                  source, OrientationSwapsAxes(metadata.value), options.limits)
  IN  IF ~native.ok \/ ~Applies(metadata, options) THEN native
      ELSE IF ~output.ok THEN output
      ELSE IF /\ metadata.value # Identity
              /\ native.value.output_bytes > options.limits.max_temporary_bytes
      THEN Err("resource_limit")
      ELSE native

(* The checks apply_orientation makes again, when that image exists.       *)
AdmitTransform(source, o, limits) ==
  LET native == CheckedDecodeLayout(source, FALSE, limits)
  IN  IF ~native.ok \/ o = Identity THEN native
      ELSE IF native.value.output_bytes > limits.max_temporary_bytes
      THEN Err("resource_limit")
      ELSE CheckedDecodeLayout(source, OrientationSwapsAxes(o), limits)

-----------------------------------------------------------------------------
(* Reference: EXIF names, for each value, the side of the displayed image  *)
(* that the first stored row and the first stored column lie on.           *)
FirstRowSide ==
  <<"top", "top", "bottom", "bottom", "left", "right", "right", "left">>

FirstColumnSide ==
  <<"left", "right", "right", "left", "top", "top", "bottom", "bottom">>

(* Where a stored pixel <<column, row>> is displayed.                      *)
Displayed(o, source, pixel) ==
  LET display == OutputExtent(source, OrientationSwapsAxes(o))
      Along(side, n) == IF side \in {"top", "left"} THEN n
                        ELSE IF side = "bottom" THEN display.height - 1 - n
                        ELSE display.width - 1 - n
      byColumn == Along(FirstColumnSide[o], pixel[1])
      byRow    == Along(FirstRowSide[o], pixel[2])
  IN  IF FirstRowSide[o] \in {"top", "bottom"}
        THEN <<byColumn, byRow>>
        ELSE <<byRow, byColumn>>
=============================================================================
