------------------------------ MODULE MCDecode ------------------------------
(***************************************************************************)
(* Small instances of Decode.  The formats of a run are chosen by its cfg. *)
(***************************************************************************)
EXTENDS Decode

CONSTANTS RunFormats, TemporaryLimits

E(w, h) == [width |-> w, height |-> h]

(* A JPEG of 3 bytes is one more than libjpeg takes.                       *)
MCInputs ==
  [size : {2}, signature : RunFormats] \cup
  [size : {3}, signature : RunFormats \cap {"jpeg"}] \cup
  [size : {0, 2, 3}, signature : {"unknown", "prefix"}]

L(dimension, pixels, output, temporary) ==
  [ max_input_bytes     |-> 2,
    max_dimension       |-> dimension,
    max_pixels          |-> pixels,
    max_output_bytes    |-> output,
    max_temporary_bytes |-> temporary ]

(* The last admits an image of three pixels, whose working reserve does    *)
(* not fit a word: of 3x1 in JPEG, of 3x1 and 1x3 in WebP.                 *)
MCLimits ==
  {L(2, 2, 8, t) : t \in TemporaryLimits} \cup
  {L(1, 4, WordMax, 8), L(2, 4, 4, 8)} \cup
  {[L(3, 3, 12, 13) EXCEPT !.max_input_bytes = 3]}

MCOptions == [limits : MCLimits, orientation : Policies]

MCExtents ==
  {E(0, 1), E(1, 1), E(2, 1), E(1, 2), E(2, 2), E(3, 1), E(1, 3)}

MCMetadata ==
  {NoMetadata, InvalidMetadata} \cup {ValueMetadata(o) : o \in {1, 3, 6}}
=============================================================================
