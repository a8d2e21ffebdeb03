------------------------------ MODULE MCImages ------------------------------
(***************************************************************************)
(* A small instance of Images.                                             *)
(***************************************************************************)
EXTENDS Images, TLC

E(w, h) == [width |-> w, height |-> h]

(* An image of one row, none, and too large a one.  Decoding may turn the  *)
(* row into a column.                                                      *)
MCExtents == {E(2, 1), E(0, 1), E(2, 2)}

MCLimits ==
  [ max_input_bytes     |-> 0,
    max_dimension       |-> 2,
    max_pixels          |-> 2,
    max_output_bytes    |-> 8,
    max_temporary_bytes |-> 0 ]

Interchangeable ==
  Permutations(ImageSlots) \cup Permutations(DecodedSlots)
    \cup Permutations(CopySlots) \cup Permutations(Buffers)
=============================================================================
