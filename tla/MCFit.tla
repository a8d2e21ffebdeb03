------------------------------- MODULE MCFit -------------------------------
(***************************************************************************)
(* A small instance of Fit.                                                *)
(***************************************************************************)
EXTENDS Fit

E(w, h) == [width |-> w, height |-> h]

MCSources == {E(0, 1), E(1, 1), E(3, 2), E(1, 4), E(4, 3)}

MCDestinations == {E(1, 0), E(1, 1), E(2, 3), E(4, 1), E(3, 3)}

F(x, y) == [x |-> x, y |-> y, finite |-> TRUE]

MCFocalPoints == {F(-1, 2), F(1, 3), F(3, 0), [F(1, 1) EXCEPT !.finite = FALSE]}

L(bytes, temporary) ==
  [ max_input_bytes     |-> 0,
    max_dimension       |-> 4,
    max_pixels          |-> 9,
    max_output_bytes    |-> bytes,
    max_temporary_bytes |-> temporary ]

(* The coefficients of these extents take 10 to 36 bytes, their images 4   *)
(* to 36.                                                                  *)
MCLimits == {L(36, 36), L(36, 20), L(36, 9), L(23, 36)}
=============================================================================
