--------------------------- MODULE MCOrientation ---------------------------
(***************************************************************************)
(* One normalization per behavior, for every orientation and extent, and   *)
(* one pixel of the normalized image traced back to its source.            *)
(***************************************************************************)
EXTENDS Orientation

VARIABLES orientation, source, image

turnVars == <<orientation, source, image>>

NonEmpty == {e \in Extent : e.width > 0 /\ e.height > 0}

Unturned == << >>

TurnInit ==
  /\ orientation \in Orientations
  /\ source \in NonEmpty
  /\ image = Unturned

Turn ==
  /\ image = Unturned
  /\ image' = Normalized(orientation, source)
  /\ UNCHANGED <<orientation, source>>

TurnSpec == TurnInit /\ [][Turn]_turnVars

Done == image # Unturned

(* Normalization shows every stored pixel at the place EXIF defines for    *)
(* it: the pixel copied to p is the one displayed at p (README "exact RGBA *)
(* pixels", ADR 0010).  No read leaves the source, so transform_failure is *)
(* unreachable.                                                            *)
UprightExactly ==
  Done =>
    \A p \in DOMAIN image :
      /\ image[p] \in Pixels(source)
      /\ Displayed(orientation, source, image[p]) = p
=============================================================================
