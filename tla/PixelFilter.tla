----------------------------- MODULE PixelFilter -----------------------------
(***************************************************************************)
(* The kernel of resize_quality_rgba: how the pixels under a horizontal    *)
(* and a vertical span become one pixel.  An image is a function from      *)
(* <<x, y>> to pixels, a span a function from source index to weight.      *)
(***************************************************************************)
EXTENDS QualityFilter, PixelMath, FiniteSetsExt

WeightSum(span) == MapThenSumSet(LAMBDA k : span[k], DOMAIN span)

(* Two passes, each normalized by the weights of its span and rounded half *)
(* up: rows first, then the column of their results.                       *)
Kernel(component, horizontal, vertical) ==
  LET Row(y) ==
        RoundedDivide(
          MapThenSumSet(LAMBDA x : component[<<x, y>>] * horizontal[x],
                        DOMAIN horizontal),
          WeightSum(horizontal))
  IN  RoundedDivide(
        MapThenSumSet(LAMBDA y : Row(y) * vertical[y], DOMAIN vertical),
        WeightSum(vertical))

(* Mutant: straight colors are mixed.                                      *)
ResizedPixelStraight(image, horizontal, vertical) ==
  LET color == [p \in DOMAIN image |-> image[p].c]
      alpha == [p \in DOMAIN image |-> image[p].a]
  IN  [ c |-> Byte(Kernel(color, horizontal, vertical)),
        a |-> Byte(Kernel(alpha, horizontal, vertical)) ]

(* One pixel of resize_quality_rgba.                                       *)
ResizedPixel(image, horizontal, vertical) ==
  LET color == [p \in DOMAIN image |-> Premultiply(image[p]).product]
      alpha == [p \in DOMAIN image |-> Premultiply(image[p]).alpha]
  IN  Unpremultiply(
        [ product |-> DoubleByte(Kernel(color, horizontal, vertical)),
          alpha   |-> Byte(Kernel(alpha, horizontal, vertical)) ])
=============================================================================
