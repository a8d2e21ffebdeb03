------------------------------ MODULE Signature ------------------------------
(***************************************************************************)
(* Format detection (decode.cpp): the class of an input that Decode's      *)
(* AdmissionError and Dispatch branch on, from its leading bytes.          *)
(***************************************************************************)
EXTENDS Naturals, SequencesExt

PngSignature == <<137, 80, 78, 71, 13, 10, 26, 10>>
JpegSignature == <<255, 216>>
RiffSignature == <<82, 73, 70, 70>>
WebpSignature == <<87, 69, 66, 80>>

SignaturePrefixBytes == 12

(* What follows the four size bytes of a RIFF header.                      *)
FormatBytes(encoded) == SubSeq(encoded, 9, Len(encoded))

SignatureMatches(encoded, signature) == IsPrefix(signature, encoded)

WebpSignatureMatches(encoded) ==
  /\ Len(encoded) >= SignaturePrefixBytes
  /\ IsPrefix(RiffSignature, encoded)
  /\ IsPrefix(WebpSignature, FormatBytes(encoded))

SignatureRemainsPossible(encoded, signature) ==
  Len(encoded) < Len(signature) /\ IsPrefix(encoded, signature)

(* Mutant: the size bytes have to be there already.                        *)
WebpRemainsPossibleAfterSize(encoded) ==
  IF Len(encoded) < Len(RiffSignature) THEN IsPrefix(encoded, RiffSignature)
  ELSE /\ IsPrefix(RiffSignature, encoded)
       /\ Len(encoded) >= 8
       /\ SignatureRemainsPossible(FormatBytes(encoded), WebpSignature)

WebpSignatureRemainsPossible(encoded) ==
  IF Len(encoded) < Len(RiffSignature) THEN IsPrefix(encoded, RiffSignature)
  ELSE /\ IsPrefix(RiffSignature, encoded)
       /\ \/ Len(encoded) <= 8
          \/ SignatureRemainsPossible(FormatBytes(encoded), WebpSignature)

(* The class of an input that is not empty, in the order of decode.        *)
SignatureOf(encoded) ==
  IF SignatureMatches(encoded, JpegSignature) THEN "jpeg"
  ELSE IF WebpSignatureMatches(encoded) THEN "webp"
  ELSE IF SignatureMatches(encoded, PngSignature) THEN "png"
  ELSE IF \/ SignatureRemainsPossible(encoded, PngSignature)
          \/ SignatureRemainsPossible(encoded, JpegSignature)
          \/ WebpSignatureRemainsPossible(encoded)
  THEN "prefix"
  ELSE "unknown"
=============================================================================
