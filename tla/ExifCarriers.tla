---------------------------- MODULE ExifCarriers ----------------------------
(***************************************************************************)
(* Where the encoded bytes carry EXIF: the RIFF chunks of a WebP container *)
(* (scan_container_orientation) and one APP1 marker of a JPEG              *)
(* (process_exif_marker).  PNG hands its eXIf payload to the parser as it  *)
(* is.                                                                     *)
(***************************************************************************)
EXTENDS ExifParser, SequencesExt

ExifChunk == <<69, 88, 73, 70>>

ExifIdentifier == <<69, 120, 105, 102, 0, 0>>

(* count bytes from offset.                                                *)
Slice(bytes, offset, count) == SubSeq(bytes, offset + 1, offset + count)

DropBytes(bytes, count) == SubSeq(bytes, count + 1, Len(bytes))

-----------------------------------------------------------------------------
(* WebP.                                                                   *)

RiffHeaderBytes == 12
ChunkHeaderBytes == 8

(* Mutant: chunks are packed without padding.                              *)
PaddedNever(payload) == payload

(* A payload with its padding to an even size.                             *)
Padded(payload) == payload + (payload % 2)

(* The orientation of an EXIF payload, with or without the identifier.     *)
ChunkMetadata(payload) ==
  ParseExifOrientation(
    IF IsPrefix(ExifIdentifier, payload)
      THEN DropBytes(payload, Len(ExifIdentifier)) ELSE payload)

(* The loop over the chunks: where the next one starts, what the EXIF      *)
(* chunks before it say, and whether the framing of one was broken.        *)
ScanStart ==
  [offset |-> RiffHeaderBytes, orientation |-> NoMetadata, broken |-> FALSE]

(* One round of the loop.                                                  *)
ScanChunk(encoded, container, scan) ==
  LET offset == scan.offset
      size   == Read32(encoded, offset + 4, "little")
      next   == offset + ChunkHeaderBytes + Padded(size)
      record == ChunkMetadata(
                  Slice(encoded, offset + ChunkHeaderBytes, size))
  IN  IF scan.broken \/ offset >= container THEN scan
      ELSE IF \/ container - offset < ChunkHeaderBytes
              \/ next > container
      THEN [ offset |-> offset, orientation |-> scan.orientation,
             broken |-> TRUE ]
      ELSE [ offset |-> next, broken |-> FALSE,
             orientation |->
               IF Slice(encoded, offset, 4) = ExifChunk
                 THEN MergeOrientationMetadata(scan.orientation, record)
                 ELSE scan.orientation ]

(* The state the loop ends in.  A chunk has a header, so there are no more *)
(* chunks than headers the container has room for, and a round after the   *)
(* last chunk, or after a broken one, changes nothing.                     *)
ScanChunks(encoded, container) ==
  LET after[rounds \in Nat] ==
        IF rounds = 0 THEN ScanStart
        ELSE ScanChunk(encoded, container, after[rounds - 1])
  IN  after[(container \div ChunkHeaderBytes) + 1]

ScanContainerOrientation(encoded) ==
  LET riff      == Read32(encoded, 4, "little")
      container == riff + 8
      scan      == ScanChunks(encoded, container)
  IN  IF Len(encoded) < RiffHeaderBytes THEN Err("truncated_data")
      ELSE IF riff < 4 \/ riff % 2 = 1 THEN Err("malformed_data")
      ELSE IF container > Len(encoded) THEN Err("truncated_data")
      ELSE IF scan.broken THEN Err("malformed_data")
      ELSE Ok(scan.orientation)

-----------------------------------------------------------------------------
(* JPEG.  buffer is what libjpeg has left, from the length of the marker   *)
(* on; a value is what the marker adds to the orientation and how many     *)
(* bytes it took.                                                          *)

(* Mutant: the length is taken for the payload's, without its own bytes.   *)
MarkerPayloadWhole(length) == length

MarkerPayload(length) == length - 2

ProcessExifMarker(buffer) ==
  LET length  == Read16(buffer, 0, "big")
      size    == MarkerPayload(length)
      payload == Slice(buffer, 2, size)
  IN  IF Len(buffer) < 2 THEN Err("truncated")
      ELSE IF length < 2 THEN Err("malformed")
      ELSE IF size > Len(buffer) - 2 THEN Err("truncated")
      ELSE Ok([ consumed |-> 2 + size,
                metadata |->
                  IF IsPrefix(ExifIdentifier, payload)
                    THEN ParseExifOrientation(
                           DropBytes(payload, Len(ExifIdentifier)))
                    ELSE NoMetadata ])
=============================================================================
