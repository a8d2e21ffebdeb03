----------------------------- MODULE ExifParser -----------------------------
(***************************************************************************)
(* parse_exif_orientation (orientation.cpp): the walk over the bytes of a  *)
(* TIFF block that yields a Metadata.  Bytes are numbers 0 .. 255, offsets *)
(* count from 0 as in the code, and the empty optional is None.            *)
(***************************************************************************)
EXTENDS Orientation, Sequences, FiniteSets

None == -1

ByteAt(bytes, offset) == bytes[offset + 1]

(* The number spelled by the bytes from offset, or None beyond the end.    *)
Read16(bytes, offset, order) ==
  LET b(i) == ByteAt(bytes, offset + i)
  IN  IF offset > Len(bytes) \/ Len(bytes) - offset < 2 THEN None
      ELSE IF order = "little" THEN b(0) + 256 * b(1)
      ELSE 256 * b(0) + b(1)

Read32(bytes, offset, order) ==
  LET b(i) == ByteAt(bytes, offset + i)
  IN  IF offset > Len(bytes) \/ Len(bytes) - offset < 4 THEN None
      ELSE IF order = "little"
      THEN b(0) + 256 * b(1) + 65536 * b(2) + 16777216 * b(3)
      ELSE 16777216 * b(0) + 65536 * b(1) + 256 * b(2) + b(3)

LetterI == 73
LetterM == 77

(* The byte order a TIFF block of two bytes or more announces.             *)
ByteOrder(tiff) ==
  CASE SubSeq(tiff, 1, 2) = <<LetterI, LetterI>> -> "little"
    [] SubSeq(tiff, 1, 2) = <<LetterM, LetterM>> -> "big"
    [] OTHER -> "none"

OrientationTag == 274
ShortType == 3
EntryBytes == 12

(* Mutant: the next-directory offset behind the entries is forgotten.      *)
DirectoryEndAtEntries(directory, count) == directory + 2 + EntryBytes * count

DirectoryEnd(directory, count) == directory + 2 + EntryBytes * count + 4

(* An orientation entry of one SHORT from 1 to 8.                          *)
EntryUsable(tiff, entry, order) ==
  /\ Read16(tiff, entry + 2, order) = ShortType
  /\ Read32(tiff, entry + 4, order) = 1
  /\ Read16(tiff, entry + 8, order) \in Orientations

(* The places of the entries of IFD0 that carry the tag.                   *)
TaggedEntries(tiff, directory, count, order) ==
  { e \in {directory + 2 + EntryBytes * i : i \in 0 .. count - 1} :
      Read16(tiff, e, order) = OrientationTag }

(* The loop over the entries of IFD0: it refuses a second orientation tag  *)
(* and one that is not usable, whichever it meets first.                   *)
DirectoryMetadata(tiff, directory, count, order) ==
  LET tagged == TaggedEntries(tiff, directory, count, order)
  IN  IF tagged = {} THEN NoMetadata
      ELSE IF \/ Cardinality(tagged) > 1
              \/ \E e \in tagged : ~EntryUsable(tiff, e, order)
      THEN InvalidMetadata
      ELSE ValueMetadata(Read16(tiff, (CHOOSE e \in tagged : TRUE) + 8, order))

ParseExifOrientation(tiff) ==
  LET order     == ByteOrder(tiff)
      directory == Read32(tiff, 4, order)
      count     == Read16(tiff, directory, order)
  IN  IF \/ Len(tiff) < 8
         \/ order = "none"
         \/ Read16(tiff, 2, order) # 42
         \/ directory < 8 \/ directory > Len(tiff)
      THEN InvalidMetadata
      ELSE IF count = None \/ DirectoryEnd(directory, count) > Len(tiff)
      THEN InvalidMetadata
      ELSE DirectoryMetadata(tiff, directory, count, order)
=============================================================================
