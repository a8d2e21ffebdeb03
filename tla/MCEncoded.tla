----------------------------- MODULE MCEncoded -----------------------------
(***************************************************************************)
(* Bytes read one file per behavior: signatures, TIFF blocks, RIFF         *)
(* containers and APP1 markers are written from descriptions, broken in    *)
(* every place their readers check, and read back; a WebP file that has an *)
(* orientation is displayed (MCOrientation).  A property compares what was *)
(* read with the description, never with the bytes.                        *)
(***************************************************************************)
EXTENDS MCOrientation, ExifCarriers, Signature

VARIABLES file, reading

Unread == Err("unread")

Zeros(n) == [i \in 1 .. n |-> 0]

(* What the digits of a number in bytes are worth, from the least on.      *)
Worth == <<1, 256, 65536, 16777216>>

(* count bytes that spell n; an order that is neither is written as big.   *)
Spell(n, count, order) ==
  [i \in 1 .. count |->
     (n \div Worth[IF order = "little" THEN i ELSE count + 1 - i]) % 256]

(* The sequence with tail bytes more, or as many bytes fewer.              *)
Resized(bytes, tail) ==
  IF tail >= 0 THEN bytes \o Zeros(tail)
  ELSE SubSeq(bytes, 1, Len(bytes) + tail)

-----------------------------------------------------------------------------
(* TIFF blocks.  extra is added to the number of entries, offset is where  *)
(* the directory is said to be, tail is what follows it.                   *)

Entry(tag, type, count, value) ==
  [tag |-> tag, type |-> type, count |-> count, value |-> value]

Usable(o) == Entry(OrientationTag, ShortType, 1, o)

Described(order, magic, offset, gap, entries, extra, tail) ==
  [ order |-> order, magic |-> magic, offset |-> offset, gap |-> gap,
    entries |-> entries, extra |-> extra, tail |-> tail ]

Tiff(order, entries) == Described(order, 42, "exact", 0, entries, 0, 0)

(* The same block with more behind it, or less.                            *)
Retailed(t, more) ==
  Described(t.order, t.magic, t.offset, t.gap, t.entries, t.extra,
            t.tail + more)

Mark(order) ==
  CASE order = "little" -> <<LetterI, LetterI>>
    [] order = "big" -> <<LetterM, LetterM>>
    [] order = "none" -> <<LetterI, LetterM>>

FieldBytes(e, order) ==
  Spell(e.tag, 2, order) \o Spell(e.type, 2, order) \o Spell(e.count, 4, order)
    \o Spell(e.value, 2, order) \o Zeros(2)

EntriesBytes(t) ==
  [k \in 1 .. EntryBytes * Len(t.entries) |->
     FieldBytes(t.entries[((k - 1) \div EntryBytes) + 1], t.order)
       [((k - 1) % EntryBytes) + 1]]

TiffSize(t) == 14 + t.gap + EntryBytes * Len(t.entries) + t.tail

DirectoryOffset(t) ==
  CASE t.offset = "exact"  -> 8 + t.gap
    [] t.offset = "header" -> 7
    [] t.offset = "edge"   -> TiffSize(t) - 1
    [] t.offset = "end"    -> TiffSize(t)
    [] t.offset = "past"   -> TiffSize(t) + 1
    [] t.offset = "huge"   -> 1073741824

TiffHeader(t) ==
  Mark(t.order) \o Spell(t.magic, 2, t.order)
    \o Spell(DirectoryOffset(t), 4, t.order)

TiffDirectory(t) ==
  Spell(Len(t.entries) + t.extra, 2, t.order) \o EntriesBytes(t) \o Zeros(4)

TiffWhole(t) == TiffHeader(t) \o Zeros(t.gap) \o TiffDirectory(t)

TiffBytes(t) == Resized(TiffWhole(t), t.tail)

(* What the entries say: one usable orientation, or none.                  *)
Tagged(entries) == {i \in DOMAIN entries : entries[i].tag = OrientationTag}

EntriesSay(entries) ==
  LET tagged == Tagged(entries)
  IN  IF tagged = {} THEN NoMetadata
      ELSE IF \E o \in Orientations : \E i \in tagged :
                tagged = {i} /\ entries[i] = Usable(o)
      THEN ValueMetadata(entries[CHOOSE i \in tagged : TRUE].value)
      ELSE InvalidMetadata

(* What the block says: what its entries do, if they are all there.        *)
TiffSays(t) ==
  IF \/ t.order = "none" \/ t.magic # 42 \/ t.offset # "exact"
     \/ t.tail < EntryBytes * t.extra
  THEN InvalidMetadata
  ELSE EntriesSay(t.entries)

Entries ==
  {Usable(o) : o \in Orientations} \cup
  { Entry(274, 4, 1, 6), Entry(274, 768, 1, 6), Entry(274, 3, 0, 6),
    Entry(274, 3, 2, 6), Entry(274, 3, 65537, 6), Entry(274, 3, 1, 0),
    Entry(274, 3, 1, 9), Entry(274, 3, 1, 262),
    Entry(256, 3, 1, 6), Entry(4609, 3, 1, 6) }

Some == {Usable(6), Entry(274, 4, 1, 6), Entry(256, 3, 1, 6)}

Lists(S, n) == UNION {[1 .. k -> S] : k \in 0 .. n}

(* Blocks of which everything is there; blocks with another magic or byte  *)
(* order or a directory elsewhere; blocks longer or shorter than they say. *)
Whole ==
  { Described(o, 42, "exact", g, e, 0, 0) :
      o \in {"little", "big"}, e \in Lists(Entries, 2) \cup Lists(Some, 3),
      g \in {0, 1} }

Misplaced ==
  { Described(o, m, f, 0, e, 0, 0) :
      o \in {"little", "big", "none"}, e \in Lists({Usable(6)}, 1),
      m \in {42, 43, 10752}, f \in {"exact", "header", "edge", "end", "past",
                                "huge"} }

Tails == -20 .. 13

Cut ==
  { Described(o, 42, "exact", g, e, x, n) :
      o \in {"little", "big"}, e \in Lists({Usable(6), Entry(256, 3, 1, 6)}, 2),
      g \in {0, 1}, x \in {0, 1}, n \in Tails }

Tiffs == Whole \cup Misplaced \cup Cut

TiffFiles == [kind : {"tiff"}, tiff : Tiffs]

-----------------------------------------------------------------------------
(* WebP containers.  A chunk is EXIF, with or without the identifier, or   *)
(* another one whose tiff only gives it a size.  riff is added to the size *)
(* of the container, last to that of the last chunk, tail follows.         *)

Sample == Tiff("little", <<Usable(6)>>)
Odd == Retailed(Sample, 1)
Untagged == Tiff("big", << >>)
Broken == Retailed(Sample, -1)
Absent == Retailed(Untagged, -20)

Chunk(exif, identifier, tiff) ==
  [exif |-> exif, identifier |-> identifier, tiff |-> tiff]

ChunkPayload(c) ==
  (IF c.identifier THEN ExifIdentifier ELSE << >>) \o TiffBytes(c.tiff)

ChunkBytes(c, last) ==
  LET payload == ChunkPayload(c)
  IN  (IF c.exif THEN ExifChunk ELSE <<69, 88, 73, 102>>)
        \o Spell(Len(payload) + last, 4, "little")
        \o payload \o Zeros(Len(payload) % 2)

Webp(chunks, riff, last, tail) ==
  [ kind |-> "webp", chunks |-> chunks, riff |-> riff, last |-> last,
    tail |-> tail ]

(* The chunks, and the container of as many bytes as they have.            *)
WebpBody(f) ==
  LET n == Len(f.chunks)
  IN  FlattenSeq([i \in 1 .. n |->
        ChunkBytes(f.chunks[i], IF i = n THEN f.last ELSE 0)])

WebpWhole(f) ==
  RiffSignature \o Spell(Len(WebpBody(f)) + 4 + f.riff, 4, "little")
    \o WebpSignature \o WebpBody(f)

WebpBytes(f) == Resized(WebpWhole(f), f.tail)

(* The framing the sizes describe: an odd container, one that is longer    *)
(* than the input, one that does not end with a chunk.  The last payload   *)
(* may take the padding byte in, or leave its last byte to it.             *)
WebpSays(f) ==
  LET n     == Len(f.chunks)
      exact == Len(WebpWhole(f))
      odd   == n > 0 /\ Len(ChunkPayload(f.chunks[n])) % 2 = 1
      Said(i) == TiffSays(Retailed(f.chunks[i].tiff,
                                   IF i = n THEN f.last ELSE 0))
      said  == {i \in 1 .. n : f.chunks[i].exif /\ Said(i) # NoMetadata}
  IN  IF exact + f.tail < 12 THEN Err("truncated_data")
      ELSE IF exact + f.riff < 12 \/ f.riff % 2 = 1 THEN Err("malformed_data")
      ELSE IF f.riff > f.tail THEN Err("truncated_data")
      ELSE IF \/ f.riff \notin {0, 8}
              \/ f.last = 1 /\ ~odd
              \/ f.last = -1 /\ odd
      THEN Err("malformed_data")
      ELSE Ok(IF said = {} THEN NoMetadata
              ELSE IF Cardinality(said) = 1
              THEN Said(CHOOSE i \in said : TRUE)
              ELSE InvalidMetadata)

Chunks ==
  [ exif : {TRUE}, identifier : BOOLEAN,
    tiff : {Sample, Odd, Untagged, Broken, Absent} ] \cup
  [exif : {FALSE}, identifier : {FALSE}, tiff : {Sample, Odd, Absent}]

FewChunks ==
  {Chunk(TRUE, TRUE, Sample), Chunk(TRUE, FALSE, Odd), Chunk(FALSE, FALSE, Odd)}

(* One EXIF chunk with one orientation.                                    *)
Picture(identifier, o) ==
  Webp(<<Chunk(TRUE, identifier, Tiff("big", <<Usable(o)>>))>>, 0, 0, 0)

Pictures == {Picture(b, o) : b \in BOOLEAN, o \in Orientations}

Containers ==
  {Webp(c, 0, 0, 0) : c \in Lists(Chunks, 2) \cup Lists(FewChunks, 3)}

(* The sizes of container and input are wrong.                             *)
Framings ==
  { Webp(c, r, 0, t) :
      c \in Lists(FewChunks, 2), r \in {-4, -2, -1, 0, 1, 2, 6, 8},
      t \in {-40, -9, -8, -1, 0, 2, 7, 8} }

(* The size of the last chunk is.                                          *)
Endings ==
  { Webp(Append(c, d), 0, l, 0) :
      c \in Lists(FewChunks, 1), l \in {-1, 1},
      d \in {e \in Chunks : ChunkPayload(e) # << >>} }

WebpFiles == Pictures \cup Containers \cup Framings \cup Endings

-----------------------------------------------------------------------------
(* APP1 markers: their length bytes say length, tail follows the payload.  *)

OtherIdentifier == <<69, 120, 105, 102, 0, 1>>

MarkerExact(t) == 2 + 6 + Len(TiffBytes(t))

MarkerFiles ==
  UNION { [ kind : {"marker"}, exif : BOOLEAN, tiff : {t},
            length : {0, 1, 2, 7, 8} \cup
                       {MarkerExact(t) + d : d \in {-1, 0, 1, 3}},
            tail : {-100, -1, 0, 2, 5} ] :
          t \in {Sample, Odd, Untagged, Broken, Absent} }

MarkerBytes(f) ==
  Resized(Spell(f.length, 2, "big")
            \o (IF f.exif THEN ExifIdentifier ELSE OtherIdentifier)
            \o TiffBytes(f.tiff),
          f.tail)

MarkerSays(f) ==
  LET exact == MarkerExact(f.tiff)
  IN  IF exact + f.tail < 2 THEN Err("truncated")
      ELSE IF f.length < 2 THEN Err("malformed")
      ELSE IF f.length > exact + f.tail THEN Err("truncated")
      ELSE Ok([ consumed |-> f.length,
                metadata |->
                  IF f.exif /\ f.length >= 8
                    THEN TiffSays(Retailed(f.tiff, f.length - exact))
                    ELSE NoMetadata ])

-----------------------------------------------------------------------------
(* Leading bytes.  AnyByte stands for the size bytes of a RIFF header.     *)

AnyByte == None

Template ==
  [ jpeg |-> JpegSignature, png |-> PngSignature,
    webp |-> <<82, 73, 70, 70, AnyByte, AnyByte, AnyByte, AnyByte, 87, 69, 66, 80>> ]

Filled(template, filler) ==
  [i \in DOMAIN template |->
     IF template[i] = AnyByte THEN filler ELSE template[i]]

(* n leading bytes of a file whose signature has the byte at one place.    *)
Leading(format, filler, at, byte, n) ==
  LET whole == Filled(Template[format], filler) \o Zeros(2)
  IN  SubSeq([whole EXCEPT ![at] = byte], 1, n)

ShortHeads ==
  { Leading(format, filler, at, byte, n) :
      format \in DOMAIN Template, filler \in {0, 82},
      at \in 1 .. 4, byte \in {82, 255, 137}, n \in 1 .. 4 }

LongHeads ==
  { Leading(format, filler, at, byte, n) :
      format \in {"png", "webp"}, filler \in {0, 82},
      at \in 1 .. 10, byte \in {0, 80, 82, 87}, n \in 1 .. 10 }

WholeHeads ==
  { Leading("webp", filler, at, byte, n) :
      filler \in {0, 82}, at \in 1 .. 14, byte \in {0, 82, 87}, n \in 11 .. 14 }

Heads == ShortHeads \cup LongHeads \cup WholeHeads

HeadFiles == [kind : {"head"}, bytes : Heads]

-----------------------------------------------------------------------------

Files == TiffFiles \cup WebpFiles \cup MarkerFiles \cup HeadFiles

EncodedInit ==
  /\ file \in Files
  /\ reading = Unread
  /\ orientation = Identity
  /\ source \in IF file \in Pictures THEN NonEmpty
                ELSE {[width |-> 1, height |-> 1]}
  /\ image = Unturned

ReadTiff ==
  /\ file.kind = "tiff"
  /\ reading' = Ok(ParseExifOrientation(TiffBytes(file.tiff)))
  /\ UNCHANGED orientation

ReadWebp ==
  /\ file.kind = "webp"
  /\ reading' = ScanContainerOrientation(WebpBytes(file))
  /\ orientation' =
       IF reading'.ok /\ Applies(reading'.value, [orientation |-> "apply"])
         THEN reading'.value.value ELSE Identity

ReadMarker ==
  /\ file.kind = "marker"
  /\ reading' = ProcessExifMarker(MarkerBytes(file))
  /\ UNCHANGED orientation

ReadHead ==
  /\ file.kind = "head"
  /\ reading' = Ok(SignatureOf(file.bytes))
  /\ UNCHANGED orientation

ReadFile ==
  /\ reading = Unread
  /\ ReadTiff \/ ReadWebp \/ ReadMarker \/ ReadHead
  /\ UNCHANGED <<file, source, image>>

Display ==
  /\ file.kind = "webp" /\ reading.ok
  /\ Turn
  /\ UNCHANGED <<file, reading>>

EncodedNext == ReadFile \/ Display

EncodedSpec == EncodedInit /\ [][EncodedNext]_<<turnVars, file, reading>>

HasRead(kind) == file.kind = kind /\ reading # Unread

-----------------------------------------------------------------------------

(* The parser answers what the block says and reads no byte outside it: a  *)
(* directory that ends inside its own next-directory offset, one longer    *)
(* than the block, one that starts in the header or past the end, a second *)
(* orientation, and one of another type, count or value are all invalid,   *)
(* in both byte orders, wherever the entry stands (ADR 0010 "Invalid byte  *)
(* order, TIFF magic, offsets, entry layout, tag type/count/value, and     *)
(* duplicate or conflicting orientation records produce invalid_ignored"). *)
TiffExact == HasRead("tiff") => reading = Ok(TiffSays(file.tiff))

(* The scan finds every EXIF chunk of the declared container and no other, *)
(* whatever chunks, odd sizes and padding lie before it and whatever bytes *)
(* follow the container; a container beyond the input is truncated, a      *)
(* chunk beyond the container malformed (ADR 0011 "A declared extent       *)
(* beyond the input is truncated_data; invalid chunk framing is            *)
(* malformed_data").                                                       *)
ScanExact == HasRead("webp") => reading = WebpSays(file)

(* An APP1 marker is left exactly at its declared end, so that libjpeg     *)
(* goes on with the next marker, whether or not it carries EXIF; one that  *)
(* is longer than the input is not entered.                                *)
MarkerExactly == HasRead("marker") => reading = MarkerSays(file)

(* An input is called truncated exactly when it is too short to be any     *)
(* format but bytes could follow that make it one, and it is dispatched to *)
(* a format exactly when it carries its whole signature, so no adapter is  *)
(* handed another one's bytes (README "truncated_data").                   *)
Agrees(bytes, template) ==
  \A i \in DOMAIN bytes \cap DOMAIN template :
    template[i] \in {AnyByte, bytes[i]}

SignatureExact ==
  HasRead("head") =>
    LET bytes == file.bytes
        Is(format) == /\ Agrees(bytes, Template[format])
                      /\ Len(bytes) >= Len(Template[format])
    IN  /\ \A format \in DOMAIN Template :
             reading = Ok(format) <=> Is(format)
        /\ reading = Ok("prefix") <=>
             \E format \in DOMAIN Template :
               Agrees(bytes, Template[format]) /\ ~Is(format)
=============================================================================
