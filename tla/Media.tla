------------------------------- MODULE Media -------------------------------
(***************************************************************************)
(* The walk that removes metadata from a photograph or a video before it   *)
(* is encrypted and sent.                                                  *)
(*                                                                         *)
(* Code: src/shared/media.ts, src/shared/isobmff.ts.                       *)
(*                                                                         *)
(* A file is a format and the sequence of its parts: the segments of a     *)
(* JPEG, the chunks of a PNG or a WebP, the boxes of an ISO media file in  *)
(* the order their headers come.  A part is what the walk tells it apart   *)
(* by; one whose length runs past its container, or that is not a part at  *)
(* all, is "bad".  JPEG, PNG and WebP are copied part by part; an ISO file *)
(* is blanked in place, so that nothing in it moves.                       *)
(***************************************************************************)
EXTENDS Naturals, Sequences, FiniteSets, SequencesExt

CONSTANTS
    MaxParts,    \* bound: parts of a JPEG, PNG or WebP
    MaxBoxes,    \* bound: boxes of an ISO file
    MaxItems     \* bound: items its image has

ASSUME PartsAssumption == {MaxParts, MaxBoxes, MaxItems} \subseteq Nat

VARIABLES
    file,       \* what the sender picked
    at,         \* how many parts the walk is past
    keep,       \* what is copied so far
    blank,      \* ISO: boxes whose content is zeroed, by number
    wiped,      \* ISO: items zeroed where they lie
    verdict     \* "walking", then "unchanged", "rewritten" or "refused"

mediaVars == <<file, at, keep, blank, wiped, verdict>>

-----------------------------------------------------------------------------
(* Files *)

\* APP2 is a colour profile or an index of thumbnails ("mpf").
JpegMetadata == {"exif", "comment", "mpf"}
JpegParts == JpegMetadata \cup {"icc", "table", "restart", "padding", "scan", "eoi", "bad"}
PngParts == {"IHDR", "IDAT", "tEXt", "eXIf", "IEND", "bad"}
WebpParts == {"VP8 ", "ICCP", "EXIF", "XMP ", "bad"}
Others == {"tiff", "gif", "pdf", "svg", "text"}

\* An ISO box, and the box it lies in (0: none).
Boxes(n) ==
    [type : {"moov", "trak", "stbl", "udta", "mvhd", "meta", "uuid", "mdat", "bad"}, in : 0..n]
Nested(boxes) ==
    \A i \in DOMAIN boxes :
        LET up == boxes[i].in
        IN  IF up = 0 THEN boxes[i].type \in {"moov", "meta", "uuid", "mdat", "bad"}
            ELSE /\ up < i /\ boxes[up].type \in {"moov", "trak", "stbl", "udta"}
                 /\ boxes[i].type \notin {"moov", "mdat"}
                 \* headers are in depth-first order
                 /\ \A j \in (up + 1)..(i - 1) : boxes[j].in >= up

\* An item lies in the file, in its `idat`, in another item (methods 0, 1 and 2),
\* or in another file; `extent` tells whether its bytes are inside this one or run
\* past its end, or the length given for them is 0 or no number.  Exif and XMP are
\* metadata.  (An item in several pieces is several items.)
Items ==
    [type : {"metadata", "picture"}, lies : {"file", "idat", "item", "elsewhere"},
     extent : {"inside", "outside", "empty"}]

A(format, parts, boxes, items, tables, idat) ==
    [format |-> format, parts |-> parts, boxes |-> boxes, items |-> items,
     tables |-> tables, idat |-> idat]

Photo(format, parts) == \E p \in SeqOf(parts, MaxParts) : file = A(format, p, <<>>, <<>>, FALSE, FALSE)

Image == [type |-> "meta", in |-> 0]

\* `tables`: the image's iinf and iloc are there, in a version the walk knows.
\* An `idat` is told apart only where some item lies in it.
Still ==
    \E boxes \in SeqOf(Boxes(1), 2) :
        /\ Image \in ToSet(boxes) /\ Nested(boxes)
        /\ \E items \in SeqOf(Items, MaxItems), tables \in BOOLEAN, idat \in BOOLEAN :
               /\ idat => \E i \in DOMAIN items : items[i].lies = "idat"
               /\ file = A("iso", <<>>, boxes, items, tables, idat)
Video ==
    \E boxes \in SeqOf(Boxes(MaxBoxes - 1), MaxBoxes) :
        Nested(boxes) /\ Image \notin ToSet(boxes) /\ file = A("iso", <<>>, boxes, <<>>, FALSE, FALSE)

MediaInit ==
    /\ \/ Photo("jpeg", JpegParts) \/ Photo("png", PngParts) \/ Photo("webp", WebpParts)
       \/ Still \/ Video
       \/ \E format \in Others : file = A(format, <<>>, <<>>, <<>>, FALSE, FALSE)
    /\ at = 0 /\ keep = <<>> /\ blank = {} /\ wiped = {} /\ verdict = "walking"

-----------------------------------------------------------------------------
(* JPEG, PNG, WebP: copy what is kept *)

Walking(format) == verdict = "walking" /\ file.format = format
Left == at < Len(file.parts)
Part == file.parts[at + 1]

GiveUp == verdict' = "unchanged" /\ UNCHANGED <<file, at, keep, blank, wiped>>

\* The length tells whether anything was dropped.
Done(kept) ==
    /\ verdict' = IF kept = file.parts THEN "unchanged" ELSE "rewritten"
    /\ keep' = kept
    /\ UNCHANGED <<file, at, blank, wiped>>

Copy(kept) ==
    /\ at' = at + 1
    /\ keep' = kept
    /\ UNCHANGED <<file, blank, wiped, verdict>>

\* Where the entropy-coded image that starts here ends, or 0.
BugEndOfImage == IF "eoi" \in ToSet(file.parts) THEN Len(file.parts) ELSE 0
EndOfImage ==
    LET ends == {i \in (at + 1)..Len(file.parts) : file.parts[i] = "eoi"}
    IN  IF ends = {} THEN 0 ELSE CHOOSE i \in ends : \A j \in ends : i <= j

\* Nothing after the end of the image is part of the picture.
StripJpeg ==
    /\ Walking("jpeg")
    /\ IF ~Left THEN Done(keep)
       ELSE CASE Part = "bad"     -> GiveUp
              [] Part = "padding" -> Copy(keep)
              [] Part = "eoi"     -> Done(Append(keep, "eoi"))
              [] Part = "scan"    -> IF EndOfImage = 0 THEN GiveUp
                                     ELSE Done(keep \o SubSeq(file.parts, at + 1, EndOfImage))
              [] OTHER            -> Copy(IF Part \in JpegMetadata THEN keep ELSE Append(keep, Part))

PngKeep == {"IHDR", "IDAT", "IEND"}

\* Everything a decoder does not need goes; a file that does not end where its
\* chunks do is left alone.
StripPng ==
    /\ Walking("png")
    /\ IF ~Left THEN Done(keep)
       ELSE IF Part = "bad" \/ (Part = "IEND" /\ at + 1 < Len(file.parts)) THEN GiveUp
       ELSE Copy(IF Part \in PngKeep THEN Append(keep, Part) ELSE keep)

\* The length in the RIFF header is rewritten with the chunks.
StripWebp ==
    /\ Walking("webp")
    /\ IF ~Left THEN Done(keep)
       ELSE IF Part = "bad" THEN GiveUp
       ELSE Copy(IF Part \in {"EXIF", "XMP "} THEN keep ELSE Append(keep, Part))

-----------------------------------------------------------------------------
(* ISO media: blank in place, or change nothing *)

Box == file.boxes[at + 1]
HasMoov == \E i \in DOMAIN file.boxes : file.boxes[i] = [type |-> "moov", in |-> 0]

\* The walk goes into moov and what carries metadata below it, and into no box
\* it has blanked.
Opened == {"moov", "trak"}
Visited(i) == file.boxes[i].in # 0 => file.boxes[file.boxes[i].in].type \in Opened

\* One box that cannot be trusted undoes everything.
Bail == verdict' = "refused" /\ blank' = {} /\ wiped' = {} /\ UNCHANGED <<file, at, keep>>

Blanks(i) ==
    LET box == file.boxes[i]
    IN  \/ box.type \in {"uuid", "mvhd"}
        \/ box.type \in {"udta", "meta"} /\ (box.in # 0 \/ HasMoov)

MetadataItem(item) == item.type = "metadata" /\ item.lies # "elsewhere"
Untrusted(item) ==
    /\ MetadataItem(item)
    /\ item.lies = "item" \/ (item.lies = "idat" /\ ~file.idat) \/ item.extent = "outside"

\* The image's own `meta` says where its items lie: it stays, they are zeroed.
\* One of no length is passed over, and the file counts as handled.
ProcessImageMeta ==
    IF ~file.tables \/ \E i \in DOMAIN file.items : Untrusted(file.items[i]) THEN Bail
    ELSE /\ wiped' = {i \in DOMAIN file.items :
                          MetadataItem(file.items[i]) /\ file.items[i].extent = "inside"}
         /\ at' = at + 1
         /\ UNCHANGED <<file, keep, blank, verdict>>

StripBox ==
    /\ Walking("iso") /\ at < Len(file.boxes)
    /\ IF Visited(at + 1) /\ Box.type = "bad" THEN Bail
       ELSE IF Box.type = "meta" /\ Box.in = 0 /\ ~HasMoov THEN ProcessImageMeta
       ELSE /\ blank' = IF Visited(at + 1) /\ Blanks(at + 1) THEN blank \cup {at + 1} ELSE blank
            /\ at' = at + 1
            /\ UNCHANGED <<file, keep, wiped, verdict>>

StripIsoBmff ==
    /\ Walking("iso") /\ at = Len(file.boxes)
    /\ verdict' = IF blank = {} /\ wiped = {} THEN "unchanged" ELSE "rewritten"
    /\ UNCHANGED <<file, at, keep, blank, wiped>>

\* Any other format goes out as it is.
StripNothing == verdict = "walking" /\ file.format \in Others /\ GiveUp

MediaNext == StripJpeg \/ StripPng \/ StripWebp \/ StripBox \/ StripIsoBmff \/ StripNothing

\* What the screen tells the sender.
MetadataUnhandled ==
    IF file.format = "iso" THEN verdict = "refused" ELSE file.format \in Others \ {"text"}

-----------------------------------------------------------------------------
(* Properties *)

Result == IF verdict = "rewritten" THEN keep ELSE file.parts

\* A part that tells of the photographer: not what lies between the start of a
\* JPEG's first scan and the end of its image, where the code looks for none.
Scans == {i \in DOMAIN Result : Result[i] = "scan"}
JpegTells ==
    \E i \in DOMAIN Result : Result[i] \in JpegMetadata /\ \A s \in Scans : i < s
PartsTell ==
    CASE file.format = "jpeg" -> JpegTells \/ \E i \in DOMAIN Result : i < Len(Result) /\ Result[i] = "eoi"
      [] file.format = "png"  -> \E i \in DOMAIN Result : Result[i] \in {"tEXt", "eXIf"}
      [] file.format = "webp" -> \E i \in DOMAIN Result : Result[i] \in {"EXIF", "XMP "}
      [] file.format = "iso"  -> FALSE
      [] OTHER                -> file.format # "text"

\* A box lies in what was blanked, or in one no player looks for metadata in.
Covered(i) ==
    LET up == file.boxes[i].in
    IN  \/ i \in blank \/ up \in blank
        \/ up # 0 /\ file.boxes[up].type = "stbl"
        \/ up # 0 /\ file.boxes[up].in \in blank
BoxTells(i) ==
    \/ file.boxes[i].type \in {"udta", "mvhd", "uuid"}
    \/ file.boxes[i].type = "meta" /\ (file.boxes[i].in # 0 \/ HasMoov)
IsoTells ==
    \/ \E i \in DOMAIN file.boxes : BoxTells(i) /\ ~Covered(i)
    \/ /\ ~HasMoov
       /\ \E i \in DOMAIN file.items :
              MetadataItem(file.items[i]) /\ file.items[i].extent # "empty" /\ i \notin wiped

\* A walk over a JPEG, PNG or WebP gives up at what it cannot follow: in a JPEG
\* only up to the first scan, which must end.
BrokenJpeg ==
    \E i \in DOMAIN file.parts :
        /\ file.parts[i] = "bad" \/ (file.parts[i] = "scan"
               /\ \A j \in (i + 1)..Len(file.parts) : file.parts[j] # "eoi")
        /\ \A j \in 1..(i - 1) : file.parts[j] \notin {"bad", "scan", "eoi"}
Malformed ==
    CASE file.format = "jpeg" -> BrokenJpeg
      [] file.format = "png"  -> \/ "bad" \in ToSet(file.parts)
                                 \/ \E i \in 1..(Len(file.parts) - 1) : file.parts[i] = "IEND"
      [] OTHER                -> "bad" \in ToSet(file.parts)

\* What leaves the device carries no metadata, or the sender is told that it
\* does.  There are two exceptions, sent without a word: a malformed JPEG, PNG or
\* WebP, which goes as it is, and in an ISO image a metadata item whose length
\* the table gives as 0 or not at all.
CleanOrTold ==
    PartsTell \/ (file.format = "iso" /\ IsoTells) => MetadataUnhandled \/ Malformed

\* Its parts are all there in their order up to the end of the image, no coded
\* item is wiped, and a refused file is as it was, even when the part that could
\* not be trusted came last.
Pictured(part) == part \notin JpegMetadata \cup {"padding", "bad", "tEXt", "eXIf", "EXIF", "XMP "}
PictureKept ==
    /\ LET ends == {i \in DOMAIN file.parts : file.parts[i] = "eoi"}
           first == IF ends = {} THEN Len(file.parts) ELSE CHOOSE i \in ends : \A j \in ends : i <= j
       IN  IsPrefix(SelectSeq(SubSeq(file.parts, 1, first), Pictured), SelectSeq(Result, Pictured))
    /\ \A i \in wiped : file.items[i].type # "picture"
    /\ verdict = "refused" => blank = {} /\ wiped = {}

\* The walk takes the metadata, says so where it cannot, and loses nothing of
\* the picture.  (media.ts: stripImageMetadata, metadataUnhandled, stripJpeg,
\* stripPng, stripWebp; isobmff.ts: stripIsoBmff)
OnlyMetadataGoes == verdict # "walking" => CleanOrTold /\ PictureKept

=============================================================================
