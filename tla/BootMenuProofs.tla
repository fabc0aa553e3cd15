--------------------------- MODULE BootMenuProofs ---------------------------
(* Proofs about the boot menu of boot.axf: the system that is started is   *)
(* the one chosen, whole, with each image where its script says.  The      *)
(* inductive invariant says at every line of a script what the parser has  *)
(* understood of the lines before it.                                      *)
EXTENDS MCPrograms, FiniteSetTheorems, SequenceTheorems, TLAPS

ScriptWords == {None} \union UNION {{lines[i].name : i \in DOMAIN lines} \union {lines[i].text : i \in DOMAIN lines} :
                              lines \in BOOT_INIS \union OS_INIS}
BootLines == UNION {{lines[i] : i \in DOMAIN lines} : lines \in BOOT_INIS}
ImageRecord == [name : ScriptWords, size : Nat, base : Int]
ScriptRecord == [res : Int, stop : BOOLEAN, section : Known \union {None}, adjust : BOOLEAN, segment : Nat,
                 images : [1 .. MAX_IMAGES + 1 -> ImageRecord], count : Nat]
Scripts == OS_INIS \union {<<>>}
Going == {"load", "script", "images", "os"}

BootTypeOK ==
    /\ at \in {"start", "menu", "off", "fel"} \union Going
    /\ ini \in [res : Int, stop : BOOLEAN, system : BOOLEAN, names : Seq(NAMES), start : ScriptWords,
                timeout : Int, count : Nat, startNum : Nat]
    /\ script \in ScriptRecord
    /\ menu \in [item : Nat, sub : BOOLEAN, timeout : Int, key : {None, "down", "up", "back", "released"}]
    /\ files \in [os : [NAMES -> Scripts], image : FILE_SIZES \union {-1}]
    /\ loaded \in Seq([base : Int, size : Nat])
    /\ at = "start" => rest \in Seq(BootLines) /\ ini.count = 0 /\ ini.startNum = 0

\* The cursor, and the entry it comes back to when a start has failed.
Cursor ==
    /\ at \notin {"off", "fel"} /\ ini.count > 0 => ini.startNum <= ini.count
    /\ at = "menu" /\ ini.count > 0 => menu.item <= LastItem

\* A system is being started: what was chosen, what u-boot will find, and the script.
Chosen ==
    /\ at \in Going => chosen \in Int /\ (misc # None => misc = MiscFor(chosen))
    /\ at \in Going \ {"load"} => OsName \in NAMES

\* Sections of the first c lines of a script, and the parameters in the section that
\* starts at line from.
Starts(lines, c) == {j \in SegmentStarts(lines) : j <= c}
Unbroken(lines, from, to) == \A i \in from + 1 .. to : lines[i].kind # "section"
Given(lines, c, from, name) ==
    {j \in from + 1 .. c : lines[j].kind = "param" /\ lines[j].name = name /\ Unbroken(lines, from, j)}

\* The image of a section, from the lines read so far.
ImageRead(lines, c, from, image) ==
    /\ \A j \in Given(lines, c, from, "img_base") :
           image.base = Address(lines[j].value, [n |-> image.size])
    /\ Given(lines, c, from, "img_base") = {} => image.base = 0
    /\ \A j \in Given(lines, c, from, "img_size") : image.size = lines[j].value.n
    /\ Given(lines, c, from, "img_size") = {} => image.size = 0

\* An address waits for the size if it names the end of the image.
Waiting(lines, c, from, p) ==
    Given(lines, c, from, "img_size") = {} =>
        (p.adjust <=> \E j \in Given(lines, c, from, "img_base") : lines[j].value.tail < 0)

\* The section that line c is in, unless the parser does not know it.  Before the first
\* one, the parser goes by whatever section it finds.
InSection(lines, c, p) ==
    \/ \A i \in 1 .. c : lines[i].kind # "section"
    \/ \E s \in 1 .. c : /\ lines[s].kind = "section" /\ Unbroken(lines, s, c)
                         /\ lines[s].name \in Known => p.section = lines[s].name
                         /\ lines[s].name = "segment" /\ Plain(lines) => Waiting(lines, c, s, p)

CountTo(lines, c) == Cardinality(Starts(lines, c))

\* What the first c lines of a script have said: the segments, and the places of the
\* images if the script is a plain one.
Understood(lines, c, p) ==
    /\ p.segment = CountTo(lines, c)
    /\ \A k \in 1 .. p.segment : \E from \in Starts(lines, c) : CountTo(lines, from) = k
    /\ Plain(lines) =>
           /\ \A from \in Starts(lines, c) : ImageRead(lines, c, from, p.images[CountTo(lines, from)])
           /\ \A k \in 1 .. MAX_IMAGES : k > p.segment => p.images[k].base = 0 /\ p.images[k].size = 0
Parsed(lines, c, p) == Understood(lines, c, p) /\ InSection(lines, c, p)

LinesRead(lines) == Len(lines) - Len(rest)
HasLong(lines) == \E j \in DOMAIN lines : lines[j].kind = "long"

ScriptRead ==
    at \in {"script", "images", "os"} =>
        LET lines == files.os[OsName]
        IN /\ at = "script" =>
                  /\ LinesRead(lines) \in 0 .. Len(lines) /\ rest \in Seq({lines[i] : i \in DOMAIN lines})
                  /\ \A i \in 1 .. Len(rest) : rest[i] = lines[LinesRead(lines) + i]
                  /\ script.count = 0
                  /\ script.stop => script.res = -1 \/ HasLong(lines)
                  /\ ~script.stop => Parsed(lines, LinesRead(lines), script)
           /\ at # "script" =>
                  /\ script.stop => HasLong(lines) /\ script.count = 0
                  /\ ~script.stop => Understood(lines, Len(lines), script) /\ script.count = script.segment

\* The images in memory are those of this script.
ImagesLoaded ==
    /\ at \in {"script", "images", "os"} => Len(loaded) <= script.count
    /\ at \in {"images", "os"} =>
           \A k \in 1 .. Len(loaded) :
               /\ loaded[k].base = script.images[k].base /\ loaded[k].base # 0
               /\ loaded[k].size <= script.images[k].size /\ loaded[k].size > 0
    /\ at = "os" => Len(loaded) = script.count

BootInv == BootTypeOK /\ Cursor /\ Chosen /\ ScriptRead /\ ImagesLoaded

LEMMA ScriptLines ==
    ASSUME NEW lines \in Scripts
    PROVE  /\ Len(lines) \in Nat /\ DOMAIN lines = 1 .. Len(lines) /\ lines \in Seq({lines[i] : i \in DOMAIN lines})
           /\ \A i \in 1 .. Len(lines) :
                  /\ lines[i].kind \in {"section", "param", "comment", "bad", "long"}
                  /\ lines[i].name \in ScriptWords /\ lines[i].text \in ScriptWords
                  /\ lines[i].value.n \in Nat /\ lines[i].value.sign \in {1, -1} /\ lines[i].value.tail \in {1, -1}
                  /\ lines[i] = Section("segment") <=> lines[i].kind = "section" /\ lines[i].name = "segment"
           /\ IsFiniteSet(SegmentStarts(lines)) /\ Cardinality(SegmentStarts(lines)) \in 0 .. MAX_IMAGES + 1
<1>1. CASE lines = <<>>
  <2>1. Len(lines) = 0 /\ DOMAIN lines = {} /\ 1 .. Len(lines) = {} /\ lines \in Seq({lines[i] : i \in DOMAIN lines})
    BY <1>1, EmptySeq
  <2>2. DOMAIN lines = 1 .. Len(lines) /\ Len(lines) \in Nat
    BY <2>1
  <2>3. SegmentStarts(lines) = {}
    BY <2>1 DEF SegmentStarts
  <2>4. IsFiniteSet(SegmentStarts(lines)) /\ Cardinality(SegmentStarts(lines)) = 0
    BY <2>3, FS_EmptySet
  <2>5. QED BY <2>1, <2>2, <2>4, MemoryKnown
<1>2. CASE lines \in OS_INIS
  <2>1. WellWritten(lines) /\ Cardinality(SegmentStarts(lines)) <= MAX_IMAGES + 1
    BY <1>2, ScriptsWritten
  <2>2. lines \in Seq({lines[i] : i \in DOMAIN lines})
    BY <2>1 DEF WellWritten
  <2>3. Len(lines) \in Nat /\ DOMAIN lines = 1 .. Len(lines)
    BY <2>2, LenProperties
  <2>4. ASSUME NEW i \in 1 .. Len(lines)
        PROVE  /\ lines[i].kind \in {"section", "param", "comment", "bad", "long"}
               /\ lines[i].value.n \in Nat /\ lines[i].value.sign \in {1, -1} /\ lines[i].value.tail \in {1, -1}
    BY <2>1, <2>3 DEF WellWritten
  <2>5. ASSUME NEW i \in 1 .. Len(lines)
        PROVE  lines[i].name \in ScriptWords /\ lines[i].text \in ScriptWords
    BY <1>2, <2>3 DEF ScriptWords
  <2>6. ASSUME NEW i \in 1 .. Len(lines)
        PROVE  lines[i] = Section("segment") <=> lines[i].kind = "section" /\ lines[i].name = "segment"
    <3>1. lines[i].kind = "section" => lines[i] = Section(lines[i].name)
      BY <2>1, <2>3 DEF WellWritten
    <3>2. Section("segment").kind = "section" /\ Section("segment").name = "segment"
      BY DEF Section, Line
    <3>3. QED BY <3>1, <3>2
  <2>7. IsFiniteSet(SegmentStarts(lines)) /\ Cardinality(SegmentStarts(lines)) \in 0 .. MAX_IMAGES + 1
    <3>1. SegmentStarts(lines) \in SUBSET (1 .. Len(lines)) /\ IsFiniteSet(1 .. Len(lines))
      BY <2>3, FS_Interval DEF SegmentStarts
    <3>2. IsFiniteSet(SegmentStarts(lines))
      BY <3>1, FS_Subset
    <3>3. Cardinality(SegmentStarts(lines)) \in Nat
      BY <3>2, FS_CardinalityType
    <3>4. QED BY <2>1, <3>2, <3>3, MemoryKnown
  <2>8. QED BY <2>2, <2>3, <2>4, <2>5, <2>6, <2>7
<1>3. QED BY <1>1, <1>2 DEF Scripts

\* Where a number of a script points in the memory.
Pointed(v) == IF v.sign < 0 THEN DRAM_TOP - v.n ELSE v.n

\* What a parameter of each kind makes of an image.
ParamGives(i, what, line, adjust, q) ==
    /\ q.image \in ImageRecord /\ q.adjust \in BOOLEAN
    /\ what = "base" =>
           /\ q.image.base = Pointed(line.value) - (IF line.value.tail < 0 THEN i.size ELSE 0)
           /\ q.image.size = i.size
           /\ q.adjust = ((line.value.tail < 0 /\ i.size = 0) \/ adjust)
    /\ what = "size" =>
           /\ q.image.size = line.value.n
           /\ q.image.base = (IF adjust THEN i.base - line.value.n ELSE i.base)
           /\ q.adjust = FALSE
    /\ what \notin {"base", "size"} =>
           q.image.base = i.base /\ q.image.size = i.size /\ q.adjust = adjust

LEMMA ImageParamSteps ==
    ASSUME NEW i \in ImageRecord, NEW what \in {"base", "size", "name", None}, NEW line, NEW adjust \in BOOLEAN,
           line.text \in ScriptWords,
           line.value.n \in Nat, line.value.sign \in {1, -1}, line.value.tail \in {1, -1}
    PROVE  ParamGives(i, what, line, adjust, ImageParam(i, what, line, adjust))
<1> DEFINE q == ImageParam(i, what, line, adjust)
           v == line.value
<1>1. Pointed(v) \in Int /\ i.size \in Nat /\ i.base \in Int /\ v.n \in Nat
  BY MemoryKnown DEF Pointed, ImageRecord
<1>2. CASE what = "base"
  <2>1. /\ q.image = [i EXCEPT !.base = IF v.tail < 0 THEN Pointed(v) - i.size ELSE Pointed(v)]
        /\ q.adjust = ((v.tail < 0 /\ i.size = 0) \/ adjust)
    BY <1>2 DEF ImageParam, BaseLine, Pointed
  <2>2. (IF v.tail < 0 THEN Pointed(v) - i.size ELSE Pointed(v)) \in Int
    BY <1>1
  <2>3. /\ q.image \in ImageRecord /\ q.image.size = i.size
        /\ q.image.base = (IF v.tail < 0 THEN Pointed(v) - i.size ELSE Pointed(v))
    BY <2>1, <2>2 DEF ImageRecord
  <2>4. (IF v.tail < 0 THEN Pointed(v) - i.size ELSE Pointed(v)) = Pointed(v) - (IF v.tail < 0 THEN i.size ELSE 0)
    BY <1>1
  <2>5. q.adjust \in BOOLEAN
    BY <2>1
  <2> HIDE DEF q
  <2>6. QED BY <1>2, <2>1, <2>3, <2>4, <2>5 DEF q, ParamGives
<1>3. CASE what = "size"
  <2>1. /\ q.image = [i EXCEPT !.size = v.n, !.base = IF adjust THEN i.base - v.n ELSE i.base]
        /\ q.adjust = FALSE
    BY <1>3 DEF ImageParam, SizeLine
  <2>2. (IF adjust THEN i.base - v.n ELSE i.base) \in Int
    BY <1>1
  <2>3. /\ q.image \in ImageRecord /\ q.image.size = v.n
        /\ q.image.base = (IF adjust THEN i.base - v.n ELSE i.base)
    BY <1>1, <2>1, <2>2 DEF ImageRecord
  <2> HIDE DEF q
  <2>4. QED BY <1>3, <2>1, <2>3 DEF q, ParamGives
<1>4. CASE what = "name"
  <2>1. q.image = [i EXCEPT !.name = line.text] /\ q.adjust = adjust
    BY <1>4 DEF ImageParam
  <2>2. q.image \in ImageRecord /\ q.image.base = i.base /\ q.image.size = i.size
    BY <2>1 DEF ImageRecord
  <2> HIDE DEF q
  <2>3. QED BY <1>4, <2>1, <2>2 DEF q, ParamGives
<1>5. CASE what = None
  <2>1. q.image = i /\ q.adjust = adjust
    BY <1>5 DEF ImageParam, None
  <2> HIDE DEF q
  <2>2. QED BY <1>5, <2>1 DEF q, None, ParamGives
<1>6. QED BY <1>2, <1>3, <1>4, <1>5

LEMMA MeaningKinds ==
    ASSUME NEW section \in Known \union {None}, NEW name
    PROVE  /\ Meaning(section, name) \in {"base", "size", "name", None}
           /\ section = "segment" =>
                  /\ Meaning(section, name) = "base" <=> name = "img_base"
                  /\ Meaning(section, name) = "size" <=> name = "img_size"
BY DEF Meaning, Known, None

\* What a line can write in the script.
LEMMA ScriptWrites ==
    ASSUME NEW p \in ScriptRecord, NEW r \in Int, NEW b \in BOOLEAN, NEW n \in 1 .. MAX_IMAGES + 1,
           NEW image \in ImageRecord
    PROVE  /\ [p EXCEPT !.stop = b, !.res = r] \in ScriptRecord
           /\ [p EXCEPT !.images[n] = image, !.adjust = b, !.res = r] \in ScriptRecord
           /\ [p EXCEPT !.res = r] \in ScriptRecord
<1>1. [p EXCEPT !.stop = b, !.res = r] \in ScriptRecord
  BY DEF ScriptRecord
<1>2. [p.images EXCEPT ![n] = image] \in [1 .. MAX_IMAGES + 1 -> ImageRecord]
  BY DEF ScriptRecord
<1>3. [p EXCEPT !.images[n] = image, !.adjust = b, !.res = r] \in ScriptRecord
  BY <1>2 DEF ScriptRecord
<1>4. [p EXCEPT !.res = r] \in ScriptRecord
  BY DEF ScriptRecord
<1>5. QED BY <1>1, <1>3, <1>4

\* What a line makes of the script.
LineWritten(p, line, q) ==
    LET n == Target(p)
        i == ImageParam(p.images[n], Meaning(p.section, line.name), line, p.adjust)
    IN /\ q \in ScriptRecord /\ q.count = p.count
       /\ line.kind \in {"long", "bad"} => q.stop /\ (q.res = -1 \/ line.kind = "long")
       /\ line.kind \notin {"long", "bad"} => q.stop = p.stop
       /\ line.kind = "comment" => q = p
       /\ line.kind = "section" =>
              /\ line.name \in Known => q.section = line.name
              /\ q.adjust = FALSE /\ q.images = p.images
              /\ q.segment = (IF line.name = "segment" THEN p.segment + 1 ELSE p.segment)
       /\ line.kind = "param" => q.section = p.section /\ q.segment = p.segment
       /\ line.kind = "param" /\ n = 0 => q.images = p.images
       /\ line.kind = "param" /\ n # 0 => q.images = [p.images EXCEPT ![n] = i.image] /\ q.adjust = i.adjust

LEMMA ImgLineSteps ==
    ASSUME NEW p \in ScriptRecord, NEW line, line.kind \in {"section", "param", "comment", "bad", "long"},
           line.text \in ScriptWords,
           line.value.n \in Nat, line.value.sign \in {1, -1}, line.value.tail \in {1, -1},
           p.segment <= MAX_IMAGES + 1
    PROVE  LineWritten(p, line, ImgLine(p, line))
<1> DEFINE q == ImgLine(p, line)
           n == Target(p)
           i == ImageParam(p.images[n], Meaning(p.section, line.name), line, p.adjust)
           kind == ValueKind(line)
<1>1. /\ p.images \in [1 .. MAX_IMAGES + 1 -> ImageRecord] /\ p.adjust \in BOOLEAN /\ p.segment \in Nat
      /\ p.section \in Known \union {None}
  BY DEF ScriptRecord
<1>2. n \in 0 .. MAX_IMAGES + 1
  BY <1>1, MemoryKnown DEF Target
<1>3. n # 0 => i.image \in ImageRecord /\ i.adjust \in BOOLEAN
  <2>1. Meaning(p.section, line.name) \in {"base", "size", "name", None}
    BY <1>1, MeaningKinds
  <2> HIDE DEF n
  <2>2. n # 0 => n \in 1 .. MAX_IMAGES + 1 /\ p.images[n] \in ImageRecord
    BY <1>1, <1>2, MemoryKnown
  <2>3. QED BY <1>1, <2>1, <2>2, ImageParamSteps DEF ParamGives
<1>4. kind \in Int
  BY DEF ValueKind
<1> HIDE DEF i, n, kind
<1>5. CASE line.kind = "comment"
  <2>1. q = p
    BY <1>5 DEF ImgLine
  <2>2. QED BY <1>5, <2>1 DEF LineWritten
<1>6. CASE line.kind = "long"
  <2>1. q = [p EXCEPT !.stop = TRUE]
    BY <1>6 DEF ImgLine, Stopped
  <2>2. q \in ScriptRecord /\ q.count = p.count /\ q.stop
    BY <2>1 DEF ScriptRecord
  <2> HIDE DEF q
  <2>3. QED BY <1>6, <2>2 DEF q, LineWritten
<1>7. CASE line.kind = "bad"
  <2>1. q = [p EXCEPT !.stop = TRUE, !.res = -1]
    BY <1>7 DEF ImgLine, Stopped
  <2>2. q \in ScriptRecord
    <3>1. TRUE \in BOOLEAN /\ -1 \in Int
      OBVIOUS
    <3>2. QED BY <2>1, <3>1 DEF ScriptRecord
  <2>3. q.count = p.count /\ q.stop /\ q.res = -1
    BY <2>1 DEF ScriptRecord
  <2> HIDE DEF q
  <2>4. QED BY <1>7, <2>2, <2>3 DEF q, LineWritten
<1>8. CASE line.kind = "section"
  <2>1. q = [p EXCEPT !.adjust = FALSE,
                      !.section = IF line.name \in Known THEN line.name ELSE p.section,
                      !.segment = IF line.name = "segment" THEN p.segment + 1 ELSE p.segment]
    BY <1>8 DEF ImgLine, SectionLine
  <2>2. (IF line.name \in Known THEN line.name ELSE p.section) \in Known \union {None}
    BY <1>1
  <2>3. (IF line.name = "segment" THEN p.segment + 1 ELSE p.segment) \in Nat
    BY <1>1
  <2>4. /\ q \in ScriptRecord /\ q.count = p.count /\ q.stop = p.stop /\ q.adjust = FALSE /\ q.images = p.images
        /\ q.section = (IF line.name \in Known THEN line.name ELSE p.section)
        /\ q.segment = (IF line.name = "segment" THEN p.segment + 1 ELSE p.segment)
    BY <2>1, <2>2, <2>3 DEF ScriptRecord
  <2> HIDE DEF q
  <2>5. QED BY <1>8, <2>4 DEF q, LineWritten
<1>9. CASE line.kind = "param" /\ n = 0
  <2>1. q = [p EXCEPT !.res = kind]
    BY <1>9 DEF ImgLine, ParamLine, n, kind
  <2>2. /\ q \in ScriptRecord /\ q.count = p.count /\ q.stop = p.stop /\ q.section = p.section
        /\ q.segment = p.segment /\ q.images = p.images
    BY <1>4, <2>1 DEF ScriptRecord
  <2> HIDE DEF q
  <2>3. QED BY <1>9, <2>2 DEF q, n, LineWritten
<1>10. CASE line.kind = "param" /\ n # 0
  <2>1. q = [p EXCEPT !.images[n] = i.image, !.adjust = i.adjust, !.res = kind]
    BY <1>10 DEF ImgLine, ParamLine, n, i, kind
  <2>2. q \in ScriptRecord
    <3>1. n \in 1 .. MAX_IMAGES + 1
      BY <1>2, <1>10
    <3>2. [p EXCEPT !.images[n] = i.image, !.adjust = i.adjust, !.res = kind] \in ScriptRecord
      BY <1>3, <1>4, <1>10, <3>1, ScriptWrites, Zenon
    <3>3. QED BY <2>1, <3>2
  <2>3. /\ q.count = p.count /\ q.stop = p.stop /\ q.section = p.section /\ q.segment = p.segment
        /\ q.images = [p.images EXCEPT ![n] = i.image] /\ q.adjust = i.adjust
    BY <2>1 DEF ScriptRecord
  <2> HIDE DEF q
  <2>4. QED BY <1>10, <2>2, <2>3 DEF q, i, n, LineWritten
<1>11. QED BY <1>5, <1>6, <1>7, <1>8, <1>9, <1>10

-----------------------------------------------------------------------------
(* The sections of a script.                                                *)

LEMMA StartsCount ==
    ASSUME NEW lines \in Scripts, NEW c \in 0 .. Len(lines)
    PROVE  /\ Starts(lines, c) \subseteq 1 .. c /\ IsFiniteSet(Starts(lines, c)) /\ CountTo(lines, c) \in Nat
           /\ Starts(lines, Len(lines)) = SegmentStarts(lines)
           /\ \A j \in Starts(lines, c) : lines[j].kind = "section" /\ lines[j].name = "segment"
<1>1. Len(lines) \in Nat /\ DOMAIN lines = 1 .. Len(lines)
  BY ScriptLines
<1>2. Starts(lines, c) \subseteq 1 .. c /\ Starts(lines, Len(lines)) = SegmentStarts(lines)
  BY <1>1 DEF Starts, SegmentStarts
<1>3. IsFiniteSet(1 .. c)
  BY <1>1, FS_Interval
<1>4. IsFiniteSet(Starts(lines, c))
  BY <1>2, <1>3, FS_Subset
<1>5. CountTo(lines, c) \in Nat
  BY <1>4, FS_CardinalityType DEF CountTo
<1>6. ASSUME NEW j \in Starts(lines, c) PROVE lines[j].kind = "section" /\ lines[j].name = "segment"
  <2>1. j \in 1 .. Len(lines) /\ lines[j] = Section("segment")
    BY <1>1 DEF Starts, SegmentStarts
  <2>2. QED BY <2>1 DEF Section, Line
<1>7. QED BY <1>2, <1>4, <1>5, <1>6

LEMMA StartsLine ==
    ASSUME NEW lines \in Scripts, NEW c \in 0 .. Len(lines), c < Len(lines)
    PROVE  /\ lines[c + 1] = Section("segment") =>
                  Starts(lines, c + 1) = Starts(lines, c) \union {c + 1} /\ CountTo(lines, c + 1) = CountTo(lines, c) + 1
           /\ lines[c + 1] # Section("segment") =>
                  Starts(lines, c + 1) = Starts(lines, c) /\ CountTo(lines, c + 1) = CountTo(lines, c)
<1>1. Len(lines) \in Nat /\ DOMAIN lines = 1 .. Len(lines)
  BY ScriptLines
<1>2. IsFiniteSet(Starts(lines, c)) /\ c + 1 \notin Starts(lines, c)
  BY <1>1, StartsCount
<1>3. CASE lines[c + 1] = Section("segment")
  <2>1. Starts(lines, c + 1) = Starts(lines, c) \union {c + 1}
    BY <1>1, <1>3 DEF Starts, SegmentStarts
  <2>2. QED BY <1>2, <1>3, <2>1, FS_AddElement DEF CountTo
<1>4. CASE lines[c + 1] # Section("segment")
  <2>1. Starts(lines, c + 1) = Starts(lines, c)
    BY <1>1, <1>4 DEF Starts, SegmentStarts
  <2>2. QED BY <1>4, <2>1 DEF CountTo
<1>5. QED BY <1>3, <1>4

\* The images are numbered as their sections follow each other.
LEMMA StartsOrder ==
    ASSUME NEW lines \in Scripts, NEW j \in SegmentStarts(lines), NEW k \in SegmentStarts(lines), j < k
    PROVE  CountTo(lines, j) < CountTo(lines, k)
<1>1. Len(lines) \in Nat /\ j \in 1 .. Len(lines) /\ k \in 1 .. Len(lines)
  BY ScriptLines DEF SegmentStarts
<1>2. IsFiniteSet(Starts(lines, j)) /\ IsFiniteSet(Starts(lines, k))
  BY <1>1, StartsCount
<1>3. Starts(lines, j) \in SUBSET Starts(lines, k) /\ k \in Starts(lines, k) \ Starts(lines, j)
  BY <1>1 DEF Starts, SegmentStarts
<1>4. CountTo(lines, j) \in Nat /\ CountTo(lines, k) \in Nat
  BY <1>1, StartsCount
<1>5. CountTo(lines, j) <= CountTo(lines, k) /\ CountTo(lines, j) # CountTo(lines, k)
  BY <1>2, <1>3, FS_Subset DEF CountTo
<1>6. QED BY <1>4, <1>5

LEMMA StartsNumbered ==
    ASSUME NEW lines \in Scripts, NEW c \in 0 .. Len(lines), NEW j \in Starts(lines, c)
    PROVE  j \in SegmentStarts(lines) /\ CountTo(lines, j) \in 1 .. CountTo(lines, c)
<1>1. Len(lines) \in Nat /\ j \in 1 .. c /\ j \in SegmentStarts(lines) /\ j \in 1 .. Len(lines)
  <2>1. Len(lines) \in Nat
    BY ScriptLines
  <2>2. Starts(lines, c) \subseteq 1 .. c
    BY StartsCount
  <2>3. j \in SegmentStarts(lines)
    BY DEF Starts
  <2>4. QED BY <2>1, <2>2, <2>3
<1>2. Starts(lines, j) \in SUBSET Starts(lines, c) /\ j \in Starts(lines, j)
  BY <1>1 DEF Starts, SegmentStarts
<1>3. IsFiniteSet(Starts(lines, c)) /\ IsFiniteSet(Starts(lines, j))
  BY <1>1, StartsCount
<1>4. CountTo(lines, j) <= CountTo(lines, c)
  BY <1>2, <1>3, FS_Subset DEF CountTo
<1>5. CountTo(lines, j) # 0
  BY <1>2, <1>3, FS_EmptySet DEF CountTo
<1>6. CountTo(lines, j) \in Nat /\ CountTo(lines, c) \in Nat
  BY <1>1, StartsCount
<1>7. QED BY <1>1, <1>4, <1>5, <1>6

\* The section that goes on is the last one.
LEMMA LastStart ==
    ASSUME NEW lines \in Scripts, NEW c \in 0 .. Len(lines), NEW s \in 1 .. c,
           lines[s].kind = "section", Unbroken(lines, s, c)
    PROVE  /\ \A from \in Starts(lines, c) : from <= s
           /\ lines[s].name = "segment" => s \in Starts(lines, c) /\ CountTo(lines, s) = CountTo(lines, c)
           /\ lines[s].name # "segment" => s \notin Starts(lines, c)
<1>1. Len(lines) \in Nat /\ DOMAIN lines = 1 .. Len(lines) /\ s \in 1 .. Len(lines)
      /\ (lines[s] = Section("segment") <=> lines[s].kind = "section" /\ lines[s].name = "segment")
  <2>1. Len(lines) \in Nat /\ DOMAIN lines = 1 .. Len(lines)
    BY ScriptLines
  <2>2. s \in 1 .. Len(lines)
    BY <2>1
  <2>3. QED BY <2>1, <2>2, ScriptLines
<1>2. ASSUME NEW from \in Starts(lines, c) PROVE from <= s
  <2>1. from \in 1 .. c /\ lines[from].kind = "section"
    BY StartsCount
  <2>2. QED BY <1>1, <2>1 DEF Unbroken
<1>3. CASE lines[s].name = "segment"
  <2>1. s \in Starts(lines, c)
    BY <1>1, <1>3 DEF Starts, SegmentStarts
  <2>2. \A from \in Starts(lines, c) : from \in Starts(lines, s)
    BY <1>2 DEF Starts
  <2>3. \A from \in Starts(lines, s) : from \in Starts(lines, c)
    BY <1>1 DEF Starts, SegmentStarts
  <2>4. Starts(lines, s) = Starts(lines, c)
    BY <2>2, <2>3
  <2>5. QED BY <1>2, <1>3, <2>1, <2>4 DEF CountTo
<1>4. CASE lines[s].name # "segment"
  BY <1>2, <1>4, StartsCount
<1>5. QED BY <1>3, <1>4

\* What the next line adds to the parameters of a section.
LEMMA GivenLine ==
    ASSUME NEW lines \in Scripts, NEW c \in 0 .. Len(lines), c < Len(lines), NEW from \in 1 .. c, NEW name
    PROVE  /\ Given(lines, c, from, name) \subseteq 1 .. c
           /\ Given(lines, c + 1, from, name) = Given(lines, c, from, name) \union
                  {j \in {c + 1} : lines[j].kind = "param" /\ lines[j].name = name /\ Unbroken(lines, from, j)}
<1>1. Len(lines) \in Nat
  BY ScriptLines
<1>2. Given(lines, c, from, name) \subseteq 1 .. c
  BY <1>1 DEF Given
<1>3. ASSUME NEW j
      PROVE  j \in Given(lines, c + 1, from, name) <=>
                 \/ j \in Given(lines, c, from, name)
                 \/ j = c + 1 /\ lines[c + 1].kind = "param" /\ lines[c + 1].name = name /\ Unbroken(lines, from, c + 1)
  <2>1. j \in from + 1 .. c + 1 <=> j \in from + 1 .. c \/ j = c + 1
    BY <1>1
  <2>2. c + 1 \notin from + 1 .. c
    BY <1>1
  <2>3. QED BY <2>1, <2>2, Zenon DEF Given
<1>4. QED BY <1>2, <1>3

\* In a plain script an image has one address and one size.
LEMMA GivenUnique ==
    ASSUME NEW lines \in Scripts, Plain(lines), NEW c \in 0 .. Len(lines), NEW from \in 1 .. c,
           NEW name \in {"img_base", "img_size"},
           NEW i \in Given(lines, c, from, name), NEW j \in Given(lines, c, from, name)
    PROVE  i = j
<1>1. /\ Len(lines) \in Nat /\ DOMAIN lines = 1 .. Len(lines) /\ i \in from + 1 .. c /\ j \in from + 1 .. c
      /\ lines[i].kind = "param" /\ lines[j].kind = "param" /\ lines[i].name = name /\ lines[j].name = name
      /\ Unbroken(lines, from, i) /\ Unbroken(lines, from, j)
  BY ScriptLines DEF Given
<1>2. ASSUME NEW k \in Given(lines, c, from, name), NEW l \in Given(lines, c, from, name), k < l PROVE FALSE
  <2>1. /\ k \in from + 1 .. c /\ l \in from + 1 .. c /\ lines[k].kind = "param" /\ lines[l].kind = "param"
        /\ lines[k].name = name /\ lines[l].name = name /\ Unbroken(lines, from, l)
    BY DEF Given
  <2>2. k \in DOMAIN lines /\ l \in DOMAIN lines /\ InOneSection(lines, k, l)
    BY <1>1, <2>1 DEF Unbroken, InOneSection
  <2>3. Placing(lines[l])
    BY <2>1 DEF Placing
  <2>4. QED BY <1>2, <2>1, <2>2, <2>3 DEF Plain
<1>3. QED BY <1>1, <1>2

\* A parameter in a segment: the address and the size say together where the image is,
\* in whichever order they are given.
LEMMA ImageLine ==
    ASSUME NEW lines \in Scripts, Plain(lines), NEW c \in 0 .. Len(lines), c < Len(lines), NEW s \in 1 .. c,
           lines[c + 1].kind = "param", Unbroken(lines, s, c + 1),
           NEW p \in ScriptRecord, NEW what, what = Meaning("segment", lines[c + 1].name),
           NEW i \in ImageRecord, ImageRead(lines, c, s, i), Waiting(lines, c, s, p),
           NEW q \in ScriptRecord, q.adjust = ImageParam(i, what, lines[c + 1], p.adjust).adjust
    PROVE  ImageRead(lines, c + 1, s, ImageParam(i, what, lines[c + 1], p.adjust).image) /\ Waiting(lines, c + 1, s, q)
<1> DEFINE line == lines[c + 1]
           v == line.value
           m == ImageParam(i, what, line, p.adjust)
           bases == Given(lines, c, s, "img_base")
           sizes == Given(lines, c, s, "img_size")
           basesNow == Given(lines, c + 1, s, "img_base")
           sizesNow == Given(lines, c + 1, s, "img_size")
<1>1. Len(lines) \in Nat /\ c + 1 \in 1 .. Len(lines) /\ c + 1 \in 0 .. Len(lines) /\ s \in 1 .. c + 1 /\ c \in Nat
  BY ScriptLines
<1>2. /\ line.kind \in {"section", "param", "comment", "bad", "long"} /\ line.text \in ScriptWords
      /\ v.n \in Nat /\ v.sign \in {1, -1} /\ v.tail \in {1, -1}
  BY <1>1, ScriptLines
<1>3. i.base \in Int /\ i.size \in Nat /\ p.adjust \in BOOLEAN /\ q.adjust \in BOOLEAN
  BY DEF ImageRecord, ScriptRecord
<1>4. /\ m.image \in ImageRecord /\ m.adjust \in BOOLEAN
      /\ line.name = "img_base" =>
             /\ m.image.base = Pointed(v) - (IF v.tail < 0 THEN i.size ELSE 0)
             /\ m.image.size = i.size
             /\ m.adjust = ((v.tail < 0 /\ i.size = 0) \/ p.adjust)
      /\ line.name = "img_size" =>
             /\ m.image.size = v.n
             /\ m.image.base = (IF p.adjust THEN i.base - v.n ELSE i.base)
             /\ m.adjust = FALSE
      /\ line.name \notin {"img_base", "img_size"} =>
             m.image.base = i.base /\ m.image.size = i.size /\ m.adjust = p.adjust
  <2>1. "segment" \in Known
    BY DEF Known
  <2>2. /\ what \in {"base", "size", "name", None}
        /\ what = "base" <=> line.name = "img_base"
        /\ what = "size" <=> line.name = "img_size"
    BY <2>1, MeaningKinds
  <2>3. what \in {"base", "size", "name", None}
    BY <2>2
  <2>4. ParamGives(i, what, line, p.adjust, m)
    <3> HIDE DEF line
    <3>1. QED BY <1>2, <1>3, <2>3, ImageParamSteps DEF v
  <2> HIDE DEF m, line
  <2>5. QED BY <2>2, <2>4 DEF v, ParamGives
<1>5. /\ bases \subseteq 1 .. c /\ sizes \subseteq 1 .. c
      /\ line.name = "img_base" => basesNow = bases \union {c + 1} /\ sizesNow = sizes
      /\ line.name = "img_size" => basesNow = bases /\ sizesNow = sizes \union {c + 1}
      /\ line.name \notin {"img_base", "img_size"} => basesNow = bases /\ sizesNow = sizes
  <2>1. Unbroken(lines, s, c + 1) /\ line.kind = "param"
    OBVIOUS
  <2>2. /\ bases \subseteq 1 .. c
        /\ basesNow = bases \union
               {j \in {c + 1} : lines[j].kind = "param" /\ lines[j].name = "img_base" /\ Unbroken(lines, s, j)}
    BY GivenLine
  <2>3. /\ sizes \subseteq 1 .. c
        /\ sizesNow = sizes \union
               {j \in {c + 1} : lines[j].kind = "param" /\ lines[j].name = "img_size" /\ Unbroken(lines, s, j)}
    BY GivenLine
  <2> HIDE DEF bases, sizes, basesNow, sizesNow
  <2>4. QED BY <2>1, <2>2, <2>3
<1>6. /\ \A j \in bases : i.base = Address(lines[j].value, [n |-> i.size])
      /\ bases = {} => i.base = 0
      /\ \A j \in sizes : i.size = lines[j].value.n
      /\ sizes = {} => i.size = 0
      /\ sizes = {} => (p.adjust <=> \E j \in bases : lines[j].value.tail < 0)
  BY DEF ImageRead, Waiting
<1>7. q.adjust = m.adjust
  OBVIOUS
<1>8. c + 1 \notin 1 .. c
  BY <1>1
<1>9. /\ line.name = "img_base" => bases = {}
      /\ line.name = "img_size" => sizes = {}
  <2>1. ASSUME line.name = "img_base", NEW j \in bases PROVE FALSE
    <3>1. j \in basesNow /\ c + 1 \in basesNow /\ j # c + 1
      BY <1>5, <1>8, <2>1
    <3> HIDE DEF basesNow
    <3>2. QED BY <1>1, <3>1, GivenUnique DEF basesNow
  <2>2. ASSUME line.name = "img_size", NEW j \in sizes PROVE FALSE
    <3>1. j \in sizesNow /\ c + 1 \in sizesNow /\ j # c + 1
      BY <1>5, <1>8, <2>2
    <3> HIDE DEF sizesNow
    <3>2. QED BY <1>1, <3>1, GivenUnique DEF sizesNow
  <2>3. QED BY <2>1, <2>2
<1>10. ASSUME NEW j \in 1 .. c, NEW n \in Nat
       PROVE  Address(lines[j].value, [n |-> n]) =
                  Pointed(lines[j].value) - (IF lines[j].value.tail < 0 THEN n ELSE 0)
              /\ Pointed(lines[j].value) \in Int /\ lines[j].value.tail \in {1, -1}
  <2>1. j \in 1 .. Len(lines)
    BY <1>1
  <2>2. lines[j].value.n \in Nat /\ lines[j].value.sign \in {1, -1} /\ lines[j].value.tail \in {1, -1}
    BY <2>1, ScriptLines
  <2>3. Pointed(lines[j].value) \in Int
    <3>1. DRAM_TOP \in Nat
      BY MemoryKnown
    <3>2. lines[j].value.n \in Int /\ DRAM_TOP - lines[j].value.n \in Int
      BY <2>2, <3>1
    <3>3. QED BY <3>2, Zenon DEF Pointed
  <2>4. Address(lines[j].value, [n |-> n]) =
            Pointed(lines[j].value) - (IF lines[j].value.tail < 0 THEN n ELSE 0)
    BY DEF Address, Pointed
  <2>5. QED BY <2>2, <2>3, <2>4
<1>11. ASSUME NEW n \in Nat
       PROVE  Address(v, [n |-> n]) = Pointed(v) - (IF v.tail < 0 THEN n ELSE 0) /\ Pointed(v) \in Int
  BY <1>2, MemoryKnown DEF Address, Pointed
<1> SUFFICES /\ \A j \in basesNow : m.image.base = Address(lines[j].value, [n |-> m.image.size])
             /\ basesNow = {} => m.image.base = 0
             /\ \A j \in sizesNow : m.image.size = lines[j].value.n
             /\ sizesNow = {} => m.image.size = 0
             /\ sizesNow = {} => (q.adjust <=> \E j \in basesNow : lines[j].value.tail < 0)
  BY DEF ImageRead, Waiting
<1> HIDE DEF m, bases, sizes, basesNow, sizesNow, line, v
<1>12. CASE line.name = "img_base"
  <2>1. bases = {} /\ basesNow = {c + 1} /\ sizesNow = sizes
    BY <1>5, <1>9, <1>12
  <2>2. /\ m.image.base = Pointed(v) - (IF v.tail < 0 THEN i.size ELSE 0) /\ m.image.size = i.size
        /\ m.adjust = ((v.tail < 0 /\ i.size = 0) \/ p.adjust)
    BY <1>4, <1>12
  <2>3. m.image.base = Address(v, [n |-> i.size])
    BY <1>3, <1>11, <2>2
  <2>4. \A j \in basesNow : m.image.base = Address(lines[j].value, [n |-> m.image.size])
    BY <2>1, <2>2, <2>3 DEF v, line
  <2>5. sizes = {} => (q.adjust <=> v.tail < 0)
    BY <1>3, <1>6, <1>7, <2>1, <2>2
  <2>6. sizes = {} => (q.adjust <=> \E j \in basesNow : lines[j].value.tail < 0)
    BY <2>1, <2>5 DEF v, line
  <2>7. QED BY <1>6, <2>1, <2>2, <2>4, <2>6
<1>13. CASE line.name = "img_size"
  <2>1. sizes = {} /\ sizesNow = {c + 1} /\ basesNow = bases /\ i.size = 0
    BY <1>5, <1>6, <1>9, <1>13
  <2>2. m.image.size = v.n /\ m.image.base = (IF p.adjust THEN i.base - v.n ELSE i.base)
    BY <1>4, <1>13
  <2>3. p.adjust <=> \E j \in bases : lines[j].value.tail < 0
    BY <1>6, <2>1
  <2>4. ASSUME NEW j \in bases PROVE m.image.base = Address(lines[j].value, [n |-> m.image.size])
    <3>1. j \in 1 .. c /\ i.base = Address(lines[j].value, [n |-> 0])
      BY <1>5, <1>6, <2>1
    <3>2. /\ i.base = Pointed(lines[j].value) - (IF lines[j].value.tail < 0 THEN 0 ELSE 0)
          /\ Address(lines[j].value, [n |-> v.n]) =
                 Pointed(lines[j].value) - (IF lines[j].value.tail < 0 THEN v.n ELSE 0)
          /\ Pointed(lines[j].value) \in Int
      BY <1>2, <1>10, <3>1
    <3>3. p.adjust <=> lines[j].value.tail < 0
      <4>1. ASSUME NEW k \in bases PROVE k = j
        BY <2>4, GivenUnique DEF bases
      <4>2. QED BY <2>3, <2>4, <4>1
    <3>4. QED BY <1>2, <2>2, <3>2, <3>3
  <2>5. bases = {} => m.image.base = 0
    BY <1>6, <2>2, <2>3
  <2>6. \A j \in sizesNow : m.image.size = lines[j].value.n
    BY <2>1, <2>2 DEF v, line
  <2>7. QED BY <2>1, <2>4, <2>5, <2>6
<1>14. CASE line.name \notin {"img_base", "img_size"}
  <2>1. basesNow = bases /\ sizesNow = sizes /\ m.image.base = i.base /\ m.image.size = i.size /\ q.adjust = p.adjust
    BY <1>4, <1>5, <1>7, <1>14
  <2>2. QED BY <1>6, <2>1
<1>15. QED BY <1>12, <1>13, <1>14

\* An image whose section has ended, and the section of a line that says nothing.
LEMMA SectionKept ==
    ASSUME NEW lines \in Scripts, NEW c \in 0 .. Len(lines), c < Len(lines), NEW from \in 1 .. c,
           lines[c + 1].kind # "param" \/ ~Unbroken(lines, from, c + 1), NEW i
    PROVE  /\ ImageRead(lines, c, from, i) => ImageRead(lines, c + 1, from, i)
           /\ \A p : Waiting(lines, c, from, p) => Waiting(lines, c + 1, from, p)
<1>1. /\ Given(lines, c + 1, from, "img_base") = Given(lines, c, from, "img_base")
      /\ Given(lines, c + 1, from, "img_size") = Given(lines, c, from, "img_size")
  <2>1. ASSUME NEW name
        PROVE  Given(lines, c + 1, from, name) = Given(lines, c, from, name)
    <3>1. Given(lines, c + 1, from, name) = Given(lines, c, from, name) \union
              {j \in {c + 1} : lines[j].kind = "param" /\ lines[j].name = name /\ Unbroken(lines, from, j)}
      BY GivenLine
    <3>2. QED BY <3>1
  <2>2. QED BY <2>1
<1>2. QED BY <1>1 DEF ImageRead, Waiting

LEMMA UnbrokenLine ==
    ASSUME NEW lines \in Scripts, NEW c \in 0 .. Len(lines), c < Len(lines), NEW s \in 1 .. c
    PROVE  Unbroken(lines, s, c + 1) <=> Unbroken(lines, s, c) /\ lines[c + 1].kind # "section"
<1>1. Len(lines) \in Nat
  BY ScriptLines
<1>2. QED BY <1>1 DEF Unbroken

\* What the parser has understood, one line on.
LEMMA ParseComment ==
    ASSUME NEW lines \in Scripts, NEW c \in 0 .. Len(lines), c < Len(lines), NEW p \in ScriptRecord,
           Parsed(lines, c, p), lines[c + 1].kind = "comment"
    PROVE  Parsed(lines, c + 1, p)
<1>1. Len(lines) \in Nat /\ c + 1 \in 1 .. Len(lines)
  BY ScriptLines
<1>2. lines[c + 1] # Section("segment")
  BY <1>1, ScriptLines
<1>3. Starts(lines, c + 1) = Starts(lines, c) /\ CountTo(lines, c + 1) = CountTo(lines, c)
  BY <1>2, StartsLine
<1>4. ASSUME Plain(lines), NEW from \in Starts(lines, c)
      PROVE  ImageRead(lines, c + 1, from, p.images[CountTo(lines, from)])
  <2>1. from \in 1 .. c
    BY StartsCount
  <2>2. ImageRead(lines, c, from, p.images[CountTo(lines, from)])
    BY <1>4 DEF Parsed, Understood
  <2>3. QED BY <2>1, <2>2, SectionKept
<1>5. Understood(lines, c + 1, p)
  BY <1>3, <1>4 DEF Parsed, Understood
<1>6. InSection(lines, c + 1, p)
  <2>1. CASE \A i \in 1 .. c : lines[i].kind # "section"
    BY <1>1, <2>1 DEF InSection
  <2>2. ASSUME NEW s \in 1 .. c, lines[s].kind = "section", Unbroken(lines, s, c),
               lines[s].name \in Known => p.section = lines[s].name,
               lines[s].name = "segment" /\ Plain(lines) => Waiting(lines, c, s, p)
        PROVE  InSection(lines, c + 1, p)
    <3>1. s \in 1 .. c + 1 /\ Unbroken(lines, s, c + 1)
      BY <1>1, <2>2, UnbrokenLine
    <3>2. lines[s].name = "segment" /\ Plain(lines) => Waiting(lines, c + 1, s, p)
      BY <2>2, SectionKept
    <3>3. QED BY <2>2, <3>1, <3>2 DEF InSection
  <2>3. InSection(lines, c, p)
    BY DEF Parsed
  <2>4. QED BY <2>1, <2>2, <2>3 DEF InSection
<1>7. QED BY <1>5, <1>6 DEF Parsed

\* A plain script has no more segments than there are images.
LEMMA StartsBound ==
    ASSUME NEW lines \in Scripts, NEW c \in 0 .. Len(lines)
    PROVE  /\ CountTo(lines, c) \in 0 .. MAX_IMAGES + 1
           /\ Plain(lines) => CountTo(lines, c) <= MAX_IMAGES
<1>1. IsFiniteSet(SegmentStarts(lines)) /\ Cardinality(SegmentStarts(lines)) \in 0 .. MAX_IMAGES + 1
  BY ScriptLines
<1>2. Starts(lines, c) \in SUBSET SegmentStarts(lines)
  BY DEF Starts
<1>3. CountTo(lines, c) <= Cardinality(SegmentStarts(lines)) /\ CountTo(lines, c) \in Nat
  BY <1>1, <1>2, FS_Subset, StartsCount DEF CountTo
<1>4. QED BY <1>1, <1>3, MemoryKnown DEF Plain

LEMMA ParseSection ==
    ASSUME NEW lines \in Scripts, NEW c \in 0 .. Len(lines), c < Len(lines), NEW p \in ScriptRecord,
           Parsed(lines, c, p), lines[c + 1].kind = "section",
           NEW q \in ScriptRecord, lines[c + 1].name \in Known => q.section = lines[c + 1].name,
           q.images = p.images,
           q.segment = IF lines[c + 1].name = "segment" THEN p.segment + 1 ELSE p.segment,
           q.adjust = FALSE
    PROVE  Parsed(lines, c + 1, q)
<1>1. Len(lines) \in Nat /\ c + 1 \in 1 .. Len(lines) /\ c + 1 \in 0 .. Len(lines) /\ c \in Nat
  BY ScriptLines
<1>2. lines[c + 1] = Section("segment") <=> lines[c + 1].name = "segment"
  BY <1>1, ScriptLines
<1>3. ASSUME Plain(lines), NEW from \in Starts(lines, c)
      PROVE  ImageRead(lines, c + 1, from, p.images[CountTo(lines, from)])
  <2>1. from \in 1 .. c
    BY StartsCount
  <2>2. ImageRead(lines, c, from, p.images[CountTo(lines, from)])
    BY <1>3 DEF Parsed, Understood
  <2>3. QED BY <2>1, <2>2, SectionKept
<1>4. Given(lines, c + 1, c + 1, "img_base") = {} /\ Given(lines, c + 1, c + 1, "img_size") = {}
  BY <1>1 DEF Given
<1>5. InSection(lines, c + 1, q)
  <2>1. c + 1 \in 1 .. c + 1 /\ Unbroken(lines, c + 1, c + 1)
    BY <1>1 DEF Unbroken
  <2>2. Waiting(lines, c + 1, c + 1, q)
    BY <1>4 DEF Waiting
  <2>3. QED BY <2>1, <2>2 DEF InSection
<1>6. /\ p.segment = CountTo(lines, c)
      /\ \A k \in 1 .. p.segment : \E from \in Starts(lines, c) : CountTo(lines, from) = k
      /\ Plain(lines) => \A k \in 1 .. MAX_IMAGES :
             k > p.segment => p.images[k].base = 0 /\ p.images[k].size = 0
  BY DEF Parsed, Understood
<1>7. CountTo(lines, c) \in Nat /\ CountTo(lines, c + 1) \in Nat /\ MAX_IMAGES \in Nat
  BY <1>1, StartsCount, MemoryKnown
<1>8. CASE lines[c + 1].name = "segment"
  <2>1. Starts(lines, c + 1) = Starts(lines, c) \union {c + 1} /\ CountTo(lines, c + 1) = CountTo(lines, c) + 1
    BY <1>2, <1>8, StartsLine
  <2>2. q.segment = p.segment + 1 /\ q.segment = CountTo(lines, c + 1)
    BY <1>6, <1>8, <2>1
  <2>3. Plain(lines) => ImageRead(lines, c + 1, c + 1, q.images[CountTo(lines, c + 1)])
    <3>1. SUFFICES ASSUME Plain(lines)
                   PROVE  q.images[CountTo(lines, c + 1)].base = 0 /\ q.images[CountTo(lines, c + 1)].size = 0
      BY <1>4 DEF ImageRead
    <3>2. CountTo(lines, c + 1) <= MAX_IMAGES
      BY <1>1, <3>1, StartsBound
    <3>3. CountTo(lines, c + 1) \in 1 .. MAX_IMAGES /\ CountTo(lines, c + 1) > p.segment
      BY <1>6, <1>7, <2>1, <3>2
    <3>4. QED BY <1>6, <3>1, <3>3
  <2>4. \A k \in 1 .. q.segment : \E from \in Starts(lines, c + 1) : CountTo(lines, from) = k
    <3>1. ASSUME NEW k \in 1 .. q.segment
          PROVE  \E from \in Starts(lines, c + 1) : CountTo(lines, from) = k
      <4>1. CASE k = q.segment
        BY <2>1, <2>2, <4>1
      <4>2. CASE k # q.segment
        <5>1. k \in 1 .. p.segment
          BY <1>6, <1>7, <2>2, <4>2
        <5>2. QED BY <1>6, <2>1, <5>1
      <4>3. QED BY <4>1, <4>2
    <3>2. QED BY <3>1
  <2>5. Plain(lines) => \A k \in 1 .. MAX_IMAGES :
            k > q.segment => q.images[k].base = 0 /\ q.images[k].size = 0
    BY <1>6, <1>7, <2>2
  <2>6. Plain(lines) => \A from \in Starts(lines, c + 1) :
            ImageRead(lines, c + 1, from, q.images[CountTo(lines, from)])
    BY <1>3, <2>1, <2>3
  <2>7. QED BY <1>5, <2>2, <2>4, <2>5, <2>6 DEF Parsed, Understood
<1>9. CASE lines[c + 1].name # "segment"
  <2>1. Starts(lines, c + 1) = Starts(lines, c) /\ CountTo(lines, c + 1) = CountTo(lines, c) /\ q.segment = p.segment
    BY <1>2, <1>9, StartsLine
  <2>2. QED BY <1>3, <1>5, <1>6, <2>1 DEF Parsed, Understood
<1>10. QED BY <1>8, <1>9

\* A parameter is written to the image whose section it is in.  Outside a segment it
\* leaves the places of all images alone, if the script is a plain one.
LEMMA ParamElsewhere ==
    ASSUME NEW lines \in Scripts, Plain(lines), NEW c \in 0 .. Len(lines), c < Len(lines),
           NEW p \in ScriptRecord, Parsed(lines, c, p), lines[c + 1].kind = "param",
           \A s \in 1 .. c : lines[s] = Section("segment") => ~Unbroken(lines, s, c),
           NEW q \in ScriptRecord, LineWritten(p, lines[c + 1], q), NEW k \in 1 .. MAX_IMAGES
    PROVE  q.images[k].base = p.images[k].base /\ q.images[k].size = p.images[k].size
<1> DEFINE n == Target(p)
           line == lines[c + 1]
           what == Meaning(p.section, line.name)
           i == ImageParam(p.images[n], what, line, p.adjust)
<1>1. Len(lines) \in Nat /\ DOMAIN lines = 1 .. Len(lines) /\ c + 1 \in 1 .. Len(lines) /\ c \in Nat /\ MAX_IMAGES \in Nat
  BY ScriptLines, MemoryKnown
<1>2. /\ line.kind \in {"section", "param", "comment", "bad", "long"} /\ line.text \in ScriptWords
      /\ line.value.n \in Nat /\ line.value.sign \in {1, -1} /\ line.value.tail \in {1, -1}
  BY <1>1, ScriptLines
<1>3. /\ p.images \in [1 .. MAX_IMAGES + 1 -> ImageRecord] /\ p.adjust \in BOOLEAN
      /\ p.section \in Known \union {None} /\ p.segment \in Nat
  BY DEF ScriptRecord
<1>4. /\ n = 0 => q.images = p.images
      /\ n # 0 => q.images = [p.images EXCEPT ![n] = i.image]
  BY DEF LineWritten
<1>5. p.segment = CountTo(lines, c) /\ InSection(lines, c, p)
  BY DEF Parsed, Understood
<1>6. CASE p.section # "segment"
  <2>1. n \in {0, MAX_IMAGES + 1} /\ k # MAX_IMAGES + 1
    BY <1>1, <1>6 DEF Target
  <2> HIDE DEF n, i
  <2>2. QED BY <1>1, <1>3, <1>4, <2>1
<1>7. CASE p.section = "segment" /\ \A j \in 1 .. c : lines[j].kind # "section"
  <2>1. Starts(lines, c) = {}
    BY <1>7, StartsCount
  <2>2. p.segment = 0
    BY <1>5, <2>1, FS_EmptySet DEF CountTo
  <2>3. n = 0
    BY <1>7, <2>2 DEF Target
  <2> HIDE DEF n, i
  <2>4. QED BY <1>4, <2>3
<1>8. CASE /\ p.section = "segment"
           /\ \E s \in 1 .. c : /\ lines[s].kind = "section" /\ Unbroken(lines, s, c)
                                /\ lines[s].name \in Known => p.section = lines[s].name
  <2>1. PICK s \in 1 .. c : /\ lines[s].kind = "section" /\ Unbroken(lines, s, c)
                            /\ lines[s].name \in Known => p.section = lines[s].name
    BY <1>8
  <2>2. s \in 1 .. Len(lines)
    BY <1>1
  <2>3. lines[s].name # "segment"
    BY <2>1, <2>2, ScriptLines
  <2>4. lines[s].name \notin Known
    BY <1>8, <2>1, <2>3
  <2>5. ~Placing(line)
    <3>1. s \in DOMAIN lines /\ c + 1 \in DOMAIN lines /\ s < c + 1
      BY <1>1, <2>2
    <3>2. InOneSection(lines, s, c + 1)
      BY <1>1, <2>1 DEF Unbroken, InOneSection
    <3>3. QED BY <2>1, <2>4, <3>1, <3>2 DEF Plain
  <2>6. line.name \notin {"img_base", "img_size"}
    BY <2>5 DEF Placing
  <2>7. what \in {"base", "size", "name", None} /\ what \notin {"base", "size"}
    BY <1>3, <1>8, <2>6, MeaningKinds
  <2>8. n = p.segment /\ CountTo(lines, c) \in 0 .. MAX_IMAGES + 1
    BY <1>8, StartsBound DEF Target
  <2>9. CASE n = 0
    <3> HIDE DEF n, i
    <3>1. QED BY <1>4, <2>9
  <2>10. CASE n # 0
    <3> HIDE DEF line, what, n
    <3>1. n \in 1 .. MAX_IMAGES + 1
      BY <1>1, <1>3, <1>5, <2>8, <2>10
    <3>2. p.images[n] \in ImageRecord
      BY <1>3, <3>1
    <3>3. i.image.base = p.images[n].base /\ i.image.size = p.images[n].size
      <4>1. ParamGives(p.images[n], what, line, p.adjust, i)
        BY <1>2, <1>3, <2>7, <3>2, ImageParamSteps
      <4> HIDE DEF i
      <4>2. QED BY <2>7, <4>1 DEF ParamGives
    <3>4. q.images = [p.images EXCEPT ![n] = i.image]
      BY <1>4, <2>10
    <3> HIDE DEF i
    <3>5. k \in 1 .. MAX_IMAGES + 1
      BY <1>1
    <3>6. QED BY <1>3, <3>1, <3>3, <3>4, <3>5
  <2>11. QED BY <2>9, <2>10
<1>9. QED BY <1>5, <1>6, <1>7, <1>8 DEF InSection

LEMMA ParseParam ==
    ASSUME NEW lines \in Scripts, NEW c \in 0 .. Len(lines), c < Len(lines), NEW p \in ScriptRecord,
           Parsed(lines, c, p), lines[c + 1].kind = "param",
           \A s \in 1 .. c : lines[s] = Section("segment") => ~Unbroken(lines, s, c),
           NEW q \in ScriptRecord, LineWritten(p, lines[c + 1], q)
    PROVE  Parsed(lines, c + 1, q)
<1>1. Len(lines) \in Nat /\ c + 1 \in 1 .. Len(lines) /\ c \in Nat /\ MAX_IMAGES \in Nat
  BY ScriptLines, MemoryKnown
<1>2. lines[c + 1] # Section("segment")
  BY <1>1, ScriptLines
<1>3. Starts(lines, c + 1) = Starts(lines, c) /\ CountTo(lines, c + 1) = CountTo(lines, c)
  BY <1>2, StartsLine
<1>4. q.section = p.section /\ q.segment = p.segment
  BY DEF LineWritten
<1>5. /\ p.segment = CountTo(lines, c)
      /\ \A k \in 1 .. p.segment : \E from \in Starts(lines, c) : CountTo(lines, from) = k
      /\ Plain(lines) => \A k \in 1 .. MAX_IMAGES :
             k > p.segment => p.images[k].base = 0 /\ p.images[k].size = 0
  BY DEF Parsed, Understood
<1>6. InSection(lines, c + 1, q)
  <2>1. CASE \A i \in 1 .. c : lines[i].kind # "section"
    BY <1>1, <2>1 DEF InSection
  <2>2. ASSUME NEW s \in 1 .. c, lines[s].kind = "section", Unbroken(lines, s, c),
               lines[s].name \in Known => p.section = lines[s].name
        PROVE  InSection(lines, c + 1, q)
    <3>1. s \in 1 .. c + 1 /\ Unbroken(lines, s, c + 1)
      BY <1>1, <2>2, UnbrokenLine
    <3>2. s \in 1 .. Len(lines)
      BY <1>1
    <3>3. lines[s].name # "segment"
      BY <2>2, <3>2, ScriptLines
    <3>4. QED BY <1>4, <2>2, <3>1, <3>3 DEF InSection
  <2>3. InSection(lines, c, p)
    BY DEF Parsed
  <2>4. QED BY <2>1, <2>2, <2>3 DEF InSection
<1>7. ASSUME Plain(lines), NEW k \in 1 .. MAX_IMAGES
      PROVE  q.images[k].base = p.images[k].base /\ q.images[k].size = p.images[k].size
  BY <1>7, ParamElsewhere
<1>8. ASSUME Plain(lines), NEW from \in Starts(lines, c)
      PROVE  ImageRead(lines, c + 1, from, q.images[CountTo(lines, from)])
  <2> DEFINE k == CountTo(lines, from)
  <2>1. from \in 1 .. c /\ from \in SegmentStarts(lines) /\ k \in 1 .. CountTo(lines, c)
    BY StartsCount, StartsNumbered
  <2>2. CountTo(lines, c) <= MAX_IMAGES /\ CountTo(lines, c) \in Nat
    BY <1>8, StartsBound, StartsCount
  <2>3. k \in 1 .. MAX_IMAGES
    BY <1>1, <2>1, <2>2
  <2>4. ImageRead(lines, c, from, p.images[k])
    BY <1>8 DEF Parsed, Understood
  <2>5. ~Unbroken(lines, from, c + 1)
    <3>1. ~Unbroken(lines, from, c)
      BY <2>1 DEF SegmentStarts
    <3>2. QED BY <2>1, <3>1, UnbrokenLine
  <2>6. ImageRead(lines, c + 1, from, p.images[k])
    BY <2>1, <2>4, <2>5, SectionKept
  <2> HIDE DEF k
  <2>7. q.images[k].base = p.images[k].base /\ q.images[k].size = p.images[k].size
    BY <1>7, <1>8, <2>3
  <2>8. ImageRead(lines, c + 1, from, q.images[k])
    BY <2>6, <2>7 DEF ImageRead
  <2>9. QED BY <2>8 DEF k
<1>9. QED BY <1>3, <1>4, <1>5, <1>6, <1>7, <1>8 DEF Parsed, Understood

\* In a segment the parameter is for its image, and for no other.
LEMMA ParseSegmentParam ==
    ASSUME NEW lines \in Scripts, NEW c \in 0 .. Len(lines), c < Len(lines), NEW p \in ScriptRecord,
           Parsed(lines, c, p), lines[c + 1].kind = "param",
           NEW s \in 1 .. c, lines[s] = Section("segment"), Unbroken(lines, s, c),
           NEW q \in ScriptRecord, LineWritten(p, lines[c + 1], q)
    PROVE  Parsed(lines, c + 1, q)
<1> DEFINE n == p.segment
           line == lines[c + 1]
           what == Meaning("segment", line.name)
           image == ImageParam(p.images[n], what, line, p.adjust).image
<1>1. Len(lines) \in Nat /\ c + 1 \in 1 .. Len(lines) /\ c \in Nat /\ MAX_IMAGES \in Nat /\ s \in 1 .. Len(lines)
  <2>1. Len(lines) \in Nat
    BY ScriptLines
  <2>2. QED BY <2>1, MemoryKnown
<1>2. lines[c + 1] # Section("segment") /\ lines[s].kind = "section" /\ lines[s].name = "segment"
  BY <1>1, ScriptLines
<1>3. Starts(lines, c + 1) = Starts(lines, c) /\ CountTo(lines, c + 1) = CountTo(lines, c) /\ n = CountTo(lines, c)
  BY <1>2, StartsLine DEF Parsed, Understood
<1>4. p.section = "segment" /\ (Plain(lines) => Waiting(lines, c, s, p))
  <2>1. ASSUME NEW t \in 1 .. c, lines[t].kind = "section", Unbroken(lines, t, c)
        PROVE  t = s
    BY <1>1, <1>2, <2>1 DEF Unbroken
  <2>2. InSection(lines, c, p) /\ "segment" \in Known
    BY DEF Parsed, Known
  <2>3. PICK t \in 1 .. c : /\ lines[t].kind = "section" /\ Unbroken(lines, t, c)
                            /\ lines[t].name \in Known => p.section = lines[t].name
                            /\ lines[t].name = "segment" /\ Plain(lines) => Waiting(lines, c, t, p)
    BY <1>2, <2>2 DEF InSection
  <2>4. t = s
    BY <2>1, <2>3
  <2>5. QED BY <1>2, <2>2, <2>3, <2>4
<1>5. s \in Starts(lines, c) /\ CountTo(lines, s) = n /\ \A from \in Starts(lines, c) : from <= s
  BY <1>2, <1>3, LastStart
<1>6. n \in 1 .. MAX_IMAGES + 1
  <2>1. CountTo(lines, s) \in 1 .. CountTo(lines, c) /\ CountTo(lines, c) \in 0 .. MAX_IMAGES + 1
    BY <1>5, StartsNumbered, StartsBound
  <2>2. QED BY <1>1, <1>5, <2>1
<1>7. p.images \in [1 .. MAX_IMAGES + 1 -> ImageRecord] /\ p.images[n] \in ImageRecord
  BY <1>6 DEF ScriptRecord
<1>8. s \in 1 .. c + 1 /\ Unbroken(lines, s, c + 1)
  BY <1>1, <1>2, UnbrokenLine
<1>9. /\ q.section = p.section /\ q.segment = n
      /\ q.images = [p.images EXCEPT ![n] = image]
      /\ q.adjust = ImageParam(p.images[n], what, line, p.adjust).adjust
  <2>1. Target(p) = n /\ n # 0
    BY <1>4, <1>6 DEF Target
  <2>2. QED BY <1>4, <2>1 DEF LineWritten
<1>10. /\ q.images[n] = image
       /\ \A k \in 1 .. MAX_IMAGES + 1 : k # n => q.images[k] = p.images[k]
  <2> HIDE DEF image, n
  <2>1. QED BY <1>6, <1>7, <1>9
<1>11. ASSUME Plain(lines)
       PROVE  ImageRead(lines, c + 1, s, image) /\ Waiting(lines, c + 1, s, q)
  <2>1. ImageRead(lines, c, s, p.images[n])
    BY <1>5, <1>11 DEF Parsed, Understood
  <2> HIDE DEF what
  <2>2. QED BY <1>4, <1>7, <1>8, <1>9, <1>11, <2>1, ImageLine DEF what
<1>12. InSection(lines, c + 1, q)
  BY <1>2, <1>4, <1>8, <1>9, <1>11 DEF InSection
<1> HIDE DEF image
<1>13. ASSUME Plain(lines), NEW from \in Starts(lines, c)
       PROVE  ImageRead(lines, c + 1, from, q.images[CountTo(lines, from)])
  <2>1. CASE from = s
    BY <1>5, <1>10, <1>11, <1>13, <2>1
  <2>2. CASE from # s
    <3>1. from \in 1 .. c /\ from < s
      BY <1>5, <2>2, StartsCount
    <3>2. ~Unbroken(lines, from, c + 1)
      BY <1>1, <1>2, <3>1 DEF Unbroken
    <3>3. ImageRead(lines, c, from, p.images[CountTo(lines, from)])
      BY <1>13 DEF Parsed, Understood
    <3>4. ImageRead(lines, c + 1, from, p.images[CountTo(lines, from)])
      BY <3>1, <3>2, <3>3, SectionKept
    <3>5. CountTo(lines, from) \in 1 .. n /\ CountTo(lines, from) < n
      <4>1. from \in SegmentStarts(lines) /\ s \in SegmentStarts(lines) /\ CountTo(lines, from) \in 1 .. n
        BY <1>3, <1>5, StartsNumbered
      <4>2. QED BY <1>5, <3>1, <4>1, StartsOrder
    <3>6. CountTo(lines, from) # n /\ CountTo(lines, from) \in 1 .. MAX_IMAGES + 1
      <4> HIDE DEF n
      <4>1. QED BY <1>1, <1>6, <3>5
    <3>7. QED BY <1>10, <3>4, <3>6
  <2>3. QED BY <2>1, <2>2
<1>14. /\ \A k \in 1 .. n : \E from \in Starts(lines, c) : CountTo(lines, from) = k
       /\ Plain(lines) => \A k \in 1 .. MAX_IMAGES : k > n => p.images[k].base = 0 /\ p.images[k].size = 0
  BY DEF Parsed, Understood
<1>15. Plain(lines) => \A k \in 1 .. MAX_IMAGES : k > n => q.images[k].base = 0 /\ q.images[k].size = 0
  <2> HIDE DEF n
  <2>1. QED BY <1>1, <1>6, <1>10, <1>14
<1>16. QED BY <1>3, <1>9, <1>12, <1>13, <1>14, <1>15 DEF Parsed, Understood

LEMMA ParseLine ==
    ASSUME NEW lines \in Scripts, NEW c \in 0 .. Len(lines), c < Len(lines), NEW p \in ScriptRecord,
           Parsed(lines, c, p), ~p.stop, NEW q, q = ImgLine(p, lines[c + 1])
    PROVE  /\ q \in ScriptRecord /\ q.count = p.count
           /\ q.stop => q.res = -1 \/ HasLong(lines)
           /\ ~q.stop => Parsed(lines, c + 1, q)
<1> DEFINE line == lines[c + 1]
<1>1. Len(lines) \in Nat /\ DOMAIN lines = 1 .. Len(lines) /\ c + 1 \in 1 .. Len(lines)
  <2>1. Len(lines) \in Nat /\ DOMAIN lines = 1 .. Len(lines)
    BY ScriptLines
  <2>2. QED BY <2>1
<1>2. /\ line.kind \in {"section", "param", "comment", "bad", "long"} /\ line.text \in ScriptWords
      /\ line.value.n \in Nat /\ line.value.sign \in {1, -1} /\ line.value.tail \in {1, -1}
  BY <1>1, ScriptLines
<1>3. p.segment <= MAX_IMAGES + 1
  BY StartsBound, MemoryKnown DEF Parsed, Understood
<1>4. LineWritten(p, line, q)
  BY <1>2, <1>3, ImgLineSteps
<1>5. /\ q \in ScriptRecord /\ q.count = p.count
      /\ line.kind \in {"long", "bad"} => q.stop /\ (q.res = -1 \/ line.kind = "long")
      /\ line.kind \notin {"long", "bad"} => q.stop = p.stop
      /\ line.kind = "comment" => q = p
      /\ line.kind = "section" =>
             /\ line.name \in Known => q.section = line.name
             /\ q.adjust = FALSE /\ q.images = p.images
             /\ q.segment = (IF line.name = "segment" THEN p.segment + 1 ELSE p.segment)
  BY <1>4 DEF LineWritten
<1>6. CASE line.kind \in {"long", "bad"}
  BY <1>1, <1>5, <1>6 DEF HasLong
<1>7. CASE line.kind = "comment"
  BY <1>5, <1>7, ParseComment
<1>8. CASE line.kind = "section"
  <2>1. Parsed(lines, c + 1, q)
    BY <1>5, <1>8, ParseSection
  <2>2. QED BY <1>5, <1>8, <2>1
<1>9. CASE line.kind = "param"
  <2>1. ASSUME \A s \in 1 .. c : lines[s] = Section("segment") => ~Unbroken(lines, s, c)
        PROVE  Parsed(lines, c + 1, q)
    BY <1>4, <1>5, <1>9, <2>1, ParseParam
  <2>2. ASSUME NEW s \in 1 .. c, lines[s] = Section("segment"), Unbroken(lines, s, c)
        PROVE  Parsed(lines, c + 1, q)
    BY <1>4, <1>5, <1>9, <2>2, ParseSegmentParam
  <2> HIDE DEF line
  <2>3. Parsed(lines, c + 1, q)
    BY <2>1, <2>2, Zenon
  <2>4. QED BY <1>5, <1>9, <2>3
<1>10. QED BY <1>2, <1>6, <1>7, <1>8, <1>9

\* Before the first line nothing is known.
LEMMA ParseNothing ==
    ASSUME NEW lines \in Scripts, NEW section \in Known \union {None}, NEW adjust \in BOOLEAN
    PROVE  NewScript(section, adjust) \in ScriptRecord /\ Parsed(lines, 0, NewScript(section, adjust))
<1> DEFINE p == NewScript(section, adjust)
<1>1. Len(lines) \in Nat /\ 0 \in 0 .. Len(lines) /\ MAX_IMAGES \in Nat
  <2>1. Len(lines) \in Nat
    BY ScriptLines
  <2>2. QED BY <2>1, MemoryKnown
<1>2. NoImage \in ImageRecord
  BY DEF NoImage, ImageRecord, ScriptWords
<1>3. p \in ScriptRecord
  BY <1>2 DEF NewScript, ScriptRecord
<1>4. Starts(lines, 0) = {}
  BY <1>1, StartsCount
<1>5. CountTo(lines, 0) = 0
  BY <1>4, FS_EmptySet DEF CountTo
<1>6. p.segment = 0 /\ \A k \in 1 .. MAX_IMAGES : p.images[k] = NoImage
  BY <1>1 DEF NewScript
<1>7. NoImage.base = 0 /\ NoImage.size = 0
  BY DEF NoImage
<1>8. InSection(lines, 0, p)
  BY DEF InSection
<1> HIDE DEF p
<1>9. Parsed(lines, 0, p)
  BY <1>4, <1>5, <1>6, <1>7, <1>8 DEF Parsed, Understood
<1>10. QED BY <1>3, <1>9 DEF p

-----------------------------------------------------------------------------
(* The steps of the menu.                                                   *)

LEMMA BootInitInv == BootInit => BootInv
<1> SUFFICES ASSUME BootInit PROVE BootInv
  OBVIOUS
<1>0. /\ at = "start" /\ ini = NoIni /\ script = NoScript /\ loaded = <<>>
      /\ menu = [item |-> 0, sub |-> FALSE, timeout |-> 0, key |-> None]
  BY Zenon DEF BootInit
<1>1. PICK b \in BOOT_INIS, s \in [NAMES -> OS_INIS \cup {<<>>}], z \in FILE_SIZES \cup {-1} :
          files = [os |-> s, image |-> z] /\ rest = b
  BY Zenon DEF BootInit
<1>2. files \in [os : [NAMES -> Scripts], image : FILE_SIZES \union {-1}]
  BY <1>1 DEF Scripts
<1>3. rest \in Seq(BootLines)
  <2>1. b \in Seq({b[i] : i \in DOMAIN b})
    BY ScriptsWritten DEF WellWritten
  <2>2. {b[i] : i \in DOMAIN b} \subseteq BootLines
    BY DEF BootLines
  <2>3. QED BY <1>1, <2>1, <2>2, SeqMonotonic
<1>4. ini \in [res : Int, stop : BOOLEAN, system : BOOLEAN, names : Seq(NAMES), start : ScriptWords,
               timeout : Int, count : Nat, startNum : Nat]
      /\ ini.count = 0 /\ ini.startNum = 0
  <2>1. <<>> \in Seq(NAMES) /\ None \in ScriptWords
    BY EmptySeq DEF ScriptWords
  <2>2. QED BY <1>0, <2>1 DEF NoIni
<1>5. script \in ScriptRecord
  <2>1. None \in Known \union {None} /\ FALSE \in BOOLEAN /\ <<>> \in Scripts
    BY DEF Scripts
  <2>2. QED BY <1>0, <2>1, ParseNothing DEF NoScript
<1>6. loaded \in Seq([base : Int, size : Nat])
  BY <1>0, EmptySeq
<1>7. menu \in [item : Nat, sub : BOOLEAN, timeout : Int, key : {None, "down", "up", "back", "released"}]
  BY <1>0
<1>8. at = "start"
  BY <1>0
<1>9. QED BY <1>2, <1>3, <1>4, <1>5, <1>6, <1>7, <1>8
          DEF BootInv, BootTypeOK, Cursor, Chosen, ScriptRead, ImagesLoaded, Going

IniRecord == [res : Int, stop : BOOLEAN, system : BOOLEAN, names : Seq(NAMES), start : ScriptWords,
              timeout : Int, count : Nat, startNum : Nat]
MenuRecord == [item : Nat, sub : BOOLEAN, timeout : Int, key : {None, "down", "up", "back", "released"}]

\* Outside a script nothing is said of it.
LEMMA NoScriptHere ==
    ASSUME at' \notin {"script", "images", "os"} PROVE ScriptRead' /\ ImagesLoaded'
BY DEF ScriptRead, ImagesLoaded

\* What a line of boot.ini can write.
LEMMA IniWrites ==
    ASSUME NEW p \in IniRecord, NEW r \in Int, NEW b \in BOOLEAN, NEW w \in ScriptWords, NEW t \in Int
    PROVE  [res |-> r, stop |-> b, system |-> p.system, names |-> p.names, start |-> w,
            timeout |-> t, count |-> p.count, startNum |-> p.startNum] \in IniRecord
BY DEF IniRecord

\* A line of boot.ini.
LEMMA IniLine ==
    ASSUME NEW p \in IniRecord, NEW line \in BootLines, p.count = 0, p.startNum = 0
    PROVE  SelLine(p, line) \in IniRecord /\ SelLine(p, line).count = 0 /\ SelLine(p, line).startNum = 0
<1> DEFINE q == SelLine(p, line)
<1>1. PICK lines \in BOOT_INIS : \E i \in DOMAIN lines : line = lines[i]
  BY DEF BootLines
<1>2. PICK i \in DOMAIN lines : line = lines[i]
  BY <1>1
<1>3. line.text \in ScriptWords
  BY <1>2 DEF ScriptWords
<1>4. /\ line.kind \in {"section", "param", "comment", "bad", "long"}
      /\ line.value.n \in Nat /\ line.value.sign \in {1, -1}
      /\ line.kind = "section" => line.name \in NAMES \union {"system"}
  BY <1>2, ScriptsWritten DEF WellWritten
<1>5. p.res \in Int /\ p.names \in Seq(NAMES) /\ p.stop \in BOOLEAN /\ p.start \in ScriptWords /\ p.timeout \in Int
  BY DEF IniRecord
<1>6. CASE line.kind = "comment"
  BY <1>6 DEF SelLine
<1>7. CASE line.kind = "long"
  <2>1. q = [p EXCEPT !.stop = TRUE]
    BY <1>7 DEF SelLine, Stopped
  <2>2. QED BY <2>1 DEF IniRecord
<1>8. CASE line.kind = "bad"
  <2>1. q = [p EXCEPT !.stop = TRUE, !.res = -1]
    BY <1>8 DEF SelLine, Stopped
  <2>2. q = [res |-> -1, stop |-> TRUE, system |-> p.system, names |-> p.names, start |-> p.start,
           timeout |-> p.timeout, count |-> p.count, startNum |-> p.startNum]
    BY <2>1 DEF IniRecord
  <2>3. q \in IniRecord
    <3>1. -1 \in Int /\ TRUE \in BOOLEAN
      OBVIOUS
    <3>2. QED BY <1>5, <2>2, <3>1, IniWrites, ZenonT(60)
  <2>4. QED BY <2>2, <2>3
<1>9. CASE line.kind = "section"
  <2>1. CASE line.name = "system"
    <3>1. q = [p EXCEPT !.system = TRUE]
      BY <1>9, <2>1 DEF SelLine
    <3>2. QED BY <3>1 DEF IniRecord
  <2>2. CASE line.name # "system" /\ Len(p.names) # 8
    <3>1. q = [p EXCEPT !.system = FALSE, !.names = Append(p.names, line.name)]
      BY <1>9, <2>2 DEF SelLine, SystemLine
    <3>2. Append(p.names, line.name) \in Seq(NAMES)
      BY <1>4, <1>5, <1>9, <2>2
    <3>3. QED BY <3>1, <3>2 DEF IniRecord
  <2>3. CASE line.name # "system" /\ Len(p.names) = 8
    <3>1. q = [p EXCEPT !.stop = TRUE, !.res = -1]
      BY <1>9, <2>3 DEF SelLine, SystemLine
    <3>2. q = [res |-> -1, stop |-> TRUE, system |-> p.system, names |-> p.names, start |-> p.start,
             timeout |-> p.timeout, count |-> p.count, startNum |-> p.startNum]
      BY <3>1 DEF IniRecord
    <3>3. q \in IniRecord
      <4>1. -1 \in Int /\ TRUE \in BOOLEAN
        OBVIOUS
      <4>2. QED BY <1>5, <3>2, <4>1, IniWrites, ZenonT(60)
    <3>4. QED BY <3>2, <3>3
  <2>4. QED BY <2>1, <2>2, <2>3
<1>10. CASE line.kind = "param"
  <2> DEFINE w == IF p.system /\ line.name = "start_os_name" THEN line.text ELSE p.start
             t == IF p.system /\ line.name = "timeout" THEN line.value.n * line.value.sign ELSE p.timeout
  <2>1. q = [p EXCEPT !.res = ValueKind(line), !.start = w, !.timeout = t]
    BY <1>10 DEF SelLine
  <2>2. w \in ScriptWords /\ t \in Int
    <3>1. line.value.n * line.value.sign \in Int
      BY <1>4
    <3>2. QED BY <1>3, <1>5, <3>1
  <2>3. ValueKind(line) \in Int
    BY DEF ValueKind
  <2> HIDE DEF w, t
  <2>4. q = [res |-> ValueKind(line), stop |-> p.stop, system |-> p.system, names |-> p.names, start |-> w,
             timeout |-> t, count |-> p.count, startNum |-> p.startNum]
    BY <2>1 DEF IniRecord
  <2>5. q \in IniRecord
    BY <1>5, <2>2, <2>3, <2>4, IniWrites
  <2>6. QED BY <2>4, <2>5
<1>11. QED BY <1>4, <1>6, <1>7, <1>8, <1>9, <1>10

LEMMA ReadBootLineStep == ASSUME BootInv, ReadBootLine PROVE BootInv'
<1>1. /\ at = "start" /\ rest # <<>> /\ ini' = SelLine(ini, Head(rest)) /\ rest' = Tail(rest)
      /\ at' = at /\ script' = script /\ menu' = menu /\ files' = files /\ loaded' = loaded
  BY DEF ReadBootLine
<1>2. rest \in Seq(BootLines) /\ ini \in IniRecord /\ ini.count = 0 /\ ini.startNum = 0
  BY <1>1 DEF BootInv, BootTypeOK, IniRecord
<1>3. Head(rest) \in BootLines /\ Tail(rest) \in Seq(BootLines)
  BY <1>1, <1>2, HeadTailProperties
<1>4. ini' \in IniRecord /\ ini'.count = 0 /\ ini'.startNum = 0
  BY <1>1, <1>2, <1>3, IniLine
<1>5. BootTypeOK'
  BY <1>1, <1>3, <1>4 DEF BootInv, BootTypeOK, IniRecord
<1>6. Cursor' /\ Chosen'
  BY <1>1, <1>4 DEF Cursor, Chosen, Going
<1>7. QED BY <1>1, <1>5, <1>6, NoScriptHere DEF BootInv

\* The first of the entries that are looked up.
LEMMA LeastOfEight ==
    ASSUME NEW S \in SUBSET (1 .. 8), S # {}
    PROVE  \E i \in S : \A j \in S : i <= j
<1>1. ASSUME NEW n \in 1 .. 8, n \in S, \A i \in 1 .. n - 1 : i \notin S
      PROVE  \E i \in S : \A j \in S : i <= j
  BY <1>1
<1>2. \E n \in 1 .. 8 : n \in S /\ \A i \in 1 .. n - 1 : i \notin S
  <2>1. CASE 1 \in S
    BY <2>1
  <2>2. CASE 1 \notin S /\ 2 \in S
    BY <2>2
  <2>3. CASE 1 \notin S /\ 2 \notin S /\ 3 \in S
    BY <2>3
  <2>4. CASE 1 \notin S /\ 2 \notin S /\ 3 \notin S /\ 4 \in S
    BY <2>4
  <2>5. CASE 1 \notin S /\ 2 \notin S /\ 3 \notin S /\ 4 \notin S /\ 5 \in S
    BY <2>5
  <2>6. CASE 1 \notin S /\ 2 \notin S /\ 3 \notin S /\ 4 \notin S /\ 5 \notin S /\ 6 \in S
    BY <2>6
  <2>7. CASE 1 \notin S /\ 2 \notin S /\ 3 \notin S /\ 4 \notin S /\ 5 \notin S /\ 6 \notin S /\ 7 \in S
    BY <2>7
  <2>8. CASE \A i \in 1 .. 7 : i \notin S
    <3>1. PICK x \in S : x \in 1 .. 8
      OBVIOUS
    <3>2. x = 8
      BY <2>8, <3>1
    <3>3. QED BY <2>8, <3>2
  <2>9. QED BY <2>1, <2>2, <2>3, <2>4, <2>5, <2>6, <2>7, <2>8
<1>3. QED BY <1>1, <1>2

\* The entry to start is one of boot.ini's, or the one behind the last.
LEMMA StartInMenu ==
    ASSUME NEW p \in IniRecord
    PROVE  StartNum(p) \in Nat /\ (Len(p.names) > 0 => StartNum(p) <= Len(p.names))
<1> DEFINE same == {i \in 1 .. 8 : IF i <= Len(p.names) THEN p.names[i] = p.start ELSE p.start = None}
<1>1. Len(p.names) \in Nat
  BY LenProperties DEF IniRecord
<1>2. CASE same = {}
  BY <1>1, <1>2 DEF StartNum
<1>3. CASE same # {}
  <2>1. PICK i \in same : \A j \in same : i <= j
    BY <1>3, LeastOfEight
  <2>2. i \in 1 .. 8
    OBVIOUS
  <2>3. i - 1 \in 0 .. 7 /\ (i - 1) + 1 = i
    BY <2>2
  <2>4. \E k \in 0 .. 7 : k + 1 \in same /\ \A j \in same : k + 1 <= j
    BY <2>1, <2>3
  <2>5. StartNum(p) = CHOOSE k \in 0 .. 7 : k + 1 \in same /\ \A j \in same : k + 1 <= j
    BY <1>3 DEF StartNum
  <2>6. StartNum(p) \in 0 .. 7 /\ StartNum(p) + 1 \in same /\ \A j \in same : StartNum(p) + 1 <= j
    BY <2>4, <2>5
  <2>7. ASSUME StartNum(p) > Len(p.names) PROVE FALSE
    <3>1. StartNum(p) \in 1 .. 8 /\ ~(StartNum(p) <= Len(p.names)) /\ p.start = None
      BY <1>1, <2>6, <2>7
    <3>2. StartNum(p) \in same
      BY <3>1
    <3>3. QED BY <2>6, <3>2
  <2>8. QED BY <1>1, <2>6, <2>7
<1>4. QED BY <1>2, <1>3

LEMMA ReadBootIniStep == ASSUME BootInv, ReadBootIni PROVE BootInv'
<1>1. /\ at = "start" /\ ini' = SelEnd(ini) /\ at' = (IF ini.res < 0 THEN "off" ELSE "menu")
      /\ menu' = [item |-> ini'.startNum, sub |-> FALSE, timeout |-> ini.timeout, key |-> None]
      /\ script' = script /\ files' = files /\ loaded' = loaded
  BY DEF ReadBootIni
<1>2. ini \in IniRecord /\ ini.count = 0 /\ ini.startNum = 0 /\ ini.timeout \in Int
  BY <1>1 DEF BootInv, BootTypeOK, IniRecord
<1>3. ini' \in IniRecord /\ (ini'.count > 0 => ini'.startNum <= ini'.count)
  <2>1. CASE ini.stop
    BY <1>1, <1>2, <2>1 DEF SelEnd
  <2>2. CASE ~ini.stop
    <3>1. ini' = [ini EXCEPT !.count = Len(ini.names), !.startNum = StartNum(ini)]
      BY <1>1, <2>2 DEF SelEnd
    <3>2. Len(ini.names) \in Nat
      BY <1>2, LenProperties DEF IniRecord
    <3>3. StartNum(ini) \in Nat /\ (Len(ini.names) > 0 => StartNum(ini) <= Len(ini.names))
      BY <1>2, StartInMenu
    <3>4. QED BY <1>2, <3>1, <3>2, <3>3 DEF IniRecord
  <2>3. QED BY <2>1, <2>2
<1>4. menu' \in MenuRecord /\ menu'.item = ini'.startNum /\ menu'.sub = FALSE
  BY <1>1, <1>2, <1>3 DEF IniRecord, MenuRecord
<1>5. at' \in {"off", "menu"}
  BY <1>1
<1>6. BootTypeOK'
  BY <1>1, <1>3, <1>4, <1>5 DEF BootInv, BootTypeOK, IniRecord, MenuRecord
<1>7. Cursor' /\ Chosen'
  BY <1>3, <1>4, <1>5 DEF Cursor, Chosen, Going, LastItem
<1>8. QED BY <1>5, <1>6, <1>7, NoScriptHere DEF BootInv

\* The item under the cursor is selected.
LEMMA SelectStep ==
    ASSUME BootInv, at = "menu", NEW k \in {None, "down", "up", "back", "released"}, Select(k),
           UNCHANGED <<script, rest, files, loaded>>
    PROVE  BootInv'
<1>1. ini \in IniRecord /\ ini.count \in Nat
  BY DEF BootInv, BootTypeOK, IniRecord
<1>2. menu \in MenuRecord /\ menu.item \in Nat /\ menu.sub \in BOOLEAN
  BY DEF BootInv, BootTypeOK, MenuRecord
<1>3. ini.count > 0 => menu.item <= LastItem
  BY DEF BootInv, Cursor
<1>4. ini.count > 0 => ini.startNum <= ini.count
  BY DEF BootInv, Cursor
<1>5. CASE menu.item = LastItem
  <2>1. menu' = [item |-> 0, sub |-> ~menu.sub, timeout |-> -1, key |-> k] /\ at' = at /\ ini' = ini /\ misc' = misc
        /\ chosen' = chosen
    BY <1>5, Zenon DEF Select
  <2>2. menu' \in MenuRecord /\ menu'.item = 0
    BY <1>2, <2>1 DEF MenuRecord
  <2>3. BootTypeOK'
    BY <2>1, <2>2 DEF BootInv, BootTypeOK, MenuRecord
  <2>4. Cursor' /\ Chosen'
    BY <1>1, <1>4, <2>1, <2>2 DEF Cursor, Chosen, Going, LastItem
  <2>5. QED BY <2>1, <2>3, <2>4, NoScriptHere DEF BootInv
<1>6. CASE menu.item # LastItem
  <2>1. /\ ini' = [ini EXCEPT !.startNum = menu.item, !.timeout = -1]
        /\ menu' = [menu EXCEPT !.key = k]
        /\ chosen' = (IF menu.sub THEN -menu.item - 1 ELSE menu.item)
        /\ IF chosen' < -2
           THEN at' = (IF chosen' = -3 THEN "off" ELSE "fel") /\ UNCHANGED misc
           ELSE at' = "load" /\ misc' = WriteMiscPart(chosen')
    BY <1>6, Zenon DEF Select
  <2>2. ini' = [res |-> ini.res, stop |-> ini.stop, system |-> ini.system, names |-> ini.names, start |-> ini.start,
                timeout |-> -1, count |-> ini.count, startNum |-> menu.item]
    BY <1>1, <2>1 DEF IniRecord
  <2>3. ini' \in IniRecord /\ ini'.count = ini.count /\ ini'.startNum = menu.item
    BY <1>1, <1>2, <2>2 DEF IniRecord
  <2>4. menu' \in MenuRecord
    BY <1>2, <2>1 DEF MenuRecord
  <2>5. chosen' \in Int /\ (~menu.sub => chosen' = menu.item) /\ (menu.sub => chosen' = -menu.item - 1)
    BY <1>2, <2>1
  <2>6. at' \in {"off", "fel", "load"}
    BY <2>1
  <2>7. BootTypeOK'
    BY <2>3, <2>4, <2>6 DEF BootInv, BootTypeOK, IniRecord, MenuRecord, Going
  <2>8. Cursor'
    <3>1. ASSUME at' \notin {"off", "fel"}, ini'.count > 0 PROVE ini'.startNum <= ini'.count
      <4>1. ~(chosen' < -2) /\ menu.item <= LastItem
        BY <1>3, <2>1, <2>3, <3>1
      <4>2. CASE menu.sub
        BY <1>1, <1>2, <2>3, <2>5, <3>1, <4>1, <4>2
      <4>3. CASE ~menu.sub
        BY <2>3, <4>1, <4>3 DEF LastItem
      <4>4. QED BY <4>2, <4>3
    <3>2. QED BY <2>6, <3>1 DEF Cursor
  <2>9. Chosen'
    <3>1. at' \in Going => at' = "load"
      BY <2>6 DEF Going
    <3>2. at' = "load" => misc' = WriteMiscPart(chosen')
      BY <2>1
    <3>3. misc' = WriteMiscPart(chosen') /\ misc' # None => misc' = MiscFor(chosen')
      BY DEF WriteMiscPart
    <3>4. QED BY <2>5, <3>1, <3>2, <3>3 DEF Chosen
  <2>10. QED BY <2>6, <2>7, <2>8, <2>9, NoScriptHere DEF BootInv
<1>7. QED BY <1>5, <1>6

\* The cursor moves, or the timeout goes on.
LEMMA MenuMoves ==
    ASSUME BootInv, at = "menu", menu' \in MenuRecord, menu'.sub = menu.sub,
           ini.count > 0 => menu'.item <= LastItem, UNCHANGED <<at, ini, misc, chosen, script, rest, files, loaded>>
    PROVE  BootInv'
<1>1. BootTypeOK'
  BY DEF BootInv, BootTypeOK, MenuRecord
<1>2. LastItem' = LastItem
  BY DEF LastItem
<1>3. Cursor' /\ Chosen'
  BY <1>2 DEF BootInv, Cursor, Chosen, Going
<1>4. QED BY <1>1, <1>3, NoScriptHere DEF BootInv

LEMMA TimeoutStep == ASSUME BootInv, Timeout PROVE BootInv'
<1>1. menu \in MenuRecord /\ at = "menu" /\ UNCHANGED <<script, rest, files, loaded>>
  BY DEF BootInv, BootTypeOK, MenuRecord, Timeout
<1>2. CASE menu.timeout = 0
  <2>1. Select(menu.key) /\ menu.key \in {None, "down", "up", "back", "released"}
    BY <1>1, <1>2 DEF Timeout, MenuRecord
  <2>2. QED BY <1>1, <2>1, SelectStep
<1>3. CASE menu.timeout # 0
  <2>1. menu' = [menu EXCEPT !.timeout = menu.timeout - 1] /\ UNCHANGED <<at, ini, misc, chosen>>
    BY <1>3 DEF Timeout
  <2>2. menu' \in MenuRecord /\ menu'.sub = menu.sub /\ menu'.item = menu.item
    BY <1>1, <2>1 DEF MenuRecord
  <2>3. ini.count > 0 => menu'.item <= LastItem
    BY <1>1, <2>2 DEF BootInv, Cursor
  <2>4. QED BY <1>1, <2>1, <2>2, <2>3, MenuMoves
<1>4. QED BY <1>2, <1>3

LEMMA KeyStep == ASSUME BootInv, NEW k \in {"down", "up", "back", "released"}, Key(k) PROVE BootInv'
<1>1. menu \in MenuRecord /\ at = "menu" /\ UNCHANGED <<script, rest, files, loaded>>
  BY DEF BootInv, BootTypeOK, MenuRecord, Key
<1>2. CASE k = "back"
  <2>1. Select(k)
    BY <1>2 DEF Key
  <2>2. QED BY <1>1, <2>1, SelectStep
<1>3. CASE k # "back"
  <2> DEFINE n == menu.item
             m == CASE k = "down" -> Down(n) [] k = "up" -> Up(n) [] OTHER -> n
  <2>1. menu' = [menu EXCEPT !.timeout = -1, !.key = k, !.item = m] /\ UNCHANGED <<at, ini, misc, chosen>>
    BY <1>3, Zenon DEF Key
  <2>2. n \in Nat /\ LastItem \in Nat
    BY <1>1 DEF BootInv, BootTypeOK, MenuRecord, LastItem
  <2>3. m \in Nat /\ (n <= LastItem => m <= LastItem)
    <3>1. CASE k = "down"
      <4>1. m = Down(n)
        BY <3>1
      <4>2. QED BY <2>2, <4>1 DEF Down
    <3>2. CASE k = "up"
      <4>1. m = Up(n)
        BY <3>2
      <4>2. QED BY <2>2, <4>1 DEF Up
    <3>3. CASE k = "released"
      <4>1. m = n
        BY <3>3
      <4>2. QED BY <2>2, <4>1
    <3>4. QED BY <1>3, <3>1, <3>2, <3>3
  <2> HIDE DEF m
  <2>4. menu' = [item |-> m, sub |-> menu.sub, timeout |-> -1, key |-> k]
    BY <1>1, <2>1 DEF MenuRecord
  <2>5. menu' \in MenuRecord /\ menu'.sub = menu.sub /\ menu'.item = m
    BY <1>1, <2>3, <2>4 DEF MenuRecord
  <2>6. ini.count > 0 => menu'.item <= LastItem
    BY <1>1, <2>3, <2>5 DEF BootInv, Cursor
  <2>7. QED BY <1>1, <2>1, <2>5, <2>6, MenuMoves
<1>4. QED BY <1>2, <1>3

\* A start that failed comes back to the menu.
LEMMA RetryStep ==
    ASSUME BootInv, at \in Going, Retry, UNCHANGED <<ini, files>>, script' \in ScriptRecord,
           loaded' \in Seq([base : Int, size : Nat])
    PROVE  BootInv'
<1>1. /\ at' = "menu" /\ menu' = [item |-> ini.startNum, sub |-> FALSE, timeout |-> -1, key |-> menu.key]
      /\ menu \in MenuRecord /\ ini.startNum \in Nat
  BY DEF Retry, BootInv, BootTypeOK, MenuRecord
<1>2. menu' \in MenuRecord /\ menu'.item = ini.startNum /\ menu'.sub = FALSE
  BY <1>1 DEF MenuRecord
<1>3. BootTypeOK'
  BY <1>1, <1>2 DEF BootInv, BootTypeOK, MenuRecord
<1>4. ini.count > 0 => ini.startNum <= ini.count
  BY DEF BootInv, Cursor, Going
<1>5. Cursor' /\ Chosen'
  BY <1>1, <1>2, <1>4 DEF Cursor, Chosen, Going, LastItem
<1>6. QED BY <1>1, <1>3, <1>5, NoScriptHere DEF BootInv

LEMMA ScriptOfSystem ==
    ASSUME BootTypeOK, OsName \in NAMES PROVE files.os[OsName] \in Scripts
BY DEF BootTypeOK

LEMMA OpenScriptStep == ASSUME BootInv, OpenScript PROVE BootInv'
<1>1. at = "load" /\ at \in Going /\ loaded' = <<>> /\ UNCHANGED <<ini, files, misc, chosen>>
  BY DEF OpenScript, Going
<1>2. /\ script' \in ScriptRecord /\ script'.count = 0 /\ ~script'.stop
      /\ \A lines \in Scripts : Parsed(lines, 0, script')
  <2>1. PICK section \in {"segment", "script_info", None}, adjust \in BOOLEAN :
            script' = NewScript(section, adjust)
    BY DEF OpenScript
  <2>2. section \in Known \union {None} /\ <<>> \in Scripts
    BY DEF Known, Scripts
  <2>3. \A lines \in Scripts : script' \in ScriptRecord /\ Parsed(lines, 0, script')
    BY <2>1, <2>2, ParseNothing
  <2>4. script'.count = 0 /\ ~script'.stop
    BY <2>1 DEF NewScript
  <2>5. QED BY <2>2, <2>3, <2>4
<1>3. loaded' \in Seq([base : Int, size : Nat]) /\ Len(loaded') = 0
  BY <1>1, EmptySeq
<1>4. CASE OsName = None
  <2>1. Retry
    BY <1>4 DEF OpenScript
  <2>2. QED BY <1>1, <1>2, <1>3, <2>1, RetryStep
<1>5. CASE OsName # None
  <2>1. at' = "script" /\ rest' = files.os[OsName] /\ menu' = menu
    BY <1>5 DEF OpenScript
  <2>2. OsName \in NAMES
    <3>1. chosen \in Int /\ ini.names \in Seq(NAMES)
      BY <1>1 DEF BootInv, BootTypeOK, Chosen
    <3>2. QED BY <1>5, <3>1 DEF OsName
  <2>3. OsName' = OsName
    BY <1>1 DEF OsName
  <2> DEFINE lines == files.os[OsName]
  <2>4. lines \in Scripts
    BY <2>2, ScriptOfSystem DEF BootInv
  <2>5. Len(lines) \in Nat /\ lines \in Seq({lines[i] : i \in DOMAIN lines})
    BY <2>4, ScriptLines
  <2>6. BootTypeOK'
    BY <1>1, <1>2, <1>3, <2>1 DEF BootInv, BootTypeOK, Going
  <2>7. Cursor'
    BY <1>1, <2>1 DEF BootInv, Cursor
  <2>8. Chosen'
    BY <1>1, <2>1, <2>2, <2>3 DEF BootInv, Chosen, Going
  <2>9. ScriptRead'
    <3>1. files'.os[OsName'] = lines
      BY <1>1, <2>3
    <3>2. rest' = lines
      BY <2>1
    <3> HIDE DEF lines
    <3>3. Len(lines) - Len(rest') = 0
      BY <2>5, <3>2
    <3>4. \A i \in 1 .. Len(rest') : rest'[i] = lines[0 + i]
      BY <2>5, <3>2
    <3>5. Parsed(lines, 0, script')
      BY <1>2, <2>4
    <3>6. QED BY <1>1, <1>2, <2>1, <2>5, <3>1, <3>2, <3>3, <3>4, <3>5 DEF ScriptRead, LinesRead
  <2>10. ImagesLoaded'
    BY <1>1, <1>2, <1>3, <2>1 DEF ImagesLoaded
  <2>11. QED BY <2>6, <2>7, <2>8, <2>9, <2>10 DEF BootInv
<1>6. QED BY <1>4, <1>5

LEMMA ReadScriptLineStep == ASSUME BootInv, ReadScriptLine PROVE BootInv'
<1>1. /\ at = "script" /\ at' = "script" /\ rest # <<>> /\ ~script.stop
      /\ script' = ImgLine(script, Head(rest)) /\ rest' = Tail(rest)
      /\ UNCHANGED <<ini, menu, files, misc, chosen, loaded>>
  BY DEF ReadScriptLine
<1>2. OsName \in NAMES /\ OsName' = OsName
  BY <1>1 DEF BootInv, Chosen, Going, OsName
<1> DEFINE lines == files.os[OsName]
           c == Len(lines) - Len(rest)
<1>3. lines \in Scripts /\ script \in ScriptRecord
  BY <1>2, ScriptOfSystem DEF BootInv, BootTypeOK
<1>4. Len(lines) \in Nat /\ DOMAIN lines = 1 .. Len(lines)
  BY <1>3, ScriptLines
<1>5. /\ c \in 0 .. Len(lines) /\ rest \in Seq({lines[i] : i \in DOMAIN lines})
      /\ \A i \in 1 .. Len(rest) : rest[i] = lines[c + i]
      /\ script.count = 0 /\ Parsed(lines, c, script)
  BY <1>1 DEF BootInv, ScriptRead, LinesRead
<1>6. files'.os[OsName'] = lines
  BY <1>1, <1>2
<1> HIDE DEF lines
<1>7. /\ Len(rest) \in Nat \ {0} /\ Tail(rest) \in Seq({lines[i] : i \in DOMAIN lines}) /\ Len(Tail(rest)) = Len(rest) - 1
      /\ \A i \in 1 .. Len(Tail(rest)) : Tail(rest)[i] = rest[i + 1]
  BY <1>1, <1>5, EmptySeq, HeadTailProperties
<1>8. Head(rest) = lines[c + 1] /\ c < Len(lines)
  <2>1. Head(rest) = rest[1]
    BY <1>1, <1>5
  <2>2. QED BY <1>4, <1>5, <1>7, <2>1
<1>9. Len(lines) - Len(rest') = c + 1 /\ c + 1 \in 0 .. Len(lines)
  BY <1>1, <1>4, <1>5, <1>7
<1>10. \A i \in 1 .. Len(rest') : rest'[i] = lines[c + 1 + i]
  <2>1. ASSUME NEW i \in 1 .. Len(rest') PROVE rest'[i] = lines[c + 1 + i]
    <3>1. rest'[i] = rest[i + 1] /\ i + 1 \in 1 .. Len(rest)
      BY <1>1, <1>7
    <3>2. rest[i + 1] = lines[c + (i + 1)]
      BY <1>5, <3>1
    <3>3. c + (i + 1) = c + 1 + i
      BY <1>4, <1>7
    <3>4. QED BY <3>1, <3>2, <3>3
  <2>2. QED BY <2>1
<1> HIDE DEF c
<1>11. script' = ImgLine(script, lines[c + 1])
  BY <1>1, <1>8
<1>12. /\ script' \in ScriptRecord /\ script'.count = script.count
       /\ script'.stop => script'.res = -1 \/ HasLong(lines)
       /\ ~script'.stop => Parsed(lines, c + 1, script')
  BY <1>1, <1>3, <1>5, <1>8, <1>11, ParseLine
<1>13. BootTypeOK'
  BY <1>1, <1>12 DEF BootInv, BootTypeOK
<1>14. Cursor' /\ Chosen'
  BY <1>1, <1>2 DEF BootInv, Cursor, Chosen, Going
<1>15. ScriptRead'
  <2>1. rest' \in Seq({lines[i] : i \in DOMAIN lines})
    BY <1>1, <1>7
  <2>2. /\ Len(lines) - Len(rest') \in 0 .. Len(lines)
        /\ \A i \in 1 .. Len(rest') : rest'[i] = lines[Len(lines) - Len(rest') + i]
        /\ ~script'.stop => Parsed(lines, Len(lines) - Len(rest'), script')
    BY <1>9, <1>10, <1>12
  <2>3. script'.count = 0 /\ (script'.stop => script'.res = -1 \/ HasLong(lines))
    BY <1>5, <1>12
  <2>4. QED BY <1>1, <1>6, <2>1, <2>2, <2>3 DEF ScriptRead, LinesRead
<1>16. ImagesLoaded'
  BY <1>1, <1>12 DEF BootInv, ImagesLoaded
<1>17. QED BY <1>13, <1>14, <1>15, <1>16 DEF BootInv

LEMMA ReadScriptStep == ASSUME BootInv, ReadScript PROVE BootInv'
<1>1. /\ at = "script" /\ at \in Going /\ (rest = <<>> \/ script.stop) /\ script' = ImgEnd(script)
      /\ UNCHANGED <<ini, files, misc, chosen, loaded>>
  BY DEF ReadScript, Going
<1>2. OsName \in NAMES /\ OsName' = OsName
  BY <1>1 DEF BootInv, Chosen, Going, OsName
<1> DEFINE lines == files.os[OsName]
<1>3. lines \in Scripts /\ script \in ScriptRecord
  BY <1>2, ScriptOfSystem DEF BootInv, BootTypeOK
<1>4. script.segment \in Nat /\ script.count \in Nat /\ script.stop \in BOOLEAN
  BY <1>3 DEF ScriptRecord
<1>5. script' = [script EXCEPT !.section = None, !.adjust = FALSE,
                               !.count = IF script.stop THEN script.count ELSE script.segment]
  BY <1>1 DEF ImgEnd
<1>6. /\ script' \in ScriptRecord /\ script'.stop = script.stop /\ script'.images = script.images
      /\ script'.segment = script.segment
      /\ script'.count = (IF script.stop THEN script.count ELSE script.segment)
  BY <1>3, <1>4, <1>5 DEF ScriptRecord
<1>7. script.count = 0 /\ loaded \in Seq([base : Int, size : Nat]) /\ Len(loaded) = 0
  <2>1. script.count = 0 /\ Len(loaded) <= script.count /\ loaded \in Seq([base : Int, size : Nat])
    BY <1>1 DEF BootInv, BootTypeOK, ScriptRead, ImagesLoaded
  <2>2. QED BY <2>1, LenProperties
<1>8. CASE script.res < 0
  <2>1. Retry
    BY <1>8 DEF ReadScript
  <2>2. loaded' \in Seq([base : Int, size : Nat])
    BY <1>1, <1>7
  <2>3. QED BY <1>1, <1>6, <2>1, <2>2, RetryStep
<1>9. CASE ~(script.res < 0)
  <2>1. at' = "images" /\ menu' = menu
    BY <1>9 DEF ReadScript
  <2>2. BootTypeOK'
    BY <1>1, <1>6, <2>1 DEF BootInv, BootTypeOK, Going
  <2>3. Cursor' /\ Chosen'
    BY <1>1, <1>2, <2>1 DEF BootInv, Cursor, Chosen, Going
  <2>4. files'.os[OsName'] = lines
    BY <1>1, <1>2
  <2>5. /\ script.stop => script.res = -1 \/ HasLong(lines)
        /\ ~script.stop => Parsed(lines, Len(lines) - Len(rest), script)
    BY <1>1 DEF BootInv, ScriptRead, LinesRead
  <2>6. Len(lines) \in Nat
    BY <1>3, ScriptLines
  <2> HIDE DEF lines
  <2>7. script.stop => HasLong(lines) /\ script'.count = 0
    BY <1>6, <1>7, <1>9, <2>5
  <2>8. ~script.stop => Understood(lines, Len(lines), script')
    <3>1. SUFFICES ASSUME ~script.stop PROVE Understood(lines, Len(lines), script')
      OBVIOUS
    <3>2. Len(rest) = 0
      BY <1>1, <3>1, EmptySeq
    <3>3. Parsed(lines, Len(lines), script)
      BY <2>5, <2>6, <3>1, <3>2
    <3>4. QED BY <1>6, <3>3 DEF Parsed, Understood
  <2>9. ScriptRead'
    BY <1>6, <2>1, <2>4, <2>7, <2>8 DEF ScriptRead
  <2>10. ImagesLoaded'
    BY <1>1, <1>4, <1>6, <1>7, <2>1, <2>7 DEF ImagesLoaded
  <2>11. QED BY <2>2, <2>3, <2>9, <2>10 DEF BootInv
<1>10. QED BY <1>8, <1>9

LEMMA LoadImageStep == ASSUME BootInv, LoadImage PROVE BootInv'
<1> DEFINE n == Len(loaded)
           i == script.images[n + 1]
           bad == i.base = 0 \/ i.name = None \/ files.image = -1 \/ files.image > i.size
<1>1. /\ at = "images" /\ at \in Going /\ n # script.count
      /\ UNCHANGED <<ini, script, rest, files, misc, chosen>>
  BY DEF LoadImage, AllLoaded, Going
<1>2. bad => Retry /\ loaded' = loaded
  BY DEF LoadImage
<1>3. ~bad => loaded' = Append(loaded, [base |-> i.base, size |-> files.image]) /\ at' = at /\ menu' = menu
  BY DEF LoadImage
<1>4. /\ script \in ScriptRecord /\ loaded \in Seq([base : Int, size : Nat])
      /\ files.image \in FILE_SIZES \union {-1} /\ n \in Nat /\ script.count \in Nat
  BY LenProperties DEF BootInv, BootTypeOK, ScriptRecord
<1>5. CASE bad
  BY <1>1, <1>2, <1>4, <1>5, RetryStep
<1>6. CASE ~bad
  <2>1. n < script.count
    <3>1. n <= script.count
      BY <1>1 DEF BootInv, ImagesLoaded
    <3> HIDE DEF n
    <3>2. QED BY <1>1, <1>4, <3>1
  <2>2. script.count = script.segment /\ script.segment = CountTo(files.os[OsName], Len(files.os[OsName]))
    <3>1. script.stop => script.count = 0
      BY <1>1 DEF BootInv, ScriptRead
    <3>2. ~script.stop => /\ script.count = script.segment
                          /\ Understood(files.os[OsName], Len(files.os[OsName]), script)
      BY <1>1 DEF BootInv, ScriptRead
    <3>3. QED BY <1>4, <2>1, <3>1, <3>2 DEF Understood
  <2>3. script.images \in [1 .. MAX_IMAGES + 1 -> ImageRecord] /\ n + 1 \in 1 .. MAX_IMAGES + 1
    <3>1. files.os[OsName] \in Scripts
      BY <1>1, ScriptOfSystem DEF BootInv, BootTypeOK, Chosen, Going
    <3>2. Len(files.os[OsName]) \in 0 .. Len(files.os[OsName])
      BY <3>1, ScriptLines
    <3>3. script.count \in 0 .. MAX_IMAGES + 1
      BY <2>2, <3>1, <3>2, StartsBound
    <3> HIDE DEF n
    <3>4. n + 1 \in 1 .. MAX_IMAGES + 1
      BY <1>4, <2>1, <3>3, MemoryKnown
    <3>5. QED BY <1>4, <3>4 DEF ScriptRecord
  <2>4. i \in ImageRecord
    BY <2>3
  <2>5. i.base \in Int /\ i.size \in Nat /\ files.image \in Nat \ {0} /\ i.base # 0 /\ files.image <= i.size
    <3>1. i.base \in Int /\ i.size \in Nat
      BY <2>4 DEF ImageRecord
    <3>2. files.image \in Nat \ {0}
      BY <1>4, <1>6, MemoryKnown
    <3>3. i.base # 0 /\ ~(files.image > i.size)
      BY <1>6
    <3>4. QED BY <3>1, <3>2, <3>3
  <2> DEFINE image == [base |-> i.base, size |-> files.image]
  <2>6. image \in [base : Int, size : Nat] /\ loaded' = Append(loaded, image)
    BY <1>3, <1>6, <2>5
  <2>7. /\ loaded' \in Seq([base : Int, size : Nat]) /\ Len(loaded') = n + 1 /\ loaded'[n + 1] = image
        /\ \A k \in 1 .. n : loaded'[k] = loaded[k]
    <3> HIDE DEF image
    <3>1. QED BY <1>4, <2>6
  <2>8. BootTypeOK'
    BY <1>1, <1>3, <1>6, <2>7 DEF BootInv, BootTypeOK, Going
  <2>9. OsName' = OsName
    BY <1>1 DEF OsName
  <2>10. Cursor' /\ Chosen'
    BY <1>1, <1>3, <1>6, <2>9 DEF BootInv, Cursor, Chosen, Going
  <2>11. ScriptRead'
    BY <1>1, <1>3, <1>6, <2>9 DEF BootInv, ScriptRead
  <2>12. ImagesLoaded'
    <3>1. \A k \in 1 .. n :
              /\ loaded[k].base = script.images[k].base /\ loaded[k].base # 0
              /\ loaded[k].size <= script.images[k].size /\ loaded[k].size > 0
      BY <1>1 DEF BootInv, ImagesLoaded
    <3>2. image.base = i.base /\ image.base # 0 /\ image.size <= i.size /\ image.size > 0
      BY <2>5
    <3> HIDE DEF image
    <3>3. ASSUME NEW k \in 1 .. n + 1
          PROVE  /\ loaded'[k].base = script.images[k].base /\ loaded'[k].base # 0
                 /\ loaded'[k].size <= script.images[k].size /\ loaded'[k].size > 0
      <4>1. CASE k = n + 1
        BY <2>7, <3>2, <4>1
      <4>2. CASE k # n + 1
        <5>1. k \in 1 .. n
          BY <1>4, <4>2
        <5>2. QED BY <2>7, <3>1, <5>1
      <4>3. QED BY <4>1, <4>2
    <3>4. Len(loaded') <= script.count
      BY <1>4, <2>1, <2>7
    <3>5. QED BY <1>1, <1>3, <1>6, <2>7, <3>3, <3>4 DEF ImagesLoaded
  <2>13. QED BY <2>8, <2>10, <2>11, <2>12 DEF BootInv
<1>7. QED BY <1>5, <1>6

LEMMA BootOsStep == ASSUME BootInv, BootOs PROVE BootInv'
<1>1. at = "images" /\ at' = "os" /\ Len(loaded) = script.count
      /\ UNCHANGED <<ini, script, menu, rest, files, misc, chosen, loaded>>
  BY DEF BootOs, AllLoaded
<1>2. OsName' = OsName
  BY <1>1 DEF OsName
<1>3. BootTypeOK'
  BY <1>1 DEF BootInv, BootTypeOK, Going
<1>4. Cursor' /\ Chosen'
  BY <1>1, <1>2 DEF BootInv, Cursor, Chosen, Going
<1>5. ScriptRead'
  BY <1>1, <1>2 DEF BootInv, ScriptRead
<1>6. ImagesLoaded'
  BY <1>1 DEF BootInv, ImagesLoaded
<1>7. QED BY <1>3, <1>4, <1>5, <1>6 DEF BootInv

LEMMA MenuStep == ASSUME BootInv, [BootNext]_bootVars PROVE BootInv'
<1>1. CASE UNCHANGED bootVars
  <2>1. UNCHANGED <<at, ini, script, menu, rest, files, misc, chosen, loaded>>
    BY <1>1 DEF bootVars
  <2>2. OsName' = OsName /\ LastItem' = LastItem
    BY <2>1 DEF OsName, LastItem
  <2>3. BootTypeOK'
    BY <2>1 DEF BootInv, BootTypeOK
  <2>4. Cursor' /\ Chosen'
    BY <2>1, <2>2 DEF BootInv, Cursor, Chosen
  <2>5. ScriptRead' /\ ImagesLoaded'
    BY <2>1, <2>2 DEF BootInv, ScriptRead, LinesRead, ImagesLoaded
  <2>6. QED BY <2>3, <2>4, <2>5 DEF BootInv
<1>2. ASSUME NEW k \in {"down", "up", "back", "released"}, Key(k) PROVE BootInv'
  BY <1>2, KeyStep
<1>3. ASSUME BootStep PROVE BootInv'
  BY <1>3, ReadBootLineStep, ReadBootIniStep, TimeoutStep, OpenScriptStep, ReadScriptLineStep, ReadScriptStep,
     LoadImageStep, BootOsStep DEF BootStep
<1>4. QED BY <1>1, <1>2, <1>3 DEF BootNext

-----------------------------------------------------------------------------
(* What is started.                                                         *)

\* The k-th image of a script is the one whose section is the k-th.
LEMMA ImageOfSegment ==
    ASSUME NEW lines \in Scripts, Plain(lines), NEW p \in ScriptRecord, Understood(lines, Len(lines), p),
           NEW k \in 1 .. p.segment
    PROVE  LET from == SegmentStart(lines, k)
           IN /\ from \in 1 .. Len(lines) /\ ImageRead(lines, Len(lines), from, p.images[k])
              /\ \A name : Values(lines, k, name) = {lines[j].value : j \in Given(lines, Len(lines), from, name)}
<1>1. Len(lines) \in Nat /\ DOMAIN lines = 1 .. Len(lines) /\ Len(lines) \in 0 .. Len(lines)
  <2>1. Len(lines) \in Nat /\ DOMAIN lines = 1 .. Len(lines)
    BY ScriptLines
  <2>2. QED BY <2>1
<1>2. PICK s \in Starts(lines, Len(lines)) : CountTo(lines, s) = k
  BY DEF Understood
<1>3. Starts(lines, Len(lines)) = SegmentStarts(lines) /\ s \in 1 .. Len(lines)
  BY <1>1, StartsCount
<1>4. ASSUME NEW j \in SegmentStarts(lines), CountTo(lines, j) = k PROVE j = s
  <2>1. j \in SegmentStarts(lines) /\ s \in SegmentStarts(lines) /\ j \in 1 .. Len(lines)
    BY <1>1, <1>2, <1>3, StartsCount
  <2>2. CountTo(lines, j) = CountTo(lines, s) /\ CountTo(lines, s) \in Nat
    BY <1>1, <1>2, <1>3, <1>4, StartsCount
  <2>3. ~(j < s) /\ ~(s < j)
    BY <2>1, <2>2, StartsOrder
  <2>4. QED BY <1>3, <2>1, <2>3
<1>5. SegmentStart(lines, k) = s
  <2>1. \A j \in SegmentStarts(lines) :
            Cardinality({i \in SegmentStarts(lines) : i <= j}) = k <=> CountTo(lines, j) = k
    BY DEF CountTo, Starts
  <2>2. QED BY <1>2, <1>3, <1>4, <2>1 DEF SegmentStart
<1>6. ImageRead(lines, Len(lines), s, p.images[k])
  BY <1>2 DEF Understood
<1>7. ASSUME NEW name
      PROVE  Values(lines, k, name) = {lines[j].value : j \in Given(lines, Len(lines), s, name)}
  <2>1. Given(lines, Len(lines), s, name) =
            {j \in DOMAIN lines : /\ j > s /\ lines[j].kind = "param" /\ lines[j].name = name
                                  /\ \A i \in s + 1 .. j : lines[i].kind # "section"}
    BY <1>1, <1>3 DEF Given, Unbroken
  <2>2. QED BY <1>5, <2>1 DEF Values
<1>8. QED BY <1>3, <1>5, <1>6, <1>7

LEMMA ImagesStarted == BootInv => ImagesAtAddress
<1> SUFFICES ASSUME BootInv, at \in {"images", "os"}, ~script.stop, Plain(files.os[OsName]), NEW k \in 1 .. Len(loaded)
             PROVE  \E base \in Values(files.os[OsName], k, "img_base"), size \in Values(files.os[OsName], k, "img_size") :
                        loaded[k].base = Address(base, size) /\ loaded[k].size <= size.n
  BY DEF ImagesAtAddress
<1> DEFINE lines == files.os[OsName]
           from == SegmentStart(lines, k)
           i == script.images[k]
<1>1. lines \in Scripts /\ script \in ScriptRecord /\ Plain(lines)
  BY ScriptOfSystem DEF BootInv, BootTypeOK, Chosen, Going
<1>2. Understood(lines, Len(lines), script) /\ script.count = script.segment /\ Len(loaded) <= script.count
  BY DEF BootInv, ScriptRead, ImagesLoaded
<1>3. /\ loaded[k].base = i.base /\ loaded[k].base # 0 /\ loaded[k].size <= i.size /\ loaded[k].size > 0
  BY DEF BootInv, ImagesLoaded
<1>4. Len(loaded) \in Nat /\ k \in 1 .. script.segment /\ k \in 1 .. MAX_IMAGES + 1
  <2>1. Len(loaded) \in Nat
    BY LenProperties DEF BootInv, BootTypeOK
  <2>2. script.segment \in Nat
    BY <1>1 DEF ScriptRecord
  <2>3. script.segment \in 0 .. MAX_IMAGES + 1
    <3>1. Len(lines) \in 0 .. Len(lines)
      BY <1>1, ScriptLines
    <3> HIDE DEF lines
    <3>2. QED BY <1>1, <1>2, <3>1, StartsBound DEF Understood
  <2>4. QED BY <1>2, <2>1, <2>2, <2>3, MemoryKnown
<1>5. loaded[k].size \in Nat /\ i.size \in Nat
  <2>1. loaded[k] \in [base : Int, size : Nat]
    <3>1. loaded \in Seq([base : Int, size : Nat])
      BY DEF BootInv, BootTypeOK
    <3>2. QED BY <3>1, <1>4, ElementOfSeq
  <2>2. i \in ImageRecord
    BY <1>1, <1>4 DEF ScriptRecord
  <2>3. QED BY <2>1, <2>2 DEF ImageRecord
<1> HIDE DEF lines
<1>6. /\ from \in 1 .. Len(lines) /\ ImageRead(lines, Len(lines), from, i)
      /\ Values(lines, k, "img_base") = {lines[j].value : j \in Given(lines, Len(lines), from, "img_base")}
      /\ Values(lines, k, "img_size") = {lines[j].value : j \in Given(lines, Len(lines), from, "img_size")}
  BY <1>1, <1>2, <1>4, ImageOfSegment
<1> HIDE DEF i, from
<1>7. PICK b \in Given(lines, Len(lines), from, "img_base") : i.base = Address(lines[b].value, [n |-> i.size])
  BY <1>3, <1>6 DEF ImageRead
<1>8. PICK s \in Given(lines, Len(lines), from, "img_size") : i.size = lines[s].value.n
  <2>1. i.size # 0
    BY <1>3, <1>5
  <2>2. QED BY <1>6, <2>1 DEF ImageRead
<1>9. Address(lines[b].value, [n |-> i.size]) = Address(lines[b].value, lines[s].value)
  BY <1>8 DEF Address
<1>10. lines[b].value \in Values(lines, k, "img_base") /\ lines[s].value \in Values(lines, k, "img_size")
  BY <1>6, <1>7, <1>8
<1>11. loaded[k].base = Address(lines[b].value, lines[s].value) /\ loaded[k].size <= lines[s].value.n
  BY <1>3, <1>7, <1>8, <1>9
<1>12. QED BY <1>10, <1>11 DEF lines

LEMMA StartedWhole == BootInv => StartsComplete
<1> SUFFICES ASSUME BootInv, at = "os", ~HasLong(files.os[OsName])
             PROVE  Len(loaded) = Cardinality(SegmentStarts(files.os[OsName]))
  BY DEF StartsComplete, HasLong
<1> DEFINE lines == files.os[OsName]
<1>1. lines \in Scripts
  BY ScriptOfSystem DEF BootInv, BootTypeOK, Chosen, Going
<1>2. ~script.stop
  BY DEF BootInv, ScriptRead
<1>3. Understood(lines, Len(lines), script) /\ script.count = script.segment /\ Len(loaded) = script.count
  BY <1>2 DEF BootInv, ScriptRead, ImagesLoaded
<1> HIDE DEF lines
<1>4. Len(lines) \in 0 .. Len(lines)
  BY <1>1, ScriptLines
<1>5. Starts(lines, Len(lines)) = SegmentStarts(lines)
  BY <1>1, <1>4, StartsCount
<1>6. QED BY <1>3, <1>5 DEF Understood, CountTo, lines

LEMMA BootInvSound == BootInv => BootsWhatIsChosen
<1>1. BootInv => MiscMatches
  BY DEF BootInv, Chosen, Going, MiscMatches
<1>2. BootInv => CursorInMenu
  <2>1. BootInv => menu.item \in Nat /\ LastItem \in Nat
    BY DEF BootInv, BootTypeOK, LastItem
  <2>2. QED BY <2>1 DEF BootInv, Cursor, CursorInMenu
<1>3. QED BY <1>1, <1>2, ImagesStarted, StartedWhole DEF BootsWhatIsChosen

\* Whatever keys are pressed and whichever starts fail, the system that is started is
\* the one chosen, with all the images its script names, and each image of a plain
\* script is where its address and size say together (BootMain, parser_script_os_img,
\* fnL42801894).
THEOREM StartedAsTheScriptSays == Spec => []BootsWhatIsChosen
<1>1. Init => BootInv
  BY BootInitInv DEF Init
<1>2. BootInv /\ [Next]_vars => BootInv'
  <2> SUFFICES ASSUME BootInv, [Next]_vars PROVE BootInv'
    OBVIOUS
  <2>1. [BootNext]_bootVars
    BY DEF Next, vars, OnlyCharge, OnlyMenu, OnlyAdbd, OnlyMalloc, OnlyControl
  <2>2. QED BY <2>1, MenuStep
<1>3. QED BY <1>1, <1>2, BootInvSound, PTL DEF Spec
=============================================================================
