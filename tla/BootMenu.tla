------------------------------ MODULE BootMenu ------------------------------
(***************************************************************************)
(* The boot menu of boot.axf (bootos.c, script.c): boot.ini names the      *)
(* systems and the one that starts after a timeout; the script of the      *)
(* chosen one names images and the addresses they are loaded at.  The      *)
(* request for fastboot or recovery is left to u-boot in the partition     *)
(* misc.                                                                   *)
(*                                                                         *)
(* A script is a sequence of lines, empty where there is no file.  A line  *)
(* is a section, a parameter with its value, a comment, a parameter whose  *)
(* value is no number ("bad"), or a line that is too long ("long").        *)
(* script_info has the record behind images[16] in struct OSImageScript,   *)
(* where a seventeenth segment writes as well.                             *)
(***************************************************************************)
EXTENDS Integers, Sequences, FiniteSets

CONSTANTS BOOT_INIS,   \* contents of boot.ini
          OS_INIS,     \* contents of a system's script
          NAMES,       \* names of the systems
          MAX_IMAGES,  \* entries of OSImageScript.images (16)
          FILE_SIZES,  \* sizes of an image file
          DRAM_TOP,    \* address the memory ends at
          MAX_KEYS     \* bound: keys the user presses

VARIABLES at,      \* place in the program
          ini,     \* struct BootIni
          script,  \* struct OSImageScript
          menu,    \* SelectBoot: item, submenu, timeout; keyvalOld
          rest,    \* lines of the script that are not read yet
          files,   \* the contents of the disk: boot.ini, scripts, images
          misc,    \* contents of the partition misc, or None without one
          chosen,  \* what the user or the timeout selected last
          loaded,  \* images in memory: address and size
          keys     \* keys still to come

bootVars == <<at, ini, script, menu, rest, files, misc, chosen, loaded, keys>>

None == "none"

\* A number as ParseParamVal reads it: a leading and a trailing sign.
Number(n, sign, tail) == [n |-> n, sign |-> sign, tail |-> tail]

Line(k) == [kind |-> k, name |-> None, value |-> Number(0, 1, 1), text |-> None]
Section(n) == [Line("section") EXCEPT !.name = n]
Param(n, v) == [Line("param") EXCEPT !.name = n, !.value = v]
Text(n, t) == [Line("param") EXCEPT !.name = n, !.text = t]

Numbers == {"img_base", "img_size", "script_base", "script_size", "timeout"}
Texts == {"img_name", "start_os_name"}

WellWritten(lines) ==
    /\ lines \in Seq({lines[i] : i \in DOMAIN lines})
    /\ \A i \in DOMAIN lines :
           /\ lines[i].kind \in {"section", "param", "comment", "bad", "long"}
           /\ lines[i].kind = "section" => lines[i] = Section(lines[i].name)
           /\ lines[i].value.n \in Nat /\ {lines[i].value.sign, lines[i].value.tail} \subseteq {1, -1}
           /\ lines[i].name \in Numbers => lines[i].text = None
           /\ lines[i].name \in Texts => lines[i].text # None

SegmentStarts(lines) == {j \in DOMAIN lines : lines[j] = Section("segment")}

\* A parameter that takes a number has one, and names are texts: otherwise the parser goes
\* by what is left in sp8.  An eighteenth segment writes behind the record of script_info.
ASSUME ScriptsWritten ==
    /\ \A lines \in BOOT_INIS \cup OS_INIS : WellWritten(lines)
    /\ \A lines \in OS_INIS : Cardinality(SegmentStarts(lines)) <= MAX_IMAGES + 1
    /\ \A lines \in BOOT_INIS : \A i \in DOMAIN lines :
           lines[i].kind = "section" => lines[i].name \in NAMES \cup {"system"}

ASSUME MemoryKnown == FILE_SIZES \subseteq Nat \ {0} /\ DRAM_TOP \in Nat /\ MAX_IMAGES \in Nat \ {0}

-----------------------------------------------------------------------------
(* parser_script_os_sel and parser_script_os_img.  res is what is left of  *)
(* var7: the result of the last ParseParamVal.  A line that is too long    *)
(* ends the parser with the result of the line before.                     *)

NoIni == [res |-> -1, stop |-> FALSE, system |-> FALSE, names |-> <<>>, start |-> None,
          timeout |-> 0, count |-> 0, startNum |-> 0]

Stopped(p, line) ==
    CASE line.kind = "long" -> [p EXCEPT !.stop = TRUE]
      [] line.kind = "bad"  -> [p EXCEPT !.stop = TRUE, !.res = -1]

\* What ParseParamVal returns for a number and for a text.
ValueKind(line) == IF line.text = None THEN 1 ELSE 2

\* The name of a system; there is room for eight.
SystemLine(p, name) ==
    IF Len(p.names) = 8 THEN [p EXCEPT !.stop = TRUE, !.res = -1]
    ELSE [p EXCEPT !.system = FALSE, !.names = Append(@, name)]

SelLine(p, line) ==
    CASE line.kind = "comment" -> p
      [] line.kind \in {"long", "bad"} -> Stopped(p, line)
      [] line.kind = "section" ->
             IF line.name = "system" THEN [p EXCEPT !.system = TRUE] ELSE SystemLine(p, line.name)
      [] line.kind = "param" ->
             [p EXCEPT !.res = ValueKind(line),
                       !.start = IF p.system /\ line.name = "start_os_name" THEN line.text ELSE @,
                       !.timeout = IF p.system /\ line.name = "timeout" THEN line.value.n * line.value.sign ELSE @]

\* Mutant of StartNum, counting from 1.
FromOne(p) == LET same == {i \in 1 .. Len(p.names) : p.names[i] = p.start}
              IN IF same = {} THEN 0 ELSE CHOOSE i \in same : \A j \in same : i <= j

\* The name to start is looked up among all eight entries; without one it is
\* found in the first entry that is empty.
StartNum(p) ==
    LET same == {i \in 1 .. 8 : IF i <= Len(p.names) THEN p.names[i] = p.start ELSE p.start = None}
    IN IF same = {} THEN 0 ELSE CHOOSE i \in 0 .. 7 : i + 1 \in same /\ \A j \in same : i + 1 <= j

SelEnd(p) == IF p.stop THEN p ELSE [p EXCEPT !.count = Len(p.names), !.startNum = StartNum(p)]

NoImage == [name |-> None, size |-> 0, base |-> 0]
\* The script before its first line: section and adjustBaseAddr are not initialised.
\* images[MAX_IMAGES + 1] is the memory for script.bin, and segment is segmentNo + 1.
NewScript(section, adjust) ==
    [res |-> -1, stop |-> FALSE, section |-> section, adjust |-> adjust, segment |-> 0,
     images |-> [n \in 1 .. MAX_IMAGES + 1 |-> NoImage], count |-> 0]
NoScript == NewScript(None, FALSE)

\* img_base: an address from the end of the memory, and the end of the image
\* instead of its start.  The size is taken off now or when it is known.
BaseLine(i, v) ==
    LET a == IF v.sign < 0 THEN DRAM_TOP - v.n ELSE v.n
    IN [image |-> [i EXCEPT !.base = IF v.tail < 0 THEN a - i.size ELSE a],
        adjust |-> v.tail < 0 /\ i.size = 0]

SizeLine(i, v, adjust) ==
    [i EXCEPT !.size = v.n, !.base = IF adjust THEN @ - v.n ELSE @]

\* What a parameter gives in the section it is taken for.
Meaning(section, name) ==
    CASE section = "segment" /\ name = "img_base" -> "base"
      [] section = "segment" /\ name = "img_size" -> "size"
      [] section = "segment" /\ name = "img_name" -> "name"
      [] section = "script_info" /\ name = "script_base" -> "base"
      [] section = "script_info" /\ name = "script_size" -> "size"
      [] OTHER -> None

\* The image with it, and whether its address still waits for the size.
ImageParam(i, what, line, adjust) ==
    CASE what = "base" ->
             LET b == BaseLine(i, line.value)
             IN [image |-> b.image, adjust |-> b.adjust \/ adjust]
      [] what = "size" -> [image |-> SizeLine(i, line.value, adjust), adjust |-> FALSE]
      [] what = "name" -> [image |-> [i EXCEPT !.name = line.text], adjust |-> adjust]
      [] OTHER -> [image |-> i, adjust |-> adjust]

\* An unknown section leaves the parser in the one before it.
Known == {"segment", "script_info", "logo_info", "global"}
SectionLine(p, name) ==
    [p EXCEPT !.adjust = FALSE,
              !.section = IF name \in Known THEN name ELSE @,
              !.segment = IF name = "segment" THEN @ + 1 ELSE @]

\* The record that parameters are written to; none before the first segment
\* (images[-1], which nobody reads) and for the logo.
Target(p) == CASE p.section = "segment" -> p.segment
               [] p.section = "script_info" -> MAX_IMAGES + 1
               [] OTHER -> 0

ParamLine(p, line) ==
    LET n == Target(p)
        q == ImageParam(p.images[n], Meaning(p.section, line.name), line, p.adjust)
    IN IF n = 0 THEN [p EXCEPT !.res = ValueKind(line)]
       ELSE [p EXCEPT !.images[n] = q.image, !.adjust = q.adjust, !.res = ValueKind(line)]

ImgLine(p, line) ==
    CASE line.kind = "comment" -> p
      [] line.kind \in {"long", "bad"} -> Stopped(p, line)
      [] line.kind = "section" -> SectionLine(p, line.name)
      [] line.kind = "param" -> ParamLine(p, line)

ImgEnd(p) == [p EXCEPT !.section = None, !.adjust = FALSE, !.count = IF p.stop THEN @ ELSE p.segment]

-----------------------------------------------------------------------------
BootInit ==
    /\ at = "start" /\ ini = NoIni /\ script = NoScript
    /\ menu = [item |-> 0, sub |-> FALSE, timeout |-> 0, key |-> None]
    /\ \E b \in BOOT_INIS : \E s \in [NAMES -> OS_INIS \cup {<<>>}] : \E z \in FILE_SIZES \cup {-1} :
           files = [os |-> s, image |-> z] /\ rest = b
    /\ misc \in {"", "boot-recovery", None} /\ chosen = None
    /\ loaded = <<>> /\ keys = MAX_KEYS

\* parser_script_os_sel, a line at a time.
ReadBootLine ==
    /\ at = "start" /\ rest # <<>> /\ ~ini.stop
    /\ ini' = SelLine(ini, Head(rest)) /\ rest' = Tail(rest)
    /\ UNCHANGED <<at, script, menu, files, misc, chosen, loaded, keys>>

\* The end of the parser; BootMain up to the menu.  A boot.ini that cannot be
\* used switches off.
ReadBootIni ==
    /\ at = "start" /\ (rest = <<>> \/ ini.stop)
    /\ ini' = SelEnd(ini)
    /\ at' = IF ini.res < 0 THEN "off" ELSE "menu"
    /\ menu' = [item |-> ini'.startNum, sub |-> FALSE, timeout |-> ini.timeout, key |-> None]
    /\ rest' = <<>>
    /\ UNCHANGED <<script, files, misc, chosen, loaded, keys>>

LastItem == IF menu.sub THEN 4 ELSE ini.count

MiscFor(c) == CASE c = -1 -> "boot-fastboot" [] c = -2 -> "boot-recovery" [] OTHER -> ""

\* WriteMiscPart, before the system is loaded.
WriteMiscPart(c) == IF misc = None THEN None ELSE MiscFor(c)

\* The item under the cursor is selected, by the key or by the timeout.
Select(k) ==
    \/ /\ menu.item = LastItem
       /\ menu' = [item |-> 0, sub |-> ~menu.sub, timeout |-> -1, key |-> k]
       /\ UNCHANGED <<at, ini, misc, chosen>>
    \/ /\ menu.item # LastItem
       /\ ini' = [ini EXCEPT !.startNum = menu.item, !.timeout = -1]
       /\ menu' = [menu EXCEPT !.key = k]
       /\ chosen' = IF menu.sub THEN -menu.item - 1 ELSE menu.item
       /\ IF chosen' < -2
          THEN at' = (IF chosen' = -3 THEN "off" ELSE "fel") /\ UNCHANGED misc
          ELSE at' = "load" /\ misc' = WriteMiscPart(chosen')

Timeout ==
    /\ at = "menu" /\ menu.timeout >= 0
    /\ IF menu.timeout = 0 THEN Select(menu.key)
       ELSE menu' = [menu EXCEPT !.timeout = @ - 1] /\ UNCHANGED <<at, ini, misc, chosen>>
    /\ UNCHANGED <<script, rest, files, loaded, keys>>

Down(n) == IF n = 0 THEN LastItem ELSE n - 1
Up(n) == IF n = LastItem THEN 0 ELSE n + 1

\* GetKeyVal returns a key that differs from the last one; any key ends the
\* timeout.
Key(k) ==
    /\ at = "menu" /\ keys > 0 /\ k # menu.key
    /\ IF k = "back" THEN Select(k)
       ELSE /\ menu' = [menu EXCEPT !.timeout = -1, !.key = k,
                          !.item = CASE k = "down" -> Down(@) [] k = "up" -> Up(@) [] OTHER -> @]
            /\ UNCHANGED <<at, ini, misc, chosen>>
    /\ keys' = keys - 1
    /\ UNCHANGED <<script, rest, files, loaded>>

\* Back to the menu, which waits for a key now.
Retry ==
    /\ at' = "menu"
    /\ menu' = [item |-> ini.startNum, sub |-> FALSE, timeout |-> -1, key |-> menu.key]

\* script_patch of the system's script; fastboot and recovery use the first.
OsName == LET n == IF chosen < 0 THEN 0 ELSE chosen
          IN IF n < Len(ini.names) THEN ini.names[n + 1] ELSE None

OpenScript ==
    /\ at = "load"
    /\ IF OsName = None THEN Retry /\ UNCHANGED rest
       ELSE at' = "script" /\ rest' = files.os[OsName] /\ UNCHANGED menu
    /\ \E section \in {"segment", "script_info", None}, adjust \in BOOLEAN :
           script' = NewScript(section, adjust)
    /\ loaded' = <<>>
    /\ UNCHANGED <<ini, files, misc, chosen, keys>>

ReadScriptLine ==
    /\ at = "script" /\ rest # <<>> /\ ~script.stop
    /\ script' = ImgLine(script, Head(rest)) /\ rest' = Tail(rest)
    /\ UNCHANGED <<at, ini, menu, files, misc, chosen, loaded, keys>>

ReadScript ==
    /\ at = "script" /\ (rest = <<>> \/ script.stop)
    /\ script' = ImgEnd(script) /\ rest' = <<>>
    /\ IF script.res < 0 THEN Retry ELSE at' = "images" /\ UNCHANGED menu
    /\ UNCHANGED <<ini, files, misc, chosen, loaded, keys>>

\* Mutant of AllLoaded, for a kernel in one image.
FirstLoaded == Len(loaded) >= 1 \/ script.count = 0

AllLoaded == Len(loaded) = script.count

\* fnL42801894: one image after the other.  An image without an address is
\* refused before its file is opened.
LoadImage ==
    /\ at = "images" /\ ~AllLoaded
    /\ LET i == script.images[Len(loaded) + 1]
       IN IF i.base = 0 \/ i.name = None \/ files.image = -1 \/ files.image > i.size
          THEN Retry /\ UNCHANGED loaded
          ELSE /\ loaded' = Append(loaded, [base |-> i.base, size |-> files.image])
               /\ UNCHANGED <<at, menu>>
    /\ UNCHANGED <<ini, script, rest, files, misc, chosen, keys>>

BootOs ==
    /\ at = "images" /\ AllLoaded
    /\ at' = "os"
    /\ UNCHANGED <<ini, script, menu, rest, files, misc, chosen, loaded, keys>>

BootStep ==
    \/ ReadBootLine \/ ReadBootIni \/ Timeout
    \/ OpenScript \/ ReadScriptLine \/ ReadScript \/ LoadImage \/ BootOs

BootNext == BootStep \/ \E k \in {"down", "up", "back", "released"} : Key(k)

-----------------------------------------------------------------------------
(* Properties.                                                             *)

\* The parameters of the k-th image in a script, as sets of values.
SegmentStart(lines, k) ==
    CHOOSE j \in SegmentStarts(lines) : Cardinality({i \in SegmentStarts(lines) : i <= j}) = k
Values(lines, k, name) ==
    LET from == SegmentStart(lines, k)
    IN {lines[j].value : j \in {j \in DOMAIN lines :
            /\ j > from /\ lines[j].kind = "param" /\ lines[j].name = name
            /\ \A i \in from + 1 .. j : lines[i].kind # "section"}}

\* What img_base and img_size of an image say together, in any order.
Address(base, size) ==
    (IF base.sign < 0 THEN DRAM_TOP - base.n ELSE base.n) - (IF base.tail < 0 THEN size.n ELSE 0)

\* What the parser gets wrong: an address or a size that is given twice, one in a section
\* that it does not know, which goes to the image before it (script.c:231), and more
\* segments than there are entries (bootos.h:23).
InOneSection(lines, i, j) == \A k \in i + 1 .. j : lines[k].kind # "section"
Placing(line) == line.kind = "param" /\ line.name \in {"img_base", "img_size"}
Plain(lines) ==
    /\ Cardinality(SegmentStarts(lines)) <= MAX_IMAGES
    /\ \A i, j \in DOMAIN lines : i < j /\ Placing(lines[j]) /\ InOneSection(lines, i, j) =>
           /\ lines[i].kind = "param" => lines[i].name # lines[j].name
           /\ lines[i].kind = "section" => lines[i].name \in Known

\* An image is loaded where its address and size say, in whichever order the
\* script gives them (parser_script_os_img, adjustBaseAddr), if the script is a plain one.
ImagesAtAddress ==
    at \in {"images", "os"} /\ ~script.stop /\ Plain(files.os[OsName]) =>
        LET lines == files.os[OsName]
        IN \A k \in 1 .. Len(loaded) :
               \E base \in Values(lines, k, "img_base"), size \in Values(lines, k, "img_size") :
                   loaded[k].base = Address(base, size) /\ loaded[k].size <= size.n

\* A system is started with all the images its script names, of this attempt
\* and not of one that failed before.  A line that is too long ends the script
\* without an error: the parser then counts no image and the system is started
\* at address 0 (script.c:322).
StartsComplete ==
    at = "os" => \/ Len(loaded) = Cardinality(SegmentStarts(files.os[OsName]))
                 \/ \E j \in DOMAIN files.os[OsName] : files.os[OsName][j].kind = "long"

\* u-boot finds in misc what was chosen for the system that is started, and
\* not the request of a start that failed (BootOS_detect_os_type).
MiscMatches == at = "os" /\ misc # None => misc = MiscFor(chosen)

\* The cursor is on an item of the menu, the entries of the submenu that is
\* remembered as startOSNum included, if boot.ini names a system.
CursorInMenu == at = "menu" /\ ini.count > 0 => menu.item \in 0 .. LastItem

\* Without a key, the system that boot.ini names is the one that is started
\* after the timeout (README.md of boot-axf, "start_os_name", "timeout").
Unattended ==
    at = "menu" /\ keys = MAX_KEYS /\ menu.timeout >= 0 /\ \E i \in 1 .. ini.count : ini.names[i] = ini.start
StartsNamed == (at = "load" /\ OsName = ini.start) \/ keys < MAX_KEYS
StartsUnattended == Unattended ~> StartsNamed

\* The four together: the system that is started is the one chosen, and whole.
BootsWhatIsChosen == ImagesAtAddress /\ StartsComplete /\ MiscMatches /\ CursorInMenu
=============================================================================
