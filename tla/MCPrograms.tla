---------------------------- MODULE MCPrograms ----------------------------
(* The programs of the repository besides the NAND driver and diskboot,    *)
(* the control endpoint of diskboot, and the allocator they are linked     *)
(* with.  They share no state: in each behaviour one of them runs and the  *)
(* others stay as they start.                                              *)
EXTENDS ChargeDetect, BootMenu, AdbdEmu, Malloc, ControlEndpoint

VARIABLE program

vars == <<program, chargeVars, bootVars, adbdVars, allocVars, controlVars>>

-----------------------------------------------------------------------------
\* Scripts: addresses from both ends of the memory, with the size before and
\* after them, several images, no image, lines that end the parser, sections
\* and parameters that it does not know, parameters before the first section,
\* more images than there is room for, and nine systems.
Base == Param("img_base", Number(10, 1, -1))
BaseTop == Param("img_base", Number(5, -1, -1))
BaseFix == Param("img_base", Number(7, 1, 1))
Size == Param("img_size", Number(3, 1, 1))
Name == Text("img_name", "bImage")
Segment == Section("segment")
ScriptInfo == <<Section("script_info"), Param("script_base", Number(12, 1, -1)), Param("script_size", Number(3, 1, 1))>>
System(t) == <<Section("system"), Param("timeout", Number(t, 1, 1))>>

BootInis ==
    {System(1) \o <<Text("start_os_name", "debian"), Section("linux"), Section("debian")>>,
     <<Section("linux"), Section("debian")>> \o System(0),
     <<Section("system"), Param("timeout", Number(1, -1, 1)), Section("linux"), Line("long")>>,
     System(1) \o <<Line("bad"), Section("linux")>>,
     <<Line("comment"), Section("linux")>>,
     System(0) \o [n \in 1 .. 9 |-> Section("linux")]}

OsInis ==
    {<<Segment, Base, Name, Size>>,
     <<Segment, Size, Name, BaseTop, Param("img_flags", Number(9, 1, 1))>>,
     <<Segment, Name, Size, Base, Section("notes"), Text("author", "x"), Segment, BaseTop, Size, Name>>,
     <<Segment, Name, BaseFix, Size>> \o ScriptInfo \o <<Segment, Name, Size>>,
     <<Size, Base, Segment, Name, BaseFix, Size, Section("notes"), BaseTop>>,
     <<Segment, Name, BaseFix, Size, Segment, Name, BaseFix, Size, Segment, Base, Name, Size>> \o ScriptInfo,
     <<Segment, Size, Line("long"), BaseFix>>,
     <<Segment, Size, Line("bad")>>,
     <<Segment>>,
     <<Section("global"), Param("start_mode", Number(1, 1, 1))>>}

\* Requests of an enumeration, with lengths around those of the answers and 256.
Asked(kind, lengths) == {[kind |-> kind, w |-> w] : w \in lengths}

Requests ==
    Asked("device", {8, 64}) \union Asked("configuration", {9, 255, 256 + 9})
        \union Asked("string", {255}) \union Asked("lun", {1}) \union Asked("no string", {4})
        \union UNION {Asked(kind, {0}) : kind \in {"address", "set configuration", "set interface", "unknown"}}

-----------------------------------------------------------------------------
Init ==
    /\ program \in {"charge", "menu", "adbd", "malloc", "control"}
    /\ ChargeInit /\ BootInit /\ AdbdInit /\ AllocInit /\ ControlInit
    /\ program # "charge" => full
    /\ program # "menu" => /\ misc = None /\ rest = <<Line("comment"), Section("linux")>>
                           /\ files = [os |-> [n \in NAMES |-> <<>>], image |-> -1]

OnlyCharge  == program = "charge" /\ UNCHANGED <<program, bootVars, adbdVars, allocVars, controlVars>>
OnlyMenu    == program = "menu" /\ UNCHANGED <<program, chargeVars, adbdVars, allocVars, controlVars>>
OnlyAdbd    == program = "adbd" /\ UNCHANGED <<program, chargeVars, bootVars, allocVars, controlVars>>
OnlyMalloc  == program = "malloc" /\ UNCHANGED <<program, chargeVars, bootVars, adbdVars, controlVars>>
OnlyControl == program = "control" /\ UNCHANGED <<program, chargeVars, bootVars, adbdVars, allocVars>>

Next ==
    \/ OnlyCharge /\ ChargeNext
    \/ OnlyMenu /\ BootNext
    \/ OnlyAdbd /\ AdbdNext
    \/ OnlyMalloc /\ AllocNext
    \/ OnlyControl /\ ControlNext

\* The main part of the program that runs.
Main ==
    \/ OnlyCharge /\ MainStep
    \/ OnlyMenu /\ BootStep
    \/ OnlyAdbd /\ MainNext
    \/ OnlyControl /\ DeviceStep

\* What runs beside it: the timers, adbd_emu's reader, the host's end of a request.
Beside ==
    \/ OnlyCharge /\ TimerInterrupt
    \/ OnlyAdbd /\ (ReaderSends \/ ReaderEnds)
    \/ OnlyControl /\ PortStep

\* The program that runs makes progress, a timer that is set expires, and neither
\* the reader nor the host stops for ever.
Fairness == WF_vars(Main) /\ WF_vars(Beside)

Spec == Init /\ [][Next]_vars /\ Fairness

-----------------------------------------------------------------------------
\* What the host sees of adbd_emu's channel, and of the control endpoint.
LinksSound == StreamsSound /\ ControlSound

\* A detection of the charger ends, a system is started without a key, adbd_emu gets
\* back to reading packets, and every request to the control endpoint ends.  As
\* "program" never changes, this is DetectionEnds, StartsUnattended, HandlingEnds and
\* RequestEnds, each for the behaviours of its program.
Ends ==
    (\/ program = "charge" /\ usb.on
     \/ program = "menu" /\ Unattended
     \/ program = "adbd" /\ Handling
     \/ program = "control" /\ Asking)
      ~> (\/ program = "charge" /\ Detected
          \/ program = "menu" /\ StartsNamed
          \/ program = "adbd" /\ Handled
          \/ program = "control" /\ ~Asking)
===========================================================================
