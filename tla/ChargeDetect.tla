---------------------------- MODULE ChargeDetect ----------------------------
(***************************************************************************)
(* What boot.axf does before it boots (power.c, bootmain.c, and the        *)
(* detection of the charger in usb_device.c): a tablet that was woken by   *)
(* its charger shows the charge and sleeps, until a key boots it or it is  *)
(* switched off.  Three interrupts share variables with the main program:  *)
(* the power chip (keys and VBUS), the USB controller (a bus reset means   *)
(* that a PC is at the other end) and a timer (no PC after 400 ms means a  *)
(* charger).  Handlers run to their end; the main program is the sequence  *)
(* of the steps it still has to take, and can be interrupted between them. *)
(* A change of a flag is a load and a store.                               *)
(***************************************************************************)
EXTENDS Naturals, Sequences, FiniteSets

CONSTANTS TIMERS,      \* timers of boot1
          MASKS,       \* mask registers of the power chip (5)
          ROUNDS,      \* bound: rounds of the animation of the charge
          MAX_EVENTS   \* bound: interrupts of the power chip, and failing accesses to it

\* svc_request_timer answers 0 when there is no timer left.
ASSUME TimerHandles == 0 \notin TIMERS
ASSUME MaskRegisters == MASKS \in Nat \ {0}

VARIABLES main,      \* [at, todo, reg, rounds]: place, steps, register, rounds
          flags,     \* L4280A3A8: short, long, insert, pc
          pmu,       \* the power chip's interrupt: on, reg (L4280A3B0), masks,
                     \* saved (L4280A3B4), failed: masks could not be written back
          usb,       \* detection: on (L4280A408), clock, irq
          timer,     \* handle (timerHandle or 0), requested and armed timers
          cpu,       \* the processor takes interrupts
          full,      \* var5 = 100: the battery is charged
          vbus,      \* [present, recent, astray]: power on the plug; astray, once a handler
                     \* has changed the detection inside a call of the main program, or has
                     \* started one on bits that could not be read
          events     \* interrupts of the power chip and failing accesses still to come

chargeVars == <<main, flags, pmu, usb, timer, cpu, full, vbus, events>>

Flags == {"short", "long", "insert", "pc"}

-----------------------------------------------------------------------------
(* Calls of the main program, as the steps between which it can be         *)
(* interrupted.                                                            *)

\* power_int_rel.
Rel == <<"pmuOff", "restore", "unregister">>
\* power_int_reg.
Reg == <<"register", "pmuOn">>
\* usb_detect_enter.
Enter == <<"start", "request", "connect">>
\* usb_detect_exit.
Exit == <<"stop", "release">>
\* *L4280A3A8 &= ~flag.
Clear(flag) == <<"load", flag>>

\* What BootMain does before it boots or switches off.
Quit == Rel \o Exit

\* What the loop of check_power_status does before it sleeps.
Doze == <<"cli">> \o Rel \o Exit \o <<"sti">>

\* A long key: the loop ends and the system boots.
LongKey == <<"cli">> \o Rel \o Exit \o Clear("long") \o <<"sti">> \o Reg

Goto(at, todo) == main' = [main EXCEPT !.at = at, !.todo = todo]

-----------------------------------------------------------------------------
ChargeInit ==
    /\ main = [at |-> "check", todo |-> <<>>, reg |-> {}, rounds |-> 0]
    /\ flags = {} /\ cpu = TRUE /\ full \in BOOLEAN
    /\ pmu = [on |-> FALSE, reg |-> FALSE, failed |-> FALSE,
              masks |-> [i \in 1 .. MASKS |-> "original"], saved |-> [i \in 1 .. MASKS |-> "zero"]]
    /\ usb = [on |-> FALSE, clock |-> FALSE, irq |-> FALSE]
    /\ timer = [handle |-> 0, requested |-> {}, armed |-> {}]
    /\ vbus = [present |-> TRUE, recent |-> FALSE, astray |-> FALSE]
    /\ events = MAX_EVENTS

\* check_power_status up to the animation: the battery is too low, a key
\* started the tablet, there is no battery, or the charge is shown.
CheckPower ==
    /\ main.at = "check" /\ main.todo = <<>>
    /\ \/ Goto("off", Quit)
       \/ Goto("menu", <<>>)
       \/ Goto("menu", Reg \o Enter \o Rel \o Exit)
       \/ Goto("show", Reg \o Enter)
    /\ UNCHANGED <<flags, pmu, usb, timer, cpu, full, vbus, events>>

\* A poll of the animation.  With a full battery the first loop counts on
\* after a short key.
Show(at, restart) ==
    /\ main.at = at /\ main.todo = <<>>
    /\ \/ /\ "short" \in flags
          /\ main' = [main EXCEPT !.todo = Clear("short"), !.rounds = IF restart THEN 0 ELSE @ + 1]
       \/ /\ "short" \notin flags /\ "long" \in flags
          /\ Goto("menu", LongKey)
       \/ /\ flags \cap {"short", "long"} = {} /\ main.rounds < ROUNDS
          /\ main' = [main EXCEPT !.rounds = @ + 1]
       \/ /\ flags \cap {"short", "long"} = {} /\ main.rounds >= ROUNDS
          /\ main' = [main EXCEPT !.at = "standby", !.rounds = 0]
    /\ vbus' = [vbus EXCEPT !.recent = FALSE]
    /\ UNCHANGED <<flags, pmu, usb, timer, cpu, full, events>>

\* The head of the standby loop: a plug that was just inserted is looked at,
\* otherwise the tablet sleeps.
Standby ==
    /\ main.at = "standby" /\ main.todo = <<>>
    /\ IF "insert" \in flags THEN Goto("plug", Clear("insert")) ELSE Goto("asleep", Doze)
    /\ UNCHANGED <<flags, pmu, usb, timer, cpu, full, vbus, events>>

\* svc_05 returns with the reason of the wake-up; the charge has grown or not.
Wake ==
    /\ main.at = "asleep" /\ main.todo = <<>>
    /\ full' \in {full, TRUE}
    /\ \/ Goto("again", Reg)                  \* 2: a short key
       \/ Goto("menu", Reg)                   \* 3: a long key
       \/ Goto("off", Reg \o Quit)            \* 4 .. 7
       \/ Goto("plug", <<>>)                  \* 8: VBUS inserted
       \/ Goto("standby", <<>>)               \* 9: power_set_usbpc, or unknown
    /\ vbus' = [vbus EXCEPT !.recent = FALSE]
    /\ UNCHANGED <<flags, pmu, usb, timer, cpu, events>>

\* Wake-up by the plug: the detection runs for 600 ms.
Plug ==
    /\ main.at = "plug" /\ main.todo = <<>>
    /\ Goto("plugged", Enter)
    /\ UNCHANGED <<flags, pmu, usb, timer, cpu, full, vbus, events>>

Plugged ==
    /\ main.at = "plugged" /\ main.todo = <<>>
    /\ Goto("standby", Exit)
    /\ vbus' = [vbus EXCEPT !.recent = FALSE]
    /\ UNCHANGED <<flags, pmu, usb, timer, cpu, full, events>>

\* The boot menu and the loader, then BootMain leaves.
Boot ==
    /\ main.at = "menu" /\ main.todo = <<>>
    /\ \E end \in {"os", "off"} : Goto(end, Quit)
    /\ vbus' = [vbus EXCEPT !.recent = FALSE]
    /\ UNCHANGED <<flags, pmu, usb, timer, cpu, full, events>>

-----------------------------------------------------------------------------
(* The steps of the calls.                                                 *)

DetectOn == [usb EXCEPT !.on = TRUE, !.clock = TRUE]
DetectOff == [on |-> FALSE, clock |-> FALSE, irq |-> FALSE]

\* svc_request_timer, which may have none left.
Requested ==
    \/ \E t \in TIMERS \ timer.requested :
           timer' = [timer EXCEPT !.handle = t, !.requested = @ \cup {t}]
    \/ TIMERS \subseteq timer.requested /\ timer' = [timer EXCEPT !.handle = 0]

Armed == IF timer.handle = 0 THEN timer
         ELSE [timer EXCEPT !.armed = @ \cup {timer.handle}]

\* Mutant of Released, forgetting the handle of a timer that still runs.
HandleOnly == [timer EXCEPT !.handle = 0]

\* svc_disable_timer and svc_release_timer of timerHandle.
Released ==
    IF timer.handle = 0 THEN timer
    ELSE [handle |-> 0, requested |-> timer.requested \ {timer.handle},
          armed |-> timer.armed \ {timer.handle}]

\* A step of usb_detect_enter.
EnterStep(s) ==
    \/ /\ s = "start" /\ usb.on
       /\ main' = [main EXCEPT !.todo = SubSeq(@, 4, Len(@))]
       /\ UNCHANGED <<usb, timer>>
    \/ /\ s = "start" /\ ~usb.on
       /\ usb' = DetectOn /\ main' = [main EXCEPT !.todo = Tail(@)] /\ UNCHANGED timer
    \/ /\ s = "request"
       /\ Requested /\ main' = [main EXCEPT !.todo = Tail(@)] /\ UNCHANGED usb
    \/ /\ s = "connect"
       /\ usb' = [usb EXCEPT !.irq = TRUE] /\ timer' = Armed
       /\ main' = [main EXCEPT !.todo = Tail(@)]

DetectEnter ==
    /\ main.todo # <<>> /\ EnterStep(Head(main.todo))
    /\ UNCHANGED <<flags, pmu, cpu, full, vbus, events>>

DetectExit ==
    /\ main.todo # <<>> /\ Head(main.todo) \in {"stop", "release"}
    /\ IF Head(main.todo) = "stop" THEN usb' = DetectOff /\ UNCHANGED timer
       ELSE timer' = Released /\ UNCHANGED usb
    /\ main' = [main EXCEPT !.todo = Tail(@)]
    /\ UNCHANGED <<flags, pmu, cpu, full, vbus, events>>

\* Accesses of the TWI bus to the registers 1 .. n, before one that fails.
Upto(n, new, old) == [i \in 1 .. MASKS |-> IF i <= n THEN new[i] ELSE old[i]]
Accesses(n) == IF n = MASKS THEN UNCHANGED events ELSE events > 0 /\ events' = events - 1

\* boot_power_int_enable reads all masks, then it writes them: it returns at an access
\* that fails, and power_int_reg goes on.
EnableMasks ==
    \E read, written \in 0 .. MASKS :
        /\ read < MASKS => written = 0
        /\ Accesses(written)
        /\ pmu' = [pmu EXCEPT !.reg = TRUE, !.saved = Upto(read, pmu.masks, @),
                              !.masks = Upto(written, [i \in 1 .. MASKS |-> "detect"], @)]

\* boot_power_int_disable, which returns at a write that fails; power_int_rel goes on.
DisableMasks ==
    \E written \in 0 .. MASKS :
        /\ Accesses(written)
        /\ pmu' = [pmu EXCEPT !.masks = Upto(written, pmu.saved, @), !.failed = @ \/ written < MASKS]

\* power_int_reg when it is registered already does nothing.
PowerInt ==
    /\ main.todo # <<>>
    /\ LET s == Head(main.todo)
       IN \/ s = "pmuOff" /\ pmu' = [pmu EXCEPT !.on = FALSE] /\ UNCHANGED <<flags, events>>
          \/ s = "restore" /\ DisableMasks /\ UNCHANGED flags
          \/ s = "unregister" /\ pmu' = [pmu EXCEPT !.reg = FALSE] /\ flags' = {} /\ UNCHANGED events
          \/ s = "register" /\ ~pmu.reg /\ EnableMasks /\ flags' = {}
          \/ s = "register" /\ pmu.reg /\ UNCHANGED <<flags, pmu, events>>
          \/ s = "pmuOn" /\ pmu' = [pmu EXCEPT !.on = TRUE] /\ UNCHANGED <<flags, events>>
    /\ main' = [main EXCEPT !.todo = Tail(@)]
    /\ UNCHANGED <<usb, timer, cpu, full, vbus>>

ClearFlag ==
    /\ main.todo # <<>>
    /\ \/ /\ Head(main.todo) = "load"
          /\ main' = [main EXCEPT !.todo = Tail(@), !.reg = flags]
          /\ UNCHANGED flags
       \/ /\ Head(main.todo) \in Flags
          /\ flags' = main.reg \ {Head(main.todo)}
          /\ main' = [main EXCEPT !.todo = Tail(@), !.reg = {}]
    /\ UNCHANGED <<pmu, usb, timer, cpu, full, vbus, events>>

Interrupts ==
    /\ main.todo # <<>> /\ Head(main.todo) \in {"cli", "sti"}
    /\ cpu' = (Head(main.todo) = "sti")
    /\ main' = [main EXCEPT !.todo = Tail(@)]
    /\ UNCHANGED <<flags, pmu, usb, timer, full, vbus, events>>

-----------------------------------------------------------------------------
(* The interrupt handlers.                                                 *)

\* power_int_handler for a key.
KeyInterrupt ==
    /\ cpu /\ pmu.on /\ events > 0
    /\ \E key \in {"short", "long"} : flags' = flags \cup {key}
    /\ events' = events - 1
    /\ UNCHANGED <<main, pmu, usb, timer, cpu, full, vbus>>

\* The main program is inside usb_detect_enter or usb_detect_exit.
InCall == main.todo # <<>> /\ Head(main.todo) \in {"request", "connect", "release"}

\* What power_int_handler does when VBUS was removed or inserted.
Removed == usb' = DetectOff /\ timer' = Released
Inserted ==
    IF usb.on THEN UNCHANGED <<usb, timer>>
    ELSE /\ usb' = [DetectOn EXCEPT !.irq = TRUE]
         /\ \/ TIMERS \subseteq timer.requested /\ timer' = [timer EXCEPT !.handle = 0]
            \/ \E t \in TIMERS \ timer.requested :
                   timer' = [handle |-> t, requested |-> timer.requested \cup {t},
                             armed |-> timer.armed \cup {t}]

\* power_int_handler for VBUS.  A plug takes longer than a call of the main
\* program: two changes have a wait of the main program between them.
VbusInterrupt ==
    /\ cpu /\ pmu.on /\ events > 0 /\ ~vbus.recent
    /\ vbus' = [present |-> ~vbus.present, recent |-> TRUE,
                astray |-> vbus.astray \/ InCall]
    /\ IF vbus.present THEN Removed /\ UNCHANGED flags
       ELSE Inserted /\ flags' = flags \cup {"insert"}
    /\ events' = events - 1
    /\ UNCHANGED <<main, pmu, cpu, full>>

\* eGon2_power_int_query fails: power_int_handler goes by what is on its stack.
GarbledInterrupt ==
    /\ cpu /\ pmu.on /\ events > 0
    /\ \E key \in {{}, {"short"}, {"long"}} :
          \/ /\ flags' = flags \cup key
             /\ UNCHANGED <<usb, timer, vbus>>
          \/ /\ flags' = flags \cup key
             /\ Removed /\ vbus' = [vbus EXCEPT !.astray = @ \/ InCall]
          \/ /\ flags' = flags \cup key \cup {"insert"}
             /\ Inserted /\ vbus' = [vbus EXCEPT !.astray = @ \/ InCall \/ ~usb.on]
    /\ events' = events - 1
    /\ UNCHANGED <<main, pmu, cpu, full>>

\* TimerHandler: the detection ends; without a PC the charger may be used.
TimerInterrupt ==
    /\ cpu
    /\ \E t \in timer.armed : timer' = [timer EXCEPT !.armed = @ \ {t}]
    /\ IF "pc" \in flags
       THEN flags' = flags \ {"pc"} /\ usb' = [usb EXCEPT !.on = FALSE]
       ELSE usb' = DetectOff /\ UNCHANGED flags
    /\ UNCHANGED <<main, pmu, cpu, full, vbus, events>>

\* usb_interrupt_handler for a bus reset.
ResetInterrupt ==
    /\ cpu /\ usb.irq /\ usb.clock
    /\ usb' = DetectOff
    /\ flags' = flags \cup {"pc"}
    /\ timer' = Released
    /\ UNCHANGED <<main, pmu, cpu, full, vbus, events>>

MainStep ==
    \/ CheckPower \/ Show("show", ~full) \/ Show("again", TRUE) \/ Standby \/ Plug
    \/ Plugged \/ DetectEnter \/ DetectExit \/ PowerInt \/ ClearFlag \/ Interrupts

ChargeNext ==
    \/ MainStep \/ Wake \/ Boot
    \/ KeyInterrupt \/ VbusInterrupt \/ GarbledInterrupt \/ TimerInterrupt \/ ResetInterrupt

-----------------------------------------------------------------------------
(* Properties.                                                             *)

Left == main.at \in {"os", "off"} /\ main.todo = <<>>

\* Whatever interrupts came, nothing of the detection is left running when the
\* system is booted, switched off or put to sleep: no interrupt of the power
\* chip or of USB, no clock, and no armed timer whose handler is in memory
\* that the system overwrites (BootMain, check_power_status).  A timer may be
\* left when the power chip's interrupt came inside usb_detect_enter or
\* usb_detect_exit, or started a detection on bits that it could not read.
QuietWhenLeft ==
    (Left \/ (main.at = "asleep" /\ main.todo = <<>>)) =>
        /\ ~pmu.on /\ usb = DetectOff
        /\ timer.armed = {} \/ vbus.astray
        /\ cpu

\* The power chip gets its interrupt masks back, whichever accesses of the TWI bus
\* failed when they were read and set: but for a mask that was never read, where
\* power_int_rel writes the zero of its buffer (power.c, L4280A3B4), and but for a
\* write of boot_power_int_disable that failed, which nobody repeats.
MasksRestored ==
    Left /\ ~pmu.failed =>
        \A i \in 1 .. MASKS : pmu.masks[i] = "original" \/ pmu.saved[i] = "zero"

\* An armed timer is the one timerHandle names, so that it can be stopped,
\* unless a handler came inside usb_detect_enter or usb_detect_exit of the main
\* program, and works on a timer that is half set up, or went by bits that it
\* could not read.
TimersKnown == timer.armed \subseteq {timer.handle} \/ vbus.astray

\* A detection that was started ends, and no later one is blocked by
\* L4280A408, as long as boot1 has a timer: one that has expired is not given
\* back before the next usb_detect_exit, and lost when the next detection
\* starts before that.
Detected == ~usb.on \/ TIMERS \subseteq timer.requested
DetectionEnds == usb.on ~> Detected

\* The three together: what the detection leaves behind when the main program goes on.
DetectionSafe == QuietWhenLeft /\ MasksRestored /\ TimersKnown
=============================================================================
