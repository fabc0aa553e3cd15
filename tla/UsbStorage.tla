----------------------------- MODULE UsbStorage -----------------------------
(***************************************************************************)
(* The disk that the original boot.axf offers over USB (usb_device.c).     *)
(* The main loop of usb_run polls: the connection, the bus events, the     *)
(* control endpoint, the bulk endpoints.  The interrupt of the controller  *)
(* only counts.  The first bytes of readBuf are used for the request of    *)
(* the control endpoint, for the command and for its status.               *)
(*                                                                         *)
(* Sizes are in packets of 512 bytes.  A packet carries the tag of the     *)
(* command it belongs to.  Every descriptor fits in one packet of the      *)
(* control endpoint.  The private mode is never started and is left out.   *)
(***************************************************************************)
EXTENDS Integers, Sequences

CONSTANTS COMMANDS,      \* commands of the host: operation and packets
          POLLS,         \* polls until a packet is overdue (4096)
          DEBOUNCE,      \* polls until the connection is stable (80)
          MAX_COMMANDS,  \* bound: commands the host gives
          MAX_EVENTS     \* bound: events on the bus and requests besides the enumeration

VARIABLES pc,        \* place in the main loop
          xfer,      \* transferState, xfer states of the endpoints, what is left
          readBuf,   \* the first bytes of readBuf, and the rest of the command
          dataBuf,   \* uparam856, as far as it is filled
          bus,       \* intusb, its copy in a register, uparam40, uparam44, uparam876
          ep0,       \* request in the FIFO, interrupts, uparam592, stage of the host
          fifo,      \* packet in the FIFO of each bulk endpoint
          host,      \* the host and its bounds
          disk,      \* what was written last
          fault      \* what went wrong since the last bus reset

storageVars == <<pc, xfer, readBuf, dataBuf, bus, ep0, fifo, host, disk, fault>>

Nothing == [kind |-> "none"]
Cbw(t, c) == [kind |-> "cbw", tag |-> t, op |-> c.op, n |-> c.n]
Csw(t, s) == [kind |-> "csw", tag |-> t, status |-> s]
Data(t) == [kind |-> "data", tag |-> t]
Copies(n, t) == [i \in 1 .. n |-> Data(t)]

StorageInit ==
    /\ pc = "loop"
    /\ xfer = [state |-> 1, rx |-> 0, tx |-> 0, left |-> 0, send |-> <<>>, irqs |-> 0,
               polls |-> 0, conf |-> FALSE, addr |-> FALSE]
    /\ readBuf = [head |-> "none", tag |-> 0, op |-> "none", n |-> 0]
    /\ dataBuf = <<>>
    /\ bus = [int |-> {}, reg |-> {}, count |-> 0, up |-> FALSE, soft |-> FALSE, timer |-> 0]
    /\ ep0 = [setup |-> "none", count |-> 0, phase |-> 0, stage |-> "idle"]
    /\ fifo = [rx |-> Nothing, tx |-> Nothing]
    /\ host = [phase |-> "off", plug |-> TRUE, tag |-> 0, cmd |-> [op |-> "none", n |-> 0], sent |-> 0,
               got |-> <<>>, status |-> Nothing, events |-> MAX_EVENTS]
    /\ disk = <<>> /\ fault = {}

-----------------------------------------------------------------------------
(* usb_power_polling_dev and usb_bus_irq_handler_dev.                      *)

\* usb_power_polling_dev: the connection has to be stable for a while.
PowerPoll(b) ==
    CASE b.up                             -> b
      [] ~b.up /\ ~host.plug              -> [b EXCEPT !.timer = 0]
      [] ~b.up /\ host.plug /\ b.timer = 0 -> [b EXCEPT !.timer = DEBOUNCE + 1]
      [] ~b.up /\ host.plug /\ b.timer > 1 -> [b EXCEPT !.timer = @ - 1]
      [] ~b.up /\ host.plug /\ b.timer = 1 -> [b EXCEPT !.timer = 0, !.up = TRUE, !.soft = TRUE]

\* The events in the order they are looked at.  Suspend stands for resume too:
\* both only set a flag that nothing reads.
NextEvent(int, from) ==
    LET after(e) == e \in int /\ e \in from
    IN CASE after("suspend") -> "suspend"
         [] ~after("suspend") /\ after("reset") -> "reset"
         [] ~after("suspend") /\ ~after("reset") /\ after("disconnect") -> "disconnect"
         [] OTHER -> "ep0"

AfterEvent(int, e) ==
    NextEvent(int, CASE e = "suspend" -> {"reset", "disconnect"}
                     [] e = "reset" -> {"disconnect"} [] OTHER -> {})

\* The start of the loop, up to the first event, if there is one.
LoopStart ==
    /\ pc = "loop"
    /\ LET b == PowerPoll(bus)
       IN IF b.count = 0 THEN pc' = "ep0" /\ bus' = b
          ELSE /\ pc' = NextEvent(bus.int, bus.int)
               /\ bus' = [b EXCEPT !.count = @ - 1]
    /\ UNCHANGED <<xfer, readBuf, dataBuf, ep0, fifo, host, disk, fault>>

\* The first half of intusb &= ~event.
BusLoad ==
    /\ pc \in {"suspend", "reset", "disconnect"} /\ bus.reg = {}
    /\ bus' = [bus EXCEPT !.reg = bus.int]
    /\ UNCHANGED <<pc, xfer, readBuf, dataBuf, ep0, fifo, host, disk, fault>>

AfterReset(x) == [x EXCEPT !.state = 1, !.rx = 0, !.tx = 0, !.irqs = 0, !.addr = FALSE]

\* The second half: an event that came in between is lost.
BusStore ==
    /\ bus.reg # {}
    /\ LET b == [bus EXCEPT !.int = bus.reg \ {pc}, !.reg = {}]
       IN bus' = CASE pc = "reset"      -> [b EXCEPT !.up = TRUE, !.timer = 0]
                   [] pc = "disconnect" -> [b EXCEPT !.up = FALSE]
                   [] OTHER             -> b
    /\ pc' = AfterEvent(bus'.int, pc)
    /\ xfer' = IF pc = "reset" THEN AfterReset(xfer) ELSE xfer
    /\ fault' = (IF pc = "reset" THEN fault \cap {"stale"} ELSE fault)
                  \cup (IF "reset" \in bus.int \ bus.reg THEN {"lost"} ELSE {})
    /\ UNCHANGED <<readBuf, dataBuf, ep0, fifo, host, disk>>

-----------------------------------------------------------------------------
(* usb_dev_ep0xfer.                                                        *)

\* A request is read: it takes the place of the tag in readBuf.  One with data
\* is answered at once; the other one is carried out at its last interrupt.
Ep0Setup ==
    /\ ep0.count > 0 /\ ep0.setup # "none"
    /\ readBuf' = [readBuf EXCEPT !.head = ep0.setup, !.tag = 0]
    /\ ep0' = [setup |-> "none", count |-> 0,
               phase |-> IF ep0.setup = "get" THEN 1 ELSE 0,
               stage |-> IF ep0.setup = "get" THEN "data" ELSE "status"]
    /\ fault' = fault \cup (IF xfer.state \in {2, 3} /\ ep0.setup = "get" THEN {"control"} ELSE {})
                      \cup (IF ep0.count > 1 /\ ep0.phase = 0 THEN {"skipped"} ELSE {})
    /\ UNCHANGED <<xfer, fifo>>

\* The host, when a request of the enumeration is carried out in time.
BeforeUse(r) == IF r = "address" THEN {"addressed"} ELSE IF r = "config" THEN {} ELSE {"off", "reset", "addressed"}

\* fnL4280722C and fnL42806B14: the request that readBuf holds.
Ep0Done ==
    /\ ep0.count > 0 /\ ep0.setup = "none"
    /\ ep0' = [ep0 EXCEPT !.count = @ - 1]
    /\ xfer' = IF ep0.phase = 1 THEN xfer
               ELSE [xfer EXCEPT !.addr = @ \/ readBuf.head = "address",
                                 !.conf = @ \/ readBuf.head = "config"]
    /\ fifo' = IF ep0.phase = 0 /\ readBuf.head = "config" THEN [rx |-> Nothing, tx |-> Nothing] ELSE fifo
    /\ fault' = IF ep0.phase = 0 /\ host.phase \in {"off", "reset", "addressed"} \ BeforeUse(readBuf.head)
                THEN fault \cup {"stale"} ELSE fault
    /\ UNCHANGED readBuf

Ep0Step ==
    /\ pc = "ep0" /\ pc' = "bulk"
    /\ \/ Ep0Setup \/ Ep0Done
       \/ ep0.count = 0 /\ UNCHANGED <<xfer, readBuf, ep0, fifo, fault>>
    /\ UNCHANGED <<dataBuf, bus, host, disk>>

-----------------------------------------------------------------------------
(* usb_read and usb_transfer.                                              *)

\* As UsbRead, leaving the state of the endpoint behind when all is read.
ReadStays(toRead) ==
    LET left == IF xfer.rx = 0 THEN toRead ELSE xfer.left
        over == xfer.polls + 1 >= POLLS
    IN IF xfer.rx = 1 /\ left = 0 THEN [res |-> 1, take |-> FALSE, x |-> xfer]
       ELSE IF fifo.rx = Nothing
       THEN [res |-> IF over THEN 2 ELSE 0, take |-> FALSE,
             x |-> [xfer EXCEPT !.left = left, !.polls = IF over THEN POLLS ELSE @ + 1]]
       ELSE IF left = 0 THEN [res |-> 1, take |-> TRUE, x |-> [xfer EXCEPT !.left = 0, !.polls = 0]]
       ELSE [res |-> 0, take |-> TRUE, x |-> [xfer EXCEPT !.left = left - 1, !.rx = 1, !.polls = 0]]

\* usb_read of so many full packets, or of less than one.  A read that is not
\* finished goes on where it was, whatever is asked for.
UsbRead(toRead) ==
    LET left == IF xfer.rx = 0 THEN toRead ELSE xfer.left
        over == xfer.polls + 1 >= POLLS
    IN IF xfer.rx = 1 /\ left = 0 THEN [res |-> 1, take |-> FALSE, x |-> [xfer EXCEPT !.rx = 0]]
       ELSE IF fifo.rx = Nothing
       THEN [res |-> IF over THEN 2 ELSE 0, take |-> FALSE,
             x |-> [xfer EXCEPT !.left = left, !.polls = IF over THEN POLLS ELSE @ + 1]]
       ELSE IF left = 0 THEN [res |-> 1, take |-> TRUE, x |-> [xfer EXCEPT !.left = 0, !.polls = 0]]
       ELSE [res |-> 0, take |-> TRUE, x |-> [xfer EXCEPT !.left = left - 1, !.rx = 1, !.polls = 0]]

\* The packets that a read has put into uparam856.
Received(r) ==
    IF ~r.take \/ r.res = 1 THEN (IF r.take THEN <<>> ELSE dataBuf)
    ELSE IF xfer.rx = 0 THEN <<fifo.rx>> ELSE Append(dataBuf, fifo.rx)

\* The first call of usb_transfer; short when less than a packet is sent.
StartSend(x, packets, short) ==
    [x EXCEPT !.tx = IF short THEN 2 ELSE 1, !.send = Tail(packets)]

\* The later calls: the transfer is over when the host took the last packet.
Sending == xfer.tx = 1 /\ xfer.send # <<>> /\ fifo.tx = Nothing
SentAll == xfer.tx = 2 /\ fifo.tx = Nothing

\* The status takes the place of the command's first bytes.
Answer(x, rxFifo, status) ==
    LET csw == Csw(readBuf.tag, status)
    IN /\ readBuf' = [readBuf EXCEPT !.head = "csw"]
       /\ xfer' = [StartSend(x, <<csw>>, TRUE) EXCEPT !.state = 4]
       /\ fifo' = [rx |-> rxFifo, tx |-> csw]

-----------------------------------------------------------------------------
(* usb_dev_bulk_xfer.                                                      *)

BulkEnds == pc' = "loop"

\* No command yet, or a packet that is none.
NoCommand ==
    /\ pc = "bulk" /\ xfer.state = 1
    /\ IF xfer.irqs = 0 THEN BulkEnds /\ UNCHANGED <<xfer, fifo>>
       ELSE /\ xfer' = [xfer EXCEPT !.irqs = @ - 1]
            /\ IF fifo.rx.kind = "cbw" THEN pc' = "command" /\ UNCHANGED fifo
               ELSE BulkEnds /\ fifo' = [fifo EXCEPT !.rx = Nothing]
    /\ UNCHANGED <<readBuf, dataBuf, bus, ep0, host, disk, fault>>

\* A poll for the command.  When a read of data was given up before, it is
\* that read which takes the packet.
ReadCommand ==
    /\ pc = "command"
    /\ LET r == UsbRead(0)
       IN /\ xfer' = r.x
          /\ fifo' = IF r.take THEN [fifo EXCEPT !.rx = Nothing] ELSE fifo
          /\ readBuf' = IF r.take /\ r.res = 1
                        THEN [head |-> "cbw", tag |-> fifo.rx.tag, op |-> fifo.rx.op, n |-> fifo.rx.n]
                        ELSE readBuf
          /\ dataBuf' = IF r.res = 1 THEN dataBuf ELSE Received(r)
          /\ pc' = CASE r.res = 0 -> pc [] r.res = 1 -> "execute" [] r.res = 2 -> "loop"
          /\ fault' = IF r.res = 2 THEN fault \cup {"timeout"} ELSE fault
    /\ UNCHANGED <<bus, ep0, host, disk>>

\* TEST UNIT READY, ALLOW MEDIUM REMOVAL and VERIFY.
NoData == readBuf.op = "plain" /\ Answer(xfer, fifo.rx, 0) /\ UNCHANGED <<dataBuf, fault>>

Send(packets, short) ==
    /\ xfer' = [StartSend(xfer, packets, short) EXCEPT !.state = 3]
    /\ fifo' = [fifo EXCEPT !.tx = Head(packets)]

\* INQUIRY, the capacities, MODE SENSE and REQUEST SENSE.
ShortData ==
    /\ readBuf.op = "short" /\ Send(<<Data(readBuf.tag)>>, TRUE)
    /\ UNCHANGED <<readBuf, dataBuf, fault>>

Read10 ==
    /\ readBuf.op = "read"
    /\ \/ Answer(xfer, fifo.rx, 1) /\ UNCHANGED <<dataBuf, fault>>
       \/ /\ dataBuf' = Copies(readBuf.n, readBuf.tag)
          /\ IF readBuf.n = 0 THEN Send(<<[Data(readBuf.tag) EXCEPT !.kind = "empty"]>>, TRUE)
             ELSE Send(dataBuf', FALSE)
          /\ UNCHANGED <<readBuf, fault>>

\* As Stored, without a look at the result of svc_diskwrite.
StoredBlind(x, rxFifo, data) == disk' \in {disk, data} /\ Answer(x, rxFifo, 0)

\* svc_diskwrite of the data that is complete, and the status.
Stored(x, rxFifo, data) ==
    \/ disk' = data /\ Answer(x, rxFifo, 0)
    \/ Answer(x, rxFifo, 1) /\ UNCHANGED disk

\* A call of usb_read for the data of a command.
ReceiveData ==
    LET r == UsbRead(readBuf.n)
        rxFifo == IF r.take THEN Nothing ELSE fifo.rx
    IN /\ dataBuf' = Received(r)
       /\ CASE r.res = 1 -> Stored(r.x, rxFifo, dataBuf') /\ UNCHANGED fault
            [] r.res = 0 -> /\ xfer' = [r.x EXCEPT !.state = 2] /\ fifo' = [fifo EXCEPT !.rx = rxFifo]
                            /\ UNCHANGED <<readBuf, disk, fault>>
            [] r.res = 2 -> /\ xfer' = [r.x EXCEPT !.state = 1] /\ fault' = fault \cup {"timeout"}
                            /\ UNCHANGED <<readBuf, disk, fifo>>

\* A command with the signature of one; an unknown one gets no answer.
Execute ==
    /\ pc = "execute" /\ BulkEnds
    /\ IF readBuf.head # "cbw" \/ readBuf.op = "unknown"
       THEN UNCHANGED <<xfer, readBuf, dataBuf, fifo, disk, fault>>
       ELSE \/ (NoData \/ ShortData \/ Read10) /\ UNCHANGED disk
            \/ readBuf.op = "write" /\ ReceiveData
    /\ UNCHANGED <<bus, ep0, host>>

Receive ==
    /\ pc = "bulk" /\ xfer.state = 2 /\ BulkEnds /\ ReceiveData
    /\ UNCHANGED <<bus, ep0, host>>

\* A call of usb_transfer for the data or for the status.
SendOn ==
    IF SentAll
    THEN IF xfer.state = 3 THEN Answer([xfer EXCEPT !.tx = 0], fifo.rx, 0)
         ELSE xfer' = [xfer EXCEPT !.state = 1, !.tx = 0] /\ UNCHANGED <<readBuf, fifo>>
    ELSE IF Sending
    THEN /\ xfer' = [xfer EXCEPT !.send = Tail(@)] /\ fifo' = [fifo EXCEPT !.tx = Head(xfer.send)]
         /\ UNCHANGED readBuf
    ELSE /\ xfer' = IF xfer.tx = 1 /\ fifo.tx = Nothing THEN [xfer EXCEPT !.tx = 2] ELSE xfer
         /\ UNCHANGED <<readBuf, fifo>>

Transmit ==
    /\ pc = "bulk" /\ xfer.state \in {3, 4} /\ BulkEnds /\ SendOn
    /\ UNCHANGED <<dataBuf, bus, ep0, host, disk, fault>>

\* usb_run leaves the loop when a key is pressed.
KeyPressed ==
    /\ pc = "loop" /\ pc' = "left"
    /\ UNCHANGED <<xfer, readBuf, dataBuf, bus, ep0, fifo, host, disk, fault>>

LoopStep ==
    \/ LoopStart \/ BusLoad \/ BusStore \/ Ep0Step \/ NoCommand \/ ReadCommand
    \/ Execute \/ Receive \/ Transmit

-----------------------------------------------------------------------------
(* The host and usb_irq_handler.                                           *)

Event(e) == bus' = [bus EXCEPT !.int = @ \cup {e}, !.count = @ + 1]

\* The controller empties its FIFOs and forgets its address and endpoints.
BusReset ==
    /\ Event("reset")
    /\ fifo' = [rx |-> Nothing, tx |-> Nothing]
    /\ ep0' = [ep0 EXCEPT !.setup = "none", !.stage = "idle"]
    /\ xfer' = [xfer EXCEPT !.addr = FALSE, !.conf = FALSE]
    /\ host' = [host EXCEPT !.phase = "reset", !.events = IF host.phase = "off" THEN @ ELSE @ - 1]
    /\ UNCHANGED <<pc, readBuf, dataBuf, disk, fault>>

HostAttaches == host.phase = "off" /\ host.plug /\ bus.soft /\ BusReset
HostResets == host.phase # "off" /\ host.events > 0 /\ BusReset

BusEvent(e) ==
    /\ host.phase # "off" /\ host.events > 0 /\ Event(e)
    /\ host' = IF e = "disconnect" THEN [host EXCEPT !.events = @ - 1, !.phase = "off", !.plug = FALSE]
               ELSE [host EXCEPT !.events = @ - 1]
    /\ ep0' = IF e = "disconnect" THEN [ep0 EXCEPT !.setup = "none", !.stage = "idle"] ELSE ep0
    /\ UNCHANGED <<pc, xfer, readBuf, dataBuf, fifo, disk, fault>>

HostPlugs ==
    /\ ~host.plug /\ host' = [host EXCEPT !.plug = TRUE]
    /\ UNCHANGED <<pc, xfer, readBuf, dataBuf, bus, ep0, fifo, disk, fault>>

\* A request: those of the enumeration in their order, others at any time.  The
\* host waits for a new address to be in use.
HostSetup(r) ==
    /\ ep0.stage = "idle" /\ ep0.setup = "none"
    /\ CASE r = "address" -> host.phase = "reset" /\ ~xfer.addr
         [] r = "config"  -> host.phase = "addressed" /\ xfer.addr
         [] r = "get"     -> host.phase \notin {"off", "reset"} /\ xfer.addr /\ host.events > 0
    /\ ep0' = [ep0 EXCEPT !.setup = r, !.count = @ + 1, !.stage = "sent"]
    /\ host' = IF r = "get" THEN [host EXCEPT !.events = @ - 1] ELSE host
    /\ UNCHANGED <<pc, xfer, readBuf, dataBuf, bus, fifo, disk, fault>>

\* The last stage of a request.
HostSetupEnds ==
    /\ ep0.stage \in {"data", "status"}
    /\ ep0' = [ep0 EXCEPT !.count = @ + 1, !.stage = "idle"]
    /\ host' = IF ep0.stage = "data" THEN host
               ELSE [host EXCEPT !.phase = CASE @ = "reset" -> "addressed" [] @ = "addressed" -> "ready"]
    /\ UNCHANGED <<pc, xfer, readBuf, dataBuf, bus, fifo, disk, fault>>

Arrives(p) ==
    /\ fifo.rx = Nothing /\ fifo' = [fifo EXCEPT !.rx = p]
    /\ xfer' = [xfer EXCEPT !.irqs = @ + 1]

HostCommands(c) ==
    /\ host.phase \in {"ready", "done"} /\ xfer.conf /\ host.tag < MAX_COMMANDS
    /\ Arrives(Cbw(host.tag + 1, c))
    /\ host' = [host EXCEPT !.tag = @ + 1, !.cmd = c, !.sent = 0, !.got = <<>>,
                  !.phase = CASE c.op = "write" /\ c.n > 0   -> "out"
                              [] c.op \in {"read", "short"} -> "in"
                              [] OTHER                      -> "status"]
    /\ UNCHANGED <<pc, readBuf, dataBuf, bus, ep0, disk, fault>>

HostSends ==
    /\ host.phase = "out" /\ Arrives(Data(host.tag))
    /\ host' = [host EXCEPT !.sent = @ + 1, !.phase = IF host.sent + 1 = host.cmd.n THEN "status" ELSE @]
    /\ UNCHANGED <<pc, readBuf, dataBuf, bus, ep0, disk, fault>>

\* A status of 13 bytes in place of the data is taken for the status.
HostReads ==
    /\ host.phase \in {"in", "status"} /\ fifo.tx # Nothing
    /\ fifo' = [fifo EXCEPT !.tx = Nothing]
    /\ LET p == fifo.tx
           got == IF p.kind = "data" THEN Append(host.got, p) ELSE host.got
       IN host' = CASE p.kind = "csw" ->
                         [host EXCEPT !.status = p, !.phase = IF p.tag = host.tag THEN "done" ELSE "failed"]
                    [] p.kind # "csw" /\ host.phase = "status" -> [host EXCEPT !.phase = "failed"]
                    [] p.kind # "csw" /\ host.phase = "in" ->
                         [host EXCEPT !.got = got,
                            !.phase = IF p.kind = "empty" \/ host.cmd.op = "short" \/ Len(got) = host.cmd.n
                                      THEN "status" ELSE @]
    /\ UNCHANGED <<pc, xfer, readBuf, dataBuf, bus, ep0, disk, fault>>

HostStep == HostSends \/ HostReads \/ HostSetupEnds

StorageNext ==
    \/ LoopStep \/ KeyPressed
    \/ /\ pc # "left"
       /\ \/ HostStep \/ HostAttaches \/ HostResets \/ HostPlugs
          \/ \E e \in {"suspend", "disconnect"} : BusEvent(e)
          \/ \E r \in {"get", "address", "config"} : HostSetup(r)
          \/ \E c \in COMMANDS : HostCommands(c)

-----------------------------------------------------------------------------
(* Properties.                                                             *)

\* A good status with the tag of the command means that its data has moved:
\* what was written is on the disk, what was read reached the host
\* (usb_dev_bulk_xfer, transferState 2 and 3).
OkMeansMoved ==
    host.phase = "done" /\ host.status.status = 0 =>
        CASE host.cmd.op = "write" -> disk = Copies(host.cmd.n, host.tag)
          [] host.cmd.op = "read"  -> host.got = Copies(host.cmd.n, host.tag)
          [] host.cmd.op = "short" -> host.got = Copies(1, host.tag)
          [] OTHER                 -> TRUE

\* The status of a command has its tag, and nothing is sent that belongs to a
\* command before the last bus reset, unless a request was read during the
\* transfer of data, which overwrites the tag, a read was given up, or a reset
\* was lost between the halves of intusb &= ~event.
TagsMatch == host.phase = "failed" => fault # {} \/ "reset" \in bus.int

\* A command that the program knows is answered if nothing goes wrong after
\* the last bus reset; in particular, a transfer that was given up before the
\* reset leaves nothing behind.  A write of no blocks waits for a packet.
Waiting == host.phase \in {"out", "in", "status"}
Known == host.cmd.op # "unknown" /\ host.cmd # [op |-> "write", n |-> 0]

Answered == (Waiting /\ Known) ~> (~Waiting \/ fault # {} \/ pc = "left")

\* Both together: a status belongs to its command and is true.
StatusTrue == OkMeansMoved /\ TagsMatch
=============================================================================
