------------------------------ MODULE DiskBoot ------------------------------
(***************************************************************************)
(* The command protocol between the allwindisk tool and the diskboot       *)
(* program on the tablet (allwindisk/usbcomm.c and allwindisk.c; arm/main.c *)
(* and the polling part of arm/usbdcomm.c).                                *)
(*                                                                         *)
(* A tool run sends commands: a header, then its data, then it waits for   *)
(* the response header and the response data.  The device has one thread:  *)
(* it polls the USB controller, defers received packets to the next        *)
(* start-of-frame and handles them one at a time; while it sends a         *)
(* response it waits for the host and polls nothing.  The operating system *)
(* of the host uses a second pair of endpoints for the mass storage volume.*)
(*                                                                         *)
(* Data is counted in units: a header has the size of one, a full packet   *)
(* has PKT.  A unit is named by the command it belongs to and its place;   *)
(* place 0 is the header itself.                                           *)
(***************************************************************************)
EXTENDS Integers, Sequences, FiniteSets

CONSTANTS
    PKT,         \* bulk_ep_size
    FIFO,        \* packets that an OUT endpoint buffers (double buffering: 2)
    Programs,    \* the command sequences of tool runs
    Interrupts,  \* whether "kill" and "reset" may hit a tool run in a command
    MaxRuns, MaxMisc, MaxStorage    \* bounds: tool runs, bus events, mass storage packets

ASSUME PacketAssumption == PKT \in Nat \ {0, 1} /\ FIFO \in Nat \ {0}
\* BCMD_*, as the tool names them in what it does.
Names == {"ping", "params", "memread", "exec", "read", "write", "memwrite", "mount", "status", "check", "exit", "jump"}

\* Before a tool run ends diskboot it asks whether a volume is mounted
\* (checkIsMounted), and it mounts none in between.
ASSUME ProgramsAssumption ==
    /\ \E p \in Programs : p # <<>>
    /\ \A p \in Programs :
          /\ p \in Seq([cmd : Names, out : Nat, in : Nat])
          /\ \A i \in DOMAIN p : p[i].cmd = "check" => p[i].in # 0
          /\ \A i \in DOMAIN p : p[i].cmd \in {"exit", "jump"} =>
                \E j \in 1 .. i - 1 : p[j].cmd = "check" /\ \A k \in j + 1 .. i - 1 : p[k].cmd # "mount"
ASSUME InterruptsAssumption == Interrupts \subseteq {"kill", "reset"}

EP == {"cmd", "storage"}    \* BULK_OUT_EP_INDEX, MASSTORAGE_OUT_EP_INDEX

VARIABLES
    host,      \* the tool run: what it does, its commands, the one under way
    acked,     \* the disk contents a tool run has been told are written
    nextId,    \* number of the next command
    out,       \* packets in the OUT endpoints of the device
    inF,       \* the packet in the IN endpoint, or none
    irq,       \* endpoints with a pending receive interrupt
    misc,      \* pending reset, suspend, resume or disconnect interrupt
    dpc,       \* where usbdcomm_poll and main_loop are
    snap,      \* rx_irq as usbdcomm_poll has read it
    deferred,  \* deferred_rx
    cur,       \* cur_cmd; cmd is "none" for BCMD_NONE
    got,       \* transfer_buffer up to cur_cmd_bytes_written
    tx,        \* packets of the response still to be sent
    exit,      \* board_exit and exitaddr_jumpto: "no", "fel" or "other"
    mounted,   \* a volume is exposed as mass storage
    dirty,     \* written data that is not on the flash: "no", "cached" (it is in the page
               \* cache only) or "lost" (NAND_Exit could not write it)
    stored,    \* contents of the disk writes that have been flushed
    count

device == <<dpc, snap, deferred, cur, got, tx, exit, mounted, dirty>>
usb == <<out, inF, irq, misc>>
diskBootVars == <<host, acked, nextId, usb, device, stored, count>>

NoCmd == [cmd |-> "none", out |-> 0, in |-> 0, id |-> 0]
NoRun == [pc |-> "idle", todo |-> <<>>, cmd |-> NoCmd, n |-> 0, answer |-> 0]

\* The data of a command, and the packets a transfer is cut into.
Payload(c) == [k \in 1 .. c.out |-> [id |-> c.id, k |-> k]]
Least(a, b) == IF a < b THEN a ELSE b
Slice(s, from, n) == SubSeq(s, from + 1, from + n)

-----------------------------------------------------------------------------
(* The tool.  Its commands, as the device commands they send; sizes of disk   *)
(* and memory areas in units.                                               *)

Cmd(c, n, m) == [cmd |-> c, out |-> n, in |-> m]
PieceSizes(n, max) == [i \in 1 .. (n + max - 1) \div max |-> Least(max, n - (i - 1) * max)]

\* get_flashmem_props; for a partition of the logical disk the MBR is read, too.
get_flashmem_props == <<Cmd("params", 0, 1)>>
getPartitionData == <<Cmd("read", 0, 1)>>
getParitionParams(named) == get_flashmem_props \o IF named THEN getPartitionData ELSE <<>>
checkIsMounted == <<Cmd("check", 0, 1)>>
read_disk(n, max) == [i \in DOMAIN PieceSizes(n, max) |-> Cmd("read", 0, PieceSizes(n, max)[i])]
write_disk(n, max) == [i \in DOMAIN PieceSizes(n, max) |-> Cmd("write", PieceSizes(n, max)[i], 0)]
mem_write(n, max) == [i \in DOMAIN PieceSizes(n, max) |-> Cmd("memwrite", PieceSizes(n, max)[i], 0)]

cmd_ping == <<Cmd("ping", 0, 0)>>
cmd_diskread(named, n, max) == getParitionParams(named) \o read_disk(n, max)
\* A file that is larger than the partition is cut.
cmd_diskwrite(named, n, partSize, max) == getParitionParams(named) \o write_disk(Least(n, partSize), max)
cmd_partitions == get_flashmem_props \o <<Cmd("status", 0, 1)>> \o getPartitionData
cmd_board_exit == checkIsMounted \o <<Cmd("exit", 0, 2)>>
cmd_memread(n, max) == [i \in DOMAIN PieceSizes(n, max) |-> Cmd("memread", 0, PieceSizes(n, max)[i])]
cmd_memwrexec(cmd, n, max) == (IF cmd = "jump" THEN checkIsMounted ELSE <<>>) \o mem_write(n, max)
                              \o IF cmd = "none" THEN <<>> ELSE <<Cmd(cmd, 0, 0)>>
cmd_exposepart == getParitionParams(TRUE) \o <<Cmd("mount", 0, 0)>>

DeviceThere == dpc # "left" /\ "disconnect" \notin misc

\* main: the commands of one run.
\* usbcomm_init opens the device, or loads diskboot through FEL first.
StartRun ==
    /\ host.pc = "idle"
    /\ count.runs < MaxRuns
    /\ count' = [count EXCEPT !.runs = @ + 1]
    /\ DeviceThere \/ (dpc = "left" /\ exit # "other")
    /\ \E p \in Programs : host' = [NoRun EXCEPT !.pc = "next", !.todo = p]
    /\ IF dpc # "left" THEN UNCHANGED <<usb, device>>
       ELSE /\ out' = [e \in EP |-> <<>>] /\ inF' = <<>> /\ irq' = {} /\ misc' = {}
            /\ dpc' = "poll" /\ snap' = {} /\ deferred' = {}
            /\ cur' = NoCmd /\ got' = <<>> /\ tx' = <<>>
            /\ exit' = "no" /\ mounted' = FALSE /\ dirty' = "no"
    /\ UNCHANGED <<acked, nextId, stored>>

EndRun == host' = NoRun

\* The next send_command of the run, or the end of the run.
NextCommand ==
    /\ host.pc = "next"
    /\ IF host.todo = <<>>
       THEN EndRun /\ UNCHANGED nextId
       ELSE LET c == Head(host.todo) IN
            /\ host' = [host EXCEPT !.pc = "header", !.todo = Tail(@), !.n = 0, !.answer = 0,
                                    !.cmd = [cmd |-> c.cmd, out |-> c.out, in |-> c.in, id |-> nextId]]
            /\ nextId' = nextId + 1
    /\ UNCHANGED <<acked, usb, device, stored, count>>

\* A packet reaches an OUT endpoint.  The receive interrupt is raised when the
\* packet can be read, that is when no other one is before it.  After a bus reset
\* the device must answer control requests before it gets packets again.
Arrives(e, packet) ==
    /\ DeviceThere
    /\ "reset" \notin misc
    /\ Len(out[e]) < FIFO
    /\ out' = [out EXCEPT ![e] = Append(@, packet)]
    /\ irq' = IF out[e] = <<>> THEN irq \union {e} ELSE irq
    /\ UNCHANGED <<inF, misc>>

SendHeader ==
    /\ host.pc = "header"
    /\ Arrives("cmd", [units |-> <<[id |-> host.cmd.id, k |-> 0]>>, cmd |-> host.cmd])
    /\ host' = [host EXCEPT !.pc = IF host.cmd.out > 0 THEN "data" ELSE "response"]
    /\ UNCHANGED <<acked, nextId, device, stored, count>>

SendData ==
    /\ host.pc = "data"
    /\ LET size == Least(PKT, host.cmd.out - host.n) IN
       /\ Arrives("cmd", [units |-> Slice(Payload(host.cmd), host.n, size), cmd |-> NoCmd])
       /\ host' = [host EXCEPT !.n = @ + size,
                               !.pc = IF host.n + size = host.cmd.out THEN "response" ELSE "data"]
    /\ UNCHANGED <<acked, nextId, device, stored, count>>

\* The response header.  A packet of another size ends the run, and so do
\* BRST_FAIL and a data size other than the expected one.
ReadResponse ==
    /\ host.pc = "response"
    /\ DeviceThere
    /\ inF # <<>>
    /\ LET r == inF[1] IN
       IF r.kind # "header" \/ r.status = "fail" \/ (r.size # host.cmd.in /\ host.cmd.cmd # "exit")
       THEN EndRun /\ UNCHANGED acked
       ELSE /\ host' = [host EXCEPT !.pc = IF r.size > 0 THEN "respdata" ELSE "next", !.n = r.size, !.answer = r.id]
            /\ acked' = IF host.cmd.cmd = "write" THEN acked \union {Payload(host.cmd)} ELSE acked
    /\ inF' = <<>>
    /\ UNCHANGED <<nextId, out, irq, misc, device, stored, count>>

\* get_response_data; a run that has to leave the volume alone stops when the
\* mount status says that it is in use (checkIsMounted).
StopsIfMounted(r) == host.cmd.cmd = "check" /\ r.mounted
ReadResponseData ==
    /\ host.pc = "respdata"
    /\ DeviceThere
    /\ inF # <<>>
    /\ LET r == inF[1] IN
       IF r.size > host.n THEN EndRun
       ELSE host' = [host EXCEPT !.n = @ - r.size,
                                 !.todo = IF StopsIfMounted(r) THEN <<>> ELSE @,
                                 !.pc = IF host.n = r.size THEN "next" ELSE "respdata"]
    /\ inF' = <<>>
    /\ UNCHANGED <<acked, nextId, out, irq, misc, device, stored, count>>

\* A transfer fails since the device has gone.
TransferFails ==
    /\ host.pc \in {"header", "data", "response", "respdata"}
    /\ ~DeviceThere
    /\ EndRun
    /\ UNCHANGED <<acked, nextId, usb, device, stored, count>>

-----------------------------------------------------------------------------
(* The bus and the operating system of the host.                            *)

\* A tool run is interrupted by the user: between two commands, or anywhere.
Kill ==
    /\ host.pc \in {"next", "header"} \/ (host.pc # "idle" /\ "kill" \in Interrupts)
    /\ EndRun
    /\ UNCHANGED <<acked, nextId, usb, device, stored, count>>

\* The controller drops its packets on a bus reset, and transfers under way fail.
BusReset ==
    /\ host.pc \in {"idle", "next"} \/ "reset" \in Interrupts
    /\ DeviceThere
    /\ count.misc < MaxMisc
    /\ count' = [count EXCEPT !.misc = @ + 1]
    /\ misc' = misc \union {"reset"}
    /\ out' = [e \in EP |-> <<>>]
    /\ inF' = <<>>
    /\ EndRun
    /\ UNCHANGED <<acked, nextId, irq, device, stored>>

\* Suspend, resume, disconnect; "badreq" is a control request that usbdcomm_poll_h
\* does not know.
BusEvent ==
    /\ DeviceThere
    /\ count.misc < MaxMisc
    /\ count' = [count EXCEPT !.misc = @ + 1]
    /\ \E e \in {"suspend", "resume", "disconnect", "badreq"} : misc' = misc \union {e}
    /\ UNCHANGED <<host, acked, nextId, out, inF, irq, device, stored>>

\* A mass storage command, in one packet: a write or an eject.
StoragePacket ==
    /\ mounted
    /\ count.storage < MaxStorage
    /\ count' = [count EXCEPT !.storage = @ + 1]
    /\ \E c \in {"write", "eject"} : Arrives("storage", [units |-> <<>>, cmd |-> [NoCmd EXCEPT !.cmd = c]])
    /\ UNCHANGED <<host, acked, nextId, device, stored>>

-----------------------------------------------------------------------------
(* usbdcomm_poll.                                                           *)

\* RESET returns before anything else is done; deferred_rx and the command stay.
PollReset ==
    /\ dpc = "poll"
    /\ "reset" \in misc
    /\ misc' = {}
    /\ irq' = {}
    /\ dpc' = "polled"
    /\ UNCHANGED <<host, acked, nextId, out, inF, snap, deferred, cur, got, tx, exit, mounted, dirty, stored, count>>

\* RESUME and SUSPEND return as well, RESUME after usbdcomm_poll_h.
PollIdle ==
    /\ dpc = "poll"
    /\ "reset" \notin misc
    /\ LET e == IF "resume" \in misc THEN "resume" ELSE "suspend" IN
       /\ e \in misc
       /\ misc' = IF e = "resume" THEN misc \ {"resume", "badreq"} ELSE misc \ {e}
       /\ dpc' = IF e = "resume" /\ "badreq" \in misc THEN "leave" ELSE "polled"
    /\ UNCHANGED <<host, acked, nextId, out, inF, irq, snap, deferred, cur, got, tx, exit, mounted, dirty, stored, count>>

\* DISCONNECT, and USBDCOMM_ERROR from usbdcomm_poll_h: main_loop ends.
PollFails ==
    /\ dpc = "poll"
    /\ misc \intersect {"reset", "resume", "suspend"} = {}
    /\ misc # {}
    /\ misc' = IF "disconnect" \in misc THEN misc ELSE {}
    /\ dpc' = "leave"
    /\ UNCHANGED <<host, acked, nextId, out, inF, irq, snap, deferred, cur, got, tx, exit, mounted, dirty, stored, count>>

\* The interrupt registers are read; with SOF the deferred packets are handled.
PollFrame ==
    /\ dpc = "poll"
    /\ misc = {}
    /\ snap' = irq
    /\ dpc' = "rxcmd"
    /\ UNCHANGED <<host, acked, nextId, usb, deferred, cur, got, tx, exit, mounted, dirty, stored, count>>

PollNoFrame ==
    /\ dpc = "poll"
    /\ misc = {}
    /\ snap' = irq
    /\ dpc' = "defer"
    /\ UNCHANGED <<host, acked, nextId, usb, deferred, cur, got, tx, exit, mounted, dirty, stored, count>>

\* The packet is taken out of the endpoint: if there is another one behind it, it
\* can be read now.
Unload(e) ==
    /\ out' = [out EXCEPT ![e] = Tail(@)]
    /\ irq' = IF Len(out[e]) > 1 THEN irq \union {e} ELSE irq
    /\ UNCHANGED <<inF, misc>>

\* Mutant: every pending receive interrupt is cleared, not only those that were seen.
ClearsAll ==
    /\ dpc = "defer"
    /\ irq' = {}
    /\ deferred' = deferred \union snap
    /\ dpc' = "polled"
    /\ UNCHANGED <<host, acked, nextId, out, inF, misc, snap, cur, got, tx, exit, mounted, dirty, stored, count>>

\* The receive interrupts that were seen are cleared; their packets wait for SOF.
Defer ==
    /\ dpc = "defer"
    /\ irq' = irq \ snap
    /\ deferred' = deferred \union snap
    /\ dpc' = "polled"
    /\ UNCHANGED <<host, acked, nextId, out, inF, misc, snap, cur, got, tx, exit, mounted, dirty, stored, count>>

\* main_loop goes on, or leaves.
Polled ==
    /\ dpc = "polled"
    /\ dpc' = IF exit # "no" THEN "leave" ELSE "poll"
    /\ UNCHANGED <<host, acked, nextId, usb, snap, deferred, cur, got, tx, exit, mounted, dirty, stored, count>>

\* Mutant: main_loop does not call NAND_Exit after an error.
LeaveDirty ==
    /\ dpc = "leave"
    /\ dirty' = IF exit = "no" THEN dirty ELSE "no"
    /\ cur' = NoCmd
    /\ deferred' = {}
    /\ dpc' = "left"
    /\ UNCHANGED <<host, acked, nextId, usb, snap, got, tx, exit, mounted, stored, count>>

\* NAND_Exit writes the page cache and the tables, usbdcomm_shutdown disconnects,
\* and the jump is made: to FEL, if nothing else was asked for.  The flush of the page
\* cache may fail: LML_Exit goes on without its data (logic_ctl.c:1410), and
\* main_loop looks at no result of NAND_Exit either.
Leave ==
    /\ dpc = "leave"
    /\ \/ dirty' = "no"
       \/ dirty # "no" /\ dirty' = "lost"
    /\ cur' = NoCmd
    /\ deferred' = {}
    /\ dpc' = "left"
    /\ UNCHANGED <<host, acked, nextId, usb, snap, got, tx, exit, mounted, stored, count>>

-----------------------------------------------------------------------------
(* The command layer of the device.                                         *)

\* A response: the header and the data in packets.
Response(c, status, size) ==
    <<[kind |-> "header", id |-> c.id, status |-> status, size |-> size, mounted |-> FALSE]>>
    \o [i \in 1 .. (size + PKT - 1) \div PKT |->
           [kind |-> "data", id |-> c.id, status |-> status, size |-> Least(PKT, size - (i - 1) * PKT),
            mounted |-> mounted]]

\* Mutant: the break after the case of BCMD_DISKWRITE is missing, BCMD_MEMREAD follows.
AnswersTwice(c) ==
    Response(c, "ok", c.in) \o IF c.cmd = "write" THEN Response(c, "ok", 0) ELSE <<>>
Answer(c) == Response(c, "ok", c.in)

\* Mutant: LML_FlushPageCache is not called.
WriteUnflushed(buf) == stored' = stored /\ dirty' = "cached"

\* LML_Write and LML_FlushPageCache.
DiskWrite(buf) == stored' = stored \union {buf} /\ dirty' = "no"

\* dispatch_cmd.  A disk operation or a mount may fail.
MayFail == {"read", "write", "mount"}
dispatch_cmd(c, buf) ==
    /\ dpc' = "tx"
    /\ \/ /\ c.cmd # "none" /\ ~(c.cmd = "mount" /\ mounted)
          /\ tx' = Answer(c)
          /\ exit' = CASE c.cmd = "exit" -> "fel" [] c.cmd = "jump" -> "other" [] OTHER -> exit
          /\ mounted' = (mounted \/ c.cmd = "mount")
          /\ IF c.cmd = "write" THEN DiskWrite(buf) ELSE UNCHANGED <<stored, dirty>>
       \/ /\ c.cmd \in MayFail
          /\ tx' = Response(c, "fail", 0)
          /\ dirty' = IF c.cmd = "write" THEN "cached" ELSE dirty
          /\ UNCHANGED <<exit, mounted, stored>>

\* Mutant: cur_cmd_bytes_written is not set to 0.
GotAfterHeaderKept == got
GotAfterHeader == <<>>

CopyBehind(data) == got \o data

\* diskboot_rx_handler: a packet is a header when no command is under way, and
\* data otherwise.  A wrong magic leaves what was received in cur_cmd.
Received(pk) ==
    LET size == Len(pk.units)
        toWrite == cur.out - Len(got)
        taken == IF toWrite < 0 \/ size <= toWrite THEN size ELSE toWrite
    IN  CASE cur.cmd = "none" /\ size # 1 -> {[cur |-> cur, got |-> got, whole |-> FALSE]}
          [] cur.cmd = "none" /\ size = 1 /\ pk.units[1].k # 0 ->
                {[cur |-> [NoCmd EXCEPT !.cmd = c, !.out = n], got |-> got, whole |-> FALSE] :
                    c \in {"none", "write"}, n \in 0 .. PKT}
          [] cur.cmd = "none" /\ size = 1 /\ pk.units[1].k = 0 ->
                {[cur |-> pk.cmd, got |-> GotAfterHeader, whole |-> Len(GotAfterHeader) = pk.cmd.out]}
          [] OTHER -> LET all == CopyBehind(Slice(pk.units, 0, taken))
                      IN  {[cur |-> cur, got |-> all, whole |-> Len(all) = cur.out]}

\* usbdcomm_rx, when the packet of the command endpoint has been deferred to now.
RxCommand ==
    /\ dpc = "rxcmd"
    /\ "cmd" \in deferred
    /\ out["cmd"] # <<>>
    /\ Unload("cmd")
    /\ \E r \in Received(Head(out["cmd"])) :
          /\ cur' = r.cur
          /\ got' = r.got
          /\ IF r.whole THEN dispatch_cmd(r.cur, r.got) /\ UNCHANGED deferred
             ELSE /\ dpc' = "rxstorage"
                  /\ deferred' = deferred \ {"cmd"}
                  /\ UNCHANGED <<tx, exit, mounted, dirty, stored>>
    /\ UNCHANGED <<host, acked, nextId, snap, count>>

NoCommand ==
    /\ dpc = "rxcmd"
    /\ "cmd" \notin deferred \/ out["cmd"] = <<>>
    /\ deferred' = deferred \ {"cmd"}
    /\ dpc' = "rxstorage"
    /\ UNCHANGED <<host, acked, nextId, usb, snap, cur, got, tx, exit, mounted, dirty, stored, count>>

\* usbdcomm_diskboot_tx: it waits until the host has taken the packet.
SendPacket ==
    /\ dpc = "tx"
    /\ tx # <<>>
    /\ inF = <<>>
    /\ inF' = <<Head(tx)>>
    /\ tx' = Tail(tx)
    /\ UNCHANGED <<host, acked, nextId, out, irq, misc, dpc, snap, deferred, cur, got, exit, mounted, dirty, stored, count>>

Answered ==
    /\ dpc = "tx"
    /\ tx = <<>>
    /\ inF = <<>>
    /\ cur' = NoCmd
    /\ deferred' = deferred \ {"cmd"}
    /\ dpc' = "rxstorage"
    /\ UNCHANGED <<host, acked, nextId, usb, snap, got, tx, exit, mounted, dirty, stored, count>>

\* masstorage_rx: a write leaves data in the page cache, an eject closes the volume.
RxStorage ==
    /\ dpc = "rxstorage"
    /\ IF "storage" \in deferred /\ out["storage"] # <<>>
       THEN LET c == Head(out["storage"]).cmd.cmd IN
            /\ Unload("storage")
            /\ dirty' = IF mounted /\ c = "write" THEN "cached" ELSE dirty
            /\ mounted' = (mounted /\ c # "eject")
       ELSE UNCHANGED <<usb, dirty, mounted>>
    /\ deferred' = deferred \ {"storage"}
    /\ dpc' = "defer"
    /\ UNCHANGED <<host, acked, nextId, snap, cur, got, tx, exit, stored, count>>

-----------------------------------------------------------------------------
DiskBootInit ==
    /\ host = NoRun
    /\ acked = {}
    /\ nextId = 1
    /\ out = [e \in EP |-> <<>>]
    /\ inF = <<>>
    /\ irq = {}
    /\ misc = {}
    /\ dpc = "poll"
    /\ snap = {}
    /\ deferred = {}
    /\ cur = NoCmd
    /\ got = <<>>
    /\ tx = <<>>
    /\ exit = "no"
    /\ mounted = FALSE
    /\ dirty = "no"
    /\ stored = {}
    /\ count = [runs |-> 0, misc |-> 0, storage |-> 0]

Tool == NextCommand \/ SendHeader \/ SendData \/ ReadResponse \/ ReadResponseData \/ TransferFails
Bus == Kill \/ BusReset \/ BusEvent \/ StoragePacket
Poll == PollReset \/ PollIdle \/ PollFails \/ PollFrame \/ PollNoFrame \/ Defer \/ Polled \/ Leave
Device == Poll \/ RxCommand \/ NoCommand \/ SendPacket \/ Answered \/ RxStorage

DiskBootNext == StartRun \/ Tool \/ Bus \/ Device

DiskBootSpec == DiskBootInit /\ [][DiskBootNext]_diskBootVars

-----------------------------------------------------------------------------
(* Properties.                                                              *)

Unit == [id : Nat, k : Nat]
Command == [cmd : Names \union {"none"}, out : Nat, in : Nat, id : Nat]

\* The variables keep their types; no more data than the largest command has is
\* ever put into transfer_buffer.
DiskBootTypeOK ==
    /\ host.pc \in {"idle", "next", "header", "data", "response", "respdata"}
    /\ host.cmd \in Command /\ host.n \in Nat
    /\ \A e \in EP : Len(out[e]) <= FIFO
    /\ Len(inF) <= 1
    /\ irq \subseteq EP /\ snap \subseteq EP /\ deferred \subseteq EP
    /\ dpc \in {"poll", "polled", "rxcmd", "rxstorage", "tx", "defer", "leave", "left"}
    /\ cur \in Command
    /\ \A i \in DOMAIN got : got[i] \in Unit
    /\ \E p \in Programs : \E i \in DOMAIN p : Len(got) <= p[i].out
    /\ exit \in {"no", "fel", "other"} /\ mounted \in BOOLEAN /\ dirty \in {"no", "cached", "lost"}

\* "Sends command to device and reads response header": the answer a tool run
\* works with is the answer to the command it sent last (send_command).
AnswersOwnCommand == host.answer # 0 => host.answer = host.cmd.id

\* A disk write that the tool has been told is done is on the flash, with the
\* data it sent (BCMD_DISKWRITE answers after LML_FlushPageCache).
OkMeansStored == acked \subseteq stored

\* What the device writes to the disk is the data of one command, whole and in
\* order ("size of data after header"): never pieces of two commands or a header.
StoresWholeWrites ==
    \A b \in stored : \A k \in DOMAIN b : b[k] = [id |-> b[1].id, k |-> k]

\* The device never leaves diskboot, be it after an error, a disconnect or a command,
\* before it has tried to write the page cache: written data is still in it only when
\* that flush failed.  And a requested exit or jump never takes an exposed volume away
\* from its user ("please eject volume first").
LeavesCleanly == dpc = "left" => dirty # "cached" /\ (exit # "no" => ~mounted)

\* Every tool run ends: its commands are answered, whatever the mass storage
\* endpoint does, or it fails because the device has gone.
RunEnds == (host.pc # "idle") ~> (host.pc = "idle")

\* Both together: the flash holds what was acknowledged, and nothing but whole writes.
WritesStored == OkMeansStored /\ StoresWholeWrites
=============================================================================
