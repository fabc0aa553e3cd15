----------------------------- MODULE MassStorage -----------------------------
(***************************************************************************)
(* The mass storage function of diskboot (allwindisk/arm/masstorage.c):    *)
(* bulk-only transport and the SCSI commands of one removable logical unit *)
(* that shows a partition of the NAND disk.                                *)
(*                                                                         *)
(* The operating system of the host sends a command block with the length  *)
(* and the direction of the data it is going to transfer, the data, and    *)
(* takes the data and the status back.  The command block itself names a   *)
(* size, too, and the two need not agree: the residue of the status says   *)
(* how much of the announced data the device did not process.              *)
(*                                                                         *)
(* Sizes are counted in units: a sector has SECT of them.                  *)
(***************************************************************************)
EXTENDS Integers, Sequences, FiniteSets

CONSTANTS
    SECT,       \* units in a sector (512 bytes)
    BULK,       \* units in a packet
    DISK,       \* NAND_GetDiskSize
    BUF,        \* units of masstorage_buffer that the commands use
    Commands,   \* the command blocks the host sends
    Mounts,     \* the partitions that allwindisk dm exposes
    MaxCommands, MaxMounts     \* bounds

ASSUME SizeAssumption == SECT \in Nat \ {0} /\ BULK \in Nat \ {0} /\ DISK \in Nat \ {0} /\ BUF \in Nat
\* The command layer answers nothing above 16 MB, the size of its buffer; host
\* drivers ask for less.
ASSUME CommandsAssumption == \A c \in Commands : c.len \in 0 .. BUF /\ c.n \in Nat /\ c.lba \in Nat
ASSUME MountsAssumption == \A m \in Mounts : m.first \in Nat /\ m.count \in Nat /\ m.rw \in BOOLEAN

Sectors == 0 .. DISK - 1

VARIABLES
    lun,      \* struct fsg_lun
    lunCmd,   \* cur_cmd, with the number of the command as its dCBWTag
    written,  \* cur_cmd_bytes_written
    buffer,   \* masstorage_buffer
    disk,     \* the content of the NAND disk
    driver,   \* the host's driver: its command, the units sent, the status before
    bulkOut,  \* packets under way to the device
    reply,    \* data and status under way to the host: the device waits
    uses      \* commands sent and partitions mounted so far

massVars == <<lun, lunCmd, written, buffer, disk, driver, bulkOut, reply, uses>>

NoCbw == [op |-> "none", dir |-> "none", len |-> 0, n |-> 0, lba |-> 0, arg |-> {}, tag |-> 0]

\* The data the host sends with a command, and a sector of it.
DataOf(c) == [k \in 1 .. c.len |-> [t |-> "data", k |-> c.tag * (BUF + 1) + k]]
Sector(buf, i) == SubSeq(buf, i * SECT + 1, (i + 1) * SECT)
Lesser(a, b) == IF a < b THEN a ELSE b

-----------------------------------------------------------------------------
(* check_command.                                                           *)

ToHost == {"inquiry", "modesense", "read", "capacity", "formatcap", "sense"}
FromHost == {"modeselect", "write"}
NeedsMedium == {"read", "capacity", "formatcap", "sync", "ready", "verify", "write"}

\* data_size_from_cmnd: the size in the command block.
DataSize(c) == CASE c.op \in {"read", "write"} -> c.n * SECT
                 [] c.op = "capacity" -> 1
                 [] c.op \in (ToHost \union FromHost) \ {"read", "write", "capacity"} -> c.n
                 [] OTHER -> 0
Direction(c) == CASE DataSize(c) = 0 -> "none"
                  [] DataSize(c) # 0 /\ c.op \in ToHost -> "in"
                  [] OTHER -> "out"
CbwDirection(c) == IF c.len = 0 THEN "none" ELSE c.dir

\* "Carry out the command, but only transfer as much as we are allowed."
Size(c) == Lesser(DataSize(c), c.len)

\* Conflicting directions, and a command block that is too short: the command is
\* not carried out.  A host that transfers less than the command says is told.
Refused(c) == (CbwDirection(c) # Direction(c) /\ Size(c) > 0) \/ "short" \in c.arg
PhaseError(c) == c.len < DataSize(c) \/ Refused(c)

\* A byte that the mask does not list, or no medium: the command fails.
CheckSense(c) == IF "badfield" \in c.arg THEN "invalid field" ELSE "no medium"
Checked(c) == ~Refused(c) /\ "badfield" \notin c.arg /\ (lun.open \/ c.op \notin NeedsMedium)

-----------------------------------------------------------------------------
(* The commands.  A result: the unit afterwards, the length of the reply     *)
(* (-1: the command has dealt with the residue itself) and the units         *)
(* processed then, the units put at the start of the buffer, and the sectors *)
(* of the command that have been stored from the buffer.                     *)

Result(l, len, done, fill, stored) == [lun |-> l, len |-> len, done |-> done, fill |-> fill, stored |-> stored]
Sense(s) == [lun EXCEPT !.sense = s]
Fails(s) == {Result(Sense(s), 0, 0, <<>>, {})}
Passes == {Result(Sense("none"), 0, 0, <<>>, {})}
Replies(t, len) == {Result(Sense("none"), len, 0, [k \in 1 .. len |-> [t |-> t, k |-> k]], {})}

\* Mutant: the end of the range is not checked.
StartBeyondUnit(c, n) == c.lba >= lun.count
BeyondUnit(c, n) == c.lba >= lun.count \/ c.lba + n > lun.count

NandSector(c, i) == lun.first + c.lba + i

\* The units of n sectors from c.lba on.  A read that fails has read some of them.
Content(c, n) == [k \in 1 .. n * SECT |-> disk[NandSector(c, (k - 1) \div SECT)][((k - 1) % SECT) + 1]]
ReadFails(c, n, len, done) == {Result(Sense("read error"), len, done, Content(c, m), {}) : m \in 0 .. n - 1}

do_read(c) ==
    LET n == Size(c) \div SECT
    IN  IF "flags" \in c.arg THEN Fails("invalid field")
        ELSE IF BeyondUnit(c, n) THEN Fails("out of range")
        ELSE {Result(Sense("none"), -1, n * SECT, Content(c, n), {})} \union ReadFails(c, n, -1, n * SECT)

\* Mutant: the residue is not reduced after a write.
NothingDone(n) == 0
Processed(n) == n * SECT

Protected == lun.ro

do_write(c) ==
    LET n == Size(c) \div SECT
    IN  IF Protected THEN Fails("write protected")
        ELSE IF "flags" \in c.arg THEN Fails("invalid field")
        ELSE IF BeyondUnit(c, n) THEN Fails("out of range")
        ELSE {Result(Sense("none"), -1, Processed(n), <<>>, 0 .. n - 1)}
             \union {Result(Sense("write error"), -1, 0, <<>>, part) : part \in SUBSET (0 .. n - 1)}

do_verify(c) ==
    IF c.lba >= lun.count THEN Fails("out of range")
    ELSE IF "flags" \in c.arg THEN Fails("invalid field")
    ELSE IF c.n = 0 THEN {Result(Sense("none"), -1, 0, <<>>, {})}
    ELSE IF BeyondUnit(c, c.n) THEN Fails("out of range")
    ELSE {Result(Sense("none"), 0, 0, Content(c, c.n), {})} \union ReadFails(c, c.n, 0, 0)

\* Mutant: check_command clears the sense data that is asked for.
SenseLost(c) == "none"
PendingSense(c) == lun.sense

\* The sense data is handed out and cleared.
do_request_sense(c) == Replies(PendingSense(c), 2)

do_inquiry == Replies("inquiry", 3)
do_read_capacity(c) == IF "flags" \in c.arg THEN Fails("invalid field") ELSE Replies("capacity", 1)
do_read_format_capacities == Replies("formats", 2)
do_mode_sense(c) == IF "flags" \in c.arg THEN Fails("invalid field") ELSE Replies("mode", 2)
do_mode_select == Fails("invalid command")

RemovalAllowed == ~lun.prevent

do_start_stop(c) ==
    CASE "flags" \in c.arg -> Fails("invalid field")
      [] "flags" \notin c.arg /\ "start" \in c.arg -> IF lun.open THEN Passes ELSE Fails("no medium")
      [] "flags" \notin c.arg /\ "start" \notin c.arg /\ ~RemovalAllowed -> Fails("removal prevented")
      [] OTHER -> {Result([Sense("none") EXCEPT !.open = @ /\ "eject" \notin c.arg], 0, 0, <<>>, {})}

do_prevent_allow(c) ==
    IF "flags" \in c.arg THEN Fails("invalid field")
    ELSE {Result([Sense("none") EXCEPT !.prevent = "prevent" \in c.arg], 0, 0, <<>>, {})}

do_synchronize_cache == Passes

\* do_scsi_command: the results a command can have.
Execute(c) ==
    CASE Refused(c) -> {Result(lun, 0, 0, <<>>, {})}
      [] ~Refused(c) /\ ~Checked(c) -> Fails(CheckSense(c))
      [] OTHER ->
         CASE c.op = "inquiry" -> do_inquiry
           [] c.op = "modeselect" -> do_mode_select
           [] c.op = "modesense" -> do_mode_sense(c)
           [] c.op = "prevent" -> do_prevent_allow(c)
           [] c.op = "read" -> do_read(c)
           [] c.op = "capacity" -> do_read_capacity(c)
           [] c.op = "formatcap" -> do_read_format_capacities
           [] c.op = "sense" -> do_request_sense(c)
           [] c.op = "startstop" -> do_start_stop(c)
           [] c.op = "sync" -> do_synchronize_cache
           [] c.op = "ready" -> Passes
           [] c.op = "verify" -> do_verify(c)
           [] c.op = "write" -> do_write(c)
           [] OTHER -> Fails("invalid command")

-----------------------------------------------------------------------------
(* masstorage_rx_handler, masstorage_mount, and the host's driver.          *)

NoReply == [tag |-> 0, data |-> <<>>, status |-> "none", residue |-> 0]
TakesAll(c) == c.len = 0 \/ c.dir = "in"       \* no data follows the command block
Waiting == driver.cmd.tag # 0

\* send_status.
Status(c, l) == CASE PhaseError(c) -> "phase error"
                  [] ~PhaseError(c) /\ l.sense # "none" -> "failed"
                  [] OTHER -> "passed"

\* The end of do_scsi_command: what the command has not processed.
Residue(c, r) == CASE r.len = -1 -> c.len - r.done
                   [] r.len >= 0 /\ CbwDirection(c) = "in" -> c.len - Lesser(r.len, Size(c))
                   [] OTHER -> c.len

\* do_scsi_command, finish_reply and send_status for the whole command c, with
\* b in the buffer.
Carry(c, b) ==
    \E r \in Execute(c) :
        /\ lun' = r.lun
        /\ buffer' = [k \in 1 .. BUF |-> IF k <= Len(r.fill) THEN r.fill[k] ELSE b[k]]
        /\ disk' = [s \in Sectors |-> IF \E i \in r.stored : NandSector(c, i) = s
                                      THEN Sector(b, CHOOSE i \in r.stored : NandSector(c, i) = s) ELSE disk[s]]
        /\ reply' = [tag |-> c.tag, status |-> Status(c, r.lun), residue |-> Residue(c, r),
                     data |-> IF CbwDirection(c) = "in" THEN SubSeq(buffer', 1, c.len) ELSE <<>>]

\* The command c is carried out as soon as w units, all of its data, are there.
CarryIfWhole(c, w, b) ==
    IF TakesAll(c) \/ c.len = w THEN Carry(c, b) ELSE buffer' = b /\ UNCHANGED <<lun, disk, reply>>

NewCommand == TakesAll(lunCmd) \/ lunCmd.len = written

\* Mutant: cur_cmd_bytes_written is kept from the command before.
KeptCount(w) == w
StartCount(w) == 0

\* A packet that starts a command; one of another size is dropped.
RxCbw ==
    /\ reply = NoReply /\ bulkOut # <<>> /\ NewCommand
    /\ bulkOut' = Tail(bulkOut)
    /\ IF Head(bulkOut).cmd = NoCbw
       THEN UNCHANGED <<lun, disk, buffer, reply, lunCmd, written>>
       ELSE lunCmd' = Head(bulkOut).cmd /\ written' = StartCount(written) /\ CarryIfWhole(lunCmd', written', buffer)
    /\ UNCHANGED <<driver, uses>>

\* A packet with data of the command; what the command has not announced is ignored.
RxData ==
    /\ reply = NoReply /\ bulkOut # <<>> /\ ~NewCommand
    /\ bulkOut' = Tail(bulkOut)
    /\ LET p == Head(bulkOut).data
           n == Lesser(Len(p), lunCmd.len - written)
       IN  /\ written' = written + n
           /\ CarryIfWhole(lunCmd, written',
                 [k \in 1 .. BUF |-> IF k \in written + 1 .. written + n THEN p[k - written] ELSE buffer[k]])
    /\ UNCHANGED <<lunCmd, driver, uses>>

\* The sum is one of 32 bits in the code; partitions of the disk keep it far below.
Mountable(m) == ~lun.open /\ m.first < DISK /\ m.first + m.count <= DISK

\* masstorage_mount, on behalf of the allwindisk tool.
masstorage_mount(m) ==
    /\ reply = NoReply /\ uses.mounts < MaxMounts
    /\ uses' = [uses EXCEPT !.mounts = @ + 1]
    /\ lun' = IF Mountable(m) THEN [lun EXCEPT !.first = m.first, !.count = m.count, !.ro = ~m.rw, !.open = TRUE] ELSE lun
    /\ UNCHANGED <<lunCmd, written, buffer, disk, driver, bulkOut, reply>>

\* The host's driver: one command at a time.
HostCommand(c) ==
    /\ ~Waiting /\ uses.commands < MaxCommands
    /\ uses' = [uses EXCEPT !.commands = @ + 1]
    /\ LET t == [op |-> c.op, dir |-> c.dir, len |-> c.len, n |-> c.n, lba |-> c.lba, arg |-> c.arg, tag |-> uses.commands + 1]
       IN  /\ driver' = [driver EXCEPT !.cmd = t, !.sent = 0]
           /\ bulkOut' = Append(bulkOut, [cmd |-> t, data |-> <<[t |-> "command", k |-> 1]>>])
    /\ UNCHANGED <<lun, lunCmd, written, buffer, disk, reply>>

HostData ==
    /\ Waiting /\ ~TakesAll(driver.cmd) /\ driver.sent < driver.cmd.len
    /\ LET n == Lesser(BULK, driver.cmd.len - driver.sent)
       IN  /\ driver' = [driver EXCEPT !.sent = @ + n]
           /\ bulkOut' = Append(bulkOut, [cmd |-> NoCbw, data |-> SubSeq(DataOf(driver.cmd), driver.sent + 1, driver.sent + n)])
    /\ UNCHANGED <<lun, lunCmd, written, buffer, disk, reply, uses>>

HostStatus ==
    /\ Waiting /\ reply # NoReply
    /\ TakesAll(driver.cmd) \/ driver.sent = driver.cmd.len
    /\ driver' = [cmd |-> NoCbw, sent |-> 0, last |-> reply.status]
    /\ reply' = NoReply
    /\ UNCHANGED <<lun, lunCmd, written, buffer, disk, bulkOut, uses>>

MassInit ==
    /\ lun = [open |-> FALSE, ro |-> TRUE, first |-> 0, count |-> 0, prevent |-> FALSE, sense |-> "none"]
    /\ lunCmd = NoCbw /\ written = 0
    /\ buffer = [k \in 1 .. BUF |-> [t |-> "old", k |-> k]]
    /\ disk = [s \in Sectors |-> [k \in 1 .. SECT |-> [t |-> "disk", k |-> s * SECT + k]]]
    /\ driver = [cmd |-> NoCbw, sent |-> 0, last |-> "none"]
    /\ bulkOut = <<>> /\ reply = NoReply
    /\ uses = [commands |-> 0, mounts |-> 0]

MassNext ==
    \/ RxCbw
    \/ RxData
    \/ \E m \in Mounts : masstorage_mount(m)
    \/ \E c \in Commands : HostCommand(c)
    \/ HostData
    \/ HostStatus

MassSpec == MassInit /\ [][MassNext]_massVars

-----------------------------------------------------------------------------
(* Properties.                                                              *)

Senses == {"none", "invalid field", "no medium", "out of range", "read error", "write protected", "write error",
           "removal prevented", "invalid command"}

\* The types: the received part of a command's data fits the buffer, the
\* residue is a part of what the host announced, a mounted partition lies on
\* the disk.
CommandsTypeOK ==
    /\ lun.sense \in Senses /\ {lun.open, lun.ro, lun.prevent} \subseteq BOOLEAN
    /\ lun.first \in Nat /\ lun.count \in Nat /\ lun.first + lun.count <= DISK
    /\ written \in 0 .. BUF /\ written <= lunCmd.len
    /\ DOMAIN buffer = 1 .. BUF /\ \A s \in Sectors : Len(disk[s]) = SECT
    /\ reply.residue \in 0 .. BUF /\ Len(reply.data) <= BUF
    /\ driver.sent \in 0 .. driver.cmd.len

\* masstorage_rx_handler tells commands and data apart by the lengths alone: the
\* next packet is what the device takes it for, and the status is that of the
\* command the host waits for.
InStep ==
    /\ reply = NoReply /\ bulkOut # <<>> => (Head(bulkOut).cmd # NoCbw <=> NewCommand)
    /\ reply # NoReply => reply.tag = driver.cmd.tag

\* dCSWDataResidue is what the device has not processed: of a read that does not
\* fail, the rest of the data is the content of the partition; of such a write,
\* the rest of the data is there.
ResidueTruthful ==
    LET c == driver.cmd
        done == c.len - reply.residue
        at(k) == disk[lun.first + c.lba + (k - 1) \div SECT][((k - 1) % SECT) + 1]
    IN  reply # NoReply /\ reply.status # "failed" /\ lun.sense = "none" =>
            /\ done \in 0 .. c.len
            /\ c.op = "read" => \A k \in 1 .. done : reply.data[k] = at(k)
            /\ c.op = "write" => \A k \in 1 .. done : at(k) = DataOf(c)[k]
            /\ c.op \in {"read", "write"} /\ reply.status = "passed" => done = c.n * SECT

\* REQUEST SENSE after a command that failed says why, and says nothing after a
\* command that passed, whatever was mounted in between.
SenseExplains ==
    reply.status = "passed" /\ driver.cmd.op = "sense" /\ reply.data # <<>> =>
        /\ driver.last = "failed" => reply.data[1].t \in Senses \ {"none"}
        /\ driver.last = "passed" => reply.data[1].t = "none"

\* Only a write command changes the disk, and only sectors of the partition that
\* is mounted for writing.
WithinVolume ==
    [][\A s \in Sectors : disk'[s] # disk[s] =>
          /\ driver.cmd.op = "write" /\ lun.open /\ ~lun.ro
          /\ s \in lun.first .. lun.first + lun.count - 1]_massVars

\* While the host prevents the removal of the medium, neither an eject nor
\* another mount of the tool takes it away.
MediumStays ==
    [][lun.prevent /\ lun.open => [lun' EXCEPT !.prevent = TRUE, !.sense = lun.sense] = lun]_massVars

\* Every command is answered, whatever its sizes and directions say.
StatusSent == Waiting ~> ~Waiting

\* Both together: only the mounted volume changes, and it stays as long as it is in use.
VolumeKept == WithinVolume /\ MediumStays
=============================================================================
