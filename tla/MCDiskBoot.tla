----------------------------- MODULE MCDiskBoot -----------------------------
(* The two functions of diskboot: the commands of the tool, and the mass    *)
(* storage of a mounted volume.  In each behaviour one of them is used in   *)
(* detail, and the other one stays as it starts.  Sizes are in units: a     *)
(* full packet and a sector have two, a header has one.                     *)
EXTENDS DiskBoot, MassStorage

VARIABLE function

vars == <<function, diskBootVars, massVars>>

-----------------------------------------------------------------------------
\* allwindisk i, dp, dr, dw (two pieces of different size), dm, bf, mr, mx, and mj
\* with a file that is as large as a header.
ToolRuns == {cmd_ping, cmd_partitions, cmd_diskread(TRUE, 3, 4), cmd_diskwrite(FALSE, 7, 6, 4),
             cmd_exposepart, cmd_board_exit, cmd_memread(3, 2), cmd_memwrexec("exec", 3, 2),
             cmd_memwrexec("jump", 1, 2)}

\* The commands of a host's driver to a removable disk: the announced length
\* equal to, above and below the size in the command block, ranges that end in,
\* at and beyond the partition, and command blocks with wrong flags, wrong
\* fields and wrong length.  Sectors of two units, a disk of three sectors.
Scsi(op, dir, len, n, lba, arg) == [op |-> op, dir |-> dir, len |-> len, n |-> n, lba |-> lba, arg |-> arg]

MCCommands ==
    {Scsi("write", "out", 2, 1, lba, {}) : lba \in 0 .. 1}
    \union {Scsi("write", "out", 4, 2, 0, {}), Scsi("write", "out", 4, 2, 1, {}), Scsi("write", "out", 3, 2, 0, {}),
            Scsi("write", "out", 4, 1, 0, {}), Scsi("write", "in", 2, 1, 0, {}), Scsi("write", "out", 2, 1, 0, {"flags"})}
    \union {Scsi("read", "in", 2, 1, 1, {}), Scsi("read", "in", 4, 2, 0, {}), Scsi("read", "in", 3, 2, 0, {}),
            Scsi("read", "in", 4, 1, 0, {}), Scsi("read", "out", 2, 1, 0, {}), Scsi("read", "in", 2, 1, 0, {"short"})}
    \union {Scsi("sense", "in", 2, 2, 0, {}), Scsi("sense", "in", 1, 1, 0, {}), Scsi("startstop", "out", 0, 0, 0, {"eject"}),
            Scsi("startstop", "out", 0, 0, 0, {"start"}), Scsi("prevent", "out", 0, 0, 0, {"prevent"}),
            Scsi("prevent", "out", 0, 0, 0, {}), Scsi("verify", "out", 0, 2, 0, {}), Scsi("ready", "out", 0, 0, 0, {}),
            Scsi("sync", "out", 0, 0, 0, {})}
    \union {Scsi("inquiry", "in", 2, 3, 0, {}), Scsi("capacity", "in", 1, 1, 0, {}), Scsi("formatcap", "in", 2, 2, 0, {"badfield"}),
            Scsi("modesense", "in", 2, 2, 0, {}), Scsi("modeselect", "out", 2, 2, 0, {}), Scsi("unknown", "out", 0, 0, 0, {})}

MCMounts == {[first |-> 0, count |-> 2, rw |-> TRUE],
             [first |-> 1, count |-> 2, rw |-> FALSE], [first |-> 2, count |-> 2, rw |-> TRUE]}

-----------------------------------------------------------------------------
Init ==
    /\ function \in {"commands", "storage"}
    /\ DiskBootInit /\ MassInit

Commanded == DiskBootNext /\ UNCHANGED massVars
Served    == MassNext /\ UNCHANGED diskBootVars

Next ==
    /\ UNCHANGED function
    /\ \/ function = "commands" /\ Commanded
       \/ function = "storage" /\ Served

\* The tool and the device run; frames start again and again on an active bus.
\* The main loop polls for ever and the host's driver completes what it began.
Fairness ==
    /\ WF_diskBootVars(function = "commands" /\ Tool)
    /\ WF_diskBootVars(function = "commands" /\ Device)
    /\ SF_diskBootVars(function = "commands" /\ PollFrame)
    /\ WF_massVars(function = "storage" /\ (RxCbw \/ RxData))
    /\ WF_massVars(function = "storage" /\ HostData)
    /\ WF_massVars(function = "storage" /\ HostStatus)

Spec == Init /\ [][Next]_vars /\ Fairness

-----------------------------------------------------------------------------
\* The types of both functions (the queues, buffers and counts keep their bounds).
TypeOK == DiskBootTypeOK /\ CommandsTypeOK

\* Every run of the tool ends, and every SCSI command gets its status.
Ends == RunEnds /\ StatusSent
=============================================================================
