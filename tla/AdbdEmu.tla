------------------------------ MODULE AdbdEmu ------------------------------
(***************************************************************************)
(* adbd_emu (debian-patches/adbd_emu): the daemon that lets "adb shell"    *)
(* log in to the tablet.  The main thread reads packets of the host and    *)
(* handles them; a second thread copies the output of the login to the     *)
(* host.  Both write to the USB channel under one mutex, and the main      *)
(* thread stops the other one with pthread_cancel.                         *)
(*                                                                         *)
(* Each thread is the sequence of the steps it still has to take; a step   *)
(* is one call the other thread can run before or after.  read and write   *)
(* are cancellation points, pthread_mutex_lock is not.                     *)
(***************************************************************************)
EXTENDS Naturals, Sequences

CONSTANTS REMOTES,         \* stream numbers the host may use
          MAX_PACKETS,     \* bound: packets the host sends
          MAX_OUTPUT,      \* bound: pieces of output of each login
          MAX_LINK_ERRORS  \* bound: failures of the USB channel

\* The adb of the host counts its streams from 1.
ASSUME StreamNumbers == REMOTES \subseteq Nat \ {0} /\ MAX_OUTPUT \in Nat

VARIABLES todo,       \* steps the main thread has to take
          reader,     \* steps the reader has to take, or Gone
          canceled,   \* the reader has a pending cancellation
          mutex,      \* holder of gSendMessageMutex
          shell,      \* the login: stream, steps, or NoShell
          link,       \* the channel works
          wire,       \* what the host's side of the channel has seen
          budget      \* packets and errors still to come

adbdVars == <<todo, reader, canceled, mutex, shell, link, wire, budget>>

Free == "free"
NoShell == [remote |-> 0, output |-> 0]
Packet(cmd, to, data) == [cmd |-> cmd, to |-> to, data |-> data]

-----------------------------------------------------------------------------
(* The steps of the two threads.                                           *)

Step(op) == [op |-> op]
Gone == <<Step("gone")>>
Header(p) == [op |-> "header", packet |-> p]
Payload(p) == [op |-> "data", packet |-> p]

\* send_packet: header and payload under the mutex.
SendPacket(p) ==
    <<Step("lock"), Header(p)>>
    \o (IF p.data THEN <<Payload(p)>> ELSE <<>>)
    \o <<Step("unlock")>>

\* shell_close of an open shell.
ShellClose ==
    <<Step("lock"), Step("cancel"), Step("unlock"), Step("join"), Step("close")>>

\* Mutant of Reopen, leaving the shell open.
ReopenOnly == <<Step("reopen")>>

\* What the outer loop of main does when a read fails.
Reopen == (IF shell # NoShell THEN ShellClose ELSE <<>>) \o <<Step("reopen")>>

\* shell_open: one shell at a time.
ShellOpen(r) ==
    IF shell # NoShell THEN SendPacket(Packet("CLSE", r, FALSE))
    ELSE <<[op |-> "create", remote |-> r]>> \o SendPacket(Packet("OKAY", r, FALSE))

\* shell_write: the payload goes to the login, the host is told.
ShellWrite(r) == SendPacket(Packet(IF shell # NoShell THEN "OKAY" ELSE "CLSE", r, FALSE))

\* What handle_packet does with each packet.
HandlePacket(cmd, r) ==
    CASE cmd = "SYNC"      -> SendPacket(Packet("SYNC", 0, FALSE))
      [] cmd = "CNXN"      -> SendPacket(Packet("CNXN", 0, TRUE))
                              \o (IF shell # NoShell THEN ShellClose ELSE <<>>)
      [] cmd = "OPEN"      -> ShellOpen(r)
      [] cmd = "OPENother" -> SendPacket(Packet("CLSE", r, FALSE))
      [] cmd = "CLSE"      -> IF shell # NoShell THEN ShellClose ELSE <<>>
      [] cmd = "WRTE"      -> ShellWrite(r)
      [] OTHER             -> <<>>

Commands == {"SYNC", "CNXN", "OPEN", "OPENother", "CLSE", "WRTE", "OKAY"}

-----------------------------------------------------------------------------
AdbdInit ==
    /\ todo = <<>> /\ reader = Gone /\ canceled = FALSE
    /\ mutex = Free /\ shell = NoShell /\ link = TRUE
    /\ wire = [expects |-> "header", broken |-> FALSE, strays |-> FALSE]
    /\ budget = [packets |-> MAX_PACKETS, errors |-> MAX_LINK_ERRORS]

\* The host sends a packet and the main thread, waiting in usbread, takes it.
ReadPacket ==
    /\ todo = <<>> /\ link /\ budget.packets > 0
    /\ \E cmd \in Commands : \E r \in REMOTES : todo' = HandlePacket(cmd, r)
    /\ budget' = [budget EXCEPT !.packets = @ - 1]
    /\ UNCHANGED <<reader, canceled, mutex, shell, link, wire>>

\* usbread fails: the main loop opens the channel again.
ReadFails ==
    /\ todo = <<>> /\ ~link
    /\ todo' = Reopen
    /\ UNCHANGED <<reader, canceled, mutex, shell, link, wire, budget>>

LinkError ==
    /\ link /\ budget.errors > 0
    /\ link' = FALSE
    /\ budget' = [budget EXCEPT !.errors = @ - 1]
    /\ UNCHANGED <<todo, reader, canceled, mutex, shell, wire>>

\* What the host sees of a part of a packet: its framing, and whether output
\* of a login arrives on a stream that is not the login's.
Written(s, who) ==
    IF ~link THEN wire
    ELSE [expects |-> IF s.op = "header" /\ s.packet.data THEN "data" ELSE "header",
          broken  |-> wire.broken \/ wire.expects # s.op,
          strays  |-> wire.strays \/ (who = "reader" /\ s.packet.to # shell.remote)]

\* The steps that both threads take: the mutex, and usbwrite, which ignores a
\* failing channel.
Sends(s, who) ==
    \/ s.op = "lock" /\ mutex = Free /\ mutex' = who /\ UNCHANGED wire
    \/ s.op = "unlock" /\ mutex' = Free /\ UNCHANGED wire
    \/ s.op \in {"header", "data"} /\ wire' = Written(s, who) /\ UNCHANGED mutex

MainSends ==
    /\ todo # <<>>
    /\ Sends(Head(todo), "main")
    /\ todo' = Tail(todo)
    /\ UNCHANGED <<reader, canceled, shell, link, budget>>

\* shell_open: the login is forked, the thread created; it may write before
\* the host has heard that the stream is open.
Create ==
    /\ todo # <<>> /\ Head(todo).op = "create"
    /\ \/ /\ shell' = [remote |-> Head(todo).remote, output |-> MAX_OUTPUT]
          /\ reader' = <<>>
          /\ todo' = Tail(todo)
       \/ /\ todo' = SendPacket(Packet("CLSE", Head(todo).remote, FALSE))
          /\ UNCHANGED <<shell, reader>>
    /\ canceled' = FALSE
    /\ UNCHANGED <<mutex, link, wire, budget>>

Cancel ==
    /\ todo # <<>> /\ Head(todo).op = "cancel"
    /\ canceled' = TRUE
    /\ todo' = Tail(todo)
    /\ UNCHANGED <<reader, mutex, shell, link, wire, budget>>

Join ==
    /\ todo # <<>> /\ Head(todo).op = "join" /\ reader = Gone
    /\ todo' = Tail(todo)
    /\ UNCHANGED <<reader, canceled, mutex, shell, link, wire, budget>>

Close ==
    /\ todo # <<>> /\ Head(todo).op = "close"
    /\ shell' = NoShell
    /\ todo' = Tail(todo)
    /\ UNCHANGED <<reader, canceled, mutex, link, wire, budget>>

\* The channel is closed and opened: packets start anew on both sides.
OpenChannel ==
    /\ todo # <<>> /\ Head(todo).op = "reopen"
    /\ link' = TRUE
    /\ wire' = [wire EXCEPT !.expects = "header"]
    /\ todo' = Tail(todo)
    /\ UNCHANGED <<reader, canceled, mutex, shell, budget>>

-----------------------------------------------------------------------------
\* read(gShellFd) returns a piece of output, or the end of the login.
ShellRead ==
    /\ reader = <<>> /\ ~canceled
    /\ \/ /\ shell.output > 0
          /\ reader' = SendPacket(Packet("WRTE", shell.remote, TRUE))
          /\ shell' = [shell EXCEPT !.output = @ - 1]
       \/ /\ reader' = SendPacket(Packet("CLSE", shell.remote, FALSE))
                       \o <<Step("return")>>
          /\ UNCHANGED shell
    /\ UNCHANGED <<todo, canceled, mutex, link, wire, budget>>

CancelPoint(s) == s.op \in {"header", "data"}

ReaderSends ==
    /\ reader \notin {<<>>, Gone}
    /\ ~(canceled /\ CancelPoint(Head(reader)))
    /\ Sends(Head(reader), "reader")
    /\ reader' = Tail(reader)
    /\ UNCHANGED <<todo, canceled, shell, link, budget>>

\* The thread ends: it returns, or a read or write finds it cancelled.  A
\* mutex it holds stays locked.
ReaderEnds ==
    /\ reader # Gone
    /\ \/ reader = <<>> /\ canceled
       \/ reader # <<>> /\ (Head(reader).op = "return" \/ (canceled /\ CancelPoint(Head(reader))))
    /\ reader' = Gone
    /\ mutex' = IF mutex = "reader" THEN "lost" ELSE mutex
    /\ UNCHANGED <<todo, canceled, shell, link, wire, budget>>

MainNext ==
    MainSends \/ Create \/ Cancel \/ Join \/ Close \/ OpenChannel \/ ReadFails

ReaderNext == ShellRead \/ ReaderSends \/ ReaderEnds

AdbdNext == ReadPacket \/ LinkError \/ MainNext \/ ReaderNext

-----------------------------------------------------------------------------
(* Properties.                                                             *)

\* Every payload on the channel follows its own header, whatever two threads
\* send, wherever the reader is cancelled and whenever the channel fails and
\* is opened again (send_packet, main).
PacketsWhole == ~wire.broken

\* Output of a login reaches the stream that opened it: gShellRemoteId never
\* changes under a running reader.
OutputToOwner == ~wire.strays

\* The main thread always gets back to reading packets, unless the reader was
\* cancelled while it waited for the mutex in send_packet, which it then took
\* with it (shell_close).
Handling == todo # <<>>
Handled == todo = <<>> \/ mutex = "lost"
HandlingEnds == Handling ~> Handled

\* Both together: what the other side of the channel reads.
StreamsSound == PacketsWhole /\ OutputToOwner
=============================================================================
