--------------------------- MODULE DiskBootProofs ---------------------------
(***************************************************************************)
(* Proofs about the command protocol of DiskBoot, for every packet size,   *)
(* every buffering of the controller and every set of tool runs, and about *)
(* the two functions of diskboot together.                                 *)
(*                                                                         *)
(* The device sees packets only.  The invariant follows the one command    *)
(* that is under way through the device: its packets are coming, its data  *)
(* is being taken, or its answer waits to be read; and it says when the    *)
(* host and the device agree about that command.                           *)
(***************************************************************************)
EXTENDS MCDiskBoot, TLAPS, SequenceTheorems

-----------------------------------------------------------------------------
(* The mass storage function, for every size of sectors, packets, disk and *)
(* buffer, and for every set of commands and partitions.  The device tells *)
(* commands and data apart by counting alone.  The invariant says how far  *)
(* both sides have come with the one command that is under way: what the   *)
(* driver has sent is what the device has taken and what is still in the   *)
(* queue, in order.                                                        *)

DataUnit == [t : {"command", "data"}, k : Int]

\* A command block as the driver sends it.
Tagged(c, n) == [op |-> c.op, dir |-> c.dir, len |-> c.len, n |-> c.n, lba |-> c.lba, arg |-> c.arg, tag |-> n]
Cbws == {NoCbw} \union {Tagged(c, n) : c \in Commands, n \in Nat \ {0}}
Packets == [cmd : Cbws, data : Seq(DataUnit)]

Statuses == {"none", "passed", "failed", "phase error"}

LunOK ==
    /\ lun \in [open : BOOLEAN, ro : BOOLEAN, first : Nat, count : Nat, prevent : BOOLEAN, sense : Senses]
    /\ lun.first + lun.count <= DISK

TypesOK ==
    /\ LunOK
    /\ lunCmd \in Cbws
    /\ driver \in [cmd : Cbws, sent : Nat, last : Statuses]
    /\ buffer = [k \in 1 .. BUF |-> buffer[k]]
    /\ DOMAIN disk = Sectors /\ \A s \in Sectors : Len(disk[s]) = SECT
    /\ uses \in [commands : Nat, mounts : Nat]
    /\ bulkOut \in Seq(Packets)

\* The queue q holds the data of the command of the driver d from unit w on,
\* packet after packet: the packet i carries the units after off[i] up to off[i + 1].
DataFrom(q, w, d) ==
    \E off \in [1 .. Len(q) + 1 -> 0 .. d.cmd.len] :
        /\ off[1] = w /\ off[Len(q) + 1] = d.sent
        /\ \A i \in 1 .. Len(q) :
              /\ off[i] < off[i + 1]
              /\ q[i].cmd = NoCbw
              /\ q[i].data = SubSeq(DataOf(d.cmd), off[i] + 1, off[i + 1])

\* Nothing is asked for: nothing is under way, and the device expects a command.
Quiet ==
    /\ driver.cmd = NoCbw /\ driver.sent = 0
    /\ bulkOut = <<>> /\ reply = NoReply
    /\ written \in 0 .. lunCmd.len /\ NewCommand

\* The command block is in the queue, and behind it the data sent so far.
Asked ==
    /\ Waiting /\ reply = NoReply
    /\ written \in 0 .. lunCmd.len /\ NewCommand
    /\ bulkOut # <<>> /\ Head(bulkOut).cmd = driver.cmd
    /\ IF TakesAll(driver.cmd) THEN Tail(bulkOut) = <<>> /\ driver.sent = 0
       ELSE DataFrom(Tail(bulkOut), 0, driver)

\* The device collects the data of the command.
Collecting ==
    /\ Waiting /\ reply = NoReply
    /\ lunCmd = driver.cmd /\ ~TakesAll(lunCmd)
    /\ written \in 0 .. lunCmd.len - 1
    /\ DataFrom(bulkOut, written, driver)
    /\ \A k \in 1 .. written : buffer[k] = DataOf(driver.cmd)[k]

\* The command has been carried out; its data and status wait for the host.
Replied ==
    /\ Waiting /\ reply # NoReply /\ reply.tag = driver.cmd.tag /\ reply.status \in Statuses
    /\ lunCmd = driver.cmd /\ written \in 0 .. lunCmd.len /\ NewCommand
    /\ bulkOut = <<>>
    /\ driver.sent = IF TakesAll(driver.cmd) THEN 0 ELSE driver.cmd.len
    /\ reply.residue \in 0 .. driver.cmd.len /\ Len(reply.data) <= BUF

Flow == Quiet \/ Asked \/ Collecting \/ Replied

\* The sense data says how the command before this one ended.
SenseKept ==
    IF reply = NoReply THEN /\ driver.last = "failed" => lun.sense # "none"
                            /\ driver.last = "passed" => lun.sense = "none"
    ELSE /\ reply.status = "failed" => lun.sense # "none"
         /\ reply.status = "passed" => lun.sense = "none"
         /\ SenseExplains

MassInv == TypesOK /\ Flow /\ SenseKept /\ ResidueTruthful

-----------------------------------------------------------------------------
(* Sequences and packets.                                                   *)

LEMMA CbwOK ==
    ASSUME NEW c \in Cbws
    PROVE  c.len \in 0 .. BUF /\ c.n \in Nat /\ c.lba \in Nat /\ c.tag \in Nat
BY SizeAssumption, CommandsAssumption DEF Cbws, Tagged, NoCbw

LEMMA OnlyNoCbw ==
    ASSUME NEW c \in Cbws, c.tag = 0
    PROVE  c = NoCbw
BY DEF Cbws, Tagged, NoCbw

LEMMA DataOfSeq ==
    ASSUME NEW c \in Cbws
    PROVE  DataOf(c) \in Seq(DataUnit) /\ Len(DataOf(c)) = c.len
<1>1. c.len \in Nat /\ c.tag \in Nat
  BY CbwOK, SizeAssumption
<1>2. \A k \in 1 .. c.len : c.tag * (BUF + 1) + k \in Int
  BY <1>1, SizeAssumption
<1> DEFINE unit(k) == [t |-> "data", k |-> c.tag * (BUF + 1) + k]
<1>3. \A k \in 1 .. c.len : unit(k) \in DataUnit
  BY <1>2 DEF DataUnit
<1>4. DataOf(c) = [k \in 1 .. c.len |-> unit(k)]
  BY DEF DataOf
<1> HIDE DEF unit
<1>5. DataOf(c) \in [1 .. c.len -> DataUnit]
  BY <1>3, <1>4
<1> QED BY <1>1, <1>5

\* The units after a up to b.
LEMMA Cut ==
    ASSUME NEW S, NEW s \in Seq(S), NEW a \in Nat, NEW b \in Nat, a <= b, b <= Len(s)
    PROVE  /\ SubSeq(s, a + 1, b) \in Seq(S)
           /\ Len(SubSeq(s, a + 1, b)) = b - a
           /\ \A i \in 1 .. b - a : SubSeq(s, a + 1, b)[i] = s[a + i]
<1>1. \A i \in a + 1 .. b : s[i] \in S
  BY ElementOfSeq
<1>2. /\ SubSeq(s, a + 1, b) \in Seq(S)
      /\ Len(SubSeq(s, a + 1, b)) = IF a + 1 <= b THEN b - (a + 1) + 1 ELSE 0
      /\ \A i \in 1 .. b - (a + 1) + 1 : SubSeq(s, a + 1, b)[i] = s[a + 1 + i - 1]
  BY <1>1, SubSeqProperties
<1>3. b - (a + 1) + 1 = b - a OBVIOUS
<1>4. \A i \in 1 .. b - a : a + 1 + i - 1 = a + i OBVIOUS
<1> QED BY <1>2, <1>3, <1>4

LEMMA DataFromNone ==
    ASSUME NEW d, NEW w \in 0 .. d.cmd.len, d.sent = w
    PROVE  DataFrom(<<>>, w, d)
<1> DEFINE o == [i \in 1 .. Len(<<>>) + 1 |-> w]
<1>1. o \in [1 .. Len(<<>>) + 1 -> 0 .. d.cmd.len] /\ o[1] = w /\ o[Len(<<>>) + 1] = w
  OBVIOUS
<1>2. 1 .. Len(<<>>) = {}
  OBVIOUS
<1> HIDE DEF o
<1> QED BY <1>1, <1>2 DEF DataFrom

\* What is in the queue ends where the driver has come to.
LEMMA DataFromBounds ==
    ASSUME NEW q \in Seq(Packets), NEW d, d.cmd \in Cbws, NEW w, DataFrom(q, w, d)
    PROVE  /\ w \in 0 .. d.cmd.len /\ d.sent \in 0 .. d.cmd.len
           /\ w = d.cmd.len => q = <<>> /\ d.sent = d.cmd.len
<1>0. d.cmd.len \in Nat
  BY CbwOK, SizeAssumption
<1>1. PICK off \in [1 .. Len(q) + 1 -> 0 .. d.cmd.len] :
        /\ off[1] = w /\ off[Len(q) + 1] = d.sent
        /\ \A i \in 1 .. Len(q) : off[i] < off[i + 1]
  BY DEF DataFrom
<1>2. Len(q) \in Nat /\ (Len(q) = 0 => q = <<>>)
  OBVIOUS
<1>3. 1 \in 1 .. Len(q) + 1 /\ Len(q) + 1 \in 1 .. Len(q) + 1
  BY <1>2
<1>4. off[1] \in 0 .. d.cmd.len /\ off[Len(q) + 1] \in 0 .. d.cmd.len
  BY <1>3
<1>5. w = d.cmd.len => Len(q) = 0
  <2> SUFFICES ASSUME w = d.cmd.len, Len(q) # 0 PROVE FALSE
    OBVIOUS
  <2>1. 1 \in 1 .. Len(q) /\ 2 \in 1 .. Len(q) + 1
    BY <1>2
  <2>2. off[2] \in 0 .. d.cmd.len /\ off[1] < off[1 + 1]
    BY <1>1, <2>1
  <2> QED BY <1>0, <1>1, <2>2
<1>6. Len(q) = 0 => d.sent = w
  BY <1>1
<1> QED BY <1>1, <1>2, <1>4, <1>5, <1>6

\* The packet at the head carries the next units, and the rest follows.
LEMMA DataFromHead ==
    ASSUME NEW q \in Seq(Packets), q # <<>>, NEW d, d.cmd \in Cbws, NEW w, DataFrom(q, w, d)
    PROVE  \E v \in w + 1 .. d.cmd.len :
              /\ w \in Nat /\ Head(q).cmd = NoCbw
              /\ Len(Head(q).data) = v - w
              /\ \A i \in 1 .. v - w : Head(q).data[i] = DataOf(d.cmd)[w + i]
              /\ DataFrom(Tail(q), v, d)
<1> DEFINE len == d.cmd.len
<1>0. len \in Nat
  BY CbwOK, SizeAssumption
<1>1. PICK off \in [1 .. Len(q) + 1 -> 0 .. len] :
        /\ off[1] = w /\ off[Len(q) + 1] = d.sent
        /\ \A i \in 1 .. Len(q) :
              /\ off[i] < off[i + 1]
              /\ q[i].cmd = NoCbw
              /\ q[i].data = SubSeq(DataOf(d.cmd), off[i] + 1, off[i + 1])
  BY DEF DataFrom
<1>2. Len(q) \in Nat \ {0} /\ Head(q) = q[1]
  OBVIOUS
<1>3. /\ Len(Tail(q)) = Len(q) - 1
      /\ \A i \in 1 .. Len(q) - 1 : Tail(q)[i] = q[i + 1]
  BY <1>2
<1> DEFINE v == off[2]
<1>4. w \in Nat /\ v \in w + 1 .. len
  <2>1. 1 \in 1 .. Len(q) /\ 1 \in 1 .. Len(q) + 1 /\ 2 \in 1 .. Len(q) + 1
    BY <1>2
  <2>2. off[1] \in 0 .. len /\ off[2] \in 0 .. len /\ off[1] < off[1 + 1]
    BY <1>1, <2>1
  <2> QED BY <1>0, <1>1, <2>2
<1>5. /\ Len(Head(q).data) = v - w
      /\ \A i \in 1 .. v - w : Head(q).data[i] = DataOf(d.cmd)[w + i]
  <2>1. Head(q).data = SubSeq(DataOf(d.cmd), w + 1, v)
    BY <1>1, <1>2
  <2> QED BY <2>1, <1>0, <1>4, DataOfSeq, Cut
<1>6. DataFrom(Tail(q), v, d)
  <2> DEFINE o == [i \in 1 .. Len(q) |-> off[i + 1]]
  <2>1. o \in [1 .. Len(Tail(q)) + 1 -> 0 .. len]
    BY <1>0, <1>2, <1>3
  <2>2. o[1] = v /\ o[Len(Tail(q)) + 1] = d.sent
    BY <1>1, <1>2, <1>3
  <2>3. \A i \in 1 .. Len(Tail(q)) :
           /\ o[i] < o[i + 1]
           /\ Tail(q)[i].cmd = NoCbw
           /\ Tail(q)[i].data = SubSeq(DataOf(d.cmd), o[i] + 1, o[i + 1])
    BY <1>1, <1>2, <1>3
  <2> HIDE DEF o
  <2> QED BY <2>1, <2>2, <2>3 DEF DataFrom
<1>7. Head(q).cmd = NoCbw
  BY <1>1, <1>2
<1> HIDE DEF v
<1> QED BY <1>4, <1>5, <1>6, <1>7

\* The driver sends the next packet.
LEMMA DataFromAppend ==
    ASSUME NEW q \in Seq(Packets), NEW d, d.cmd \in Cbws, NEW w, DataFrom(q, w, d),
           NEW e, e.cmd = d.cmd, e.sent \in d.sent + 1 .. d.cmd.len,
           NEW p \in Packets, p.cmd = NoCbw, p.data = SubSeq(DataOf(d.cmd), d.sent + 1, e.sent)
    PROVE  DataFrom(Append(q, p), w, e)
<1> DEFINE len == d.cmd.len
<1>0. len \in Nat /\ d.sent \in 0 .. len /\ e.sent \in 0 .. len /\ d.sent < e.sent
  BY CbwOK, SizeAssumption, DataFromBounds
<1>1. PICK off \in [1 .. Len(q) + 1 -> 0 .. len] :
        /\ off[1] = w /\ off[Len(q) + 1] = d.sent
        /\ \A i \in 1 .. Len(q) :
              /\ off[i] < off[i + 1]
              /\ q[i].cmd = NoCbw
              /\ q[i].data = SubSeq(DataOf(d.cmd), off[i] + 1, off[i + 1])
  BY DEF DataFrom
<1>2. Len(q) \in Nat
  OBVIOUS
<1> DEFINE a == Append(q, p)
<1>3. /\ Len(a) = Len(q) + 1
      /\ \A i \in 1 .. Len(q) : a[i] = q[i]
      /\ a[Len(q) + 1] = p
  BY AppendProperties
<1> DEFINE o == [i \in 1 .. Len(q) + 2 |-> IF i = Len(q) + 2 THEN e.sent ELSE off[i]]
<1>4. o \in [1 .. Len(a) + 1 -> 0 .. len]
  <2>1. \A i \in 1 .. Len(q) + 2 : i # Len(q) + 2 => i \in 1 .. Len(q) + 1
    BY <1>2
  <2>2. \A i \in 1 .. Len(q) + 2 : (IF i = Len(q) + 2 THEN e.sent ELSE off[i]) \in 0 .. len
    BY <1>0, <1>1, <2>1
  <2>3. Len(a) + 1 = Len(q) + 2
    BY <1>2, <1>3
  <2> HIDE DEF a
  <2> QED BY <2>2, <2>3
<1>5. o[1] = w /\ o[Len(a) + 1] = e.sent
  BY <1>1, <1>2, <1>3
<1>6. \A i \in 1 .. Len(q) + 1 : o[i] = off[i]
  BY <1>2
<1>7. ASSUME NEW i \in 1 .. Len(a)
      PROVE  /\ o[i] < o[i + 1]
             /\ a[i].cmd = NoCbw
             /\ a[i].data = SubSeq(DataOf(d.cmd), o[i] + 1, o[i + 1])
  <2>1. CASE i \in 1 .. Len(q)
    <3>1. i \in 1 .. Len(q) + 1 /\ i + 1 \in 1 .. Len(q) + 1
      BY <1>2, <2>1
    <3>2. o[i] = off[i] /\ o[i + 1] = off[i + 1] /\ a[i] = q[i]
      BY <1>3, <1>6, <2>1, <3>1
    <3> HIDE DEF o, a
    <3> QED BY <1>1, <2>1, <3>2
  <2>2. CASE i = Len(q) + 1
    <3>1. o[i] = d.sent /\ o[i + 1] = e.sent /\ a[i] = p
      BY <1>1, <1>2, <1>3, <1>6, <2>2
    <3> HIDE DEF o, a
    <3> QED BY <1>0, <3>1
  <2>3. i \in 1 .. Len(q) \/ i = Len(q) + 1
    BY <1>2, <1>3
  <2> QED BY <2>1, <2>2, <2>3
<1> HIDE DEF o
<1> QED BY <1>4, <1>5, <1>7 DEF DataFrom

-----------------------------------------------------------------------------
(* What a command can do.                                                   *)

Luns == [open : BOOLEAN, ro : BOOLEAN, first : Nat, count : Nat, prevent : BOOLEAN, sense : Senses]
Parts(c) == Size(c) \div SECT

\* The result r of the command c leaves the partition as it is and the medium in
\* its place, and a result without sense data is that of the whole command.
OutcomeOK(c, r) ==
    /\ r.lun \in Luns
    /\ r.lun.first = lun.first /\ r.lun.count = lun.count /\ r.lun.ro = lun.ro
    /\ lun.prevent /\ lun.open => r.lun.open
    /\ \/ r.len \in Nat
       \/ r.len = -1 /\ r.done \in 0 .. c.len
    /\ r.stored # {} => c.op = "write" /\ lun.open /\ ~lun.ro
    /\ \A i \in r.stored : i \in 0 .. Parts(c) - 1 /\ c.lba + i < lun.count
    /\ Refused(c) => r.len = 0 /\ r.lun.sense = lun.sense
    /\ ~Refused(c) /\ r.lun.sense = "none" =>
          /\ c.op = "read" =>
                /\ r.len = -1 /\ r.done = Parts(c) * SECT
                /\ c.lba + Parts(c) <= lun.count
                /\ r.fill = Content(c, Parts(c))
          /\ c.op = "write" =>
                /\ r.len = -1 /\ r.done = Parts(c) * SECT
                /\ c.lba + Parts(c) <= lun.count
                /\ r.stored = 0 .. Parts(c) - 1
          /\ c.op = "sense" => r.fill = [k \in 1 .. 2 |-> [t |-> lun.sense, k |-> k]]

LEMMA SizeOK ==
    ASSUME NEW c \in Cbws
    PROVE  /\ DataSize(c) \in Nat /\ Size(c) \in 0 .. c.len
           /\ Parts(c) \in Nat /\ Parts(c) * SECT \in 0 .. Size(c)
<1>1. c.n \in Nat /\ c.len \in Nat
  BY CbwOK, SizeAssumption
<1>2. c.n * SECT \in Nat
  BY <1>1, SizeAssumption
<1>3. DataSize(c) \in Nat
  BY <1>1, <1>2 DEF DataSize
<1>4. Size(c) \in 0 .. c.len
  BY <1>1, <1>3 DEF Size, Lesser
<1>5. \A m \in Nat : m \div SECT \in Nat /\ (m \div SECT) * SECT \in 0 .. m
  BY SizeAssumption
<1> QED BY <1>1, <1>3, <1>4, <1>5 DEF Parts

\* A command that fails, passes, or has a short reply.
LEMMA PlainOK ==
    ASSUME NEW c \in Cbws, LunOK, NEW s \in Senses, NEW len \in Nat, NEW fill, ~Refused(c),
           s = "none" => /\ c.op \notin {"read", "write"}
                         /\ c.op = "sense" => fill = [k \in 1 .. 2 |-> [t |-> lun.sense, k |-> k]]
    PROVE  OutcomeOK(c, Result(Sense(s), len, 0, fill, {}))
BY DEF OutcomeOK, Result, Sense, LunOK, Luns

LEMMA RepliesOK ==
    ASSUME NEW c \in Cbws, LunOK, ~Refused(c), c.op \notin {"read", "write", "sense"}, NEW t, NEW len \in Nat,
           NEW r \in Replies(t, len)
    PROVE  OutcomeOK(c, r)
BY PlainOK DEF Replies, Senses

LEMMA FailsOK ==
    ASSUME NEW c \in Cbws, LunOK, ~Refused(c), NEW s \in Senses \ {"none"}, NEW r \in Fails(s)
    PROVE  OutcomeOK(c, r)
BY PlainOK DEF Fails

LEMMA PassesOK ==
    ASSUME NEW c \in Cbws, LunOK, ~Refused(c), c.op \notin {"read", "write", "sense"}, NEW r \in Passes
    PROVE  OutcomeOK(c, r)
BY PlainOK DEF Passes, Senses

LEMMA ReadOK ==
    ASSUME NEW c \in Cbws, LunOK, ~Refused(c), c.op = "read", NEW r \in do_read(c)
    PROVE  OutcomeOK(c, r)
<1>1. CASE r \in Fails("invalid field") \union Fails("out of range")
  BY <1>1, FailsOK DEF Senses
<1>2. CASE r \notin Fails("invalid field") \union Fails("out of range")
  <2>1. /\ ~BeyondUnit(c, Parts(c))
        /\ \/ r = Result(Sense("none"), -1, Parts(c) * SECT, Content(c, Parts(c)), {})
           \/ r \in ReadFails(c, Parts(c), -1, Parts(c) * SECT)
    BY <1>2 DEF do_read, Parts
  <2>2. c.lba + Parts(c) <= lun.count
    BY <2>1, CbwOK, SizeOK DEF BeyondUnit, LunOK
  <2>3. Parts(c) * SECT \in 0 .. c.len
    BY SizeOK, CbwOK, SizeAssumption
  <2>4. CASE r = Result(Sense("none"), -1, Parts(c) * SECT, Content(c, Parts(c)), {})
    BY <2>2, <2>3, <2>4 DEF OutcomeOK, Result, Sense, LunOK, Luns, Senses
  <2>5. CASE r \in ReadFails(c, Parts(c), -1, Parts(c) * SECT)
    <3>1. PICK fill : r = Result(Sense("read error"), -1, Parts(c) * SECT, fill, {})
      BY <2>5 DEF ReadFails
    <3> QED BY <2>3, <3>1 DEF OutcomeOK, Result, Sense, LunOK, Luns, Senses
  <2> QED BY <2>1, <2>4, <2>5
<1> QED BY <1>1, <1>2

LEMMA WriteOK ==
    ASSUME NEW c \in Cbws, LunOK, lun.open, ~Refused(c), c.op = "write", NEW r \in do_write(c)
    PROVE  OutcomeOK(c, r)
<1>1. CASE r \in Fails("write protected") \union Fails("invalid field") \union Fails("out of range")
  BY <1>1, FailsOK DEF Senses
<1>2. CASE r \notin Fails("write protected") \union Fails("invalid field") \union Fails("out of range")
  <2>1. /\ ~BeyondUnit(c, Parts(c)) /\ ~lun.ro
        /\ \/ r = Result(Sense("none"), -1, Parts(c) * SECT, <<>>, 0 .. Parts(c) - 1)
           \/ \E part \in SUBSET (0 .. Parts(c) - 1) : r = Result(Sense("write error"), -1, 0, <<>>, part)
    BY <1>2 DEF do_write, Parts, Protected, Processed
  <2>2. c.lba + Parts(c) <= lun.count
    <3>1. c.lba \in Nat /\ Parts(c) \in Nat /\ lun.count \in Nat
      BY CbwOK, SizeOK DEF LunOK
    <3>2. ~BeyondUnit(c, Parts(c))
      BY <2>1
    <3> QED BY <3>1, <3>2 DEF BeyondUnit
  <2>3. Parts(c) * SECT \in 0 .. c.len /\ 0 \in 0 .. c.len
    BY SizeOK, CbwOK, SizeAssumption
  <2>4. \A i \in 0 .. Parts(c) - 1 : c.lba + i < lun.count
    BY <2>2, CbwOK, SizeOK DEF LunOK
  <2>5. CASE r = Result(Sense("none"), -1, Parts(c) * SECT, <<>>, 0 .. Parts(c) - 1)
    BY <2>1, <2>2, <2>3, <2>4, <2>5 DEF OutcomeOK, Result, Sense, LunOK, Luns, Senses
  <2>6. CASE \E part \in SUBSET (0 .. Parts(c) - 1) : r = Result(Sense("write error"), -1, 0, <<>>, part)
    <3>1. PICK part \in SUBSET (0 .. Parts(c) - 1) : r = Result(Sense("write error"), -1, 0, <<>>, part)
      BY <2>6
    <3> QED BY <2>1, <2>3, <2>4, <3>1 DEF OutcomeOK, Result, Sense, LunOK, Luns, Senses
  <2> QED BY <2>1, <2>5, <2>6
<1> QED BY <1>1, <1>2

LEMMA VerifyOK ==
    ASSUME NEW c \in Cbws, LunOK, ~Refused(c), c.op = "verify", NEW r \in do_verify(c)
    PROVE  OutcomeOK(c, r)
<1>1. CASE r \in Fails("invalid field") \union Fails("out of range")
  BY <1>1, FailsOK DEF Senses
<1>2. CASE r \notin Fails("invalid field") \union Fails("out of range")
  <2>1. \/ r = Result(Sense("none"), -1, 0, <<>>, {})
        \/ r = Result(Sense("none"), 0, 0, Content(c, c.n), {})
        \/ r \in ReadFails(c, c.n, 0, 0)
    BY <1>2 DEF do_verify
  <2>2. 0 \in 0 .. c.len
    BY CbwOK, SizeAssumption
  <2>3. CASE r = Result(Sense("none"), -1, 0, <<>>, {})
    BY <2>2, <2>3 DEF OutcomeOK, Result, Sense, LunOK, Luns, Senses
  <2>4. CASE r = Result(Sense("none"), 0, 0, Content(c, c.n), {})
    BY <2>4, PlainOK DEF Senses
  <2>5. CASE r \in ReadFails(c, c.n, 0, 0)
    BY <2>5, PlainOK DEF ReadFails, Senses
  <2> QED BY <2>1, <2>3, <2>4, <2>5
<1> QED BY <1>1, <1>2

\* An eject takes the medium only when its removal is allowed.
LEMMA StartStopOK ==
    ASSUME NEW c \in Cbws, LunOK, ~Refused(c), c.op = "startstop", NEW r \in do_start_stop(c)
    PROVE  OutcomeOK(c, r)
<1>1. CASE r \in Fails("invalid field") \union Fails("no medium") \union Fails("removal prevented")
  BY <1>1, FailsOK DEF Senses
<1>2. CASE r \in Passes
  BY <1>2, PassesOK
<1>3. CASE ~lun.prevent /\ r = Result([Sense("none") EXCEPT !.open = @ /\ "eject" \notin c.arg], 0, 0, <<>>, {})
  BY <1>3 DEF OutcomeOK, Result, Sense, LunOK, Luns, Senses
<1> QED BY <1>1, <1>2, <1>3 DEF do_start_stop, RemovalAllowed

LEMMA PreventOK ==
    ASSUME NEW c \in Cbws, LunOK, ~Refused(c), c.op = "prevent", NEW r \in do_prevent_allow(c)
    PROVE  OutcomeOK(c, r)
<1>1. CASE r \in Fails("invalid field")
  BY <1>1, FailsOK DEF Senses
<1>2. CASE r = Result([Sense("none") EXCEPT !.prevent = "prevent" \in c.arg], 0, 0, <<>>, {})
  <2> DEFINE b == "prevent" \in c.arg
  <2>1. b \in BOOLEAN
    OBVIOUS
  <2>2. r = Result([Sense("none") EXCEPT !.prevent = b], 0, 0, <<>>, {})
    BY <1>2
  <2> HIDE DEF b
  <2> QED BY <2>1, <2>2 DEF OutcomeOK, Result, Sense, LunOK, Luns, Senses
<1> QED BY <1>1, <1>2 DEF do_prevent_allow

LEMMA ExecuteOK ==
    ASSUME NEW c \in Cbws, LunOK, NEW r \in Execute(c)
    PROVE  OutcomeOK(c, r)
<1>1. CASE Refused(c)
  <2>1. r = Result(lun, 0, 0, <<>>, {})
    BY <1>1 DEF Execute
  <2> QED BY <1>1, <2>1 DEF OutcomeOK, Result, LunOK, Luns
<1>2. CASE ~Refused(c) /\ ~Checked(c)
  <2>1. r \in Fails(CheckSense(c)) /\ CheckSense(c) \in Senses \ {"none"}
    BY <1>2 DEF Execute, CheckSense, Senses
  <2> QED BY <1>2, <2>1, FailsOK
<1>3. CASE ~Refused(c) /\ Checked(c)
  <2>0. c.op = "write" => lun.open
    BY <1>3 DEF Checked, NeedsMedium
  <2>1. r \in CASE c.op = "inquiry" -> do_inquiry
              [] c.op = "modeselect" -> do_mode_select
              [] c.op = "modesense" -> do_mode_sense(c)
              [] c.op = "prevent" -> do_prevent_allow(c)
              [] c.op = "read" -> do_read(c)
              [] c.op = "capacity" -> do_read_capacity(c)
              [] c.op = "formatcap" -> do_read_format_capacities
              [] c.op = "sense" -> do_request_sense(c)
              [] c.op = "startstop" -> do_start_stop(c)
              [] c.op = "sync" -> do_synchronize_cache
              [] c.op = "ready" -> Passes
              [] c.op = "verify" -> do_verify(c)
              [] c.op = "write" -> do_write(c)
              [] OTHER -> Fails("invalid command")
    BY <1>3 DEF Execute
  <2>2. CASE c.op = "inquiry"
    <3>1. r \in do_inquiry
      BY <2>1, <2>2
    <3> QED BY <1>3, <2>2, <3>1, RepliesOK DEF do_inquiry
  <2>3. CASE c.op = "modeselect"
    <3>1. r \in do_mode_select
      BY <2>1, <2>3
    <3> QED BY <1>3, <2>3, <3>1, FailsOK DEF do_mode_select, Senses
  <2>4. CASE c.op = "modesense"
    <3>1. r \in do_mode_sense(c)
      BY <2>1, <2>4
    <3> QED BY <1>3, <2>4, <3>1, RepliesOK, FailsOK DEF do_mode_sense, Senses
  <2>5. CASE c.op = "prevent"
    <3>1. r \in do_prevent_allow(c)
      BY <2>1, <2>5
    <3> QED BY <1>3, <2>5, <3>1, PreventOK
  <2>6. CASE c.op = "read"
    <3>1. r \in do_read(c)
      BY <2>1, <2>6
    <3> QED BY <1>3, <2>6, <3>1, ReadOK
  <2>7. CASE c.op = "capacity"
    <3>1. r \in do_read_capacity(c)
      BY <2>1, <2>7
    <3> QED BY <1>3, <2>7, <3>1, RepliesOK, FailsOK DEF do_read_capacity, Senses
  <2>8. CASE c.op = "formatcap"
    <3>1. r \in do_read_format_capacities
      BY <2>1, <2>8
    <3> QED BY <1>3, <2>8, <3>1, RepliesOK DEF do_read_format_capacities
  <2>9. CASE c.op = "sense"
    <3>1. r \in do_request_sense(c)
      BY <2>1, <2>9
    <3> QED BY <1>3, <2>9, <3>1, PlainOK DEF do_request_sense, Replies, PendingSense, Senses
  <2>10. CASE c.op = "startstop"
    <3>1. r \in do_start_stop(c)
      BY <2>1, <2>10
    <3> QED BY <1>3, <2>10, <3>1, StartStopOK
  <2>11. CASE c.op = "sync"
    <3>1. r \in do_synchronize_cache
      BY <2>1, <2>11
    <3> QED BY <1>3, <2>11, <3>1, PassesOK DEF do_synchronize_cache
  <2>12. CASE c.op = "ready"
    <3>1. r \in Passes
      BY <2>1, <2>12
    <3> QED BY <1>3, <2>12, <3>1, PassesOK
  <2>13. CASE c.op = "verify"
    <3>1. r \in do_verify(c)
      BY <2>1, <2>13
    <3> QED BY <1>3, <2>13, <3>1, VerifyOK
  <2>14. CASE c.op = "write"
    <3>1. r \in do_write(c)
      BY <2>1, <2>14
    <3> QED BY <1>3, <2>14, <3>1, <2>0, WriteOK
  <2>15. CASE c.op \notin {"inquiry", "modeselect", "modesense", "prevent", "read", "capacity", "formatcap", "sense",
                      "startstop", "sync", "ready", "verify", "write"}
    <3>1. r \in Fails("invalid command")
      BY <2>1, <2>15
    <3> QED BY <1>3, <3>1, FailsOK DEF Senses
  <2> QED BY <2>2, <2>3, <2>4, <2>5, <2>6, <2>7, <2>8, <2>9, <2>10, <2>11, <2>12, <2>13, <2>14, <2>15
<1> QED BY <1>1, <1>2, <1>3
-----------------------------------------------------------------------------
(* Sectors of the buffer and the disk.                                      *)

LEMMA SectorOK ==
    ASSUME NEW b, NEW i \in Nat
    PROVE  /\ Len(Sector(b, i)) = SECT
           /\ \A j \in 1 .. SECT : Sector(b, i)[j] = b[i * SECT + j]
<1> DEFINE m == i * SECT + 1
           n == (i + 1) * SECT
           S == {b[k] : k \in m .. n}
<1>1. m \in Nat /\ n \in Nat /\ m <= n /\ n - m + 1 = SECT /\ \A j \in 1 .. SECT : m + j - 1 = i * SECT + j
  BY SizeAssumption
<1>2. \A k \in m .. n : b[k] \in S
  OBVIOUS
<1> HIDE DEF S, m, n
<1>3. /\ Len(SubSeq(b, m, n)) = IF m <= n THEN n - m + 1 ELSE 0
      /\ \A j \in 1 .. n - m + 1 : SubSeq(b, m, n)[j] = b[m + j - 1]
  BY <1>1, <1>2, SubSeqProperties
<1>4. /\ Len(SubSeq(b, m, n)) = SECT
      /\ \A j \in 1 .. SECT : SubSeq(b, m, n)[j] = b[i * SECT + j]
  BY <1>1, <1>3
<1> QED BY <1>4 DEF Sector, m, n

\* The unit k of a range of n sectors: its sector, and its place there.
LEMMA UnitPlace ==
    ASSUME NEW n \in Nat, NEW k \in 1 .. n * SECT
    PROVE  /\ (k - 1) \div SECT \in 0 .. n - 1
           /\ ((k - 1) % SECT) + 1 \in 1 .. SECT
           /\ ((k - 1) \div SECT) * SECT + (((k - 1) % SECT) + 1) = k
<1>1. /\ (k - 1) \div SECT \in Nat /\ (k - 1) % SECT \in 0 .. SECT - 1
      /\ k - 1 = ((k - 1) \div SECT) * SECT + ((k - 1) % SECT)
  <2>1. \A x \in Nat : x \div SECT \in Nat /\ x % SECT \in 0 .. SECT - 1 /\ x = (x \div SECT) * SECT + (x % SECT)
    BY SizeAssumption
  <2>2. n * SECT \in Nat
    BY SizeAssumption
  <2>3. k - 1 \in Nat
    BY <2>2
  <2> QED BY <2>1, <2>3
<1>2. (k - 1) \div SECT < n
  <2> DEFINE d == (k - 1) \div SECT
  <2>1. SUFFICES ASSUME d >= n PROVE FALSE
    BY <1>1
  <2>2. d * SECT >= n * SECT
    <3> HIDE DEF d
    <3>1. d \in Nat BY <1>1 DEF d
    <3> QED BY <2>1, <3>1, SizeAssumption
  <2> QED BY <1>1, <2>2, SizeAssumption
<1> QED BY <1>1, <1>2, SizeAssumption

\* What the end of do_scsi_command leaves on the disk.
LEMMA StoredOK ==
    ASSUME NEW c \in Cbws, TypesOK, NEW r, OutcomeOK(c, r), NEW b,
           disk' = [s \in Sectors |-> IF \E i \in r.stored : NandSector(c, i) = s
                                      THEN Sector(b, CHOOSE i \in r.stored : NandSector(c, i) = s) ELSE disk[s]]
    PROVE  /\ DOMAIN disk' = Sectors /\ \A s \in Sectors : Len(disk'[s]) = SECT
           /\ \A i \in r.stored : NandSector(c, i) \in Sectors /\ disk'[NandSector(c, i)] = Sector(b, i)
           /\ \A s \in Sectors : disk'[s] # disk[s] =>
                 c.op = "write" /\ lun.open /\ ~lun.ro /\ s \in lun.first .. lun.first + lun.count - 1
<1>1. \A i \in r.stored : i \in Nat /\ NandSector(c, i) \in lun.first .. lun.first + lun.count - 1
  <2> SUFFICES ASSUME NEW i \in r.stored
               PROVE  i \in Nat /\ NandSector(c, i) \in lun.first .. lun.first + lun.count - 1
    OBVIOUS
  <2>1. i \in 0 .. Parts(c) - 1 /\ c.lba + i < lun.count
    BY DEF OutcomeOK
  <2>2. Parts(c) \in Nat /\ c.lba \in Nat /\ lun.first \in Nat /\ lun.count \in Nat
    BY SizeOK, CbwOK DEF TypesOK, LunOK
  <2> QED BY <2>1, <2>2 DEF NandSector
<1>2. \A i \in r.stored : NandSector(c, i) \in Sectors
  BY <1>1, SizeAssumption DEF TypesOK, LunOK, Sectors
<1>3. \A i \in r.stored : (CHOOSE j \in r.stored : NandSector(c, j) = NandSector(c, i)) = i
  <2> SUFFICES ASSUME NEW i \in r.stored
               PROVE  (CHOOSE j \in r.stored : NandSector(c, j) = NandSector(c, i)) = i
    OBVIOUS
  <2>1. \A j \in r.stored : NandSector(c, j) = NandSector(c, i) => j = i
    <3>1. c.lba \in Nat /\ lun.first \in Nat
      BY CbwOK DEF TypesOK, LunOK
    <3> QED BY <1>1, <3>1 DEF NandSector
  <2> DEFINE found == CHOOSE j \in r.stored : NandSector(c, j) = NandSector(c, i)
  <2>2. found \in r.stored /\ NandSector(c, found) = NandSector(c, i)
    BY Zenon
  <2> QED BY <2>1, <2>2, Zenon
<1>4. \A s \in Sectors : Len(disk'[s]) = SECT
  <2> SUFFICES ASSUME NEW s \in Sectors PROVE Len(disk'[s]) = SECT
    OBVIOUS
  <2>1. CASE \E i \in r.stored : NandSector(c, i) = s
    BY <1>1, <1>3, <2>1, SectorOK
  <2>2. CASE ~\E i \in r.stored : NandSector(c, i) = s
    BY <2>2 DEF TypesOK
  <2> QED BY <2>1, <2>2
<1>5. \A i \in r.stored : disk'[NandSector(c, i)] = Sector(b, i)
  BY <1>2, <1>3
<1>6. \A s \in Sectors : disk'[s] # disk[s] => \E i \in r.stored : NandSector(c, i) = s
  OBVIOUS
<1>7. r.stored # {} => c.op = "write" /\ lun.open /\ ~lun.ro
  BY DEF OutcomeOK
<1> QED BY <1>1, <1>2, <1>4, <1>5, <1>6, <1>7
-----------------------------------------------------------------------------
(* The status of a command.                                                 *)

KeepsVolume == \A s \in Sectors : disk'[s] # disk[s] =>
                  /\ driver.cmd.op = "write" /\ lun.open /\ ~lun.ro
                  /\ s \in lun.first .. lun.first + lun.count - 1
KeepsMedium == lun.prevent /\ lun.open => [lun' EXCEPT !.prevent = TRUE, !.sense = lun.sense] = lun

\* The residue of the result r.
LEMMA ResidueOK ==
    ASSUME NEW c \in Cbws, NEW r, OutcomeOK(c, r)
    PROVE  /\ Residue(c, r) \in 0 .. c.len
           /\ Refused(c) => Residue(c, r) = c.len
           /\ r.len = -1 => Residue(c, r) = c.len - r.done
<1>1. c.len \in Nat /\ Size(c) \in 0 .. c.len
  BY CbwOK, SizeOK, SizeAssumption
<1>2. CASE r.len = -1 /\ r.done \in 0 .. c.len
  <2>1. Residue(c, r) = c.len - r.done
    BY <1>2 DEF Residue
  <2>2. ~Refused(c)
    BY <1>2 DEF OutcomeOK
  <2> QED BY <1>1, <1>2, <2>1, <2>2
<1>3. CASE r.len \in Nat
  <2>1. Residue(c, r) = IF CbwDirection(c) = "in" THEN c.len - Lesser(r.len, Size(c)) ELSE c.len
    BY <1>3 DEF Residue
  <2>2. Lesser(r.len, Size(c)) \in 0 .. c.len /\ (r.len = 0 => Lesser(r.len, Size(c)) = 0)
    BY <1>1, <1>3 DEF Lesser
  <2>3. Refused(c) => r.len = 0
    BY DEF OutcomeOK
  <2> QED BY <1>1, <1>3, <2>1, <2>2, <2>3
<1> QED BY <1>2, <1>3 DEF OutcomeOK

\* A command that passes is one whose whole size was announced.
LEMMA WholeSize ==
    ASSUME NEW c \in Cbws, c.op \in {"read", "write"}
    PROVE  /\ DataSize(c) = c.n * SECT
           /\ Parts(c) # 0 /\ ~Refused(c) =>
                 CbwDirection(c) = (IF c.op = "read" THEN "in" ELSE "out") /\ (c.op = "write" => ~TakesAll(c))
           /\ ~PhaseError(c) => Parts(c) = c.n
<1>1. c.n \in Nat /\ c.len \in Nat /\ c.n * SECT \in Nat
  BY CbwOK, SizeAssumption
<1>2. DataSize(c) = c.n * SECT
  BY DEF DataSize
<1>3. ASSUME Parts(c) # 0, ~Refused(c)
      PROVE  CbwDirection(c) = (IF c.op = "read" THEN "in" ELSE "out") /\ (c.op = "write" => ~TakesAll(c))
  <2>1. Size(c) > 0
    <3>1. \A m \in Nat : m = 0 => m \div SECT = 0
      BY SizeAssumption
    <3> QED BY <1>1, <1>3, <3>1, SizeOK DEF Parts
  <2>2. DataSize(c) > 0
    BY <1>1, <1>2, <2>1 DEF Size, Lesser
  <2>3. CbwDirection(c) = Direction(c)
    BY <1>3, <2>1 DEF Refused
  <2>4. Direction(c) = IF c.op = "read" THEN "in" ELSE "out"
    BY <2>2, <1>1, <1>2 DEF Direction, ToHost
  <2> QED BY <2>3, <2>4 DEF CbwDirection, TakesAll
<1>4. ASSUME ~PhaseError(c) PROVE Parts(c) = c.n
  <2>1. ~(c.len < DataSize(c))
    BY <1>4 DEF PhaseError
  <2>2. Size(c) = c.n * SECT
    BY <1>1, <1>2, <2>1 DEF Size, Lesser
  <2>3. \A m \in Nat : (m * SECT) \div SECT = m
    BY SizeAssumption
  <2> QED BY <1>1, <2>2, <2>3 DEF Parts
<1> QED BY <1>2, <1>3, <1>4

LEMMA CarryOK ==
    ASSUME TypesOK, reply = NoReply, SenseKept, NEW c \in Cbws, c.tag # 0, driver.cmd = c, driver' = driver,
           NEW b, TakesAll(c) \/ \A k \in 1 .. c.len : b[k] = DataOf(c)[k],
           Carry(c, b)
    PROVE  /\ LunOK' /\ buffer' = [k \in 1 .. BUF |-> buffer'[k]]
           /\ DOMAIN disk' = Sectors /\ \A s \in Sectors : Len(disk'[s]) = SECT
           /\ reply' # NoReply /\ reply'.tag = c.tag /\ reply'.status \in Statuses
           /\ reply'.residue \in 0 .. c.len /\ Len(reply'.data) <= BUF
           /\ SenseKept' /\ ResidueTruthful' /\ KeepsVolume /\ KeepsMedium
<1>1. PICK r \in Execute(c) :
        /\ lun' = r.lun
        /\ buffer' = [k \in 1 .. BUF |-> IF k <= Len(r.fill) THEN r.fill[k] ELSE b[k]]
        /\ disk' = [s \in Sectors |-> IF \E i \in r.stored : NandSector(c, i) = s
                                      THEN Sector(b, CHOOSE i \in r.stored : NandSector(c, i) = s) ELSE disk[s]]
        /\ reply' = [tag |-> c.tag, status |-> Status(c, r.lun), residue |-> Residue(c, r),
                     data |-> IF CbwDirection(c) = "in" THEN SubSeq(buffer', 1, c.len) ELSE <<>>]
  BY DEF Carry
<1>2. OutcomeOK(c, r)
  BY ExecuteOK DEF TypesOK
<1>3. /\ reply'.tag = c.tag /\ reply'.status = Status(c, r.lun) /\ reply'.residue = Residue(c, r)
      /\ reply'.data = IF CbwDirection(c) = "in" THEN SubSeq(buffer', 1, c.len) ELSE <<>>
  BY <1>1
<1>4. LunOK'
  BY <1>1, <1>2 DEF OutcomeOK, LunOK, Luns, TypesOK
<1>5. buffer' = [k \in 1 .. BUF |-> buffer'[k]]
  BY <1>1
<1>6. /\ DOMAIN disk' = Sectors /\ \A s \in Sectors : Len(disk'[s]) = SECT
      /\ \A i \in r.stored : NandSector(c, i) \in Sectors /\ disk'[NandSector(c, i)] = Sector(b, i)
      /\ \A s \in Sectors : disk'[s] # disk[s] =>
            c.op = "write" /\ lun.open /\ ~lun.ro /\ s \in lun.first .. lun.first + lun.count - 1
  BY <1>1, <1>2, StoredOK
<1>7. reply' # NoReply /\ reply'.status \in Statuses
  <2>1. Status(c, r.lun) \in Statuses
    BY DEF Status, Statuses
  <2> QED BY <1>3, <2>1 DEF NoReply
<1>8. c.len \in 0 .. BUF /\ c.len \in Nat /\ BUF \in Nat
  BY CbwOK, SizeAssumption
<1>9. CbwDirection(c) = "in" =>
         /\ Len(reply'.data) = c.len
         /\ \A k \in 1 .. c.len : reply'.data[k] = IF k <= Len(r.fill) THEN r.fill[k] ELSE b[k]
  <2>1. SUFFICES ASSUME CbwDirection(c) = "in"
        PROVE  /\ Len(SubSeq(buffer', 1, c.len)) = c.len
               /\ \A k \in 1 .. c.len : SubSeq(buffer', 1, c.len)[k] = buffer'[k]
    BY <1>1, <1>3, <1>8
  <2> DEFINE S == {buffer'[k] : k \in 1 .. c.len}
  <2>2. \A k \in 1 .. c.len : buffer'[k] \in S
    OBVIOUS
  <2> HIDE DEF S
  <2>3. /\ Len(SubSeq(buffer', 1, c.len)) = IF 1 <= c.len THEN c.len - 1 + 1 ELSE 0
        /\ \A k \in 1 .. c.len - 1 + 1 : SubSeq(buffer', 1, c.len)[k] = buffer'[1 + k - 1]
    BY <1>8, <2>2, SubSeqProperties
  <2> QED BY <1>8, <2>3
<1>10. Len(reply'.data) <= BUF
  BY <1>3, <1>8, <1>9
<1>11. reply'.residue \in 0 .. c.len
  BY <1>2, <1>3, ResidueOK
<1>12. /\ reply'.status = "failed" => r.lun.sense # "none"
       /\ reply'.status = "passed" => r.lun.sense = "none" /\ ~PhaseError(c)
  BY <1>3 DEF Status
<1>13. SenseExplains'
  <2> SUFFICES ASSUME reply'.status = "passed", c.op = "sense", reply'.data # <<>>
               PROVE  /\ driver.last = "failed" => reply'.data[1].t \in Senses \ {"none"}
                      /\ driver.last = "passed" => reply'.data[1].t = "none"
    BY DEF SenseExplains
  <2>1. r.lun.sense = "none" /\ ~Refused(c)
    BY <1>12 DEF PhaseError
  <2>2. r.fill = [k \in 1 .. 2 |-> [t |-> lun.sense, k |-> k]]
    BY <1>2, <2>1 DEF OutcomeOK
  <2>3. CbwDirection(c) = "in" /\ c.len # 0
    BY <1>3, <1>8, <1>9 DEF CbwDirection
  <2>4. Len(r.fill) = 2 /\ r.fill[1].t = lun.sense
    BY <2>2
  <2>5. reply'.data[1].t = lun.sense
    BY <1>8, <1>9, <2>3, <2>4
  <2> QED BY <2>5 DEF SenseKept, TypesOK, LunOK
<1>14. SenseKept'
  BY <1>1, <1>7, <1>12, <1>13 DEF SenseKept
<1>15. KeepsVolume
  BY <1>6 DEF KeepsVolume
<1>16. KeepsMedium
  <2> SUFFICES ASSUME lun.prevent, lun.open
               PROVE  [lun' EXCEPT !.prevent = TRUE, !.sense = lun.sense] = lun
    BY DEF KeepsMedium
  <2>1. /\ lun' \in Luns /\ lun'.open
        /\ lun'.first = lun.first /\ lun'.count = lun.count /\ lun'.ro = lun.ro
    BY <1>1, <1>2 DEF OutcomeOK
  <2>2. lun \in Luns
    BY DEF TypesOK, LunOK, Luns
  <2> DEFINE l == [lun' EXCEPT !.prevent = TRUE, !.sense = lun.sense]
  <2>3. l \in Luns
    BY <2>1, <2>2 DEF Luns
  <2>4. /\ l.open = lun'.open /\ l.first = lun'.first /\ l.count = lun'.count /\ l.ro = lun'.ro
        /\ l.prevent = TRUE /\ l.sense = lun.sense
    BY <2>1 DEF Luns
  <2> HIDE DEF l
  <2>5. l.open = lun.open /\ l.prevent = lun.prevent
    BY <2>1, <2>2, <2>4 DEF Luns
  <2> QED BY <2>1, <2>2, <2>3, <2>4, <2>5 DEF Luns, l
<1>17. ResidueTruthful'
  <2>0. SUFFICES ASSUME reply'.status # "failed", lun'.sense = "none"
               PROVE  (LET d == driver.cmd
                           done == d.len - reply.residue
                           at(k) == disk[lun.first + d.lba + (k - 1) \div SECT][((k - 1) % SECT) + 1]
                       IN  /\ done \in 0 .. d.len
                           /\ d.op = "read" => \A k \in 1 .. done : reply.data[k] = at(k)
                           /\ d.op = "write" => \A k \in 1 .. done : at(k) = DataOf(d)[k]
                           /\ d.op \in {"read", "write"} /\ reply.status = "passed" => done = d.n * SECT)'
    BY DEF ResidueTruthful
  <2> DEFINE done == c.len - reply'.residue
             at(k) == disk'[lun'.first + c.lba + (k - 1) \div SECT][((k - 1) % SECT) + 1]
  <2>1. done \in 0 .. c.len
    BY <1>8, <1>11
  <2>7. r.lun.sense = "none" /\ driver'.cmd = c
    BY <1>1, <2>0
  <2>2. Refused(c) => done = 0 /\ reply'.status # "passed"
    BY <1>2, <1>3, <1>8, <1>12, ResidueOK DEF PhaseError
  <2>3. ~Refused(c) /\ c.op \in {"read", "write"} => done = Parts(c) * SECT
    <3>1. Parts(c) * SECT \in Nat
      BY SizeOK, <1>8, SizeAssumption
    <3> QED BY <1>2, <1>3, <1>8, <2>7, <3>1, ResidueOK DEF OutcomeOK
  <2>4. c.op \in {"read", "write"} /\ reply'.status = "passed" => done = c.n * SECT
    BY <1>12, <2>2, <2>3, WholeSize
  <2>5. ASSUME c.op = "read", NEW k \in 1 .. done PROVE reply'.data[k] = at(k)
    <3>1. ~Refused(c) /\ done = Parts(c) * SECT /\ k \in 1 .. Parts(c) * SECT /\ Parts(c) \in Nat
      BY <2>2, <2>3, <2>5, SizeOK
    <3>2. Parts(c) # 0
      BY <3>1, SizeAssumption
    <3>3. CbwDirection(c) = "in"
      BY <2>5, <3>1, <3>2, WholeSize
    <3>4. r.fill = Content(c, Parts(c))
      BY <1>2, <2>5, <2>7, <3>1 DEF OutcomeOK
    <3>5. Parts(c) * SECT \in Nat
      BY <3>1, SizeAssumption
    <3>6. Len(r.fill) = Parts(c) * SECT
          /\ r.fill[k] = disk[NandSector(c, (k - 1) \div SECT)][((k - 1) % SECT) + 1]
      BY <3>1, <3>4, <3>5 DEF Content
    <3>7. reply'.data[k] = r.fill[k]
      BY <1>8, <1>9, <2>1, <3>1, <3>3, <3>6
    <3>8. NandSector(c, (k - 1) \div SECT) \in Sectors
      <4>1. (k - 1) \div SECT \in 0 .. Parts(c) - 1
        BY <3>1, UnitPlace
      <4>2. c.lba + Parts(c) <= lun.count
        BY <1>2, <2>5, <2>7, <3>1 DEF OutcomeOK
      <4> HIDE DEF at, done
      <4> DEFINE i == (k - 1) \div SECT
      <4> HIDE DEF i
      <4>3. i \in 0 .. Parts(c) - 1
        BY <4>1 DEF i
      <4>4. NandSector(c, i) \in Sectors
        <5>1. /\ c.lba \in Nat /\ lun.first \in Nat /\ lun.count \in Nat /\ DISK \in Nat
              /\ lun.first + lun.count <= DISK
          BY CbwOK, SizeAssumption DEF TypesOK, LunOK
        <5> QED BY <3>1, <4>2, <4>3, <5>1 DEF NandSector, Sectors
      <4> QED BY <4>4 DEF i
    <3>9. disk'[NandSector(c, (k - 1) \div SECT)] = disk[NandSector(c, (k - 1) \div SECT)]
      BY <1>6, <2>5, <3>8
    <3>10. lun'.first = lun.first
      BY <1>1, <1>2 DEF OutcomeOK
    <3> QED BY <3>6, <3>7, <3>9, <3>10 DEF NandSector
  <2>6. ASSUME c.op = "write", NEW k \in 1 .. done PROVE at(k) = DataOf(c)[k]
    <3>1. ~Refused(c) /\ done = Parts(c) * SECT /\ k \in 1 .. Parts(c) * SECT /\ Parts(c) \in Nat
      BY <2>2, <2>3, <2>6, SizeOK
    <3>2. Parts(c) # 0
      BY <3>1, SizeAssumption
    <3>3. \A j \in 1 .. c.len : b[j] = DataOf(c)[j]
      BY <2>6, <3>1, <3>2, WholeSize
    <3> DEFINE i == (k - 1) \div SECT
               j == ((k - 1) % SECT) + 1
    <3>4. i \in 0 .. Parts(c) - 1 /\ j \in 1 .. SECT /\ i * SECT + j = k
      BY <3>1, UnitPlace
    <3>5. r.stored = 0 .. Parts(c) - 1
      BY <1>2, <2>6, <2>7, <3>1 DEF OutcomeOK
    <3>6. at(k) = disk'[NandSector(c, i)][j]
      BY <1>1, <1>2 DEF NandSector, OutcomeOK
    <3> HIDE DEF i, j, at
    <3>7. disk'[NandSector(c, i)] = Sector(b, i)
      BY <1>6, <3>4, <3>5
    <3>8. Sector(b, i)[j] = b[k]
      <4>1. i \in Nat
        BY <3>1, <3>4
      <4> QED BY <3>4, <4>1, SectorOK
    <3>9. k \in 1 .. c.len
      BY <1>8, <2>1
    <3> QED BY <3>3, <3>6, <3>7, <3>8, <3>9
  <2> QED BY <2>1, <2>4, <2>5, <2>6, <2>7
<1> QED BY <1>3, <1>4, <1>5, <1>6, <1>7, <1>10, <1>11, <1>14, <1>15, <1>16, <1>17
-----------------------------------------------------------------------------
(* Initial states and steps.                                                *)

Kept == KeepsVolume /\ KeepsMedium

LEMMA InitOK == MassInit => MassInv
<1> SUFFICES ASSUME MassInit PROVE MassInv
  OBVIOUS
<1> USE DEF MassInit
<1>1. LunOK
  BY SizeAssumption DEF LunOK, Senses
<1>2. DOMAIN disk = Sectors /\ \A s \in Sectors : Len(disk[s]) = SECT
  <2> SUFFICES ASSUME NEW s \in Sectors PROVE Len(disk[s]) = SECT
    OBVIOUS
  <2> DEFINE unit(k) == [t |-> "disk", k |-> s * SECT + k]
  <2>1. disk[s] = [k \in 1 .. SECT |-> unit(k)]
    OBVIOUS
  <2> HIDE DEF unit
  <2> QED BY <2>1, SizeAssumption
<1>3. TypesOK
  <2>1. NoCbw \in Cbws
    BY DEF Cbws
  <2>2. lunCmd \in Cbws /\ driver \in [cmd : Cbws, sent : Nat, last : Statuses]
    BY <2>1 DEF Statuses
  <2>3. uses \in [commands : Nat, mounts : Nat] /\ bulkOut \in Seq(Packets)
    OBVIOUS
  <2>4. buffer = [k \in 1 .. BUF |-> buffer[k]]
    OBVIOUS
  <2> QED BY <1>1, <1>2, <2>2, <2>3, <2>4 DEF TypesOK
<1>4. Quiet
  BY DEF Quiet, NewCommand, TakesAll, NoCbw
<1> QED BY <1>3, <1>4 DEF MassInv, Flow, SenseKept, ResidueTruthful

\* Nothing is kept from a step that leaves the disk and the unit alone.
LEMMA KeptIfSame ==
    ASSUME TypesOK, lun' = lun, disk' = disk
    PROVE  Kept
<1>1. lun.prevent => [lun EXCEPT !.prevent = TRUE, !.sense = lun.sense] = lun
  BY DEF TypesOK, LunOK
<1> QED BY <1>1 DEF Kept, KeepsVolume, KeepsMedium

LEMMA StepCbw ==
    ASSUME MassInv, RxCbw
    PROVE  MassInv' /\ Kept
<1> DEFINE c == driver.cmd
<1>1. Asked /\ TypesOK /\ SenseKept /\ reply = NoReply /\ c \in Cbws
  BY DEF MassInv, TypesOK, Flow, Quiet, Collecting, Replied, RxCbw, NewCommand
<1>2. Head(bulkOut).cmd = c /\ c.tag # 0 /\ c # NoCbw
  BY <1>1 DEF Asked, Waiting, NoCbw
<1>3. /\ bulkOut' = Tail(bulkOut) /\ lunCmd' = c /\ written' = 0
      /\ CarryIfWhole(c, 0, buffer) /\ driver' = driver /\ uses' = uses
  BY <1>2 DEF RxCbw, StartCount
<1>4. c.len \in Nat
  BY <1>1, CbwOK, SizeAssumption
<1>5. bulkOut' \in Seq(Packets)
  BY <1>1, <1>3 DEF TypesOK, Asked
<1>6. CASE TakesAll(c)
  <2>1. Carry(c, buffer)
    BY <1>3, <1>6 DEF CarryIfWhole
  <2>2. /\ LunOK' /\ buffer' = [k \in 1 .. BUF |-> buffer'[k]]
        /\ DOMAIN disk' = Sectors /\ \A s \in Sectors : Len(disk'[s]) = SECT
        /\ reply' # NoReply /\ reply'.tag = c.tag /\ reply'.status \in Statuses
        /\ reply'.residue \in 0 .. c.len /\ Len(reply'.data) <= BUF
        /\ SenseKept' /\ ResidueTruthful' /\ KeepsVolume /\ KeepsMedium
    BY <1>1, <1>2, <1>3, <1>6, <2>1, CarryOK
  <2>3. TypesOK'
    BY <1>1, <1>3, <1>5, <2>2 DEF TypesOK
  <2>4. Replied'
    BY <1>1, <1>2, <1>3, <1>4, <1>6, <2>2 DEF Replied, Asked, Waiting, NewCommand, TakesAll
  <2> QED BY <2>2, <2>3, <2>4 DEF MassInv, Flow, Kept
<1>7. CASE ~TakesAll(c)
  <2>1. c.len # 0
    BY <1>7 DEF TakesAll
  <2>2. buffer' = buffer /\ lun' = lun /\ disk' = disk /\ reply' = reply
    BY <1>3, <1>7, <2>1 DEF CarryIfWhole
  <2>3. TypesOK'
    BY <1>1, <1>3, <1>5, <2>2 DEF TypesOK, LunOK
  <2>4. Collecting'
    <3>1. DataFrom(Tail(bulkOut), 0, driver)
      BY <1>1, <1>7 DEF Asked
    <3>2. DataFrom(bulkOut, written, driver)'
      BY <1>3, <3>1 DEF DataFrom
    <3>3. 1 .. 0 = {} /\ 0 \in 0 .. c.len - 1
      BY <1>4, <2>1
    <3> QED BY <1>1, <1>2, <1>3, <1>7, <2>2, <3>2, <3>3 DEF Collecting, Waiting, TakesAll
  <2>5. SenseKept' /\ ResidueTruthful'
    BY <1>1, <1>3, <2>2 DEF SenseKept, ResidueTruthful
  <2>6. Kept
    BY <1>1, <2>2, KeptIfSame
  <2> QED BY <2>3, <2>4, <2>5, <2>6 DEF MassInv, Flow
<1> QED BY <1>6, <1>7

LEMMA StepData ==
    ASSUME MassInv, RxData
    PROVE  MassInv' /\ Kept
<1> DEFINE c == driver.cmd
<1>1. Collecting /\ TypesOK /\ SenseKept /\ reply = NoReply /\ c \in Cbws /\ bulkOut # <<>>
  BY DEF MassInv, TypesOK, Flow, Quiet, Asked, Replied, RxData, NewCommand
<1>2. lunCmd = c /\ c.tag # 0 /\ ~TakesAll(c) /\ written \in 0 .. c.len - 1 /\ DataFrom(bulkOut, written, driver)
  BY <1>1 DEF Collecting, Waiting
<1>3. PICK v \in written + 1 .. c.len :
        /\ Len(Head(bulkOut).data) = v - written
        /\ \A i \in 1 .. v - written : Head(bulkOut).data[i] = DataOf(c)[written + i]
        /\ DataFrom(Tail(bulkOut), v, driver)
  BY <1>1, <1>2, DataFromHead DEF TypesOK
<1>4. c.len \in 0 .. BUF /\ c.len \in Nat /\ BUF \in Nat
  BY <1>1, CbwOK, SizeAssumption
<1> DEFINE p == Head(bulkOut).data
           b == [k \in 1 .. BUF |-> IF k \in written + 1 .. v THEN p[k - written] ELSE buffer[k]]
<1>5. Lesser(Len(p), c.len - written) = v - written /\ written + (v - written) = v
  <2> DEFINE l == Len(p)
             w == written
  <2>1. w \in Nat /\ v \in Nat /\ c.len \in Nat /\ w < v /\ v <= c.len /\ l = v - w
    BY <1>2, <1>3, <1>4
  <2> HIDE DEF l, w, p, c
  <2>2. Lesser(l, c.len - w) = v - w /\ w + (v - w) = v
    BY <2>1 DEF Lesser
  <2> QED BY <2>2 DEF l, w, p, c
<1>6. /\ bulkOut' = Tail(bulkOut) /\ lunCmd' = c /\ written' = v
      /\ CarryIfWhole(c, v, b) /\ driver' = driver /\ uses' = uses
  BY <1>2, <1>5 DEF RxData
<1>7. \A k \in 1 .. v : b[k] = DataOf(c)[k]
  <2> SUFFICES ASSUME NEW k \in 1 .. v PROVE b[k] = DataOf(c)[k]
    OBVIOUS
  <2>0. k \in 1 .. BUF
    BY <1>2, <1>3, <1>4
  <2>1. CASE k \in written + 1 .. v
    <3>1. k - written \in 1 .. v - written /\ written + (k - written) = k
      BY <1>2, <1>3, <1>4, <2>1
    <3>2. p[k - written] = DataOf(c)[k]
      <4> DEFINE i == k - written
      <4> HIDE DEF i
      <4>1. i \in 1 .. v - written /\ written + i = k
        BY <3>1 DEF i
      <4>2. p[i] = DataOf(c)[k]
        BY <1>3, <4>1
      <4> QED BY <4>2 DEF i
    <3> QED BY <2>0, <2>1, <3>2
  <2>2. CASE k \notin written + 1 .. v
    <3>1. k \in 1 .. written
      BY <1>2, <1>3, <1>4, <2>2
    <3>2. buffer[k] = DataOf(c)[k]
      BY <1>1, <3>1 DEF Collecting
    <3> QED BY <2>0, <2>2, <3>2
  <2> QED BY <2>1, <2>2
<1>8. bulkOut' \in Seq(Packets)
  BY <1>1, <1>6 DEF TypesOK
<1> HIDE DEF b
<1>9. CASE v = c.len
  <2>1. Carry(c, b)
    BY <1>6, <1>9 DEF CarryIfWhole
  <2>2. /\ LunOK' /\ buffer' = [k \in 1 .. BUF |-> buffer'[k]]
        /\ DOMAIN disk' = Sectors /\ \A s \in Sectors : Len(disk'[s]) = SECT
        /\ reply' # NoReply /\ reply'.tag = c.tag /\ reply'.status \in Statuses
        /\ reply'.residue \in 0 .. c.len /\ Len(reply'.data) <= BUF
        /\ SenseKept' /\ ResidueTruthful' /\ KeepsVolume /\ KeepsMedium
    BY <1>1, <1>2, <1>6, <1>7, <1>9, <2>1, CarryOK
  <2>3. TypesOK'
    BY <1>1, <1>6, <1>8, <2>2 DEF TypesOK
  <2>4. Tail(bulkOut) = <<>> /\ driver.sent = c.len
    <3>1. Tail(bulkOut) \in Seq(Packets) /\ DataFrom(Tail(bulkOut), c.len, driver)
      BY <1>3, <1>6, <1>8, <1>9
    <3> QED BY <1>1, <3>1, DataFromBounds
  <2>5. Replied'
    BY <1>2, <1>4, <1>6, <1>9, <2>2, <2>4 DEF Replied, Waiting, NewCommand, TakesAll
  <2> QED BY <2>2, <2>3, <2>5 DEF MassInv, Flow, Kept
<1>10. CASE v # c.len
  <2>1. buffer' = b /\ lun' = lun /\ disk' = disk /\ reply' = reply
    BY <1>2, <1>6, <1>10 DEF CarryIfWhole
  <2>2. buffer' = [k \in 1 .. BUF |-> buffer'[k]]
    BY <2>1 DEF b
  <2>3. TypesOK'
    BY <1>1, <1>6, <1>8, <2>1, <2>2 DEF TypesOK, LunOK
  <2>4. Collecting'
    <3>1. v \in 0 .. c.len - 1
      BY <1>2, <1>3, <1>4, <1>10
    <3>2. \A k \in 1 .. v : buffer'[k] = DataOf(c)[k]
      BY <1>7, <2>1
    <3> QED BY <1>1, <1>2, <1>3, <1>6, <2>1, <3>1, <3>2 DEF Collecting, Waiting, TakesAll, DataFrom
  <2>5. SenseKept' /\ ResidueTruthful'
    BY <1>1, <1>6, <2>1 DEF SenseKept, ResidueTruthful
  <2>6. Kept
    BY <1>1, <2>1, KeptIfSame
  <2> QED BY <2>3, <2>4, <2>5, <2>6 DEF MassInv, Flow
<1> QED BY <1>9, <1>10

\* The tool's mount changes nothing while a partition is mounted.
LEMMA StepMount ==
    ASSUME MassInv, NEW m \in Mounts, masstorage_mount(m)
    PROVE  MassInv' /\ Kept
<1> USE DEF masstorage_mount
<1>1. /\ TypesOK /\ Flow /\ SenseKept /\ reply = NoReply
      /\ lunCmd' = lunCmd /\ written' = written /\ buffer' = buffer /\ disk' = disk
      /\ driver' = driver /\ bulkOut' = bulkOut /\ reply' = reply
  BY DEF MassInv
<1>2. m.first \in Nat /\ m.count \in Nat /\ m.rw \in BOOLEAN
  BY MountsAssumption
<1>3. LunOK' /\ lun'.sense = lun.sense
  <2>1. CASE Mountable(m)
    BY <1>1, <1>2, <2>1 DEF Mountable, TypesOK, LunOK
  <2>2. CASE ~Mountable(m)
    BY <1>1, <2>2 DEF TypesOK, LunOK
  <2> QED BY <2>1, <2>2
<1>4. TypesOK'
  BY <1>1, <1>3 DEF TypesOK
<1>5. Flow'
  BY <1>1 DEF Flow, Quiet, Asked, Collecting, Replied, Waiting, NewCommand, TakesAll, DataFrom
<1>6. SenseKept' /\ ResidueTruthful'
  BY <1>1, <1>3 DEF SenseKept, ResidueTruthful
<1>7. Kept
  <2>1. CASE lun.open
    <3>1. lun' = lun
      BY <2>1 DEF Mountable
    <3> QED BY <1>1, <3>1, KeptIfSame
  <2>2. CASE ~lun.open
    BY <1>1, <2>2 DEF Kept, KeepsVolume, KeepsMedium
  <2> QED BY <2>1, <2>2
<1> QED BY <1>4, <1>5, <1>6, <1>7 DEF MassInv

LEMMA StepCommand ==
    ASSUME MassInv, NEW c \in Commands, HostCommand(c)
    PROVE  MassInv' /\ Kept
<1> DEFINE t == Tagged(c, uses.commands + 1)
           p == [cmd |-> t, data |-> <<[t |-> "command", k |-> 1]>>]
<1>1. /\ TypesOK /\ SenseKept
      /\ driver' = [driver EXCEPT !.cmd = t, !.sent = 0] /\ bulkOut' = Append(bulkOut, p)
      /\ uses' = [uses EXCEPT !.commands = @ + 1]
      /\ lun' = lun /\ lunCmd' = lunCmd /\ written' = written /\ buffer' = buffer /\ disk' = disk /\ reply' = reply
  BY DEF MassInv, HostCommand, Tagged
<1>2. Quiet
  BY DEF MassInv, HostCommand, Flow, Asked, Collecting, Replied
<1>3. t \in Cbws /\ t.tag # 0 /\ t.len \in Nat
  <2>1. uses.commands + 1 \in Nat \ {0}
    BY <1>1 DEF TypesOK
  <2>2. t \in Cbws
    BY <2>1 DEF Cbws
  <2> QED BY <2>1, <2>2, CbwOK, SizeAssumption DEF Tagged
<1>4. p \in Packets
  <2>1. <<[t |-> "command", k |-> 1]>> \in Seq(DataUnit)
    BY DEF DataUnit
  <2> QED BY <1>3, <2>1 DEF Packets
<1> HIDE DEF t
<1>5. bulkOut' = <<p>> /\ bulkOut' \in Seq(Packets) /\ Head(bulkOut') = p /\ Tail(bulkOut') = <<>>
  <2>1. bulkOut' = <<p>>
    BY <1>1, <1>2 DEF Quiet
  <2> HIDE DEF p
  <2> QED BY <1>4, <2>1
<1>6. driver'.cmd = t /\ driver'.sent = 0 /\ driver'.last = driver.last
      /\ driver' \in [cmd : Cbws, sent : Nat, last : Statuses]
  BY <1>1, <1>3 DEF TypesOK
<1>7. TypesOK'
  BY <1>1, <1>5, <1>6 DEF TypesOK, LunOK
<1>8. DataFrom(<<>>, 0, driver')
  BY <1>3, <1>6, DataFromNone
<1>9. Asked'
  BY <1>1, <1>2, <1>3, <1>5, <1>6, <1>8 DEF Asked, Quiet, Waiting, NewCommand, TakesAll
<1>10. SenseKept' /\ ResidueTruthful'
  BY <1>1, <1>2, <1>6 DEF SenseKept, ResidueTruthful, Quiet
<1>11. Kept
  BY <1>1, KeptIfSame
<1> QED BY <1>7, <1>9, <1>10, <1>11 DEF MassInv, Flow

LEMMA StepHostData ==
    ASSUME MassInv, HostData
    PROVE  MassInv' /\ Kept
<1> DEFINE c == driver.cmd
           n == Lesser(BULK, c.len - driver.sent)
           p == [cmd |-> NoCbw, data |-> SubSeq(DataOf(c), driver.sent + 1, driver.sent + n)]
<1>1. /\ TypesOK /\ SenseKept /\ ~TakesAll(c) /\ driver.sent < c.len
      /\ driver' = [driver EXCEPT !.sent = @ + n] /\ bulkOut' = Append(bulkOut, p)
      /\ lun' = lun /\ lunCmd' = lunCmd /\ written' = written /\ buffer' = buffer /\ disk' = disk /\ reply' = reply /\ uses' = uses
  BY DEF MassInv, HostData
<1>2. c \in Cbws /\ c.len \in Nat /\ driver.sent \in Nat /\ bulkOut \in Seq(Packets)
  BY <1>1, CbwOK, SizeAssumption DEF TypesOK
<1>3. Asked \/ Collecting
  BY <1>1, <1>2 DEF MassInv, HostData, Flow, Quiet, Replied, Waiting, NoCbw
<1>4. n \in 1 .. c.len - driver.sent /\ driver.sent + n \in driver.sent + 1 .. c.len /\ driver.sent + n \in Nat
  <2>1. PICK len, sent : len = c.len /\ sent = driver.sent
    OBVIOUS
  <2>2. len \in Nat /\ sent \in Nat /\ sent < len /\ n = Lesser(BULK, len - sent) /\ BULK \in Nat /\ BULK > 0
    BY <1>1, <1>2, <2>1, SizeAssumption
  <2> HIDE DEF n
  <2>3. n \in 1 .. len - sent
    BY <2>2 DEF Lesser
  <2>4. sent + n \in sent + 1 .. len /\ sent + n \in Nat
    BY <2>2, <2>3
  <2> QED BY <2>1, <2>3, <2>4
<1>5. p \in Packets
  <2>1. NoCbw \in Cbws
    BY DEF Cbws
  <2>2. p.data \in Seq(DataUnit)
    BY <1>2, <1>4, DataOfSeq, Cut
  <2> QED BY <2>1, <2>2 DEF Packets
<1>6. /\ driver'.cmd = c /\ driver'.sent = driver.sent + n /\ driver'.last = driver.last
      /\ driver' \in [cmd : Cbws, sent : Nat, last : Statuses]
  BY <1>1, <1>4 DEF TypesOK
<1>7. p.cmd = NoCbw /\ p.data = SubSeq(DataOf(c), driver.sent + 1, driver'.sent)
  BY <1>6
<1> HIDE DEF n, p
<1>8. bulkOut' \in Seq(Packets)
  BY <1>1, <1>2, <1>5
<1>9. TypesOK'
  BY <1>1, <1>6, <1>8 DEF TypesOK, LunOK
<1>10. ASSUME NEW q \in Seq(Packets), NEW w, DataFrom(q, w, driver)
       PROVE  DataFrom(Append(q, p), w, driver')
  BY <1>2, <1>4, <1>5, <1>6, <1>7, <1>10, DataFromAppend
<1>11. CASE Asked
  <2>1. bulkOut # <<>> /\ Tail(bulkOut) \in Seq(Packets) /\ DataFrom(Tail(bulkOut), 0, driver)
    BY <1>1, <1>2, <1>11 DEF Asked
  <2>2. DataFrom(Append(Tail(bulkOut), p), 0, driver')
    BY <1>10, <2>1
  <2>3. bulkOut' # <<>> /\ Head(bulkOut') = Head(bulkOut) /\ Tail(bulkOut') = Append(Tail(bulkOut), p)
    BY <1>1, <1>2, <1>5, <2>1, HeadTailAppend, AppendProperties
  <2>4. Asked'
    BY <1>1, <1>6, <1>11, <2>2, <2>3 DEF Asked, Waiting, NewCommand, TakesAll
  <2> QED BY <2>4, <1>1, <1>6, <1>9, <1>11, KeptIfSame DEF MassInv, Flow, SenseKept, ResidueTruthful, Asked
<1>12. CASE Collecting
  <2>1. DataFrom(bulkOut, written, driver)
    BY <1>12 DEF Collecting
  <2>2. DataFrom(bulkOut', written, driver')
    BY <1>1, <1>2, <1>10, <2>1
  <2>3. Collecting'
    BY <1>1, <1>6, <1>12, <2>2 DEF Collecting, Waiting, TakesAll
  <2> QED BY <2>3, <1>1, <1>6, <1>9, <1>12, KeptIfSame DEF MassInv, Flow, SenseKept, ResidueTruthful, Collecting
<1> QED BY <1>3, <1>11, <1>12

LEMMA StepStatus ==
    ASSUME MassInv, HostStatus
    PROVE  MassInv' /\ Kept
<1>1. /\ TypesOK /\ SenseKept /\ reply # NoReply
      /\ driver' = [cmd |-> NoCbw, sent |-> 0, last |-> reply.status] /\ reply' = NoReply
      /\ lun' = lun /\ lunCmd' = lunCmd /\ written' = written /\ buffer' = buffer /\ disk' = disk /\ bulkOut' = bulkOut /\ uses' = uses
  BY DEF MassInv, HostStatus
<1>2. Replied
  BY <1>1 DEF MassInv, Flow, Quiet, Asked, Collecting
<1>3. NoCbw \in Cbws
  BY DEF Cbws
<1>4. driver' \in [cmd : Cbws, sent : Nat, last : Statuses]
  BY <1>1, <1>2, <1>3 DEF Replied
<1>5. TypesOK'
  BY <1>1, <1>4 DEF TypesOK, LunOK
<1>6. Quiet'
  BY <1>1, <1>2 DEF Quiet, Replied, NewCommand, TakesAll
<1>7. SenseKept' /\ ResidueTruthful'
  BY <1>1 DEF SenseKept, ResidueTruthful
<1>8. Kept
  BY <1>1, KeptIfSame
<1> QED BY <1>5, <1>6, <1>7, <1>8 DEF MassInv, Flow

\* One step per action.
LEMMA StepOK == MassInv /\ [MassNext]_massVars => MassInv' /\ Kept
<1> SUFFICES ASSUME MassInv, [MassNext]_massVars
             PROVE  MassInv' /\ Kept
  OBVIOUS
<1>1. CASE RxCbw
  BY <1>1, StepCbw
<1>2. CASE RxData
  BY <1>2, StepData
<1>3. CASE \E m \in Mounts : masstorage_mount(m)
  BY <1>3, StepMount
<1>4. CASE \E c \in Commands : HostCommand(c)
  BY <1>4, StepCommand
<1>5. CASE HostData
  BY <1>5, StepHostData
<1>6. CASE HostStatus
  BY <1>6, StepStatus
<1>7. CASE UNCHANGED massVars
  <2> USE <1>7 DEF massVars
  <2>1. TypesOK' /\ SenseKept' /\ ResidueTruthful'
    BY DEF MassInv, TypesOK, LunOK, SenseKept, SenseExplains, ResidueTruthful
  <2>2. Flow'
    BY DEF MassInv, Flow, Quiet, Asked, Collecting, Replied, Waiting, NewCommand, TakesAll, DataFrom
  <2>3. Kept
    BY KeptIfSame DEF MassInv
  <2> QED BY <2>1, <2>2, <2>3 DEF MassInv
<1> QED BY <1>1, <1>2, <1>3, <1>4, <1>5, <1>6, <1>7 DEF MassNext

-----------------------------------------------------------------------------
(* The theorems.                                                            *)

\* The device and the host's driver agree how far a command has come, whatever
\* the commands announce.
THEOREM MassInvariance == MassSpec => []MassInv
<1>1. MassInv /\ [MassNext]_massVars => MassInv'
  BY StepOK
<1> QED BY <1>1, InitOK, PTL DEF MassSpec

\* The received data fits the buffer, the residue is a part of what was
\* announced, and a mounted partition lies on the disk.
THEOREM MassTypes == MassSpec => []CommandsTypeOK
<1>1. MassInv => CommandsTypeOK
  <2> SUFFICES ASSUME MassInv PROVE CommandsTypeOK
    OBVIOUS
  <2>1. TypesOK /\ Flow
    BY DEF MassInv
  <2>2. lunCmd.len \in 0 .. BUF /\ driver.cmd.len \in 0 .. BUF /\ BUF \in Nat
    BY <2>1, CbwOK, SizeAssumption DEF TypesOK
  <2>3. written \in 0 .. lunCmd.len
    BY <2>1, <2>2 DEF Flow, Quiet, Asked, Collecting, Replied
  <2>4. driver.sent \in 0 .. driver.cmd.len
    <3>1. CASE Quiet
      BY <2>2, <3>1 DEF Quiet
    <3>2. CASE Asked
      <4>1. bulkOut # <<>> => Tail(bulkOut) \in Seq(Packets)
        BY <2>1 DEF TypesOK
      <4>2. CASE TakesAll(driver.cmd)
        BY <2>2, <3>2, <4>2 DEF Asked
      <4>3. CASE ~TakesAll(driver.cmd)
        <5>1. DataFrom(Tail(bulkOut), 0, driver) /\ Tail(bulkOut) \in Seq(Packets)
          BY <3>2, <4>1, <4>3 DEF Asked
        <5>2. driver.cmd \in Cbws
          BY <2>1 DEF TypesOK
        <5> QED BY <5>1, <5>2, DataFromBounds
      <4> QED BY <4>2, <4>3
    <3>3. CASE Collecting
      BY <2>1, <3>3, DataFromBounds DEF Collecting, TypesOK
    <3>4. CASE Replied
      BY <2>2, <3>4 DEF Replied
    <3> QED BY <2>1, <3>1, <3>2, <3>3, <3>4 DEF Flow
  <2>5. reply.residue \in 0 .. BUF /\ Len(reply.data) <= BUF
    <3>1. CASE reply = NoReply
      BY <2>2, <3>1 DEF NoReply
    <3>2. CASE Replied
      BY <2>2, <3>2 DEF Replied
    <3> QED BY <2>1, <3>1, <3>2 DEF Flow, Quiet, Asked, Collecting
  <2> QED BY <2>1, <2>2, <2>3, <2>4, <2>5 DEF CommandsTypeOK, TypesOK, LunOK
<1> QED BY <1>1, MassInvariance, PTL

\* A packet of data is never taken for a command, nor a command for data, and
\* the status is that of the command the host waits for.
THEOREM NeverOutOfStep == MassSpec => []InStep
<1>1. MassInv => InStep
  <2> SUFFICES ASSUME MassInv PROVE InStep
    OBVIOUS
  <2>1. TypesOK /\ Flow
    BY DEF MassInv
  <2>2. CASE Collecting
    <3>1. bulkOut # <<>> => Head(bulkOut).cmd = NoCbw
      BY <2>1, <2>2, DataFromHead DEF Collecting, TypesOK
    <3>2. ~NewCommand
      BY <2>1, <2>2, CbwOK, SizeAssumption DEF Collecting, NewCommand, TypesOK
    <3> QED BY <2>2, <3>1, <3>2 DEF InStep, Collecting
  <2>3. CASE Asked
    BY <2>3 DEF InStep, Asked, Waiting, NoCbw
  <2> QED BY <2>1, <2>2, <2>3 DEF InStep, Flow, Quiet, Replied
<1> QED BY <1>1, MassInvariance, PTL

\* What the status says was processed was read from the partition or written to it.
THEOREM ResidueHolds == MassSpec => []ResidueTruthful
<1>1. MassInv => ResidueTruthful
  BY DEF MassInv
<1> QED BY <1>1, MassInvariance, PTL

\* REQUEST SENSE reports what the command before it failed of.
THEOREM SenseHolds == MassSpec => []SenseExplains
<1>1. MassInv => SenseExplains
  BY DEF MassInv, SenseKept, SenseExplains, NoReply
<1> QED BY <1>1, MassInvariance, PTL

\* Only a write to the mounted partition changes the disk, and the host keeps a
\* medium whose removal it prevents.
THEOREM VolumeHolds == MassSpec => VolumeKept
<1>1. MassInv /\ [MassNext]_massVars => Kept
  BY StepOK
<1>2. Kept => [KeepsVolume]_massVars /\ [KeepsMedium]_massVars
  BY DEF Kept
<1>3. MassSpec => [][KeepsVolume]_massVars /\ [][KeepsMedium]_massVars
  BY <1>1, <1>2, MassInvariance, PTL DEF MassSpec
<1> QED BY <1>3 DEF VolumeKept, WithinVolume, MediumStays, KeepsVolume, KeepsMedium

-----------------------------------------------------------------------------
(* The command protocol.                                                    *)

Exits == {"exit", "jump"}
Busy == {"header", "data", "response", "respdata"}

\* The commands that tool runs consist of, as they are sent.
Issued == UNION {{p[i] : i \in DOMAIN p} : p \in Programs}
Numbered(c, k) == [cmd |-> c.cmd, out |-> c.out, in |-> c.in, id |-> k]
Sent == {Numbered(c, k) : c \in Issued, k \in Nat \ {0}}

ToDevice == [units : Seq(Unit), cmd : Sent \union {[NoCmd EXCEPT !.cmd = c] : c \in {"none", "write", "eject"}}]
ToHostPackets == [kind : {"header", "data"}, id : Nat, status : {"ok", "fail"}, size : Nat, mounted : BOOLEAN]

\* In the commands s, none ends diskboot without a check before it; u says that
\* it would be safe at once.
CheckedBefore(s, i) == \E j \in 1 .. i - 1 : s[j].cmd = "check" /\ \A k \in j + 1 .. i - 1 : s[k].cmd # "mount"
SafeEnds(s, u) ==
    \A i \in 1 .. Len(s) : s[i].cmd \in Exits =>
        CheckedBefore(s, i) \/ (u /\ \A k \in 1 .. i - 1 : s[k].cmd # "mount")

\* After the command c: nothing is mounted, or the answer will tell.
SafeAfter(c) == c.cmd = "check" \/ (c.cmd # "mount" /\ ~mounted)

HostOK ==
    /\ host \in [pc : Busy \union {"idle", "next"}, todo : Seq(Issued), cmd : Sent \union {NoCmd}, n : Nat, answer : Nat]
    /\ nextId \in Nat \ {0}
    /\ host.pc = "idle" => host = NoRun
    /\ host.pc = "next" => SafeEnds(host.todo, ~mounted)
    /\ host.pc \in Busy => host.cmd \in Sent /\ SafeEnds(host.todo, SafeAfter(host.cmd))
    /\ host.pc = "header" => host.n = 0 /\ (host.cmd.cmd \in Exits => ~mounted)
    /\ host.pc = "data" => host.n < host.cmd.out
    /\ AnswersOwnCommand

DeviceOK ==
    /\ dpc \in {"poll", "polled", "rxcmd", "rxstorage", "tx", "defer", "leave", "left"}
    /\ DOMAIN out = EP /\ \A e \in EP : out[e] \in Seq(ToDevice) /\ Len(out[e]) <= FIFO
    /\ inF = <<>> \/ \E r \in ToHostPackets : inF = <<r>>
    /\ tx \in Seq(ToHostPackets)
    /\ irq \subseteq EP /\ snap \subseteq EP /\ deferred \subseteq EP
    /\ cur \in Sent \union {NoCmd}
    /\ got \in Seq(Unit) /\ \E c \in Issued : Len(got) <= c.out
    /\ exit \in {"no", "fel", "other"} /\ mounted \in BOOLEAN /\ dirty \in {"no", "cached", "lost"}
    /\ exit # "no" => ~mounted /\ dpc \in {"tx", "rxstorage", "defer", "polled", "leave", "left"}
    /\ dpc = "left" => dirty # "cached"

-----------------------------------------------------------------------------
(* The command under way.                                                   *)

\* The packets q carry the data of the command c after unit w up to unit n.
DataPackets(q, w, n, c) ==
    \E off \in [1 .. Len(q) + 1 -> 0 .. c.out] :
        /\ off[1] = w /\ off[Len(q) + 1] = n
        /\ \A i \in 1 .. Len(q) :
              /\ off[i] < off[i + 1]
              /\ q[i].units = SubSeq(Payload(c), off[i] + 1, off[i + 1])

\* The packets s are n units of response data.
Pieces(s, n) ==
    \E off \in [1 .. Len(s) + 1 -> Nat] :
        /\ off[1] = n /\ off[Len(s) + 1] = 0
        /\ \A i \in 1 .. Len(s) : off[i + 1] < off[i] /\ s[i].size = off[i] - off[i + 1] /\ s[i].kind = "data"

ToRead == inF \o tx     \* what the host has not read
Queue == out["cmd"]

Ready == Queue = <<>> /\ inF = <<>> /\ tx = <<>> /\ (dpc = "tx" \/ cur = NoCmd)

\* Header and data up to unit n are in the endpoint.
Coming(c, n) ==
    /\ c.cmd \in Exits => ~mounted
    /\ inF = <<>> /\ tx = <<>> /\ (dpc = "tx" \/ cur = NoCmd)
    /\ Queue # <<>> /\ Head(Queue) = [units |-> <<[id |-> c.id, k |-> 0]>>, cmd |-> c]
    /\ DataPackets(Tail(Queue), 0, n, c)

\* The device has taken the header and part of the data.
Taking(c, n) ==
    /\ c.cmd \in Exits => ~mounted
    /\ inF = <<>> /\ tx = <<>> /\ dpc # "tx" /\ cur = c
    /\ Len(got) < c.out /\ got = SubSeq(Payload(c), 1, Len(got))
    /\ DataPackets(Queue, Len(got), n, c)

\* The command has been carried out.
Answering(c) ==
    /\ dpc = "tx" /\ cur = c /\ Queue = <<>> /\ ToRead # <<>>
    /\ \A i \in 1 .. Len(ToRead) :
          /\ ToRead[i].id = c.id
          /\ c.cmd = "check" /\ ToRead[i].kind = "data" /\ ~ToRead[i].mounted => ~mounted
HeaderUnread(c) ==
    /\ Head(ToRead).kind = "header"
    /\ \/ Head(ToRead).status = "fail"
       \/ /\ Head(ToRead).size = c.in /\ Pieces(Tail(ToRead), c.in)
          /\ c.cmd = "write" => Payload(c) \in stored
HeaderFailed == Head(ToRead).status = "fail" => Tail(ToRead) = <<>>

Leaving == dpc \in {"leave", "left"} /\ inF = <<>> /\ tx = <<>>
InDevice(c, n) == Coming(c, n) \/ Taking(c, n)

\* What the device is doing when the host has come to host.pc; after the cable has
\* been pulled the device goes on with a command that nobody waits for.
Together ==
    \/ host.pc \in {"idle", "next", "header"} /\ Ready
    \/ host.pc = "data" /\ "reset" \notin misc /\ InDevice(host.cmd, host.n)
    \/ host.pc = "response" /\ "reset" \notin misc /\ InDevice(host.cmd, host.cmd.out)
    \/ host.pc = "response" /\ "reset" \notin misc /\ Answering(host.cmd) /\ HeaderUnread(host.cmd) /\ HeaderFailed
    \/ host.pc = "respdata" /\ "reset" \notin misc /\ Answering(host.cmd) /\ Pieces(ToRead, host.n)
Alone == host.pc = "idle" /\ "disconnect" \in misc /\ "reset" \notin misc
         /\ \E c \in Sent : Answering(c) \/ \E n \in 0 .. c.out : InDevice(c, n)

CommandFlow == Leaving \/ (dpc \notin {"leave", "left"} /\ (Together \/ Alone))

CommandInv == HostOK /\ DeviceOK /\ CommandFlow /\ WritesStored

-----------------------------------------------------------------------------
(* Commands.                                                                *)

LEMMA IssuedOK ==
    ASSUME NEW c \in Issued
    PROVE  c \in [cmd : Names, out : Nat, in : Nat] /\ (c.cmd = "check" => c.in # 0)
<1>1. PICK p \in Programs : \E i \in DOMAIN p : c = p[i]
  BY DEF Issued
<1>2. PICK i \in DOMAIN p : c = p[i]
  BY <1>1
<1>3. p \in Seq([cmd : Names, out : Nat, in : Nat]) /\ (p[i].cmd = "check" => p[i].in # 0)
  BY <1>2, ProgramsAssumption
<1>4. p[i] \in [cmd : Names, out : Nat, in : Nat]
  <2>1. DOMAIN p = 1 .. Len(p)
    BY <1>3
  <2> QED BY <1>2, <1>3, <2>1, ElementOfSeq
<1> QED BY <1>2, <1>3, <1>4

LEMMA SentOK ==
    ASSUME NEW c \in Sent
    PROVE  /\ c.cmd \in Names /\ c.out \in Nat /\ c.in \in Nat /\ c.id \in Nat \ {0}
           /\ c \in Command /\ c # NoCmd /\ c.cmd # "none"
           /\ c.cmd = "check" => c.in # 0
           /\ \E d \in Issued : d.out = c.out
<1>1. PICK d \in Issued, k \in Nat \ {0} : c = Numbered(d, k)
  BY DEF Sent
<1>2. d \in [cmd : Names, out : Nat, in : Nat] /\ (d.cmd = "check" => d.in # 0)
  BY IssuedOK
<1>3. c.cmd = d.cmd /\ c.out = d.out /\ c.in = d.in /\ c.id = k
  BY <1>1 DEF Numbered
<1>4. "none" \notin Names
  BY DEF Names
<1>5. c \in Command
  BY <1>1, <1>2 DEF Numbered, Command
<1> QED BY <1>2, <1>3, <1>4, <1>5 DEF NoCmd

LEMMA ProgramOK ==
    ASSUME NEW p \in Programs
    PROVE  p \in Seq(Issued) /\ \A u \in BOOLEAN : SafeEnds(p, u)
<1>1. p \in Seq([cmd : Names, out : Nat, in : Nat])
  BY ProgramsAssumption
<1>2. \A i \in DOMAIN p : p[i] \in Issued
  BY DEF Issued
<1>3. DOMAIN p = 1 .. Len(p) /\ Len(p) \in Nat /\ p = [i \in 1 .. Len(p) |-> p[i]]
  BY <1>1
<1>4. p \in [1 .. Len(p) -> Issued]
  BY <1>2, <1>3
<1>5. p \in Seq(Issued)
  BY <1>3, <1>4, SeqDef
<1>6. ASSUME NEW u \in BOOLEAN, NEW i \in 1 .. Len(p), p[i].cmd \in Exits
      PROVE  CheckedBefore(p, i)
  BY <1>3, <1>6, ProgramsAssumption DEF Exits, CheckedBefore
<1> QED BY <1>5, <1>6 DEF SafeEnds

LEMMA SomeIssued == \E c \in Issued : 0 <= c.out
<1>1. PICK p \in Programs : p # <<>>
  BY ProgramsAssumption
<1>2. p \in Seq(Issued)
  BY ProgramOK
<1>3. p[1] \in Issued
  BY <1>1, <1>2
<1>4. p[1].out \in Nat
  BY <1>3, IssuedOK
<1> QED BY <1>3, <1>4

LEMMA SafeWeaker ==
    ASSUME NEW s, NEW u, NEW v, SafeEnds(s, u), u => v
    PROVE  SafeEnds(s, v)
BY DEF SafeEnds

LEMMA SafeNone == ASSUME NEW u PROVE SafeEnds(<<>>, u)
<1>1. 1 .. Len(<<>>) = {}
  OBVIOUS
<1> QED BY <1>1 DEF SafeEnds

\* The next command of a run is safe, and so are those behind it.
LEMMA SafeNext ==
    ASSUME NEW s \in Seq(Issued), s # <<>>, NEW u \in BOOLEAN, SafeEnds(s, u)
    PROVE  /\ Head(s).cmd \in Exits => u
           /\ SafeEnds(Tail(s), Head(s).cmd = "check" \/ (Head(s).cmd # "mount" /\ u))
<1>1. /\ Len(s) \in Nat \ {0} /\ Head(s) = s[1] /\ Len(Tail(s)) = Len(s) - 1
      /\ \A i \in 1 .. Len(s) - 1 : Tail(s)[i] = s[i + 1]
  OBVIOUS
<1>2. 1 \in 1 .. Len(s) /\ 1 .. 1 - 1 = {}
  BY <1>1
<1>3. Head(s).cmd \in Exits => u
  BY <1>1, <1>2 DEF SafeEnds, CheckedBefore
<1> DEFINE v == Head(s).cmd = "check" \/ (Head(s).cmd # "mount" /\ u)
<1>4. ASSUME NEW i \in 1 .. Len(Tail(s)), Tail(s)[i].cmd \in Exits, ~CheckedBefore(Tail(s), i)
      PROVE  v /\ \A k \in 1 .. i - 1 : Tail(s)[k].cmd # "mount"
  <2>1. i + 1 \in 1 .. Len(s) /\ s[i + 1].cmd \in Exits /\ i \in Nat \ {0}
    BY <1>1, <1>4
  <2>2. \A k \in 1 .. i - 1 : k + 1 \in 2 .. i /\ k + 1 \in 1 .. i /\ Tail(s)[k] = s[k + 1]
    BY <1>1, <2>1
  <2>3. CASE CheckedBefore(s, i + 1)
    <3>1. PICK j \in 1 .. i : s[j].cmd = "check" /\ \A k \in j + 1 .. i : s[k].cmd # "mount"
      BY <2>1, <2>3 DEF CheckedBefore
    <3>2. CASE j = 1
      BY <1>1, <2>2, <3>1, <3>2
    <3>3. CASE j # 1
      <4>1. j - 1 \in 1 .. i - 1 /\ Tail(s)[j - 1] = s[j]
        BY <1>1, <2>1, <3>1, <3>3
      <4>2. \A k \in (j - 1) + 1 .. i - 1 : k \in 1 .. i - 1 /\ k + 1 \in j + 1 .. i
        BY <2>1, <3>1, <3>3
      <4>3. CheckedBefore(Tail(s), i)
        BY <2>2, <3>1, <4>1, <4>2 DEF CheckedBefore
      <4> QED BY <1>4, <4>3
    <3> QED BY <3>2, <3>3
  <2>4. CASE ~CheckedBefore(s, i + 1)
    <3>1. u /\ \A k \in 1 .. (i + 1) - 1 : s[k].cmd # "mount"
      BY <2>1, <2>4 DEF SafeEnds
    <3>2. u /\ \A k \in 1 .. i : s[k].cmd # "mount"
      BY <2>1, <3>1
    <3>3. Head(s).cmd # "mount"
      BY <1>1, <2>1, <3>2
    <3> QED BY <2>2, <3>2, <3>3
  <2> QED BY <2>3, <2>4
<1> HIDE DEF v
<1>5. SafeEnds(Tail(s), v)
  BY <1>4 DEF SafeEnds
<1> QED BY <1>3, <1>5 DEF v

-----------------------------------------------------------------------------
(* Packets.                                                                 *)

LEMMA PayloadOK ==
    ASSUME NEW c \in Sent
    PROVE  /\ Payload(c) \in Seq(Unit) /\ Len(Payload(c)) = c.out
           /\ \A k \in 1 .. c.out : Payload(c)[k] = [id |-> c.id, k |-> k]
<1>1. c.out \in Nat /\ c.id \in Nat
  BY SentOK
<1> DEFINE unit(k) == [id |-> c.id, k |-> k]
<1>2. \A k \in 1 .. c.out : unit(k) \in Unit
  BY <1>1 DEF Unit
<1>3. Payload(c) = [k \in 1 .. c.out |-> unit(k)]
  BY DEF Payload
<1> HIDE DEF unit
<1>4. Payload(c) \in [1 .. c.out -> Unit]
  BY <1>2, <1>3
<1>5. Payload(c) \in Seq(Unit) /\ Len(Payload(c)) = c.out
  BY <1>1, <1>4
<1> QED BY <1>3, <1>5 DEF unit

LEMMA DataNone ==
    ASSUME NEW c, NEW w \in 0 .. c.out
    PROVE  DataPackets(<<>>, w, w, c)
<1> DEFINE o == [i \in 1 .. Len(<<>>) + 1 |-> w]
<1>1. o \in [1 .. Len(<<>>) + 1 -> 0 .. c.out] /\ o[1] = w /\ o[Len(<<>>) + 1] = w
  OBVIOUS
<1>2. 1 .. Len(<<>>) = {}
  OBVIOUS
<1> HIDE DEF o
<1> QED BY <1>1, <1>2 DEF DataPackets

LEMMA DataBounds ==
    ASSUME NEW q \in Seq(ToDevice), NEW c \in Sent, NEW w, NEW n, DataPackets(q, w, n, c)
    PROVE  /\ w \in 0 .. c.out /\ n \in 0 .. c.out
           /\ w = c.out => q = <<>> /\ n = c.out
<1>0. c.out \in Nat
  BY SentOK
<1>1. PICK off \in [1 .. Len(q) + 1 -> 0 .. c.out] :
        /\ off[1] = w /\ off[Len(q) + 1] = n
        /\ \A i \in 1 .. Len(q) : off[i] < off[i + 1]
  BY DEF DataPackets
<1>2. Len(q) \in Nat /\ (Len(q) = 0 => q = <<>>)
  OBVIOUS
<1>3. off[1] \in 0 .. c.out /\ off[Len(q) + 1] \in 0 .. c.out
  BY <1>2
<1>4. w = c.out => Len(q) = 0
  <2> SUFFICES ASSUME w = c.out, Len(q) # 0 PROVE FALSE
    OBVIOUS
  <2>1. 1 \in 1 .. Len(q) /\ 2 \in 1 .. Len(q) + 1
    BY <1>2
  <2>2. off[2] \in 0 .. c.out /\ off[1] < off[1 + 1]
    BY <1>1, <2>1
  <2> QED BY <1>0, <1>1, <2>2
<1>5. Len(q) = 0 => n = w
  BY <1>1
<1> QED BY <1>1, <1>2, <1>3, <1>4, <1>5

\* The first packet has the next units, and the rest follows.
LEMMA DataHead ==
    ASSUME NEW q \in Seq(ToDevice), q # <<>>, NEW c \in Sent, NEW w, NEW n, DataPackets(q, w, n, c)
    PROVE  \E v \in w + 1 .. c.out :
              /\ w \in Nat /\ v \in Nat
              /\ Head(q).units = SubSeq(Payload(c), w + 1, v)
              /\ DataPackets(Tail(q), v, n, c)
<1>0. c.out \in Nat
  BY SentOK
<1>1. PICK off \in [1 .. Len(q) + 1 -> 0 .. c.out] :
        /\ off[1] = w /\ off[Len(q) + 1] = n
        /\ \A i \in 1 .. Len(q) :
              /\ off[i] < off[i + 1]
              /\ q[i].units = SubSeq(Payload(c), off[i] + 1, off[i + 1])
  BY DEF DataPackets
<1>2. /\ Len(q) \in Nat \ {0} /\ Head(q) = q[1]
      /\ Len(Tail(q)) = Len(q) - 1
      /\ \A i \in 1 .. Len(q) - 1 : Tail(q)[i] = q[i + 1]
  OBVIOUS
<1> DEFINE v == off[2]
<1>3. w \in Nat /\ v \in w + 1 .. c.out /\ v \in Nat
  <2>1. 1 \in 1 .. Len(q) /\ 1 \in 1 .. Len(q) + 1 /\ 2 \in 1 .. Len(q) + 1
    BY <1>2
  <2>2. off[1] \in 0 .. c.out /\ off[2] \in 0 .. c.out /\ off[1] < off[1 + 1]
    BY <1>1, <2>1
  <2> QED BY <1>0, <1>1, <2>2
<1>4. Head(q).units = SubSeq(Payload(c), w + 1, v)
  BY <1>1, <1>2
<1>5. DataPackets(Tail(q), v, n, c)
  <2> DEFINE o == [i \in 1 .. Len(q) |-> off[i + 1]]
  <2>1. o \in [1 .. Len(Tail(q)) + 1 -> 0 .. c.out]
    BY <1>0, <1>2
  <2>2. o[1] = v /\ o[Len(Tail(q)) + 1] = n
    BY <1>1, <1>2
  <2>3. \A i \in 1 .. Len(Tail(q)) :
           /\ o[i] < o[i + 1]
           /\ Tail(q)[i].units = SubSeq(Payload(c), o[i] + 1, o[i + 1])
    BY <1>1, <1>2
  <2> HIDE DEF o
  <2> QED BY <2>1, <2>2, <2>3 DEF DataPackets
<1> HIDE DEF v
<1> QED BY <1>3, <1>4, <1>5

\* The host sends the next packet.
LEMMA DataAppend ==
    ASSUME NEW q \in Seq(ToDevice), NEW c \in Sent, NEW w, NEW n, DataPackets(q, w, n, c),
           NEW m \in n + 1 .. c.out,
           NEW p \in ToDevice, p.units = SubSeq(Payload(c), n + 1, m)
    PROVE  DataPackets(Append(q, p), w, m, c)
<1>0. c.out \in Nat /\ n \in 0 .. c.out /\ m \in 0 .. c.out /\ n < m
  BY SentOK, DataBounds
<1>1. PICK off \in [1 .. Len(q) + 1 -> 0 .. c.out] :
        /\ off[1] = w /\ off[Len(q) + 1] = n
        /\ \A i \in 1 .. Len(q) :
              /\ off[i] < off[i + 1]
              /\ q[i].units = SubSeq(Payload(c), off[i] + 1, off[i + 1])
  BY DEF DataPackets
<1>2. Len(q) \in Nat
  OBVIOUS
<1> DEFINE a == Append(q, p)
<1>3. /\ Len(a) = Len(q) + 1
      /\ \A i \in 1 .. Len(q) : a[i] = q[i]
      /\ a[Len(q) + 1] = p
  BY AppendProperties
<1> DEFINE o == [i \in 1 .. Len(q) + 2 |-> IF i = Len(q) + 2 THEN m ELSE off[i]]
<1>4. o \in [1 .. Len(a) + 1 -> 0 .. c.out]
  <2>1. \A i \in 1 .. Len(q) + 2 : i # Len(q) + 2 => i \in 1 .. Len(q) + 1
    BY <1>2
  <2>2. \A i \in 1 .. Len(q) + 2 : (IF i = Len(q) + 2 THEN m ELSE off[i]) \in 0 .. c.out
    BY <1>0, <1>1, <2>1
  <2>3. Len(a) + 1 = Len(q) + 2
    BY <1>2, <1>3
  <2> HIDE DEF a
  <2> QED BY <2>2, <2>3
<1>5. o[1] = w /\ o[Len(a) + 1] = m
  BY <1>1, <1>2, <1>3
<1>6. \A i \in 1 .. Len(q) + 1 : o[i] = off[i]
  BY <1>2
<1>7. ASSUME NEW i \in 1 .. Len(a)
      PROVE  o[i] < o[i + 1] /\ a[i].units = SubSeq(Payload(c), o[i] + 1, o[i + 1])
  <2>1. CASE i \in 1 .. Len(q)
    <3>1. i \in 1 .. Len(q) + 1 /\ i + 1 \in 1 .. Len(q) + 1
      BY <1>2, <2>1
    <3>2. o[i] = off[i] /\ o[i + 1] = off[i + 1] /\ a[i] = q[i]
      BY <1>3, <1>6, <2>1, <3>1
    <3> HIDE DEF o, a
    <3> QED BY <1>1, <2>1, <3>2
  <2>2. CASE i = Len(q) + 1
    <3>1. o[i] = n /\ o[i + 1] = m /\ a[i] = p
      BY <1>1, <1>2, <1>3, <1>6, <2>2
    <3> HIDE DEF o, a
    <3> QED BY <1>0, <3>1
  <2>3. i \in 1 .. Len(q) \/ i = Len(q) + 1
    BY <1>2, <1>3
  <2> QED BY <2>1, <2>2, <2>3
<1> HIDE DEF o
<1> QED BY <1>4, <1>5, <1>7 DEF DataPackets

\* Response data: nothing is left when all units have been read, and a packet
\* takes its size away.
LEMMA PiecesHead ==
    ASSUME NEW s \in Seq(ToHostPackets), NEW n \in Nat, Pieces(s, n)
    PROVE  /\ n = 0 <=> s = <<>>
           /\ s # <<>> => /\ Head(s).kind = "data" /\ Head(s).size \in 1 .. n
                         /\ Pieces(Tail(s), n - Head(s).size)
<1>1. PICK off \in [1 .. Len(s) + 1 -> Nat] :
        /\ off[1] = n /\ off[Len(s) + 1] = 0
        /\ \A i \in 1 .. Len(s) : off[i + 1] < off[i] /\ s[i].size = off[i] - off[i + 1] /\ s[i].kind = "data"
  BY DEF Pieces
<1>2. Len(s) \in Nat /\ (Len(s) = 0 <=> s = <<>>)
  OBVIOUS
<1>3. s = <<>> => n = 0
  BY <1>1, <1>2
<1>4. ASSUME s # <<>>
      PROVE  /\ n # 0 /\ Head(s).kind = "data" /\ Head(s).size \in 1 .. n
             /\ Pieces(Tail(s), n - Head(s).size)
  <2>1. /\ Len(s) \in Nat \ {0} /\ Head(s) = s[1] /\ Len(Tail(s)) = Len(s) - 1
        /\ \A i \in 1 .. Len(s) - 1 : Tail(s)[i] = s[i + 1]
    BY <1>4
  <2>2. 1 \in 1 .. Len(s) /\ 2 \in 1 .. Len(s) + 1 /\ off[2] \in Nat
    BY <2>1
  <2>3. off[2] < n /\ Head(s).size = n - off[2] /\ Head(s).kind = "data"
    BY <1>1, <2>1, <2>2
  <2>4. n - Head(s).size = off[2] /\ Head(s).size \in 1 .. n /\ n # 0
    BY <2>2, <2>3
  <2> DEFINE o == [i \in 1 .. Len(s) |-> off[i + 1]]
  <2>5. o \in [1 .. Len(Tail(s)) + 1 -> Nat]
    BY <2>1
  <2>6. o[1] = off[2] /\ o[Len(Tail(s)) + 1] = 0
    BY <1>1, <2>1
  <2>7. \A i \in 1 .. Len(Tail(s)) :
           o[i + 1] < o[i] /\ Tail(s)[i].size = o[i] - o[i + 1] /\ Tail(s)[i].kind = "data"
    BY <1>1, <2>1
  <2> HIDE DEF o
  <2>8. Pieces(Tail(s), off[2])
    BY <2>5, <2>6, <2>7 DEF Pieces
  <2> QED BY <2>3, <2>4, <2>8
<1> QED BY <1>2, <1>3, <1>4

\* Packets for m units, with at least one of them in the last.
LEMMA PacketCount ==
    ASSUME NEW m \in Nat
    PROVE  LET d == (m + PKT - 1) \div PKT
           IN  /\ d \in Nat
               /\ m = 0 => d = 0
               /\ m # 0 => d # 0 /\ m - (d - 1) * PKT \in 1 .. PKT
<1> DEFINE d == (m + PKT - 1) \div PKT
           r == (m + PKT - 1) % PKT
<1>1. PKT \in Nat /\ PKT > 1
  BY PacketAssumption
<1>2. m + PKT - 1 \in Nat
  BY <1>1
<1>3. d \in Nat /\ r \in 0 .. PKT - 1 /\ m + PKT - 1 = PKT * d + r
  BY <1>1, <1>2
<1> HIDE DEF d, r
<1>4. PKT * d = d * PKT /\ (d - 1) * PKT = d * PKT - PKT
  BY <1>1, <1>3
<1>5. m - (d - 1) * PKT = r + 1 - PKT + PKT
  BY <1>1, <1>3, <1>4
<1>6. r + 1 - PKT + PKT = r + 1 /\ r + 1 \in 1 .. PKT
  BY <1>1, <1>3
<1>7. m = 0 => d = 0
  <2> SUFFICES ASSUME m = 0, d # 0 PROVE FALSE
    OBVIOUS
  <2>1. d - 1 \in Nat /\ (d - 1) * PKT \in Nat
    BY <1>1, <1>3
  <2> QED BY <1>5, <1>6, <2>1
<1>8. m # 0 => d # 0
  BY <1>1, <1>3
<1> QED BY <1>3, <1>5, <1>6, <1>7, <1>8 DEF d

\* A response: its header, and as many units as the header says.
LEMMA ResponseOK ==
    ASSUME NEW c \in Sent, NEW st \in {"ok", "fail"}, NEW size \in Nat, mounted \in BOOLEAN
    PROVE  LET r == Response(c, st, size)
           IN  /\ r \in Seq(ToHostPackets) /\ r # <<>>
               /\ Head(r).kind = "header" /\ Head(r).status = st /\ Head(r).size = size
               /\ Pieces(Tail(r), size)
               /\ \A i \in 1 .. Len(r) : r[i].id = c.id /\ (r[i].kind = "data" => r[i].mounted = mounted)
<1> DEFINE h == [kind |-> "header", id |-> c.id, status |-> st, size |-> size, mounted |-> FALSE]
           d == (size + PKT - 1) \div PKT
           piece(i) == [kind |-> "data", id |-> c.id, status |-> st, size |-> Least(PKT, size - (i - 1) * PKT),
                        mounted |-> mounted]
           data == [i \in 1 .. d |-> piece(i)]
           r == Response(c, st, size)
<1>1. r = <<h>> \o data
  BY DEF Response
<1>2. c.id \in Nat /\ PKT \in Nat /\ PKT > 1
  BY SentOK, PacketAssumption
<1>3. d \in Nat /\ (size = 0 => d = 0) /\ (size # 0 => d # 0 /\ size - (d - 1) * PKT \in 1 .. PKT)
  BY PacketCount
<1> HIDE DEF d
<1>4. ASSUME NEW i \in 1 .. d
      PROVE  /\ size - (i - 1) * PKT \in Nat \ {0}
             /\ i < d => size - i * PKT \in Nat \ {0} /\ Least(PKT, size - (i - 1) * PKT) = PKT
             /\ Least(PKT, size - (i - 1) * PKT) \in Nat
             /\ i = d => Least(PKT, size - (i - 1) * PKT) = size - (i - 1) * PKT
  <2>1. size # 0 /\ d - i \in Nat /\ i \in Nat /\ i # 0
    BY <1>3
  <2>2. (d - 1) * PKT = (i - 1) * PKT + (d - i) * PKT /\ (d - i) * PKT \in Nat /\ (i - 1) * PKT \in Nat
    BY <1>2, <1>3, <2>1
  <2>3. size - (i - 1) * PKT \in Nat \ {0}
    BY <1>2, <1>3, <2>1, <2>2
  <2>4. i * PKT = (i - 1) * PKT + PKT
    BY <1>2, <2>1
  <2>5. i < d => (d - i) * PKT = (d - i - 1) * PKT + PKT /\ (d - i - 1) * PKT \in Nat
    BY <1>2, <1>3, <2>1
  <2>6. i < d => size - i * PKT \in Nat \ {0}
    BY <1>2, <1>3, <2>1, <2>2, <2>4, <2>5
  <2>7. i = d => size - (i - 1) * PKT \in 1 .. PKT
    BY <1>3, <2>1
  <2>8. i < d => Least(PKT, size - (i - 1) * PKT) = PKT
    BY <1>2, <2>2, <2>4, <2>6 DEF Least
  <2>9. i = d => Least(PKT, size - (i - 1) * PKT) = size - (i - 1) * PKT
    BY <1>2, <2>3, <2>7 DEF Least
  <2> QED BY <1>2, <1>3, <2>3, <2>6, <2>8, <2>9
<1>5. h \in ToHostPackets
  BY <1>2 DEF ToHostPackets
<1>6. \A i \in 1 .. d : piece(i) \in ToHostPackets
  BY <1>2, <1>4 DEF ToHostPackets
<1>7. data \in Seq(ToHostPackets) /\ Len(data) = d
  <2> HIDE DEF piece
  <2>1. data \in [1 .. d -> ToHostPackets]
    BY <1>6
  <2> QED BY <1>3, <2>1
<1>8. \A i \in 1 .. d : data[i] = piece(i)
  OBVIOUS
<1>9. Pieces(data, size)
  <2> DEFINE o == [i \in 1 .. d + 1 |-> IF i = d + 1 THEN 0 ELSE size - (i - 1) * PKT]
  <2>1. \A i \in 1 .. d + 1 : i # d + 1 => i \in 1 .. d
    BY <1>3
  <2>2. \A i \in 1 .. d + 1 : (IF i = d + 1 THEN 0 ELSE size - (i - 1) * PKT) \in Nat
    BY <1>4, <2>1
  <2>3. o \in [1 .. Len(data) + 1 -> Nat]
    BY <1>7, <2>2
  <2>4. o[d + 1] = 0 /\ \A i \in 1 .. d : o[i] = size - (i - 1) * PKT
    BY <1>3
  <2>5. o[1] = size
    <3>1. (1 - 1) * PKT = 0
      BY <1>2
    <3> QED BY <1>2, <1>3, <2>4, <3>1
  <2>6. ASSUME NEW i \in 1 .. d
        PROVE  o[i + 1] < o[i] /\ data[i].size = o[i] - o[i + 1] /\ data[i].kind = "data"
    <3>1. data[i].size = Least(PKT, size - (i - 1) * PKT) /\ data[i].kind = "data"
      BY <1>8
    <3>2. CASE i = d
      <4>1. o[i + 1] = 0 /\ o[i] = size - (i - 1) * PKT
        BY <2>4, <3>2
      <4> HIDE DEF o, data
      <4> QED BY <1>4, <3>1, <3>2, <4>1
    <3>3. CASE i < d
      <4>1. i + 1 \in 1 .. d /\ (i + 1) - 1 = i
        BY <1>3, <3>3
      <4>2. o[i + 1] = size - i * PKT /\ o[i] = size - (i - 1) * PKT
        BY <2>4, <4>1
      <4>3. i * PKT = (i - 1) * PKT + PKT /\ (i - 1) * PKT \in Int
        BY <1>2
      <4> HIDE DEF o, data
      <4> QED BY <1>2, <1>4, <3>1, <3>3, <4>2, <4>3
    <3> QED BY <1>3, <3>2, <3>3
  <2> HIDE DEF o, data
  <2> QED BY <1>7, <2>3, <2>4, <2>5, <2>6 DEF Pieces
<1> HIDE DEF h, data
<1>10. r \in Seq(ToHostPackets) /\ r # <<>> /\ Head(r) = h /\ Tail(r) = data
  BY <1>1, <1>5, <1>7
<1>11. \A i \in 1 .. Len(r) : r[i] = h \/ \E j \in 1 .. d : r[i] = data[j]
  BY <1>1, <1>3, <1>5, <1>7
<1>12. \A i \in 1 .. Len(r) : r[i].id = c.id /\ (r[i].kind = "data" => r[i].mounted = mounted)
  <2>0. \A j \in 1 .. d : piece(j).id = c.id /\ piece(j).mounted = mounted
    OBVIOUS
  <2> HIDE DEF piece
  <2>1. \A j \in 1 .. d : data[j].id = c.id /\ data[j].mounted = mounted
    BY <1>8, <2>0
  <2>2. h.id = c.id /\ h.kind # "data"
    BY DEF h
  <2> HIDE DEF r
  <2> QED BY <1>11, <2>1, <2>2
<1> HIDE DEF r
<1>13. Head(r).kind = "header" /\ Head(r).status = st /\ Head(r).size = size
  BY <1>10 DEF h
<1> QED BY <1>9, <1>10, <1>12, <1>13 DEF r

\* What the host has not read, with the packet in the endpoint first.
LEMMA Reading ==
    ASSUME NEW f, f = <<>> \/ \E r \in ToHostPackets : f = <<r>>,
           NEW t \in Seq(ToHostPackets)
    PROVE  /\ f \o t \in Seq(ToHostPackets)
           /\ f \o t = <<>> <=> f = <<>> /\ t = <<>>
           /\ f = <<>> => f \o t = t
           /\ f # <<>> => Head(f \o t) = f[1] /\ Tail(f \o t) = t
           /\ \A i \in 1 .. Len(t) : \E j \in 1 .. Len(f \o t) : t[i] = (f \o t)[j]
<1>1. CASE f = <<>>
  BY <1>1
<1>2. ASSUME NEW r \in ToHostPackets, f = <<r>>
      PROVE  /\ f \o t \in Seq(ToHostPackets) /\ f \o t # <<>> /\ Head(f \o t) = r /\ Tail(f \o t) = t
             /\ \A i \in 1 .. Len(t) : i + 1 \in 1 .. Len(f \o t) /\ t[i] = (f \o t)[i + 1]
  BY <1>2
<1> QED BY <1>1, <1>2

-----------------------------------------------------------------------------
(* What a step leaves as it is.                                             *)

LEMMA HostFrame ==
    ASSUME HostOK, host' = host, nextId' = nextId, mounted' => mounted
    PROVE  HostOK'
<1>1. host.pc = "next" => SafeEnds(host.todo, ~mounted')
  BY SafeWeaker DEF HostOK
<1>2. host.pc \in Busy => SafeEnds(host.todo, SafeAfter(host.cmd)')
  BY SafeWeaker DEF HostOK, SafeAfter
<1> QED BY <1>1, <1>2 DEF HostOK, AnswersOwnCommand

LEMMA InDeviceFrame ==
    ASSUME NEW c, NEW n, InDevice(c, n),
           Queue' = Queue, inF' = inF, tx' = tx, cur' = cur, got' = got, mounted' => mounted,
           dpc' = "tx" <=> dpc = "tx"
    PROVE  InDevice(c, n)'
BY DEF InDevice, Coming, Taking

LEMMA AnsweringFrame ==
    ASSUME NEW c, Answering(c),
           Queue' = Queue, inF' = inF, tx' = tx, cur' = cur, mounted' => mounted, dpc' = "tx"
    PROVE  Answering(c)'
BY DEF Answering, ToRead

LEMMA FlowFrame ==
    ASSUME CommandFlow, dpc \notin {"leave", "left"}, dpc' \notin {"leave", "left"}, dpc' = "tx" <=> dpc = "tx",
           host' = host, Queue' = Queue, inF' = inF, tx' = tx, cur' = cur, got' = got, stored' = stored,
           mounted' => mounted,
           "reset" \in misc' => "reset" \in misc,
           "disconnect" \in misc => "disconnect" \in misc' \/ "reset" \in misc
    PROVE  CommandFlow'
<1>1. Together \/ Alone
  BY DEF CommandFlow, Leaving
<1>2. CASE host.pc \in {"idle", "next", "header"} /\ Ready
  BY <1>2 DEF CommandFlow, Together, Ready
<1>3. CASE host.pc = "data" /\ "reset" \notin misc /\ InDevice(host.cmd, host.n)
  BY <1>3, InDeviceFrame DEF CommandFlow, Together
<1>4. CASE host.pc = "response" /\ "reset" \notin misc /\ InDevice(host.cmd, host.cmd.out)
  BY <1>4, InDeviceFrame DEF CommandFlow, Together
<1>5. CASE host.pc = "response" /\ "reset" \notin misc /\ Answering(host.cmd) /\ HeaderUnread(host.cmd) /\ HeaderFailed
  <2>1. Answering(host.cmd)'
    BY <1>5, AnsweringFrame DEF Answering
  <2>2. HeaderUnread(host.cmd)' /\ HeaderFailed'
    BY <1>5 DEF HeaderUnread, HeaderFailed, ToRead
  <2> QED BY <1>5, <2>1, <2>2 DEF CommandFlow, Together
<1>6. CASE host.pc = "respdata" /\ "reset" \notin misc /\ Answering(host.cmd) /\ Pieces(ToRead, host.n)
  <2>1. Answering(host.cmd)'
    BY <1>6, AnsweringFrame DEF Answering
  <2>2. Pieces(ToRead, host.n)'
    BY <1>6 DEF ToRead
  <2> QED BY <1>6, <2>1, <2>2 DEF CommandFlow, Together
<1>7. CASE Alone
  <2>1. PICK c \in Sent : Answering(c) \/ \E n \in 0 .. c.out : InDevice(c, n)
    BY <1>7 DEF Alone
  <2>2. Answering(c)' \/ \E n \in 0 .. c.out : InDevice(c, n)'
    BY <2>1, InDeviceFrame, AnsweringFrame DEF Answering
  <2> QED BY <1>7, <2>2 DEF CommandFlow, Alone
<1> QED BY <1>1, <1>2, <1>3, <1>4, <1>5, <1>6, <1>7 DEF Together

\* Nobody has filled the endpoint of the host while the device polls.
LEMMA NothingToRead ==
    ASSUME CommandFlow, dpc # "tx"
    PROVE  inF = <<>> /\ tx = <<>>
BY DEF CommandFlow, Leaving, Together, Alone, Ready, InDevice, Coming, Taking, Answering

LEMMA LeavingFrame ==
    ASSUME CommandFlow, dpc # "tx", dpc' \in {"leave", "left"}, inF' = inF, tx' = tx
    PROVE  CommandFlow'
BY NothingToRead DEF CommandFlow, Leaving

LEMMA StoredFrame ==
    ASSUME WritesStored, acked' = acked, stored' = stored
    PROVE  WritesStored'
BY DEF WritesStored, OkMeansStored, StoresWholeWrites

-----------------------------------------------------------------------------
(* The steps of usbdcomm_poll.                                              *)

LEMMA StepPoll ==
    ASSUME CommandInv, Poll
    PROVE  CommandInv'
<1>1. HostOK /\ DeviceOK /\ CommandFlow /\ WritesStored
  BY DEF CommandInv
<1>2. CASE PollReset \/ PollIdle \/ PollFrame \/ PollNoFrame \/ Defer \/ Polled
  <2>1. /\ host' = host /\ acked' = acked /\ nextId' = nextId /\ out' = out /\ inF' = inF /\ cur' = cur /\ got' = got
        /\ tx' = tx /\ exit' = exit /\ mounted' = mounted /\ dirty' = dirty /\ stored' = stored
        /\ dpc \in {"poll", "polled", "defer"} /\ dpc' \in {"poll", "polled", "defer", "rxcmd", "leave"}
    BY <1>2 DEF PollReset, PollIdle, PollFrame, PollNoFrame, Defer, Polled, usb
  <2>2. irq' \subseteq EP /\ snap' \subseteq EP /\ deferred' \subseteq EP
    BY <1>1, <1>2 DEF DeviceOK, PollReset, PollIdle, PollFrame, PollNoFrame, Defer, Polled, usb
  <2>3. exit # "no" => dpc' \in {"polled", "leave"}
    BY <1>1, <1>2 DEF DeviceOK, PollReset, PollIdle, PollFrame, PollNoFrame, Defer, Polled, usb
  <2>4. "reset" \in misc' => "reset" \in misc
    BY <1>2 DEF PollReset, PollIdle, PollFrame, PollNoFrame, Defer, Polled, usb
  <2>5. "disconnect" \in misc => "disconnect" \in misc' \/ "reset" \in misc
    BY <1>2 DEF PollReset, PollIdle, PollFrame, PollNoFrame, Defer, Polled, usb
  <2>6. DeviceOK'
    BY <1>1, <2>1, <2>2, <2>3 DEF DeviceOK
  <2>7. HostOK'
    BY <1>1, <2>1, HostFrame
  <2>8. CommandFlow'
    <3>1. CASE dpc' = "leave"
      BY <1>1, <2>1, <3>1, LeavingFrame
    <3>2. CASE dpc' # "leave"
      BY <1>1, <2>1, <2>4, <2>5, <3>2, FlowFrame DEF Queue
    <3> QED BY <3>1, <3>2
  <2> QED BY <1>1, <2>1, <2>6, <2>7, <2>8, StoredFrame DEF CommandInv
<1>3. CASE PollFails
  <2>1. /\ host' = host /\ acked' = acked /\ nextId' = nextId /\ out' = out /\ inF' = inF /\ cur' = cur /\ got' = got
        /\ tx' = tx /\ exit' = exit /\ mounted' = mounted /\ dirty' = dirty /\ stored' = stored
        /\ irq' = irq /\ snap' = snap /\ deferred' = deferred /\ dpc = "poll" /\ dpc' = "leave"
    BY <1>3 DEF PollFails
  <2>2. DeviceOK' /\ HostOK' /\ CommandFlow'
    BY <1>1, <2>1, HostFrame, LeavingFrame DEF DeviceOK
  <2> QED BY <1>1, <2>1, <2>2, StoredFrame DEF CommandInv
<1>4. CASE Leave
  <2>1. /\ host' = host /\ acked' = acked /\ nextId' = nextId /\ out' = out /\ inF' = inF /\ cur' = NoCmd /\ got' = got
        /\ tx' = tx /\ exit' = exit /\ mounted' = mounted /\ dirty' \in {"no", "lost"} /\ stored' = stored
        /\ irq' = irq /\ snap' = snap /\ deferred' = {} /\ dpc = "leave" /\ dpc' = "left"
    BY <1>4 DEF Leave, usb
  <2>2. DeviceOK' /\ HostOK' /\ CommandFlow'
    BY <1>1, <2>1, HostFrame, LeavingFrame DEF DeviceOK
  <2> QED BY <1>1, <2>1, <2>2, StoredFrame DEF CommandInv
<1> QED BY <1>2, <1>3, <1>4 DEF Poll

-----------------------------------------------------------------------------
(* The steps of the command layer.                                          *)

LEMMA StepNoCommand ==
    ASSUME CommandInv, NoCommand
    PROVE  CommandInv'
<1>1. HostOK /\ DeviceOK /\ CommandFlow /\ WritesStored
  BY DEF CommandInv
<1>2. /\ host' = host /\ acked' = acked /\ nextId' = nextId /\ out' = out /\ inF' = inF /\ cur' = cur /\ got' = got
      /\ tx' = tx /\ exit' = exit /\ mounted' = mounted /\ dirty' = dirty /\ stored' = stored /\ misc' = misc
      /\ irq' = irq /\ snap' = snap /\ deferred' = deferred \ {"cmd"} /\ dpc = "rxcmd" /\ dpc' = "rxstorage"
  BY DEF NoCommand, usb
<1>3. DeviceOK'
  BY <1>1, <1>2 DEF DeviceOK
<1>4. HostOK' /\ CommandFlow'
  BY <1>1, <1>2, HostFrame, FlowFrame DEF Queue
<1> QED BY <1>1, <1>2, <1>3, <1>4, StoredFrame DEF CommandInv

LEMMA StepStorage ==
    ASSUME CommandInv, RxStorage
    PROVE  CommandInv'
<1>1. HostOK /\ DeviceOK /\ CommandFlow /\ WritesStored
  BY DEF CommandInv
<1>2. /\ host' = host /\ acked' = acked /\ nextId' = nextId /\ cur' = cur /\ got' = got
      /\ tx' = tx /\ exit' = exit /\ stored' = stored
      /\ snap' = snap /\ deferred' = deferred \ {"storage"} /\ dpc = "rxstorage" /\ dpc' = "defer"
  BY DEF RxStorage
<1>3. /\ inF' = inF /\ misc' = misc /\ (mounted' => mounted) /\ mounted' \in BOOLEAN /\ dirty' \in {"no", "cached", "lost"}
      /\ irq' \subseteq EP /\ out'["cmd"] = out["cmd"]
      /\ DOMAIN out' = EP /\ \A e \in EP : out'[e] \in Seq(ToDevice) /\ Len(out'[e]) <= FIFO
  <2>1. CASE "storage" \in deferred /\ out["storage"] # <<>>
    <3>1. /\ Unload("storage")
          /\ dirty' = IF mounted /\ Head(out["storage"]).cmd.cmd = "write" THEN "cached" ELSE dirty
          /\ mounted' = (mounted /\ Head(out["storage"]).cmd.cmd # "eject")
      BY <2>1 DEF RxStorage
    <3>2. out["storage"] \in Seq(ToDevice) /\ Len(out["storage"]) <= FIFO /\ DOMAIN out = EP /\ "storage" \in EP /\ "cmd" \in EP
      BY <1>1 DEF DeviceOK, EP
    <3>3. Tail(out["storage"]) \in Seq(ToDevice) /\ Len(Tail(out["storage"])) <= FIFO
      BY <2>1, <3>2, PacketAssumption
    <3>4. out' = [out EXCEPT !["storage"] = Tail(@)] /\ inF' = inF /\ misc' = misc /\ irq' \subseteq EP
      BY <1>1, <3>1, <3>2 DEF Unload, DeviceOK
    <3>5. DOMAIN out' = EP /\ out'["cmd"] = out["cmd"] /\ \A e \in EP : out'[e] \in Seq(ToDevice) /\ Len(out'[e]) <= FIFO
      BY <1>1, <3>2, <3>3, <3>4 DEF DeviceOK
    <3>6. (mounted' => mounted) /\ mounted' \in BOOLEAN /\ dirty' \in {"no", "cached", "lost"}
      BY <1>1, <3>1 DEF DeviceOK
    <3> QED BY <3>4, <3>5, <3>6
  <2>2. CASE ~("storage" \in deferred /\ out["storage"] # <<>>)
    BY <1>1, <2>2 DEF RxStorage, DeviceOK, usb
  <2> QED BY <2>1, <2>2
<1>4. DeviceOK'
  BY <1>1, <1>2, <1>3 DEF DeviceOK
<1>5. HostOK' /\ CommandFlow'
  BY <1>1, <1>2, <1>3, HostFrame, FlowFrame DEF Queue
<1> QED BY <1>1, <1>2, <1>4, <1>5, StoredFrame DEF CommandInv

LEMMA StepAnswered ==
    ASSUME CommandInv, Answered
    PROVE  CommandInv'
<1>1. HostOK /\ DeviceOK /\ CommandFlow /\ WritesStored
  BY DEF CommandInv
<1>2. /\ host' = host /\ acked' = acked /\ nextId' = nextId /\ out' = out /\ inF' = inF /\ cur' = NoCmd /\ got' = got
      /\ tx' = tx /\ exit' = exit /\ mounted' = mounted /\ dirty' = dirty /\ stored' = stored /\ misc' = misc
      /\ irq' = irq /\ snap' = snap /\ deferred' = deferred \ {"cmd"} /\ dpc = "tx" /\ dpc' = "rxstorage"
      /\ tx = <<>> /\ inF = <<>>
  BY DEF Answered, usb
<1>3. DeviceOK'
  BY <1>1, <1>2 DEF DeviceOK
<1>4. ASSUME NEW c PROVE ~Answering(c)
  <2>1. ToRead = <<>>
    BY <1>2, Reading DEF ToRead
  <2> QED BY <2>1 DEF Answering
<1>5. ASSUME NEW c, NEW n, InDevice(c, n) PROVE InDevice(c, n)'
  BY <1>2, <1>5 DEF InDevice, Coming, Taking, Queue
<1>6. Ready => Ready'
  BY <1>2 DEF Ready, Queue
<1>7. CommandFlow'
  <2>1. CASE Together
    BY <1>2, <1>4, <1>5, <1>6, <2>1 DEF Together, CommandFlow
  <2>2. CASE Alone
    <3>1. PICK c \in Sent : Answering(c) \/ \E n \in 0 .. c.out : InDevice(c, n)
      BY <2>2 DEF Alone
    <3>2. \E n \in 0 .. c.out : InDevice(c, n)'
      BY <1>4, <1>5, <3>1
    <3> QED BY <1>2, <2>2, <3>2 DEF Alone, CommandFlow
  <2> QED BY <1>1, <1>2, <2>1, <2>2 DEF CommandFlow, Leaving
<1>8. HostOK'
  BY <1>1, <1>2, HostFrame
<1> QED BY <1>1, <1>2, <1>3, <1>7, <1>8, StoredFrame DEF CommandInv

LEMMA StepSendPacket ==
    ASSUME CommandInv, SendPacket
    PROVE  CommandInv'
<1>1. HostOK /\ DeviceOK /\ CommandFlow /\ WritesStored
  BY DEF CommandInv
<1>2. /\ host' = host /\ acked' = acked /\ nextId' = nextId /\ out' = out /\ inF' = <<Head(tx)>> /\ cur' = cur /\ got' = got
      /\ tx' = Tail(tx) /\ exit' = exit /\ mounted' = mounted /\ dirty' = dirty /\ stored' = stored /\ misc' = misc
      /\ irq' = irq /\ snap' = snap /\ deferred' = deferred /\ dpc = "tx" /\ dpc' = dpc
      /\ tx # <<>> /\ inF = <<>>
  BY DEF SendPacket
<1>3. tx \in Seq(ToHostPackets) /\ Head(tx) \in ToHostPackets /\ Tail(tx) \in Seq(ToHostPackets) /\ <<Head(tx)>> \o Tail(tx) = tx
  BY <1>1, <1>2 DEF DeviceOK
<1>4. DeviceOK'
  BY <1>1, <1>2, <1>3 DEF DeviceOK
<1>5. ToRead' = ToRead
  <2>1. ToRead = tx
    BY <1>2, <1>3, Reading DEF ToRead
  <2> QED BY <1>2, <1>3, <2>1 DEF ToRead
<1>6. ~Ready /\ \A c, n : ~InDevice(c, n)
  BY <1>2 DEF Ready, InDevice, Coming, Taking
<1>7. ASSUME NEW c, Answering(c) PROVE Answering(c)'
  BY <1>2, <1>5, <1>7 DEF Answering, Queue
<1>8. ASSUME NEW c, HeaderUnread(c) PROVE HeaderUnread(c)'
  BY <1>2, <1>5, <1>8 DEF HeaderUnread
<1>9. CommandFlow'
  <2>1. CASE Together
    BY <1>2, <1>5, <1>6, <1>7, <1>8, <2>1 DEF Together, CommandFlow, HeaderFailed
  <2>2. CASE Alone
    <3>1. PICK c \in Sent : Answering(c)
      BY <1>6, <2>2 DEF Alone
    <3>2. Answering(c)'
      BY <1>7, <3>1
    <3> QED BY <1>2, <2>2, <3>2 DEF Alone, CommandFlow
  <2> QED BY <1>1, <1>2, <2>1, <2>2 DEF CommandFlow, Leaving
<1>10. HostOK'
  BY <1>1, <1>2, HostFrame
<1> QED BY <1>1, <1>2, <1>4, <1>9, <1>10, StoredFrame DEF CommandInv

\* dispatch_cmd carries out a whole command: what a write has written is its
\* data, a mount is the only command after which a volume may be mounted, and the
\* command that ends diskboot finds none.
LEMMA DispatchOK ==
    ASSUME DeviceOK, WritesStored, NEW c \in Sent, dispatch_cmd(c, Payload(c)),
           c.cmd \in Exits => ~mounted, exit = "no",
           Queue' = <<>>, inF = <<>>, inF' = inF, cur' = c, acked' = acked
    PROVE  /\ dpc' = "tx" /\ tx' \in Seq(ToHostPackets)
           /\ exit' \in {"no", "fel", "other"} /\ mounted' \in BOOLEAN /\ dirty' \in {"no", "cached", "lost"}
           /\ exit' # "no" => ~mounted'
           /\ c.cmd # "mount" => mounted' = mounted
           /\ WritesStored'
           /\ Answering(c)' /\ HeaderUnread(c)' /\ HeaderFailed'
<1>1. c.cmd \in Names /\ c.in \in Nat /\ c.id \in Nat /\ mounted \in BOOLEAN /\ dirty \in {"no", "cached", "lost"}
  BY SentOK DEF DeviceOK
<1>2. dpc' = "tx"
  BY DEF dispatch_cmd
<1>3. PICK st \in {"ok", "fail"} : \E size \in Nat :
        /\ tx' = Response(c, st, size)
        /\ st = "ok" => size = c.in
        /\ st = "fail" => size = 0
        /\ c.cmd = "write" /\ st = "ok" => stored' = stored \union {Payload(c)}
        /\ ~(c.cmd = "write" /\ st = "ok") => stored' = stored
        /\ dirty' \in {"no", "cached", "lost"}
        /\ mounted' = mounted \/ (c.cmd = "mount" /\ mounted' = TRUE)
        /\ exit' = exit \/ (c.cmd \in Exits /\ exit' \in {"fel", "other"} /\ mounted' = mounted)
  <2>1. CASE /\ c.cmd # "none" /\ ~(c.cmd = "mount" /\ mounted)
             /\ tx' = Answer(c)
             /\ exit' = CASE c.cmd = "exit" -> "fel" [] c.cmd = "jump" -> "other" [] OTHER -> exit
             /\ mounted' = (mounted \/ c.cmd = "mount")
             /\ IF c.cmd = "write" THEN DiskWrite(Payload(c)) ELSE UNCHANGED <<stored, dirty>>
    <3>1. exit' = exit \/ (c.cmd \in Exits /\ exit' \in {"fel", "other"})
      <4>1. c.cmd = "exit" => exit' = "fel"
        BY <2>1
      <4>2. c.cmd = "jump" => exit' = "other"
        BY <2>1
      <4>3. c.cmd \notin Exits => exit' = exit
        BY <2>1 DEF Exits
      <4> QED BY <4>1, <4>2, <4>3 DEF Exits
    <3>2. c.cmd \in Exits => c.cmd # "mount"
      BY DEF Exits
    <3>3. tx' = Response(c, "ok", c.in)
      BY <2>1 DEF Answer
    <3>4. /\ c.cmd = "write" => stored' = stored \union {Payload(c)}
          /\ c.cmd # "write" => stored' = stored
          /\ dirty' \in {"no", "cached", "lost"}
      BY <1>1, <2>1 DEF DiskWrite
    <3>5. mounted' = (mounted \/ c.cmd = "mount")
      BY <2>1
    <3> QED BY <1>1, <3>1, <3>2, <3>3, <3>4, <3>5
  <2>2. CASE /\ c.cmd \in MayFail
             /\ tx' = Response(c, "fail", 0)
             /\ dirty' = IF c.cmd = "write" THEN "cached" ELSE dirty
             /\ UNCHANGED <<exit, mounted, stored>>
    BY <1>1, <2>2
  <2> QED BY <2>1, <2>2 DEF dispatch_cmd
<1>4. PICK size \in Nat :
        /\ tx' = Response(c, st, size)
        /\ st = "ok" => size = c.in
        /\ st = "fail" => size = 0
        /\ c.cmd = "write" /\ st = "ok" => stored' = stored \union {Payload(c)}
        /\ ~(c.cmd = "write" /\ st = "ok") => stored' = stored
        /\ dirty' \in {"no", "cached", "lost"}
        /\ mounted' = mounted \/ (c.cmd = "mount" /\ mounted' = TRUE)
        /\ exit' = exit \/ (c.cmd \in Exits /\ exit' \in {"fel", "other"} /\ mounted' = mounted)
  BY <1>3
<1> DEFINE r == Response(c, st, size)
<1>5. /\ r \in Seq(ToHostPackets) /\ r # <<>>
      /\ Head(r).kind = "header" /\ Head(r).status = st /\ Head(r).size = size
      /\ Pieces(Tail(r), size)
      /\ \A i \in 1 .. Len(r) : r[i].id = c.id /\ (r[i].kind = "data" => r[i].mounted = mounted)
  BY <1>1, ResponseOK
<1> HIDE DEF r
<1>6. ToRead' = r
  BY <1>4, <1>5, Reading DEF ToRead, r
<1>7. Answering(c)'
  <2>1. c.cmd = "check" => mounted' = mounted
    BY <1>4
  <2> QED BY <1>2, <1>5, <1>6, <2>1 DEF Answering
<1>8. size = 0 => Tail(r) = <<>>
  <2>1. Tail(r) \in Seq(ToHostPackets)
    BY <1>5
  <2> QED BY <1>5, <2>1, PiecesHead
<1>9. HeaderUnread(c)' /\ HeaderFailed'
  BY <1>4, <1>5, <1>6, <1>8 DEF HeaderUnread, HeaderFailed
<1>10. WritesStored'
  <2>1. \A k \in DOMAIN Payload(c) : Payload(c)[k] = [id |-> Payload(c)[1].id, k |-> k]
    <3>1. /\ DOMAIN Payload(c) = 1 .. c.out /\ c.out \in Nat
          /\ \A k \in 1 .. c.out : Payload(c)[k] = [id |-> c.id, k |-> k]
      BY PayloadOK, SentOK
    <3>2. \A k \in 1 .. c.out : 1 \in 1 .. c.out
      BY <3>1
    <3>3. \A k \in 1 .. c.out : Payload(c)[1] = [id |-> c.id, k |-> 1]
      BY <3>1, <3>2
    <3>4. \A k \in 1 .. c.out : Payload(c)[1].id = c.id
      BY <3>3
    <3> QED BY <3>1, <3>4
  <2>2. stored' = stored \/ stored' = stored \union {Payload(c)}
    BY <1>4
  <2> QED BY <2>1, <2>2 DEF WritesStored, OkMeansStored, StoresWholeWrites
<1>11. tx' \in Seq(ToHostPackets)
  BY <1>4, <1>5 DEF r
<1>12. exit' \in {"no", "fel", "other"} /\ mounted' \in BOOLEAN /\ (exit' # "no" => ~mounted') /\ (c.cmd # "mount" => mounted' = mounted)
  BY <1>1, <1>4
<1> QED BY <1>2, <1>4, <1>7, <1>9, <1>10, <1>11, <1>12

\* The command that the device is taking is the one the host is sending, unless the
\* cable has been pulled.
LEMMA UnderWay ==
    ASSUME CommandFlow, HostOK, DeviceOK, dpc \notin {"tx", "leave", "left"}, Queue # <<>>
    PROVE  \E c \in Sent : \E n \in 0 .. c.out :
              /\ InDevice(c, n) /\ "reset" \notin misc
              /\ \/ host.pc = "data" /\ c = host.cmd /\ n = host.n
                 \/ host.pc = "response" /\ c = host.cmd /\ n = c.out
                 \/ host.pc = "idle" /\ "disconnect" \in misc
<1>1. ~Ready /\ \A c : ~Answering(c)
  BY DEF Ready, Answering
<1>2. Together \/ Alone
  BY DEF CommandFlow, Leaving
<1>3. CASE host.pc = "data" /\ "reset" \notin misc /\ InDevice(host.cmd, host.n)
  <2>1. host.cmd \in Sent /\ host.n \in Nat /\ host.n < host.cmd.out
    BY <1>3 DEF HostOK, Busy
  <2>2. host.n \in 0 .. host.cmd.out
    BY <2>1, SentOK
  <2> QED BY <1>3, <2>1, <2>2
<1>4. CASE host.pc = "response" /\ "reset" \notin misc /\ InDevice(host.cmd, host.cmd.out)
  <2>1. host.cmd \in Sent
    BY <1>4 DEF HostOK, Busy
  <2>2. host.cmd.out \in 0 .. host.cmd.out
    BY <2>1, SentOK
  <2> QED BY <1>4, <2>1, <2>2
<1>5. CASE Alone
  BY <1>1, <1>5 DEF Alone
<1> QED BY <1>1, <1>2, <1>3, <1>4, <1>5 DEF Together

\* diskboot_rx_handler with a header, when no command is under way.
LEMMA ReceivesHeader ==
    ASSUME cur = NoCmd, NEW c, NEW r \in Received([units |-> <<[id |-> c.id, k |-> 0]>>, cmd |-> c])
    PROVE  r = [cur |-> c, got |-> <<>>, whole |-> 0 = c.out]
<1> DEFINE pk == [units |-> <<[id |-> c.id, k |-> 0]>>, cmd |-> c]
<1>1. Len(pk.units) = 1 /\ pk.units[1].k = 0 /\ pk.cmd = c
  OBVIOUS
<1> HIDE DEF pk
<1>2. cur.cmd = "none" /\ Len(GotAfterHeader) = 0
  BY DEF NoCmd, GotAfterHeader
<1>3. Received(pk) = {[cur |-> pk.cmd, got |-> GotAfterHeader, whole |-> Len(GotAfterHeader) = pk.cmd.out]}
  BY <1>1, <1>2 DEF Received
<1>4. r \in Received(pk)
  BY DEF pk
<1> QED BY <1>1, <1>2, <1>3, <1>4 DEF GotAfterHeader

\* The same with the next packet of data.
LEMMA ReceivesData ==
    ASSUME NEW c \in Sent, cur = c, Len(got) \in Nat, Len(got) < c.out, got = SubSeq(Payload(c), 1, Len(got)),
           NEW v \in Len(got) + 1 .. c.out,
           NEW pk, pk.units = SubSeq(Payload(c), Len(got) + 1, v),
           NEW r \in Received(pk)
    PROVE  r = [cur |-> c, got |-> SubSeq(Payload(c), 1, v), whole |-> v = c.out]
<1> DEFINE w == Len(got)
<1>1. /\ Payload(c) \in Seq(Unit) /\ Len(Payload(c)) = c.out /\ c.out \in Nat /\ c.cmd # "none"
      /\ w \in Nat /\ v \in Nat /\ w < v /\ v <= c.out
  BY PayloadOK, SentOK
<1>2. pk.units \in Seq(Unit) /\ Len(pk.units) = v - w
  BY <1>1
<1>3. Slice(pk.units, 0, Len(pk.units)) = pk.units
  BY <1>2 DEF Slice
<1>4. got \o pk.units = SubSeq(Payload(c), 1, v) /\ Len(SubSeq(Payload(c), 1, v)) = v
  <2>1. SubSeq(Payload(c), 1, w) \o SubSeq(Payload(c), w + 1, v) = SubSeq(Payload(c), 1, v)
    <3>1. 1 \in 1 .. Len(Payload(c)) + 1 /\ w \in (1 - 1) .. Len(Payload(c)) /\ v \in w .. Len(Payload(c))
      BY <1>1
    <3> QED BY <1>1, <3>1, ConcatAdjacentSubSeq
  <2> QED BY <1>1, <2>1
<1>5. Received(pk) = {[cur |-> cur, got |-> got \o pk.units, whole |-> Len(got \o pk.units) = cur.out]}
  <2> DEFINE toWrite == cur.out - Len(got)
             taken == IF toWrite < 0 \/ Len(pk.units) <= toWrite THEN Len(pk.units) ELSE toWrite
  <2>1. taken = Len(pk.units)
    BY <1>1, <1>2
  <2> HIDE DEF taken
  <2>2. cur.cmd # "none"
    BY <1>1
  <2>3. Received(pk) = {[cur |-> cur, got |-> CopyBehind(Slice(pk.units, 0, taken)),
                         whole |-> Len(CopyBehind(Slice(pk.units, 0, taken))) = cur.out]}
    BY <2>2 DEF Received, taken
  <2> QED BY <1>3, <2>1, <2>3 DEF CopyBehind
<1> QED BY <1>4, <1>5

\* What is left in the endpoints when a packet has been taken out.
LEMMA Unloaded ==
    ASSUME DeviceOK, Unload("cmd"), Queue # <<>>
    PROVE  /\ Queue \in Seq(ToDevice) /\ Queue' = Tail(Queue) /\ Queue' \in Seq(ToDevice)
           /\ DOMAIN out' = EP /\ \A e \in EP : out'[e] \in Seq(ToDevice) /\ Len(out'[e]) <= FIFO
           /\ irq' \subseteq EP /\ inF' = inF /\ misc' = misc
<1>1. out["cmd"] \in Seq(ToDevice) /\ Len(out["cmd"]) <= FIFO /\ DOMAIN out = EP /\ "cmd" \in EP
  BY DEF DeviceOK, EP
<1>2. Tail(out["cmd"]) \in Seq(ToDevice) /\ Len(Tail(out["cmd"])) <= FIFO
  BY <1>1, PacketAssumption DEF Queue
<1>3. out' = [out EXCEPT !["cmd"] = Tail(@)] /\ inF' = inF /\ misc' = misc /\ irq' \subseteq EP
  BY <1>1 DEF Unload, DeviceOK
<1>4. DOMAIN out' = EP /\ out'["cmd"] = Tail(out["cmd"]) /\ \A e \in EP : out'[e] \in Seq(ToDevice) /\ Len(out'[e]) <= FIFO
  BY <1>1, <1>2, <1>3 DEF DeviceOK
<1> QED BY <1>1, <1>2, <1>3, <1>4 DEF Queue

\* A packet of the command c is taken: units up to v have come then.
LEMMA TakesNext ==
    ASSUME DeviceOK, dpc # "tx", Queue # <<>>,
           NEW c \in Sent, NEW n \in 0 .. c.out, InDevice(c, n), NEW r \in Received(Head(Queue))
    PROVE  \E v \in 0 .. c.out :
              /\ r = [cur |-> c, got |-> SubSeq(Payload(c), 1, v), whole |-> v = c.out]
              /\ DataPackets(Tail(Queue), v, n, c)
<1>1. Queue \in Seq(ToDevice) /\ Payload(c) \in Seq(Unit) /\ Len(Payload(c)) = c.out /\ c.out \in Nat
  BY PayloadOK, SentOK DEF DeviceOK, Queue, EP
<1>2. CASE Coming(c, n)
  <2>1. cur = NoCmd /\ Head(Queue) = [units |-> <<[id |-> c.id, k |-> 0]>>, cmd |-> c] /\ DataPackets(Tail(Queue), 0, n, c)
    BY <1>2 DEF Coming
  <2>2. r = [cur |-> c, got |-> <<>>, whole |-> 0 = c.out]
    BY <2>1, ReceivesHeader
  <2>3. SubSeq(Payload(c), 1, 0) = <<>> /\ 0 \in 0 .. c.out
    BY <1>1, SubSeqEmpty
  <2> QED BY <2>1, <2>2, <2>3
<1>3. CASE Taking(c, n)
  <2>1. cur = c /\ Len(got) < c.out /\ got = SubSeq(Payload(c), 1, Len(got)) /\ DataPackets(Queue, Len(got), n, c)
    BY <1>3 DEF Taking
  <2>2. Len(got) \in Nat
    BY DEF DeviceOK
  <2>3. PICK v \in Len(got) + 1 .. c.out :
           Head(Queue).units = SubSeq(Payload(c), Len(got) + 1, v) /\ DataPackets(Tail(Queue), v, n, c)
    BY <1>1, <2>1, DataHead
  <2>4. r = [cur |-> c, got |-> SubSeq(Payload(c), 1, v), whole |-> v = c.out]
    BY <2>1, <2>2, <2>3, ReceivesData
  <2>5. v \in 0 .. c.out
    BY <1>1, <2>2
  <2> QED BY <2>3, <2>4, <2>5
<1> QED BY <1>2, <1>3 DEF InDevice

LEMMA StepRxCommand ==
    ASSUME CommandInv, RxCommand
    PROVE  CommandInv'
<1>1. HostOK /\ DeviceOK /\ CommandFlow /\ WritesStored
  BY DEF CommandInv
<1>2. /\ dpc = "rxcmd" /\ Queue # <<>> /\ Unload("cmd")
      /\ host' = host /\ acked' = acked /\ nextId' = nextId /\ snap' = snap
  BY DEF RxCommand, Queue
<1>3. PICK r \in Received(Head(Queue)) :
        /\ cur' = r.cur /\ got' = r.got
        /\ IF r.whole THEN dispatch_cmd(r.cur, r.got) /\ UNCHANGED deferred
           ELSE /\ dpc' = "rxstorage"
                /\ deferred' = deferred \ {"cmd"}
                /\ UNCHANGED <<tx, exit, mounted, dirty, stored>>
  BY DEF RxCommand, Queue
<1>4. /\ Queue \in Seq(ToDevice) /\ Queue' = Tail(Queue) /\ Queue' \in Seq(ToDevice)
      /\ DOMAIN out' = EP /\ \A e \in EP : out'[e] \in Seq(ToDevice) /\ Len(out'[e]) <= FIFO
      /\ irq' \subseteq EP /\ inF' = inF /\ misc' = misc
  BY <1>1, <1>2, Unloaded
<1>50. PICK c \in Sent :
         \E n \in 0 .. c.out :
            /\ InDevice(c, n) /\ "reset" \notin misc
            /\ \/ host.pc = "data" /\ c = host.cmd /\ n = host.n
               \/ host.pc = "response" /\ c = host.cmd /\ n = c.out
               \/ host.pc = "idle" /\ "disconnect" \in misc
  BY <1>1, <1>2, UnderWay
<1>5. PICK n \in 0 .. c.out :
        /\ InDevice(c, n) /\ "reset" \notin misc
        /\ \/ host.pc = "data" /\ c = host.cmd /\ n = host.n
           \/ host.pc = "response" /\ c = host.cmd /\ n = c.out
           \/ host.pc = "idle" /\ "disconnect" \in misc
  BY <1>50
<1>6. PICK v \in 0 .. c.out :
        /\ r = [cur |-> c, got |-> SubSeq(Payload(c), 1, v), whole |-> v = c.out]
        /\ DataPackets(Tail(Queue), v, n, c)
  BY <1>1, <1>2, <1>5, TakesNext
<1>7. inF = <<>> /\ tx = <<>> /\ (c.cmd \in Exits => ~mounted)
  BY <1>5 DEF InDevice, Coming, Taking
<1>8. /\ Payload(c) \in Seq(Unit) /\ Len(Payload(c)) = c.out /\ c.out \in Nat /\ c \in Command
      /\ \E d \in Issued : d.out = c.out
  BY PayloadOK, SentOK
<1>9. exit = "no"
  BY <1>1, <1>2 DEF DeviceOK
<1>10. SubSeq(Payload(c), 1, v) \in Seq(Unit) /\ Len(SubSeq(Payload(c), 1, v)) = v
  BY <1>8
<1>11. cur' = c /\ got' = SubSeq(Payload(c), 1, v) /\ Len(got') = v /\ got' \in Seq(Unit)
       /\ \E d \in Issued : Len(got') <= d.out
  BY <1>3, <1>6, <1>8, <1>10
<1>12. CASE v = c.out
  <2>1. dispatch_cmd(c, Payload(c)) /\ deferred' = deferred
    <3>1. r.whole /\ r.cur = c /\ r.got = SubSeq(Payload(c), 1, v)
      BY <1>6, <1>12
    <3>2. dispatch_cmd(r.cur, r.got) /\ UNCHANGED deferred
      BY <1>3, <3>1
    <3>3. SubSeq(Payload(c), 1, v) = Payload(c)
      BY <1>8, <1>12
    <3> QED BY <3>1, <3>2, <3>3
  <2>2. Tail(Queue) = <<>> /\ n = c.out
    <3>1. Tail(Queue) \in Seq(ToDevice)
      BY <1>4
    <3>2. DataPackets(Tail(Queue), v, n, c)
      BY <1>6
    <3> QED BY <1>12, <3>1, <3>2, DataBounds
  <2>3. /\ dpc' = "tx" /\ tx' \in Seq(ToHostPackets)
        /\ exit' \in {"no", "fel", "other"} /\ mounted' \in BOOLEAN /\ dirty' \in {"no", "cached", "lost"}
        /\ exit' # "no" => ~mounted'
        /\ c.cmd # "mount" => mounted' = mounted
        /\ WritesStored'
        /\ Answering(c)' /\ HeaderUnread(c)' /\ HeaderFailed'
    BY <1>1, <1>2, <1>4, <1>7, <1>9, <1>11, <2>1, <2>2, DispatchOK
  <2>4. DeviceOK'
    BY <1>1, <1>2, <1>4, <1>7, <1>11, <2>1, <2>3 DEF DeviceOK
  <2>5. host.pc \in {"response", "idle"}
    <3>1. host.pc = "data" => n < c.out
      BY <1>1, <1>5 DEF HostOK
    <3> QED BY <1>5, <1>8, <2>2, <3>1
  <2>6. HostOK'
    <3>1. host.pc = "response" => SafeEnds(host.todo, SafeAfter(host.cmd)')
      <4>1. host.pc = "response" => SafeEnds(host.todo, SafeAfter(host.cmd)) /\ c = host.cmd
        BY <1>1, <1>5 DEF HostOK, Busy
      <4>2. SafeAfter(c) => SafeAfter(c)'
        BY <2>3 DEF SafeAfter
      <4> QED BY <1>2, <4>1, <4>2, SafeWeaker
    <3>2. host.pc \notin {"next", "header", "data"} /\ (host.pc \in Busy <=> host.pc = "response")
      BY <2>5 DEF Busy
    <3>3. host.pc \in Busy => host.cmd \in Sent /\ SafeEnds(host.todo, SafeAfter(host.cmd)')
      BY <1>1, <3>1, <3>2 DEF HostOK
    <3>4. AnswersOwnCommand'
      BY <1>1, <1>2 DEF HostOK, AnswersOwnCommand
    <3> QED BY <1>1, <1>2, <3>2, <3>3, <3>4 DEF HostOK
  <2>7. CommandFlow'
    <3>1. CASE host.pc = "response"
      BY <1>2, <1>4, <1>5, <2>3, <3>1 DEF CommandFlow, Together
    <3>2. CASE host.pc = "idle"
      BY <1>2, <1>4, <1>5, <2>3, <3>2 DEF CommandFlow, Alone
    <3> QED BY <2>5, <3>1, <3>2
  <2> QED BY <2>3, <2>4, <2>6, <2>7 DEF CommandInv
<1>13. CASE v # c.out
  <2>1. /\ dpc' = "rxstorage" /\ deferred' = deferred \ {"cmd"}
        /\ tx' = tx /\ exit' = exit /\ mounted' = mounted /\ dirty' = dirty /\ stored' = stored
    BY <1>3, <1>6, <1>13
  <2>2. DeviceOK'
    BY <1>1, <1>2, <1>4, <1>7, <1>11, <2>1 DEF DeviceOK
  <2>3. HostOK'
    BY <1>1, <1>2, <2>1, HostFrame
  <2>4. Taking(c, n)'
    <3>1. v < c.out
      BY <1>8, <1>13
    <3> QED BY <1>4, <1>6, <1>7, <1>11, <2>1, <3>1 DEF Taking
  <2>5. CommandFlow'
    <3>1. CASE host.pc \in {"data", "response"}
      BY <1>2, <1>4, <1>5, <2>1, <2>4, <3>1 DEF CommandFlow, Together, InDevice
    <3>2. CASE host.pc = "idle"
      BY <1>2, <1>4, <1>5, <2>1, <2>4, <3>2 DEF CommandFlow, Alone, InDevice
    <3> QED BY <1>5, <3>1, <3>2
  <2> QED BY <1>1, <1>2, <2>1, <2>2, <2>3, <2>5, StoredFrame DEF CommandInv
<1> QED BY <1>12, <1>13

-----------------------------------------------------------------------------
(* The steps of the bus, and the end of a run.                              *)

LEMMA NoRunOK ==
    ASSUME HostOK, host' = NoRun, nextId' = nextId
    PROVE  HostOK'
<1>1. NoRun \in [pc : Busy \union {"idle", "next"}, todo : Seq(Issued), cmd : Sent \union {NoCmd}, n : Nat, answer : Nat]
  BY DEF NoRun
<1>2. NoRun.pc = "idle" /\ NoRun.answer = 0
  BY DEF NoRun
<1> QED BY <1>1, <1>2 DEF HostOK, AnswersOwnCommand, Busy

LEMMA DeviceFrame ==
    ASSUME DeviceOK, UNCHANGED device, out' = out, irq' = irq, inF' = inF \/ inF' = <<>>
    PROVE  DeviceOK'
BY DEF DeviceOK, device

LEMMA StepBusReset ==
    ASSUME CommandInv, BusReset, Interrupts = {}
    PROVE  CommandInv'
<1>1. HostOK /\ DeviceOK /\ CommandFlow /\ WritesStored
  BY DEF CommandInv
<1>2. /\ host.pc \in {"idle", "next"} /\ DeviceThere /\ host' = NoRun /\ out' = [e \in EP |-> <<>>] /\ inF' = <<>>
      /\ UNCHANGED device /\ irq' = irq /\ nextId' = nextId /\ acked' = acked /\ stored' = stored
  BY DEF BusReset, EndRun
<1>3. Queue' = <<>> /\ DOMAIN out' = EP /\ \A e \in EP : out'[e] \in Seq(ToDevice) /\ Len(out'[e]) <= FIFO
  BY <1>2, PacketAssumption DEF Queue, EP
<1>4. DeviceOK'
  BY <1>1, <1>2, <1>3 DEF DeviceOK, device
<1>5. HostOK'
  BY <1>1, <1>2, NoRunOK
<1>6. CommandFlow'
  <2>1. CASE Leaving
    BY <1>2, <2>1 DEF CommandFlow, Leaving, device
  <2>2. CASE dpc \notin {"leave", "left"} /\ Ready
    <3>1. Ready' /\ host'.pc = "idle"
      BY <1>2, <1>3, <2>2 DEF Ready, device, NoRun
    <3> QED BY <1>2, <2>2, <3>1 DEF CommandFlow, Together, device
  <2>3. Leaving \/ (dpc \notin {"leave", "left"} /\ Ready)
    BY <1>1, <1>2 DEF CommandFlow, Together, Alone, DeviceThere
  <2> QED BY <2>1, <2>2, <2>3
<1> QED BY <1>1, <1>2, <1>4, <1>5, <1>6, StoredFrame DEF CommandInv

LEMMA StepBusEvent ==
    ASSUME CommandInv, BusEvent
    PROVE  CommandInv'
<1>1. HostOK /\ DeviceOK /\ CommandFlow /\ WritesStored
  BY DEF CommandInv
<1>2. /\ host' = host /\ acked' = acked /\ nextId' = nextId /\ out' = out /\ inF' = inF /\ irq' = irq
      /\ UNCHANGED device /\ stored' = stored
      /\ "reset" \in misc' => "reset" \in misc
      /\ "disconnect" \in misc => "disconnect" \in misc'
  BY DEF BusEvent
<1>3. DeviceOK'
  BY <1>1, <1>2, DeviceFrame
<1>4. HostOK'
  BY <1>1, <1>2, HostFrame DEF device
<1>5. CommandFlow'
  <2>1. CASE Leaving
    BY <1>2, <2>1 DEF CommandFlow, Leaving, device
  <2>2. CASE dpc \notin {"leave", "left"}
    BY <1>1, <1>2, <2>2, FlowFrame DEF device, Queue
  <2> QED BY <1>1, <2>1, <2>2 DEF CommandFlow
<1> QED BY <1>1, <1>2, <1>3, <1>4, <1>5, StoredFrame DEF CommandInv

\* A packet has arrived in one endpoint.
LEMMA Arrived ==
    ASSUME DeviceOK, NEW e \in EP, NEW p \in ToDevice, Arrives(e, p)
    PROVE  /\ DeviceThere /\ "reset" \notin misc /\ inF' = inF /\ misc' = misc /\ irq' \subseteq EP
           /\ out[e] \in Seq(ToDevice) /\ out'[e] = Append(out[e], p)
           /\ \A f \in EP : f # e => out'[f] = out[f]
           /\ DOMAIN out' = EP /\ \A f \in EP : out'[f] \in Seq(ToDevice) /\ Len(out'[f]) <= FIFO
<1>1. /\ DOMAIN out = EP /\ \A f \in EP : out[f] \in Seq(ToDevice) /\ Len(out[f]) <= FIFO
      /\ irq \subseteq EP
  BY DEF DeviceOK
<1>2. /\ DeviceThere /\ "reset" \notin misc /\ inF' = inF /\ misc' = misc
      /\ Len(out[e]) < FIFO /\ out' = [out EXCEPT ![e] = Append(@, p)]
      /\ irq' = irq \union {e} \/ irq' = irq
  BY DEF Arrives
<1>3. DOMAIN out' = EP /\ out'[e] = Append(out[e], p) /\ \A f \in EP : f # e => out'[f] = out[f]
  BY <1>1, <1>2
<1>4. Append(out[e], p) \in Seq(ToDevice) /\ Len(Append(out[e], p)) <= FIFO
  <2>1. out[e] \in Seq(ToDevice) /\ Len(out[e]) \in Nat
    BY <1>1
  <2> QED BY <1>2, <2>1, PacketAssumption
<1>5. irq' \subseteq EP
  BY <1>1, <1>2
<1> QED BY <1>1, <1>2, <1>3, <1>4, <1>5

LEMMA StepStoragePacket ==
    ASSUME CommandInv, StoragePacket
    PROVE  CommandInv'
<1>1. HostOK /\ DeviceOK /\ CommandFlow /\ WritesStored
  BY DEF CommandInv
<1>2. /\ host' = host /\ acked' = acked /\ nextId' = nextId /\ UNCHANGED device /\ stored' = stored
  BY DEF StoragePacket
<1>3. PICK c \in {"write", "eject"} : Arrives("storage", [units |-> <<>>, cmd |-> [NoCmd EXCEPT !.cmd = c]])
  BY DEF StoragePacket
<1>4. [units |-> <<>>, cmd |-> [NoCmd EXCEPT !.cmd = c]] \in ToDevice /\ "storage" \in EP /\ "cmd" \in EP
  BY DEF ToDevice, EP
<1>5. /\ inF' = inF /\ misc' = misc /\ irq' \subseteq EP /\ Queue' = Queue
      /\ DOMAIN out' = EP /\ \A f \in EP : out'[f] \in Seq(ToDevice) /\ Len(out'[f]) <= FIFO
  BY <1>1, <1>3, <1>4, Arrived DEF Queue
<1>6. DeviceOK'
  BY <1>1, <1>2, <1>5 DEF DeviceOK, device
<1>7. HostOK'
  BY <1>1, <1>2, HostFrame DEF device
<1>8. CommandFlow'
  <2>1. CASE Leaving
    BY <1>2, <1>5, <2>1 DEF CommandFlow, Leaving, device
  <2>2. CASE dpc \notin {"leave", "left"}
    BY <1>1, <1>2, <1>5, <2>2, FlowFrame DEF device
  <2> QED BY <1>1, <2>1, <2>2 DEF CommandFlow
<1> QED BY <1>1, <1>2, <1>6, <1>7, <1>8, StoredFrame DEF CommandInv

\* A run that is killed between two commands, and one whose device has gone.
LEMMA StepRunStops ==
    ASSUME CommandInv, Interrupts = {}, Kill \/ TransferFails
    PROVE  CommandInv'
<1>1. HostOK /\ DeviceOK /\ CommandFlow /\ WritesStored
  BY DEF CommandInv
<1>2. /\ host' = NoRun /\ acked' = acked /\ nextId' = nextId /\ UNCHANGED <<usb, device>> /\ stored' = stored
  BY DEF Kill, TransferFails, EndRun
<1>3. \/ host.pc \in {"next", "header"}
      \/ host.pc \in Busy /\ ~DeviceThere
  BY DEF Kill, TransferFails, Busy
<1>4. DeviceOK' /\ HostOK'
  BY <1>1, <1>2, DeviceFrame, NoRunOK DEF usb
<1>5. CommandFlow'
  <2>0. host'.pc = "idle" /\ Queue' = Queue
    BY <1>2 DEF NoRun, Queue, usb
  <2>1. CASE Leaving
    BY <1>2, <2>1 DEF CommandFlow, Leaving, device, usb
  <2>2. CASE dpc \notin {"leave", "left"} /\ Ready
    <3>1. Ready'
      BY <1>2, <2>0, <2>2 DEF Ready, device, usb
    <3> QED BY <1>2, <2>0, <2>2, <3>1 DEF CommandFlow, Together, device
  <2>3. CASE dpc \notin {"leave", "left"} /\ ~Ready
    <3>1. host.pc \in {"data", "response", "respdata"} /\ "disconnect" \in misc
      BY <1>1, <1>3, <2>3 DEF CommandFlow, Leaving, Together, Alone, DeviceThere, Busy
    <3>2. "reset" \notin misc /\ \/ Answering(host.cmd)
                                 \/ InDevice(host.cmd, host.n) /\ host.pc = "data"
                                 \/ InDevice(host.cmd, host.cmd.out)
      BY <1>1, <2>3, <3>1 DEF CommandFlow, Leaving, Together, Alone
    <3>3. host.cmd \in Sent /\ host.cmd.out \in Nat /\ (host.pc = "data" => host.n \in 0 .. host.cmd.out)
      BY <1>1, <3>1, SentOK DEF HostOK, Busy
    <3>4. PICK n \in 0 .. host.cmd.out : Answering(host.cmd) \/ InDevice(host.cmd, n)
      BY <3>2, <3>3
    <3>5. ASSUME NEW c, Answering(c) \/ InDevice(c, n)
          PROVE  Answering(c)' \/ InDevice(c, n)'
      BY <1>2, <2>0, <3>5, AnsweringFrame, InDeviceFrame DEF Answering, device, usb
    <3>6. \E c \in Sent : Answering(c)' \/ \E k \in 0 .. c.out : InDevice(c, k)'
      BY <3>3, <3>4, <3>5
    <3>7. Alone'
      BY <1>2, <2>0, <3>1, <3>2, <3>6 DEF Alone, usb
    <3> QED BY <1>2, <2>3, <3>7 DEF CommandFlow, device
  <2> QED BY <1>1, <2>1, <2>2, <2>3 DEF CommandFlow
<1> QED BY <1>1, <1>2, <1>4, <1>5, StoredFrame DEF CommandInv

-----------------------------------------------------------------------------
(* The steps of a tool run.                                                 *)

LEMMA StepStartRun ==
    ASSUME CommandInv, StartRun
    PROVE  CommandInv'
<1>1. HostOK /\ DeviceOK /\ CommandFlow /\ WritesStored
  BY DEF CommandInv
<1>2. /\ host.pc = "idle" /\ acked' = acked /\ nextId' = nextId /\ stored' = stored
      /\ DeviceThere \/ (dpc = "left" /\ exit # "other")
  BY DEF StartRun
<1>3. PICK p \in Programs : host' = [NoRun EXCEPT !.pc = "next", !.todo = p]
  BY DEF StartRun
<1>4. /\ host' = [pc |-> "next", todo |-> p, cmd |-> NoCmd, n |-> 0, answer |-> 0]
      /\ p \in Seq(Issued) /\ \A u \in BOOLEAN : SafeEnds(p, u)
  BY <1>3, ProgramOK DEF NoRun
<1>5. CASE dpc # "left"
  <2>1. UNCHANGED <<usb, device>>
    BY <1>5 DEF StartRun
  <2>2. DeviceOK' /\ Queue' = Queue
    BY <1>1, <2>1, DeviceFrame DEF usb, Queue
  <2>3. HostOK'
    <3>1. mounted' \in BOOLEAN
      BY <2>2 DEF DeviceOK
    <3>2. host' \in [pc : Busy \union {"idle", "next"}, todo : Seq(Issued), cmd : Sent \union {NoCmd}, n : Nat, answer : Nat]
      BY <1>4
    <3> QED BY <1>1, <1>2, <1>4, <3>1, <3>2 DEF HostOK, AnswersOwnCommand, Busy
  <2>4. CASE Leaving
    <3>1. CommandFlow'
      BY <2>1, <2>4 DEF CommandFlow, Leaving, device, usb
    <3> QED BY <1>1, <1>2, <2>2, <2>3, <3>1, StoredFrame DEF CommandInv
  <2>5. CASE ~Leaving
    <3>1. dpc \notin {"leave", "left"} /\ Ready
      BY <1>1, <1>2, <1>5, <2>5 DEF CommandFlow, Together, Alone, DeviceThere
    <3>2. Ready'
      BY <2>1, <2>2, <3>1 DEF Ready, device, usb
    <3>3. CommandFlow'
      BY <1>4, <2>1, <3>1, <3>2 DEF CommandFlow, Together, device
    <3> QED BY <1>1, <1>2, <2>2, <2>3, <3>3, StoredFrame DEF CommandInv
  <2> QED BY <2>4, <2>5
<1>6. CASE dpc = "left"
  <2>1. /\ out' = [e \in EP |-> <<>>] /\ inF' = <<>> /\ irq' = {} /\ misc' = {}
        /\ dpc' = "poll" /\ snap' = {} /\ deferred' = {}
        /\ cur' = NoCmd /\ got' = <<>> /\ tx' = <<>>
        /\ exit' = "no" /\ mounted' = FALSE /\ dirty' = "no"
    BY <1>6 DEF StartRun
  <2>2. Queue' = <<>> /\ DOMAIN out' = EP /\ \A e \in EP : out'[e] \in Seq(ToDevice) /\ Len(out'[e]) <= FIFO
    BY <2>1, PacketAssumption DEF Queue, EP
  <2>3. DeviceOK'
    <3>1. got' \in Seq(Unit) /\ \E c \in Issued : Len(got') <= c.out
      BY <2>1, SomeIssued
    <3>2. tx' \in Seq(ToHostPackets) /\ cur' \in Sent \union {NoCmd} /\ irq' \subseteq EP /\ snap' \subseteq EP /\ deferred' \subseteq EP
      BY <2>1
    <3>3. exit' = "no" /\ mounted' = FALSE /\ dirty' = "no" /\ dpc' = "poll" /\ inF' = <<>>
      BY <2>1
    <3> QED BY <2>2, <3>1, <3>2, <3>3 DEF DeviceOK
  <2>4. HostOK'
    <3>1. host' \in [pc : Busy \union {"idle", "next"}, todo : Seq(Issued), cmd : Sent \union {NoCmd}, n : Nat, answer : Nat]
      BY <1>4
    <3>2. SafeEnds(p, ~mounted')
      BY <1>4, <2>1
    <3> QED BY <1>1, <1>2, <1>4, <3>1, <3>2 DEF HostOK, AnswersOwnCommand, Busy
  <2>5. CommandFlow'
    BY <1>4, <2>1, <2>2 DEF CommandFlow, Together, Ready
  <2> QED BY <1>1, <1>2, <2>3, <2>4, <2>5, StoredFrame DEF CommandInv
<1> QED BY <1>5, <1>6

\* The device has nothing of a run that is between two commands.
LEMMA ReadyFrame ==
    ASSUME CommandFlow, host.pc \in {"next", "header"}, host'.pc \in {"idle", "next", "header"},
           UNCHANGED <<usb, device>>
    PROVE  CommandFlow'
<1>1. Leaving \/ (dpc \notin {"leave", "left"} /\ Ready)
  BY DEF CommandFlow, Together, Alone
<1>2. Queue' = Queue
  BY DEF Queue, usb
<1>3. CASE Leaving
  BY <1>3 DEF CommandFlow, Leaving, usb, device
<1>4. CASE dpc \notin {"leave", "left"} /\ Ready
  <2>1. Ready'
    BY <1>2, <1>4 DEF Ready, usb, device
  <2> QED BY <1>4, <2>1 DEF CommandFlow, Together, device
<1> QED BY <1>1, <1>3, <1>4

LEMMA StepNextCommand ==
    ASSUME CommandInv, NextCommand
    PROVE  CommandInv'
<1>1. HostOK /\ DeviceOK /\ CommandFlow /\ WritesStored
  BY DEF CommandInv
<1>2. host.pc = "next" /\ acked' = acked /\ UNCHANGED <<usb, device>> /\ stored' = stored
  BY DEF NextCommand
<1>3. DeviceOK'
  BY <1>1, <1>2, DeviceFrame DEF usb
<1>4. CASE host.todo = <<>>
  <2>1. host' = NoRun /\ nextId' = nextId
    BY <1>4 DEF NextCommand, EndRun
  <2>2. HostOK' /\ CommandFlow'
    BY <1>1, <1>2, <2>1, NoRunOK, ReadyFrame DEF NoRun
  <2> QED BY <1>1, <1>2, <1>3, <2>2, StoredFrame DEF CommandInv
<1>5. CASE host.todo # <<>>
  <2> DEFINE d == Head(host.todo)
             c == Numbered(d, nextId)
  <2>1. /\ host' = [host EXCEPT !.pc = "header", !.todo = Tail(@), !.n = 0, !.answer = 0, !.cmd = c]
        /\ nextId' = nextId + 1
    BY <1>5 DEF NextCommand, Numbered
  <2>2. host.todo \in Seq(Issued) /\ nextId \in Nat \ {0} /\ SafeEnds(host.todo, ~mounted) /\ mounted \in BOOLEAN
    BY <1>1, <1>2 DEF HostOK, DeviceOK
  <2>3. d \in Issued /\ Tail(host.todo) \in Seq(Issued)
    BY <1>5, <2>2
  <2>4. c \in Sent /\ c.cmd = d.cmd
    BY <2>2, <2>3 DEF Sent, Numbered
  <2>5. /\ d.cmd \in Exits => ~mounted
        /\ SafeEnds(Tail(host.todo), d.cmd = "check" \/ (d.cmd # "mount" /\ ~mounted))
    BY <1>5, <2>2, SafeNext
  <2> HIDE DEF c, d
  <2>6. host' = [pc |-> "header", todo |-> Tail(host.todo), cmd |-> c, n |-> 0, answer |-> 0]
    BY <1>1, <2>1 DEF HostOK
  <2>7. HostOK'
    <3>1. host' \in [pc : Busy \union {"idle", "next"}, todo : Seq(Issued), cmd : Sent \union {NoCmd}, n : Nat, answer : Nat]
      BY <2>3, <2>4, <2>6 DEF Busy
    <3>2. nextId' \in Nat \ {0}
      BY <2>1, <2>2
    <3>3. SafeEnds(Tail(host.todo), SafeAfter(host.cmd)')
      BY <1>2, <2>4, <2>5, <2>6 DEF SafeAfter, device
    <3>4. c.cmd \in Exits => ~mounted'
      BY <1>2, <2>4, <2>5 DEF device
    <3> QED BY <2>4, <2>6, <3>1, <3>2, <3>3, <3>4 DEF HostOK, AnswersOwnCommand
  <2>8. CommandFlow'
    BY <1>1, <1>2, <2>6, ReadyFrame
  <2> QED BY <1>1, <1>2, <1>3, <2>7, <2>8, StoredFrame DEF CommandInv
<1> QED BY <1>4, <1>5

LEMMA StepSendHeader ==
    ASSUME CommandInv, SendHeader
    PROVE  CommandInv'
<1>1. HostOK /\ DeviceOK /\ CommandFlow /\ WritesStored
  BY DEF CommandInv
<1> DEFINE c == host.cmd
           p == [units |-> <<[id |-> c.id, k |-> 0]>>, cmd |-> c]
<1>2. /\ host.pc = "header" /\ Arrives("cmd", p) /\ acked' = acked /\ nextId' = nextId /\ UNCHANGED device /\ stored' = stored
      /\ host' = [host EXCEPT !.pc = IF c.out > 0 THEN "data" ELSE "response"]
  BY DEF SendHeader
<1>3. /\ c \in Sent /\ SafeEnds(host.todo, SafeAfter(c)) /\ host.n = 0 /\ (c.cmd \in Exits => ~mounted)
      /\ c.out \in Nat /\ c.id \in Nat
  BY <1>1, <1>2, SentOK DEF HostOK, Busy
<1>4. p \in ToDevice
  <2>1. <<[id |-> c.id, k |-> 0]>> \in Seq(Unit)
    BY <1>3 DEF Unit
  <2> QED BY <1>3, <2>1 DEF ToDevice
<1> HIDE DEF p
<1>5. "cmd" \in EP
  BY DEF EP
<1>6. /\ DeviceThere /\ "reset" \notin misc /\ inF' = inF /\ misc' = misc /\ irq' \subseteq EP
      /\ Queue \in Seq(ToDevice) /\ Queue' = Append(Queue, p)
      /\ DOMAIN out' = EP /\ \A f \in EP : out'[f] \in Seq(ToDevice) /\ Len(out'[f]) <= FIFO
  BY <1>1, <1>2, <1>4, <1>5, Arrived DEF Queue
<1>7. DeviceOK'
  BY <1>1, <1>2, <1>6 DEF DeviceOK, device
<1>8. host' = [pc |-> IF c.out > 0 THEN "data" ELSE "response", todo |-> host.todo, cmd |-> c, n |-> 0, answer |-> host.answer]
  BY <1>1, <1>2, <1>3 DEF HostOK
<1>9. HostOK'
  <2>1. host' \in [pc : Busy \union {"idle", "next"}, todo : Seq(Issued), cmd : Sent \union {NoCmd}, n : Nat, answer : Nat]
    BY <1>1, <1>3, <1>8 DEF HostOK, Busy
  <2>2. SafeEnds(host.todo, SafeAfter(host.cmd)')
    BY <1>2, <1>3, <1>8 DEF SafeAfter, device
  <2>3. AnswersOwnCommand'
    BY <1>1, <1>8 DEF HostOK, AnswersOwnCommand
  <2> QED BY <1>1, <1>2, <1>3, <1>8, <2>1, <2>2, <2>3 DEF HostOK
<1>10. CommandFlow'
  <2>1. CASE Leaving
    BY <1>2, <1>6, <2>1 DEF CommandFlow, Leaving, device
  <2>2. CASE ~Leaving
    <3>1. dpc \notin {"leave", "left"} /\ Ready
      BY <1>1, <1>2, <2>2 DEF CommandFlow, Together, Alone
    <3>2. Queue' = <<p>>
      BY <1>6, <3>1 DEF Ready
    <3>3. Queue' # <<>> /\ Head(Queue') = p /\ Tail(Queue') = <<>>
      BY <3>2
    <3>4. DataPackets(<<>>, 0, 0, c)
      BY <1>3, DataNone
    <3>5. Coming(c, 0)'
      BY <1>2, <1>3, <1>6, <1>8, <3>1, <3>3, <3>4 DEF Coming, Ready, device, p
    <3>6. \/ host'.pc = "data" /\ host'.n = 0
          \/ host'.pc = "response" /\ c.out = 0
      BY <1>3, <1>8
    <3>7. host'.cmd = c
      BY <1>8
    <3>8. Together'
      BY <1>6, <3>5, <3>6, <3>7 DEF Together, InDevice
    <3> QED BY <1>2, <3>1, <3>8 DEF CommandFlow, device
  <2> QED BY <2>1, <2>2
<1> QED BY <1>1, <1>2, <1>7, <1>9, <1>10, StoredFrame DEF CommandInv

LEMMA StepSendData ==
    ASSUME CommandInv, SendData
    PROVE  CommandInv'
<1>1. HostOK /\ DeviceOK /\ CommandFlow /\ WritesStored
  BY DEF CommandInv
<1> DEFINE c == host.cmd
           size == Least(PKT, c.out - host.n)
           m == host.n + size
           p == [units |-> Slice(Payload(c), host.n, size), cmd |-> NoCmd]
<1>2. /\ host.pc = "data" /\ Arrives("cmd", p) /\ acked' = acked /\ nextId' = nextId /\ UNCHANGED device /\ stored' = stored
      /\ host' = [host EXCEPT !.n = @ + size, !.pc = IF host.n + size = c.out THEN "response" ELSE "data"]
  BY DEF SendData
<1>3. /\ c \in Sent /\ SafeEnds(host.todo, SafeAfter(c)) /\ host.n \in Nat /\ host.n < c.out /\ c.out \in Nat
      /\ Payload(c) \in Seq(Unit) /\ Len(Payload(c)) = c.out
  BY <1>1, <1>2, SentOK, PayloadOK DEF HostOK, Busy
<1>4. m \in host.n + 1 .. c.out
  BY <1>3, PacketAssumption DEF Least
<1>5. p \in ToDevice /\ p.units = SubSeq(Payload(c), host.n + 1, m)
  <2>1. p.units = SubSeq(Payload(c), host.n + 1, m)
    BY DEF Slice
  <2>2. p.units \in Seq(Unit)
    <3> HIDE DEF m, p
    <3>1. host.n + 1 \in Int /\ m \in Int /\ \A i \in host.n + 1 .. m : i \in 1 .. Len(Payload(c))
      BY <1>3, <1>4
    <3>2. \A i \in host.n + 1 .. m : Payload(c)[i] \in Unit
      BY <1>3, <3>1
    <3> QED BY <2>1, <3>1, <3>2, SubSeqProperties
  <2>3. NoCmd = [NoCmd EXCEPT !.cmd = "none"]
    BY DEF NoCmd
  <2>4. p.cmd = NoCmd /\ p = [units |-> p.units, cmd |-> p.cmd]
    OBVIOUS
  <2> HIDE DEF p
  <2>5. p \in ToDevice
    BY <2>2, <2>3, <2>4 DEF ToDevice
  <2> QED BY <2>1, <2>5
<1>6. host' = [pc |-> IF m = c.out THEN "response" ELSE "data", todo |-> host.todo, cmd |-> c, n |-> m, answer |-> host.answer]
  BY <1>1, <1>2 DEF HostOK
<1> HIDE DEF p, m, size
<1>7. /\ DeviceThere /\ "reset" \notin misc /\ inF' = inF /\ misc' = misc /\ irq' \subseteq EP
      /\ Queue \in Seq(ToDevice) /\ Queue' = Append(Queue, p)
      /\ DOMAIN out' = EP /\ \A f \in EP : out'[f] \in Seq(ToDevice) /\ Len(out'[f]) <= FIFO
  <2>1. "cmd" \in EP
    BY DEF EP
  <2> QED BY <1>1, <1>2, <1>5, <2>1, Arrived DEF Queue
<1>8. DeviceOK'
  BY <1>1, <1>2, <1>7 DEF DeviceOK, device
<1>9. HostOK'
  <2>1. host' \in [pc : Busy \union {"idle", "next"}, todo : Seq(Issued), cmd : Sent \union {NoCmd}, n : Nat, answer : Nat]
    BY <1>1, <1>3, <1>4, <1>6 DEF HostOK, Busy
  <2>2. SafeEnds(host.todo, SafeAfter(host.cmd)')
    BY <1>2, <1>3, <1>6 DEF SafeAfter, device
  <2>3. AnswersOwnCommand'
    BY <1>1, <1>6 DEF HostOK, AnswersOwnCommand
  <2>4. host'.pc = "data" => host'.n < c.out
    BY <1>3, <1>4, <1>6
  <2>5. host'.pc \in {"data", "response"} /\ host'.cmd = c /\ host'.todo = host.todo
    BY <1>6
  <2>6. nextId' \in Nat \ {0}
    BY <1>1, <1>2 DEF HostOK
  <2> QED BY <1>3, <2>1, <2>2, <2>3, <2>4, <2>5, <2>6 DEF HostOK
<1>10. CommandFlow'
  <2>1. CASE Leaving
    BY <1>2, <1>7, <2>1 DEF CommandFlow, Leaving, device
  <2>2. CASE ~Leaving
    <3>1. dpc \notin {"leave", "left"} /\ InDevice(c, host.n)
      BY <1>1, <1>2, <2>2 DEF CommandFlow, Together, Alone
    <3>2. PICK d : d = c
      OBVIOUS
    <3>3. PICK k : k = m
      OBVIOUS
    <3>4. ASSUME Coming(c, host.n) PROVE InDevice(d, k)'
      <4>1. Tail(Queue') = Append(Tail(Queue), p) /\ Head(Queue') = Head(Queue) /\ Queue' # <<>> /\ Tail(Queue) \in Seq(ToDevice)
        BY <1>5, <1>7, <3>4 DEF Coming
      <4>2. DataPackets(Tail(Queue'), 0, k, d)
        <5>1. DataPackets(Tail(Queue), 0, host.n, c)
          BY <3>4 DEF Coming
        <5> QED BY <1>3, <1>4, <1>5, <3>2, <3>3, <4>1, <5>1, DataAppend
      <4>3. Coming(d, k)'
        BY <1>2, <1>7, <3>2, <3>4, <4>1, <4>2 DEF Coming, device
      <4> QED BY <4>3 DEF InDevice
    <3>5. ASSUME Taking(c, host.n) PROVE InDevice(d, k)'
      <4>1. DataPackets(Queue', Len(got), k, d)
        <5>1. DataPackets(Queue, Len(got), host.n, c)
          BY <3>5 DEF Taking
        <5> QED BY <1>3, <1>4, <1>5, <1>7, <3>2, <3>3, <5>1, DataAppend
      <4>2. Taking(d, k)'
        BY <1>2, <1>7, <3>2, <3>5, <4>1 DEF Taking, device
      <4> QED BY <4>2 DEF InDevice
    <3>6. InDevice(d, k)'
      BY <3>1, <3>4, <3>5 DEF InDevice
    <3>7. Together'
      <4>1. host'.cmd = d /\ ((host'.pc = "data" /\ host'.n = k) \/ (host'.pc = "response" /\ k = d.out))
        BY <1>6, <3>2, <3>3
      <4> QED BY <1>7, <3>6, <4>1 DEF Together
    <3> QED BY <1>2, <3>1, <3>7 DEF CommandFlow, device
  <2> QED BY <2>1, <2>2
<1> QED BY <1>1, <1>2, <1>8, <1>9, <1>10, StoredFrame DEF CommandInv

\* While the host can read a packet, the command has been carried out.
LEMMA StepReadResponse ==
    ASSUME CommandInv, ReadResponse
    PROVE  CommandInv'
<1>1. HostOK /\ DeviceOK /\ CommandFlow /\ WritesStored
  BY DEF CommandInv
<1>2. /\ host.pc = "response" /\ inF # <<>> /\ inF' = <<>> /\ out' = out /\ irq' = irq /\ misc' = misc
      /\ UNCHANGED device /\ nextId' = nextId /\ stored' = stored
  BY DEF ReadResponse
<1>3. PICK c \in Sent : c = host.cmd /\ SafeEnds(host.todo, SafeAfter(c))
  BY <1>1, <1>2 DEF HostOK, Busy
<1>4. "reset" \notin misc /\ Answering(c) /\ HeaderUnread(c) /\ HeaderFailed /\ dpc \notin {"leave", "left"}
  BY <1>1, <1>2, <1>3 DEF CommandFlow, Leaving, Together, Alone, InDevice, Coming, Taking
<1>5. /\ tx \in Seq(ToHostPackets) /\ ToRead \in Seq(ToHostPackets) /\ ToRead # <<>>
      /\ Head(ToRead) = inF[1] /\ Tail(ToRead) = tx
      /\ \A i \in 1 .. Len(tx) : \E j \in 1 .. Len(ToRead) : tx[i] = ToRead[j]
  BY <1>1, <1>2, Reading DEF DeviceOK, ToRead
<1>6. ToRead' = tx /\ Queue' = Queue /\ tx' = tx
  BY <1>2, <1>5 DEF ToRead, device, Queue
<1>7. DeviceOK'
  BY <1>1, <1>2, DeviceFrame
<1> DEFINE h == inF[1]
<1>8. /\ h.kind = "header" /\ h.id = c.id
      /\ h.status = "fail" \/ (h.size = c.in /\ Pieces(tx, c.in) /\ (c.cmd = "write" => Payload(c) \in stored))
      /\ h.status = "fail" => tx = <<>>
  <2>1. Head(ToRead) = ToRead[1] /\ 1 \in 1 .. Len(ToRead)
    BY <1>5
  <2>2. ToRead[1].id = c.id
    BY <1>4, <2>1 DEF Answering
  <2> QED BY <1>4, <1>5, <2>1, <2>2 DEF HeaderUnread, HeaderFailed
<1> HIDE DEF h
<1>9. tx = <<>> => Ready'
  BY <1>2, <1>4, <1>6 DEF Ready, Answering, device
<1>10. CASE host' = NoRun
  <2>1. acked' = acked /\ h.status = "fail"
    BY <1>2, <1>3, <1>8, <1>10 DEF ReadResponse, EndRun, h, NoRun
  <2>2. CommandFlow'
    BY <1>2, <1>4, <1>8, <1>9, <1>10, <2>1 DEF CommandFlow, Together, NoRun, device
  <2> QED BY <1>1, <1>2, <1>7, <1>10, <2>1, <2>2, NoRunOK, StoredFrame DEF CommandInv
<1>11. CASE host' # NoRun
  <2>1. h.status # "fail" /\ h.size = c.in
    BY <1>8, <1>11 DEF ReadResponse, EndRun, h
  <2>2. /\ host' = [host EXCEPT !.pc = IF h.size > 0 THEN "respdata" ELSE "next", !.n = h.size, !.answer = h.id]
        /\ acked' = IF c.cmd = "write" THEN acked \union {Payload(c)} ELSE acked
    BY <1>3, <1>11 DEF ReadResponse, EndRun, h
  <2>3. host' = [pc |-> IF c.in > 0 THEN "respdata" ELSE "next", todo |-> host.todo, cmd |-> c, n |-> c.in, answer |-> c.id]
    BY <1>1, <1>3, <1>8, <2>1, <2>2 DEF HostOK
  <2>4. c.in \in Nat /\ c.id \in Nat /\ (c.cmd = "check" => c.in # 0)
    BY SentOK
  <2>5. SafeEnds(host.todo, SafeAfter(c)') /\ (c.in = 0 => SafeEnds(host.todo, ~mounted'))
    <3>1. SafeAfter(c)' <=> SafeAfter(c)
      BY <1>2 DEF SafeAfter, device
    <3>2. c.in = 0 => (SafeAfter(c) => ~mounted')
      BY <1>2, <2>4 DEF SafeAfter, device
    <3>3. SafeEnds(host.todo, SafeAfter(c)')
      BY <1>3, <3>1, SafeWeaker
    <3>4. c.in = 0 => SafeEnds(host.todo, ~mounted')
      BY <1>3, <3>2 DEF SafeEnds
    <3> QED BY <3>3, <3>4
  <2>6. HostOK'
    <3>1. host' \in [pc : Busy \union {"idle", "next"}, todo : Seq(Issued), cmd : Sent \union {NoCmd}, n : Nat, answer : Nat]
      BY <1>1, <2>3, <2>4 DEF HostOK, Busy
    <3>2. host'.cmd = c /\ host'.todo = host.todo /\ host'.answer = c.id
      BY <2>3
    <3>3. host'.pc = "respdata" \/ (host'.pc = "next" /\ c.in = 0)
      BY <2>3, <2>4
    <3>4. nextId' \in Nat \ {0}
      BY <1>1, <1>2 DEF HostOK
    <3> QED BY <2>5, <3>1, <3>2, <3>3, <3>4 DEF HostOK, AnswersOwnCommand, Busy
  <2>7. WritesStored'
    BY <1>1, <1>2, <1>8, <2>1, <2>2 DEF WritesStored, OkMeansStored, StoresWholeWrites
  <2>8. CASE c.in = 0
    <3>1. tx = <<>>
      BY <1>5, <1>8, <2>1, <2>4, <2>8, PiecesHead
    <3>2. host'.pc = "next"
      BY <2>3, <2>8
    <3>3. CommandFlow'
      BY <1>2, <1>4, <1>9, <3>1, <3>2 DEF CommandFlow, Together, device
    <3> QED BY <1>7, <2>6, <2>7, <3>3 DEF CommandInv
  <2>9. CASE c.in # 0
    <3>1. tx # <<>> /\ Pieces(tx, c.in)
      BY <1>5, <1>8, <2>1, <2>4, <2>9, PiecesHead
    <3>2. host'.pc = "respdata" /\ host'.cmd = c /\ host'.n = c.in
      BY <2>3, <2>4, <2>9
    <3>3. Answering(c)'
      BY <1>2, <1>4, <1>5, <1>6, <3>1 DEF Answering, device
    <3>4. CommandFlow'
      BY <1>2, <1>4, <1>6, <3>1, <3>2, <3>3 DEF CommandFlow, Together, device
    <3> QED BY <1>7, <2>6, <2>7, <3>4 DEF CommandInv
  <2> QED BY <2>8, <2>9
<1> QED BY <1>10, <1>11

\* The response data; what the check was told about the volume still holds when
\* all of it has been read, since only a command mounts one.
LEMMA StepReadResponseData ==
    ASSUME CommandInv, ReadResponseData
    PROVE  CommandInv'
<1>1. HostOK /\ DeviceOK /\ CommandFlow /\ WritesStored
  BY DEF CommandInv
<1>2. /\ host.pc = "respdata" /\ inF # <<>> /\ inF' = <<>> /\ out' = out /\ irq' = irq /\ misc' = misc
      /\ UNCHANGED device /\ acked' = acked /\ nextId' = nextId /\ stored' = stored
  BY DEF ReadResponseData
<1>3. PICK c \in Sent : c = host.cmd /\ SafeEnds(host.todo, SafeAfter(c))
  BY <1>1, <1>2 DEF HostOK, Busy
<1>4. "reset" \notin misc /\ Answering(c) /\ Pieces(ToRead, host.n) /\ dpc \notin {"leave", "left"}
  BY <1>1, <1>2, <1>3 DEF CommandFlow, Leaving, Together, Alone, InDevice, Coming, Taking
<1>5. /\ tx \in Seq(ToHostPackets) /\ ToRead \in Seq(ToHostPackets) /\ ToRead # <<>>
      /\ Head(ToRead) = inF[1] /\ Tail(ToRead) = tx
      /\ \A i \in 1 .. Len(tx) : \E j \in 1 .. Len(ToRead) : tx[i] = ToRead[j]
  BY <1>1, <1>2, Reading DEF DeviceOK, ToRead
<1>6. ToRead' = tx /\ Queue' = Queue /\ tx' = tx
  BY <1>2, <1>5 DEF ToRead, device, Queue
<1>7. DeviceOK'
  BY <1>1, <1>2, DeviceFrame
<1>8. host.n \in Nat /\ host.todo \in Seq(Issued) /\ host.answer \in Nat /\ AnswersOwnCommand /\ mounted \in BOOLEAN
  BY <1>1 DEF HostOK, DeviceOK
<1> DEFINE r == inF[1]
           k == host.n - r.size
           todo == IF StopsIfMounted(r) THEN <<>> ELSE host.todo
<1>9. r.kind = "data" /\ r.size \in 1 .. host.n /\ Pieces(tx, k) /\ k \in Nat
  <2>1. r.kind = "data" /\ r.size \in 1 .. host.n /\ Pieces(tx, k)
    BY <1>4, <1>5, <1>8, PiecesHead
  <2> QED BY <1>8, <2>1
<1>10. host' = [pc |-> IF k = 0 THEN "next" ELSE "respdata", todo |-> todo, cmd |-> c, n |-> k, answer |-> host.answer]
  <2>1. host' = [host EXCEPT !.n = k, !.todo = todo, !.pc = IF host.n = r.size THEN "next" ELSE "respdata"]
    BY <1>8, <1>9 DEF ReadResponseData, EndRun
  <2>2. host.n = r.size <=> k = 0
    BY <1>8, <1>9
  <2> HIDE DEF r, k, todo
  <2> QED BY <1>1, <1>3, <2>1, <2>2 DEF HostOK
<1>11. c.cmd = "check" /\ ~StopsIfMounted(r) => ~mounted
  <2>1. Head(ToRead) = ToRead[1] /\ 1 \in 1 .. Len(ToRead)
    BY <1>5
  <2>2. c.cmd = "check" /\ ~r.mounted => ~mounted
    BY <1>4, <1>5, <1>9, <2>1 DEF Answering
  <2> QED BY <1>3, <2>2 DEF StopsIfMounted
<1>12. todo \in Seq(Issued) /\ SafeEnds(todo, SafeAfter(c)') /\ SafeEnds(todo, ~mounted')
  <2>1. (SafeAfter(c)' <=> SafeAfter(c)) /\ mounted' = mounted
    BY <1>2 DEF SafeAfter, device
  <2>2. CASE StopsIfMounted(r)
    BY <2>2, SafeNone
  <2>3. CASE ~StopsIfMounted(r)
    <3>1. todo = host.todo /\ (SafeAfter(c) => ~mounted')
      BY <1>11, <2>1, <2>3 DEF SafeAfter
    <3>2. SafeEnds(host.todo, SafeAfter(c)')
      BY <1>3, <2>1, SafeWeaker
    <3>3. SafeEnds(host.todo, ~mounted')
      BY <1>3, <3>1 DEF SafeEnds
    <3> QED BY <1>8, <3>1, <3>2, <3>3
  <2> QED BY <2>2, <2>3
<1>13. PICK t : t = todo
  OBVIOUS
<1>14. PICK l : l = k
  OBVIOUS
<1> HIDE DEF r, k, todo
<1>15. host'.cmd = c /\ host'.todo = t /\ host'.answer = host.answer /\ host'.n = l
       /\ host'.pc = (IF l = 0 THEN "next" ELSE "respdata")
  BY <1>10, <1>13, <1>14
<1>16. HostOK'
  <2>1. host' \in [pc : Busy \union {"idle", "next"}, todo : Seq(Issued), cmd : Sent \union {NoCmd}, n : Nat, answer : Nat]
    BY <1>8, <1>9, <1>10, <1>12 DEF Busy
  <2>2. AnswersOwnCommand'
    BY <1>3, <1>8, <1>15 DEF AnswersOwnCommand
  <2>3. SafeEnds(t, SafeAfter(c)') /\ SafeEnds(t, ~mounted')
    BY <1>12, <1>13
  <2>4. nextId' \in Nat \ {0}
    BY <1>1, <1>2 DEF HostOK
  <2> QED BY <1>15, <2>1, <2>2, <2>3, <2>4 DEF HostOK, Busy
<1>17. CommandFlow'
  <2>1. CASE l = 0
    <3>1. tx = <<>>
      BY <1>5, <1>9, <1>14, <2>1, PiecesHead
    <3>2. Ready'
      BY <1>2, <1>4, <1>6, <3>1 DEF Ready, Answering, device
    <3> QED BY <1>2, <1>4, <1>15, <2>1, <3>2 DEF CommandFlow, Together, device
  <2>2. CASE l # 0
    <3>1. tx # <<>> /\ Pieces(tx, l)
      BY <1>5, <1>9, <1>14, <2>2, PiecesHead
    <3>2. Answering(c)'
      <4>1. \A i \in 1 .. Len(tx) : tx[i].id = c.id /\ (c.cmd = "check" /\ tx[i].kind = "data" /\ ~tx[i].mounted => ~mounted)
        BY <1>4, <1>5 DEF Answering
      <4>2. dpc' = "tx" /\ cur' = c /\ Queue' = <<>> /\ mounted' = mounted
        BY <1>2, <1>4, <1>6 DEF Answering, device
      <4> QED BY <1>6, <3>1, <4>1, <4>2 DEF Answering
    <3> QED BY <1>2, <1>4, <1>6, <1>15, <2>2, <3>1, <3>2 DEF CommandFlow, Together, device
  <2> QED BY <2>1, <2>2
<1> QED BY <1>1, <1>2, <1>7, <1>16, <1>17, StoredFrame DEF CommandInv

-----------------------------------------------------------------------------
(* The invariant, and what it shows.                                        *)

LEMMA CommandInitOK ==
    ASSUME DiskBootInit
    PROVE  CommandInv
<1>1. /\ host = NoRun /\ acked = {} /\ nextId = 1 /\ out = [e \in EP |-> <<>>] /\ inF = <<>> /\ irq = {} /\ misc = {}
      /\ dpc = "poll" /\ snap = {} /\ deferred = {} /\ cur = NoCmd /\ got = <<>> /\ tx = <<>> /\ exit = "no"
      /\ mounted = FALSE /\ dirty = "no" /\ stored = {}
  BY DEF DiskBootInit
<1>2. HostOK
  <2>1. NoRun \in [pc : Busy \union {"idle", "next"}, todo : Seq(Issued), cmd : Sent \union {NoCmd}, n : Nat, answer : Nat]
    BY DEF NoRun
  <2>2. NoRun.pc = "idle" /\ NoRun.answer = 0
    BY DEF NoRun
  <2> QED BY <1>1, <2>1, <2>2 DEF HostOK, AnswersOwnCommand, Busy
<1>3. Queue = <<>> /\ DOMAIN out = EP /\ \A e \in EP : out[e] \in Seq(ToDevice) /\ Len(out[e]) <= FIFO
  BY <1>1, PacketAssumption DEF Queue, EP
<1>4. DeviceOK
  <2>1. got \in Seq(Unit) /\ \E c \in Issued : Len(got) <= c.out
    BY <1>1, SomeIssued
  <2>2. tx \in Seq(ToHostPackets) /\ cur \in Sent \union {NoCmd} /\ irq \subseteq EP /\ snap \subseteq EP /\ deferred \subseteq EP
    BY <1>1
  <2>3. exit = "no" /\ mounted = FALSE /\ dirty = "no" /\ dpc = "poll" /\ inF = <<>>
    BY <1>1
  <2> QED BY <1>3, <2>1, <2>2, <2>3 DEF DeviceOK
<1>5. CommandFlow
  <2>1. host.pc = "idle"
    BY <1>1 DEF NoRun
  <2> QED BY <1>1, <1>3, <2>1 DEF CommandFlow, Together, Ready
<1>6. WritesStored
  BY <1>1 DEF WritesStored, OkMeansStored, StoresWholeWrites
<1> QED BY <1>2, <1>4, <1>5, <1>6 DEF CommandInv

LEMMA CommandStepOK ==
    ASSUME CommandInv, [DiskBootNext]_diskBootVars, Interrupts = {}
    PROVE  CommandInv'
<1>1. CASE StartRun
  BY <1>1, StepStartRun
<1>2. CASE Tool
  BY <1>2, StepNextCommand, StepSendHeader, StepSendData, StepReadResponse, StepReadResponseData, StepRunStops DEF Tool
<1>3. CASE Bus
  BY <1>3, StepRunStops, StepBusReset, StepBusEvent, StepStoragePacket DEF Bus
<1>4. CASE Device
  BY <1>4, StepPoll, StepRxCommand, StepNoCommand, StepSendPacket, StepAnswered, StepStorage DEF Device
<1>5. CASE UNCHANGED diskBootVars
  <2>1. /\ host' = host /\ acked' = acked /\ nextId' = nextId /\ UNCHANGED <<usb, device>> /\ stored' = stored
    BY <1>5 DEF diskBootVars
  <2>2. DeviceOK' /\ HostOK' /\ WritesStored'
    BY <2>1, DeviceFrame, HostFrame, StoredFrame DEF CommandInv, usb, device
  <2>3. CommandFlow'
    <3>1. CASE Leaving
      BY <2>1, <3>1 DEF CommandFlow, Leaving, device, usb
    <3>2. CASE dpc \notin {"leave", "left"}
      BY <2>1, <3>2, FlowFrame DEF CommandInv, device, usb, Queue
    <3> QED BY <3>1, <3>2 DEF CommandInv, CommandFlow
  <2> QED BY <2>2, <2>3 DEF CommandInv
<1> QED BY <1>1, <1>2, <1>3, <1>4, <1>5 DEF DiskBootNext

\* When no run is interrupted within a command, the host and the device agree in
\* every state about the command that is under way.
THEOREM CommandInvariance ==
    ASSUME Interrupts = {}
    PROVE  DiskBootSpec => []CommandInv
<1>1. DiskBootInit => CommandInv
  BY CommandInitOK
<1>2. CommandInv /\ [DiskBootNext]_diskBootVars => CommandInv'
  BY CommandStepOK
<1> QED BY <1>1, <1>2, PTL DEF DiskBootSpec

\* The types of the protocol; transfer_buffer never gets more than the largest
\* command has, although diskboot_rx_handler does not look at its size.
THEOREM CommandTypes ==
    ASSUME Interrupts = {}
    PROVE  DiskBootSpec => []DiskBootTypeOK
<1>1. CommandInv => DiskBootTypeOK
  <2> SUFFICES ASSUME CommandInv PROVE DiskBootTypeOK
    OBVIOUS
  <2>1. HostOK /\ DeviceOK
    BY DEF CommandInv
  <2>2. NoCmd \in Command /\ \A c \in Sent : c \in Command
    BY SentOK DEF NoCmd, Command
  <2>3. host.pc \in {"idle", "next", "header", "data", "response", "respdata"} /\ host.cmd \in Command /\ host.n \in Nat
    BY <2>1, <2>2 DEF HostOK, Busy
  <2>4. Len(inF) <= 1
    <3>1. inF = <<>> => Len(inF) = 0
      OBVIOUS
    <3>2. \A r \in ToHostPackets : inF = <<r>> => Len(inF) = 1
      OBVIOUS
    <3>3. inF = <<>> \/ \E r \in ToHostPackets : inF = <<r>>
      BY <2>1 DEF DeviceOK
    <3>4. Len(inF) \in {0, 1}
      BY <3>1, <3>2, <3>3
    <3>5. \A k \in {0, 1} : k <= 1
      OBVIOUS
    <3> QED BY <3>4, <3>5, Zenon
  <2>5. cur \in Command /\ \A i \in DOMAIN got : got[i] \in Unit
    BY <2>1, <2>2 DEF DeviceOK
  <2>6. \E p \in Programs : \E i \in DOMAIN p : Len(got) <= p[i].out
    BY <2>1 DEF DeviceOK, Issued
  <2> QED BY <2>1, <2>3, <2>4, <2>5, <2>6 DEF DeviceOK, DiskBootTypeOK
<1> QED BY <1>1, CommandInvariance, PTL

\* send_command returns the response to the command that it has sent, for every
\* sequence of runs on one device.
THEOREM OwnAnswers ==
    ASSUME Interrupts = {}
    PROVE  DiskBootSpec => []AnswersOwnCommand
<1>1. CommandInv => AnswersOwnCommand
  BY DEF CommandInv, HostOK
<1> QED BY <1>1, CommandInvariance, PTL

\* BCMD_DISKWRITE answers BRST_OK when the data the tool has sent is on the flash,
\* and nothing but the whole data of one command is written.
THEOREM WritesHold ==
    ASSUME Interrupts = {}
    PROVE  DiskBootSpec => []WritesStored
<1>1. CommandInv => WritesStored
  BY DEF CommandInv
<1> QED BY <1>1, CommandInvariance, PTL

\* main_loop leaves with everything written, unless the flush of NAND_Exit failed, and
\* an exit or a jump that the tool has asked for happens with no volume exposed.
THEOREM CleanExit ==
    ASSUME Interrupts = {}
    PROVE  DiskBootSpec => []LeavesCleanly
<1>1. CommandInv => LeavesCleanly
  BY DEF CommandInv, DeviceOK, LeavesCleanly
<1> QED BY <1>1, CommandInvariance, PTL

-----------------------------------------------------------------------------
(* The two functions together.                                              *)

LEMMA BothSpecs == Spec => DiskBootSpec /\ MassSpec
<1>1. Init => DiskBootInit /\ MassInit
  BY DEF Init
<1>2. [Next]_vars => [DiskBootNext]_diskBootVars /\ [MassNext]_massVars
  BY DEF Next, Commanded, Served, vars
<1> QED BY <1>1, <1>2, PTL DEF Spec, DiskBootSpec, MassSpec

\* diskboot with both functions keeps its types, and everything the two of them
\* promise one by one.
THEOREM FunctionsTogether ==
    ASSUME Interrupts = {}
    PROVE  Spec => /\ []TypeOK
                   /\ [](AnswersOwnCommand /\ WritesStored /\ LeavesCleanly)
                   /\ [](InStep /\ ResidueTruthful /\ SenseExplains)
                   /\ VolumeKept
<1>1. Spec => []DiskBootTypeOK /\ []AnswersOwnCommand /\ []WritesStored /\ []LeavesCleanly
  BY BothSpecs, CommandTypes, OwnAnswers, WritesHold, CleanExit
<1>2. Spec => []CommandsTypeOK /\ []InStep /\ []ResidueTruthful /\ []SenseExplains /\ VolumeKept
  BY BothSpecs, MassTypes, NeverOutOfStep, ResidueHolds, SenseHolds, VolumeHolds
<1>3. DiskBootTypeOK /\ CommandsTypeOK => TypeOK
  BY DEF TypeOK
<1> QED BY <1>1, <1>2, <1>3, PTL
=============================================================================
