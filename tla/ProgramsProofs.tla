--------------------------- MODULE ProgramsProofs ---------------------------
(* Proofs about the programs of MCPrograms: the control endpoint of        *)
(* diskboot, adbd_emu's channel and the detection of the charger.  Each    *)
(* part has its inductive invariant and the lemmas that a step of the      *)
(* component keeps it, and ends with a theorem about Spec.                 *)
EXTENDS MCPrograms, FiniteSetTheorems, SequenceTheorems, TLAPS

-----------------------------------------------------------------------------
(* The control endpoint.                                                    *)

Kinds == DOMAIN Full \union NoData \union Stalled \union Silent
KnownRequest == [kind : Kinds, w : Nat]
Packets == [kind : Kinds \union {"none"}, len : Nat]

ControlTypeOK ==
    /\ udc \in [faddr : Nat, address : Nat, set : BOOLEAN, speed : BOOLEAN, conf : BOOLEAN, waits : BOOLEAN]
    /\ ep0 \in [setup : KnownRequest \union {NoRequest}, tx : Packets,
                stall : BOOLEAN, read : BOOLEAN]
    /\ port \in [phase : {"off", "idle", "asks", "failed"}, req : KnownRequest \union {NoRequest},
                 got : Packets, at : Nat, next : {1, 2}, conf : BOOLEAN, reset : BOOLEAN]

\* A bus reset that the device has not seen yet leaves nothing of what was before it,
\* but the flag of an address that was noted.
ResetPending ==
    port.reset => /\ udc.faddr = 0 /\ port.at = 0 /\ ~port.conf
                  /\ ~ep0.read /\ port.phase \in {"idle", "asks"}

\* The request in the FIFO is the host's last one, given up by the host or not.
SetupOfHost ==
    /\ ep0.setup # NoRequest => /\ ep0.setup = port.req /\ ~ep0.read
                                /\ port.phase \in {"idle", "asks"}
                                /\ port.req.kind = "address" => port.phase = "asks"
    /\ port.phase = "asks" => (ep0.read <=> ep0.setup = NoRequest)
    /\ port.phase \in {"asks", "failed"} => port.req # NoRequest
    /\ ep0.stall => ep0.read /\ port.req.kind \in Stalled

\* Where the device listens and which address it has noted, by what the host does.
AddressOnItsWay ==
    ~port.reset =>
        CASE port.phase = "off" -> ~udc.set /\ udc.faddr = 0 /\ port.at = 0
          [] port.phase = "idle" -> IF udc.set THEN udc.faddr = 0 /\ udc.address = port.at
                                    ELSE udc.faddr = port.at
          [] port.phase = "asks" /\ ~ep0.read -> /\ udc.faddr = port.at
                                                 /\ udc.set => port.at = 0 /\ udc.address = 0
          [] port.phase = "asks" /\ ep0.read /\ port.req.kind = "address" ->
                 port.at = 0 /\ IF udc.set THEN udc.faddr = 0 /\ udc.address = port.req.w
                                ELSE udc.faddr = port.req.w
          [] port.phase = "asks" /\ ep0.read /\ port.req.kind # "address" ->
                 ~udc.set /\ udc.faddr = port.at
          [] port.phase = "failed" ->
                 ~udc.set /\ port.req.kind = "address" /\ udc.faddr = port.req.w

\* While an address request is under way the host has none.
AddressFirst ==
    /\ port.phase = "asks" /\ port.req.kind = "address" => port.at = 0
    /\ port.phase = "asks" /\ port.req.kind = "set configuration" => port.at # 0

\* The speed is known from the first address on, the endpoints are set up with it.
SpeedKnown ==
    ~port.reset =>
        /\ port.at # 0 => udc.speed
        /\ port.phase = "asks" /\ ep0.read /\ port.req.kind = "address" => udc.speed
        /\ port.phase = "asks" /\ ep0.read /\ port.req.kind = "set configuration" => udc.conf
        /\ port.conf => port.at # 0 /\ udc.conf

\* A packet is the answer to the request under way.
PacketsAnswer ==
    /\ ep0.tx # NoPacket /\ port.phase = "asks" =>
           ep0.read /\ port.req.kind \in DOMAIN Full /\ ep0.tx = Answer(port.req)
    /\ ep0.tx # NoPacket => ep0.read
    /\ port.got # NoPacket => port.req.kind \in DOMAIN Full /\ port.got = Answer(port.req)
    /\ port.req.kind \in DOMAIN Full => port.req.w > 0

ControlInv ==
    /\ ControlTypeOK /\ ResetPending /\ SetupOfHost /\ AddressOnItsWay
    /\ AddressFirst /\ SpeedKnown /\ PacketsAnswer

\* The answers by their kinds.
LEMMA FullKinds ==
    /\ DOMAIN Full = {"device", "configuration", "qualifier", "string", "status", "lun"}
    /\ \A k \in DOMAIN Full : Full[k] \in Nat
    /\ Full.configuration = 55 /\ Full.lun = 1
    /\ Full["configuration"] = 55 /\ Full["lun"] = 1
    /\ "none" \notin Kinds
    /\ "address" \notin DOMAIN Full /\ "address" \notin Changes /\ Changes \cap DOMAIN Full = {}
<1>1. DOMAIN Full = {"device", "configuration", "qualifier", "string", "status", "lun"}
  BY DEF Full
<1>2. /\ Full["device"] = 18 /\ Full["configuration"] = 55 /\ Full["qualifier"] = 10
      /\ Full["string"] = 28 /\ Full["status"] = 2 /\ Full["lun"] = 1
  BY DEF Full
<1>3. \A k \in DOMAIN Full : Full[k] \in Nat
  BY <1>1, <1>2
<1>4. "none" \notin Kinds
  BY <1>1 DEF Kinds, NoData, Changes, Stalled, Silent
<1>5. "address" \notin DOMAIN Full /\ "address" \notin Changes /\ Changes \cap DOMAIN Full = {}
  BY <1>1 DEF Changes
<1>6. QED BY <1>1, <1>2, <1>3, <1>4, <1>5

\* An answer is no longer than was asked for, and complete below 256 bytes (the answers
\* of usbdcomm_poll_h).
LEMMA AnswerLength ==
    ASSUME NEW req \in KnownRequest, req.kind \in DOMAIN Full, req.w > 0
    PROVE  /\ Answer(req) \in Packets
           /\ Answer(req).kind = req.kind /\ Answer(req) # NoPacket
           /\ Answer(req).len <= req.w
           /\ req.w < 256 => Answer(req).len = SmallerOf(req.w, Full[req.kind])
<1>1. req.w \in Nat /\ req.kind \in Kinds /\ Full[req.kind] \in Nat
  BY FullKinds DEF KnownRequest
<1>2. /\ req.w % 256 \in Nat /\ req.w % 256 <= req.w
      /\ req.w < 256 => req.w % 256 = req.w
  BY <1>1
<1>3. Answer(req).kind = req.kind
  BY DEF Answer
<1>4. /\ Answer(req).len \in Nat /\ Answer(req).len <= req.w
      /\ req.w < 256 => Answer(req).len = SmallerOf(req.w, Full[req.kind])
  <2>1. CASE req.kind = "configuration"
    BY <1>1, <1>2, <2>1, FullKinds DEF Answer, ConfigurationBytes, SmallerOf
  <2>2. CASE req.kind = "lun"
    BY <1>1, <2>2, FullKinds DEF Answer, SmallerOf
  <2>3. CASE req.kind \notin {"configuration", "lun"}
    BY <1>1, <2>3, FullKinds DEF Answer, SmallerOf
  <2>4. QED BY <2>1, <2>2, <2>3
<1>5. Answer(req) = [kind |-> req.kind, len |-> Answer(req).len]
  BY DEF Answer
<1>6. QED BY <1>1, <1>3, <1>4, <1>5, FullKinds DEF NoPacket, KnownRequest, Packets

LEMMA ControlInitInv == ControlInit => ControlInv
<1> SUFFICES ASSUME ControlInit PROVE ControlInv
  OBVIOUS
<1> USE DEF ControlInit, NoRequest, NoPacket, Empty
<1>1. ControlTypeOK BY DEF ControlTypeOK, Packets
<1>2. ResetPending /\ SetupOfHost /\ AddressFirst /\ SpeedKnown
  BY DEF ResetPending, SetupOfHost, AddressFirst, SpeedKnown
<1>3. AddressOnItsWay BY DEF AddressOnItsWay
<1>4. PacketsAnswer BY FullKinds DEF PacketsAnswer, Kinds
<1>5. QED BY <1>1, <1>2, <1>3, <1>4 DEF ControlInv

\* The device sees a reset: nothing was left but the flag of an address.
LEMMA ResetSeenStep == ControlInv /\ BusResetSeen => ControlInv'
<1> SUFFICES ASSUME ControlInv, BusResetSeen PROVE ControlInv'
  OBVIOUS
<1> USE DEF ControlInv, BusResetSeen, AfterBusReset
<1>1. ControlTypeOK' BY DEF ControlTypeOK
<1>2. ResetPending' /\ SetupOfHost'
  BY DEF ResetPending, SetupOfHost, ControlTypeOK
<1>3. AddressOnItsWay'
  BY DEF ResetPending, AddressOnItsWay, ControlTypeOK
<1>4. AddressFirst' /\ SpeedKnown' /\ PacketsAnswer'
  BY DEF ResetPending, AddressFirst, SpeedKnown, PacketsAnswer, ControlTypeOK
<1>5. QED BY <1>1, <1>2, <1>3, <1>4

LEMMA WriteEndsStep == ControlInv /\ WriteEnds => ControlInv'
<1> SUFFICES ASSUME ControlInv, WriteEnds PROVE ControlInv'
  OBVIOUS
<1> USE DEF ControlInv, WriteEnds
<1>1. ControlTypeOK' BY DEF ControlTypeOK
<1>2. ResetPending' /\ SetupOfHost' /\ AddressOnItsWay'
  BY DEF ResetPending, SetupOfHost, AddressOnItsWay, ControlTypeOK
<1>3. AddressFirst' /\ SpeedKnown' /\ PacketsAnswer'
  BY DEF AddressFirst, SpeedKnown, PacketsAnswer, ControlTypeOK
<1>4. QED BY <1>1, <1>2, <1>3

\* The address is set first; then the request is answered.
LEMMA FrameStep == ControlInv /\ Frame => ControlInv'
<1> SUFFICES ASSUME ControlInv, Frame PROVE ControlInv'
  OBVIOUS
<1> DEFINE u == IF udc.set THEN [udc EXCEPT !.faddr = udc.address, !.set = FALSE] ELSE udc
<1>1. /\ ~port.reset /\ port' = port
      /\ ep0.setup # NoRequest => HandleSetup(u)
      /\ ep0.setup = NoRequest => udc.set /\ udc' = u /\ ep0' = ep0
  BY DEF Frame
<1>2. u \in [faddr : Nat, address : Nat, set : BOOLEAN, speed : BOOLEAN, conf : BOOLEAN, waits : BOOLEAN]
      /\ ~u.set /\ u.speed = udc.speed /\ u.conf = udc.conf
      /\ u.faddr = IF udc.set THEN udc.address ELSE udc.faddr
  BY DEF ControlInv, ControlTypeOK
<1> HIDE DEF u
<1>3. CASE ep0.setup = NoRequest
  <2> USE <1>1, <1>2, <1>3 DEF ControlInv
  <2>1. ControlTypeOK' BY DEF ControlTypeOK
  <2>2. ResetPending' /\ SetupOfHost' BY DEF ResetPending, SetupOfHost
  <2>3. AddressOnItsWay' BY DEF AddressOnItsWay, SetupOfHost, ControlTypeOK
  <2>4. AddressFirst' /\ SpeedKnown' /\ PacketsAnswer'
    BY DEF AddressFirst, SpeedKnown, PacketsAnswer
  <2>5. QED BY <2>1, <2>2, <2>3, <2>4
<1>4. CASE ep0.setup # NoRequest
  <2> DEFINE req == port.req
             sends == req.kind \in DOMAIN Full
  <2>1. /\ req \in KnownRequest /\ ep0.setup = req /\ ~ep0.read /\ port.phase \in {"idle", "asks"}
        /\ req.kind = "address" => port.phase = "asks"
        /\ sends => req.w > 0
    BY <1>4 DEF ControlInv, SetupOfHost, PacketsAnswer, ControlTypeOK
  <2>2. /\ ep0' = [setup |-> NoRequest, tx |-> IF sends THEN Answer(req) ELSE NoPacket,
                   stall |-> req.kind \in Stalled, read |-> TRUE]
        /\ sends => udc' = [u EXCEPT !.waits = TRUE]
        /\ req.kind = "address" => udc' = NoteAddress(u, req.w)
        /\ req.kind \in Changes => udc' = EndpointReset(u)
        /\ ~sends /\ req.kind # "address" /\ req.kind \notin Changes => udc' = u
    <3>1. HandleSetup(u)
      BY <1>1, <1>4
    <3>2. ep0' = [setup |-> NoRequest, tx |-> IF sends THEN Answer(req) ELSE NoPacket,
                  stall |-> req.kind \in Stalled, read |-> TRUE]
      BY <2>1, <3>1 DEF HandleSetup, Empty
    <3>3. udc' = CASE sends -> [u EXCEPT !.waits = TRUE]
                   [] req.kind = "address" -> NoteAddress(u, req.w)
                   [] req.kind \in Changes -> EndpointReset(u)
                   [] OTHER -> u
      BY <2>1, <3>1 DEF HandleSetup
    <3>4. ~(sends /\ req.kind = "address") /\ ~(sends /\ req.kind \in Changes)
          /\ ~(req.kind = "address" /\ req.kind \in Changes)
      BY FullKinds
    <3> HIDE DEF sends
    <3>5. QED BY <3>2, <3>3, <3>4
  <2> HIDE DEF req, sends
  <2>3. sends => Answer(req) \in Packets /\ Answer(req) # NoPacket
    BY <2>1, AnswerLength DEF sends
  <2>4. req.kind \in Kinds /\ req.w \in Nat
    BY <2>1 DEF KnownRequest
  <2>5. /\ udc' \in [faddr : Nat, address : Nat, set : BOOLEAN, speed : BOOLEAN, conf : BOOLEAN, waits : BOOLEAN]
        /\ udc'.faddr = u.faddr
        /\ req.kind = "address" => udc'.set /\ udc'.address = req.w /\ udc'.speed
        /\ req.kind # "address" => ~udc'.set /\ udc'.speed = udc.speed
        /\ req.kind \in Changes => udc'.conf = udc.speed
        /\ req.kind \notin Changes => udc'.conf = udc.conf
    <3>1. CASE sends
      BY <1>2, <2>2, <3>1, FullKinds, ZenonT(60) DEF sends, Changes
    <3>2. CASE req.kind = "address"
      <4>1. udc' = NoteAddress(u, req.w) /\ req.kind \notin Changes
        BY <2>2, <3>2, FullKinds
      <4>2. QED BY <1>2, <2>4, <3>2, <4>1 DEF NoteAddress
    <3>3. CASE req.kind \in Changes
      BY <1>2, <2>2, <3>3, FullKinds DEF EndpointReset
    <3>4. CASE ~sends /\ req.kind # "address" /\ req.kind \notin Changes
      BY <1>2, <2>2, <3>4
    <3>5. QED BY <3>1, <3>2, <3>3, <3>4
  <2>6. ControlTypeOK'
    BY <1>1, <2>2, <2>3, <2>5 DEF ControlInv, ControlTypeOK, NoPacket, Packets
  <2>7. /\ ep0'.setup = NoRequest /\ ep0'.read /\ ep0'.tx = IF sends THEN Answer(req) ELSE NoPacket
        /\ ep0'.stall => req.kind \in Stalled
    BY <2>2
  <2>8. ResetPending' /\ SetupOfHost'
    BY <1>1, <2>1, <2>7 DEF ControlInv, ResetPending, SetupOfHost, req
  <2>9. AddressOnItsWay'
    <3>1. CASE port.phase = "idle"
      BY <1>1, <1>2, <2>1, <2>5, <2>7, <3>1 DEF ControlInv, AddressOnItsWay, req
    <3>2. CASE port.phase = "asks"
      BY <1>1, <1>2, <2>1, <2>5, <2>7, <3>2 DEF ControlInv, AddressOnItsWay, AddressFirst, req
    <3>3. QED BY <2>1, <3>1, <3>2
  <2>10. AddressFirst' /\ SpeedKnown'
    BY <1>1, <2>1, <2>5, <2>7 DEF ControlInv, AddressFirst, SpeedKnown, req, Changes
  <2>11. PacketsAnswer'
    BY <1>1, <2>1, <2>3, <2>7 DEF ControlInv, PacketsAnswer, SetupOfHost, req, sends
  <2>12. QED BY <2>6, <2>8, <2>9, <2>10, <2>11 DEF ControlInv
<1>5. QED BY <1>3, <1>4

\* The controller forgets all, the device its own part when it sees the reset.
LEMMA HostResetsStep == ControlInv /\ HostResetsBus => ControlInv'
<1> SUFFICES ASSUME ControlInv, HostResetsBus PROVE ControlInv'
  OBVIOUS
<1> USE DEF ControlInv, HostResetsBus, Empty
<1>1. ControlTypeOK' BY DEF ControlTypeOK, NoPacket, Packets
<1>2. port'.reset /\ port'.phase = "idle" /\ port'.at = 0 /\ ~port'.conf /\ udc'.faddr = 0
      /\ port'.req = NoRequest /\ port'.got = NoPacket
      /\ ep0'.setup = NoRequest /\ ~ep0'.read /\ ep0'.tx = NoPacket
  BY DEF ControlTypeOK
<1>3. ResetPending' /\ SetupOfHost' /\ AddressOnItsWay' /\ AddressFirst' /\ SpeedKnown'
  BY <1>2 DEF ResetPending, SetupOfHost, AddressOnItsWay, AddressFirst, SpeedKnown
<1>4. PacketsAnswer' BY <1>2, FullKinds DEF PacketsAnswer, NoRequest, Kinds
<1>5. QED BY <1>1, <1>3, <1>4

\* A request is heard: the host talks at the address the device listens at.
LEMMA HostAsksStep == ControlInv /\ HostAsks => ControlInv'
<1> SUFFICES ASSUME ControlInv, HostAsks PROVE ControlInv'
  OBVIOUS
<1>1. /\ port.phase = "idle" /\ udc' = udc /\ (udc.set => port.at = 0)
      /\ udc.faddr = port.at
  <2>1. port.phase = "idle" /\ udc' = udc /\ (udc.set => port.at = 0)
    BY DEF HostAsks
  <2>2. udc.faddr = port.at
    BY <2>1 DEF ControlInv, ResetPending, AddressOnItsWay
  <2>3. QED BY <2>1, <2>2
<1>2. PICK r \in REQUESTS :
          /\ Allowed(r.kind)
          /\ LET req == IF r.kind = "address" THEN [r EXCEPT !.w = port.next] ELSE r
             IN /\ ep0' = [Empty EXCEPT !.setup = req]
                /\ port' = [port EXCEPT !.phase = "asks", !.req = req, !.got = NoPacket]
  BY <1>1 DEF HostAsks
<1> DEFINE req == IF r.kind = "address" THEN [r EXCEPT !.w = port.next] ELSE r
<1>3. /\ req \in KnownRequest /\ req # NoRequest /\ req.kind = r.kind
      /\ req.kind \in DOMAIN Full => req.w > 0
  <2>1. r \in KnownRequest /\ (r.kind \in DOMAIN Full => r.w > 0)
    BY RequestsKnown DEF KnownRequest, Kinds
  <2>2. port.next \in Nat /\ r.kind \in Kinds
    BY <2>1 DEF ControlInv, ControlTypeOK, KnownRequest
  <2>3. CASE r.kind = "address"
    BY <2>1, <2>2, <2>3, FullKinds DEF KnownRequest, NoRequest
  <2>4. CASE r.kind # "address"
    BY <2>1, <2>2, <2>4, FullKinds DEF KnownRequest, NoRequest
  <2>5. QED BY <2>3, <2>4
<1>4. /\ ep0' = [setup |-> req, tx |-> NoPacket, stall |-> FALSE, read |-> FALSE]
      /\ port' = [port EXCEPT !.phase = "asks", !.req = req, !.got = NoPacket]
  BY <1>2 DEF Empty
<1> HIDE DEF req
<1>5. ControlTypeOK'
  BY <1>1, <1>3, <1>4 DEF ControlInv, ControlTypeOK, NoPacket, Packets
<1>6. /\ ep0'.setup = req /\ ep0'.tx = NoPacket /\ ~ep0'.read /\ ~ep0'.stall
      /\ port'.phase = "asks" /\ port'.req = req /\ port'.got = NoPacket
      /\ port'.at = port.at /\ port'.conf = port.conf /\ port'.reset = port.reset
  BY <1>4 DEF ControlInv, ControlTypeOK
<1>7. ResetPending' /\ SetupOfHost'
  BY <1>1, <1>3, <1>6 DEF ControlInv, ResetPending, SetupOfHost
<1>8. AddressOnItsWay'
  BY <1>1, <1>6 DEF ControlInv, AddressOnItsWay
<1>9. AddressFirst' /\ SpeedKnown'
  <2>1. (req.kind = "address" => port.at = 0) /\ (req.kind = "set configuration" => port.at # 0)
    BY <1>2, <1>3 DEF Allowed
  <2>2. QED BY <1>1, <1>6, <2>1 DEF ControlInv, AddressFirst, SpeedKnown
<1>10. PacketsAnswer'
  BY <1>3, <1>6 DEF PacketsAnswer
<1>11. QED BY <1>5, <1>7, <1>8, <1>9, <1>10 DEF ControlInv

LEMMA HostTakesStep == ControlInv /\ HostTakes => ControlInv'
<1> SUFFICES ASSUME ControlInv, HostTakes PROVE ControlInv'
  OBVIOUS
<1> USE DEF ControlInv, HostTakes
<1>1. ControlTypeOK' BY DEF ControlTypeOK, NoPacket, Packets
<1>2. /\ port.phase = "asks" /\ ep0.read /\ port.req.kind \in DOMAIN Full /\ ep0.tx = Answer(port.req)
      /\ port.req.kind # "address"
  BY FullKinds DEF PacketsAnswer
<1>3. /\ udc' = udc /\ port'.phase = "idle" /\ port'.got = ep0.tx /\ port'.req = port.req
      /\ port'.at = port.at /\ port'.conf = port.conf /\ port'.reset = port.reset
      /\ ep0'.tx = NoPacket /\ ep0'.read = ep0.read /\ ep0'.setup = ep0.setup
  BY DEF ControlTypeOK
<1>4. ResetPending' /\ SetupOfHost'
  BY <1>2, <1>3 DEF ResetPending, SetupOfHost
<1>5. AddressOnItsWay' BY <1>2, <1>3 DEF AddressOnItsWay
<1>6. AddressFirst' /\ SpeedKnown' BY <1>2, <1>3 DEF AddressFirst, SpeedKnown
<1>7. PacketsAnswer' BY <1>2, <1>3 DEF PacketsAnswer
<1>8. QED BY <1>1, <1>4, <1>5, <1>6, <1>7

LEMMA HostEndsStep == ControlInv /\ HostEnds => ControlInv'
<1> SUFFICES ASSUME ControlInv, HostEnds PROVE ControlInv'
  OBVIOUS
<1>1. /\ port.phase = "asks" /\ port.req.kind \in NoData /\ ep0.read
      /\ udc' = udc /\ ep0' = ep0
  BY DEF HostEnds
<1>2. ~port.reset /\ ep0.setup = NoRequest /\ port.req # NoRequest /\ port.req \in KnownRequest
      /\ port.req.kind \notin DOMAIN Full /\ ep0.tx = NoPacket /\ port.got = NoPacket
  BY <1>1, FullKinds DEF ControlInv, ResetPending, SetupOfHost, PacketsAnswer, ControlTypeOK, NoData, Changes
<1>3. port.req.w \in Nat
  BY <1>2 DEF KnownRequest
<1>4. CASE udc.faddr = port.at
  <2>1. port' = [port EXCEPT !.phase = "idle",
                             !.at = IF port.req.kind = "address" THEN port.req.w ELSE @,
                             !.next = IF port.req.kind = "address" THEN 3 - @ ELSE @,
                             !.conf = @ \/ port.req.kind = "set configuration"]
    BY <1>4 DEF HostEnds
  <2>2. /\ port'.phase = "idle" /\ port'.req = port.req /\ port'.got = port.got
        /\ port'.at = (IF port.req.kind = "address" THEN port.req.w ELSE port.at)
        /\ port'.conf = (port.conf \/ port.req.kind = "set configuration")
        /\ port'.reset = port.reset
    BY <2>1 DEF ControlInv, ControlTypeOK
  <2>3. ControlTypeOK'
    <3>1. port' \in [phase : {"off", "idle", "asks", "failed"}, req : KnownRequest \union {NoRequest},
                     got : Packets, at : Nat, next : {1, 2}, conf : BOOLEAN, reset : BOOLEAN]
      <4>1. 3 - port.next \in {1, 2}
        BY DEF ControlInv, ControlTypeOK
      <4>2. QED BY <1>3, <2>1, <4>1 DEF ControlInv, ControlTypeOK
    <3>2. QED BY <1>1, <3>1 DEF ControlInv, ControlTypeOK
  <2>4. ResetPending' /\ SetupOfHost'
    BY <1>1, <1>2, <2>2 DEF ControlInv, ResetPending, SetupOfHost
  <2>5. AddressOnItsWay'
    <3>1. CASE port.req.kind = "address"
      BY <1>1, <1>2, <1>4, <2>2, <3>1 DEF ControlInv, AddressOnItsWay, ControlTypeOK
    <3>2. CASE port.req.kind # "address"
      BY <1>1, <1>2, <1>4, <2>2, <3>2 DEF ControlInv, AddressOnItsWay
    <3>3. QED BY <3>1, <3>2
  <2>6. AddressFirst' BY <2>2 DEF AddressFirst
  <2>7. SpeedKnown'
    BY <1>1, <1>2, <2>2 DEF ControlInv, SpeedKnown, AddressFirst
  <2>8. PacketsAnswer'
    BY <1>1, <1>2, <2>2 DEF ControlInv, PacketsAnswer
  <2>9. QED BY <2>3, <2>4, <2>5, <2>6, <2>7, <2>8 DEF ControlInv
<1>5. CASE udc.faddr # port.at
  <2>1. port' = [port EXCEPT !.phase = "failed"]
    BY <1>5 DEF HostEnds
  <2>2. /\ port'.phase = "failed" /\ port'.req = port.req /\ port'.got = port.got
        /\ port'.at = port.at /\ port'.conf = port.conf /\ port'.reset = port.reset
    BY <2>1 DEF ControlInv, ControlTypeOK
  <2>3. ControlTypeOK'
    BY <1>1, <2>1 DEF ControlInv, ControlTypeOK
  <2>4. ResetPending' /\ SetupOfHost' /\ AddressFirst'
    BY <1>1, <1>2, <2>2 DEF ControlInv, ResetPending, SetupOfHost, AddressFirst
  <2>5. AddressOnItsWay'
    BY <1>1, <1>2, <1>5, <2>2 DEF ControlInv, AddressOnItsWay
  <2>6. SpeedKnown' /\ PacketsAnswer'
    BY <1>1, <1>2, <2>2 DEF ControlInv, SpeedKnown, PacketsAnswer
  <2>7. QED BY <2>3, <2>4, <2>5, <2>6 DEF ControlInv
<1>6. QED BY <1>4, <1>5

LEMMA HostGivesUpStep == ControlInv /\ HostGivesUp => ControlInv'
<1> SUFFICES ASSUME ControlInv, HostGivesUp PROVE ControlInv'
  OBVIOUS
<1>1. /\ port.phase = "asks" /\ udc' = udc
      /\ port' = [port EXCEPT !.phase = "idle"] /\ ep0' = [ep0 EXCEPT !.stall = FALSE]
      /\ port.req.kind # "address"
  BY DEF HostGivesUp, ControlInv, SetupOfHost, Stalled, Silent
<1>2. ControlTypeOK' BY <1>1 DEF ControlInv, ControlTypeOK
<1>3. /\ port'.phase = "idle" /\ port'.req = port.req /\ port'.got = port.got
      /\ port'.at = port.at /\ port'.conf = port.conf /\ port'.reset = port.reset
      /\ ep0'.setup = ep0.setup /\ ep0'.tx = ep0.tx /\ ep0'.read = ep0.read /\ ~ep0'.stall
  BY <1>1 DEF ControlInv, ControlTypeOK
<1>4. ResetPending' /\ SetupOfHost'
  BY <1>1, <1>3 DEF ControlInv, ResetPending, SetupOfHost
<1>5. AddressOnItsWay'
  BY <1>1, <1>3 DEF ControlInv, AddressOnItsWay, ControlTypeOK
<1>6. AddressFirst' /\ SpeedKnown'
  BY <1>1, <1>3 DEF ControlInv, AddressFirst, SpeedKnown
<1>7. PacketsAnswer'
  BY <1>1, <1>3 DEF ControlInv, PacketsAnswer
<1>8. QED BY <1>2, <1>4, <1>5, <1>6, <1>7 DEF ControlInv

LEMMA ControlStep == ControlInv /\ [ControlNext]_controlVars => ControlInv'
<1> SUFFICES ASSUME ControlInv, [ControlNext]_controlVars PROVE ControlInv'
  OBVIOUS
<1>1. CASE DeviceStep
  BY <1>1, ResetSeenStep, FrameStep, WriteEndsStep DEF DeviceStep
<1>2. CASE HostResetsBus BY <1>2, HostResetsStep
<1>3. CASE HostAsks BY <1>3, HostAsksStep
<1>4. CASE PortStep
  BY <1>4, HostTakesStep, HostEndsStep, HostGivesUpStep, HostResetsStep DEF PortStep
<1>5. CASE UNCHANGED controlVars
  <2>1. udc' = udc /\ ep0' = ep0 /\ port' = port
    BY <1>5 DEF controlVars
  <2>2. ControlTypeOK'
    BY <2>1 DEF ControlInv, ControlTypeOK
  <2>5. ResetPending' /\ SetupOfHost' /\ AddressFirst'
    BY <2>1 DEF ControlInv, ResetPending, SetupOfHost, AddressFirst
  <2>3. AddressOnItsWay' /\ SpeedKnown' /\ PacketsAnswer'
    BY <2>1 DEF ControlInv, AddressOnItsWay, SpeedKnown, PacketsAnswer
  <2>4. QED BY <2>2, <2>3, <2>5 DEF ControlInv
<1>6. QED BY <1>1, <1>2, <1>3, <1>4, <1>5 DEF ControlNext

\* What the endpoint promises the host follows from the invariant.
LEMMA ControlInvSound == ControlInv => ControlSound
<1> SUFFICES ASSUME ControlInv PROVE ControlSound
  OBVIOUS
<1>1. AddressOfHost
  <2>1. CASE port.reset
    BY <2>1 DEF ControlInv, ResetPending, AddressOfHost
  <2>2. CASE ~port.reset
    <3>1. port.req = [kind |-> port.req.kind, w |-> port.req.w]
      BY DEF ControlInv, ControlTypeOK, KnownRequest, NoRequest
    <3>2. QED BY <2>2, <3>1 DEF ControlInv, AddressOnItsWay, AddressOfHost, ControlTypeOK
  <2>3. QED BY <2>1, <2>2
<1>2. AddressSettles
  BY DEF ControlInv, AddressOnItsWay, AddressSettles
<1>3. EndpointsReady
  BY DEF ControlInv, SpeedKnown, EndpointsReady
<1>4. AnswersFit
  <2> SUFFICES ASSUME port.got # NoPacket
               PROVE  /\ port.got.kind = port.req.kind
                      /\ port.got.len <= port.req.w
                      /\ port.req.w < 256 => port.got.len = SmallerOf(port.req.w, Full[port.req.kind])
    BY DEF AnswersFit
  <2>1. port.req.kind \in DOMAIN Full /\ port.got = Answer(port.req) /\ port.req.w > 0
    BY DEF ControlInv, PacketsAnswer
  <2>2. port.req \in KnownRequest
    BY <2>1, FullKinds DEF ControlInv, ControlTypeOK, NoRequest, Kinds
  <2>3. QED BY <2>1, <2>2, AnswerLength
<1>5. QED BY <1>1, <1>2, <1>3, <1>4 DEF ControlSound

-----------------------------------------------------------------------------
(* adbd_emu.                                                                *)

AdbdPackets == [cmd : Commands, to : Nat, data : BOOLEAN]
Calls == {"lock", "unlock", "cancel", "join", "close", "reopen", "return"}
AdbdSteps ==
    [op : Calls] \union [op : {"header", "data"}, packet : AdbdPackets]
        \union [op : {"create"}, remote : REMOTES]

\* Which step comes after which in a thread.
Follows(a, b) ==
    CASE a.op = "lock" -> b.op \in {"header", "cancel"}
      [] a.op = "header" -> IF a.packet.data THEN b = Payload(a.packet) ELSE b.op = "unlock"
      [] a.op \in {"data", "cancel"} -> b.op = "unlock"
      [] a.op = "unlock" -> b.op \in {"lock", "join", "return"}
      [] a.op = "join" -> b.op = "close"
      [] a.op = "close" -> b.op = "reopen"
      [] a.op = "create" -> b.op = "lock"
      [] OTHER -> FALSE

\* Where a sequence of steps may end.
Ending == {"unlock", "close", "reopen", "return", "create"}

WellFormed(q) ==
    /\ q \in Seq(AdbdSteps)
    /\ \A i \in 1 .. Len(q) : i < Len(q) => Follows(q[i], q[i + 1])
    /\ q # <<>> => q[Len(q)].op \in Ending

\* A thread between its lock and its unlock.
Inside(q) == q # <<>> /\ Head(q).op \in {"header", "data", "cancel", "unlock"}
Midway(q) == q # <<>> /\ Head(q).op = "data"

AdbdTypeOK ==
    /\ WellFormed(todo)
    /\ reader = Gone \/ WellFormed(reader)
    /\ canceled \in BOOLEAN /\ mutex \in {Free, "main", "reader", "lost"}
    /\ shell \in [remote : Nat, output : Nat] /\ link \in BOOLEAN
    /\ wire \in [expects : {"header", "data"}, broken : BOOLEAN, strays : BOOLEAN]

\* The mutex excludes the threads from each other; a thread that was cancelled
\* with it keeps it for ever.
Excluded == (mutex = "main" <=> Inside(todo)) /\ (mutex = "reader" <=> Inside(reader))

\* The reader sends the output of the login that is open.
ReaderOfShell ==
    reader # Gone =>
        /\ shell.remote # 0
        /\ \A i \in 1 .. Len(reader) :
               /\ reader[i].op \in {"lock", "header", "data", "unlock", "return"}
               /\ reader[i].op \in {"header", "data"} => reader[i].packet.to = shell.remote

\* A login is created, closed and the channel opened again only without a reader.
ReaderJoined ==
    todo # <<>> /\ Head(todo).op \in {"create", "close", "reopen"} => reader = Gone

\* While the channel works it expects a payload of the thread that is about to send it.
Framed ==
    link => /\ Midway(todo) \/ Midway(reader) => wire.expects = "data"
            /\ wire.expects = "data" => Midway(todo) \/ Midway(reader) \/ mutex = "lost"

AdbdInv ==
    /\ AdbdTypeOK /\ Excluded /\ ReaderOfShell /\ ReaderJoined /\ Framed
    /\ StreamsSound

\* What is left after a step.
LEMMA RestWellFormed ==
    ASSUME NEW q, WellFormed(q), q # <<>>
    PROVE  /\ Head(q) \in AdbdSteps /\ Len(q) \in Nat \ {0} /\ Head(q) = q[1]
           /\ WellFormed(Tail(q))
           /\ Tail(q) # <<>> => Follows(Head(q), Head(Tail(q)))
           /\ Head(q).op \notin Ending => Tail(q) # <<>>
           /\ \A i \in 1 .. Len(Tail(q)) : i + 1 \in 1 .. Len(q) /\ Tail(q)[i] = q[i + 1]
<1>1. /\ q \in Seq(AdbdSteps) /\ Head(q) \in AdbdSteps /\ Tail(q) \in Seq(AdbdSteps)
      /\ Len(Tail(q)) = Len(q) - 1 /\ \A i \in 1 .. Len(Tail(q)) : Tail(q)[i] = q[i + 1]
  BY HeadTailProperties DEF WellFormed
<1>2. Len(q) \in Nat \ {0} /\ Len(Tail(q)) \in Nat
  BY <1>1, EmptySeq, LenProperties
<1>3. Head(q) = q[1]
  OBVIOUS
<1>4. \A i \in 1 .. Len(Tail(q)) : i + 1 \in 1 .. Len(q) /\ Tail(q)[i] = q[i + 1]
  BY <1>1, <1>2
<1>5. Tail(q) # <<>> => /\ Len(Tail(q)) \in Nat \ {0} /\ Head(Tail(q)) = Tail(q)[1]
  BY <1>1, EmptySeq
<1>6. Tail(q) = <<>> => Len(q) = 1
  BY <1>1, <1>2, EmptySeq
<1>7. Tail(q) # <<>> => Follows(Head(q), Head(Tail(q)))
  <2>1. Tail(q) # <<>> => 1 < Len(q) /\ Tail(q)[1] = q[2] /\ 1 \in 1 .. Len(q)
    BY <1>1, <1>2, <1>5
  <2>2. 1 < Len(q) => Follows(q[1], q[2])
    BY <1>2 DEF WellFormed
  <2>3. QED BY <1>3, <1>5, <2>1, <2>2
<1>8. Head(q).op \notin Ending => Tail(q) # <<>>
  BY <1>3, <1>6 DEF WellFormed
<1>9. WellFormed(Tail(q))
  <2>1. ASSUME NEW i \in 1 .. Len(Tail(q)), i < Len(Tail(q))
        PROVE  Follows(Tail(q)[i], Tail(q)[i + 1])
    <3>1. /\ i + 1 \in 1 .. Len(q) /\ i + 1 < Len(q)
          /\ Tail(q)[i] = q[i + 1] /\ Tail(q)[i + 1] = q[(i + 1) + 1]
      BY <1>1, <1>2, <2>1
    <3>2. QED BY <3>1 DEF WellFormed
  <2>2. Tail(q) # <<>> => Tail(q)[Len(Tail(q))] = q[Len(q)]
    BY <1>1, <1>2, <1>5
  <2>3. QED BY <1>1, <2>1, <2>2 DEF WellFormed
<1>10. QED BY <1>1, <1>2, <1>3, <1>4, <1>7, <1>8, <1>9

LEMMA JoinedWellFormed ==
    ASSUME NEW p, NEW q, WellFormed(p), WellFormed(q), p # <<>>, q # <<>>,
           Follows(p[Len(p)], q[1])
    PROVE  /\ WellFormed(p \o q) /\ p \o q # <<>> /\ Head(p \o q) = p[1]
           /\ Len(p \o q) = Len(p) + Len(q) /\ Len(p) \in Nat /\ Len(q) \in Nat
           /\ \A i \in 1 .. Len(p) + Len(q) : (p \o q)[i] = IF i <= Len(p) THEN p[i] ELSE q[i - Len(p)]
<1>1. /\ p \in Seq(AdbdSteps) /\ q \in Seq(AdbdSteps)
      /\ Len(p) \in Nat \ {0} /\ Len(q) \in Nat \ {0}
  BY EmptySeq DEF WellFormed
<1>2. /\ p \o q \in Seq(AdbdSteps) /\ Len(p \o q) = Len(p) + Len(q)
      /\ \A i \in 1 .. Len(p) + Len(q) : (p \o q)[i] = IF i <= Len(p) THEN p[i] ELSE q[i - Len(p)]
  BY <1>1, ConcatProperties
<1>3. p \o q # <<>>
  BY <1>1, <1>2, EmptySeq
<1>4. Head(p \o q) = p[1]
  <2>1. Head(p \o q) = (p \o q)[1]
    BY <1>2, <1>3
  <2>2. QED BY <1>1, <1>2, <2>1
<1>5. ASSUME NEW i \in 1 .. Len(p \o q), i < Len(p \o q)
      PROVE  Follows((p \o q)[i], (p \o q)[i + 1])
  <2>1. CASE i < Len(p)
    <3>1. (p \o q)[i] = p[i] /\ (p \o q)[i + 1] = p[i + 1] /\ i \in 1 .. Len(p)
      BY <1>1, <1>2, <2>1
    <3>2. QED BY <2>1, <3>1 DEF WellFormed
  <2>2. CASE i = Len(p)
    <3>1. (p \o q)[i] = p[Len(p)] /\ (p \o q)[i + 1] = q[1]
      BY <1>1, <1>2, <2>2
    <3>2. QED BY <3>1
  <2>3. CASE i > Len(p)
    <3>1. /\ i - Len(p) \in 1 .. Len(q) /\ i - Len(p) < Len(q)
          /\ (p \o q)[i] = q[i - Len(p)] /\ (p \o q)[i + 1] = q[(i - Len(p)) + 1]
      BY <1>1, <1>2, <1>5, <2>3
    <3>2. QED BY <3>1 DEF WellFormed
  <2>4. QED BY <1>1, <1>5, <2>1, <2>2, <2>3
<1>6. (p \o q)[Len(p \o q)].op \in Ending
  <2>1. (p \o q)[Len(p \o q)] = q[Len(q)]
    BY <1>1, <1>2
  <2>2. QED BY <2>1 DEF WellFormed
<1>7. QED BY <1>1, <1>2, <1>3, <1>4, <1>5, <1>6 DEF WellFormed

\* send_packet's steps.
LEMMA SendPacketSteps ==
    ASSUME NEW p \in AdbdPackets
    PROVE  /\ WellFormed(SendPacket(p)) /\ SendPacket(p) # <<>>
           /\ SendPacket(p)[1].op = "lock" /\ SendPacket(p)[Len(SendPacket(p))].op = "unlock"
           /\ \A i \in 1 .. Len(SendPacket(p)) :
                 /\ SendPacket(p)[i].op \in {"lock", "header", "data", "unlock"}
                 /\ SendPacket(p)[i].op \in {"header", "data"} => SendPacket(p)[i].packet = p
<1> DEFINE first == <<Step("lock"), Header(p)>>
           middle == IF p.data THEN <<Payload(p)>> ELSE <<>>
           last == <<Step("unlock")>>
           q == (first \o middle) \o last
<1>1. SendPacket(p) = q
  BY DEF SendPacket
<1>2. /\ Header(p) = [op |-> "header", packet |-> p] /\ Payload(p) = [op |-> "data", packet |-> p]
      /\ Step("lock") = [op |-> "lock"] /\ Step("unlock") = [op |-> "unlock"]
  BY DEF Header, Payload, Step
<1>3. /\ Step("lock") \in AdbdSteps /\ Step("unlock") \in AdbdSteps
      /\ Header(p) \in AdbdSteps /\ Payload(p) \in AdbdSteps
  BY <1>2 DEF AdbdSteps, Calls
<1>4. /\ first \in Seq(AdbdSteps) /\ middle \in Seq(AdbdSteps) /\ last \in Seq(AdbdSteps)
      /\ Len(first) = 2 /\ first[1] = Step("lock") /\ first[2] = Header(p)
      /\ Len(middle) = IF p.data THEN 1 ELSE 0
      /\ p.data => middle[1] = Payload(p)
      /\ Len(last) = 1 /\ last[1] = Step("unlock")
  BY <1>3
<1> HIDE DEF first, middle, last
<1>5. /\ first \o middle \in Seq(AdbdSteps) /\ Len(first \o middle) = IF p.data THEN 3 ELSE 2
      /\ (first \o middle)[1] = Step("lock") /\ (first \o middle)[2] = Header(p)
      /\ p.data => (first \o middle)[3] = Payload(p)
  BY <1>4, ConcatProperties
<1>6. /\ q \in Seq(AdbdSteps) /\ Len(q) = IF p.data THEN 4 ELSE 3
      /\ q[1] = Step("lock") /\ q[2] = Header(p)
      /\ p.data => q[3] = Payload(p) /\ q[4] = Step("unlock")
      /\ ~p.data => q[3] = Step("unlock")
  BY <1>4, <1>5, ConcatProperties
<1> HIDE DEF q
<1>7. p.data \in BOOLEAN
  BY DEF AdbdPackets
<1>8. q # <<>> /\ q[1].op = "lock" /\ q[Len(q)].op = "unlock"
  BY <1>2, <1>6, EmptySeq
<1>9. \A i \in 1 .. Len(q) : /\ q[i].op \in {"lock", "header", "data", "unlock"}
                             /\ q[i].op \in {"header", "data"} => q[i].packet = p
  BY <1>2, <1>6, <1>7
<1>10. ASSUME NEW i \in 1 .. Len(q), i < Len(q) PROVE Follows(q[i], q[i + 1])
  <2>1. CASE p.data
    <3>1. i \in {1, 2, 3}
      BY <1>6, <1>10, <2>1
    <3>2. QED BY <1>2, <1>6, <2>1, <3>1 DEF Follows
  <2>2. CASE ~p.data
    <3>1. i \in {1, 2}
      BY <1>6, <1>10, <2>2
    <3>2. QED BY <1>2, <1>6, <2>2, <3>1 DEF Follows
  <2>3. QED BY <2>1, <2>2
<1>11. WellFormed(q)
  BY <1>6, <1>8, <1>10 DEF WellFormed, Ending
<1>12. QED BY <1>1, <1>8, <1>9, <1>11

\* shell_close's steps.
LEMMA ShellCloseSteps ==
    /\ WellFormed(ShellClose) /\ ShellClose # <<>> /\ Len(ShellClose) = 5
    /\ ShellClose[1].op = "lock" /\ ShellClose[5].op = "close"
<1> DEFINE q == ShellClose
<1>1. q \in Seq(AdbdSteps) /\ Len(q) = 5
      /\ q[1].op = "lock" /\ q[2].op = "cancel" /\ q[3].op = "unlock" /\ q[4].op = "join" /\ q[5].op = "close"
  BY DEF ShellClose, AdbdSteps, Step, Calls
<1> HIDE DEF q
<1>2. ASSUME NEW i \in 1 .. Len(q), i < Len(q) PROVE Follows(q[i], q[i + 1])
  <2>1. i \in {1, 2, 3, 4}
    BY <1>1, <1>2
  <2>2. QED BY <1>1, <2>1 DEF Follows
<1>3. q # <<>>
  BY DEF q, ShellClose
<1>4. WellFormed(q)
  BY <1>1, <1>2, <1>3 DEF WellFormed, Ending
<1>5. QED BY <1>1, <1>3, <1>4 DEF q

LEMMA OneStepWellFormed ==
    ASSUME NEW s \in AdbdSteps, s.op \in Ending
    PROVE  WellFormed(<<s>>) /\ <<s>> # <<>> /\ Len(<<s>>) = 1 /\ <<s>>[1] = s
<1>1. <<s>> \in Seq(AdbdSteps) /\ Len(<<s>>) = 1 /\ <<s>>[1] = s /\ <<s>> # <<>>
  OBVIOUS
<1>2. \A i \in 1 .. Len(<<s>>) : ~(i < Len(<<s>>))
  BY <1>1
<1>3. QED BY <1>1, <1>2 DEF WellFormed

LEMMA NothingWellFormed == WellFormed(<<>>)
<1>1. <<>> \in Seq(AdbdSteps) /\ Len(<<>>) = 0
  BY EmptySeq
<1>2. \A i \in 1 .. Len(<<>>) : FALSE
  BY <1>1
<1>3. QED BY <1>1, <1>2 DEF WellFormed

\* Packets that the two threads make.
LEMMA PacketKnown ==
    ASSUME NEW cmd \in Commands, NEW r \in Nat, NEW d \in BOOLEAN
    PROVE  /\ Packet(cmd, r, d) \in AdbdPackets /\ Packet(cmd, r, d).to = r
BY DEF Packet, AdbdPackets

\* What handle_packet does is well formed; it creates a login only without one.
LEMMA HandlePacketSteps ==
    ASSUME NEW cmd \in Commands, NEW r \in REMOTES
    PROVE  LET q == HandlePacket(cmd, r)
           IN /\ WellFormed(q)
              /\ q # <<>> => Head(q).op = "lock" \/ (Head(q).op = "create" /\ shell = NoShell)
<1> DEFINE q == HandlePacket(cmd, r)
<1>1. /\ r \in Nat /\ TRUE \in BOOLEAN /\ FALSE \in BOOLEAN /\ 0 \in Nat
      /\ {"SYNC", "CNXN", "OKAY", "CLSE"} \subseteq Commands
  BY StreamNumbers DEF Commands
<1> DEFINE Locked(x) == WellFormed(x) /\ x # <<>> /\ Head(x).op = "lock"
<1>2. ASSUME NEW c \in Commands, NEW n \in Nat, NEW d \in BOOLEAN
      PROVE  Locked(SendPacket(Packet(c, n, d)))
  <2> DEFINE p == Packet(c, n, d)
  <2>4. p \in AdbdPackets
    BY PacketKnown
  <2> HIDE DEF p
  <2>1. WellFormed(SendPacket(p)) /\ SendPacket(p) # <<>> /\ SendPacket(p)[1].op = "lock"
    BY <2>4, SendPacketSteps
  <2>2. Head(SendPacket(p)) = SendPacket(p)[1]
    BY <2>1, RestWellFormed
  <2>3. QED BY <2>1, <2>2 DEF p
<1>3. Locked(ShellClose)
  <2>1. Head(ShellClose) = ShellClose[1]
    BY ShellCloseSteps, RestWellFormed
  <2>2. QED BY <2>1, ShellCloseSteps
<1>4. CASE cmd = "SYNC"
  <2>1. q = SendPacket(Packet("SYNC", 0, FALSE))
    BY <1>4 DEF HandlePacket
  <2>2. QED BY <1>1, <1>2, <2>1
<1>5. CASE cmd = "CNXN"
  <2> DEFINE p == SendPacket(Packet("CNXN", 0, TRUE))
  <2>1. q = p \o (IF shell # NoShell THEN ShellClose ELSE <<>>)
    BY <1>5 DEF HandlePacket
  <2>2. Packet("CNXN", 0, TRUE) \in AdbdPackets
    BY <1>1, PacketKnown
  <2>3. Locked(p) /\ p[1].op = "lock" /\ p[Len(p)].op = "unlock"
    BY <1>1, <1>2, <2>2, SendPacketSteps
  <2> HIDE DEF p
  <2>4. CASE shell = NoShell
    <3>1. q = p
      BY <2>1, <2>3, <2>4, ConcatEmptySeq DEF WellFormed
    <3>2. QED BY <2>3, <3>1
  <2>5. CASE shell # NoShell
    <3>1. Follows(p[Len(p)], ShellClose[1])
      BY <2>3, ShellCloseSteps DEF Follows
    <3>2. QED BY <2>1, <2>3, <2>5, <3>1, ShellCloseSteps, JoinedWellFormed
  <2>6. QED BY <2>4, <2>5
<1>6. CASE cmd = "OPEN"
  <2>1. CASE shell # NoShell
    <3>1. q = SendPacket(Packet("CLSE", r, FALSE))
      BY <1>6, <2>1 DEF HandlePacket, ShellOpen
    <3>2. QED BY <1>1, <1>2, <3>1
  <2>2. CASE shell = NoShell
    <3> DEFINE c == [op |-> "create", remote |-> r]
               p == SendPacket(Packet("OKAY", r, FALSE))
    <3>1. q = <<c>> \o p
      BY <1>6, <2>2 DEF HandlePacket, ShellOpen
    <3>2. c \in AdbdSteps /\ c.op = "create"
      BY DEF AdbdSteps
    <3>3. WellFormed(<<c>>) /\ <<c>> # <<>> /\ Len(<<c>>) = 1 /\ <<c>>[1] = c
      BY <3>2, OneStepWellFormed DEF Ending
    <3>4. Packet("OKAY", r, FALSE) \in AdbdPackets
      BY <1>1, PacketKnown
    <3>5. WellFormed(p) /\ p # <<>> /\ p[1].op = "lock"
      BY <3>4, SendPacketSteps
    <3> HIDE DEF c, p
    <3>6. Follows(<<c>>[Len(<<c>>)], p[1])
      BY <3>2, <3>3, <3>5 DEF Follows
    <3>7. WellFormed(<<c>> \o p) /\ Head(<<c>> \o p) = c
      BY <3>3, <3>5, <3>6, JoinedWellFormed
    <3>8. QED BY <2>2, <3>1, <3>2, <3>7
  <2>3. QED BY <2>1, <2>2
<1>7. CASE cmd = "OPENother"
  <2>1. q = SendPacket(Packet("CLSE", r, FALSE))
    BY <1>7 DEF HandlePacket
  <2>2. QED BY <1>1, <1>2, <2>1
<1>8. CASE cmd = "CLSE"
  <2>1. q = IF shell # NoShell THEN ShellClose ELSE <<>>
    BY <1>8 DEF HandlePacket
  <2>2. QED BY <1>3, <2>1, NothingWellFormed
<1>9. CASE cmd = "WRTE"
  <2>1. q = SendPacket(Packet(IF shell # NoShell THEN "OKAY" ELSE "CLSE", r, FALSE))
    BY <1>9 DEF HandlePacket, ShellWrite
  <2>2. QED BY <1>1, <1>2, <2>1
<1>10. CASE cmd = "OKAY"
  <2>1. q = <<>>
    BY <1>10 DEF HandlePacket
  <2>2. QED BY <2>1, NothingWellFormed
<1>11. QED
  BY <1>4, <1>5, <1>6, <1>7, <1>8, <1>9, <1>10 DEF Commands

LEMMA AdbdInitInv == AdbdInit => AdbdInv
<1> SUFFICES ASSUME AdbdInit PROVE AdbdInv
  OBVIOUS
<1>1. todo = <<>> /\ reader = Gone /\ mutex = Free /\ shell = NoShell /\ link = TRUE /\ canceled = FALSE
      /\ wire = [expects |-> "header", broken |-> FALSE, strays |-> FALSE]
  BY DEF AdbdInit
<1>2. ~Inside(todo) /\ ~Inside(reader) /\ ~Midway(todo) /\ ~Midway(reader)
  BY <1>1 DEF Inside, Midway, Gone, Step
<1>3. AdbdTypeOK
  BY <1>1, NothingWellFormed DEF AdbdTypeOK, NoShell, Free
<1>4. Excluded /\ ReaderOfShell /\ ReaderJoined /\ Framed /\ StreamsSound
  BY <1>1, <1>2 DEF Excluded, ReaderOfShell, ReaderJoined, Framed, StreamsSound, PacketsWhole, OutputToOwner, Free
<1>5. QED BY <1>3, <1>4 DEF AdbdInv

\* The next step of the main thread changes, nothing else.
LEMMA MainTakes ==
    ASSUME AdbdInv, todo = <<>>, WellFormed(todo'),
           todo' # <<>> => \/ Head(todo').op = "lock"
                           \/ Head(todo').op \in {"create", "reopen"} /\ reader = Gone,
           UNCHANGED <<reader, canceled, mutex, shell, link, wire>>
    PROVE  AdbdInv'
<1>1. ~Inside(todo) /\ ~Inside(todo') /\ ~Midway(todo) /\ ~Midway(todo')
  BY DEF Inside, Midway
<1>2. AdbdTypeOK'
  BY DEF AdbdInv, AdbdTypeOK
<1>3. Excluded' /\ ReaderJoined'
  BY <1>1 DEF AdbdInv, Excluded, ReaderJoined, Inside
<1>4. ReaderOfShell'
  BY DEF AdbdInv, ReaderOfShell
<1>5. Framed'
  BY <1>1 DEF AdbdInv, Framed, Midway
<1>6. StreamsSound'
  BY DEF AdbdInv, StreamsSound, PacketsWhole, OutputToOwner
<1>7. QED BY <1>2, <1>3, <1>4, <1>5, <1>6 DEF AdbdInv

LEMMA ReadPacketStep == AdbdInv /\ ReadPacket => AdbdInv'
<1> SUFFICES ASSUME AdbdInv, ReadPacket PROVE AdbdInv'
  OBVIOUS
<1>1. PICK cmd \in Commands : \E r \in REMOTES : todo' = HandlePacket(cmd, r)
  BY DEF ReadPacket
<1>2. PICK r \in REMOTES : todo' = HandlePacket(cmd, r)
  BY <1>1
<1>3. /\ WellFormed(todo')
      /\ todo' # <<>> => Head(todo').op = "lock" \/ (Head(todo').op = "create" /\ shell = NoShell)
  BY <1>2, HandlePacketSteps
<1>4. shell = NoShell => reader = Gone
  BY DEF AdbdInv, ReaderOfShell, NoShell
<1>5. todo = <<>> /\ UNCHANGED <<reader, canceled, mutex, shell, link, wire>>
  BY DEF ReadPacket
<1>6. QED BY <1>3, <1>4, <1>5, MainTakes

LEMMA ReadFailsStep == AdbdInv /\ ReadFails => AdbdInv'
<1> SUFFICES ASSUME AdbdInv, ReadFails PROVE AdbdInv'
  OBVIOUS
<1>1. todo = <<>> /\ todo' = Reopen /\ UNCHANGED <<reader, canceled, mutex, shell, link, wire>>
  BY DEF ReadFails
<1> DEFINE s == [op |-> "reopen"]
<1>2. s \in AdbdSteps /\ s.op \in Ending /\ s.op = "reopen"
  BY DEF AdbdSteps, Calls, Ending
<1>3. todo' = (IF shell # NoShell THEN ShellClose ELSE <<>>) \o <<s>>
  BY <1>1 DEF Reopen, Step
<1> HIDE DEF s
<1>4. WellFormed(<<s>>) /\ <<s>> # <<>> /\ Len(<<s>>) = 1 /\ <<s>>[1] = s
  BY <1>2, OneStepWellFormed
<1>5. CASE shell = NoShell
  <2>1. todo' = <<s>>
    BY <1>3, <1>4, <1>5, ConcatEmptySeq DEF WellFormed
  <2>2. Head(todo') = s /\ reader = Gone
    BY <1>5, <2>1 DEF AdbdInv, ReaderOfShell, NoShell
  <2>3. QED BY <1>1, <1>2, <1>4, <2>1, <2>2, MainTakes
<1>6. CASE shell # NoShell
  <2>1. todo' = ShellClose \o <<s>>
    BY <1>3, <1>6
  <2>2. Follows(ShellClose[Len(ShellClose)], <<s>>[1])
    BY <1>2, <1>4, ShellCloseSteps DEF Follows
  <2>3. WellFormed(todo') /\ Head(todo').op = "lock"
    BY <1>4, <2>1, <2>2, ShellCloseSteps, JoinedWellFormed
  <2>4. QED BY <1>1, <2>3, MainTakes
<1>7. QED BY <1>5, <1>6

LEMMA LinkErrorStep == AdbdInv /\ LinkError => AdbdInv'
<1> SUFFICES ASSUME AdbdInv, LinkError PROVE AdbdInv'
  OBVIOUS
<1>1. link' = FALSE /\ UNCHANGED <<todo, reader, canceled, mutex, shell, wire>>
  BY DEF LinkError
<1>2. AdbdTypeOK' /\ Excluded'
  BY <1>1 DEF AdbdInv, AdbdTypeOK, Excluded, Inside
<1>3. ReaderOfShell' /\ ReaderJoined' /\ Framed' /\ StreamsSound'
  BY <1>1 DEF AdbdInv, ReaderOfShell, ReaderJoined, Framed, StreamsSound, PacketsWhole, OutputToOwner
<1>4. QED BY <1>2, <1>3 DEF AdbdInv

\* A step of a thread is known by its call.
LEMMA StepShape ==
    ASSUME NEW s \in AdbdSteps
    PROVE  /\ s.op \in Calls \union {"header", "data", "create"}
           /\ s.op \in {"header", "data"} => s = [op |-> s.op, packet |-> s.packet] /\ s.packet \in AdbdPackets
           /\ s.op = "create" => s.remote \in REMOTES
BY DEF AdbdSteps, Calls

\* The mutex and the framing over a step of either thread that sends: q is its
\* steps, other the other thread's.
LEMMA SendsStep ==
    ASSUME AdbdInv, NEW q, NEW other, NEW who \in {"main", "reader"}, WellFormed(q), q # <<>>,
           Sends(Head(q), who),
           mutex = who <=> Inside(q),
           NEW them \in {"main", "reader"} \ {who}, mutex = them <=> Inside(other),
           link => /\ Midway(q) \/ Midway(other) => wire.expects = "data"
                   /\ wire.expects = "data" => Midway(q) \/ Midway(other) \/ mutex = "lost",
           who = "reader" => (Head(q).op \in {"header", "data"} => Head(q).packet.to = shell.remote)
    PROVE  /\ mutex' = who <=> Inside(Tail(q))
           /\ mutex' = them <=> Inside(other)
           /\ mutex' \in {Free, "main", "reader", "lost"}
           /\ link => /\ Midway(Tail(q)) \/ Midway(other) => wire'.expects = "data"
                      /\ wire'.expects = "data" => Midway(Tail(q)) \/ Midway(other) \/ mutex' = "lost"
           /\ wire' \in [expects : {"header", "data"}, broken : BOOLEAN, strays : BOOLEAN]
           /\ ~wire'.broken /\ ~wire'.strays
           /\ Tail(q) # <<>> => Head(Tail(q)).op \notin {"create", "close", "reopen"}
<1> DEFINE s == Head(q)
           n == Head(Tail(q))
<1>1. /\ s \in AdbdSteps /\ WellFormed(Tail(q))
      /\ Tail(q) # <<>> => Follows(s, n)
      /\ s.op \notin Ending => Tail(q) # <<>>
  BY RestWellFormed
<1>2. /\ wire \in [expects : {"header", "data"}, broken : BOOLEAN, strays : BOOLEAN]
      /\ ~wire.broken /\ ~wire.strays /\ mutex \in {Free, "main", "reader", "lost"} /\ link \in BOOLEAN
  BY DEF AdbdInv, AdbdTypeOK, StreamsSound, PacketsWhole, OutputToOwner
<1>3. /\ Inside(q) <=> s.op \in {"header", "data", "cancel", "unlock"}
      /\ Inside(Tail(q)) <=> Tail(q) # <<>> /\ n.op \in {"header", "data", "cancel", "unlock"}
      /\ Midway(q) <=> s.op = "data"
      /\ Midway(Tail(q)) <=> Tail(q) # <<>> /\ n.op = "data"
      /\ Midway(other) => Inside(other)
  BY DEF Inside, Midway
<1>4. s.op \in {"header", "data"} => s = [op |-> s.op, packet |-> s.packet] /\ s.packet \in AdbdPackets
  BY <1>1, StepShape
<1>5. who # Free /\ them # Free /\ who # them /\ who # "lost" /\ them # "lost"
  BY DEF Free
<1> HIDE DEF s, n
<1>6. CASE s.op = "lock" /\ mutex = Free /\ mutex' = who /\ UNCHANGED wire
  <2>1. Tail(q) # <<>> /\ n.op \in {"header", "cancel"}
    BY <1>1, <1>6 DEF Follows, Ending
  <2>2. QED BY <1>2, <1>3, <1>5, <1>6, <2>1 DEF n, Free
<1>7. CASE s.op = "unlock" /\ mutex' = Free /\ UNCHANGED wire
  <2>1. Tail(q) # <<>> => n.op \in {"lock", "join", "return"}
    BY <1>1, <1>7 DEF Follows
  <2>2. mutex = who
    BY <1>3, <1>7
  <2>3. QED BY <1>2, <1>3, <1>5, <1>7, <2>1, <2>2 DEF n, Free
<1>8. CASE s.op \in {"header", "data"} /\ wire' = Written(s, who) /\ UNCHANGED mutex
  <2>1. mutex = who /\ ~Midway(other)
    BY <1>3, <1>5, <1>8
  <2>2. Tail(q) # <<>>
    BY <1>1, <1>8 DEF Ending
  <2>3. s.op = "data" => n.op = "unlock"
    BY <1>1, <2>2 DEF Follows
  <2>4. s.op = "header" => n.op = IF s.packet.data THEN "data" ELSE "unlock"
    BY <1>1, <2>2 DEF Follows, Payload
  <2>5. Inside(Tail(q)) /\ (Midway(Tail(q)) <=> s.op = "header" /\ s.packet.data)
    BY <1>3, <1>8, <2>2, <2>3, <2>4
  <2>6. CASE ~link
    <3>1. wire' = wire
      BY <1>8, <2>6 DEF Written
    <3>2. QED BY <1>2, <1>3, <1>5, <1>8, <2>1, <2>2, <2>3, <2>4, <2>5, <2>6, <3>1 DEF n
  <2>7. CASE link
    <3>1. wire.expects = s.op
      BY <1>2, <1>3, <1>5, <1>8, <2>1, <2>7
    <3>2. wire' = [expects |-> IF s.op = "header" /\ s.packet.data THEN "data" ELSE "header",
                   broken |-> wire.broken \/ wire.expects # s.op,
                   strays |-> wire.strays \/ (who = "reader" /\ s.packet.to # shell.remote)]
      BY <1>8, <2>7 DEF Written
    <3>3. ~(who = "reader" /\ s.packet.to # shell.remote)
      BY <1>8 DEF s
    <3>4. wire' = [expects |-> IF s.op = "header" /\ s.packet.data THEN "data" ELSE "header",
                   broken |-> FALSE, strays |-> FALSE]
      BY <1>2, <3>1, <3>2, <3>3
    <3>5. wire'.expects = (IF s.op = "header" /\ s.packet.data THEN "data" ELSE "header")
          /\ ~wire'.broken /\ ~wire'.strays
          /\ wire' \in [expects : {"header", "data"}, broken : BOOLEAN, strays : BOOLEAN]
      BY <3>4
    <3>6. QED BY <1>2, <1>3, <1>5, <1>8, <2>1, <2>2, <2>3, <2>4, <2>5, <3>5 DEF n
  <2>8. QED BY <1>2, <2>6, <2>7
<1>9. QED
  BY <1>6, <1>7, <1>8 DEF Sends, s

LEMMA MainSendsStep == AdbdInv /\ MainSends => AdbdInv'
<1> SUFFICES ASSUME AdbdInv, MainSends PROVE AdbdInv'
  OBVIOUS
<1>1. /\ todo # <<>> /\ Sends(Head(todo), "main") /\ todo' = Tail(todo)
      /\ UNCHANGED <<reader, canceled, shell, link>> /\ WellFormed(todo)
  BY DEF MainSends, AdbdInv, AdbdTypeOK
<1>2. /\ mutex' = "main" <=> Inside(todo')
      /\ mutex' = "reader" <=> Inside(reader)
      /\ mutex' \in {Free, "main", "reader", "lost"}
      /\ link => /\ Midway(todo') \/ Midway(reader) => wire'.expects = "data"
                 /\ wire'.expects = "data" => Midway(todo') \/ Midway(reader) \/ mutex' = "lost"
      /\ wire' \in [expects : {"header", "data"}, broken : BOOLEAN, strays : BOOLEAN]
      /\ ~wire'.broken /\ ~wire'.strays
      /\ todo' # <<>> => Head(todo').op \notin {"create", "close", "reopen"}
  BY <1>1, SendsStep DEF AdbdInv, Excluded, Framed
<1>3. WellFormed(todo')
  BY <1>1, RestWellFormed
<1>4. AdbdTypeOK'
  BY <1>1, <1>2, <1>3 DEF AdbdInv, AdbdTypeOK
<1>5. Excluded' /\ ReaderJoined'
  BY <1>1, <1>2 DEF Excluded, ReaderJoined, Inside
<1>6. ReaderOfShell'
  BY <1>1 DEF AdbdInv, ReaderOfShell
<1>7. Framed' /\ StreamsSound'
  BY <1>1, <1>2 DEF Framed, StreamsSound, PacketsWhole, OutputToOwner, Midway
<1>8. QED BY <1>4, <1>5, <1>6, <1>7 DEF AdbdInv

LEMMA ReaderSendsStep == AdbdInv /\ ReaderSends => AdbdInv'
<1> SUFFICES ASSUME AdbdInv, ReaderSends PROVE AdbdInv'
  OBVIOUS
<1>1. /\ reader # <<>> /\ reader # Gone /\ Sends(Head(reader), "reader") /\ reader' = Tail(reader)
      /\ UNCHANGED <<todo, canceled, shell, link>> /\ WellFormed(reader)
  BY DEF ReaderSends, AdbdInv, AdbdTypeOK
<1>2. Head(reader) = reader[1] /\ 1 \in 1 .. Len(reader) /\ WellFormed(reader')
      /\ \A i \in 1 .. Len(reader') : i + 1 \in 1 .. Len(reader) /\ reader'[i] = reader[i + 1]
  BY <1>1, RestWellFormed
<1>3. Head(reader).op \in {"header", "data"} => Head(reader).packet.to = shell.remote
  BY <1>1, <1>2 DEF AdbdInv, ReaderOfShell
<1>4. /\ mutex' = "reader" <=> Inside(reader')
      /\ mutex' = "main" <=> Inside(todo)
      /\ mutex' \in {Free, "main", "reader", "lost"}
      /\ link => /\ Midway(reader') \/ Midway(todo) => wire'.expects = "data"
                 /\ wire'.expects = "data" => Midway(reader') \/ Midway(todo) \/ mutex' = "lost"
      /\ wire' \in [expects : {"header", "data"}, broken : BOOLEAN, strays : BOOLEAN]
      /\ ~wire'.broken /\ ~wire'.strays
  BY <1>1, <1>3, SendsStep DEF AdbdInv, Excluded, Framed
<1>5. AdbdTypeOK'
  BY <1>1, <1>2, <1>4 DEF AdbdInv, AdbdTypeOK
<1>6. Excluded' /\ ReaderJoined'
  BY <1>1, <1>4 DEF AdbdInv, Excluded, ReaderJoined, Inside
<1>7. ReaderOfShell'
  BY <1>1, <1>2 DEF AdbdInv, ReaderOfShell
<1>8. Framed' /\ StreamsSound'
  BY <1>1, <1>4 DEF Framed, StreamsSound, PacketsWhole, OutputToOwner, Midway
<1>9. QED BY <1>5, <1>6, <1>7, <1>8 DEF AdbdInv

\* The login is forked and its reader started, or the host is told.
LEMMA CreateStep == AdbdInv /\ Create => AdbdInv'
<1> SUFFICES ASSUME AdbdInv, Create PROVE AdbdInv'
  OBVIOUS
<1>1. /\ todo # <<>> /\ Head(todo).op = "create" /\ canceled' = FALSE
      /\ UNCHANGED <<mutex, link, wire>>
  BY DEF Create
<1>2. /\ WellFormed(todo) /\ Head(todo) \in AdbdSteps /\ WellFormed(Tail(todo))
      /\ Tail(todo) # <<>> => Head(Tail(todo)).op = "lock"
  BY <1>1, RestWellFormed DEF AdbdInv, AdbdTypeOK, Follows
<1>3. Head(todo).remote \in Nat \ {0}
  BY <1>1, <1>2, StepShape, StreamNumbers
<1>4. reader = Gone /\ ~Inside(todo) /\ ~Midway(todo) /\ ~Inside(reader) /\ ~Midway(reader)
  BY <1>1 DEF AdbdInv, ReaderJoined, Inside, Midway, Gone, Step
<1>5. WellFormed(todo') /\ (todo' # <<>> => Head(todo').op = "lock")
      /\ shell' \in [remote : Nat, output : Nat]
      /\ \/ reader' = <<>> /\ shell'.remote # 0
         \/ reader' = Gone /\ shell' = shell
  <2>1. CASE /\ shell' = [remote |-> Head(todo).remote, output |-> MAX_OUTPUT]
             /\ reader' = <<>> /\ todo' = Tail(todo)
    BY <1>2, <1>3, <2>1, StreamNumbers
  <2>2. CASE todo' = SendPacket(Packet("CLSE", Head(todo).remote, FALSE)) /\ UNCHANGED <<shell, reader>>
    <3>1. Packet("CLSE", Head(todo).remote, FALSE) \in AdbdPackets
      BY <1>3, PacketKnown DEF Commands
    <3>2. WellFormed(todo') /\ todo' # <<>> /\ todo'[1].op = "lock"
      BY <2>2, <3>1, SendPacketSteps
    <3>3. Head(todo') = todo'[1]
      BY <3>2, RestWellFormed
    <3>4. shell \in [remote : Nat, output : Nat]
      BY DEF AdbdInv, AdbdTypeOK
    <3>5. QED BY <1>4, <2>2, <3>2, <3>3, <3>4
  <2>3. QED BY <2>1, <2>2 DEF Create
<1>6. ~Inside(todo') /\ ~Midway(todo') /\ ~Inside(reader') /\ ~Midway(reader')
  BY <1>5 DEF Inside, Midway, Gone, Step
<1>7. AdbdTypeOK'
  BY <1>1, <1>5, NothingWellFormed DEF AdbdInv, AdbdTypeOK
<1>8. Excluded' /\ Framed' /\ StreamsSound'
  BY <1>1, <1>4, <1>6 DEF AdbdInv, Excluded, Framed, StreamsSound, PacketsWhole, OutputToOwner
<1>9. ReaderOfShell'
  <2>1. CASE reader' = Gone
    BY <2>1 DEF ReaderOfShell
  <2>2. CASE reader' = <<>> /\ shell'.remote # 0
    <3>1. \A i \in 1 .. Len(reader') : FALSE
      BY <2>2, EmptySeq
    <3>2. QED BY <2>2, <3>1 DEF ReaderOfShell
  <2>3. QED BY <1>5, <2>1, <2>2
<1>10. ReaderJoined'
  BY <1>5 DEF ReaderJoined
<1>11. QED BY <1>7, <1>8, <1>9, <1>10 DEF AdbdInv

LEMMA CancelStep == AdbdInv /\ Cancel => AdbdInv'
<1> SUFFICES ASSUME AdbdInv, Cancel PROVE AdbdInv'
  OBVIOUS
<1>1. /\ todo # <<>> /\ Head(todo).op = "cancel" /\ canceled' = TRUE /\ todo' = Tail(todo)
      /\ UNCHANGED <<reader, mutex, shell, link, wire>>
  BY DEF Cancel
<1>2. WellFormed(todo') /\ todo' # <<>> /\ Head(todo').op = "unlock"
  BY <1>1, RestWellFormed DEF AdbdInv, AdbdTypeOK, Follows, Ending
<1>3. Inside(todo) /\ Inside(todo') /\ ~Midway(todo) /\ ~Midway(todo')
  BY <1>1, <1>2 DEF Inside, Midway
<1>4. AdbdTypeOK'
  BY <1>1, <1>2 DEF AdbdInv, AdbdTypeOK
<1>5. Excluded' /\ Framed' /\ StreamsSound'
  BY <1>1, <1>3 DEF AdbdInv, Excluded, Framed, StreamsSound, PacketsWhole, OutputToOwner, Inside, Midway
<1>6. ReaderOfShell' /\ ReaderJoined'
  BY <1>1, <1>2 DEF AdbdInv, ReaderOfShell, ReaderJoined
<1>7. QED BY <1>4, <1>5, <1>6 DEF AdbdInv

\* join: the reader is gone from here on.
LEMMA JoinStep == AdbdInv /\ Join => AdbdInv'
<1> SUFFICES ASSUME AdbdInv, Join PROVE AdbdInv'
  OBVIOUS
<1>1. /\ todo # <<>> /\ Head(todo).op = "join" /\ reader = Gone /\ todo' = Tail(todo)
      /\ UNCHANGED <<reader, canceled, mutex, shell, link, wire>>
  BY DEF Join
<1>2. WellFormed(todo') /\ todo' # <<>> /\ Head(todo').op = "close"
  BY <1>1, RestWellFormed DEF AdbdInv, AdbdTypeOK, Follows, Ending
<1>3. ~Inside(todo) /\ ~Inside(todo') /\ ~Midway(todo) /\ ~Midway(todo')
  BY <1>1, <1>2 DEF Inside, Midway
<1>4. AdbdTypeOK'
  BY <1>1, <1>2 DEF AdbdInv, AdbdTypeOK
<1>5. Excluded' /\ Framed' /\ StreamsSound'
  BY <1>1, <1>3 DEF AdbdInv, Excluded, Framed, StreamsSound, PacketsWhole, OutputToOwner, Inside, Midway
<1>6. ReaderOfShell' /\ ReaderJoined'
  BY <1>1, <1>2 DEF AdbdInv, ReaderOfShell, ReaderJoined
<1>7. QED BY <1>4, <1>5, <1>6 DEF AdbdInv

LEMMA CloseStep == AdbdInv /\ Close => AdbdInv'
<1> SUFFICES ASSUME AdbdInv, Close PROVE AdbdInv'
  OBVIOUS
<1>1. /\ todo # <<>> /\ Head(todo).op = "close" /\ shell' = NoShell /\ todo' = Tail(todo)
      /\ UNCHANGED <<reader, canceled, mutex, link, wire>>
  BY DEF Close
<1>2. WellFormed(todo') /\ (todo' # <<>> => Head(todo').op = "reopen")
  BY <1>1, RestWellFormed DEF AdbdInv, AdbdTypeOK, Follows
<1>3. reader = Gone
  BY <1>1 DEF AdbdInv, ReaderJoined
<1>4. ~Inside(todo) /\ ~Inside(todo') /\ ~Midway(todo) /\ ~Midway(todo')
  BY <1>1, <1>2 DEF Inside, Midway
<1>5. AdbdTypeOK'
  BY <1>1, <1>2 DEF AdbdInv, AdbdTypeOK, NoShell
<1>6. Excluded' /\ Framed' /\ StreamsSound'
  BY <1>1, <1>4 DEF AdbdInv, Excluded, Framed, StreamsSound, PacketsWhole, OutputToOwner, Inside, Midway
<1>7. ReaderOfShell' /\ ReaderJoined'
  BY <1>1, <1>3 DEF AdbdInv, ReaderOfShell, ReaderJoined
<1>8. QED BY <1>5, <1>6, <1>7 DEF AdbdInv

\* The channel is opened again: no thread is within a packet.
LEMMA OpenChannelStep == AdbdInv /\ OpenChannel => AdbdInv'
<1> SUFFICES ASSUME AdbdInv, OpenChannel PROVE AdbdInv'
  OBVIOUS
<1>1. /\ todo # <<>> /\ Head(todo).op = "reopen" /\ link' = TRUE /\ todo' = Tail(todo)
      /\ wire' = [wire EXCEPT !.expects = "header"]
      /\ UNCHANGED <<reader, canceled, mutex, shell>>
  BY DEF OpenChannel
<1>2. WellFormed(todo') /\ todo' = <<>>
  BY <1>1, RestWellFormed DEF AdbdInv, AdbdTypeOK, Follows
<1>3. reader = Gone
  BY <1>1 DEF AdbdInv, ReaderJoined
<1>4. ~Inside(todo) /\ ~Inside(todo') /\ ~Midway(todo') /\ ~Midway(reader)
  BY <1>1, <1>2, <1>3 DEF Inside, Midway, Gone, Step
<1>5. /\ wire' \in [expects : {"header", "data"}, broken : BOOLEAN, strays : BOOLEAN]
      /\ wire'.expects = "header" /\ wire'.broken = wire.broken /\ wire'.strays = wire.strays
  BY <1>1 DEF AdbdInv, AdbdTypeOK
<1>6. AdbdTypeOK'
  BY <1>1, <1>2, <1>5 DEF AdbdInv, AdbdTypeOK
<1>7. Excluded' /\ Framed' /\ StreamsSound'
  BY <1>1, <1>4, <1>5 DEF AdbdInv, Excluded, Framed, StreamsSound, PacketsWhole, OutputToOwner, Inside, Midway
<1>8. ReaderOfShell' /\ ReaderJoined'
  BY <1>1, <1>2 DEF AdbdInv, ReaderOfShell, ReaderJoined
<1>9. QED BY <1>6, <1>7, <1>8 DEF AdbdInv

\* A piece of output, or the end of the login, for the stream of the login.
LEMMA ShellReadStep == AdbdInv /\ ShellRead => AdbdInv'
<1> SUFFICES ASSUME AdbdInv, ShellRead PROVE AdbdInv'
  OBVIOUS
<1>1. reader = <<>> /\ UNCHANGED <<todo, canceled, mutex, link, wire>>
  BY DEF ShellRead
<1>2. reader # Gone /\ shell.remote \in Nat \ {0} /\ shell.output \in Nat
      /\ ~Inside(reader) /\ ~Midway(reader)
  BY <1>1 DEF AdbdInv, AdbdTypeOK, ReaderOfShell, Gone, Inside, Midway
<1>3. /\ WellFormed(reader') /\ reader' # <<>> /\ Head(reader').op = "lock"
      /\ shell' \in [remote : Nat, output : Nat] /\ shell'.remote = shell.remote
      /\ \A i \in 1 .. Len(reader') :
             /\ reader'[i].op \in {"lock", "header", "data", "unlock", "return"}
             /\ reader'[i].op \in {"header", "data"} => reader'[i].packet.to = shell.remote
  <2>1. CASE /\ shell.output > 0
             /\ reader' = SendPacket(Packet("WRTE", shell.remote, TRUE))
             /\ shell' = [shell EXCEPT !.output = @ - 1]
    <3> DEFINE p == Packet("WRTE", shell.remote, TRUE)
    <3>1. p \in AdbdPackets /\ p.to = shell.remote
      BY <1>2, PacketKnown DEF Commands
    <3>2. reader' = SendPacket(p)
      BY <2>1
    <3> HIDE DEF p
    <3>3. Head(reader') = reader'[1]
      BY <3>1, <3>2, SendPacketSteps, RestWellFormed
    <3>4. shell' \in [remote : Nat, output : Nat] /\ shell'.remote = shell.remote
      BY <1>2, <2>1 DEF AdbdInv, AdbdTypeOK
    <3>5. QED BY <3>1, <3>2, <3>3, <3>4, SendPacketSteps
  <2>2. CASE /\ reader' = SendPacket(Packet("CLSE", shell.remote, FALSE)) \o <<Step("return")>>
             /\ UNCHANGED shell
    <3> DEFINE p == Packet("CLSE", shell.remote, FALSE)
               q == SendPacket(p)
               s == [op |-> "return"]
    <3>1. p \in AdbdPackets /\ p.to = shell.remote
      BY <1>2, PacketKnown DEF Commands
    <3>2. reader' = q \o <<s>>
      BY <2>2 DEF Step
    <3>3. s \in AdbdSteps /\ s.op = "return" /\ s.op \in Ending
      BY DEF AdbdSteps, Calls, Ending
    <3> HIDE DEF s, p
    <3>4. WellFormed(<<s>>) /\ <<s>> # <<>> /\ Len(<<s>>) = 1 /\ <<s>>[1] = s
      BY <3>3, OneStepWellFormed
    <3>5. /\ WellFormed(q) /\ q # <<>> /\ q[1].op = "lock" /\ q[Len(q)].op = "unlock"
          /\ \A i \in 1 .. Len(q) :
                 /\ q[i].op \in {"lock", "header", "data", "unlock"}
                 /\ q[i].op \in {"header", "data"} => q[i].packet = p
      BY <3>1, SendPacketSteps
    <3> HIDE DEF q
    <3>6. Follows(q[Len(q)], <<s>>[1])
      BY <3>3, <3>4, <3>5 DEF Follows
    <3>7. /\ WellFormed(reader') /\ reader' # <<>> /\ Head(reader') = q[1]
          /\ Len(reader') = Len(q) + 1 /\ Len(q) \in Nat
          /\ \A i \in 1 .. Len(q) + 1 : reader'[i] = IF i <= Len(q) THEN q[i] ELSE <<s>>[i - Len(q)]
      BY <3>2, <3>4, <3>5, <3>6, JoinedWellFormed
    <3>8. ASSUME NEW i \in 1 .. Len(reader')
          PROVE  /\ reader'[i].op \in {"lock", "header", "data", "unlock", "return"}
                 /\ reader'[i].op \in {"header", "data"} => reader'[i].packet.to = shell.remote
      <4>1. CASE i <= Len(q)
        BY <3>1, <3>5, <3>7, <4>1
      <4>2. CASE i > Len(q)
        <5>1. i = Len(q) + 1
          BY <3>7, <4>2
        <5>2. QED BY <3>3, <3>4, <3>7, <5>1
      <4>3. QED BY <3>7, <4>1, <4>2
    <3>9. shell' \in [remote : Nat, output : Nat] /\ shell'.remote = shell.remote
      BY <2>2 DEF AdbdInv, AdbdTypeOK
    <3>10. QED BY <3>5, <3>7, <3>8, <3>9
  <2>3. QED BY <2>1, <2>2 DEF ShellRead
<1>4. ~Inside(reader') /\ ~Midway(reader')
  BY <1>3 DEF Inside, Midway
<1>5. AdbdTypeOK'
  BY <1>1, <1>3 DEF AdbdInv, AdbdTypeOK
<1>6. Excluded' /\ Framed' /\ StreamsSound'
  BY <1>1, <1>2, <1>4 DEF AdbdInv, Excluded, Framed, StreamsSound, PacketsWhole, OutputToOwner, Inside, Midway
<1>7. ReaderOfShell'
  BY <1>2, <1>3 DEF ReaderOfShell
<1>8. ReaderJoined'
  BY <1>1, <1>2 DEF AdbdInv, ReaderJoined
<1>9. QED BY <1>5, <1>6, <1>7, <1>8 DEF AdbdInv

\* The thread ends; a mutex it holds is lost.
LEMMA ReaderEndsStep == AdbdInv /\ ReaderEnds => AdbdInv'
<1> SUFFICES ASSUME AdbdInv, ReaderEnds PROVE AdbdInv'
  OBVIOUS
<1>1. /\ reader' = Gone /\ mutex' = (IF mutex = "reader" THEN "lost" ELSE mutex)
      /\ UNCHANGED <<todo, canceled, shell, link, wire>>
  BY DEF ReaderEnds
<1>2. ~Inside(reader') /\ ~Midway(reader')
  BY <1>1 DEF Inside, Midway, Gone, Step
<1>3. Midway(reader) => Inside(reader)
  BY DEF Midway, Inside
<1>4. mutex \in {Free, "main", "reader", "lost"}
  BY DEF AdbdInv, AdbdTypeOK
<1>5. AdbdTypeOK'
  BY <1>1, <1>4 DEF AdbdInv, AdbdTypeOK
<1>6. Excluded' /\ Framed'
  BY <1>1, <1>2, <1>3, <1>4 DEF AdbdInv, Excluded, Framed, Inside, Midway, Free
<1>7. ReaderOfShell' /\ ReaderJoined' /\ StreamsSound'
  BY <1>1 DEF AdbdInv, ReaderOfShell, ReaderJoined, StreamsSound, PacketsWhole, OutputToOwner
<1>8. QED BY <1>5, <1>6, <1>7 DEF AdbdInv

LEMMA AdbdStep == AdbdInv /\ [AdbdNext]_adbdVars => AdbdInv'
<1> SUFFICES ASSUME AdbdInv, [AdbdNext]_adbdVars PROVE AdbdInv'
  OBVIOUS
<1>1. CASE MainNext
  BY <1>1, MainSendsStep, CreateStep, CancelStep, JoinStep, CloseStep, OpenChannelStep, ReadFailsStep DEF MainNext
<1>2. CASE ReaderNext
  BY <1>2, ShellReadStep, ReaderSendsStep, ReaderEndsStep DEF ReaderNext
<1>3. CASE UNCHANGED adbdVars
  <2>1. UNCHANGED <<todo, reader, canceled, mutex, shell, link, wire>>
    BY <1>3 DEF adbdVars
  <2>2. AdbdTypeOK' /\ Excluded' /\ Framed'
    BY <2>1 DEF AdbdInv, AdbdTypeOK, Excluded, Framed, Inside, Midway
  <2>3. ReaderOfShell' /\ ReaderJoined' /\ StreamsSound'
    BY <2>1 DEF AdbdInv, ReaderOfShell, ReaderJoined, StreamsSound, PacketsWhole, OutputToOwner
  <2>4. QED BY <2>2, <2>3 DEF AdbdInv
<1>4. QED
  BY <1>1, <1>2, <1>3, ReadPacketStep, LinkErrorStep DEF AdbdNext

-----------------------------------------------------------------------------
(* The programs together.                                                   *)

\* What the host reads on adbd_emu's channel and at the control endpoint, for every
\* order of its requests, resets, errors of the channel and steps of the two threads:
\* each payload follows its header, output reaches the stream of its login, the device
\* answers at the address of the host with speed and endpoints known, and answers fit.
THEOREM HostReadsWhatWasMeant == Spec => []LinksSound
<1>1. Init => AdbdInv /\ ControlInv
  BY AdbdInitInv, ControlInitInv DEF Init
<1>2. AdbdInv /\ [Next]_vars => AdbdInv'
  <2> SUFFICES ASSUME AdbdInv, [Next]_vars PROVE AdbdInv'
    OBVIOUS
  <2>1. [AdbdNext]_adbdVars
    BY DEF Next, vars, OnlyCharge, OnlyMenu, OnlyAdbd, OnlyMalloc, OnlyControl
  <2>2. QED BY <2>1, AdbdStep
<1>3. ControlInv /\ [Next]_vars => ControlInv'
  <2> SUFFICES ASSUME ControlInv, [Next]_vars PROVE ControlInv'
    OBVIOUS
  <2>1. [ControlNext]_controlVars
    BY DEF Next, vars, OnlyCharge, OnlyMenu, OnlyAdbd, OnlyMalloc, OnlyControl
  <2>2. QED BY <2>1, ControlStep
<1>4. AdbdInv /\ ControlInv => LinksSound
  BY ControlInvSound DEF AdbdInv, LinksSound
<1>5. QED BY <1>1, <1>2, <1>3, <1>4, PTL DEF Spec

-----------------------------------------------------------------------------
(* The detection of the charger.                                            *)

RelExit == {"pmuOff", "restore", "unregister", "stop", "release"}
EnterCalls == {"start", "request", "connect"}
MainCalls == RelExit \union EnterCalls \union {"register", "pmuOn", "load", "short", "long", "insert", "cli", "sti"}

\* The steps that a place of the main program has, and those its calls end with.
CallsAt ==
    [check   |-> {},
     show    |-> {"register", "pmuOn", "load", "short"} \union EnterCalls,
     again   |-> {"register", "pmuOn", "load", "short"},
     standby |-> {"stop", "release"},
     plug    |-> {"load", "insert"},
     plugged |-> EnterCalls,
     asleep  |-> {"cli", "sti"} \union RelExit,
     menu    |-> MainCalls \ {"short", "insert"},
     off     |-> {"register", "pmuOn"} \union RelExit,
     os      |-> RelExit]

Places == DOMAIN CallsAt
LeftPlaces == {"os", "off"}

LastAt(place) ==
    CASE place = "asleep" -> {"sti"}
      [] place \in LeftPlaces -> {"release"}
      [] OTHER -> {"release", "pmuOn", "connect", "short", "insert"}

\* Which step comes after which.
Then ==
    [pmuOff |-> {"restore"}, restore |-> {"unregister"}, unregister |-> {"stop"}, stop |-> {"release"},
     release |-> {"sti", "load"}, start |-> {"request"}, request |-> {"connect"}, connect |-> {"pmuOff"},
     register |-> {"pmuOn"}, pmuOn |-> {"start", "pmuOff"}, load |-> {"short", "long", "insert"},
     short |-> {}, long |-> {"sti"}, insert |-> {}, cli |-> {"pmuOff"}, sti |-> {"register"}]

Has(q, s) == \E i \in 1 .. Len(q) : q[i] = s

\* The calls that the main program still has to make, at its place.
Planned(place, q) ==
    /\ q \in Seq(CallsAt[place])
    /\ \A i \in 1 .. Len(q) : i < Len(q) => q[i + 1] \in Then[q[i]]
    /\ q # <<>> => q[Len(q)] \in LastAt(place)
    /\ \A i, j \in 1 .. Len(q) : q[i] = q[j] => i = j
    /\ \A i \in 1 .. Len(q) : q[i] = "cli" => i = 1 /\ Has(q, "sti")

HeadIs(S) == main.todo # <<>> /\ Head(main.todo) \in S

Masks == [1 .. MASKS -> {"original", "detect", "zero"}]
PowerChip == [on : BOOLEAN, reg : BOOLEAN, failed : BOOLEAN, masks : Masks, saved : Masks]

ChargeTypeOK ==
    /\ main \in [at : Places, todo : Seq(MainCalls), reg : SUBSET Flags, rounds : Nat]
    /\ Planned(main.at, main.todo)
    /\ flags \in SUBSET Flags /\ cpu \in BOOLEAN
    /\ pmu \in PowerChip
    /\ usb \in [on : BOOLEAN, clock : BOOLEAN, irq : BOOLEAN]
    /\ timer \in [handle : TIMERS \union {0}, requested : SUBSET TIMERS, armed : SUBSET TIMERS]
    /\ vbus \in [present : BOOLEAN, recent : BOOLEAN, astray : BOOLEAN]

\* Interrupts are off from cli to sti.
CpuMasked == cpu <=> ~(Has(main.todo, "sti") /\ ~Has(main.todo, "cli"))

\* As long as every write of boot_power_int_disable was made: what is saved are never the
\* masks of the detection, and a mask that has been read is back when the interrupt is
\* given up.
MasksKept ==
    ~pmu.failed =>
        /\ HeadIs({"unregister"}) => pmu.masks = pmu.saved
        /\ \A i \in 1 .. MASKS :
              /\ pmu.saved[i] # "detect"
              /\ ~pmu.reg => /\ pmu.masks[i] # "detect"
                             /\ pmu.saved[i] = "original" => pmu.masks[i] = "original"

\* What the calls of the way out have switched off.
SwitchedOff ==
    /\ HeadIs({"restore", "unregister"}) => ~pmu.on
    /\ HeadIs({"stop", "release"}) /\ main.at # "standby" => ~pmu.on /\ ~pmu.reg
    /\ main.at \in LeftPlaces \union {"asleep"} =>
           /\ HeadIs({"release"}) => usb = DetectOff
           /\ HeadIs({"sti"}) \/ main.todo = <<>> => ~pmu.on /\ ~pmu.reg /\ usb = DetectOff

\* Within usb_detect_exit, or on the way to it after a detection of a plug.
Exiting == (main.at = "plugged" /\ main.todo = <<>>) \/ (main.at = "standby" /\ HeadIs({"stop"}))

\* No detection, no timer; a detection that was answered within usb_detect_enter leaves
\* its timer, but then the plug is still in and usb_detect_exit comes next.
TimerOfDetection ==
    vbus.astray \/ usb.on \/ timer.armed = {} \/ HeadIs({"release"}) \/ (vbus.present /\ Exiting)

\* What is set up half when usb_detect_enter is interrupted.
HalfEntered ==
    HeadIs({"request", "connect"}) =>
        \/ vbus.astray
        \/ /\ timer.armed = {}
           /\ usb.irq \/ ~usb.on => vbus.present /\ main.at = "plugged"

\* Before its first detection the main program has found no power coming in.
BeforeFirst ==
    main.at = "check" \/ (main.at \in {"show", "menu"} /\ Has(main.todo, "start")) =>
        \/ vbus.astray
        \/ usb = DetectOff /\ timer.armed = {} /\ (vbus.present \/ vbus.recent) /\ "pc" \notin flags \union main.reg

\* Without a plug, a USB interrupt that is left on has not seen a PC, and belongs to a
\* detection; the detection of a plug ends with usb_detect_exit.
LeftOn ==
    usb.irq /\ ~vbus.present =>
        \/ vbus.astray \/ Exiting
        \/ /\ usb.on
           /\ ("pc" \notin flags \union main.reg)

RegUsed ==
    /\ main.reg # {} => HeadIs(Flags)
    /\ main.at \in {"show", "menu"} /\ HeadIs(EnterCalls) => vbus.astray \/ "pc" \notin flags

ChargeInv ==
    /\ ChargeTypeOK /\ CpuMasked /\ MasksKept /\ SwitchedOff /\ TimerOfDetection
    /\ HalfEntered /\ BeforeFirst /\ LeftOn /\ RegUsed /\ TimersKnown

LEMMA PlaceCalls ==
    /\ Places = {"check", "show", "again", "standby", "plug", "plugged", "asleep", "menu", "off", "os"}
    /\ CallsAt["check"] = {}
    /\ CallsAt["show"] = {"register", "pmuOn", "load", "short", "start", "request", "connect"}
    /\ CallsAt["again"] = {"register", "pmuOn", "load", "short"}
    /\ CallsAt["standby"] = {"stop", "release"}
    /\ CallsAt["plug"] = {"load", "insert"}
    /\ CallsAt["plugged"] = {"start", "request", "connect"}
    /\ CallsAt["asleep"] = {"cli", "sti", "pmuOff", "restore", "unregister", "stop", "release"}
    /\ CallsAt["menu"] = MainCalls \ {"short", "insert"}
    /\ CallsAt["off"] = {"register", "pmuOn", "pmuOff", "restore", "unregister", "stop", "release"}
    /\ CallsAt["os"] = {"pmuOff", "restore", "unregister", "stop", "release"}
<1>1. Places = {"check", "show", "again", "standby", "plug", "plugged", "asleep", "menu", "off", "os"}
  BY DEF Places, CallsAt
<1>2. /\ CallsAt["check"] = {} /\ CallsAt["again"] = {"register", "pmuOn", "load", "short"}
      /\ CallsAt["show"] = {"register", "pmuOn", "load", "short"} \union EnterCalls
      /\ CallsAt["standby"] = {"stop", "release"} /\ CallsAt["plug"] = {"load", "insert"}
      /\ CallsAt["plugged"] = EnterCalls /\ CallsAt["asleep"] = {"cli", "sti"} \union RelExit
      /\ CallsAt["menu"] = MainCalls \ {"short", "insert"}
      /\ CallsAt["off"] = {"register", "pmuOn"} \union RelExit /\ CallsAt["os"] = RelExit
  BY DEF CallsAt
<1>3. QED BY <1>1, <1>2 DEF EnterCalls, RelExit

LEMMA CallsKnown == \A place \in Places : CallsAt[place] \subseteq MainCalls
BY PlaceCalls DEF MainCalls, RelExit, EnterCalls

LEMMA ThenOf ==
    /\ Then["pmuOff"] = {"restore"} /\ Then["restore"] = {"unregister"} /\ Then["unregister"] = {"stop"}
    /\ Then["stop"] = {"release"} /\ Then["release"] = {"sti", "load"}
    /\ Then["start"] = {"request"} /\ Then["request"] = {"connect"} /\ Then["connect"] = {"pmuOff"}
    /\ Then["register"] = {"pmuOn"} /\ Then["pmuOn"] = {"start", "pmuOff"}
    /\ Then["load"] = {"short", "long", "insert"} /\ Then["short"] = {} /\ Then["long"] = {"sti"}
    /\ Then["insert"] = {} /\ Then["cli"] = {"pmuOff"} /\ Then["sti"] = {"register"}
BY DEF Then

\* What is left after a call's step.
LEMMA PlanRest ==
    ASSUME NEW place \in Places, NEW q, Planned(place, q), q # <<>>
    PROVE  /\ Head(q) \in CallsAt[place] /\ Head(q) \in MainCalls /\ Tail(q) \in Seq(MainCalls)
           /\ Planned(place, Tail(q))
           /\ Tail(q) # <<>> => Head(Tail(q)) \in Then[Head(q)] /\ Head(Tail(q)) \in CallsAt[place]
           /\ Head(q) \notin LastAt(place) => Tail(q) # <<>>
           /\ \A s : Has(q, s) <=> s = Head(q) \/ Has(Tail(q), s)
           /\ ~Has(Tail(q), Head(q)) /\ ~Has(Tail(q), "cli")
           /\ Head(q) = "cli" => Has(q, "sti")
           /\ Head(q) \notin Then[Head(q)]
<1> DEFINE t == Tail(q)
<1>1. /\ q \in Seq(CallsAt[place]) /\ Head(q) \in CallsAt[place] /\ t \in Seq(CallsAt[place])
      /\ Len(t) = Len(q) - 1 /\ \A i \in 1 .. Len(t) : t[i] = q[i + 1]
  BY HeadTailProperties DEF Planned
<1>2. Len(q) \in Nat \ {0} /\ Len(t) \in Nat /\ 1 \in 1 .. Len(q)
  BY <1>1, EmptySeq, LenProperties
<1>3. Head(q) = q[1]
  OBVIOUS
<1>4. t # <<>> => Len(t) \in Nat \ {0} /\ Head(t) = t[1] /\ Head(t) \in CallsAt[place]
  BY <1>1, EmptySeq, HeadTailProperties
<1>5. t = <<>> => Len(t) = 0
  BY EmptySeq
<1>6. Head(q) \in MainCalls /\ t \in Seq(MainCalls)
  BY <1>1, CallsKnown, SeqMonotonic
<1> HIDE DEF t
<1>7. t # <<>> => Head(t) \in Then[Head(q)]
  <2>1. t # <<>> => 1 < Len(q) /\ Head(t) = q[1 + 1]
    BY <1>1, <1>2, <1>4
  <2>2. QED BY <1>2, <1>3, <2>1 DEF Planned
<1>8. Head(q) \notin LastAt(place) => t # <<>>
  BY <1>1, <1>2, <1>3, <1>5 DEF Planned
<1>9. ASSUME NEW s PROVE Has(q, s) <=> s = Head(q) \/ Has(t, s)
  <2>1. ASSUME NEW i \in 1 .. Len(q), q[i] = s PROVE s = Head(q) \/ Has(t, s)
    <3>1. CASE i = 1 BY <1>3, <2>1, <3>1
    <3>2. CASE i # 1
      <4>1. i - 1 \in 1 .. Len(t) /\ (i - 1) + 1 = i
        BY <1>1, <1>2, <3>2
      <4>2. t[i - 1] = s
        BY <1>1, <2>1, <4>1
      <4>3. QED BY <4>1, <4>2 DEF Has
    <3>3. QED BY <3>1, <3>2
  <2>2. ASSUME NEW i \in 1 .. Len(t), t[i] = s PROVE Has(q, s)
    <3>1. i + 1 \in 1 .. Len(q) /\ q[i + 1] = s
      BY <1>1, <1>2, <2>2
    <3>2. QED BY <3>1 DEF Has
  <2>3. s = Head(q) => Has(q, s)
    BY <1>2, <1>3 DEF Has
  <2>4. QED BY <2>1, <2>2, <2>3 DEF Has
<1>10. ~Has(t, Head(q)) /\ ~Has(t, "cli")
  <2>1. ASSUME NEW i \in 1 .. Len(t) PROVE t[i] # Head(q) /\ t[i] # "cli"
    <3>1. i + 1 \in 1 .. Len(q) /\ t[i] = q[i + 1] /\ i + 1 # 1
      BY <1>1, <1>2
    <3>2. q[i + 1] # q[1] /\ q[i + 1] # "cli"
      BY <1>2, <3>1 DEF Planned
    <3>3. QED BY <1>3, <3>1, <3>2
  <2>2. QED BY <2>1 DEF Has
<1>11. Head(q) = "cli" => Has(q, "sti")
  BY <1>2, <1>3 DEF Planned
<1>12. Planned(place, t)
  <2>1. ASSUME NEW i \in 1 .. Len(t), i < Len(t) PROVE t[i + 1] \in Then[t[i]]
    <3>1. /\ i + 1 \in 1 .. Len(q) /\ i + 1 < Len(q) /\ i + 1 \in 1 .. Len(t)
          /\ t[i] = q[i + 1] /\ t[i + 1] = q[(i + 1) + 1]
      BY <1>1, <1>2, <2>1
    <3>2. QED BY <3>1 DEF Planned
  <2>2. t # <<>> => t[Len(t)] \in LastAt(place)
    <3>1. t # <<>> => t[Len(t)] = q[Len(q)]
      BY <1>1, <1>2, <1>4
    <3>2. QED BY <3>1 DEF Planned
  <2>3. ASSUME NEW i \in 1 .. Len(t), NEW j \in 1 .. Len(t), t[i] = t[j] PROVE i = j
    <3>1. /\ i + 1 \in 1 .. Len(q) /\ j + 1 \in 1 .. Len(q)
          /\ t[i] = q[i + 1] /\ t[j] = q[j + 1]
      BY <1>1, <1>2
    <3>2. i + 1 = j + 1
      BY <2>3, <3>1 DEF Planned
    <3>3. QED BY <3>2
  <2>4. \A i \in 1 .. Len(t) : t[i] # "cli"
    BY <1>10 DEF Has
  <2>5. QED BY <1>1, <2>1, <2>2, <2>3, <2>4 DEF Planned
<1>13. Head(q) \notin Then[Head(q)]
  BY <1>6, ThenOf DEF MainCalls, RelExit, EnterCalls
<1>14. QED
  BY <1>1, <1>4, <1>6, <1>7, <1>8, <1>9, <1>10, <1>11, <1>12, <1>13 DEF t

\* The plans of the main program, call by call.
LEMMA CallSteps ==
    /\ Rel = <<"pmuOff", "restore", "unregister">> /\ Reg = <<"register", "pmuOn">>
    /\ Enter = <<"start", "request", "connect">> /\ Exit = <<"stop", "release">>
    /\ \A f \in Flags \ {"pc"} : Clear(f) = <<"load", f>> /\ Clear(f) \in Seq(MainCalls)
    /\ {Rel, Reg, Enter, Exit, <<"cli">>, <<"sti">>} \subseteq Seq(MainCalls)
BY DEF Rel, Reg, Enter, Exit, Clear, MainCalls, RelExit, EnterCalls, Flags

\* q is a and then b.
Joins(q, a, b) ==
    /\ q \in Seq(MainCalls) /\ Len(q) = Len(a) + Len(b)
    /\ \A i \in 1 .. Len(a) : q[i] = a[i]
    /\ \A i \in 1 .. Len(b) : q[Len(a) + i] = b[i]

LEMMA JoinedCalls ==
    ASSUME NEW a \in Seq(MainCalls), NEW b \in Seq(MainCalls)
    PROVE  Joins(a \o b, a, b)
<1>1. /\ a \o b \in Seq(MainCalls) /\ Len(a \o b) = Len(a) + Len(b)
      /\ \A i \in 1 .. Len(a) + Len(b) : (a \o b)[i] = IF i <= Len(a) THEN a[i] ELSE b[i - Len(a)]
  BY ConcatProperties
<1>2. Len(a) \in Nat /\ Len(b) \in Nat
  BY LenProperties
<1>3. ASSUME NEW i \in 1 .. Len(a) PROVE (a \o b)[i] = a[i]
  BY <1>1, <1>2
<1>4. ASSUME NEW i \in 1 .. Len(b) PROVE (a \o b)[Len(a) + i] = b[i]
  <2>1. Len(a) + i \in 1 .. Len(a) + Len(b) /\ ~(Len(a) + i <= Len(a)) /\ (Len(a) + i) - Len(a) = i
    BY <1>2
  <2>2. QED BY <1>1, <2>1
<1>5. QED BY <1>1, <1>3, <1>4 DEF Joins

LEMMA QuitPlan ==
    /\ Quit \in Seq(MainCalls) /\ Len(Quit) = 5
    /\ Quit[1] = "pmuOff" /\ Quit[2] = "restore" /\ Quit[3] = "unregister"
    /\ Quit[4] = "stop" /\ Quit[5] = "release"
<1>1. /\ Len(Rel) = 3 /\ Rel[1] = "pmuOff" /\ Rel[2] = "restore" /\ Rel[3] = "unregister"
      /\ Len(Exit) = 2 /\ Exit[1] = "stop" /\ Exit[2] = "release"
      /\ Rel \in Seq(MainCalls) /\ Exit \in Seq(MainCalls)
  BY CallSteps
<1>2. Joins(Quit, Rel, Exit)
  BY <1>1, JoinedCalls DEF Quit
<1>3. QED BY <1>1, <1>2 DEF Joins

LEMMA RegQuitPlan ==
    LET q == Reg \o Quit
    IN /\ q \in Seq(MainCalls) /\ Len(q) = 7
       /\ q[1] = "register" /\ q[2] = "pmuOn" /\ q[3] = "pmuOff" /\ q[4] = "restore"
       /\ q[5] = "unregister" /\ q[6] = "stop" /\ q[7] = "release"
<1>1. Len(Reg) = 2 /\ Reg[1] = "register" /\ Reg[2] = "pmuOn" /\ Reg \in Seq(MainCalls)
  BY CallSteps
<1>2. Joins(Reg \o Quit, Reg, Quit)
  BY <1>1, QuitPlan, JoinedCalls
<1>3. QED BY <1>1, <1>2, QuitPlan DEF Joins

LEMMA RegEnterPlan ==
    LET q == Reg \o Enter
    IN /\ q \in Seq(MainCalls) /\ Len(q) = 5
       /\ q[1] = "register" /\ q[2] = "pmuOn" /\ q[3] = "start" /\ q[4] = "request" /\ q[5] = "connect"
<1>1. /\ Len(Reg) = 2 /\ Reg[1] = "register" /\ Reg[2] = "pmuOn" /\ Reg \in Seq(MainCalls)
      /\ Len(Enter) = 3 /\ Enter[1] = "start" /\ Enter[2] = "request" /\ Enter[3] = "connect"
      /\ Enter \in Seq(MainCalls)
  BY CallSteps
<1>2. Joins(Reg \o Enter, Reg, Enter)
  BY <1>1, JoinedCalls
<1>3. QED BY <1>1, <1>2 DEF Joins

LEMMA DetectPlan ==
    LET q == Reg \o Enter \o Rel \o Exit
    IN /\ q \in Seq(MainCalls) /\ Len(q) = 10
       /\ q[1] = "register" /\ q[2] = "pmuOn" /\ q[3] = "start" /\ q[4] = "request" /\ q[5] = "connect"
       /\ q[6] = "pmuOff" /\ q[7] = "restore" /\ q[8] = "unregister" /\ q[9] = "stop" /\ q[10] = "release"
<1> DEFINE a == Reg \o Enter
           b == a \o Rel
<1>1. /\ Len(Rel) = 3 /\ Rel[1] = "pmuOff" /\ Rel[2] = "restore" /\ Rel[3] = "unregister"
      /\ Len(Exit) = 2 /\ Exit[1] = "stop" /\ Exit[2] = "release"
      /\ Rel \in Seq(MainCalls) /\ Exit \in Seq(MainCalls)
  BY CallSteps
<1>2. /\ a \in Seq(MainCalls) /\ Len(a) = 5 /\ a[1] = "register" /\ a[2] = "pmuOn"
      /\ a[3] = "start" /\ a[4] = "request" /\ a[5] = "connect"
  BY RegEnterPlan
<1> HIDE DEF a
<1>3. /\ b \in Seq(MainCalls) /\ Len(b) = 8
      /\ b[1] = "register" /\ b[2] = "pmuOn" /\ b[3] = "start" /\ b[4] = "request" /\ b[5] = "connect"
      /\ b[6] = "pmuOff" /\ b[7] = "restore" /\ b[8] = "unregister"
  <2>1. Joins(b, a, Rel)
    BY <1>1, <1>2, JoinedCalls
  <2>2. QED BY <1>1, <1>2, <2>1 DEF Joins
<1> HIDE DEF b
<1>4. LET q == b \o Exit
      IN /\ q \in Seq(MainCalls) /\ Len(q) = 10
         /\ q[1] = "register" /\ q[2] = "pmuOn" /\ q[3] = "start" /\ q[4] = "request" /\ q[5] = "connect"
         /\ q[6] = "pmuOff" /\ q[7] = "restore" /\ q[8] = "unregister" /\ q[9] = "stop" /\ q[10] = "release"
  <2> DEFINE q == b \o Exit
  <2>1. Joins(q, b, Exit)
    BY <1>1, <1>3, JoinedCalls
  <2> HIDE DEF q
  <2>2. /\ q \in Seq(MainCalls) /\ Len(q) = 10
        /\ q[1] = b[1] /\ q[2] = b[2] /\ q[3] = b[3] /\ q[4] = b[4] /\ q[5] = b[5] /\ q[6] = b[6]
        /\ q[7] = b[7] /\ q[8] = b[8] /\ q[9] = Exit[1] /\ q[10] = Exit[2]
    BY <1>1, <1>3, <2>1 DEF Joins
  <2>3. QED BY <1>1, <1>3, <2>2 DEF q
<1>5. QED BY <1>4 DEF a, b

LEMMA DozePlan ==
    /\ Doze \in Seq(MainCalls) /\ Len(Doze) = 7
    /\ Doze[1] = "cli" /\ Doze[2] = "pmuOff" /\ Doze[3] = "restore" /\ Doze[4] = "unregister"
    /\ Doze[5] = "stop" /\ Doze[6] = "release" /\ Doze[7] = "sti"
<1> DEFINE a == <<"cli">> \o Rel
           b == a \o Exit
<1>1. /\ Len(Rel) = 3 /\ Rel[1] = "pmuOff" /\ Rel[2] = "restore" /\ Rel[3] = "unregister"
      /\ Len(Exit) = 2 /\ Exit[1] = "stop" /\ Exit[2] = "release"
      /\ Rel \in Seq(MainCalls) /\ Exit \in Seq(MainCalls)
      /\ <<"cli">> \in Seq(MainCalls) /\ Len(<<"cli">>) = 1 /\ <<"cli">>[1] = "cli"
      /\ <<"sti">> \in Seq(MainCalls) /\ Len(<<"sti">>) = 1 /\ <<"sti">>[1] = "sti"
  BY CallSteps
<1>2. /\ a \in Seq(MainCalls) /\ Len(a) = 4
      /\ a[1] = "cli" /\ a[2] = "pmuOff" /\ a[3] = "restore" /\ a[4] = "unregister"
  <2>1. Joins(a, <<"cli">>, Rel)
    BY <1>1, JoinedCalls
  <2>2. QED BY <1>1, <2>1 DEF Joins
<1> HIDE DEF a
<1>3. /\ b \in Seq(MainCalls) /\ Len(b) = 6
      /\ b[1] = "cli" /\ b[2] = "pmuOff" /\ b[3] = "restore" /\ b[4] = "unregister"
      /\ b[5] = "stop" /\ b[6] = "release"
  <2>1. Joins(b, a, Exit)
    BY <1>1, <1>2, JoinedCalls
  <2>2. QED BY <1>1, <1>2, <2>1 DEF Joins
<1> HIDE DEF b
<1>4. Doze = b \o <<"sti">>
  BY DEF Doze, a, b
<1>5. Joins(Doze, b, <<"sti">>)
  BY <1>1, <1>3, <1>4, JoinedCalls
<1>6. QED BY <1>1, <1>3, <1>5 DEF Joins

LEMMA LongKeyPlan ==
    /\ LongKey \in Seq(MainCalls) /\ Len(LongKey) = 11
    /\ LongKey[1] = "cli" /\ LongKey[2] = "pmuOff" /\ LongKey[3] = "restore" /\ LongKey[4] = "unregister"
    /\ LongKey[5] = "stop" /\ LongKey[6] = "release" /\ LongKey[7] = "load" /\ LongKey[8] = "long"
    /\ LongKey[9] = "sti" /\ LongKey[10] = "register" /\ LongKey[11] = "pmuOn"
<1> DEFINE a == <<"cli">> \o Rel
           b == a \o Exit
           c == b \o Clear("long")
           d == c \o <<"sti">>
<1>1. /\ Len(Rel) = 3 /\ Rel[1] = "pmuOff" /\ Rel[2] = "restore" /\ Rel[3] = "unregister"
      /\ Len(Exit) = 2 /\ Exit[1] = "stop" /\ Exit[2] = "release"
      /\ Rel \in Seq(MainCalls) /\ Exit \in Seq(MainCalls)
      /\ <<"cli">> \in Seq(MainCalls) /\ Len(<<"cli">>) = 1 /\ <<"cli">>[1] = "cli"
      /\ <<"sti">> \in Seq(MainCalls) /\ Len(<<"sti">>) = 1 /\ <<"sti">>[1] = "sti"
  BY CallSteps
<1>2. /\ Len(Reg) = 2 /\ Reg[1] = "register" /\ Reg[2] = "pmuOn" /\ Reg \in Seq(MainCalls)
  BY CallSteps
<1>3. /\ Clear("long") \in Seq(MainCalls) /\ Len(Clear("long")) = 2
      /\ Clear("long")[1] = "load" /\ Clear("long")[2] = "long"
  BY CallSteps DEF Flags
<1>4. /\ a \in Seq(MainCalls) /\ Len(a) = 4
      /\ a[1] = "cli" /\ a[2] = "pmuOff" /\ a[3] = "restore" /\ a[4] = "unregister"
  <2>1. Joins(a, <<"cli">>, Rel)
    BY <1>1, JoinedCalls
  <2>2. QED BY <1>1, <2>1 DEF Joins
<1> HIDE DEF a
<1>5. /\ b \in Seq(MainCalls) /\ Len(b) = 6
      /\ b[1] = "cli" /\ b[2] = "pmuOff" /\ b[3] = "restore" /\ b[4] = "unregister"
      /\ b[5] = "stop" /\ b[6] = "release"
  <2>1. Joins(b, a, Exit)
    BY <1>1, <1>4, JoinedCalls
  <2>2. QED BY <1>1, <1>4, <2>1 DEF Joins
<1> HIDE DEF b
<1>6. /\ c \in Seq(MainCalls) /\ Len(c) = 8
      /\ c[1] = "cli" /\ c[2] = "pmuOff" /\ c[3] = "restore" /\ c[4] = "unregister"
      /\ c[5] = "stop" /\ c[6] = "release" /\ c[7] = "load" /\ c[8] = "long"
  <2>1. Joins(c, b, Clear("long"))
    BY <1>3, <1>5, JoinedCalls
  <2>2. /\ c \in Seq(MainCalls) /\ Len(c) = 8
        /\ c[1] = b[1] /\ c[2] = b[2] /\ c[3] = b[3] /\ c[4] = b[4] /\ c[5] = b[5] /\ c[6] = b[6]
        /\ c[7] = Clear("long")[1] /\ c[8] = Clear("long")[2]
    BY <1>3, <1>5, <2>1 DEF Joins
  <2>3. QED BY <1>3, <1>5, <2>2
<1> HIDE DEF c
<1>7. /\ d \in Seq(MainCalls) /\ Len(d) = 9
      /\ d[1] = "cli" /\ d[2] = "pmuOff" /\ d[3] = "restore" /\ d[4] = "unregister"
      /\ d[5] = "stop" /\ d[6] = "release" /\ d[7] = "load" /\ d[8] = "long" /\ d[9] = "sti"
  <2>1. Joins(d, c, <<"sti">>)
    BY <1>1, <1>6, JoinedCalls
  <2>2. QED BY <1>1, <1>6, <2>1 DEF Joins
<1> HIDE DEF d
<1>8. LongKey = d \o Reg
  BY DEF LongKey, a, b, c, d
<1>9. Joins(LongKey, d, Reg)
  BY <1>2, <1>7, <1>8, JoinedCalls
<1>10. QED BY <1>2, <1>7, <1>9 DEF Joins

LEMMA CallsOfPlace ==
    ASSUME NEW place \in Places, NEW q \in Seq(MainCalls), \A i \in 1 .. Len(q) : q[i] \in CallsAt[place]
    PROVE  q \in Seq(CallsAt[place])
<1>1. Len(q) \in Nat /\ q \in [1 .. Len(q) -> MainCalls]
  BY LenProperties
<1>2. q \in [1 .. Len(q) -> CallsAt[place]]
  BY <1>1
<1>3. QED BY <1>1, <1>2

LEMMA NothingPlanned == \A place \in Places : Planned(place, <<>>)
<1> SUFFICES ASSUME NEW place \in Places PROVE Planned(place, <<>>)
  OBVIOUS
<1>1. <<>> \in Seq(CallsAt[place]) /\ Len(<<>>) = 0
  BY EmptySeq
<1>2. \A i \in 1 .. Len(<<>>) : FALSE
  BY <1>1
<1>3. QED BY <1>1, <1>2 DEF Planned

LEMMA QuitPlanned ==
    ASSUME NEW place \in {"off", "os"}
    PROVE  LET q == Quit
           IN /\ Planned(place, q) /\ q \in Seq(MainCalls) /\ q # <<>> /\ Head(q) = "pmuOff"
              /\ ~Has(q, "sti") /\ ~Has(q, "start")
<1> DEFINE q == Quit
<1>1. /\ q \in Seq(MainCalls) /\ Len(q) = 5
      /\ q[1] = "pmuOff" /\ q[2] = "restore" /\ q[3] = "unregister" /\ q[4] = "stop" /\ q[5] = "release"
  BY QuitPlan
<1> HIDE DEF q
<1>2. 1 .. Len(q) = {1, 2, 3, 4, 5}
  BY <1>1
<1>3. q # <<>> /\ Head(q) = q[1]
  <2>1. q = <<>> => Len(q) = 0
    BY EmptySeq
  <2>2. Head(q) = q[1]
    OBVIOUS
  <2>3. QED BY <1>1, <2>1, <2>2
<1>4. \A i \in 1 .. Len(q) : q[i] \in CallsAt[place]
  BY <1>1, <1>2, PlaceCalls DEF MainCalls, RelExit, EnterCalls
<1>5. q \in Seq(CallsAt[place])
  BY <1>1, <1>4, CallsOfPlace, PlaceCalls
<1>6. ASSUME NEW i \in 1 .. Len(q), i < Len(q) PROVE q[i + 1] \in Then[q[i]]
  <2>1. i \in {1, 2, 3, 4}
    BY <1>1, <1>6
  <2>2. QED BY <1>1, <2>1, ThenOf
<1>7. \A i, j \in 1 .. Len(q) : q[i] = q[j] => i = j
  BY <1>1, <1>2
<1>8. q[Len(q)] \in LastAt(place)
  BY <1>1 DEF LastAt, LeftPlaces
<1>9. ~Has(q, "sti")
  BY <1>1, <1>2 DEF Has
<1>10. \A i \in 1 .. Len(q) : q[i] # "cli"
  BY <1>1, <1>2
<1>11. ~Has(q, "start")
  BY <1>1, <1>2 DEF Has
<1>12. Planned(place, q)
  BY <1>3, <1>5, <1>6, <1>7, <1>8, <1>9, <1>10 DEF Planned
<1>13. QED BY <1>1, <1>3, <1>9, <1>11, <1>12 DEF q

LEMMA RegQuitPlanned ==
    ASSUME NEW place \in {"off"}
    PROVE  LET q == Reg \o Quit
           IN /\ Planned(place, q) /\ q \in Seq(MainCalls) /\ q # <<>> /\ Head(q) = "register"
              /\ ~Has(q, "sti") /\ ~Has(q, "start")
<1> DEFINE q == Reg \o Quit
<1>1. /\ q \in Seq(MainCalls) /\ Len(q) = 7
      /\ q[1] = "register" /\ q[2] = "pmuOn" /\ q[3] = "pmuOff" /\ q[4] = "restore" /\ q[5] = "unregister" /\ q[6] = "stop" /\ q[7] = "release"
  BY RegQuitPlan
<1> HIDE DEF q
<1>2. 1 .. Len(q) = {1, 2, 3, 4, 5, 6, 7}
  BY <1>1
<1>3. q # <<>> /\ Head(q) = q[1]
  <2>1. q = <<>> => Len(q) = 0
    BY EmptySeq
  <2>2. Head(q) = q[1]
    OBVIOUS
  <2>3. QED BY <1>1, <2>1, <2>2
<1>4. \A i \in 1 .. Len(q) : q[i] \in CallsAt[place]
  BY <1>1, <1>2, PlaceCalls DEF MainCalls, RelExit, EnterCalls
<1>5. q \in Seq(CallsAt[place])
  BY <1>1, <1>4, CallsOfPlace, PlaceCalls
<1>6. ASSUME NEW i \in 1 .. Len(q), i < Len(q) PROVE q[i + 1] \in Then[q[i]]
  <2>1. i \in {1, 2, 3, 4, 5, 6}
    BY <1>1, <1>6
  <2>2. QED BY <1>1, <2>1, ThenOf
<1>7. \A i, j \in 1 .. Len(q) : q[i] = q[j] => i = j
  BY <1>1, <1>2
<1>8. q[Len(q)] \in LastAt(place)
  BY <1>1 DEF LastAt, LeftPlaces
<1>9. ~Has(q, "sti")
  BY <1>1, <1>2 DEF Has
<1>10. \A i \in 1 .. Len(q) : q[i] # "cli"
  BY <1>1, <1>2
<1>11. ~Has(q, "start")
  BY <1>1, <1>2 DEF Has
<1>12. Planned(place, q)
  BY <1>3, <1>5, <1>6, <1>7, <1>8, <1>9, <1>10 DEF Planned
<1>13. QED BY <1>1, <1>3, <1>9, <1>11, <1>12 DEF q

LEMMA RegEnterPlanned ==
    ASSUME NEW place \in {"show"}
    PROVE  LET q == Reg \o Enter
           IN /\ Planned(place, q) /\ q \in Seq(MainCalls) /\ q # <<>> /\ Head(q) = "register"
              /\ ~Has(q, "sti")
<1> DEFINE q == Reg \o Enter
<1>1. /\ q \in Seq(MainCalls) /\ Len(q) = 5
      /\ q[1] = "register" /\ q[2] = "pmuOn" /\ q[3] = "start" /\ q[4] = "request" /\ q[5] = "connect"
  BY RegEnterPlan
<1> HIDE DEF q
<1>2. 1 .. Len(q) = {1, 2, 3, 4, 5}
  BY <1>1
<1>3. q # <<>> /\ Head(q) = q[1]
  <2>1. q = <<>> => Len(q) = 0
    BY EmptySeq
  <2>2. Head(q) = q[1]
    OBVIOUS
  <2>3. QED BY <1>1, <2>1, <2>2
<1>4. \A i \in 1 .. Len(q) : q[i] \in CallsAt[place]
  BY <1>1, <1>2, PlaceCalls DEF MainCalls, RelExit, EnterCalls
<1>5. q \in Seq(CallsAt[place])
  BY <1>1, <1>4, CallsOfPlace, PlaceCalls
<1>6. ASSUME NEW i \in 1 .. Len(q), i < Len(q) PROVE q[i + 1] \in Then[q[i]]
  <2>1. i \in {1, 2, 3, 4}
    BY <1>1, <1>6
  <2>2. QED BY <1>1, <2>1, ThenOf
<1>7. \A i, j \in 1 .. Len(q) : q[i] = q[j] => i = j
  BY <1>1, <1>2
<1>8. q[Len(q)] \in LastAt(place)
  BY <1>1 DEF LastAt, LeftPlaces
<1>9. ~Has(q, "sti")
  BY <1>1, <1>2 DEF Has
<1>10. \A i \in 1 .. Len(q) : q[i] # "cli"
  BY <1>1, <1>2
<1>12. Planned(place, q)
  BY <1>3, <1>5, <1>6, <1>7, <1>8, <1>9, <1>10 DEF Planned
<1>13. QED BY <1>1, <1>3, <1>9, <1>12 DEF q

LEMMA DetectPlanned ==
    ASSUME NEW place \in {"menu"}
    PROVE  LET q == Reg \o Enter \o Rel \o Exit
           IN /\ Planned(place, q) /\ q \in Seq(MainCalls) /\ q # <<>> /\ Head(q) = "register"
              /\ ~Has(q, "sti")
<1> DEFINE q == Reg \o Enter \o Rel \o Exit
<1>1. /\ q \in Seq(MainCalls) /\ Len(q) = 10
      /\ q[1] = "register" /\ q[2] = "pmuOn" /\ q[3] = "start" /\ q[4] = "request" /\ q[5] = "connect" /\ q[6] = "pmuOff" /\ q[7] = "restore" /\ q[8] = "unregister" /\ q[9] = "stop" /\ q[10] = "release"
  BY DetectPlan
<1> HIDE DEF q
<1>2. 1 .. Len(q) = {1, 2, 3, 4, 5, 6, 7, 8, 9, 10}
  BY <1>1
<1>3. q # <<>> /\ Head(q) = q[1]
  <2>1. q = <<>> => Len(q) = 0
    BY EmptySeq
  <2>2. Head(q) = q[1]
    OBVIOUS
  <2>3. QED BY <1>1, <2>1, <2>2
<1>4. \A i \in 1 .. Len(q) : q[i] \in CallsAt[place]
  BY <1>1, <1>2, PlaceCalls DEF MainCalls, RelExit, EnterCalls
<1>5. q \in Seq(CallsAt[place])
  BY <1>1, <1>4, CallsOfPlace, PlaceCalls
<1>6. ASSUME NEW i \in 1 .. Len(q), i < Len(q) PROVE q[i + 1] \in Then[q[i]]
  <2>1. i \in {1, 2, 3, 4, 5, 6, 7, 8, 9}
    BY <1>1, <1>6
  <2>2. QED BY <1>1, <2>1, ThenOf
<1>7. \A i, j \in 1 .. Len(q) : q[i] = q[j] => i = j
  BY <1>1, <1>2
<1>8. q[Len(q)] \in LastAt(place)
  BY <1>1 DEF LastAt, LeftPlaces
<1>9. ~Has(q, "sti")
  BY <1>1, <1>2 DEF Has
<1>10. \A i \in 1 .. Len(q) : q[i] # "cli"
  BY <1>1, <1>2
<1>12. Planned(place, q)
  BY <1>3, <1>5, <1>6, <1>7, <1>8, <1>9, <1>10 DEF Planned
<1>13. QED BY <1>1, <1>3, <1>9, <1>12 DEF q

LEMMA DozePlanned ==
    ASSUME NEW place \in {"asleep"}
    PROVE  LET q == Doze
           IN /\ Planned(place, q) /\ q \in Seq(MainCalls) /\ q # <<>> /\ Head(q) = "cli"
              /\ Has(q, "cli") /\ Has(q, "sti") /\ ~Has(q, "start")
<1> DEFINE q == Doze
<1>1. /\ q \in Seq(MainCalls) /\ Len(q) = 7
      /\ q[1] = "cli" /\ q[2] = "pmuOff" /\ q[3] = "restore" /\ q[4] = "unregister" /\ q[5] = "stop" /\ q[6] = "release" /\ q[7] = "sti"
  BY DozePlan
<1> HIDE DEF q
<1>2. 1 .. Len(q) = {1, 2, 3, 4, 5, 6, 7}
  BY <1>1
<1>3. q # <<>> /\ Head(q) = q[1]
  <2>1. q = <<>> => Len(q) = 0
    BY EmptySeq
  <2>2. Head(q) = q[1]
    OBVIOUS
  <2>3. QED BY <1>1, <2>1, <2>2
<1>4. \A i \in 1 .. Len(q) : q[i] \in CallsAt[place]
  BY <1>1, <1>2, PlaceCalls DEF MainCalls, RelExit, EnterCalls
<1>5. q \in Seq(CallsAt[place])
  BY <1>1, <1>4, CallsOfPlace, PlaceCalls
<1>6. ASSUME NEW i \in 1 .. Len(q), i < Len(q) PROVE q[i + 1] \in Then[q[i]]
  <2>1. i \in {1, 2, 3, 4, 5, 6}
    BY <1>1, <1>6
  <2>2. QED BY <1>1, <2>1, ThenOf
<1>7. \A i, j \in 1 .. Len(q) : q[i] = q[j] => i = j
  BY <1>1, <1>2
<1>8. q[Len(q)] \in LastAt(place)
  BY <1>1 DEF LastAt, LeftPlaces
<1>9. Has(q, "cli") /\ Has(q, "sti")
  BY <1>1, <1>2 DEF Has
<1>10. \A i \in 1 .. Len(q) : q[i] = "cli" => i = 1
  BY <1>1, <1>2
<1>11. ~Has(q, "start")
  BY <1>1, <1>2 DEF Has
<1>12. Planned(place, q)
  BY <1>3, <1>5, <1>6, <1>7, <1>8, <1>9, <1>10 DEF Planned
<1>13. QED BY <1>1, <1>3, <1>9, <1>11, <1>12 DEF q

LEMMA LongKeyPlanned ==
    ASSUME NEW place \in {"menu"}
    PROVE  LET q == LongKey
           IN /\ Planned(place, q) /\ q \in Seq(MainCalls) /\ q # <<>> /\ Head(q) = "cli"
              /\ Has(q, "cli") /\ Has(q, "sti") /\ ~Has(q, "start")
<1> DEFINE q == LongKey
<1>1. /\ q \in Seq(MainCalls) /\ Len(q) = 11
      /\ q[1] = "cli" /\ q[2] = "pmuOff" /\ q[3] = "restore" /\ q[4] = "unregister" /\ q[5] = "stop" /\ q[6] = "release" /\ q[7] = "load" /\ q[8] = "long" /\ q[9] = "sti" /\ q[10] = "register" /\ q[11] = "pmuOn"
  BY LongKeyPlan
<1> HIDE DEF q
<1>2. 1 .. Len(q) = {1, 2, 3, 4, 5, 6, 7, 8, 9, 10, 11}
  BY <1>1
<1>3. q # <<>> /\ Head(q) = q[1]
  <2>1. q = <<>> => Len(q) = 0
    BY EmptySeq
  <2>2. Head(q) = q[1]
    OBVIOUS
  <2>3. QED BY <1>1, <2>1, <2>2
<1>4. \A i \in 1 .. Len(q) : q[i] \in CallsAt[place]
  BY <1>1, <1>2, PlaceCalls DEF MainCalls, RelExit, EnterCalls
<1>5. q \in Seq(CallsAt[place])
  BY <1>1, <1>4, CallsOfPlace, PlaceCalls
<1>6. ASSUME NEW i \in 1 .. Len(q), i < Len(q) PROVE q[i + 1] \in Then[q[i]]
  <2>1. i \in {1, 2, 3, 4, 5, 6, 7, 8, 9, 10}
    BY <1>1, <1>6
  <2>2. QED BY <1>1, <2>1, ThenOf
<1>7. \A i, j \in 1 .. Len(q) : q[i] = q[j] => i = j
  BY <1>1, <1>2
<1>8. q[Len(q)] \in LastAt(place)
  BY <1>1 DEF LastAt, LeftPlaces
<1>9. Has(q, "cli") /\ Has(q, "sti")
  BY <1>1, <1>2 DEF Has
<1>10. \A i \in 1 .. Len(q) : q[i] = "cli" => i = 1
  BY <1>1, <1>2
<1>11. ~Has(q, "start")
  BY <1>1, <1>2 DEF Has
<1>12. Planned(place, q)
  BY <1>3, <1>5, <1>6, <1>7, <1>8, <1>9, <1>10 DEF Planned
<1>13. QED BY <1>1, <1>3, <1>9, <1>11, <1>12 DEF q

LEMMA RegPlanned ==
    ASSUME NEW place \in {"again", "menu"}
    PROVE  LET q == Reg
           IN /\ Planned(place, q) /\ q \in Seq(MainCalls) /\ q # <<>> /\ Head(q) = "register"
              /\ ~Has(q, "sti") /\ ~Has(q, "start")
<1> DEFINE q == Reg
<1>1. /\ q \in Seq(MainCalls) /\ Len(q) = 2
      /\ q[1] = "register" /\ q[2] = "pmuOn"
  BY CallSteps
<1> HIDE DEF q
<1>2. 1 .. Len(q) = {1, 2}
  BY <1>1
<1>3. q # <<>> /\ Head(q) = q[1]
  <2>1. q = <<>> => Len(q) = 0
    BY EmptySeq
  <2>2. Head(q) = q[1]
    OBVIOUS
  <2>3. QED BY <1>1, <2>1, <2>2
<1>4. \A i \in 1 .. Len(q) : q[i] \in CallsAt[place]
  BY <1>1, <1>2, PlaceCalls DEF MainCalls, RelExit, EnterCalls
<1>5. q \in Seq(CallsAt[place])
  BY <1>1, <1>4, CallsOfPlace, PlaceCalls
<1>6. ASSUME NEW i \in 1 .. Len(q), i < Len(q) PROVE q[i + 1] \in Then[q[i]]
  <2>1. i \in {1}
    BY <1>1, <1>6
  <2>2. QED BY <1>1, <2>1, ThenOf
<1>7. \A i, j \in 1 .. Len(q) : q[i] = q[j] => i = j
  BY <1>1, <1>2
<1>8. q[Len(q)] \in LastAt(place)
  BY <1>1 DEF LastAt, LeftPlaces
<1>9. ~Has(q, "sti")
  BY <1>1, <1>2 DEF Has
<1>10. \A i \in 1 .. Len(q) : q[i] # "cli"
  BY <1>1, <1>2
<1>11. ~Has(q, "start")
  BY <1>1, <1>2 DEF Has
<1>12. Planned(place, q)
  BY <1>3, <1>5, <1>6, <1>7, <1>8, <1>9, <1>10 DEF Planned
<1>13. QED BY <1>1, <1>3, <1>9, <1>11, <1>12 DEF q

LEMMA EnterPlanned ==
    ASSUME NEW place \in {"plugged"}
    PROVE  LET q == Enter
           IN /\ Planned(place, q) /\ q \in Seq(MainCalls) /\ q # <<>> /\ Head(q) = "start"
              /\ ~Has(q, "sti")
<1> DEFINE q == Enter
<1>1. /\ q \in Seq(MainCalls) /\ Len(q) = 3
      /\ q[1] = "start" /\ q[2] = "request" /\ q[3] = "connect"
  BY CallSteps
<1> HIDE DEF q
<1>2. 1 .. Len(q) = {1, 2, 3}
  BY <1>1
<1>3. q # <<>> /\ Head(q) = q[1]
  <2>1. q = <<>> => Len(q) = 0
    BY EmptySeq
  <2>2. Head(q) = q[1]
    OBVIOUS
  <2>3. QED BY <1>1, <2>1, <2>2
<1>4. \A i \in 1 .. Len(q) : q[i] \in CallsAt[place]
  BY <1>1, <1>2, PlaceCalls DEF MainCalls, RelExit, EnterCalls
<1>5. q \in Seq(CallsAt[place])
  BY <1>1, <1>4, CallsOfPlace, PlaceCalls
<1>6. ASSUME NEW i \in 1 .. Len(q), i < Len(q) PROVE q[i + 1] \in Then[q[i]]
  <2>1. i \in {1, 2}
    BY <1>1, <1>6
  <2>2. QED BY <1>1, <2>1, ThenOf
<1>7. \A i, j \in 1 .. Len(q) : q[i] = q[j] => i = j
  BY <1>1, <1>2
<1>8. q[Len(q)] \in LastAt(place)
  BY <1>1 DEF LastAt, LeftPlaces
<1>9. ~Has(q, "sti")
  BY <1>1, <1>2 DEF Has
<1>10. \A i \in 1 .. Len(q) : q[i] # "cli"
  BY <1>1, <1>2
<1>12. Planned(place, q)
  BY <1>3, <1>5, <1>6, <1>7, <1>8, <1>9, <1>10 DEF Planned
<1>13. QED BY <1>1, <1>3, <1>9, <1>12 DEF q

LEMMA ExitPlanned ==
    ASSUME NEW place \in {"standby"}
    PROVE  LET q == Exit
           IN /\ Planned(place, q) /\ q \in Seq(MainCalls) /\ q # <<>> /\ Head(q) = "stop"
              /\ ~Has(q, "sti") /\ ~Has(q, "start")
<1> DEFINE q == Exit
<1>1. /\ q \in Seq(MainCalls) /\ Len(q) = 2
      /\ q[1] = "stop" /\ q[2] = "release"
  BY CallSteps
<1> HIDE DEF q
<1>2. 1 .. Len(q) = {1, 2}
  BY <1>1
<1>3. q # <<>> /\ Head(q) = q[1]
  <2>1. q = <<>> => Len(q) = 0
    BY EmptySeq
  <2>2. Head(q) = q[1]
    OBVIOUS
  <2>3. QED BY <1>1, <2>1, <2>2
<1>4. \A i \in 1 .. Len(q) : q[i] \in CallsAt[place]
  BY <1>1, <1>2, PlaceCalls DEF MainCalls, RelExit, EnterCalls
<1>5. q \in Seq(CallsAt[place])
  BY <1>1, <1>4, CallsOfPlace, PlaceCalls
<1>6. ASSUME NEW i \in 1 .. Len(q), i < Len(q) PROVE q[i + 1] \in Then[q[i]]
  <2>1. i \in {1}
    BY <1>1, <1>6
  <2>2. QED BY <1>1, <2>1, ThenOf
<1>7. \A i, j \in 1 .. Len(q) : q[i] = q[j] => i = j
  BY <1>1, <1>2
<1>8. q[Len(q)] \in LastAt(place)
  BY <1>1 DEF LastAt, LeftPlaces
<1>9. ~Has(q, "sti")
  BY <1>1, <1>2 DEF Has
<1>10. \A i \in 1 .. Len(q) : q[i] # "cli"
  BY <1>1, <1>2
<1>11. ~Has(q, "start")
  BY <1>1, <1>2 DEF Has
<1>12. Planned(place, q)
  BY <1>3, <1>5, <1>6, <1>7, <1>8, <1>9, <1>10 DEF Planned
<1>13. QED BY <1>1, <1>3, <1>9, <1>11, <1>12 DEF q

LEMMA ClearShortPlanned ==
    ASSUME NEW place \in {"show", "again"}
    PROVE  LET q == Clear("short")
           IN /\ Planned(place, q) /\ q \in Seq(MainCalls) /\ q # <<>> /\ Head(q) = "load"
              /\ ~Has(q, "sti") /\ ~Has(q, "start")
<1> DEFINE q == Clear("short")
<1>1. /\ q \in Seq(MainCalls) /\ Len(q) = 2
      /\ q[1] = "load" /\ q[2] = "short"
  BY CallSteps DEF Flags
<1> HIDE DEF q
<1>2. 1 .. Len(q) = {1, 2}
  BY <1>1
<1>3. q # <<>> /\ Head(q) = q[1]
  <2>1. q = <<>> => Len(q) = 0
    BY EmptySeq
  <2>2. Head(q) = q[1]
    OBVIOUS
  <2>3. QED BY <1>1, <2>1, <2>2
<1>4. \A i \in 1 .. Len(q) : q[i] \in CallsAt[place]
  BY <1>1, <1>2, PlaceCalls DEF MainCalls, RelExit, EnterCalls
<1>5. q \in Seq(CallsAt[place])
  BY <1>1, <1>4, CallsOfPlace, PlaceCalls
<1>6. ASSUME NEW i \in 1 .. Len(q), i < Len(q) PROVE q[i + 1] \in Then[q[i]]
  <2>1. i \in {1}
    BY <1>1, <1>6
  <2>2. QED BY <1>1, <2>1, ThenOf
<1>7. \A i, j \in 1 .. Len(q) : q[i] = q[j] => i = j
  BY <1>1, <1>2
<1>8. q[Len(q)] \in LastAt(place)
  BY <1>1 DEF LastAt, LeftPlaces
<1>9. ~Has(q, "sti")
  BY <1>1, <1>2 DEF Has
<1>10. \A i \in 1 .. Len(q) : q[i] # "cli"
  BY <1>1, <1>2
<1>11. ~Has(q, "start")
  BY <1>1, <1>2 DEF Has
<1>12. Planned(place, q)
  BY <1>3, <1>5, <1>6, <1>7, <1>8, <1>9, <1>10 DEF Planned
<1>13. QED BY <1>1, <1>3, <1>9, <1>11, <1>12 DEF q

LEMMA ClearInsertPlanned ==
    ASSUME NEW place \in {"plug"}
    PROVE  LET q == Clear("insert")
           IN /\ Planned(place, q) /\ q \in Seq(MainCalls) /\ q # <<>> /\ Head(q) = "load"
              /\ ~Has(q, "sti") /\ ~Has(q, "start")
<1> DEFINE q == Clear("insert")
<1>1. /\ q \in Seq(MainCalls) /\ Len(q) = 2
      /\ q[1] = "load" /\ q[2] = "insert"
  BY CallSteps DEF Flags
<1> HIDE DEF q
<1>2. 1 .. Len(q) = {1, 2}
  BY <1>1
<1>3. q # <<>> /\ Head(q) = q[1]
  <2>1. q = <<>> => Len(q) = 0
    BY EmptySeq
  <2>2. Head(q) = q[1]
    OBVIOUS
  <2>3. QED BY <1>1, <2>1, <2>2
<1>4. \A i \in 1 .. Len(q) : q[i] \in CallsAt[place]
  BY <1>1, <1>2, PlaceCalls DEF MainCalls, RelExit, EnterCalls
<1>5. q \in Seq(CallsAt[place])
  BY <1>1, <1>4, CallsOfPlace, PlaceCalls
<1>6. ASSUME NEW i \in 1 .. Len(q), i < Len(q) PROVE q[i + 1] \in Then[q[i]]
  <2>1. i \in {1}
    BY <1>1, <1>6
  <2>2. QED BY <1>1, <2>1, ThenOf
<1>7. \A i, j \in 1 .. Len(q) : q[i] = q[j] => i = j
  BY <1>1, <1>2
<1>8. q[Len(q)] \in LastAt(place)
  BY <1>1 DEF LastAt, LeftPlaces
<1>9. ~Has(q, "sti")
  BY <1>1, <1>2 DEF Has
<1>10. \A i \in 1 .. Len(q) : q[i] # "cli"
  BY <1>1, <1>2
<1>11. ~Has(q, "start")
  BY <1>1, <1>2 DEF Has
<1>12. Planned(place, q)
  BY <1>3, <1>5, <1>6, <1>7, <1>8, <1>9, <1>10 DEF Planned
<1>13. QED BY <1>1, <1>3, <1>9, <1>11, <1>12 DEF q

\* usb_detect_enter is planned once.
LEMMA EnterOnce ==
    ASSUME NEW place \in {"show", "menu"}, NEW q, Planned(place, q), q # <<>>, Head(q) \in {"request", "connect"}
    PROVE  ~Has(q, "start")
<1>1. Len(q) \in Nat \ {0} /\ 1 \in 1 .. Len(q) /\ Head(q) = q[1]
  <2>1. q \in Seq(CallsAt[place])
    BY DEF Planned
  <2>2. QED BY <2>1, EmptySeq, LenProperties
<1> SUFFICES ASSUME NEW j \in 1 .. Len(q), q[j] = "start" PROVE FALSE
  BY DEF Has
<1>2. q[Len(q)] \notin {"start", "request"}
  BY DEF Planned, LastAt, LeftPlaces
<1>3. j < Len(q) /\ j + 1 \in 1 .. Len(q) /\ j + 1 # 1
  BY <1>1, <1>2
<1>4. q[j + 1] = "request"
  BY <1>3, ThenOf DEF Planned
<1>5. j + 1 < Len(q) /\ j + 2 \in 1 .. Len(q) /\ j + 2 # 1 /\ (j + 1) + 1 = j + 2
  BY <1>1, <1>2, <1>3, <1>4
<1>6. q[j + 2] = "connect"
  BY <1>3, <1>4, <1>5, ThenOf DEF Planned
<1>7. \A i \in 1 .. Len(q) : q[i] = q[1] => i = 1
  BY <1>1 DEF Planned
<1>8. QED BY <1>1, <1>3, <1>4, <1>5, <1>6, <1>7

\* A step of a call: where the main program can be, and what comes next.
LEMMA AfterCall ==
    ASSUME NEW place \in Places, NEW q, Planned(place, q), q # <<>>
    PROVE  LET h == Head(q) t == Tail(q) n == Head(Tail(q))
           IN /\ h \in {"pmuOff", "restore", "unregister"} => place \in {"asleep", "menu", "off", "os"}
              /\ h \in {"stop", "release"} => place \in {"standby", "asleep", "menu", "off", "os"}
              /\ h \in {"start", "request", "connect"} => place \in {"show", "plugged", "menu"}
              /\ h \in {"register", "pmuOn"} => place \in {"show", "again", "menu", "off"}
              /\ h = "pmuOff" => t # <<>> /\ n = "restore"
              /\ h = "restore" => t # <<>> /\ n = "unregister"
              /\ h = "unregister" => t # <<>> /\ n = "stop"
              /\ h = "stop" => t # <<>> /\ n = "release"
              /\ h = "release" => /\ t # <<>> => n \in {"sti", "load"}
                                  /\ place \in {"standby", "off", "os"} => t = <<>>
                                  /\ place = "asleep" => t # <<>> /\ n = "sti"
              /\ h = "start" => t # <<>> /\ n = "request"
              /\ h = "request" => t # <<>> /\ n = "connect"
              /\ h = "connect" => /\ t # <<>> => n = "pmuOff"
                                  /\ place \in {"show", "plugged"} => t = <<>>
              /\ h = "register" => t # <<>> /\ n = "pmuOn"
              /\ h = "pmuOn" => /\ t # <<>> => n \in {"start", "pmuOff"}
                                /\ place = "off" => t # <<>> /\ n = "pmuOff"
              /\ h = "load" => t # <<>> /\ n \in {"short", "long", "insert"}
              /\ h \in {"short", "insert"} => t = <<>>
              /\ h = "long" => /\ t # <<>> /\ n = "sti"
                               /\ place = "menu"
              /\ h = "cli" => t # <<>> /\ n = "pmuOff" /\ place \in {"asleep", "menu"}
              /\ h = "sti" => /\ t # <<>> => n = "register"
                              /\ place \in {"asleep", "menu"}
                              /\ place = "asleep" => t = <<>>
<1> DEFINE h == Head(q)
           t == Tail(q)
           n == Head(Tail(q))
<1>1. /\ h \in CallsAt[place] /\ h \in MainCalls
      /\ t # <<>> => n \in Then[h] /\ n \in CallsAt[place]
      /\ h \notin LastAt(place) => t # <<>>
  BY PlanRest
<1> HIDE DEF h, t, n
<1>2. /\ h \in {"pmuOff", "restore", "unregister"} => place \in {"asleep", "menu", "off", "os"}
      /\ h \in {"stop", "release"} => place \in {"standby", "asleep", "menu", "off", "os"}
      /\ h \in {"start", "request", "connect"} => place \in {"show", "plugged", "menu"}
      /\ h \in {"register", "pmuOn"} => place \in {"show", "again", "menu", "off"}
      /\ h = "long" => place = "menu"
      /\ h \in {"cli", "sti"} => place \in {"asleep", "menu"}
      /\ h \in {"short"} => place \in {"show", "again"}
      /\ h \in {"insert"} => place = "plug"
      /\ h \in {"load"} => place \in {"show", "again", "plug", "menu"}
  BY <1>1, PlaceCalls
<1>3. /\ LastAt("asleep") = {"sti"} /\ LastAt("off") = {"release"} /\ LastAt("os") = {"release"}
      /\ \A p \in Places \ {"asleep", "off", "os"} :
            LastAt(p) = {"release", "pmuOn", "connect", "short", "insert"}
  BY DEF LastAt, LeftPlaces
<1>4. LastAt(place) \subseteq {"release", "pmuOn", "connect", "short", "insert", "sti"}
  BY <1>3
<1>5. h \in {"pmuOff", "restore", "unregister", "stop", "start", "request", "register", "load", "long", "cli"} => t # <<>>
  BY <1>1, <1>4
<1>6. /\ h = "pmuOff" => n = "restore"
      /\ h = "restore" => n = "unregister"
      /\ h = "unregister" => n = "stop"
      /\ h = "stop" => n = "release"
      /\ h = "start" => n = "request"
      /\ h = "request" => n = "connect"
      /\ h = "register" => n = "pmuOn"
      /\ h = "load" => n \in {"short", "long", "insert"}
      /\ h = "long" => n = "sti"
      /\ h = "cli" => n = "pmuOff"
  BY <1>1, <1>5, ThenOf
<1>7. h = "release" => /\ t # <<>> => n \in {"sti", "load"}
                       /\ place \in {"standby", "off", "os"} => t = <<>>
                       /\ place = "asleep" => t # <<>> /\ n = "sti"
  <2>1. h = "release" => (t # <<>> => n \in {"sti", "load"})
    BY <1>1, ThenOf
  <2>2. h = "release" /\ place \in {"standby", "off", "os"} => t = <<>>
    BY <1>1, <2>1, PlaceCalls
  <2>3. h = "release" /\ place = "asleep" => t # <<>> /\ n = "sti"
    BY <1>1, <1>3, <2>1, PlaceCalls
  <2>4. QED BY <2>1, <2>2, <2>3
<1>8. h = "connect" => /\ t # <<>> => n = "pmuOff"
                       /\ place \in {"show", "plugged"} => t = <<>>
  <2>1. h = "connect" => (t # <<>> => n = "pmuOff")
    BY <1>1, ThenOf
  <2>2. QED BY <1>1, <2>1, PlaceCalls
<1>9. h = "pmuOn" => /\ t # <<>> => n \in {"start", "pmuOff"}
                     /\ place = "off" => t # <<>> /\ n = "pmuOff"
  <2>1. h = "pmuOn" => (t # <<>> => n \in {"start", "pmuOff"})
    BY <1>1, ThenOf
  <2>2. h = "pmuOn" /\ place = "off" => t # <<>> /\ n = "pmuOff"
    BY <1>1, <1>3, <2>1, PlaceCalls
  <2>3. QED BY <2>1, <2>2
<1>10. h \in {"short", "insert"} => t = <<>>
  BY <1>1, ThenOf
<1>11. h = "sti" => /\ t # <<>> => n = "register"
                    /\ place = "asleep" => t = <<>>
  <2>1. h = "sti" => (t # <<>> => n = "register")
    BY <1>1, ThenOf
  <2>2. QED BY <1>1, <2>1, PlaceCalls
<1>12. QED
  BY <1>2, <1>5, <1>6, <1>7, <1>8, <1>9, <1>10, <1>11 DEF h, t, n

LEMMA ChargeInitInv == ChargeInit => ChargeInv
<1> SUFFICES ASSUME ChargeInit PROVE ChargeInv
  OBVIOUS
<1>1. main.at = "check" /\ main.todo = <<>> /\ Len(main.todo) = 0 /\ 1 .. Len(main.todo) = {} /\ main.reg = {}
  BY DEF ChargeInit
<1>2. \A s : ~Has(main.todo, s)
  BY <1>1 DEF Has
<1>3. Planned(main.at, main.todo)
  <2>1. <<>> \in Seq(CallsAt[main.at])
    BY EmptySeq
  <2>2. QED BY <1>1, <2>1 DEF Planned
<1>4. main \in [at : Places, todo : Seq(MainCalls), reg : SUBSET Flags, rounds : Nat]
  <2>1. <<>> \in Seq(MainCalls) /\ "check" \in Places
    BY EmptySeq, PlaceCalls
  <2>2. QED BY <2>1 DEF ChargeInit
<1>5. ChargeTypeOK
  <2>1. pmu \in PowerChip
    BY DEF ChargeInit, PowerChip, Masks
  <2>2. QED BY <1>3, <1>4, <2>1 DEF ChargeInit, ChargeTypeOK, Flags
<1>6. CpuMasked
  BY <1>2 DEF CpuMasked, ChargeInit
<1>7. MasksKept /\ SwitchedOff
  BY <1>1 DEF MasksKept, SwitchedOff, HeadIs, ChargeInit, LeftPlaces
<1>8. TimerOfDetection /\ HalfEntered /\ LeftOn /\ RegUsed /\ TimersKnown
  BY <1>1 DEF TimerOfDetection, HalfEntered, LeftOn, RegUsed, TimersKnown, HeadIs, ChargeInit
<1>9. BeforeFirst
  BY <1>1 DEF BeforeFirst, ChargeInit, DetectOff
<1>10. QED BY <1>5, <1>6, <1>7, <1>8, <1>9 DEF ChargeInv

\* What a handler finds: the main program is not behind cli.
LEMMA HandlerBegins ==
    ASSUME ChargeInv, cpu, UNCHANGED <<main, pmu, cpu>>,
           flags' \in SUBSET Flags, usb' \in [on : BOOLEAN, clock : BOOLEAN, irq : BOOLEAN],
           timer' \in [handle : TIMERS \union {0}, requested : SUBSET TIMERS, armed : SUBSET TIMERS],
           vbus' \in [present : BOOLEAN, recent : BOOLEAN, astray : BOOLEAN]
    PROVE  ChargeTypeOK' /\ CpuMasked' /\ MasksKept'
<1>1. ChargeTypeOK'
  BY DEF ChargeInv, ChargeTypeOK
<1>2. CpuMasked'
  BY DEF ChargeInv, CpuMasked
<1>3. MasksKept'
  BY DEF ChargeInv, MasksKept, HeadIs
<1>4. QED BY <1>1, <1>2, <1>3

\* A key, or what the handler takes for one.
LEMMA KeysHandled ==
    ASSUME ChargeInv, cpu, UNCHANGED <<main, pmu, usb, timer, cpu, vbus>>,
           flags' \in SUBSET Flags, "pc" \in flags' <=> "pc" \in flags
    PROVE  ChargeInv'
<1>1. ChargeTypeOK' /\ CpuMasked' /\ MasksKept'
  <2>1. /\ usb' \in [on : BOOLEAN, clock : BOOLEAN, irq : BOOLEAN]
        /\ timer' \in [handle : TIMERS \union {0}, requested : SUBSET TIMERS, armed : SUBSET TIMERS]
        /\ vbus' \in [present : BOOLEAN, recent : BOOLEAN, astray : BOOLEAN]
    BY DEF ChargeInv, ChargeTypeOK
  <2>2. QED BY <2>1, HandlerBegins
<1>2. SwitchedOff' /\ TimerOfDetection' /\ HalfEntered' /\ TimersKnown'
  BY DEF ChargeInv, SwitchedOff, TimerOfDetection, HalfEntered, TimersKnown, HeadIs, Exiting, DetectOff
<1>3. BeforeFirst' /\ LeftOn' /\ RegUsed'
  BY DEF ChargeInv, BeforeFirst, LeftOn, RegUsed, HeadIs, Exiting, DetectOff, Has
<1>4. QED BY <1>1, <1>2, <1>3 DEF ChargeInv

LEMMA KeyInterruptStep == ASSUME ChargeInv, KeyInterrupt PROVE ChargeInv'
<1>1. /\ UNCHANGED <<main, pmu, usb, timer, cpu, vbus>> /\ cpu
      /\ flags' \in SUBSET Flags /\ ("pc" \in flags' <=> "pc" \in flags)
  BY DEF KeyInterrupt, ChargeInv, ChargeTypeOK, Flags
<1>2. QED BY <1>1, KeysHandled

LEMMA ReleasedTimer ==
    ASSUME ChargeTypeOK
    PROVE  /\ Released \in [handle : TIMERS \union {0}, requested : SUBSET TIMERS, armed : SUBSET TIMERS]
           /\ Released.armed \subseteq timer.armed /\ Released.handle = 0
           /\ timer.armed \subseteq {timer.handle} => Released.armed = {}
<1>1. timer \in [handle : TIMERS \union {0}, requested : SUBSET TIMERS, armed : SUBSET TIMERS]
  BY DEF ChargeTypeOK
<1>2. CASE timer.handle = 0
  <2>1. Released = timer
    BY <1>2 DEF Released
  <2>2. 0 \notin timer.armed
    BY <1>1, TimerHandles
  <2>3. QED BY <1>1, <1>2, <2>1, <2>2
<1>3. CASE timer.handle # 0
  <2>1. Released = [handle |-> 0, requested |-> timer.requested \ {timer.handle},
                    armed |-> timer.armed \ {timer.handle}]
    BY <1>3 DEF Released
  <2>2. QED BY <1>1, <2>1
<1>4. QED BY <1>2, <1>3

LEMMA DetectOffKnown ==
    /\ DetectOff \in [on : BOOLEAN, clock : BOOLEAN, irq : BOOLEAN]
    /\ DetectOff.on = FALSE /\ DetectOff.clock = FALSE /\ DetectOff.irq = FALSE
BY DEF DetectOff

LEMMA TimerInterruptStep == ASSUME ChargeInv, TimerInterrupt PROVE ChargeInv'
<1>1. PICK t \in timer.armed : timer' = [timer EXCEPT !.armed = @ \ {t}]
  BY DEF TimerInterrupt
<1>2. /\ UNCHANGED <<main, pmu, cpu, vbus>> /\ cpu
      /\ timer \in [handle : TIMERS \union {0}, requested : SUBSET TIMERS, armed : SUBSET TIMERS]
      /\ usb \in [on : BOOLEAN, clock : BOOLEAN, irq : BOOLEAN] /\ flags \in SUBSET Flags
      /\ vbus \in [present : BOOLEAN, recent : BOOLEAN, astray : BOOLEAN]
  BY DEF TimerInterrupt, ChargeInv, ChargeTypeOK
<1>3. /\ timer' \in [handle : TIMERS \union {0}, requested : SUBSET TIMERS, armed : SUBSET TIMERS]
      /\ timer'.armed = timer.armed \ {t} /\ timer'.handle = timer.handle
      /\ timer.armed \subseteq {timer.handle} => timer'.armed = {}
  BY <1>1, <1>2
<1>4. /\ flags' \subseteq flags /\ flags' \in SUBSET Flags
      /\ usb' \in [on : BOOLEAN, clock : BOOLEAN, irq : BOOLEAN]
      /\ ~usb'.on /\ (usb'.irq => usb.irq /\ "pc" \in flags)
      /\ usb' = DetectOff \/ "pc" \in flags
      /\ usb = DetectOff => usb' = DetectOff
  <2>1. CASE "pc" \in flags
    <3>1. flags' = flags \ {"pc"} /\ usb' = [usb EXCEPT !.on = FALSE]
      BY <2>1 DEF TimerInterrupt
    <3>2. usb' = [on |-> FALSE, clock |-> usb.clock, irq |-> usb.irq]
      BY <1>2, <3>1
    <3>3. usb = DetectOff => usb' = DetectOff
      BY <3>2 DEF DetectOff
    <3>4. usb'.on = FALSE /\ usb'.irq = usb.irq /\ usb' \in [on : BOOLEAN, clock : BOOLEAN, irq : BOOLEAN]
      BY <1>2, <3>2
    <3>5. QED BY <1>2, <2>1, <3>1, <3>3, <3>4
  <2>2. CASE "pc" \notin flags
    <3>1. flags' = flags /\ usb' = DetectOff
      BY <2>2 DEF TimerInterrupt
    <3>2. QED BY <1>2, <3>1, DetectOffKnown
  <2>3. QED BY <2>1, <2>2
<1>5. ChargeTypeOK' /\ CpuMasked' /\ MasksKept'
  <2>1. ChargeTypeOK'
    BY <1>2, <1>3, <1>4 DEF ChargeInv, ChargeTypeOK
  <2>2. CpuMasked' /\ MasksKept'
    BY <1>2 DEF ChargeInv, CpuMasked, MasksKept, HeadIs
  <2>3. QED BY <2>1, <2>2
<1>6. SwitchedOff'
  BY <1>2, <1>4 DEF ChargeInv, SwitchedOff, HeadIs, DetectOff
<1>7. TimersKnown' /\ TimerOfDetection'
  BY <1>2, <1>3 DEF ChargeInv, TimersKnown, TimerOfDetection, HeadIs, Exiting
<1>8. HalfEntered'
  BY <1>1, <1>2, <1>3 DEF ChargeInv, HalfEntered, HeadIs
<1>9. BeforeFirst'
  BY <1>1, <1>2 DEF ChargeInv, BeforeFirst, Has
<1>10. LeftOn'
  BY <1>2, <1>4 DEF ChargeInv, LeftOn, HeadIs, Exiting
<1>11. RegUsed'
  BY <1>2, <1>4 DEF ChargeInv, RegUsed, HeadIs
<1>12. QED BY <1>5, <1>6, <1>7, <1>8, <1>9, <1>10, <1>11 DEF ChargeInv

LEMMA ResetInterruptStep == ASSUME ChargeInv, ResetInterrupt PROVE ChargeInv'
<1>1. /\ UNCHANGED <<main, pmu, cpu, vbus>> /\ cpu /\ usb.irq /\ usb.clock
      /\ usb' = DetectOff /\ flags' = flags \union {"pc"} /\ timer' = Released
      /\ usb # DetectOff
  BY DetectOffKnown DEF ResetInterrupt
<1>2. /\ timer' \in [handle : TIMERS \union {0}, requested : SUBSET TIMERS, armed : SUBSET TIMERS]
      /\ timer'.armed \subseteq timer.armed /\ timer'.handle = 0
      /\ vbus'.astray \/ timer'.armed = {}
  BY <1>1, ReleasedTimer DEF ChargeInv, TimersKnown
<1>3. ChargeTypeOK' /\ CpuMasked' /\ MasksKept'
  <2>1. /\ usb' \in [on : BOOLEAN, clock : BOOLEAN, irq : BOOLEAN]
        /\ flags' \in SUBSET Flags
        /\ vbus' \in [present : BOOLEAN, recent : BOOLEAN, astray : BOOLEAN]
    BY <1>1, DetectOffKnown DEF ChargeInv, ChargeTypeOK, Flags
  <2>2. QED BY <1>1, <1>2, <2>1, HandlerBegins
<1>4. SwitchedOff'
  BY <1>1 DEF ChargeInv, SwitchedOff, HeadIs, DetectOff
<1>5. TimersKnown' /\ TimerOfDetection'
  BY <1>2 DEF TimersKnown, TimerOfDetection
<1>6. HalfEntered'
  BY <1>1, <1>2 DEF ChargeInv, HalfEntered, HeadIs
<1>7. BeforeFirst'
  BY <1>1 DEF ChargeInv, BeforeFirst, Has
<1>8. LeftOn'
  BY <1>1, DetectOffKnown DEF LeftOn
<1>9. RegUsed'
  <2>1. main.reg # {} => HeadIs(Flags)
    BY DEF ChargeInv, RegUsed
  <2>2. main.at \in {"show", "menu"} /\ HeadIs({"request", "connect"}) => vbus.astray
    BY <1>1 DEF ChargeInv, HalfEntered, HeadIs
  <2>3. main.at \in {"show", "menu"} => vbus.astray \/ ~HeadIs({"start"})
    <3>1. main.at \in {"show", "menu"} /\ HeadIs({"start"}) => Has(main.todo, "start")
      <4> SUFFICES ASSUME main.at \in {"show", "menu"}, HeadIs({"start"}) PROVE Has(main.todo, "start")
        OBVIOUS
      <4>1. main.at \in Places /\ Planned(main.at, main.todo)
        BY DEF ChargeInv, ChargeTypeOK
      <4>2. QED BY <4>1, PlanRest DEF HeadIs
    <3>2. QED BY <1>1, <3>1 DEF ChargeInv, BeforeFirst
  <2>4. main.at \in {"show", "menu"} /\ HeadIs(EnterCalls) => vbus.astray
    BY <2>2, <2>3 DEF HeadIs, EnterCalls
  <2>5. QED BY <1>1, <2>1, <2>4 DEF RegUsed, HeadIs
<1>10. QED BY <1>3, <1>4, <1>5, <1>6, <1>7, <1>8, <1>9 DEF ChargeInv

\* What power_int_handler does for VBUS: it ends the detection, or starts one that does
\* not run yet, which is in order when power has just come in.
LEMMA PowerHandled ==
    ASSUME ChargeInv, cpu, pmu.on, UNCHANGED <<main, pmu, cpu>>,
           flags' \in SUBSET Flags, "pc" \in flags' <=> "pc" \in flags,
           vbus' \in [present : BOOLEAN, recent : BOOLEAN, astray : BOOLEAN],
           vbus.astray \/ InCall => vbus'.astray,
           Removed \/ Inserted,
           Removed \/ usb.on \/ vbus'.astray \/ (~vbus.present /\ ~vbus.recent),
           Removed \/ vbus'.present \/ vbus'.astray \/ (usb.on /\ ~vbus.present),
           vbus'.present \/ vbus'.recent \/ ~(vbus.present \/ vbus.recent)
    PROVE  ChargeInv'
<1>1. /\ timer \in [handle : TIMERS \union {0}, requested : SUBSET TIMERS, armed : SUBSET TIMERS]
      /\ usb \in [on : BOOLEAN, clock : BOOLEAN, irq : BOOLEAN]
      /\ vbus \in [present : BOOLEAN, recent : BOOLEAN, astray : BOOLEAN]
  BY DEF ChargeInv, ChargeTypeOK
<1>2. HeadIs({"request", "connect", "release"}) => vbus'.astray
  BY DEF InCall, HeadIs
<1>3. vbus.astray => vbus'.astray
  OBVIOUS
\* Either everything is off, or a detection runs.
<1>4. /\ usb' \in [on : BOOLEAN, clock : BOOLEAN, irq : BOOLEAN]
      /\ timer' \in [handle : TIMERS \union {0}, requested : SUBSET TIMERS, armed : SUBSET TIMERS]
      /\ Removed => /\ usb' = DetectOff
                    /\ vbus'.astray \/ timer'.armed = {}
      /\ ~Removed => usb'.on
      /\ vbus'.astray \/ timer'.armed \subseteq {timer'.handle}
  <2>1. CASE Removed
    <3>1. usb' = DetectOff /\ timer' = Released
      BY <2>1 DEF Removed
    <3>2. ChargeTypeOK /\ (timer.armed \subseteq {timer.handle} \/ vbus.astray)
      BY DEF ChargeInv, TimersKnown
    <3>3. vbus'.astray \/ timer'.armed = {}
      BY <1>3, <3>1, <3>2, ReleasedTimer
    <3>4. QED BY <2>1, <3>1, <3>2, <3>3, DetectOffKnown, ReleasedTimer
  <2>2. CASE ~Removed /\ usb.on
    <3>1. usb' = usb /\ timer' = timer
      BY <2>2 DEF Inserted
    <3>2. QED BY <1>1, <1>3, <2>2, <3>1 DEF ChargeInv, TimersKnown
  <2>3. CASE ~Removed /\ ~usb.on
    <3>1. /\ usb' = [DetectOn EXCEPT !.irq = TRUE]
          /\ \/ timer' = [timer EXCEPT !.handle = 0]
             \/ \E t \in TIMERS \ timer.requested :
                    timer' = [handle |-> t, requested |-> timer.requested \union {t},
                              armed |-> timer.armed \union {t}]
      BY <2>3 DEF Inserted
    <3>2. usb' \in [on : BOOLEAN, clock : BOOLEAN, irq : BOOLEAN] /\ usb'.on
      BY <1>1, <3>1 DEF DetectOn
    <3>3. vbus'.astray \/ timer.armed = {}
      <4>1. vbus'.astray \/ ~vbus.present
        BY <2>3
      <4>2. ~vbus.present /\ ~vbus.astray /\ ~HeadIs({"release"}) => timer.armed = {}
        BY <2>3 DEF ChargeInv, TimerOfDetection
      <4>3. HeadIs({"release"}) => vbus'.astray
        BY <1>2 DEF HeadIs
      <4>4. QED BY <1>3, <4>1, <4>2, <4>3
    <3>4. /\ timer' \in [handle : TIMERS \union {0}, requested : SUBSET TIMERS, armed : SUBSET TIMERS]
          /\ timer.armed = {} => timer'.armed \subseteq {timer'.handle}
      BY <1>1, <3>1
    <3>5. QED BY <2>3, <3>2, <3>3, <3>4
  <2>4. QED BY <2>1, <2>2, <2>3
<1>5. ChargeTypeOK' /\ CpuMasked' /\ MasksKept'
  BY <1>4, HandlerBegins
\* The power chip's interrupt is on: the way out has not begun.
<1>6. SwitchedOff'
  <2>1. ~HeadIs({"restore", "unregister"}) /\ (HeadIs({"stop", "release"}) => main.at = "standby")
    BY DEF ChargeInv, SwitchedOff
  <2>2. main.at \in LeftPlaces \union {"asleep"} => ~(HeadIs({"sti"}) \/ main.todo = <<>>)
    BY DEF ChargeInv, SwitchedOff
  <2>3. main.at \in LeftPlaces \union {"asleep"} => ~HeadIs({"release"})
    BY <2>1 DEF HeadIs, LeftPlaces
  <2>4. QED BY <2>1, <2>2, <2>3 DEF SwitchedOff, HeadIs
<1>7. TimersKnown' /\ TimerOfDetection'
  BY <1>2, <1>4 DEF TimersKnown, TimerOfDetection
<1>8. HalfEntered'
  BY <1>2 DEF HalfEntered, HeadIs
<1>9. BeforeFirst'
  <2> SUFFICES ASSUME main.at = "check" \/ (main.at \in {"show", "menu"} /\ Has(main.todo, "start")), ~vbus'.astray
               PROVE  usb' = DetectOff /\ timer'.armed = {} /\ (vbus'.present \/ vbus'.recent)
                      /\ "pc" \notin flags' \union main'.reg
    BY DEF BeforeFirst, Has
  <2>1. usb = DetectOff /\ timer.armed = {} /\ (vbus.present \/ vbus.recent) /\ "pc" \notin flags \union main.reg
    BY <1>3 DEF ChargeInv, BeforeFirst
  <2>2. Removed
    BY <2>1, DetectOffKnown
  <2>3. QED BY <1>4, <2>1, <2>2
<1>10. LeftOn'
  <2>1. CASE Removed
    BY <1>4, <2>1, DetectOffKnown DEF LeftOn
  <2>2. CASE ~Removed /\ (vbus'.present \/ vbus'.astray)
    BY <2>2 DEF LeftOn
  <2>3. CASE ~Removed /\ usb.on /\ ~vbus.present
    <3>1. usb' = usb
      BY <2>3 DEF Inserted
    <3>2. usb.irq => vbus.astray \/ Exiting \/ ("pc" \notin flags \union main.reg)
      BY <2>3 DEF ChargeInv, LeftOn
    <3>3. Exiting => Exiting'
      BY DEF Exiting, HeadIs
    <3>4. QED BY <1>3, <2>3, <3>1, <3>2, <3>3 DEF LeftOn
  <2>4. QED BY <2>1, <2>2, <2>3
<1>11. RegUsed'
  BY <1>3 DEF ChargeInv, RegUsed, HeadIs
<1>12. QED BY <1>5, <1>6, <1>7, <1>8, <1>9, <1>10, <1>11 DEF ChargeInv

LEMMA VbusInterruptStep == ASSUME ChargeInv, VbusInterrupt PROVE ChargeInv'
<1>1. /\ UNCHANGED <<main, pmu, cpu>> /\ cpu /\ pmu.on /\ ~vbus.recent
      /\ vbus' = [present |-> ~vbus.present, recent |-> TRUE, astray |-> vbus.astray \/ InCall]
      /\ vbus \in [present : BOOLEAN, recent : BOOLEAN, astray : BOOLEAN]
      /\ flags \in SUBSET Flags
  BY DEF VbusInterrupt, ChargeInv, ChargeTypeOK
<1>2. /\ vbus' \in [present : BOOLEAN, recent : BOOLEAN, astray : BOOLEAN]
      /\ vbus'.present = ~vbus.present /\ vbus'.recent
      /\ vbus.astray \/ InCall => vbus'.astray
  <2>1. InCall \in BOOLEAN
    BY DEF InCall
  <2>2. (~vbus.present) \in BOOLEAN /\ (vbus.astray \/ InCall) \in BOOLEAN
    BY <1>1, <2>1
  <2> HIDE DEF InCall
  <2>3. QED BY <1>1, <2>2
<1>3. CASE vbus.present
  <2>1. Removed /\ flags' = flags
    BY <1>3 DEF VbusInterrupt
  <2>2. QED BY <1>1, <1>2, <2>1, PowerHandled
<1>4. CASE ~vbus.present
  <2>1. Inserted /\ flags' = flags \union {"insert"}
    BY <1>4 DEF VbusInterrupt
  <2>2. flags' \in SUBSET Flags /\ ("pc" \in flags' <=> "pc" \in flags)
    BY <1>1, <2>1 DEF Flags
  <2>3. QED BY <1>1, <1>2, <1>4, <2>1, <2>2, PowerHandled
<1>5. QED BY <1>3, <1>4

\* An interrupt whose bits could not be read.
LEMMA GarbledInterruptStep == ASSUME ChargeInv, GarbledInterrupt PROVE ChargeInv'
<1>1. /\ UNCHANGED <<main, pmu, cpu>> /\ cpu /\ pmu.on
      /\ vbus \in [present : BOOLEAN, recent : BOOLEAN, astray : BOOLEAN]
      /\ usb \in [on : BOOLEAN, clock : BOOLEAN, irq : BOOLEAN]
      /\ flags \in SUBSET Flags
  BY DEF GarbledInterrupt, ChargeInv, ChargeTypeOK
<1>2. PICK key \in {{}, {"short"}, {"long"}} :
        \/ flags' = flags \union key /\ UNCHANGED <<usb, timer, vbus>>
        \/ /\ flags' = flags \union key
           /\ Removed /\ vbus' = [vbus EXCEPT !.astray = vbus.astray \/ InCall]
        \/ /\ flags' = flags \union key \union {"insert"}
           /\ Inserted /\ vbus' = [vbus EXCEPT !.astray = vbus.astray \/ InCall \/ ~usb.on]
  BY DEF GarbledInterrupt
<1>3. flags' \in SUBSET Flags /\ ("pc" \in flags' <=> "pc" \in flags)
  <2>1. flags' = flags \union key \/ flags' = flags \union key \union {"insert"}
    BY <1>2
  <2>2. key \subseteq {"short", "long"}
    OBVIOUS
  <2>3. QED BY <1>1, <2>1, <2>2 DEF Flags
<1>4. CASE UNCHANGED <<usb, timer, vbus>>
  BY <1>1, <1>3, <1>4, KeysHandled
<1>5. InCall \in BOOLEAN
  BY DEF InCall
<1> HIDE DEF InCall
<1>6. CASE Removed /\ vbus' = [vbus EXCEPT !.astray = vbus.astray \/ InCall]
  <2>1. /\ vbus' \in [present : BOOLEAN, recent : BOOLEAN, astray : BOOLEAN]
        /\ vbus'.present = vbus.present /\ vbus'.recent = vbus.recent
        /\ vbus.astray \/ InCall => vbus'.astray
    BY <1>1, <1>5, <1>6
  <2>2. QED BY <1>1, <1>3, <1>6, <2>1, PowerHandled
<1>7. CASE Inserted /\ vbus' = [vbus EXCEPT !.astray = vbus.astray \/ InCall \/ ~usb.on]
  <2>1. (vbus.astray \/ InCall \/ ~usb.on) \in BOOLEAN
    BY <1>1, <1>5
  <2>2. /\ vbus' \in [present : BOOLEAN, recent : BOOLEAN, astray : BOOLEAN]
        /\ vbus'.present = vbus.present /\ vbus'.recent = vbus.recent
        /\ vbus.astray \/ InCall => vbus'.astray
        /\ usb.on \/ vbus'.astray
    BY <1>1, <1>5, <1>7, <2>1
  <2>3. vbus'.present \/ vbus'.astray \/ (usb.on /\ ~vbus.present)
    BY <1>1, <2>2
  <2>4. QED BY <1>1, <1>3, <1>7, <2>2, <2>3, PowerHandled
<1>8. QED BY <1>2, <1>4, <1>6, <1>7

\* A step of the main program that plans its next calls.
LEMMA PlanBegins ==
    ASSUME ChargeInv, main.todo = <<>>, NEW place \in Places, NEW q,
           main' \in [at : Places, todo : Seq(MainCalls), reg : SUBSET Flags, rounds : Nat],
           main'.at = place, main'.todo = q, main'.reg = main.reg,
           Planned(place, q), Has(q, "sti") => Has(q, "cli"),
           UNCHANGED <<flags, pmu, usb, timer, cpu>>,
           vbus' = vbus \/ vbus' = [vbus EXCEPT !.recent = FALSE],
           place # "check",
           q = <<>> => place \notin LeftPlaces \union {"asleep"},
           q # <<>> => Head(q) \in {"pmuOff", "register", "cli", "start", "stop", "load"},
           q # <<>> /\ Head(q) = "stop" => place = "standby",
           q # <<>> /\ Head(q) = "start" => place = "plugged",
           main.at = "plugged" => place = "standby" /\ q # <<>> /\ Head(q) = "stop",
           place \in {"show", "menu"} /\ Has(q, "start") => main.at = "check" /\ vbus' = vbus,
           main.at \notin LeftPlaces
    PROVE  ChargeInv'
<1>1. /\ vbus' \in [present : BOOLEAN, recent : BOOLEAN, astray : BOOLEAN]
      /\ vbus'.present = vbus.present /\ vbus'.astray = vbus.astray
  BY DEF ChargeInv, ChargeTypeOK
<1>2. ChargeTypeOK'
  BY <1>1 DEF ChargeInv, ChargeTypeOK
<1>3. \A S : ~HeadIs(S)
  BY DEF HeadIs
<1>4. \A s : ~Has(main.todo, s)
  <2>1. Len(main.todo) = 0 /\ 1 .. Len(main.todo) = {}
    OBVIOUS
  <2>2. QED BY <2>1 DEF Has
<1>5. CpuMasked'
  <2>1. cpu
    BY <1>4 DEF ChargeInv, CpuMasked
  <2>2. cpu' = cpu /\ cpu' \in BOOLEAN /\ main'.todo = q
    BY <1>2 DEF ChargeTypeOK
  <2>3. QED BY <2>1, <2>2 DEF CpuMasked, Has
<1>6. main.reg = {}
  BY <1>3 DEF ChargeInv, RegUsed
<1>7. MasksKept'
  BY <1>3 DEF ChargeInv, MasksKept, HeadIs
<1>8. SwitchedOff'
  BY DEF SwitchedOff, HeadIs, LeftPlaces
<1>9. TimersKnown' /\ HalfEntered'
  BY <1>1 DEF ChargeInv, TimersKnown, HalfEntered, HeadIs
<1>10. Exiting => Exiting'
  BY <1>3 DEF Exiting, HeadIs
<1>11. TimerOfDetection'
  BY <1>1, <1>3, <1>10 DEF ChargeInv, TimerOfDetection
<1>12. BeforeFirst'
  BY DEF ChargeInv, BeforeFirst, Has
<1>13. LeftOn'
  BY <1>1, <1>10 DEF ChargeInv, LeftOn
<1>14. RegUsed'
  BY <1>6 DEF RegUsed, HeadIs, EnterCalls
<1>15. QED BY <1>2, <1>5, <1>7, <1>8, <1>9, <1>11, <1>12, <1>13, <1>14 DEF ChargeInv

LEMMA NothingLeft == \A place \in Places : Planned(place, <<>>) /\ \A s : ~Has(<<>>, s)
<1>1. Len(<<>>) = 0 /\ 1 .. Len(<<>>) = {}
  OBVIOUS
<1>2. \A place \in Places : <<>> \in Seq(CallsAt[place])
  BY EmptySeq
<1>3. QED BY <1>1, <1>2 DEF Planned, Has

LEMMA ChargeMain ==
    ChargeInv => main \in [at : Places, todo : Seq(MainCalls), reg : SUBSET Flags, rounds : Nat]
BY DEF ChargeInv, ChargeTypeOK

\* The calls planned at each place.
LEMMA Plans ==
    /\ \A place \in {"os", "off"} : /\ Planned(place, Quit) /\ Quit \in Seq(MainCalls) /\ Quit # <<>>
                                    /\ Head(Quit) = "pmuOff" /\ ~Has(Quit, "sti") /\ ~Has(Quit, "start")
    /\ LET q == Reg \o Enter \o Rel \o Exit
       IN Planned("menu", q) /\ q \in Seq(MainCalls) /\ q # <<>> /\ Head(q) = "register" /\ ~Has(q, "sti")
    /\ LET q == Reg \o Enter
       IN Planned("show", q) /\ q \in Seq(MainCalls) /\ q # <<>> /\ Head(q) = "register" /\ ~Has(q, "sti")
BY QuitPlanned, DetectPlanned, RegEnterPlanned

LEMMA CheckPowerStep == ASSUME ChargeInv, CheckPower PROVE ChargeInv'
<1>1. /\ main.at = "check" /\ main.todo = <<>> /\ UNCHANGED <<flags, pmu, usb, timer, cpu, vbus>>
      /\ main \in [at : Places, todo : Seq(MainCalls), reg : SUBSET Flags, rounds : Nat]
  BY ChargeMain DEF CheckPower
<1>2. ASSUME NEW place \in {"off", "menu", "show"}, NEW q \in Seq(MainCalls), Goto(place, q),
             Planned(place, q), ~Has(q, "sti"),
             \/ place = "off" /\ q # <<>> /\ Head(q) = "pmuOff"
             \/ place \in {"menu", "show"} /\ q # <<>> /\ Head(q) = "register"
             \/ place = "menu" /\ q = <<>>
      PROVE  ChargeInv'
  <2>1. place \in Places
    BY PlaceCalls
  <2>2. /\ main' \in [at : Places, todo : Seq(MainCalls), reg : SUBSET Flags, rounds : Nat]
        /\ main'.at = place /\ main'.todo = q /\ main'.reg = main.reg
    BY <1>1, <1>2, <2>1 DEF Goto
  <2>3. QED BY <1>1, <1>2, <2>1, <2>2, PlanBegins DEF LeftPlaces
<1>3. CASE Goto("off", Quit)
  BY <1>2, <1>3, Plans
<1>4. CASE Goto("menu", <<>>)
  <2>1. <<>> \in Seq(MainCalls) /\ "menu" \in Places
    BY EmptySeq, PlaceCalls
  <2>2. QED BY <1>2, <1>4, <2>1, NothingLeft
<1>5. CASE Goto("menu", Reg \o Enter \o Rel \o Exit)
  BY <1>2, <1>5, Plans
<1>6. CASE Goto("show", Reg \o Enter)
  BY <1>2, <1>6, Plans
<1>7. QED BY <1>3, <1>4, <1>5, <1>6 DEF CheckPower

LEMMA StandbyStep == ASSUME ChargeInv, Standby PROVE ChargeInv'
<1>1. /\ main.at = "standby" /\ main.todo = <<>> /\ UNCHANGED <<flags, pmu, usb, timer, cpu, vbus>>
      /\ main \in [at : Places, todo : Seq(MainCalls), reg : SUBSET Flags, rounds : Nat]
      /\ Goto("plug", Clear("insert")) \/ Goto("asleep", Doze)
  BY ChargeMain DEF Standby
<1>2. ASSUME NEW place \in {"plug", "asleep"}, NEW q \in Seq(MainCalls), Goto(place, q),
             Planned(place, q), Has(q, "sti") => Has(q, "cli"), q # <<>>, Head(q) \in {"cli", "load"}
      PROVE  ChargeInv'
  <2>1. place \in Places
    BY PlaceCalls
  <2>2. /\ main' \in [at : Places, todo : Seq(MainCalls), reg : SUBSET Flags, rounds : Nat]
        /\ main'.at = place /\ main'.todo = q /\ main'.reg = main.reg
    BY <1>1, <1>2, <2>1 DEF Goto
  <2>3. QED BY <1>1, <1>2, <2>1, <2>2, PlanBegins DEF LeftPlaces
<1>3. CASE Goto("plug", Clear("insert"))
  BY <1>2, <1>3, ClearInsertPlanned
<1>4. CASE Goto("asleep", Doze)
  BY <1>2, <1>4, DozePlanned
<1>5. QED BY <1>1, <1>3, <1>4

LEMMA PlugStep == ASSUME ChargeInv, Plug PROVE ChargeInv'
<1>1. /\ main.at = "plug" /\ main.todo = <<>> /\ UNCHANGED <<flags, pmu, usb, timer, cpu, vbus>>
      /\ main \in [at : Places, todo : Seq(MainCalls), reg : SUBSET Flags, rounds : Nat]
      /\ main' = [main EXCEPT !.at = "plugged", !.todo = Enter]
  BY ChargeMain DEF Plug, Goto
<1>2. /\ Planned("plugged", Enter) /\ ~Has(Enter, "sti") /\ Enter \in Seq(MainCalls)
      /\ Enter # <<>> /\ Head(Enter) = "start"
  BY EnterPlanned
<1>3. "plugged" \in Places
  BY PlaceCalls
<1>4. /\ main' \in [at : Places, todo : Seq(MainCalls), reg : SUBSET Flags, rounds : Nat]
      /\ main'.at = "plugged" /\ main'.todo = Enter /\ main'.reg = main.reg
  BY <1>1, <1>2, <1>3
<1>5. QED BY <1>1, <1>2, <1>3, <1>4, PlanBegins DEF LeftPlaces

LEMMA PluggedStep == ASSUME ChargeInv, Plugged PROVE ChargeInv'
<1>1. /\ main.at = "plugged" /\ main.todo = <<>> /\ UNCHANGED <<flags, pmu, usb, timer, cpu>>
      /\ main \in [at : Places, todo : Seq(MainCalls), reg : SUBSET Flags, rounds : Nat]
      /\ main' = [main EXCEPT !.at = "standby", !.todo = Exit]
      /\ vbus' = [vbus EXCEPT !.recent = FALSE]
  BY ChargeMain DEF Plugged, Goto
<1>2. /\ Planned("standby", Exit) /\ ~Has(Exit, "sti") /\ Exit \in Seq(MainCalls)
      /\ Exit # <<>> /\ Head(Exit) = "stop"
  BY ExitPlanned
<1>3. "standby" \in Places
  BY PlaceCalls
<1>4. /\ main' \in [at : Places, todo : Seq(MainCalls), reg : SUBSET Flags, rounds : Nat]
      /\ main'.at = "standby" /\ main'.todo = Exit /\ main'.reg = main.reg
  BY <1>1, <1>2, <1>3
<1>5. QED BY <1>1, <1>2, <1>3, <1>4, PlanBegins DEF LeftPlaces

LEMMA BootPlansStep == ASSUME ChargeInv, Boot PROVE ChargeInv'
<1>1. /\ main.at = "menu" /\ main.todo = <<>> /\ UNCHANGED <<flags, pmu, usb, timer, cpu>>
      /\ main \in [at : Places, todo : Seq(MainCalls), reg : SUBSET Flags, rounds : Nat]
      /\ vbus' = [vbus EXCEPT !.recent = FALSE]
  BY ChargeMain DEF Boot, Goto
<1>2. ASSUME NEW place \in {"os", "off"}, Goto(place, Quit) PROVE ChargeInv'
  <2>1. /\ Planned(place, Quit) /\ ~Has(Quit, "sti") /\ ~Has(Quit, "start") /\ Quit \in Seq(MainCalls)
        /\ Quit # <<>> /\ Head(Quit) = "pmuOff" /\ place \in Places
    BY Plans, PlaceCalls
  <2>2. /\ main' \in [at : Places, todo : Seq(MainCalls), reg : SUBSET Flags, rounds : Nat]
        /\ main'.at = place /\ main'.todo = Quit /\ main'.reg = main.reg
    BY <1>1, <1>2, <2>1 DEF Goto
  <2>3. QED BY <1>1, <2>1, <2>2, PlanBegins DEF LeftPlaces
<1>3. QED BY <1>2 DEF Boot

LEMMA WakeStep == ASSUME ChargeInv, Wake PROVE ChargeInv'
<1>1. /\ main.at = "asleep" /\ main.todo = <<>> /\ UNCHANGED <<flags, pmu, usb, timer, cpu>>
      /\ main \in [at : Places, todo : Seq(MainCalls), reg : SUBSET Flags, rounds : Nat]
      /\ vbus' = [vbus EXCEPT !.recent = FALSE]
  BY ChargeMain DEF Wake
<1>2. ASSUME NEW place \in {"again", "menu", "off", "plug", "standby"}, NEW q \in Seq(MainCalls), Goto(place, q),
             Planned(place, q), ~Has(q, "sti"), ~Has(q, "start"),
             q # <<>> => Head(q) = "register",
             place = "off" => q # <<>>
      PROVE  ChargeInv'
  <2>1. place \in Places
    BY PlaceCalls
  <2>2. /\ main' \in [at : Places, todo : Seq(MainCalls), reg : SUBSET Flags, rounds : Nat]
        /\ main'.at = place /\ main'.todo = q /\ main'.reg = main.reg
    BY <1>1, <1>2, <2>1 DEF Goto
  <2>3. QED BY <1>1, <1>2, <2>1, <2>2, PlanBegins DEF LeftPlaces
<1>3. CASE Goto("again", Reg)
  BY <1>2, <1>3, RegPlanned
<1>4. CASE Goto("menu", Reg)
  BY <1>2, <1>4, RegPlanned
<1>5. CASE Goto("off", Reg \o Quit)
  BY <1>2, <1>5, RegQuitPlanned
<1>6. <<>> \in Seq(MainCalls) /\ \A place \in {"plug", "standby"} : Planned(place, <<>>) /\ \A s : ~Has(<<>>, s)
  BY NothingLeft, PlaceCalls, EmptySeq
<1>7. CASE Goto("plug", <<>>)
  BY <1>2, <1>6, <1>7
<1>8. CASE Goto("standby", <<>>)
  BY <1>2, <1>6, <1>8
<1>9. QED BY <1>3, <1>4, <1>5, <1>7, <1>8 DEF Wake

LEMMA ShowStep ==
    ASSUME ChargeInv, NEW here \in {"show", "again"}, NEW restart \in BOOLEAN, Show(here, restart)
    PROVE  ChargeInv'
<1>1. /\ main.at = here /\ main.todo = <<>> /\ UNCHANGED <<flags, pmu, usb, timer, cpu>>
      /\ main \in [at : Places, todo : Seq(MainCalls), reg : SUBSET Flags, rounds : Nat]
      /\ vbus' = [vbus EXCEPT !.recent = FALSE]
  BY ChargeMain DEF Show
<1>2. ASSUME NEW place \in {here, "menu", "standby"}, NEW q \in Seq(MainCalls),
             main'.at = place, main'.todo = q, main'.reg = main.reg,
             main' \in [at : Places, todo : Seq(MainCalls), reg : SUBSET Flags, rounds : Nat],
             Planned(place, q), Has(q, "sti") => Has(q, "cli"), ~Has(q, "start"),
             q # <<>> => Head(q) \in {"load", "cli"}
      PROVE  ChargeInv'
  <2>1. place \in Places
    BY PlaceCalls
  <2>2. QED BY <1>1, <1>2, <2>1, PlanBegins DEF LeftPlaces
<1>3. here \in Places /\ {"menu", "standby"} \subseteq Places
  BY PlaceCalls
<1>4. CASE main' = [main EXCEPT !.todo = Clear("short"), !.rounds = IF restart THEN 0 ELSE @ + 1]
  <2>1. LET q == Clear("short")
        IN /\ Planned(here, q) /\ q \in Seq(MainCalls) /\ q # <<>> /\ Head(q) = "load"
           /\ ~Has(q, "sti") /\ ~Has(q, "start")
    BY ClearShortPlanned
  <2>2. (IF restart THEN 0 ELSE main.rounds + 1) \in Nat
    BY <1>1
  <2>3. /\ main' \in [at : Places, todo : Seq(MainCalls), reg : SUBSET Flags, rounds : Nat]
        /\ main'.at = here /\ main'.todo = Clear("short") /\ main'.reg = main.reg
    BY <1>1, <1>4, <2>1, <2>2
  <2>4. QED BY <1>2, <2>1, <2>3
<1>5. CASE Goto("menu", LongKey)
  <2>1. /\ Planned("menu", LongKey) /\ LongKey \in Seq(MainCalls) /\ LongKey # <<>> /\ Head(LongKey) = "cli"
        /\ Has(LongKey, "cli") /\ ~Has(LongKey, "start")
    BY LongKeyPlanned
  <2>2. /\ main' \in [at : Places, todo : Seq(MainCalls), reg : SUBSET Flags, rounds : Nat]
        /\ main'.at = "menu" /\ main'.todo = LongKey /\ main'.reg = main.reg
    BY <1>1, <1>3, <1>5, <2>1 DEF Goto
  <2>3. QED BY <1>2, <2>1, <2>2
<1>6. <<>> \in Seq(MainCalls) /\ \A place \in {here, "standby"} : Planned(place, <<>>) /\ \A s : ~Has(<<>>, s)
  BY <1>3, NothingLeft, EmptySeq
<1>7. CASE main' = [main EXCEPT !.rounds = @ + 1]
  <2>1. main.rounds \in Nat /\ main.rounds + 1 \in Nat
    BY <1>1
  <2>2. /\ main' \in [at : Places, todo : Seq(MainCalls), reg : SUBSET Flags, rounds : Nat]
        /\ main'.at = here /\ main'.todo = <<>> /\ main'.reg = main.reg
    BY <1>1, <1>7, <2>1
  <2>3. QED BY <1>2, <1>6, <2>2
<1>8. CASE main' = [main EXCEPT !.at = "standby", !.rounds = 0]
  <2>1. /\ main' \in [at : Places, todo : Seq(MainCalls), reg : SUBSET Flags, rounds : Nat]
        /\ main'.at = "standby" /\ main'.todo = <<>> /\ main'.reg = main.reg
    BY <1>1, <1>3, <1>8
  <2>2. QED BY <1>2, <1>6, <2>1
<1>9. QED BY <1>4, <1>5, <1>7, <1>8 DEF Show

\* A call's step: what it does to the plan, whatever else it does.
LEMMA CallMade ==
    ASSUME ChargeInv, main.todo # <<>>
    PROVE  /\ main \in [at : Places, todo : Seq(MainCalls), reg : SUBSET Flags, rounds : Nat]
           /\ main.at \in Places /\ Planned(main.at, main.todo)
           /\ Tail(main.todo) \in Seq(MainCalls) /\ Planned(main.at, Tail(main.todo))
           /\ Head(main.todo) \in MainCalls /\ Head(main.todo) \in CallsAt[main.at]
           /\ \A s : Has(main.todo, s) <=> s = Head(main.todo) \/ Has(Tail(main.todo), s)
           /\ ~Has(Tail(main.todo), Head(main.todo)) /\ ~Has(Tail(main.todo), "cli")
           /\ Head(main.todo) = "cli" => Has(main.todo, "sti")
<1>1. /\ main \in [at : Places, todo : Seq(MainCalls), reg : SUBSET Flags, rounds : Nat]
      /\ Planned(main.at, main.todo)
  BY DEF ChargeInv, ChargeTypeOK
<1>2. main.at \in Places
  BY <1>1
<1>3. QED BY <1>1, <1>2, PlanRest

\* Interrupts stay as they are, but for cli and sti.
LEMMA StillMasked ==
    ASSUME ChargeInv, main.todo # <<>>, main'.todo = Tail(main.todo),
           \/ Head(main.todo) \notin {"cli", "sti"} /\ cpu' = cpu
           \/ Head(main.todo) = "cli" /\ cpu' = FALSE
           \/ Head(main.todo) = "sti" /\ cpu' = TRUE
    PROVE  CpuMasked'
<1> DEFINE t == Tail(main.todo)
<1>1. /\ \A s : Has(main.todo, s) <=> s = Head(main.todo) \/ Has(t, s)
      /\ ~Has(t, Head(main.todo)) /\ ~Has(t, "cli")
      /\ Head(main.todo) = "cli" => Has(main.todo, "sti")
  BY CallMade
<1>2. cpu \in BOOLEAN /\ (cpu <=> ~(Has(main.todo, "sti") /\ ~Has(main.todo, "cli")))
  BY DEF ChargeInv, ChargeTypeOK, CpuMasked
<1>3. cpu' <=> ~(Has(t, "sti") /\ ~Has(t, "cli"))
  <2>1. CASE Head(main.todo) \notin {"cli", "sti"} /\ cpu' = cpu
    <3>1. /\ Has(main.todo, "sti") <=> Has(t, "sti")
          /\ Has(main.todo, "cli") <=> Has(t, "cli")
      BY <1>1, <2>1
    <3>2. QED BY <1>2, <2>1, <3>1
  <2>2. CASE Head(main.todo) = "cli" /\ cpu' = FALSE
    <3>1. Has(t, "sti") /\ ~Has(t, "cli")
      BY <1>1, <2>2
    <3>2. QED BY <2>2, <3>1
  <2>3. CASE Head(main.todo) = "sti" /\ cpu' = TRUE
    <3>1. ~Has(t, "sti")
      BY <1>1, <2>3
    <3>2. QED BY <2>3, <3>1
  <2>4. QED BY <2>1, <2>2, <2>3
<1>4. QED BY <1>3 DEF CpuMasked, Has

LEMMA ExitCallStep == ASSUME ChargeInv, DetectExit PROVE ChargeInv'
<1>1. /\ main.todo # <<>> /\ Head(main.todo) \in {"stop", "release"}
      /\ main' = [main EXCEPT !.todo = Tail(main.todo)]
      /\ UNCHANGED <<flags, pmu, cpu, vbus>>
  BY DEF DetectExit
<1>2. /\ main.at \in Places /\ main'.at = main.at /\ main'.todo = Tail(main.todo) /\ main'.reg = main.reg
      /\ Planned(main.at, main.todo) /\ Planned(main'.at, main'.todo)
      /\ main' \in [at : Places, todo : Seq(MainCalls), reg : SUBSET Flags, rounds : Nat]
      /\ \A s : Has(main'.todo, s) => Has(main.todo, s)
  BY <1>1, CallMade
<1>3. /\ main.at \in {"standby", "asleep", "menu", "off", "os"}
      /\ Head(main.todo) = "stop" => main'.todo # <<>> /\ Head(main'.todo) = "release"
      /\ Head(main.todo) = "release" =>
             /\ main'.todo # <<>> => Head(main'.todo) \in {"sti", "load"}
             /\ main.at \in {"standby", "off", "os"} => main'.todo = <<>>
             /\ main.at = "asleep" => main'.todo # <<>> /\ Head(main'.todo) = "sti"
  BY <1>1, <1>2, AfterCall
<1>4. /\ Head(main.todo) = "stop" => usb' = DetectOff /\ timer' = timer
      /\ Head(main.todo) = "release" => timer' = Released /\ usb' = usb
  BY DEF DetectExit
<1>5. /\ usb' \in [on : BOOLEAN, clock : BOOLEAN, irq : BOOLEAN]
      /\ timer' \in [handle : TIMERS \union {0}, requested : SUBSET TIMERS, armed : SUBSET TIMERS]
      /\ timer'.armed \subseteq timer.armed
      /\ usb' = usb \/ usb' = DetectOff
      /\ Head(main.todo) = "release" => vbus.astray \/ timer'.armed = {}
      /\ TimersKnown'
  <2>1. CASE Head(main.todo) = "stop"
    BY <1>1, <1>4, <2>1, DetectOffKnown DEF ChargeInv, ChargeTypeOK, TimersKnown
  <2>2. CASE Head(main.todo) = "release"
    <3>1. timer' = Released /\ usb' = usb
      BY <1>4, <2>2
    <3>2. vbus.astray \/ timer'.armed = {}
      BY <3>1, ReleasedTimer DEF ChargeInv, TimersKnown
    <3>3. QED BY <1>1, <2>2, <3>1, <3>2, ReleasedTimer DEF ChargeInv, ChargeTypeOK, TimersKnown
  <2>3. QED BY <1>1, <2>1, <2>2
<1>6. ChargeTypeOK'
  BY <1>1, <1>2, <1>5 DEF ChargeInv, ChargeTypeOK
<1>7. CpuMasked'
  BY <1>1, <1>2, StillMasked
<1>8. MasksKept'
  BY <1>1, <1>2, <1>3 DEF ChargeInv, MasksKept, HeadIs, LeftPlaces
<1>9. SwitchedOff'
  BY <1>1, <1>2, <1>3, <1>4 DEF ChargeInv, SwitchedOff, HeadIs, LeftPlaces, DetectOff
<1>10. TimerOfDetection'
  BY <1>1, <1>3, <1>5 DEF TimerOfDetection, HeadIs
<1>11. HalfEntered'
  BY <1>1, <1>3 DEF HalfEntered, HeadIs
<1>12. BeforeFirst'
  <2>1. main'.at = "check" \/ (main'.at \in {"show", "menu"} /\ Has(main'.todo, "start")) =>
            main.at = "check" \/ (main.at \in {"show", "menu"} /\ Has(main.todo, "start"))
    BY <1>2
  <2>2. main.at = "check" \/ (main.at \in {"show", "menu"} /\ Has(main.todo, "start")) =>
            \/ vbus'.astray
            \/ usb' = DetectOff /\ timer'.armed = {} /\ (vbus'.present \/ vbus'.recent) /\ "pc" \notin flags' \union main'.reg
    BY <1>1, <1>2, <1>5 DEF ChargeInv, BeforeFirst
  <2>3. QED BY <2>1, <2>2 DEF BeforeFirst, Has, DetectOff
<1>13. LeftOn'
  <2>1. CASE Head(main.todo) = "stop"
    BY <1>4, <2>1, DetectOffKnown DEF LeftOn
  <2>2. CASE Head(main.todo) = "release"
    BY <1>1, <1>2, <1>4, <2>2 DEF ChargeInv, LeftOn, Exiting, HeadIs
  <2>3. QED BY <1>1, <2>1, <2>2
<1>14. RegUsed'
  BY <1>1, <1>2, <1>3 DEF ChargeInv, RegUsed, HeadIs, Flags, EnterCalls
<1>15. QED
  BY <1>5, <1>6, <1>7, <1>8, <1>9, <1>10, <1>11, <1>12, <1>13, <1>14 DEF ChargeInv

\* usb_detect_enter that returns at once: what is planned after it.
LEMMA EnterSkipped ==
    ASSUME NEW place \in Places, NEW q, Planned(place, q), q # <<>>, Head(q) = "start"
    PROVE  LET after == SubSeq(q, 4, Len(q))
           IN /\ after \in Seq(MainCalls) /\ Planned(place, after)
              /\ \A s \in {"sti", "cli"} : Has(after, s) <=> Has(q, s)
              /\ after # <<>> => Head(after) = "pmuOff"
              /\ place \in {"show", "plugged"} => after = <<>>
<1> DEFINE t1 == Tail(q)
           t2 == Tail(t1)
           t3 == Tail(t2)
<1>1. /\ t1 \in Seq(MainCalls) /\ Planned(place, t1) /\ t1 # <<>> /\ Head(t1) = "request"
      /\ \A s : Has(q, s) <=> s = "start" \/ Has(t1, s)
  BY PlanRest, AfterCall
<1> HIDE DEF t1
<1>2. /\ t2 \in Seq(MainCalls) /\ Planned(place, t2) /\ t2 # <<>> /\ Head(t2) = "connect"
      /\ \A s : Has(t1, s) <=> s = "request" \/ Has(t2, s)
  BY <1>1, PlanRest, AfterCall
<1> HIDE DEF t2
<1>3. /\ t3 \in Seq(MainCalls) /\ Planned(place, t3)
      /\ t3 # <<>> => Head(t3) = "pmuOff"
      /\ place \in {"show", "plugged"} => t3 = <<>>
      /\ \A s : Has(t2, s) <=> s = "connect" \/ Has(t3, s)
  BY <1>2, PlanRest, AfterCall
<1> HIDE DEF t3
<1>4. \A s \in {"sti", "cli"} : Has(t3, s) <=> Has(q, s)
  <2> SUFFICES ASSUME NEW s \in {"sti", "cli"} PROVE Has(t3, s) <=> Has(q, s)
    OBVIOUS
  <2>1. s \notin {"start", "request", "connect"}
    OBVIOUS
  <2>2. QED BY <1>1, <1>2, <1>3, <2>1
<1>5. SubSeq(q, 4, Len(q)) = t3
  <2>1. q \in Seq(MainCalls)
    BY CallsKnown, SeqMonotonic DEF Planned
  <2>2. /\ Len(t1) = Len(q) - 1 /\ (\A i \in 1 .. Len(t1) : t1[i] = q[i + 1])
        /\ Len(q) \in Nat
    BY <2>1, HeadTailProperties, LenProperties DEF t1
  <2>3. Len(t2) = Len(t1) - 1 /\ \A i \in 1 .. Len(t2) : t2[i] = t1[i + 1]
    BY <1>1, HeadTailProperties DEF t2
  <2>4. /\ Len(t3) = Len(t2) - 1 /\ (\A i \in 1 .. Len(t3) : t3[i] = t2[i + 1])
        /\ Len(t3) \in Nat
    BY <1>2, <1>3, HeadTailProperties, LenProperties DEF t3
  <2>5. Len(t3) = Len(q) - 3
    BY <2>2, <2>3, <2>4
  <2>6. \A i \in 1 .. Len(t3) : t3[i] = q[i + 3]
    <3> SUFFICES ASSUME NEW i \in 1 .. Len(t3) PROVE t3[i] = q[i + 3]
      OBVIOUS
    <3>1. i + 1 \in 1 .. Len(t2) /\ i + 2 \in 1 .. Len(t1) /\ (i + 1) + 1 = i + 2 /\ (i + 2) + 1 = i + 3
      BY <2>2, <2>3, <2>4
    <3>2. t3[i] = t2[i + 1] /\ t2[i + 1] = t1[(i + 1) + 1] /\ t1[i + 2] = q[(i + 2) + 1]
      BY <2>2, <2>3, <2>4, <3>1
    <3>3. QED BY <3>1, <3>2
  <2>7. \A i \in 4 .. Len(q) : q[i] \in MainCalls
    BY <2>1, LenProperties
  <2>8. /\ SubSeq(q, 4, Len(q)) \in Seq(MainCalls)
        /\ Len(SubSeq(q, 4, Len(q))) = IF 4 <= Len(q) THEN Len(q) - 4 + 1 ELSE 0
        /\ \A i \in 1 .. Len(q) - 4 + 1 : SubSeq(q, 4, Len(q))[i] = q[4 + i - 1]
    BY <2>2, <2>7, SubSeqProperties
  <2>9. Len(SubSeq(q, 4, Len(q))) = Len(t3)
    BY <2>2, <2>4, <2>5, <2>8
  <2>10. \A i \in 1 .. Len(t3) : SubSeq(q, 4, Len(q))[i] = t3[i]
    <3> SUFFICES ASSUME NEW i \in 1 .. Len(t3) PROVE SubSeq(q, 4, Len(q))[i] = t3[i]
      OBVIOUS
    <3>1. i \in 1 .. Len(q) - 4 + 1 /\ 4 + i - 1 = i + 3
      BY <2>2, <2>4, <2>5
    <3>2. QED BY <2>6, <2>8, <3>1
  <2>11. QED BY <1>3, <2>8, <2>9, <2>10, SeqEqual
<1>6. QED BY <1>3, <1>4, <1>5

LEMMA EnterCallStep == ASSUME ChargeInv, DetectEnter PROVE ChargeInv'
<1>1. /\ main.todo # <<>> /\ EnterStep(Head(main.todo))
      /\ UNCHANGED <<flags, pmu, cpu, vbus>>
  BY DEF DetectEnter
<1>2. Head(main.todo) \in {"start", "request", "connect"}
  BY <1>1 DEF EnterStep
<1>3. /\ main \in [at : Places, todo : Seq(MainCalls), reg : SUBSET Flags, rounds : Nat]
      /\ main.at \in Places /\ Planned(main.at, main.todo)
      /\ Tail(main.todo) \in Seq(MainCalls) /\ Planned(main.at, Tail(main.todo))
      /\ \A s : Has(main.todo, s) <=> s = Head(main.todo) \/ Has(Tail(main.todo), s)
      /\ ~Has(Tail(main.todo), Head(main.todo))
  BY <1>1, CallMade
<1>4. /\ main.at \in {"show", "plugged", "menu"}
      /\ Head(main.todo) = "start" => Tail(main.todo) # <<>> /\ Head(Tail(main.todo)) = "request"
      /\ Head(main.todo) = "request" => Tail(main.todo) # <<>> /\ Head(Tail(main.todo)) = "connect"
      /\ Head(main.todo) = "connect" => /\ Tail(main.todo) # <<>> => Head(Tail(main.todo)) = "pmuOff"
                                        /\ main.at \in {"show", "plugged"} => Tail(main.todo) = <<>>
  BY <1>1, <1>2, <1>3, AfterCall
<1>5. /\ timer \in [handle : TIMERS \union {0}, requested : SUBSET TIMERS, armed : SUBSET TIMERS]
      /\ usb \in [on : BOOLEAN, clock : BOOLEAN, irq : BOOLEAN]
      /\ main.reg = {}
      /\ ~Exiting /\ ~HeadIs({"release"})
      /\ vbus.astray \/ main.at = "plugged" \/ Head(main.todo) # "start" \/ usb = DetectOff
  <2>1. main.at \in {"show", "menu"} /\ Head(main.todo) = "start" => vbus.astray \/ usb = DetectOff
    BY <1>1, <1>3 DEF ChargeInv, BeforeFirst
  <2>2. main.reg = {}
    BY <1>1, <1>2 DEF ChargeInv, RegUsed, HeadIs, Flags
  <2>3. ~Exiting /\ ~HeadIs({"release"})
    BY <1>1, <1>2, <1>4 DEF Exiting, HeadIs
  <2>4. QED BY <1>4, <2>1, <2>2, <2>3 DEF ChargeInv, ChargeTypeOK
\* A detection runs already: nothing is done.
<1>6. CASE Head(main.todo) = "start" /\ usb.on
  <2> DEFINE after == SubSeq(main.todo, 4, Len(main.todo))
  <2>1. vbus.astray \/ main.at = "plugged"
    BY <1>5, <1>6, DetectOffKnown
  <2>2. main' = [main EXCEPT !.todo = after] /\ usb' = usb /\ timer' = timer
    BY <1>1, <1>6 DEF EnterStep
  <2>3. /\ after \in Seq(MainCalls) /\ Planned(main.at, after)
        /\ \A s \in {"sti", "cli"} : Has(after, s) <=> Has(main.todo, s)
        /\ after # <<>> => Head(after) = "pmuOff"
        /\ main.at = "plugged" => after = <<>>
    BY <1>1, <1>3, <1>6, EnterSkipped
  <2> HIDE DEF after
  <2>4. /\ main' \in [at : Places, todo : Seq(MainCalls), reg : SUBSET Flags, rounds : Nat]
        /\ main'.at = main.at /\ main'.todo = after /\ main'.reg = {}
    BY <1>3, <1>5, <2>2, <2>3
  <2>6. ChargeTypeOK'
    BY <1>1, <2>2, <2>3, <2>4 DEF ChargeInv, ChargeTypeOK
  <2>7. CpuMasked'
    <3>1. cpu \in BOOLEAN /\ (cpu <=> ~(Has(main.todo, "sti") /\ ~Has(main.todo, "cli")))
      BY DEF ChargeInv, ChargeTypeOK, CpuMasked
    <3>2. cpu' <=> ~(Has(after, "sti") /\ ~Has(after, "cli"))
      BY <1>1, <2>3, <3>1
    <3>3. QED BY <2>4, <3>2 DEF CpuMasked, Has
  <2>8. MasksKept'
    BY <1>1, <2>3, <2>4 DEF ChargeInv, MasksKept, HeadIs
  <2>9. SwitchedOff' /\ HalfEntered'
    BY <1>4, <2>3, <2>4 DEF SwitchedOff, HalfEntered, HeadIs, LeftPlaces
  <2>10. RegUsed' /\ BeforeFirst'
    <3>1. RegUsed'
      BY <2>3, <2>4 DEF RegUsed, HeadIs, EnterCalls
    <3>2. main'.at = "plugged" \/ vbus'.astray
      BY <1>1, <2>1, <2>4
    <3>3. QED BY <3>1, <3>2 DEF BeforeFirst
  <2>11. TimerOfDetection'
    BY <1>6, <2>2 DEF TimerOfDetection
  <2>12. LeftOn'
    BY <1>1, <2>1, <2>3, <2>4 DEF LeftOn, Exiting
  <2>13. TimersKnown'
    BY <1>1, <2>2 DEF ChargeInv, TimersKnown
  <2>14. QED BY <2>6, <2>7, <2>8, <2>9, <2>10, <2>11, <2>12, <2>13 DEF ChargeInv
\* One call of it.
<1>7. CASE ~(Head(main.todo) = "start" /\ usb.on)
  <2>1. main' = [main EXCEPT !.todo = Tail(main.todo)]
    BY <1>1, <1>2, <1>7 DEF EnterStep
  <2>2. /\ Head(main.todo) = "start" => usb' = DetectOn /\ timer' = timer
        /\ Head(main.todo) = "request" => Requested /\ usb' = usb
        /\ Head(main.todo) = "connect" => usb' = [usb EXCEPT !.irq = TRUE] /\ timer' = Armed
    BY <1>1, <1>7 DEF EnterStep
  <2>3. /\ main'.at = main.at /\ main'.todo = Tail(main.todo) /\ main'.reg = {}
        /\ main' \in [at : Places, todo : Seq(MainCalls), reg : SUBSET Flags, rounds : Nat]
    BY <1>3, <1>5, <2>1
  <2>4. /\ usb' \in [on : BOOLEAN, clock : BOOLEAN, irq : BOOLEAN]
        /\ Head(main.todo) = "start" => usb'.on /\ usb'.irq = usb.irq
        /\ Head(main.todo) = "request" => usb' = usb
        /\ Head(main.todo) = "connect" => usb'.on = usb.on
    <3>1. CASE Head(main.todo) = "start"
      BY <1>5, <2>2, <3>1 DEF DetectOn
    <3>2. CASE Head(main.todo) = "request"
      BY <1>5, <2>2, <3>2
    <3>3. CASE Head(main.todo) = "connect"
      BY <1>5, <2>2, <3>3
    <3>4. QED BY <1>2, <3>1, <3>2, <3>3
  <2>5. /\ timer' \in [handle : TIMERS \union {0}, requested : SUBSET TIMERS, armed : SUBSET TIMERS]
        /\ Head(main.todo) # "connect" => timer'.armed = timer.armed
        /\ Head(main.todo) = "start" => timer' = timer
        /\ Head(main.todo) = "connect" /\ timer.armed = {} => timer'.armed \subseteq {timer'.handle}
    <3>1. CASE Head(main.todo) = "start"
      BY <1>5, <2>2, <3>1
    <3>2. CASE Head(main.todo) = "request"
      <4>1. \/ timer' = [timer EXCEPT !.handle = 0]
            \/ \E t \in TIMERS : timer' = [timer EXCEPT !.handle = t, !.requested = timer.requested \union {t}]
        BY <2>2, <3>2, Zenon DEF Requested
      <4>2. CASE timer' = [timer EXCEPT !.handle = 0]
        BY <1>5, <3>2, <4>2
      <4>3. CASE \E t \in TIMERS : timer' = [timer EXCEPT !.handle = t, !.requested = timer.requested \union {t}]
        <5>1. PICK t \in TIMERS : timer' = [timer EXCEPT !.handle = t, !.requested = timer.requested \union {t}]
          BY <4>3, Zenon
        <5>2. timer' = [handle |-> t, requested |-> timer.requested \union {t}, armed |-> timer.armed]
          BY <1>5, <5>1
        <5>3. QED BY <1>5, <3>2, <5>2
      <4>4. QED BY <4>1, <4>2, <4>3, Zenon
    <3>3. CASE Head(main.todo) = "connect"
      BY <1>5, <2>2, <3>3 DEF Armed
    <3>4. QED BY <1>2, <3>1, <3>2, <3>3
  <2>6. /\ Head(main.todo) \in {"request", "connect"} =>
               \/ vbus.astray
               \/ timer.armed = {} /\ (usb.irq \/ ~usb.on => vbus.present /\ main.at = "plugged")
        /\ Head(main.todo) = "start" => vbus.astray \/ timer.armed = {}
        /\ Head(main.todo) = "start" /\ usb.irq => vbus.astray \/ (vbus.present /\ main.at = "plugged")
    <3>1. Head(main.todo) \in {"request", "connect"} =>
               \/ vbus.astray
               \/ timer.armed = {} /\ (usb.irq \/ ~usb.on => vbus.present /\ main.at = "plugged")
      BY <1>1 DEF ChargeInv, HalfEntered, HeadIs
    <3>2. Head(main.todo) = "start" => vbus.astray \/ timer.armed = {}
      BY <1>5, <1>7 DEF ChargeInv, TimerOfDetection
    <3>3. Head(main.todo) = "start" /\ usb.irq => vbus.astray \/ (vbus.present /\ main.at = "plugged")
      <4>1. Head(main.todo) = "start" /\ usb.irq => vbus.astray \/ main.at = "plugged"
        BY <1>5, DetectOffKnown
      <4>2. Head(main.todo) = "start" /\ usb.irq => vbus.astray \/ vbus.present
        BY <1>5, <1>7 DEF ChargeInv, LeftOn
      <4>3. QED BY <4>1, <4>2
    <3>4. QED BY <3>1, <3>2, <3>3
  <2>7. ChargeTypeOK'
    BY <1>1, <1>3, <2>3, <2>4, <2>5 DEF ChargeInv, ChargeTypeOK
  <2>8. CpuMasked'
    BY <1>1, <1>2, <2>3, StillMasked
  <2>9. MasksKept'
    BY <1>1, <1>2, <1>4, <1>5, <2>3 DEF ChargeInv, MasksKept, HeadIs
  <2>10. SwitchedOff'
    BY <1>2, <1>4, <2>3 DEF SwitchedOff, HeadIs, LeftPlaces
  <2>11. TimersKnown'
    BY <1>1, <1>2, <2>5, <2>6 DEF ChargeInv, TimersKnown
  <2>12. TimerOfDetection'
    <3>1. CASE Head(main.todo) = "start"
      BY <2>4, <3>1 DEF TimerOfDetection
    <3>2. CASE Head(main.todo) = "request"
      BY <1>1, <2>5, <2>6, <3>2 DEF TimerOfDetection
    <3>3. CASE Head(main.todo) = "connect"
      <4>1. vbus.astray \/ usb.on \/ (vbus.present /\ main.at = "plugged" /\ Tail(main.todo) = <<>>)
        BY <1>4, <2>6, <3>3
      <4>2. QED BY <1>1, <2>3, <2>4, <3>3, <4>1 DEF TimerOfDetection, Exiting
    <3>4. QED BY <1>2, <3>1, <3>2, <3>3
  <2>13. HalfEntered'
    <3>1. CASE Head(main.todo) = "start"
      BY <1>1, <2>3, <2>4, <2>5, <2>6, <3>1 DEF HalfEntered
    <3>2. CASE Head(main.todo) = "request"
      BY <1>1, <2>3, <2>4, <2>5, <2>6, <3>2 DEF HalfEntered
    <3>3. CASE Head(main.todo) = "connect"
      BY <1>4, <2>3, <3>3 DEF HalfEntered, HeadIs
    <3>4. QED BY <1>2, <3>1, <3>2, <3>3
  <2>14. BeforeFirst'
    <3>1. main.at \in {"show", "menu"} => ~Has(Tail(main.todo), "start")
      <4>1. Head(main.todo) = "start" => ~Has(Tail(main.todo), "start")
        BY <1>3
      <4>2. main.at \in {"show", "menu"} /\ Head(main.todo) \in {"request", "connect"} => ~Has(main.todo, "start")
        BY <1>1, <1>3, EnterOnce
      <4>3. QED BY <1>2, <1>3, <4>1, <4>2
    <3>2. QED BY <1>4, <2>3, <3>1 DEF BeforeFirst, Has
  <2>15. LeftOn'
    <3>1. CASE Head(main.todo) = "start"
      BY <1>1, <2>4, <2>6, <3>1 DEF LeftOn
    <3>2. CASE Head(main.todo) = "request"
      <4>1. usb.irq /\ ~vbus.present => vbus.astray
        BY <2>6, <3>2
      <4>2. QED BY <1>1, <2>4, <3>2, <4>1 DEF LeftOn
    <3>3. CASE Head(main.todo) = "connect"
      <4>1. main.at \in {"show", "menu"} => vbus.astray \/ "pc" \notin flags
        BY <1>1, <3>3 DEF ChargeInv, RegUsed, HeadIs, EnterCalls
      <4>2. ~vbus.present => vbus.astray \/ usb.on
        BY <2>6, <3>3
      <4>3. main.at = "plugged" => Exiting'
        BY <1>4, <2>3, <3>3 DEF Exiting
      <4>4. QED BY <1>1, <1>4, <2>3, <2>4, <3>3, <4>1, <4>2, <4>3 DEF LeftOn
    <3>4. QED BY <1>2, <3>1, <3>2, <3>3
  <2>16. RegUsed'
    <3>1. Head(main.todo) \in EnterCalls
      BY <1>2 DEF EnterCalls
    <3>2. main.at \in {"show", "menu"} => vbus.astray \/ "pc" \notin flags
      BY <1>1, <3>1 DEF ChargeInv, RegUsed, HeadIs
    <3>3. QED BY <1>1, <2>3, <3>2 DEF RegUsed
  <2>17. QED
    BY <2>7, <2>8, <2>9, <2>10, <2>11, <2>12, <2>13, <2>14, <2>15, <2>16 DEF ChargeInv
<1>8. QED BY <1>6, <1>7

\* A call that leaves the detection alone.
LEMMA QuietCall ==
    ASSUME ChargeInv, main.todo # <<>>, UNCHANGED <<usb, timer, vbus>>,
           Head(main.todo) \notin {"start", "request", "connect", "stop", "release"},
           main'.at = main.at, main'.todo = Tail(main.todo),
           "pc" \in flags' \union main'.reg => "pc" \in flags \union main.reg
    PROVE  TimerOfDetection' /\ HalfEntered' /\ BeforeFirst' /\ LeftOn' /\ TimersKnown'
<1>1. /\ main.at \in Places /\ Planned(main.at, main.todo)
      /\ Head(main.todo) \in MainCalls
      /\ \A s : Has(Tail(main.todo), s) => Has(main.todo, s)
  BY CallMade
<1>2. main'.todo # <<>> => Head(main'.todo) \notin {"request", "connect"}
  <2>1. Head(main.todo) \in {"pmuOff", "restore", "unregister", "register", "pmuOn", "load", "short",
                             "long", "insert", "cli", "sti"}
    BY <1>1 DEF MainCalls, RelExit, EnterCalls
  <2>2. QED BY <1>1, <2>1, AfterCall
<1>3. ~Exiting /\ ~HeadIs({"release"})
  BY DEF Exiting, HeadIs
<1>4. TimerOfDetection' /\ TimersKnown'
  BY <1>3 DEF ChargeInv, TimerOfDetection, TimersKnown
<1>5. HalfEntered'
  BY <1>2 DEF HalfEntered, HeadIs
<1>6. BeforeFirst'
  <2>1. main'.at = "check" \/ (main'.at \in {"show", "menu"} /\ Has(Tail(main.todo), "start")) =>
            main.at = "check" \/ (main.at \in {"show", "menu"} /\ Has(main.todo, "start"))
    BY <1>1
  <2>2. main.at = "check" \/ (main.at \in {"show", "menu"} /\ Has(main.todo, "start")) =>
            \/ vbus.astray
            \/ usb = DetectOff /\ timer.armed = {} /\ (vbus.present \/ vbus.recent) /\ "pc" \notin flags \union main.reg
    BY DEF ChargeInv, BeforeFirst
  <2>3. QED BY <2>1, <2>2 DEF BeforeFirst, Has, DetectOff
<1>7. LeftOn'
  BY <1>3 DEF ChargeInv, LeftOn
<1>8. QED BY <1>4, <1>5, <1>6, <1>7

\* What the two loops over the mask registers leave, wherever they stop.
LEMMA MasksWritten ==
    ASSUME NEW n \in 0 .. MASKS, NEW new \in Masks, NEW old \in Masks
    PROVE  /\ Upto(n, new, old) \in Masks
           /\ \A i \in 1 .. MASKS : Upto(n, new, old)[i] \in {new[i], old[i]}
           /\ n = MASKS => Upto(n, new, old) = new
<1>1. Upto(n, new, old) = [i \in 1 .. MASKS |-> IF i <= n THEN new[i] ELSE old[i]]
  BY DEF Upto
<1>2. Upto(n, new, old) \in Masks /\ \A i \in 1 .. MASKS : Upto(n, new, old)[i] \in {new[i], old[i]}
  BY <1>1 DEF Masks
<1>3. ASSUME n = MASKS PROVE Upto(n, new, old) = new
  <2>1. \A i \in 1 .. MASKS : i <= n
    BY <1>3, MaskRegisters
  <2>2. [i \in 1 .. MASKS |-> IF i <= n THEN new[i] ELSE old[i]] = [i \in 1 .. MASKS |-> new[i]]
    BY <2>1
  <2>3. QED BY <1>1, <2>2 DEF Masks
<1>4. QED BY <1>2, <1>3

LEMMA MasksEnabled ==
    ASSUME pmu \in PowerChip, EnableMasks
    PROVE  /\ pmu' \in PowerChip /\ pmu'.reg /\ pmu'.failed = pmu.failed
           /\ \A i \in 1 .. MASKS : pmu'.saved[i] \in {pmu.saved[i], pmu.masks[i]}
<1> DEFINE detect == [i \in 1 .. MASKS |-> "detect"]
<1>1. PICK read, written \in 0 .. MASKS :
        pmu' = [pmu EXCEPT !.reg = TRUE, !.saved = Upto(read, pmu.masks, pmu.saved),
                           !.masks = Upto(written, detect, pmu.masks)]
  BY Zenon DEF EnableMasks
<1>2. pmu.masks \in Masks /\ pmu.saved \in Masks /\ detect \in Masks
  BY DEF PowerChip, Masks
<1> DEFINE saved == Upto(read, pmu.masks, pmu.saved)
           masks == Upto(written, detect, pmu.masks)
<1>3. /\ saved \in Masks /\ masks \in Masks
      /\ \A i \in 1 .. MASKS : saved[i] \in {pmu.saved[i], pmu.masks[i]}
  BY <1>2, MasksWritten
<1> HIDE DEF saved, masks, detect
<1>4. pmu' = [pmu EXCEPT !.reg = TRUE, !.saved = saved, !.masks = masks]
  BY <1>1 DEF saved, masks
<1>5. pmu' \in PowerChip /\ pmu'.reg /\ pmu'.failed = pmu.failed /\ pmu'.saved = saved
  BY <1>3, <1>4 DEF PowerChip
<1>6. QED BY <1>3, <1>5

LEMMA MasksDisabled ==
    ASSUME pmu \in PowerChip, DisableMasks
    PROVE  /\ pmu' \in PowerChip /\ pmu'.on = pmu.on /\ pmu'.reg = pmu.reg /\ pmu'.saved = pmu.saved
           /\ ~pmu'.failed => ~pmu.failed
           /\ ~pmu'.failed => pmu'.masks = pmu'.saved
<1>1. PICK written \in 0 .. MASKS :
        pmu' = [pmu EXCEPT !.masks = Upto(written, pmu.saved, pmu.masks),
                           !.failed = pmu.failed \/ written < MASKS]
  BY Zenon DEF DisableMasks
<1>2. pmu.masks \in Masks /\ pmu.saved \in Masks /\ pmu.failed \in BOOLEAN
  BY DEF PowerChip
<1> DEFINE masks == Upto(written, pmu.saved, pmu.masks)
           failed == pmu.failed \/ written < MASKS
<1>3. masks \in Masks /\ (written = MASKS => masks = pmu.saved)
  BY <1>2, MasksWritten
<1>4. failed \in BOOLEAN /\ (~failed => ~pmu.failed /\ written = MASKS)
  BY <1>2, MaskRegisters
<1> HIDE DEF masks, failed
<1>5. pmu' = [pmu EXCEPT !.masks = masks, !.failed = failed]
  BY <1>1 DEF masks, failed
<1>6. /\ pmu' \in PowerChip /\ pmu'.on = pmu.on /\ pmu'.reg = pmu.reg /\ pmu'.saved = pmu.saved
      /\ pmu'.masks = masks /\ pmu'.failed = failed
  BY <1>3, <1>4, <1>5 DEF PowerChip
<1>7. QED BY <1>3, <1>4, <1>6

LEMMA PowerIntStep == ASSUME ChargeInv, PowerInt PROVE ChargeInv'
<1> DEFINE h == Head(main.todo)
<1>1. /\ main.todo # <<>> /\ UNCHANGED <<usb, timer, cpu, vbus>>
      /\ main' = [main EXCEPT !.todo = Tail(main.todo)]
  BY DEF PowerInt
<1>2. \/ h = "pmuOff" /\ pmu' = [pmu EXCEPT !.on = FALSE] /\ flags' = flags
      \/ h = "restore" /\ DisableMasks /\ flags' = flags
      \/ h = "unregister" /\ pmu' = [pmu EXCEPT !.reg = FALSE] /\ flags' = {}
      \/ h = "register" /\ ~pmu.reg /\ flags' = {} /\ EnableMasks
      \/ h = "register" /\ pmu.reg /\ flags' = flags /\ pmu' = pmu
      \/ h = "pmuOn" /\ pmu' = [pmu EXCEPT !.on = TRUE] /\ flags' = flags
  BY DEF PowerInt
<1>3. /\ main \in [at : Places, todo : Seq(MainCalls), reg : SUBSET Flags, rounds : Nat]
      /\ main.at \in Places /\ Planned(main.at, main.todo)
      /\ Tail(main.todo) \in Seq(MainCalls) /\ Planned(main.at, Tail(main.todo))
      /\ \A s : Has(main.todo, s) <=> s = h \/ Has(Tail(main.todo), s)
  BY <1>1, CallMade
<1>4. /\ main'.at = main.at /\ main'.todo = Tail(main.todo) /\ main'.reg = main.reg
      /\ main' \in [at : Places, todo : Seq(MainCalls), reg : SUBSET Flags, rounds : Nat]
  BY <1>1, <1>3
<1>5. /\ h \in {"pmuOff", "restore", "unregister"} => main.at \in {"asleep", "menu", "off", "os"}
      /\ h \in {"register", "pmuOn"} => main.at \in {"show", "again", "menu", "off"}
      /\ h = "pmuOff" => main'.todo # <<>> /\ Head(main'.todo) = "restore"
      /\ h = "restore" => main'.todo # <<>> /\ Head(main'.todo) = "unregister"
      /\ h = "unregister" => main'.todo # <<>> /\ Head(main'.todo) = "stop"
      /\ h = "register" => main'.todo # <<>> /\ Head(main'.todo) = "pmuOn"
      /\ h = "pmuOn" => /\ main'.todo # <<>> => Head(main'.todo) \in {"start", "pmuOff"}
                        /\ main.at = "off" => main'.todo # <<>> /\ Head(main'.todo) = "pmuOff"
  BY <1>1, <1>3, <1>4, AfterCall
<1>6. pmu \in PowerChip /\ flags \in SUBSET Flags
  BY DEF ChargeInv, ChargeTypeOK
\* The masks are read and set by register alone, and written back by restore.
<1>8. /\ pmu' \in PowerChip /\ flags' \in SUBSET Flags /\ flags' \subseteq flags
      /\ h = "pmuOff" => ~pmu'.on /\ pmu'.reg = pmu.reg
      /\ h = "restore" => pmu'.on = pmu.on /\ pmu'.reg = pmu.reg
      /\ h = "unregister" => pmu'.on = pmu.on /\ ~pmu'.reg
      /\ h = "register" => pmu'.reg
      /\ h = "pmuOn" => pmu'.reg = pmu.reg
      /\ h \in {"pmuOff", "unregister", "pmuOn"} =>
             pmu'.masks = pmu.masks /\ pmu'.saved = pmu.saved /\ pmu'.failed = pmu.failed
      /\ h = "restore" => /\ pmu'.saved = pmu.saved /\ (~pmu'.failed => ~pmu.failed)
                          /\ ~pmu'.failed => pmu'.masks = pmu'.saved
      /\ h = "register" => /\ pmu'.failed = pmu.failed
                           /\ \/ pmu' = pmu /\ pmu.reg
                              \/ /\ ~pmu.reg
                                 /\ \A i \in 1 .. MASKS : pmu'.saved[i] \in {pmu.saved[i], pmu.masks[i]}
  <2>1. CASE h = "register" /\ ~pmu.reg
    <3>1. flags' = {} /\ EnableMasks
      BY <1>2, <2>1
    <3>2. /\ pmu' \in PowerChip /\ pmu'.reg /\ pmu'.failed = pmu.failed
          /\ \A i \in 1 .. MASKS : pmu'.saved[i] \in {pmu.saved[i], pmu.masks[i]}
      BY <1>6, <3>1, MasksEnabled
    <3>3. h \notin {"pmuOff", "restore", "unregister", "pmuOn"} /\ flags' \subseteq flags /\ flags' \in SUBSET Flags
      BY <2>1, <3>1
    <3> HIDE DEF h
    <3>4. QED BY <2>1, <3>2, <3>3
  <2>2. CASE h = "restore"
    <3>1. flags' = flags /\ DisableMasks
      BY <1>2, <2>2
    <3>2. /\ pmu' \in PowerChip /\ pmu'.on = pmu.on /\ pmu'.reg = pmu.reg /\ pmu'.saved = pmu.saved
          /\ (~pmu'.failed => ~pmu.failed) /\ (~pmu'.failed => pmu'.masks = pmu'.saved)
      BY <1>6, <3>1, MasksDisabled
    <3>3. h \notin {"pmuOff", "register", "unregister", "pmuOn"}
      BY <2>2
    <3> HIDE DEF h
    <3>4. QED BY <1>6, <2>2, <3>1, <3>2, <3>3
  <2>3. CASE h \notin {"register", "restore"} \/ (h = "register" /\ pmu.reg)
    BY <1>2, <1>6, <2>3 DEF PowerChip
  <2>4. QED BY <1>6, <2>1, <2>2, <2>3 DEF PowerChip
<1>9. h \in {"pmuOff", "restore", "unregister", "register", "pmuOn"}
  BY <1>2
<1> HIDE DEF h
<1>10. ChargeTypeOK'
  <2>1. Planned(main'.at, main'.todo)
    BY <1>3, <1>4
  <2>2. QED BY <1>1, <1>4, <1>8, <2>1 DEF ChargeInv, ChargeTypeOK
<1>11. CpuMasked'
  BY <1>1, <1>4, <1>9, StillMasked DEF h
<1>12. MasksKept'
  <2> SUFFICES ASSUME ~pmu'.failed
               PROVE  /\ main'.todo # <<>> /\ Head(main'.todo) = "unregister" => pmu'.masks = pmu'.saved
                      /\ \A i \in 1 .. MASKS :
                            /\ pmu'.saved[i] # "detect"
                            /\ ~pmu'.reg => /\ pmu'.masks[i] # "detect"
                                            /\ pmu'.saved[i] = "original" => pmu'.masks[i] = "original"
    BY DEF MasksKept, HeadIs
  <2>1. ~pmu.failed
    BY <1>8, <1>9
  <2>2. /\ h = "unregister" => pmu.masks = pmu.saved
        /\ \A i \in 1 .. MASKS :
              /\ pmu.saved[i] # "detect"
              /\ ~pmu.reg => /\ pmu.masks[i] # "detect"
                             /\ pmu.saved[i] = "original" => pmu.masks[i] = "original"
    BY <1>1, <2>1 DEF ChargeInv, MasksKept, HeadIs, h
  <2>3. main'.todo # <<>> /\ Head(main'.todo) = "unregister" => h = "restore"
    BY <1>5, <1>9
  <2>4. CASE h = "register"
    BY <1>8, <2>2, <2>3, <2>4
  <2>5. CASE h = "restore"
    BY <1>8, <2>2, <2>5
  <2>6. CASE h = "unregister"
    BY <1>8, <2>2, <2>3, <2>6
  <2>7. CASE h \in {"pmuOff", "pmuOn"}
    BY <1>8, <2>2, <2>3, <2>7
  <2>8. QED BY <1>9, <2>4, <2>5, <2>6, <2>7
<1>13. SwitchedOff'
  <2>1. main'.todo # <<>> /\ Head(main'.todo) \in {"restore", "unregister"} => ~pmu'.on
    <3>1. h = "restore" => ~pmu.on
      BY <1>1 DEF ChargeInv, SwitchedOff, HeadIs, h
    <3>2. main'.todo # <<>> /\ Head(main'.todo) \in {"restore", "unregister"} => h \in {"pmuOff", "restore"}
      BY <1>5, <1>9
    <3>3. QED BY <1>8, <3>1, <3>2
  <2>2. main'.todo # <<>> /\ Head(main'.todo) \in {"stop", "release"} => h = "unregister" /\ Head(main'.todo) = "stop"
    BY <1>5, <1>9
  <2>3. h = "unregister" => ~pmu'.on /\ ~pmu'.reg
    <3>1. h = "unregister" => ~pmu.on
      BY <1>1 DEF ChargeInv, SwitchedOff, HeadIs, h
    <3>2. QED BY <1>8, <3>1
  <2>4. main.at \in LeftPlaces \union {"asleep"} => main'.todo # <<>> /\ Head(main'.todo) # "sti"
    BY <1>5, <1>9 DEF LeftPlaces
  <2>5. QED BY <1>4, <2>1, <2>2, <2>3, <2>4 DEF SwitchedOff, HeadIs
<1>14. TimerOfDetection' /\ HalfEntered' /\ BeforeFirst' /\ LeftOn' /\ TimersKnown'
  <2>1. "pc" \in flags' \union main'.reg => "pc" \in flags \union main.reg
    BY <1>4, <1>8
  <2>2. Head(main.todo) \notin {"start", "request", "connect", "stop", "release"}
    BY <1>9 DEF h
  <2>3. QED BY <1>1, <1>4, <2>1, <2>2, QuietCall
<1>15. RegUsed'
  <2>1. main.reg = {}
    BY <1>1, <1>9 DEF ChargeInv, RegUsed, HeadIs, Flags, h
  <2>2. main'.at \in {"show", "menu"} /\ main'.todo # <<>> /\ Head(main'.todo) \in EnterCalls =>
            vbus'.astray \/ "pc" \notin flags'
    <3> SUFFICES ASSUME main'.at \in {"show", "menu"}, main'.todo # <<>>, Head(main'.todo) \in EnterCalls
                 PROVE  vbus.astray \/ "pc" \notin flags'
      BY <1>1
    <3>1. Head(main'.todo) = "start"
      BY <1>5, <1>9 DEF EnterCalls
    <3>2. Has(Tail(main.todo), "start")
      <4>1. Tail(main.todo) # <<>> /\ Head(Tail(main.todo)) = "start"
        BY <1>4, <3>1
      <4>2. QED BY <1>3, <4>1, PlanRest
    <3>3. main.at \in {"show", "menu"} /\ Has(main.todo, "start")
      BY <1>3, <1>4, <3>2
    <3>4. vbus.astray \/ "pc" \notin flags
      BY <3>3 DEF ChargeInv, BeforeFirst
    <3>5. QED BY <1>8, <3>4
  <2>3. QED BY <1>4, <2>1, <2>2 DEF RegUsed, HeadIs
<1>16. QED
  BY <1>10, <1>11, <1>12, <1>13, <1>14, <1>15 DEF ChargeInv

LEMMA ClearFlagStep == ASSUME ChargeInv, ClearFlag PROVE ChargeInv'
<1> DEFINE h == Head(main.todo)
<1>1. /\ main.todo # <<>> /\ UNCHANGED <<pmu, usb, timer, cpu, vbus>>
      /\ \/ h = "load" /\ main' = [main EXCEPT !.todo = Tail(main.todo), !.reg = flags] /\ flags' = flags
         \/ h \in Flags /\ flags' = main.reg \ {h} /\ main' = [main EXCEPT !.todo = Tail(main.todo), !.reg = {}]
  BY DEF ClearFlag
<1>2. /\ main \in [at : Places, todo : Seq(MainCalls), reg : SUBSET Flags, rounds : Nat]
      /\ main.at \in Places /\ Planned(main.at, main.todo) /\ h \in MainCalls /\ h \in CallsAt[main.at]
      /\ Tail(main.todo) \in Seq(MainCalls) /\ Planned(main.at, Tail(main.todo))
      /\ flags \in SUBSET Flags
  BY <1>1, CallMade DEF ChargeInv, ChargeTypeOK
<1>3. h \in {"load", "short", "long", "insert"}
  BY <1>1, <1>2 DEF Flags, MainCalls, RelExit, EnterCalls
<1>4. /\ main'.at = main.at /\ main'.todo = Tail(main.todo)
      /\ main' \in [at : Places, todo : Seq(MainCalls), reg : SUBSET Flags, rounds : Nat]
      /\ h = "load" => flags' = flags /\ main'.reg = flags
      /\ h # "load" => flags' \subseteq main.reg /\ main'.reg = {}
      /\ flags' \in SUBSET Flags
  <2>1. CASE h = "load"
    <3>1. main' = [main EXCEPT !.todo = Tail(main.todo), !.reg = flags] /\ flags' = flags
      BY <1>1, <2>1 DEF Flags
    <3>2. QED BY <1>2, <2>1, <3>1
  <2>2. CASE h # "load"
    <3>1. flags' = main.reg \ {h} /\ main' = [main EXCEPT !.todo = Tail(main.todo), !.reg = {}]
      BY <1>1, <2>2
    <3>2. QED BY <1>2, <2>2, <3>1
  <2>3. QED BY <2>1, <2>2
<1>5. /\ h = "load" => main'.todo # <<>> /\ Head(main'.todo) \in {"short", "long", "insert"}
      /\ h \in {"short", "insert"} => main'.todo = <<>>
      /\ h = "long" => main'.todo # <<>> /\ Head(main'.todo) = "sti"
  BY <1>1, <1>2, <1>4, AfterCall
<1>6. main.at \notin LeftPlaces \union {"asleep", "check"}
  BY <1>2, <1>3, PlaceCalls DEF LeftPlaces
<1> HIDE DEF h
<1>7. ChargeTypeOK'
  <2>1. Planned(main'.at, main'.todo)
    BY <1>2, <1>4
  <2>2. QED BY <1>1, <1>4, <2>1 DEF ChargeInv, ChargeTypeOK
<1>8. CpuMasked'
  BY <1>1, <1>3, <1>4, StillMasked DEF h
<1>9. MasksKept'
  <2>1. main'.todo # <<>> => Head(main'.todo) # "unregister"
    BY <1>3, <1>5
  <2>2. QED BY <1>1, <2>1 DEF ChargeInv, MasksKept, HeadIs
<1>10. SwitchedOff'
  BY <1>3, <1>4, <1>5, <1>6 DEF SwitchedOff, HeadIs
<1>11. TimerOfDetection' /\ HalfEntered' /\ BeforeFirst' /\ LeftOn' /\ TimersKnown'
  <2>1. "pc" \in flags' \union main'.reg => "pc" \in flags \union main.reg
    BY <1>4
  <2>2. Head(main.todo) \notin {"start", "request", "connect", "stop", "release"}
    BY <1>3 DEF h
  <2>3. QED BY <1>1, <1>4, <2>1, <2>2, QuietCall
<1>12. RegUsed'
  <2>1. h = "load" => main'.todo # <<>> /\ Head(main'.todo) \in Flags
    BY <1>5 DEF Flags
  <2>2. main'.todo # <<>> => Head(main'.todo) \notin EnterCalls
    BY <1>3, <1>5 DEF EnterCalls
  <2>3. h # "load" => main'.reg = {}
    BY <1>4
  <2>4. QED BY <2>1, <2>2, <2>3 DEF RegUsed, HeadIs
<1>13. QED
  BY <1>7, <1>8, <1>9, <1>10, <1>11, <1>12 DEF ChargeInv

LEMMA InterruptsStep == ASSUME ChargeInv, Interrupts PROVE ChargeInv'
<1> DEFINE h == Head(main.todo)
<1>1. /\ main.todo # <<>> /\ h \in {"cli", "sti"} /\ UNCHANGED <<flags, pmu, usb, timer, vbus>>
      /\ main' = [main EXCEPT !.todo = Tail(main.todo)] /\ cpu' = (h = "sti")
  BY DEF Interrupts
<1>2. /\ main \in [at : Places, todo : Seq(MainCalls), reg : SUBSET Flags, rounds : Nat]
      /\ main.at \in Places /\ Planned(main.at, main.todo)
      /\ Tail(main.todo) \in Seq(MainCalls) /\ Planned(main.at, Tail(main.todo))
  BY <1>1, CallMade
<1>3. /\ main'.at = main.at /\ main'.todo = Tail(main.todo) /\ main'.reg = main.reg
      /\ main' \in [at : Places, todo : Seq(MainCalls), reg : SUBSET Flags, rounds : Nat]
  BY <1>1, <1>2
<1>4. /\ h = "cli" => main'.todo # <<>> /\ Head(main'.todo) = "pmuOff"
      /\ main.at \in {"asleep", "menu"}
      /\ h = "sti" => /\ main'.todo # <<>> => Head(main'.todo) = "register"
                      /\ main.at = "asleep" => main'.todo = <<>>
  BY <1>1, <1>2, <1>3, AfterCall
<1> HIDE DEF h
<1>5. cpu' \in BOOLEAN /\ (h = "cli" => cpu' = FALSE) /\ (h = "sti" => cpu' = TRUE)
  BY <1>1
<1>6. ChargeTypeOK'
  <2>1. Planned(main'.at, main'.todo)
    BY <1>2, <1>3
  <2>2. UNCHANGED <<flags, pmu, usb, timer, vbus>>
    BY <1>1
  <2>3. QED BY <1>3, <1>5, <2>1, <2>2 DEF ChargeInv, ChargeTypeOK
<1>7. CpuMasked'
  BY <1>1, <1>3, <1>5, StillMasked DEF h
<1>8. MasksKept'
  <2>1. main'.todo # <<>> => Head(main'.todo) # "unregister"
    BY <1>1, <1>4
  <2>2. UNCHANGED pmu
    BY <1>1
  <2>3. QED BY <2>1, <2>2 DEF ChargeInv, MasksKept, HeadIs
<1>9. SwitchedOff'
  <2>1. main'.todo # <<>> => Head(main'.todo) \in {"pmuOff", "register"}
    BY <1>1, <1>4
  <2>2. main.at = "asleep" /\ h = "sti" => ~pmu.on /\ ~pmu.reg /\ usb = DetectOff
    BY <1>1 DEF ChargeInv, SwitchedOff, HeadIs, h
  <2>3. main.at = "asleep" /\ h # "sti" => main'.todo # <<>>
    BY <1>1, <1>4
  <2>4. main.at \notin LeftPlaces
    BY <1>4 DEF LeftPlaces
  <2>5. UNCHANGED <<pmu, usb>>
    BY <1>1
  <2>6. QED BY <1>3, <2>1, <2>2, <2>3, <2>4, <2>5 DEF SwitchedOff, HeadIs, DetectOff
<1>10. TimerOfDetection' /\ HalfEntered' /\ BeforeFirst' /\ LeftOn' /\ TimersKnown'
  <2>1. "pc" \in flags' \union main'.reg => "pc" \in flags \union main.reg
    BY <1>1, <1>3
  <2>2. Head(main.todo) \notin {"start", "request", "connect", "stop", "release"}
    BY <1>1 DEF h
  <2>3. QED BY <1>1, <1>3, <2>1, <2>2, QuietCall
<1>11. RegUsed'
  <2>1. main.reg = {}
    BY <1>1 DEF ChargeInv, RegUsed, HeadIs, Flags, h
  <2>2. main'.todo # <<>> => Head(main'.todo) \notin EnterCalls
    BY <1>1, <1>4 DEF EnterCalls
  <2>3. QED BY <1>3, <2>1, <2>2 DEF RegUsed, HeadIs
<1>12. QED
  BY <1>6, <1>7, <1>8, <1>9, <1>10, <1>11 DEF ChargeInv

LEMMA ChargeStep == ASSUME ChargeInv, [ChargeNext]_chargeVars PROVE ChargeInv'
<1>1. CASE CheckPower
  BY <1>1, CheckPowerStep
<1>2. CASE Show("show", ~full)
  <2>1. (~full) \in BOOLEAN
    OBVIOUS
  <2>2. QED BY <1>2, <2>1, ShowStep
<1>3. CASE Show("again", TRUE)
  BY <1>3, ShowStep
<1>4. CASE Standby
  BY <1>4, StandbyStep
<1>5. CASE Plug
  BY <1>5, PlugStep
<1>6. CASE Plugged
  BY <1>6, PluggedStep
<1>7. CASE DetectEnter
  BY <1>7, EnterCallStep
<1>8. CASE DetectExit
  BY <1>8, ExitCallStep
<1>9. CASE PowerInt
  BY <1>9, PowerIntStep
<1>10. CASE ClearFlag
  BY <1>10, ClearFlagStep
<1>11. CASE Interrupts
  BY <1>11, InterruptsStep
<1>12. CASE Wake
  BY <1>12, WakeStep
<1>13. CASE Boot
  BY <1>13, BootPlansStep
<1>14. CASE KeyInterrupt
  BY <1>14, KeyInterruptStep
<1>15. CASE VbusInterrupt
  BY <1>15, VbusInterruptStep
<1>21. CASE GarbledInterrupt
  BY <1>21, GarbledInterruptStep
<1>16. CASE TimerInterrupt
  BY <1>16, TimerInterruptStep
<1>17. CASE ResetInterrupt
  BY <1>17, ResetInterruptStep
<1>18. CASE UNCHANGED chargeVars
  <2>1. ChargeTypeOK' /\ CpuMasked'
    BY <1>18 DEF chargeVars, ChargeInv, ChargeTypeOK, CpuMasked
  <2>2. MasksKept' /\ SwitchedOff' /\ TimerOfDetection' /\ HalfEntered'
    BY <1>18 DEF chargeVars, ChargeInv, MasksKept, SwitchedOff, TimerOfDetection, HalfEntered, HeadIs, Exiting, DetectOff
  <2>3. BeforeFirst' /\ LeftOn' /\ RegUsed' /\ TimersKnown'
    BY <1>18 DEF chargeVars, ChargeInv, BeforeFirst, LeftOn, RegUsed, TimersKnown, HeadIs, Exiting, DetectOff, Has
  <2>4. QED BY <2>1, <2>2, <2>3 DEF ChargeInv
<1>19. MainStep => ChargeInv'
  BY <1>1, <1>2, <1>3, <1>4, <1>5, <1>6, <1>7, <1>8, <1>9, <1>10, <1>11, Zenon DEF MainStep
<1>20. QED
  BY <1>12, <1>13, <1>14, <1>15, <1>16, <1>17, <1>18, <1>19, <1>21 DEF ChargeNext

LEMMA ChargeInvSound == ChargeInv => DetectionSafe
<1> SUFFICES ASSUME ChargeInv PROVE DetectionSafe
  OBVIOUS
<1>1. QuietWhenLeft
  <2> SUFFICES ASSUME main.at \in {"os", "off", "asleep"}, main.todo = <<>>
               PROVE  ~pmu.on /\ usb = DetectOff /\ (timer.armed = {} \/ vbus.astray) /\ cpu
    BY DEF QuietWhenLeft, Left
  <2>1. ~pmu.on /\ usb = DetectOff
    BY DEF ChargeInv, SwitchedOff, LeftPlaces
  <2>2. timer.armed = {} \/ vbus.astray
    BY <2>1, DetectOffKnown DEF ChargeInv, TimerOfDetection, HeadIs, Exiting
  <2>3. cpu
    <3>1. ~Has(main.todo, "sti")
      BY NothingLeft, PlaceCalls
    <3>2. QED BY <3>1 DEF ChargeInv, CpuMasked
  <2>4. QED BY <2>1, <2>2, <2>3
<1>2. MasksRestored
  <2> SUFFICES ASSUME main.at \in LeftPlaces, main.todo = <<>>, ~pmu.failed,
                      NEW i \in 1 .. MASKS, pmu.saved[i] # "zero"
               PROVE  pmu.masks[i] = "original"
    BY DEF MasksRestored, Left, LeftPlaces
  <2>1. ~pmu.reg /\ pmu.saved \in Masks
    BY DEF ChargeInv, ChargeTypeOK, SwitchedOff, PowerChip
  <2>2. pmu.saved[i] \in {"original", "zero"}
    BY <2>1 DEF ChargeInv, MasksKept, Masks
  <2>3. QED BY <2>1, <2>2 DEF ChargeInv, MasksKept
<1>3. QED BY <1>1, <1>2 DEF ChargeInv, DetectionSafe

\* For every order of the interrupts of the power chip, the USB controller and the timer
\* between the steps of the main program: whatever boots, is switched off or sleeps finds
\* nothing of the detection of the charger running, the masks of the power chip as they
\* were, and no timer that runs is forgotten.
THEOREM NothingOfTheDetectionIsLeft == Spec => []DetectionSafe
<1>1. Init => ChargeInv
  BY ChargeInitInv DEF Init
<1>2. ChargeInv /\ [Next]_vars => ChargeInv'
  <2> SUFFICES ASSUME ChargeInv, [Next]_vars PROVE ChargeInv'
    OBVIOUS
  <2>1. [ChargeNext]_chargeVars
    BY DEF Next, vars, OnlyCharge, OnlyMenu, OnlyAdbd, OnlyMalloc, OnlyControl
  <2>2. QED BY <2>1, ChargeStep
<1>3. QED BY <1>1, <1>2, ChargeInvSound, PTL DEF Spec

=============================================================================
