-------------------------- MODULE ControlEndpoint ---------------------------
(***************************************************************************)
(* The control endpoint of diskboot (usbdcomm.c): bus resets, requests of  *)
(* the host, and the address, which is set at the next start of frame.     *)
(*                                                                         *)
(* The answer to a request is put into the FIFO, then the device waits     *)
(* until it is gone.  A request without data is over for the host when it  *)
(* has been read: the device does not end it in any other way, and a       *)
(* request it refuses without a stall looks carried out.                   *)
(*                                                                         *)
(* The controller drops the FIFO of the endpoint at a bus reset and when   *)
(* the next request arrives.  The host leaves the device the time of some  *)
(* frames to take its new address.  Requests for no bytes are left out.    *)
(***************************************************************************)
EXTENDS Integers, FiniteSets

CONSTANTS
    REQUESTS,      \* requests of the host: kind and wLength
    MAX_REQUESTS,  \* bound: requests
    MAX_RESETS,    \* bound: bus resets after the first one
    MAX_LATE       \* bound: status stages that a start of frame comes before,
                   \* and requests the host gives up early

\* Requests that are answered with data, by the bytes there are, those without data,
\* and those the device stalls or does not answer at all.
Full == [device |-> 18, configuration |-> 55, qualifier |-> 10, string |-> 28, status |-> 2, lun |-> 1]
Changes == {"set configuration", "set interface"}
NoData == Changes \union {"address", "other configuration", "feature", "mass storage reset"}
Stalled == {"unknown"}
Silent == {"no string"}

\* A request for data asks for some.
ASSUME RequestsKnown ==
    /\ REQUESTS \subseteq [kind : DOMAIN Full \union NoData \union Stalled \union Silent, w : Nat]
    /\ \A r \in REQUESTS : r.kind \in DOMAIN Full => r.w > 0

VARIABLES
    udc,   \* controller's address; udc.address, set_address, speed known, configured, waiting in a write
    ep0,   \* request and packet in the FIFO, stall, request read
    port,  \* the host: phase, request under way, what it got, its address for the device
    used   \* requests, resets and late stages so far

controlVars == <<udc, ep0, port, used>>

NoRequest == [kind |-> "none", w |-> 0]
NoPacket == [kind |-> "none", len |-> 0]
Empty == [setup |-> NoRequest, tx |-> NoPacket, stall |-> FALSE, read |-> FALSE]

ControlInit ==
    /\ udc = [faddr |-> 0, address |-> 0, set |-> FALSE, speed |-> FALSE, conf |-> FALSE, waits |-> FALSE]
    /\ ep0 = Empty
    /\ port = [phase |-> "off", req |-> NoRequest, got |-> NoPacket, at |-> 0, next |-> 1,
               conf |-> FALSE, reset |-> FALSE]
    /\ used = [requests |-> 0, resets |-> 0, late |-> 0]

-----------------------------------------------------------------------------
(* usbdcomm_poll_h: what the device does with a request.                    *)

SmallerOf(a, b) == IF a < b THEN a ELSE b

\* The configuration with its interfaces and endpoints, counted in a byte.
ConfigurationBytes(w) == SmallerOf(w % 256, Full.configuration)

Answer(req) ==
    [kind |-> req.kind,
     len |-> CASE req.kind = "configuration" -> ConfigurationBytes(req.w)
               [] req.kind = "lun"           -> 1
               [] OTHER                      -> SmallerOf(req.w, Full[req.kind])]

\* do_usb_req_set_address: a new address is only noted.
NoteAddress(u, address) == [u EXCEPT !.address = address, !.set = TRUE, !.speed = TRUE]

\* usbdcomm_bulk_endpoint_reset, with the packet size of the speed that is known.
EndpointReset(u) == [u EXCEPT !.conf = u.speed]

\* The request is read and handled.
HandleSetup(u) ==
    LET req == ep0.setup
        sends == req.kind \in DOMAIN Full
    IN /\ ep0' = [Empty EXCEPT !.tx = IF sends THEN Answer(req) ELSE NoPacket,
                               !.stall = req.kind \in Stalled, !.read = TRUE]
       /\ udc' = CASE sends -> [u EXCEPT !.waits = TRUE]
                    [] req.kind = "address" -> NoteAddress(u, req.w)
                    [] req.kind \in Changes -> EndpointReset(u)
                    [] OTHER -> u

-----------------------------------------------------------------------------
(* usbdcomm_poll.                                                           *)

\* The reset is seen.  set_address stays as it is.
AfterBusReset(u) == [u EXCEPT !.faddr = 0, !.address = 0, !.speed = FALSE]

BusResetSeen ==
    /\ port.reset /\ ~udc.waits
    /\ udc' = AfterBusReset(udc)
    /\ port' = [port EXCEPT !.reset = FALSE]
    /\ UNCHANGED <<ep0, used>>

\* usbdcomm_resume at a start of frame: first the address, then the next request.
StatusPending == port.phase = "asks" /\ port.req.kind = "address" /\ ep0.read

Frame ==
    /\ ~port.reset /\ ~udc.waits
    /\ udc.set \/ ep0.setup # NoRequest
    /\ IF udc.set /\ StatusPending
       THEN used.late < MAX_LATE /\ used' = [used EXCEPT !.late = @ + 1]
       ELSE UNCHANGED used
    /\ LET u == IF udc.set THEN [udc EXCEPT !.faddr = udc.address, !.set = FALSE] ELSE udc
       IN IF ep0.setup # NoRequest THEN HandleSetup(u) ELSE udc' = u /\ UNCHANGED ep0
    /\ UNCHANGED port

\* WriteDataStatusComplete: the packet is gone.
WriteEnds ==
    /\ udc.waits /\ ep0.tx = NoPacket
    /\ udc' = [udc EXCEPT !.waits = FALSE]
    /\ UNCHANGED <<ep0, port, used>>

DeviceStep == BusResetSeen \/ Frame \/ WriteEnds

-----------------------------------------------------------------------------
(* The host.                                                                *)

\* The controller drops its address and the FIFO; the device sees it later.
HostResetsBus ==
    /\ IF port.phase \in {"off", "failed"} THEN UNCHANGED used
       ELSE used.resets < MAX_RESETS /\ used' = [used EXCEPT !.resets = @ + 1]
    /\ ep0' = Empty
    /\ udc' = [udc EXCEPT !.faddr = 0]
    /\ port' = [port EXCEPT !.phase = "idle", !.req = NoRequest, !.got = NoPacket, !.at = 0,
                            !.conf = FALSE, !.reset = TRUE]

\* Requests in the order of an enumeration: the configuration needs an address.
Allowed(kind) ==
    CASE kind = "address"           -> port.at = 0
      [] kind = "set configuration" -> port.at # 0
      [] kind \in {"lun", "mass storage reset", "set interface", "other configuration"} -> port.conf
      [] OTHER -> TRUE

\* A request that the device does not hear, at another address, fails.
HostAsks ==
    /\ port.phase = "idle" /\ used.requests < MAX_REQUESTS
    /\ udc.set => port.at = 0
    /\ \E r \in REQUESTS :
          /\ Allowed(r.kind)
          /\ LET req == IF r.kind = "address" THEN [r EXCEPT !.w = port.next] ELSE r
             IN IF udc.faddr = port.at
                THEN /\ ep0' = [Empty EXCEPT !.setup = req]
                     /\ port' = [port EXCEPT !.phase = "asks", !.req = req, !.got = NoPacket]
                ELSE /\ UNCHANGED ep0
                     /\ port' = [port EXCEPT !.phase = "failed"]
    /\ used' = [used EXCEPT !.requests = @ + 1]
    /\ UNCHANGED udc

\* The data stage and its status.
HostTakes ==
    /\ port.phase = "asks" /\ ep0.tx # NoPacket
    /\ port' = [port EXCEPT !.phase = "idle", !.got = ep0.tx]
    /\ ep0' = [ep0 EXCEPT !.tx = NoPacket]
    /\ UNCHANGED <<udc, used>>

\* The status stage of a request without data.
HostEnds ==
    /\ port.phase = "asks" /\ port.req.kind \in NoData /\ ep0.read
    /\ IF udc.faddr = port.at
       THEN port' = [port EXCEPT !.phase = "idle",
                                 !.at = IF port.req.kind = "address" THEN port.req.w ELSE @,
                                 !.next = IF port.req.kind = "address" THEN 3 - @ ELSE @,
                                 !.conf = @ \/ port.req.kind = "set configuration"]
       ELSE port' = [port EXCEPT !.phase = "failed"]
    /\ UNCHANGED <<udc, ep0, used>>

\* A stall, a timeout, or the host goes on before the answer.
HostGivesUp ==
    /\ port.phase = "asks"
    /\ \/ ep0.stall /\ UNCHANGED used
       \/ ep0.read /\ port.req.kind \in Silent /\ UNCHANGED used
       \/ used.late < MAX_LATE /\ port.req.kind # "address" /\ used' = [used EXCEPT !.late = @ + 1]
    /\ port' = [port EXCEPT !.phase = "idle"]
    /\ ep0' = [ep0 EXCEPT !.stall = FALSE]
    /\ UNCHANGED udc

PortStep == HostTakes \/ HostEnds \/ HostGivesUp \/ (port.phase = "failed" /\ HostResetsBus)

ControlNext == DeviceStep \/ HostResetsBus \/ HostAsks \/ PortStep

-----------------------------------------------------------------------------
(* Properties.                                                              *)

\* The controller answers at address 0 or at the one the host gave last since the
\* bus reset: an address noted before a reset (udc.address) is not set after it.
AddressOfHost ==
    udc.faddr # 0 =>
        \/ udc.faddr = port.at
        \/ port.req = [kind |-> "address", w |-> udc.faddr] /\ port.phase \in {"asks", "failed"}

\* When no address is on its way any more, the device listens where the host talks.
AddressSettles ==
    port.phase = "idle" /\ ~port.reset /\ ~udc.set => udc.faddr = port.at

\* A device the host has configured knows its speed (usbdcomm_fifo_size), and its
\* bulk endpoints have been set up with it (usbdcomm_bulk_endpoint_reset).
EndpointsReady == port.conf /\ ~port.reset => udc.speed /\ udc.conf

\* The host gets the answer to its own request, never longer than it asked for and,
\* below 256 bytes, as long as there is.
AnswersFit ==
    port.got # NoPacket =>
        /\ port.got.kind = port.req.kind
        /\ port.got.len <= port.req.w
        /\ port.req.w < 256 => port.got.len = SmallerOf(port.req.w, Full[port.req.kind])

ControlSound == AddressOfHost /\ AddressSettles /\ EndpointsReady /\ AnswersFit

\* Every request of the host comes to an end, also when the bus is reset while the
\* device waits for a packet to be read.
Asking == port.phase = "asks"
RequestEnds == Asking ~> ~Asking
=============================================================================
