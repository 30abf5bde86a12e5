-------------------------------- MODULE UsbCtrl --------------------------------
(* The control endpoint: the state machine by which usb_device.c takes a SETUP  *)
(* packet, its data and its handshake, against a host that follows the protocol *)
(* but may stop the data early, start a new request in the middle of one, or    *)
(* reset the bus.                                                               *)
(*                                                                              *)
(* The functions of the driver are operators on its state, dev.  The requests   *)
(* are the ones this firmware answers: a read that fits its payload, the write  *)
(* of the line coding, SET_ADDRESS, and one that udc_process_setup refuses.     *)
EXTENDS Naturals, Sequences

CONSTANTS Size,       \* USB_DEVICE_EP_CTRL_SIZE
          Reads,      \* the reads: what the host asks for and what there is of it
          Coding,     \* sizeof(usb_cdc_line_coding_t), less than Size
          Addresses   \* what the host assigns

ASSUME SizeAssumption == Size \in Nat \ {0} /\ Coding \in 1 .. Size - 1
ASSUME ReadsAssumption ==
    Reads \subseteq {q \in [w : Nat \ {0}, p : Nat \ {0}] : q.p <= q.w}
ASSUME AddressesAssumption == Addresses \subseteq Nat \ {0}

\* A request: its direction, wLength, the size of its payload, and the address it sets.
Request ==
    {[kind |-> "read", w |-> q.w, p |-> q.p, v |-> 0] : q \in Reads}
    \cup {[kind |-> "coding", w |-> Coding, p |-> Coding, v |-> 0]}
    \cup {[kind |-> "address", w |-> 0, p |-> 0, v |-> a] : a \in Addresses}
    \cup {[kind |-> "unknown", w |-> 1, p |-> 0, v |-> 0]}

None == [kind |-> "unknown", w |-> 0, p |-> 0, v |-> 0]

States == {"SETUP", "DATA_OUT", "DATA_IN", "WAIT_IN_ZLP", "WAIT_OUT_ZLP", "STALL_REQ"}

VARIABLES
    dev,      \* the driver and the registers of the control endpoint
    fifo,     \* the transfers that completed, oldest first: "in" and "out"
    setup,    \* a SETUP packet was received
    unf, ovf, \* the underflow and overflow interrupt flags
    buf,      \* udd_ctrl_buffer: the request, or "data", and its length
    host,     \* the request of the host, its phase, and what it got
    stale,    \* history: the host was sent something that was not of its request
    odd       \* history: the host has cut a request short, by a new one or by a bus reset
              \* before its SETUP was served ("cut"); since the last bus reset, it has stopped
              \* a data phase ("stop"), and other endpoints have answered NAK ("nak")

hwVars == <<fifo, setup, unf, ovf>>
vars   == <<dev, hwVars, buf, host, stale, odd>>

\* A packet put up to be sent: the bytes from .. from + n - 1 of the payload of "of".
Packets == [ready : BOOLEAN, of : Request \cup {None}, from : Nat, n : 0 .. Size]

\* The state of the driver: udd_g_ctrlreq, the variables of the state machine, the
\* registers of both directions, the line coding and the address.
Drivers ==
    [state : States, req : Request \cup {None}, payload_size : Nat, nb : Nat, prev : Nat,
     packet : Packets, short : BOOLEAN, callback : BOOLEAN, out_ready : BOOLEAN,
     stall : BOOLEAN, tc_in : BOOLEAN, tc_out : BOOLEAN, in_unf : BOOLEAN,
     out_ovf : BOOLEAN, irq : BOOLEAN, coding : BOOLEAN, address : Addresses \cup {0}]

\* Above all, no more is sent of a payload than there is, and a direction completes no
\* transfer that it was not made ready for.
TypeOK ==
    /\ dev \in Drivers
    /\ dev.nb <= dev.payload_size
    /\ fifo \in Seq({"in", "out"})
    /\ Len(fifo) + (IF dev.packet.ready THEN 1 ELSE 0) + (IF dev.out_ready THEN 1 ELSE 0) <= 2
    /\ {setup, unf, ovf, stale} \subseteq BOOLEAN
    /\ buf \in [of : Request \cup {None}, data : BOOLEAN, n : Nat]
    /\ host \in [phase : {"idle", "data", "status"}, req : Request \cup {None},
                 got : Nat, early : BOOLEAN, address : Addresses \cup {0}]
    /\ odd \subseteq {"stop", "cut", "nak"}

NoPacket == [ready |-> FALSE, of |-> None, from |-> 0, n |-> 0]

\* After a bus reset and udd_ctrl_init.
Fresh(short, coding) ==
    [state |-> "SETUP", req |-> None, payload_size |-> 0, nb |-> 0, prev |-> 0,
     packet |-> NoPacket, short |-> short, callback |-> FALSE, out_ready |-> FALSE,
     stall |-> FALSE, tc_in |-> FALSE, tc_out |-> FALSE, in_unf |-> FALSE,
     out_ovf |-> FALSE, irq |-> FALSE, coding |-> coding, address |-> 0]

Quiet == [phase |-> "idle", req |-> None, got |-> 0, early |-> FALSE, address |-> 0]

Init ==
    /\ dev = Fresh(FALSE, TRUE)
    /\ fifo = << >> /\ setup = FALSE /\ unf = FALSE /\ ovf = FALSE
    /\ buf = [of |-> None, data |-> FALSE, n |-> 0]
    /\ host = Quiet
    /\ stale = FALSE /\ odd = {}

--------------------------------------------------------------------------------
(* The driver.                                                                  *)

\* udd_ctrl_init.
CtrlInit(d) ==
    [d EXCEPT !.state = "SETUP", !.irq = FALSE, !.in_unf = FALSE, !.out_ovf = FALSE,
              !.packet = [@ EXCEPT !.ready = FALSE, !.n = 0],
              !.tc_in = FALSE, !.callback = FALSE, !.payload_size = 0, !.nb = 0]

\* Mutant of EndOfRequest: no callback.
EndOfRequestOnly(d) == d

\* udd_ctrl_endofrequest: the only callback that matters is that of SET_ADDRESS.
EndOfRequest(d) == [d EXCEPT !.address = IF d.callback THEN d.req.v ELSE @]

ZlpIn(d) ==
    [d EXCEPT !.state = "WAIT_IN_ZLP",
              !.packet = [ready |-> TRUE, of |-> d.req, from |-> 0, n |-> 0]]

\* Mutant of ZlpOut: the endpoint does not take the handshake.
ZlpOutOnly(d) == [d EXCEPT !.state = "WAIT_OUT_ZLP"]

ZlpOut(d) == [d EXCEPT !.state = "WAIT_OUT_ZLP", !.out_ready = TRUE]
Stall(d)  == [d EXCEPT !.state = "STALL_REQ", !.stall = TRUE]

\* Mutant of SendNext: the last packet is counted as if it were full.
SendNextFull(d) ==
    LET left == d.payload_size - d.nb
        n    == IF left < Size THEN left ELSE Size
    IN  [d EXCEPT !.short = left < Size, !.nb = d.nb + Size,
                  !.packet = [ready |-> TRUE, of |-> d.req, from |-> d.nb, n |-> n]]

\* The next packet of the payload, empty if there is nothing left of it.
SendNext(d) ==
    LET left == d.payload_size - d.nb
        n    == IF left < Size THEN left ELSE Size
    IN  [d EXCEPT !.short = left < Size, !.nb = d.nb + n,
                  !.packet = [ready |-> TRUE, of |-> d.req, from |-> d.nb, n |-> n]]

\* udd_ctrl_in_sent.  No request of this firmware has an over_under_run.
InSent(d) ==
    IF d.state = "WAIT_IN_ZLP" THEN CtrlInit(EndOfRequest(d))
    ELSE IF d.payload_size # d.nb THEN SendNext(d)
    ELSE LET e == [d EXCEPT !.prev = d.prev + d.nb]
         IN  IF d.req.w = e.prev \/ d.short THEN ZlpOut(e) ELSE SendNext(e)

\* udd_ctrl_out_received: the data is copied to the line coding, as much as fits.
OutReceived(d) ==
    IF d.state = "WAIT_OUT_ZLP" THEN CtrlInit(EndOfRequest(d))
    ELSE LET room == d.payload_size - d.nb
             n    == IF buf.n < room THEN buf.n ELSE room
             e    == [d EXCEPT !.nb = d.nb + n,
                               !.coding = @ /\ (buf.data \/ n = 0 \/ d.req.kind # "coding")]
         IN  IF n # Size \/ d.req.w <= e.prev + e.nb
             THEN ZlpIn([e EXCEPT !.payload_size = e.nb])
             ELSE IF e.payload_size = e.nb THEN Stall(e)
             ELSE [e EXCEPT !.out_ready = TRUE, !.tc_out = FALSE]

\* udc_process_setup: what it sets of udd_g_ctrlreq when it accepts the request.
ProcessSetup(d) ==
    [d EXCEPT !.payload_size = d.req.p, !.callback = d.req.kind = "address"]

\* udd_ctrl_setup_received.
SetupReceived(d) ==
    LET ended == IF d.state \in {"WAIT_IN_ZLP", "WAIT_OUT_ZLP"} THEN EndOfRequest(d) ELSE d
        ready == IF d.state = "SETUP" THEN d ELSE CtrlInit(ended)
        e     == [ready EXCEPT !.req = buf.of, !.irq = TRUE]
        f     == ProcessSetup(e)
    IN  IF buf.data THEN ready
        ELSE IF buf.of.kind = "unknown" THEN Stall([e EXCEPT !.payload_size = 0])
        ELSE IF buf.of.kind = "read"
        THEN InSent([f EXCEPT !.prev = 0, !.nb = 0, !.state = "DATA_IN"])
        ELSE IF buf.of.w = 0 THEN ZlpIn(f)
        ELSE [f EXCEPT !.prev = 0, !.nb = 0, !.state = "DATA_OUT",
                       !.out_ready = TRUE, !.tc_out = FALSE]

\* udd_ctrl_underflow and udd_ctrl_overflow, when no transfer is to be processed first.
Underflow(d) ==
    CASE d.state = "DATA_OUT"     -> ZlpIn(d)
      [] d.state = "WAIT_OUT_ZLP" -> [d EXCEPT !.stall = TRUE]
      [] OTHER                    -> d

\* Mutant of Overflow: data that comes before the driver is ready is taken for an error.
OverflowStalls(d) ==
    CASE d.state = "DATA_IN"                    -> ZlpOut(d)
      [] d.state \in {"WAIT_IN_ZLP", "DATA_OUT"} -> [d EXCEPT !.stall = TRUE]
      [] OTHER                                  -> d

Overflow(d) ==
    CASE d.state = "DATA_IN"     -> ZlpOut(d)
      [] d.state = "WAIT_IN_ZLP" -> [d EXCEPT !.stall = TRUE]
      [] OTHER                   -> d

--------------------------------------------------------------------------------
(* The interrupts.                                                              *)

\* Mutant of Error: a transfer that completed is not looked for.
ErrorAtOnce(handled) ==
    /\ dev' = IF setup THEN SetupReceived(dev) ELSE handled
    /\ setup' = FALSE

\* What handles an error of the endpoint: a SETUP that has come is taken first, and a
\* transfer that completed makes the error void.
Error(handled) ==
    /\ dev' = IF fifo # << >> THEN dev
              ELSE IF setup THEN SetupReceived(dev)
              ELSE handled
    /\ setup' = (setup /\ fifo # << >>)

\* USB_BUSEVENT: the flag is of any endpoint, and so is looked up in the control endpoint's
\* status, which is cleared only with the next request.
UnderflowEvent ==
    /\ dev.irq /\ unf
    /\ unf' = FALSE
    /\ IF dev.in_unf THEN Error(Underflow(dev)) ELSE UNCHANGED <<dev, setup>>
    /\ UNCHANGED <<fifo, ovf, buf, host, stale, odd>>

OverflowEvent ==
    /\ dev.irq /\ ~unf /\ ovf
    /\ ovf' = FALSE
    /\ IF dev.out_ovf THEN Error(Overflow(dev)) ELSE UNCHANGED <<dev, setup>>
    /\ UNCHANGED <<fifo, unf, buf, host, stale, odd>>

\* USB_TRNCOMPL: the oldest transfer is taken, unless its endpoint forgot it, and a SETUP
\* only when there is none.
TransferComplete ==
    /\ ~(dev.irq /\ (unf \/ ovf))
    /\ \/ /\ fifo # << >>
          /\ fifo' = Tail(fifo)
          /\ dev' = CASE Head(fifo) = "out" /\ dev.tc_out ->
                           OutReceived([dev EXCEPT !.tc_out = FALSE])
                      [] Head(fifo) = "in" /\ dev.tc_in ->
                           InSent([dev EXCEPT !.tc_in = FALSE])
                      [] OTHER -> dev
          /\ setup' = setup
       \/ /\ fifo = << >> /\ setup
          /\ dev' = SetupReceived(dev)
          /\ setup' = FALSE
          /\ fifo' = fifo
    /\ UNCHANGED <<unf, ovf, buf, host, stale, odd>>

--------------------------------------------------------------------------------
(* The host, and what the hardware does with what it sends.                     *)

\* The device answers to its address.
Answers == dev.address = host.address

\* A SETUP packet, in whatever state the device is, ends a stall, and from it
\* on the endpoint takes and gives nothing until the driver says so.
Setup(q) ==
    /\ Answers
    /\ odd' = IF host.phase = "idle" THEN odd ELSE odd \cup {"cut"}
    /\ host' = [host EXCEPT !.phase = IF q.kind = "address" THEN "status" ELSE "data",
                            !.req = q, !.got = 0, !.early = FALSE]
    /\ setup' = TRUE
    /\ buf' = [of |-> q, data |-> FALSE, n |-> 8]
    /\ dev' = [dev EXCEPT !.stall = FALSE, !.out_ready = FALSE, !.packet.ready = FALSE]
    /\ UNCHANGED <<fifo, unf, ovf, stale>>

Ends(h)     == [h EXCEPT !.phase = "idle"]
Writes(h)   == h.req.kind \in {"coding", "unknown"}
WaitsIn(h)  == h.phase = "data" /\ h.req.kind = "read"
WaitsOut(h) == h.phase = "data" /\ Writes(h)
StatIn(h)   == h.phase = "status" /\ h.req.kind # "read"
StatOut(h)  == h.phase = "status" /\ h.req.kind = "read"

\* The host asks for a packet: the data of a read, the handshake of another request.
In ==
    /\ Answers
    /\ WaitsIn(host) \/ StatIn(host)
    /\ LET p == dev.packet IN
       \/ /\ dev.stall
          /\ host' = Ends(host)
          /\ UNCHANGED <<dev, fifo, unf, stale>>
       \/ /\ ~dev.stall /\ ~p.ready
          /\ unf' = TRUE
          /\ dev' = [dev EXCEPT !.in_unf = TRUE]
          /\ UNCHANGED <<fifo, host, stale>>
       \/ /\ ~dev.stall /\ p.ready
          /\ dev' = [dev EXCEPT !.packet.ready = FALSE, !.tc_in = TRUE]
          /\ fifo' = Append(fifo, "in")
          /\ stale' = (stale \/ p.of # host.req \/ p.from # (IF p.n = 0 THEN p.from ELSE host.got))
          /\ host' = LET got == host.got + p.n
                     IN  IF StatIn(host)
                         THEN [Ends(host) EXCEPT !.address =
                                 IF host.req.kind = "address" THEN host.req.v ELSE @]
                         ELSE [host EXCEPT !.got = got,
                                           !.phase = IF p.n < Size \/ got >= host.req.w
                                                     THEN "status" ELSE "data"]
          /\ UNCHANGED unf
    /\ UNCHANGED <<setup, ovf, buf, odd>>

\* The host sends a packet: the data of a write, the handshake of a read.
Out ==
    /\ Answers
    /\ WaitsOut(host) \/ StatOut(host)
    /\ \/ /\ dev.stall
          /\ host' = Ends(host)
          /\ UNCHANGED <<dev, fifo, ovf, buf>>
       \/ /\ ~dev.stall /\ ~dev.out_ready
          /\ ovf' = TRUE
          /\ dev' = [dev EXCEPT !.out_ovf = TRUE]
          /\ UNCHANGED <<fifo, host, buf>>
       \/ /\ ~dev.stall /\ dev.out_ready
          /\ dev' = [dev EXCEPT !.out_ready = FALSE, !.tc_out = TRUE]
          /\ fifo' = Append(fifo, "out")
          /\ buf' = [of |-> None, data |-> TRUE, n |-> IF StatOut(host) THEN 0 ELSE host.req.w]
          /\ host' = IF StatOut(host) THEN Ends(host) ELSE [host EXCEPT !.phase = "status"]
          /\ UNCHANGED ovf
    /\ UNCHANGED <<setup, unf, stale, odd>>

\* The host stops the data phase.
GoOn ==
    /\ host.phase = "data"
    /\ host' = [host EXCEPT !.phase = "status", !.early = TRUE]
    /\ odd' = odd \cup {"stop"}
    /\ UNCHANGED <<dev, hwVars, buf, stale>>

\* Another endpoint has nothing to send, or no room.
Nak ==
    /\ \/ unf' = TRUE /\ ovf' = ovf
       \/ ovf' = TRUE /\ unf' = unf
    /\ odd' = odd \cup {"nak"}
    /\ UNCHANGED <<dev, fifo, setup, buf, host, stale>>

\* A bus reset; its event finds the endpoint as it is, and starts it anew, but leaves the
\* flags and the transfers that wait to be served.
Reset ==
    /\ dev' = Fresh(dev.short, dev.coding)
    /\ host' = Quiet
    /\ odd' = (odd \cap {"cut"}) \cup (IF setup THEN {"cut"} ELSE {})
    /\ UNCHANGED <<hwVars, buf, stale>>

Isr == UnderflowEvent \/ OverflowEvent \/ TransferComplete

Next ==
    \/ Isr
    \/ \E q \in Request : Setup(q)
    \/ In \/ Out \/ GoOn
    \/ Nak
    \/ Reset

Spec == Init /\ [][Next]_vars

\* Interrupts are served, also those of lower priority, since the host's repetitions leave
\* the processor time for them; and a host repeats what was not acknowledged.
LiveSpec ==
    /\ Spec
    /\ WF_vars(UnderflowEvent) /\ SF_vars(OverflowEvent) /\ SF_vars(TransferComplete)
    /\ WF_vars(In) /\ WF_vars(Out)

--------------------------------------------------------------------------------
(* Properties.                                                                  *)

\* Data belongs to its request: what a read gives is the payload, in order, and all of it
\* when the host did not stop (usb_device.c:1067-1119), no packet of an earlier request and
\* none twice; and line coding is written from data (usb_device.c:1142), never from a SETUP
\* packet that came after it into the same buffer.  So it is as long as the host ends one
\* request before the next.
DataOfItsRequest ==
    "cut" \notin odd =>
        /\ ~stale /\ dev.coding
        /\ StatOut(host) /\ ~host.early => host.got = host.req.p

\* A request that the device knows is not stalled (usb_device.c:1190-1222), however early
\* the host sends its packets, and from a bus reset on whatever happened before; the flags
\* of other endpoints and data phases that were stopped can bring a stall about.
KnownIsNotStalled == odd = {} /\ dev.stall => dev.req.kind = "unknown" \/ setup

\* "The address must be changed at the end of setup request after the handshake"
\* (udc.c:591): not before the host has seen the handshake, and then it is changed, as long
\* as the host ends one request before the next, and a bus reset overtakes no SETUP packet.
AddressAfterHandshake ==
    "cut" \notin odd =>
        /\ fifo = << >> /\ ~setup => Answers
        /\ dev.address # host.address => dev.address = 0 \/ dev.callback

\* Whatever is asked, the host gets an end of it, unless the bus is reset or it starts
\* another request first (usb_device.c:1017-1253).
Ended == []((host.phase # "idle") => <>(host.phase = "idle" \/ "cut" \in odd))
================================================================================
