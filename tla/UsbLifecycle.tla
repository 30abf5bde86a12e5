------------------------------ MODULE UsbLifecycle ------------------------------
(* The life of the MIDI interface under the USB device stack: the stack is      *)
(* started and stopped from the button menu, the host resets the bus, selects   *)
(* configurations and halts endpoints, and every one of these aborts transfers  *)
(* whose callbacks start new ones.                                              *)
(*                                                                              *)
(* The handlers of the stack (level LO; udc_stop: main with USB switched off)   *)
(* are lists of steps, todo; between two of them the UART interrupts (HI) run,  *)
(* and the host may use an endpoint that is open.  Within a step, usb_midi_sent *)
(* and usb_recv_process are one action: their interleavings are those of UsbIn  *)
(* and UsbOut.                                                                  *)
EXTENDS Naturals, Sequences

CONSTANTS Packet,     \* events a USB packet and a send buffer hold (16)
          RingCap     \* messages a transmit ring holds; all go to one jack

ASSUME PacketAssumption == Packet \in Nat \ {0}
ASSUME RingCapAssumption == RingCap \in Nat \ {0}

Eps == {"OUT", "IN"}

VARIABLES
    attached,   \* udd_enable ran: USB interrupts and the bus are on
    ctrl,       \* a bus reset since then set up the control endpoint
    conf,       \* udc_num_configuration
    ep,         \* CTRL of the endpoint: "off", "on" or "halted"
    nack,       \* BUSNACK0 of the endpoint
    tc,         \* its transfer is complete, the interrupt is pending
    data,       \* its byte counter: events received, or 1 for a packet sent
    job,        \* udd_ep_job[].busy
    midi,       \* usb_midi_enabled: the UARTs are set up, else they are disabled
    locks,      \* how often SLEEPMGR_IDLE is locked
    left,       \* events in usb_recv_buf
    odd,        \* the last of them names a jack the board lacks, and is never sent
    ring,       \* messages in the transmit ring
    want,       \* want_write is set
    dre,        \* the data-register-empty interrupt is enabled
    queue,      \* events in the active buffer of usb_send_buf
    sending,    \* usb_send_busy
    menu,       \* the button menu is about to call this, "none" otherwise
    todo,       \* the steps left of the handler under way
    cut         \* history: what a handler cut off, OUT, the UART, or a packet of IN

epVars   == <<ep, nack, tc, data, job>>
busVars  == <<attached, ctrl, conf>>
outVars  == <<left, odd, ring, want, dre>>
inVars   == <<queue, sending>>
midiVars == <<midi, locks>>
vars == <<epVars, busVars, outVars, inVars, midiVars, menu, todo, cut>>

\* The steps of the handlers: what is done, and to which endpoint.
Steps == {"abort", "halt", "off", "alloc"} \X Eps
            \cup {"enable", "disable", "conf0", "conf1", "ctrl"} \X {"all"}

TypeOK ==
    /\ attached \in BOOLEAN /\ ctrl \in BOOLEAN
    /\ conf \in {0, 1}
    /\ ep \in [Eps -> {"off", "on", "halted"}]
    /\ nack \in [Eps -> BOOLEAN]
    /\ tc \in [Eps -> BOOLEAN]
    /\ data \in [Eps -> 0 .. Packet]
    /\ job \in [Eps -> BOOLEAN]
    /\ midi \in BOOLEAN /\ locks \in Nat
    /\ left \in 0 .. Packet /\ odd \in BOOLEAN
    /\ ring \in 0 .. RingCap
    /\ want \in BOOLEAN /\ dre \in BOOLEAN
    /\ queue \in 0 .. Packet
    /\ sending \in BOOLEAN
    /\ menu \in {"none", "start", "stop"}
    /\ todo \in Seq(Steps)
    /\ cut \subseteq {"OUT", "IN", "uart"}

\* main: the splitter is on, IDLE is locked, and udc_start is called.
Init ==
    /\ attached = TRUE /\ ctrl = FALSE
    /\ conf = 0
    /\ ep = [e \in Eps |-> "off"]
    /\ nack = [e \in Eps |-> FALSE]
    /\ tc = [e \in Eps |-> FALSE]
    /\ data = [e \in Eps |-> 0]
    /\ job = [e \in Eps |-> FALSE]
    /\ midi = FALSE /\ locks = 1
    /\ left = 0 /\ odd = FALSE
    /\ ring = 0 /\ want = FALSE /\ dre = FALSE
    /\ queue = 0 /\ sending = FALSE
    /\ menu = "none"
    /\ todo = << >>
    /\ cut = {}

--------------------------------------------------------------------------------
(* Endpoint jobs and their callbacks.                                           *)

\* The host may use the endpoint.
Open(e) == attached /\ ep[e] = "on" /\ ~nack[e]

\* udd_ep_run, whose caller knows whether a job is on going (busy), starts one.
Starts(e, busy) == ep[e] = "on" /\ ~busy

\* The endpoint after the callbacks: a new job runs (again), or none is started.
Job(e, again, busy, nak) ==
    /\ job' = [job EXCEPT ![e] = again \/ busy]
    /\ nack' = [nack EXCEPT ![e] = nak /\ ~again]
    /\ data' = [data EXCEPT ![e] = IF again THEN 0 ELSE @]

\* The events of n that name jacks of the board; nothing behind another is ever looked at.
Sendable(n) == IF odd /\ n > 0 THEN n - 1 ELSE n

\* Mutant of Process: the size is not left in want_write.
ProcessForgets(n, r, busy, nak) ==
    LET m     == Sendable(n)
        k     == IF m <= RingCap - r THEN m ELSE RingCap - r
        again == k = n /\ Starts("OUT", busy)
    IN  /\ left' = n - k
        /\ ring' = r + k
        /\ dre' = (dre \/ k > 0)
        /\ want' = (want /\ k = 0)
        /\ UNCHANGED odd
        /\ Job("OUT", again, busy, nak)

\* usb_recv_process with n events in the buffer and r messages in the ring: those that fit are
\* sent; the first that finds no room is noted in want_write, one that midi_send refuses is
\* not; after the last, OUT is run again.
Process(n, r, busy, nak) ==
    LET m     == Sendable(n)
        k     == IF m <= RingCap - r THEN m ELSE RingCap - r
        again == k = n /\ Starts("OUT", busy)
    IN  /\ left' = n - k
        /\ ring' = r + k
        /\ dre' = (dre \/ k > 0)
        /\ want' = (k < m \/ (want /\ k = 0))
        /\ UNCHANGED odd
        /\ Job("OUT", again, busy, nak)

\* Mutant of Sent: usb_send_busy is left to usb_midi_flush.
SentStaysBusy(nak) ==
    LET again == queue # 0 /\ Starts("IN", FALSE)
    IN  /\ queue' = 0
        /\ sending' = (again \/ queue = 0)
        /\ Job("IN", again, FALSE, nak)

\* usb_midi_sent, and usb_midi_flush if events are waiting: they are sent or dropped.
Sent(nak) ==
    LET again == queue # 0 /\ Starts("IN", FALSE)
    IN  /\ queue' = 0
        /\ sending' = again
        /\ Job("IN", again, FALSE, nak)

\* An abort takes OUT from the host; the last of a halt takes the job of IN while the packet
\* of an earlier one is still to be completed.
CutsOff(e) == \/ e = "OUT" /\ ep[e] # "off"
              \/ e = "IN" /\ ep[e] = "halted" /\ job[e] /\ tc[e]

\* Mutant of Abort: the endpoint is not closed first.
AbortLeavesOpen(e) ==
    /\ IF ~job[e]        THEN UNCHANGED <<nack, job, data, outVars, inVars>>
       ELSE IF e = "OUT" THEN Process(data[e], ring, FALSE, nack[e]) /\ UNCHANGED inVars
       ELSE Sent(nack[e]) /\ UNCHANGED outVars
    /\ cut' = IF CutsOff(e) THEN cut \cup {e} ELSE cut

\* udd_ep_abort: the endpoint is closed; the callback of the job, if there is one, runs
\* with what was transferred, while the endpoint is still enabled.
Abort(e) ==
    /\ IF ~job[e]        THEN /\ nack' = [nack EXCEPT ![e] = TRUE]
                              /\ UNCHANGED <<job, data, outVars, inVars>>
       ELSE IF e = "OUT" THEN Process(data[e], ring, FALSE, TRUE) /\ UNCHANGED inVars
       ELSE Sent(TRUE) /\ UNCHANGED outVars
    /\ cut' = IF CutsOff(e) THEN cut \cup {e} ELSE cut

--------------------------------------------------------------------------------
(* The steps of the handlers.                                                   *)

\* udd_endpoint_disable, the end of udd_ep_free.
Off(e) ==
    /\ ep' = [ep EXCEPT ![e] = "off"]
    /\ UNCHANGED <<nack, tc, data, job, cut>>

\* udd_endpoint_enable_stall, which means nothing while the endpoint is disabled.
Halt(e) ==
    /\ ep' = [ep EXCEPT ![e] = IF @ = "off" THEN "off" ELSE "halted"]
    /\ UNCHANGED <<nack, tc, data, job, cut>>

\* udd_ep_alloc: the endpoint is enabled and closed, a pending completion is forgotten.
Alloc(e) ==
    /\ ep' = [ep EXCEPT ![e] = "on"]
    /\ nack' = [nack EXCEPT ![e] = TRUE]
    /\ tc' = [tc EXCEPT ![e] = FALSE]
    /\ cut' = IF e = "IN" THEN cut \ {e} ELSE cut
    /\ UNCHANGED <<data, job>>

\* What is cut off once the interface is enabled: OUT, unless it is run now; the UART, if its
\* interrupts are off before a full ring.
StillCut == (cut \ (IF Starts("OUT", job["OUT"]) THEN {"OUT"} ELSE {}))
                \cup (IF ring = RingCap THEN {"uart"} ELSE {})

\* Mutant of Enable: the interrupts of the UARTs are kept.
EnableKeepsDre ==
    /\ midi' = TRUE
    /\ locks' = IF midi THEN locks ELSE locks - 1
    /\ Job("OUT", Starts("OUT", job["OUT"]), job["OUT"], nack["OUT"])
    /\ cut' = StillCut
    /\ UNCHANGED <<left, odd, ring, want, dre, ep, tc>>

\* udi_midi_enable: the UARTs are set up with their interrupts off, OUT is run.
Enable ==
    /\ midi' = TRUE
    /\ locks' = IF midi THEN locks ELSE locks - 1
    /\ dre' = FALSE
    /\ Job("OUT", Starts("OUT", job["OUT"]), job["OUT"], nack["OUT"])
    /\ cut' = StillCut
    /\ UNCHANGED <<left, odd, ring, want, ep, tc>>

\* udi_midi_disable: the splitter takes the UARTs over; rings and buffers stay.
Disable ==
    /\ midi' = FALSE
    /\ locks' = IF midi THEN locks + 1 ELSE locks
    /\ dre' = FALSE

\* An endpoint that is enabled is not allocated again, and the handler returns.
Fails(s) == s[1] = "alloc" /\ ep[s[2]] # "off"

Perform(s) ==
    \/ /\ s[1] = "abort" /\ Abort(s[2])
       /\ UNCHANGED <<ep, tc, busVars, midiVars>>
    \/ /\ \/ s[1] = "halt" /\ Halt(s[2])
          \/ s[1] = "off" /\ Off(s[2])
          \/ s[1] = "alloc" /\ Alloc(s[2])
       /\ UNCHANGED <<busVars, outVars, inVars, midiVars>>
    \/ /\ s[1] = "enable" /\ Enable
       /\ UNCHANGED <<busVars, inVars>>
    \/ /\ s[1] = "disable" /\ Disable
       /\ UNCHANGED <<left, odd, ring, want, epVars, busVars, inVars, cut>>
    \/ /\ \/ s[1] = "conf0" /\ conf' = 0 /\ UNCHANGED ctrl
          \/ s[1] = "conf1" /\ conf' = 1 /\ UNCHANGED ctrl
          \/ s[1] = "ctrl" /\ ctrl' = TRUE /\ UNCHANGED conf
       /\ UNCHANGED <<attached, epVars, outVars, inVars, midiVars, cut>>

\* The next step of the handler.
Step ==
    /\ todo # << >>
    /\ IF Fails(Head(todo))
       THEN todo' = << >> /\ UNCHANGED <<epVars, busVars, outVars, inVars, midiVars, cut>>
       ELSE todo' = Tail(todo) /\ Perform(Head(todo))
    /\ UNCHANGED menu

--------------------------------------------------------------------------------
(* The handlers.                                                                *)

\* udc_iface_disable and udc_iface_enable for the MIDI streaming interface.
IfaceDisable == <<<<"abort", "OUT">>, <<"off", "OUT">>, <<"abort", "IN">>, <<"off", "IN">>,
                  <<"disable", "all">>>>
IfaceEnable  == <<<<"alloc", "OUT">>, <<"alloc", "IN">>, <<"enable", "all">>>>

\* udc_reset.
Reset == (IF conf = 0 THEN << >> ELSE IfaceDisable) \o <<<<"conf0", "all">>>>

Handle(steps) ==
    /\ todo = << >>
    /\ todo' = steps
    /\ UNCHANGED <<epVars, outVars, inVars, midiVars>>

\* A request of the host: the interrupt serves completed transfers first
\* (usb_device.c:858-866).
Request ==
    /\ attached /\ ctrl
    /\ \A e \in Eps : ~tc[e]

\* The bus event interrupt: every job is aborted, then the configuration is dropped.
BusReset ==
    /\ attached
    /\ Handle(<<<<"abort", "OUT">>, <<"abort", "IN">>>> \o Reset \o <<<<"ctrl", "all">>>>)
    /\ UNCHANGED <<busVars, menu, cut>>

\* udc_req_std_dev_set_configuration, once the host gave the device an address.
SetConfiguration(c) ==
    /\ Request
    /\ Handle(Reset \o (IF c = 0 THEN << >> ELSE <<<<"conf1", "all">>>> \o IfaceEnable))
    /\ UNCHANGED <<busVars, menu, cut>>

\* udc_req_std_iface_set_setting: a setting the interface lacks only disables it.
SetInterface(exists) ==
    /\ Request /\ conf # 0
    /\ Handle(IfaceDisable \o IF exists THEN IfaceEnable ELSE << >>)
    /\ UNCHANGED <<busVars, menu, cut>>

\* Menu entry 2 of the main loop reads usb_midi_enabled, and the USB interrupt may come
\* before it calls udc_stop or udc_start.
Menu ==
    /\ menu = "none" /\ todo = << >>
    /\ menu' = IF midi THEN "stop" ELSE "start"
    /\ UNCHANGED <<epVars, busVars, outVars, inVars, midiVars, todo, cut>>

UdcStop ==
    /\ menu = "stop"
    /\ Handle(Reset)
    /\ attached' = FALSE
    /\ menu' = "none"
    /\ UNCHANGED <<ctrl, conf, cut>>

\* udd_enable: all endpoints and jobs are reset, without callbacks.
UdcStart ==
    /\ menu = "start" /\ todo = << >>
    /\ attached' = TRUE /\ ctrl' = FALSE
    /\ ep' = [e \in Eps |-> "off"]
    /\ tc' = [e \in Eps |-> FALSE]
    /\ job' = [e \in Eps |-> FALSE]
    /\ menu' = "none"
    /\ cut' = {}
    /\ UNCHANGED <<conf, nack, data, outVars, inVars, midiVars, todo>>

\* udc_req_std_ep_set_feature: the job is aborted before the endpoint is halted, and the one
\* that its callback may have started after it.
SetHalt(e) ==
    /\ Request
    /\ Handle(<<<<"abort", e>>, <<"halt", e>>, <<"abort", e>>>>)
    /\ UNCHANGED <<busVars, menu, cut>>

\* udd_ep_clear_halt.
ClearHalt(e) ==
    /\ Request /\ ep[e] = "halted"
    /\ todo = << >>
    /\ ep' = [ep EXCEPT ![e] = "on"]
    /\ UNCHANGED <<nack, tc, data, job, busVars, outVars, inVars, midiVars, menu, todo, cut>>

--------------------------------------------------------------------------------
(* The traffic: the host, the USB interrupt at the end of a transfer, the UARTs. *)

\* The host sends n events; for IN, it takes the packet.
Host(e, n) ==
    /\ Open(e)
    /\ e = "IN" => n = 1
    /\ nack' = [nack EXCEPT ![e] = TRUE]
    /\ tc' = [tc EXCEPT ![e] = TRUE]
    /\ data' = [data EXCEPT ![e] = n]
    /\ odd' \in (IF e = "OUT" THEN BOOLEAN ELSE {odd})
    /\ UNCHANGED <<ep, job, left, ring, want, dre, busVars, inVars, midiVars, menu, todo, cut>>

\* udd_ep_trans_complet for OUT; a job that was aborted meanwhile has no callback.
OutComplete ==
    /\ attached /\ todo = << >>
    /\ tc["OUT"]
    /\ tc' = [tc EXCEPT !["OUT"] = FALSE]
    /\ IF job["OUT"] THEN Process(data["OUT"], ring, FALSE, nack["OUT"])
                     ELSE UNCHANGED <<job, nack, data, outVars>>
    /\ UNCHANGED <<ep, busVars, inVars, midiVars, menu, todo, cut>>

\* udd_ep_trans_complet for IN: a packet that was not sent is offered again.
InComplete ==
    /\ attached /\ todo = << >>
    /\ tc["IN"]
    /\ tc' = [tc EXCEPT !["IN"] = FALSE]
    /\ IF data["IN"] = 0
       THEN nack' = [nack EXCEPT !["IN"] = FALSE] /\ UNCHANGED <<job, data, inVars>>
       ELSE IF job["IN"] THEN Sent(nack["IN"]) ELSE UNCHANGED <<job, nack, data, inVars>>
    /\ UNCHANGED <<ep, busVars, outVars, midiVars, menu, todo, cut>>

\* usb_midi_send in a receive interrupt; it flushes if no transfer seems under way, and
\* usb_midi_flush takes usb_send_busy back if udd_ep_run fails.
RxEvent ==
    /\ midi
    /\ queue < Packet
    /\ IF sending
       THEN queue' = queue + 1 /\ UNCHANGED <<sending, nack, data, job>>
       ELSE /\ queue' = 0
            /\ sending' = Starts("IN", job["IN"])
            /\ Job("IN", Starts("IN", job["IN"]), job["IN"], nack["IN"])
    /\ UNCHANGED <<ep, tc, busVars, outVars, midiVars, menu, todo, cut>>

\* on_dre_int takes a message from the ring.  If one waits for the room, and events are
\* left, usb_recv_process goes on.
DreSend ==
    /\ dre
    /\ ring > 0
    /\ IF want /\ left > 0
       THEN Process(left, ring - 1, job["OUT"], nack["OUT"])
       ELSE ring' = ring - 1 /\ UNCHANGED <<left, odd, want, dre, nack, data, job>>
    /\ UNCHANGED <<ep, tc, busVars, inVars, midiVars, menu, todo, cut>>

DreOff ==
    /\ dre
    /\ ring = 0
    /\ dre' = FALSE
    /\ UNCHANGED <<left, odd, ring, want, epVars, busVars, inVars, midiVars, menu, todo, cut>>

Next ==
    \/ Step
    \/ BusReset \/ Menu \/ UdcStop \/ UdcStart
    \/ \E c \in {0, 1} : SetConfiguration(c)
    \/ \E exists \in BOOLEAN : SetInterface(exists)
    \/ \E e \in Eps : SetHalt(e) \/ ClearHalt(e)
    \/ \E e \in Eps, n \in 1 .. Packet : Host(e, n)
    \/ OutComplete \/ InComplete
    \/ RxEvent \/ DreSend \/ DreOff

Spec == Init /\ [][Next]_vars

--------------------------------------------------------------------------------
(* Properties.                                                                  *)

\* An endpoint that the host may use has a job, whose callback will take what the host
\* does (usb_device.c:567-750): no packet arrives or leaves that nobody asked for, but for
\* one of IN that a halt cut off.
OpenHasJob == \A e \in Eps : Open(e) => job[e] \/ (e = "IN" /\ "IN" \in cut)

\* Events of an old packet may be left when a new configuration runs OUT on the same
\* buffer (main.cpp:584); the interrupt that would resume them is off then, so that no
\* level reads a buffer the host is writing.
StaleEventsSleep == Open("OUT") /\ left > 0 => ~dre

\* As long as nothing cut OUT or the UART off, a configured device listens: the host may send, its
\* packet is about to be processed, waits for room in a ring that is being drained, or has
\* come to an event that is never sent (udi_midi_enable main.cpp:584, usb_recv_process
\* main.cpp:600, 605).
Listens ==
    /\ conf = 1 /\ ep["OUT"] = "on"
    /\ todo = << >> /\ cut \subseteq {"IN"}
    => \/ Open("OUT")
       \/ tc["OUT"] /\ job["OUT"]
       \/ left > 0 /\ want /\ dre
       \/ left = 1 /\ odd

\* usb_send_busy stands for a job of the IN endpoint, and is taken back by its callback
\* whatever ends it (main.cpp:624-656), but for udd_enable, which clears the jobs without
\* a callback (usb_device.c:458).
OnlyStartForgets ==
    [][(sending => job["IN"]) /\ ~UdcStart => (sending' => job'["IN"])]_vars

\* However often the interface is disabled or enabled in a row, IDLE is locked once while
\* it is disabled and not while it is enabled (main.cpp:577, 613).
SleepLockBalanced == locks = IF midi THEN 0 ELSE 1
================================================================================
