---------------------------- MODULE UsbOutActiveTest ---------------------------
(* UsbOut with the active-sensing test of the main loop (four presses of the    *)
(* button): every 300 ms it sends one byte to each jack through the same        *)
(* write_buf, from the main level, which both interrupt levels preempt.         *)
EXTENDS UsbOut

CONSTANTS NPorts,     \* MIDI_PORTS; the jacks are numbered
          Sense       \* the active-sensing byte CMD_SYS_ACTIVE_S

ASSUME PortsAssumption == NPorts \in Nat /\ Ports = 0 .. NPorts - 1
ASSUME SenseAssumption == Sense \notin Byte

VARIABLES
    i,          \* the jack the loop has reached, NPorts outside the loop
    mpc,        \* where the main level is in write_buf: entry, fast or crit
    touched     \* history: a main step has changed some want_write

mainVars == <<i, mpc>>
avars    == <<vars, mainVars, touched>>

ATypeOK ==
    /\ start \in 0 .. BufEvents /\ end \in 0 .. BufEvents
    /\ ring \in [Ports -> Seq(Byte \cup {Sense})]
    /\ hw \in [Ports -> Seq(Byte \cup {Sense})]
    /\ want_write \in [Ports -> Sizes \cup {0, 1}]
    /\ i \in 0 .. NPorts
    /\ mpc \in {"entry", "fast", "crit"}
    /\ touched \in BOOLEAN

AInit ==
    /\ Init
    /\ i = NPorts
    /\ mpc = "entry"
    /\ touched = FALSE

\* Mutant of MainRuns: the test is made at the level of the USB interrupt.
MainPreempts == pc["HI"] = "idle"

MainRuns == pc["LO"] = "idle" /\ pc["HI"] = "idle"

\* active_test_timer expired.
TestStart ==
    /\ MainRuns
    /\ i = NPorts
    /\ i' = 0
    /\ UNCHANGED <<vars, mpc>>

MainEntry ==
    /\ MainRuns
    /\ i < NPorts /\ mpc = "entry"
    /\ mpc' = IF ring[i] = << >> /\ dre(i) THEN "fast" ELSE "crit"
    /\ UNCHANGED <<vars, i>>

\* The next jack.
Continue == i' = i + 1 /\ mpc' = "entry"

MainFast ==
    /\ MainRuns
    /\ i < NPorts /\ mpc = "fast"
    /\ hw' = IF dre(i) THEN [hw EXCEPT ![i] = Append(@, Sense)] ELSE hw
    /\ Continue
    /\ UNCHANGED <<recvVars, usbVars, ring, want_write, dre_int, pc, cur>>

\* Mutant of MainPush: the room is not tested.
MainPushUnchecked ==
    /\ MainRuns
    /\ i < NPorts /\ mpc = "crit"
    /\ Refill(i, Append(ring[i], Sense))
    /\ want_write' = [want_write EXCEPT ![i] = 0]
    /\ Continue
    /\ UNCHANGED <<recvVars, usbVars, pc, cur>>

\* As CritPush, for one byte; the result of send() is ignored.
MainPush ==
    /\ MainRuns
    /\ i < NPorts /\ mpc = "crit"
    /\ tx_ring_avail(i) > 1
    /\ Refill(i, Append(ring[i], Sense))
    /\ want_write' = [want_write EXCEPT ![i] = 0]
    /\ Continue
    /\ UNCHANGED <<recvVars, usbVars, pc, cur>>

MainFull ==
    /\ MainRuns
    /\ i < NPorts /\ mpc = "crit"
    /\ ~(tx_ring_avail(i) > 1)
    /\ want_write' = [want_write EXCEPT ![i] = 1]
    /\ Continue
    /\ UNCHANGED <<recvVars, usbVars, ring, dre_int, hw, pc, cur>>

MainStep ==
    /\ TestStart \/ MainEntry \/ MainFast \/ MainPush \/ MainFull
    /\ touched' = (touched \/ want_write' # want_write)

\* The model stops where both interrupt levels are at work in usb_recv_process: from
\* there on the code takes events twice and runs past the packet.
ANext ==
    \/ NoReentry /\ Next /\ UNCHANGED <<mainVars, touched>>
    \/ NoReentry /\ MainStep

ASpec == AInit /\ [][ANext]_avars

--------------------------------------------------------------------------------

\* Three levels write to the rings: the critical section of write_buf (uart.h:405)
\* keeps every ring within its slots and draining all the same, and the unlocked write
\* never exceeds the transmitter.
RingsSurviveTest == ATypeOK /\ RingInv

\* As long as no byte of the test found a ring full or a stalled event waiting on its
\* jack, the test does not disturb the transfer from USB: everything UsbOut
\* guarantees still holds.
HarmlessUntilTouched ==
    touched \/ /\ BufferInv
               /\ NoReentry
               /\ ArmedBufferIsFree
               /\ StalledIsAwaited
               /\ NeverAbandoned
               /\ StallIsCounted
               /\ FastWriteIsSafe

\* "The main loop manages only the power mode because the USB management is done by
\* interrupt" (main.cpp:111-112): no step of the main level takes the events left in
\* the buffer away from the interrupt that would resume them.
NeverAbandonedByMain ==
    [][MainStep /\ NeverAbandoned => NeverAbandoned']_avars
================================================================================
