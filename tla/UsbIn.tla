--------------------------------- MODULE UsbIn ---------------------------------
(* From the MIDI jacks to USB: the two buffers of usb_send_buf.  Events go into *)
(* the active one while the other is being fetched by the host.                 *)
(*                                                                              *)
(* usb_midi_send runs in the receive interrupts of the UARTs (level HI), which  *)
(* nothing preempts.  usb_midi_sent runs in the USB interrupt (level LO) when a *)
(* transfer is over, and HI may preempt it between any two of the steps below.  *)
(* Both may start the next transfer, with usb_midi_flush.                       *)
EXTENDS Naturals, Sequences

CONSTANTS Cap,        \* events a buffer holds (16), which is also a full USB packet
          Numbers     \* events are numbered by their source, modulo Numbers

ASSUME CapAssumption == Cap \in Nat \ {0}
ASSUME NumbersAssumption == Numbers \in Nat \ {0}

Buffers == {0, 1}
Other(b) == 1 - b
Number == 0 .. Numbers - 1

VARIABLES
    mem,       \* usb_send_buf[b].ev: an array that reset() does not clear
    end,       \* usb_send_buf[b].end; start stays 0
    active,    \* usb_send_active
    busy,      \* usb_send_busy
    job,       \* the IN endpoint: its transfer and how far the host took it
    pc,        \* where usb_midi_sent is
    buf, size, \* the locals of usb_midi_flush at level LO
    next,      \* the number of the next event
    raced      \* history: HI met a LO flush half done in this transfer

bufVars  == <<mem, end, active, busy>>
loVars   == <<pc, buf, size>>
vars     == <<bufVars, job, loVars, next, raced>>

\* The phases of a transfer; none: no job, data and zlp: the endpoint is open to the
\* host, dataDone and zlpDone: its interrupt is pending.
Phases == {"none", "data", "dataDone", "zlp", "zlpDone"}

\* Places of usb_midi_sent and of the flush it calls.
Places == {"idle", "sent", "test", "buf", "size", "toggle", "reset", "busy", "run", "fail"}

TypeOK ==
    /\ mem \in [Buffers -> [1 .. Cap -> Number]]
    /\ end \in [Buffers -> 0 .. Cap]
    /\ active \in Buffers
    /\ busy \in BOOLEAN
    /\ job \in [phase : Phases, buf : Buffers, size : 0 .. Cap]
    /\ pc \in Places
    /\ buf \in Buffers /\ size \in 0 .. Cap
    /\ next \in Number
    /\ raced \in BOOLEAN

Init ==
    /\ mem = [b \in Buffers |-> [i \in 1 .. Cap |-> 0]]
    /\ end = [b \in Buffers |-> 0]
    /\ active = 0
    /\ busy = FALSE
    /\ job = [phase |-> "none", buf |-> 0, size |-> 0]
    /\ pc = "idle"
    /\ buf = 0 /\ size = 0
    /\ next = 0
    /\ raced = FALSE

JobBusy == job.phase # "none"

\* udd_ep_run with n events of buffer b: an empty one is a zero-length packet.
Run(b, n) == job' = [phase |-> IF n = 0 THEN "zlp" ELSE "data", buf |-> b, size |-> n]

--------------------------------------------------------------------------------
(* Level HI: usb_midi_send, with usb_midi_flush when no transfer is under way.  *)

\* usb_midi_sent is over its test and its flush has not set usb_send_busy yet; or it
\* has not begun, and an earlier overlap left usb_send_busy off.  A HI flush just
\* before the test overlaps too, if the test then succeeds (SentTest).
InWindow == pc \in {"sent", "buf", "size", "toggle", "reset", "busy"}

\* The event is dropped, snd_ovf counts it.  At "reset" the full buffer is the one that
\* the flush is about to empty: this overflow too is due to the overlap.
SendFull ==
    /\ end[active] >= Cap
    /\ next' = (next + 1) % Numbers
    /\ raced' = (raced \/ pc = "reset")
    /\ UNCHANGED <<bufVars, job, loVars>>

Push ==
    /\ end[active] < Cap
    /\ mem' = [mem EXCEPT ![active][end[active] + 1] = next]
    /\ next' = (next + 1) % Numbers

\* A transfer is under way, or seems to be.
SendBuffered ==
    /\ Push
    /\ busy
    /\ end' = [end EXCEPT ![active] = @ + 1]
    /\ UNCHANGED <<active, busy, job, loVars, raced>>

\* The flush succeeds if the endpoint is free; if not, usb_send_busy is taken back.
SendFlushed ==
    /\ Push
    /\ ~busy
    /\ end' = [end EXCEPT ![active] = @ + 1, ![Other(active)] = 0]
    /\ active' = Other(active)
    /\ IF JobBusy THEN UNCHANGED job ELSE Run(active, end[active] + 1)
    /\ busy' = ~JobBusy
    /\ raced' = (raced \/ InWindow)
    /\ UNCHANGED loVars

Send == SendFull \/ SendBuffered \/ SendFlushed

--------------------------------------------------------------------------------
(* The endpoint.                                                                *)

\* The host takes the packet that is offered.
HostPoll ==
    /\ job.phase \in {"data", "zlp"}
    /\ job' = [job EXCEPT !.phase = IF @ = "data" THEN "dataDone" ELSE "zlpDone"]
    /\ UNCHANGED <<bufVars, loVars, next, raced>>

\* udd_ep_trans_complet: a full packet is followed by a zero-length one.
TransContinues ==
    /\ pc = "idle"
    /\ job.phase = "dataDone" /\ job.size = Cap
    /\ job' = [job EXCEPT !.phase = "zlp"]
    /\ UNCHANGED <<bufVars, loVars, next, raced>>

\* Otherwise the job is over and usb_midi_sent is called.
TransComplete ==
    /\ pc = "idle"
    /\ job.phase = "zlpDone" \/ (job.phase = "dataDone" /\ job.size < Cap)
    /\ job' = [job EXCEPT !.phase = "none"]
    /\ pc' = "sent"
    /\ raced' = FALSE
    /\ UNCHANGED <<bufVars, buf, size, next>>

--------------------------------------------------------------------------------
(* Level LO: usb_midi_sent and its usb_midi_flush.  The variables are not       *)
(* volatile: where one is read again, the value read before may be used.        *)

\* Mutant of SentBusyOff: usb_send_busy stays on.
SentBusyKept ==
    /\ pc = "sent"
    /\ pc' = "test"
    /\ UNCHANGED <<mem, end, active, busy, job, buf, size, next, raced>>

SentBusyOff ==
    /\ pc = "sent"
    /\ busy' = FALSE
    /\ pc' = "test"
    /\ UNCHANGED <<mem, end, active, job, buf, size, next, raced>>

\* Mutant of SentTest: the next transfer is left to the next event.
SentTestNoFlush ==
    /\ pc = "test"
    /\ pc' = "idle"
    /\ UNCHANGED <<bufVars, job, buf, size, next, raced>>

SentTest ==
    /\ pc = "test"
    /\ pc' = IF end[active] # 0 THEN "buf" ELSE "idle"
    /\ raced' = (raced \/ (end[active] # 0 /\ JobBusy))
    /\ UNCHANGED <<bufVars, job, buf, size, next>>

FlushBuf ==
    /\ pc = "buf"
    /\ buf' = active
    /\ pc' = "size"
    /\ UNCHANGED <<bufVars, job, size, next, raced>>

FlushSize ==
    /\ pc = "size"
    /\ \E b \in {active, buf} : size' = end[b]
    /\ pc' = "toggle"
    /\ UNCHANGED <<bufVars, job, buf, next, raced>>

FlushToggle ==
    /\ pc = "toggle"
    /\ \E b \in {active, buf} : active' = Other(b)
    /\ pc' = "reset"
    /\ UNCHANGED <<mem, end, busy, job, buf, size, next, raced>>

\* Mutants of FlushReset: the wrong buffer is reset, none is.
FlushResetWrong ==
    /\ pc = "reset"
    /\ end' = [end EXCEPT ![buf] = 0]
    /\ pc' = "busy"
    /\ UNCHANGED <<mem, active, busy, job, buf, size, next, raced>>

FlushResetNone ==
    /\ pc = "reset"
    /\ pc' = "busy"
    /\ UNCHANGED <<mem, end, active, busy, job, buf, size, next, raced>>

FlushReset ==
    /\ pc = "reset"
    /\ \E b \in {active, Other(buf)} : end' = [end EXCEPT ![b] = 0]
    /\ pc' = "busy"
    /\ UNCHANGED <<mem, active, busy, job, buf, size, next, raced>>

FlushBusyOn ==
    /\ pc = "busy"
    /\ busy' = TRUE
    /\ pc' = "run"
    /\ UNCHANGED <<mem, end, active, job, buf, size, next, raced>>

FlushRun ==
    /\ pc = "run"
    /\ IF JobBusy THEN pc' = "fail" /\ UNCHANGED job
                  ELSE pc' = "idle" /\ Run(buf, size)
    /\ UNCHANGED <<bufVars, buf, size, next, raced>>

FlushFailed ==
    /\ pc = "fail"
    /\ busy' = FALSE
    /\ pc' = "idle"
    /\ UNCHANGED <<mem, end, active, job, buf, size, next, raced>>

Sent ==
    \/ SentBusyOff \/ SentTest
    \/ FlushBuf \/ FlushSize \/ FlushToggle \/ FlushReset
    \/ FlushBusyOn \/ FlushRun \/ FlushFailed

Next == Send \/ HostPoll \/ TransContinues \/ TransComplete \/ Sent

Spec == Init /\ [][Next]_vars

\* The host polls, the USB interrupt is served.
LiveSpec == Spec /\ WF_vars(HostPoll) /\ WF_vars(TransContinues \/ TransComplete \/ Sent)

--------------------------------------------------------------------------------

\* No event is left behind: with no transfer and nobody about to start one, the
\* active buffer is empty and usb_send_busy is off, so that the next event starts one
\* (main.cpp:633-654, 746-748).  This survives the race of the two flushes.
NothingStranded ==
    pc = "idle" /\ ~JobBusy => end[active] = 0 /\ ~busy

\* While the host may fetch a buffer, nobody writes to it, and usb_send_busy says so,
\* unless the flushes of the two levels raced in this very transfer: the next
\* completed transfer heals it.
InFlightIsKept ==
    ~raced /\ job.phase \in {"data", "dataDone"} =>
        /\ active # job.buf
        /\ end[job.buf] = job.size
        /\ pc = "idle" => busy

\* The two invariants above made inductive, part by part.  The endpoint is taken when
\* the LO flush fails, and free while usb_midi_sent runs unless HI overlapped.
InFlush == pc \in {"buf", "size", "toggle", "reset", "busy"}
Toggled == pc \in {"reset", "busy", "run"}

PlaceInv ==
    /\ pc = "fail" => JobBusy
    /\ pc = "test" /\ ~JobBusy => ~busy

QuietInv ==
    ~raced =>
        /\ pc = "sent" \/ InFlush \/ pc = "run" => ~JobBusy
        /\ InFlush => ~busy
        /\ pc = "run" => busy
        /\ pc = "fail" => FALSE
        /\ pc \in {"idle", "test"} /\ JobBusy => busy

\* What the LO flush holds in its locals is still so, unless HI overlapped.
LocalInv ==
    ~raced =>
        /\ pc \in {"size", "toggle"} => active = buf
        /\ Toggled => active = Other(buf)
        /\ pc = "toggle" \/ Toggled => end[buf] = size

IInv == TypeOK /\ PlaceInv /\ QuietInv /\ LocalInv /\ NothingStranded /\ InFlightIsKept

\* Events waiting: in the transfer, in the hands of the flush, in the active buffer.
Prefix(b, n) == SubSeq(mem[b], 1, n)

Queue ==
    (IF job.phase = "data" THEN Prefix(job.buf, job.size) ELSE << >>)
    \o (IF pc \in {"reset", "busy", "run"} THEN Prefix(buf, size) ELSE << >>)
    \o (IF pc = "reset" THEN << >> ELSE Prefix(active, end[active]))

Pipe == INSTANCE EventPipe WITH q <- Queue

\* Every event the jacks receive reaches the host once and in order or is counted as
\* an overflow when a whole packet waits already, unless the two flushes raced
\* (main.cpp:624-655, 722-749).
DeliveredUnlessRaced ==
    [][~raced /\ ~raced' => Pipe!Next \/ UNCHANGED <<Queue, next>>]_vars

\* What waits in the active buffer is handed over in the end.
HandedOver == end[active] # 0 ~> end[active] = 0
================================================================================
