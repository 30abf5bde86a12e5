# Verification of the MIDI router firmware

TLA+ models of the firmware in `firmware/src` of this repository, checked with
TLC, and proofs about them checked with TLAPS. Paths below are relative to the
repository's `firmware/src` (`main.cpp` is `firmware/src/main.cpp`); `usb_device.c`
is the vendored driver `firmware/asf-3.50.0/xmega/drivers/usb/usb_device.c`.

## The system

A router is an XMEGA microcontroller between one USB MIDI device interface and
1 to 7 MIDI jacks. Bytes received at a jack are parsed into messages and sent to
the host as 4-byte USB MIDI events; events from the host are written to the jack
they name. A CDC serial console sets monitoring, statistics and test modes.

**Concurrency.** There is no scheduler. The code runs at four levels, each of
which preempts the ones below it at any instruction and never itself:

| level | what runs there |
|---|---|
| HI   | USART receive and data-register-empty interrupts of every jack, the splitter pin |
| MED  | the millisecond and LED timers |
| LO   | both USB interrupts: endpoint callbacks, CDC callbacks, bus reset, configuration |
| main | the loop of `main()` |

So a HI handler is atomic for everybody, a LO handler is atomic but for HI and MED,
and the main loop is interrupted anywhere. Sections guarded by `crit_sec` are atomic.

### Components

| component | code | state | operations | module |
|---|---|---|---|---|
| byte ring | `ring.h` | `begin`, `end`, 64 slots | push_back (unchecked), pop_front, back, reset, size, full | `Ring` |
| UART driver | `uart.h`, board `midi.cpp` | tx ring, `want_write`, interrupt enables | write_buf, on_dre_int, on_rx_int, setup, disable | `Ring`, `UsbOut`, `UsbLifecycle` |
| USB to jacks | `main.cpp` 520-610 | `usb_recv_buf` with start, end, stall | usb_midi_received, usb_recv_process, midi_send, midi_send_ready | `UsbOut` |
| active-sensing test | `main.cpp` 171-185 | `active_test`, its timer | a byte to every jack each 300 ms, from the main loop | `UsbOutActiveTest` |
| jacks to USB | `main.cpp` 612-655, 722-749 | two `usb_send_buf`, `usb_send_active`, `usb_send_busy` | usb_midi_send, usb_midi_flush, usb_midi_sent | `UsbIn` |
| MIDI parser | `main.cpp` 212-259, 658-713, `midi_normalizer.h`, `midi_cmd.h` | running status, pending bytes, `current_cmd` per jack | midi_process_byte | `MidiParser` |
| USB lifecycle | `main.cpp` 554-635, vendored `udc.c`, `usb_device.c` | endpoint jobs, configuration, enabled interface, sleep lock | enable, disable, bus reset, configuration, setting, halt, stop, start | `UsbLifecycle` |
| control endpoint | vendored `usb_device.c` 777-1281, `udc.c` | state of the request, payload, interrupt flags | SETUP, data, handshake, errors | `UsbCtrl` |
| console output | vendored `udi_cdc.c`, `midi.cpp` | two transmit buffers, frame and transfer flags | putc, mon, start of frame, end of transfer | `CdcTx` |
| console input | vendored `udi_cdc.c`, `main.cpp` 386-410 | two receive buffers, position | packet received, read, enable | `CdcRx` |
| command line | `serial_cmd.h` | line, arguments, `ready_` | read a character, parse, reset | `SerialCmd` |
| console commands, statistics | `main.cpp` 157-210, 300-520, `midi.h`, `midi.cpp` | `stat_timer`, `stat_period`, monitor switch | start, stop, poll, close the terminal | `StatTimer` |
| time base | `timer.cpp`, `artl/timer.h` | millis with a fraction, timers | interrupt, millis, schedule, cancel, update | `TimeBase`, `StatTimer` |
| button, reset menu | `rst_blink.h`, `artl/button.h`, `artl/digital_button.h` | debouncing, presses counted | update, blink, choose an entry | `RstMenu` |
| LEDs | `blink_state.h`, `pulse_state.h`, `ui.cpp` | blink counters | start, next | - |
| boards | `../midi-router-*/midi.cpp` | per-jack instances | init, read, send | - |

### How they interact

    host --OUT--> usb_recv_buf --usb_recv_process--> uart.write_buf --> tx ring --> wire
                        ^  (LO, or HI when resuming)        |
                        +---- midi_send_ready <-- on_dre_int (HI) when want_write fits
    wire --> on_rx_int (HI) --> midi_process_byte --> usb_midi_send --> usb_send_buf[active]
    host <--IN-- usb_send_buf[other] <-- usb_midi_flush (HI, or LO from usb_midi_sent)
    main loop: active test --> uart.write_buf; statistics --> udi_cdc_putc --> CDC IN
    CDC OUT --> main_cdc_rx_notify (LO) --> serial_cmd --> commands: stat_timer, monitor
    monitor (HI), echo and answers (LO), statistics (main) --> the two transmit buffers
    host requests --> control endpoint --> udc --> udi_midi_enable / disable, udd_ep_alloc
    button --> menu (main) --> udc_stop / udc_start, reset, LED and active tests

No lock guards `usb_recv_buf`, `usb_send_buf` or the flags beside them. What makes
each part correct:

* *byte ring*: bytes leave in the order they came; the room `write_buf` tested once
  lasts for the whole message.
* *USB to jacks*: the packet buffer has one owner; a packet that finds no room is
  resumed exactly once, by the right interrupt, and never forgotten; no byte of a
  jack is lost, duplicated or reordered; the endpoint is armed again.
* *jacks to USB*: a buffer in flight is not written; nothing waits without a
  transfer that will take it; events are dropped only when a whole packet waits.
* *parser*: complete messages, running status expanded, exclusives in threes,
  recovery at any status byte whatever came before.
* *lifecycle*: after any sequence of disable, reset and enable an endpoint that is open
  has a job, nobody reads a buffer the host writes, and the sleep lock is balanced.
* *control endpoint*: data belongs to its request; every request ends.
* *console*: what is printed gets to the host once and in order; what is typed is
  processed once and in order; a line is split into the arguments it has; `stat_timer`,
  shared by the main loop and the USB interrupt, does what the last command asked for.
* *time, button*: the clock loses nothing and is never read torn; a scheduled timer
  fires once, when its time has come; the number of the menu is the time of the press.

What is hard to test in this code, line by line, is the list `hazards` of
`PROJECT.json`, each with the properties that cover it or the reason there is none.

## The models

Data is abstracted throughout: a byte is a tag with its place in its message, an
event is a jack, a size and a tag, or a number. Interrupt levels are program
counters; a step of a lower level is what the compiler may not tear apart: one
access to shared memory, or one critical section.

### Ring, BoundedFifo

`Ring` has the two indices and the array of `ring<MAX, T>` and one action per
operation of its callers: `Reserve` and `PushReserved` are `write_buf`'s room test
and the pushes that follow it, `OnRx` the checked push of the receive interrupt,
`pop_front`, `back`, `reset`. `BoundedFifo` is the promise: a sequence of at most
MAX - 1 elements.

### UsbOut, JackFifo

`UsbOut` is the path from the OUT endpoint to the wire. `HostPacket` stores a packet
in the armed endpoint; `Received` is `usb_midi_received`; `LoopNext`, `Refuse`,
`Entry`, `Fast`, `CritPush`, `CritFull`, `Pop`, `Stalled`, `LoopEnd` are the steps of
`usb_recv_process` and the `write_buf` it calls, for level LO and level HI;
`DreByte` and `DreOff` are `on_dre_int`, which enters `usb_recv_process` at HI when
`ring` drained enough for `want_write`; `Shift` is the transmitter. The ring is a
sequence here: `Ring` justifies that. HI runs only when LO is between two steps and
LO never while HI is at work (`Runs`). An event names its jack by a nibble: `Cables` are the
numbers a packet may hold, `Ports` those of the board. For any other the board's `send`
takes nothing, `midi_send` fails, and no UART was told to resume the packet: `Refuse`. From
that event on the packet is `Wedged`, and the properties exempt it. `JackFifo` is the promise: each jack is a
FIFO of bytes, a packet is appended at once, and accepted only while the backlog is
bounded. `UsbOutJacks` holds the refinement mapping: what a jack owes is its
transmitter, its ring and the untaken part of the packet, up to an event that is never sent.

### UsbOutActiveTest

`UsbOut` with the main level added: the loop that sends the active-sensing byte to
each jack through the same `write_buf`, below both interrupt levels. The model
stops where both interrupt levels are inside `usb_recv_process` (see the finding).

### UsbIn, UsbInLifecycle, EventPipe

`UsbIn` is the double buffer. `SendFull`, `SendBuffered` and `SendFlushed` are the
three outcomes of `usb_midi_send` at HI; `SentBusyOff` to `FlushFailed` are
`usb_midi_sent` and its `usb_midi_flush` at LO, one shared access per step, where a
variable the compiler may have kept in a register or may read again is a choice;
`TransContinues` and `TransComplete` are the endpoint's job, `HostPoll` the host.
`EventPipe` is the promise: events reach the host once and in order, or are dropped
while a full batch waits. The history variable `raced` marks a transfer in which a
HI flush fell into a LO flush half done (see the observations). `UsbInLifecycle` maps the
buffers, the place of the callback and the job to what `UsbLifecycle` knows of the IN
endpoint: whether it has a job, whether it is over, how many events wait. A callback that
has not yet taken the active buffer has not happened; `FlushToggle` takes it, or
`SentBusyOff` when there is none, or a HI flush that comes first. `SentIsOneStep` says that
every step of `UsbIn` is then `RxEvent`, `InComplete`, `Host` or nothing, so that the one
action `UsbLifecycle` makes of the callback leaves no order of the two levels out.

### MidiParser

`MidiParser` is `midi_process_byte` for one jack: `StatusByte`, `DataByte`,
`RunningByte` and `StrayByte` are the four things the normalizer makes of a byte,
each with all that `midi_process_byte2` then does; `RealTimeByte` is the shortcut of
real-time bytes. `read`, `ready`, `reset`, `sys_ex` are the members of `midi_cmd_t`,
stale array contents included; `carried` and `event` are `copy` and the size its
header stands for. The reference is `Complete` and `Excluded`: what should have been
sent, computed from the bytes heard since the last fresh status byte. `misplaced`
marks an end-of-exclusive byte inside another message.

### UsbLifecycle

The two MIDI endpoints under the whole USB stack. A handler of the stack (bus reset,
SET_CONFIGURATION, SET_INTERFACE, halt, `udc_stop`) is a list of steps, `todo`: what
`udc_reset`, `udc_iface_disable` and `udc_iface_enable` do to endpoints and interface
one after the other. Between two steps the UART interrupts run and the host uses any
endpoint that is still open: `Host`, `RxEvent`, `DreSend`. `Abort` is `udd_ep_abort`
with the callback it makes (a halt aborts twice, before and after the endpoint is halted):
`Process` (`usb_recv_process`) or `Sent` (`usb_midi_sent`
and its flush), each one action, since their inner steps are `UsbOut` and `UsbIn`; for
`Sent` that is proved (`CallbackAtOnce`). Rings
and buffers survive a disable as numbers of events; `odd` says that the last event of
the packet names no jack of the board. `Menu` and `UdcStop`/`UdcStart` are
the main loop's entry that takes the device off the bus. The history variable `cut`
tells what a handler cut off: OUT, by any abort while it was enabled, until the device is
started again or `udi_midi_enable` finds no job and runs OUT; a UART, by a configuration that
sets it up anew while its ring is full, until the device is started again; a packet of IN, by
a halt, until the endpoint is allocated again.

### UsbCtrl

The state machine of endpoint 0. The driver's functions (`udd_ctrl_init`,
`udd_ctrl_setup_received`, `udd_ctrl_in_sent`, `udd_ctrl_out_received`, `udd_ctrl_send_zlp_in`,
`udd_ctrl_underflow`, ...) are operators on a record `dev`; `UnderflowEvent`, `OverflowEvent`
and `TransferComplete` are the interrupts in the order the code tests their flags. The
host sends SETUP, IN and OUT packets, early ones too, may stop a data phase (`GoOn`),
begin a request before the last ended, or reset the bus. `Reset` is the handler of that event:
it starts the endpoint anew but acknowledges no SETUP packet, transfer or flag that waits
(`usb_device.c:794-815`); they are served afterwards. `Nak` is another endpoint that
raises the same flags. Requests are the ones this firmware answers, by their sizes.

### CdcTx, CdcRx, SerialCmd

`CdcTx` has the two transmit buffers. `udi_cdc_putc` is two steps, `Check`
(`udi_cdc_multi_is_tx_ready`) and `Write`, for the levels main and LO; `Mon` is the
monitor at HI, which tests the room and writes at once; it may print one byte more than it
made sure of, and waits for the room for that one like any other level, but at HI. `TxSend` is `udi_cdc_tx_send`, called by
`Sof`, `DataSent` and `DataEnable`. `CdcRx` has the two receive buffers and the loop of
`main_cdc_rx_notify`: `Received` is `udi_cdc_data_received` and the read it triggers,
`Process` takes a byte. `SerialCmd` is `read`, `parse` and `reset` on lines of kinds of
characters (quote, blank, delete, return, letters); its reference, `ParsedRight`, splits
the line by an independent definition. `MCConsoleIn` joins the last two.

### TimeBase, StatTimer, RstMenu

`TimeBase` is the interrupt that advances `millis` and `millis()` itself, a byte at a
time inside its critical section. `StatTimer` is one pass of the main loop over
`stat_timer` and `cdc_dtr`, each access to a word two steps, with the commands of the
USB interrupt in between. `RstMenu` is the debounced button, the blinks that count while
it is held, and the entry chosen on release. `MCClock` joins the three. Parts that
share no state are checked side by side in one run: a constant, `part`, chosen in the
initial state, says which of them moves, since their interleavings would show nothing.

## The runs

| run | instance | shows |
|---|---|---|
| `ring` | 4 slots, 2 values | indices, reservation, refinement of `BoundedFifo` |
| `usb_out` | 2 jacks and a number of none, sizes 0, 1 and 3, ring of 5 slots, 2 events per packet | one owner of the buffer, no missed wake-up, the unlocked write, the stall flag |
| `usb_out_live` | the same, sizes 1 and 2, the single byte for one jack only, ring of 4 | no byte lost, duplicated or reordered, and under fairness the endpoint is armed again and again and every byte is transmitted (`JackFifo` with its fairness), up to an event for no jack |
| `usb_out_active_test` | 2 jacks and a number of none, size 1, ring of 3 | the rings survive a third writer; nothing is disturbed until the test meets a full ring or a stalled jack |
| `usb_out_active_test_wedge` | the same, size 2, ring of 4, 1 event | expected violation: the finding below |
| `usb_in` | buffers of 2 events, numbers modulo 5 | nothing stranded, buffer in flight kept, delivery in order, the callback as one step of `UsbLifecycle`, eventual hand-over |
| `midi_parser` | 8 kinds of status, 1 real-time byte, 2 data bytes, windows of 8 bytes | exact output for every byte sequence, normalizer and command in step |
| `usb_lifecycle` | packets of 3 events, a ring of 2 | no open endpoint without a job, no level at a buffer the host writes, a device that is not cut off listens, only `udc_start` forgets `usb_send_busy` |
| `usb_ctrl` | packets of 2, reads of 4 and of 5 bytes of which there are 4, 1 address | data of its own request, no stall of a known request, the address after the handshake, every request ends |
| `cdc_tx` | buffers of 3 bytes, an empty packet after 2 frames, 3 levels | in order, the buffer in flight kept, delivery |
| `console_in` | packets of 3, reads of 2; lines of 7 characters, 3 arguments | never deaf, bytes once and in order; arguments right |
| `clock` | words of 2 digits of 4 values, seconds of 2 and 4 ticks | no torn read; stopped is stopped, periods kept; the menu's number is the time |

**Why the bounds are enough.** A ring of 3 to 5 slots is full after one or two
messages, so that every message meets an empty, a partly filled and a full ring, and
wraps; two events per packet give a first, a last and a resumed event; two jacks
let one stall while the other drains; sizes 0, 1 and a larger one are the three
paths through `write_buf` (nothing, unlocked, locked). A buffer of 2 events has the
states empty, partly full and full, and full is the packet that needs a zero-length
one after it; 5 numbers are more than can wait at once (2 in each buffer), so a lost
or repeated event shows. One status kind per size and group is enough because the
parser distinguishes no others; a window of 8 holds three running messages, or two
chunks of an exclusive and its end; the state carried over from one window
into the next is complete, stale bytes included, so histories are unbounded.
In `usb_lifecycle` a packet is larger than the ring, so that one packet can leave events
behind after filling it; handlers follow each other without a bound. In `usb_ctrl` the
answer fills both packets of each read; the longer read is then followed by an empty
packet, and both can be stopped early. In `cdc_tx` 8 numbers are more than both buffers hold. Seven
characters hold two quoted arguments with a blank between, and 3 arguments are one less
than such a line can ask for, so that the table is full. Words of 16 values wrap within
every period; seconds are chosen so that a period fits the word, or does not. The
theorems below do away with the bounds for the invariants they name.

**Deadlock** is checked, except in the runs of `UsbOut`, where a packet whose next event names
no jack leaves nothing to do once the rings are empty; in the active-test runs, where the
model also stops on purpose at the state that both interrupt levels re-enter
`usb_recv_process`; and in `cdc_tx`, which stops when a buffer was overrun (all are
described below).

**Fairness.** `usb_out_live`: weak fairness of the USB interrupt, of the steps inside
a handler and of the transmitter, since an enabled interrupt is served and hardware
shifts on; strong fairness of the data-register-empty interrupt of each jack, since
other jacks' interrupts of the same level may be served first, but not for ever: a
jack interrupts once per byte on the wire, 320 us, and a handler is far shorter, so
the level becomes free again and again. The host is not assumed to
send: an armed endpoint that no packet comes to stays armed. `usb_in`: the host polls the IN
endpoint and the USB interrupt is served; neither jacks nor new events are assumed.
`usb_ctrl`: the interrupt is served, strongly where a flag of another endpoint can be
taken first; the host repeats what was not acknowledged, which USB requires of it; it
need not start a request. `cdc_tx`: frames start each millisecond, the host fetches what is
offered, and a level that may run does; nobody is assumed to print. An
interrupt may wait for room that only the USB interrupt makes, which is why `Delivered`
exempts `Spins`.

## The proofs

Each `...Proofs` module proves, for every value of the constants that satisfies the
named assumptions of its model (`TxCapAssumption`: the longest message fits an empty
ring, and so on), from an inductive invariant whose parts TLC checked first.

* `RingProofs`: the indices stay in range; the reserved room lasts; `Ring` implements
  `BoundedFifo`, step by step. The argument is that `size` and `Contents` are computed
  from wrapping indices without ambiguity while one slot stays free; the lemmas on
  `%` cover the wrap-around.
* `UsbOutProofs`: types, no re-entry, free buffer when armed, the handshake, the
  unlocked write, the stall flag, nothing abandoned. `OwnerInv` says who owns the
  buffer (when LO is at work no size is left in `want_write`, which is why HI cannot
  enter), `PlaceInv` where a level stands, `RingInv` what the rings hold, and
  `HandshakeInv` how much room there is: too little until the retry, one byte more than
  the event needs during it, which is why the retry cannot fail at its first event.
  The module proves about `UsbOutActiveTest`, so that `UsbOut` is the case of a main
  level that never runs. The parts are therefore stated for the bytes `B` that may be on
  the wire. `SafeInv(B)` holds whatever the main level does to `want_write`: it gives
  `RingsSurvive`, that a third writer breaks no ring. `IInv(B)` adds the handshake and is
  kept until the test meets a full ring or a stalled jack (`touched`): `TestIsHarmless`.
  The main level writes one byte where there is room for it and leaves a `want_write`
  of 0 alone, which is all that the handshake needs of it.
  `JacksAreFifos` is the refinement of `JackFifo`, step by step, for every packet: taking an
  event moves its bytes from the buffer to transmitter and ring, an interrupt moves a byte
  from ring to transmitter, and neither changes what the jack owes. What a packet holds
  is a recursive function over its events, which the lemmas unfold one event at a time.
* `JacksToUsbProofs`, of `UsbIn`: types, nothing stranded, buffer in flight kept, delivery
  in order. `IInv` adds what LO knows while its flush is half done: the endpoint is free,
  and its locals are those of the buffer it took, unless HI overlapped (`QuietInv`,
  `LocalInv`). `ImplementsPipe` is the refinement of `EventPipe`, step by step until the
  flushes of the two levels overlap, from which on nothing is claimed. `CallbackAtOnce` is
  `SentIsOneStep`; beyond `IInv` it needs that LO, once past its test, finds the events
  it tested for still there (`TakesInv`).
  Of `MidiParser`: types; normalizer and command in step; padding only where an
  exclusive is cut. The invariant adds `Whole`: what the array of a command that is not
  complete holds, which decides whether the next byte completes it. The lemmas say
  what a status byte, an end of exclusive and a data byte do to such a command.
  `NothingLostOrAdded` is `Faithful` for windows of every length: `Carried` says, in five
  cases, how what was heard divides into what was sent and what the command still holds
  (no message open, a status without a size, a system message, an exclusive in chunks of
  three, channel messages under running status).
* `UsbCtrlProofs`: types, `DataOfItsRequest`, `KnownIsNotStalled`, `AddressAfterHandshake`.
  While no request was cut short by the next, or by a bus reset before its SETUP was served
  (`NoCut`), `Good` ties the driver's state to where the host stands in the same request:
  which stage, what was sent and acknowledged, which flags can be up. A flag that is up by itself has one meaning in
  each state; that is what makes the order in which the code tests the flags right.
  `KnownInv` adds that a stall has a reason: an unknown request, or a flag of another
  endpoint (`odd`). Both are lost at a cut, which is why the properties exempt it.
* `ClockProofs`, of `TimeBase`: types; no part of a millisecond is lost; no torn read.
  The invariant says what `millis()` has read so far, and that the interrupt cannot come
  in between. Of `StatTimer`: stopped stays stopped, the period is kept. `StatInv` holds
  what each half-done access has seen, and, while no command was overtaken
  (`met`), that a word half read is half of the value it has, because only the level
  below is interrupted. Of `RstMenu`: the number is the time of the press. `MenuInv` is the
  reason: the timer is as far from its end as the clock is from the next blink, and each
  blink is at most one pass late. `ConstantsFit` assumes periods, blinks and passes no
  longer than a timer can wait, half of a word (`artl/timer.h:15-17`); that is 24 days
  here, and the command that takes a number of seconds does not check it.
* `UsbLifecycleProofs`: types; an open endpoint has a job; the packet buffer has one
  owner; the sleep lock is balanced; `usb_send_busy` ends with its job. A job that an
  abort's callback starts again breaks the obvious invariant in the middle of a handler:
  it is harmless only because the step that switches the endpoint off is still to come.
  `Plan` therefore says what a list of steps still owes (a teardown before a setup, an
  off or a halt after each abort of an enabled endpoint, an abort after each halt, an
  allocation in a configuration only);
  the lemma `Plans` shows it of every handler, `TailPlan` that a step keeps it.
  `KeepsListening` follows the OUT endpoint from owner to owner (`OutRuns`: the host, the
  interrupt, a level that waits for room). In the middle of a handler nobody may own it;
  `ListenInv` says which of the steps left will open it (`SetsUp`, `TearsDown`, `BusInv`).
  `NoHandlerFails` shows that an allocation never meets an endpoint that is still on.
* `CdcTxProofs`: types; the buffer in flight; `InOrder` for every size of the buffers.
  The two buffers are in order because they are switched only when the other is empty
  or its transfer is started (`OtherEmpty`); the lemmas on remainders and runs of
  numbered bytes do the counting.
* `ConsoleInProofs`, of `CdcRx`: never deaf, bytes once and in order, under the hypothesis
  `Fits` that a packet fits the array of `main_cdc_rx_notify`. `CountInv` holds the reason: a
  buffer that fits is read to its end. The hypothesis is the firmware's only for packets
  of at most 16 bytes; what happens to longer ones is among the observations.
  Of `SerialCmd`: types, and `LinesParsed`, that `parse` finds the arguments of every line.
  An invariant of the loop ties `start`, `pos` and the arguments found so far to the
  reference's answer for the rest of the line.

tlapm cannot use the library's induction theorems, whose parameter is an operator. Where
a proof needs induction over data, it goes over the members of a set of numbers: a least
number outside the set is impossible (`SetInduction`, from `WFMin`). A recursive function
gets its defining equation in the same way, first (`FromDefined`, `LoopSteps`, `RestSteps`).

Proved and not run by themselves: the type invariants named `TypeCorrect`, that of the
clock (`PartsTypeCorrect` of `ClockProofs`), `NoTimeLost`, `SleepLockBalanced`,
`NoHandlerFails`, `ImplementsPipe`, and `ImplementsJackFifo`, which the
runs check together with its fairness. Only model-checked: liveness, that is `Rearmed`,
the fairness in `ImplementsFairJackFifo`, `HandedOver`, `Ended` and `Delivered` of `CdcTx`;
liveness under fairness, and ENABLED, are beyond the prover. Every other property of a
run is a theorem.

## What was found

**Finding.** With the active-sensing test on, the main loop writes to the UARTs too
(`main.cpp:183`), although "the main loop manages only the power mode" "because the
USB management is done by interrupt" (`main.cpp:111-112`). `want_write` was
made for one writer. When an event of 2 or 3 bytes waits for room on a jack, the single test
byte may still fit; `write_buf` then sets `want_write` to 0 (`uart.h:430`), `on_dre_int`
finds nothing to resume, and the rest of the packet and the OUT endpoint wait for ever:
run `usb_out_active_test_wedge`. The other direction, a test byte that finds the ring
full and sets `want_write` to 1, lets HI enter `usb_recv_process` while LO is inside.

**Observations** the properties exempt, so that the rest can be stated:

* A USB MIDI event names its jack by four bits (`usb_midi_event.h:19`); a board has 1 to 7 jacks.
  For any other, `midi::send` of the board returns 0 (`midi-router-x4/midi.cpp:58-67`),
  `midi_send` fails, and `usb_recv_process` leaves the packet to a UART that was never told of
  it (`main.cpp:599-602`): OUT stays closed, and what is behind the event unsent, until a
  configuration runs OUT again. `NeverAbandoned`, `Rearmed` and `Listens` exempt it
  (`Wedged`, `odd`) and show that it is the only way to abandon a packet. On the way,
  `midi_send` takes a reference beyond `port_stat` and may write `stall_start` there
  (`main.cpp:525-531`), which is not modelled.

* `usb_midi_sent` clears `usb_send_busy` before its flush sets it again. A receive
  interrupt between the two flushes as well, and the LO flush then toggles back to the
  buffer the host is fetching: events of that transfer may be overwritten or
  lost. `InFlightIsKept` and `DeliveredUnlessRaced` hold for all other transfers, and
  `NothingStranded` shows that the next completed transfer heals it.
* A status byte that cuts an exclusive after a complete chunk sends an event with the
  first byte of the previous chunk and padding, because `size_` is 0 but the bytes are
  still copied (`main.cpp:247`, `main.cpp:710`). `OnlyCutsPad` shows this is the only
  place where a byte not received is sent.
* An end-of-exclusive byte inside another message is taken as its data
  (`midi_cmd.h:292`); the next other status byte restores the parser (`Faithful`).

* An aborted OUT job calls back, and `usb_midi_received`, which does not look at the status, runs
  OUT again, since the endpoint is still enabled (`usb_device.c:734`, `main.cpp:566-610`). A bus
  reset, a configuration or a setting then switches the endpoint off with that job on, and
  `udi_midi_enable` cannot run another (`main.cpp:584`): OUT stays closed in the next
  configuration, unless an abort of the disabled endpoint ended the job first, as a second
  bus reset does. A halted OUT is not run again when the halt is cleared, and a packet
  that meets a ring left full by a disable is not resumed. `Listens` therefore exempts any
  abort of an enabled OUT and such a ring (`cut`), until the device is started again
  or, for OUT, configured with no job left on it.
* A halt of IN aborts twice (`udc.c:564`, `usb_device.c:635`): the callback of the first abort
  starts the next packet, and the second abort takes it back. If the host had fetched the
  packet before that one, its completion is still to be served: `udd_ep_trans_complet` finds
  the counter reset, takes the transfer for unfinished and offers it again
  (`usb_device.c:1360-1375`), though it has no job any more. When the halt is cleared the host
  gets the aborted packet, which should have been stopped (`udd.h:320`), from a buffer that
  may be in use again by then. `OpenHasJob` exempts this one case.
* `udd_enable` forgets the jobs without calling back (`usb_device.c:458`, against
  `udd.h:295`), so that `usb_send_busy` may stay on over a stop and start from the menu,
  until the next transfer of IN ends: `OnlyStartForgets` shows it is the only such place.
* `udc_start` on a bus that is attached but was not reset leaves the control endpoint
  off until the next bus reset; SET_INTERFACE of a setting the interface lacks leaves it
  disabled.
* The underflow and overflow flags belong to all endpoints: one raised by another, found
  with a status bit that is cleared only with the next request, may stall a handshake
  (`usb_device.c:1201`). `KnownIsNotStalled` exempts it (`odd`), `Ended` shows that the host
  still gets an end.
* A host that cuts a request short by a new one may apply SET_ADDRESS before its
  handshake (`usb_device.c:1022`, against `udc.c:591`), may have the bytes of a SETUP packet
  copied to the line coding, and may be answered with the old empty packet. The same goes
  for a bus reset before a SETUP packet was served, which the handler leaves pending
  (`usb_device.c:794-815`): a stale SET_ADDRESS is then served after the reset and changes
  the address with the next request. The properties exempt both (`"cut"` of `odd`).
* `udi_cdc_putc` tests the room before it switches interrupts off (`udi_cdc.c:1060-1070`): a
  level above that prints in between may take the last place, and the byte is written
  beyond the buffer. `CdcTx` stops there (`Bounded`).
* `udi_cdc_putc` waits for room in a loop (`udi_cdc.c:1065`); called from the USB interrupt,
  which alone makes room, it waits for itself (`Spins`), though `udi_cdc.h:444` only says
  that it waits.
* `midi::mon` makes sure of 15 bytes and 3 for each of the message (`midi.cpp:45-49`), and
  prints one more when `millis()` has ten digits, which it has after 11.6 days
  (`midi.cpp:57-63`). If there is no room for that byte and the other buffer is on its way,
  the receive interrupt waits at HI for what only the USB interrupt can do, and the router
  stops. `CdcTx` has the step (`Mon` with m = n + 1); `Delivered` exempts the wait
  (`Spins`), while `InOrder` and `InFlightIsKept` hold through it.
* `udi_cdc_read_no_polling` returns what is available, not what it copied
  (`udi_cdc.c:952`; `udi_cdc.h:409` speaks of the characters read), and
  `main_cdc_rx_notify` (`main.cpp:391`) loops over that: a packet of more than 16 bytes is
  read beyond the array, the rest stays unread, and OUT is not run again.
* A command with more arguments than the table holds writes the last one over
  `arg_size_` (`serial_cmd.h:223-245`). A line of full size writes its terminator over
  `ready_` (`serial_cmd.h:178`). An empty pair of quotes is never an argument, a delete on an
  empty line is stored, and `get_hex` lacks an `else` (`serial_cmd.h:42-50`).
* A command that falls between the poll of `stat_timer` and its setting is overtaken: the
  timer stays active with a period of zero and prints at every pass (`main.cpp:166`). The
  properties exempt it (`met`). A time that wraps to zero is taken for an inactive
  timer (`artl/timer.h:24`) and stops the statistics or the menu's count; a period of more
  than half the word fires at once (`main.cpp:358`), and one of 536870912 seconds is zero.
* At 24 MHz the rounding of the constants of `timer.cpp:36-38` makes the clock 0.4 % slow;
  `NoTimeLost` shows that nothing else is lost.
* A CDC transfer that is aborted leaves `udi_cdc_tx_trans_ongoing` on until the interface is
  enabled again, which is when it is reset.

## Not modelled, and why

* Most of the repository is the vendored Atmel Software Framework: clock, register and
  compiler headers, a USB host stack and device classes this firmware does not use. It
  has no state of the router's; what of it decides the router's behaviour (endpoint
  jobs, the control endpoint, the device controller, the CDC class) is modelled.
* Boards: pins and instances of the same templates. Host scripts: not firmware.
* LEDs: counters nobody reads. One level advances a blink that another starts
  (`blink_state.h:82`); a blink lost or doubled is all that can come of it.
* Statistics counters and texts, conversions of numbers in commands, the serial number
  in the EEPROM: they feed nothing back. The stall time (`stall_start`, `main.cpp:530`) is only printed.
* Suspend, remote wake-up and VBUS monitoring; `micros`, the RTC clock and `hold_`, which
  the firmware does not use.

## Plan

Done, in this order: Ring, UsbOut, UsbOutActiveTest, UsbIn, MidiParser, UsbLifecycle,
UsbCtrl, CdcTx, CdcRx with SerialCmd, TimeBase with StatTimer and RstMenu; proofs of every
safety property of the runs. What would come next:

1. That `Process` of `UsbLifecycle` is what `UsbOut` does level by level, as `CallbackAtOnce`
   shows it of `Sent` and `UsbIn`. `UsbLifecycle` counts the messages of one jack and has no
   transmitter, so that it would first have to tell messages and jacks apart.
2. Suspend and remote wake-up in `UsbLifecycle`, with the sleep modes they choose.
