--------------------------------- MODULE CdcTx ---------------------------------
(* The transmit side of the serial console: the two buffers of udi_cdc.c, one   *)
(* being filled by udi_cdc_putc while the other is on its way to the host.      *)
(*                                                                              *)
(* Three levels print: the main loop (banner, periodic statistics), the USB     *)
(* interrupt LO (echo, answers to commands, prompt) and the receive interrupts  *)
(* HI (the monitor).  udi_cdc_putc is two steps, the test for room and the      *)
(* write, and a higher level may come between them.  What the monitor prints is *)
(* one step, but for a last byte that it made no room for.  udi_cdc_tx_send     *)
(* runs at LO only: a HI level within it could at most fill the buffer that     *)
(* stays.                                                                       *)
EXTENDS Naturals, Sequences

CONSTANTS Size,       \* UDI_CDC_TX_BUFFERS (320)
          ZlpAfter,   \* calls with nothing to send before an empty packet (100)
          Numbers,    \* bytes are numbered modulo this
          Writers     \* the levels that print

ASSUME SizeAssumption == Size \in Nat \ {0}
ASSUME ZlpAfterAssumption == ZlpAfter \in Nat \ {0}
ASSUME NumbersAssumption == Numbers \in Nat \ {0}
Number == 0 .. Numbers - 1
Levels == {"main", "LO", "HI"}

ASSUME WritersAssumption == Writers \subseteq Levels

VARIABLES
    buf,        \* udi_cdc_tx_buf with udi_cdc_tx_buf_nb: the bytes of each buffer
    sel,        \* udi_cdc_tx_buf_sel, the buffer being filled
    both,       \* udi_cdc_tx_both_buf_to_send
    ongoing,    \* udi_cdc_tx_trans_ongoing
    sofWait,    \* udi_cdc_tx_sof_num is the number of the current frame
    zlp,        \* sof_zlp_counter
    running,    \* udi_cdc_data_running
    trans,      \* the IN endpoint: "none", "data" (the host may fetch) or "done"
    job,        \* the buffer and the size udd_ep_run was given
    pc,         \* where a level is in udi_cdc_putc
    next,       \* the number of the next byte
    first       \* the number of the next byte the host expects

bufVars == <<buf, sel, both>>
trVars  == <<ongoing, sofWait, zlp, trans, job>>
vars    == <<bufVars, trVars, running, pc, next, first>>

TypeOK ==
    /\ buf \in [{0, 1} -> Seq(Number)]
    /\ sel \in {0, 1}
    /\ both \in BOOLEAN /\ ongoing \in BOOLEAN /\ sofWait \in BOOLEAN
    /\ zlp \in 0 .. ZlpAfter - 1
    /\ running \in BOOLEAN
    /\ trans \in {"none", "data", "done"}
    /\ job \in [buf : {0, 1}, size : Nat]
    /\ pc \in [Levels -> {"idle", "check", "write"}]
    /\ next \in Number /\ first \in Number

Init ==
    /\ buf = [b \in {0, 1} |-> << >>]
    /\ sel = 0 /\ both = FALSE
    /\ ongoing = FALSE /\ sofWait = FALSE /\ zlp = 0
    /\ running = FALSE
    /\ trans = "none" /\ job = [buf |-> 0, size |-> 0]
    /\ pc = [l \in Levels |-> "idle"]
    /\ next = 0 /\ first = 0

--------------------------------------------------------------------------------
(* Printing.                                                                    *)

Other(b) == 1 - b

\* The buffer is full and the other one is free (udi_cdc_multi_get_free_tx_buffer).
Moves == Len(buf[sel]) = Size /\ ~ongoing /\ ~both

\* Mutant of GetFree: a transfer under way is not noticed.
GetFreeAnyway ==
    LET moves == Len(buf[sel]) = Size /\ ~both
    IN  /\ both' = (both \/ moves)
        /\ sel' = IF moves THEN Other(sel) ELSE sel

\* udi_cdc_multi_get_free_tx_buffer moves on to the other buffer.
GetFree ==
    /\ both' = (both \/ Moves)
    /\ sel' = IF Moves THEN Other(sel) ELSE sel

\* n bytes are written.
Put(b, n) ==
    /\ buf' = [buf EXCEPT ![b] = @ \o [i \in 1 .. n |-> (next + i - 1) % Numbers]]
    /\ next' = (next + n) % Numbers

\* Level l runs: no level above it is printing.
Runs(l) == /\ l # "HI" => pc["HI"] = "idle"
           /\ l = "main" => pc["LO"] = "idle"

\* udi_cdc_putc is called.
Putc(l) ==
    /\ l \in Writers \ {"HI"} /\ Runs(l)
    /\ pc[l] = "idle"
    /\ pc' = [pc EXCEPT ![l] = "check"]
    /\ UNCHANGED <<bufVars, trVars, running, next, first>>

\* There is room: the size is subtracted, so only a buffer exactly full has none.
Room(b) == Len(buf[b]) # Size

\* udi_cdc_multi_is_tx_ready: it goes on to the write, or gives up if the interface is
\* disabled, or tries again.
Check(l) ==
    /\ pc[l] = "check" /\ Runs(l)
    /\ GetFree
    /\ \/ Room(sel') /\ pc' = [pc EXCEPT ![l] = "write"]
       \/ ~Room(sel') /\ ~running /\ pc' = [pc EXCEPT ![l] = "idle"]
    /\ UNCHANGED <<buf, trVars, running, next, first>>

\* The write, to the buffer that is selected by then.
Write(l) ==
    /\ pc[l] = "write" /\ Runs(l)
    /\ Put(sel, 1)
    /\ pc' = [pc EXCEPT ![l] = "idle"]
    /\ UNCHANGED <<sel, both, trVars, running, first>>

\* midi::mon prints m bytes if there is room for the n that it counts, else a dot if there
\* is any.  The time that it prints takes from one to ten digits and is counted as nine: the
\* last byte of a line may be one more than there was room for, and udi_cdc_putc waits.
Mon(n, m) ==
    /\ "HI" \in Writers /\ pc["HI"] = "idle"
    /\ GetFree
    /\ LET free   == Size - Len(buf[sel'])
           prints == IF free >= n THEN m ELSE IF free >= 1 THEN 1 ELSE 0
       IN  /\ Put(sel', IF prints <= free THEN prints ELSE free)
           /\ pc' = [pc EXCEPT !["HI"] = IF prints <= free THEN "idle" ELSE "check"]
    /\ UNCHANGED <<trVars, running, first>>

--------------------------------------------------------------------------------
(* Sending.                                                                     *)

\* The bytes in buffers b, the oldest first, when sel is selected.
Waiting(b, s) == b[Other(s)] \o b[s]

\* Mutant of TxSend: the buffer is always switched.
TxSendSwitches(b, s, bt, busy, wait) ==
    LET quiet == b[s] = << >> /\ zlp + 1 < ZlpAfter
        sends == ~busy /\ ~wait /\ ~quiet
        t     == IF bt THEN Other(s) ELSE s
    IN  /\ zlp' = IF sends THEN 0 ELSE IF busy \/ wait THEN zlp ELSE zlp + 1
        /\ sel' = IF sends THEN Other(s) ELSE s
        /\ ongoing' = (busy \/ sends)
        /\ sofWait' = IF sends THEN Len(b[t]) # Size ELSE wait
        /\ job' = IF sends THEN [buf |-> t, size |-> Len(b[t])] ELSE job
        /\ trans' = IF sends THEN "data" ELSE IF busy THEN trans ELSE "none"

\* udi_cdc_tx_send, with the buffers, sel, both, ongoing and sofWait its callers leave: one
\* buffer is sent per frame unless it is full, an empty one only now and then.
TxSend(b, s, bt, busy, wait) ==
    LET quiet == b[s] = << >> /\ zlp + 1 < ZlpAfter
        sends == ~busy /\ ~wait /\ ~quiet
        t     == IF bt THEN Other(s) ELSE s
    IN  /\ zlp' = IF sends THEN 0 ELSE IF busy \/ wait THEN zlp ELSE zlp + 1
        /\ sel' = IF sends THEN Other(t) ELSE s
        /\ ongoing' = (busy \/ sends)
        /\ sofWait' = IF sends THEN Len(b[t]) # Size ELSE wait
        /\ job' = IF sends THEN [buf |-> t, size |-> Len(b[t])] ELSE job
        /\ trans' = IF sends THEN "data" ELSE IF busy THEN trans ELSE "none"

\* The USB interrupt is free for the next event.
LO == pc["LO"] = "idle" /\ pc["HI"] = "idle"

\* Mutant of Sof: the number of the frame is compared once.
SofKeepsWait ==
    /\ LO /\ running
    /\ TxSend(buf, sel, both, ongoing, sofWait)
    /\ UNCHANGED <<buf, both, running, pc, next, first>>

\* udi_cdc_data_sof_notify, at a start of frame.
Sof ==
    /\ LO /\ running
    /\ TxSend(buf, sel, both, ongoing, FALSE)
    /\ UNCHANGED <<buf, both, running, pc, next, first>>

\* The host fetches the packets of the transfer.
HostTakes ==
    /\ trans = "data"
    /\ trans' = "done"
    /\ UNCHANGED <<bufVars, ongoing, sofWait, zlp, job, running, pc, next, first>>

\* udi_cdc_data_sent: the other buffer is empty again, and the next one is sent.
DataSent ==
    /\ LO /\ trans = "done"
    /\ LET rest == [buf EXCEPT ![Other(sel)] = << >>]
       IN  /\ buf' = rest
           /\ TxSend(rest, sel, FALSE, FALSE, sofWait)
    /\ both' = FALSE
    /\ first' = (first + job.size) % Numbers
    /\ UNCHANGED <<running, pc, next>>

--------------------------------------------------------------------------------
(* The interface.                                                               *)

\* A bus reset or a new configuration: udd_ep_free aborts the transfer, whose callback
\* leaves udi_cdc_tx_trans_ongoing as it is; udi_cdc_data_disable.
DataDisable ==
    /\ LO /\ running
    /\ running' = FALSE
    /\ trans' = "none"
    /\ UNCHANGED <<bufVars, ongoing, sofWait, zlp, job, pc, next, first>>

\* udi_cdc_data_enable: everything is initialised but sof_zlp_counter.
DataEnable ==
    /\ LO /\ ~running
    /\ running' = TRUE
    /\ buf' = [b \in {0, 1} |-> << >>]
    /\ both' = FALSE
    /\ TxSend(buf', 0, FALSE, FALSE, FALSE)
    /\ first' = next
    /\ UNCHANGED <<pc, next>>

\* A buffer takes no more than its size.  A level that prints between the test for room
\* and the write of another may take the last place; the model stops there, since what is
\* written beyond a buffer is not its business.
Bounded == \A b \in {0, 1} : Len(buf[b]) <= Size

Next ==
    /\ Bounded
    /\ \/ \E l \in Levels : Putc(l) \/ Check(l) \/ Write(l)
       \/ \E n \in 1 .. Size : \E m \in 1 .. n + 1 : Mon(n, m)
       \/ Sof \/ HostTakes \/ DataSent
       \/ DataDisable \/ DataEnable

Spec == Init /\ [][Next]_vars

\* Frames start, the host fetches what is offered, and levels that may run do.
Fairness ==
    /\ WF_vars(Bounded /\ Sof)
    /\ WF_vars(Bounded /\ HostTakes)
    /\ WF_vars(Bounded /\ DataSent)
    /\ \A l \in Levels : WF_vars(Bounded /\ (Check(l) \/ Write(l)))

LiveSpec == Spec /\ Fairness

--------------------------------------------------------------------------------
(* Properties.                                                                  *)

\* The two buffers, the one sent first before the one being filled, hold exactly what was
\* printed and not yet delivered, in order: no byte is lost, repeated or overtaken however
\* buffers are switched (udi_cdc.c:682, 728-738, 1018-1023).
InOrder ==
    LET w == Waiting(buf, sel)
    IN  /\ \A i \in DOMAIN w : w[i] = (first + i - 1) % Numbers
        /\ next = (first + Len(w)) % Numbers

\* What the host fetches is the buffer that is not being filled, as it was when the
\* transfer was started (udi_cdc.c:764).
InFlightIsKept ==
    trans # "none" => ongoing /\ job.buf = Other(sel) /\ job.size = Len(buf[job.buf])

\* An interrupt prints while the buffer is full and the other one is not free: it waits for
\* what only the USB interrupt would do, which is itself or below it.
Spins == (\E l \in {"LO", "HI"} : pc[l] = "check") /\ running /\ ~Room(sel) /\ ~Moves

\* What waits goes out, as long as the interface is enabled: the end of a transfer or a
\* later frame finds it (udi_cdc.c:434, 690), whoever prints meanwhile, unless an interrupt
\* waits for what it keeps from happening (udi_cdc.c:1065) or a buffer was overrun
\* (udi_cdc.c:1060).
Delivered ==
    \A k \in Number :
        first = k /\ Waiting(buf, sel) # << >> ~> first # k \/ ~running \/ Spins \/ ~Bounded
================================================================================
