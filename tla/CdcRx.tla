--------------------------------- MODULE CdcRx ---------------------------------
(* The receive side of the serial console: the two buffers of udi_cdc.c and the *)
(* application's main_cdc_rx_notify, which empties the one that was filled.     *)
(* Everything runs in the USB interrupt; what interleaves is the host, which    *)
(* sends packets of any length and disables and enables the interface.          *)
EXTENDS Naturals, Sequences

CONSTANTS Packet,     \* bytes a packet holds (64), also UDI_CDC_RX_BUFFERS
          Copy,       \* sizeof(buf) in main_cdc_rx_notify (16)
          Longest,    \* bytes the host puts into a packet
          Numbers     \* bytes are numbered modulo this

ASSUME PacketAssumption == Packet \in Nat \ {0}
ASSUME CopyAssumption == Copy \in Nat \ {0}
ASSUME LongestAssumption == Longest \in 0 .. Packet
ASSUME NumbersAssumption == Numbers \in Nat \ {0}

Number == 0 .. Numbers - 1

VARIABLES
    mem,        \* udi_cdc_rx_buf
    nb,         \* udi_cdc_rx_buf_nb
    sel,        \* udi_cdc_rx_buf_sel, the buffer being read
    pos,        \* udi_cdc_rx_pos
    ongoing,    \* udi_cdc_rx_trans_ongoing
    running,    \* udi_cdc_data_running
    job,        \* the OUT endpoint: "none", "open" to the host, or "done"
    into,       \* the buffer and count of its job
    local,      \* buf of main_cdc_rx_notify, a static array
    size, avail,\* what read_no_polling copied and what it returned
    reads,      \* bytes main_cdc_rx_notify has processed of it
    next,       \* the number of the next byte the host sends
    first,      \* the number of the next byte to be processed
    wrong       \* history: a byte was processed that was not the next one

bufVars == <<mem, nb, sel, pos, ongoing, running>>
jobVars == <<job, into>>
appVars == <<local, size, avail, reads>>
numVars == <<next, first, wrong>>
vars    == <<bufVars, jobVars, appVars, numVars>>

TypeOK ==
    /\ mem \in [{0, 1} -> [1 .. Packet -> Number]]
    /\ nb \in [{0, 1} -> 0 .. Packet]
    /\ sel \in {0, 1} /\ pos \in 0 .. Packet
    /\ ongoing \in BOOLEAN /\ running \in BOOLEAN
    /\ job \in {"none", "open", "done"}
    /\ into \in [buf : {0, 1}, n : 0 .. Packet]
    /\ local \in [1 .. Copy -> Number]
    /\ size \in 0 .. Copy /\ avail \in 0 .. Longest /\ reads \in 0 .. Longest
    /\ next \in Number /\ first \in Number
    /\ wrong \in BOOLEAN

Init ==
    /\ mem = [b \in {0, 1} |-> [i \in 1 .. Packet |-> 0]]
    /\ nb = [b \in {0, 1} |-> 0]
    /\ sel = 0 /\ pos = 0
    /\ ongoing = FALSE /\ running = FALSE
    /\ job = "none" /\ into = [buf |-> 0, n |-> 0]
    /\ local = [i \in 1 .. Copy |-> 0]
    /\ size = 0 /\ avail = 0 /\ reads = 0
    /\ next = 0 /\ first = 0 /\ wrong = FALSE

--------------------------------------------------------------------------------

Other(b) == 1 - b

\* Mutant of Notified: one byte too many.
NotifiedInclusive == reads <= avail

\* main_cdc_rx_notify is at work.
Notified == reads < avail

\* The host sends a packet of n bytes into the open endpoint.
HostSends(n) ==
    /\ job = "open"
    /\ job' = "done"
    /\ into' = [into EXCEPT !.n = n]
    /\ mem' = [mem EXCEPT ![into.buf] =
                 [i \in 1 .. Packet |-> IF i <= n THEN (next + i - 1) % Numbers ELSE @[i]]]
    /\ next' = (next + n) % Numbers
    /\ UNCHANGED <<nb, sel, pos, ongoing, running, appVars, first, wrong>>

\* Mutant of RxStart: the bytes are copied from the buffer read before.
RxStartStale(counts) ==
    LET got == counts[Other(sel)]
        k   == IF got < Copy THEN got ELSE Copy
    IN  /\ sel' = Other(sel)
        /\ ongoing' = TRUE
        /\ pos' = k
        /\ local' = [i \in 1 .. Copy |-> IF i <= k THEN mem[sel][i] ELSE local[i]]
        /\ size' = k /\ avail' = got /\ reads' = 0

\* udi_cdc_rx_start, with the counts its caller leaves, switches to the buffer that was
\* filled and hands it to main_cdc_rx_notify, which reads at once (read_no_polling): up to
\* Copy bytes are copied, while the number available is what it returns.
RxStart(counts) ==
    LET got == counts[Other(sel)]
        k   == IF got < Copy THEN got ELSE Copy
    IN  /\ sel' = Other(sel)
        /\ ongoing' = TRUE
        /\ pos' = k
        /\ local' = [i \in 1 .. Copy |-> IF i <= k THEN mem[Other(sel)][i] ELSE local[i]]
        /\ size' = k /\ avail' = got /\ reads' = 0

\* udi_cdc_data_received: a packet that holds data is taken over, if the last one was
\* read to its end.
Received ==
    /\ job = "done" /\ ~Notified
    /\ into.n # 0
    /\ nb' = [nb EXCEPT ![Other(sel)] = into.n]
    /\ IF pos >= nb[sel]
       THEN RxStart(nb')
       ELSE ongoing' = FALSE /\ UNCHANGED <<sel, pos, appVars>>
    /\ job' = "none"
    /\ UNCHANGED <<mem, running, into, numVars>>

\* Mutant of ReceivedEmpty: the endpoint is not run again.
ReceivedEmptyEnds ==
    /\ job = "done" /\ ~Notified
    /\ into.n = 0
    /\ job' = "none"
    /\ UNCHANGED <<bufVars, into, appVars, numVars>>

\* An empty packet: the endpoint is run again.
ReceivedEmpty ==
    /\ job = "done" /\ ~Notified
    /\ into.n = 0
    /\ job' = "open"
    /\ UNCHANGED <<bufVars, into, appVars, numVars>>

\* The loop of main_cdc_rx_notify takes the next byte: beyond its array, whatever the
\* memory there holds.  After the last one udi_cdc_rx_start goes on to run OUT on the
\* buffer that was read before.
Process ==
    /\ Notified
    /\ reads' = reads + 1
    /\ wrong' = (wrong \/ reads >= Copy \/ local[reads + 1] # first)
    /\ first' = (first + 1) % Numbers
    /\ IF reads' = avail
       THEN job' = "open" /\ into' = [buf |-> Other(sel), n |-> 0]
       ELSE UNCHANGED jobVars
    /\ UNCHANGED <<bufVars, local, size, avail, next>>

\* udi_cdc_data_enable: nothing is held, OUT is run; what was not read is lost.
DataEnable ==
    /\ ~running /\ ~Notified
    /\ running' = TRUE
    /\ nb' = [b \in {0, 1} |-> 0]
    /\ pos' = 0 /\ sel' = 1
    /\ ongoing' = TRUE
    /\ job' = "open" /\ into' = [buf |-> 0, n |-> 0]
    /\ first' = next
    /\ UNCHANGED <<mem, appVars, next, wrong>>

\* The transfer is aborted, its callback changes nothing; udi_cdc_data_disable.
DataDisable ==
    /\ running /\ ~Notified
    /\ running' = FALSE
    /\ job' = "none"
    /\ UNCHANGED <<mem, nb, sel, pos, ongoing, into, appVars, numVars>>

Next ==
    \/ \E n \in 0 .. Longest : HostSends(n)
    \/ Received \/ ReceivedEmpty \/ Process
    \/ DataEnable \/ DataDisable

Spec == Init /\ [][Next]_vars

--------------------------------------------------------------------------------
(* Properties.                                                                  *)

\* While the interface is enabled, the endpoint is open, or a packet is about to be taken
\* or being processed (udi_cdc.c:616, 645, 656): no packet leaves the console deaf.
StaysOpen == running => job # "none" \/ Notified

\* Every byte is processed once and in order (main.cpp:391, udi_cdc.c:574-657), and the host
\* does not write into the buffer that is being read: the job's buffer is the other.
InOrder == ~wrong /\ (job # "none" => into.buf = Other(sel))
================================================================================
