----------------------------- MODULE UsbInLifecycle ----------------------------
(* UsbIn as UsbLifecycle sees it: the callback usb_midi_sent, in which the      *)
(* receive interrupts of the UARTs may come between any two steps, happens at   *)
(* one of them.                                                                 *)
EXTENDS UsbIn

\* The host took the last packet of the transfer.
Over == job.phase = "zlpDone" \/ (job.phase = "dataDone" /\ job.size < Cap)

\* usb_midi_sent was called; what waits is not taken yet, nor found to be nothing.
Returning ==
    \/ pc \in {"sent", "buf", "size", "toggle"}
    \/ pc = "test" /\ end[active] # 0 /\ ~JobBusy

\* It took the active buffer and is about to run the endpoint.
Taking == pc \in {"reset", "busy", "run"}

\* What UsbLifecycle tells of it: the job of IN, its completion, the endpoint being closed
\* to the host, the events that wait for another transfer, usb_send_busy.
HasJob  == Returning \/ Taking \/ JobBusy
Due     == Returning \/ Over
Closed  == Due \/ ~HasJob
Queued  == IF pc = "reset" THEN 0 ELSE end[active]
Sending == busy \/ Returning \/ Taking

\* The configured device of UsbLifecycle, whose IN endpoint has this much to do and whose
\* OUT endpoint has a job, not over, and is open to the host.
OutJob    == TRUE
OutDue    == FALSE
OutClosed == FALSE
In(x, other) == [e \in {"OUT", "IN"} |-> IF e = "IN" THEN x ELSE other]

Life == INSTANCE UsbLifecycle WITH
    Packet   <- Cap,
    RingCap  <- 1,
    attached <- TRUE,
    ctrl     <- TRUE,
    conf     <- 1,
    ep       <- In("on", "on"),
    nack     <- In(Closed, OutClosed),
    tc       <- In(Due, OutDue),
    data     <- In(IF Closed THEN 1 ELSE 0, 0),
    job      <- In(HasJob, OutJob),
    midi     <- TRUE,
    locks    <- 0,
    left     <- 0,
    odd      <- FALSE,
    ring     <- 0,
    want     <- FALSE,
    dre      <- FALSE,
    queue    <- Queued,
    sending  <- Sending,
    menu     <- "none",
    todo     <- << >>,
    cut      <- {}

\* Wherever the receive interrupts overtake usb_midi_sent and the flush it calls
\* (main.cpp:633-654, 722-749), every step looks from outside like one whole call of
\* usb_midi_send or of the callback, or the host taking the last packet, or like nothing,
\* unless the two flushes raced.
SentIsOneStep ==
    [][~raced /\ ~raced' => \/ Life!RxEvent \/ Life!InComplete \/ Life!Host("IN", 1)
                            \/ UNCHANGED Life!vars]_vars
================================================================================
