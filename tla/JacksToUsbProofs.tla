---------------------------- MODULE JacksToUsbProofs ---------------------------
(* Proofs about the way from the jacks to USB: the buffers of usb_send_buf      *)
(* (UsbIn), for every size of the buffers, and before them the parser           *)
(* (MidiParser), for every set of data bytes and every window.                  *)
EXTENDS UsbInLifecycle, MidiParser, Integers, SequenceTheorems, TLAPS

--------------------------------------------------------------------------------
(* UsbIn.                                                                       *)

USE DEF Buffers, Other, JobBusy, Phases

\* What a transfer is made of.
LEMMA RunType ==
    ASSUME CapAssumption, NEW b \in Buffers, NEW n \in 0 .. Cap, Run(b, n)
    PROVE  /\ job' \in [phase : Phases, buf : Buffers, size : 0 .. Cap]
           /\ job'.phase # "none" /\ job'.buf = b /\ job'.size = n
           /\ job'.phase \in {"data", "zlp"}
  BY DEF Run

\* What a push leaves.
LEMMA PushType ==
    ASSUME TypeOK, Push
    PROVE  /\ mem' \in [Buffers -> [1 .. Cap -> Number]]
           /\ next' \in Number
           /\ active \in Buffers /\ end[active] + 1 \in 1 .. Cap
           /\ [end EXCEPT ![active] = @ + 1] \in [Buffers -> 0 .. Cap]
  <1>1. active \in Buffers /\ end[active] + 1 \in 1 .. Cap
    BY CapAssumption DEF TypeOK, Push
  <1>2. next' \in Number
    BY NumbersAssumption DEF TypeOK, Push, Number
  <1>3. mem' \in [Buffers -> [1 .. Cap -> Number]]
    BY <1>1 DEF TypeOK, Push
  <1>4. [end EXCEPT ![active] = @ + 1] \in [Buffers -> 0 .. Cap]
    <2>1. end \in [Buffers -> 0 .. Cap] /\ end[active] + 1 \in 0 .. Cap
      BY <1>1, CapAssumption DEF TypeOK
    <2> QED  BY <2>1
  <1> QED  BY <1>1, <1>2, <1>3, <1>4

LEMMA InitInv == Init => IInv
  <1> SUFFICES ASSUME Init PROVE IInv
    OBVIOUS
  <1>1. TypeOK
    <2>1. mem \in [Buffers -> [1 .. Cap -> Number]] /\ next \in Number
      BY NumbersAssumption DEF Init, Number
    <2>2. end \in [Buffers -> 0 .. Cap] /\ size \in 0 .. Cap
      BY CapAssumption DEF Init
    <2>3. job \in [phase : Phases, buf : Buffers, size : 0 .. Cap]
      BY CapAssumption DEF Init
    <2> QED  BY <2>1, <2>2, <2>3 DEF Init, TypeOK, Places
  <1>2. PlaceInv /\ QuietInv /\ LocalInv /\ NothingStranded /\ InFlightIsKept
    BY DEF Init, PlaceInv, QuietInv, LocalInv, NothingStranded, InFlightIsKept, InFlush, Toggled
  <1> QED  BY <1>1, <1>2 DEF IInv

\* A step of either level keeps the types.
LEMMA TypeStep == TypeOK /\ [Next]_vars => TypeOK'
  <1> SUFFICES ASSUME TypeOK, [Next]_vars PROVE TypeOK'
    OBVIOUS
  <1> USE CapAssumption, NumbersAssumption DEF TypeOK, Number, Places
  <1>1. CASE SendFull
    BY <1>1, SMTT(30) DEF SendFull, bufVars, loVars
  <1>2. CASE SendBuffered
    <2>1. /\ mem' \in [Buffers -> [1 .. Cap -> Number]] /\ next' \in Number
          /\ active \in Buffers /\ end[active] + 1 \in 1 .. Cap
      BY <1>2, PushType DEF SendBuffered
    <2>2. end' \in [Buffers -> 0 .. Cap]
      BY <1>2, PushType DEF SendBuffered
    <2> QED  BY <1>2, <2>1, <2>2 DEF SendBuffered, loVars
  <1>3. CASE SendFlushed
    <2>1. /\ mem' \in [Buffers -> [1 .. Cap -> Number]] /\ next' \in Number
          /\ active \in Buffers /\ end[active] + 1 \in 1 .. Cap
      BY <1>3, PushType DEF SendFlushed
    <2>2. end' \in [Buffers -> 0 .. Cap]
      <3>1. [end EXCEPT ![active] = @ + 1] \in [Buffers -> 0 .. Cap]
        BY <1>3, PushType DEF SendFlushed
      <3>2. end' = [[end EXCEPT ![active] = @ + 1] EXCEPT ![Other(active)] = 0]
        BY <1>3, <2>1 DEF SendFlushed
      <3> QED  BY <3>1, <3>2, SMTT(30)
    <2>3. job' \in [phase : Phases, buf : Buffers, size : 0 .. Cap]
      <3>1. end[active] + 1 \in 0 .. Cap
        BY <2>1
      <3>2. CASE JobBusy
        BY <1>3, <3>2 DEF SendFlushed
      <3>3. CASE ~JobBusy
        <4>1. Run(active, end[active] + 1)
          BY <1>3, <3>3 DEF SendFlushed
        <4> QED  BY <2>1, <3>1, <4>1, RunType
      <3> QED  BY <3>2, <3>3
    <2>4. active' \in Buffers /\ busy' \in BOOLEAN /\ raced' \in BOOLEAN
      BY <1>3, <2>1 DEF SendFlushed, InWindow
    <2>5. UNCHANGED loVars
      BY <1>3 DEF SendFlushed
    <2> QED  BY <2>1, <2>2, <2>3, <2>4, <2>5 DEF loVars
  <1>4. CASE HostPoll
    BY <1>4 DEF HostPoll, bufVars, loVars
  <1>5. CASE TransContinues
    BY <1>5 DEF TransContinues, bufVars, loVars
  <1>6. CASE TransComplete
    BY <1>6 DEF TransComplete, bufVars, loVars
  <1>7. CASE SentBusyOff
    BY <1>7 DEF SentBusyOff, bufVars, loVars
  <1>8. CASE SentTest
    BY <1>8 DEF SentTest, bufVars, loVars
  <1>9. CASE FlushBuf
    BY <1>9 DEF FlushBuf, bufVars, loVars
  <1>10. CASE FlushSize
    BY <1>10 DEF FlushSize, bufVars, loVars
  <1>11. CASE FlushToggle
    BY <1>11 DEF FlushToggle, bufVars, loVars
  <1>12. CASE FlushReset
    BY <1>12 DEF FlushReset, bufVars, loVars
  <1>13. CASE FlushBusyOn
    BY <1>13 DEF FlushBusyOn, bufVars, loVars
  <1>14. CASE FlushRun
    <2>1. job' \in [phase : Phases, buf : Buffers, size : 0 .. Cap]
      BY <1>14, RunType DEF FlushRun
    <2>2. pc' \in Places
      BY <1>14 DEF FlushRun
    <2> QED  BY <1>14, <2>1, <2>2 DEF FlushRun, bufVars
  <1>15. CASE FlushFailed
    BY <1>15 DEF FlushFailed, bufVars, loVars
  <1>16. CASE UNCHANGED vars
    BY <1>16 DEF vars, bufVars, loVars
  <1> QED
    BY <1>1, <1>2, <1>3, <1>4, <1>5, <1>6, <1>7, <1>8, <1>9, <1>10, <1>11, <1>12, <1>13, <1>14, <1>15, <1>16 DEF Next, Send, Sent

\* A flush of HI on a taken endpoint is due to an earlier overlap.
LEMMA FailingFlushRaced ==
    ASSUME IInv, ~busy, JobBusy
    PROVE  raced
  <1>1. pc \in Places
    BY DEF IInv, TypeOK
  <1> QED  BY <1>1 DEF IInv, QuietInv, InFlush, Places

\* A flush of HI on a free endpoint.
LEMMA FlushTakes ==
    ASSUME TypeOK, SendFlushed, ~JobBusy
    PROVE  /\ job'.phase # "none" /\ job'.buf = active /\ job'.size = end'[active]
           /\ active' = Other(active) /\ active \in Buffers /\ busy' = TRUE
           /\ UNCHANGED loVars
  <1>1. active \in Buffers /\ end[active] + 1 \in 0 .. Cap
    BY CapAssumption DEF SendFlushed, Push, TypeOK
  <1>2. Run(active, end[active] + 1) /\ active' = Other(active) /\ busy' = TRUE
        /\ UNCHANGED loVars
    BY DEF SendFlushed
  <1>3. job'.phase # "none" /\ job'.buf = active /\ job'.size = end[active] + 1
    BY <1>1, <1>2, RunType, CapAssumption
  <1>4. end'[active] = end[active] + 1
    BY <1>1 DEF SendFlushed, TypeOK
  <1> QED  BY <1>1, <1>2, <1>3, <1>4

\* The LO flush on a free endpoint.
LEMMA LoFlushTakes ==
    ASSUME TypeOK, FlushRun, ~JobBusy
    PROVE  /\ job'.phase # "none" /\ job'.buf = buf /\ job'.size = size /\ pc' = "idle"
           /\ UNCHANGED <<bufVars, buf, size, next, raced>>
  BY RunType, CapAssumption DEF FlushRun, TypeOK

\* The rest of the invariant, action by action.
LEMMA RestStep ==
    IInv /\ [Next]_vars =>
        (PlaceInv /\ QuietInv /\ LocalInv /\ NothingStranded /\ InFlightIsKept)'
  <1> SUFFICES ASSUME IInv, [Next]_vars
               PROVE  (PlaceInv /\ QuietInv /\ LocalInv /\ NothingStranded /\ InFlightIsKept)'
    OBVIOUS
  <1> USE CapAssumption DEF IInv, TypeOK, PlaceInv, QuietInv, LocalInv, NothingStranded,
          InFlightIsKept, InFlush, Toggled
  <1>1. CASE SendFull
    BY <1>1 DEF SendFull, bufVars, loVars
  <1>2. CASE SendBuffered
    BY <1>2 DEF SendBuffered, Push, bufVars, loVars
  <1>3. CASE SendFlushed
    <2>1. CASE JobBusy
      <3>1. raced /\ raced' /\ JobBusy' /\ pc' = pc
        BY <1>3, <2>1, FailingFlushRaced DEF SendFlushed, loVars
      <3> QED  BY <3>1
    <2>2. CASE ~JobBusy
      <3>1. pc # "fail" /\ pc' = pc /\ buf' = buf /\ size' = size
        BY <1>3, <2>2 DEF SendFlushed, loVars
      <3>2. pc \notin {"idle", "test", "run"} => raced'
        BY <1>3, <3>1 DEF SendFlushed, InWindow, Places
      <3>3. pc = "run" => busy \/ raced
        OBVIOUS
      <3>4. /\ job'.phase # "none" /\ job'.buf = active /\ job'.size = end'[active]
            /\ active' = Other(active) /\ active \in Buffers /\ busy' = TRUE
        BY <1>3, <2>2, FlushTakes
      <3>5. PlaceInv' /\ NothingStranded'
        BY <3>1, <3>4
      <3>6. QuietInv' /\ LocalInv'
        BY <1>3, <3>1, <3>2, <3>3, <3>4 DEF SendFlushed
      <3>7. InFlightIsKept'
        BY <1>3, <3>1, <3>2, <3>4 DEF SendFlushed
      <3> QED  BY <3>5, <3>6, <3>7
    <2> QED  BY <2>1, <2>2
  <1>4. CASE HostPoll
    BY <1>4 DEF HostPoll, bufVars, loVars
  <1>5. CASE TransContinues
    BY <1>5 DEF TransContinues, bufVars, loVars
  <1>6. CASE TransComplete
    BY <1>6 DEF TransComplete, bufVars, loVars
  <1>7. CASE SentBusyOff
    BY <1>7 DEF SentBusyOff, bufVars, loVars
  <1>8. CASE SentTest
    BY <1>8 DEF SentTest, bufVars, loVars
  <1>9. CASE FlushBuf
    BY <1>9 DEF FlushBuf, bufVars, loVars
  <1>10. CASE FlushSize
    BY <1>10 DEF FlushSize, bufVars, loVars
  <1>11. CASE FlushToggle
    BY <1>11 DEF FlushToggle, bufVars, loVars
  <1>12. CASE FlushReset
    BY <1>12 DEF FlushReset, bufVars, loVars
  <1>13. CASE FlushBusyOn
    BY <1>13 DEF FlushBusyOn, bufVars, loVars
  <1>14. CASE FlushRun
    <2>1. CASE JobBusy
      <3>1. raced /\ pc' = "fail" /\ UNCHANGED <<bufVars, job, buf, size, next, raced>>
        BY <1>14, <2>1 DEF FlushRun
      <3> QED  BY <2>1, <3>1 DEF bufVars
    <2>2. CASE ~JobBusy
      <3>1. /\ job'.phase # "none" /\ job'.buf = buf /\ job'.size = size /\ pc' = "idle"
            /\ end' = end /\ active' = active /\ busy' = busy /\ raced' = raced
            /\ buf' = buf /\ size' = size
        BY <1>14, <2>2, LoFlushTakes DEF bufVars
      <3>2. ~raced => active # buf /\ end[buf] = size /\ busy
        BY <1>14 DEF FlushRun
      <3>3. PlaceInv' /\ NothingStranded'
        BY <3>1
      <3>4. QuietInv' /\ LocalInv'
        BY <3>1, <3>2
      <3>5. InFlightIsKept'
        BY <3>1, <3>2
      <3> QED  BY <3>3, <3>4, <3>5
    <2> QED  BY <2>1, <2>2
  <1>15. CASE FlushFailed
    BY <1>15 DEF FlushFailed, bufVars, loVars
  <1>16. CASE UNCHANGED vars
    BY <1>16 DEF vars, bufVars, loVars
  <1> QED
    BY <1>1, <1>2, <1>3, <1>4, <1>5, <1>6, <1>7, <1>8, <1>9, <1>10, <1>11, <1>12, <1>13, <1>14, <1>15, <1>16 DEF Next, Send, Sent

LEMMA Invariance == Spec => []IInv
  <1>1. IInv /\ [Next]_vars => IInv'
    BY TypeStep, RestStep DEF IInv
  <1> QED  BY InitInv, <1>1, PTL DEF Spec

\* Every variable keeps its type: above all, no index of usb_send_buf leaves its array.
THEOREM TypeCorrect == Spec => []TypeOK
  <1>1. IInv => TypeOK
    BY DEF IInv
  <1> QED  BY Invariance, <1>1, PTL

\* No event is left behind without a transfer to take it, wherever HI interrupts the
\* callback of the last transfer (usb_midi_sent, usb_midi_flush).
THEOREM NeverStranded == Spec => []NothingStranded
  <1>1. IInv => NothingStranded
    BY DEF IInv
  <1> QED  BY Invariance, <1>1, PTL

\* The buffer the host fetches is not written to, unless the flushes overlapped
\* (usb_midi_flush called from both levels).
THEOREM InFlightKept == Spec => []InFlightIsKept
  <1>1. IInv => InFlightIsKept
    BY DEF IInv
  <1> QED  BY Invariance, <1>1, PTL

--------------------------------------------------------------------------------
(* UsbIn implements EventPipe.                                                  *)

\* What waits, as Queue puts it together: in the transfer, in the hands of the LO flush,
\* in the active buffer.
Fetched == IF job.phase = "data" THEN Prefix(job.buf, job.size) ELSE << >>
Flushed == IF pc \in {"reset", "busy", "run"} THEN Prefix(buf, size) ELSE << >>
Waiting == IF pc = "reset" THEN << >> ELSE Prefix(active, end[active])

LEMMA QueueParts == Queue = Fetched \o Flushed \o Waiting
  BY DEF Queue, Fetched, Flushed, Waiting

\* What a buffer holds.
LEMMA PrefixType ==
    ASSUME TypeOK, NEW b \in Buffers, NEW n \in 0 .. Cap
    PROVE  /\ Prefix(b, n) \in Seq(Number)
           /\ Len(Prefix(b, n)) = n
           /\ \A i \in 1 .. n : Prefix(b, n)[i] = mem[b][i]
           /\ n = 0 => Prefix(b, n) = << >>
  <1>1. 1 \in Int /\ n \in Int /\ n - 1 + 1 = n /\ (1 <= n <=> n # 0)
    BY CapAssumption
  <1>2. \A i \in 1 .. n : mem[b][i] \in Number
    <2>1. mem[b] \in [1 .. Cap -> Number]
      BY DEF TypeOK
    <2>2. \A i \in 1 .. n : i \in 1 .. Cap
      BY CapAssumption
    <2> QED  BY <2>1, <2>2
  <1>3. \A i \in 1 .. n : mem[b][1 + i - 1] = mem[b][i]
    BY <1>1
  <1>4. /\ SubSeq(mem[b], 1, n) \in Seq(Number)
        /\ Len(SubSeq(mem[b], 1, n)) = IF 1 <= n THEN n - 1 + 1 ELSE 0
        /\ \A i \in 1 .. n - 1 + 1 : SubSeq(mem[b], 1, n)[i] = mem[b][1 + i - 1]
    BY <1>1, <1>2, SubSeqProperties
  <1>5. n = 0 => SubSeq(mem[b], 1, n) = << >>
    BY <1>1, SubSeqEmpty
  <1> QED  BY <1>1, <1>3, <1>4, <1>5 DEF Prefix

LEMMA PartsType ==
    ASSUME TypeOK
    PROVE  Fetched \in Seq(Number) /\ Flushed \in Seq(Number) /\ Waiting \in Seq(Number)
  <1>1. << >> \in Seq(Number)
    BY EmptySeq
  <1>2. Fetched \in Seq(Number)
    BY <1>1, PrefixType DEF Fetched, TypeOK
  <1>3. Flushed \in Seq(Number)
    BY <1>1, PrefixType DEF Flushed, TypeOK
  <1>4. Waiting \in Seq(Number)
    BY <1>1, PrefixType DEF Waiting, TypeOK
  <1> QED  BY <1>2, <1>3, <1>4

\* The same buffer, no part of which was written to.
LEMMA PrefixKept ==
    ASSUME TypeOK, NEW b \in Buffers, NEW n \in 0 .. Cap, mem'[b] = mem[b]
    PROVE  Prefix(b, n)' = Prefix(b, n)
  BY DEF Prefix

\* A push adds the event to the active buffer and writes nowhere else.
LEMMA PushAppends ==
    ASSUME TypeOK, TypeOK', Push
    PROVE  /\ end[active] + 1 \in 1 .. Cap
           /\ SubSeq(mem'[active], 1, end[active] + 1) = Append(Prefix(active, end[active]), next)
           /\ mem'[Other(active)] = mem[Other(active)]
           /\ next \in Number /\ next' = (next + 1) % Numbers
  <1> DEFINE n == end[active]
             s == Prefix(active, n)
             t == SubSeq(mem'[active], 1, n + 1)
  <1>1. active \in Buffers /\ n \in 0 .. Cap /\ n + 1 \in 1 .. Cap
    BY PushType, CapAssumption DEF TypeOK
  <1>2. /\ mem' = [mem EXCEPT ![active][n + 1] = next]
        /\ next \in Number /\ next' = (next + 1) % Numbers
    BY DEF Push, TypeOK
  <1>3. /\ \A i \in 1 .. n : mem'[active][i] = mem[active][i]
        /\ mem'[active][n + 1] = next
        /\ mem'[Other(active)] = mem[Other(active)]
    <2>1. mem \in [Buffers -> [1 .. Cap -> Number]]
      BY DEF TypeOK
    <2> HIDE DEF n
    <2> QED  BY <1>1, <1>2, <2>1, CapAssumption
  <1>4. s \in Seq(Number) /\ Len(s) = n /\ \A i \in 1 .. n : s[i] = mem[active][i]
    BY <1>1, PrefixType
  <1>5. t \in Seq(Number) /\ Len(t) = n + 1 /\ \A i \in 1 .. n + 1 : t[i] = mem'[active][i]
    <2> HIDE DEF n
    <2>1. 1 \in Int /\ n + 1 \in Int /\ n + 1 - 1 + 1 = n + 1 /\ 1 <= n + 1
      BY <1>1, CapAssumption
    <2>2. \A i \in 1 .. n + 1 : mem'[active][i] \in Number
      <3>1. mem' \in [Buffers -> [1 .. Cap -> Number]]
        BY DEF TypeOK
      <3>2. 1 .. n + 1 \subseteq 1 .. Cap
        BY <1>1, CapAssumption
      <3> QED  BY <1>1, <3>1, <3>2
    <2>3. /\ t \in Seq(Number)
          /\ Len(t) = IF 1 <= n + 1 THEN n + 1 - 1 + 1 ELSE 0
          /\ \A i \in 1 .. n + 1 - 1 + 1 : t[i] = mem'[active][1 + i - 1]
      <3> DEFINE f == mem'[active]
      <3> HIDE DEF f
      <3>1. /\ SubSeq(f, 1, n + 1) \in Seq(Number)
            /\ Len(SubSeq(f, 1, n + 1)) = IF 1 <= n + 1 THEN n + 1 - 1 + 1 ELSE 0
            /\ \A i \in 1 .. n + 1 - 1 + 1 : SubSeq(f, 1, n + 1)[i] = f[1 + i - 1]
        BY <2>1, <2>2, SubSeqProperties DEF f
      <3> QED  BY <3>1 DEF f
    <2>4. \A i \in 1 .. n + 1 : 1 + i - 1 = i
      OBVIOUS
    <2> QED  BY <2>1, <2>3, <2>4
  <1>6. /\ Append(s, next) \in Seq(Number) /\ Len(Append(s, next)) = n + 1
        /\ \A i \in 1 .. n : Append(s, next)[i] = s[i]
        /\ Append(s, next)[n + 1] = next
    BY <1>2, <1>4, AppendProperties
  <1>7. t = Append(s, next)
    <2> HIDE DEF n, s, t
    <2>1. \A i \in 1 .. n + 1 : t[i] = Append(s, next)[i]
      BY <1>1, <1>3, <1>4, <1>5, <1>6
    <2> QED  BY <1>5, <1>6, <2>1, SeqEqual
  <1> QED  BY <1>1, <1>2, <1>3, <1>7

LEMMA AppendLast ==
    ASSUME NEW S, NEW s \in Seq(S), NEW t \in Seq(S), NEW u \in Seq(S), NEW e \in S
    PROVE  s \o t \o Append(u, e) = Append(s \o t \o u, e)
  <1>1. s \o t \in Seq(S) /\ s \o t \o u \in Seq(S) /\ <<e>> \in Seq(S)
    BY ConcatProperties
  <1>2. Append(u, e) = u \o <<e>> /\ Append(s \o t \o u, e) = s \o t \o u \o <<e>>
    BY <1>1, AppendIsConcat
  <1> QED  BY <1>1, <1>2, ConcatAssociative

\* What waits, in a step that leaves the three parts alone.
LEMMA SameQueue ==
    ASSUME Fetched' = Fetched, Flushed' = Flushed, Waiting' = Waiting
    PROVE  Queue' = Queue
  BY DEF Queue, Fetched, Flushed, Waiting

\* An event joins the queue: it goes behind those of the active buffer.
LEMMA Joins ==
    ASSUME TypeOK, TypeOK', Push, Fetched' = Fetched, Flushed' = Flushed,
           Waiting' = Append(Waiting, next)
    PROVE  Pipe!Receive
  <1>1. Queue = Fetched \o Flushed \o Waiting /\ Queue' = Fetched' \o Flushed' \o Waiting'
    BY DEF Queue, Fetched, Flushed, Waiting
  <1>2. Fetched \o Flushed \o Append(Waiting, next) = Append(Fetched \o Flushed \o Waiting, next)
    <2>1. next \in Number
      BY DEF TypeOK
    <2> QED  BY <2>1, PartsType, AppendLast
  <1>3. Queue' = Append(Queue, next)
    BY <1>1, <1>2
  <1> QED  BY <1>3 DEF Pipe!Receive, Push

LEMMA SendFullPipe ==
    ASSUME IInv, ~raced, ~raced', SendFull
    PROVE  Pipe!Receive
  <1>1. pc # "reset" /\ UNCHANGED <<mem, end, active, job, pc, buf, size>>
        /\ end[active] >= Cap /\ next' = (next + 1) % Numbers
    BY DEF SendFull, bufVars, loVars
  <1>2. Queue' = Queue
    <2>1. Fetched' = Fetched /\ Flushed' = Flushed /\ Waiting' = Waiting
      BY <1>1 DEF Fetched, Flushed, Waiting, Prefix
    <2> QED  BY <2>1, SameQueue
  <1>3. Len(Queue) >= Cap
    <2>1. end[active] = Cap /\ active \in Buffers /\ Cap \in 0 .. Cap
      BY <1>1, CapAssumption DEF IInv, TypeOK
    <2>2. Waiting = Prefix(active, Cap) /\ Len(Waiting) = Cap
      BY <1>1, <2>1, PrefixType DEF Waiting, IInv
    <2>3. Fetched \in Seq(Number) /\ Flushed \in Seq(Number) /\ Waiting \in Seq(Number)
      BY PartsType DEF IInv
    <2>4. Len(Fetched \o Flushed \o Waiting) = Len(Fetched) + Len(Flushed) + Len(Waiting)
          /\ Len(Fetched) \in Nat /\ Len(Flushed) \in Nat
      BY <2>3, ConcatProperties, LenProperties
    <2> HIDE DEF Fetched, Flushed, Waiting
    <2> QED  BY <2>2, <2>4, QueueParts, CapAssumption
  <1> QED  BY <1>1, <1>2, <1>3 DEF Pipe!Receive

LEMMA SendBufferedPipe ==
    ASSUME IInv, TypeOK', ~raced, ~raced', SendBuffered
    PROVE  Pipe!Receive
  <1>1. /\ Push /\ busy /\ end' = [end EXCEPT ![active] = @ + 1]
        /\ UNCHANGED <<active, job, pc, buf, size>>
    BY DEF SendBuffered, loVars
  <1>2. pc # "reset" /\ pc # "busy" /\ active \in Buffers /\ buf \in Buffers /\ job.buf \in Buffers
    BY <1>1 DEF IInv, QuietInv, InFlush, TypeOK
  <1>3. TypeOK
    BY DEF IInv
  <1>4. /\ SubSeq(mem'[active], 1, end[active] + 1) = Append(Prefix(active, end[active]), next)
        /\ mem'[Other(active)] = mem[Other(active)]
    BY <1>1, <1>3, PushAppends
  <1>5. Fetched' = Fetched
    <2>1. job.phase = "data" => job.buf = Other(active)
      BY <1>2 DEF IInv, InFlightIsKept
    <2> QED  BY <1>1, <1>4, <2>1 DEF Fetched, Prefix
  <1>6. Flushed' = Flushed
    <2>1. pc = "run" => buf = Other(active)
      BY <1>2 DEF IInv, LocalInv, Toggled
    <2> QED  BY <1>1, <1>2, <1>4, <2>1 DEF Flushed, Prefix
  <1>7. Waiting' = Append(Waiting, next)
    <2>1. end'[active'] = end[active] + 1
      BY <1>1, <1>2 DEF IInv, TypeOK
    <2> QED  BY <1>1, <1>2, <1>4, <2>1 DEF Waiting, Prefix
  <1> QED  BY <1>1, <1>3, <1>5, <1>6, <1>7, Joins

\* The event completes what the flush sends off: all of the queue.
LEMMA SendFlushedPipe ==
    ASSUME IInv, TypeOK', ~raced, ~raced', SendFlushed
    PROVE  Pipe!Receive
  <1>1. TypeOK /\ pc \in {"idle", "test"} /\ ~JobBusy
    BY DEF SendFlushed, InWindow, IInv, TypeOK, Places, QuietInv, InFlush
  <1>2. /\ Push /\ Run(active, end[active] + 1) /\ active' = Other(active)
        /\ end' = [end EXCEPT ![active] = @ + 1, ![Other(active)] = 0]
        /\ UNCHANGED <<pc, buf, size>>
    BY <1>1 DEF SendFlushed, loVars
  <1>3. active \in Buffers /\ end[active] + 1 \in 1 .. Cap
        /\ SubSeq(mem'[active], 1, end[active] + 1) = Append(Prefix(active, end[active]), next)
    BY <1>1, <1>2, PushAppends DEF TypeOK
  <1>4. job'.phase = "data" /\ job'.buf = active /\ job'.size = end[active] + 1
    BY <1>2, <1>3, CapAssumption DEF Run
  <1>5. end'[active'] = 0
    BY <1>1, <1>2 DEF TypeOK
  <1>6. Fetched = << >> /\ Flushed = << >> /\ Waiting = Prefix(active, end[active])
    BY <1>1 DEF Fetched, Flushed, Waiting
  <1>7. Fetched' = Append(Waiting, next) /\ Flushed' = << >> /\ Waiting' = << >>
    <2>1. Fetched' = Append(Waiting, next)
      BY <1>3, <1>4, <1>6 DEF Fetched, Prefix
    <2>2. Flushed' = << >>
      BY <1>1, <1>2 DEF Flushed
    <2>3. Waiting' = SubSeq(mem'[active'], 1, 0)
      BY <1>1, <1>2, <1>5 DEF Waiting, Prefix
    <2>4. SubSeq(mem'[active'], 1, 0) = << >>
      BY SubSeqEmpty
    <2> QED  BY <2>1, <2>2, <2>3, <2>4
  <1>8. Queue' = Append(Queue, next)
    <2>1. Waiting \in Seq(Number) /\ next \in Number /\ Append(Waiting, next) \in Seq(Number)
      BY <1>1, PartsType, AppendProperties DEF TypeOK
    <2>2. Queue = << >> \o << >> \o Waiting /\ Queue' = Append(Waiting, next) \o << >> \o << >>
      BY <1>6, <1>7 DEF Queue, Fetched, Flushed, Waiting
    <2>3. << >> \in Seq(Number)
      BY EmptySeq
    <2> HIDE DEF Waiting
    <2> QED  BY <2>1, <2>2, <2>3, ConcatEmptySeq
  <1> QED  BY <1>2, <1>8 DEF Pipe!Receive, Push

\* The host takes the whole packet, which may be empty.
LEMMA HostPollPipe ==
    ASSUME IInv, HostPoll
    PROVE  Pipe!Next \/ UNCHANGED <<Queue, next>>
  <1> DEFINE R == Flushed \o Waiting
  <1>1. /\ UNCHANGED <<mem, end, active, pc, buf, size, next>>
        /\ job' = [job EXCEPT !.phase = IF @ = "data" THEN "dataDone" ELSE "zlpDone"]
        /\ job \in [phase : Phases, buf : Buffers, size : 0 .. Cap]
    BY DEF HostPoll, bufVars, loVars, IInv, TypeOK
  <1>2. Fetched' = << >> /\ Flushed' = Flushed /\ Waiting' = Waiting
    BY <1>1 DEF Fetched, Flushed, Waiting, Prefix
  <1>3. Fetched \in Seq(Number) /\ Flushed \in Seq(Number) /\ Waiting \in Seq(Number)
        /\ << >> \in Seq(Number) /\ R \in Seq(Number)
    BY PartsType, EmptySeq, ConcatProperties DEF IInv
  <1>4. Queue = Fetched \o R /\ Queue' = R
    <2>1. Queue = Fetched \o Flushed \o Waiting /\ Queue' = << >> \o Flushed \o Waiting
      BY <1>2 DEF Queue, Fetched, Flushed, Waiting
    <2> HIDE DEF Fetched, Flushed, Waiting
    <2> QED  BY <1>3, <2>1, ConcatAssociative, ConcatEmptySeq
  <1>5. CASE Fetched = << >>
    <2> HIDE DEF R
    <2> QED  BY <1>1, <1>3, <1>4, <1>5, ConcatEmptySeq
  <1>6. CASE Fetched # << >>
    <2> DEFINE n == Len(Fetched)
    <2>1. job.phase = "data" /\ Fetched = Prefix(job.buf, job.size) /\ n = job.size /\ n \in 1 .. Cap
      <3>1. job.phase = "data" /\ Fetched = Prefix(job.buf, job.size)
        BY <1>6 DEF Fetched
      <3>2. Len(Prefix(job.buf, job.size)) = job.size /\ (job.size = 0 => Fetched = << >>)
        BY <1>1, <3>1, PrefixType DEF IInv
      <3> QED  BY <1>1, <1>6, <3>1, <3>2, CapAssumption
    <2>2. Pipe!Fetch(n)
      <3> HIDE DEF R, Fetched
      <3>1. Len(Queue) = n + Len(R) /\ Len(R) \in Nat /\ n \in Nat /\ Queue \in Seq(Number)
        BY <1>3, <1>4, ConcatProperties, LenProperties
      <3>2. SubSeq(Queue, n + 1, Len(Queue)) = R
        <4>1. CASE R = << >>
          <5>1. n + 1 \in Int /\ Len(Queue) \in Int /\ Len(Queue) < n + 1
            BY <3>1, <4>1
          <5> HIDE DEF n
          <5> QED  BY <4>1, <5>1, SubSeqEmpty
        <4>2. CASE R # << >>
          <5>1. Len(R) # 0
            BY <1>3, <4>2, EmptySeq
          <5>2. n + 1 \in n + 1 .. n + Len(R) /\ n + Len(R) \in n + 1 .. n + Len(R)
            BY <3>1, <5>1
          <5>3. SubSeq(Fetched \o R, n + 1, n + Len(R)) = SubSeq(R, n + 1 - n, n + Len(R) - n)
            BY <1>3, <5>2, SubSeqOfConcat2
          <5>4. n + 1 - n = 1 /\ n + Len(R) - n = Len(R)
            BY <3>1
          <5> HIDE DEF n
          <5> QED  BY <1>3, <1>4, <3>1, <5>3, <5>4, SubSeqFull
        <4> QED  BY <4>1, <4>2
      <3>3. n <= Len(Queue)
        BY <3>1
      <3> QED  BY <1>1, <1>4, <3>2, <3>3 DEF Pipe!Fetch
    <2> HIDE DEF n
    <2> QED  BY <2>1, <2>2 DEF Pipe!Next
  <1> QED  BY <1>5, <1>6

\* The LO flush: the active buffer passes into its hands, then into the transfer.
LEMMA FlushTogglePipe ==
    ASSUME IInv, ~raced, FlushToggle
    PROVE  UNCHANGED <<Queue, next>>
  <1>1. /\ TypeOK /\ active = buf /\ end[buf] = size /\ pc = "toggle" /\ pc' = "reset"
        /\ UNCHANGED <<mem, job, buf, size, next>>
    BY DEF FlushToggle, IInv, LocalInv
  <1>2. Fetched' = Fetched /\ Flushed = << >> /\ Waiting = Prefix(buf, size)
    BY <1>1 DEF Fetched, Flushed, Waiting, Prefix
  <1>3. Flushed' = Prefix(buf, size) /\ Waiting' = << >>
    BY <1>1 DEF Flushed, Waiting, Prefix
  <1>4. Queue = Fetched \o << >> \o Waiting /\ Queue' = Fetched \o Waiting \o << >>
    BY <1>2, <1>3 DEF Queue, Fetched, Flushed, Waiting
  <1>5. Fetched \in Seq(Number) /\ Waiting \in Seq(Number) /\ Fetched \o Waiting \in Seq(Number)
    BY <1>1, PartsType, ConcatProperties
  <1> HIDE DEF Fetched, Waiting
  <1> QED  BY <1>1, <1>4, <1>5, ConcatEmptySeq

LEMMA FlushResetPipe ==
    ASSUME IInv, ~raced, FlushReset
    PROVE  UNCHANGED <<Queue, next>>
  <1>1. /\ TypeOK /\ active = Other(buf) /\ active \in Buffers /\ buf \in Buffers
        /\ pc = "reset" /\ pc' = "busy"
        /\ UNCHANGED <<mem, active, job, buf, size, next>>
    BY DEF FlushReset, IInv, LocalInv, Toggled, TypeOK
  <1>2. end'[active] = 0
    BY <1>1 DEF FlushReset, TypeOK
  <1>3. Fetched' = Fetched /\ Flushed' = Flushed
    BY <1>1 DEF Fetched, Flushed, Prefix
  <1>4. Waiting = << >> /\ Waiting' = SubSeq(mem[active], 1, 0)
    BY <1>1, <1>2 DEF Waiting, Prefix
  <1>5. SubSeq(mem[active], 1, 0) = << >>
    BY SubSeqEmpty
  <1> QED  BY <1>1, <1>3, <1>4, <1>5, SameQueue

LEMMA FlushRunPipe ==
    ASSUME IInv, ~raced, FlushRun
    PROVE  UNCHANGED <<Queue, next>>
  <1>1. /\ TypeOK /\ ~JobBusy /\ pc = "run" /\ pc' = "idle" /\ Run(buf, size)
        /\ UNCHANGED <<mem, end, active, next>> /\ buf \in Buffers /\ size \in 0 .. Cap
    BY DEF FlushRun, IInv, QuietInv, TypeOK, bufVars
  <1>2. Fetched = << >> /\ Flushed = Prefix(buf, size) /\ Waiting' = Waiting /\ Flushed' = << >>
    BY <1>1 DEF Fetched, Flushed, Waiting, Prefix
  <1>3. Fetched' = Flushed
    <2>1. size = 0 => Prefix(buf, size) = << >> /\ job'.phase = "zlp"
      BY <1>1, PrefixType DEF Run
    <2>2. size # 0 => job'.phase = "data" /\ job'.buf = buf /\ job'.size = size
      BY <1>1 DEF Run
    <2> QED  BY <1>1, <1>2, <2>1, <2>2 DEF Fetched, Prefix
  <1>4. Queue = << >> \o Flushed \o Waiting /\ Queue' = Flushed \o << >> \o Waiting
    BY <1>2, <1>3 DEF Queue, Fetched, Flushed, Waiting
  <1>5. Flushed \in Seq(Number)
    BY <1>1, PartsType
  <1> HIDE DEF Flushed, Waiting
  <1> QED  BY <1>1, <1>4, <1>5, ConcatEmptySeq

LEMMA PipeStep ==
    IInv /\ [Next]_vars /\ IInv' /\ ~raced /\ ~raced' => Pipe!Next \/ UNCHANGED <<Queue, next>>
  <1> SUFFICES ASSUME IInv, [Next]_vars, IInv', ~raced, ~raced'
               PROVE  Pipe!Next \/ UNCHANGED <<Queue, next>>
    OBVIOUS
  <1>0. TypeOK'
    BY DEF IInv
  <1> DEFINE Kept == /\ Fetched' = Fetched /\ Flushed' = Flushed /\ Waiting' = Waiting
                     /\ next' = next
  <1>a. Kept => UNCHANGED <<Queue, next>>
    BY SameQueue
  <1> HIDE DEF Kept
  <1>1. CASE SendFull
    BY <1>1, SendFullPipe DEF Pipe!Next
  <1>2. CASE SendBuffered
    BY <1>2, <1>0, SendBufferedPipe DEF Pipe!Next
  <1>3. CASE SendFlushed
    BY <1>3, <1>0, SendFlushedPipe DEF Pipe!Next
  <1>4. CASE HostPoll
    BY <1>4, HostPollPipe
  <1>5. CASE TransContinues
    <2>1. Kept
      BY <1>5 DEF Kept, TransContinues, bufVars, loVars, Fetched, Flushed, Waiting, Prefix
    <2> QED  BY <1>a, <2>1
  <1>6. CASE TransComplete
    <2>1. Kept
      BY <1>6 DEF Kept, TransComplete, bufVars, loVars, Fetched, Flushed, Waiting, Prefix
    <2> QED  BY <1>a, <2>1
  <1>7. CASE SentBusyOff
    <2>1. Kept
      BY <1>7 DEF Kept, SentBusyOff, Fetched, Flushed, Waiting, Prefix
    <2> QED  BY <1>a, <2>1
  <1>8. CASE SentTest
    <2>1. Kept
      BY <1>8 DEF Kept, SentTest, bufVars, Fetched, Flushed, Waiting, Prefix
    <2> QED  BY <1>a, <2>1
  <1>9. CASE FlushBuf
    <2>1. Kept
      BY <1>9 DEF Kept, FlushBuf, bufVars, Fetched, Flushed, Waiting, Prefix
    <2> QED  BY <1>a, <2>1
  <1>10. CASE FlushSize
    <2>1. Kept
      BY <1>10 DEF Kept, FlushSize, bufVars, Fetched, Flushed, Waiting, Prefix
    <2> QED  BY <1>a, <2>1
  <1>11. CASE FlushToggle
    BY <1>11, FlushTogglePipe
  <1>12. CASE FlushReset
    BY <1>12, FlushResetPipe
  <1>13. CASE FlushBusyOn
    <2>1. Kept
      BY <1>13 DEF Kept, FlushBusyOn, Fetched, Flushed, Waiting, Prefix
    <2> QED  BY <1>a, <2>1
  <1>14. CASE FlushRun
    BY <1>14, FlushRunPipe
  <1>15. CASE FlushFailed
    BY <1>15 DEF FlushFailed, IInv, QuietInv
  <1>16. CASE UNCHANGED vars
    <2>1. Kept
      BY <1>16 DEF Kept, vars, bufVars, loVars, Fetched, Flushed, Waiting, Prefix
    <2> QED  BY <1>a, <2>1
  <1> QED
    BY <1>1, <1>2, <1>3, <1>4, <1>5, <1>6, <1>7, <1>8, <1>9, <1>10, <1>11, <1>12, <1>13, <1>14, <1>15, <1>16 DEF Next, Send, Sent

\* Every step delivers as EventPipe promises, unless the two flushes overlapped.
THEOREM Delivered == Spec => DeliveredUnlessRaced
  <1>1. IInv /\ [Next]_vars /\ IInv' => [~raced /\ ~raced' => Pipe!Next \/ UNCHANGED <<Queue, next>>]_vars
    BY PipeStep
  <1> QED  BY Invariance, <1>1, PTL DEF Spec, DeliveredUnlessRaced

LEMMA PipeInit == Init => Pipe!Init
  <1> SUFFICES ASSUME Init PROVE Pipe!Init
    OBVIOUS
  <1>1. Fetched = << >> /\ Flushed = << >> /\ Waiting = Prefix(active, 0)
    BY DEF Init, Fetched, Flushed, Waiting
  <1>2. Waiting = << >>
    BY <1>1, SubSeqEmpty DEF Prefix
  <1>3. << >> \o << >> \o << >> = << >>
    BY EmptySeq, ConcatEmptySeq
  <1> QED  BY <1>1, <1>2, <1>3, QueueParts DEF Init, Pipe!Init

\* A router whose flushes never overlap is an EventPipe.
THEOREM ImplementsPipe == Spec /\ []~raced => Pipe!Spec
  <1>1. IInv /\ [Next]_vars /\ IInv' /\ ~raced /\ ~raced' => [Pipe!Next]_<<Queue, next>>
    BY PipeStep
  <1> QED  BY Invariance, PipeInit, <1>1, PTL DEF Spec, Pipe!Spec

--------------------------------------------------------------------------------
(* UsbIn makes one step of UsbLifecycle of the callback.                        *)

\* What the LO flush is going to take is there, unless HI overlapped.
TakesInv == ~raced /\ pc \in {"buf", "size", "toggle"} => end[active] # 0

LEMMA TakesStep == IInv /\ TakesInv /\ [Next]_vars => TakesInv'
  <1> SUFFICES ASSUME IInv, TakesInv, [Next]_vars PROVE TakesInv'
    OBVIOUS
  <1>1. CASE Send
    <2>1. CASE SendFull
      BY <2>1 DEF SendFull, bufVars, loVars, TakesInv
    <2>2. CASE SendBuffered
      <3>1. ~raced /\ pc \in {"buf", "size", "toggle"} => ~busy
        BY DEF IInv, QuietInv, InFlush
      <3> QED  BY <2>2, <3>1 DEF SendBuffered, loVars, TakesInv
    <2>3. CASE SendFlushed
      BY <2>3 DEF SendFlushed, loVars, InWindow, TakesInv
    <2> QED  BY <1>1, <2>1, <2>2, <2>3 DEF Send
  <1>2. CASE HostPoll \/ TransContinues \/ TransComplete \/ UNCHANGED vars
    BY <1>2 DEF HostPoll, TransContinues, TransComplete, vars, bufVars, loVars, TakesInv
  <1>3. CASE Sent
    BY <1>3 DEF Sent, SentBusyOff, SentTest, FlushBuf, FlushSize, FlushToggle, FlushReset,
                FlushBusyOn, FlushRun, FlushFailed, bufVars, TakesInv
  <1> QED  BY <1>1, <1>2, <1>3 DEF Next

LEMMA InField ==
    ASSUME NEW x, NEW y
    PROVE  In(x, y)["IN"] = x
  BY DEF In

LEMMA InChanged ==
    ASSUME NEW x, NEW y, NEW z
    PROVE  In(z, y) = [In(x, y) EXCEPT !["IN"] = z]
  BY DEF In

\* What is told of the endpoint is true or false.
LEMMA ToldType ==
    ASSUME TypeOK
    PROVE  /\ HasJob \in BOOLEAN /\ Due \in BOOLEAN /\ Closed \in BOOLEAN /\ Sending \in BOOLEAN
           /\ Queued \in 0 .. Cap
  <1>1. busy \in BOOLEAN /\ Queued \in 0 .. Cap
    BY CapAssumption DEF TypeOK, Queued
  <1> QED  BY <1>1 DEF HasJob, Due, Closed, Sending, Returning, Over, Taking

LEMMA ToldTypeAfter ==
    HasJob' \in BOOLEAN /\ Due' \in BOOLEAN /\ Closed' \in BOOLEAN /\ Sending' \in BOOLEAN
  BY DEF HasJob, Due, Closed, Sending, Returning, Over, Taking

LEMMA TruthValue ==
    ASSUME NEW b \in BOOLEAN, NEW c \in BOOLEAN, b <=> c
    PROVE  b = c
  OBVIOUS

\* An event that waits for the transfer under way.
LEMMA LifeBuffers ==
    ASSUME TypeOK, Sending, Queued < Cap, Queued' = Queued + 1,
           UNCHANGED <<Sending, HasJob, Closed, Due>>
    PROVE  Life!RxEvent
  BY DEF Life!RxEvent, Life!busVars, Life!outVars, Life!midiVars, In

\* An event that starts one.
LEMMA LifeSends ==
    ASSUME TypeOK, ~Sending, ~HasJob, ~Due, Queued < Cap,
           Queued' = 0, Sending', HasJob', ~Closed', ~Due'
    PROVE  Life!RxEvent
  <1>1. /\ Sending = FALSE /\ HasJob = FALSE /\ Due = FALSE /\ Closed = TRUE
        /\ Sending' = TRUE /\ HasJob' = TRUE /\ Due' = FALSE /\ Closed' = FALSE
    BY ToldType DEF Closed
  <1> QED
    BY <1>1, InField
    DEF Life!RxEvent, Life!Starts, Life!Job, Life!busVars, Life!outVars, Life!midiVars, In

\* The callback: what waits is sent.
LEMMA LifeCompletes ==
    ASSUME TypeOK, Due, HasJob, Queued' = 0, ~Due',
           IF Queued # 0 THEN Sending' /\ HasJob' /\ ~Closed' ELSE ~Sending' /\ ~HasJob' /\ Closed'
    PROVE  Life!InComplete
  <1> DEFINE busy0  == FALSE
             again  == Queued # 0 /\ Life!Starts("IN", busy0)
             nak    == In(Closed, OutClosed)["IN"]
             job1   == again \/ busy0
             closed == nak /\ ~again
             bytes  == IF Closed THEN 1 ELSE 0
             rest   == IF again THEN 0 ELSE In(bytes, 0)["IN"]
  <1>1. busy0 \in BOOLEAN /\ ~busy0
    OBVIOUS
  <1> HIDE DEF busy0
  <1>2. again \in BOOLEAN /\ (again <=> Queued # 0)
    BY <1>1, InField DEF Life!Starts
  <1>3. nak /\ In(HasJob, OutJob)["IN"] /\ In(Due, OutDue)["IN"]
    BY InField DEF Closed
  <1> HIDE DEF again, nak
  <1>4. job1 \in BOOLEAN /\ closed \in BOOLEAN
    OBVIOUS
  <1>5. (Due' <=> busy0) /\ (Sending' <=> again) /\ (HasJob' <=> job1) /\ (Closed' <=> closed)
    BY <1>1, <1>2, <1>3
  <1>6. bytes = 1 /\ bytes' = (IF again THEN 0 ELSE 1)
    BY <1>2 DEF Closed
  <1> HIDE DEF job1, closed, bytes
  <1>7. In(bytes, 0)["IN"] = 1
    BY <1>6, InField
  <1>8. bytes' = rest
    BY <1>6, <1>7
  <1> HIDE DEF rest
  <1>9. Sending' = again
    BY <1>2, <1>5, ToldTypeAfter, TruthValue
  <1>10. In(HasJob, OutJob)' = [In(HasJob, OutJob) EXCEPT !["IN"] = job1]
    <2>1. HasJob' = job1
      BY <1>4, <1>5, ToldTypeAfter, TruthValue
    <2> QED  BY <2>1, Zenon DEF In, OutJob
  <1>11. In(Closed, OutClosed)' = [In(Closed, OutClosed) EXCEPT !["IN"] = closed]
    <2>1. Closed' = closed
      BY <1>4, <1>5, ToldTypeAfter, TruthValue
    <2> QED  BY <2>1, Zenon DEF In, OutClosed
  <1>12. In(Due, OutDue)' = [In(Due, OutDue) EXCEPT !["IN"] = busy0]
    <2>1. Due' = busy0
      BY <1>1, <1>5, ToldTypeAfter, TruthValue
    <2> QED  BY <2>1, Zenon DEF In, OutDue
  <1>13. In(bytes, 0)' = [In(bytes, 0) EXCEPT !["IN"] = rest]
    <2>1. In(bytes, 0)' = In(rest, 0)
      BY <1>8 DEF In
    <2> QED  BY <2>1, InChanged
  <1>14. Life!Job("IN", again, busy0, nak)
    BY <1>10, <1>11, <1>13 DEF Life!Job, job1, closed, bytes, rest
  <1>15. Life!Sent(nak)
    BY <1>9, <1>14 DEF Life!Sent, again, busy0
  <1>16. /\ UNCHANGED <<In("on", "on"), Life!busVars, Life!outVars, Life!midiVars, "none">>
         /\ UNCHANGED << << >>, {} >>
    BY DEF In, Life!busVars, Life!outVars, Life!midiVars
  <1>17. In(bytes, 0)["IN"] # 0
    BY <1>7
  <1>18. In(Due, OutDue)' = [In(Due, OutDue) EXCEPT !["IN"] = FALSE]
    BY <1>12, Zenon DEF busy0
  <1>19. IF In(bytes, 0)["IN"] = 0
         THEN /\ In(Closed, OutClosed)' = [In(Closed, OutClosed) EXCEPT !["IN"] = FALSE]
              /\ UNCHANGED <<In(HasJob, OutJob), In(bytes, 0), Life!inVars>>
         ELSE IF In(HasJob, OutJob)["IN"] THEN Life!Sent(nak)
              ELSE UNCHANGED <<In(HasJob, OutJob), In(Closed, OutClosed), In(bytes, 0), Life!inVars>>
    BY <1>3, <1>15, <1>17, Zenon
  <1> QED
    BY <1>3, <1>16, <1>18, <1>19, Zenon DEF Life!InComplete, bytes, nak

\* The host takes the packet.
LEMMA LifeHosts ==
    ASSUME TypeOK, ~Closed, Due', Closed', UNCHANGED <<Sending, HasJob, Queued>>
    PROVE  Life!Host("IN", 1)
  <1> DEFINE taken == TRUE
             bytes == IF Closed THEN 1 ELSE 0
  <1>1. taken \in BOOLEAN /\ taken /\ (Due' <=> taken) /\ (Closed' <=> taken) /\ bytes' = 1
    OBVIOUS
  <1> HIDE DEF taken, bytes
  <1>2. Due' = taken /\ Closed' = taken
    BY <1>1, ToldTypeAfter, TruthValue
  <1>3. In(Closed, OutClosed)' = [In(Closed, OutClosed) EXCEPT !["IN"] = taken]
    BY <1>2, Zenon DEF In, OutClosed
  <1>4. In(Due, OutDue)' = [In(Due, OutDue) EXCEPT !["IN"] = taken]
    BY <1>2, Zenon DEF In, OutDue
  <1>5. In(bytes, 0)' = [In(bytes, 0) EXCEPT !["IN"] = 1]
    <2>1. In(bytes, 0)' = In(1, 0)
      BY <1>1 DEF In
    <2> QED  BY <2>1, InChanged
  <1>6. ~In(Closed, OutClosed)["IN"]
    BY InField
  <1>7. In("on", "on")["IN"] = "on" /\ UNCHANGED <<In("on", "on"), In(HasJob, OutJob)>>
    BY DEF In, OutJob
  <1>8. Life!Open("IN")
    BY <1>6, <1>7 DEF Life!Open
  <1> QED
    BY <1>3, <1>4, <1>5, <1>7, <1>8
    DEF Life!Host, Life!busVars, Life!outVars, Life!inVars, Life!midiVars, taken, bytes

LEMMA LifeStays ==
    ASSUME UNCHANGED <<Sending, HasJob, Closed, Due, Queued>>
    PROVE  UNCHANGED Life!vars
  BY DEF Life!vars, Life!epVars, Life!busVars, Life!outVars, Life!inVars, Life!midiVars, In

\* What the invariant says of the places, without an overlap.
LEMMA UnracedPlaces ==
    ASSUME IInv, TakesInv, ~raced
    PROVE  /\ pc # "fail"
           /\ pc \in {"sent", "buf", "size", "toggle", "reset", "busy", "run"} => ~JobBusy
           /\ pc \in {"buf", "size", "toggle", "reset", "busy"} => ~busy
           /\ pc = "run" => busy
           /\ pc \in {"idle", "test"} => (busy <=> JobBusy)
           /\ pc \in {"idle"} /\ ~JobBusy => end[active] = 0
           /\ pc \in {"buf", "size", "toggle"} => end[active] # 0
           /\ pc \in {"reset", "busy", "run"} => active = 1 - buf
           /\ pc \in Places /\ active \in {0, 1} /\ end \in [{0, 1} -> 0 .. Cap]
  <1>1. /\ pc # "fail"
        /\ pc \in {"sent", "buf", "size", "toggle", "reset", "busy", "run"} => ~JobBusy
        /\ pc \in {"buf", "size", "toggle", "reset", "busy"} => ~busy
        /\ pc = "run" => busy
    BY DEF IInv, QuietInv, InFlush
  <1>2. pc \in {"idle", "test"} /\ JobBusy => busy
    BY DEF IInv, QuietInv
  <1>3. pc \in {"idle", "test"} /\ ~JobBusy => ~busy
    BY DEF IInv, PlaceInv, NothingStranded
  <1>4. pc \in {"idle"} /\ ~JobBusy => end[active] = 0
    BY DEF IInv, NothingStranded
  <1>5. pc \in {"buf", "size", "toggle"} => end[active] # 0
    BY DEF TakesInv
  <1>6. pc \in {"reset", "busy", "run"} => active = 1 - buf
    BY DEF IInv, LocalInv, Toggled, Other
  <1>7. pc \in Places /\ active \in {0, 1} /\ end \in [{0, 1} -> 0 .. Cap]
    BY DEF IInv, TypeOK, Buffers
  <1> QED  BY <1>1, <1>2, <1>3, <1>4, <1>5, <1>6, <1>7

\* A flush of HI on a free endpoint opens it to the host.
LEMMA RunPhase ==
    ASSUME TypeOK, SendFlushed, ~JobBusy
    PROVE  job'.phase \in {"data", "zlp"} /\ busy'
  <1>1. Run(active, end[active] + 1) /\ busy'
    BY DEF SendFlushed
  <1> QED  BY <1>1 DEF Run

LEMMA SendLife ==
    ASSUME IInv, TakesInv, ~raced, ~raced', Send
    PROVE  Life!RxEvent \/ Life!InComplete \/ UNCHANGED Life!vars
  <1>0. TypeOK
    BY DEF IInv
  <1>1. CASE SendFull
    <2>1. UNCHANGED <<Sending, HasJob, Closed, Due, Queued>>
      BY <1>1 DEF SendFull, bufVars, loVars, Sending, HasJob, Closed, Due, Queued, Returning,
                  Over, Taking
    <2> QED  BY <2>1, LifeStays
  <1>2. CASE SendBuffered
    <2>1. /\ busy /\ end[active] < Cap /\ end' = [end EXCEPT ![active] = @ + 1]
          /\ UNCHANGED <<active, busy, job, pc>>
      BY <1>2 DEF SendBuffered, Push, loVars
    <2>2. /\ pc \in {"idle", "test", "sent", "run"} /\ (pc \in {"idle", "test"} => JobBusy)
          /\ active \in {0, 1} /\ end \in [{0, 1} -> 0 .. Cap]
      BY <2>1, UnracedPlaces DEF Places
    <2>3. Queued < Cap /\ Queued' = Queued + 1
      BY <2>1, <2>2 DEF Queued
    <2>4. (Returning' <=> Returning) /\ (Over' <=> Over) /\ (JobBusy' <=> JobBusy)
      BY <2>1, <2>2 DEF Returning, Over
    <2>5. Sending /\ UNCHANGED <<Sending, HasJob, Closed, Due>>
      BY <2>1, <2>4 DEF Sending, HasJob, Closed, Due, Taking
    <2> QED  BY <1>0, <2>3, <2>5, LifeBuffers
  <1>3. CASE SendFlushed
    <2>1. /\ ~busy /\ end[active] < Cap
          /\ end' = [end EXCEPT ![active] = @ + 1, ![Other(active)] = 0]
          /\ active' = Other(active) /\ UNCHANGED <<pc, buf, size>>
      BY <1>3 DEF SendFlushed, Push, loVars
    <2>2. /\ pc \in {"idle", "test"} /\ ~JobBusy
          /\ active \in {0, 1} /\ end \in [{0, 1} -> 0 .. Cap]
      BY <1>3, <2>1, UnracedPlaces DEF Places, SendFlushed, InWindow
    <2>3. job'.phase \in {"data", "zlp"} /\ busy'
      BY <1>0, <1>3, <2>2, RunPhase
    <2>4. Queued' = 0
      BY <2>1, <2>2 DEF Queued
    <2>5. Sending' /\ HasJob' /\ ~Closed' /\ ~Due'
      BY <2>1, <2>2, <2>3 DEF Sending, HasJob, Closed, Due, Returning, Over, Taking
    <2>6. CASE Returning
      <3>1. Due /\ HasJob /\ Queued # 0
        BY <2>2, <2>6 DEF Due, HasJob, Queued, Returning
      <3> QED  BY <1>0, <2>4, <2>5, <3>1, LifeCompletes
    <2>7. CASE ~Returning
      <3>1. ~Sending /\ ~HasJob /\ ~Due /\ Queued < Cap
        BY <2>1, <2>2, <2>7 DEF Sending, HasJob, Due, Over, Taking, Queued
      <3> QED  BY <1>0, <2>4, <2>5, <3>1, LifeSends
    <2> QED  BY <2>6, <2>7
  <1> QED  BY <1>1, <1>2, <1>3 DEF Send

LEMMA EndpointLife ==
    ASSUME IInv, TakesInv, ~raced, ~raced', HostPoll \/ TransContinues \/ TransComplete
    PROVE  Life!Host("IN", 1) \/ UNCHANGED Life!vars
  <1>0. TypeOK /\ job \in [phase : Phases, buf : Buffers, size : 0 .. Cap]
    BY DEF IInv, TypeOK
  <1>1. CASE HostPoll
    <2>1. /\ job.phase \in {"data", "zlp"} /\ UNCHANGED <<end, active, busy, pc>>
          /\ job'.phase = (IF job.phase = "data" THEN "dataDone" ELSE "zlpDone")
          /\ job'.size = job.size
      BY <1>0, <1>1 DEF HostPoll, bufVars, loVars
    <2>2. pc \in {"idle", "test"}
      BY <2>1, UnracedPlaces DEF Places
    <2>3. UNCHANGED <<Sending, HasJob, Queued>> /\ ~Closed /\ ~Returning /\ ~Returning'
      BY <2>1, <2>2 DEF Sending, HasJob, Queued, Closed, Due, Returning, Over, Taking
    <2>4. CASE Over'
      <3>1. Due' /\ Closed'
        BY <2>4 DEF Due, Closed
      <3> QED  BY <1>0, <2>3, <3>1, LifeHosts
    <2>5. CASE ~Over'
      <3>1. UNCHANGED <<Closed, Due>>
        BY <2>1, <2>3, <2>5 DEF Closed, Due, Over
      <3> QED  BY <2>3, <3>1, LifeStays
    <2> QED  BY <2>4, <2>5
  <1>2. CASE TransContinues
    <2>1. /\ pc = "idle" /\ job.phase = "dataDone" /\ job.size = Cap /\ job'.phase = "zlp"
          /\ UNCHANGED <<end, active, busy, pc>>
      BY <1>0, <1>2 DEF TransContinues, bufVars, loVars
    <2>2. UNCHANGED <<Sending, HasJob, Closed, Due, Queued>>
      BY <2>1, CapAssumption DEF Sending, HasJob, Queued, Closed, Due, Returning, Over, Taking
    <2> QED  BY <2>2, LifeStays
  <1>3. CASE TransComplete
    <2>1. /\ pc = "idle" /\ pc' = "sent" /\ Over /\ JobBusy /\ ~JobBusy' /\ job'.phase = "none"
          /\ UNCHANGED <<end, active, busy>>
      BY <1>0, <1>3 DEF TransComplete, bufVars, Over
    <2>2. busy
      BY <2>1, UnracedPlaces
    <2>3. UNCHANGED <<Sending, HasJob, Closed, Due, Queued>>
      BY <2>1, <2>2 DEF Sending, HasJob, Queued, Closed, Due, Returning, Taking
    <2> QED  BY <2>3, LifeStays
  <1> QED  BY <1>1, <1>2, <1>3

LEMMA SentLife ==
    ASSUME IInv, TakesInv, ~raced, ~raced', Sent
    PROVE  Life!InComplete \/ UNCHANGED Life!vars
  <1>0. TypeOK
    BY DEF IInv
  <1>1. CASE SentBusyOff
    <2>1. /\ pc = "sent" /\ pc' = "test" /\ ~busy' /\ ~JobBusy /\ job.phase = "none"
          /\ UNCHANGED <<end, active, job>>
      BY <1>1, UnracedPlaces DEF SentBusyOff
    <2>2. CASE end[active] = 0
      <3>1. Due /\ HasJob /\ Queued = 0 /\ Queued' = 0
        BY <2>1, <2>2 DEF Due, HasJob, Returning, Queued
      <3>2. ~Sending' /\ ~HasJob' /\ ~Due' /\ Closed'
        BY <2>1, <2>2 DEF Sending, HasJob, Due, Closed, Returning, Over, Taking
      <3> QED  BY <1>0, <3>1, <3>2, LifeCompletes
    <2>3. CASE end[active] # 0
      <3>1. UNCHANGED <<Sending, HasJob, Closed, Due, Queued>>
        BY <2>1, <2>3 DEF Sending, HasJob, Queued, Closed, Due, Returning, Taking
      <3> QED  BY <3>1, LifeStays
    <2> QED  BY <2>2, <2>3
  <1>2. CASE SentTest
    <2>1. /\ pc = "test" /\ pc' = (IF end[active] # 0 THEN "buf" ELSE "idle")
          /\ (end[active] # 0 => ~JobBusy) /\ UNCHANGED <<end, active, busy, job>>
      BY <1>2 DEF SentTest, bufVars
    <2>2. UNCHANGED <<Sending, HasJob, Closed, Due, Queued>>
      BY <2>1 DEF Sending, HasJob, Queued, Closed, Due, Returning, Over, Taking
    <2> QED  BY <2>2, LifeStays
  <1>3. CASE FlushBuf \/ FlushSize
    <2>1. /\ \/ pc = "buf" /\ pc' = "size"
             \/ pc = "size" /\ pc' = "toggle"
          /\ UNCHANGED <<end, active, busy, job>>
      BY <1>3 DEF FlushBuf, FlushSize, bufVars
    <2>2. UNCHANGED <<Sending, HasJob, Closed, Due, Queued>>
      BY <2>1 DEF Sending, HasJob, Queued, Closed, Due, Returning, Over, Taking
    <2> QED  BY <2>2, LifeStays
  <1>4. CASE FlushToggle
    <2>1. /\ pc = "toggle" /\ pc' = "reset" /\ ~JobBusy /\ job.phase = "none"
          /\ end[active] # 0 /\ UNCHANGED <<end, busy, job>>
      BY <1>4, UnracedPlaces DEF FlushToggle
    <2>2. Due /\ HasJob /\ Queued # 0 /\ Queued' = 0
      BY <2>1 DEF Due, HasJob, Returning, Queued
    <2>3. Sending' /\ HasJob' /\ ~Due' /\ ~Closed'
      BY <2>1 DEF Sending, HasJob, Due, Closed, Returning, Over, Taking
    <2> QED  BY <1>0, <2>2, <2>3, LifeCompletes
  <1>5. CASE FlushReset
    <2>1. /\ pc = "reset" /\ pc' = "busy" /\ active = 1 - buf /\ active \in {0, 1}
          /\ end \in [{0, 1} -> 0 .. Cap] /\ UNCHANGED <<active, busy, job>>
      BY <1>5, UnracedPlaces DEF FlushReset
    <2>2. end'[active] = 0
      <3>1. PICK b \in {active, Other(buf)} : end' = [end EXCEPT ![b] = 0]
        BY <1>5 DEF FlushReset
      <3>2. b = active
        BY <2>1
      <3> QED  BY <2>1, <3>1, <3>2
    <2>3. UNCHANGED <<Sending, HasJob, Closed, Due, Queued>>
      BY <2>1, <2>2 DEF Sending, HasJob, Queued, Closed, Due, Returning, Over, Taking
    <2> QED  BY <2>3, LifeStays
  <1>6. CASE FlushBusyOn
    <2>1. pc = "busy" /\ pc' = "run" /\ UNCHANGED <<end, active, job>>
      BY <1>6 DEF FlushBusyOn
    <2>2. UNCHANGED <<Sending, HasJob, Closed, Due, Queued>>
      BY <2>1 DEF Sending, HasJob, Queued, Closed, Due, Returning, Over, Taking
    <2> QED  BY <2>2, LifeStays
  <1>7. CASE FlushRun
    <2>1. /\ pc = "run" /\ busy /\ ~JobBusy
      BY <1>7, UnracedPlaces DEF FlushRun
    <2>2. pc' = "idle" /\ Run(buf, size) /\ UNCHANGED <<end, active, busy>>
      BY <1>7, <2>1 DEF FlushRun, bufVars
    <2>3. job'.phase \in {"data", "zlp"} /\ job.phase = "none"
      BY <2>1, <2>2 DEF Run
    <2>4. UNCHANGED <<Sending, HasJob, Closed, Due, Queued>>
      BY <2>1, <2>2, <2>3 DEF Sending, HasJob, Queued, Closed, Due, Returning, Over, Taking
    <2> QED  BY <2>4, LifeStays
  <1>8. CASE FlushFailed
    BY <1>8, UnracedPlaces DEF FlushFailed
  <1> QED  BY <1>1, <1>2, <1>3, <1>4, <1>5, <1>6, <1>7, <1>8 DEF Sent

\* From the callback's first step to its last the receive interrupts may come, but the
\* callback is seen to happen at one of its steps: UsbLifecycle, which makes one action of
\* it, leaves out no order of usb_midi_send, usb_midi_sent and the host, unless the
\* flushes overlapped.
THEOREM CallbackAtOnce == Spec => SentIsOneStep
  <1>1. Init => TakesInv
    BY DEF Init, TakesInv
  <1>2. IInv /\ TakesInv /\ [Next]_vars =>
            [~raced /\ ~raced' => \/ Life!RxEvent \/ Life!InComplete \/ Life!Host("IN", 1)
                                  \/ UNCHANGED Life!vars]_vars
    <2> SUFFICES ASSUME IInv, TakesInv, Next, ~raced, ~raced'
                 PROVE  \/ Life!RxEvent \/ Life!InComplete \/ Life!Host("IN", 1)
                        \/ UNCHANGED Life!vars
      OBVIOUS
    <2> QED  BY SendLife, EndpointLife, SentLife DEF Next
  <1>3. Spec => []TakesInv
    BY <1>1, TakesStep, Invariance, PTL DEF Spec
  <1> QED  BY <1>2, <1>3, Invariance, PTL DEF Spec, SentIsOneStep

--------------------------------------------------------------------------------
(* MidiParser.                                                                  *)

\* A command as midi_process_byte2 leaves it: not complete; it starts with a status or
\* goes on with an exclusive; and no end of exclusive is left inside an exclusive.
Whole(c) ==
    /\ c \in Commands
    /\ c.size_ < MaxSize
    /\ \A i \in 1 .. c.size_ : c.cmd_[i] # Zero
    /\ c.size_ > 0 => c.cmd_[1] \in (Status \ {"eox"}) \cup Data
    /\ c.size_ > 0 => (c.sys_ex_ <=> c.cmd_[1] \in Data)
    /\ sys_ex(c) => \A i \in 1 .. c.size_ : c.cmd_[i] # "eox"

\* The inductive invariant: InStep says nothing of what the array holds, which decides
\* whether the next byte completes the command.
ParserInv == ParserTypeOK /\ Whole(cmd) /\ InStep

USE DEF MaxSize, Endless

LEMMA Kinds ==
    /\ Status = {"note", "prog", "mtc", "songpp", "tune", "undef", "sysex", "eox"}
    /\ Channel \subseteq Status
    /\ \A b \in Data : ~is_midi_cmd(b) /\ b # Zero /\ b # "eox" /\ b # "sysex" /\ b \notin Status
    /\ \A b \in Status : is_midi_cmd(b) /\ b # Zero /\ b \notin Data
  BY DataAssumption DEF Status, Channel, Common, RealTime, Zero, is_midi_cmd

\* A status byte other than the end of exclusive starts a command, and only the tune
\* request is complete by itself.
LEMMA FreshStatus ==
    ASSUME NEW c, Whole(c), NEW b \in Status \ {"eox"}
    PROVE  /\ Taken(c, b) \in Commands
           /\ Taken(c, b).size_ = 1 /\ Taken(c, b).cmd_[1] = b /\ ~Taken(c, b).sys_ex_
           /\ ready(Taken(c, b)) <=> b = "tune"
           /\ Whole(Assembled(c, b))
           /\ sys_ex(Assembled(c, b)) <=> b = "sysex"
           /\ Assembled(c, b).size_ = IF b = "tune" THEN 0 ELSE 1
           /\ b # "tune" => Assembled(c, b).cmd_[1] = b
  <1> DEFINE t == Taken(c, b)
             r == reset(c)
  <1>1. r.cmd_ = c.cmd_ /\ c.cmd_ \in [1 .. 3 -> Data \cup Status \cup RealTime \cup {Zero}]
    BY DEF reset, Whole, Commands
  <1>2. is_midi_cmd(b) /\ b # Zero /\ b \notin Data /\ b # "eox" /\ b \in Status
    BY Kinds
  <1>3. t = [cmd_ |-> [c.cmd_ EXCEPT ![1] = b], size_ |-> 1, sys_ex_ |-> FALSE]
    BY <1>1, <1>2 DEF Taken, read
  <1>4. t \in Commands /\ t.cmd_[1] = b
    BY <1>1, <1>2, <1>3 DEF Commands
  <1>5. ready(t) <=> b = "tune"
    BY <1>2, <1>3, <1>4, Kinds DEF ready, cmd_size
  <1>6. CASE b = "tune"
    <2>1. Assembled(c, b) = reset(t)
      BY <1>5, <1>6 DEF Assembled
    <2>2. reset(t) = [cmd_ |-> t.cmd_, size_ |-> 0, sys_ex_ |-> FALSE]
      <3>1. t.size_ = 1 /\ t.cmd_[1] = "tune" /\ t.sys_ex_ = FALSE
        BY <1>3, <1>4, <1>6
      <3> HIDE DEF t
      <3> QED  BY <3>1 DEF reset
    <2> QED  BY <2>1, <2>2, <1>3, <1>4, <1>5, <1>6 DEF Whole, sys_ex, Commands
  <1>7. CASE b # "tune"
    <2>1. Assembled(c, b) = t
      BY <1>5, <1>7 DEF Assembled
    <2>2. Whole(t)
      BY <1>2, <1>3, <1>4 DEF Whole, sys_ex
    <2> QED  BY <2>1, <2>2, <1>3, <1>4, <1>5, <1>7 DEF sys_ex
  <1> QED  BY <1>6, <1>7, <1>3, <1>4, <1>5

\* What a byte that starts no command does to a command that takes it.
LEMMA Appended ==
    ASSUME NEW c, Whole(c), c.size_ > 0 \/ c.sys_ex_,
           NEW b \in Data \cup {"eox"}, b = "eox" => c.size_ > 0
    PROVE  /\ Taken(c, b) = [cmd_ |-> [c.cmd_ EXCEPT ![c.size_ + 1] = b],
                            size_ |-> c.size_ + 1, sys_ex_ |-> c.sys_ex_]
           /\ Taken(c, b) \in Commands
           /\ Taken(c, b).cmd_[c.size_ + 1] = b
           /\ \A i \in 1 .. c.size_ : Taken(c, b).cmd_[i] = c.cmd_[i]
           /\ b # Zero
  <1>1. c.cmd_ \in [1 .. 3 -> Data \cup Status \cup RealTime \cup {Zero}] /\ c.size_ \in 0 .. 2
        /\ c.sys_ex_ \in BOOLEAN
    BY DEF Whole, Commands
  <1>2. (is_midi_cmd(b) => b = "eox") /\ b # Zero /\ b \in Data \cup Status
    BY Kinds
  <1>3. Taken(c, b) = [cmd_ |-> [c.cmd_ EXCEPT ![c.size_ + 1] = b],
                       size_ |-> c.size_ + 1, sys_ex_ |-> c.sys_ex_]
    BY <1>1, <1>2 DEF Taken, Cut, read
  <1> QED  BY <1>1, <1>2, <1>3 DEF Commands

\* A data byte keeps an exclusive open, whether or not it completes a chunk.
LEMMA DataInExclusive ==
    ASSUME NEW c, Whole(c), sys_ex(c), NEW b \in Data
    PROVE  Whole(Assembled(c, b)) /\ sys_ex(Assembled(c, b))
  <1> DEFINE t == Taken(c, b)
  <1>1. c.size_ \in 0 .. 2 /\ c.sys_ex_ \in BOOLEAN /\ b # "eox" /\ ~is_midi_cmd(b) /\ b # "sysex"
    BY Kinds DEF Whole, Commands
  <1>2. /\ t = [cmd_ |-> [c.cmd_ EXCEPT ![c.size_ + 1] = b], size_ |-> c.size_ + 1,
               sys_ex_ |-> c.sys_ex_]
        /\ t \in Commands
        /\ t.cmd_[c.size_ + 1] = b
        /\ \A i \in 1 .. c.size_ : t.cmd_[i] = c.cmd_[i]
        /\ b # Zero
    BY <1>1, Appended DEF sys_ex
  <1>3. c.size_ > 0 => c.cmd_[1] \in Data \cup {"sysex"}
    BY DEF Whole, sys_ex
  <1>4. t.cmd_[1] \in Data \cup {"sysex"} /\ (t.sys_ex_ <=> t.cmd_[1] \in Data)
    BY <1>1, <1>2, <1>3 DEF Whole, sys_ex
  <1>5. is_midi_cmd(t.cmd_[1]) => t.cmd_[1] = "sysex"
    BY <1>4, Kinds
  <1>6. ready(t) <=> c.size_ = 2
    BY <1>1, <1>2, <1>5 DEF ready
  <1>7. CASE c.size_ = 2
    <2>1. Assembled(c, b) = reset(t)
      BY <1>6, <1>7 DEF Assembled
    <2>2. reset(t) = [cmd_ |-> t.cmd_, size_ |-> 0, sys_ex_ |-> TRUE]
      <3>1. t.size_ = 3 /\ t.cmd_[3] # "eox"
        BY <1>1, <1>2, <1>7
      <3>2. t.cmd_[1] = "sysex" \/ t.sys_ex_ = TRUE
        BY <1>1, <1>2, <1>4
      <3> HIDE DEF t
      <3> QED  BY <3>1, <3>2 DEF reset
    <2> QED  BY <2>1, <2>2, <1>2 DEF Whole, sys_ex, Commands
  <1>8. CASE c.size_ # 2
    <2>1. Assembled(c, b) = t
      BY <1>6, <1>8 DEF Assembled
    <2>2. t.size_ < 3 /\ t.size_ = c.size_ + 1
      BY <1>1, <1>2, <1>8
    <2>3. \A i \in 1 .. t.size_ : t.cmd_[i] # Zero /\ t.cmd_[i] # "eox"
      BY <1>1, <1>2, <2>2 DEF Whole
    <2> QED  BY <2>1, <2>2, <2>3, <1>1, <1>2, <1>4 DEF Whole, sys_ex
  <1> QED  BY <1>7, <1>8

\* A data byte that another message still takes completes it or is one less to wait for.
LEMMA DataInMessage ==
    ASSUME NEW c, Whole(c), ~sys_ex(c), c.size_ > 0, NEW b \in Data,
           \A i \in 2 .. c.size_ : c.cmd_[i] # "eox",
           remaining(c.cmd_[1], c.size_) # 0
    PROVE  /\ Whole(Assembled(c, b)) /\ ~sys_ex(Assembled(c, b))
           /\ \/ /\ Assembled(c, b).size_ = 0
                 /\ remaining(c.cmd_[1], c.size_) = 1
              \/ /\ Assembled(c, b).size_ = c.size_ + 1
                 /\ Assembled(c, b).cmd_[1] = c.cmd_[1]
                 /\ \A i \in 2 .. c.size_ + 1 : Assembled(c, b).cmd_[i] # "eox"
                 /\ remaining(c.cmd_[1], c.size_ + 1) = remaining(c.cmd_[1], c.size_) - 1
           /\ remaining(c.cmd_[1], c.size_) \in {1, 2}
  <1> DEFINE t == Taken(c, b)
             k == c.cmd_[1]
  <1>1. /\ c.size_ \in 1 .. 2 /\ c.sys_ex_ = FALSE /\ b # "eox" /\ b # Zero
        /\ k \in Status \ {"eox", "sysex"}
    BY Kinds DEF Whole, Commands, sys_ex
  <1>2. /\ t = [cmd_ |-> [c.cmd_ EXCEPT ![c.size_ + 1] = b], size_ |-> c.size_ + 1,
               sys_ex_ |-> c.sys_ex_]
        /\ t \in Commands
        /\ t.cmd_[c.size_ + 1] = b
        /\ \A i \in 1 .. c.size_ : t.cmd_[i] = c.cmd_[i]
    BY <1>1, Appended
  <1>3. t.size_ = c.size_ + 1 /\ t.cmd_[1] = k /\ t.sys_ex_ = FALSE /\ is_midi_cmd(k) /\ k \notin Data
    BY <1>1, <1>2, Kinds
  <1>4. cmd_size(k) \in {2, 3} /\ c.size_ < cmd_size(k)
        /\ remaining(k, c.size_) = cmd_size(k) - c.size_
    BY <1>1, Kinds DEF remaining, cmd_size
  <1>5. ready(t) <=> c.size_ + 1 = cmd_size(k)
    BY <1>1, <1>3, <1>4 DEF ready
  <1>6. CASE ready(t)
    <2>1. Assembled(c, b) = reset(t)
      BY <1>6 DEF Assembled
    <2>2. reset(t) = [cmd_ |-> t.cmd_, size_ |-> 0, sys_ex_ |-> FALSE]
      BY <1>1, <1>2, <1>3 DEF reset
    <2>3. remaining(k, c.size_) = 1
      BY <1>1, <1>4, <1>5, <1>6
    <2> QED  BY <2>1, <2>2, <2>3, <1>2 DEF Whole, sys_ex, Commands
  <1>7. CASE ~ready(t)
    <2>1. Assembled(c, b) = t
      BY <1>7 DEF Assembled
    <2>2. c.size_ = 1 /\ cmd_size(k) = 3
      BY <1>1, <1>4, <1>5, <1>7
    <2>3. remaining(k, 2) = 1 /\ remaining(k, 1) = 2
      BY <2>2 DEF remaining
    <2>4. \A i \in 1 .. 2 : t.cmd_[i] # Zero
      BY <1>1, <1>2, <2>2 DEF Whole
    <2>5. Whole(t) /\ ~sys_ex(t)
      BY <1>1, <1>2, <1>3, <2>2, <2>4 DEF Whole, sys_ex
    <2>6. \A i \in 2 .. 2 : t.cmd_[i] # "eox"
      BY <1>1, <1>2, <2>2
    <2> QED  BY <2>1, <2>2, <2>3, <2>5, <2>6, <1>2, <1>3
  <1> QED  BY <1>6, <1>7

\* An end of exclusive that finds the command empty is taken as its first byte.
LEMMA EndFirst ==
    ASSUME NEW c, Whole(c), c.size_ = 0, NEW b \in {"eox"}
    PROVE  /\ Taken(c, b) \in Commands
           /\ Taken(c, b).size_ = 1 /\ Taken(c, b).cmd_[1] = b
           /\ b # Zero
  <1>1. c.cmd_ \in [1 .. 3 -> Data \cup Status \cup RealTime \cup {Zero}]
    BY DEF Whole, Commands
  <1>2. b \in Status /\ b # Zero /\ is_midi_cmd(b) /\ ~Cut(c, b)
    BY Kinds DEF Cut
  <1>3. Taken(c, b) = [cmd_ |-> [c.cmd_ EXCEPT ![1] = b], size_ |-> 1, sys_ex_ |-> FALSE]
    BY <1>2 DEF Taken, read
  <1> QED  BY <1>1, <1>2, <1>3 DEF Commands

\* An end of exclusive ends the exclusive, is a message of its own, or fills a message it
\* does not belong to.
LEMMA EndOfExclusive ==
    ASSUME NEW c, Whole(c)
    PROVE  /\ Whole(Assembled(c, "eox")) /\ ~sys_ex(Assembled(c, "eox"))
           /\ \/ Assembled(c, "eox").size_ = 0
              \/ Assembled(c, "eox").size_ = 2 /\ Assembled(c, "eox").cmd_[2] = "eox"
  <1> DEFINE t == Taken(c, "eox")
  <1>1. /\ c.cmd_ \in [1 .. 3 -> Data \cup Status \cup RealTime \cup {Zero}]
        /\ c.size_ \in 0 .. 2 /\ c.sys_ex_ \in BOOLEAN
        /\ is_midi_cmd("eox") /\ "eox" \in Status /\ "eox" \notin Data
    BY Kinds DEF Whole, Commands
  <1>2. /\ t \in Commands /\ t.size_ \in 1 .. 3 /\ t.cmd_[t.size_] = "eox"
        /\ t.size_ = c.size_ + 1
    <2>1. CASE c.size_ = 0
      BY <1>1, <2>1, EndFirst
    <2>2. CASE c.size_ > 0
      <3>1. /\ t = [cmd_ |-> [c.cmd_ EXCEPT ![c.size_ + 1] = "eox"], size_ |-> c.size_ + 1,
                   sys_ex_ |-> c.sys_ex_]
            /\ t \in Commands /\ t.cmd_[c.size_ + 1] = "eox"
        BY <2>2, Appended
      <3>2. t.size_ = c.size_ + 1
        BY <3>1
      <3> QED  BY <1>1, <3>1, <3>2
    <2> QED  BY <1>1, <2>1, <2>2
  <1>3. CASE ready(t)
    <2>1. Assembled(c, "eox") = reset(t)
      BY <1>3 DEF Assembled
    <2>2. reset(t) = [cmd_ |-> t.cmd_, size_ |-> 0, sys_ex_ |-> FALSE]
      <3>1. t.size_ > 0 /\ t.cmd_[t.size_] = "eox"
        BY <1>2
      <3> HIDE DEF t
      <3> QED  BY <3>1 DEF reset
    <2>3. t.cmd_ \in [1 .. 3 -> Data \cup Status \cup RealTime \cup {Zero}]
      BY <1>2 DEF Commands
    <2> HIDE DEF t
    <2>4. reset(t) \in Commands /\ reset(t).size_ = 0 /\ reset(t).sys_ex_ = FALSE
      BY <2>2, <2>3 DEF Commands
    <2> QED  BY <2>1, <2>4 DEF Whole, sys_ex
  <1>4. CASE ~ready(t)
    <2>1. Assembled(c, "eox") = t
      BY <1>4 DEF Assembled
    <2>2. /\ is_midi_cmd(t.cmd_[1]) /\ t.cmd_[1] # "sysex"
          /\ t.size_ # 3 /\ t.size_ # cmd_size(t.cmd_[1])
      <3> HIDE DEF t
      <3> QED  BY <1>2, <1>4 DEF ready
    <2>3. t.size_ = 2 /\ c.size_ = 1
      <3>1. t.size_ # 1
        BY <1>2, <2>2 DEF cmd_size
      <3> QED  BY <1>1, <1>2, <2>2, <3>1
    <2>4. /\ t.sys_ex_ = c.sys_ex_ /\ t.cmd_[1] = c.cmd_[1]
          /\ t.cmd_[2] = "eox" /\ "eox" # Zero
      BY <2>3, Appended
    <2>5. t.cmd_[1] \in Status \ {"eox", "sysex"} /\ t.cmd_[1] # Zero /\ t.cmd_[1] \notin Data
      BY <2>2, <2>3, <2>4, Kinds DEF Whole
    <2>6. t.sys_ex_ = FALSE
      BY <1>1, <2>3, <2>4, <2>5 DEF Whole
    <2>7. \A i \in 1 .. 2 : t.cmd_[i] # Zero
      BY <2>4, <2>5
    <2> QED  BY <2>1, <2>3, <2>4, <2>5, <2>6, <2>7, <1>2 DEF Whole, sys_ex
  <1> QED  BY <1>3, <1>4

\* A complete command without a hole makes an event without padding: the header stands for
\* no more bytes than there are.
LEMMA Unpadded ==
    ASSUME NEW t \in Commands, ready(t), \A i \in 1 .. t.size_ : t.cmd_[i] # Zero
    PROVE  \A j \in DOMAIN event(t) : event(t)[j] # Zero
  <1>1. t.size_ \in 1 .. 3
    BY DEF Commands, ready
  <1>2. carried(t) \in 0 .. t.size_
    <2>1. CASE is_midi_cmd(t.cmd_[1]) /\ t.cmd_[1] # "sysex"
      <3>1. t.size_ = 3 \/ t.size_ = cmd_size(t.cmd_[1])
        BY <2>1 DEF ready
      <3>2. carried(t) = cmd_size(t.cmd_[1]) /\ cmd_size(t.cmd_[1]) \in 0 .. 3
        BY <2>1 DEF carried, cmd_size
      <3> QED  BY <1>1, <3>1, <3>2
    <2>2. CASE ~(is_midi_cmd(t.cmd_[1]) /\ t.cmd_[1] # "sysex")
      <3>1. t.size_ # 1
        BY <2>2, Kinds DEF ready
      <3> QED  BY <1>1, <2>2, <3>1 DEF carried
    <2> QED  BY <2>1, <2>2
  <1> QED  BY <1>1, <1>2 DEF event

\* The command a byte completes has no hole.
LEMMA TakenSolid ==
    ASSUME NEW c, Whole(c), NEW b \in Data \cup Status, b \in Data => c.size_ > 0 \/ c.sys_ex_
    PROVE  /\ Taken(c, b) \in Commands
           /\ \A i \in 1 .. Taken(c, b).size_ : Taken(c, b).cmd_[i] # Zero
  <1>1. /\ c.cmd_ \in [1 .. 3 -> Data \cup Status \cup RealTime \cup {Zero}]
        /\ c.size_ \in 0 .. 2 /\ \A i \in 1 .. c.size_ : c.cmd_[i] # Zero
    BY DEF Whole, Commands
  <1>2. CASE b \in Status \ {"eox"}
    <2>1. /\ Taken(c, b) \in Commands /\ Taken(c, b).size_ = 1
          /\ Taken(c, b).cmd_[1] = b /\ b # Zero
      BY <1>2, FreshStatus, Kinds
    <2> QED  BY <2>1
  <1>3. CASE b = "eox" /\ c.size_ = 0
    <2>1. /\ Taken(c, b) \in Commands /\ Taken(c, b).size_ = 1
          /\ Taken(c, b).cmd_[1] = b /\ b # Zero
      BY <1>3, EndFirst
    <2> QED  BY <2>1
  <1>4. CASE b \in Data \cup {"eox"} /\ (b = "eox" => c.size_ > 0)
    <2>1. /\ Taken(c, b) \in Commands /\ Taken(c, b).size_ = c.size_ + 1
          /\ Taken(c, b).cmd_[c.size_ + 1] = b /\ b # Zero
          /\ \A i \in 1 .. c.size_ : Taken(c, b).cmd_[i] = c.cmd_[i]
      BY <1>4, Appended
    <2> QED  BY <1>1, <2>1
  <1> QED  BY <1>1, <1>2, <1>3, <1>4

\* Without a cut a byte sends at most one event, and it is not padded.
LEMMA UncutEvents ==
    ASSUME NEW c, Whole(c), NEW b \in Data \cup Status, b \in Data => c.size_ > 0 \/ c.sys_ex_,
           ~Cut(c, b)
    PROVE  /\ Events(c, b) = << >> \/ Events(c, b) = <<event(Taken(c, b))>>
           /\ Len(Events(c, b)) <= 1
           /\ \A i \in DOMAIN Events(c, b) : \A j \in DOMAIN Events(c, b)[i] :
                 Events(c, b)[i][j] # Zero
  <1> DEFINE e == event(Taken(c, b))
  <1>1. CASE ready(Taken(c, b))
    <2>1. Events(c, b) = <<e>>
      BY <1>1 DEF Events, CutEvents, ReadyEvents
    <2>2. \A j \in DOMAIN e : e[j] # Zero
      BY <1>1, TakenSolid, Unpadded
    <2>3. /\ DOMAIN Events(c, b) = {1} /\ Events(c, b)[1] = e
          /\ Len(Events(c, b)) = 1
      BY <2>1
    <2> QED  BY <2>1, <2>2, <2>3
  <1>2. CASE ~ready(Taken(c, b))
    <2>1. Events(c, b) = << >>
      BY <1>2 DEF Events, CutEvents, ReadyEvents
    <2> QED  BY <2>1
  <1> QED  BY <1>1, <1>2

--------------------------------------------------------------------------------
(* The steps. *)

LEMMA InitParserInv == ParserInit => ParserInv
  <1> SUFFICES ASSUME ParserInit PROVE ParserInv
    OBVIOUS
  <1>1. cmd = [cmd_ |-> [i \in 1 .. 3 |-> Zero], size_ |-> 0, sys_ex_ |-> FALSE]
    BY DEF ParserInit, Blank
  <1>2. cmd \in Commands
    BY <1>1 DEF Commands
  <1>3. cmd.size_ = 0 /\ cmd.sys_ex_ = FALSE
    BY <1>1
  <1>4. ~sys_ex(cmd)
    BY <1>3 DEF sys_ex
  <1>5. Whole(cmd)
    BY <1>2, <1>3, <1>4 DEF Whole
  <1>6. ParserTypeOK
    <2>1. last_cmd \in Channel \cup {Zero} /\ pending_bytes \in {0, 1, 2, Endless}
      BY DEF ParserInit
    <2>2. misplaced \in BOOLEAN
      BY DEF ParserInit
    <2> QED  BY <1>2, <1>3, <2>1, <2>2 DEF ParserTypeOK
  <1>7. InStep
    BY <1>3, <1>4 DEF ParserInit, InStep
  <1> QED  BY <1>5, <1>6, <1>7 DEF ParserInv

\* What InStep says of a command between messages, and in the middle of one.
LEMMA Counts ==
    ASSUME ParserInv
    PROVE  /\ pending_bytes = Endless => sys_ex(cmd)
           /\ pending_bytes # Endless => ~sys_ex(cmd)
           /\ pending_bytes \notin {0, Endless} =>
                 /\ cmd.size_ > 0
                 /\ \A i \in 2 .. cmd.size_ : cmd.cmd_[i] # "eox"
                 /\ pending_bytes = remaining(cmd.cmd_[1], cmd.size_)
  <1>1. cmd.size_ \in 0 .. 2
    BY DEF ParserInv, Whole, Commands
  <1> QED  BY <1>1 DEF ParserInv, InStep

LEMMA StatusStep ==
    ASSUME ParserInv, NEW b \in Status, StatusByte(b)
    PROVE  ParserInv'
  <1>1. cmd' = Assembled(cmd, b) /\ pending_bytes' = remaining(b, 1)
        /\ last_cmd' \in Channel \cup {Zero} /\ Whole(cmd)
    BY DEF StatusByte, ParserInv
  <1>2. misplaced' \in BOOLEAN
    BY DEF StatusByte, ObserveFresh, ParserInv, ParserTypeOK
  <1>3. remaining(b, 1) \in {0, 1, 2, Endless} /\ (remaining(b, 1) = Endless <=> b = "sysex")
    BY Kinds DEF remaining, cmd_size
  <1>4. CASE b = "eox"
    <2>1. /\ Whole(cmd') /\ ~sys_ex(cmd')
          /\ cmd'.size_ = 0 \/ (cmd'.size_ = 2 /\ cmd'.cmd_[2] = "eox")
      BY <1>1, <1>4, EndOfExclusive
    <2>2. remaining(b, 1) = 0
      BY <1>4 DEF remaining, cmd_size
    <2> QED  BY <1>1, <1>2, <1>3, <2>1, <2>2 DEF ParserInv, ParserTypeOK, InStep, Whole
  <1>5. CASE b # "eox"
    <2>1. /\ Whole(cmd') /\ (sys_ex(cmd') <=> b = "sysex")
          /\ cmd'.size_ = IF b = "tune" THEN 0 ELSE 1
          /\ b # "tune" => cmd'.cmd_[1] = b
      BY <1>1, <1>5, FreshStatus
    <2>2. b = "tune" => remaining(b, 1) = 0
      BY DEF remaining, cmd_size
    <2>3. InStep'
      BY <1>1, <1>3, <2>1, <2>2 DEF InStep
    <2> QED  BY <1>1, <1>2, <1>3, <2>1, <2>3 DEF ParserInv, ParserTypeOK, Whole
  <1> QED  BY <1>4, <1>5

LEMMA DataStep ==
    ASSUME ParserInv, NEW b \in Data, DataByte(b)
    PROVE  ParserInv'
  <1>1. /\ cmd' = Assembled(cmd, b) /\ pending_bytes # 0
        /\ pending_bytes' = IF pending_bytes = Endless THEN Endless ELSE pending_bytes - 1
        /\ last_cmd' = last_cmd /\ misplaced' = misplaced
        /\ Whole(cmd) /\ ParserTypeOK
    BY DEF DataByte, ParserInv
  <1>2. CASE pending_bytes = Endless
    <2>1. Whole(cmd') /\ sys_ex(cmd')
      BY <1>1, <1>2, Counts, DataInExclusive
    <2> QED  BY <1>1, <1>2, <2>1 DEF ParserInv, ParserTypeOK, InStep, Whole
  <1>3. CASE pending_bytes # Endless
    <2> DEFINE k == cmd.cmd_[1]
    <2>1. /\ cmd.size_ > 0 /\ ~sys_ex(cmd)
          /\ \A i \in 2 .. cmd.size_ : cmd.cmd_[i] # "eox"
          /\ pending_bytes = remaining(k, cmd.size_)
      BY <1>1, <1>3, Counts
    <2>2. /\ Whole(cmd') /\ ~sys_ex(cmd')
          /\ \/ cmd'.size_ = 0 /\ remaining(k, cmd.size_) = 1
             \/ /\ cmd'.size_ = cmd.size_ + 1
                /\ cmd'.cmd_[1] = k
                /\ \A i \in 2 .. cmd.size_ + 1 : cmd'.cmd_[i] # "eox"
                /\ remaining(k, cmd.size_ + 1) = remaining(k, cmd.size_) - 1
          /\ remaining(k, cmd.size_) \in {1, 2}
      BY <1>1, <2>1, DataInMessage
    <2>3. pending_bytes' = pending_bytes - 1 /\ pending_bytes \in {1, 2}
      BY <1>1, <1>3, <2>1, <2>2
    <2>4. pending_bytes' \in {0, 1}
      BY <2>3
    <2>5. cmd.size_ \in 1 .. 2
      BY <1>1, <2>1 DEF Whole, Commands
    <2>6. InStep'
      BY <2>1, <2>2, <2>3, <2>4, <2>5 DEF InStep
    <2> QED  BY <1>1, <2>2, <2>4, <2>6 DEF ParserInv, ParserTypeOK, Whole
  <1> QED  BY <1>2, <1>3

\* The running status is a channel status, which a data byte never completes at once.
LEMMA RunningStatus ==
    ASSUME ParserInv, NEW b \in Data, RunningByte(b)
    PROVE  LET c == Assembled(cmd, last_cmd) IN
           /\ last_cmd \in Status \ {"eox"} /\ ~Cut(cmd, last_cmd)
           /\ ~ready(Taken(cmd, last_cmd))
           /\ Whole(c) /\ ~sys_ex(c) /\ c.size_ = 1 /\ c.cmd_[1] = last_cmd
           /\ remaining(last_cmd, 1) \in {1, 2}
           /\ last_cmd \in Channel
  <1>1. last_cmd \in Channel /\ Whole(cmd) /\ ~sys_ex(cmd)
    BY Counts DEF RunningByte, ParserInv, ParserTypeOK
  <1>2. last_cmd \in Status \ {"eox", "tune", "sysex"}
    BY <1>1, Kinds DEF Channel
  <1>3. remaining(last_cmd, 1) \in {1, 2}
    BY <1>1 DEF Channel, remaining, cmd_size
  <1> QED  BY <1>1, <1>2, <1>3, FreshStatus DEF Cut

LEMMA RunningStep ==
    ASSUME ParserInv, NEW b \in Data, RunningByte(b)
    PROVE  ParserInv'
  <1> DEFINE c == Assembled(cmd, last_cmd)
  <1>1. /\ Whole(c) /\ ~sys_ex(c) /\ c.size_ = 1 /\ c.cmd_[1] = last_cmd
        /\ remaining(last_cmd, 1) \in {1, 2} /\ last_cmd \in Channel
    BY RunningStatus
  <1>2. /\ cmd' = Assembled(c, b) /\ pending_bytes' = remaining(last_cmd, 2)
        /\ last_cmd' = last_cmd /\ misplaced' = misplaced /\ ParserTypeOK
    BY DEF RunningByte, ParserInv
  <1> HIDE DEF c
  <1>3. remaining(c.cmd_[1], c.size_) # 0 /\ \A i \in 2 .. c.size_ : c.cmd_[i] # "eox"
    BY <1>1
  <1>4. /\ Whole(cmd') /\ ~sys_ex(cmd')
        /\ \/ cmd'.size_ = 0 /\ remaining(last_cmd, 1) = 1
           \/ /\ cmd'.size_ = 2 /\ cmd'.cmd_[1] = last_cmd
              /\ \A i \in 2 .. 2 : cmd'.cmd_[i] # "eox"
    <2>1. /\ Whole(Assembled(c, b)) /\ ~sys_ex(Assembled(c, b))
          /\ \/ Assembled(c, b).size_ = 0 /\ remaining(c.cmd_[1], c.size_) = 1
             \/ /\ Assembled(c, b).size_ = c.size_ + 1
                /\ Assembled(c, b).cmd_[1] = c.cmd_[1]
                /\ \A i \in 2 .. c.size_ + 1 : Assembled(c, b).cmd_[i] # "eox"
      BY <1>1, <1>3, DataInMessage
    <2> QED  BY <1>1, <1>2, <2>1
  <1>5. remaining(last_cmd, 2) \in {0, 1} /\ (remaining(last_cmd, 1) = 1 => remaining(last_cmd, 2) = 0)
    BY <1>1 DEF Channel, remaining, cmd_size
  <1>6. InStep'
    BY <1>2, <1>4, <1>5 DEF InStep
  <1> QED  BY <1>2, <1>4, <1>5, <1>6 DEF ParserInv, ParserTypeOK, Whole

LEMMA NextParserInv == ParserInv /\ [ParserNext]_parserVars => ParserInv'
  <1> SUFFICES ASSUME ParserInv, [ParserNext]_parserVars PROVE ParserInv'
    OBVIOUS
  <1>1. ASSUME NEW b \in Data, StrayByte(b) PROVE ParserInv'
    BY <1>1 DEF StrayByte, normVars, ParserInv, ParserTypeOK, Whole, InStep
  <1>2. ASSUME NEW b \in RealTime, RealTimeByte(b) PROVE ParserInv'
    BY <1>2 DEF RealTimeByte, normVars, history, ParserInv, ParserTypeOK, Whole, InStep
  <1>3. CASE UNCHANGED parserVars
    BY <1>3 DEF parserVars, normVars, history, ParserInv, ParserTypeOK, Whole, InStep
  <1> QED  BY <1>1, <1>2, <1>3, StatusStep, DataStep, RunningStep DEF ParserNext

\* The invariant of every behaviour.
LEMMA ParserInvariant == ParserSpec => []ParserInv
  <1> QED  BY InitParserInv, NextParserInv, PTL DEF ParserSpec

\* The parser's state is of its types in every reachable state, and no complete command is
\* left unsent in current_cmd (main.cpp:249-258).
THEOREM ParserTypeCorrect == ParserSpec => []ParserTypeOK
  <1>1. ParserInv => ParserTypeOK
    BY DEF ParserInv
  <1> QED  BY <1>1, ParserInvariant, PTL

\* For every set of data bytes and every sequence of bytes, the normalizer and the command
\* never lose step: the one never lets a byte through that the other cannot take
\* (midi_normalizer.h:15-59 against midi_cmd.h:256-303).
THEOREM NeverOutOfStep == ParserSpec => []InStep
  <1>1. ParserInv => InStep
    BY DEF ParserInv
  <1> QED  BY <1>1, ParserInvariant, PTL

--------------------------------------------------------------------------------
(* What the steps send. *)

\* At most one event, without padding.
Plain(events) ==
    /\ Len(events) <= 1
    /\ \A i \in DOMAIN events : \A j \in DOMAIN events[i] : events[i][j] # Zero

LEMMA StatusSends ==
    ASSUME ParserInv, NEW b \in Status, StatusByte(b)
    PROVE  Plain(out') \/ (pending_bytes = Endless /\ Len(heard') = 1)
  <1>1. Whole(cmd) /\ out' = Events(cmd, b)
    BY DEF ParserInv, StatusByte
  <1>2. CASE Cut(cmd, b)
    <2>1. pending_bytes = Endless /\ b # "eox"
      BY <1>2, Counts DEF Cut
    <2>2. heard' = <<b>>
      BY <2>1 DEF StatusByte, ObserveFresh
    <2> QED  BY <2>1, <2>2
  <1>3. CASE ~Cut(cmd, b)
    <2>1. b \notin Data
      BY Kinds
    <2> QED  BY <1>1, <1>3, <2>1, UncutEvents DEF Plain
  <1> QED  BY <1>2, <1>3

LEMMA DataSends ==
    ASSUME ParserInv, NEW b \in Data, DataByte(b)
    PROVE  Plain(out')
  <1>1. Whole(cmd) /\ out' = Events(cmd, b) /\ ~Cut(cmd, b)
    BY Kinds DEF ParserInv, DataByte, Cut
  <1>2. cmd.size_ > 0 \/ cmd.sys_ex_
    BY Counts DEF DataByte, sys_ex
  <1> QED  BY <1>1, <1>2, UncutEvents DEF Plain

LEMMA RunningSends ==
    ASSUME ParserInv, NEW b \in Data, RunningByte(b)
    PROVE  Plain(out')
  <1> DEFINE c == Assembled(cmd, last_cmd)
  <1>1. /\ Whole(c) /\ c.size_ = 1 /\ ~Cut(cmd, last_cmd) /\ ~ready(Taken(cmd, last_cmd))
    BY RunningStatus
  <1>2. Events(cmd, last_cmd) = << >>
    BY <1>1 DEF Events, CutEvents, ReadyEvents
  <1>3. out' = << >> \o Events(c, b)
    BY <1>2 DEF RunningByte
  <1>4. ~Cut(c, b)
    BY Kinds DEF Cut
  <1> HIDE DEF c
  <1>5. /\ Events(c, b) = << >> \/ Events(c, b) = <<event(Taken(c, b))>>
        /\ Plain(Events(c, b))
    BY <1>1, <1>4, UncutEvents DEF Plain
  <1>6. << >> \o Events(c, b) = Events(c, b)
    BY <1>5
  <1> QED  BY <1>3, <1>5, <1>6

LEMMA RealTimeSends ==
    ASSUME NEW b \in RealTime, RealTimeByte(b)
    PROVE  Plain(out')
  <1> DEFINE t == read(Blank, b)
  <1>1. b = "clock" /\ is_midi_cmd(b) /\ b # Zero
    BY DEF RealTime, is_midi_cmd, Zero
  <1>2. t = [cmd_ |-> [Blank.cmd_ EXCEPT ![1] = b], size_ |-> 1, sys_ex_ |-> FALSE]
    BY <1>1 DEF read
  <1>3. Blank.cmd_ = [i \in 1 .. 3 |-> Zero]
    BY DEF Blank
  <1>4. t.cmd_[1] = b /\ t.size_ = 1
    BY <1>2, <1>3
  <1> HIDE DEF t
  <1>5. carried(t) = 1
    BY <1>1, <1>4 DEF carried, cmd_size
  <1>6. DOMAIN event(t) = 1 .. 1 /\ event(t)[1] = b
    BY <1>4, <1>5 DEF event
  <1>7. out' = <<event(t)>>
    BY DEF RealTimeByte, t
  <1> QED  BY <1>1, <1>6, <1>7 DEF Plain

LEMMA StepSends ==
    ASSUME ParserInv, [ParserNext]_parserVars
    PROVE  [Plain(out') \/ (pending_bytes = Endless /\ Len(heard') = 1)]_parserVars
  <1>1. ASSUME NEW b \in Data, StrayByte(b) PROVE Plain(out')
    BY <1>1 DEF StrayByte, Plain
  <1> QED  BY <1>1, StatusSends, DataSends, RunningSends, RealTimeSends DEF ParserNext

\* For every set of data bytes: whatever the order of the bytes, the other side is sent
\* one event at most for each, of received bytes only, unless a status byte cuts an
\* exclusive short (main.cpp:247-250, 658-713).
THEOREM PaddingOnlyInCuts == ParserSpec => OnlyCutsPad
  <1> DEFINE Step == (\/ Len(out') > 1
                      \/ \E i \in DOMAIN out' : \E j \in DOMAIN out'[i] : out'[i][j] = Zero)
                     => pending_bytes = Endless /\ Len(heard') = 1
  <1>1. ParserInv /\ [ParserNext]_parserVars => [Step]_parserVars
    BY StepSends DEF Plain
  <1>2. OnlyCutsPad <=> [][Step]_parserVars
    BY DEF OnlyCutsPad
  <1> QED  BY <1>1, <1>2, ParserInvariant, PTL DEF ParserSpec

--------------------------------------------------------------------------------
(* That the parser is faithful.  Sequences of events and of bytes.              *)

Byte == Data \cup Status \cup RealTime \cup {Zero}

LEMMA FlattenNone == Seqs!FlattenSeq(<< >>) = << >>
  BY DEF Seqs!FlattenSeq

LEMMA FlattenOne == ASSUME NEW e PROVE Seqs!FlattenSeq(<<e>>) = e
  <1> DEFINE seqs == <<e>>
             body(f, i) == IF i = 1 THEN seqs[i] ELSE f[i - 1] \o seqs[i]
             flat == CHOOSE f : f = [i \in 1 .. Len(seqs) |-> body(f, i)]
             g == [i \in 1 .. 1 |-> e]
  <1>1. Len(seqs) = 1 /\ seqs[1] = e /\ Len(seqs) # 0
    OBVIOUS
  <1>2. Seqs!FlattenSeq(seqs) = flat[Len(seqs)]
    BY <1>1 DEF Seqs!FlattenSeq
  <1>3. g = [i \in 1 .. Len(seqs) |-> body(g, i)]
    BY <1>1
  <1>4. flat = [i \in 1 .. Len(seqs) |-> body(flat, i)]
    <2>1. \E f : f = [i \in 1 .. Len(seqs) |-> body(f, i)]
      BY <1>3
    <2> HIDE DEF body, seqs
    <2> QED  BY <2>1
  <1> HIDE DEF flat
  <1>5. flat[1] = body(flat, 1)
    BY <1>1, <1>4
  <1> QED  BY <1>1, <1>2, <1>5

\* A prefix of what was heard is still one when a byte x more was heard; and with what
\* follows it, up to x at most, it is a longer one.
LEMMA PrefixStays ==
    ASSUME NEW S, NEW h \in Seq(S), NEW x \in S, NEW q \in 0 .. Len(h)
    PROVE  SubSeq(Append(h, x), 1, q) = SubSeq(h, 1, q)
  <1> DEFINE u == SubSeq(h, 1, q)
             g == Append(h, x)
             v == SubSeq(g, 1, q)
  <1>1. \A i \in 1 .. q : g[i] = h[i] /\ h[i] \in S
    OBVIOUS
  <1> HIDE DEF g
  <1>2. /\ u \in Seq(S) /\ Len(u) = (IF 1 <= q THEN q - 1 + 1 ELSE 0)
        /\ \A i \in 1 .. q - 1 + 1 : u[i] = h[1 + i - 1]
    BY <1>1, SubSeqProperties
  <1>3. /\ v \in Seq(S) /\ Len(v) = (IF 1 <= q THEN q - 1 + 1 ELSE 0)
        /\ \A i \in 1 .. q - 1 + 1 : v[i] = g[1 + i - 1]
    BY <1>1, SubSeqProperties
  <1> HIDE DEF u, v
  <1>4. Len(u) = q /\ Len(v) = q /\ \A i \in 1 .. q : u[i] = h[i] /\ v[i] = g[i]
    BY <1>2, <1>3
  <1>5. u = v
    BY <1>1, <1>2, <1>3, <1>4, SeqEqual
  <1> QED  BY <1>5 DEF u, v, g

LEMMA PrefixGrows ==
    ASSUME NEW S, NEW g \in Seq(S), NEW q \in 0 .. Len(g), NEW e \in Seq(S),
           q + Len(e) <= Len(g), \A i \in 1 .. Len(e) : e[i] = g[q + i]
    PROVE  SubSeq(g, 1, q) \o e = SubSeq(g, 1, q + Len(e))
  <1> DEFINE m == q + Len(e)
             u == SubSeq(g, 1, q)
             v == SubSeq(g, 1, m)
             w == u \o e
  <1>1. m \in Nat /\ q <= m /\ m <= Len(g) /\ Len(e) \in Nat /\ \A i \in 1 .. m : g[i] \in S
    OBVIOUS
  <1>2. /\ u \in Seq(S) /\ Len(u) = (IF 1 <= q THEN q - 1 + 1 ELSE 0)
        /\ \A i \in 1 .. q - 1 + 1 : u[i] = g[1 + i - 1]
    BY <1>1, SubSeqProperties
  <1> HIDE DEF m
  <1>3. /\ v \in Seq(S) /\ Len(v) = (IF 1 <= m THEN m - 1 + 1 ELSE 0)
        /\ \A i \in 1 .. m - 1 + 1 : v[i] = g[1 + i - 1]
    BY <1>1, SubSeqProperties
  <1> HIDE DEF u, v
  <1>4. Len(u) = q /\ Len(v) = m
    BY <1>1, <1>2, <1>3
  <1>5. /\ w \in Seq(S) /\ Len(w) = m
        /\ \A i \in 1 .. m : w[i] = IF i <= q THEN u[i] ELSE e[i - q]
    BY <1>2, <1>4, ConcatProperties DEF m
  <1> HIDE DEF w
  <1>6. ASSUME NEW i \in 1 .. m PROVE w[i] = v[i]
    <2>1. v[i] = g[i]
      BY <1>1, <1>3
    <2>2. CASE i <= q
      BY <1>2, <1>5, <2>1, <2>2
    <2>3. CASE ~(i <= q)
      <3>1. i - q \in 1 .. Len(e) /\ q + (i - q) = i
        BY <1>1, <2>3 DEF m
      <3>2. e[i - q] = g[i]
        BY <3>1
      <3> QED  BY <1>5, <2>1, <2>3, <3>2
    <2> QED  BY <2>2, <2>3
  <1>7. w = v
    BY <1>3, <1>4, <1>5, <1>6, SeqEqual
  <1> QED  BY <1>7 DEF w, u, v, m

--------------------------------------------------------------------------------
(* Running status.                                                              *)

LEMMA Thirds ==
    ASSUME NEW n \in Nat, NEW i \in 1 .. 3 * n
    PROVE  /\ (i - 1) \div 3 \in 0 .. n - 1 /\ (i - 1) % 3 \in 0 .. 2
           /\ i = 3 * ((i - 1) \div 3) + ((i - 1) % 3) + 1
  OBVIOUS

LEMMA Halves ==
    ASSUME NEW n \in Nat, NEW i \in 1 .. 2 * n
    PROVE  /\ (i - 1) \div 2 \in 0 .. n - 1 /\ (i - 1) % 2 \in 0 .. 1
           /\ i = 2 * ((i - 1) \div 2) + ((i - 1) % 2) + 1
  OBVIOUS

\* Where byte i of messages with k data bytes each comes from: which message and which
\* byte of it.
LEMMA BytePlaces ==
    ASSUME NEW k \in {1, 2}, NEW n \in Nat, NEW i \in 1 .. n * (k + 1)
    PROVE  /\ (i - 1) \div (k + 1) \in 0 .. n - 1 /\ (i - 1) % (k + 1) \in 0 .. k
           /\ i = (k + 1) * ((i - 1) \div (k + 1)) + ((i - 1) % (k + 1)) + 1
           /\ (i - 1) % (k + 1) # 0 =>
                 ((i - 1) \div (k + 1)) * k + ((i - 1) % (k + 1)) \in 1 .. n * k
  <1>1. CASE k = 1
    <2> DEFINE m == (i - 1) \div 2
               r == (i - 1) % 2
    <2>1. m \in 0 .. n - 1 /\ r \in 0 .. 1 /\ i = 2 * m + r + 1
      BY <1>1, Halves
    <2> HIDE DEF m, r
    <2>2. r # 0 => m * 1 + r \in 1 .. n * 1
      BY <2>1
    <2> QED  BY <1>1, <2>1, <2>2 DEF m, r
  <1>2. CASE k = 2
    <2> DEFINE m == (i - 1) \div 3
               r == (i - 1) % 3
    <2>1. m \in 0 .. n - 1 /\ r \in 0 .. 2 /\ i = 3 * m + r + 1
      BY <1>2, Thirds
    <2> HIDE DEF m, r
    <2>2. r # 0 => m * 2 + r \in 1 .. n * 2
      BY <2>1
    <2> QED  BY <1>2, <2>1, <2>2 DEF m, r
  <1> QED  BY <1>1, <1>2

\* Only the data bytes of the messages count.
LEMMA ExpandedKept ==
    ASSUME NEW b, NEW d, NEW g, NEW k \in {1, 2}, NEW n \in Nat,
           \A j \in 1 .. n * k : d[j] = g[j]
    PROVE  Expanded(b, d, k, n) = Expanded(b, g, k, n)
  <1> DEFINE m(i) == (i - 1) \div (k + 1)
             r(i) == (i - 1) % (k + 1)
             N == n * (k + 1)
  <1>1. ASSUME NEW i \in 1 .. N, r(i) # 0 PROVE d[m(i) * k + r(i)] = g[m(i) * k + r(i)]
    <2>1. i \in 1 .. n * (k + 1) /\ (i - 1) % (k + 1) # 0
      BY <1>1
    <2>2. ((i - 1) \div (k + 1)) * k + ((i - 1) % (k + 1)) \in 1 .. n * k
      BY <2>1, BytePlaces
    <2>3. m(i) * k + r(i) \in 1 .. n * k
      BY <2>2
    <2> HIDE DEF m, r
    <2> QED  BY <2>3
  <1>2. /\ Expanded(b, d, k, n) = [i \in 1 .. N |-> IF r(i) = 0 THEN b ELSE d[m(i) * k + r(i)]]
        /\ Expanded(b, g, k, n) = [i \in 1 .. N |-> IF r(i) = 0 THEN b ELSE g[m(i) * k + r(i)]]
    BY DEF Expanded
  <1> HIDE DEF m, r, N
  <1> QED  BY <1>1, <1>2

\* The bytes e are a message of status b with the k data bytes that follow those of n
\* messages in d.
MessageAfter(b, d, k, n, e) ==
    /\ Len(e) = k + 1 /\ e[1] = b /\ \A r \in 1 .. k : e[r + 1] = d[n * k + r]
    /\ \A j \in 1 .. n * k + k : d[j] \in Byte

\* A message more: its status and its data.
LEMMA ExpandedNext ==
    ASSUME NEW b \in Byte, NEW d, NEW k \in {1, 2}, NEW n \in Nat,
           NEW e \in Seq(Byte), MessageAfter(b, d, k, n, e)
    PROVE  Expanded(b, d, k, n) \o e = Expanded(b, d, k, n + 1)
  <1>0. /\ Len(e) = k + 1 /\ e[1] = b /\ \A r \in 1 .. k : e[r + 1] = d[n * k + r]
        /\ \A j \in 1 .. n * k + k : d[j] \in Byte
    BY DEF MessageAfter
  <1> DEFINE at(i) == IF (i - 1) % (k + 1) = 0 THEN b
                      ELSE d[((i - 1) \div (k + 1)) * k + ((i - 1) % (k + 1))]
             N == n * (k + 1)
             M == (n + 1) * (k + 1)
             u == Expanded(b, d, k, n)
             v == Expanded(b, d, k, n + 1)
             w == u \o e
  <1>1. u = [i \in 1 .. N |-> at(i)] /\ v = [i \in 1 .. M |-> at(i)]
    BY DEF Expanded
  <1>2. N \in Nat /\ M = N + (k + 1) /\ M \in Nat
    OBVIOUS
  <1>3. ASSUME NEW i \in 1 .. M PROVE at(i) \in Byte
    <2>1. (i - 1) % (k + 1) # 0 =>
             ((i - 1) \div (k + 1)) * k + ((i - 1) % (k + 1)) \in 1 .. (n + 1) * k
      BY n + 1 \in Nat, BytePlaces
    <2>2. (n + 1) * k = n * k + k
      OBVIOUS
    <2> QED  BY <1>0, <2>1, <2>2
  <1>4. ASSUME NEW j \in 1 .. k + 1 PROVE at(N + j) = e[j]
    <2>1. (N + j - 1) \div (k + 1) = n /\ (N + j - 1) % (k + 1) = j - 1
      <3>1. CASE k = 1
        <4>1. (n * 2 + j - 1) \div 2 = n /\ (n * 2 + j - 1) % 2 = j - 1
          BY <3>1
        <4> QED  BY <3>1, <4>1
      <3>2. CASE k = 2
        <4>1. (n * 3 + j - 1) \div 3 = n /\ (n * 3 + j - 1) % 3 = j - 1
          BY <3>2
        <4> QED  BY <3>2, <4>1
      <3> QED  BY <3>1, <3>2
    <2>2. at(N + j) = IF j - 1 = 0 THEN b ELSE d[n * k + (j - 1)]
      BY <2>1
    <2>3. CASE j = 1
      BY <1>0, <2>2, <2>3
    <2>4. CASE j # 1
      <3>1. j - 1 \in 1 .. k /\ (j - 1) + 1 = j /\ j - 1 # 0
        BY <2>4
      <3> QED  BY <1>0, <2>2, <3>1
    <2> QED  BY <2>3, <2>4
  <1> HIDE DEF at, N, M, u, v
  <1>5. \A i \in 1 .. N : i \in 1 .. M
    BY <1>2
  <1>6. u \in Seq(Byte) /\ Len(u) = N /\ \A i \in 1 .. N : u[i] = at(i)
    <2>1. \A i \in 1 .. N : at(i) \in Byte
      BY <1>3, <1>5
    <2> QED  BY <1>1, <1>2, <2>1
  <1>7. v \in Seq(Byte) /\ Len(v) = M /\ \A i \in 1 .. M : v[i] = at(i)
    BY <1>1, <1>2, <1>3
  <1>8. /\ w \in Seq(Byte) /\ Len(w) = M
        /\ \A i \in 1 .. M : w[i] = IF i <= N THEN u[i] ELSE e[i - N]
    BY <1>0, <1>2, <1>6, ConcatProperties
  <1> HIDE DEF w
  <1>9. ASSUME NEW i \in 1 .. M PROVE w[i] = v[i]
    <2>1. CASE i <= N
      <3>1. i \in 1 .. N
        BY <1>2, <2>1
      <3> QED  BY <1>6, <1>7, <1>8, <2>1, <3>1
    <2>2. CASE ~(i <= N)
      <3> DEFINE j == i - N
      <3>1. j \in 1 .. k + 1 /\ N + j = i
        BY <1>2, <2>2
      <3> HIDE DEF j
      <3>2. at(N + j) = e[j]
        BY <1>4, <3>1
      <3> QED  BY <1>7, <1>8, <2>2, <3>1, <3>2 DEF j
    <2> QED  BY <2>1, <2>2
  <1>10. w = v
    BY <1>7, <1>8, <1>9, SeqEqual
  <1> QED  BY <1>10 DEF w, u, v

--------------------------------------------------------------------------------
(* What a byte makes of the command, and the bytes of the event it sends.       *)

\* The bytes of a command.
Held(t) == [i \in 1 .. t.size_ |-> t.cmd_[i]]

\* The header of an event stands for the whole command, unless an end of exclusive filled
\* a message that it does not belong to.
LEMMA WholeEvent ==
    ASSUME NEW t \in Commands, ready(t),
           is_midi_cmd(t.cmd_[1]) /\ t.cmd_[1] # "sysex" => t.size_ = cmd_size(t.cmd_[1])
    PROVE  event(t) = Held(t)
  <1>1. t.size_ \in 1 .. 3
    BY DEF Commands, ready
  <1>2. carried(t) = t.size_
    <2>1. CASE is_midi_cmd(t.cmd_[1]) /\ t.cmd_[1] # "sysex"
      BY <2>1 DEF carried
    <2>2. CASE ~(is_midi_cmd(t.cmd_[1]) /\ t.cmd_[1] # "sysex")
      <3>1. t.size_ # 1
        BY <2>2, Kinds DEF ready
      <3> QED  BY <1>1, <2>2, <3>1 DEF carried
    <2> QED  BY <2>1, <2>2
  <1> QED  BY <1>1, <1>2 DEF event, Held

\* A byte goes behind those of the command, which is sent when it is complete.
LEMMA ByteTaken ==
    ASSUME NEW c, Whole(c), NEW b \in Data \cup {"eox"},
           b \in Data => c.size_ > 0 \/ c.sys_ex_
    PROVE  LET t == Taken(c, b) IN
           /\ ~Cut(c, b)
           /\ t \in Commands /\ t.size_ = c.size_ + 1 /\ t.cmd_[c.size_ + 1] = b
           /\ \A i \in 1 .. c.size_ : t.cmd_[i] = c.cmd_[i]
           /\ ready(t) => Assembled(c, b).size_ = 0 /\ ReadyEvents(c, b) = <<event(t)>>
           /\ ~ready(t) => Assembled(c, b) = t /\ ReadyEvents(c, b) = << >>
           /\ Events(c, b) = ReadyEvents(c, b)
  <1> DEFINE t == Taken(c, b)
  <1>1. c.size_ \in 0 .. 2
    BY DEF Whole, Commands
  <1>2. ~Cut(c, b)
    BY Kinds DEF Cut
  <1>3. /\ t \in Commands /\ t.size_ = c.size_ + 1 /\ t.cmd_[c.size_ + 1] = b
        /\ \A i \in 1 .. c.size_ : t.cmd_[i] = c.cmd_[i]
    <2>1. CASE b = "eox" /\ c.size_ = 0
      BY <2>1, EndFirst
    <2>2. CASE ~(b = "eox" /\ c.size_ = 0)
      <3>1. b = "eox" => c.size_ > 0
        BY <1>1, <2>2
      <3>2. c.size_ > 0 \/ c.sys_ex_
        BY <3>1
      <3>3. t = [cmd_ |-> [c.cmd_ EXCEPT ![c.size_ + 1] = b], size_ |-> c.size_ + 1,
                 sys_ex_ |-> c.sys_ex_]
            /\ t \in Commands /\ t.cmd_[c.size_ + 1] = b
            /\ \A i \in 1 .. c.size_ : t.cmd_[i] = c.cmd_[i]
        BY <3>1, <3>2, Appended
      <3>4. t.size_ = c.size_ + 1
        BY <3>3
      <3> QED  BY <3>3, <3>4
    <2> QED  BY <2>1, <2>2
  <1>4. ready(t) => Assembled(c, b).size_ = 0 /\ ReadyEvents(c, b) = <<event(t)>>
    BY DEF Assembled, ReadyEvents, reset
  <1>5. ~ready(t) => Assembled(c, b) = t /\ ReadyEvents(c, b) = << >>
    BY DEF Assembled, ReadyEvents
  <1>6. Events(c, b) = ReadyEvents(c, b)
    <2>1. CutEvents(c, b) = << >>
      BY <1>2 DEF CutEvents
    <2>2. \/ ReadyEvents(c, b) = << >>
          \/ ReadyEvents(c, b) = <<event(t)>>
      BY <1>4, <1>5
    <2> QED  BY <2>1, <2>2 DEF Events
  <1> QED  BY <1>2, <1>3, <1>4, <1>5, <1>6

\* The bytes that the command c and the byte b make, as bytes of what is sent: all of them
\* when they complete the command, none before.
Sends(c, b, complete) ==
    LET bytes == Seqs!FlattenSeq(ReadyEvents(c, b)) IN
    /\ ~Cut(c, b) /\ Events(c, b) = ReadyEvents(c, b)
    /\ complete =>
          /\ Assembled(c, b).size_ = 0
          /\ bytes \in Seq(Byte) /\ Len(bytes) = c.size_ + 1 /\ bytes[c.size_ + 1] = b
          /\ \A i \in 1 .. c.size_ : bytes[i] = c.cmd_[i]
    /\ ~complete =>
          /\ Assembled(c, b).size_ = c.size_ + 1 /\ Assembled(c, b).cmd_[c.size_ + 1] = b
          /\ \A i \in 1 .. c.size_ : Assembled(c, b).cmd_[i] = c.cmd_[i]
          /\ bytes = << >>

LEMMA ByteSends ==
    ASSUME NEW c, Whole(c), NEW b \in Data \cup {"eox"},
           b \in Data => c.size_ > 0 \/ c.sys_ex_, NEW complete \in BOOLEAN,
           complete <=> ready(Taken(c, b)),
           LET t == Taken(c, b) IN
               is_midi_cmd(t.cmd_[1]) /\ t.cmd_[1] # "sysex" /\ ready(t)
                  => t.size_ = cmd_size(t.cmd_[1])
    PROVE  Sends(c, b, complete)
  <1> DEFINE t == Taken(c, b)
  <1>1. /\ ~Cut(c, b)
        /\ t \in Commands /\ t.size_ = c.size_ + 1 /\ t.cmd_[c.size_ + 1] = b
        /\ \A i \in 1 .. c.size_ : t.cmd_[i] = c.cmd_[i]
        /\ ready(t) => Assembled(c, b).size_ = 0 /\ ReadyEvents(c, b) = <<event(t)>>
        /\ ~ready(t) => Assembled(c, b) = t /\ ReadyEvents(c, b) = << >>
        /\ Events(c, b) = ReadyEvents(c, b)
    BY ByteTaken
  <1>2. c.size_ \in 0 .. 2
    BY DEF Whole, Commands
  <1>3. is_midi_cmd(t.cmd_[1]) /\ t.cmd_[1] # "sysex" /\ ready(t) => t.size_ = cmd_size(t.cmd_[1])
    OBVIOUS
  <1>4. complete <=> ready(t)
    OBVIOUS
  <1> HIDE DEF t
  <1>5. CASE ready(t)
    <2> DEFINE e == event(t)
    <2>1. e = Held(t)
      BY <1>1, <1>3, <1>5, WholeEvent
    <2>2. Held(t) \in Seq(Byte) /\ Len(Held(t)) = t.size_ /\ \A i \in 1 .. t.size_ : Held(t)[i] = t.cmd_[i]
      <3>1. t.size_ \in Nat /\ \A i \in 1 .. t.size_ : t.cmd_[i] \in Byte
        BY <1>1, <1>2 DEF Commands, Byte
      <3> QED  BY <3>1 DEF Held
    <2>3. Seqs!FlattenSeq(ReadyEvents(c, b)) = e
      BY <1>1, <1>5, FlattenOne
    <2> HIDE DEF e
    <2>4. /\ e \in Seq(Byte) /\ Len(e) = c.size_ + 1 /\ e[c.size_ + 1] = b
          /\ \A i \in 1 .. c.size_ : e[i] = c.cmd_[i]
      <3>1. c.size_ + 1 \in 1 .. t.size_ /\ \A i \in 1 .. c.size_ : i \in 1 .. t.size_
        BY <1>1, <1>2
      <3> QED  BY <1>1, <2>1, <2>2, <3>1
    <2> QED  BY <1>1, <1>4, <1>5, <2>3, <2>4 DEF Sends
  <1>6. CASE ~ready(t)
    <2>1. Seqs!FlattenSeq(ReadyEvents(c, b)) = << >>
      BY <1>1, <1>6, FlattenNone
    <2> QED  BY <1>1, <1>4, <1>6, <2>1 DEF Sends
  <1> QED  BY <1>5, <1>6

\* In an exclusive: a chunk of three, or the rest with its end.
LEMMA ExclusiveSends ==
    ASSUME NEW c, Whole(c), sys_ex(c), NEW b \in Data \cup {"eox"}
    PROVE  Sends(c, b, b = "eox" \/ c.size_ = 2)
  <1> DEFINE t == Taken(c, b)
  <1>1. c.size_ \in 0 .. 2 /\ (c.size_ > 0 \/ c.sys_ex_)
    BY DEF Whole, Commands, sys_ex
  <1>2. /\ t \in Commands /\ t.size_ = c.size_ + 1 /\ t.cmd_[c.size_ + 1] = b
        /\ \A i \in 1 .. c.size_ : t.cmd_[i] = c.cmd_[i]
    BY <1>1, ByteTaken
  <1>3. c.size_ > 0 => c.cmd_[1] \in Data \cup {"sysex"}
    BY DEF Whole, sys_ex
  <1>4. b # "eox" => b \in Data /\ b # "eox"
    OBVIOUS
  <1> HIDE DEF t
  <1>5. CASE c.size_ = 0 /\ b = "eox"
    <2>1. t.cmd_[1] = "eox" /\ t.size_ = 1 /\ is_midi_cmd("eox")
      BY <1>2, <1>5, Kinds
    <2>2. cmd_size("eox") = 1
      BY DEF cmd_size
    <2>3. ready(t)
      BY <2>1, <2>2 DEF ready
    <2> QED  BY <1>1, <1>5, <2>1, <2>2, <2>3, ByteSends DEF t
  <1>6. CASE ~(c.size_ = 0 /\ b = "eox")
    <2>1. t.cmd_[1] \in Data \cup {"sysex"}
      BY <1>1, <1>2, <1>3, <1>6
    <2>2. is_midi_cmd(t.cmd_[1]) => t.cmd_[1] = "sysex"
      BY <2>1, Kinds
    <2>3. b \in Data => b # "eox"
      BY Kinds
    <2>4. ready(t) <=> b = "eox" \/ c.size_ = 2
      BY <1>1, <1>2, <2>2, <2>3 DEF ready
    <2> QED  BY <1>1, <2>2, <2>4, ByteSends DEF t
  <1> QED  BY <1>5, <1>6

\* In a message: it is complete with its last byte.
LEMMA MessageSends ==
    ASSUME NEW c, Whole(c), ~sys_ex(c), NEW b \in Data, c.size_ > 0,
           cmd_size(c.cmd_[1]) \in {2, 3}, c.size_ < cmd_size(c.cmd_[1])
    PROVE  Sends(c, b, c.size_ + 1 = cmd_size(c.cmd_[1]))
  <1> DEFINE t == Taken(c, b)
             k == c.cmd_[1]
  <1>1. c.size_ \in 1 .. 2
    BY DEF Whole, Commands
  <1>2. /\ t \in Commands /\ t.size_ = c.size_ + 1 /\ t.cmd_[c.size_ + 1] = b
        /\ \A i \in 1 .. c.size_ : t.cmd_[i] = c.cmd_[i]
    BY <1>1, ByteTaken
  <1>3. t.cmd_[1] = k
    BY <1>1, <1>2
  <1>4. is_midi_cmd(k) /\ k # "sysex"
    <2>1. k \in (Status \ {"eox"}) \cup Data /\ (c.sys_ex_ <=> k \in Data) /\ ~c.sys_ex_ /\ k # "sysex"
      BY <1>1 DEF Whole, sys_ex
    <2> QED  BY <2>1, Kinds
  <1> HIDE DEF t, k
  <1>5. ready(t) <=> c.size_ + 1 = cmd_size(k)
    BY <1>1, <1>2, <1>3, <1>4 DEF ready, k
  <1> QED  BY <1>1, <1>2, <1>3, <1>4, <1>5, ByteSends DEF t, k

\* An end of exclusive between messages is a message of its own.
LEMMA EndSends ==
    ASSUME NEW c, Whole(c), ~sys_ex(c), c.size_ = 0
    PROVE  Sends(c, "eox", TRUE)
  <1> DEFINE t == Taken(c, "eox")
  <1>1. t.cmd_[1] = "eox" /\ t.size_ = 1 /\ is_midi_cmd("eox") /\ "eox" \notin Data
    BY EndFirst, Kinds
  <1>2. cmd_size("eox") = 1
    BY DEF cmd_size
  <1> HIDE DEF t
  <1>3. ready(t)
    BY <1>1, <1>2 DEF ready
  <1> QED  BY <1>1, <1>2, <1>3, ByteSends DEF t

--------------------------------------------------------------------------------
(* The invariant: what was sent and what the command holds are what was heard.  *)

\* From its byte i on only data was heard.
DataFrom(i) == \A j \in DOMAIN heard : j >= i => heard[j] \in Data

\* The message heard ended with its byte p, or there is none.
EndsAt(p) ==
    \/ p = 0 /\ (heard = << >> \/ heard[1] \in Data)
    \/ heard # << >> /\ heard[1] \in {"mtc", "songpp", "tune", "eox"} /\ p = cmd_size(heard[1])
    \/ p > 1 /\ p <= Len(heard) /\ heard[1] = "sysex" /\ heard[p] = "eox"
       /\ \A i \in 2 .. p - 1 : heard[i] \in Data

\* No message is open,
Idle ==
    /\ cmd.size_ = 0 /\ ~sys_ex(cmd) /\ last_cmd = Zero
    /\ \E p \in 0 .. Len(heard) : EndsAt(p) /\ DataFrom(p + 1) /\ sent = SubSeq(heard, 1, p)

\* one without a size has begun,
Undefined ==
    /\ heard # << >> /\ heard[1] = "undef" /\ DataFrom(2) /\ sent = << >>
    /\ cmd.size_ = 1 /\ cmd.cmd_[1] = "undef" /\ ~sys_ex(cmd) /\ last_cmd = Zero

\* or another system common message,
Begun ==
    /\ heard # << >> /\ heard[1] \in {"mtc", "songpp"} /\ DataFrom(2) /\ sent = << >>
    /\ Len(heard) < cmd_size(heard[1])
    /\ cmd.size_ = Len(heard) /\ \A i \in 1 .. cmd.size_ : cmd.cmd_[i] = heard[i]
    /\ ~sys_ex(cmd) /\ last_cmd = Zero

\* an exclusive is open,
Exclusive ==
    /\ heard # << >> /\ heard[1] = "sysex" /\ DataFrom(2) /\ sys_ex(cmd) /\ last_cmd = Zero
    /\ \E n \in Nat : /\ Len(heard) = 3 * n + cmd.size_ /\ sent = SubSeq(heard, 1, 3 * n)
                      /\ \A i \in 1 .. cmd.size_ : cmd.cmd_[i] = heard[3 * n + i]

\* or n channel messages with the same status were heard, and a part of another one.
OnChannel ==
    /\ heard # << >> /\ heard[1] \in Channel /\ DataFrom(2) /\ ~sys_ex(cmd)
    /\ last_cmd = heard[1]
    /\ LET k == cmd_size(heard[1]) - 1 IN
       \E n \in Nat :
          /\ sent = Expanded(heard[1], Tail(heard), k, n)
          /\ \/ cmd.size_ = 0 /\ n > 0 /\ Len(heard) = n * k + 1
             \/ /\ cmd.size_ > 0 /\ cmd.size_ <= k /\ cmd.cmd_[1] = heard[1]
                /\ Len(heard) = n * k + cmd.size_ /\ (cmd.size_ = 1 => n = 0)
                /\ \A i \in 2 .. cmd.size_ : cmd.cmd_[i] = heard[n * k + i]

Carried == Idle \/ Undefined \/ Begun \/ Exclusive \/ OnChannel

FaithInv == heard \in Seq(Byte) /\ (~misplaced => Carried)

LEMMA HeardFacts ==
    ASSUME heard \in Seq(Byte)
    PROVE  /\ Len(heard) \in Nat /\ DOMAIN heard = 1 .. Len(heard)
           /\ heard # << >> <=> Len(heard) > 0
           /\ heard # << >> => Head(heard) = heard[1] /\ 1 \in DOMAIN heard
  OBVIOUS

\* A byte that is heard goes behind the others.
LEMMA HeardMore ==
    ASSUME heard \in Seq(Byte), NEW b \in Byte, heard' = Append(heard, b)
    PROVE  /\ heard' \in Seq(Byte) /\ Len(heard') = Len(heard) + 1 /\ heard' # << >>
           /\ \A i \in 1 .. Len(heard) : heard'[i] = heard[i]
           /\ heard'[Len(heard) + 1] = b
           /\ heard # << >> => heard'[1] = heard[1]
           /\ \A q \in 0 .. Len(heard) : SubSeq(heard', 1, q) = SubSeq(heard, 1, q)
           /\ Len(heard) \in Nat
           /\ \A i \in Nat : DataFrom(i) /\ b \in Data => DataFrom(i)'
           /\ b \in Data => DataFrom(Len(heard) + 1)'
  <1>1. /\ heard' \in Seq(Byte) /\ Len(heard') = Len(heard) + 1 /\ heard' # << >>
        /\ \A i \in 1 .. Len(heard) : heard'[i] = heard[i]
        /\ heard'[Len(heard) + 1] = b /\ Len(heard) \in Nat
    BY AppendProperties
  <1>2. \A q \in 0 .. Len(heard) : SubSeq(heard', 1, q) = SubSeq(heard, 1, q)
    BY PrefixStays
  <1>3. heard # << >> => heard'[1] = heard[1]
    BY <1>1, HeardFacts
  <1>4. DOMAIN heard' = 1 .. Len(heard) + 1 /\ DOMAIN heard = 1 .. Len(heard)
    BY <1>1
  <1>5. ASSUME NEW i \in Nat, DataFrom(i), b \in Data PROVE DataFrom(i)'
    BY <1>1, <1>4, <1>5 DEF DataFrom
  <1>6. b \in Data => DataFrom(Len(heard) + 1)'
    BY <1>1, <1>4 DEF DataFrom
  <1> QED  BY <1>1, <1>2, <1>3, <1>5, <1>6

--------------------------------------------------------------------------------
(* The invariant implies the property.                                          *)

LEMMA ChannelSizes ==
    ASSUME NEW b \in Channel
    PROVE  /\ cmd_size(b) \in {2, 3}
           /\ cmd_size(b) - 1 \in {1, 2} /\ (b = "note" <=> cmd_size(b) - 1 = 2)
           /\ b \in Status /\ b # "sysex" /\ b # "undef"
  BY Kinds DEF Channel, cmd_size

\* Whole messages and less than another one: how many there are.
LEMMA HowMany ==
    ASSUME NEW k \in {1, 2, 3}, NEW n \in Nat, NEW r \in 0 .. k - 1
    PROVE  (n * k + r) \div k = n
  <1>1. CASE k = 1
    BY <1>1
  <1>2. CASE k = 2
    BY <1>2
  <1>3. CASE k = 3
    BY <1>3
  <1> QED  BY <1>1, <1>2, <1>3

LEMMA CarriedIsFaithful ==
    ASSUME heard \in Seq(Byte), Whole(cmd), Carried
    PROVE  sent = IF heard # << >> /\ Head(heard) = "sysex" THEN Excluded ELSE Complete
  <1> DEFINE L == Len(heard)
             d == Tail(heard)
  <1>1. /\ L \in Nat /\ DOMAIN heard = 1 .. L /\ (heard # << >> <=> L > 0)
        /\ heard # << >> => Head(heard) = heard[1] /\ 1 \in DOMAIN heard /\ Len(d) = L - 1
    BY HeardFacts, HeadTailProperties
  <1>2. SubSeq(heard, 1, 0) = << >>
    BY SubSeqEmpty
  <1>3. cmd.size_ \in 0 .. 2
    BY DEF Whole, Commands
  <1> HIDE DEF L, d
  <1>4. CASE Idle
    <2>1. PICK p \in 0 .. L : EndsAt(p) /\ DataFrom(p + 1) /\ sent = SubSeq(heard, 1, p)
      BY <1>4 DEF Idle, L
    <2>2. CASE p = 0 /\ (heard = << >> \/ heard[1] \in Data)
      <3>1. heard # << >> => Head(heard) \in Data /\ Head(heard) # "sysex"
        BY <1>1, <2>2, Kinds
      <3>2. Complete = << >>
        <4>1. CASE heard = << >>
          BY <4>1 DEF Complete
        <4>2. CASE heard # << >>
          <5>1. Head(heard) \in Data /\ Head(heard) \notin Channel
            BY <3>1, <4>2, Kinds
          <5> QED  BY <4>2, <5>1 DEF Complete
        <4> QED  BY <4>1, <4>2
      <3>3. SubSeq(heard, 1, p) = << >>
        BY <1>2, <2>2
      <3> QED  BY <2>1, <3>1, <3>2, <3>3
    <2>3. CASE heard # << >> /\ heard[1] \in {"mtc", "songpp", "tune", "eox"} /\ p = cmd_size(heard[1])
      <3> DEFINE b == heard[1]
      <3>1. /\ Head(heard) = b /\ b # "sysex" /\ b \notin Data \cup {"undef"} /\ b \notin Channel
            /\ cmd_size(b) \in 1 .. 3
        BY <1>1, <2>3, Kinds DEF Channel, cmd_size
      <3> HIDE DEF b
      <3>2. Complete = IF Len(d) < p - 1 THEN << >> ELSE SubSeq(heard, 1, (p - 1) + 1)
        BY <2>3, <3>1 DEF Complete, b, d
      <3>3. ~(Len(d) < p - 1) /\ (p - 1) + 1 = p
        BY <1>1, <2>1, <2>3
      <3> QED  BY <2>1, <2>3, <3>1, <3>2, <3>3
    <2>4. CASE p > 1 /\ p <= L /\ heard[1] = "sysex" /\ heard[p] = "eox"
               /\ \A i \in 2 .. p - 1 : heard[i] \in Data
      <3>1. heard # << >> /\ Head(heard) = "sysex" /\ p \in DOMAIN heard
        BY <1>1, <2>1, <2>4
      <3>2. ASSUME NEW n \in DOMAIN heard, heard[n] = "eox" PROVE n = p
        <4>1. n # 1 /\ heard[n] \notin Data
          BY <2>4, <3>2, Kinds
        <4>2. ~(n >= p + 1)
          BY <2>1, <4>1 DEF DataFrom
        <4>3. ~(n \in 2 .. p - 1)
          BY <2>4, <4>1
        <4> QED  BY <1>1, <2>1, <4>1, <4>2, <4>3
      <3> DEFINE first == CHOOSE n \in DOMAIN heard : heard[n] = "eox"
      <3>3. first = p
        BY <2>4, <3>1, <3>2
      <3>4. ~InExclusive
        BY <2>4, <3>1 DEF InExclusive
      <3>5. Excluded = SubSeq(heard, 1, first)
        BY <3>4 DEF Excluded
      <3> HIDE DEF first
      <3> QED  BY <2>1, <3>1, <3>3, <3>5
    <2>5. \/ p = 0 /\ (heard = << >> \/ heard[1] \in Data)
          \/ heard # << >> /\ heard[1] \in {"mtc", "songpp", "tune", "eox"} /\ p = cmd_size(heard[1])
          \/ p > 1 /\ p <= L /\ heard[1] = "sysex" /\ heard[p] = "eox"
             /\ \A i \in 2 .. p - 1 : heard[i] \in Data
      <3>1. EndsAt(p)
        BY <2>1
      <3> QED  BY <3>1 DEF EndsAt, L
    <2> QED  BY <2>2, <2>3, <2>4, <2>5
  <1>5. CASE Undefined
    <2>1. heard # << >> /\ Head(heard) = "undef" /\ sent = << >>
      BY <1>1, <1>5 DEF Undefined
    <2>2. "undef" \notin Channel
      BY DEF Channel
    <2>3. Complete = << >>
      BY <2>1, <2>2 DEF Complete
    <2> QED  BY <2>1, <2>3
  <1>6. CASE Begun
    <2> DEFINE b == heard[1]
    <2>1. /\ Head(heard) = b /\ b # "sysex" /\ b \notin Data \cup {"undef"} /\ b \notin Channel
          /\ cmd_size(b) \in 1 .. 3 /\ heard # << >> /\ L < cmd_size(b) /\ sent = << >>
      BY <1>1, <1>6, Kinds DEF Begun, Channel, cmd_size, L
    <2> HIDE DEF b
    <2>2. Complete = IF Len(d) < cmd_size(b) - 1 THEN << >> ELSE SubSeq(heard, 1, (cmd_size(b) - 1) + 1)
      BY <2>1 DEF Complete, d
    <2>3. Len(d) < cmd_size(b) - 1
      BY <1>1, <2>1
    <2> QED  BY <2>1, <2>2, <2>3
  <1>7. CASE Exclusive
    <2>1. PICK n \in Nat : L = 3 * n + cmd.size_ /\ sent = SubSeq(heard, 1, 3 * n)
      BY <1>7 DEF Exclusive, L
    <2>2. heard # << >> /\ Head(heard) = "sysex" /\ heard[1] = "sysex"
      BY <1>1, <1>7 DEF Exclusive
    <2>3. InExclusive
      <3>1. ASSUME NEW i \in DOMAIN heard PROVE heard[i] # "eox"
        <4>1. i = 1 \/ i >= 2
          BY <1>1
        <4>2. i >= 2 => heard[i] \in Data
          BY <1>7 DEF Exclusive, DataFrom
        <4> QED  BY <2>2, <4>1, <4>2, Kinds
      <3> QED  BY <2>2, <3>1 DEF InExclusive
    <2>4. L \div 3 = n
      BY <1>3, <2>1
    <2> QED  BY <2>1, <2>2, <2>3, <2>4 DEF Excluded, L
  <1>8. CASE OnChannel
    <2> DEFINE b == heard[1]
               k == cmd_size(b) - 1
    <2>1. /\ Head(heard) = b /\ heard # << >> /\ b \in Channel
      BY <1>1, <1>8 DEF OnChannel
    <2>2. /\ k \in {1, 2} /\ b # "sysex" /\ b \notin Data \cup {"undef"}
      BY <2>1, ChannelSizes, Kinds
    <2>3. PICK n \in Nat : /\ sent = Expanded(b, d, k, n)
                           /\ \/ cmd.size_ = 0 /\ L = n * k + 1
                              \/ cmd.size_ > 0 /\ cmd.size_ <= k /\ L = n * k + cmd.size_
      BY <1>8 DEF OnChannel, L, d
    <2> HIDE DEF k, b
    <2>4. Complete = Expanded(b, d, k, Len(d) \div k)
      BY <2>1, <2>2 DEF Complete, k, d
    <2>5. Len(d) \div k = n
      <3>1. n * k \in Nat /\ n * k + 0 = n * k
        BY <2>2
      <3>2. \E r \in 0 .. k - 1 : Len(d) = n * k + r
        <4>1. CASE cmd.size_ = 0
          <5>1. Len(d) = n * k + 0 /\ 0 \in 0 .. k - 1
            BY <1>1, <2>1, <2>2, <2>3, <3>1, <4>1
          <5> QED  BY <5>1
        <4>2. CASE cmd.size_ > 0
          <5>1. Len(d) = n * k + (cmd.size_ - 1) /\ cmd.size_ - 1 \in 0 .. k - 1
            BY <1>1, <1>3, <2>1, <2>2, <2>3, <3>1, <4>2
          <5> QED  BY <5>1
        <4> QED  BY <1>3, <4>1, <4>2
      <3> QED  BY <2>2, <3>2, HowMany
    <2> QED  BY <2>1, <2>2, <2>3, <2>4, <2>5
  <1> QED  BY <1>4, <1>5, <1>6, <1>7, <1>8 DEF Carried

--------------------------------------------------------------------------------
(* The invariant is inductive.                                                  *)

LEMMA InitFaith == ParserInit => FaithInv
  <1> SUFFICES ASSUME ParserInit PROVE FaithInv
    OBVIOUS
  <1>1. heard = << >> /\ sent = << >> /\ last_cmd = Zero /\ Len(heard) = 0
    BY DEF ParserInit
  <1>2. cmd.size_ = 0 /\ ~sys_ex(cmd)
    BY DEF ParserInit, Blank, sys_ex
  <1>3. EndsAt(0)
    BY <1>1 DEF EndsAt
  <1>4. DataFrom(0 + 1) /\ sent = SubSeq(heard, 1, 0)
    BY <1>1, SubSeqEmpty DEF DataFrom
  <1>5. Idle
    BY <1>1, <1>2, <1>3, <1>4 DEF Idle
  <1> QED  BY <1>1, <1>5 DEF FaithInv, Carried

\* A fresh status byte: what was heard and sent starts anew with it.
LEMMA FreshHeard ==
    ASSUME NEW b \in Status, heard' = <<b>>
    PROVE  /\ heard' \in Seq(Byte) /\ Len(heard') = 1 /\ heard' # << >> /\ heard'[1] = b
           /\ DataFrom(2)' /\ Tail(heard') = << >>
           /\ SubSeq(heard', 1, 1) = <<b>> /\ SubSeq(heard', 1, 0) = << >>
  <1>1. b \in Byte
    BY DEF Byte
  <1>2. /\ heard' \in Seq(Byte) /\ Len(heard') = 1 /\ heard' # << >> /\ heard'[1] = b
        /\ Tail(heard') = << >> /\ DOMAIN heard' = 1 .. 1
    BY <1>1
  <1>3. DataFrom(2)'
    BY <1>2 DEF DataFrom
  <1>4. SubSeq(heard', 1, 1) = <<b>> /\ SubSeq(heard', 1, 0) = << >>
    <2>1. SubSeq(heard', 1, Len(heard')) = heard'
      BY <1>2, SubSeqFull
    <2>2. SubSeq(heard', 1, 0) = << >>
      BY SubSeqEmpty
    <2> QED  BY <1>2, <2>1, <2>2
  <1> QED  BY <1>2, <1>3, <1>4

\* Between messages nothing is missing, so that an end of exclusive is one of its own.
LEMMA EndAlone ==
    ASSUME FaithInv, ParserInv, ~misplaced, ~InExclusive, ~Unfinished
    PROVE  cmd.size_ = 0 /\ ~sys_ex(cmd)
  <1> DEFINE L == Len(heard)
  <1>1. /\ L \in Nat /\ DOMAIN heard = 1 .. L /\ (heard # << >> <=> L > 0)
        /\ heard # << >> => Head(heard) = heard[1] /\ 1 \in DOMAIN heard
    BY HeardFacts DEF FaithInv
  <1>2. cmd.size_ \in 0 .. 2
    BY DEF ParserInv, Whole, Commands
  <1> HIDE DEF L
  <1>3. CASE Idle
    BY <1>3 DEF Idle
  <1>4. ~Undefined
    BY <1>1 DEF Undefined, Unfinished
  <1>5. ~Begun
    <2> SUFFICES ASSUME Begun PROVE FALSE
      OBVIOUS
    <2>1. heard # << >> /\ Head(heard) \in {"mtc", "songpp"} /\ L < cmd_size(Head(heard))
      BY <1>1 DEF Begun, L
    <2>2. L - 1 < cmd_size(Head(heard)) - 1
      BY <1>1, <2>1 DEF cmd_size
    <2> QED  BY <2>1, <2>2 DEF Unfinished, L
  <1>6. ~Exclusive
    <2> SUFFICES ASSUME Exclusive PROVE FALSE
      OBVIOUS
    <2>1. heard # << >> /\ Head(heard) = "sysex"
      BY <1>1 DEF Exclusive
    <2>2. ASSUME NEW i \in DOMAIN heard PROVE heard[i] # "eox"
      <3>1. i = 1 \/ i >= 2
        BY <1>1
      <3>2. i >= 2 => heard[i] \in Data
        BY DEF Exclusive, DataFrom
      <3> QED  BY <1>1, <2>1, <3>1, <3>2, Kinds
    <2> QED  BY <2>1, <2>2 DEF InExclusive
  <1>7. CASE OnChannel
    <2> DEFINE b == heard[1]
               k == cmd_size(b) - 1
    <2>1. Head(heard) = b /\ heard # << >> /\ b \in Channel /\ ~sys_ex(cmd)
      BY <1>1, <1>7 DEF OnChannel
    <2>2. b \in {"note", "prog"} /\ k \in {1, 2} /\ (b = "note" <=> k = 2)
      BY <2>1, ChannelSizes DEF Channel
    <2>3. PICK n \in Nat :
             \/ cmd.size_ = 0
             \/ cmd.size_ > 0 /\ cmd.size_ <= k /\ L = n * k + cmd.size_ /\ (cmd.size_ = 1 => n = 0)
      BY <1>7 DEF OnChannel, L
    <2> HIDE DEF k
    <2>4. CASE cmd.size_ # 0
      <3>1. cmd.size_ <= k /\ L = n * k + cmd.size_ /\ (cmd.size_ = 1 => n = 0)
        BY <2>3, <2>4
      <3>2. CASE cmd.size_ = 1
        <4>1. L - 1 = 0
          BY <2>2, <3>1, <3>2
        <4>2. cmd_size(b) - 1 > 0
          BY <2>2 DEF k
        <4> QED  BY <2>1, <2>2, <4>1, <4>2 DEF Unfinished, L
      <3>3. CASE cmd.size_ = 2
        <4>1. k = 2 /\ b = "note"
          BY <2>2, <3>1, <3>3
        <4>2. (L - 1) % 2 = 1
          BY <3>1, <3>3, <4>1
        <4> QED  BY <2>1, <4>1, <4>2 DEF Unfinished, L
      <3> QED  BY <1>2, <2>4, <3>2, <3>3
    <2> QED  BY <2>1, <2>4
  <1> QED  BY <1>3, <1>4, <1>5, <1>6, <1>7 DEF FaithInv, Carried

LEMMA ExpandedNone == ASSUME NEW b, NEW d, NEW k \in {1, 2} PROVE Expanded(b, d, k, 0) = << >>
  <1>1. 0 * (k + 1) = 0
    OBVIOUS
  <1> QED  BY <1>1 DEF Expanded

LEMMA TypedExpanded ==
    ASSUME NEW S, NEW b \in S, NEW d, NEW k \in {1, 2}, NEW n \in Nat,
           \A j \in 1 .. n * k : d[j] \in S
    PROVE  Expanded(b, d, k, n) \in Seq(S)
  <1> DEFINE at(i) == IF (i - 1) % (k + 1) = 0 THEN b
                      ELSE d[((i - 1) \div (k + 1)) * k + ((i - 1) % (k + 1))]
             N == n * (k + 1)
  <1>1. Expanded(b, d, k, n) = [i \in 1 .. N |-> at(i)] /\ N \in Nat
    BY DEF Expanded
  <1>2. ASSUME NEW i \in 1 .. N PROVE at(i) \in S
    <2>1. (i - 1) % (k + 1) # 0 =>
             ((i - 1) \div (k + 1)) * k + ((i - 1) % (k + 1)) \in 1 .. n * k
      BY BytePlaces
    <2> QED  BY <2>1
  <1> HIDE DEF at, N
  <1> QED  BY <1>1, <1>2

\* A status byte other than the end of exclusive.
LEMMA FreshFaith ==
    ASSUME ParserInv, NEW b \in Status \ {"eox"}, StatusByte(b)
    PROVE  Carried'
  <1>1. /\ heard' = <<b>> /\ sent' = Seqs!FlattenSeq(ReadyEvents(cmd, b))
        /\ cmd' = Assembled(cmd, b) /\ last_cmd' = IF b \in Channel THEN b ELSE Zero
        /\ Whole(cmd)
    BY DEF StatusByte, ObserveFresh, ParserInv
  <1>2. /\ ready(Taken(cmd, b)) <=> b = "tune"
        /\ sys_ex(cmd') <=> b = "sysex"
        /\ cmd'.size_ = IF b = "tune" THEN 0 ELSE 1
        /\ b # "tune" => cmd'.cmd_[1] = b
        /\ Taken(cmd, b) \in Commands /\ Taken(cmd, b).size_ = 1 /\ Taken(cmd, b).cmd_[1] = b
    BY <1>1, FreshStatus
  <1>3. /\ heard' \in Seq(Byte) /\ Len(heard') = 1 /\ heard' # << >> /\ heard'[1] = b
        /\ DataFrom(2)' /\ Tail(heard') = << >>
        /\ SubSeq(heard', 1, 1) = <<b>> /\ SubSeq(heard', 1, 0) = << >>
    BY <1>1, FreshHeard
  <1>4. b # "tune" => sent' = << >>
    BY <1>1, <1>2, FlattenNone DEF ReadyEvents
  <1>5. CASE b = "tune"
    <2> DEFINE t == Taken(cmd, b)
    <2>1. cmd_size("tune") = 1 /\ "tune" \notin Channel
      BY DEF cmd_size, Channel
    <2>2. t \in Commands /\ ready(t) /\ t.size_ = 1 /\ t.cmd_[1] = "tune"
      BY <1>2, <1>5
    <2>3. sent' = event(t)
      BY <1>1, <2>2, FlattenOne DEF ReadyEvents
    <2> HIDE DEF t
    <2>4. event(t) = Held(t)
      BY <2>1, <2>2, WholeEvent
    <2>5. Held(t) = <<"tune">>
      BY <2>2 DEF Held
    <2>6. sent' = SubSeq(heard', 1, 1)
      BY <1>3, <1>5, <2>3, <2>4, <2>5
    <2>7. EndsAt(1)'
      BY <1>3, <1>5, <2>1 DEF EndsAt
    <2>8. Idle'
      <3>1. DataFrom(1 + 1)' /\ 1 \in 0 .. Len(heard')
        BY <1>3
      <3> QED  BY <1>1, <1>2, <1>5, <2>1, <2>6, <2>7, <3>1 DEF Idle
    <2> QED  BY <2>8 DEF Carried
  <1>6. CASE b = "undef"
    <2>1. "undef" \notin Channel
      BY DEF Channel
    <2>2. Undefined'
      BY <1>1, <1>2, <1>3, <1>4, <1>6, <2>1 DEF Undefined
    <2> QED  BY <2>2 DEF Carried
  <1>7. CASE b \in {"mtc", "songpp"}
    <2>1. b \notin Channel /\ cmd_size(b) \in {2, 3}
      BY <1>7 DEF Channel, cmd_size
    <2>2. Begun'
      <3>1. cmd'.size_ = 1 /\ cmd'.cmd_[1] = heard'[1] /\ ~sys_ex(cmd') /\ last_cmd' = Zero
            /\ heard'[1] \in {"mtc", "songpp"} /\ sent' = << >>
        BY <1>1, <1>2, <1>3, <1>4, <1>7, <2>1
      <3>2. Len(heard') < cmd_size(heard'[1]) /\ \A i \in 1 .. cmd'.size_ : cmd'.cmd_[i] = heard'[i]
        BY <1>3, <2>1, <3>1
      <3> QED  BY <1>3, <3>1, <3>2 DEF Begun
    <2> QED  BY <2>2 DEF Carried
  <1>8. CASE b = "sysex"
    <2>1. "sysex" \notin Channel
      BY DEF Channel
    <2>2. /\ Len(heard') = 3 * 0 + cmd'.size_ /\ sent' = SubSeq(heard', 1, 3 * 0)
          /\ \A i \in 1 .. cmd'.size_ : cmd'.cmd_[i] = heard'[3 * 0 + i]
      BY <1>2, <1>3, <1>4, <1>8
    <2>3. Exclusive'
      BY <1>1, <1>2, <1>3, <1>8, <2>1, <2>2 DEF Exclusive
    <2> QED  BY <2>3 DEF Carried
  <1>9. CASE b \in Channel
    <2> DEFINE k == cmd_size(b) - 1
    <2>1. k \in {1, 2} /\ b # "sysex" /\ b # "tune"
      <3>1. b # "tune"
        BY <1>9 DEF Channel
      <3> QED  BY <1>9, <3>1, ChannelSizes
    <2>2. cmd'.size_ = 1 /\ cmd'.cmd_[1] = b /\ ~sys_ex(cmd') /\ last_cmd' = b /\ sent' = << >>
      BY <1>1, <1>2, <1>4, <1>9, <2>1
    <2> HIDE DEF k
    <2>3. sent' = Expanded(b, Tail(heard'), k, 0) /\ Len(heard') = 0 * k + 1
      BY <1>3, <2>1, <2>2, ExpandedNone
    <2>4. OnChannel'
      <3>1. cmd'.size_ > 0 /\ cmd'.size_ <= k /\ Len(heard') = 0 * k + cmd'.size_ /\ 0 \in Nat
        BY <2>1, <2>2, <2>3
      <3>2. \A i \in 2 .. cmd'.size_ : cmd'.cmd_[i] = heard'[0 * k + i]
        BY <2>2
      <3> QED  BY <1>3, <1>9, <2>2, <2>3, <3>1, <3>2 DEF OnChannel, k
    <2> QED  BY <2>4 DEF Carried
  <1> QED  BY <1>5, <1>6, <1>7, <1>8, <1>9, Kinds DEF Channel

\* An end of exclusive inside an exclusive ends it, with all that was heard.
LEMMA EndsExclusive ==
    ASSUME FaithInv, ParserInv, ~misplaced, InExclusive, StatusByte("eox")
    PROVE  Carried'
  <1> DEFINE L == Len(heard)
             bytes == Seqs!FlattenSeq(ReadyEvents(cmd, "eox"))
  <1>1. /\ heard' = Append(heard, "eox") /\ sent' = sent \o bytes
        /\ cmd' = Assembled(cmd, "eox") /\ last_cmd' = Zero /\ Whole(cmd)
        /\ heard \in Seq(Byte) /\ "eox" \in Byte
    BY DEF StatusByte, Observe, ParserInv, FaithInv, Byte, Status, Channel
  <1>2. /\ L \in Nat /\ DOMAIN heard = 1 .. L /\ L > 0 /\ heard # << >> /\ heard[1] = "sysex"
        /\ \A i \in DOMAIN heard : heard[i] # "eox"
    BY HeardFacts, <1>1 DEF InExclusive
  <1>3. "sysex" \notin {"undef", "mtc", "songpp", "tune", "eox"} \cup Channel \cup Data
    BY Kinds DEF Channel
  <1>4. ~Idle
    <2> SUFFICES ASSUME Idle PROVE FALSE
      OBVIOUS
    <2>1. PICK p \in 0 .. L : EndsAt(p)
      BY DEF Idle, L
    <2>2. p > 1 /\ p <= L /\ heard[p] = "eox"
      BY <1>2, <1>3, <2>1 DEF EndsAt, L
    <2> QED  BY <1>2, <2>2
  <1>5. Exclusive
    BY <1>2, <1>3, <1>4 DEF FaithInv, Carried, Undefined, Begun, OnChannel
  <1>6. PICK n \in Nat : /\ L = 3 * n + cmd.size_ /\ sent = SubSeq(heard, 1, 3 * n)
                         /\ \A i \in 1 .. cmd.size_ : cmd.cmd_[i] = heard[3 * n + i]
    BY <1>5 DEF Exclusive, L
  <1>7. sys_ex(cmd) /\ DataFrom(2)
    BY <1>5 DEF Exclusive
  <1>8. /\ bytes \in Seq(Byte) /\ Len(bytes) = cmd.size_ + 1 /\ bytes[cmd.size_ + 1] = "eox"
        /\ \A i \in 1 .. cmd.size_ : bytes[i] = cmd.cmd_[i]
        /\ cmd'.size_ = 0
    BY <1>1, <1>7, ExclusiveSends DEF Sends
  <1>9. /\ heard' \in Seq(Byte) /\ Len(heard') = L + 1 /\ heard' # << >>
        /\ \A i \in 1 .. L : heard'[i] = heard[i]
        /\ heard'[L + 1] = "eox"
        /\ heard # << >> => heard'[1] = heard[1]
        /\ \A q \in 0 .. L : SubSeq(heard', 1, q) = SubSeq(heard, 1, q)
        /\ DOMAIN heard' = 1 .. L + 1
    BY <1>1, HeardMore, HeardFacts
  <1>10. cmd.size_ \in 0 .. 2
    BY <1>1 DEF Whole, Commands
  <1> HIDE DEF L, bytes
  <1>11. sent' = SubSeq(heard', 1, L + 1)
    <2> DEFINE q == 3 * n
    <2>1. q \in 0 .. L /\ q + cmd.size_ = L
      BY <1>2, <1>6, <1>10
    <2>2. \A i \in 1 .. cmd.size_ : q + i \in 1 .. L
      BY <1>2, <1>10, <2>1
    <2>3. \A i \in 1 .. cmd.size_ : cmd.cmd_[i] = heard[q + i]
      BY <1>6
    <2>4. sent = SubSeq(heard, 1, q)
      BY <1>6
    <2> HIDE DEF q
    <2>5. q \in 0 .. Len(heard') /\ q + Len(bytes) = L + 1
      BY <1>2, <1>8, <1>9, <1>10, <2>1
    <2>6. ASSUME NEW i \in 1 .. Len(bytes) PROVE bytes[i] = heard'[q + i]
      <3>1. CASE i = cmd.size_ + 1
        <4>1. q + i = L + 1
          BY <1>2, <1>10, <2>1, <3>1
        <4> QED  BY <1>8, <1>9, <3>1, <4>1
      <3>2. CASE i # cmd.size_ + 1
        <4>1. i \in 1 .. cmd.size_
          BY <1>8, <1>10, <3>2
        <4> QED  BY <1>8, <1>9, <2>2, <2>3, <4>1
      <3> QED  BY <3>1, <3>2
    <2>7. sent = SubSeq(heard', 1, q)
      BY <1>9, <2>1, <2>4
    <2>8. SubSeq(heard', 1, q) \o bytes = SubSeq(heard', 1, q + Len(bytes))
      <3>1. q + Len(bytes) <= Len(heard') /\ heard' \in Seq(Byte) /\ bytes \in Seq(Byte)
        BY <1>2, <1>8, <1>9, <2>5
      <3> QED  BY <2>5, <2>6, <3>1, PrefixGrows
    <2> QED  BY <1>1, <2>5, <2>7, <2>8
  <1>12. PICK p \in Nat : p = L + 1
    BY <1>2
  <1>13. EndsAt(p)'
    <2>1. ASSUME NEW i \in 2 .. p - 1 PROVE heard'[i] \in Data
      <3>1. i \in 1 .. L /\ i >= 2
        BY <1>2, <1>12
      <3> QED  BY <1>2, <1>7, <1>9, <3>1 DEF DataFrom
    <2>2. p > 1 /\ p <= Len(heard') /\ heard'[1] = "sysex" /\ heard'[p] = "eox"
      BY <1>2, <1>9, <1>12
    <2> QED  BY <2>1, <2>2 DEF EndsAt
  <1>14. DataFrom(p + 1)'
    BY <1>2, <1>9, <1>12 DEF DataFrom
  <1>15. ~sys_ex(cmd')
    BY <1>1, EndOfExclusive
  <1>16. Idle'
    <2>1. p \in 0 .. Len(heard') /\ sent' = SubSeq(heard', 1, p)
      BY <1>2, <1>9, <1>11, <1>12
    <2> QED  BY <1>1, <1>8, <1>13, <1>14, <1>15, <2>1 DEF Idle
  <1> QED  BY <1>16 DEF Carried

\* Every status byte.
LEMMA StatusFaith ==
    ASSUME FaithInv, ParserInv, NEW b \in Status, StatusByte(b)
    PROVE  FaithInv'
  <1>1. heard' \in Seq(Byte)
    <2>1. b \in Byte /\ heard \in Seq(Byte)
      BY DEF Byte, FaithInv
    <2>2. heard' = Append(heard, b) \/ heard' = <<b>>
      BY DEF StatusByte, Observe, ObserveFresh
    <2>3. <<b>> \in Seq(Byte) /\ Append(heard, b) \in Seq(Byte)
      BY <2>1, AppendProperties
    <2> QED  BY <2>2, <2>3
  <1>2. CASE b # "eox"
    <2>1. Carried'
      BY <1>2, FreshFaith
    <2> QED  BY <1>1, <2>1 DEF FaithInv
  <1>3. CASE b = "eox"
    <2>1. CASE misplaced \/ Unfinished
      <3>1. misplaced' = (misplaced \/ Unfinished)
        BY <1>3, <2>1 DEF StatusByte
      <3> QED  BY <1>1, <2>1, <3>1 DEF FaithInv
    <2>2. CASE ~misplaced /\ InExclusive
      <3>1. Carried'
        BY <1>3, <2>2, EndsExclusive
      <3> QED  BY <1>1, <3>1 DEF FaithInv
    <2>3. CASE ~(misplaced \/ Unfinished \/ InExclusive)
      <3> DEFINE bytes == Seqs!FlattenSeq(ReadyEvents(cmd, "eox"))
      <3>1. /\ heard' = <<"eox">> /\ sent' = bytes
            /\ cmd' = Assembled(cmd, "eox") /\ last_cmd' = Zero /\ Whole(cmd)
        BY <1>3, <2>3 DEF StatusByte, ObserveFresh, ParserInv, Channel
      <3>2. cmd.size_ = 0 /\ ~sys_ex(cmd)
        BY <2>3, EndAlone
      <3>3. bytes \in Seq(Byte) /\ Len(bytes) = 0 + 1 /\ bytes[0 + 1] = "eox" /\ cmd'.size_ = 0
        BY <3>1, <3>2, EndSends DEF Sends
      <3> HIDE DEF bytes
      <3>4. bytes = <<"eox">>
        BY <3>3
      <3>5. /\ Len(heard') = 1 /\ heard' # << >> /\ heard'[1] = "eox"
            /\ DataFrom(2)' /\ SubSeq(heard', 1, 1) = <<"eox">>
        BY <1>3, <3>1, FreshHeard
      <3>6. EndsAt(1)'
        <4>1. cmd_size("eox") = 1
          BY DEF cmd_size
        <4> QED  BY <3>5, <4>1 DEF EndsAt
      <3>7. ~sys_ex(cmd')
        BY <3>1, EndOfExclusive
      <3>8. Idle'
        <4>1. DataFrom(1 + 1)' /\ 1 \in 0 .. Len(heard')
          BY <3>5
        <4> QED  BY <3>1, <3>3, <3>4, <3>5, <3>6, <3>7, <4>1 DEF Idle
      <3> QED  BY <1>1, <3>8 DEF FaithInv, Carried
    <2> QED  BY <2>1, <2>2, <2>3
  <1> QED  BY <1>2, <1>3

\* The bytes of a message of its own, when its data byte b is processed.
LEMMA BegunGrows ==
    ASSUME FaithInv, ParserInv, Begun, NEW b \in Data, DataByte(b), ~sys_ex(cmd')
    PROVE  Carried'
  <1> DEFINE L == Len(heard)
             k == cmd_size(heard[1])
             bytes == Seqs!FlattenSeq(Events(cmd, b))
  <1>1. /\ heard' = Append(heard, b) /\ sent' = sent \o bytes /\ last_cmd' = last_cmd
        /\ cmd' = Assembled(cmd, b) /\ Whole(cmd) /\ heard \in Seq(Byte) /\ b \in Byte
    BY DEF DataByte, Observe, ParserInv, FaithInv, Byte
  <1>2. /\ heard # << >> /\ heard[1] \in {"mtc", "songpp"} /\ DataFrom(2) /\ sent = << >>
        /\ L < k /\ cmd.size_ = L /\ \A i \in 1 .. L : cmd.cmd_[i] = heard[i]
        /\ ~sys_ex(cmd) /\ last_cmd = Zero
    BY DEF Begun
  <1>3. k \in {2, 3}
    BY <1>2 DEF cmd_size
  <1>4. /\ heard' \in Seq(Byte) /\ Len(heard') = L + 1 /\ heard' # << >>
        /\ \A i \in 1 .. L : heard'[i] = heard[i]
        /\ heard'[L + 1] = b
        /\ heard'[1] = heard[1]
        /\ L \in Nat /\ L > 0
        /\ DataFrom(2)' /\ DOMAIN heard' = 1 .. L + 1
    <2>1. L \in Nat /\ L > 0
      BY <1>1, <1>2, HeardFacts
    <2>2. /\ heard' \in Seq(Byte) /\ Len(heard') = L + 1 /\ heard' # << >>
          /\ \A i \in 1 .. L : heard'[i] = heard[i]
          /\ heard'[L + 1] = b /\ heard'[1] = heard[1] /\ DataFrom(2)'
      BY <1>1, <1>2, HeardMore
    <2>3. DOMAIN heard' = 1 .. L + 1
      BY <2>2
    <2> QED  BY <2>1, <2>2, <2>3
  <1>5. Sends(cmd, b, L + 1 = k)
    <2>1. cmd.size_ > 0 /\ cmd.cmd_[1] = heard[1]
      BY <1>2, <1>4
    <2> QED  BY <1>1, <1>2, <1>3, <2>1, MessageSends
  <1>6. bytes = Seqs!FlattenSeq(ReadyEvents(cmd, b))
    BY <1>5 DEF Sends
  <1> HIDE DEF L, k, bytes
  <1>7. CASE L + 1 = k
    <2>1. /\ cmd'.size_ = 0
          /\ bytes \in Seq(Byte) /\ Len(bytes) = L + 1 /\ bytes[L + 1] = b
          /\ \A i \in 1 .. L : bytes[i] = cmd.cmd_[i]
      BY <1>1, <1>2, <1>5, <1>6, <1>7 DEF Sends
    <2>2. ASSUME NEW i \in 1 .. L + 1 PROVE bytes[i] = heard'[i]
      <3>1. i = L + 1 \/ i \in 1 .. L
        BY <1>4
      <3> QED  BY <1>2, <1>4, <2>1, <3>1
    <2>3. bytes = heard'
      BY <1>4, <2>1, <2>2, SeqEqual
    <2>4. SubSeq(heard', 1, Len(heard')) = heard'
      BY <1>4, SubSeqFull
    <2>5. sent' = bytes
      BY <1>1, <1>2, <2>1
    <2>6. PICK p \in Nat : p = L + 1
      BY <1>4
    <2>7. EndsAt(p)'
      BY <1>2, <1>4, <1>7, <2>6 DEF EndsAt, k
    <2>8. DataFrom(p + 1)'
      BY <1>4, <2>6 DEF DataFrom
    <2>9. p \in 0 .. Len(heard') /\ sent' = SubSeq(heard', 1, p)
      BY <1>4, <2>3, <2>4, <2>5, <2>6
    <2> QED  BY <1>1, <1>2, <2>1, <2>7, <2>8, <2>9 DEF Idle, Carried
  <1>8. CASE L + 1 # k
    <2>1. /\ cmd'.size_ = L + 1 /\ cmd'.cmd_[L + 1] = b
          /\ \A i \in 1 .. L : cmd'.cmd_[i] = cmd.cmd_[i]
          /\ bytes = << >>
      BY <1>1, <1>2, <1>5, <1>6, <1>8 DEF Sends
    <2>2. ASSUME NEW i \in 1 .. L + 1 PROVE cmd'.cmd_[i] = heard'[i]
      <3>1. i = L + 1 \/ i \in 1 .. L
        BY <1>4
      <3> QED  BY <1>2, <1>4, <2>1, <3>1
    <2>3. L + 1 < cmd_size(heard'[1])
      BY <1>2, <1>3, <1>4, <1>8 DEF k
    <2>4. sent' = << >>
      BY <1>1, <1>2, <2>1
    <2> QED  BY <1>1, <1>2, <1>4, <2>1, <2>2, <2>3, <2>4 DEF Begun, Carried
  <1> QED  BY <1>7, <1>8

\* Those of an exclusive.
LEMMA ExclusiveGrows ==
    ASSUME FaithInv, ParserInv, Exclusive, NEW b \in Data, DataByte(b), sys_ex(cmd')
    PROVE  Carried'
  <1> DEFINE L == Len(heard)
             bytes == Seqs!FlattenSeq(Events(cmd, b))
  <1>1. /\ heard' = Append(heard, b) /\ sent' = sent \o bytes /\ last_cmd' = last_cmd
        /\ cmd' = Assembled(cmd, b) /\ Whole(cmd) /\ heard \in Seq(Byte) /\ b \in Byte
    BY DEF DataByte, Observe, ParserInv, FaithInv, Byte
  <1>2. heard # << >> /\ heard[1] = "sysex" /\ DataFrom(2) /\ sys_ex(cmd) /\ last_cmd = Zero
    BY DEF Exclusive
  <1>3. PICK n \in Nat : /\ L = 3 * n + cmd.size_ /\ sent = SubSeq(heard, 1, 3 * n)
                         /\ \A i \in 1 .. cmd.size_ : cmd.cmd_[i] = heard[3 * n + i]
    BY DEF Exclusive
  <1>4. /\ heard' \in Seq(Byte) /\ Len(heard') = L + 1 /\ heard' # << >>
        /\ \A i \in 1 .. L : heard'[i] = heard[i]
        /\ heard'[L + 1] = b /\ heard'[1] = "sysex" /\ DataFrom(2)'
        /\ \A q \in 0 .. L : SubSeq(heard', 1, q) = SubSeq(heard, 1, q)
        /\ L \in Nat
    BY <1>1, <1>2, HeardMore
  <1>5. Sends(cmd, b, b = "eox" \/ cmd.size_ = 2) /\ b # "eox"
    BY <1>1, <1>2, ExclusiveSends, Kinds
  <1>6. bytes = Seqs!FlattenSeq(ReadyEvents(cmd, b))
    BY <1>5 DEF Sends
  <1>7. cmd.size_ \in 0 .. 2
    BY <1>1 DEF Whole, Commands
  <1> HIDE DEF L, bytes
  <1> DEFINE q == 3 * n
  <1>8. q \in 0 .. L /\ q + cmd.size_ = L
    BY <1>3, <1>4, <1>7
  <1>9. /\ sent = SubSeq(heard', 1, q) /\ sent \in Seq(Byte)
        /\ \A i \in 1 .. cmd.size_ : cmd.cmd_[i] = heard'[q + i]
    <2>1. \A i \in 1 .. cmd.size_ : q + i \in 1 .. L
      BY <1>4, <1>7, <1>8
    <2>2. sent = SubSeq(heard', 1, q)
      BY <1>3, <1>4, <1>8
    <2>3. SubSeq(heard', 1, q) \in Seq(Byte)
      <3>1. \A i \in 1 .. q : heard'[i] \in Byte
        BY <1>4, <1>8
      <3> HIDE DEF q
      <3> QED  BY <1>8, <3>1, SubSeqProperties
    <2> QED  BY <1>3, <1>4, <2>1, <2>2, <2>3
  <1>10. CASE cmd.size_ = 2
    <2>1. /\ cmd'.size_ = 0
          /\ bytes \in Seq(Byte) /\ Len(bytes) = 3 /\ bytes[3] = b
          /\ \A i \in 1 .. 2 : bytes[i] = cmd.cmd_[i]
      BY <1>1, <1>5, <1>6, <1>10 DEF Sends
    <2>2. Len(heard') = 3 * (n + 1) + cmd'.size_ /\ 3 * (n + 1) = q + 3 /\ n + 1 \in Nat
      BY <1>4, <1>8, <1>10, <2>1
    <2>3. sent' = SubSeq(heard', 1, 3 * (n + 1))
      <3> HIDE DEF q
      <3>1. ASSUME NEW i \in 1 .. Len(bytes) PROVE bytes[i] = heard'[q + i]
        <4>1. i = 3 \/ i \in 1 .. 2
          BY <2>1
        <4>2. q + 3 = L + 1
          BY <1>4, <1>8, <1>10
        <4> QED  BY <1>4, <1>9, <1>10, <2>1, <4>1, <4>2
      <3>2. q \in 0 .. Len(heard') /\ q + Len(bytes) <= Len(heard')
        BY <1>4, <1>8, <1>10, <2>1
      <3>3. SubSeq(heard', 1, q) \o bytes = SubSeq(heard', 1, q + Len(bytes))
        <4> DEFINE g == heard'
        <4>1. g \in Seq(Byte) /\ q \in 0 .. Len(g) /\ bytes \in Seq(Byte)
              /\ q + Len(bytes) <= Len(g) /\ \A i \in 1 .. Len(bytes) : bytes[i] = g[q + i]
          BY <1>4, <2>1, <3>1, <3>2
        <4> HIDE DEF g, q, bytes
        <4>2. SubSeq(g, 1, q) \o bytes = SubSeq(g, 1, q + Len(bytes))
          BY <4>1, PrefixGrows, ZenonT(60)
        <4> QED  BY <4>2 DEF g
      <3> QED  BY <1>1, <1>9, <2>1, <2>2, <3>3
    <2>4. \A i \in 1 .. cmd'.size_ : cmd'.cmd_[i] = heard'[3 * (n + 1) + i]
      BY <2>1
    <2>5. Exclusive'
      BY <1>1, <1>2, <1>4, <2>2, <2>3, <2>4 DEF Exclusive
    <2> QED  BY <2>5 DEF Carried
  <1>11. CASE cmd.size_ # 2
    <2>1. /\ cmd'.size_ = cmd.size_ + 1 /\ cmd'.cmd_[cmd.size_ + 1] = b
          /\ \A i \in 1 .. cmd.size_ : cmd'.cmd_[i] = cmd.cmd_[i]
          /\ bytes = << >>
      BY <1>1, <1>5, <1>6, <1>11 DEF Sends
    <2>2. sent' = SubSeq(heard', 1, 3 * n)
      BY <1>1, <1>9, <2>1
    <2>3. Len(heard') = 3 * n + cmd'.size_
      BY <1>4, <1>7, <1>8, <2>1
    <2>4. ASSUME NEW i \in 1 .. cmd'.size_ PROVE cmd'.cmd_[i] = heard'[3 * n + i]
      <3>1. i = cmd.size_ + 1 \/ i \in 1 .. cmd.size_
        BY <1>7, <2>1
      <3>2. q + (cmd.size_ + 1) = L + 1
        BY <1>4, <1>7, <1>8
      <3> QED  BY <1>4, <1>9, <2>1, <3>1, <3>2
    <2>5. Exclusive'
      BY <1>1, <1>2, <1>4, <2>2, <2>3, <2>4 DEF Exclusive
    <2> QED  BY <2>5 DEF Carried
  <1> QED  BY <1>10, <1>11

\* What was sent of channel messages stays what it is when a byte more was heard.
LEMMA ExpandedStays ==
    ASSUME heard \in Seq(Byte), heard # << >>, NEW b \in Data, heard' = Append(heard, b),
           NEW k \in {1, 2}, NEW n \in Nat, n * k < Len(heard)
    PROVE  /\ \A j \in 1 .. n * k : Tail(heard)[j] = Tail(heard')[j]
           /\ \A j \in 1 .. Len(heard) : Tail(heard')[j] = heard'[j + 1] /\ Tail(heard')[j] \in Byte
           /\ \A j \in 1 .. n * k : Tail(heard)[j] \in Byte
           /\ Expanded(heard[1], Tail(heard), k, n) = Expanded(heard[1], Tail(heard'), k, n)
           /\ Expanded(heard[1], Tail(heard), k, n) \in Seq(Byte)
  <1> DEFINE L == Len(heard)
             d == Tail(heard)
             g == Tail(heard')
             h == heard'
             N == n * k
  <1>1. b \in Byte
    BY DEF Byte
  <1>2. /\ h \in Seq(Byte) /\ Len(h) = L + 1 /\ h # << >> /\ L \in Nat
        /\ \A i \in 1 .. L : h[i] = heard[i]
    BY <1>1, HeardMore
  <1>3. g \in Seq(Byte) /\ Len(g) = Len(h) - 1 /\ \A j \in 1 .. Len(g) : g[j] = h[j + 1]
    BY <1>2, HeadTailProperties
  <1>4. d \in Seq(Byte) /\ Len(d) = L - 1 /\ \A j \in 1 .. Len(d) : d[j] = heard[j + 1]
    BY HeadTailProperties
  <1>5. N \in Nat /\ N < L /\ heard[1] \in Byte
    BY HeardFacts
  <1> HIDE DEF L, d, g, h, N
  <1>6. \A j \in 1 .. L : g[j] = h[j + 1] /\ g[j] \in Byte
    BY <1>2, <1>3
  <1>7. ASSUME NEW j \in 1 .. N PROVE d[j] = g[j] /\ d[j] \in Byte
    <2>1. j \in 1 .. Len(d) /\ j + 1 \in 1 .. L /\ j \in 1 .. L
      BY <1>2, <1>4, <1>5
    <2> QED  BY <1>2, <1>4, <1>6, <2>1
  <1>8. Expanded(heard[1], d, k, n) = Expanded(heard[1], g, k, n)
    BY <1>7, ExpandedKept, ZenonT(60) DEF N
  <1>9. Expanded(heard[1], d, k, n) \in Seq(Byte)
    BY <1>5, <1>7, TypedExpanded DEF N
  <1> QED  BY <1>6, <1>7, <1>8, <1>9 DEF L, d, g, h, N

\* m messages and what the command holds are what was heard of a channel status.
LEMMA OnChannelAt ==
    ASSUME heard' # << >>, heard'[1] \in Channel, DataFrom(2)', ~sys_ex(cmd'),
           last_cmd' = heard'[1], NEW k, k = cmd_size(heard'[1]) - 1, NEW m \in Nat,
           sent' = Expanded(heard'[1], Tail(heard'), k, m),
           \/ cmd'.size_ = 0 /\ m > 0 /\ Len(heard') = m * k + 1
           \/ /\ cmd'.size_ > 0 /\ cmd'.size_ <= k /\ cmd'.cmd_[1] = heard'[1]
              /\ Len(heard') = m * k + cmd'.size_ /\ (cmd'.size_ = 1 => m = 0)
              /\ \A i \in 2 .. cmd'.size_ : cmd'.cmd_[i] = heard'[m * k + i]
    PROVE  OnChannel'
  BY ZenonT(60) DEF OnChannel

\* Those of a channel message, whose status and data so far are in the command c.
LEMMA ChannelGrows ==
    ASSUME heard \in Seq(Byte), heard # << >>, heard[1] \in Channel, DataFrom(2),
           NEW b \in Data, heard' = Append(heard, b),
           NEW n \in Nat, NEW k \in {1, 2}, k = cmd_size(heard[1]) - 1,
           sent = Expanded(heard[1], Tail(heard), k, n),
           NEW c, Whole(c), ~sys_ex(c), c.size_ > 0, c.size_ <= k, c.cmd_[1] = heard[1],
           Len(heard) = n * k + c.size_,
           \A i \in 2 .. c.size_ : c.cmd_[i] = heard[n * k + i],
           cmd' = Assembled(c, b), sent' = sent \o Seqs!FlattenSeq(Events(c, b)),
           ~sys_ex(cmd'), last_cmd' = heard[1]
    PROVE  OnChannel'
  <1> DEFINE L == Len(heard)
             N == n * k
             d == Tail(heard)
             g == Tail(heard')
             s == heard[1]
             bytes == Seqs!FlattenSeq(Events(c, b))
  <1>1. b \in Byte /\ s \in Byte
    BY HeardFacts DEF Byte
  <1>2. /\ heard' \in Seq(Byte) /\ Len(heard') = L + 1 /\ heard' # << >>
        /\ \A i \in 1 .. L : heard'[i] = heard[i]
        /\ heard'[L + 1] = b /\ heard'[1] = s /\ DataFrom(2)'
        /\ L \in Nat
    BY <1>1, HeardMore
  <1>3. c.size_ \in 1 .. 2 /\ L = N + c.size_ /\ N \in Nat
    BY DEF Whole, Commands
  <1>4. N < L
    BY <1>3
  <1>5. /\ \A j \in 1 .. L : g[j] = heard'[j + 1] /\ g[j] \in Byte
        /\ Expanded(s, d, k, n) = Expanded(s, g, k, n)
        /\ Expanded(s, d, k, n) \in Seq(Byte)
    BY <1>4, ExpandedStays
  <1>6. Sends(c, b, c.size_ = k)
    <2>1. cmd_size(c.cmd_[1]) \in {2, 3} /\ c.size_ < cmd_size(c.cmd_[1])
      BY <1>3, ChannelSizes
    <2>2. (c.size_ + 1 = cmd_size(c.cmd_[1])) = (c.size_ = k)
      BY <1>3, ChannelSizes
    <2>3. Sends(c, b, c.size_ + 1 = cmd_size(c.cmd_[1]))
      BY <2>1, MessageSends
    <2> QED  BY <2>2, <2>3
  <1>7. bytes = Seqs!FlattenSeq(ReadyEvents(c, b))
    BY <1>6 DEF Sends
  <1>8. \A i \in 2 .. c.size_ : c.cmd_[i] = heard'[N + i]
    <2>1. \A i \in 2 .. c.size_ : N + i \in 1 .. L
      <3> HIDE DEF L, N
      <3> QED  BY <1>3
    <2> QED  BY <1>2, <2>1
  <1>9. /\ sent = Expanded(s, g, k, n) /\ sent' = sent \o bytes
        /\ c.cmd_[1] = s /\ s \in Channel /\ last_cmd' = s /\ k = cmd_size(s) - 1
    BY <1>5
  <1> HIDE DEF L, N, d, g, s, bytes
  <1>10. CASE c.size_ = k
    <2>1. /\ cmd'.size_ = 0
          /\ bytes \in Seq(Byte) /\ Len(bytes) = k + 1 /\ bytes[k + 1] = b
          /\ \A i \in 1 .. k : bytes[i] = c.cmd_[i]
      BY <1>6, <1>7, <1>10 DEF Sends
    <2>2. bytes[1] = s
      <3>1. 1 \in 1 .. k
        OBVIOUS
      <3> QED  BY <1>9, <2>1, <3>1
    <2>3. ASSUME NEW r \in 1 .. k PROVE bytes[r + 1] = g[N + r]
      <3>1. N + r \in 1 .. L /\ (N + r) + 1 = N + (r + 1)
        BY <1>3, <1>10
      <3>2. g[N + r] = heard'[N + (r + 1)]
        BY <1>5, <3>1
      <3>3. CASE r = k
        <4>1. N + (r + 1) = L + 1
          BY <1>3, <1>10, <3>3
        <4> QED  BY <1>2, <2>1, <3>2, <3>3, <4>1
      <3>4. CASE r # k
        <4>0. r = 1 /\ k = 2 /\ c.size_ = 2
          BY <1>10, <3>4
        <4>1. r + 1 \in 2 .. c.size_ /\ r + 1 \in 1 .. k
          BY <4>0
        <4>2. bytes[r + 1] = c.cmd_[r + 1]
          BY <2>1, <4>1
        <4>3. c.cmd_[r + 1] = heard'[N + (r + 1)]
          BY <1>8, <4>1
        <4> QED  BY <3>2, <4>2, <4>3
      <3> QED  BY <3>3, <3>4
    <2>4. Expanded(s, g, k, n) \o bytes = Expanded(s, g, k, n + 1)
      <3> HIDE DEF bytes, g, s
      <3>1. MessageAfter(s, g, k, n, bytes)
        <4>1. /\ Len(bytes) = k + 1 /\ bytes[1] = s /\ \A r \in 1 .. k : bytes[r + 1] = g[N + r]
              /\ \A j \in 1 .. N + k : g[j] \in Byte
          BY <1>3, <1>5, <1>10, <2>1, <2>2, <2>3
        <4> QED  BY <4>1 DEF N, MessageAfter
      <3>2. s \in Byte /\ bytes \in Seq(Byte)
        BY <1>1, <2>1
      <3> QED  BY <3>1, <3>2, ExpandedNext
    <2>5. Len(heard') = (n + 1) * k + 1 /\ n + 1 \in Nat /\ n + 1 > 0
      <3>1. Len(heard') = N + k + 1
        BY <1>2, <1>3, <1>10
      <3>2. (n + 1) * k = N + k
        BY k \in {1, 2} DEF N
      <3> HIDE DEF N
      <3> QED  BY <3>1, <3>2
    <2>6. sent' = Expanded(heard'[1], Tail(heard'), k, n + 1) /\ k = cmd_size(heard'[1]) - 1
      BY <1>2, <1>9, <2>4 DEF g
    <2>7. heard' # << >> /\ heard'[1] \in Channel /\ DataFrom(2)' /\ last_cmd' = heard'[1]
      BY <1>2, <1>9
    <2>8. cmd'.size_ = 0
      BY <2>1
    <2> DEFINE m == n + 1
    <2>9. /\ m \in Nat /\ m > 0 /\ Len(heard') = m * k + 1
          /\ sent' = Expanded(heard'[1], Tail(heard'), k, m) /\ k = cmd_size(heard'[1]) - 1
      BY <2>5, <2>6
    <2> HIDE DEF m
    <2> QED  BY <2>7, <2>8, <2>9, OnChannelAt
  <1>11. CASE c.size_ # k
    <2>1. k = 2 /\ c.size_ = 1
      BY <1>3, <1>11
    <2>2. /\ cmd'.size_ = 2 /\ cmd'.cmd_[2] = b /\ cmd'.cmd_[1] = s /\ bytes = << >>
      BY <1>6, <1>7, <1>9, <2>1 DEF Sends
    <2>3. sent' = Expanded(heard'[1], Tail(heard'), k, n) /\ k = cmd_size(heard'[1]) - 1
      BY <1>2, <1>5, <1>9, <2>2 DEF g
    <2>6. heard' # << >> /\ heard'[1] \in Channel /\ DataFrom(2)' /\ last_cmd' = heard'[1]
          /\ cmd'.cmd_[1] = heard'[1] /\ cmd'.size_ > 0 /\ cmd'.size_ <= k /\ cmd'.size_ # 1
      BY <1>2, <1>9, <2>1, <2>2
    <2>4. Len(heard') = n * k + cmd'.size_ /\ cmd'.cmd_[2] = heard'[n * k + 2]
      <3>1. N + 2 = L + 1
        BY <1>3, <2>1
      <3> QED  BY <1>2, <2>2, <3>1 DEF N
    <2>5. ASSUME NEW i \in 2 .. cmd'.size_ PROVE cmd'.cmd_[i] = heard'[n * k + i]
      <3>1. i = 2
        BY <2>2
      <3> QED  BY <2>4, <3>1
    <2>7. cmd'.size_ = 1 => n = 0
      BY <2>6
    <2> QED  BY <2>3, <2>4, <2>5, <2>6, <2>7, OnChannelAt
  <1> QED  BY <1>10, <1>11

\* The normalizer waits for a byte when a message lacks one.
LEMMA WaitsForMessage ==
    ASSUME FaithInv, ParserInv
    PROVE  /\ Idle => pending_bytes = 0
           /\ Undefined => pending_bytes = 0
           /\ Begun => pending_bytes # 0
           /\ Exclusive => pending_bytes = Endless
           /\ OnChannel => last_cmd # Zero /\ (pending_bytes = 0 <=> cmd.size_ = 0)
  <1> DEFINE L == Len(heard)
  <1>1. /\ L \in Nat /\ DOMAIN heard = 1 .. L /\ (heard # << >> <=> L > 0)
    BY HeardFacts DEF FaithInv
  <1>2. cmd.size_ \in 0 .. 2
    BY DEF ParserInv, Whole, Commands
  <1>3. /\ pending_bytes = Endless <=> sys_ex(cmd)
        /\ ~sys_ex(cmd) /\ cmd.size_ = 0 => pending_bytes = 0
        /\ ~sys_ex(cmd) /\ cmd.size_ # 0 /\ (\A i \in 2 .. cmd.size_ : cmd.cmd_[i] # "eox")
              => pending_bytes = remaining(cmd.cmd_[1], cmd.size_)
    BY DEF ParserInv, InStep
  <1>4. Idle => pending_bytes = 0
    BY <1>3 DEF Idle
  <1>5. Undefined => pending_bytes = 0
    <2> SUFFICES ASSUME Undefined PROVE pending_bytes = 0
      OBVIOUS
    <2>1. ~sys_ex(cmd) /\ cmd.size_ = 1 /\ cmd.cmd_[1] = "undef"
      BY DEF Undefined
    <2>2. remaining("undef", 1) = 0
      BY DEF remaining, cmd_size
    <2> QED  BY <1>3, <2>1, <2>2
  <1>6. Begun => pending_bytes # 0
    <2> SUFFICES ASSUME Begun PROVE pending_bytes # 0
      OBVIOUS
    <2> DEFINE k == cmd_size(heard[1])
    <2>1. /\ L > 0 /\ L < k /\ cmd.size_ = L /\ ~sys_ex(cmd) /\ DataFrom(2)
          /\ \A i \in 1 .. cmd.size_ : cmd.cmd_[i] = heard[i]
      BY <1>1 DEF Begun
    <2>2. k \in {2, 3}
      BY DEF Begun, cmd_size
    <2>3. \A i \in 2 .. cmd.size_ : cmd.cmd_[i] # "eox"
      BY <1>1, <2>1, Kinds DEF DataFrom
    <2>4. pending_bytes = remaining(heard[1], L)
      BY <1>1, <1>3, <2>1, <2>3
    <2> HIDE DEF L
    <2>5. remaining(heard[1], L) = k - L
      BY <1>1, <2>1, <2>2 DEF remaining
    <2> HIDE DEF k
    <2> QED  BY <1>1, <2>1, <2>2, <2>4, <2>5
  <1>7. Exclusive => pending_bytes = Endless
    BY <1>3 DEF Exclusive
  <1>8. OnChannel => last_cmd # Zero /\ (pending_bytes = 0 <=> cmd.size_ = 0)
    <2> SUFFICES ASSUME OnChannel PROVE last_cmd # Zero /\ (pending_bytes = 0 <=> cmd.size_ = 0)
      OBVIOUS
    <2> DEFINE k == cmd_size(heard[1]) - 1
    <2>1. heard # << >> /\ heard[1] \in Channel /\ DataFrom(2) /\ ~sys_ex(cmd) /\ last_cmd = heard[1]
      BY DEF OnChannel
    <2>2. last_cmd # Zero /\ k \in {1, 2}
      BY <2>1, ChannelSizes, Kinds
    <2>3. PICK n \in Nat :
             \/ cmd.size_ = 0
             \/ /\ cmd.size_ > 0 /\ cmd.size_ <= k /\ cmd.cmd_[1] = heard[1]
                /\ L = n * k + cmd.size_
                /\ \A i \in 2 .. cmd.size_ : cmd.cmd_[i] = heard[n * k + i]
      BY DEF OnChannel
    <2>4. CASE cmd.size_ # 0
      <3> DEFINE N == n * k
      <3>1. N \in Nat
        BY <2>2
      <3>2. /\ cmd.size_ <= k /\ cmd.cmd_[1] = heard[1] /\ L = N + cmd.size_
            /\ \A i \in 2 .. cmd.size_ : cmd.cmd_[i] = heard[N + i]
        BY <2>3, <2>4
      <3> HIDE DEF N, L
      <3>3. ASSUME NEW i \in 2 .. cmd.size_ PROVE cmd.cmd_[i] # "eox"
        <4>1. N + i \in DOMAIN heard /\ N + i >= 2
          BY <1>1, <1>2, <3>1, <3>2
        <4> QED  BY <2>1, <3>2, <4>1, Kinds DEF DataFrom
      <3>4. pending_bytes = remaining(heard[1], cmd.size_)
        BY <1>3, <2>1, <2>4, <3>2, <3>3
      <3>5. cmd_size(heard[1]) = k + 1 /\ k + 1 \notin {0, Endless}
        BY <2>1, <2>2, ChannelSizes DEF Channel, cmd_size
      <3> HIDE DEF k
      <3>6. remaining(heard[1], cmd.size_) = k + 1 - cmd.size_
        BY <1>2, <2>2, <3>2, <3>5 DEF remaining
      <3> QED  BY <1>2, <2>2, <2>4, <3>2, <3>4, <3>6
    <2>5. CASE cmd.size_ = 0
      BY <1>3, <2>1, <2>5, <2>2
    <2> QED  BY <2>2, <2>4, <2>5
  <1> QED  BY <1>4, <1>5, <1>6, <1>7, <1>8

LEMMA DataFaith ==
    ASSUME FaithInv, ParserInv, ParserInv', NEW b \in Data, DataByte(b)
    PROVE  FaithInv'
  <1>1. /\ heard' = Append(heard, b) /\ sent' = sent \o Seqs!FlattenSeq(Events(cmd, b))
        /\ cmd' = Assembled(cmd, b) /\ last_cmd' = last_cmd /\ misplaced' = misplaced
        /\ pending_bytes # 0
        /\ pending_bytes' = IF pending_bytes = Endless THEN Endless ELSE pending_bytes - 1
        /\ pending_bytes \in {0, 1, 2, Endless} /\ Whole(cmd)
        /\ heard \in Seq(Byte) /\ b \in Byte
    BY DEF DataByte, Observe, FaithInv, ParserInv, ParserTypeOK, Byte
  <1>2. heard' \in Seq(Byte)
    BY <1>1, HeardMore
  <1>3. sys_ex(cmd') <=> sys_ex(cmd)
    <2>1. (pending_bytes = Endless <=> sys_ex(cmd)) /\ (pending_bytes' = Endless <=> sys_ex(cmd'))
      BY DEF ParserInv, InStep
    <2> QED  BY <1>1, <2>1
  <1>4. CASE misplaced
    BY <1>1, <1>2, <1>4 DEF FaithInv
  <1>5. CASE ~misplaced
    <2>1. Begun \/ Exclusive \/ OnChannel
      BY <1>1, <1>5, WaitsForMessage DEF FaithInv, Carried
    <2>2. CASE Begun
      <3>1. ~sys_ex(cmd')
        BY <1>3, <2>2 DEF Begun
      <3> QED  BY <1>2, <2>2, <3>1, BegunGrows DEF FaithInv
    <2>3. CASE Exclusive
      <3>1. sys_ex(cmd')
        BY <1>3, <2>3 DEF Exclusive
      <3> QED  BY <1>2, <2>3, <3>1, ExclusiveGrows DEF FaithInv
    <2>4. CASE OnChannel
      <3>1. /\ heard # << >> /\ heard[1] \in Channel /\ DataFrom(2) /\ ~sys_ex(cmd)
            /\ last_cmd = heard[1] /\ cmd.size_ # 0
        BY <1>1, <2>4, WaitsForMessage DEF OnChannel
      <3>2. PICK k : k = cmd_size(heard[1]) - 1
        OBVIOUS
      <3>3. k \in {1, 2}
        BY <3>1, <3>2, ChannelSizes
      <3>4. PICK n \in Nat :
               /\ sent = Expanded(heard[1], Tail(heard), k, n)
               /\ cmd.size_ > 0 /\ cmd.size_ <= k /\ cmd.cmd_[1] = heard[1]
               /\ Len(heard) = n * k + cmd.size_
               /\ \A i \in 2 .. cmd.size_ : cmd.cmd_[i] = heard[n * k + i]
        BY <2>4, <3>1, <3>2 DEF OnChannel
      <3>5. ~sys_ex(cmd') /\ last_cmd' = heard[1]
        BY <1>1, <1>3, <3>1
      <3>6. OnChannel'
        BY <1>1, <3>1, <3>2, <3>3, <3>4, <3>5, ChannelGrows
      <3> QED  BY <1>2, <3>6 DEF FaithInv, Carried
    <2> QED  BY <2>1, <2>2, <2>3, <2>4
  <1> QED  BY <1>4, <1>5

LEMMA RunningFaith ==
    ASSUME FaithInv, ParserInv, ParserInv', NEW b \in Data, RunningByte(b)
    PROVE  FaithInv'
  <1> DEFINE c == Assembled(cmd, last_cmd)
  <1>1. /\ heard' = Append(heard, b)
        /\ sent' = sent \o Seqs!FlattenSeq(Events(cmd, last_cmd) \o Events(c, b))
        /\ cmd' = Assembled(c, b) /\ last_cmd' = last_cmd /\ misplaced' = misplaced
        /\ pending_bytes = 0 /\ last_cmd # Zero /\ pending_bytes' = remaining(last_cmd, 2)
        /\ heard \in Seq(Byte) /\ b \in Byte
    BY DEF RunningByte, Observe, FaithInv, Byte
  <1>2. heard' \in Seq(Byte)
    BY <1>1, HeardMore
  <1>3. /\ Whole(c) /\ ~sys_ex(c) /\ c.size_ = 1 /\ c.cmd_[1] = last_cmd
        /\ ~Cut(cmd, last_cmd) /\ ~ready(Taken(cmd, last_cmd)) /\ last_cmd \in Channel
    BY RunningStatus
  <1>4. Events(cmd, last_cmd) \o Events(c, b) = Events(c, b)
    <2>1. Events(cmd, last_cmd) = << >>
      BY <1>3 DEF Events, CutEvents, ReadyEvents
    <2>2. Events(c, b) = << >> \/ \E e : Events(c, b) = <<e>>
      <3> HIDE DEF c
      <3>1. ~Cut(c, b)
        BY Kinds DEF Cut
      <3>2. CutEvents(c, b) = << >>
        BY <3>1 DEF CutEvents
      <3>3. ReadyEvents(c, b) = << >> \/ \E e : ReadyEvents(c, b) = <<e>>
        BY DEF ReadyEvents
      <3> QED  BY <3>2, <3>3 DEF Events
    <2> QED  BY <2>1, <2>2
  <1>5. ~sys_ex(cmd')
    <2>1. remaining(last_cmd, 2) # Endless
      BY <1>3 DEF Channel, remaining, cmd_size
    <2> QED  BY <1>1, <2>1 DEF ParserInv, InStep
  <1>6. CASE misplaced
    BY <1>1, <1>2, <1>6 DEF FaithInv
  <1>7. CASE ~misplaced
    <2>1. OnChannel
      BY <1>1, <1>7, WaitsForMessage DEF FaithInv, Carried, Idle, Undefined
    <2>2. /\ heard # << >> /\ heard[1] \in Channel /\ DataFrom(2)
          /\ last_cmd = heard[1] /\ cmd.size_ = 0
      BY <1>1, <2>1, WaitsForMessage DEF OnChannel
    <2>3. PICK k : k = cmd_size(heard[1]) - 1
      OBVIOUS
    <2>4. k \in {1, 2}
      BY <2>2, <2>3, ChannelSizes
    <2>5. PICK n \in Nat :
             sent = Expanded(heard[1], Tail(heard), k, n) /\ Len(heard) = n * k + 1
      BY <2>1, <2>2, <2>3 DEF OnChannel
    <2> HIDE DEF c
    <2>6. /\ c.size_ > 0 /\ c.size_ <= k /\ c.cmd_[1] = heard[1]
          /\ Len(heard) = n * k + c.size_
          /\ \A i \in 2 .. c.size_ : c.cmd_[i] = heard[n * k + i]
      BY <1>3, <2>2, <2>4, <2>5
    <2>7. sent' = sent \o Seqs!FlattenSeq(Events(c, b)) /\ last_cmd' = heard[1]
      BY <1>1, <1>4, <2>2
    <2>8. OnChannel'
      BY <1>1, <1>3, <1>5, <2>2, <2>3, <2>4, <2>5, <2>6, <2>7, ChannelGrows
    <2> QED  BY <1>2, <2>8 DEF FaithInv, Carried
  <1> QED  BY <1>6, <1>7

LEMMA StrayFaith ==
    ASSUME FaithInv, ParserInv, NEW b \in Data, StrayByte(b)
    PROVE  FaithInv'
  <1> DEFINE L == Len(heard)
  <1>1. /\ heard' = Append(heard, b) /\ sent' = sent \o Seqs!FlattenSeq(<< >>)
        /\ cmd' = cmd /\ last_cmd' = last_cmd /\ misplaced' = misplaced
        /\ pending_bytes = 0 /\ last_cmd = Zero
        /\ heard \in Seq(Byte) /\ b \in Byte
    BY DEF StrayByte, Observe, FaithInv, Byte, normVars
  <1>2. /\ heard' \in Seq(Byte) /\ Len(heard') = L + 1 /\ heard' # << >>
        /\ \A i \in 1 .. L : heard'[i] = heard[i]
        /\ heard'[L + 1] = b
        /\ heard # << >> => heard'[1] = heard[1]
        /\ \A q \in 0 .. L : SubSeq(heard', 1, q) = SubSeq(heard, 1, q)
        /\ L \in Nat
        /\ \A i \in Nat : DataFrom(i) => DataFrom(i)'
    BY <1>1, HeardMore
  <1>3. CASE misplaced
    BY <1>1, <1>2, <1>3 DEF FaithInv
  <1>4. CASE ~misplaced /\ Idle
    <2>1. PICK p \in 0 .. L : EndsAt(p) /\ DataFrom(p + 1) /\ sent = SubSeq(heard, 1, p)
      BY <1>4 DEF Idle
    <2>2. sent \in Seq(Byte)
      <3>1. \A i \in 1 .. p : heard[i] \in Byte
        BY <1>1, <1>2, <2>1
      <3> QED  BY <2>1, <3>1, SubSeqProperties
    <2>3. sent' = SubSeq(heard', 1, p)
      <3>1. sent' = sent
        BY <1>1, <2>2, FlattenNone
      <3> QED  BY <1>2, <2>1, <3>1
    <2>4. EndsAt(p)'
      <3>1. CASE p = 0 /\ heard = << >>
        <4>1. L = 0
          BY <3>1
        <4> QED  BY <1>2, <3>1, <4>1 DEF EndsAt
      <3>2. CASE heard # << >>
        <4>1. heard'[1] = heard[1]
          BY <1>2, <3>2
        <4>2. p \in 1 .. L => heard'[p] = heard[p]
          BY <1>2
        <4>3. p <= Len(heard')
          BY <1>2, <2>1
        <4>4. \A i \in 2 .. p - 1 : heard'[i] = heard[i]
          BY <1>2, <2>1
        <4> HIDE DEF L
        <4>5. p \in 0 .. Len(heard)
          BY <2>1 DEF L
        <4> QED  BY <1>2, <2>1, <3>2, <4>1, <4>2, <4>3, <4>4, <4>5 DEF EndsAt, L
      <3> QED  BY <2>1, <3>1, <3>2 DEF EndsAt
    <2>5. DataFrom(p + 1)' /\ p \in 0 .. Len(heard')
      BY <1>2, <2>1
    <2>6. Idle'
      <3>1. cmd'.size_ = 0 /\ ~sys_ex(cmd') /\ last_cmd' = Zero
        BY <1>1, <1>4 DEF Idle
      <3> QED  BY <2>3, <2>4, <2>5, <3>1 DEF Idle
    <2> QED  BY <1>2, <2>6 DEF FaithInv, Carried
  <1>5. CASE ~misplaced /\ ~Idle
    <2>1. Undefined
      BY <1>1, <1>5, WaitsForMessage DEF FaithInv, Carried
    <2>2. sent' = << >>
      BY <1>1, <2>1, FlattenNone DEF Undefined
    <2>3. Undefined'
      BY <1>1, <1>2, <2>1, <2>2 DEF Undefined
    <2> QED  BY <1>2, <2>3 DEF FaithInv, Carried
  <1> QED  BY <1>3, <1>4, <1>5

LEMMA NextFaith ==
    ASSUME FaithInv, ParserInv, ParserInv', [ParserNext]_parserVars
    PROVE  FaithInv'
  <1>1. ASSUME NEW b \in RealTime, RealTimeByte(b) PROVE FaithInv'
    BY <1>1 DEF RealTimeByte, normVars, history, FaithInv, Carried, Idle, Undefined, Begun,
                Exclusive, OnChannel, EndsAt, DataFrom
  <1>2. CASE UNCHANGED parserVars
    BY <1>2 DEF parserVars, normVars, history, FaithInv, Carried, Idle, Undefined, Begun,
                Exclusive, OnChannel, EndsAt, DataFrom
  <1> QED  BY <1>1, <1>2, StatusFaith, DataFaith, RunningFaith, StrayFaith DEF ParserNext

\* From any status byte on, what a jack receives arrives: the events sent carry exactly the
\* bytes received, once and in order, running status expanded and stray data dropped,
\* whatever the data and however long it goes on, until an end of exclusive comes inside
\* another message (main.cpp:212-259, midi_normalizer.h:15-59, midi_cmd.h:256-312).
THEOREM NothingLostOrAdded == ParserSpec => []Faithful
  <1>1. FaithInv /\ ParserInv => Faithful
    BY CarriedIsFaithful DEF FaithInv, ParserInv, Faithful
  <1>2. FaithInv /\ ParserInv /\ ParserInv' /\ [ParserNext]_parserVars => FaithInv'
    BY NextFaith
  <1> QED  BY InitFaith, ParserInvariant, <1>1, <1>2, PTL DEF ParserSpec
================================================================================
