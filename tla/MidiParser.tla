------------------------------ MODULE MidiParser -------------------------------
(* From received bytes to USB events, for one jack: midi_process_byte with the  *)
(* normalizer, which puts back the status that running status leaves out and    *)
(* drops data without one, and the command being assembled (midi_cmd_t).        *)
(*                                                                              *)
(* A status byte is known by its kind: the code takes kinds apart by a serial   *)
(* number (midi_cmd_serial) and looks their sizes up in one table.  An event is *)
(* known by the bytes that its header makes the other side take from it.        *)
EXTENDS Naturals, Sequences
Seqs == INSTANCE SequencesExt

CONSTANTS Data,     \* the data bytes
          Window    \* bound: bytes observed from one fresh status byte on

\* Channel messages with two data bytes and with one, system common, real time.
Channel  == {"note", "prog"}
Common   == {"mtc", "songpp", "tune", "undef"}
Status   == Channel \cup Common \cup {"sysex", "eox"}
RealTime == {"clock"}
Zero     == "zero"      \* no byte: no running status, padding of an event

ASSUME DataAssumption == Data \cap (Status \cup RealTime \cup {Zero}) = {}
ASSUME WindowAssumption == Window \in Nat \ {0}

Endless == 255
MaxSize == 3

\* The bytes of a message, its status included.
cmd_size(b) ==
    CASE b \in {"note", "songpp"} -> 3
      [] b \in {"prog", "mtc"} -> 2
      [] b = "undef" -> 0
      [] b = "sysex" -> Endless
      [] OTHER -> 1

is_midi_cmd(b) == b \in Status \cup RealTime

VARIABLES
    last_cmd,         \* normalizer: the running status
    pending_bytes,    \* normalizer: data bytes the message still takes
    cmd,              \* current_cmd: the fields cmd_, size_ and sys_ex_
    out,              \* the events sent by the last step
    heard,            \* history: the bytes from the last fresh status byte on
    sent,             \* history: what the events sent for them carry
    misplaced         \* history: an end of exclusive came inside another message

normVars   == <<last_cmd, pending_bytes>>
history    == <<heard, sent, misplaced>>
parserVars == <<normVars, cmd, out, history>>

Commands ==
    [cmd_ : [1 .. MaxSize -> Data \cup Status \cup RealTime \cup {Zero}],
     size_ : 0 .. MaxSize, sys_ex_ : BOOLEAN]

Blank == [cmd_ |-> [i \in 1 .. MaxSize |-> Zero], size_ |-> 0, sys_ex_ |-> FALSE]

ParserInit ==
    /\ last_cmd = Zero
    /\ pending_bytes = 0
    /\ cmd = Blank
    /\ out = << >>
    /\ heard = << >>
    /\ sent = << >>
    /\ misplaced = FALSE

--------------------------------------------------------------------------------
(* midi_cmd_t                                                                   *)

sys_ex(c) == c.sys_ex_ \/ (c.size_ > 0 /\ c.cmd_[1] = "sysex")

ready(c) ==
    /\ c.size_ # 0
    /\ \/ c.size_ = MaxSize
       \/ IF is_midi_cmd(c.cmd_[1]) /\ c.cmd_[1] # "sysex"
          THEN c.size_ = cmd_size(c.cmd_[1])
          ELSE c.cmd_[c.size_] = "eox"

\* Mutant: the end of an exclusive does not clear sys_ex_.
resetKeepsSysEx(c) ==
    LET goesOn == c.size_ = MaxSize /\ c.cmd_[1] = "sysex"
    IN  [cmd_ |-> c.cmd_, size_ |-> 0, sys_ex_ |-> goesOn \/ c.sys_ex_]

\* The bytes stay in the array.
reset(c) ==
    LET ends   == c.size_ > 0 /\ c.cmd_[c.size_] = "eox"
        goesOn == c.size_ = MaxSize /\ c.cmd_[1] = "sysex"
    IN  [cmd_ |-> c.cmd_, size_ |-> 0, sys_ex_ |-> ~ends /\ (goesOn \/ c.sys_ex_)]

\* Mutant: an end of exclusive always starts a command, like every status byte.
readEoxFresh(c, b) ==
    IF is_midi_cmd(b)
    THEN [cmd_ |-> [c.cmd_ EXCEPT ![1] = b], size_ |-> 1, sys_ex_ |-> FALSE]
    ELSE IF (c.size_ > 0 \/ c.sys_ex_) /\ c.size_ < MaxSize
    THEN [cmd_ |-> [c.cmd_ EXCEPT ![c.size_ + 1] = b], size_ |-> c.size_ + 1,
          sys_ex_ |-> c.sys_ex_]
    ELSE c

read(c, b) ==
    IF is_midi_cmd(b) /\ (b # "eox" \/ c.size_ = 0)
    THEN [cmd_ |-> [c.cmd_ EXCEPT ![1] = b], size_ |-> 1, sys_ex_ |-> FALSE]
    ELSE IF (c.size_ > 0 \/ c.sys_ex_) /\ c.size_ < MaxSize
    THEN [cmd_ |-> [c.cmd_ EXCEPT ![c.size_ + 1] = b], size_ |-> c.size_ + 1,
          sys_ex_ |-> c.sys_ex_]
    ELSE c

\* How many bytes the header of the event stands for: copy, then cin2size.
carried(c) ==
    IF ~is_midi_cmd(c.cmd_[1]) \/ c.cmd_[1] = "sysex"
    THEN IF c.size_ = 3 THEN 3 ELSE 2
    ELSE cmd_size(c.cmd_[1])

\* The first byte is copied whatever the size is, the others are padded.
event(c) ==
    [i \in 1 .. carried(c) |-> IF i = 1 \/ i <= c.size_ THEN c.cmd_[i] ELSE Zero]

--------------------------------------------------------------------------------
(* midi_process_byte2: what it makes of the command c, and the events it sends. *)

\* A status byte cuts an open exclusive short: what there is of it is sent.
Cut(c, b) == is_midi_cmd(b) /\ b # "eox" /\ sys_ex(c)

Taken(c, b) == read(IF Cut(c, b) THEN reset(c) ELSE c, b)

Assembled(c, b) == IF ready(Taken(c, b)) THEN reset(Taken(c, b)) ELSE Taken(c, b)

CutEvents(c, b) == IF Cut(c, b) THEN <<event(c)>> ELSE << >>

ReadyEvents(c, b) == IF ready(Taken(c, b)) THEN <<event(Taken(c, b))>> ELSE << >>

Events(c, b) == CutEvents(c, b) \o ReadyEvents(c, b)

--------------------------------------------------------------------------------
(* What was heard, and what the events for it carry.                            *)

Observe(b, events) ==
    /\ Len(heard) < Window
    /\ heard' = Append(heard, b)
    /\ sent' = sent \o Seqs!FlattenSeq(events)

\* A status byte that starts afresh.
ObserveFresh(b, events) ==
    /\ heard' = <<b>>
    /\ sent' = Seqs!FlattenSeq(events)
    /\ misplaced' = FALSE

InExclusive ==
    heard # << >> /\ Head(heard) = "sysex" /\ \A i \in DOMAIN heard : heard[i] # "eox"

\* A message other than an exclusive has begun and lacks data.
Unfinished ==
    /\ heard # << >>
    /\ LET b == Head(heard)
           n == Len(heard) - 1
       IN  \/ b = "undef"
           \/ b = "note" /\ (n = 0 \/ n % 2 = 1)
           \/ b \in {"prog", "mtc", "songpp"} /\ n < cmd_size(b) - 1

--------------------------------------------------------------------------------
(* midi_process_byte, by what the normalizer makes of the byte.                 *)

\* How many data bytes a message of status b still takes after n of its bytes.
remaining(b, n) ==
    IF cmd_size(b) \in {0, Endless} THEN cmd_size(b)
    ELSE IF n > cmd_size(b) THEN 0 ELSE cmd_size(b) - n

\* A status byte other than real time passes.
StatusByte(b) ==
    /\ last_cmd' = IF b \in Channel THEN b ELSE Zero
    /\ pending_bytes' = remaining(b, 1)
    /\ cmd' = Assembled(cmd, b)
    /\ out' = Events(cmd, b)
    /\ IF b = "eox" /\ (InExclusive \/ Unfinished \/ misplaced)
       THEN Observe(b, ReadyEvents(cmd, b)) /\ misplaced' = (misplaced \/ Unfinished)
       ELSE ObserveFresh(b, ReadyEvents(cmd, b))

\* A data byte the message waits for passes.
DataByte(b) ==
    /\ pending_bytes # 0
    /\ pending_bytes' = IF pending_bytes = Endless THEN Endless ELSE pending_bytes - 1
    /\ cmd' = Assembled(cmd, b)
    /\ out' = Events(cmd, b)
    /\ Observe(b, out')
    /\ UNCHANGED <<last_cmd, misplaced>>

\* A data byte after a complete message: its status is processed again before it.
RunningByte(b) ==
    /\ pending_bytes = 0
    /\ last_cmd # Zero
    /\ pending_bytes' = remaining(last_cmd, 2)
    /\ cmd' = Assembled(Assembled(cmd, last_cmd), b)
    /\ out' = Events(cmd, last_cmd) \o Events(Assembled(cmd, last_cmd), b)
    /\ Observe(b, out')
    /\ UNCHANGED <<last_cmd, misplaced>>

\* A data byte that belongs to nothing is dropped.
StrayByte(b) ==
    /\ pending_bytes = 0
    /\ last_cmd = Zero
    /\ out' = << >>
    /\ Observe(b, << >>)
    /\ UNCHANGED <<normVars, cmd, misplaced>>

\* A real time byte goes out at once, through a command of its own.
RealTimeByte(b) ==
    /\ out' = <<event(read(Blank, b))>>
    /\ UNCHANGED <<normVars, cmd, history>>

ParserNext ==
    \/ \E b \in Status : StatusByte(b)
    \/ \E b \in Data : DataByte(b) \/ RunningByte(b) \/ StrayByte(b)
    \/ \E b \in RealTime : RealTimeByte(b)

ParserSpec == ParserInit /\ [][ParserNext]_parserVars

--------------------------------------------------------------------------------
(* Properties                                                                   *)

\* Types: the normalizer counts at most two data bytes or has no limit, and a command
\* is never left complete in current_cmd (midi_normalizer.h:61-63, midi_cmd.h:305-312).
ParserTypeOK ==
    /\ last_cmd \in Channel \cup {Zero}
    /\ pending_bytes \in {0, 1, 2, Endless}
    /\ cmd \in Commands
    /\ cmd.size_ < MaxSize
    /\ misplaced \in BOOLEAN

\* The bytes of n channel messages of status b with k data bytes each, taken from d.
Expanded(b, d, k, n) ==
    [i \in 1 .. n * (k + 1) |->
        LET m == (i - 1) \div (k + 1)
            r == (i - 1) % (k + 1)
        IN  IF r = 0 THEN b ELSE d[m * k + r]]

\* The complete messages among the bytes heard, without what belongs to none.
Complete ==
    LET b == Head(heard)
        d == Tail(heard)
        k == cmd_size(b) - 1
    IN  CASE heard = << >> \/ b \in Data \cup {"undef"} -> << >>
          [] heard # << >> /\ b \in Channel -> Expanded(b, d, k, Len(d) \div k)
          [] OTHER -> IF Len(d) < k THEN << >> ELSE SubSeq(heard, 1, k + 1)

\* What can be sent of an exclusive: threes while it is open, all of it once it has ended.
Excluded ==
    IF InExclusive
    THEN SubSeq(heard, 1, 3 * (Len(heard) \div 3))
    ELSE SubSeq(heard, 1, CHOOSE n \in DOMAIN heard : heard[n] = "eox")

\* Whatever came before, from any status byte on the events of a jack carry exactly the
\* bytes received, once and in order, with running status expanded and stray data
\* dropped: complete messages at once, an exclusive in threes and the rest with its end
\* (main.cpp:212-259).  Only an end of exclusive inside another message spoils this,
\* until the next status byte of another kind.
Faithful ==
    ~misplaced =>
        sent = IF heard # << >> /\ Head(heard) = "sysex" THEN Excluded ELSE Complete

\* Normalizer and command, which see the bytes independently, count the same message:
\* an exclusive is open in both or in neither, and the data bytes one waits for are
\* those the other lacks (midi_normalizer.h:15-59 against midi_cmd.h:256-303).  An end
\* of exclusive that was taken for data ends the message for the normalizer only.
InStep ==
    /\ pending_bytes = Endless <=> sys_ex(cmd)
    /\ ~sys_ex(cmd) =>
          pending_bytes =
              IF cmd.size_ = 0 \/ (cmd.size_ > 1 /\ \E i \in 2 .. cmd.size_ : cmd.cmd_[i] = "eox")
              THEN 0 ELSE remaining(cmd.cmd_[1], cmd.size_)

\* An event beside the one that a byte completes, or one that is padded, is sent only
\* when a status byte cuts an exclusive short (main.cpp:247-250).
OnlyCutsPad ==
    [][(\/ Len(out') > 1
        \/ \E i \in DOMAIN out' : \E j \in DOMAIN out'[i] : out'[i][j] = Zero)
       => pending_bytes = Endless /\ Len(heard') = 1]_parserVars
================================================================================
