------------------------------- MODULE SerialCmd -------------------------------
(* The command line of the serial console, serial_cmd_t: a line is edited byte  *)
(* by byte, split into arguments at its end, and its first argument looked up.  *)
(*                                                                              *)
(* The program is one object used by one interrupt; what is checked is that the *)
(* one-pass loop of parse, with its quotes and its bounded table, finds the     *)
(* arguments that a line has, for every line.                                   *)
EXTENDS Naturals, Sequences

CONSTANTS MaxSize,    \* MAX_SIZE, characters of a line (50)
          MaxArgs,    \* MAX_ARGS, entries of arg_ (5)
          Commands,   \* the letters that are commands
          Letters     \* the other characters, neither blank nor quote; DEL is one

\* What an instance has to assume of them.
ConstantsFit ==
    /\ MaxSize \in Nat \ {0} /\ MaxArgs \in Nat \ {0}
    /\ "DEL" \in Letters
    /\ {"blank", "quote", "unknown"} \cap (Letters \cup Commands) = {}

Chars == Commands \cup Letters \cup {"blank", "quote"}

VARIABLES
    buf,        \* buf_ up to size_
    arg,        \* arg_: the first position and the one after the last of each argument
    arg_size,   \* arg_size_
    command,    \* command_
    ready       \* ready_

vars == <<buf, arg, arg_size, command, ready>>

TypeOK ==
    /\ buf \in Seq(Chars) /\ Len(buf) <= MaxSize
    /\ arg \in Seq([start : 1 .. MaxSize + 1, end : 1 .. MaxSize + 1])
    /\ arg_size \in 0 .. MaxSize + 1
    /\ command \in Commands \cup {"unknown"}
    /\ ready \in BOOLEAN

Init ==
    /\ buf = << >>
    /\ arg = << >> /\ arg_size = 0
    /\ command = "unknown"
    /\ ready = FALSE

--------------------------------------------------------------------------------
(* parse.                                                                       *)

\* The state of the loop: where the argument being read starts, the arguments found, that
\* it is quoted, and that the table is full and parse has returned.
Begin == [start |-> 1, found |-> << >>, in_quote |-> FALSE, full |-> FALSE]

\* The argument ends before position i, and the next one may start after it.
Ended(s, i) ==
    [start    |-> i + 1,
     found    |-> Append(s.found, [start |-> s.start, end |-> i]),
     in_quote |-> FALSE,
     full     |-> Len(s.found) + 1 >= MaxArgs]

\* Mutant of Look: a blank ends an argument in quotes, too.
LookBlank(s, i, b) ==
    CASE s.full                           -> s
      [] b = "quote" /\ i = s.start       -> [s EXCEPT !.start = i + 1, !.in_quote = TRUE]
      [] b = "quote" /\ s.in_quote        -> Ended(s, i)
      [] b = "blank" /\ i = s.start       -> [s EXCEPT !.start = i + 1]
      [] b = "blank"                      -> Ended(s, i)
      [] OTHER                            -> s

\* The loop body for character b at position i.
Look(s, i, b) ==
    CASE s.full                                       -> s
      [] ~s.full /\ b = "quote" /\ i = s.start        ->
           [s EXCEPT !.start = i + 1, !.in_quote = TRUE]
      [] ~s.full /\ b = "quote" /\ i # s.start /\ s.in_quote -> Ended(s, i)
      [] ~s.full /\ b = "blank" /\ ~s.in_quote ->
           IF i = s.start THEN [s EXCEPT !.start = i + 1] ELSE Ended(s, i)
      [] OTHER                                        -> s

Loop(line) ==
    LET at[i \in 0 .. Len(line)] == IF i = 0 THEN Begin ELSE Look(at[i - 1], i, line[i])
    IN  at[Len(line)]

\* The arguments parse finds: the last one ends with the line, unless parse returned.
Found(line) ==
    LET s == Loop(line)
    IN  IF s.full \/ s.start > Len(line) THEN s.found
        ELSE Append(s.found, [start |-> s.start, end |-> Len(line) + 1])

\* An argument of one character may be a command.
Lookup(line, a) ==
    IF a.end - a.start = 1 /\ line[a.start] \in Commands THEN line[a.start] ELSE "unknown"

\* The end of the line.  A table that is full ends parse before it looks for the command,
\* after it wrote the start of the next entry: in memory this is arg_size_, so that what
\* is read from it later may be this position.
parse ==
    LET s == Loop(buf)
        f == Found(buf)
    IN  /\ arg' = f
        /\ arg_size' \in {Len(f)} \cup IF s.full THEN {s.start} ELSE {}
        /\ command' = IF f = << >> \/ s.full THEN "unknown" ELSE Lookup(buf, f[1])

--------------------------------------------------------------------------------
(* The operations.                                                              *)

\* read of a newline or carriage return.
EndOfLine ==
    /\ ~ready
    /\ parse
    /\ ready' = TRUE
    /\ UNCHANGED buf

\* read of another byte: DEL takes back the last one; a line that is full stays.
Type(b) ==
    /\ ~ready
    /\ buf' = IF b = "DEL" /\ buf # << >> THEN SubSeq(buf, 1, Len(buf) - 1)
              ELSE IF Len(buf) >= MaxSize THEN buf ELSE Append(buf, b)
    /\ UNCHANGED <<arg, arg_size, command, ready>>

\* process_serial_cmd ran the command, and reset.
Reset ==
    /\ ready
    /\ ready' = FALSE
    /\ buf' = << >>
    /\ command' = "unknown"
    /\ UNCHANGED <<arg, arg_size>>

Next == EndOfLine \/ Reset \/ \E b \in Chars : Type(b)

Spec == Init /\ [][Next]_vars

--------------------------------------------------------------------------------
(* What a line means, independently of the loop.                                *)

\* The first position from i on at which line has one of the characters cs, one after the
\* end if there is none.
First(line, i, cs) ==
    CHOOSE j \in i .. Len(line) + 1 :
        /\ j > Len(line) \/ line[j] \in cs
        /\ \A k \in i .. j - 1 : line[k] \notin cs

\* The arguments of line, from position i on: blanks before an argument are skipped; an
\* argument that begins with quotes goes to the next quote, any other to the next blank.
Words(line) ==
    LET word(s, e) == [start |-> s, end |-> e]
        from[i \in 1 .. Len(line) + 2] ==
            LET b == First(line, i, Chars \ {"blank"})
                q == First(line, b, Chars \ {"quote"})
                e == IF b <= Len(line) /\ line[b] = "quote"
                     THEN First(line, q, {"quote"})
                     ELSE First(line, b, {"blank"})
            IN  IF i > Len(line) \/ b > Len(line) \/ q > Len(line) THEN << >>
                ELSE <<word(q, e)>> \o from[e + 1]
    IN  from[1]

\* The arguments of a line that fit the table, the last of them at the end of the line or
\* one before the table is full.
Fits(line) == ~Loop(line).full

\* A line whose arguments fit the table is split as it should be, whatever blanks and quotes
\* it has, and its command is its first argument (serial_cmd.h:201-273).  One that does not
\* fit is not executed (serial_cmd.h:227, 245), however much of it was understood: its
\* first arguments are those of the line.
ParsedRight ==
    /\ ready /\ Fits(buf) =>
        /\ arg = Words(buf) /\ arg_size = Len(arg)
        /\ command = IF arg = << >> THEN "unknown" ELSE Lookup(buf, arg[1])
    /\ ready /\ ~Fits(buf) =>
        /\ command = "unknown"
        /\ arg = SubSeq(Words(buf), 1, MaxArgs)
================================================================================
