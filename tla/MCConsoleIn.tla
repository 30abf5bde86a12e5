------------------------------ MODULE MCConsoleIn ------------------------------
(* The input of the console: the receive buffers (CdcRx) and the command line   *)
(* (SerialCmd) that takes what they deliver, byte by byte.  Neither looks into  *)
(* the other's state, and the line is edited whatever the packets were, so that *)
(* one of them runs while the other rests: part says which.                     *)
EXTENDS CdcRx

CONSTANTS MaxSize, MaxArgs, Commands, Letters

VARIABLES part, buf, arg, arg_size, command, ready

cmdVars == <<buf, arg, arg_size, command, ready>>

Cmd == INSTANCE SerialCmd

ASSUME CmdAssumption == Cmd!ConstantsFit

PartsInit ==
    /\ part \in {"rx", "cmd"}
    /\ Init /\ Cmd!Init

PartsNext ==
    \/ part = "rx" /\ Next /\ UNCHANGED <<part, cmdVars>>
    \/ part = "cmd" /\ Cmd!Next /\ UNCHANGED <<part, vars>>

PartsSpec == PartsInit /\ [][PartsNext]_<<part, vars, cmdVars>>

\* Every variable of both parts has its type.
PartsTypeOK == TypeOK /\ Cmd!TypeOK

\* The arguments that parse finds (serial_cmd.h:201-273) are those the line has.
ParsedRight == Cmd!ParsedRight
================================================================================
