------------------------------- MODULE Printf -------------------------------
(***************************************************************************)
(* printf, src/src/lib/lib.c, on the longest lines the drivers print.  A   *)
(* conversion takes the next argument, whatever that is.  A character that *)
(* is no conversion is printed with its percent sign and takes none, and   *)
(* the rest of what would be a flag, a width or a length is plain text.    *)
(*                                                                         *)
(* A format is the sequence of the characters that follow its percent      *)
(* signs: what stands between them is printed as it is.                    *)
(***************************************************************************)
EXTENDS Naturals, Sequences

Conversion == {"c", "s", "d", "i", "u", "x", "p"}

Arg(name, kind) == [name |-> name, kind |-> kind]

(* The line of lsblk for a port. *)
lsblk_port ==
  [format |-> <<"c", "-", "-", "u", "u", "u", "u", "x", "x">>,
   args |-> <<Arg("name", "char"), Arg("type", "string"),
              Arg("state", "string"), Arg("bus", "unsigned"),
              Arg("slot", "unsigned"), Arg("func", "unsigned"),
              Arg("port", "unsigned"), Arg("sig", "unsigned"),
              Arg("ssts", "unsigned")>>]

(* The first line that sata_block_read prints. *)
sata_block_read ==
  [format |-> <<"d", "x", "l", "l", "x", "x", "l", "u">>,
   args |-> <<Arg("ctrl_idx", "int"), Arg("bar5", "unsigned"),
              Arg("abar_phys", "long"), Arg("abar_virt", "long"),
              Arg("cap", "unsigned"), Arg("pi", "unsigned"),
              Arg("lba", "long"), Arg("count", "unsigned")>>]

(* The line of lsblk for a controller with a usable BAR. *)
lsblk_controller ==
  [format |-> <<"u", "u", "u", "u", "x", "x", "x">>,
   args |-> <<Arg("i", "unsigned"), Arg("bus", "unsigned"),
              Arg("slot", "unsigned"), Arg("func", "unsigned"),
              Arg("abar", "unsigned"), Arg("pi", "unsigned"),
              Arg("cap", "unsigned")>>]

(* The line for a registered device, and three of the network driver. *)
registered == [format |-> <<"s">>, args |-> <<Arg("name", "string")>>]

rx_buffer ==
  [format |-> <<"p", "x">>,
   args |-> <<Arg("virt", "pointer"), Arg("phys", "unsigned")>>]

poll ==
  [format |-> <<"x", "x", "x", "x">>,
   args |-> <<Arg("cmd", "int"), Arg("isr", "int"), Arg("cbr", "int"),
              Arg("capr", "int")>>]

mac == [format |-> [k \in 1..6 |-> "x"],
        args |-> [k \in 1..6 |-> Arg("mac", "int")]]

Line == {lsblk_port, lsblk_controller, sata_block_read, registered,
         rx_buffer, poll, mac}

VARIABLES
  line,   \* the call that is running
  pos,    \* the place in its format
  taken,  \* how many arguments have been taken
  shown,  \* what was printed for them: the argument and the conversion
  mode    \* "idle" or "percent"

printfVars == <<line, pos, taken, shown, mode>>

Here == line.format[pos]

CallPrintf ==
  /\ mode = "idle"
  /\ line' \in Line
  /\ pos' = 1 /\ taken' = 0 /\ shown' = <<>>
  /\ mode' = "percent"

(* The va_arg of a conversion. *)
Take(conversion) ==
  /\ taken' = taken + 1
  /\ shown' = Append(shown, [arg |-> taken', conversion |-> conversion])
  /\ pos' = pos + 1
  /\ UNCHANGED <<line, mode>>

Convert ==
  /\ mode = "percent" /\ pos <= Len(line.format) /\ Here \in Conversion
  /\ Take(Here)

(* Mutant of PrintUnknown: the default case falls through to a string. *)
PrintUnknownAsString ==
  /\ mode = "percent" /\ pos <= Len(line.format) /\ Here \notin Conversion
  /\ Take("s")

(* The default case prints the percent sign and the character behind it; the
   case "%%", which no line above has, takes no argument either. *)
PrintUnknown ==
  /\ mode = "percent" /\ pos <= Len(line.format) /\ Here \notin Conversion
  /\ pos' = pos + 1
  /\ UNCHANGED <<line, taken, shown, mode>>

ReturnPrintf ==
  /\ mode = "percent" /\ pos > Len(line.format)
  /\ mode' = "idle"
  /\ UNCHANGED <<line, pos, taken, shown>>

PrintfInit == line = mac /\ pos = 1 /\ taken = 0 /\ shown = <<>> /\ mode = "idle"

PrintfNext == CallPrintf \/ Convert \/ PrintUnknown \/ ReturnPrintf

PrintfSpec == PrintfInit /\ [][PrintfNext]_printfVars

-----------------------------------------------------------------------------
(* Properties. *)

(* However far the arguments are out of step with the conversions, none is
   taken that was not passed, and nothing but a string is followed as one. *)
StringsAreStrings ==
  /\ taken <= Len(line.args)
  /\ \A k \in DOMAIN shown :
       shown[k].conversion = "s" => line.args[shown[k].arg].kind = "string"
=============================================================================
