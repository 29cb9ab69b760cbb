--------------------------- MODULE TerminalFrame ---------------------------
(***************************************************************************)
(* The post-GATE record on the wire: the lines the power firmware writes,  *)
(* what a lossy stream makes of them, and the host's scan and parser.      *)
(*                                                                         *)
(* A line is its key and the launch that wrote it; the values belong to    *)
(* the launch.  Lines the parser treats alike are one line here: COUNTS    *)
(* for the version, status and counts, CLOCK for the two elapsed times,    *)
(* FLAGS for the phase and the gate, SPAN for the scope, duration, count   *)
(* and overflow of a measurement.  Loss takes whole lines.                 *)
(***************************************************************************)
EXTENDS Integers, Sequences, SequencesExt

Required == {"COUNTS", "CLOCK", "FLAGS"}
Refused == [ok |-> FALSE]

Lines(keys, n) == [i \in DOMAIN keys |-> [key |-> keys[i], launch |-> n]]

\* hpx_power_terminal_report: the record of launch n, with or without a measurement.
Keys == {"START", "COUNTS", "CLOCK", "FLAGS", "SOURCE", "ENERGY", "SPAN", "CHARGE", "END"}
Line == [key : Keys, launch : Nat]

Plain == <<"START", "COUNTS", "CLOCK", "FLAGS", "END">>
Measured == <<"START", "COUNTS", "CLOCK", "FLAGS", "SOURCE", "ENERGY", "SPAN", "CHARGE", "END">>
FrameOf(n, measured) == Lines(IF measured THEN Measured ELSE Plain, n)

\* parse_power_terminal_envelope on the lines between START and END.  The one
\* check of values that a record of this firmware can fail is the duration:
\* completed work with no time between the two reads of the accumulator.
Parse(lines, r) ==
  LET keys == {lines[i].key : i \in DOMAIN lines}
      bad == \/ \E i, j \in DOMAIN lines : i # j /\ lines[i].key = lines[j].key
             \/ ~(Required \subseteq keys)
             \/ ("SOURCE" \in keys) # ("ENERGY" \in keys)
             \/ /\ "SOURCE" \in keys
                /\ ("SPAN" \notin keys \/ (r.completed > 0 /\ ~r.moved))
  IN IF lines = <<>> THEN Refused
     ELSE IF bad THEN Refused
     ELSE [ok |-> TRUE, launch |-> lines[1].launch, measured |-> "SOURCE" \in keys,
           charge |-> "CHARGE" \in keys]

EndAt(buffer) == SelectInSeq(buffer, LAMBDA l: l.key = "END")
StartBefore(buffer, end) == SelectLastInSubSeq(buffer, 1, end - 1, LAMBDA l: l.key = "START")

\* Mutant: an END is paired with the first START before it.
StartFor_First(buffer, end) == SelectInSubSeq(buffer, 1, end - 1, LAMBDA l: l.key = "START")

\* The last START before an END: a frame that lost its END cannot take the next one.
StartFor(buffer, end) == StartBefore(buffer, end)

\* One round of the inner loop: the first END, the frame it closes, what is left.
Scan(buffer, r) ==
  LET end == EndAt(buffer)
      start == StartFor(buffer, end)
      rest == SubSeq(buffer, end + 1, Len(buffer))
  IN IF end = 0 THEN [got |-> Refused, rest |-> buffer, frame |-> FALSE]
     ELSE IF start = 0 THEN [got |-> Refused, rest |-> rest, frame |-> FALSE]
     ELSE [got |-> Parse(SubSeq(buffer, start + 1, end - 1), r), rest |-> rest, frame |-> TRUE]
=============================================================================
