--------------------------- MODULE ProfileParser ---------------------------
(***************************************************************************)
(* capture/parser.py: what parse_firmware_output makes of the lines of one *)
(* capture.  A line is [k, p, i, l, n]: its kind, the pass, iteration and  *)
(* layer it belongs to (0: none) and the launch that printed it.  Rows and *)
(* headers of all passes have the same number of fields, so that a row     *)
(* under another pass's header is read as that pass's.  The parser is a    *)
(* fold over the lines: the capture carries its value from line to line.   *)
(***************************************************************************)
EXTENDS Integers, Sequences, FiniteSets, SequencesExt

Line(k, p, i, l, n) == [k |-> k, p |-> p, i |-> i, l |-> l, n |-> n]

Keys == {"ITERATIONS", "NUM", "PRESETS", "CLEAN"}
None == Line("none", 0, 0, 0, 0)
Empty == [kinds |-> {}, on |-> FALSE, ended |-> FALSE, twice |-> FALSE, keys |-> {}, passes |-> <<>>]
NewPass(p) == [name |-> p, header |-> None, open |-> FALSE, rows |-> <<>>, iters |-> <<>>]

\* start_iteration and flush_iteration: the rows held are an iteration of their own.
Flushed(pass) == IF pass.open THEN [pass EXCEPT !.iters = Append(@, pass.rows), !.open = FALSE]
                 ELSE pass
Started(pass) == [Flushed(pass) EXCEPT !.open = TRUE, !.rows = <<>>, !.header = None]

\* feed_line: the first line of an iteration is its header, whatever it is; a line with
\* another number of fields is dropped.
Fed(pass, x) ==
  IF ~pass.open THEN pass
  ELSE IF pass.header = None THEN [pass EXCEPT !.header = x]
  ELSE IF x.k = "READY" THEN pass
  ELSE [pass EXCEPT !.rows = Append(@, [under |-> pass.header, row |-> x])]

OnLast(acc, F(_)) ==
  IF acc.passes = <<>> THEN acc ELSE [acc EXCEPT !.passes[Len(acc.passes)] = F(@)]

\* Mutant: a pass that is announced again goes on where it was.
OpenPass_Again(acc, x) == [OnLast(acc, Flushed) EXCEPT !.passes = Append(@, NewPass(x.p))]

OpenPass(acc, x) ==
  IF \E j \in DOMAIN acc.passes : acc.passes[j].name = x.p THEN [acc EXCEPT !.twice = TRUE]
  ELSE [OnLast(acc, Flushed) EXCEPT !.passes = Append(@, NewPass(x.p))]

\* An iteration before any pass belongs to "_default", here the pass 0.
OpenIteration(acc) ==
  OnLast(IF acc.passes = <<>> THEN [acc EXCEPT !.passes = <<NewPass(0)>>] ELSE acc, Started)

\* One line of the loop.
ReadLine(acc, x) ==
  CASE acc.ended \/ acc.twice -> acc
    [] ~acc.ended /\ ~acc.twice ->
       CASE x.k = "START" -> [acc EXCEPT !.on = TRUE]
         [] x.k = "END" -> [OnLast(acc, Flushed) EXCEPT !.ended = TRUE]
         [] x.k \in Keys /\ acc.on -> [acc EXCEPT !.keys = @ \cup {x.k}]
         [] x.k = "PRESET" /\ acc.on -> OpenPass(acc, x)
         [] x.k = "ITER" /\ acc.on -> OpenIteration(acc)
         [] x.k \in {"HDR", "ROW", "READY"} /\ acc.on -> OnLast(acc, LAMBDA pass : Fed(pass, x))
         [] OTHER -> acc

\* The parser after one more line; capture_pmu asks which kinds of line were there at all.
Read(acc, x) == [ReadLine(acc, x) EXCEPT !.kinds = acc.kinds \cup {x.k}]

\* _record_identity and _check_identities.  A header fed as data is a layer of its own,
\* the layer 0; a row under a row has no layer.
Identity(r) == r.row.l
Identities(rows) == {Identity(rows[j]) : j \in DOMAIN rows}
Identified(rows) ==
  /\ \A j \in DOMAIN rows : rows[j].under.k = "HDR"
  /\ Cardinality(Identities(rows)) = Len(rows)

\* Mutant: iterations may differ in their layers.
SameLayers_Averaged(passes) ==
  \A j \in DOMAIN passes : \A i \in DOMAIN passes[j].iters : Identified(passes[j].iters[i])

\* _average_iterations and _merge_presets: one set of layers over all iterations of all passes.
SameLayers(passes) ==
  \A j, k \in DOMAIN passes : \A i \in DOMAIN passes[j].iters, m \in DOMAIN passes[k].iters :
    /\ Identified(passes[j].iters[i])
    /\ Identities(passes[j].iters[i]) = Identities(passes[k].iters[m])

\* _check_presets: the names and their number, as far as they were received.
PassesAnnounced(acc, plan) ==
  LET names == {acc.passes[j].name : j \in DOMAIN acc.passes}
      parsed == IF names = {0} /\ plan.passes = 1 THEN {1} ELSE names
  IN /\ "PRESETS" \in acc.keys => parsed = 1 .. plan.passes
     /\ "NUM" \in acc.keys => Len(acc.passes) = plan.passes

\* _check_iterations.
IterationsThere(acc, plan) ==
  \A j \in DOMAIN acc.passes :
    LET iters == acc.passes[j].iters
    IN /\ iters # <<>> /\ \A i \in DOMAIN iters : iters[i] # <<>>
       /\ "ITERATIONS" \in acc.keys => Len(iters) = plan.iterations

\* The samples that stand behind the counters of one pass: of its iterations, those whose
\* columns are in the header it ends with.
SamplesOf(pass) ==
  UNION {{[pass |-> r.under.p, layer |-> r.row.l, iter |-> r.row.i, launch |-> r.row.n] :
            r \in {s \in ToSet(pass.iters[i]) : s.under.p = pass.header.p /\ s.row.p = s.under.p}} :
         i \in DOMAIN pass.iters}

\* capture_pmu and parse_firmware_output on the lines of a capture.
Parsed(acc, plan) ==
  IF /\ {"START", "END"} \subseteq acc.kinds
     /\ acc.ended /\ ~acc.twice
     /\ PassesAnnounced(acc, plan) /\ IterationsThere(acc, plan) /\ SameLayers(acc.passes)
     /\ acc.passes # <<>>
  THEN [ok |-> TRUE, samples |-> UNION {SamplesOf(acc.passes[j]) : j \in DOMAIN acc.passes}]
  ELSE [ok |-> FALSE]
=============================================================================
