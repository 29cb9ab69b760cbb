---------------------------- MODULE CaptureFence ----------------------------
(***************************************************************************)
(* What the shutdown fence of a gated capture promises, without saying     *)
(* how: a set of workers may be inside evidence processing; once admission *)
(* is closed nobody enters; once the last worker has left, the evidence    *)
(* the capture retained never changes again.  GatedCapture implements it   *)
(* with _GatedCaptureResources.processing() and stop().                    *)
(***************************************************************************)
CONSTANT Workers        \* whoever may be inside processing()

VARIABLES
  admission,            \* "open", "closing" (no new worker) or "drained"
  working,              \* the workers inside processing()
  evidence              \* everything the result is computed from

vars == <<admission, working, evidence>>

Init ==
  /\ admission = "open"
  /\ working = {}

\* A worker is admitted.
Enter(w) ==
  /\ admission = "open"
  /\ w \notin working
  /\ working' = working \cup {w}
  /\ UNCHANGED <<admission, evidence>>

\* Evidence changes at the hand of the capture that sets itself up, or of an
\* admitted worker.
Work ==
  /\ admission = "open" \/ working # {}
  /\ UNCHANGED <<admission, working>>

\* Workers leave, with or without a last change.
Leave(W) ==
  /\ W # {}
  /\ W \subseteq working
  /\ working' = working \ W
  /\ UNCHANGED admission

Close ==
  /\ admission = "open"
  /\ admission' = "closing"
  /\ UNCHANGED <<working, evidence>>

Drain ==
  /\ admission = "closing"
  /\ working = {}
  /\ admission' = "drained"
  /\ UNCHANGED <<working, evidence>>

Next ==
  \/ \E w \in Workers : Enter(w)
  \/ Work
  \/ \E W \in SUBSET Workers : Leave(W)
  \/ Close
  \/ Drain

Spec == Init /\ [][Next]_vars
=============================================================================
