--------------------------- MODULE HostBench_proofs ---------------------------
(***************************************************************************)
(* Proofs about what the host does to the bench.  The supply relay, for    *)
(* any number of operations, of calls that raise and of interrupts: what   *)
(* an operation has set up it undoes, and a power cycle leaves the target  *)
(* supplied, but for what the steps that were hit leave by themselves, and *)
(* never for one mishap in the off window.  The fixture capture, for       *)
(* any number of resets nobody asked for: a capture that is accepted read  *)
(* what one launch of its image wrote.  The boards on the desk, for any    *)
(* number of them: an accepted text is of the board, the image and the     *)
(* launch it is said to be of.  The verdict on a power run, for any unit   *)
(* of work, loss, drift and packet rate within the stated bounds.  And the *)
(* image that runs on the board, for every build a configuration can ask   *)
(* for: its window measures what it is meant to and its wire is as the     *)
(* registry declares.                                                      *)
(***************************************************************************)
EXTENDS SupplyRelay, FixtureCapture, ProbeBench, Verdict, FirmwareImage, FiniteSetTheorems,
        SequenceTheorems, TLAPS

\* What the steps do to the passthrough and to the set-up of a capture, the rest apart.
LEMMA PartsStep ==
  ASSUME SupplyTypes, pc \in Steps \cup {"idle"}, [SupplyNext]_supplyVars
  PROVE  /\ passing' \in {"no", "kept", "given"}
         /\ stats' \subseteq {"topic", "control"}
         /\ struck' \subseteq Steps \X Hows
<1>1. /\ passing \in {"no", "kept", "given"} /\ stats \subseteq {"topic", "control"}
      /\ struck \subseteq Steps \X Hows
  BY Zenon DEF SupplyTypes
<1>2. passing' \in {passing, "no", "kept", "given"}
  BY Zenon DEF SupplyNext, supplyVars, books, BeginOp, End, CaptureAuto, Subscribe, StatsOn,
     Measure, StatsOff, Unsubscribe, PowerOff, OffWait, RestoreSupply, PowerOn, Settle,
     Enable, Disable
<1>3. \/ stats' \in {stats, {}, {"topic"}, stats \cup {"control"}}
      \/ \E part \in {"topic", "control"} : stats' = stats \ {part}
  BY Zenon DEF SupplyNext, supplyVars, books, BeginOp, End, CaptureAuto, Subscribe, StatsOn,
     Measure, StatsOff, Unsubscribe, PowerOff, OffWait, RestoreSupply, PowerOn, Settle,
     Enable, Disable, MaybeStats
<1>4. \/ struck' \in {struck, {}}
      \/ pc # "idle" /\ \E how \in Hows : struck' = struck \cup {<<pc, how>>}
  BY SMT DEF SupplyNext, supplyVars, books, BeginOp, End, CaptureAuto, Subscribe, StatsOn,
     Measure, StatsOff, Unsubscribe, PowerOff, OffWait, RestoreSupply, PowerOn, Settle,
     Enable, Disable, Fine, VendorRaises, Interrupted, Strikes, Hows
<1>5. struck' \subseteq Steps \X Hows
  <2>1. CASE struck' \in {struck, {}}
    BY <2>1, <1>1
  <2>2. CASE pc # "idle" /\ \E how \in Hows : struck' = struck \cup {<<pc, how>>}
    <3>1. PICK how \in Hows : struck' = struck \cup {<<pc, how>>}
      BY <2>2
    <3>2. <<pc, how>> \in Steps \X Hows
      BY <2>2
    <3> QED
      BY <3>1, <3>2, <1>1
  <2> QED
    BY <1>4, <2>1, <2>2
<1> QED
  BY <1>1, <1>2, <1>3, <1>5

\* Every step keeps the account of the handles; what is left set up, or the target without
\* supply, is explained by what struck.
LEMMA SupplyStep == SupplyIInv /\ [SupplyNext]_supplyVars => SupplyIInv'
<1> SUFFICES ASSUME SupplyIInv, [SupplyNext]_supplyVars PROVE SupplyIInv'
  OBVIOUS
<1>r. /\ passing' \in {"no", "kept", "given"} /\ stats' \subseteq {"topic", "control"}
      /\ struck' \subseteq Steps \X Hows
  BY PartsStep DEF SupplyIInv, SupplyTypeOK
<1> USE RelayAssumption
    DEF SupplyIInv, SupplyTypeOK, SupplyTypes, HandlesAccounted, SetUpAt, OpAt, SuppliedAt,
        SupplyRestored, Struck, Steps, Hows, Operations, books, Fine, Fault, Strikes,
        VendorRaises, Interrupted, Relay, MaybeRelay, MaybeStats
<1>1. ASSUME NEW o \in Operations, BeginOp(o), o = "enable" => passing # "kept" PROVE SupplyIInv'
  <2>1. SupplyTypes' /\ pc' \in Steps \cup {"idle"}
    BY <1>r, <1>1 DEF BeginOp
  <2>2. HandlesAccounted'
    BY <1>r, <1>1 DEF BeginOp
  <2>3. OpAt' /\ SuppliedAt'
    BY <1>r, <1>1 DEF BeginOp
  <2>4. SetUpAt'
    BY <1>r, <1>1 DEF BeginOp
  <2> QED
    BY <2>1, <2>2, <2>3, <2>4
<1>2. CASE End
  <2>1. SupplyTypes' /\ pc' \in Steps \cup {"idle"}
    BY <1>r, <1>2 DEF End
  <2>2. HandlesAccounted'
    BY <1>r, <1>2 DEF End
  <2>3. OpAt' /\ SuppliedAt'
    BY <1>r, <1>2 DEF End
  <2>4. SetUpAt'
    BY <1>r, <1>2 DEF End
  <2> QED
    BY <2>1, <2>2, <2>3, <2>4
<1>3. CASE CaptureAuto
  <2>1. SupplyTypes' /\ pc' \in Steps \cup {"idle"}
    BY <1>r, <1>3 DEF CaptureAuto
  <2>2. HandlesAccounted'
    BY <1>r, <1>3 DEF CaptureAuto
  <2>3. OpAt' /\ SuppliedAt'
    BY <1>r, <1>3 DEF CaptureAuto
  <2>4. SetUpAt'
    BY <1>r, <1>3 DEF CaptureAuto
  <2> QED
    BY <2>1, <2>2, <2>3, <2>4
<1>4. CASE Subscribe
  <2>1. SupplyTypes' /\ pc' \in Steps \cup {"idle"}
    BY <1>r, <1>4 DEF Subscribe
  <2>2. HandlesAccounted'
    BY <1>r, <1>4 DEF Subscribe
  <2>3. OpAt' /\ SuppliedAt'
    BY <1>r, <1>4 DEF Subscribe
  <2>4. SetUpAt'
    BY <1>r, <1>4 DEF Subscribe
  <2> QED
    BY <2>1, <2>2, <2>3, <2>4
<1>5. CASE StatsOn
  <2>1. SupplyTypes' /\ pc' \in Steps \cup {"idle"}
    BY <1>r, <1>5 DEF StatsOn
  <2>2. HandlesAccounted'
    BY <1>r, <1>5 DEF StatsOn
  <2>3. OpAt' /\ SuppliedAt'
    BY <1>r, <1>5 DEF StatsOn
  <2>4. SetUpAt'
    BY <1>r, <1>5 DEF StatsOn
  <2> QED
    BY <2>1, <2>2, <2>3, <2>4
<1>6. CASE Measure
  <2>1. SupplyTypes' /\ pc' \in Steps \cup {"idle"}
    BY <1>r, <1>6 DEF Measure
  <2>2. HandlesAccounted'
    BY <1>r, <1>6 DEF Measure
  <2>3. OpAt' /\ SuppliedAt'
    BY <1>r, <1>6 DEF Measure
  <2>4. SetUpAt'
    BY <1>r, <1>6 DEF Measure
  <2> QED
    BY <2>1, <2>2, <2>3, <2>4
<1>7. CASE StatsOff
  <2>1. SupplyTypes' /\ pc' \in Steps \cup {"idle"}
    BY <1>r, <1>7 DEF StatsOff
  <2>2. HandlesAccounted'
    BY <1>r, <1>7 DEF StatsOff
  <2>3. OpAt' /\ SuppliedAt'
    BY <1>r, <1>7 DEF StatsOff
  <2>4. SetUpAt'
    BY <1>r, <1>7 DEF StatsOff
  <2> QED
    BY <2>1, <2>2, <2>3, <2>4
<1>8. CASE Unsubscribe
  <2>1. SupplyTypes' /\ pc' \in Steps \cup {"idle"}
    BY <1>r, <1>8 DEF Unsubscribe
  <2>2. HandlesAccounted'
    BY <1>r, <1>8 DEF Unsubscribe
  <2>3. OpAt' /\ SuppliedAt'
    BY <1>r, <1>8 DEF Unsubscribe
  <2>4. SetUpAt'
    BY <1>r, <1>8 DEF Unsubscribe
  <2> QED
    BY <2>1, <2>2, <2>3, <2>4
<1>9. CASE PowerOff
  <2>1. SupplyTypes' /\ pc' \in Steps \cup {"idle"}
    BY <1>r, <1>9 DEF PowerOff
  <2>2. HandlesAccounted'
    BY <1>r, <1>9 DEF PowerOff
  <2>3. OpAt' /\ SuppliedAt'
    BY <1>r, <1>9 DEF PowerOff
  <2>4. SetUpAt'
    BY <1>r, <1>9 DEF PowerOff
  <2> QED
    BY <2>1, <2>2, <2>3, <2>4
<1>10. CASE OffWait
  <2>1. SupplyTypes' /\ pc' \in Steps \cup {"idle"}
    BY <1>r, <1>10 DEF OffWait
  <2>2. HandlesAccounted'
    BY <1>r, <1>10 DEF OffWait
  <2>3. OpAt' /\ SuppliedAt'
    BY <1>r, <1>10 DEF OffWait
  <2>4. SetUpAt'
    BY <1>r, <1>10 DEF OffWait
  <2> QED
    BY <2>1, <2>2, <2>3, <2>4
<1>11. CASE RestoreSupply
  <2>1. SupplyTypes' /\ pc' \in Steps \cup {"idle"}
    BY <1>r, <1>11 DEF RestoreSupply
  <2>2. HandlesAccounted'
    BY <1>r, <1>11 DEF RestoreSupply
  <2>3. OpAt' /\ SuppliedAt'
    BY <1>r, <1>11 DEF RestoreSupply
  <2>4. SetUpAt'
    BY <1>r, <1>11 DEF RestoreSupply
  <2> QED
    BY <2>1, <2>2, <2>3, <2>4
<1>12. CASE PowerOn
  <2>1. SupplyTypes' /\ pc' \in Steps \cup {"idle"}
    BY <1>r, <1>12 DEF PowerOn
  <2>2. HandlesAccounted'
    BY <1>r, <1>12 DEF PowerOn
  <2>3. OpAt' /\ SuppliedAt'
    BY <1>r, <1>12 DEF PowerOn
  <2>4. SetUpAt'
    BY <1>r, <1>12 DEF PowerOn
  <2> QED
    BY <2>1, <2>2, <2>3, <2>4
<1>13. CASE Settle
  <2>1. SupplyTypes' /\ pc' \in Steps \cup {"idle"}
    BY <1>r, <1>13 DEF Settle
  <2>2. HandlesAccounted'
    BY <1>r, <1>13 DEF Settle
  <2>3. OpAt' /\ SuppliedAt'
    BY <1>r, <1>13 DEF Settle
  <2>4. SetUpAt'
    BY <1>r, <1>13 DEF Settle
  <2> QED
    BY <2>1, <2>2, <2>3, <2>4
<1>14. CASE Enable
  <2>1. SupplyTypes' /\ pc' \in Steps \cup {"idle"}
    BY <1>r, <1>14 DEF Enable
  <2>2. HandlesAccounted'
    BY <1>r, <1>14 DEF Enable
  <2>3. OpAt' /\ SuppliedAt'
    BY <1>r, <1>14 DEF Enable
  <2>4. SetUpAt'
    BY <1>r, <1>14 DEF Enable
  <2> QED
    BY <2>1, <2>2, <2>3, <2>4
<1>15. CASE Disable
  <2>1. SupplyTypes' /\ pc' \in Steps \cup {"idle"}
    BY <1>r, <1>15 DEF Disable, GiveBack, OneLess
  <2>2. HandlesAccounted'
    BY <1>r, <1>15 DEF Disable, GiveBack, OneLess
  <2>3. OpAt' /\ SuppliedAt'
    BY <1>r, <1>15 DEF Disable, GiveBack, OneLess
  <2>4. SetUpAt'
    BY <1>r, <1>15 DEF Disable, GiveBack, OneLess
  <2> QED
    BY <2>1, <2>2, <2>3, <2>4
<1>16. CASE UNCHANGED supplyVars
  BY <1>r, <1>16 DEF supplyVars
<1> QED
  BY <1>1, <1>2, <1>3, <1>4, <1>5, <1>6, <1>7, <1>8, <1>9, <1>10, <1>11, <1>12, <1>13, <1>14, <1>15, <1>16 DEF SupplyNext

\* Nothing is held or set up before the first operation.
LEMMA InitSupply == SupplyInit => SupplyIInv
BY RelayAssumption
   DEF SupplyInit, SupplyIInv, SupplyTypeOK, SupplyTypes, HandlesAccounted, SetUpAt, OpAt, Steps,
       Hows, Operations, SuppliedAt, SupplyRestored

\* The inductive invariant holds throughout, wherever a call raises or an interrupt arrives.
THEOREM SupplyInvariance == SupplySpec => []SupplyIInv
BY InitSupply, SupplyStep, PTL DEF SupplySpec

\* Shape of the state and the account of the device's handles: whatever raises or is
\* interrupted, the driver holds the device exactly for the operation under way, for the
\* passthrough it keeps, and for the references an interrupt left to nobody.
THEOREM SupplyTypeCorrect == SupplySpec => []SupplyTypeOK
<1>1. SupplyIInv => SupplyTypeOK
  BY DEF SupplyIInv
<1> QED
  BY <1>1, SupplyInvariance, PTL

\* capture undoes its set-up, whatever raises or is interrupted elsewhere than in the calls
\* that undo it (and in the subscribe that nothing guards).
THEOREM CaptureUndoesItsSetUp == SupplySpec => []StatsUndone
<1>1. SupplyIInv => StatsUndone
  BY DEF SupplyIInv, SetUpAt, StatsUndone
<1> QED
  BY <1>1, SupplyInvariance, PTL

\* No operation leaves statistics on or, after a power cycle, the target without supply, but
\* for the mishaps StatsUndone and SupplyRestored name: in particular one mishap never leaves
\* a power cycle with the relay open unless it hits the one call after the guarded window.
THEOREM SupplyHolds == SupplySpec => []SupplyIsSound
<1>1. SupplyIInv => SupplyIsSound
  BY DEF SupplyIInv, SetUpAt, StatsUndone, SuppliedAt, SupplyIsSound
<1> QED
  BY <1>1, SupplyInvariance, PTL

-----------------------------------------------------------------------------
\* The four sinks.
LEMMA SinkSet ==
  /\ SinkNames = {"checksum", "output", "status", "timing"}
  /\ Sinks[1] = "checksum" /\ Sinks[2] = "output" /\ Sinks[3] = "status" /\ Sinks[4] = "timing"
BY DEF SinkNames, Sinks

\* Content of sinks: wiped, and written one at a time.
LEMMA HoldsContent ==
  ASSUME NEW what \in Words, NEW who \in Nat, NEW of \in Words
  PROVE  Holds(what, who, of) \in Content
BY DEF Holds, Content

\* Wiped.
LEMMA BlankContent ==
  ASSUME NEW what \in Words
  PROVE  Blank(what) \in [SinkNames -> Content]
<1>1. Holds(what, 0, "-") \in Content
  BY HoldsContent DEF Words
<1> QED
  BY <1>1, Zenon DEF Blank, SinkNames

LEMMA PutContent ==
  ASSUME NEW f \in [SinkNames -> Content], NEW s \in SinkNames, NEW c \in Content
  PROVE  [f EXCEPT ![s] = c] \in [SinkNames -> Content]
OBVIOUS

\* What is put is what is read from a sink.
LEMMA ContentStep ==
  ASSUME CapTypes, ContentTypes, [CapNext]_capVars
  PROVE  ContentTypes'
<1> USE DEF ContentTypes, CapTypes
<1>1. ASSUME Poison PROVE sinks' \in [SinkNames -> Content] /\ UNCHANGED snaps
  <2>1. Blank("poison") \in [SinkNames -> Content]
    BY BlankContent DEF Words
  <2> QED
    BY <1>1, <2>1 DEF Poison
<1>2. ASSUME Read PROVE ContentTypes'
  <2>1. PICK s \in SinkNames :
          \/ first' = [first EXCEPT ![s] = sinks[s]] /\ UNCHANGED <<second, sinks>>
          \/ second' = [second EXCEPT ![s] = sinks[s]] /\ UNCHANGED <<first, sinks>>
    <3>1. (reads % 4) + 1 \in 1..4
      OBVIOUS
    <3>2. Sinks[(reads % 4) + 1] \in SinkNames
      BY <3>1 DEF SinkNames
    <3> QED
      BY <1>2, <3>2, Zenon DEF Read, board
  <2>2. sinks[s] \in Content
    OBVIOUS
  <2> QED
    BY <2>1, <2>2, PutContent
<1>3. ASSUME Runs PROVE sinks' \in [SinkNames -> Content]
  <2>1. CASE Startup
    <3>1. Holds("running", launch, "-") \in Content /\ Blank("cleared") \in [SinkNames -> Content]
      BY HoldsContent, BlankContent DEF Words
    <3> QED
      BY <2>1, <3>1, PutContent, SinkSet, Zenon DEF Startup
  <2>2. CASE UNCHANGED sinks
    BY <2>2
  <2>3. CASE Report
    <3>1. PICK s \in SinkNames, what \in Words, of \in Words : Puts(s, what, of)
      <4>1. sinks["output"].is \in Words
        BY SinkSet DEF Content
      <4> QED
        BY <2>3, <4>1, SinkSet DEF Report, Words
    <3>2. Holds(what, launch, of) \in Content
      BY HoldsContent
    <3> QED
      BY <3>1, <3>2, PutContent DEF Puts
  <2> QED
    BY <1>3, <2>1, <2>2, <2>3 DEF Runs
<1>4. CASE Host
  <2>1. Poison \/ Read \/ UNCHANGED <<sinks, snaps>>
    BY <1>4
       DEF Host, Start, Probe, Flash, Reset, Attach, Poll, Halt, Judge, Observes, Enter, Resets,
                Rearm, SignalGo, Rise, Fall, Done, Raises, KillCapture, board
  <2> QED
    BY <1>1, <1>2, <2>1 DEF snaps
<1>5. CASE Runs /\ UNCHANGED snaps
  BY <1>3, <1>5 DEF snaps
<1>6. CASE Glitch /\ UNCHANGED snaps
  BY <1>6 DEF Glitch, snaps
<1>7. CASE UNCHANGED capVars
  BY <1>7 DEF capVars, board, snaps
<1> QED
  BY <1>4, <1>5, <1>6, <1>7 DEF CapNext, snaps

LEMMA TypesStep ==
  ASSUME CapTypes, [CapNext]_capVars
  PROVE  CapTypes'
<1> USE FixtureCaptureAssumption, SinkSet
        DEF CapTypes, board, line, snaps, resets, Goes, Ended, Before, Asked, Windowed, Poisoned
<1>1. CASE Start /\ UNCHANGED <<rail, resets>>
  BY <1>1 DEF Start
<1>2. CASE Probe /\ UNCHANGED <<rail, resets>>
  BY <1>2 DEF Probe, LetsGo
<1>3. CASE Flash /\ UNCHANGED <<rail, resets>>
  BY <1>3 DEF Flash, Launch
<1>4. CASE Poison /\ UNCHANGED <<rail, resets>>
  BY <1>4 DEF Poison, LetsGo, Blank, Holds, SinkNames
<1>5. CASE Reset /\ UNCHANGED <<rail, resets>>
  BY <1>5 DEF Reset, Launch
<1>6. CASE Attach /\ UNCHANGED <<rail, resets>>
  BY <1>6 DEF Attach
<1>7. CASE Poll /\ UNCHANGED <<rail, resets>>
  BY <1>7 DEF Poll, Completed
<1>8. CASE Halt /\ UNCHANGED <<rail, resets>>
  BY <1>8 DEF Halt
<1>9. CASE Read /\ UNCHANGED <<rail, resets>>
  BY <1>9 DEF Read
<1>10. CASE Judge /\ UNCHANGED <<rail, resets>>
  BY <1>10 DEF Judge, Stable, Terminal, Bytes
<1>11. CASE Enter /\ UNCHANGED <<rail, resets>>
  BY <1>11 DEF Enter
<1>12. CASE Resets /\ UNCHANGED <<rail, resets>>
  <2>1. CASE UNCHANGED board
    BY <1>12, <2>1 DEF Resets
  <2>2. CASE /\ Launch({"running", "halted"}) /\ Goes("held", "rearmed")
             /\ busy' = FALSE /\ UNCHANGED <<mram, sinks>>
    BY <1>12, <2>2 DEF Resets, Launch
  <2> QED
    BY <1>12, <2>1, <2>2 DEF Resets
<1>13. CASE Rearm /\ UNCHANGED <<rail, resets>>
  BY <1>13 DEF Rearm
<1>14. CASE SignalGo /\ UNCHANGED <<rail, resets>>
  BY <1>14 DEF SignalGo, StateHigh
<1>15. CASE Rise /\ UNCHANGED <<rail, resets>>
  BY <1>15 DEF Rise
<1>16. CASE Fall /\ UNCHANGED <<rail, resets>>
  BY <1>16 DEF Fall
<1>17. CASE Done /\ UNCHANGED <<rail, resets>>
  BY <1>17 DEF Done, StateHigh
<1>18. CASE Raises /\ UNCHANGED <<rail, resets>>
  BY <1>18 DEF Raises
<1>19. CASE KillCapture /\ UNCHANGED <<rail, resets>>
  BY <1>19 DEF KillCapture
<1>20. CASE step \notin Ended /\ Runs /\ UNCHANGED <<rail, step, resets, past, line, snaps>>
  <2> USE DEF Runs, Puts, Blank, Holds, SinkNames
  <2>1. CASE Startup
    BY <1>20, <2>1 DEF Startup
  <2>2. CASE Infer /\ UNCHANGED sinks
    BY <1>20, <2>2 DEF Infer
  <2>3. CASE Report
    BY <1>20, <2>3 DEF Report
  <2> QED
    BY <1>20, <2>1, <2>2, <2>3
<1>21. CASE Glitch /\ step \notin Ended \cup {"request"} /\ UNCHANGED <<rail, step, past, line, snaps>>
  BY <1>21 DEF Glitch, Launch
<1>22. CASE UNCHANGED capVars
  BY <1>22 DEF capVars
<1> QED
  BY <1>1, <1>2, <1>3, <1>4, <1>5, <1>6, <1>7, <1>8, <1>9, <1>10, <1>11, <1>12, <1>13, <1>14,
     <1>15, <1>16, <1>17, <1>18, <1>19, <1>20, <1>21, <1>22, Zenon
     DEF CapNext, Host, Observes

LEMMA CountedStep ==
  ASSUME CapTypes, LaunchesAreCounted, [CapNext]_capVars
  PROVE  LaunchesAreCounted'
<1> USE FixtureCaptureAssumption, SinkSet
        DEF LaunchesAreCounted, CapTypes, board, line, snaps, resets, Goes, Ended, Before, Asked,
            Windowed, Poisoned
<1>1. CASE Start /\ UNCHANGED <<rail, resets>>
  BY <1>1 DEF Start
<1>2. CASE Probe /\ UNCHANGED <<rail, resets>>
  BY <1>2 DEF Probe, LetsGo
<1>3. CASE Flash /\ UNCHANGED <<rail, resets>>
  BY <1>3 DEF Flash, Launch
<1>4. CASE Poison /\ UNCHANGED <<rail, resets>>
  BY <1>4 DEF Poison, LetsGo, Blank, Holds, SinkNames
<1>5. CASE Reset /\ UNCHANGED <<rail, resets>>
  BY <1>5 DEF Reset, Launch
<1>6. CASE Attach /\ UNCHANGED <<rail, resets>>
  BY <1>6 DEF Attach
<1>7. CASE Poll /\ UNCHANGED <<rail, resets>>
  BY <1>7 DEF Poll, Completed
<1>8. CASE Halt /\ UNCHANGED <<rail, resets>>
  BY <1>8 DEF Halt
<1>9. CASE Read /\ UNCHANGED <<rail, resets>>
  BY <1>9 DEF Read
<1>10. CASE Judge /\ UNCHANGED <<rail, resets>>
  BY <1>10 DEF Judge, Stable, Terminal, Bytes
<1>11. CASE Enter /\ UNCHANGED <<rail, resets>>
  BY <1>11 DEF Enter
<1>12. CASE Resets /\ UNCHANGED <<rail, resets>>
  <2>1. CASE UNCHANGED board
    BY <1>12, <2>1 DEF Resets
  <2>2. CASE /\ Launch({"running", "halted"}) /\ Goes("held", "rearmed")
             /\ busy' = FALSE /\ UNCHANGED <<mram, sinks>>
    BY <1>12, <2>2 DEF Resets, Launch
  <2> QED
    BY <1>12, <2>1, <2>2 DEF Resets
<1>13. CASE Rearm /\ UNCHANGED <<rail, resets>>
  BY <1>13 DEF Rearm
<1>14. CASE SignalGo /\ UNCHANGED <<rail, resets>>
  BY <1>14 DEF SignalGo, StateHigh
<1>15. CASE Rise /\ UNCHANGED <<rail, resets>>
  BY <1>15 DEF Rise
<1>16. CASE Fall /\ UNCHANGED <<rail, resets>>
  BY <1>16 DEF Fall
<1>17. CASE Done /\ UNCHANGED <<rail, resets>>
  BY <1>17 DEF Done, StateHigh
<1>18. CASE Raises /\ UNCHANGED <<rail, resets>>
  BY <1>18 DEF Raises
<1>19. CASE KillCapture /\ UNCHANGED <<rail, resets>>
  BY <1>19 DEF KillCapture
<1>20. CASE step \notin Ended /\ Runs /\ UNCHANGED <<rail, step, resets, past, line, snaps>>
  <2> USE DEF Runs, Puts, Blank, Holds, SinkNames
  <2>1. CASE Startup
    BY <1>20, <2>1 DEF Startup
  <2>2. CASE Infer /\ UNCHANGED sinks
    BY <1>20, <2>2 DEF Infer
  <2>3. CASE Report
    BY <1>20, <2>3 DEF Report
  <2> QED
    BY <1>20, <2>1, <2>2, <2>3
<1>21. CASE Glitch /\ step \notin Ended \cup {"request"} /\ UNCHANGED <<rail, step, past, line, snaps>>
  BY <1>21 DEF Glitch, Launch
<1>22. CASE UNCHANGED capVars
  BY <1>22 DEF capVars
<1> QED
  BY <1>1, <1>2, <1>3, <1>4, <1>5, <1>6, <1>7, <1>8, <1>9, <1>10, <1>11, <1>12, <1>13, <1>14,
     <1>15, <1>16, <1>17, <1>18, <1>19, <1>20, <1>21, <1>22, Zenon
     DEF CapNext, Host, Observes

LEMMA FreshStep ==
  ASSUME CapTypes, LaunchIsFresh, [CapNext]_capVars
  PROVE  LaunchIsFresh'
<1> USE FixtureCaptureAssumption, SinkSet
        DEF LaunchIsFresh, CapTypes, board, line, snaps, resets, Goes, Ended, Before, Asked,
            Windowed, Poisoned
<1>1. CASE Start /\ UNCHANGED <<rail, resets>>
  BY <1>1 DEF Start
<1>2. CASE Probe /\ UNCHANGED <<rail, resets>>
  BY <1>2 DEF Probe, LetsGo
<1>3. CASE Flash /\ UNCHANGED <<rail, resets>>
  BY <1>3 DEF Flash, Launch
<1>4. CASE Poison /\ UNCHANGED <<rail, resets>>
  BY <1>4 DEF Poison, LetsGo, Blank, Holds, SinkNames
<1>5. CASE Reset /\ UNCHANGED <<rail, resets>>
  BY <1>5 DEF Reset, Launch
<1>6. CASE Attach /\ UNCHANGED <<rail, resets>>
  BY <1>6 DEF Attach
<1>7. CASE Poll /\ UNCHANGED <<rail, resets>>
  BY <1>7 DEF Poll, Completed
<1>8. CASE Halt /\ UNCHANGED <<rail, resets>>
  BY <1>8 DEF Halt
<1>9. CASE Read /\ UNCHANGED <<rail, resets>>
  BY <1>9 DEF Read
<1>10. CASE Judge /\ UNCHANGED <<rail, resets>>
  BY <1>10 DEF Judge, Stable, Terminal, Bytes
<1>11. CASE Enter /\ UNCHANGED <<rail, resets>>
  BY <1>11 DEF Enter
<1>12. CASE Resets /\ UNCHANGED <<rail, resets>>
  <2>1. CASE UNCHANGED board
    BY <1>12, <2>1 DEF Resets
  <2>2. CASE /\ Launch({"running", "halted"}) /\ Goes("held", "rearmed")
             /\ busy' = FALSE /\ UNCHANGED <<mram, sinks>>
    BY <1>12, <2>2 DEF Resets, Launch
  <2> QED
    BY <1>12, <2>1, <2>2 DEF Resets
<1>13. CASE Rearm /\ UNCHANGED <<rail, resets>>
  BY <1>13 DEF Rearm
<1>14. CASE SignalGo /\ UNCHANGED <<rail, resets>>
  BY <1>14 DEF SignalGo, StateHigh
<1>15. CASE Rise /\ UNCHANGED <<rail, resets>>
  BY <1>15 DEF Rise
<1>16. CASE Fall /\ UNCHANGED <<rail, resets>>
  BY <1>16 DEF Fall
<1>17. CASE Done /\ UNCHANGED <<rail, resets>>
  BY <1>17 DEF Done, StateHigh
<1>18. CASE Raises /\ UNCHANGED <<rail, resets>>
  BY <1>18 DEF Raises
<1>19. CASE KillCapture /\ UNCHANGED <<rail, resets>>
  BY <1>19 DEF KillCapture
<1>20. CASE step \notin Ended /\ Runs /\ UNCHANGED <<rail, step, resets, past, line, snaps>>
  <2> USE DEF Runs, Puts, Blank, Holds, SinkNames
  <2>1. CASE Startup
    BY <1>20, <2>1 DEF Startup
  <2>2. CASE Infer /\ UNCHANGED sinks
    BY <1>20, <2>2 DEF Infer
  <2>3. CASE Report
    BY <1>20, <2>3 DEF Report
  <2> QED
    BY <1>20, <2>1, <2>2, <2>3
<1>21. CASE Glitch /\ step \notin Ended \cup {"request"} /\ UNCHANGED <<rail, step, past, line, snaps>>
  BY <1>21 DEF Glitch, Launch
<1>22. CASE UNCHANGED capVars
  BY <1>22 DEF capVars
<1> QED
  BY <1>1, <1>2, <1>3, <1>4, <1>5, <1>6, <1>7, <1>8, <1>9, <1>10, <1>11, <1>12, <1>13, <1>14,
     <1>15, <1>16, <1>17, <1>18, <1>19, <1>20, <1>21, <1>22, Zenon
     DEF CapNext, Host, Observes

LEMMA SinksStep ==
  ASSUME CapTypes, ContentTypes, LaunchIsFresh, SinksFollowTheLaunch, [CapNext]_capVars
  PROVE  SinksFollowTheLaunch'
<1> USE FixtureCaptureAssumption, SinkSet
        DEF SinksFollowTheLaunch, MadeBy, LaunchIsFresh, CapTypes, ContentTypes, Content, board,
            line, snaps, resets, Goes, Ended, Before, Asked, Windowed, Poisoned
<1>1. CASE Start /\ UNCHANGED <<rail, resets>>
  BY <1>1 DEF Start
<1>2. CASE Probe /\ UNCHANGED <<rail, resets>>
  BY <1>2 DEF Probe, LetsGo
<1>3. CASE Flash /\ UNCHANGED <<rail, resets>>
  BY <1>3 DEF Flash, Launch
<1>4. CASE Poison /\ UNCHANGED <<rail, resets>>
  BY <1>4 DEF Poison, LetsGo, Blank, Holds, SinkNames
<1>5. CASE Reset /\ UNCHANGED <<rail, resets>>
  BY <1>5 DEF Reset, Launch
<1>6. CASE Attach /\ UNCHANGED <<rail, resets>>
  BY <1>6 DEF Attach
<1>7. CASE Poll /\ UNCHANGED <<rail, resets>>
  BY <1>7 DEF Poll, Completed
<1>8. CASE Halt /\ UNCHANGED <<rail, resets>>
  BY <1>8 DEF Halt
<1>9. CASE Read /\ UNCHANGED <<rail, resets>>
  BY <1>9 DEF Read
<1>10. CASE Judge /\ UNCHANGED <<rail, resets>>
  BY <1>10 DEF Judge, Stable, Terminal, Bytes
<1>11. CASE Enter /\ UNCHANGED <<rail, resets>>
  BY <1>11 DEF Enter
<1>12. CASE Resets /\ UNCHANGED <<rail, resets>>
  <2>1. CASE UNCHANGED board
    BY <1>12, <2>1 DEF Resets
  <2>2. CASE /\ Launch({"running", "halted"}) /\ Goes("held", "rearmed")
             /\ busy' = FALSE /\ UNCHANGED <<mram, sinks>>
    BY <1>12, <2>2 DEF Resets, Launch
  <2> QED
    BY <1>12, <2>1, <2>2 DEF Resets
<1>13. CASE Rearm /\ UNCHANGED <<rail, resets>>
  BY <1>13 DEF Rearm
<1>14. CASE SignalGo /\ UNCHANGED <<rail, resets>>
  BY <1>14 DEF SignalGo, StateHigh
<1>15. CASE Rise /\ UNCHANGED <<rail, resets>>
  BY <1>15 DEF Rise
<1>16. CASE Fall /\ UNCHANGED <<rail, resets>>
  BY <1>16 DEF Fall
<1>17. CASE Done /\ UNCHANGED <<rail, resets>>
  BY <1>17 DEF Done, StateHigh
<1>18. CASE Raises /\ UNCHANGED <<rail, resets>>
  BY <1>18 DEF Raises
<1>19. CASE KillCapture /\ UNCHANGED <<rail, resets>>
  BY <1>19 DEF KillCapture
<1>20. CASE step \notin Ended /\ Runs /\ UNCHANGED <<rail, step, resets, past, line, snaps>>
  <2> USE DEF Runs, Puts, Blank, Holds, SinkNames
  <2>1. CASE Startup
    BY <1>20, <2>1 DEF Startup
  <2>2. CASE Infer /\ UNCHANGED sinks
    BY <1>20, <2>2 DEF Infer
  <2>3. CASE Report
    BY <1>20, <2>3 DEF Report
  <2> QED
    BY <1>20, <2>1, <2>2, <2>3
<1>21. CASE Glitch /\ step \notin Ended \cup {"request"} /\ UNCHANGED <<rail, step, past, line, snaps>>
  BY <1>21 DEF Glitch, Launch
<1>22. CASE UNCHANGED capVars
  BY <1>22 DEF capVars
<1> QED
  BY <1>1, <1>2, <1>3, <1>4, <1>5, <1>6, <1>7, <1>8, <1>9, <1>10, <1>11, <1>12, <1>13, <1>14,
     <1>15, <1>16, <1>17, <1>18, <1>19, <1>20, <1>21, <1>22, Zenon
     DEF CapNext, Host, Observes

LEMMA WindowStep ==
  ASSUME CapTypes, ContentTypes, LaunchIsFresh, SinksFollowTheLaunch, OneWindow, [CapNext]_capVars
  PROVE  OneWindow'
<1> USE FixtureCaptureAssumption, SinkSet
        DEF OneWindow, SinksFollowTheLaunch, LaunchIsFresh, CapTypes, ContentTypes, Content, board,
            line, snaps, resets, Goes, Ended, Before, Asked, Windowed, Poisoned
<1>1. CASE Start /\ UNCHANGED <<rail, resets>>
  BY <1>1 DEF Start
<1>2. CASE Probe /\ UNCHANGED <<rail, resets>>
  BY <1>2 DEF Probe, LetsGo
<1>3. CASE Flash /\ UNCHANGED <<rail, resets>>
  BY <1>3 DEF Flash, Launch
<1>4. CASE Poison /\ UNCHANGED <<rail, resets>>
  BY <1>4 DEF Poison, LetsGo, Blank, Holds, SinkNames
<1>5. CASE Reset /\ UNCHANGED <<rail, resets>>
  BY <1>5 DEF Reset, Launch
<1>6. CASE Attach /\ UNCHANGED <<rail, resets>>
  BY <1>6 DEF Attach
<1>7. CASE Poll /\ UNCHANGED <<rail, resets>>
  BY <1>7 DEF Poll, Completed
<1>8. CASE Halt /\ UNCHANGED <<rail, resets>>
  BY <1>8 DEF Halt
<1>9. CASE Read /\ UNCHANGED <<rail, resets>>
  BY <1>9 DEF Read
<1>10. CASE Judge /\ UNCHANGED <<rail, resets>>
  BY <1>10 DEF Judge, Stable, Terminal, Bytes
<1>11. CASE Enter /\ UNCHANGED <<rail, resets>>
  BY <1>11 DEF Enter
<1>12. CASE Resets /\ UNCHANGED <<rail, resets>>
  <2>1. CASE UNCHANGED board
    BY <1>12, <2>1 DEF Resets
  <2>2. CASE /\ Launch({"running", "halted"}) /\ Goes("held", "rearmed")
             /\ busy' = FALSE /\ UNCHANGED <<mram, sinks>>
    BY <1>12, <2>2 DEF Resets, Launch
  <2> QED
    BY <1>12, <2>1, <2>2 DEF Resets
<1>13. CASE Rearm /\ UNCHANGED <<rail, resets>>
  BY <1>13 DEF Rearm
<1>14. CASE SignalGo /\ UNCHANGED <<rail, resets>>
  BY <1>14 DEF SignalGo, StateHigh
<1>15. CASE Rise /\ UNCHANGED <<rail, resets>>
  BY <1>15 DEF Rise
<1>16. CASE Fall /\ UNCHANGED <<rail, resets>>
  BY <1>16 DEF Fall
<1>17. CASE Done /\ UNCHANGED <<rail, resets>>
  BY <1>17 DEF Done, StateHigh
<1>18. CASE Raises /\ UNCHANGED <<rail, resets>>
  BY <1>18 DEF Raises
<1>19. CASE KillCapture /\ UNCHANGED <<rail, resets>>
  BY <1>19 DEF KillCapture
<1>20. CASE step \notin Ended /\ Runs /\ UNCHANGED <<rail, step, resets, past, line, snaps>>
  <2> USE DEF Runs, Puts, Blank, Holds, SinkNames
  <2>1. CASE Startup
    BY <1>20, <2>1 DEF Startup
  <2>2. CASE Infer /\ UNCHANGED sinks
    BY <1>20, <2>2 DEF Infer
  <2>3. CASE Report
    BY <1>20, <2>3 DEF Report
  <2> QED
    BY <1>20, <2>1, <2>2, <2>3
<1>21. CASE Glitch /\ step \notin Ended \cup {"request"} /\ UNCHANGED <<rail, step, past, line, snaps>>
  BY <1>21 DEF Glitch, Launch
<1>22. CASE UNCHANGED capVars
  BY <1>22 DEF capVars
<1> QED
  BY <1>1, <1>2, <1>3, <1>4, <1>5, <1>6, <1>7, <1>8, <1>9, <1>10, <1>11, <1>12, <1>13, <1>14,
     <1>15, <1>16, <1>17, <1>18, <1>19, <1>20, <1>21, <1>22, Zenon
     DEF CapNext, Host, Observes

LEMMA ReadStep ==
  ASSUME CapTypes, ContentTypes, ReadAsTheyAre, [CapNext]_capVars
  PROVE  ReadAsTheyAre'
<1> USE FixtureCaptureAssumption, SinkSet
        DEF ReadAsTheyAre, CapTypes, ContentTypes, Content, board, line, snaps, resets, Goes,
            Ended, Before, Asked, Windowed, Poisoned
<1>1. CASE Start /\ UNCHANGED <<rail, resets>>
  BY <1>1 DEF Start
<1>2. CASE Probe /\ UNCHANGED <<rail, resets>>
  BY <1>2 DEF Probe, LetsGo
<1>3. CASE Flash /\ UNCHANGED <<rail, resets>>
  BY <1>3 DEF Flash, Launch
<1>4. CASE Poison /\ UNCHANGED <<rail, resets>>
  BY <1>4 DEF Poison, LetsGo, Blank, Holds, SinkNames
<1>5. CASE Reset /\ UNCHANGED <<rail, resets>>
  BY <1>5 DEF Reset, Launch
<1>6. CASE Attach /\ UNCHANGED <<rail, resets>>
  BY <1>6 DEF Attach
<1>7. CASE Poll /\ UNCHANGED <<rail, resets>>
  BY <1>7 DEF Poll, Completed
<1>8. CASE Halt /\ UNCHANGED <<rail, resets>>
  BY <1>8 DEF Halt
<1>9. CASE Read /\ UNCHANGED <<rail, resets>>
  BY <1>9 DEF Read
<1>10. CASE Judge /\ UNCHANGED <<rail, resets>>
  BY <1>10 DEF Judge, Stable, Terminal, Bytes
<1>11. CASE Enter /\ UNCHANGED <<rail, resets>>
  BY <1>11 DEF Enter
<1>12. CASE Resets /\ UNCHANGED <<rail, resets>>
  <2>1. CASE UNCHANGED board
    BY <1>12, <2>1 DEF Resets
  <2>2. CASE /\ Launch({"running", "halted"}) /\ Goes("held", "rearmed")
             /\ busy' = FALSE /\ UNCHANGED <<mram, sinks>>
    BY <1>12, <2>2 DEF Resets, Launch
  <2> QED
    BY <1>12, <2>1, <2>2 DEF Resets
<1>13. CASE Rearm /\ UNCHANGED <<rail, resets>>
  BY <1>13 DEF Rearm
<1>14. CASE SignalGo /\ UNCHANGED <<rail, resets>>
  BY <1>14 DEF SignalGo, StateHigh
<1>15. CASE Rise /\ UNCHANGED <<rail, resets>>
  BY <1>15 DEF Rise
<1>16. CASE Fall /\ UNCHANGED <<rail, resets>>
  BY <1>16 DEF Fall
<1>17. CASE Done /\ UNCHANGED <<rail, resets>>
  BY <1>17 DEF Done, StateHigh
<1>18. CASE Raises /\ UNCHANGED <<rail, resets>>
  BY <1>18 DEF Raises
<1>19. CASE KillCapture /\ UNCHANGED <<rail, resets>>
  BY <1>19 DEF KillCapture
<1>20. CASE step \notin Ended /\ Runs /\ UNCHANGED <<rail, step, resets, past, line, snaps>>
  <2> USE DEF Runs, Puts, Blank, Holds, SinkNames
  <2>1. CASE Startup
    BY <1>20, <2>1 DEF Startup
  <2>2. CASE Infer /\ UNCHANGED sinks
    BY <1>20, <2>2 DEF Infer
  <2>3. CASE Report
    BY <1>20, <2>3 DEF Report
  <2> QED
    BY <1>20, <2>1, <2>2, <2>3
<1>21. CASE Glitch /\ step \notin Ended \cup {"request"} /\ UNCHANGED <<rail, step, past, line, snaps>>
  BY <1>21 DEF Glitch, Launch
<1>22. CASE UNCHANGED capVars
  BY <1>22 DEF capVars
<1> QED
  BY <1>1, <1>2, <1>3, <1>4, <1>5, <1>6, <1>7, <1>8, <1>9, <1>10, <1>11, <1>12, <1>13, <1>14,
     <1>15, <1>16, <1>17, <1>18, <1>19, <1>20, <1>21, <1>22, Zenon
     DEF CapNext, Host, Observes

LEMMA BusyStep ==
  ASSUME BusyInPhase, [CapNext]_capVars
  PROVE  BusyInPhase'
<1> USE FixtureCaptureAssumption, SinkSet
        DEF BusyInPhase, board, line, snaps, resets, Goes, Ended, Before, Asked, Windowed,
            Poisoned
<1>1. CASE Start /\ UNCHANGED <<rail, resets>>
  BY <1>1 DEF Start
<1>2. CASE Probe /\ UNCHANGED <<rail, resets>>
  BY <1>2 DEF Probe, LetsGo
<1>3. CASE Flash /\ UNCHANGED <<rail, resets>>
  BY <1>3 DEF Flash, Launch
<1>4. CASE Poison /\ UNCHANGED <<rail, resets>>
  BY <1>4 DEF Poison, LetsGo, Blank, Holds, SinkNames
<1>5. CASE Reset /\ UNCHANGED <<rail, resets>>
  BY <1>5 DEF Reset, Launch
<1>6. CASE Attach /\ UNCHANGED <<rail, resets>>
  BY <1>6 DEF Attach
<1>7. CASE Poll /\ UNCHANGED <<rail, resets>>
  BY <1>7 DEF Poll, Completed
<1>8. CASE Halt /\ UNCHANGED <<rail, resets>>
  BY <1>8 DEF Halt
<1>9. CASE Read /\ UNCHANGED <<rail, resets>>
  BY <1>9 DEF Read
<1>10. CASE Judge /\ UNCHANGED <<rail, resets>>
  BY <1>10 DEF Judge, Stable, Terminal, Bytes
<1>11. CASE Enter /\ UNCHANGED <<rail, resets>>
  BY <1>11 DEF Enter
<1>12. CASE Resets /\ UNCHANGED <<rail, resets>>
  <2>1. CASE UNCHANGED board
    BY <1>12, <2>1 DEF Resets
  <2>2. CASE /\ Launch({"running", "halted"}) /\ Goes("held", "rearmed")
             /\ busy' = FALSE /\ UNCHANGED <<mram, sinks>>
    BY <1>12, <2>2 DEF Resets, Launch
  <2> QED
    BY <1>12, <2>1, <2>2 DEF Resets
<1>13. CASE Rearm /\ UNCHANGED <<rail, resets>>
  BY <1>13 DEF Rearm
<1>14. CASE SignalGo /\ UNCHANGED <<rail, resets>>
  BY <1>14 DEF SignalGo, StateHigh
<1>15. CASE Rise /\ UNCHANGED <<rail, resets>>
  BY <1>15 DEF Rise
<1>16. CASE Fall /\ UNCHANGED <<rail, resets>>
  BY <1>16 DEF Fall
<1>17. CASE Done /\ UNCHANGED <<rail, resets>>
  BY <1>17 DEF Done, StateHigh
<1>18. CASE Raises /\ UNCHANGED <<rail, resets>>
  BY <1>18 DEF Raises
<1>19. CASE KillCapture /\ UNCHANGED <<rail, resets>>
  BY <1>19 DEF KillCapture
<1>20. CASE step \notin Ended /\ Runs /\ UNCHANGED <<rail, step, resets, past, line, snaps>>
  <2> USE DEF Runs, Puts, Blank, Holds, SinkNames
  <2>1. CASE Startup
    BY <1>20, <2>1 DEF Startup
  <2>2. CASE Infer /\ UNCHANGED sinks
    BY <1>20, <2>2 DEF Infer
  <2>3. CASE Report
    BY <1>20, <2>3 DEF Report
  <2> QED
    BY <1>20, <2>1, <2>2, <2>3
<1>21. CASE Glitch /\ step \notin Ended \cup {"request"} /\ UNCHANGED <<rail, step, past, line, snaps>>
  BY <1>21 DEF Glitch, Launch
<1>22. CASE UNCHANGED capVars
  BY <1>22 DEF capVars
<1> QED
  BY <1>1, <1>2, <1>3, <1>4, <1>5, <1>6, <1>7, <1>8, <1>9, <1>10, <1>11, <1>12, <1>13, <1>14,
     <1>15, <1>16, <1>17, <1>18, <1>19, <1>20, <1>21, <1>22, Zenon
     DEF CapNext, Host, Observes

LEMMA AcceptedStep ==
  ASSUME CapTypes, ContentTypes, SinksFollowTheLaunch, OneWindow, ReadAsTheyAre, AcceptedIsOneRun,
         [CapNext]_capVars
  PROVE  AcceptedIsOneRun'
<1> USE FixtureCaptureAssumption, SinkSet
        DEF AcceptedIsOneRun, SinksFollowTheLaunch, OneWindow, ReadAsTheyAre, CapTypes,
            ContentTypes, Content, board, line, snaps, resets, Goes, Ended, Before, Asked,
            Windowed, Poisoned
<1>1. CASE Start /\ UNCHANGED <<rail, resets>>
  BY <1>1 DEF Start
<1>2. CASE Probe /\ UNCHANGED <<rail, resets>>
  BY <1>2 DEF Probe, LetsGo
<1>3. CASE Flash /\ UNCHANGED <<rail, resets>>
  BY <1>3 DEF Flash, Launch
<1>4. CASE Poison /\ UNCHANGED <<rail, resets>>
  BY <1>4 DEF Poison, LetsGo, Blank, Holds, SinkNames
<1>5. CASE Reset /\ UNCHANGED <<rail, resets>>
  BY <1>5 DEF Reset, Launch
<1>6. CASE Attach /\ UNCHANGED <<rail, resets>>
  BY <1>6 DEF Attach
<1>7. CASE Poll /\ UNCHANGED <<rail, resets>>
  BY <1>7 DEF Poll, Completed
<1>8. CASE Halt /\ UNCHANGED <<rail, resets>>
  BY <1>8 DEF Halt
<1>9. CASE Read /\ UNCHANGED <<rail, resets>>
  BY <1>9 DEF Read
<1>10. CASE Judge /\ UNCHANGED <<rail, resets>>
  BY <1>10 DEF Judge, Stable, Terminal, Bytes
<1>11. CASE Enter /\ UNCHANGED <<rail, resets>>
  BY <1>11 DEF Enter
<1>12. CASE Resets /\ UNCHANGED <<rail, resets>>
  <2>1. CASE UNCHANGED board
    BY <1>12, <2>1 DEF Resets
  <2>2. CASE /\ Launch({"running", "halted"}) /\ Goes("held", "rearmed")
             /\ busy' = FALSE /\ UNCHANGED <<mram, sinks>>
    BY <1>12, <2>2 DEF Resets, Launch
  <2> QED
    BY <1>12, <2>1, <2>2 DEF Resets
<1>13. CASE Rearm /\ UNCHANGED <<rail, resets>>
  BY <1>13 DEF Rearm
<1>14. CASE SignalGo /\ UNCHANGED <<rail, resets>>
  BY <1>14 DEF SignalGo, StateHigh
<1>15. CASE Rise /\ UNCHANGED <<rail, resets>>
  BY <1>15 DEF Rise
<1>16. CASE Fall /\ UNCHANGED <<rail, resets>>
  BY <1>16 DEF Fall
<1>17. CASE Done /\ UNCHANGED <<rail, resets>>
  BY <1>17 DEF Done, StateHigh
<1>18. CASE Raises /\ UNCHANGED <<rail, resets>>
  BY <1>18 DEF Raises
<1>19. CASE KillCapture /\ UNCHANGED <<rail, resets>>
  BY <1>19 DEF KillCapture
<1>20. CASE step \notin Ended /\ Runs /\ UNCHANGED <<rail, step, resets, past, line, snaps>>
  <2> USE DEF Runs, Puts, Blank, Holds, SinkNames
  <2>1. CASE Startup
    BY <1>20, <2>1 DEF Startup
  <2>2. CASE Infer /\ UNCHANGED sinks
    BY <1>20, <2>2 DEF Infer
  <2>3. CASE Report
    BY <1>20, <2>3 DEF Report
  <2> QED
    BY <1>20, <2>1, <2>2, <2>3
<1>21. CASE Glitch /\ step \notin Ended \cup {"request"} /\ UNCHANGED <<rail, step, past, line, snaps>>
  BY <1>21 DEF Glitch, Launch
<1>22. CASE UNCHANGED capVars
  BY <1>22 DEF capVars
<1> QED
  BY <1>1, <1>2, <1>3, <1>4, <1>5, <1>6, <1>7, <1>8, <1>9, <1>10, <1>11, <1>12, <1>13, <1>14,
     <1>15, <1>16, <1>17, <1>18, <1>19, <1>20, <1>21, <1>22, Zenon
     DEF CapNext, Host, Observes

LEMMA InitCapture == CapInit => CapIInv
<1> SUFFICES ASSUME CapInit PROVE CapIInv
  OBVIOUS
<1>1. ContentTypes
  <2>1. Blank("junk") \in [SinkNames -> Content] /\ Blank("unread") \in [SinkNames -> Content]
    BY BlankContent DEF Words
  <2>2. Holds("ok", 1, "-") \in Content
    BY HoldsContent DEF Words
  <2> QED
    <3>1. "status" \in SinkNames
      BY SinkSet
    <3>2. [Blank("junk") EXCEPT !["status"] = Holds("ok", 1, "-")] \in [SinkNames -> Content]
      BY <2>1, <2>2, <3>1, PutContent
    <3> QED
      BY <2>1, <3>2 DEF CapInit, ContentTypes
<1> QED
  BY <1>1, FixtureCaptureAssumption
  DEF CapInit, CapIInv, CapTypes, LaunchesAreCounted, LaunchIsFresh, SinksFollowTheLaunch,
      OneWindow, ReadAsTheyAre, BusyInPhase, AcceptedIsOneRun, Before, Asked, Windowed, Poisoned, Ended

\* The inductive invariant holds throughout, for any number of resets nobody asked for.
THEOREM CaptureInvariance == CapSpec => []CapIInv
<1>1. CapIInv /\ [CapNext]_capVars => CapIInv'
  BY TypesStep, ContentStep, CountedStep, FreshStep, SinksStep, WindowStep, ReadStep, BusyStep,
     AcceptedStep DEF CapIInv
<1> QED
  BY <1>1, InitCapture, PTL DEF CapSpec

\* The state of the capture and of the board is well typed.
THEOREM CaptureTypeCorrect == CapSpec => []CapTypeOK
<1>1. CapIInv => CapTypeOK
  BY FixtureCaptureAssumption DEF CapIInv, CapTypes, LaunchesAreCounted, CapTypeOK
<1> QED
  BY <1>1, CaptureInvariance, PTL

\* What a successful capture reports is of one launch of its image, that was not over before, for
\* any number of resets nobody asked for; and the poller allows the capture's own reset.
THEOREM CaptureHolds == CapSpec => []CaptureIsOneRun
<1>1. CapIInv => CaptureIsOneRun
  BY DEF CapIInv, BusyInPhase, CaptureIsOneRun, OwnResetIsAllowed, PollerRefused, Observing, Ended
<1> QED
  BY <1>1, CaptureInvariance, PTL

-----------------------------------------------------------------------------
(* The boards on the desk: a capture is of the board and launch it is said to be of. *)

\* What is wired, by its parts.
LEMMA DeskFields ==
  ASSUME desk \in Desks
  PROVE  /\ desk.core \in [OnDesk -> {"m4", "m55"}] /\ desk.vcom \in [OnDesk -> Vcoms]
         /\ desk.link \in {"uart", "usb", "swo", "rtt"} /\ desk.named \in BOOLEAN
         /\ desk.known \in {"no", "map", "nm"} /\ desk.other \in {"hpx", "app"}
<1> DEFINE Wired(link, powers, vcoms, cables, knowns) ==
             [core : [OnDesk -> {"m4", "m55"}], link : {link}, named : BOOLEAN, power : powers,
              vcom : vcoms, cable : cables, known : knowns, late : BOOLEAN, other : {"hpx", "app"}]
<1>1. PlainPorts \in [OnDesk -> Vcoms]
  BY DEF PlainPorts, Vcoms
<1>2. \/ desk \in Wired("uart", {"off"}, [OnDesk -> Vcoms], {TRUE}, {"no"})
      \/ desk \in Wired("usb", {"off"}, {PlainPorts}, BOOLEAN, {"no"})
      \/ desk \in Wired("swo", {"off", "best", "must"}, {PlainPorts}, {TRUE}, {"no"})
      \/ desk \in Wired("rtt", {"off"}, {PlainPorts}, {TRUE}, {"map", "nm", "no"})
  BY Zenon DEF Desks
<1> QED
  BY <1>1, <1>2

\* Nobody has been asked, and nothing read.
LEMMA InitBench ==
  ASSUME BenchAssumption, desk \in Desks, BenchInit
  PROVE  BenchIInv
<1>1. desk.other \in {"hpx", "app"}
  BY DeskFields
<1>2. launched \in [OnDesk -> [image : {"hpx", "app", "mine"},
                               by : {"before", "flash", "capture", "other"}]]
  BY <1>1 DEF BenchInit
<1>3. BenchTypes
  BY <1>2 DEF BenchInit, BenchTypes, BenchTypeOK, Rings
<1> QED
  BY <1>3 DEF BenchInit, BenchIInv, IntendedProbe, StagesOfLink, PortIsOwn, BlockIsOwn, HeardIsOwn,
     SessionInPlace, BeforeRun

\* Every step keeps the parts; only a reset and a port need a second look.
LEMMA NextBench ==
  ASSUME BenchAssumption, BenchIInv, [BenchNext]_benchVars
  PROVE  BenchIInv'
<1>0. /\ desk.core \in [OnDesk -> {"m4", "m55"}] /\ desk.vcom \in [OnDesk -> Vcoms]
      /\ desk.link \in {"uart", "usb", "swo", "rtt"} /\ desk.named \in BOOLEAN
      /\ desk.known \in {"no", "map", "nm"} /\ desk.other \in {"hpx", "app"}
  BY DeskFields DEF BenchIInv, BenchTypes
<1> USE DEF BenchIInv, BenchTypes, BenchTypeOK, Rings, IntendedProbe, StagesOfLink, PortIsOwn,
            BlockIsOwn, HeardIsOwn, SessionInPlace, BeforeRun, KnownBlock, Turns, Alone
<1>1. ASSUME EnsurePowered PROVE BenchIInv'
  BY <1>0, <1>1 DEF EnsurePowered
<1>2. ASSUME Enumerate PROVE BenchIInv'
  BY <1>0, <1>2 DEF Enumerate
<1>3. ASSUME Resolve PROVE BenchIInv'
  BY <1>0, <1>3 DEF Resolve, ProbesFor, Inspections
<1>4. ASSUME Deploy PROVE BenchIInv'
  BY <1>0, <1>4 DEF Deploy
<1>5. ASSUME PreClean PROVE BenchIInv'
  BY <1>0, <1>5 DEF PreClean, Wiped
<1>6. ASSUME ResetPart PROVE BenchIInv'
  <2>1. /\ desk' = desk /\ ensured' = ensured /\ plugged' = plugged /\ chosen' = chosen
        /\ port' = port /\ ring' = ring /\ heard' = heard /\ task = "reset"
        /\ task' \in {"read", "find", "attach"} /\ (desk.link = "uart" <=> task' = "read")
        /\ (desk.link = "usb" <=> task' = "find")
        /\ launched' = [launched EXCEPT ![chosen].by = "capture"]
    BY <1>0, <1>6 DEF ResetPart
  <2>2. /\ session' = IF KeepAttached THEN "open" ELSE "none"
        /\ bare' = (session' = "none")
    BY <1>6 DEF ResetPart, SessionAtStart
  <2>3. BenchTypes' /\ IntendedProbe' /\ StagesOfLink' /\ PortIsOwn' /\ BlockIsOwn' /\ HeardIsOwn'
    BY <1>0, <2>1, <2>2
  <2>4. SessionInPlace'
    <3>1. desk.core["a"] # "m4" => ~KeepAttached
      BY DEF KeepAttached
    <3>2. desk.core["a"] # "m4" => bare'
      BY <2>2, <3>1
    <3>3. desk.core["a"] = "m4" /\ task' \in {"find", "read"} => session' = "open"
      BY <1>0, <2>1, <2>2 DEF KeepAttached
    <3> QED
      BY <2>1, <3>2, <3>3
  <2> QED
    BY <2>3, <2>4
<1>7. ASSUME BlockReady PROVE BenchIInv'
  BY <1>0, <1>7 DEF BlockReady
<1>8. ASSUME Neighbour PROVE BenchIInv'
  BY <1>0, <1>8 DEF Neighbour
<1>9. ASSUME OpenVcom PROVE BenchIInv'
  <2>1. ASSUME desk.vcom[chosen] # "none", Cardinality(VcomFor) = 1 PROVE VcomFor = {chosen}
    <3>1. chosen \in VcomFor
      BY <1>9, <2>1 DEF OpenVcom, VcomFor, VcomPorts
    <3>2. IsFiniteSet(VcomFor)
      <4>1. VcomFor \subseteq OnDesk
        BY DEF VcomFor, VcomPorts
      <4> QED
        BY <4>1, FS_Subset DEF BenchAssumption
    <3>3. PICK b : VcomFor = {b}
      <4>1. \A S : IsFiniteSet(S) => (Cardinality(S) = 1 <=> \E b : S = {b})
        BY FS_Singleton, Zenon
      <4> HIDE DEF VcomFor
      <4> QED
        BY <2>1, <3>2, <4>1
    <3> QED
      BY <3>1, <3>3
  <2>2. VcomFor \subseteq OnDesk
    BY DEF VcomFor, VcomPorts
  <2> QED
    BY <1>0, <1>9, <2>1, <2>2 DEF OpenVcom
<1>10. ASSUME FindCdc PROVE BenchIInv'
  BY <1>0, <1>10 DEF FindCdc, AppCdcPorts, CdcPorts, Marker
<1>11. ASSUME AttachLink PROVE BenchIInv'
  BY <1>0, <1>11 DEF AttachLink
<1>12. ASSUME FindBlock PROVE BenchIInv'
  BY <1>0, <1>12 DEF FindBlock, Blocks
<1>13. ASSUME ProbeEngine PROVE BenchIInv'
  BY <1>0, <1>13 DEF ProbeEngine
<1>14. ASSUME ReadRing PROVE BenchIInv'
  BY <1>0, <1>14 DEF ReadRing, Readable, Blocks, TextOf
<1>15. ASSUME StartMissed PROVE BenchIInv'
  BY <1>0, <1>15 DEF StartMissed
<1>16. ASSUME ReadPort PROVE BenchIInv'
  <2>1. PICK b \in OnDesk : /\ b = IF desk.link = "swo" THEN chosen ELSE port
                           /\ launched[b].image # "app"
                           /\ heard' = {[board |-> b, image |-> launched[b].image,
                                         by |-> launched[b].by]}
    <3>1. (IF desk.link = "swo" THEN chosen ELSE port) \in OnDesk
      BY <1>0, <1>16 DEF ReadPort
    <3> QED
      BY <1>16, <3>1 DEF ReadPort
  <2>2. \A t \in heard' : t.board = b
    BY <2>1
  <2> QED
    BY <1>0, <1>16, <2>1, <2>2 DEF ReadPort
<1>17. ASSUME Accept PROVE BenchIInv'
  BY <1>0, <1>17 DEF Accept
<1>18. ASSUME GiveUpBench PROVE BenchIInv'
  BY <1>0, <1>18 DEF GiveUpBench
<1>30. ASSUME UNCHANGED benchVars PROVE BenchIInv'
  BY <1>30 DEF benchVars
<1> QED
  BY <1>1, <1>2, <1>3, <1>4, <1>5, <1>6, <1>7, <1>8, <1>9, <1>10, <1>11, <1>12, <1>13, <1>14,
     <1>15, <1>16, <1>17, <1>18, <1>30, Zenon DEF BenchNext

THEOREM BenchInvariance == BenchSpec => []BenchIInv
<1>1. BenchAssumption /\ desk \in Desks /\ BenchInit => BenchIInv
  BY InitBench
<1>2. BenchAssumption /\ BenchIInv /\ [BenchNext]_benchVars => BenchIInv'
  BY NextBench
<1> QED
  BY <1>1, <1>2, BenchAssumption, PTL DEF BenchSpec

\* However many boards are on the desk, a capture that is accepted is of the board, the image
\* and the launch it says it is of (resolve_probe_serial, resolve_cdc_port, capture_rtt_output).
THEOREM BenchHolds == BenchSpec => []CaptureIsOwn
<1>1. BenchIInv => CaptureIsOwn
  <2> SUFFICES ASSUME BenchIInv PROVE OneBoard /\ OwnBlock /\ DebuggerInPlace
    BY DEF BenchIInv, CaptureIsOwn
  <2>1. OneBoard /\ OwnBlock
    BY DEF BenchIInv, OneBoard, OwnBlock, HeardIsOwn
  <2>2. DebuggerInPlace
    BY DEF BenchIInv, DebuggerInPlace, SessionInPlace
  <2> QED
    BY <2>1, <2>2
<1> QED
  BY <1>1, BenchInvariance, PTL
-----------------------------------------------------------------------------
(* The verdict on a power run. *)

LEMMA MaxOfInts ==
  ASSUME NEW a \in Int, NEW b \in Int
  PROVE  Max({a, b}) = IF a >= b THEN a ELSE b
<1>1. \E x \in {a, b} : \A y \in {a, b} : x >= y
  OBVIOUS
<1> QED
  BY <1>1 DEF Max

LEMMA MinOfInts ==
  ASSUME NEW a \in Int, NEW b \in Int
  PROVE  Min({a, b}) = IF a <= b THEN a ELSE b
<1>1. \E x \in {a, b} : \A y \in {a, b} : x <= y
  OBVIOUS
<1> QED
  BY <1>1 DEF Min

LEMMA MaxOfThree ==
  ASSUME NEW a \in Int, NEW b \in Int, NEW c \in Int
  PROVE  /\ Max({a, b, c}) \in {a, b, c}
         /\ Max({a, b, c}) >= a /\ Max({a, b, c}) >= b /\ Max({a, b, c}) >= c
<1>1. \E x \in {a, b, c} : \A y \in {a, b, c} : x >= y
  OBVIOUS
<1> QED
  BY <1>1 DEF Max

LEMMA Quotient ==
  ASSUME NEW p \in Nat \ {0}, NEW a \in Nat
  PROVE  a \div p \in Int /\ p * (a \div p) <= a /\ a < p * (a \div p) + p
OBVIOUS

LEMMA Monotone ==
  ASSUME NEW a \in Nat, NEW b \in Int, NEW c \in Int, b <= c
  PROVE  a * b <= a * c
OBVIOUS

\* What is taken of a run.
LEMMA RunFields ==
  ASSUME RunPossible
  PROVE  /\ run.internal \in BOOLEAN /\ run.dedicated \in BOOLEAN /\ run.infers \in BOOLEAN
         /\ run.fault \in Faults
BY DEF RunPossible, PowerRuns

\* What is taken of a run, and what the bounds of the constants say of it.
LEMMA RunBounds ==
  ASSUME RunPossible
  PROVE  /\ \E tenth \in Nat \ {0} : run.unit = 10 * tenth
         /\ run.unit \in Nat /\ run.loss \in 0 .. 10 /\ run.drift \in -30 .. 30
         /\ run.rate \in Nat \ {0} /\ Packets \in Nat /\ Packets <= 100000 /\ Slack \in Nat /\ 8000 <= Slack /\ Slack <= 108000
         /\ run.error \in {-1, 0, 1} /\ run.fault \in Faults
         /\ run.internal \in BOOLEAN /\ run.dedicated \in BOOLEAN /\ run.infers \in BOOLEAN
         /\ run.lockstep \in BOOLEAN /\ run.tardy \in BOOLEAN
<1>1. /\ run.unit \in Units /\ run.loss \in Losses /\ run.drift \in Drifts /\ run.rate \in Rates
      /\ run.error \in {-1, 0, 1} /\ run.fault \in Faults
      /\ run.internal \in BOOLEAN /\ run.dedicated \in BOOLEAN /\ run.infers \in BOOLEAN
      /\ run.lockstep \in BOOLEAN /\ run.tardy \in BOOLEAN
  BY DEF RunPossible, PowerRuns
<1>2. run.rate \in Nat \ {0} /\ Packets \in Nat /\ Packets <= 100000
  BY <1>1, VerdictAssumption DEF Packets
<1>3. Slack \in Nat /\ 8000 <= Slack /\ Slack <= 108000
  BY <1>2 DEF Slack
<1>4. PICK tenth \in 1 .. run.unit : run.unit = 10 * tenth
  BY <1>1, VerdictAssumption
<1>5. tenth \in Nat \ {0}
  OBVIOUS
<1>6. run.loss \in 0 .. 10 /\ run.drift \in -30 .. 30
  <2>1. Losses \subseteq 0 .. 10 /\ Drifts \subseteq -30 .. 30
    BY VerdictAssumption
  <2> QED
    BY <1>1, <2>1
<1> QED
  BY <1>1, <1>2, <1>3, <1>4, <1>5, <1>6

\* The profile reports the share of the time that its clock kept.
LEMMA ProfiledShare ==
  ASSUME RunPossible
  PROVE  /\ ProfiledUnit \in 0 .. run.unit
         /\ ProfiledUnit = 0 <=> run.loss = 10
         /\ run.loss = 0 => ProfiledUnit = run.unit
         /\ run.loss # 10 => LET kept == 10 - run.loss
                             IN (ProfiledUnit * 10 + kept - 1) \div kept = run.unit
<1>1. PICK tenth \in Nat \ {0} : run.unit = 10 * tenth
  BY RunBounds
<1> DEFINE kept == 10 - run.loss
           share == tenth * kept
<1>2. kept \in 0 .. 10 /\ (kept = 0 <=> run.loss = 10) /\ (kept = 10 <=> run.loss = 0)
  BY RunBounds
<1>3. run.unit * kept = 10 * share
  BY <1>1, <1>2
<1>4. share \in Nat /\ (share = 0 <=> kept = 0) /\ (kept = 10 => share = run.unit)
      /\ share <= run.unit
  <2>1. kept \in {0, 1, 2, 3, 4, 5, 6, 7, 8, 9, 10}
    BY <1>2
  <2> HIDE DEF kept
  <2> QED
    BY <1>1, <2>1
<1>5. ProfiledUnit = share
  <2>1. ProfiledUnit = (10 * share) \div 10
    BY <1>3 DEF ProfiledUnit, Sampled
  <2> HIDE DEF share
  <2> QED
    BY <2>1, <1>4
<1>6. kept # 0 => (share * 10 + kept - 1) \div kept = run.unit
  <2>1. kept \in {0, 1, 2, 3, 4, 5, 6, 7, 8, 9, 10}
    BY <1>2
  <2> HIDE DEF kept
  <2> QED
    BY <1>1, <2>1
<1> HIDE DEF share
<1> QED
  BY <1>2, <1>4, <1>5, <1>6

\* A count within the bounds of a window.
LEMMA ClampedCount ==
  ASSUME NEW q \in Nat
  PROVE  Clamped(q) = IF q < 10 THEN 10 ELSE IF q > 500000 THEN 500000 ELSE q
<1> DEFINE least == Min({500000, q})
<1>1. least = IF 500000 <= q THEN 500000 ELSE q
  BY MinOfInts
<1>2. least \in Int
  BY <1>1
<1> HIDE DEF least
<1>3. Max({10, least}) = IF 10 >= least THEN 10 ELSE least
  BY <1>2, MaxOfInts
<1>4. Clamped(q) = Max({10, least})
  BY DEF Clamped, WindowMin, WindowMax, least
<1> QED
  BY <1>1, <1>3, <1>4

\* The count that is derived from a time fills the target, or is the most there may be.
LEMMA DerivedCount ==
  ASSUME NEW unit \in Nat \ {0}
  PROVE  /\ Derived(unit) \in Nat /\ Derived(unit) >= 10
         /\ Derived(unit) = 500000 \/ Derived(unit) * unit >= 5000000
<1> DEFINE q == (5000000 + unit - 1) \div unit
<1>1. q \in Int /\ 5000000 + unit - 1 < unit * q + unit
  BY Quotient
<1>2. unit * q >= 5000000
  BY <1>1
<1>3. q >= 1
  BY <1>1, <1>2
<1>4. unit * q = q * unit
  BY <1>1
<1>5. q \in Nat
  BY <1>1, <1>3
<1>6. Derived(unit) = Clamped(q)
  BY DEF Derived, Target, q
<1> HIDE DEF q
<1>7. Clamped(q) = IF q < 10 THEN 10 ELSE IF q > 500000 THEN 500000 ELSE q
  BY <1>5, ClampedCount
<1> DEFINE c == Clamped(q)
<1>8. c \in Nat /\ c >= 10 /\ (c = 500000 \/ c >= q)
  BY <1>5, <1>7
<1> HIDE DEF c
<1>9. c >= q => unit * c >= unit * q
  BY <1>1, <1>8, Monotone
<1>10. unit * c = c * unit /\ unit * c \in Nat /\ unit * q \in Int
  BY <1>1, <1>8
<1>11. c = 500000 \/ c * unit >= 5000000
  BY <1>2, <1>8, <1>9, <1>10
<1> QED
  BY <1>6, <1>8, <1>11 DEF c

\* The count the shared firmware sizes for itself misses the target by less than an inference.
LEMMA SelfSizedCount ==
  ASSUME RunPossible
  PROVE  /\ SelfSized \in Nat /\ SelfSized >= 10
         /\ run.loss # 10 => SelfSized * run.unit >= 4500000
<1> DEFINE unit == run.unit
           q == 5000000 \div unit
<1>1. unit \in Nat \ {0} /\ unit >= 10
  BY RunBounds
<1>2. CASE run.loss = 10
  BY <1>2 DEF SelfSized, Sampled, WindowMin
<1>3. CASE run.loss # 10
  <2>1. SelfSized = Clamped(q)
    BY <1>3 DEF SelfSized, Sampled, Target
  <2> HIDE DEF unit
  <2>2. q \in Int /\ 5000000 < unit * q + unit
    BY <1>1, Quotient
  <2>3. q \in Nat
    BY <1>1
  <2> HIDE DEF q
  <2>4. Clamped(q) = IF q < 10 THEN 10 ELSE IF q > 500000 THEN 500000 ELSE q
    BY <2>3, ClampedCount
  <2> DEFINE c == Clamped(q)
  <2>5. c \in Nat /\ c >= 10 /\ (c = 500000 \/ c >= q)
    BY <2>3, <2>4
  <2> HIDE DEF c
  <2>6. c = 500000 => c * unit >= 4500000
    BY <1>1
  <2>7. c >= q => c * unit >= 4500000
    <3> SUFFICES ASSUME c >= q PROVE c * unit >= 4500000
      OBVIOUS
    <3>1. unit * q <= unit * c /\ unit * 10 <= unit * c
      BY <1>1, <2>3, <2>5, Monotone
    <3> DEFINE a == unit * q
               b == unit * c
    <3>2. a \in Int /\ b \in Int /\ b = c * unit
      BY <1>1, <2>3, <2>5
    <3>3. 5000000 < a + unit /\ a <= b /\ unit * 10 <= b
      BY <2>2, <3>1
    <3> HIDE DEF a, b
    <3> QED
      BY <1>1, <3>2, <3>3
  <2> QED
    BY <2>1, <2>5, <2>6, <2>7 DEF c, unit
<1> QED
  BY <1>2, <1>3

\* What is planned: a spin of the target's length, or as many inferences as fill it.
LEMMA PlanFacts ==
  ASSUME RunPossible, plan = Planned
  PROVE  /\ plan.count \in Nat /\ plan.unit \in Nat
         /\ ~run.infers => plan.count = 1 /\ plan.unit = 5000000 /\ run.loss = 0 /\ BoundUnit = 5000000
         /\ run.infers => plan.unit = ProfiledUnit /\ (plan.unit = 0 <=> run.loss = 10)
         /\ plan.count = 0 => run.infers /\ plan.unit = 0
         /\ run.infers /\ run.loss # 10 => plan.count * run.unit >= 4500000
         /\ run.infers /\ plan.unit > 0 => plan.count > 0 /\ BoundUnit = run.unit
         /\ run.infers /\ run.loss = 0 => plan.unit = run.unit
<1> USE RunBounds, ProfiledShare
<1>1. CASE ~run.infers
  <2>1. plan.count = 1 /\ plan.unit = 5000000 /\ run.loss = 0
    BY <1>1 DEF Planned, Target, RunPossible
  <2>2. BoundUnit = 5000000
    BY <1>1, <2>1 DEF BoundUnit
  <2> QED
    BY <1>1, <2>1, <2>2
<1>2. CASE run.infers /\ ProfiledUnit = 0
  <2>1. plan.unit = 0 /\ plan.count \in {0, SelfSized} /\ run.loss = 10
    BY <1>2 DEF Planned, Derived
  <2>2. SelfSized \in Nat /\ SelfSized >= 10
    BY SelfSizedCount
  <2> QED
    BY <1>2, <2>1, <2>2
<1>3. CASE run.infers /\ ProfiledUnit # 0
  <2>1. /\ plan.unit = ProfiledUnit /\ run.loss # 10
        /\ plan.count = IF run.dedicated THEN Derived(ProfiledUnit) ELSE SelfSized
    BY <1>3 DEF Planned
  <2>2. ProfiledUnit \in Nat \ {0} /\ ProfiledUnit <= run.unit
    BY <1>3
  <2>3. plan.count \in Nat /\ plan.count >= 10
    BY <2>1, <2>2, DerivedCount, SelfSizedCount
  <2>4. plan.count * run.unit >= 4500000
    <3>1. CASE plan.count = 500000
      <4>1. run.unit >= 10
        OBVIOUS
      <4> QED
        BY <3>1, <4>1
    <3>2. CASE plan.count * ProfiledUnit >= 5000000
      <4>1. plan.count * ProfiledUnit <= plan.count * run.unit
        BY <2>2, <2>3, Monotone
      <4> QED
        BY <2>2, <2>3, <3>2, <4>1
    <3>3. CASE ~run.dedicated
      BY <2>1, <3>3, SelfSizedCount
    <3>4. run.dedicated => plan.count = 500000 \/ plan.count * ProfiledUnit >= 5000000
      BY <2>1, <2>2, DerivedCount
    <3> QED
      BY <3>1, <3>2, <3>3, <3>4
  <2>5. BoundUnit = run.unit
    <3>1. Min({run.loss, 9}) = run.loss
      BY <2>1, MinOfInts
    <3>2. BoundUnit = (ProfiledUnit * 10 + (10 - run.loss) - 1) \div (10 - run.loss)
      BY <1>3, <2>1, <3>1 DEF BoundUnit, Sampled
    <3> QED
      BY <2>1, <3>2
  <2> QED
    BY <1>3, <2>1, <2>2, <2>3, <2>4, <2>5
<1> QED
  BY <1>1, <1>2, <1>3

\* The time that work takes on a clock that is off by so many percent.
LEMMA Stretched ==
  ASSUME NEW work \in Nat, NEW drift \in -30 .. 30, NEW a \in -30 .. 30, NEW b \in -30 .. 30,
         a <= drift, drift <= b
  PROVE  LET length == (work * (100 + drift)) \div 100
         IN /\ length \in Nat
            /\ work * (100 + a) < 100 * length + 100 /\ 100 * length <= work * (100 + b)
<1> DEFINE x == work * (100 + drift)
<1>1. work * (100 + a) <= x /\ x <= work * (100 + b) /\ x \in Nat
  BY Monotone
<1> HIDE DEF x
<1>2. x \div 100 \in Nat /\ 100 * (x \div 100) <= x /\ x < 100 * (x \div 100) + 100
  BY <1>1
<1> DEFINE lo == work * (100 + a)
           hi == work * (100 + b)
<1>3. lo \in Int /\ hi \in Int
  OBVIOUS
<1> HIDE DEF lo, hi
<1>4. lo < 100 * (x \div 100) + 100 /\ 100 * (x \div 100) <= hi
  BY <1>1, <1>2, <1>3 DEF lo, hi
<1> QED
  BY <1>2, <1>4 DEF lo, hi, x

\* The work of a window takes nine tenths of its target at least, unless it ends early or the
\* firmware could not size it.
LEMMA WorkFacts ==
  ASSUME RunPossible, plan = Planned, plan.count > 0
  PROVE  /\ Work \in Nat /\ (run.fault # "early" /\ run.loss # 10 => Work >= 4500000)
         /\ run.infers => Work <= plan.count * run.unit
         /\ run.infers /\ run.fault # "early" => Work = plan.count * run.unit
         /\ ~run.infers => Work = 5000000
         /\ WorkDone \in Nat /\ (run.fault = "early" => WorkDone # plan.count)
<1>0. /\ plan.count \in Nat /\ (run.infers /\ run.loss # 10 => plan.count * run.unit >= 4500000)
      /\ run.infers \in BOOLEAN
  BY RunBounds, PlanFacts
<1>1. plan.count \in Nat \ {0} /\ run.unit \in Nat
  BY <1>0, RunBounds
<1>2. WorkDone \in Nat /\ WorkDone <= plan.count
      /\ (run.fault # "early" => WorkDone = plan.count)
      /\ (run.fault = "early" => WorkDone # plan.count)
  BY <1>1 DEF WorkDone
<1>3. run.unit * WorkDone <= run.unit * plan.count
  <2>1. plan.count \in Int /\ WorkDone \in Int
    BY <1>1, <1>2
  <2> QED
    BY <1>1, <1>2, <2>1, Monotone
<1>4. WorkDone * run.unit = run.unit * WorkDone /\ plan.count * run.unit = run.unit * plan.count
      /\ WorkDone * run.unit \in Nat
  BY <1>1, <1>2
<1>5. CASE run.infers
  <2>1. Work = WorkDone * run.unit
    BY <1>5 DEF Work
  <2>2. run.fault # "early" => Work = plan.count * run.unit
    BY <1>2, <2>1
  <2> QED
    BY <1>0, <1>2, <1>3, <1>4, <1>5, <2>1, <2>2
<1>6. CASE ~run.infers
  BY <1>2, <1>6 DEF Work, Target
<1> QED
  BY <1>0, <1>5, <1>6

\* How long the window is.
LEMMA WindowFacts ==
  ASSUME RunPossible, plan = Planned, plan.count > 0,
         NEW a \in -30 .. 30, NEW b \in -30 .. 30, a <= run.drift, run.drift <= b
  PROVE  \E length \in Nat :
           /\ Work * (100 + a) < 100 * length + 100 /\ 100 * length <= Work * (100 + b)
           /\ Window = IF run.fault = "content" THEN 2 * length ELSE length
<1> DEFINE length == (Work * (100 + run.drift)) \div 100
<1>1. Work \in Nat /\ run.drift \in -30 .. 30
  BY RunBounds, WorkFacts
<1>2. /\ length \in Nat
      /\ Work * (100 + a) < 100 * length + 100 /\ 100 * length <= Work * (100 + b)
  BY <1>1, Stretched
<1>3. Window = IF run.fault = "content" THEN 2 * length ELSE length
  BY DEF Window
<1> HIDE DEF length
<1> QED
  BY <1>2, <1>3

\* The band is one of three widths, and no narrower than the percentage.
Half(count, unit) == IF count > 1 THEN unit \div 2 ELSE 0
Share(count, unit, percent) == (count * unit * percent) \div 100
LEMMA BandFacts ==
  ASSUME RunPossible, NEW count \in Nat, NEW unit \in Nat, NEW percent \in Nat
  PROVE  /\ Half(count, unit) \in Nat /\ Share(count, unit, percent) \in Nat
         /\ Band(count, unit, percent)
              \in {Half(count, unit), Packets, Share(count, unit, percent)}
         /\ Band(count, unit, percent) >= Share(count, unit, percent)
         /\ 100 * Share(count, unit, percent) <= count * unit * percent
         /\ count * unit * percent < 100 * Share(count, unit, percent) + 100
<1> DEFINE half == IF count > 1 THEN unit \div 2 ELSE 0
           x == count * unit * percent
           share == x \div 100
<1>1. x \in Nat
  OBVIOUS
<1> HIDE DEF x
<1>2. share \in Nat /\ 100 * share <= x /\ x < 100 * share + 100
  BY <1>1
<1>3. half \in Nat /\ Packets \in Int
  BY RunBounds
<1> HIDE DEF half, share
<1>6. half \in Int /\ share \in Int
  BY <1>2, <1>3
<1>4. Max({half, Packets, share}) \in {half, Packets, share} /\ Max({half, Packets, share}) >= share
  BY <1>3, <1>6, MaxOfThree
<1>5. Band(count, unit, percent) = Max({half, Packets, share})
  BY DEF Band, half, share, x
<1> QED
  BY <1>2, <1>3, <1>4, <1>5 DEF half, share, x, Half, Share

\* The drift that a window may show and still be accepted.
Accepted == IF run.infers THEN 15 ELSE 25

\* The window that may be accepted is waited for to its end.
LEMMA WindowIsAwaited ==
  ASSUME RunPossible, plan = Planned, plan.unit > 0, Window > 0, run.drift <= Accepted,
         run.fault \notin {"dead", "late", "stuck", "content"}
  PROVE  Captured.rise /\ Captured.fall
<1>1. /\ plan.count \in Nat \ {0} /\ plan.unit \in Nat
      /\ run.infers => BoundUnit = run.unit
      /\ ~run.infers => BoundUnit = 5000000 /\ plan.count = 1
  <2>1. /\ plan.count \in Nat /\ plan.unit \in Nat
        /\ run.infers => plan.count > 0 /\ BoundUnit = run.unit
        /\ ~run.infers => plan.count = 1 /\ BoundUnit = 5000000
    BY PlanFacts
  <2> QED
    BY <2>1
<1>2. BoundUnit \in Nat \ {0}
  <2>1. run.unit \in Nat \ {0}
    BY RunBounds
  <2> QED
    BY <1>1, <2>1
<1> DEFINE planned == plan.count * BoundUnit
           percent == Max({Tolerance, 15})
           share == Share(plan.count, BoundUnit, percent)
<1>3. percent = Accepted
  <2>1. Max({10, 15}) = 15 /\ Max({25, 15}) = 25
    BY MaxOfInts
  <2> QED
    BY <2>1 DEF Tolerance, Accepted
<1>4. planned \in Nat /\ Work \in Nat /\ Work <= planned
  <2>1. /\ Work \in Nat /\ (run.infers => Work <= plan.count * run.unit)
        /\ (~run.infers => Work = 5000000)
    BY <1>1, WorkFacts
  <2> QED
    BY <1>1, <1>2, <2>1
<1>5. /\ share \in Nat /\ planned * percent < 100 * share + 100
      /\ LongestWindow \in Int /\ LongestWindow >= planned + share
  <2>1. percent \in Nat
    BY <1>3 DEF Accepted
  <2>2. /\ share \in Nat /\ planned * percent < 100 * share + 100
        /\ Band(plan.count, BoundUnit, percent) >= share
        /\ Band(plan.count, BoundUnit, percent) \in Nat
    <3>1. plan.count \in Nat /\ BoundUnit \in Nat /\ Packets \in Nat
      BY <1>1, <1>2, RunBounds
    <3> DEFINE half == Half(plan.count, BoundUnit)
    <3> HIDE DEF percent
    <3>2. /\ half \in Nat /\ share \in Nat
          /\ Band(plan.count, BoundUnit, percent) \in {half, Packets, share}
          /\ Band(plan.count, BoundUnit, percent) >= share
          /\ planned * percent < 100 * share + 100
      BY <2>1, <3>1, BandFacts
    <3> HIDE DEF half, share, planned
    <3> QED
      BY <3>1, <3>2
  <2>3. LongestWindow = planned + Band(plan.count, BoundUnit, percent)
    BY DEF LongestWindow
  <2> HIDE DEF planned, share, percent
  <2> QED
    BY <1>4, <2>2, <2>3
<1>6. Window \in Nat /\ 100 * Window <= Work * (100 + Accepted)
  <2>1. Accepted \in -30 .. 30 /\ -30 \in -30 .. 30 /\ -30 <= run.drift
    BY RunBounds DEF Accepted
  <2>2. plan.count > 0
    BY <1>1
  <2>3. \E length \in Nat :
          /\ Work * (100 + -30) < 100 * length + 100 /\ 100 * length <= Work * (100 + Accepted)
          /\ Window = IF run.fault = "content" THEN 2 * length ELSE length
    BY <2>1, <2>2, WindowFacts
  <2> QED
    BY <2>3
<1>7. Window <= LongestWindow
  <2> HIDE DEF planned, share
  <2>1. CASE run.infers
    <3>1. percent = 15 /\ Accepted = 15
      BY <1>3, <2>1 DEF Accepted
    <3> QED
      BY <1>4, <1>5, <1>6, <3>1
  <2>2. CASE ~run.infers
    <3>1. percent = 25 /\ Accepted = 25
      BY <1>3, <2>2 DEF Accepted
    <3> QED
      BY <1>4, <1>5, <1>6, <3>1
  <2> QED
    BY <2>1, <2>2
<1>8. RiseTime \in {0, BeforeWindow} /\ BeforeWindow \in Nat
  <2>1. Warmup \in Nat
    BY <1>2, RunBounds DEF Warmup, WarmupReps
  <2> QED
    BY <2>1 DEF RiseTime, BeforeWindow, Headroom, BootSettle
<1>9. FallWait >= LongestWindow + BeforeWindow
  <2>1. DefaultBound \in Int /\ LongestWindow + BeforeWindow \in Int
    BY <1>5, <1>8 DEF DefaultBound
  <2>2. Max({DefaultBound, LongestWindow + BeforeWindow}) >= LongestWindow + BeforeWindow
    BY <2>1, MaxOfInts DEF DefaultBound
  <2> QED
    BY <1>2, <2>2 DEF FallWait
<1>10. FallWait \in Int
  <2>1. DefaultBound \in Int /\ LongestWindow + BeforeWindow \in Int
    BY <1>5, <1>8 DEF DefaultBound
  <2> QED
    BY <1>2, <2>1, MaxOfInts DEF FallWait
<1>11. Falls
  BY <1>5, <1>6, <1>7, <1>8, <1>9, <1>10 DEF Falls
<1> QED
  BY <1>11 DEF Captured

-----------------------------------------------------------------------------
\* What the instrument and the firmware report of a run, once they have.
GateRead == gate = IF run.internal THEN NoGate ELSE Captured
RecordRead ==
  /\ terminal = IF run.dedicated THEN Record ELSE NoTerminal
  /\ monitor = IF run.dedicated THEN Measured ELSE NoMonitor
Healthy ==
  /\ run.fault = "none" /\ run.loss = 0
  /\ Explained(IF run.internal \/ ~run.infers THEN 20 ELSE IF run.dedicated THEN 12 ELSE 7)

\* The window of a healthy run is off by its drift and no more.
LEMMA HealthyWindow ==
  ASSUME RunPossible, plan = Planned, Healthy
  PROVE  /\ plan.count \in Nat \ {0} /\ plan.unit \in Nat \ {0} /\ Expected \in Nat
         /\ Expected = plan.count * plan.unit /\ Expected >= 4500000
         /\ Window \in Nat
         /\ LET off == IF run.internal \/ ~run.infers THEN 20 ELSE IF run.dedicated THEN 12 ELSE 7
            IN /\ Expected * (100 - off) < 100 * Window + 100
               /\ 100 * Window <= Expected * (100 + off)
         /\ ~run.infers => Expected = 5000000
<1> DEFINE off == IF run.internal \/ ~run.infers THEN 20 ELSE IF run.dedicated THEN 12 ELSE 7
<1>1. plan.count \in Nat \ {0} /\ plan.unit \in Nat \ {0} /\ Expected = Work /\ Work \in Nat
      /\ Work >= 4500000 /\ (~run.infers => Work = 5000000)
  <2>1. /\ plan.count \in Nat /\ plan.unit \in Nat
        /\ ~run.infers => plan.count = 1 /\ plan.unit = 5000000
        /\ run.infers => plan.unit = run.unit
    BY PlanFacts DEF Healthy
  <2>2. run.unit \in Nat \ {0}
    BY RunBounds
  <2>3. plan.unit # 0
    BY <2>1, <2>2
  <2>4. plan.count > 0
    BY <2>1, <2>3, PlanFacts
  <2>5. /\ Work \in Nat /\ Work >= 4500000 /\ (run.infers => Work = plan.count * run.unit)
        /\ ~run.infers => Work = 5000000
    BY <2>4, WorkFacts DEF Healthy
  <2>6. Expected = Work
    BY <2>1, <2>5, RunBounds DEF Expected
  <2> QED
    BY <2>1, <2>3, <2>4, <2>5, <2>6
<1>2. /\ 0 - off \in -30 .. 30 /\ off \in -30 .. 30 /\ 0 - off <= run.drift /\ run.drift <= off
      /\ off \in {7, 12, 20}
  BY RunBounds DEF Healthy, Explained
<1>3. plan.count > 0
  BY <1>1
<1>4. PICK length \in Nat :
        /\ Work * (100 + (0 - off)) < 100 * length + 100 /\ 100 * length <= Work * (100 + off)
        /\ Window = IF run.fault = "content" THEN 2 * length ELSE length
  <2> HIDE DEF off
  <2> QED
    BY <1>2, <1>3, WindowFacts
<1>5. Window = length
  BY <1>4 DEF Healthy
<1>6. 100 + (0 - off) = 100 - off
  BY <1>2
<1> HIDE DEF off
<1>7. Expected * (100 - off) < 100 * Window + 100 /\ 100 * Window <= Expected * (100 + off)
  BY <1>1, <1>4, <1>5, <1>6
<1> QED
  BY <1>1, <1>4, <1>5, <1>7 DEF Expected, off

\* The stage refuses nothing of a healthy run.
LEMMA HealthyRecord ==
  ASSUME RunPossible, plan = Planned, Healthy
  PROVE  /\ Record = [sent |-> TRUE, ok |-> TRUE, requested |-> plan.count,
                      completed |-> plan.count, lowered |-> TRUE, elapsed |-> Window]
         /\ Measured = IF run.internal THEN [read |-> TRUE, energy |-> TRUE, overflow |-> FALSE,
                                             count |-> plan.count]
                       ELSE NoMonitor
         /\ ~TerminalRefused(Record) /\ ~MeasurementRefused(Measured)
<1>1. run.fault = "none"
  BY DEF Healthy
<1>2. Record = [sent |-> TRUE, ok |-> TRUE, requested |-> plan.count,
                completed |-> plan.count, lowered |-> TRUE, elapsed |-> Window]
  BY <1>1 DEF Record, WorkDone, FirmwareWindow
<1>3. Measured = IF run.internal THEN [read |-> TRUE, energy |-> TRUE, overflow |-> FALSE,
                                       count |-> plan.count]
                 ELSE NoMonitor
  BY <1>1, <1>2, RunFields DEF Measured
<1>4. Window > 0
  <2>1. Expected \in Nat /\ Window \in Nat /\ Expected >= 4500000
    BY HealthyWindow
  <2> DEFINE off == IF run.internal \/ ~run.infers THEN 20 ELSE IF run.dedicated THEN 12 ELSE 7
  <2>2. Expected * (100 - off) < 100 * Window + 100 /\ off \in {7, 12, 20}
    BY HealthyWindow
  <2> HIDE DEF off
  <2> QED
    BY <2>1, <2>2
<1>5. ~TerminalRefused(Record)
  BY <1>2, <1>4 DEF TerminalRefused, Frozen
<1>6. ~MeasurementRefused(Measured)
  BY <1>3 DEF MeasurementRefused, ImplausiblyZero
<1> QED
  BY <1>2, <1>3, <1>5, <1>6

\* A long window is off by the instrument's slack and no more.
LEMMA LongWindow ==
  ASSUME RunPossible, NEW wide \in Int, wide >= 108000
  PROVE  Max({0, wide + run.error * Slack}) = wide + run.error * Slack
<1> DEFINE e == run.error * Slack
<1>1. e \in Int /\ e >= -108000
  BY RunBounds
<1> HIDE DEF e
<1>2. wide + e \in Int /\ wide + e >= 0
  BY <1>1
<1>3. Max({0, wide + e}) = IF 0 >= wide + e THEN 0 ELSE wide + e
  BY <1>2, MaxOfInts
<1> QED
  BY <1>2, <1>3 DEF e

\* The gate of a healthy run: it falls, and shows the window but for the instrument's slack.
LEMMA HealthyGate ==
  ASSUME RunPossible, plan = Planned, Healthy, ~run.internal
  PROVE  /\ Captured.fall /\ Captured.length \in Int
         /\ Captured.length = Window + run.error * Slack
         /\ Window - 108000 <= Captured.length /\ Captured.length <= Window + 108000
         /\ Window - Slack <= Captured.length /\ Captured.length <= Window + Slack
<1> DEFINE off == IF run.internal \/ ~run.infers THEN 20 ELSE IF run.dedicated THEN 12 ELSE 7
<1>1. /\ Expected * (100 - off) < 100 * Window + 100 /\ off \in {7, 12, 20}
      /\ Expected \in Nat /\ Window \in Nat /\ Expected >= 4500000 /\ plan.unit > 0
  BY HealthyWindow
<1>2. Window >= 108000
  <2> HIDE DEF off
  <2> QED
    BY <1>1
<1>3. run.drift <= Accepted
  BY RunBounds DEF Healthy, Explained, Accepted
<1>4. run.fault = "none"
  BY DEF Healthy
<1>5. Captured.rise /\ Captured.fall
  BY <1>1, <1>2, <1>3, <1>4, WindowIsAwaited
<1>6. Captured = [rise |-> TRUE, fall |-> Falls,
                  length |-> IF ~Falls THEN 0 ELSE Max({0, Window + run.error * Slack})]
  BY <1>2, <1>4 DEF Captured
<1>7. Captured.length = Window + run.error * Slack
  BY <1>1, <1>2, <1>5, <1>6, LongWindow
<1>8. run.error \in {-1, 0, 1} /\ Slack \in Nat /\ 8000 <= Slack /\ Slack <= 108000
  BY RunBounds
<1>9. run.error * Slack \in {0 - Slack, 0, Slack}
  BY <1>8
<1> QED
  BY <1>1, <1>5, <1>7, <1>8, <1>9

\* A healthy gate is of full length, within its band or excused by a clock that agrees with it.
LEMMA HealthyDuration ==
  ASSUME RunPossible, plan = Planned, Healthy, GateRead, RecordRead, ~run.internal
  PROVE  /\ Gated /\ Sized /\ ~BelowMinimum /\ ~Disagrees /\ ~Unhealthy
         /\ run.dedicated => Observed
         /\ OutOfBand => run.dedicated /\ ~BeyondDrift
<1> DEFINE off == IF ~run.infers THEN 20 ELSE IF run.dedicated THEN 12 ELSE 7
           E == Expected
           W == Window
           L == gate.length
<1>1. /\ E * (100 - off) < 100 * W + 100 /\ 100 * W <= E * (100 + off)
      /\ E \in Nat /\ W \in Nat /\ E >= 4500000 /\ (~run.infers => E = 5000000)
      /\ plan.count \in Nat \ {0} /\ plan.unit \in Nat \ {0} /\ E = plan.count * plan.unit
  BY HealthyWindow
<1>2. /\ gate.fall /\ L \in Int /\ W - 108000 <= L /\ L <= W + 108000
      /\ W - Slack <= L /\ L <= W + Slack
  BY HealthyGate DEF GateRead
<1>3. off = (IF ~run.infers THEN 20 ELSE IF run.dedicated THEN 12 ELSE 7) /\ off \in {7, 12, 20}
  OBVIOUS
<1>4. run.dedicated => /\ terminal.sent /\ terminal.ok /\ terminal.completed = terminal.requested
                       /\ terminal.elapsed = W
  BY HealthyRecord DEF RecordRead
<1>5. ~run.dedicated => ~terminal.sent
  BY DEF RecordRead, NoTerminal
<1> HIDE DEF E, W, L, off
<1>6. W >= 1108000 /\ L >= 1000000
  BY <1>1, <1>2, <1>3
<1>7. Gated /\ Sized /\ ~Unhealthy
  BY <1>1, <1>2, <1>4, <1>5, RunBounds DEF Gated, Sized, Unhealthy, E
<1>8. ~BelowMinimum
  BY <1>2, <1>6 DEF BelowMinimum, MinimumGate, L
<1>9. run.dedicated => Observed
  <2>1. gate.length > 0
    BY <1>2, <1>6 DEF L
  <2>2. run.dedicated => terminal.sent /\ terminal.elapsed > 0
    BY <1>1, <1>4, <1>6
  <2> QED
    BY <1>7, <2>1, <2>2 DEF Observed
<1>10. ~Disagrees
  <2>1. SUFFICES ASSUME run.dedicated PROVE ~Disagrees
    BY <1>5 DEF Disagrees, Observed
  <2>2. Slack \in Nat /\ 8000 <= Slack /\ Slack <= 108000
    BY RunBounds
  <2> DEFINE d == W - L
  <2>3. ~((IF d > 0 THEN d ELSE -d) > Slack)
    BY <1>1, <1>2, <2>2
  <2>4. terminal.elapsed - gate.length = d
    BY <1>4, <2>1 DEF L
  <2> HIDE DEF d
  <2> QED
    BY <2>3, <2>4 DEF Disagrees
<1>11. Off = (IF L > E THEN L - E ELSE E - L)
  BY DEF Off, L, E
<1>12. OutOfBand => run.dedicated /\ ~BeyondDrift
  <2> DEFINE half == Half(plan.count, plan.unit)
             share == Share(plan.count, plan.unit, Tolerance)
             band == Band(plan.count, plan.unit, Tolerance)
  <2>1. Tolerance \in Nat /\ plan.count \in Nat /\ plan.unit \in Nat
    BY <1>1, RunBounds DEF Tolerance
  <2>2. /\ half \in Nat /\ share \in Nat /\ band \in {half, Packets, share} /\ band >= share
        /\ plan.count * plan.unit * Tolerance < 100 * share + 100
    BY <2>1, BandFacts
  <2>3. Packets \in Nat
    BY RunBounds
  <2> HIDE DEF half, share
  <2>4. band \in Nat
    BY <2>2, <2>3
  <2> HIDE DEF band
  <2>5. E * Tolerance < 100 * share + 100
    BY <1>1, <2>2
  <2>6. SUFFICES ASSUME OutOfBand PROVE run.dedicated /\ ~BeyondDrift
    OBVIOUS
  <2>7. Off > band
    BY <2>6 DEF OutOfBand, band
  <2>8. CASE ~run.infers
    <3>1. off = 20 /\ Tolerance = 25
      BY <2>8, <1>3 DEF Tolerance
    <3> QED
      BY <1>1, <1>2, <1>11, <2>2, <2>4, <2>5, <2>7, <3>1
  <2>9. CASE run.infers /\ ~run.dedicated
    <3>1. off = 7 /\ Tolerance = 10
      BY <2>9, <1>3 DEF Tolerance
    <3> QED
      BY <1>1, <1>2, <1>11, <2>2, <2>4, <2>5, <2>7, <3>1
  <2>10. CASE run.infers /\ run.dedicated
    <3>1. off = 12
      BY <2>10, <1>3
    <3>2. ~(20 * Off > 3 * E)
      BY <1>1, <1>2, <1>11, <3>1
    <3> QED
      BY <2>10, <3>2 DEF BeyondDrift, E
  <2> QED
    BY <2>8, <2>9, <2>10, RunBounds
<1> QED
  BY <1>7, <1>8, <1>9, <1>10, <1>12

\* Nothing is found wrong with a healthy run, and its figure is published.
LEMMA HealthyJudged ==
  ASSUME RunPossible, plan = Planned, Healthy, GateRead, RecordRead
  PROVE  Issues = {} /\ EnergyPublished = run.infers
<1> USE DEF When
<1>1. /\ plan.count \in Nat \ {0} /\ plan.unit \in Nat \ {0} /\ Window \in Nat
      /\ Expected \in Nat /\ Expected >= 4500000 /\ run.fault = "none" /\ run.loss = 0
  BY HealthyWindow DEF Healthy
<1>2. ProfileIssues = {}
  <2>1. run.infers => ProfiledUnit # 0
    BY <1>1, ProfiledShare
  <2> QED
    BY <1>1, <2>1 DEF ProfileIssues
<1>3. run.dedicated =>
        /\ terminal = [sent |-> TRUE, ok |-> TRUE, requested |-> plan.count,
                       completed |-> plan.count, lowered |-> TRUE, elapsed |-> Window]
        /\ monitor = IF run.internal THEN [read |-> TRUE, energy |-> TRUE, overflow |-> FALSE,
                                           count |-> plan.count]
                     ELSE NoMonitor
  BY HealthyRecord DEF RecordRead
<1>4. ~run.dedicated => terminal = NoTerminal /\ monitor = NoMonitor
  BY DEF RecordRead
<1>5. run.internal => run.dedicated /\ gate = NoGate /\ ~Gated
  BY RunBounds DEF RunPossible, GateRead, Gated
<1>6. Window > 0
  <2> DEFINE off == IF run.internal \/ ~run.infers THEN 20 ELSE IF run.dedicated THEN 12 ELSE 7
  <2>1. Expected * (100 - off) < 100 * Window + 100 /\ off \in {7, 12, 20}
    BY HealthyWindow
  <2> HIDE DEF off
  <2> QED
    BY <1>1, <2>1
<1>7. ~Disagrees /\ ~BelowMinimum /\ ~Unhealthy
  <2>1. CASE run.internal
    <3>1. ~Unhealthy
      BY <2>1, <1>3, <1>5 DEF Unhealthy
    <3> QED
      BY <2>1, <3>1, <1>5 DEF Disagrees, Observed, BelowMinimum, Sized
  <2>2. CASE ~run.internal
    BY <2>2, HealthyDuration
  <2> QED
    BY <2>1, <2>2
<1>8. ObservationIssues = {}
  <2>1. ~run.internal => gate.fall
    BY HealthyDuration DEF Gated
  <2> QED
    BY <1>1, <2>1 DEF ObservationIssues
<1>9. TerminalIssues = {}
  <2>1. CASE ~run.dedicated
    BY <2>1, <1>4 DEF TerminalIssues, NoTerminal
  <2>2. CASE run.dedicated
    <3>1. ~Frozen(terminal)
      BY <2>2, <1>3, <1>6 DEF Frozen
    <3>2. ~(run.internal /\ InternalClockOff)
      <4>1. SUFFICES ASSUME run.internal PROVE ~InternalClockOff
        OBVIOUS
      <4>2. Expected * 80 < 100 * Window + 100 /\ 100 * Window <= Expected * 120
        BY <4>1, HealthyWindow
      <4>3. terminal.elapsed = Window
        BY <2>2, <1>3
      <4> QED
        BY <1>1, <4>2, <4>3 DEF InternalClockOff
    <3> QED
      BY <2>2, <1>3, <1>7, <3>1, <3>2 DEF TerminalIssues
  <2> QED
    BY <2>1, <2>2
<1>10. DurationIssues = {}
  <2>1. CASE run.internal
    BY <2>1, <1>5, <1>7 DEF DurationIssues, OutOfBand, Sized
  <2>2. CASE ~run.internal
    <3>1. Sized /\ (run.dedicated => Observed) /\ (OutOfBand => run.dedicated /\ ~BeyondDrift)
      BY <2>2, HealthyDuration
    <3> QED
      BY <1>7, <3>1 DEF DurationIssues
  <2> QED
    BY <2>1, <2>2
<1>11. MonitorIssues = {}
  BY <1>3, <1>4, <1>5, RunBounds DEF MonitorIssues, NoMonitor
<1>12. Issues = {}
  BY <1>2, <1>8, <1>9, <1>10, <1>11 DEF Issues
<1>13. ~Suppressed
  <2>1. OutOfBand => Observed
    BY <1>5, HealthyDuration DEF OutOfBand, Sized
  <2> QED
    BY <1>7, <2>1 DEF Suppressed
<1>14. WindowCount > 0
  <2>1. CASE run.internal
    BY <2>1, <1>1, <1>3, <1>5 DEF WindowCount
  <2>2. CASE ~run.internal
    BY <2>2, <1>1, HealthyDuration DEF WindowCount
  <2> QED
    BY <2>1, <2>2
<1>15. EnergyPublished = run.infers
  <2>1. run.fault # "negative" /\ plan.unit > 0 /\ ~\E i \in Issues : i.error
    BY <1>1, <1>12
  <2>2. run.infers \in BOOLEAN
    BY RunBounds
  <2> QED
    BY <1>13, <1>14, <2>1, <2>2 DEF EnergyPublished
<1> QED
  BY <1>12, <1>15

-----------------------------------------------------------------------------
\* A run of whose window nothing was lost in the profile: its plan is the work it does.
LEMMA KeptPlan ==
  ASSUME RunPossible, plan = Planned, plan.count > 0, run.loss = 0, run.fault # "early"
  PROVE  /\ plan.count \in Nat \ {0} /\ plan.unit \in Nat \ {0} /\ Expected = Work
         /\ Expected = plan.count * plan.unit /\ Expected \in Nat /\ Expected >= 4500000
<1>1. /\ plan.count \in Nat /\ plan.unit \in Nat
      /\ ~run.infers => plan.count = 1 /\ plan.unit = 5000000
      /\ run.infers => plan.unit = run.unit
  BY PlanFacts
<1>2. /\ Work \in Nat /\ Work >= 4500000 /\ (run.infers => Work = plan.count * run.unit)
      /\ ~run.infers => Work = 5000000
  BY WorkFacts
<1>3. Expected = plan.count * plan.unit
  BY DEF Expected
<1>4. Expected = Work
  BY <1>1, <1>2, <1>3, RunBounds
<1>5. run.unit \in Nat \ {0}
  BY RunBounds
<1> QED
  BY <1>1, <1>2, <1>3, <1>4, <1>5, RunBounds

\* The window of any run is within three tenths of its work.
LEMMA AnyWindow ==
  ASSUME RunPossible, plan = Planned, plan.count > 0, run.fault # "early", run.loss # 10
  PROVE  /\ Work \in Nat /\ Work >= 4500000
         /\ \E length \in Nat :
              /\ Work * 70 < 100 * length + 100 /\ 100 * length <= Work * 130
              /\ Window = IF run.fault = "content" THEN 2 * length ELSE length
<1>1. -30 \in -30 .. 30 /\ 30 \in -30 .. 30 /\ -30 <= run.drift /\ run.drift <= 30
  BY RunBounds
<1>2. PICK length \in Nat :
        /\ Work * (100 + -30) < 100 * length + 100 /\ 100 * length <= Work * (100 + 30)
        /\ Window = IF run.fault = "content" THEN 2 * length ELSE length
  BY <1>1, WindowFacts
<1> QED
  BY <1>2, WorkFacts

\* The band is a quarter of what is expected at most.
LEMMA BandIsNarrow ==
  ASSUME RunPossible, plan = Planned, plan.count > 0, run.loss = 0, run.fault # "early"
  PROVE  /\ Band(plan.count, plan.unit, Tolerance) \in Nat
         /\ 4 * Band(plan.count, plan.unit, Tolerance) <= Expected
<1> DEFINE band == Band(plan.count, plan.unit, Tolerance)
           half == Half(plan.count, plan.unit)
           share == Share(plan.count, plan.unit, Tolerance)
           x == plan.count * plan.unit
<1>1. /\ plan.count \in Nat \ {0} /\ plan.unit \in Nat \ {0} /\ x \in Nat /\ x >= 4500000
      /\ Expected = x
  BY KeptPlan
<1>2. Tolerance \in {10, 25} /\ Tolerance \in Nat
  BY DEF Tolerance
<1>3. /\ half \in Nat /\ share \in Nat /\ band \in {half, Packets, share}
      /\ 100 * share <= x * Tolerance
  <2>1. plan.count \in Nat /\ plan.unit \in Nat
    BY <1>1
  <2>2. /\ half \in Nat /\ share \in Nat /\ band \in {half, Packets, share}
        /\ 100 * share <= plan.count * plan.unit * Tolerance
    BY <2>1, <1>2, BandFacts
  <2> QED
    BY <2>2
<1>4. 4 * half <= x
  <2>1. CASE plan.count > 1
    <3>1. plan.unit * 2 <= plan.unit * plan.count
      BY <2>1, <1>1, Monotone
    <3>2. half = plan.unit \div 2
      BY <2>1 DEF Half
    <3>3. 2 * half <= plan.unit
      BY <3>2, <1>1
    <3>4. plan.unit * plan.count = x
      BY <1>1
    <3> HIDE DEF x, half
    <3> QED
      BY <3>1, <3>3, <3>4, <1>1, <1>3
  <2>2. CASE ~(plan.count > 1)
    BY <2>2, <1>1 DEF Half
  <2> QED
    BY <2>1, <2>2
<1>5. Packets \in Nat /\ Packets <= 100000
  BY RunBounds
<1> HIDE DEF band, half, share, x
<1>6. 4 * share <= x
  BY <1>1, <1>2, <1>3
<1>7. 4 * Packets <= x /\ Packets \in Nat
  BY <1>1, <1>5
<1>8. band \in Nat /\ 4 * band <= x
  BY <1>3, <1>4, <1>6, <1>7
<1> QED
  BY <1>1, <1>8 DEF band

\* A gate that fell, and what it shows.
LEMMA FallenGate ==
  ASSUME RunPossible, GateRead, ~run.internal, gate.fall
  PROVE  /\ Window # 0 /\ run.fault \notin {"dead", "late", "stuck"} /\ Gated
         /\ Window \in Int /\ Window >= 108000 =>
              gate.length = IF run.fault = "sliver" THEN 500000
                            ELSE IF run.fault = "cut" THEN Window \div 2
                            ELSE Window + run.error * Slack
<1>1. gate = Captured
  BY DEF GateRead
<1>2. ~(run.fault \in {"dead", "late"} \/ Window = 0)
  BY <1>1 DEF Captured, NoGate
<1>3. gate = [rise |-> TRUE, fall |-> Falls,
              length |-> IF ~Falls THEN 0
                         ELSE IF run.fault = "sliver" THEN MinimumGate \div 2
                         ELSE IF run.fault = "cut" THEN Window \div 2
                         ELSE Max({0, Window + run.error * Slack})]
  BY <1>1, <1>2 DEF Captured
<1>4. Falls
  BY <1>3
<1>5. run.fault # "stuck"
  BY <1>4 DEF Falls
<1>6. MinimumGate \div 2 = 500000
  BY DEF MinimumGate
<1>7. Window \in Int /\ Window >= 108000
        => Max({0, Window + run.error * Slack}) = Window + run.error * Slack
  BY LongWindow
<1> QED
  BY <1>2, <1>3, <1>4, <1>5, <1>6, <1>7 DEF Gated

\* The gate of a sliver is half the shortest that counts.
LEMMA SliverGate ==
  ASSUME RunPossible, GateRead, ~run.internal, gate.fall, run.fault = "sliver"
  PROVE  gate.length = 500000
<1>1. gate = Captured
  BY DEF GateRead
<1> QED
  BY <1>1 DEF Captured, NoGate, MinimumGate

\* What a second clock sees of a window that was cut, or of a firmware whose clock is slow.
LEMMA ClocksDisagree ==
  ASSUME RunPossible, plan = Planned, plan.count > 0, GateRead, ~run.internal, gate.fall,
         run.fault \in {"cut", "slow"}, run.loss # 10, terminal = Record
  PROVE  Disagrees
<1>2. PICK length \in Nat :
        Window = length /\ Work * 70 < 100 * length + 100 /\ Work \in Nat /\ Work >= 4500000
  BY AnyWindow
<1>0. Window \in Int /\ Window >= 108000
  BY <1>2
<1>1. /\ Gated /\ Window # 0
      /\ gate.length = IF run.fault = "cut" THEN Window \div 2 ELSE Window + run.error * Slack
  BY <1>0, FallenGate
<1>3. /\ terminal.sent /\ terminal.ok /\ terminal.completed = terminal.requested
      /\ terminal.elapsed = IF run.fault = "slow" THEN Window - Window \div 10 ELSE Window
  BY DEF Record, WorkDone, FirmwareWindow
<1>4. Slack \in Nat /\ 8000 <= Slack /\ Slack <= 108000 /\ run.error * Slack \in {0 - Slack, 0, Slack}
  BY RunBounds
<1>5. length >= 3149000
  BY <1>2
<1> DEFINE d == terminal.elapsed - gate.length
           apart == IF d > 0 THEN d ELSE -d
<1>6. /\ gate.length \in Int /\ gate.length > 0 /\ terminal.elapsed \in Int /\ terminal.elapsed > 0
      /\ 100 * apart > gate.length /\ apart > Slack
  <2>1. CASE run.fault = "cut"
    <3>1. gate.length = length \div 2 /\ terminal.elapsed = length
      BY <2>1, <1>1, <1>2, <1>3
    <3> QED
      BY <3>1, <1>4, <1>5
  <2>2. CASE run.fault = "slow"
    <3>1. gate.length = length + run.error * Slack /\ terminal.elapsed = length - length \div 10
      BY <2>2, <1>1, <1>2, <1>3
    <3> DEFINE e == run.error * Slack
    <3>2. e \in Int /\ e <= 108000 /\ -108000 <= e
      BY <1>4
    <3> HIDE DEF e
    <3>3. d = 0 - (length \div 10) - e
      BY <3>1, <3>2, <1>5 DEF e
    <3>4. length \div 10 >= 314000 /\ length \div 10 \in Int /\ length < 10 * (length \div 10) + 10
      BY <1>5
    <3>5. gate.length = length + e
      BY <3>1 DEF e
    <3> HIDE DEF d
    <3> QED
      BY <3>1, <3>2, <3>3, <3>4, <3>5, <1>4, <1>5
  <2> QED
    BY <2>1, <2>2
<1>7. Observed
  BY <1>1, <1>3, <1>6 DEF Observed, Unhealthy
<1> QED
  BY <1>6, <1>7 DEF Disagrees

\* A window that was cut, or of twice the content, is outside its band and beyond what drift is.
LEMMA OffTheMark ==
  ASSUME RunPossible, plan = Planned, plan.count > 0, run.loss = 0, GateRead, ~run.internal,
         gate.fall, run.fault \in {"cut", "content"}
  PROVE  Sized /\ OutOfBand /\ BeyondDrift
<1>0. Window \in Int /\ Window >= 108000
  <2>1. PICK length \in Nat :
          /\ Work * 70 < 100 * length + 100 /\ Work \in Nat /\ Work >= 4500000
          /\ Window = IF run.fault = "content" THEN 2 * length ELSE length
    BY AnyWindow
  <2> QED
    BY <2>1
<1>1. /\ Gated
      /\ gate.length = IF run.fault = "cut" THEN Window \div 2 ELSE Window + run.error * Slack
  BY <1>0, FallenGate
<1> DEFINE E == Expected
           L == gate.length
           band == Band(plan.count, plan.unit, Tolerance)
<1>2. E = Work /\ E \in Nat /\ E >= 4500000
  BY KeptPlan
<1>3. PICK length \in Nat :
        /\ Work * 70 < 100 * length + 100 /\ 100 * length <= Work * 130
        /\ Window = IF run.fault = "content" THEN 2 * length ELSE length
  BY AnyWindow
<1>4. band \in Nat /\ 4 * band <= E
  BY BandIsNarrow
<1>5. Slack \in Nat /\ 8000 <= Slack /\ Slack <= 108000 /\ run.error * Slack \in {0 - Slack, 0, Slack}
  BY RunBounds
<1>6. Off = IF L > E THEN L - E ELSE E - L
  BY DEF Off
<1>7. OutOfBand <=> Sized /\ Off > band
  BY DEF OutOfBand
<1>8. BeyondDrift <=> 20 * Off > 3 * E
  BY DEF BeyondDrift
<1>9. Sized
  BY <1>1, <1>2 DEF Sized
<1> HIDE DEF E, L, band
<1>10. Off > band /\ 20 * Off > 3 * E
  <2>1. CASE run.fault = "cut"
    <3>1. L = length \div 2
      BY <2>1, <1>1, <1>3 DEF L
    <3>2. L \in Nat /\ 2 * L <= length
      BY <3>1
    <3> QED
      BY <3>2, <1>2, <1>3, <1>4, <1>6
  <2>2. CASE run.fault = "content"
    <3>1. L = 2 * length + run.error * Slack
      BY <2>2, <1>1, <1>3 DEF L
    <3>2. L \in Int /\ L >= 2 * length - 108000
      BY <3>1, <1>5
    <3> QED
      BY <3>2, <1>2, <1>3, <1>4, <1>6
  <2> QED
    BY <2>1, <2>2
<1> QED
  BY <1>7, <1>8, <1>9, <1>10

\* The firmware's own clock shows a window of twice the content.
LEMMA ContentShows ==
  ASSUME RunPossible, plan = Planned, plan.count > 0, run.loss = 0, run.fault = "content",
         terminal = Record
  PROVE  InternalClockOff
<1>1. Expected = Work /\ Expected \in Nat /\ Expected >= 4500000
  BY KeptPlan
<1>2. PICK length \in Nat :
        /\ Work * 70 < 100 * length + 100
        /\ Window = 2 * length
  BY AnyWindow
<1>3. terminal.elapsed = Window
  BY DEF Record, FirmwareWindow
<1> QED
  BY <1>1, <1>2, <1>3 DEF InternalClockOff

\* What the stage lets pass.
Passed == run.dedicated => Record.sent /\ ~TerminalRefused(Record) /\ ~MeasurementRefused(Measured)

\* The faults that reach the evaluation: of the others the stage refuses the record.
LEMMA FaultsThatPass ==
  ASSUME RunPossible, plan = Planned, plan.count > 0, Passed, run.fault \notin {"none", "overflow"}
  PROVE  /\ run.fault \in {"cut", "sliver", "content", "frozen", "slow", "stuck", "late",
                           "negative"}
         /\ run.dedicated => run.fault \notin {"stuck", "late"}
         /\ run.fault \in {"frozen", "slow"} => run.dedicated
         /\ run.internal => run.fault \in {"content", "frozen"} /\ run.dedicated
         /\ run.fault = "frozen" => ~run.internal
<1>1. run.fault \in Faults /\ plan.count \in Nat \ {0}
  <2>1. plan.count \in Nat
    BY PlanFacts
  <2> QED
    BY <2>1, RunBounds
<1>2. run.dedicated => run.fault \notin {"stuck", "late", "lost"}
  BY DEF Passed, Record, NoTerminal
<1>3. run.fault \notin {"early", "dead", "recount", "lowless"}
  <2>1. SUFFICES ASSUME run.fault \in {"early", "dead", "recount", "lowless"} PROVE FALSE
    OBVIOUS
  <2>2. run.dedicated
    BY <2>1 DEF RunPossible
  <2>3. /\ Record.requested = IF run.fault = "recount" THEN plan.count + 1 ELSE plan.count
        /\ Record.ok <=> run.fault # "dead"
        /\ Record.completed = IF run.fault = "dead" THEN 0
                              ELSE IF run.fault = "recount" THEN plan.count + 1 ELSE WorkDone
        /\ Record.lowered <=> run.fault # "lowless"
    BY <2>1 DEF Record
  <2>4. run.fault = "early" => WorkDone # plan.count
    BY WorkFacts
  <2> QED
    BY <1>1, <2>1, <2>2, <2>3, <2>4 DEF Passed, TerminalRefused
<1>4. run.fault \notin {"silent", "zero"}
  <2>1. SUFFICES ASSUME run.fault \in {"silent", "zero"} PROVE FALSE
    OBVIOUS
  <2>2. run.internal /\ run.dedicated
    BY <2>1, RunBounds DEF RunPossible
  <2>3. Record.sent
    BY <2>1 DEF Record
  <2>4. run.fault = "silent" => ~Measured.read
    BY <2>2 DEF Measured, NoMonitor
  <2>5. run.fault = "zero" => Measured.read /\ ~Measured.energy
    BY <2>2, <2>3 DEF Measured
  <2> QED
    BY <2>1, <2>2, <2>4, <2>5 DEF Passed, MeasurementRefused, ImplausiblyZero
<1>5. run.fault = "frozen" => ~run.internal
  <2>1. SUFFICES ASSUME run.fault = "frozen", run.internal PROVE FALSE
    OBVIOUS
  <2>2. run.dedicated
    BY <2>1 DEF RunPossible
  <2>3. Record.completed = plan.count /\ Record.elapsed = 0
    BY <2>1 DEF Record, WorkDone, FirmwareWindow
  <2> QED
    BY <1>1, <2>1, <2>2, <2>3 DEF Passed, TerminalRefused, Frozen
<1> QED
  BY <1>1, <1>2, <1>3, <1>4, <1>5, RunBounds DEF RunPossible, Faults

\* Something is found wrong with every faulty run that the stage lets pass.
LEMMA FaultIsFound ==
  ASSUME RunPossible, plan = Planned, plan.count > 0, GateRead, RecordRead, Passed,
         run.fault \notin {"none", "overflow"}
  PROVE  Issues # {}
<1> USE DEF When
<1>1. /\ run.fault \in {"cut", "sliver", "content", "frozen", "slow", "stuck", "late", "negative"}
      /\ run.dedicated => run.fault \notin {"stuck", "late"}
      /\ run.fault \in {"frozen", "slow"} => run.dedicated
      /\ run.internal => run.fault \in {"content", "frozen"} /\ run.dedicated
      /\ run.fault = "frozen" => ~run.internal
  BY FaultsThatPass
<1>2. CASE run.loss > 0
  <2>1. ProfileIssues # {}
    BY <1>2 DEF ProfileIssues
  <2> QED
    BY <2>1 DEF Issues
<1>3. CASE ~run.internal /\ ~gate.fall
  <2>1. ObservationIssues # {}
    BY <1>3 DEF ObservationIssues
  <2> QED
    BY <2>1 DEF Issues
<1>4. CASE ~run.internal /\ gate.fall /\ run.loss = 0
  <2>1. run.fault \notin {"stuck", "late"} /\ Gated
    BY <1>4, FallenGate
  <2>2. CASE run.fault = "negative"
    <3>1. ObservationIssues # {}
      BY <1>4, <2>2 DEF ObservationIssues
    <3> QED
      BY <3>1 DEF Issues
  <2>3. CASE run.fault = "frozen"
    <3>1. Frozen(terminal) /\ terminal.sent
      <4>1. terminal = Record /\ plan.count \in Nat
        BY <1>1, <2>3, PlanFacts DEF RecordRead
      <4> QED
        BY <4>1, <2>3 DEF Frozen, Record, WorkDone, FirmwareWindow
    <3>2. TerminalIssues # {}
      BY <3>1 DEF TerminalIssues
    <3> QED
      BY <3>2 DEF Issues
  <2>4. CASE run.fault = "slow"
    <3>1. terminal = Record /\ terminal.sent
      BY <1>1, <2>4 DEF RecordRead, Record
    <3>2. Disagrees
      BY <1>4, <2>4, <3>1, ClocksDisagree
    <3>3. TerminalIssues # {}
      BY <3>1, <3>2 DEF TerminalIssues
    <3> QED
      BY <3>3 DEF Issues
  <2>5. CASE run.fault = "sliver"
    <3>1. gate.length = 500000 /\ Expected \in Nat /\ Expected >= 4500000
      BY <1>4, <2>5, SliverGate, KeptPlan
    <3>2. BelowMinimum
      BY <2>1, <3>1 DEF BelowMinimum, Sized, MinimumGate
    <3>3. DurationIssues # {}
      BY <3>2 DEF DurationIssues
    <3> QED
      BY <3>3 DEF Issues
  <2>6. CASE run.fault \in {"cut", "content"}
    <3>1. OutOfBand /\ BeyondDrift
      BY <1>4, <2>6, OffTheMark
    <3>2. Disagrees => TerminalIssues # {}
      BY DEF TerminalIssues, Disagrees, Observed
    <3>3. ~Disagrees => DurationIssues # {}
      BY <3>1 DEF DurationIssues
    <3> QED
      BY <3>2, <3>3 DEF Issues
  <2> QED
    BY <1>1, <2>1, <2>2, <2>3, <2>4, <2>5, <2>6
<1>5. CASE run.internal /\ run.loss = 0
  <2>1. run.fault = "content" /\ run.dedicated
    BY <1>1, <1>5
  <2>2. terminal = Record /\ terminal.sent
    BY <2>1 DEF RecordRead, Record
  <2>3. InternalClockOff
    BY <1>5, <2>1, <2>2, ContentShows
  <2>4. TerminalIssues # {}
    BY <1>5, <2>2, <2>3 DEF TerminalIssues
  <2> QED
    BY <2>4 DEF Issues
<1>6. run.loss > 0 \/ run.loss = 0
  BY RunBounds
<1> QED
  BY <1>2, <1>3, <1>4, <1>5, <1>6

\* A figure that a second clock contradicts, or of too short a gate, is withheld.
LEMMA FigureIsWithheld ==
  ASSUME RunPossible, plan = Planned, plan.count > 0, GateRead, RecordRead,
         run.fault \in {"cut", "sliver", "slow"}, run.dedicated, ~run.internal
  PROVE  ~EnergyPublished
<1>1. SUFFICES ASSUME run.infers, WindowCount > 0, ~Suppressed, plan.unit > 0 PROVE FALSE
  BY DEF EnergyPublished
<1>2. Gated /\ gate.fall
  BY <1>1 DEF WindowCount, Gated
<1>3. CASE run.fault \in {"cut", "slow"}
  <2>1. terminal = Record
    BY DEF RecordRead
  <2>2. run.loss # 10
    BY <1>1, PlanFacts
  <2> QED
    BY <1>1, <1>2, <1>3, <2>1, <2>2, ClocksDisagree DEF Suppressed
<1>4. CASE run.fault = "sliver"
  <2>1. gate.length = 500000
    BY <1>2, <1>4, SliverGate
  <2>2. plan.count \in Nat /\ plan.unit \in Nat
    BY PlanFacts
  <2>3. Expected > 0
    BY <1>1, <2>2 DEF Expected
  <2> QED
    BY <1>1, <1>2, <2>1, <2>3 DEF Suppressed, BelowMinimum, Sized, MinimumGate
<1> QED
  BY <1>3, <1>4

\* What the stage refuses would not have evaluated as valid, but for a reading of zero.
LEMMA RefusalIsFound ==
  ASSUME RunPossible, RecordRead, run.dedicated, ~Passed, ~ImplausiblyZero(monitor)
  PROVE  Issues # {}
<1> USE DEF When
<1>1. terminal = Record /\ monitor = Measured
  BY DEF RecordRead
<1>2. ~terminal.sent \/ TerminalRefused(terminal) \/ MeasurementRefused(monitor)
  BY <1>1 DEF Passed
<1>3. CASE ~terminal.sent
  <2>1. TerminalIssues # {}
    BY <1>3 DEF TerminalIssues
  <2> QED
    BY <2>1 DEF Issues
<1>4. CASE terminal.sent /\ TerminalRefused(terminal)
  <2>1. TerminalIssues # {}
    BY <1>4 DEF TerminalIssues, TerminalRefused
  <2> QED
    BY <2>1 DEF Issues
<1>5. CASE MeasurementRefused(monitor)
  <2>1. run.internal /\ (~monitor.read \/ monitor.overflow)
    BY <1>5 DEF MeasurementRefused
  <2>2. monitor.overflow => monitor.read
    BY <1>1 DEF Measured, NoMonitor
  <2>3. MonitorIssues # {}
    BY <2>1, <2>2 DEF MonitorIssues
  <2> QED
    BY <2>3 DEF Issues
<1> QED
  BY <1>2, <1>3, <1>4, <1>5

-----------------------------------------------------------------------------
\* The plan is the one the profile's timing gives, the reports are of the run, and the stage has
\* refused or let pass the record it read.
VerdictInv ==
  /\ RunPossible
  /\ doing \in {"plan", "capture", "collect", "judge", "done", "refused"}
  /\ doing # "plan" => plan = Planned
  /\ doing \in {"capture", "collect", "judge", "done"} => plan.count # 0
  /\ doing \in {"plan", "capture"} => gate = NoGate
  /\ doing = "capture" => ~run.internal
  /\ doing = "collect" => run.dedicated /\ GateRead
  /\ doing \in {"plan", "capture", "collect"} => terminal = NoTerminal /\ monitor = NoMonitor
  /\ doing \in {"judge", "done"} => GateRead /\ RecordRead /\ Passed
  /\ doing = "refused" /\ plan.count # 0 => run.dedicated /\ RecordRead /\ ~Passed
  /\ doing = "done" => /\ issues = Issues
                       /\ published = [energy |-> EnergyPublished, tops |-> TopsPublished]

\* What is read of a run depends on the run and its plan.
LEMMA SameRun ==
  ASSUME UNCHANGED <<run, plan>>
  PROVE  /\ RunPossible <=> RunPossible'
         /\ Planned' = Planned /\ Captured' = Captured
         /\ Record' = Record /\ Measured' = Measured
         /\ Passed <=> Passed'
<1>1. RunPossible <=> RunPossible'
  BY DEF RunPossible
<1>2. Planned' = Planned
  BY DEF Planned, ProfiledUnit, SelfSized
<1>3. WorkDone' = WorkDone /\ Window' = Window /\ FirmwareWindow' = FirmwareWindow
  BY DEF WorkDone, Work, Window, FirmwareWindow
<1>4. BoundUnit' = BoundUnit /\ BeforeWindow' = BeforeWindow /\ Slack' = Slack
  BY DEF BoundUnit, BeforeWindow, Warmup, Slack, Packets
<1>5. LongestWindow' = LongestWindow
  BY <1>4 DEF LongestWindow, Tolerance, Band, Packets
<1>6. FallWait' = FallWait
  BY <1>4, <1>5 DEF FallWait
<1>7. Falls' = Falls
  BY <1>3, <1>4, <1>6 DEF Falls, RiseTime
<1>8. Captured' = Captured
  BY <1>3, <1>4, <1>7 DEF Captured
<1>9. Record' = Record
  BY <1>3 DEF Record
<1>10. Measured' = Measured
  BY <1>9 DEF Measured
<1>11. Passed <=> Passed'
  BY <1>9, <1>10 DEF Passed, TerminalRefused, MeasurementRefused, ImplausiblyZero, Frozen
<1> QED
  BY <1>1, <1>2, <1>8, <1>9, <1>10, <1>11

LEMMA SameReports ==
  ASSUME UNCHANGED <<run, plan, gate, terminal, monitor>>
  PROVE  /\ Issues' = Issues /\ EnergyPublished' = EnergyPublished
         /\ TopsPublished' = TopsPublished
<1>1. /\ Gated' = Gated /\ Expected' = Expected /\ Sized' = Sized /\ Off' = Off
      /\ Unhealthy' = Unhealthy /\ Slack' = Slack /\ ProfiledUnit' = ProfiledUnit
  BY DEF Gated, Expected, Sized, Off, Unhealthy, Slack, Packets, ProfiledUnit
<1>2. /\ BelowMinimum' = BelowMinimum /\ OutOfBand' = OutOfBand /\ BeyondDrift' = BeyondDrift
      /\ Observed' = Observed
  BY <1>1 DEF BelowMinimum, OutOfBand, BeyondDrift, Observed, Band, Packets, Tolerance
<1>3. Disagrees' = Disagrees /\ InternalClockOff' = InternalClockOff
  BY <1>1, <1>2 DEF Disagrees, InternalClockOff
<1>4. Suppressed' = Suppressed
  BY <1>1, <1>2, <1>3 DEF Suppressed
<1>5. Issues' = Issues
  BY <1>1, <1>2, <1>3 DEF Issues, ProfileIssues, ObservationIssues, TerminalIssues, DurationIssues,
    MonitorIssues, Frozen
<1>6. WindowCount' = WindowCount
  BY <1>1 DEF WindowCount
<1> QED
  BY <1>4, <1>5, <1>6 DEF EnergyPublished, TopsPublished

THEOREM VerdictInvariant == VerdictSpec => []VerdictInv
<1>1. VerdictInit => VerdictInv
  BY DEF VerdictInit, VerdictInv
<1>2. VerdictInv /\ [VerdictNext]_verdictVars => VerdictInv'
  <2> SUFFICES ASSUME VerdictInv, [VerdictNext]_verdictVars PROVE VerdictInv'
    OBVIOUS
  <2>1. CASE PlanRun
    <3>1. /\ plan' = Planned /\ run' = run /\ gate' = gate /\ terminal' = terminal
          /\ monitor' = monitor /\ doing = "plan"
          /\ doing' = IF Planned.count = 0 THEN "refused"
                      ELSE IF run.internal THEN "collect" ELSE "capture"
      BY <2>1 DEF PlanRun
    <3>2. Planned' = Planned
      BY <3>1 DEF Planned, ProfiledUnit, SelfSized
    <3>3. RunPossible /\ RunPossible'
      BY <3>1 DEF VerdictInv, RunPossible
    <3>4. run.internal => run.dedicated
      BY <3>3 DEF RunPossible
    <3>5. gate = NoGate /\ terminal = NoTerminal /\ monitor = NoMonitor
      BY <3>1 DEF VerdictInv
    <3> QED
      BY <3>1, <3>2, <3>3, <3>4, <3>5 DEF VerdictInv, GateRead
  <2>2. CASE CaptureWindow
    <3>1. /\ plan' = plan /\ run' = run /\ gate' = Captured /\ terminal' = terminal
          /\ monitor' = monitor /\ doing = "capture"
          /\ doing' = IF run.dedicated THEN "collect" ELSE "judge"
      BY <2>2 DEF CaptureWindow
    <3>2. /\ RunPossible' /\ Planned' = Planned /\ Captured' = Captured /\ (Passed <=> Passed')
      BY <3>1, SameRun DEF VerdictInv
    <3>3. /\ plan = Planned /\ plan.count # 0 /\ ~run.internal
          /\ terminal = NoTerminal /\ monitor = NoMonitor
      BY <3>1 DEF VerdictInv
    <3>4. GateRead'
      BY <3>1, <3>2, <3>3 DEF GateRead
    <3>5. ~run.dedicated => RecordRead' /\ Passed
      BY <3>1, <3>3 DEF RecordRead, Passed
    <3> QED
      BY <3>1, <3>2, <3>3, <3>4, <3>5 DEF VerdictInv
  <2>3. CASE Collect
    <3>1. /\ plan' = plan /\ run' = run /\ gate' = gate /\ terminal' = Record
          /\ monitor' = Measured /\ doing = "collect"
          /\ doing' = IF ~Record.sent \/ TerminalRefused(Record) \/ MeasurementRefused(Measured)
                      THEN "refused" ELSE "judge"
      BY <2>3 DEF Collect
    <3>2. /\ RunPossible' /\ Planned' = Planned /\ Captured' = Captured /\ (Passed <=> Passed')
          /\ Record' = Record /\ Measured' = Measured
      BY <3>1, SameRun DEF VerdictInv
    <3>3. plan = Planned /\ plan.count # 0 /\ run.dedicated /\ GateRead
      BY <3>1 DEF VerdictInv
    <3>4. GateRead'
      BY <3>1, <3>2, <3>3 DEF GateRead
    <3>5. RecordRead'
      BY <3>1, <3>2, <3>3 DEF RecordRead
    <3>6. doing' = IF Passed THEN "judge" ELSE "refused"
      BY <3>1, <3>3 DEF Passed
    <3> QED
      BY <3>1, <3>2, <3>3, <3>4, <3>5, <3>6 DEF VerdictInv
  <2>4. CASE JudgeRun \/ UNCHANGED verdictVars
    <3>1. UNCHANGED <<run, plan, gate, terminal, monitor>>
      BY <2>4 DEF JudgeRun, verdictVars, reports
    <3>2. /\ RunPossible' /\ Planned' = Planned /\ Captured' = Captured /\ (Passed <=> Passed')
          /\ Record' = Record /\ Measured' = Measured
      BY <3>1, SameRun DEF VerdictInv
    <3>3. (GateRead <=> GateRead') /\ (RecordRead <=> RecordRead')
      BY <3>1, <3>2 DEF GateRead, RecordRead
    <3>4. /\ Issues' = Issues /\ EnergyPublished' = EnergyPublished
          /\ TopsPublished' = TopsPublished
      BY <3>1, SameReports
    <3>5. CASE JudgeRun
      <4>1. /\ doing = "judge" /\ doing' = "done" /\ issues' = Issues
            /\ published' = [energy |-> EnergyPublished, tops |-> TopsPublished]
        BY <3>5 DEF JudgeRun
      <4> QED
        BY <3>1, <3>2, <3>3, <3>4, <4>1 DEF VerdictInv
    <3>6. CASE UNCHANGED verdictVars
      <4>1. doing' = doing /\ issues' = issues /\ published' = published
        BY <3>6 DEF verdictVars
      <4> QED
        BY <3>1, <3>2, <3>3, <3>4, <4>1 DEF VerdictInv
    <3> QED
      BY <2>4, <3>5, <3>6
  <2> QED
    BY <2>1, <2>2, <2>3, <2>4 DEF VerdictNext
<1> QED
  BY <1>1, <1>2, PTL DEF VerdictSpec

\* For any bench within the bounds: the window that may be accepted is waited for to its end, a
\* healthy run is valid and published, and a faulty one never counts as valid.
THEOREM VerdictIsAlwaysSound == VerdictSpec => []VerdictIsSound
<1>1. VerdictInv => VerdictIsSound
  <2> SUFFICES ASSUME VerdictInv PROVE VerdictIsSound
    OBVIOUS
  <2>1. RunPossible
    BY DEF VerdictInv
  <2>2. AcceptedIsAwaited
    <3> SUFFICES ASSUME doing \notin {"plan", "capture", "refused"}, ~run.internal, plan.unit > 0,
                        run.fault \notin {"dead", "late", "stuck", "content"}, run.drift <= 15,
                        Window > 0
                 PROVE  gate.fall
      BY DEF AcceptedIsAwaited
    <3>1. plan = Planned /\ gate = Captured
      BY DEF VerdictInv, GateRead
    <3>2. run.drift <= Accepted
      BY <2>1, RunBounds DEF Accepted
    <3> QED
      BY <2>1, <3>1, <3>2, WindowIsAwaited
  <2>3. HealthyIsValid
    <3> SUFFICES ASSUME doing \in {"done", "refused"}, Healthy
                 PROVE  doing = "done" /\ issues = {} /\ published.energy = run.infers
      BY DEF HealthyIsValid, Healthy
    <3>1. plan = Planned
      BY DEF VerdictInv
    <3>2. plan.count # 0
      BY <2>1, <3>1, HealthyWindow
    <3>3. Passed
      BY <2>1, <3>1, HealthyRecord DEF Passed
    <3>4. doing = "done"
      BY <3>2, <3>3 DEF VerdictInv
    <3>5. GateRead /\ RecordRead /\ issues = Issues /\ published.energy = EnergyPublished
      BY <3>4 DEF VerdictInv
    <3> QED
      BY <2>1, <3>1, <3>4, <3>5, HealthyJudged
  <2>4. FaultyIsNotValid
    <3>1. \A found : found # {} => Validity(found) # "valid"
      BY DEF Validity
    <3>2. ASSUME doing = "done", run.fault \notin {"none", "overflow"}
          PROVE  /\ Validity(issues) # "valid"
                 /\ run.fault \in {"cut", "sliver", "slow"} /\ run.dedicated /\ ~run.internal
                      => ~published.energy
      <4>1. /\ plan = Planned /\ plan.count # 0 /\ GateRead /\ RecordRead /\ Passed
            /\ issues = Issues /\ published.energy = EnergyPublished
        BY <3>2 DEF VerdictInv
      <4>2. plan.count > 0
        BY <2>1, <4>1, PlanFacts
      <4> QED
        BY <2>1, <3>1, <3>2, <4>1, <4>2, FaultIsFound, FigureIsWithheld
    <3>3. ASSUME doing = "refused", plan.count > 0, ~ImplausiblyZero(monitor)
          PROVE  Validity(Issues) # "valid"
      <4>1. run.dedicated /\ RecordRead /\ ~Passed
        BY <3>3 DEF VerdictInv
      <4> QED
        BY <2>1, <3>1, <3>3, <4>1, RefusalIsFound
    <3> QED
      BY <3>2, <3>3 DEF FaultyIsNotValid
  <2> QED
    BY <2>2, <2>3, <2>4 DEF VerdictIsSound
<1> QED
  BY <1>1, VerdictInvariant, PTL
-----------------------------------------------------------------------------
(* The image: what the builds have in common.                                *)

\* What the builds a configuration can ask for have in common.
LEMMA BuildFacts ==
  ASSUME NEW b \in FwBuilds
  PROVE  /\ b.engine \in {"tflm", "aot", "et"} /\ b.link \in {"rtt", "swo", "uart", "usb"}
         /\ b.power \in BOOLEAN /\ b.family \in {"ap3", "ap4", "ap5"}
         /\ b.monitor \in {"none", "required", "bystander"}
         /\ b.power => b.link = "rtt"
         /\ ~b.power => b.monitor = "none"
         /\ b.engine = "et" => ~b.power /\ b.family = "ap5" /\ "busy" \notin b.features
<1>1. CASE b \in ExecutorchBuilds
  BY <1>1 DEF ExecutorchBuilds, Render, Links
<1>2. ASSUME NEW e \in {"tflm", "aot"}, b \in ProfileBuilds(e) \cup PowerBuilds(e)
      PROVE  /\ b.engine = e /\ b.link \in {"rtt", "swo", "uart", "usb"}
             /\ b.power \in BOOLEAN /\ b.family \in {"ap3", "ap4", "ap5"}
             /\ b.monitor \in {"none", "required", "bystander"}
             /\ b.power => b.link = "rtt"
             /\ ~b.power => b.monitor = "none"
  BY <1>2 DEF ProfileBuilds, PowerBuilds, Render, Links, Families
<1> QED
  BY <1>1, <1>2 DEF FwBuilds

\* The timer of a window: a power binary never times it with the counter that needs a
\* debugger, and a build that does keeps the domain.
LEMMA WindowTimers ==
  ASSUME NEW b \in FwBuilds
  PROVE  /\ b.power => StimerWindow(b)
         /\ b.engine = "et" => StimerWindow(b)
         /\ BusyLoop(b) => StimerWindow(b)
         /\ ~StimerWindow(b) => ~HasPmu(b)
BY BuildFacts DEF StimerWindow, WindowTimer, PowerWindowTimer, CleanWindowTimer, BroadShutdown,
   NeedsProbe, BusyLoop, HasPmu
-----------------------------------------------------------------------------
(* The registry declares lines, for some engines, under a condition. *)

Declares(lines, engines, cond, kind) ==
  \A l \in lines : \E s \in Registry :
    s.line = l /\ s.engines = engines /\ s.gate = cond /\ s.binary = kind

LEMMA SpecsDeclare ==
  ASSUME NEW lines, NEW engines, NEW cond, Specs(lines, engines, cond) \subseteq Registry
  PROVE  Declares(lines, engines, cond, "transport")
<1> SUFFICES ASSUME NEW l \in lines
             PROVE  \E s \in Registry : s.line = l /\ s.engines = engines /\ s.gate = cond
                                        /\ s.binary = "transport"
  BY DEF Declares
<1> DEFINE s == [line |-> l, engines |-> engines, gate |-> cond, always |-> TRUE,
                 binary |-> "transport"]
<1>1. s \in Specs(lines, engines, cond)
  BY DEF Specs
<1> QED
  BY <1>1

LEMMA SometimesDeclares ==
  ASSUME NEW lines, NEW engines, NEW cond, NEW X, Specs(lines, engines, cond) \subseteq X,
         Sometimes(X) \subseteq Registry
  PROVE  Declares(lines, engines, cond, "transport")
<1> SUFFICES ASSUME NEW l \in lines
             PROVE  \E s \in Registry : s.line = l /\ s.engines = engines /\ s.gate = cond
                                        /\ s.binary = "transport"
  BY DEF Declares
<1> DEFINE r == [line |-> l, engines |-> engines, gate |-> cond, always |-> TRUE,
                 binary |-> "transport"]
           s == [r EXCEPT !.always = FALSE]
<1>1. r \in X
  BY DEF Specs
<1>2. s \in Registry
  BY <1>1 DEF Sometimes
<1>3. s.line = l /\ s.engines = engines /\ s.gate = cond /\ s.binary = "transport"
  OBVIOUS
<1> QED
  BY <1>2, <1>3

LEMMA PowerDeclares ==
  ASSUME NEW lines, NEW engines, NEW cond, NEW X, Specs(lines, engines, cond) \subseteq X,
         OfPower(X) \subseteq Registry \/ OfPower(Sometimes(X)) \subseteq Registry
  PROVE  Declares(lines, engines, cond, "power")
<1> SUFFICES ASSUME NEW l \in lines
             PROVE  \E s \in Registry : s.line = l /\ s.engines = engines /\ s.gate = cond
                                        /\ s.binary = "power"
  BY DEF Declares
<1> DEFINE r == [line |-> l, engines |-> engines, gate |-> cond, always |-> TRUE,
                 binary |-> "transport"]
           s == [r EXCEPT !.binary = "power"]
           q == [r EXCEPT !.always = FALSE]
           t == [q EXCEPT !.binary = "power"]
<1>1. r \in X
  BY DEF Specs
<1>2. OfPower(X) \subseteq Registry => s \in Registry
  BY <1>1 DEF OfPower
<1>3. q \in Sometimes(X)
  BY <1>1 DEF Sometimes
<1>4. OfPower(Sometimes(X)) \subseteq Registry => t \in Registry
  BY <1>3 DEF OfPower
<1>5. s.line = l /\ s.engines = engines /\ s.gate = cond /\ s.binary = "power"
  OBVIOUS
<1>6. t.line = l /\ t.engines = engines /\ t.gate = cond /\ t.binary = "power"
  OBVIOUS
<1> QED
  BY <1>2, <1>4, <1>5, <1>6

LEMMA DeclaredMayPrint ==
  ASSUME NEW b, NEW lines, NEW engines, NEW cond, NEW kind,
         Declares(lines, engines, cond, kind), b.engine \in engines, Gate(cond, b),
         b.power <=> kind = "power"
  PROVE  lines \subseteq MayPrint(b)
BY DEF Declares, MayPrint, Owned


\* The catalogues say what they say of a build of their own kind.
LEMMA RegistryParts ==
  /\ Sentinels \subseteq Registry /\ Handshake \subseteq Registry /\ StartHeader \subseteq Registry
  /\ ClockAndHeartbeats \subseteq Registry /\ ModelSizes \subseteq Registry
  /\ AotMemory \subseteq Registry /\ Psram \subseteq Registry /\ CleanWindow \subseteq Registry
  /\ CleanChecks \subseteq Registry /\ ProfiledAndPmu \subseteq Registry
  /\ Heartbeats \subseteq Registry /\ FaultLines \subseteq Registry
  /\ TerminalRecord \subseteq Registry
BY Zenon DEF Registry

LEMMA SentinelsDeclare ==
  /\ Declares(SentinelLines({"START", "END", "PRESET", "ITER"}), AllEngines, "stream", "transport")
<1>0. Sentinels \subseteq Registry
  BY RegistryParts
<1>1. Specs(SentinelLines({"START", "END", "PRESET", "ITER"}), AllEngines, "stream")
      \subseteq Registry
  BY <1>0 DEF Sentinels
<1> QED
  BY <1>1, SpecsDeclare, SometimesDeclares

LEMMA HandshakeDeclare ==
  /\ Declares({Key("READY")}, AllEngines, "ready", "transport")
<1>0. Handshake \subseteq Registry
  BY RegistryParts
<1>1. Specs({Key("READY")}, AllEngines, "ready") \subseteq Registry
  BY <1>0 DEF Handshake
<1> QED
  BY <1>1, SpecsDeclare, SometimesDeclares

LEMMA StartHeaderDeclare ==
  /\ Declares(Keys({"VERSION", "ENGINE", "EXTREME_MODE", "ITERATIONS", "WARMUP", "NUM_PRESETS",
        "PRESETS", "POWER_SYNC"}), AllEngines, "stream", "transport")
  /\ Declares({Key("SYNC_GPIO")}, AllEngines, "stream", "transport")
<1>0. StartHeader \subseteq Registry
  BY RegistryParts
<1>1. Specs(Keys({"VERSION", "ENGINE", "EXTREME_MODE", "ITERATIONS", "WARMUP", "NUM_PRESETS",
      "PRESETS", "POWER_SYNC"}), AllEngines, "stream") \subseteq Registry
  BY <1>0 DEF StartHeader
<1>2. Sometimes(Specs({Key("SYNC_GPIO")}, AllEngines, "stream")) \subseteq Registry
  BY <1>0 DEF StartHeader
<1> QED
  BY <1>1, <1>2, SpecsDeclare, SometimesDeclares

LEMMA ClockAndHeartbeatsDeclare ==
  /\ Declares({Key("SYSTEM_CLOCK_HZ")}, AllEngines, "any", "transport")
  /\ Declares({Key("MEASURED_CLOCK_HZ")}, AllEngines, "stimerWindow", "transport")
  /\ Declares(Keys({"BURST_AVAIL", "BURST_ENGAGED"}), AllEngines, "burst", "transport")
  /\ Declares({Key("NPU")}, TFLM \cup AOT, "ethosU", "transport")
  /\ Declares(Keys({"HEARTBEAT_ENABLED", "HEARTBEAT_EVERY_N_OPS", "HEARTBEAT_EVERY_MS"}),
        AllEngines, "stream", "transport")
<1>0. ClockAndHeartbeats \subseteq Registry
  BY RegistryParts
<1>1. Specs({Key("SYSTEM_CLOCK_HZ")}, AllEngines, "any") \subseteq Registry
  BY <1>0 DEF ClockAndHeartbeats
<1>2. Sometimes(Specs({Key("MEASURED_CLOCK_HZ")}, AllEngines, "stimerWindow")) \subseteq Registry
  BY <1>0 DEF ClockAndHeartbeats
<1>3. Specs(Keys({"BURST_AVAIL", "BURST_ENGAGED"}), AllEngines, "burst") \subseteq Registry
  BY <1>0 DEF ClockAndHeartbeats
<1>4. Specs({Key("NPU")}, TFLM \cup AOT, "ethosU") \subseteq Registry
  BY <1>0 DEF ClockAndHeartbeats
<1>5. Specs(Keys({"HEARTBEAT_ENABLED", "HEARTBEAT_EVERY_N_OPS", "HEARTBEAT_EVERY_MS"}), AllEngines,
      "stream") \subseteq Registry
  BY <1>0 DEF ClockAndHeartbeats
<1> QED
  BY <1>1, <1>2, <1>3, <1>4, <1>5, SpecsDeclare, SometimesDeclares

LEMMA ModelSizesDeclare ==
  /\ Declares(Keys({"MODEL_SIZE", "ARENA_SIZE"}), TFLM \cup ET, "stream", "transport")
  /\ Declares(Keys({"ALLOCATED_ARENA", "NUM_TENSORS"}), TFLM, "any", "transport")
  /\ Declares(Keys({"INPUT_SIZE", "OUTPUT_SIZE"}), TFLM, "any", "transport")
  /\ Declares(Keys({"INPUT_SIZE", "OUTPUT_SIZE"}), ET, "stream", "transport")
  /\ Declares(Keys({"NUM_INPUTS", "NUM_OUTPUTS"}), TFLM \cup AOT, "any", "transport")
<1>0. ModelSizes \subseteq Registry
  BY RegistryParts
<1>1. Specs(Keys({"MODEL_SIZE", "ARENA_SIZE"}), TFLM \cup ET, "stream") \subseteq Registry
  BY <1>0 DEF ModelSizes
<1>2. Specs(Keys({"ALLOCATED_ARENA", "NUM_TENSORS"}), TFLM, "any") \subseteq Registry
  BY <1>0 DEF ModelSizes
<1>3. Specs(Keys({"INPUT_SIZE", "OUTPUT_SIZE"}), TFLM, "any") \subseteq Registry
  BY <1>0 DEF ModelSizes
<1>4. Specs(Keys({"INPUT_SIZE", "OUTPUT_SIZE"}), ET, "stream") \subseteq Registry
  BY <1>0 DEF ModelSizes
<1>5. Specs(Keys({"NUM_INPUTS", "NUM_OUTPUTS"}), TFLM \cup AOT, "any") \subseteq Registry
  BY <1>0 DEF ModelSizes
<1> QED
  BY <1>1, <1>2, <1>3, <1>4, <1>5, SpecsDeclare, SometimesDeclares

LEMMA AotMemoryDeclare ==
  /\ Declares(Keys({"INPUT_%d_SIZE", "OUTPUT_%d_SIZE"}), AOT, "any", "transport")
  /\ Declares({Key("ARENAS_BOUND")}, AOT, "aotArenas", "transport")
  /\ Declares({Key("CONST_BLOB_LOADED")}, AOT, "blobs", "transport")
<1>0. AotMemory \subseteq Registry
  BY RegistryParts
<1>1. Specs(Keys({"INPUT_%d_SIZE", "OUTPUT_%d_SIZE"}), AOT, "any") \subseteq Registry
  BY <1>0 DEF AotMemory
<1>2. Specs({Key("ARENAS_BOUND")}, AOT, "aotArenas") \subseteq Registry
  BY <1>0 DEF AotMemory
<1>3. Specs({Key("CONST_BLOB_LOADED")}, AOT, "blobs") \subseteq Registry
  BY <1>0 DEF AotMemory
<1> QED
  BY <1>1, <1>2, <1>3, SpecsDeclare, SometimesDeclares

LEMMA PsramDeclare ==
  /\ Declares(PsramKeys, TFLM, "psramMetadata", "transport")
  /\ Declares(PsramKeys, AOT, "aotPsramMetadata", "transport")
  /\ Declares({Key("PSRAM_ARENA")}, TFLM, "arenaInPsram", "transport")
  /\ Declares({Key("PSRAM_READY")}, TFLM, "weightsInPsram", "transport")
  /\ Declares({Key("PSRAM_ARENA_REGION")}, AOT, "aotPsramArenas", "transport")
<1>0. Psram \subseteq Registry
  BY RegistryParts
<1>1. Specs(PsramKeys, TFLM, "psramMetadata") \subseteq Registry
  BY <1>0 DEF Psram
<1>2. Specs(PsramKeys, AOT, "aotPsramMetadata") \subseteq Registry
  BY <1>0 DEF Psram
<1>3. Specs({Key("PSRAM_ARENA")}, TFLM, "arenaInPsram") \subseteq Registry
  BY <1>0 DEF Psram
<1>4. Specs({Key("PSRAM_READY")}, TFLM, "weightsInPsram") \subseteq Registry
  BY <1>0 DEF Psram
<1>5. Specs({Key("PSRAM_ARENA_REGION")}, AOT, "aotPsramArenas") \subseteq Registry
  BY <1>0 DEF Psram
<1> QED
  BY <1>1, <1>2, <1>3, <1>4, <1>5, SpecsDeclare, SometimesDeclares

LEMMA CleanWindowDeclare ==
  /\ Declares({Key("CLEAN_WINDOW_PROBE")}, AllEngines, "busyLoop", "transport")
  /\ Declares({Key("CLEAN_ITER")}, AllEngines, "trace", "transport")
  /\ Declares(Keys({"CLEAN_INFER_COUNT", "CLEAN_INFER_TOTAL_CYCLES", "CLEAN_INFER_AVG_CYCLES",
        "CLEAN_INFER_AVG_US"}), AllEngines, "any", "transport")
<1>0. CleanWindow \subseteq Registry
  BY RegistryParts
<1>1. Specs({Key("CLEAN_WINDOW_PROBE")}, AllEngines, "busyLoop") \subseteq Registry
  BY <1>0 DEF CleanWindow
<1>2. Specs({Key("CLEAN_ITER")}, AllEngines, "trace") \subseteq Registry
  BY <1>0 DEF CleanWindow
<1>3. Sometimes(Specs(Keys({"CLEAN_INFER_COUNT", "CLEAN_INFER_TOTAL_CYCLES",
      "CLEAN_INFER_AVG_CYCLES", "CLEAN_INFER_AVG_US"}), AllEngines, "any")) \subseteq Registry
  BY <1>0 DEF CleanWindow
<1> QED
  BY <1>1, <1>2, <1>3, SpecsDeclare, SometimesDeclares

LEMMA CleanChecksDeclare ==
  /\ Declares(Keys({"CLEAN_STALLED_ITERS", "CLEAN_PARTIAL_ITERS", "CLEAN_REF_CYCLES",
        "CLEAN_DWT_RATE_CYC", "CLEAN_DWT_RATE_US"}), TFLM \cup AOT, "notStimerWindow", "transport")
  /\ Declares({Key("CLEAN_ATTACH_WAIT_US")}, TFLM \cup AOT, "attachWait", "transport")
<1>0. CleanChecks \subseteq Registry
  BY RegistryParts
<1>1. Specs(Keys({"CLEAN_STALLED_ITERS", "CLEAN_PARTIAL_ITERS", "CLEAN_REF_CYCLES",
      "CLEAN_DWT_RATE_CYC", "CLEAN_DWT_RATE_US"}), TFLM \cup AOT, "notStimerWindow")
            \subseteq Registry
  BY <1>0 DEF CleanChecks
<1>2. Specs({Key("CLEAN_ATTACH_WAIT_US")}, TFLM \cup AOT, "attachWait") \subseteq Registry
  BY <1>0 DEF CleanChecks
<1> QED
  BY <1>1, <1>2, SpecsDeclare, SometimesDeclares

LEMMA ProfiledAndPmuDeclare ==
  /\ Declares(Keys({"PROFILED_INFER_COUNT", "PROFILED_INFER_TOTAL_US", "PROFILED_INFER_AVG_US"}),
        TFLM \cup AOT, "stream", "transport")
  /\ Declares({Key("PMU_INIT_STATUS")}, ET, "any", "transport")
  /\ Declares({Key("PMU_SELFTEST_CPU_CYCLES")}, ET, "any", "transport")
<1>0. ProfiledAndPmu \subseteq Registry
  BY RegistryParts
<1>1. Sometimes(Specs(Keys({"PROFILED_INFER_COUNT", "PROFILED_INFER_TOTAL_US",
      "PROFILED_INFER_AVG_US"}), TFLM \cup AOT, "stream")) \subseteq Registry
  BY <1>0 DEF ProfiledAndPmu
<1>2. Specs({Key("PMU_INIT_STATUS")}, ET, "any") \subseteq Registry
  BY <1>0 DEF ProfiledAndPmu
<1>3. Sometimes(Specs({Key("PMU_SELFTEST_CPU_CYCLES")}, ET, "any")) \subseteq Registry
  BY <1>0 DEF ProfiledAndPmu
<1> QED
  BY <1>1, <1>2, <1>3, SpecsDeclare, SometimesDeclares

LEMMA HeartbeatsDeclare ==
  /\ Declares({Heartbeat("clean_window_begin")}, AllEngines, "any", "transport")
  /\ Declares({Heartbeat("init"), Heartbeat("warmup_done")}, AllEngines, "stream", "transport")
  /\ Declares({Heartbeat("allocate")}, TFLM, "stream", "transport")
  /\ Declares({Heartbeat("allocated")}, TFLM, "any", "transport")
  /\ Declares({Heartbeat("model_init_done")}, AOT, "any", "transport")
  /\ Declares({Heartbeat("infer")}, AllEngines, "any", "transport")
  /\ Declares({Heartbeat("flushing")}, AllEngines, "flush", "transport")
<1>0. Heartbeats \subseteq Registry
  BY RegistryParts
<1>1. Specs({Heartbeat("clean_window_begin")}, AllEngines, "any") \subseteq Registry
  BY <1>0 DEF Heartbeats
<1>2. Specs({Heartbeat("init"), Heartbeat("warmup_done")}, AllEngines, "stream") \subseteq Registry
  BY <1>0 DEF Heartbeats
<1>3. Specs({Heartbeat("allocate")}, TFLM, "stream") \subseteq Registry
  BY <1>0 DEF Heartbeats
<1>4. Specs({Heartbeat("allocated")}, TFLM, "any") \subseteq Registry
  BY <1>0 DEF Heartbeats
<1>5. Specs({Heartbeat("model_init_done")}, AOT, "any") \subseteq Registry
  BY <1>0 DEF Heartbeats
<1>6. Sometimes(Specs({Heartbeat("infer")}, AllEngines, "any")) \subseteq Registry
  BY <1>0 DEF Heartbeats
<1>7. Specs({Heartbeat("flushing")}, AllEngines, "flush") \subseteq Registry
  BY <1>0 DEF Heartbeats
<1> QED
  BY <1>1, <1>2, <1>3, <1>4, <1>5, <1>6, <1>7, SpecsDeclare, SometimesDeclares

LEMMA ModelErrorsDeclare ==
  /\ Declares(ErrorLines({"schema_mismatch", "unsupported_op", "missing_ops",
        "alloc_tensors_failed"}), TFLM, "any", "transport")
  /\ Declares(ErrorLines({"psram_init_failed", "psram_info_failed"}), TFLM, "psramNeeded",
        "transport")
  /\ Declares(ErrorLines({"psram_init_failed", "psram_info_failed"}), AOT, "aotPsramArenas",
        "transport")
  /\ Declares({ErrorLine("bind_arena_failed")}, AOT, "aotArenas", "transport")
  /\ Declares({ErrorLine("const_blob_psram_write_failed")}, AOT, "blobsInPsram", "transport")
<1>1. ModelErrors \subseteq ModelErrors \cup RunErrors \cup Warnings
  OBVIOUS
<1>2. Sometimes(ModelErrors \cup RunErrors \cup Warnings) \subseteq Registry
  BY RegistryParts DEF FaultLines
<1> DEFINE X == ModelErrors \cup RunErrors \cup Warnings
<1>3. Specs(ErrorLines({"schema_mismatch", "unsupported_op", "missing_ops",
      "alloc_tensors_failed"}), TFLM, "any") \subseteq X
  BY <1>1 DEF ModelErrors
<1>4. Specs(ErrorLines({"psram_init_failed", "psram_info_failed"}), TFLM, "psramNeeded") \subseteq X
  BY <1>1 DEF ModelErrors
<1>5. Specs(ErrorLines({"psram_init_failed", "psram_info_failed"}), AOT, "aotPsramArenas")
      \subseteq X
  BY <1>1 DEF ModelErrors
<1>6. Specs({ErrorLine("bind_arena_failed")}, AOT, "aotArenas") \subseteq X
  BY <1>1 DEF ModelErrors
<1>7. Specs({ErrorLine("const_blob_psram_write_failed")}, AOT, "blobsInPsram") \subseteq X
  BY <1>1 DEF ModelErrors
<1> HIDE DEF X
<1> QED
  BY <1>3, <1>4, <1>5, <1>6, <1>7, <1>2, SometimesDeclares DEF X

LEMMA RunErrorsDeclare ==
  /\ Declares({ErrorLine("model_init_failed")}, AOT, "any", "transport")
  /\ Declares({ErrorLine("npu_init_failed")}, TFLM \cup AOT, "ethosU", "transport")
  /\ Declares({ErrorLine("executorch")}, ET, "any", "transport")
  /\ Declares({ErrorLine("operator_count_exceeds_capacity")}, AllEngines, "stream", "transport")
  /\ Declares({ErrorLine("pmu_init_or_selftest_failed")}, ET, "stream", "transport")
  /\ Declares({ErrorLine("stimer_dead")}, TFLM \cup AOT, "stimerWindow", "transport")
  /\ Declares({ErrorLine("stimer_dead")}, ET, "busyLoop", "transport")
<1>1. RunErrors \subseteq ModelErrors \cup RunErrors \cup Warnings
  OBVIOUS
<1>2. Sometimes(ModelErrors \cup RunErrors \cup Warnings) \subseteq Registry
  BY RegistryParts DEF FaultLines
<1> DEFINE X == ModelErrors \cup RunErrors \cup Warnings
<1>3. Specs({ErrorLine("model_init_failed")}, AOT, "any") \subseteq X
  BY <1>1 DEF RunErrors
<1>4. Specs({ErrorLine("npu_init_failed")}, TFLM \cup AOT, "ethosU") \subseteq X
  BY <1>1 DEF RunErrors
<1>5. Specs({ErrorLine("executorch")}, ET, "any") \subseteq X
  BY <1>1 DEF RunErrors
<1>6. Specs({ErrorLine("operator_count_exceeds_capacity")}, AllEngines, "stream") \subseteq X
  BY <1>1 DEF RunErrors
<1>7. Specs({ErrorLine("pmu_init_or_selftest_failed")}, ET, "stream") \subseteq X
  BY <1>1 DEF RunErrors
<1>8. Specs({ErrorLine("stimer_dead")}, TFLM \cup AOT, "stimerWindow") \subseteq X
  BY <1>1 DEF RunErrors
<1>9. Specs({ErrorLine("stimer_dead")}, ET, "busyLoop") \subseteq X
  BY <1>1 DEF RunErrors
<1> HIDE DEF X
<1> QED
  BY <1>3, <1>4, <1>5, <1>6, <1>7, <1>8, <1>9, <1>2, SometimesDeclares DEF X

LEMMA WarningsDeclare ==
  /\ Declares({<<"WARN", "unusual_dtype">>}, TFLM, "any", "transport")
<1>1. Warnings \subseteq ModelErrors \cup RunErrors \cup Warnings
  OBVIOUS
<1>2. Sometimes(ModelErrors \cup RunErrors \cup Warnings) \subseteq Registry
  BY RegistryParts DEF FaultLines
<1> DEFINE X == ModelErrors \cup RunErrors \cup Warnings
<1>3. Specs({<<"WARN", "unusual_dtype">>}, TFLM, "any") \subseteq X
  BY <1>1 DEF Warnings
<1> HIDE DEF X
<1> QED
  BY <1>3, <1>2, SometimesDeclares DEF X

LEMMA TerminalRecordDeclare ==
  /\ Declares(SentinelLines({"POWER_TERMINAL_START", "POWER_TERMINAL_END"}), TFLM \cup AOT, "power",
              "power")
  /\ Declares(TerminalFields, TFLM \cup AOT, "power", "power")
  /\ Declares(MeasurementFields, TFLM \cup AOT, "powerIna228", "power")
  /\ Declares({Field("INA228_DIAG")}, TFLM \cup AOT, "powerIna228", "power")
  /\ Declares({Field("INA228_BYSTANDER_FAILED")}, TFLM \cup AOT, "powerIna228", "power")
<1> DEFINE ends == SentinelLines({"POWER_TERMINAL_START", "POWER_TERMINAL_END"})
           failed == {Field("INA228_BYSTANDER_FAILED")}
           Listed == Specs(TerminalFields, TFLM \cup AOT, "power")
                       \cup Sometimes(Specs(MeasurementFields, TFLM \cup AOT, "powerIna228"))
                       \cup Specs({Field("INA228_DIAG")}, TFLM \cup AOT, "powerIna228")
                       \cup Sometimes(Specs(failed, TFLM \cup AOT, "powerIna228"))
<1>1. OfPower(Listed) \subseteq Registry
  BY RegistryParts DEF TerminalRecord
<1>2. OfPower(Specs(ends, TFLM \cup AOT, "power")) \subseteq Registry
  BY RegistryParts DEF Sentinels
<1>3. ASSUME NEW X, X \subseteq Listed PROVE OfPower(X) \subseteq Registry
  BY <1>1, <1>3 DEF OfPower
<1>4. /\ OfPower(Sometimes(Specs(MeasurementFields, TFLM \cup AOT, "powerIna228")))
           \subseteq Registry
      /\ OfPower(Sometimes(Specs(failed, TFLM \cup AOT, "powerIna228"))) \subseteq Registry
      /\ OfPower(Specs(TerminalFields, TFLM \cup AOT, "power")) \subseteq Registry
      /\ OfPower(Specs({Field("INA228_DIAG")}, TFLM \cup AOT, "powerIna228")) \subseteq Registry
  BY <1>3
<1> HIDE DEF ends, failed, Listed
<1>5. /\ Declares(ends, TFLM \cup AOT, "power", "power")
      /\ Declares(TerminalFields, TFLM \cup AOT, "power", "power")
      /\ Declares(MeasurementFields, TFLM \cup AOT, "powerIna228", "power")
      /\ Declares({Field("INA228_DIAG")}, TFLM \cup AOT, "powerIna228", "power")
      /\ Declares(failed, TFLM \cup AOT, "powerIna228", "power")
  BY <1>2, <1>4, PowerDeclares
<1> QED
  BY <1>5 DEF ends, failed

LEMMA TerminalMayPrint ==
  ASSUME binary \in FwBuilds, binary.power, NEW ok \in BOOLEAN,
         binary.monitor = "none" => ina = "none"
  PROVE  TerminalLines(ok) \subseteq MayPrint(binary)
<1> DEFINE ends == SentinelLines({"POWER_TERMINAL_START", "POWER_TERMINAL_END"})
           failed == {Field("INA228_BYSTANDER_FAILED")}
<1>1. binary.engine \in TFLM \cup AOT
  BY BuildFacts DEF TFLM, AOT
<1>2. Gate("power", binary) /\ (binary.monitor # "none" => Gate("powerIna228", binary))
  BY DEF Gate
<1>3. ends \subseteq MayPrint(binary) /\ TerminalFields \subseteq MayPrint(binary)
  BY <1>1, <1>2, TerminalRecordDeclare, DeclaredMayPrint
<1>4. binary.monitor # "none" =>
        /\ MeasurementFields \subseteq MayPrint(binary)
        /\ {Field("INA228_DIAG")} \subseteq MayPrint(binary)
        /\ failed \subseteq MayPrint(binary)
  BY <1>1, <1>2, TerminalRecordDeclare, DeclaredMayPrint
<1>5. {Sentinel("POWER_TERMINAL_START"), Sentinel("POWER_TERMINAL_END")} \subseteq ends
  BY DEF SentinelLines
<1> HIDE DEF ends, failed
<1>6. {Sentinel("POWER_TERMINAL_START"), Sentinel("POWER_TERMINAL_END")} \cup TerminalFields
        \subseteq MayPrint(binary)
  BY <1>3, <1>5
<1>7. Given(binary.monitor # "none", {Field("INA228_DIAG")}) \subseteq MayPrint(binary)
  BY <1>4 DEF Given
<1>8. Given(ina = "dropped", {Field("INA228_BYSTANDER_FAILED")}) \subseteq MayPrint(binary)
  BY <1>4 DEF Given, failed
<1>9. (IF ok /\ ina = "read" THEN MeasurementFields ELSE {}) \subseteq MayPrint(binary)
  BY <1>4
<1> QED
  BY <1>6, <1>7, <1>8, <1>9 DEF TerminalLines

\* The gates a profile binary satisfies, and the engines a line may be rendered for.
LEMMA ProfileGates ==
  ASSUME NEW b, ~b.power
  PROVE  /\ Gate("any", b) /\ Gate("stream", b)
         /\ b.link # "usb" => Gate("ready", b)
         /\ b.link = "rtt" => Gate("flush", b)
         /\ b.family = "ap3" => Gate("burst", b)
         /\ PsramNeeded(b) => Gate("psramMetadata", b) /\ Gate("psramNeeded", b)
         /\ "arena" \in b.features => Gate("arenaInPsram", b)
         /\ "weights" \in b.features => Gate("weightsInPsram", b)
         /\ ArenaRegions(b) => Gate("aotArenas", b)
         /\ "psram" \in b.features => Gate("aotPsramArenas", b) /\ Gate("aotPsramMetadata", b)
         /\ "blob" \in b.features => Gate("blobs", b)
         /\ {"blob", "psram"} \subseteq b.features => Gate("blobsInPsram", b)
         /\ BusyLoop(b) => Gate("busyLoop", b)
         /\ "npu" \in b.features => Gate("ethosU", b)
         /\ StimerWindow(b) => Gate("stimerWindow", b)
         /\ ~StimerWindow(b) => Gate("notStimerWindow", b)
         /\ "trace" \in b.features /\ b.link \notin {"swo", "uart"} => Gate("trace", b)
         /\ NeedsAttachWait(b) /\ b.link = "rtt" /\ ~StimerWindow(b) => Gate("attachWait", b)
BY DEF Gate

LEMMA EngineSets ==
  ASSUME NEW b \in FwBuilds
  PROVE  /\ b.engine \in AllEngines
         /\ b.engine = "tflm" => b.engine \in TFLM /\ b.engine \in TFLM \cup AOT /\ b.engine \in TFLM \cup ET
         /\ b.engine = "aot" => b.engine \in AOT /\ b.engine \in TFLM \cup AOT
         /\ b.engine = "et" => b.engine \in ET /\ b.engine \in TFLM \cup ET
         /\ b.engine # "et" => b.engine \in TFLM \cup AOT
         /\ b.engine # "aot" => b.engine \in TFLM \cup ET
BY BuildFacts DEF AllEngines, TFLM, AOT, ET

Profile == binary \in FwBuilds /\ ~binary.power

LEMMA HeaderMayPrint ==
  ASSUME Profile
  PROVE  HeaderLines \cup {Key("SYNC_GPIO")} \cup HeartbeatArm \subseteq MayPrint(binary)
<1> DEFINE M == MayPrint(binary)
<1>1. /\ SentinelLines({"START", "END", "PRESET", "ITER"}) \subseteq M
      /\ Keys({"VERSION", "ENGINE", "EXTREME_MODE", "ITERATIONS", "WARMUP", "NUM_PRESETS",
               "PRESETS", "POWER_SYNC"}) \subseteq M
      /\ {Key("SYNC_GPIO")} \subseteq M
      /\ Keys({"HEARTBEAT_ENABLED", "HEARTBEAT_EVERY_N_OPS", "HEARTBEAT_EVERY_MS"}) \subseteq M
      /\ {Heartbeat("init"), Heartbeat("warmup_done")} \subseteq M
  BY ProfileGates, EngineSets, SentinelsDeclare, StartHeaderDeclare, ClockAndHeartbeatsDeclare,
     HeartbeatsDeclare, DeclaredMayPrint DEF Profile
<1>2. binary.engine # "aot" => Keys({"MODEL_SIZE", "ARENA_SIZE"}) \subseteq M
  BY ProfileGates, EngineSets, ModelSizesDeclare, DeclaredMayPrint DEF Profile
<1>3. binary.engine = "et" => Keys({"INPUT_SIZE", "OUTPUT_SIZE"}) \subseteq M
  BY ProfileGates, EngineSets, ModelSizesDeclare, DeclaredMayPrint DEF Profile
<1>4. binary.engine = "tflm" /\ PsramNeeded(binary) => PsramKeys \subseteq M
  BY ProfileGates, EngineSets, PsramDeclare, DeclaredMayPrint DEF Profile
<1>5. Sentinel("START") \in SentinelLines({"START", "END", "PRESET", "ITER"})
  BY DEF SentinelLines
<1> HIDE DEF M
<1> QED
  BY <1>1, <1>2, <1>3, <1>4, <1>5, Zenon DEF HeaderLines, HeartbeatArm, Given, M

\* A set-up whose steps print lines of M is a sequence of such steps.
StepsOf(M) == [ok : SUBSET M, faults : SUBSET SUBSET M]

LEMMA SetupStepLines ==
  ASSUME NEW M, NEW rendered \in BOOLEAN, NEW ok, NEW ways,
         rendered => ok \subseteq M /\ ways \subseteq SUBSET M
  PROVE  /\ SetupStep(rendered, ok, ways) \in Seq(StepsOf(M))
         /\ rendered => LinesOf(SetupStep(rendered, ok, ways)) = ok
<1>1. CASE rendered
  <2>1. [ok |-> ok, faults |-> ways] \in StepsOf(M)
    BY <1>1 DEF StepsOf
  <2>2. SetupStep(rendered, ok, ways) = <<[ok |-> ok, faults |-> ways]>>
    BY <1>1 DEF SetupStep
  <2> DEFINE one == [ok |-> ok, faults |-> ways]
  <2>3. one.ok = ok
    OBVIOUS
  <2> HIDE DEF one
  <2>4. DOMAIN <<one>> = {1} /\ <<one>>[1] = one
    OBVIOUS
  <2>5. LinesOf(<<one>>) = ok
    BY <2>3, <2>4 DEF LinesOf
  <2>6. <<one>> \in Seq(StepsOf(M))
    BY <2>1 DEF one
  <2>7. SetupStep(rendered, ok, ways) = <<one>>
    BY <2>2 DEF one
  <2> QED
    BY <1>1, <2>5, <2>6, <2>7
<1>2. CASE ~rendered
  BY <1>2 DEF SetupStep
<1> QED
  BY <1>1, <1>2

LEMMA LinesOfBoth ==
  ASSUME NEW S, NEW s \in Seq(S), NEW t \in Seq(S)
  PROVE  /\ s \o t \in Seq(S)
         /\ LinesOf(s) \subseteq LinesOf(s \o t) /\ LinesOf(t) \subseteq LinesOf(s \o t)
<1>1. /\ s \o t \in Seq(S) /\ Len(s \o t) = Len(s) + Len(t)
      /\ \A i \in 1..Len(s) + Len(t) : (s \o t)[i] = IF i <= Len(s) THEN s[i] ELSE t[i - Len(s)]
  BY ConcatProperties
<1>2. Len(s) \in Nat /\ Len(t) \in Nat /\ DOMAIN s = 1..Len(s) /\ DOMAIN t = 1..Len(t)
      /\ DOMAIN (s \o t) = 1..(Len(s) + Len(t))
  BY <1>1
<1>3. ASSUME NEW l \in LinesOf(s) PROVE l \in LinesOf(s \o t)
  <2>1. PICK i \in 1..Len(s) : l \in s[i].ok
    BY <1>2 DEF LinesOf
  <2>2. i \in DOMAIN (s \o t) /\ (s \o t)[i] = s[i]
    BY <1>1, <1>2
  <2> QED
    BY <2>1, <2>2 DEF LinesOf
<1>4. ASSUME NEW l \in LinesOf(t) PROVE l \in LinesOf(s \o t)
  <2>1. PICK i \in 1..Len(t) : l \in t[i].ok
    BY <1>2 DEF LinesOf
  <2>2. i + Len(s) \in DOMAIN (s \o t) /\ (s \o t)[i + Len(s)] = t[i]
    <3>1. i + Len(s) \in 1..(Len(s) + Len(t)) /\ ~(i + Len(s) <= Len(s)) /\ (i + Len(s)) - Len(s) = i
      BY <1>2
    <3> QED
      BY <1>1, <1>2, <3>1
  <2> QED
    BY <2>1, <2>2 DEF LinesOf
<1> QED
  BY <1>1, <1>3, <1>4

\* The steps of a set-up, and what those that are rendered print.
LEMMA NpuStep ==
  ASSUME Profile, binary.engine # "et"
  PROVE  /\ NpuInit \in Seq(StepsOf(MayPrint(binary)))
         /\ Has("npu") => {Key("NPU")} \subseteq LinesOf(NpuInit)
<1>1. Has("npu") => /\ {Key("NPU")} \subseteq MayPrint(binary)
                    /\ {ErrorLine("npu_init_failed")} \subseteq MayPrint(binary)
  BY ProfileGates, EngineSets, ClockAndHeartbeatsDeclare, RunErrorsDeclare, DeclaredMayPrint
  DEF Profile, Has
<1>2. Has("npu") => {ErrorLines({"npu_init_failed"})} \subseteq SUBSET MayPrint(binary)
  BY <1>1 DEF ErrorLines
<1>3. Has("npu") \in BOOLEAN
  BY DEF Has
<1>4. /\ SetupStep(Has("npu"), {Key("NPU")}, {ErrorLines({"npu_init_failed"})})
           \in Seq(StepsOf(MayPrint(binary)))
      /\ Has("npu") => LinesOf(SetupStep(Has("npu"), {Key("NPU")},
            {ErrorLines({"npu_init_failed"})}))
                         = {Key("NPU")}
  BY <1>1, <1>2, <1>3, SetupStepLines
<1> QED
  BY <1>4 DEF NpuInit

LEMMA TflmSetupLines ==
  ASSUME Profile, binary.engine = "tflm"
  PROVE  /\ TflmSetup \in Seq(StepsOf(MayPrint(binary)))
         /\ Has("npu") => Key("NPU") \in LinesOf(TflmSetup)
         /\ {Heartbeat("allocate"), Heartbeat("allocated")} \subseteq LinesOf(TflmSetup)
         /\ Keys({"INPUT_SIZE", "OUTPUT_SIZE", "ALLOCATED_ARENA", "NUM_TENSORS", "NUM_INPUTS",
                  "NUM_OUTPUTS"}) \subseteq LinesOf(TflmSetup)
<1> DEFINE M == MayPrint(binary)
           step1 == SetupStep(TRUE, {Heartbeat("allocate")}, {ErrorLines({"schema_mismatch"})})
           step2 == SetupStep(TRUE, {}, {ErrorLines({"unsupported_op", "missing_ops"})})
           sizes == Keys({"INPUT_SIZE", "OUTPUT_SIZE", "ALLOCATED_ARENA", "NUM_TENSORS",
                          "NUM_INPUTS", "NUM_OUTPUTS"})
           step3 == SetupStep(TRUE, {Heartbeat("allocated")} \cup sizes,
                              {ErrorLines({"alloc_tensors_failed"})})
<1>1. /\ {Heartbeat("allocate")} \subseteq M /\ {Heartbeat("allocated")} \subseteq M
      /\ Keys({"ALLOCATED_ARENA", "NUM_TENSORS"}) \subseteq M
      /\ Keys({"INPUT_SIZE", "OUTPUT_SIZE"}) \subseteq M
      /\ Keys({"NUM_INPUTS", "NUM_OUTPUTS"}) \subseteq M
      /\ ErrorLines({"schema_mismatch", "unsupported_op", "missing_ops", "alloc_tensors_failed"})
           \subseteq M
  BY ProfileGates, EngineSets, HeartbeatsDeclare, ModelSizesDeclare, ModelErrorsDeclare,
     DeclaredMayPrint DEF Profile
<1>2. sizes \subseteq M
  BY <1>1 DEF Keys
<1>3. /\ {ErrorLines({"schema_mismatch"})} \subseteq SUBSET M
      /\ {ErrorLines({"unsupported_op", "missing_ops"})} \subseteq SUBSET M
      /\ {ErrorLines({"alloc_tensors_failed"})} \subseteq SUBSET M
  BY <1>1 DEF ErrorLines
<1> HIDE DEF M, sizes
<1>4. step1 \in Seq(StepsOf(M)) /\ LinesOf(step1) = {Heartbeat("allocate")}
  BY <1>1, <1>3, SetupStepLines
<1>5. step2 \in Seq(StepsOf(M))
  BY <1>3, SetupStepLines
<1>6. step3 \in Seq(StepsOf(M)) /\ LinesOf(step3) = {Heartbeat("allocated")} \cup sizes
  BY <1>1, <1>2, <1>3, SetupStepLines
<1>7. NpuInit \in Seq(StepsOf(M)) /\ (Has("npu") => {Key("NPU")} \subseteq LinesOf(NpuInit))
  BY NpuStep DEF M
<1>8. TflmSetup = NpuInit \o step1 \o step2 \o step3
  BY DEF TflmSetup, sizes
<1> HIDE DEF step1, step2, step3
<1>9. NpuInit \o step1 \in Seq(StepsOf(M)) /\ LinesOf(NpuInit) \subseteq LinesOf(NpuInit \o step1)
      /\ LinesOf(step1) \subseteq LinesOf(NpuInit \o step1)
  BY <1>4, <1>7, LinesOfBoth
<1>10. /\ NpuInit \o step1 \o step2 \in Seq(StepsOf(M))
       /\ LinesOf(NpuInit \o step1) \subseteq LinesOf(NpuInit \o step1 \o step2)
  BY <1>5, <1>9, LinesOfBoth
<1>11. /\ NpuInit \o step1 \o step2 \o step3 \in Seq(StepsOf(M))
       /\ LinesOf(NpuInit \o step1 \o step2) \subseteq LinesOf(NpuInit \o step1 \o step2 \o step3)
       /\ LinesOf(step3) \subseteq LinesOf(NpuInit \o step1 \o step2 \o step3)
  BY <1>6, <1>10, LinesOfBoth
<1>12. /\ LinesOf(NpuInit) \subseteq LinesOf(TflmSetup) /\ LinesOf(step1)
                                                             \subseteq LinesOf(TflmSetup)
       /\ LinesOf(step3) \subseteq LinesOf(TflmSetup) /\ TflmSetup \in Seq(StepsOf(M))
  BY <1>8, <1>9, <1>10, <1>11
<1> QED
  BY <1>4, <1>6, <1>7, <1>12 DEF M, sizes

LEMMA AotSetupLines ==
  ASSUME Profile, binary.engine = "aot"
  PROVE  /\ AotSetup \in Seq(StepsOf(MayPrint(binary)))
         /\ Has("npu") => Key("NPU") \in LinesOf(AotSetup)
         /\ Has("psram") => PsramKeys \cup {Key("PSRAM_ARENA_REGION")} \subseteq LinesOf(AotSetup)
         /\ ArenaRegions(binary) => Key("ARENAS_BOUND") \in LinesOf(AotSetup)
         /\ Has("blob") => Key("CONST_BLOB_LOADED") \in LinesOf(AotSetup)
         /\ Heartbeat("model_init_done") \in LinesOf(AotSetup)
         /\ Keys({"NUM_INPUTS", "NUM_OUTPUTS"}) \subseteq LinesOf(AotSetup)
<1> DEFINE M == MayPrint(binary)
           region == PsramKeys \cup {Key("PSRAM_ARENA_REGION")}
           step2 == SetupStep(Has("psram"), region, {{f} : f \in PsramFaults})
           step3 == SetupStep(ArenaRegions(binary), {Key("ARENAS_BOUND")},
                              {ErrorLines({"bind_arena_failed"})})
           unread == Given(Has("psram"), {ErrorLines({"const_blob_psram_write_failed"})})
           step4 == SetupStep(Has("blob"), {Key("CONST_BLOB_LOADED")}, unread)
           counts == Keys({"NUM_INPUTS", "NUM_OUTPUTS"})
           step5 == SetupStep(TRUE, {Heartbeat("model_init_done")} \cup counts,
                              {ErrorLines({"model_init_failed"})})
<1>0. /\ Has("psram") \in BOOLEAN /\ Has("blob") \in BOOLEAN /\ ArenaRegions(binary) \in BOOLEAN
      /\ Has("psram") => "psram" \in binary.features
      /\ Has("blob") => "blob" \in binary.features
  BY DEF Has, ArenaRegions
<1>1. /\ {Heartbeat("model_init_done")} \subseteq M /\ counts \subseteq M
      /\ {ErrorLine("model_init_failed")} \subseteq M
  BY ProfileGates, EngineSets, HeartbeatsDeclare, ModelSizesDeclare, RunErrorsDeclare,
     DeclaredMayPrint DEF Profile
<1>2. Has("psram") => /\ PsramKeys \subseteq M /\ {Key("PSRAM_ARENA_REGION")} \subseteq M
                      /\ ErrorLines({"psram_init_failed", "psram_info_failed"}) \subseteq M
  BY <1>0, ProfileGates, EngineSets, PsramDeclare, ModelErrorsDeclare, DeclaredMayPrint DEF Profile
<1>3. ArenaRegions(binary) => {Key("ARENAS_BOUND")}
      \subseteq M /\ {ErrorLine("bind_arena_failed")} \subseteq M
  BY ProfileGates, EngineSets, AotMemoryDeclare, ModelErrorsDeclare, DeclaredMayPrint DEF Profile
<1>4. Has("blob") => {Key("CONST_BLOB_LOADED")} \subseteq M
  BY <1>0, ProfileGates, EngineSets, AotMemoryDeclare, DeclaredMayPrint DEF Profile
<1>5. Has("blob") /\ Has("psram") => {ErrorLine("const_blob_psram_write_failed")} \subseteq M
  BY <1>0, ProfileGates, EngineSets, ModelErrorsDeclare, DeclaredMayPrint DEF Profile
<1>6. /\ {ErrorLines({"model_init_failed"})} \subseteq SUBSET M
      /\ ArenaRegions(binary) => {ErrorLines({"bind_arena_failed"})} \subseteq SUBSET M
      /\ Has("blob") => unread \subseteq SUBSET M
      /\ Has("psram") => {{f} : f \in PsramFaults} \subseteq SUBSET M
  BY <1>1, <1>2, <1>3, <1>5 DEF ErrorLines, Given, PsramFaults
<1>7. Has("psram") => region \subseteq M
  BY <1>2
<1> HIDE DEF M, region, unread, counts
<1>11. /\ step2 \in Seq(StepsOf(M)) /\ (Has("psram") => LinesOf(step2) = region)
  BY <1>0, <1>6, <1>7, SetupStepLines
<1>12. /\ step3 \in Seq(StepsOf(M))
       /\ ArenaRegions(binary) => LinesOf(step3) = {Key("ARENAS_BOUND")}
  BY <1>0, <1>3, <1>6, SetupStepLines
<1>13. /\ step4 \in Seq(StepsOf(M)) /\ (Has("blob") => LinesOf(step4) = {Key("CONST_BLOB_LOADED")})
  BY <1>0, <1>4, <1>6, SetupStepLines
<1>14. step5 \in Seq(StepsOf(M)) /\ LinesOf(step5) = {Heartbeat("model_init_done")} \cup counts
  BY <1>1, <1>6, SetupStepLines
<1>15. NpuInit \in Seq(StepsOf(M)) /\ (Has("npu") => {Key("NPU")} \subseteq LinesOf(NpuInit))
  BY NpuStep DEF M
<1>16. AotSetup = NpuInit \o step2 \o step3 \o step4 \o step5
  BY DEF AotSetup, region, unread, counts
<1> HIDE DEF step2, step3, step4, step5
<1> DEFINE two == NpuInit \o step2
           three == two \o step3
           four == three \o step4
<1>17. /\ two \in Seq(StepsOf(M)) /\ LinesOf(NpuInit) \subseteq LinesOf(two)
       /\ LinesOf(step2) \subseteq LinesOf(two)
  BY <1>11, <1>15, LinesOfBoth
<1> HIDE DEF two
<1>18. /\ three \in Seq(StepsOf(M)) /\ LinesOf(two) \subseteq LinesOf(three)
       /\ LinesOf(step3) \subseteq LinesOf(three)
  BY <1>12, <1>17, LinesOfBoth
<1> HIDE DEF three
<1>19. /\ four \in Seq(StepsOf(M)) /\ LinesOf(three) \subseteq LinesOf(four)
       /\ LinesOf(step4) \subseteq LinesOf(four)
  BY <1>13, <1>18, LinesOfBoth
<1> HIDE DEF four
<1>20. /\ four \o step5 \in Seq(StepsOf(M)) /\ LinesOf(four) \subseteq LinesOf(four \o step5)
       /\ LinesOf(step5) \subseteq LinesOf(four \o step5)
  BY <1>14, <1>19, LinesOfBoth
<1>21. AotSetup = four \o step5
  BY <1>16 DEF four, three, two
<1>22. /\ LinesOf(NpuInit) \subseteq LinesOf(AotSetup) /\ LinesOf(step2)
                                                            \subseteq LinesOf(AotSetup)
       /\ LinesOf(step3) \subseteq LinesOf(AotSetup) /\ LinesOf(step4) \subseteq LinesOf(AotSetup)
       /\ LinesOf(step5) \subseteq LinesOf(AotSetup) /\ AotSetup \in Seq(StepsOf(M))
  BY <1>17, <1>18, <1>19, <1>20, <1>21
<1> QED
  BY <1>11, <1>12, <1>13, <1>14, <1>15, <1>22 DEF M, region, counts

LEMMA SetupMayPrint ==
  ASSUME Profile
  PROVE  Setup \in Seq(StepsOf(MayPrint(binary)))
<1>1. CASE binary.engine = "tflm"
  BY <1>1, TflmSetupLines DEF Setup
<1>2. CASE binary.engine = "aot"
  BY <1>2, AotSetupLines DEF Setup
<1>3. CASE binary.engine = "et"
  BY <1>3 DEF Setup
<1> QED
  BY <1>1, <1>2, <1>3, BuildFacts DEF Profile

LEMMA RunLinesMayPrint ==
  ASSUME Profile
  PROVE  /\ (binary.link # "usb") => Key("READY") \in MayPrint(binary)
         /\ ClockLines \subseteq MayPrint(binary)
         /\ StimerWindow(binary) => Key("MEASURED_CLOCK_HZ") \in MayPrint(binary)
         /\ {Heartbeat("infer"), Heartbeat("clean_window_begin")} \subseteq MayPrint(binary)
         /\ WindowLines \subseteq MayPrint(binary)
         /\ CleanLines \subseteq MayPrint(binary)
<1> DEFINE M == MayPrint(binary)
<1> USE DEF Profile
<1>1. (binary.link # "usb") => {Key("READY")} \subseteq M
  BY ProfileGates, EngineSets, HandshakeDeclare, DeclaredMayPrint
<1>2. /\ {Key("SYSTEM_CLOCK_HZ")} \subseteq M
      /\ StimerWindow(binary) => {Key("MEASURED_CLOCK_HZ")} \subseteq M
      /\ binary.family = "ap3" => Keys({"BURST_AVAIL", "BURST_ENGAGED"}) \subseteq M
  BY ProfileGates, EngineSets, ClockAndHeartbeatsDeclare, DeclaredMayPrint
<1>3. binary.engine = "aot" => Keys({"INPUT_%d_SIZE", "OUTPUT_%d_SIZE"}) \subseteq M
  BY ProfileGates, EngineSets, AotMemoryDeclare, DeclaredMayPrint
<1>4. {Heartbeat("infer")} \subseteq M /\ {Heartbeat("clean_window_begin")} \subseteq M
  BY ProfileGates, EngineSets, HeartbeatsDeclare, DeclaredMayPrint
<1>5. /\ BusyLoop(binary) => {Key("CLEAN_WINDOW_PROBE")} \subseteq M
      /\ "trace" \in binary.features /\ binary.link \notin {"swo", "uart"} =>
           {Key("CLEAN_ITER")} \subseteq M
      /\ Keys({"CLEAN_INFER_COUNT", "CLEAN_INFER_TOTAL_CYCLES", "CLEAN_INFER_AVG_CYCLES",
               "CLEAN_INFER_AVG_US"}) \subseteq M
  BY ProfileGates, EngineSets, CleanWindowDeclare, DeclaredMayPrint
<1>6. ~StimerWindow(binary) =>
        /\ Keys({"CLEAN_STALLED_ITERS", "CLEAN_PARTIAL_ITERS", "CLEAN_REF_CYCLES",
                 "CLEAN_DWT_RATE_CYC", "CLEAN_DWT_RATE_US"}) \subseteq M
        /\ AttachWaited => {Key("CLEAN_ATTACH_WAIT_US")} \subseteq M
  <2>1. ~StimerWindow(binary) => binary.engine \in TFLM \cup AOT
    BY WindowTimers, EngineSets
  <2> QED
    BY <2>1, ProfileGates, CleanChecksDeclare, DeclaredMayPrint DEF AttachWaited
<1>7. AttachWaited => ~StimerWindow(binary)
  BY DEF AttachWaited
<1> HIDE DEF M
<1>8. ClockLines \subseteq M
  BY <1>2, <1>3 DEF ClockLines, Given
<1>9. WindowLines \subseteq M
  BY <1>5 DEF WindowLines, Given, Has
<1>10. CleanLines \subseteq M
  BY <1>5, <1>6, <1>7, Zenon DEF CleanLines, Given
<1> QED
  BY <1>1, <1>2, <1>4, <1>8, <1>9, <1>10 DEF M

LEMMA PassLinesMayPrint ==
  ASSUME Profile
  PROVE  /\ PassLines \cup PmuLines \cup {Sentinel("ITER"), Sentinel("END")}
              \subseteq MayPrint(binary)
         /\ \A test \in SelfTests : test \subseteq MayPrint(binary)
         /\ ProfiledLines \subseteq MayPrint(binary)
         /\ binary.link = "rtt" => Heartbeat("flushing") \in MayPrint(binary)
<1> DEFINE M == MayPrint(binary)
<1> USE DEF Profile
<1>1. /\ SentinelLines({"START", "END", "PRESET", "ITER"}) \subseteq M
      /\ {Heartbeat("init"), Heartbeat("warmup_done")} \subseteq M
      /\ binary.link = "rtt" => {Heartbeat("flushing")} \subseteq M
  BY ProfileGates, EngineSets, SentinelsDeclare, HeartbeatsDeclare, DeclaredMayPrint
<1>2. /\ binary.engine = "et" => {Key("PMU_INIT_STATUS")} \subseteq M
      /\ binary.engine = "et" => {Key("PMU_SELFTEST_CPU_CYCLES")} \subseteq M
      /\ binary.engine # "et" =>
           Keys({"PROFILED_INFER_COUNT", "PROFILED_INFER_TOTAL_US",
                 "PROFILED_INFER_AVG_US"}) \subseteq M
  BY ProfileGates, EngineSets, ProfiledAndPmuDeclare, DeclaredMayPrint
<1>3. {Sentinel("PRESET"), Sentinel("ITER"), Sentinel("END")} \subseteq M
  BY <1>1 DEF SentinelLines
<1> HIDE DEF M
<1>4. PassLines \cup PmuLines \cup {Sentinel("ITER"), Sentinel("END")} \subseteq M
  BY <1>1, <1>2, <1>3 DEF PassLines, PmuLines
<1>5. \A test \in SelfTests : test \subseteq M
  BY <1>2 DEF SelfTests
<1>6. ProfiledLines \subseteq M
  BY <1>2, Zenon DEF ProfiledLines, Given
<1> QED
  BY <1>1, <1>4, <1>5, <1>6 DEF M

LEMMA FaultsMayPrint ==
  ASSUME Profile
  PROVE  /\ binary.engine = "et" =>
              {ErrorLine("executorch")} \cup ErrorLines({"pmu_init_or_selftest_failed"})
                \subseteq MayPrint(binary)
         /\ ErrorLine("operator_count_exceeds_capacity") \in MayPrint(binary)
         /\ StimerWindow(binary) /\ ~OwnWindow => ErrorLine("stimer_dead") \in MayPrint(binary)
         /\ binary.engine = "tflm" => <<"WARN", "unusual_dtype">> \in MayPrint(binary)
         /\ binary.engine = "tflm" /\ PsramNeeded(binary) => PsramFaults \subseteq MayPrint(binary)
         /\ binary.engine = "tflm" /\ Has("arena") => Key("PSRAM_ARENA") \in MayPrint(binary)
         /\ binary.engine = "tflm" /\ Has("weights") => Key("PSRAM_READY") \in MayPrint(binary)
<1> USE DEF Profile
<1>1. /\ binary.engine = "et" => {ErrorLine("executorch")} \subseteq MayPrint(binary)
      /\ binary.engine = "et" => {ErrorLine("pmu_init_or_selftest_failed")}
            \subseteq MayPrint(binary)
      /\ {ErrorLine("operator_count_exceeds_capacity")} \subseteq MayPrint(binary)
      /\ StimerWindow(binary) /\ binary.engine # "et" =>
           {ErrorLine("stimer_dead")} \subseteq MayPrint(binary)
      /\ BusyLoop(binary) /\ binary.engine = "et" =>
           {ErrorLine("stimer_dead")} \subseteq MayPrint(binary)
  BY ProfileGates, EngineSets, RunErrorsDeclare, DeclaredMayPrint
<1>2. /\ binary.engine = "tflm" /\ PsramNeeded(binary) =>
           ErrorLines({"psram_init_failed", "psram_info_failed"}) \subseteq MayPrint(binary)
      /\ binary.engine = "tflm" => {<<"WARN", "unusual_dtype">>} \subseteq MayPrint(binary)
  BY ProfileGates, EngineSets, ModelErrorsDeclare, WarningsDeclare, DeclaredMayPrint
<1>3. /\ binary.engine = "tflm" /\ "arena" \in binary.features => {Key("PSRAM_ARENA")}
                                     \subseteq MayPrint(binary)
      /\ binary.engine = "tflm" /\ "weights" \in binary.features => {Key("PSRAM_READY")}
                                     \subseteq MayPrint(binary)
  BY ProfileGates, EngineSets, PsramDeclare, DeclaredMayPrint
<1> QED
  BY <1>1, <1>2, <1>3 DEF OwnWindow, PsramFaults, Has, ErrorLines

LEMMA FirmwareInit == binary \in FwBuilds /\ FwInit => FirmwareSoFar
<1> SUFFICES ASSUME binary \in FwBuilds, FwInit PROVE FirmwareSoFar
  OBVIOUS
<1>1. /\ fwPc = "boot" /\ meter = FreshMeter /\ ina = "none" /\ printed = {} /\ muted = {}
      /\ ~deadRead
      /\ hw = [debug |-> DebugAtBoot(binary), users |-> 0, gate |-> FALSE, armed |-> FALSE,
               hook |-> TRUE]
  BY DEF FwInit
<1>2. DebugAtBoot(binary) \in BOOLEAN /\ (~binary.power => DebugAtBoot(binary))
  BY DEF DebugAtBoot
<1>3. HardwareSoFar
  BY <1>1, <1>2 DEF HardwareSoFar, BringUp, Afterwards, GateUp, WindowAhead, FwStopped
<1>4. WireSoFar
  BY <1>1 DEF WireSoFar
<1>5. MeterSoFar
  BY <1>1 DEF MeterSoFar, Meters, FreshMeter, FwStopped, WindowAhead, GateUp
<1>6. DueSoFar
  BY <1>1 DEF DueSoFar, Past, Milestone
<1> QED
  BY <1>1, <1>3, <1>4, <1>5, <1>6 DEF FirmwareSoFar, ClockIsReadable

LEMMA BinaryStays ==
  ASSUME FwNext
  PROVE  binary' = binary
BY DEF FwNext, Boot, Preamble, PsramInit, Header, ModelSetup, ClockReport, RateClock, Warm,
      Announce,
   Quiesce, OpenWindow, MeasuredWindow, CloseWindow, ReportWindow, PassBegin, Iterate, Finish

LEMMA HardwareStep ==
  ASSUME FirmwareSoFar, FwNext
  PROVE  HardwareSoFar' /\ ClockIsReadable'
<1>1. binary' = binary /\ binary \in FwBuilds
  BY BinaryStays DEF FirmwareSoFar
<1>2. GatesDebug' = GatesDebug /\ PsramNeeded(binary)' = PsramNeeded(binary)
  BY <1>1 DEF GatesDebug, OwnWindow, HasPmu, BusyLoop, PsramNeeded
<1>3. /\ binary.engine \in {"tflm", "aot", "et"} /\ binary.power \in BOOLEAN
      /\ binary.engine = "et" => ~binary.power
      /\ ~binary.power => binary.monitor = "none"
      /\ GatesDebug \in BOOLEAN
  BY <1>1, BuildFacts DEF GatesDebug, OwnWindow, HasPmu
<1> USE <1>1, <1>2, <1>3 DEF FirmwareSoFar, HardwareSoFar, ClockIsReadable, BringUp, GateUp,
      Afterwards, WindowAhead, FwStopped, NoRead, ReadsDwt, Go
<1>4. CASE Boot
  <2>1. CASE fwPc' = "preamble"
    <3>1. hw' = [hw EXCEPT !.users = IF binary.power THEN 0 ELSE 1] /\ deadRead' = deadRead /\ fwPc = "boot"
      BY <1>4, <2>1 DEF Boot, LinkUsersAtBoot, PowerFail
    <3> QED
      BY <2>1, <3>1
  <2>2. CASE fwPc' = "done"
    <3>1. hw' = [hw EXCEPT !.gate = FALSE] /\ deadRead' = deadRead
      BY <1>4, <2>2 DEF Boot, PowerFail
    <3> QED
      BY <2>2, <3>1
  <2> QED
    BY <1>4, <2>1, <2>2 DEF Boot, PowerFail
<1>5. CASE Preamble
  BY <1>5 DEF Preamble
<1>6. CASE PsramInit
  BY <1>6 DEF PsramInit, Fail, PowerFail
<1>7. CASE Header
  BY <1>7 DEF Header
<1>8. CASE ModelSetup
  BY <1>8 DEF ModelSetup, Fail, PowerFail
<1>9. CASE ClockReport
  BY <1>9 DEF ClockReport
<1>10. CASE RateClock
  <2>1. hw' = [hw EXCEPT !.armed = FALSE] /\ fwPc = "measure" /\ fwPc' = "warm"
    BY <1>10 DEF RateClock, ProfilerOff
  <2>2. deadRead' = deadRead \/ (~binary.power /\ deadRead' = (deadRead \/ ~hw.debug))
    BY <1>10, WindowTimers DEF RateClock, RateProbe
  <2>3. ~deadRead'
    BY <2>1, <2>2
  <2>4. HardwareSoFar'
    BY <2>1
  <2> QED
    BY <2>3, <2>4
<1>11. CASE Warm
  <2>1. hw' = hw /\ fwPc = "warm" /\ fwPc' \in {"warm", "announce", "parked"}
        /\ (fwPc' = "parked" => binary.engine = "et")
    BY <1>11 DEF Warm, InvokeFails
  <2>2. meter.left > 0 => ~binary.power
    BY <2>1 DEF MeterSoFar, DwtWindow
  <2>3. deadRead' = deadRead \/ (~binary.power /\ deadRead' = (deadRead \/ ~hw.debug))
    BY <1>11, <2>2 DEF Warm, InvokeFails, WarmReads
  <2> QED
    BY <2>1, <2>3
<1>12. CASE Announce
  BY <1>12 DEF Announce, PowerFail
<1>13. CASE Quiesce
  BY <1>13 DEF Quiesce
<1>14. CASE OpenWindow
  <2>1. fwPc = "open" /\ deadRead' = deadRead
    BY <1>14 DEF OpenWindow
  <2>2. CASE hw' = OpenGate /\ fwPc' \in {"window", "hung"}
    BY <2>1, <2>2 DEF OpenGate
  <2>3. CASE hw' = [hw EXCEPT !.gate = FALSE] /\ fwPc' = "done"
    BY <2>1, <2>3
  <2> QED
    BY <1>14, <2>2, <2>3 DEF OpenWindow, MonitorFails, PowerFail, Given
<1>15. CASE MeasuredWindow
  <2>1. hw' = hw /\ fwPc = "window" /\ fwPc' \in {"window", "close", "hung", "parked"}
        /\ (fwPc' = "parked" => binary.engine = "et")
    BY <1>15 DEF MeasuredWindow, InvokeFails, Given
  <2>2. WindowReads => ~binary.power /\ ~GatesDebug
    BY <2>1, WindowTimers DEF WindowReads, Profiled, GatesDebug, OwnWindow
  <2>3. deadRead' = deadRead \/ (WindowReads /\ deadRead' = (deadRead \/ ~hw.debug))
    BY <1>15 DEF MeasuredWindow
  <2> QED
    BY <2>1, <2>2, <2>3
<1>16. CASE CloseWindow
  <2>1. fwPc = "close" /\ deadRead' = deadRead
    BY <1>16 DEF CloseWindow
  <2>2. CASE hw' = Restored /\ fwPc' = "report"
    <3>1. hw' = [debug |-> hw.debug \/ GatesDebug, users |-> 1, gate |-> FALSE,
                 armed |-> binary.engine = "tflm", hook |-> TRUE]
      BY <2>2 DEF Restored, BackUp
    <3>2. ~binary.power => hw.debug \/ GatesDebug
      BY <2>1
    <3>3. (hw.debug \/ GatesDebug) \in BOOLEAN /\ (binary.engine = "tflm") \in BOOLEAN
      OBVIOUS
    <3> QED
      BY <2>1, <2>2, <3>1, <3>2, <3>3
  <2>3. CASE hw' = [hw EXCEPT !.gate = FALSE] /\ fwPc' \in {"report", "done"} /\ binary.power
    BY <2>1, <2>3
  <2> QED
    BY <1>16, <2>2, <2>3 DEF CloseWindow, MonitorFails, PowerFail
<1>17. CASE ReportWindow
  BY <1>17 DEF ReportWindow
<1>18. CASE PassBegin
  BY <1>18 DEF PassBegin, InvokeFails
<1>19. CASE Iterate
  BY <1>19 DEF Iterate, InvokeFails
<1>20. CASE Finish
  BY <1>20 DEF Finish
<1> QED
  BY <1>4, <1>5, <1>6, <1>7, <1>8, <1>9, <1>10, <1>11, <1>12, <1>13, <1>14, <1>15, <1>16, <1>17,
     <1>18, <1>19, <1>20 DEF FwNext

\* A line put on the wire while the link is on and the gate down is not muted.
LEMMA Spoken ==
  ASSUME FirmwareSoFar, NEW lines, Say(lines),
         ~binary.power => lines \subseteq MayPrint(binary),
         ~binary.power => fwPc \in BringUp \cup Afterwards \/ lines \subseteq Tolerated
  PROVE  /\ printed' \subseteq MayPrint(binary) /\ muted' \subseteq Tolerated \cap printed'
         /\ printed \subseteq printed' /\ muted \subseteq muted'
         /\ ~binary.power => lines \subseteq printed'
<1>1. CASE binary.power
  BY <1>1 DEF FirmwareSoFar, WireSoFar, Say
<1>2. CASE ~binary.power /\ fwPc \in BringUp \cup Afterwards
  <2>1. ~hw.gate /\ ~LinkOff
    BY <1>2 DEF FirmwareSoFar, HardwareSoFar, LinkOff
  <2>2. printed' = printed \cup lines /\ muted' = muted
    BY <1>2, <2>1 DEF Say
  <2> QED
    BY <1>2, <2>2 DEF FirmwareSoFar, WireSoFar
<1>3. CASE ~binary.power /\ lines \subseteq Tolerated
  <2>1. printed' = printed \cup lines /\ muted' \in {muted, muted \cup lines}
    BY <1>3 DEF Say
  <2> QED
    BY <1>3, <2>1 DEF FirmwareSoFar, WireSoFar
<1> QED
  BY <1>1, <1>2, <1>3

\* The failure of a power binary is a terminal record, which is never muted.
LEMMA Reported ==
  ASSUME FirmwareSoFar, NEW ok \in BOOLEAN, TerminalReport(ok), binary.power
  PROVE  /\ printed' \subseteq MayPrint(binary) /\ muted' \subseteq Tolerated \cap printed'
         /\ printed \subseteq printed' /\ TerminalLines(ok) \subseteq printed'
<1>1. TerminalLines(ok) \subseteq MayPrint(binary)
  BY TerminalMayPrint DEF FirmwareSoFar, WireSoFar
<1>2. printed' = printed \cup TerminalLines(ok) /\ muted' = muted
  BY DEF TerminalReport
<1> QED
  BY <1>1, <1>2 DEF FirmwareSoFar, WireSoFar

LEMMA Kept ==
  ASSUME FirmwareSoFar, UNCHANGED <<printed, muted>>
  PROVE  /\ printed' \subseteq MayPrint(binary) /\ muted' \subseteq Tolerated \cap printed'
         /\ printed \subseteq printed'
BY DEF FirmwareSoFar, WireSoFar

\* What is said at each step, besides what is reported or kept.
Safely == /\ printed' \subseteq MayPrint(binary) /\ muted' \subseteq Tolerated \cap printed'
          /\ printed \subseteq printed'

LEMMA PowerFailsSafely ==
  ASSUME FirmwareSoFar, PowerFail
  PROVE  Safely /\ fwPc' = "done" /\ binary.power /\ TerminalLines(FALSE) \subseteq printed'
BY Reported DEF PowerFail, Safely

LEMMA FailsSafely ==
  ASSUME FirmwareSoFar, NEW lines, Fail(lines), fwPc \in BringUp,
         ~binary.power => lines \subseteq MayPrint(binary)
  PROVE  Safely /\ fwPc' # "hung"
<1>1. CASE PowerFail
  BY <1>1, PowerFailsSafely
<1>2. CASE ~binary.power /\ Say(lines) /\ fwPc' = "parked"
  BY <1>2, Spoken DEF Safely
<1> QED
  BY <1>1, <1>2 DEF Fail

LEMMA InvokeFailsSafely ==
  ASSUME FirmwareSoFar, InvokeFails
  PROVE  Safely /\ fwPc' = "parked" /\ ~binary.power
<1>1. binary.engine = "et" /\ ~binary.power /\ binary \in FwBuilds
  BY BuildFacts DEF InvokeFails, FirmwareSoFar
<1>2. {ErrorLine("executorch")} \subseteq MayPrint(binary)
  BY <1>1, FaultsMayPrint DEF Profile
<1>3. {ErrorLine("executorch")} \subseteq Tolerated
  BY DEF Tolerated
<1> QED
  BY <1>1, <1>2, <1>3, Spoken DEF InvokeFails, Safely

LEMMA InvokesSafely ==
  ASSUME FirmwareSoFar, NEW lines, Invoke(lines),
         ~binary.power => lines \subseteq MayPrint(binary),
         ~binary.power => fwPc \in BringUp \cup Afterwards \/ (lines
                                                                \subseteq Tolerated /\ ~hw.armed)
  PROVE  /\ Safely /\ muted \subseteq muted' 
         /\ ~binary.power => lines \subseteq printed'
<1>1. PICK beat \in (IF Profiled THEN SUBSET {Heartbeat("infer")} ELSE {{}}) : Say(lines \cup beat)
  BY DEF Invoke
<1>2. ~binary.power => {Heartbeat("infer")} \subseteq MayPrint(binary)
  BY RunLinesMayPrint DEF FirmwareSoFar, Profile
<1>3. ~binary.power => lines \cup beat \subseteq MayPrint(binary)
  BY <1>1, <1>2
<1>4. ~hw.armed => beat = {}
  BY <1>1 DEF Profiled
<1>5. ~binary.power => fwPc \in BringUp \cup Afterwards \/ lines \cup beat \subseteq Tolerated
  BY <1>4
<1> QED
  BY <1>1, <1>3, <1>5, Spoken DEF Safely

\* The monitor's state after each of its steps.
LEMMA MonitorStays ==
  ASSUME FirmwareSoFar, ina' \in {ina} \cup MonitorSetup \cup MonitorArmed \cup MonitorRead
  PROVE  ina' \in {"none", "active", "dropped",
        "read"} /\ (binary.monitor = "none" => ina' = "none")
<1>1. binary.monitor \in {"none", "required", "bystander"}
  BY BuildFacts DEF FirmwareSoFar
<1>2. ina \in {"none", "active", "dropped", "read"} /\ (binary.monitor = "none" => ina = "none")
  BY DEF FirmwareSoFar, WireSoFar
<1>3. /\ MonitorSetup \subseteq {"none", "active", "dropped"}
      /\ binary.monitor = "none" => MonitorSetup = {"none"}
  BY <1>1 DEF MonitorSetup
<1>4. /\ MonitorArmed \subseteq {ina, "dropped"}
      /\ binary.monitor = "none" => MonitorArmed = {ina}
  BY <1>2 DEF MonitorArmed, Given
<1>5. /\ MonitorRead \subseteq {ina, "read", "dropped"}
      /\ binary.monitor = "none" => MonitorRead = {ina}
  BY <1>2 DEF MonitorRead, Given
<1> QED
  BY <1>2, <1>3, <1>4, <1>5

LEMMA MonitorStep ==
  ASSUME FirmwareSoFar, FwNext
  PROVE  ina' \in {"none", "active", "dropped",
        "read"} /\ (binary.monitor = "none" => ina' = "none")
<1>1. CASE Boot
  BY <1>1, MonitorStays DEF Boot
<1>2. CASE OpenWindow
  BY <1>2, MonitorStays DEF OpenWindow, MonitorFails
<1>3. CASE CloseWindow
  BY <1>3, MonitorStays DEF CloseWindow, MonitorFails
<1>4. CASE UNCHANGED ina
  BY <1>4, MonitorStays
<1> QED
  BY <1>1, <1>2, <1>3, <1>4 DEF FwNext, Preamble, PsramInit, Header, ModelSetup, ClockReport,
     RateClock, Warm, Announce, Quiesce, MeasuredWindow, ReportWindow, PassBegin, Iterate, Finish

\* A set-up that stops after n steps has printed lines of those steps.
LEMMA SetupSays ==
  ASSUME FirmwareSoFar, ~binary.power
  PROVE  /\ LinesOf(Setup) = UNION {Setup[i].ok : i \in 1..Len(Setup)}
         /\ LinesOf(Setup) \subseteq MayPrint(binary)
         /\ \A n \in DOMAIN Setup : \A fault \in Setup[n].faults :
              (UNION {Setup[i].ok : i \in 1..n - 1}) \cup fault \subseteq MayPrint(binary)
<1> DEFINE M == MayPrint(binary)
<1>1. Setup \in Seq(StepsOf(M))
  BY SetupMayPrint DEF FirmwareSoFar, Profile
<1> HIDE DEF M
<1>2. DOMAIN Setup = 1..Len(Setup) /\ Len(Setup) \in Nat
      /\ \A i \in 1..Len(Setup) : Setup[i] \in StepsOf(M)
  BY <1>1
<1>3. \A i \in 1..Len(Setup) : Setup[i].ok \subseteq M /\ Setup[i].faults \subseteq SUBSET M
  BY <1>2 DEF StepsOf
<1>4. ASSUME NEW n \in DOMAIN Setup, NEW fault \in Setup[n].faults
      PROVE  (UNION {Setup[i].ok : i \in 1..n - 1}) \cup fault \subseteq M
  <2>1. n \in 1..Len(Setup) /\ fault \subseteq M
    BY <1>2, <1>3
  <2>2. \A i \in 1..n - 1 : i \in 1..Len(Setup)
    BY <1>2, <2>1
  <2>3. \A i \in 1..n - 1 : Setup[i].ok \subseteq M
    BY <1>3, <2>2
  <2>4. UNION {Setup[i].ok : i \in 1..n - 1} \subseteq M
    BY <2>3
  <2> QED
    BY <2>1, <2>4
<1> QED
  BY <1>2, <1>3, <1>4 DEF M, LinesOf

LEMMA SafeBringUp ==
  ASSUME FirmwareSoFar, Boot \/ Preamble \/ PsramInit \/ Header \/ ModelSetup \/ ClockReport
  PROVE  Safely /\ fwPc' # "hung"
<1> DEFINE M == MayPrint(binary)
<1>0. ~binary.power => Profile
  BY DEF FirmwareSoFar, Profile
<1>1. CASE Boot
  <2>1. CASE PowerFail
    BY <2>1, PowerFailsSafely
  <2>2. CASE Silent /\ fwPc' = "preamble"
    BY <2>2, Kept DEF Silent, Safely
  <2> QED
    BY <1>1, <2>1, <2>2 DEF Boot
<1>2. CASE Preamble
  <2>1. fwPc \in BringUp /\ fwPc' # "hung"
    BY <1>2 DEF Preamble, Go, BringUp
  <2>2. ~binary.power => (IF binary.link = "usb" THEN {} ELSE {Key("READY")}) \subseteq M
    BY <1>0, RunLinesMayPrint
  <2> HIDE DEF M
  <2> QED
    BY <1>2, <2>1, <2>2, Spoken DEF Preamble, Safely, M
<1>3. CASE PsramInit
  <2>1. fwPc \in BringUp /\ binary.engine = "tflm" /\ PsramNeeded(binary)
    BY <1>3 DEF PsramInit, BringUp, FirmwareSoFar, HardwareSoFar
  <2>2. ~binary.power => /\ Given(Has("arena"), {Key("PSRAM_ARENA")})
                              \cup Given(Has("weights"), {Key("PSRAM_READY")}) \subseteq M
                         /\ PsramFaults \subseteq M
    BY <1>0, <2>1, FaultsMayPrint DEF Given
  <2>3. CASE /\ fwPc' = "header"
             /\ Say(Given(Has("arena"), {Key("PSRAM_ARENA")})
                      \cup Given(Has("weights"), {Key("PSRAM_READY")}))
    <3> HIDE DEF M
    <3> QED
      BY <2>1, <2>2, <2>3, Spoken DEF Safely, M
  <2>4. ASSUME NEW fault \in PsramFaults, Fail({fault}) PROVE Safely /\ fwPc' # "hung"
    <3>1. ~binary.power => {fault} \subseteq M
      BY <2>2
    <3> HIDE DEF M
    <3> QED
      BY <2>1, <2>4, <3>1, FailsSafely DEF M
  <2> QED
    BY <1>3, <2>3, <2>4 DEF PsramInit
<1>4. CASE Header
  <2>1. fwPc \in BringUp /\ fwPc' # "hung"
    BY <1>4 DEF Header, Go, BringUp
  <2>2. PICK sync \in SUBSET {Key("SYNC_GPIO")} : Say(HeaderLines \cup sync \cup HeartbeatArm)
    BY <1>4 DEF Header
  <2>3. ~binary.power => HeaderLines \cup sync \cup HeartbeatArm \subseteq M
    BY <1>0, <2>2, HeaderMayPrint
  <2> HIDE DEF M
  <2> QED
    BY <2>1, <2>2, <2>3, Spoken DEF Safely, M
<1>5. CASE ModelSetup
  <2> DEFINE upTo(n) == UNION {Setup[i].ok : i \in 1..n}
  <2>1. fwPc \in BringUp
    BY <1>5 DEF ModelSetup, BringUp
  <2>2. ASSUME NEW warn, warn = {} \/ (binary.engine = "tflm"
                               /\ warn \subseteq {<<"WARN", "unusual_dtype">>}),
               Say(upTo(Len(Setup)) \cup warn), fwPc' = "clock"
        PROVE  Safely /\ fwPc' # "hung"
    <3>1. ~binary.power => upTo(Len(Setup)) \subseteq M
      BY SetupSays
    <3>2. ~binary.power => warn \subseteq M
      BY <1>0, <2>2, FaultsMayPrint
    <3> HIDE DEF M, upTo
    <3>3. ~binary.power => upTo(Len(Setup)) \cup warn \subseteq M
      BY <3>1, <3>2
    <3> QED
      BY <2>1, <2>2, <3>3, Spoken DEF Safely, M
  <2>3. ASSUME NEW n \in DOMAIN Setup, NEW fault \in Setup[n].faults, Fail(upTo(n - 1) \cup fault)
        PROVE  Safely /\ fwPc' # "hung"
    <3>1. ~binary.power => upTo(n - 1) \cup fault \subseteq M
      BY SetupSays
    <3> HIDE DEF M, upTo
    <3> QED
      BY <2>1, <2>3, <3>1, FailsSafely DEF M
  <2> HIDE DEF upTo
  <2>4. \/ \E warn : /\ warn = {} \/ (binary.engine = "tflm"
                               /\ warn \subseteq {<<"WARN", "unusual_dtype">>})
                     /\ Say(upTo(Len(Setup)) \cup warn) /\ fwPc' = "clock"
        \/ \E n \in DOMAIN Setup : \E fault \in Setup[n].faults : Fail(upTo(n - 1) \cup fault)
    BY <1>5 DEF ModelSetup, upTo
  <2> QED
    BY <2>2, <2>3, <2>4
<1>6. CASE ClockReport
  <2>1. fwPc \in BringUp /\ fwPc' # "hung"
    BY <1>6 DEF ClockReport, Go, BringUp
  <2>2. \/ StimerWindow(binary) /\ ~binary.power /\ Say(ClockLines \cup {Key("MEASURED_CLOCK_HZ")})
        \/ Say(ClockLines)
    BY <1>6 DEF ClockReport
  <2>3. ~binary.power => /\ ClockLines \subseteq M
                         /\ StimerWindow(binary) => ClockLines \cup {Key("MEASURED_CLOCK_HZ")} \subseteq M
    BY <1>0, RunLinesMayPrint
  <2> HIDE DEF M
  <2>4. CASE StimerWindow(binary) /\ ~binary.power /\ Say(ClockLines \cup {Key("MEASURED_CLOCK_HZ")})
    BY <2>1, <2>3, <2>4, Spoken DEF Safely, M
  <2>5. CASE Say(ClockLines)
    BY <2>1, <2>3, <2>5, Spoken DEF Safely, M
  <2> QED
    BY <2>1, <2>2, <2>4, <2>5
<1> QED
  BY <1>1, <1>2, <1>3, <1>4, <1>5, <1>6

LEMMA SafeWarmup ==
  ASSUME FirmwareSoFar, RateClock \/ Warm \/ Announce \/ Quiesce
  PROVE  Safely /\ fwPc' # "hung"
<1>0. ~binary.power => Profile
  BY DEF FirmwareSoFar, Profile
<1>1. CASE RateClock
  BY <1>1, Kept DEF RateClock, Silent, Safely, Go
<1>2. CASE Warm
  <2>1. CASE InvokeFails
    BY <2>1, InvokeFailsSafely
  <2>2. CASE Invoke({}) /\ fwPc' \in {"warm", "announce"}
    <3>1. fwPc \in BringUp
      BY <1>2 DEF Warm, BringUp
    <3> QED
      BY <2>2, <3>1, InvokesSafely
  <2> QED
    BY <1>2, <2>1, <2>2 DEF Warm
<1>3. CASE Announce
  <2>1. fwPc \in BringUp
    BY <1>3 DEF Announce, BringUp
  <2>2. CASE PowerFail
    BY <2>2, PowerFailsSafely
  <2>3. CASE Say({Heartbeat("clean_window_begin")}) /\ fwPc' = "quiesce"
    <3>1. ~binary.power => {Heartbeat("clean_window_begin")} \subseteq MayPrint(binary)
      BY <1>0, RunLinesMayPrint
    <3> QED
      BY <2>1, <2>3, <3>1, Spoken DEF Safely
  <2>4. CASE /\ BusyLoop(binary) /\ ~binary.power /\ fwPc' = "quiesce"
             /\ Say({Heartbeat("clean_window_begin"), ErrorLine("stimer_dead")})
    <3>1. StimerWindow(binary) /\ ~OwnWindow
      BY <2>4, WindowTimers DEF FirmwareSoFar, OwnWindow
    <3>2. {Heartbeat("clean_window_begin"), ErrorLine("stimer_dead")} \subseteq MayPrint(binary)
      BY <1>0, <2>4, <3>1, RunLinesMayPrint, FaultsMayPrint
    <3> QED
      BY <2>1, <2>4, <3>2, Spoken DEF Safely
  <2> QED
    BY <1>3, <2>2, <2>3, <2>4 DEF Announce
<1>4. CASE Quiesce
  <2>1. Safely
    BY <1>4, Kept DEF Quiesce, Silent, Safely
  <2>2. ~binary.power => hw.users = 1
    BY <1>4 DEF Quiesce, FirmwareSoFar, HardwareSoFar, BringUp
  <2> QED
    BY <1>4, <2>1, <2>2 DEF Quiesce
<1> QED
  BY <1>1, <1>2, <1>3, <1>4

\* A trace port that is off and without power is a profile binary's.
LEMMA HangsUnheard ==
  ASSUME FirmwareSoFar, MayHang
  PROVE  ~binary.power /\ LinkOff
BY BuildFacts DEF FirmwareSoFar, MayHang, LinkOff

LEMMA SafeWindow ==
  ASSUME FirmwareSoFar, OpenWindow \/ MeasuredWindow \/ CloseWindow \/ ReportWindow
  PROVE  Safely /\ (fwPc' = "hung" => muted' # {})
<1>0. ~binary.power => Profile
  BY DEF FirmwareSoFar, Profile
<1>1. CASE OpenWindow
  <2>1. CASE PowerFail
    BY <2>1, PowerFailsSafely
  <2>2. CASE Silent /\ fwPc' = "window"
    BY <2>2, Kept DEF Silent, Safely
  <2>3. CASE /\ StimerDead /\ ~binary.power /\ Say({ErrorLine("stimer_dead")})
             /\ fwPc' \in {"window"} \cup Given(MayHang, {"hung"})
    <3>1. {ErrorLine("stimer_dead")} \subseteq MayPrint(binary)
      BY <1>0, <2>3, FaultsMayPrint DEF StimerDead
    <3>2. {ErrorLine("stimer_dead")} \subseteq Tolerated
      BY <2>3 DEF StimerDead, Tolerated, Given
    <3>3. Safely
      BY <2>3, <3>1, <3>2, Spoken DEF Safely
    <3>4. fwPc' = "hung" => MayHang
      BY <2>3 DEF Given
    <3>5. MayHang => muted' # {}
      BY <2>3, HangsUnheard DEF Say
    <3> QED
      BY <3>3, <3>4, <3>5
  <2> QED
    BY <1>1, <2>1, <2>2, <2>3 DEF OpenWindow, MonitorFails
<1>2. CASE MeasuredWindow
  <2>1. fwPc = "window" /\ ~hw.armed
    BY <1>2 DEF MeasuredWindow, FirmwareSoFar, HardwareSoFar, GateUp, WindowAhead
  <2>2. ~binary.power => WindowLines \subseteq MayPrint(binary) /\ WindowLines \subseteq Tolerated
    BY <1>0, RunLinesMayPrint DEF Tolerated
  <2>3. CASE InvokeFails
    BY <2>3, InvokeFailsSafely
  <2>4. CASE /\ IF RunsModel THEN Invoke(WindowLines) ELSE Say(WindowLines)
             /\ fwPc' \in (IF meter.left > 1 THEN {"window"} ELSE {"close"})
                           \cup Given(MayHang /\ WindowLines # {}, {"hung"})
    <3>1. Safely
      BY <2>1, <2>2, <2>4, Spoken, InvokesSafely DEF Safely
    <3>2. fwPc' = "hung" => MayHang /\ WindowLines # {}
      BY <2>4 DEF Given
    <3>3. CASE MayHang /\ WindowLines # {}
      <4>1. ~binary.power /\ LinkOff
        BY <3>3, HangsUnheard
      <4>2. Say(WindowLines) => muted' # {}
        BY <3>3, <4>1 DEF Say
      <4>3. \A beat : Say(WindowLines \cup beat) => muted' # {}
        BY <3>3, <4>1 DEF Say
      <4>4. Invoke(WindowLines) => muted' # {}
        BY <4>3 DEF Invoke
      <4> QED
        BY <2>4, <3>1, <4>2, <4>4
    <3> QED
      BY <3>1, <3>2, <3>3
  <2> QED
    BY <1>2, <2>3, <2>4 DEF MeasuredWindow
<1>3. CASE CloseWindow
  <2>1. CASE PowerFail
    BY <2>1, PowerFailsSafely
  <2>2. CASE Silent /\ fwPc' = "report"
    BY <2>2, Kept DEF Silent, Safely
  <2> QED
    BY <1>3, <2>1, <2>2 DEF CloseWindow, MonitorFails
<1>4. CASE ReportWindow
  <2>1. fwPc \in Afterwards
    BY <1>4 DEF ReportWindow, Afterwards
  <2>2. CASE binary.power /\ TerminalReport(TRUE) /\ fwPc' = "done"
    BY <2>2, Reported DEF Safely
  <2>3. CASE ~binary.power /\ Say(CleanLines) /\ fwPc' = "passes"
    <3>1. CleanLines \subseteq MayPrint(binary)
      BY <1>0, <2>3, RunLinesMayPrint
    <3> QED
      BY <2>1, <2>3, <3>1, Spoken DEF Safely
  <2> QED
    BY <1>4, <2>2, <2>3 DEF ReportWindow
<1> QED
  BY <1>1, <1>2, <1>3, <1>4

LEMMA SafePasses ==
  ASSUME FirmwareSoFar, PassBegin \/ Iterate \/ Finish
  PROVE  Safely /\ fwPc' # "hung"
<1> DEFINE M == MayPrint(binary)
<1>0. fwPc \in Afterwards /\ Profile
  BY DEF PassBegin, Iterate, Finish, Go, Afterwards, FirmwareSoFar, HardwareSoFar, Profile
<1>1. PassLines \cup PmuLines \cup {Sentinel("ITER"), Sentinel("END")} \subseteq M
      /\ {Sentinel("PRESET")} \subseteq PassLines
  BY <1>0, PassLinesMayPrint DEF PassLines
<1>2. CASE PassBegin
  <2>1. PICK test \in SelfTests :
          \/ Invoke(PassLines \cup PmuLines \cup test) /\ fwPc' = "iterate"
          \/ binary.engine = "et" /\ fwPc' = "parked"
             /\ Say({Sentinel("PRESET")} \cup PmuLines \cup test
                      \cup ErrorLines({"pmu_init_or_selftest_failed"}))
          \/ InvokeFails
    BY <1>2 DEF PassBegin
  <2>2. test \subseteq M
    BY <1>0, <2>1, PassLinesMayPrint
  <2>3. CASE Invoke(PassLines \cup PmuLines \cup test) /\ fwPc' = "iterate"
    <3>1. PassLines \cup PmuLines \cup test \subseteq M
      BY <1>1, <2>2
    <3> HIDE DEF M
    <3> QED
      BY <1>0, <2>3, <3>1, InvokesSafely DEF M
  <2>4. CASE /\ binary.engine = "et" /\ fwPc' = "parked"
             /\ Say({Sentinel("PRESET")} \cup PmuLines \cup test
                      \cup ErrorLines({"pmu_init_or_selftest_failed"}))
    <3>1. ErrorLines({"pmu_init_or_selftest_failed"}) \subseteq M
      BY <1>0, <2>4, FaultsMayPrint
    <3> DEFINE lines == {Sentinel("PRESET")} \cup PmuLines \cup test
                          \cup ErrorLines({"pmu_init_or_selftest_failed"})
    <3> HIDE DEF M
    <3>2. lines \subseteq M
      BY <1>1, <2>2, <3>1
    <3>3. Say(lines) /\ fwPc' = "parked"
      BY <2>4
    <3> HIDE DEF lines
    <3> QED
      BY <1>0, <3>2, <3>3, Spoken DEF Safely, M
  <2> QED
    BY <2>1, <2>3, <2>4, InvokeFailsSafely
<1>3. CASE Iterate
  <2>1. CASE Invoke({Sentinel("ITER")}) /\ fwPc' \in {"passes", "end"}
    <3>1. {Sentinel("ITER")} \subseteq M
      BY <1>1
    <3> HIDE DEF M
    <3> QED
      BY <1>0, <2>1, <3>1, InvokesSafely DEF M
  <2>2. CASE Invoke({Sentinel("ITER"), ErrorLine("operator_count_exceeds_capacity")}) /\ fwPc' = "parked"
    <3>1. {Sentinel("ITER"), ErrorLine("operator_count_exceeds_capacity")} \subseteq M
      BY <1>0, <1>1, FaultsMayPrint
    <3> HIDE DEF M
    <3> QED
      BY <1>0, <2>2, <3>1, InvokesSafely DEF M
  <2> QED
    BY <1>3, <2>1, <2>2, InvokeFailsSafely DEF Iterate
<1>4. CASE Finish
  <2> DEFINE lines == ProfiledLines \cup {Sentinel("END")}
                        \cup Given(binary.link = "rtt", {Heartbeat("flushing")})
  <2>1. lines \subseteq M
    BY <1>0, <1>1, PassLinesMayPrint DEF Given
  <2>2. Say(lines) /\ fwPc' = "done"
    BY <1>4 DEF Finish, Go
  <2> HIDE DEF M, lines
  <2> QED
    BY <1>0, <2>1, <2>2, Spoken DEF Safely, M
<1> QED
  BY <1>2, <1>3, <1>4

LEMMA WireStep ==
  ASSUME FirmwareSoFar, FwNext
  PROVE  WireSoFar' /\ printed \subseteq printed'
<1>1. Safely /\ (fwPc' = "hung" => muted' # {})
  BY SafeBringUp, SafeWarmup, SafeWindow, SafePasses DEF FwNext
<1>2. binary' = binary
  BY BinaryStays
<1>3. Tolerated' = Tolerated
  BY <1>2 DEF Tolerated, WindowLines, Has
<1>4. MayPrint(binary)' = MayPrint(binary)
  BY <1>2
<1>5. ina' \in {"none", "active", "dropped", "read"} /\ (binary'.monitor = "none" => ina' = "none")
  BY <1>2, MonitorStep
<1> QED
  BY <1>1, <1>3, <1>4, <1>5 DEF WireSoFar, Safely

\* What an interval can read, and what a spell's kind is.
LEMMA Readings ==
  ASSUME NEW from \in 0..2, NEW to \in from..2, NEW kind \in {"frozen", "slow"}
  PROVE  /\ from = 1 /\ to = 1 /\ kind = "frozen" => Reading(from, to, kind) = 0
         /\ from = 1 /\ to = 1 /\ kind = "slow" => Reading(from, to, kind) = 2
         /\ from = to /\ from # 1 => Reading(from, to, kind) = 256
         /\ from # to => Reading(from, to, kind) = 128
         /\ Reading(from, to, kind) \in {0, 2, 128, 256}
<1>1. Whole = 256 /\ Whole \div 2 = 128
  BY DEF Whole
<1>2. Stalled["frozen"] = 0 /\ Stalled["slow"] = 2
  BY DEF Stalled
<1>3. from \in {0, 1, 2} /\ to \in {0, 1, 2}
  OBVIOUS
<1> QED
  BY <1>1, <1>2, <1>3 DEF Reading

LEMMA MeterOf ==
  ASSUME NEW stall \in 0..2, NEW kind \in {"none", "frozen", "slow"}, NEW rateOk \in BOOLEAN,
         NEW warmMin \in Nat, NEW zeros \in BOOLEAN, NEW partials \in BOOLEAN,
         NEW slept \in BOOLEAN, NEW left \in 0..2
  PROVE  [stall |-> stall, kind |-> kind, rateOk |-> rateOk, warmMin |-> warmMin, zeros |-> zeros,
          partials |-> partials, lost |-> slept, left |-> left] \in Meters
BY DEF Meters

LEMMA SpellOf ==
  ASSUME NEW m, m.stall \in 0..2, m.kind \in {"none", "frozen", "slow"}, NEW s \in Spells(m)
  PROVE  /\ s.stall \in m.stall..2 /\ s.stall \in 0..2 /\ s.kind \in {"frozen", "slow"}
         /\ m.kind # "none" => s.kind = m.kind
BY DEF Spells

LEMMA MeterFromRate ==
  ASSUME FirmwareSoFar, RateClock
  PROVE  /\ meter' \in Meters
         /\ meter'.left > 0 => DwtWindow
         /\ DwtWindow => /\ meter'.kind = "none" <=> meter'.stall = 0
                         /\ meter'.stall = 0 => meter'.rateOk
                         /\ ~meter'.zeros /\ ~meter'.partials /\ ~meter'.lost
                         /\ meter'.left = 2 /\ meter'.warmMin = 0
<1>1. meter = FreshMeter /\ fwPc = "measure"
  BY DEF RateClock, Go, FirmwareSoFar, MeterSoFar, FwStopped, WindowAhead, GateUp
<1>2. CASE UNCHANGED meter /\ ~DwtWindow
  BY <1>1, <1>2 DEF FreshMeter, Meters
<1>3. CASE RateProbe
  <2>1. DwtWindow
    BY <1>3 DEF RateProbe, DwtWindow
  <2> DEFINE rested == [FreshMeter EXCEPT !.stall = 0]
  <2>2. rested.stall = 0 /\ rested.kind = "none"
    BY DEF FreshMeter
  <2> HIDE DEF rested
  <2>3. PICK begin \in 0..1, s \in Spells(rested) :
          /\ s.stall >= begin
          /\ meter' = [meter EXCEPT !.stall = s.stall,
                !.kind = IF s.stall = 0 THEN "none" ELSE s.kind,
                                    !.rateOk = 2 * Reading(begin, s.stall, s.kind) >= Whole,
                                    !.left = 2]
    BY <1>3, Zenon DEF RateProbe, rested
  <2>4. s.stall \in 0..2 /\ s.kind \in {"frozen", "slow"}
    BY <2>2, SpellOf
  <2> DEFINE ok == 2 * Reading(begin, s.stall, s.kind) >= Whole
             kind == IF s.stall = 0 THEN "none" ELSE s.kind
  <2>5. ok \in BOOLEAN
    OBVIOUS
  <2>6. s.stall = 0 => ok
    <3>1. s.stall = 0 => begin = 0
      BY <2>3, <2>4
    <3>2. Reading(0, 0, s.kind) = 256
      BY <2>4, Readings
    <3> QED
      BY <3>1, <3>2 DEF Whole
  <2>7. meter' = [stall |-> s.stall, kind |-> kind, rateOk |-> ok, warmMin |-> 0, zeros |-> FALSE,
                  partials |-> FALSE, lost |-> FALSE, left |-> 2]
    BY <1>1, <2>3 DEF FreshMeter
  <2> HIDE DEF ok
  <2> QED
    BY <2>1, <2>4, <2>5, <2>6, <2>7 DEF Meters
<1> QED
  BY <1>2, <1>3, WindowTimers DEF RateClock, DwtWindow, FirmwareSoFar

WarmMeter(m, s, v) ==
  [m EXCEPT !.stall = s.stall, !.left = @ - 1, !.kind = IF s.stall = 0 THEN "none" ELSE s.kind,
            !.warmMin = Lowest(@, v)]

\* One warm-up reading: what it can be, and what is the lowest then.
LEMMA MeterFromWarm ==
  ASSUME FirmwareSoFar, fwPc = "warm", DwtWindow,
         NEW s \in Spells(meter), NEW v,
         v \in (IF Reading(meter.stall, s.stall, s.kind) = Whole /\ meter.left = 2 THEN {Whole,
               Cold}
                ELSE {Reading(meter.stall, s.stall, s.kind)}),
         meter' = WarmMeter(meter, s, v)
  PROVE  /\ meter' \in Meters /\ meter'.left = meter.left - 1
         /\ meter'.kind = "none" <=> meter'.stall = 0
         /\ meter'.stall = 0 => meter'.rateOk
         /\ ~meter'.zeros /\ ~meter'.partials /\ ~meter'.lost
         /\ meter'.stall = 1 => Telltale'
         /\ meter.left = 2 /\ meter'.stall = 0 => meter'.warmMin \in {Whole, Cold}
         /\ meter.left = 1 /\ meter'.stall = 0 => meter'.warmMin = Whole
<1>1. /\ meter \in Meters /\ meter.left \in {1, 2} /\ Unused
      /\ meter.kind = "none" <=> meter.stall = 0
      /\ meter.stall = 0 => meter.rateOk
      /\ meter.left = 2 => meter.warmMin = 0
      /\ meter.left = 1 /\ meter.stall = 0 => meter.warmMin \in {Whole, Cold}
      /\ meter.left = 1 /\ meter.stall = 1 => Telltale
  BY DEF FirmwareSoFar, MeterSoFar, WindowAhead, GateUp
<1>2. /\ meter.stall \in 0..2 /\ meter.kind \in {"none", "frozen", "slow"} /\ meter.warmMin \in Nat
      /\ meter.rateOk \in BOOLEAN
  BY <1>1 DEF Meters
<1>3. /\ s.stall \in meter.stall..2 /\ s.stall \in 0..2 /\ s.kind \in {"frozen", "slow"}
      /\ meter.kind # "none" => s.kind = meter.kind
  BY <1>2, SpellOf
<1> DEFINE r == Reading(meter.stall, s.stall, s.kind)
           low == Lowest(meter.warmMin, v)
           kind == IF s.stall = 0 THEN "none" ELSE s.kind
<1>4. /\ meter.stall = 1 /\ s.stall = 1 /\ s.kind = "frozen" => r = 0
      /\ meter.stall = 1 /\ s.stall = 1 /\ s.kind = "slow" => r = 2
      /\ meter.stall = s.stall /\ s.stall # 1 => r = 256
      /\ meter.stall # s.stall => r = 128
      /\ r \in {0, 2, 128, 256}
  BY <1>2, <1>3, Readings
<1>5. v = r \/ (r = 256 /\ v = 2304 /\ meter.left = 2)
  BY DEF Whole, Cold
<1>6. low = IF v > 0 /\ (meter.warmMin = 0 \/ v < meter.warmMin) THEN v ELSE meter.warmMin
  BY DEF Lowest
<1>7. Whole = 256 /\ Cold = 2304 /\ Whole \div 2 = 128 /\ Stalled.slow = 2
  BY DEF Whole, Cold, Stalled
<1>8. /\ meter'.stall = s.stall /\ meter'.left = meter.left - 1 /\ meter'.kind = kind
      /\ meter'.warmMin = low /\ meter'.rateOk = meter.rateOk /\ meter'.zeros = meter.zeros
      /\ meter'.partials = meter.partials /\ meter'.lost = meter.lost
  BY <1>1 DEF Meters, WarmMeter
<1> HIDE DEF r, low
<1>9. low \in Nat
  BY <1>2, <1>4, <1>5, <1>6
<1>10. meter' \in Meters
  <2>1. meter' = [stall |-> s.stall, kind |-> kind, rateOk |-> meter.rateOk, warmMin |-> low,
                  zeros |-> meter.zeros, partials |-> meter.partials, lost |-> meter.lost,
                  left |-> meter.left - 1]
    BY <1>1 DEF Meters, low, WarmMeter
  <2>2. /\ meter.zeros \in BOOLEAN /\ meter.partials \in BOOLEAN /\ meter.lost \in BOOLEAN
        /\ meter.left - 1 \in 0..2 /\ kind \in {"none", "frozen", "slow"}
    BY <1>1, <1>3 DEF Meters
  <2>3. s.stall \in 0..2 /\ low \in Nat
    BY <1>3, <1>9
  <2>4. meter.rateOk \in BOOLEAN
    BY <1>2
  <2> HIDE DEF kind
  <2> QED
    BY <2>1, <2>2, <2>3, <2>4, SMTT(60) DEF Meters
<1>11. s.stall = 0 => meter.stall = 0
  BY <1>2, <1>3
<1>12. meter.left = 2 /\ s.stall = 0 => low \in {256, 2304}
  BY <1>1, <1>4, <1>5, <1>6, <1>11
<1>13. meter.left = 1 /\ s.stall = 0 => low = 256
  BY <1>1, <1>4, <1>5, <1>6, <1>7, <1>11
<1>14. s.stall = 1 => meter.stall \in {0, 1}
  BY <1>2, <1>3
<1>15. s.stall = 1 /\ meter.stall = 0 => low = 128
  BY <1>1, <1>4, <1>5, <1>6, <1>7
<1>16. s.stall = 1 /\ meter.stall = 1 /\ meter.left = 2 =>
         (s.kind = "frozen" /\ low = 0) \/ (s.kind = "slow" /\ low = 2)
  BY <1>1, <1>3, <1>4, <1>5, <1>6
<1>17. s.stall = 1 /\ meter.stall = 1 /\ meter.left = 1 =>
         \/ ~meter.rateOk \/ low = 128
         \/ s.kind = "frozen" /\ low = 0
         \/ s.kind = "slow" /\ low = 2
  <2>1. SUFFICES ASSUME s.stall = 1, meter.stall = 1, meter.left = 1, meter.rateOk
                 PROVE  low = 128 \/ (s.kind = "frozen" /\ low = 0) \/ (s.kind = "slow" /\ low = 2)
    OBVIOUS
  <2>2. s.kind = meter.kind
    BY <1>1, <1>3, <2>1
  <2>3. meter.warmMin = 128 \/ (s.kind = "frozen" /\ meter.warmMin = 0)
        \/ (s.kind = "slow" /\ meter.warmMin = 2)
    BY <1>1, <1>7, <2>1, <2>2 DEF Telltale
  <2>4. (s.kind = "frozen" /\ v = 0) \/ (s.kind = "slow" /\ v = 2)
    BY <1>3, <1>4, <1>5, <2>1
  <2> QED
    BY <1>6, <2>3, <2>4
<1>18. meter'.stall = 1 => Telltale'
  BY <1>1, <1>7, <1>8, <1>14, <1>15, <1>16, <1>17 DEF Telltale
<1> QED
  BY <1>1, <1>3, <1>7, <1>8, <1>10, <1>11, <1>12, <1>13, <1>18 DEF Unused

\* One iteration of the window on the counter.
LEMMA MeterFromWindow ==
  ASSUME FirmwareSoFar, fwPc \in GateUp, DwtWindow, meter.left > 0,
         NEW s \in Spells(meter), meter' = Count(meter, s)
  PROVE  /\ meter' \in Meters
         /\ meter'.kind = "none" <=> meter'.stall = 0
         /\ meter'.stall = 0 => meter'.rateOk /\ meter'.warmMin = Whole /\ Unused'
         /\ meter'.stall = 1 => Telltale' \/ meter'.warmMin = Whole
         /\ meter'.lost => ClockEvidence' \/ SlowedInWarmup'
<1>1. /\ meter \in Meters
      /\ meter.kind = "none" <=> meter.stall = 0
      /\ meter.stall = 0 => meter.rateOk /\ meter.warmMin = Whole /\ Unused
      /\ meter.stall = 1 => Telltale \/ meter.warmMin = Whole
      /\ meter.lost => ClockEvidence \/ SlowedInWarmup
  BY DEF FirmwareSoFar, MeterSoFar, WindowAhead, GateUp
<1>2. /\ meter.stall \in 0..2 /\ meter.kind \in {"none", "frozen", "slow"} /\ meter.warmMin \in Nat
      /\ meter.rateOk \in BOOLEAN /\ meter.zeros \in BOOLEAN /\ meter.partials \in BOOLEAN
      /\ meter.lost \in BOOLEAN /\ meter.left \in 0..2
  BY <1>1 DEF Meters
<1>3. /\ s.stall \in meter.stall..2 /\ s.stall \in 0..2 /\ s.kind \in {"frozen", "slow"}
      /\ meter.kind # "none" => s.kind = meter.kind
  BY <1>2, SpellOf
<1> DEFINE r == Reading(meter.stall, s.stall, s.kind)
           least == meter.warmMin
           kind == IF s.stall = 0 THEN "none" ELSE s.kind
           short == r > 0 /\ least \div 8 > 0 /\ r < least \div 8
           asleep == meter.stall = 1 /\ s.stall = 1
<1>4. /\ meter.stall = 1 /\ s.stall = 1 /\ s.kind = "frozen" => r = 0
      /\ meter.stall = 1 /\ s.stall = 1 /\ s.kind = "slow" => r = 2
      /\ meter.stall = s.stall /\ s.stall # 1 => r = 256
      /\ meter.stall # s.stall => r = 128
      /\ r \in {0, 2, 128, 256}
  BY <1>2, <1>3, Readings
<1>5. Whole = 256 /\ Whole \div 2 = 128 /\ Stalled.slow = 2 /\ 256 \div 8 = 32 /\ 128 \div 8 = 16
  BY DEF Whole, Stalled
<1>6. meter' = [stall |-> s.stall, kind |-> kind, rateOk |-> meter.rateOk, warmMin |-> least,
                zeros |-> meter.zeros \/ r = 0, partials |-> meter.partials \/ short,
                lost |-> meter.lost \/ asleep, left |-> meter.left - 1]
  BY <1>1 DEF Meters, Count
<1> HIDE DEF r, short
<1>7. /\ (meter.zeros \/ r = 0) \in BOOLEAN /\ (meter.partials \/ short) \in BOOLEAN
      /\ (meter.lost \/ asleep) \in BOOLEAN /\ meter.left - 1 \in 0..2
      /\ kind \in {"none", "frozen", "slow"}
  BY <1>2, <1>3 DEF short
<1>8. meter' \in Meters
  BY <1>2, <1>3, <1>6, <1>7 DEF Meters
<1>9. /\ meter'.stall = s.stall /\ meter'.kind = kind /\ meter'.rateOk = meter.rateOk
      /\ meter'.warmMin = least /\ meter'.zeros = (meter.zeros \/ r = 0)
      /\ meter'.partials = (meter.partials \/ short) /\ meter'.lost = (meter.lost \/ asleep)
  BY <1>6
<1>10. s.stall = 0 => meter.stall = 0
  BY <1>2, <1>3
<1>11. s.stall = 0 => least = 256 /\ r = 256 /\ meter.rateOk /\ Unused /\ ~short /\ ~asleep
  BY <1>1, <1>3, <1>4, <1>5, <1>10 DEF short
<1>12. meter'.stall = 0 => meter'.rateOk /\ meter'.warmMin = Whole /\ Unused'
  <2>1. SUFFICES ASSUME meter'.stall = 0 PROVE meter'.rateOk /\ meter'.warmMin = Whole /\ Unused'
    OBVIOUS
  <2>2. s.stall = 0
    BY <1>9, <2>1
  <2>3. least = 256 /\ r # 0 /\ meter.rateOk /\ Unused /\ ~short /\ ~asleep
    BY <1>11, <2>2
  <2>4. ~meter.zeros /\ ~meter.partials /\ ~meter.lost
    BY <2>3 DEF Unused
  <2>5. ~meter'.zeros /\ ~meter'.partials /\ ~meter'.lost
    BY <1>9, <2>3, <2>4, Zenon
  <2> QED
    BY <1>5, <1>9, <2>3, <2>5 DEF Unused
<1>13. s.stall = 1 => Telltale' \/ least = 256
  <2>1. CASE meter.stall = 0
    BY <1>1, <1>5, <2>1
  <2>2. CASE s.stall = 1 /\ meter.stall = 1 /\ Telltale
    <3>1. s.kind = meter.kind /\ meter'.kind = meter.kind
      BY <1>1, <1>3, <1>9, <2>2
    <3> QED
      BY <1>9, <2>2, <3>1 DEF Telltale
  <2>3. s.stall = 1 => meter.stall \in {0, 1}
    BY <1>2, <1>3
  <2> QED
    BY <1>1, <1>5, <2>1, <2>2, <2>3
<1>14. ASSUME asleep PROVE ClockEvidence' \/ SlowedInWarmup'
  <2>1. s.kind = meter.kind /\ meter'.kind = s.kind
    BY <1>1, <1>3, <1>9, <1>14
  <2>2. CASE s.kind = "frozen"
    BY <1>4, <1>9, <1>14, <2>2 DEF ClockEvidence
  <2>3. CASE s.kind = "slow"
    <3>1. r = 2
      BY <1>4, <1>14, <2>3
    <3>2. ~meter.rateOk \/ least = 128 \/ least = 2 \/ least = 256
      BY <1>1, <1>5, <1>14, <2>1, <2>3 DEF Telltale
    <3>3. least \in {128, 256} => short
      BY <1>5, <3>1 DEF short
    <3>4. CASE least \in {128, 256}
      <4>1. meter'.partials
        BY <1>9, <3>3, <3>4, Zenon
      <4> QED
        BY <4>1 DEF ClockEvidence
    <3>5. CASE ~meter.rateOk
      BY <1>9, <3>5 DEF ClockEvidence
    <3>6. CASE least = 2
      BY <1>9, <2>1, <2>3, <3>6 DEF SlowedInWarmup
    <3> QED
      BY <3>2, <3>4, <3>5, <3>6
  <2> QED
    BY <1>3, <2>2, <2>3
<1>15. ASSUME meter.lost PROVE ClockEvidence' \/ SlowedInWarmup'
  <2>1. CASE ClockEvidence
    BY <1>9, <2>1 DEF ClockEvidence
  <2>2. CASE SlowedInWarmup
    <3>1. meter'.kind = "slow"
      <4>1. meter.stall # 0 /\ s.kind = "slow"
        BY <1>1, <1>3, <2>2 DEF SlowedInWarmup
      <4>2. s.stall # 0
        BY <1>10, <4>1
      <4> QED
        BY <1>9, <4>1, <4>2
    <3> QED
      BY <1>9, <2>2, <3>1 DEF SlowedInWarmup
  <2> QED
    BY <1>1, <1>15, <2>1, <2>2
<1>16. meter'.lost => ClockEvidence' \/ SlowedInWarmup'
  BY <1>9, <1>14, <1>15
<1> QED
  BY <1>3, <1>5, <1>8, <1>9, <1>12, <1>13, <1>16

\* Outside the window and what leads to it the counter is as it was.
LEMMA MeterRests ==
  ASSUME FirmwareSoFar, UNCHANGED <<binary, meter>>,
         fwPc' \in FwStopped \cup {"report"}
           \/ (fwPc \notin FwStopped \cup WindowAhead \cup GateUp \cup {"report"}
               /\ fwPc' \notin WindowAhead \cup GateUp)
           \/ (fwPc' = fwPc)
           \/ ({fwPc, fwPc'} \subseteq {"announce", "quiesce", "open"})
           \/ ({fwPc, fwPc'} \subseteq GateUp)
  PROVE  MeterSoFar'
<1>1. MeterSoFar /\ meter \in Meters
  BY DEF FirmwareSoFar, MeterSoFar
<1>2. /\ DwtWindow' = DwtWindow /\ Telltale' = Telltale /\ Unused' = Unused
      /\ ClockEvidence' = ClockEvidence /\ SlowedInWarmup' = SlowedInWarmup
  BY DEF DwtWindow, Telltale, Unused, ClockEvidence, SlowedInWarmup
<1>3. CASE fwPc' \in FwStopped \cup {"report"}
  BY <1>1, <1>3 DEF MeterSoFar, FwStopped, WindowAhead, GateUp
<1>4. CASE fwPc \notin FwStopped \cup WindowAhead \cup GateUp \cup {"report"}
             /\ fwPc' \notin WindowAhead \cup GateUp
  <2>1. meter' = FreshMeter
    BY <1>1, <1>4 DEF MeterSoFar
  <2> QED
    BY <1>1, <1>4, <2>1 DEF MeterSoFar, WindowAhead, GateUp
<1>5. CASE fwPc' = fwPc
  BY <1>1, <1>2, <1>5 DEF MeterSoFar
<1>6. CASE {fwPc, fwPc'} \subseteq {"announce", "quiesce", "open"}
  BY <1>1, <1>2, <1>6 DEF MeterSoFar, FwStopped, WindowAhead, GateUp
<1>7. CASE {fwPc, fwPc'} \subseteq GateUp
  BY <1>1, <1>2, <1>7 DEF MeterSoFar, FwStopped, WindowAhead, GateUp
<1> QED
  BY <1>3, <1>4, <1>5, <1>6, <1>7

LEMMA MeterInWarmup ==
  ASSUME FirmwareSoFar, Warm
  PROVE  MeterSoFar'
<1>1. fwPc = "warm" /\ binary' = binary /\ MeterSoFar /\ meter \in Meters /\ DwtWindow' = DwtWindow
  BY DEF Warm, DwtWindow, FirmwareSoFar, MeterSoFar
<1>2. CASE InvokeFails /\ UNCHANGED meter
  BY <1>1, <1>2, MeterRests DEF InvokeFails, FwStopped
<1>3. CASE meter.left = 0 /\ fwPc' = "announce" /\ UNCHANGED meter
  <2>1. ~DwtWindow
    BY <1>1, <1>3 DEF MeterSoFar
  <2> QED
    BY <1>1, <1>3, <2>1 DEF MeterSoFar, FwStopped, WindowAhead, GateUp
<1>4. ASSUME meter.left > 0, fwPc' = IF meter.left = 1 THEN "announce" ELSE "warm",
             NEW s \in Spells(meter),
             NEW v \in (IF Reading(meter.stall, s.stall, s.kind) = Whole /\ meter.left = 2
                        THEN {Whole, Cold} ELSE {Reading(meter.stall, s.stall, s.kind)}),
             meter' = WarmMeter(meter, s, v)
      PROVE  MeterSoFar'
  <2>1. DwtWindow /\ meter.left \in {1, 2}
    BY <1>1, <1>4 DEF MeterSoFar, WindowAhead
  <2>2. /\ meter' \in Meters /\ meter'.left = meter.left - 1
        /\ meter'.kind = "none" <=> meter'.stall = 0
        /\ meter'.stall = 0 => meter'.rateOk
        /\ ~meter'.zeros /\ ~meter'.partials /\ ~meter'.lost
        /\ meter'.stall = 1 => Telltale'
        /\ meter.left = 2 /\ meter'.stall = 0 => meter'.warmMin \in {Whole, Cold}
        /\ meter.left = 1 /\ meter'.stall = 0 => meter'.warmMin = Whole
    BY <1>1, <1>4, <2>1, MeterFromWarm
  <2>3. Unused'
    BY <2>2 DEF Unused
  <2>4. CASE meter.left = 1
    <3>1. fwPc' = "announce" /\ meter'.left = 0
      BY <1>4, <2>2, <2>4
    <3> QED
      BY <1>1, <2>1, <2>2, <2>3, <2>4, <3>1 DEF MeterSoFar, FwStopped, WindowAhead, GateUp
  <2>5. CASE meter.left = 2
    <3>1. fwPc' = "warm" /\ meter'.left = 1
      BY <1>4, <2>2, <2>5
    <3> QED
      BY <1>1, <2>1, <2>2, <2>3, <2>5, <3>1 DEF MeterSoFar, FwStopped, WindowAhead, GateUp
  <2> QED
    BY <2>1, <2>4, <2>5
<1> QED
  BY <1>2, <1>3, <1>4 DEF Warm, WarmMeter

LEMMA MeterInWindow ==
  ASSUME FirmwareSoFar, OpenWindow \/ MeasuredWindow
  PROVE  MeterSoFar'
<1>1. MeterSoFar /\ meter \in Meters /\ binary' = binary /\ DwtWindow' = DwtWindow
  BY DEF OpenWindow, MeasuredWindow, FirmwareSoFar, MeterSoFar, DwtWindow
<1>2. CASE OpenWindow
  <2> DEFINE n == IF meter.left = 0 /\ ~StimerWindow(binary) THEN 2 ELSE 0
  <2>1. fwPc = "open" /\ fwPc' \in {"window", "hung", "done"} /\ meter' = [meter EXCEPT !.left = n]
    BY <1>2 DEF OpenWindow, MonitorFails, PowerFail, Given
  <2>2. ~StimerWindow(binary) => DwtWindow
    BY WindowTimers, BuildFacts DEF FirmwareSoFar, DwtWindow
  <2>3. n \in 0..2 /\ (n > 0 => DwtWindow)
    BY <2>2
  <2> HIDE DEF n
  <2>4. meter' = [stall |-> meter.stall, kind |-> meter.kind, rateOk |-> meter.rateOk,
                  warmMin |-> meter.warmMin, zeros |-> meter.zeros, partials |-> meter.partials,
                  lost |-> meter.lost, left |-> n]
    BY <1>1, <2>1 DEF Meters
  <2>5. meter' \in Meters
    <3>1. /\ meter.stall \in 0..2 /\ meter.kind \in {"none", "frozen", "slow"}
          /\ meter.rateOk \in BOOLEAN /\ meter.warmMin \in Nat /\ meter.zeros \in BOOLEAN
          /\ meter.partials \in BOOLEAN /\ meter.lost \in BOOLEAN
      BY <1>1 DEF Meters
    <3> QED
      BY <2>3, <2>4, <3>1, SMTT(60) DEF Meters
  <2>6. /\ meter'.stall = meter.stall /\ meter'.kind = meter.kind /\ meter'.rateOk = meter.rateOk
        /\ meter'.warmMin = meter.warmMin /\ meter'.zeros = meter.zeros
        /\ meter'.partials = meter.partials /\ meter'.lost = meter.lost /\ meter'.left = n
    BY <2>4
  <2>7. Telltale' = Telltale /\ Unused' = Unused
    BY <2>6 DEF Telltale, Unused
  <2>8. CASE fwPc' = "window"
    <3>1. meter'.left > 0 => DwtWindow'
      BY <1>1, <2>3, <2>6
    <3>2. DwtWindow => /\ meter'.kind = "none" <=> meter'.stall = 0
                       /\ meter'.stall = 0 => meter'.rateOk
                       /\ meter'.stall = 0 => meter'.warmMin = Whole /\ Unused'
                       /\ meter'.stall = 1 => Telltale'
                       /\ ~meter'.lost
      BY <1>1, <2>1, <2>6, <2>7 DEF MeterSoFar, WindowAhead, Unused
    <3> QED
      BY <1>1, <2>5, <2>8, <3>1, <3>2 DEF MeterSoFar, FwStopped, WindowAhead, GateUp
  <2>9. CASE fwPc' \in {"hung", "done"}
    BY <2>5, <2>9 DEF MeterSoFar, FwStopped, WindowAhead, GateUp
  <2> QED
    BY <2>1, <2>8, <2>9
<1>3. CASE MeasuredWindow
  <2>1. fwPc = "window" /\ fwPc' \in {"window", "close", "hung", "parked"}
    BY <1>3 DEF MeasuredWindow, InvokeFails, Given
  <2>2. CASE UNCHANGED meter
    BY <1>1, <2>1, <2>2, MeterRests DEF FwStopped, GateUp
  <2>3. ASSUME meter.left > 0, NEW s \in Spells(meter), meter' = Count(meter, s)
        PROVE  MeterSoFar'
    <3>1. DwtWindow /\ fwPc \in GateUp
      BY <1>1, <2>1, <2>3 DEF MeterSoFar, GateUp
    <3>2. /\ meter' \in Meters
          /\ meter'.kind = "none" <=> meter'.stall = 0
          /\ meter'.stall = 0 => meter'.rateOk /\ meter'.warmMin = Whole /\ Unused'
          /\ meter'.stall = 1 => Telltale' \/ meter'.warmMin = Whole
          /\ meter'.lost => ClockEvidence' \/ SlowedInWarmup'
      BY <2>3, <3>1, MeterFromWindow
    <3> QED
      BY <1>1, <2>1, <3>1, <3>2 DEF MeterSoFar, FwStopped, WindowAhead, GateUp
  <2> QED
    BY <1>3, <2>2, <2>3 DEF MeasuredWindow
<1> QED
  BY <1>2, <1>3

LEMMA MeterStep ==
  ASSUME FirmwareSoFar, FwNext
  PROVE  MeterSoFar'
<1>1. binary' = binary /\ DwtWindow' = DwtWindow
  BY BinaryStays DEF DwtWindow
<1>2. CASE Boot \/ Preamble \/ PsramInit \/ Header \/ ModelSetup \/ ClockReport
  <2>1. UNCHANGED meter /\ fwPc \in {"boot", "preamble", "memory", "header", "setup", "clock"}
    BY <1>2 DEF Boot, Preamble, PsramInit, Header, ModelSetup, ClockReport, Go
  <2>2. fwPc' \in {"preamble", "memory", "header", "setup", "clock", "measure", "done", "parked"}
    BY <1>2 DEF Boot, Preamble, PsramInit, Header, ModelSetup, ClockReport, Go, Fail, PowerFail
  <2> QED
    BY <1>1, <2>1, <2>2, MeterRests DEF FwStopped, WindowAhead, GateUp
<1>3. CASE RateClock
  <2>1. /\ meter' \in Meters
        /\ meter'.left > 0 => DwtWindow
        /\ DwtWindow => /\ meter'.kind = "none" <=> meter'.stall = 0
                        /\ meter'.stall = 0 => meter'.rateOk
                        /\ ~meter'.zeros /\ ~meter'.partials /\ ~meter'.lost
                        /\ meter'.left = 2 /\ meter'.warmMin = 0
    BY <1>3, MeterFromRate
  <2>2. fwPc' = "warm"
    BY <1>3 DEF RateClock, Go
  <2>3. DwtWindow => Unused' /\ meter'.left \in {1, 2} /\ meter'.left # 1
    BY <2>1 DEF Unused
  <2> QED
    BY <1>1, <2>1, <2>2, <2>3 DEF MeterSoFar, FwStopped, WindowAhead, GateUp
<1>4. CASE Warm
  BY <1>4, MeterInWarmup
<1>5. CASE Announce \/ Quiesce
  <2>1. UNCHANGED meter /\ fwPc \in {"announce", "quiesce"}
        /\ fwPc' \in {"quiesce", "open", "hung", "done"}
    BY <1>5 DEF Announce, Quiesce, PowerFail
  <2> QED
    BY <1>1, <2>1, MeterRests DEF FwStopped
<1>6. CASE OpenWindow \/ MeasuredWindow
  BY <1>6, MeterInWindow
<1>7. CASE CloseWindow
  <2>1. UNCHANGED meter /\ fwPc' \in {"report", "done"}
    BY <1>7 DEF CloseWindow, MonitorFails, PowerFail
  <2> QED
    BY <1>1, <2>1, MeterRests DEF FwStopped
<1>8. CASE ReportWindow
  <2>1. meter' = FreshMeter /\ fwPc' \in {"passes", "done"}
    BY <1>8 DEF ReportWindow
  <2>2. meter' \in Meters
    BY <2>1 DEF Meters, FreshMeter
  <2> QED
    BY <2>1, <2>2 DEF MeterSoFar, FwStopped, WindowAhead, GateUp
<1>9. CASE PassBegin \/ Iterate \/ Finish
  <2>1. UNCHANGED meter /\ fwPc \in {"passes", "iterate", "end"}
    BY <1>9 DEF PassBegin, Iterate, Finish, Go
  <2>2. fwPc' \in {"passes", "iterate", "end", "done", "parked"}
    BY <1>9 DEF PassBegin, Iterate, Finish, Go, InvokeFails
  <2> QED
    BY <1>1, <2>1, <2>2, MeterRests DEF FwStopped, WindowAhead, GateUp
<1> QED
  BY <1>2, <1>3, <1>4, <1>5, <1>6, <1>7, <1>8, <1>9 DEF FwNext

\* The ranks of the places.
LEMMA Ranks ==
  /\ Milestone["boot"] = 0 /\ Milestone["preamble"] = 1 /\ Milestone["memory"] = 2 /\ Milestone["header"] = 3
  /\ Milestone["setup"] = 4 /\ Milestone["clock"] = 5 /\ Milestone["measure"] = 6 /\ Milestone["warm"] = 7
  /\ Milestone["announce"] = 8 /\ Milestone["quiesce"] = 9 /\ Milestone["open"] = 10 /\ Milestone["window"] = 11
  /\ Milestone["close"] = 12 /\ Milestone["report"] = 13 /\ Milestone["passes"] = 14 /\ Milestone["iterate"] = 15
  /\ Milestone["end"] = 16 /\ Milestone["done"] = 17 /\ Milestone["parked"] = 0 /\ Milestone["hung"] = 0
BY DEF Milestone

Checkpoints == {"preamble", "header", "setup", "clock", "announce", "window", "report", "passes",
                "iterate", "end"}

\* A place is left behind by the step taken there; only the PSRAM's may be passed by.
LEMMA Onwards ==
  ASSUME FirmwareSoFar, FwNext, ~binary.power
  PROVE  /\ \A p \in Checkpoints : Milestone[p] < Milestone[fwPc'] => Milestone[p] < Milestone[fwPc] \/ fwPc = p
         /\ Milestone["memory"] < Milestone[fwPc'] =>
              Milestone["memory"] < Milestone[fwPc] \/ fwPc \in {"preamble", "memory"}
<1> DEFINE Move(from, to) == fwPc = from /\ fwPc' \in to
<1>1. \/ Move("boot", {"preamble"}) \/ Move("preamble", {"memory", "header"})
      \/ Move("memory", {"header", "parked"}) \/ Move("header", {"setup"})
      \/ Move("setup", {"clock", "parked"}) \/ Move("clock", {"measure"})
      \/ Move("measure", {"warm"}) \/ Move("warm", {"warm", "announce", "parked"})
      \/ Move("announce", {"quiesce"}) \/ Move("quiesce", {"open", "hung"})
      \/ Move("open", {"window", "hung"}) \/ Move("window", {"window", "close", "hung", "parked"})
      \/ Move("close", {"report"}) \/ Move("report", {"passes"})
      \/ Move("passes", {"iterate", "parked"}) \/ Move("iterate", {"passes", "end", "parked"})
      \/ Move("end", {"done"})
  <2>1. Boot => Move("boot", {"preamble"})
    BY DEF Boot, PowerFail
  <2>2. Preamble => Move("preamble", {"memory", "header"})
    BY DEF Preamble, Go
  <2>3. PsramInit => Move("memory", {"header", "parked"})
    BY DEF PsramInit, Fail, PowerFail
  <2>4. Header => Move("header", {"setup"})
    BY DEF Header, Go
  <2>5. ModelSetup => Move("setup", {"clock", "parked"})
    BY DEF ModelSetup, Fail, PowerFail
  <2>6. ClockReport => Move("clock", {"measure"})
    BY DEF ClockReport, Go
  <2>7. RateClock => Move("measure", {"warm"})
    BY DEF RateClock, Go
  <2>8. Warm => Move("warm", {"warm", "announce", "parked"})
    BY DEF Warm, InvokeFails
  <2>9. Announce => Move("announce", {"quiesce"})
    BY DEF Announce, PowerFail
  <2>10. Quiesce => Move("quiesce", {"open", "hung"})
    BY DEF Quiesce
  <2>11. OpenWindow => Move("open", {"window", "hung"})
    BY DEF OpenWindow, MonitorFails, PowerFail, Given
  <2>12. MeasuredWindow => Move("window", {"window", "close", "hung", "parked"})
    BY DEF MeasuredWindow, InvokeFails, Given
  <2>13. CloseWindow => Move("close", {"report"})
    BY DEF CloseWindow, MonitorFails, PowerFail
  <2>14. ReportWindow => Move("report", {"passes"})
    BY DEF ReportWindow
  <2>15. PassBegin => Move("passes", {"iterate", "parked"})
    BY DEF PassBegin, InvokeFails
  <2>16. Iterate => Move("iterate", {"passes", "end", "parked"})
    BY DEF Iterate, InvokeFails
  <2>17. Finish => Move("end", {"done"})
    BY DEF Finish, Go
  <2> HIDE DEF Move
  <2> QED
    BY <2>1, <2>2, <2>3, <2>4, <2>5, <2>6, <2>7, <2>8, <2>9, <2>10, <2>11, <2>12, <2>13, <2>14,
       <2>15, <2>16, <2>17 DEF FwNext
<1>2. ASSUME NEW p \in Checkpoints, Milestone[p] < Milestone[fwPc'] PROVE Milestone[p] < Milestone[fwPc] \/ fwPc = p
  BY <1>1, <1>2, Ranks DEF Checkpoints
<1>3. ASSUME Milestone["memory"] < Milestone[fwPc']
      PROVE  Milestone["memory"] < Milestone[fwPc] \/ fwPc \in {"preamble", "memory"}
  BY <1>1, <1>3, Ranks
<1> QED
  BY <1>2, <1>3

LEMMA Said ==
  ASSUME NEW lines, Say(lines) \/ Invoke(lines), ~binary.power
  PROVE  lines \subseteq printed'
BY DEF Say, Invoke

\* What a step that does not stop the program leaves printed.
LEMMA LinesLeft ==
  ASSUME FirmwareSoFar, FwNext, ~binary.power, fwPc' \notin {"parked", "hung"}
  PROVE  /\ fwPc = "preamble" => Given(binary.link # "usb", {Key("READY")}) \subseteq printed'
         /\ fwPc = "memory" => Given(Has("arena"), {Key("PSRAM_ARENA")})
                                 \cup Given(Has("weights"), {Key("PSRAM_READY")}) \subseteq printed'
         /\ fwPc = "header" => HeaderLines \cup HeartbeatArm \subseteq printed'
         /\ fwPc = "setup" => LinesOf(Setup) \subseteq printed'
         /\ fwPc = "clock" => ClockLines \subseteq printed'
         /\ fwPc = "announce" => Heartbeat("clean_window_begin") \in printed'
         /\ fwPc = "window" => WindowLines \subseteq printed'
         /\ fwPc = "report" => CleanLines \subseteq printed'
         /\ fwPc = "passes" => PassLines \cup PmuLines \subseteq printed'
         /\ fwPc = "iterate" => Sentinel("ITER") \in printed'
         /\ fwPc = "end" =>
              {Sentinel("END")} \cup Given(binary.link = "rtt", {Heartbeat("flushing")})
                \subseteq printed'
<1> USE DEF Go
<1>1. ASSUME Preamble PROVE Given(binary.link # "usb", {Key("READY")}) \subseteq printed'
  BY <1>1, Said DEF Preamble, Given
<1>2. ASSUME PsramInit
      PROVE  Given(Has("arena"), {Key("PSRAM_ARENA")})
               \cup Given(Has("weights"), {Key("PSRAM_READY")}) \subseteq printed'
  BY <1>2, Said DEF PsramInit, Fail, PowerFail
<1>3. ASSUME Header PROVE HeaderLines \cup HeartbeatArm \subseteq printed'
  <2>1. PICK sync \in SUBSET {Key("SYNC_GPIO")} : Say(HeaderLines \cup sync \cup HeartbeatArm)
    BY <1>3 DEF Header
  <2> QED
    BY <2>1, Said
<1>4. ASSUME ModelSetup PROVE LinesOf(Setup) \subseteq printed'
  <2>1. PICK warn : Say((UNION {Setup[i].ok : i \in 1..Len(Setup)}) \cup warn)
    BY <1>4 DEF ModelSetup, Fail, PowerFail
  <2> QED
    BY <2>1, Said, SetupSays
<1>5. ASSUME ClockReport PROVE ClockLines \subseteq printed'
  <2>1. Say(ClockLines) \/ Say(ClockLines \cup {Key("MEASURED_CLOCK_HZ")})
    BY <1>5 DEF ClockReport
  <2> QED
    BY <2>1, Said
<1>6. ASSUME Announce PROVE Heartbeat("clean_window_begin") \in printed'
  BY <1>6, Said DEF Announce, PowerFail
<1>7. ASSUME MeasuredWindow PROVE WindowLines \subseteq printed'
  BY <1>7, Said DEF MeasuredWindow, InvokeFails
<1>8. ASSUME ReportWindow PROVE CleanLines \subseteq printed'
  BY <1>8, Said DEF ReportWindow
<1>9. ASSUME PassBegin PROVE PassLines \cup PmuLines \subseteq printed'
  <2>1. PICK test : Invoke(PassLines \cup PmuLines \cup test)
    BY <1>9 DEF PassBegin, InvokeFails
  <2> QED
    BY <2>1, Said
<1>10. ASSUME Iterate PROVE Sentinel("ITER") \in printed'
  BY <1>10, Said DEF Iterate, InvokeFails
<1>11. ASSUME Finish
       PROVE  {Sentinel("END")} \cup Given(binary.link = "rtt", {Heartbeat("flushing")})
                \subseteq printed'
  BY <1>11, Said DEF Finish
<1>12. /\ Preamble => fwPc = "preamble"
       /\ PsramInit => fwPc = "memory"
       /\ Header => fwPc = "header"
       /\ ModelSetup => fwPc = "setup"
       /\ ClockReport => fwPc = "clock"
       /\ Announce => fwPc = "announce"
       /\ MeasuredWindow => fwPc = "window"
       /\ ReportWindow => fwPc = "report"
       /\ PassBegin => fwPc = "passes"
       /\ Iterate => fwPc = "iterate"
       /\ Finish => fwPc = "end"
  BY DEF Preamble, PsramInit, Header, ModelSetup, ClockReport, Announce, MeasuredWindow,
     ReportWindow, PassBegin, Iterate, Finish
<1>13. /\ Boot => fwPc = "boot"
       /\ RateClock => fwPc = "measure"
       /\ Warm => fwPc = "warm"
       /\ Quiesce => fwPc = "quiesce"
       /\ OpenWindow => fwPc = "open"
       /\ CloseWindow => fwPc = "close"
  BY DEF Boot, RateClock, Warm, Quiesce, OpenWindow, CloseWindow
<1> QED
  BY <1>1, <1>2, <1>3, <1>4, <1>5, <1>6, <1>7, <1>8, <1>9, <1>10, <1>11, <1>12, <1>13 DEF FwNext

\* A power binary is done with its terminal record printed.
LEMMA PowerEnds ==
  ASSUME FirmwareSoFar, FwNext, binary.power, fwPc' = "done"
  PROVE  {Sentinel("POWER_TERMINAL_START"), Sentinel("POWER_TERMINAL_END")} \cup TerminalFields
           \cup Given(binary.monitor # "none", {Field("INA228_DIAG")}) \subseteq printed'
<1>1. CASE PowerFail
  BY <1>1, PowerFailsSafely DEF TerminalLines
<1>2. CASE TerminalReport(TRUE)
  BY <1>2 DEF TerminalReport, TerminalLines
<1>3. ~Finish
  BY DEF Finish, Go, FirmwareSoFar, HardwareSoFar
<1>4. PowerFail \/ TerminalReport(TRUE)
  BY <1>3 DEF FwNext, Boot, Preamble, PsramInit, Header, ModelSetup, ClockReport, RateClock, Warm,
     Announce, Quiesce, OpenWindow, MeasuredWindow, CloseWindow, ReportWindow, PassBegin, Iterate,
     InvokeFails, MonitorFails, Fail, Go, Given
<1> QED
  BY <1>1, <1>2, <1>4

LEMMA DueStep ==
  ASSUME FirmwareSoFar, FwNext
  PROVE  DueSoFar'
<1>1. binary' = binary /\ binary.power \in BOOLEAN /\ printed \subseteq printed'
  BY BinaryStays, BuildFacts, WireStep DEF FirmwareSoFar
<1>2. CASE binary.power
  <2>1. fwPc' = "done" =>
          SentinelLines({"POWER_TERMINAL_START", "POWER_TERMINAL_END"}) \cup TerminalFields
            \cup Given(binary.monitor # "none", {Field("INA228_DIAG")}) \subseteq printed'
    BY <1>2, PowerEnds DEF SentinelLines
  <2>2. \A p : ~Past(p)'
    BY <1>1, <1>2 DEF Past
  <2> QED
    BY <1>1, <2>1, <2>2, Zenon DEF DueSoFar, Given
<1>3. CASE ~binary.power
  <2> DEFINE ready == Given(binary.link # "usb", {Key("READY")})
             memory == Given(Has("arena"), {Key("PSRAM_ARENA")})
                         \cup Given(Has("weights"), {Key("PSRAM_READY")})
             last == {Sentinel("END")} \cup Given(binary.link = "rtt", {Heartbeat("flushing")})
  <2>1. /\ ready' = ready /\ memory' = memory /\ last' = last
        /\ HeaderLines' = HeaderLines /\ HeartbeatArm' = HeartbeatArm
        /\ LinesOf(Setup)' = LinesOf(Setup) /\ ClockLines' = ClockLines
        /\ WindowLines' = WindowLines /\ CleanLines' = CleanLines
        /\ PassLines' = PassLines /\ PmuLines' = PmuLines
    BY <1>1 DEF Has, HeaderLines, HeartbeatArm, Setup, TflmSetup, AotSetup, NpuInit, ClockLines,
       WindowLines, CleanLines, AttachWaited, OwnWindow, PassLines, PmuLines, LinesOf
  <2>2. /\ Past("preamble") => ready \subseteq printed
        /\ Past("memory") /\ binary.engine = "tflm" => memory \subseteq printed
        /\ Past("header") => HeaderLines \cup HeartbeatArm \subseteq printed
        /\ Past("setup") => LinesOf(Setup) \subseteq printed
        /\ Past("clock") => ClockLines \subseteq printed
        /\ Past("announce") => Heartbeat("clean_window_begin") \in printed
        /\ Past("window") => WindowLines \subseteq printed
        /\ Past("report") => CleanLines \subseteq printed
        /\ Past("passes") => PassLines \cup PmuLines \subseteq printed
        /\ Past("iterate") => Sentinel("ITER") \in printed
        /\ Past("end") => last \subseteq printed
    <3>1. DueSoFar
      BY DEF FirmwareSoFar
    <3>2. Past("memory") /\ binary.engine = "tflm" => memory \subseteq printed
      BY <3>1 DEF DueSoFar, Given
    <3> HIDE DEF memory
    <3> QED
      BY <3>1, <3>2, Zenon DEF DueSoFar
  <2>3. fwPc' \notin {"parked", "hung"} =>
          /\ fwPc = "preamble" => ready \subseteq printed'
          /\ fwPc = "memory" => memory \subseteq printed'
          /\ fwPc = "header" => HeaderLines \cup HeartbeatArm \subseteq printed'
          /\ fwPc = "setup" => LinesOf(Setup) \subseteq printed'
          /\ fwPc = "clock" => ClockLines \subseteq printed'
          /\ fwPc = "announce" => Heartbeat("clean_window_begin") \in printed'
          /\ fwPc = "window" => WindowLines \subseteq printed'
          /\ fwPc = "report" => CleanLines \subseteq printed'
          /\ fwPc = "passes" => PassLines \cup PmuLines \subseteq printed'
          /\ fwPc = "iterate" => Sentinel("ITER") \in printed'
          /\ fwPc = "end" => last \subseteq printed'
    BY <1>3, LinesLeft
  <2> HIDE DEF ready, memory, last
  <2>4. \A p \in Checkpoints : Past(p)' => (Past(p) \/ fwPc = p)
    BY <1>1, <1>3, Onwards DEF Past
  <2>5. Past("memory")' => Past("memory") \/ fwPc \in {"preamble", "memory"}
    BY <1>1, <1>3, Onwards DEF Past
  <2>6. \A p \in Checkpoints \cup {"memory"} : Past(p)' => fwPc' \notin {"parked", "hung"}
    BY Ranks DEF Past, Checkpoints
  <2>7. \A p \in {"preamble", "header", "setup", "clock", "announce", "window", "report", "passes",
                  "iterate", "end"} : Past(p)' => (Past(p) \/ fwPc = p) /\ fwPc' \notin {"parked",
                        "hung"}
    BY <2>4, <2>6 DEF Checkpoints
  <2>8. Past("memory")' /\ binary.engine = "tflm" => memory \subseteq printed'
    <3>1. CASE Past("memory") \/ fwPc = "memory"
      BY <1>1, <2>2, <2>3, <2>6, <3>1
    <3>2. CASE Past("memory")' /\ fwPc = "preamble" /\ binary.engine = "tflm"
      <4>1. Preamble
        BY <3>2 DEF FwNext, Boot, PsramInit, Header, ModelSetup, ClockReport, RateClock, Warm,
           Announce, Quiesce, OpenWindow, MeasuredWindow, CloseWindow, ReportWindow, PassBegin,
           Iterate, Finish, Go
      <4>2. ~PsramNeeded(binary)
        BY <3>2, <4>1, Ranks DEF Preamble, Go, Past
      <4>3. memory = {}
        BY <4>2 DEF PsramNeeded, memory, Given, Has
      <4> QED
        BY <4>3
    <3> QED
      BY <2>5, <3>1, <3>2
  <2>9. /\ Past("preamble")' => ready \subseteq printed'
        /\ Past("header")' => HeaderLines \cup HeartbeatArm \subseteq printed'
        /\ Past("setup")' => LinesOf(Setup) \subseteq printed'
        /\ Past("clock")' => ClockLines \subseteq printed'
    BY <1>1, <2>2, <2>3, <2>7
  <2>10. /\ Past("announce")' => Heartbeat("clean_window_begin") \in printed'
         /\ Past("window")' => WindowLines \subseteq printed'
         /\ Past("report")' => CleanLines \subseteq printed'
         /\ Past("passes")' => PassLines \cup PmuLines \subseteq printed'
    BY <1>1, <2>2, <2>3, <2>7
  <2>11. /\ Past("iterate")' => Sentinel("ITER") \in printed'
         /\ Past("end")' => last \subseteq printed'
    BY <1>1, <2>2, <2>3, <2>7
  <2>12. /\ (Has("arena") => Key("PSRAM_ARENA") \in memory)
         /\ (Has("weights") => Key("PSRAM_READY") \in memory)
    BY DEF memory, Given
  <2>13. Has("arena")' = Has("arena") /\ Has("weights")' = Has("weights")
    BY <1>1 DEF Has
  <2>14. ready' \subseteq printed' \/ ~Past("preamble")'
    BY <2>1, <2>9
  <2>15. last' \subseteq printed' \/ ~Past("end")'
    BY <2>1, <2>11
  <2>16. /\ Past("memory")' /\ (binary.engine = "tflm")' =>
              /\ Has("arena")' => Key("PSRAM_ARENA") \in printed'
              /\ Has("weights")' => Key("PSRAM_READY") \in printed'
    BY <1>1, <2>8, <2>12, <2>13
  <2>17. ~(binary.power)'
    BY <1>1, <1>3
  <2>18. (HeaderLines \cup HeartbeatArm)' = HeaderLines \cup HeartbeatArm
         /\ (PassLines \cup PmuLines)' = PassLines \cup PmuLines
    BY <2>1
  <2> QED
    BY <2>1, <2>9, <2>10, <2>11, <2>14, <2>15, <2>16, <2>17, <2>18, Zenon
    DEF DueSoFar, ready, last
<1> QED
  BY <1>1, <1>2, <1>3

LEMMA SpecOf ==
  ASSUME NEW lines, NEW engines, NEW cond, NEW s \in Specs(lines, engines, cond)
  PROVE  s.line \in lines /\ s.engines = engines /\ s.gate = cond
BY DEF Specs

LEMMA SpecFields ==
  ASSUME NEW lines, NEW engines, NEW cond, NEW s \in Specs(lines, engines, cond)
  PROVE  "always" \in DOMAIN s /\ "binary" \in DOMAIN s
BY DEF Specs

LEMMA SometimesOf ==
  ASSUME NEW X, \A s \in X : "always" \in DOMAIN s, NEW s \in Sometimes(X)
  PROVE  ~s.always
BY DEF Sometimes

LEMMA SometimesSpec ==
  ASSUME NEW lines, NEW engines, NEW cond, NEW s \in Sometimes(Specs(lines, engines, cond))
  PROVE  ~s.always
BY SpecFields, SometimesOf

LEMMA FaultsAreSometimes ==
  ASSUME NEW s \in FaultLines
  PROVE  ~s.always
<1>1. \A t \in ModelErrors \cup RunErrors \cup Warnings : "always" \in DOMAIN t
  BY SpecFields DEF ModelErrors, RunErrors, Warnings
<1> QED
  BY <1>1, SometimesOf DEF FaultLines

LEMMA PowerOf ==
  ASSUME NEW X, \A s \in X : "binary" \in DOMAIN s, NEW s \in OfPower(X)
  PROVE  s.binary = "power"
BY DEF OfPower

LEMMA RecordIsOfPower ==
  ASSUME NEW s \in TerminalRecord
  PROVE  s.binary = "power"
<1> DEFINE X == Specs(TerminalFields, TFLM \cup AOT, "power")
                  \cup Sometimes(Specs(MeasurementFields, TFLM \cup AOT, "powerIna228"))
                  \cup Specs({Field("INA228_DIAG")}, TFLM \cup AOT, "powerIna228")
                  \cup Sometimes(Specs({Field("INA228_BYSTANDER_FAILED")}, TFLM \cup AOT,
                        "powerIna228"))
<1>1. ASSUME NEW lines, NEW engines, NEW cond, NEW t \in Sometimes(Specs(lines, engines, cond))
      PROVE  "binary" \in DOMAIN t
  <2>1. PICK u \in Specs(lines, engines, cond) : t = [u EXCEPT !.always = FALSE]
    BY DEF Sometimes
  <2> QED
    BY <2>1, SpecFields
<1>2. \A t \in X : "binary" \in DOMAIN t
  BY <1>1, SpecFields
<1>3. s \in OfPower(X)
  BY DEF TerminalRecord
<1> HIDE DEF X
<1> QED
  BY <1>2, <1>3, PowerOf

\* What gates ask of a profile binary.
LEMMA GatesAsk ==
  ASSUME NEW b, ~b.power
  PROVE  /\ Gate("ready", b) => b.link # "usb"
         /\ Gate("flush", b) => b.link = "rtt"
         /\ Gate("burst", b) => b.family = "ap3"
         /\ Gate("psramMetadata", b) => PsramNeeded(b)
         /\ Gate("arenaInPsram", b) => "arena" \in b.features
         /\ Gate("weightsInPsram", b) => "weights" \in b.features
         /\ Gate("aotArenas", b) => ArenaRegions(b)
         /\ Gate("aotPsramArenas", b) => "psram" \in b.features
         /\ Gate("aotPsramMetadata", b) => "psram" \in b.features
         /\ Gate("blobs", b) => "blob" \in b.features
         /\ Gate("busyLoop", b) => BusyLoop(b)
         /\ Gate("ethosU", b) => "npu" \in b.features
         /\ Gate("notStimerWindow", b) => ~StimerWindow(b)
         /\ Gate("trace", b) => "trace" \in b.features /\ b.link \notin {"swo", "uart"}
         /\ Gate("attachWait", b) => NeedsAttachWait(b) /\ b.link = "rtt" /\ ~StimerWindow(b)
         /\ ~Gate("power", b) /\ ~Gate("powerIna228", b)
BY DEF Gate

EnginesOf(b) ==
  /\ b.engine \in TFLM => b.engine = "tflm"
  /\ b.engine \in AOT => b.engine = "aot"
  /\ b.engine \in ET => b.engine = "et"
  /\ b.engine \in TFLM \cup AOT => b.engine \in {"tflm", "aot"}
  /\ b.engine \in TFLM \cup ET => b.engine \in {"tflm", "et"}

\* A profile build that reached its end has printed what its registry calls unconditional.
LEMMA ProfilePrintsAll ==
  ASSUME Profile, DueSoFar, fwPc = "done", NEW s \in Registry, s.always,
        binary.engine \in s.engines,
         Gate(s.gate, binary), s.binary # "power"
  PROVE  s.line \in printed \/ (BusyLoop(binary) /\ s.line = Key("CLEAN_ITER"))
<1> DEFINE due == s.line \in printed
<1>0. binary \in FwBuilds /\ ~binary.power /\ Gate(s.gate, binary) /\ EnginesOf(binary)
  BY DEF Profile, EnginesOf, TFLM, AOT, ET
<1>1. \A p \in Checkpoints \cup {"memory"} : Past(p)
  BY <1>0, Ranks DEF Past, Checkpoints
<1>2. /\ Given(binary.link # "usb", {Key("READY")}) \subseteq printed
      /\ binary.engine = "tflm" => /\ Has("arena") => Key("PSRAM_ARENA") \in printed
                                   /\ Has("weights") => Key("PSRAM_READY") \in printed
      /\ HeaderLines \subseteq printed /\ HeartbeatArm \subseteq printed
      /\ LinesOf(Setup) \subseteq printed /\ ClockLines \subseteq printed
      /\ Heartbeat("clean_window_begin") \in printed
      /\ WindowLines \subseteq printed /\ CleanLines \subseteq printed
      /\ PassLines \subseteq printed /\ PmuLines \subseteq printed
      /\ Sentinel("ITER") \in printed /\ Sentinel("END") \in printed
      /\ Given(binary.link = "rtt", {Heartbeat("flushing")}) \subseteq printed
  <2>1. /\ Past("preamble") /\ Past("memory") /\ Past("header") /\ Past("setup") /\ Past("clock")
        /\ Past("announce") /\ Past("window") /\ Past("report") /\ Past("passes")
        /\ Past("iterate") /\ Past("end")
    BY <1>1 DEF Checkpoints
  <2> QED
    BY <2>1, Zenon DEF DueSoFar
<1>3. CASE s \in Sentinels
  <2>1. CASE s \in Specs(SentinelLines({"START", "END", "PRESET", "ITER"}), AllEngines, "stream")
    <3>1. s.line \in SentinelLines({"START", "END", "PRESET", "ITER"})
      BY <2>1, SpecOf
    <3>2. Sentinel("START") \in printed /\ Sentinel("PRESET") \in printed
      BY <1>2 DEF HeaderLines, PassLines
    <3> QED
      BY <1>2, <3>1, <3>2 DEF SentinelLines
  <2>2. CASE s \in OfPower(Specs(SentinelLines({"POWER_TERMINAL_START", "POWER_TERMINAL_END"}),
                                 TFLM \cup AOT, "power"))
    BY <2>2, SpecFields, PowerOf
  <2> QED
    BY <1>3, <2>1, <2>2 DEF Sentinels
<1>4. CASE s \in Handshake
  <2>1. s.line = Key("READY") /\ s.gate = "ready"
    BY <1>4, SpecOf DEF Handshake
  <2> QED
    BY <1>0, <1>2, <2>1, GatesAsk DEF Given
<1>5. CASE s \in StartHeader
  <2>1. s.line \in Keys({"VERSION", "ENGINE", "EXTREME_MODE", "ITERATIONS", "WARMUP", "NUM_PRESETS",
                         "PRESETS", "POWER_SYNC"})
    BY <1>5, SpecOf, SometimesSpec DEF StartHeader
  <2> QED
    BY <1>2, <2>1 DEF HeaderLines
<1>6. /\ binary.engine = "tflm" => Setup = TflmSetup
      /\ binary.engine = "aot" => Setup = AotSetup
  BY DEF Setup
<1>7. /\ binary.engine = "tflm" =>
           /\ Has("npu") => Key("NPU") \in printed
           /\ Heartbeat("allocate") \in printed /\ Heartbeat("allocated") \in printed
           /\ Keys({"INPUT_SIZE", "OUTPUT_SIZE", "ALLOCATED_ARENA", "NUM_TENSORS", "NUM_INPUTS",
                    "NUM_OUTPUTS"}) \subseteq printed
      /\ binary.engine = "aot" =>
           /\ Has("npu") => Key("NPU") \in printed
           /\ Has("psram") => PsramKeys \cup {Key("PSRAM_ARENA_REGION")} \subseteq printed
           /\ ArenaRegions(binary) => Key("ARENAS_BOUND") \in printed
           /\ Has("blob") => Key("CONST_BLOB_LOADED") \in printed
           /\ Heartbeat("model_init_done") \in printed
           /\ Keys({"NUM_INPUTS", "NUM_OUTPUTS"}) \subseteq printed
  <2>1. CASE binary.engine = "tflm"
    BY <1>2, <1>6, <2>1, TflmSetupLines
  <2>2. CASE binary.engine = "aot"
    BY <1>2, <1>6, <2>2, AotSetupLines
  <2> QED
    BY <2>1, <2>2
<1>8. CASE s \in ClockAndHeartbeats
  <2>1. CASE s \in Specs({Key("SYSTEM_CLOCK_HZ")}, AllEngines, "any")
    <3>1. s.line = Key("SYSTEM_CLOCK_HZ")
      BY <2>1, SpecOf
    <3> QED
      BY <1>2, <3>1 DEF ClockLines
  <2>2. CASE s \in Specs(Keys({"BURST_AVAIL", "BURST_ENGAGED"}), AllEngines, "burst")
    <3>1. s.line \in Keys({"BURST_AVAIL", "BURST_ENGAGED"}) /\ s.gate = "burst"
      BY <2>2, SpecOf
    <3>2. binary.family = "ap3"
      BY <1>0, <3>1, GatesAsk
    <3> QED
      BY <1>2, <3>1, <3>2 DEF ClockLines, Given
  <2>3. CASE s \in Specs({Key("NPU")}, TFLM \cup AOT, "ethosU")
    <3>1. s.line = Key("NPU") /\ s.gate = "ethosU" /\ s.engines = TFLM \cup AOT
      BY <2>3, SpecOf
    <3>2. Has("npu") /\ binary.engine \in {"tflm", "aot"}
      BY <1>0, <3>1, GatesAsk DEF Has, EnginesOf
    <3> QED
      BY <1>7, <3>1, <3>2
  <2>4. CASE s \in Specs(Keys({"HEARTBEAT_ENABLED", "HEARTBEAT_EVERY_N_OPS", "HEARTBEAT_EVERY_MS"}),
                         AllEngines, "stream")
    <3>1. s.line \in Keys({"HEARTBEAT_ENABLED", "HEARTBEAT_EVERY_N_OPS", "HEARTBEAT_EVERY_MS"})
      BY <2>4, SpecOf
    <3> QED
      BY <1>2, <3>1 DEF HeartbeatArm
  <2>5. CASE s \in Sometimes(Specs({Key("MEASURED_CLOCK_HZ")}, AllEngines, "stimerWindow"))
    BY <2>5, SometimesSpec
  <2> QED
    BY <1>8, <2>1, <2>2, <2>3, <2>4, <2>5 DEF ClockAndHeartbeats
<1>9. CASE s \in ModelSizes
  <2>1. CASE s \in Specs(Keys({"MODEL_SIZE", "ARENA_SIZE"}), TFLM \cup ET, "stream")
    <3>1. s.line \in Keys({"MODEL_SIZE", "ARENA_SIZE"}) /\ s.engines = TFLM \cup ET
      BY <2>1, SpecOf
    <3>2. binary.engine # "aot"
      BY <1>0, <3>1 DEF EnginesOf
    <3> QED
      BY <1>2, <3>1, <3>2 DEF HeaderLines, Given
  <2>2. CASE s \in Specs(Keys({"ALLOCATED_ARENA", "NUM_TENSORS"}), TFLM, "any")
             \/ s \in Specs(Keys({"INPUT_SIZE", "OUTPUT_SIZE"}), TFLM, "any")
    <3>1. /\ s.line \in Keys({"ALLOCATED_ARENA", "NUM_TENSORS"})
               \/ s.line \in Keys({"INPUT_SIZE", "OUTPUT_SIZE"})
          /\ s.engines = TFLM
      BY <2>2, SpecOf
    <3>2. binary.engine = "tflm"
      BY <1>0, <3>1 DEF EnginesOf
    <3> QED
      BY <1>7, <3>1, <3>2 DEF Keys
  <2>3. CASE s \in Specs(Keys({"INPUT_SIZE", "OUTPUT_SIZE"}), ET, "stream")
    <3>1. s.line \in Keys({"INPUT_SIZE", "OUTPUT_SIZE"}) /\ s.engines = ET
      BY <2>3, SpecOf
    <3>2. binary.engine = "et"
      BY <1>0, <3>1 DEF EnginesOf
    <3> QED
      BY <1>2, <3>1, <3>2 DEF HeaderLines, Given
  <2>4. CASE s \in Specs(Keys({"NUM_INPUTS", "NUM_OUTPUTS"}), TFLM \cup AOT, "any")
    <3>1. s.line \in Keys({"NUM_INPUTS", "NUM_OUTPUTS"}) /\ s.engines = TFLM \cup AOT
      BY <2>4, SpecOf
    <3>2. binary.engine \in {"tflm", "aot"}
      BY <1>0, <3>1 DEF EnginesOf
    <3> QED
      BY <1>7, <3>1, <3>2 DEF Keys
  <2> QED
    BY <1>9, <2>1, <2>2, <2>3, <2>4 DEF ModelSizes
<1>10. CASE s \in AotMemory
  <2>1. CASE s \in Specs(Keys({"INPUT_%d_SIZE", "OUTPUT_%d_SIZE"}), AOT, "any")
    <3>1. s.line \in Keys({"INPUT_%d_SIZE", "OUTPUT_%d_SIZE"}) /\ s.engines = AOT
      BY <2>1, SpecOf
    <3>2. binary.engine = "aot"
      BY <1>0, <3>1 DEF EnginesOf
    <3> QED
      BY <1>2, <3>1, <3>2 DEF ClockLines, Given
  <2>2. CASE s \in Specs({Key("ARENAS_BOUND")}, AOT, "aotArenas")
    <3>1. s.line = Key("ARENAS_BOUND") /\ s.engines = AOT /\ s.gate = "aotArenas"
      BY <2>2, SpecOf
    <3> QED
      BY <1>0, <1>7, <3>1, GatesAsk DEF EnginesOf
  <2>3. CASE s \in Specs({Key("CONST_BLOB_LOADED")}, AOT, "blobs")
    <3>1. s.line = Key("CONST_BLOB_LOADED") /\ s.engines = AOT /\ s.gate = "blobs"
      BY <2>3, SpecOf
    <3> QED
      BY <1>0, <1>7, <3>1, GatesAsk DEF EnginesOf, Has
  <2> QED
    BY <1>10, <2>1, <2>2, <2>3 DEF AotMemory
<1>11. CASE s \in Psram
  <2>1. CASE s \in Specs(PsramKeys, TFLM, "psramMetadata")
    <3>1. s.line \in PsramKeys /\ s.engines = TFLM /\ s.gate = "psramMetadata"
      BY <2>1, SpecOf
    <3>2. binary.engine = "tflm" /\ PsramNeeded(binary)
      BY <1>0, <3>1, GatesAsk DEF EnginesOf
    <3> QED
      BY <1>2, <3>1, <3>2 DEF HeaderLines, Given
  <2>2. CASE s \in Specs(PsramKeys, AOT, "aotPsramMetadata")
    <3>1. s.line \in PsramKeys /\ s.engines = AOT /\ s.gate = "aotPsramMetadata"
      BY <2>2, SpecOf
    <3>2. binary.engine = "aot" /\ Has("psram")
      BY <1>0, <3>1, GatesAsk DEF EnginesOf, Has
    <3> QED
      BY <1>7, <3>1, <3>2
  <2>3. CASE s \in Specs({Key("PSRAM_ARENA")}, TFLM, "arenaInPsram")
    <3>1. s.line = Key("PSRAM_ARENA") /\ s.engines = TFLM /\ s.gate = "arenaInPsram"
      BY <2>3, SpecOf
    <3>2. binary.engine = "tflm" /\ Has("arena")
      BY <1>0, <3>1, GatesAsk DEF EnginesOf, Has
    <3> QED
      BY <1>2, <3>1, <3>2
  <2>4. CASE s \in Specs({Key("PSRAM_READY")}, TFLM, "weightsInPsram")
    <3>1. s.line = Key("PSRAM_READY") /\ s.engines = TFLM /\ s.gate = "weightsInPsram"
      BY <2>4, SpecOf
    <3>2. binary.engine = "tflm" /\ Has("weights")
      BY <1>0, <3>1, GatesAsk DEF EnginesOf, Has
    <3> QED
      BY <1>2, <3>1, <3>2
  <2>5. CASE s \in Specs({Key("PSRAM_ARENA_REGION")}, AOT, "aotPsramArenas")
    <3>1. s.line = Key("PSRAM_ARENA_REGION") /\ s.engines = AOT /\ s.gate = "aotPsramArenas"
      BY <2>5, SpecOf
    <3>2. binary.engine = "aot" /\ Has("psram")
      BY <1>0, <3>1, GatesAsk DEF EnginesOf, Has
    <3> QED
      BY <1>7, <3>1, <3>2
  <2> QED
    BY <1>11, <2>1, <2>2, <2>3, <2>4, <2>5 DEF Psram
<1>12. CASE s \in CleanWindow
  <2>1. CASE s \in Specs({Key("CLEAN_WINDOW_PROBE")}, AllEngines, "busyLoop")
    <3>1. s.line = Key("CLEAN_WINDOW_PROBE") /\ s.gate = "busyLoop"
      BY <2>1, SpecOf
    <3>2. BusyLoop(binary)
      BY <1>0, <3>1, GatesAsk
    <3> QED
      BY <1>2, <3>1, <3>2 DEF WindowLines, Given
  <2>2. CASE s \in Specs({Key("CLEAN_ITER")}, AllEngines, "trace")
    <3>1. s.line = Key("CLEAN_ITER") /\ s.gate = "trace"
      BY <2>2, SpecOf
    <3>2. Has("trace") /\ binary.link \notin {"swo", "uart"}
      BY <1>0, <3>1, GatesAsk DEF Has
    <3> QED
      BY <1>2, <3>1, <3>2 DEF WindowLines, Given
  <2>3. CASE s \in Sometimes(Specs(Keys({"CLEAN_INFER_COUNT", "CLEAN_INFER_TOTAL_CYCLES",
                                         "CLEAN_INFER_AVG_CYCLES", "CLEAN_INFER_AVG_US"}),
                                   AllEngines, "any"))
    BY <2>3, SometimesSpec
  <2> QED
    BY <1>12, <2>1, <2>2, <2>3 DEF CleanWindow
<1>13. CASE s \in CleanChecks
  <2> DEFINE checks == Keys({"CLEAN_STALLED_ITERS", "CLEAN_PARTIAL_ITERS", "CLEAN_REF_CYCLES",
                             "CLEAN_DWT_RATE_CYC", "CLEAN_DWT_RATE_US"})
  <2>1. CASE s \in Specs(checks, TFLM \cup AOT, "notStimerWindow")
    <3>1. s.line \in checks /\ s.engines = TFLM \cup AOT /\ s.gate = "notStimerWindow"
      BY <2>1, SpecOf
    <3>2. ~StimerWindow(binary) /\ ~OwnWindow
      BY <1>0, <3>1, GatesAsk DEF EnginesOf, OwnWindow
    <3>3. checks \subseteq CleanLines
      BY <3>2 DEF CleanLines, Given
    <3> QED
      BY <1>2, <3>1, <3>3
  <2>2. CASE s \in Specs({Key("CLEAN_ATTACH_WAIT_US")}, TFLM \cup AOT, "attachWait")
    <3>1. s.line = Key("CLEAN_ATTACH_WAIT_US") /\ s.gate = "attachWait"
      BY <2>2, SpecOf
    <3>2. AttachWaited
      BY <1>0, <3>1, GatesAsk DEF AttachWaited
    <3> QED
      BY <1>2, <3>1, <3>2 DEF CleanLines, Given
  <2> QED
    BY <1>13, <2>1, <2>2 DEF CleanChecks
<1>14. CASE s \in ProfiledAndPmu
  <2>1. s \in Specs({Key("PMU_INIT_STATUS")}, ET, "any")
    BY <1>14, SometimesSpec DEF ProfiledAndPmu
  <2>2. s.line = Key("PMU_INIT_STATUS") /\ s.engines = ET
    BY <2>1, SpecOf
  <2> QED
    BY <1>0, <1>2, <2>2 DEF EnginesOf, PmuLines
<1>15. CASE s \in Heartbeats
  <2>1. CASE s \in Specs({Heartbeat("clean_window_begin")}, AllEngines, "any")
    BY <1>2, <2>1, SpecOf
  <2>2. CASE s \in Specs({Heartbeat("init"), Heartbeat("warmup_done")}, AllEngines, "stream")
    <3>1. s.line \in {Heartbeat("init"), Heartbeat("warmup_done")}
      BY <2>2, SpecOf
    <3> QED
      BY <1>2, <3>1 DEF HeartbeatArm, PassLines
  <2>3. CASE s \in Specs({Heartbeat("allocate")}, TFLM, "stream")
             \/ s \in Specs({Heartbeat("allocated")}, TFLM, "any")
    <3>1. s.line \in {Heartbeat("allocate"), Heartbeat("allocated")} /\ s.engines = TFLM
      BY <2>3, SpecOf
    <3> QED
      BY <1>0, <1>7, <3>1 DEF EnginesOf
  <2>4. CASE s \in Specs({Heartbeat("model_init_done")}, AOT, "any")
    <3>1. s.line = Heartbeat("model_init_done") /\ s.engines = AOT
      BY <2>4, SpecOf
    <3> QED
      BY <1>0, <1>7, <3>1 DEF EnginesOf
  <2>5. CASE s \in Sometimes(Specs({Heartbeat("infer")}, AllEngines, "any"))
    BY <2>5, SometimesSpec
  <2>6. CASE s \in Specs({Heartbeat("flushing")}, AllEngines, "flush")
    <3>1. s.line = Heartbeat("flushing") /\ s.gate = "flush"
      BY <2>6, SpecOf
    <3> QED
      BY <1>0, <1>2, <3>1, GatesAsk DEF Given
  <2> QED
    BY <1>15, <2>1, <2>2, <2>3, <2>4, <2>5, <2>6 DEF Heartbeats
<1>16. s \notin FaultLines /\ s \notin TerminalRecord
  BY FaultsAreSometimes, RecordIsOfPower
<1> QED
  BY <1>3, <1>4, <1>5, <1>8, <1>9, <1>10, <1>11, <1>12, <1>13, <1>14, <1>15, <1>16,
        Zenon DEF Registry

\* And a power binary what its own does.
LEMMA PowerPrintsAll ==
  ASSUME binary \in FwBuilds, binary.power, DueSoFar, fwPc = "done", NEW s \in Registry, s.always,
         Gate(s.gate, binary), s.binary = "power"
  PROVE  s.line \in printed
<1> DEFINE ends == SentinelLines({"POWER_TERMINAL_START", "POWER_TERMINAL_END"})
           Transport(X) == \A t \in X : t.binary = "transport" \/ ~t.always
<1>1. ends \cup TerminalFields \cup Given(binary.monitor # "none", {Field("INA228_DIAG")})
        \subseteq printed
  BY DEF DueSoFar
<1>2. \A lines, engines, cond : Transport(Specs(lines, engines, cond))
  BY DEF Specs
<1>3. \A lines, engines, cond : Transport(Sometimes(Specs(lines, engines, cond)))
  BY SometimesSpec
<1>4. Transport(FaultLines)
  BY FaultsAreSometimes
<1> HIDE DEF Transport
<1>5. \A X, Y : Transport(X) /\ Transport(Y) => Transport(X \cup Y)
  BY DEF Transport
<1>6. /\ Transport(Handshake) /\ Transport(StartHeader) /\ Transport(ClockAndHeartbeats)
      /\ Transport(ModelSizes) /\ Transport(AotMemory) /\ Transport(Psram) /\ Transport(CleanWindow)
      /\ Transport(CleanChecks) /\ Transport(ProfiledAndPmu) /\ Transport(Heartbeats)
  BY <1>2, <1>3, <1>5 DEF Handshake, StartHeader, ClockAndHeartbeats, ModelSizes, AotMemory, Psram,
     CleanWindow, CleanChecks, ProfiledAndPmu, Heartbeats
<1>7. s \in Sentinels \/ s \in TerminalRecord
  BY <1>4, <1>6, Zenon DEF Transport, Registry
<1>8. ASSUME NEW X, \A t \in X : {"line", "gate", "always", "binary"} \subseteq DOMAIN t,
             s \in OfPower(X)
      PROVE  \E t \in X : s.line = t.line /\ s.gate = t.gate /\ s.always = t.always
  <2>1. PICK t \in X : s = [t EXCEPT !.binary = "power"]
    BY <1>8 DEF OfPower
  <2> QED
    BY <1>8, <2>1
<1>9. \A lines, engines, cond : \A t \in Specs(lines, engines, cond) :
        {"line", "gate", "always", "binary"} \subseteq DOMAIN t
  BY DEF Specs
<1>10. \A lines, engines, cond : \A t \in Sometimes(Specs(lines, engines, cond)) :
         {"line", "gate", "always", "binary"} \subseteq DOMAIN t
  <2> SUFFICES ASSUME NEW lines, NEW engines, NEW cond,
                      NEW t \in Sometimes(Specs(lines, engines, cond))
               PROVE  {"line", "gate", "always", "binary"} \subseteq DOMAIN t
    OBVIOUS
  <2>1. PICK u \in Specs(lines, engines, cond) : t = [u EXCEPT !.always = FALSE]
    BY DEF Sometimes
  <2> QED
    BY <1>9, <2>1
<1>11. CASE s \in Sentinels
  <2>1. s \notin Specs(SentinelLines({"START", "END", "PRESET", "ITER"}), AllEngines, "stream")
    BY <1>2 DEF Transport
  <2>2. s \in OfPower(Specs(ends, TFLM \cup AOT, "power"))
    BY <1>11, <2>1 DEF Sentinels
  <2> HIDE DEF ends
  <2> DEFINE X == Specs(ends, TFLM \cup AOT, "power")
  <2>4. \A t \in X : {"line", "gate", "always", "binary"} \subseteq DOMAIN t
    BY <1>9
  <2>5. \A t \in X : t.line \in ends
    BY SpecOf
  <2> HIDE DEF X
  <2>3. PICK t \in X : s.line = t.line
    BY <1>8, <2>2, <2>4 DEF X
  <2> QED
    BY <1>1, <2>3, <2>5
<1>12. CASE s \in TerminalRecord
  <2> DEFINE fields == Specs(TerminalFields, TFLM \cup AOT, "power")
             measured == Sometimes(Specs(MeasurementFields, TFLM \cup AOT, "powerIna228"))
             diag == Specs({Field("INA228_DIAG")}, TFLM \cup AOT, "powerIna228")
             failed == Sometimes(Specs({Field("INA228_BYSTANDER_FAILED")}, TFLM \cup AOT,
                                       "powerIna228"))
  <2>1. s \in OfPower(fields \cup measured \cup diag \cup failed)
    BY <1>12 DEF TerminalRecord
  <2>2. \A t \in measured \cup failed : ~t.always
    BY SometimesSpec
  <2>3. \A t \in fields \cup measured \cup diag \cup failed :
          {"line", "gate", "always", "binary"} \subseteq DOMAIN t
    BY <1>9, <1>10
  <2>4. /\ \A t \in fields : t.line \in TerminalFields
        /\ \A t \in diag : t.line = Field("INA228_DIAG") /\ t.gate = "powerIna228"
    BY SpecOf
  <2> HIDE DEF fields, measured, diag, failed
  <2>5. PICK t \in fields \cup measured \cup diag \cup failed :
          s.line = t.line /\ s.gate = t.gate /\ s.always = t.always
    BY <1>8, <2>1, <2>3
  <2>6. t \in fields \cup diag
    BY <2>2, <2>5
  <2>7. s.gate = "powerIna228" => binary.monitor # "none"
    BY DEF Gate
  <2> QED
    BY <1>1, <2>4, <2>5, <2>6, <2>7 DEF Given
<1> QED
  BY <1>7, <1>11, <1>12

\* What the invariant says to whoever reads the wire.
LEMMA SoundSoFar ==
  ASSUME FirmwareSoFar
  PROVE  FirmwareIsSound
<1>1. LinkIsQuiet
  BY DEF FirmwareSoFar, WireSoFar, HardwareSoFar, LinkIsQuiet
<1>2. ShortfallIsReported
  <2>1. SUFFICES ASSUME fwPc = "close", DwtWindow
                 PROVE  /\ meter.lost => ClockEvidence \/ SlowedInWarmup
                        /\ ClockEvidence => meter.kind # "none"
    BY DEF ShortfallIsReported, DwtWindow
  <2>2. /\ meter \in Meters
        /\ meter.kind = "none" <=> meter.stall = 0
        /\ meter.stall = 0 => meter.rateOk /\ meter.warmMin = Whole /\ Unused
        /\ meter.lost => ClockEvidence \/ SlowedInWarmup
    BY <2>1 DEF FirmwareSoFar, MeterSoFar, GateUp
  <2>3. meter.stall = 0 => ~ClockEvidence
    BY <2>2 DEF ClockEvidence, Unused, Whole
  <2> QED
    BY <2>2, <2>3
<1>3. WireAsDeclared
  <2>1. printed \subseteq MayPrint(binary)
    BY DEF FirmwareSoFar, WireSoFar
  <2>2. ASSUME RanToEnd, NEW l \in MustPrint(binary), l \notin Given(BusyLoop(binary),
        {Key("CLEAN_ITER")})
        PROVE  l \in printed
    <3>1. PICK s \in Registry : /\ binary.engine \in s.engines /\ Gate(s.gate, binary)
                                /\ (binary.power <=> s.binary = "power")
                                /\ s.always /\ l = s.line
      BY <2>2 DEF MustPrint, Owned
    <3>2. fwPc = "done" /\ binary \in FwBuilds /\ binary.power \in BOOLEAN /\ DueSoFar
      BY <2>2, BuildFacts DEF RanToEnd, FirmwareSoFar
    <3>3. CASE binary.power
      BY <3>1, <3>2, <3>3, PowerPrintsAll
    <3>4. CASE ~binary.power
      <4>1. s.line \in printed \/ (BusyLoop(binary) /\ s.line = Key("CLEAN_ITER"))
        BY <3>1, <3>2, <3>4, ProfilePrintsAll DEF Profile
      <4> QED
        BY <2>2, <3>1, <4>1 DEF Given
    <3> QED
      BY <3>2, <3>3, <3>4
  <2> QED
    BY <2>1, <2>2 DEF WireAsDeclared
<1> QED
  BY <1>1, <1>2, <1>3 DEF FirmwareIsSound, FirmwareSoFar

LEMMA FirmwareStep ==
  ASSUME FirmwareSoFar, [FwNext]_fwVars
  PROVE  FirmwareSoFar'
<1>1. CASE FwNext
  <2>1. binary' = binary
    BY <1>1, BinaryStays
  <2> QED
    BY <1>1, <2>1, HardwareStep, WireStep, MeterStep, DueStep DEF FirmwareSoFar
<1>2. CASE UNCHANGED fwVars
  <2>1. UNCHANGED <<binary, fwPc, hw, meter, ina, printed, muted, deadRead>>
    BY <1>2 DEF fwVars
  <2>2. (binary \in FwBuilds)' /\ ClockIsReadable' /\ HardwareSoFar'
    BY <2>1 DEF FirmwareSoFar, ClockIsReadable, HardwareSoFar, GatesDebug, OwnWindow
  <2>3. WireSoFar'
    BY <2>1 DEF FirmwareSoFar, WireSoFar, Tolerated, WindowLines, Has
  <2>4. MeterSoFar'
    BY <2>1, MeterRests
  <2>5. DueSoFar'
    <3>1. /\ HeaderLines' = HeaderLines /\ HeartbeatArm' = HeartbeatArm
          /\ LinesOf(Setup)' = LinesOf(Setup) /\ ClockLines' = ClockLines
          /\ WindowLines' = WindowLines /\ CleanLines' = CleanLines
          /\ PassLines' = PassLines /\ PmuLines' = PmuLines
      BY <2>1 DEF Has, HeaderLines, HeartbeatArm, Setup, TflmSetup, AotSetup, NpuInit, ClockLines,
         WindowLines, CleanLines, AttachWaited, OwnWindow, PassLines, PmuLines, LinesOf
    <3>2. /\ \A p : Past(p)' = Past(p)
          /\ Has("arena")' = Has("arena") /\ Has("weights")' = Has("weights")
      BY <2>1 DEF Past, Has
    <3> QED
      BY <2>1, <3>1, <3>2 DEF FirmwareSoFar, DueSoFar
  <2> QED
    BY <2>2, <2>3, <2>4, <2>5 DEF FirmwareSoFar
<1> QED
  BY <1>1, <1>2

\* The program's place says what the hardware is set to, what the counter can have read by then
\* and what has been printed: FirmwareImage's inductive invariant, for every build.
THEOREM FirmwareInvariant == FwSpec => []FirmwareSoFar
<1>1. binary \in FwBuilds /\ FwInit => FirmwareSoFar
  BY FirmwareInit
<1>2. FirmwareSoFar /\ [FwNext]_fwVars => FirmwareSoFar'
  BY FirmwareStep
<1> QED
  BY <1>1, <1>2, PTL DEF FwSpec

\* The window measures what it is meant to, and the host reads what the image says: no build
\* uses the counter while its domain is off, writes into its own window or passes a slept-through
\* iteration off as a short one, and each prints what the registry says of it.
THEOREM FirmwareIsAlwaysSound == FwSpec => []FirmwareIsSound
<1>1. FirmwareSoFar => FirmwareIsSound
  BY SoundSoFar
<1> QED
  BY <1>1, FirmwareInvariant, PTL
=============================================================================
