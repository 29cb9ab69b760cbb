------------------------ MODULE GatedCapture_proofs ------------------------
(***************************************************************************)
(* Proofs about GatedCapture for every choice of the streams, of           *)
(* require_done_state and of lock-step: the invariant that explains the    *)
(* fence, and that the capture implements CaptureFence.  And about what it *)
(* concludes from the streams, GateEvidence: for any lines, and any way    *)
(* they are cut, refused and lost, an accepted trace is the signal, a      *)
(* completion is a transaction, and the window is a real one.              *)
(***************************************************************************)
EXTENDS GatedCapture, GateEvidence, FiniteSetTheorems, SequenceTheorems, WellFoundedInduction, TLAPS

\* Statistics first, then the optional streams: at most three in all.
LEMMA StreamsInOrder ==
  /\ LastCall \in {2, 4, 6}
  /\ \A i \in 1 .. Len(AllStreams) : AllStreams[i] \in Streams
  /\ Len(AllStreams) = LastCall \div 2
  /\ Streams \subseteq {"stats", "gate", "state"}
  /\ "stats" \in Streams
<1>1. OptionalStreams \in Seq({"gate", "state"}) /\ Len(OptionalStreams) \in {0, 1, 2}
  <2>1. CASE OptionalStreams = <<>>
    BY <2>1
  <2>2. CASE OptionalStreams = <<"gate">>
    BY <2>2
  <2>3. CASE OptionalStreams = <<"gate", "state">>
    BY <2>3
  <2>4. QED
    BY <2>1, <2>2, <2>3, OptionalStreamsAssumption
<1>2. /\ Len(AllStreams) = 1 + Len(OptionalStreams)
      /\ AllStreams[1] = "stats"
      /\ \A i \in 2 .. Len(AllStreams) : AllStreams[i] = OptionalStreams[i - 1]
  BY <1>1 DEF AllStreams
<1>3. \A i \in 1 .. Len(OptionalStreams) : OptionalStreams[i] \in {"gate", "state"}
  BY <1>1
<1>4. \A i \in 2 .. Len(AllStreams) : i - 1 \in 1 .. Len(OptionalStreams)
  BY <1>1, <1>2
<1>5. \A i \in 1 .. Len(AllStreams) : AllStreams[i] \in {"stats", "gate", "state"}
  BY <1>2, <1>3, <1>4, <1>1
<1>6. QED
  BY <1>1, <1>2, <1>5 DEF LastCall, Streams

\* Every vendor call of the set-up is about a control or a subscription.
LEMMA SetupCallIsControl ==
  ASSUME NEW i \in 1 .. LastCall
  PROVE  SetupCall(i) \in Controls
<1>1. CASE i <= 2
  BY <1>1, StreamsInOrder DEF SetupCall, Controls
<1>2. CASE i > 2
  <2>1. (i + 1) \div 2 \in 1 .. Len(AllStreams)
    BY StreamsInOrder
  <2>2. AllStreams[(i + 1) \div 2] \in Streams
    BY <2>1, StreamsInOrder
  <2>3. QED
    BY <1>2, <2>2 DEF SetupCall, Controls
<1>3. QED
  BY <1>1, <1>2, StreamsInOrder

\* The contexts are distinct and finitely many.
LEMMA ContextsFinite ==
  /\ IsFiniteSet(Contexts)
  /\ "poll" \notin Streams /\ "phase" \notin Streams
  /\ \A C \in SUBSET Contexts : IsFiniteSet(C)
<1>1. IsFiniteSet({"poll", "phase", "stats", "gate", "state"})
  <2>1. IsFiniteSet({})
    BY FS_EmptySet
  <2>2. IsFiniteSet({} \cup {"poll"})
    BY <2>1, FS_AddElement
  <2>3. IsFiniteSet({} \cup {"poll"} \cup {"phase"})
    BY <2>2, FS_AddElement
  <2>4. IsFiniteSet({} \cup {"poll"} \cup {"phase"} \cup {"stats"})
    BY <2>3, FS_AddElement
  <2>5. IsFiniteSet({} \cup {"poll"} \cup {"phase"} \cup {"stats"} \cup {"gate"})
    BY <2>4, FS_AddElement
  <2>6. IsFiniteSet({} \cup {"poll"} \cup {"phase"} \cup {"stats"} \cup {"gate"} \cup {"state"})
    BY <2>5, FS_AddElement
  <2>7. {"poll", "phase", "stats", "gate", "state"}
          = {} \cup {"poll"} \cup {"phase"} \cup {"stats"} \cup {"gate"} \cup {"state"}
    OBVIOUS
  <2>8. QED
    BY <2>6, <2>7
<1>2. Contexts \subseteq {"poll", "phase", "stats", "gate", "state"}
  BY StreamsInOrder DEF Contexts
<1>3. \A C \in SUBSET Contexts : IsFiniteSet(C)
  BY <1>1, <1>2, FS_Subset
<1>4. QED
  BY <1>3, StreamsInOrder

\* Entering processing(): one context more, one unit more.
LEMMA AdmitCounts ==
  ASSUME admitted \subseteq Contexts, count = Cardinality(admitted),
         NEW c \in Contexts, c \notin admitted, Admit(c)
  PROVE  /\ admitted' \subseteq Contexts
         /\ count' = Cardinality(admitted')
         /\ admitted' = admitted \cup {c}
         /\ ~stopped /\ stopped' = stopped
<1>1. IsFiniteSet(admitted)
  BY ContextsFinite
<1>2. Cardinality(admitted \cup {c}) = Cardinality(admitted) + 1
  BY <1>1, FS_AddElement
<1>3. QED
  BY <1>2 DEF Admit

\* Leaving it: as many units less as contexts.
LEMMA DismissCounts ==
  ASSUME admitted \subseteq Contexts, count = Cardinality(admitted),
         NEW C, C \subseteq admitted, Dismiss(C)
  PROVE  /\ admitted' \subseteq Contexts
         /\ count' = Cardinality(admitted')
         /\ admitted' = admitted \ C
         /\ stopped' = stopped
<1>1. IsFiniteSet(admitted)
  BY ContextsFinite
<1>2. Cardinality(admitted \ C) = Cardinality(admitted) - Cardinality(admitted \cap C)
  BY <1>1, FS_Difference
<1>3. admitted \cap C = C
  OBVIOUS
<1>4. QED
  BY <1>2, <1>3 DEF Dismiss

\* So the count stays within what the threads that exist can hold.
LEMMA CountBounded ==
  ASSUME admitted \subseteq Contexts, count = Cardinality(admitted)
  PROVE  count \in 0 .. Cardinality(Contexts)
<1>1. Cardinality(admitted) <= Cardinality(Contexts)
  BY ContextsFinite, FS_Subset
<1>2. Cardinality(admitted) \in Nat /\ Cardinality(Contexts) \in Nat
  BY ContextsFinite, FS_CardinalityType
<1>3. QED
  BY <1>1, <1>2

LEMMA InitIInv == Init => IInv
<1> SUFFICES ASSUME Init PROVE IInv
  OBVIOUS
<1>0. held \in BOOLEAN /\ stop \in BOOLEAN /\ fresh \in BOOLEAN /\ owed \in BOOLEAN
      /\ complete \in BOOLEAN /\ errors \in BOOLEAN /\ dirty \in BOOLEAN
      /\ stopped \in BOOLEAN
  BY Zenon DEF Init
<1>1. MainTypes
  BY <1>0, StreamsInOrder DEF Init, MainTypes, MainPCs, Failures, Outcomes, Samples, Phases
<1>2. PollerTypes
  BY <1>0 DEF Init, PollerTypes, PollerPCs, Samples, Phases, PollPCs, PhasePCs, InsidePCs
<1>3. VendorTypes
  BY <1>0 DEF Init, VendorTypes
<1>4. count = Cardinality(admitted) /\ admitted \subseteq Contexts
  BY FS_EmptySet DEF Init
<1>5. FenceTypes
  BY <1>0, <1>4, CountBounded DEF Init, FenceTypes
<1>6. CountIsAdmitted
  BY <1>4 DEF Init, CountIsAdmitted, PollPCs, PhasePCs
<1>7. ShutdownFollowsMain
  BY DEF Init, ShutdownFollowsMain, PastDrain
<1>8. QED
  BY <1>1, <1>2, <1>3, <1>5, <1>6, <1>7 DEF IInv, TypeOK

\* The fence apart, every step keeps the shape of the state.
LEMMA TypesStep ==
  ASSUME MainTypes, PollerTypes, VendorTypes, [Next]_vars
  PROVE  MainTypes' /\ PollerTypes' /\ VendorTypes'
<1> USE DEF MainTypes, PollerTypes, VendorTypes, mainVars, fenceVars, sampleVars,
            pollerVars, vendorVars, Samples, Phases
<1>1. CASE OpenDevice
  <2>1. held' \in BOOLEAN
    BY <1>1, Zenon DEF OpenDevice, mainVars, sampleVars, vendorVars
  <2>2. QED
    BY <1>1, <2>1 DEF OpenDevice, MainPCs, Outcomes
<1>2. CASE CheckMode
  BY <1>2 DEF CheckMode, MainPCs, Outcomes
<1>3. CASE StartStream
  <2>1. LastCall \in Nat
    BY StreamsInOrder
  <2>2. step # 0 => SetupCall(step) \in Controls
    BY <1>3, <2>1, SetupCallIsControl DEF StartStream
  <2>3. attempted' \subseteq Controls /\ device' \subseteq Controls
    BY <1>3, <2>2 DEF StartStream
  <2>4. step' \in 0 .. LastCall + 1
    BY <1>3, <2>1 DEF StartStream
  <2>5. mpc' \in MainPCs /\ inflight' \in Failures \cup {"none"} /\ evidence' \in {0, 1}
    BY <1>3 DEF StartStream, Mutate, MainPCs, Failures
  <2>6. QED
    BY <1>3, <2>3, <2>4, <2>5 DEF StartStream
<1>4. CASE StreamsStarted
  BY <1>4, StreamsInOrder DEF StreamsStarted, MainPCs
<1>5. CASE StartPoller
  BY <1>5 DEF StartPoller, MainPCs, PollerPCs, PollPCs, PhasePCs, InsidePCs
<1>6. CASE ResetTarget
  <2>1. fresh' \in BOOLEAN
    BY <1>6, Zenon DEF ResetTarget, HookRaises, mainVars, sampleVars, vendorVars
  <2>2. QED
    BY <1>6, <2>1 DEF ResetTarget, HookRaises, MainPCs, Failures
<1>7. CASE WaitReady
  <2>1. fresh' \in BOOLEAN
    BY <1>7, Zenon DEF WaitReady, mainVars, sampleVars, vendorVars
  <2>2. QED
    BY <1>7, <2>1 DEF WaitReady, MainPCs
<1>8. CASE GiveUpReady
  BY <1>8 DEF GiveUpReady, MainPCs
<1>9. CASE ReportNotReady
  BY <1>9 DEF ReportNotReady, HookRaises, MainPCs, Failures
<1>10. CASE SwitchPhase
  BY <1>10 DEF SwitchPhase, MainPCs
<1>11. CASE SignalGo
  BY <1>11 DEF SignalGo, HookRaises, MainPCs, Failures
<1>12. CASE WaitWindow
  BY <1>12 DEF WaitWindow, MainPCs
<1>13. CASE RequestStop
  <2>1. stop' \in BOOLEAN
    BY <1>13, Zenon DEF RequestStop, mainVars, sampleVars, vendorVars
  <2>2. QED
    BY <1>13, <2>1 DEF RequestStop, MainPCs
<1>14. CASE CloseFence
  BY <1>14 DEF CloseFence, MainPCs
<1>15. CASE Drained
  BY <1>15 DEF Drained, MainPCs
<1>16. CASE JoinPoller
  BY <1>16, StreamsInOrder DEF JoinPoller, MainPCs
<1>17. CASE ReleaseStream
  <2>1. dirty' \in BOOLEAN
    BY <1>17, Zenon DEF ReleaseStream, mainVars, sampleVars, vendorVars
  <2>2. QED
    BY <1>17, <2>1, StreamsInOrder DEF ReleaseStream, MainPCs
<1>18. CASE StreamsReleased
  BY <1>18 DEF StreamsReleased, MainPCs
<1>19. CASE Decide
  BY <1>19 DEF Decide, MainPCs, Outcomes
<1>20. CASE CloseDevice
  <2>1. held' \in BOOLEAN
    BY <1>20, Zenon DEF CloseDevice, mainVars, sampleVars, vendorVars
  <2>2. QED
    BY <1>20, <2>1 DEF CloseDevice, MainPCs
<1>21. CASE PollerTop
  BY <1>21 DEF PollerTop, Admit, PollerPCs, PollPCs, PhasePCs, InsidePCs
<1>22. CASE PhaseAtTop
  <2>1. stop' \in BOOLEAN /\ errors' \in BOOLEAN
    BY <1>22, Zenon DEF PhaseAtTop, Abort, sampleVars
  <2>2. QED
    BY <1>22, <2>1 DEF PhaseAtTop, Abort, Dismiss, PollerPCs, PollPCs, PhasePCs, InsidePCs
<1>23. CASE PublishSample
  <2>1. fresh' \in BOOLEAN
    BY <1>23, Zenon DEF PublishSample, sampleVars
  <2>2. QED
    BY <1>23, <2>1 DEF PublishSample, Admit, PollerPCs, PollPCs, PhasePCs, InsidePCs
<1>24. CASE NestedPhase
  BY <1>24 DEF NestedPhase, Admit, Dismiss, PollerPCs, PollPCs, PhasePCs, InsidePCs
<1>25. CASE PhaseOfSample
  <2>1. stop' \in BOOLEAN /\ errors' \in BOOLEAN
    BY <1>25, Zenon DEF PhaseOfSample, Abort, sampleVars
  <2>2. QED
    BY <1>25, <2>1 DEF PhaseOfSample, Abort, Dismiss, PollerPCs, PollPCs, PhasePCs, InsidePCs
<1>26. CASE Observe
  <2>1. owed' \in BOOLEAN /\ complete' \in BOOLEAN
    BY <1>26, Zenon DEF Observe, Mutate, sampleVars
  <2>2. evidence' \in {0, 1} /\ ppc' \in PollerPCs
    <3>1. evidence' = 1 - evidence /\ ppc' \in {"idleIn", "rise", "confirm"}
      BY <1>26, Zenon DEF Observe, Mutate
    <3>2. QED
      BY <3>1 DEF PollerPCs, PollPCs, InsidePCs
  <2>3. UNCHANGED <<mainVars, stop, sampleVars, phase, polled, seenPhase, errors, vendorVars>>
    BY <1>26 DEF Observe
  <2>4. QED
    BY <2>1, <2>2, <2>3
<1>27. CASE IdleInside
  BY <1>27 DEF IdleInside, Dismiss, PollerPCs, PollPCs, PhasePCs, InsidePCs
<1>28. CASE GateRise
  <2>1. stop' \in BOOLEAN /\ errors' \in BOOLEAN
    BY <1>28, Zenon DEF GateRise, Abort, sampleVars
  <2>2. QED
    BY <1>28, <2>1 DEF GateRise, Abort, Dismiss, PollerPCs, PollPCs, PhasePCs, InsidePCs
<1>29. CASE ConfirmCompletion
  BY <1>29 DEF ConfirmCompletion, Dismiss, Mutate, PollerPCs, PollPCs, PhasePCs, InsidePCs
<1>30. CASE PollFailed
  BY <1>30 DEF PollFailed, Admit, PollerPCs, PollPCs, PhasePCs, InsidePCs
<1>31. CASE CountFailure
  BY <1>31 DEF CountFailure, Mutate, Dismiss, PollerPCs, PollPCs, PhasePCs, InsidePCs
<1>32. CASE EnterGuard
  BY <1>32 DEF EnterGuard, Admit, PollerPCs, PollPCs, PhasePCs, InsidePCs
<1>33. CASE GuardElapsed
  <2>1. stop' \in BOOLEAN
    BY <1>33, Zenon DEF GuardElapsed, Mutate, sampleVars
  <2>2. QED
    BY <1>33, <2>1 DEF GuardElapsed, Dismiss, Mutate, PollerPCs, PollPCs, PhasePCs, InsidePCs
<1>34. CASE Idle
  BY <1>34 DEF Idle, PollerPCs, PollPCs, PhasePCs, InsidePCs
<1>35. CASE ReadSnapshot
  BY <1>35 DEF ReadSnapshot, PollerPCs, PollPCs, PhasePCs, InsidePCs
<1>36. CASE \E s \in Streams : Deliver(s)
  <2>1. owed' \in BOOLEAN
    BY <1>36, Zenon DEF Deliver, BeginDelivery, EndDelivery
  <2>2. evidence' \in {0, 1}
    <3>1. evidence' = evidence \/ evidence' = 1 - evidence
      BY <1>36, Zenon DEF Deliver, BeginDelivery, EndDelivery, Mutate
    <3>2. QED
      BY <3>1
  <2>3. UNCHANGED <<mainVars, stop, sampleVars, phase, ppc, polled, seenPhase, complete,
                   errors, vendorVars>>
    BY <1>36, Zenon DEF Deliver, BeginDelivery, EndDelivery
  <2>4. QED
    BY <2>1, <2>2, <2>3
<1>37. CASE UNCHANGED vars
  BY <1>37 DEF vars
<1>38. QED
  BY <1>1, <1>2, <1>3, <1>4, <1>5, <1>6, <1>7, <1>8, <1>9, <1>10, <1>11, <1>12, <1>13, <1>14, <1>15, <1>16, <1>17, <1>18, <1>19, <1>20, <1>21, <1>22, <1>23, <1>24, <1>25, <1>26, <1>27, <1>28, <1>29, <1>30, <1>31, <1>32, <1>33, <1>34, <1>35, <1>36, <1>37 DEF Next, Main, PollerWork

\* Every step keeps the count equal to the admitted contexts, and the admitted
\* contexts in step with where the threads are.
LEMMA FenceStep ==
  ASSUME IInv, [Next]_vars
  PROVE  stopped' \in BOOLEAN /\ admitted' \subseteq Contexts /\ CountIsAdmitted'
<1> USE DEF IInv, TypeOK, FenceTypes, CountIsAdmitted, PollPCs, PhasePCs
<1>a. "poll" \in Contexts /\ "phase" \in Contexts /\ Streams \subseteq Contexts
  BY DEF Contexts
<1>1. CASE OpenDevice
  BY <1>1 DEF OpenDevice, pollerVars, fenceVars
<1>2. CASE CheckMode
  BY <1>2 DEF CheckMode, pollerVars, fenceVars
<1>3. CASE StartStream
  BY <1>3 DEF StartStream, pollerVars, fenceVars
<1>4. CASE StreamsStarted
  BY <1>4 DEF StreamsStarted, pollerVars, fenceVars
<1>5. CASE StartPoller
  BY <1>5 DEF StartPoller, fenceVars, ShutdownFollowsMain
<1>6. CASE ResetTarget
  BY <1>6 DEF ResetTarget, HookRaises, pollerVars, fenceVars
<1>7. CASE WaitReady
  BY <1>7 DEF WaitReady, pollerVars, fenceVars
<1>8. CASE GiveUpReady
  BY <1>8 DEF GiveUpReady, pollerVars, fenceVars
<1>9. CASE ReportNotReady
  BY <1>9 DEF ReportNotReady, HookRaises, pollerVars, fenceVars
<1>10. CASE SwitchPhase
  BY <1>10 DEF SwitchPhase, pollerVars, fenceVars
<1>11. CASE SignalGo
  BY <1>11 DEF SignalGo, HookRaises, pollerVars, fenceVars
<1>12. CASE WaitWindow
  BY <1>12 DEF WaitWindow, pollerVars, fenceVars
<1>13. CASE RequestStop
  BY <1>13 DEF RequestStop, pollerVars, fenceVars
<1>14. CASE CloseFence
  BY <1>14 DEF CloseFence, pollerVars, fenceVars
<1>15. CASE Drained
  BY <1>15 DEF Drained, pollerVars, fenceVars
<1>16. CASE JoinPoller
  BY <1>16 DEF JoinPoller, pollerVars, fenceVars
<1>17. CASE ReleaseStream
  BY <1>17 DEF ReleaseStream, pollerVars, fenceVars
<1>18. CASE StreamsReleased
  BY <1>18 DEF StreamsReleased, pollerVars, fenceVars
<1>19. CASE Decide
  BY <1>19 DEF Decide, pollerVars, fenceVars
<1>20. CASE CloseDevice
  BY <1>20 DEF CloseDevice, pollerVars, fenceVars
<1>21. CASE PollerTop
  <2>1. CASE ~stop
    <3>1. Admit("phase") /\ "phase" \notin admitted
      BY <1>21, <2>1 DEF PollerTop
    <3>2. QED
      BY <1>21, <1>a, <2>1, <3>1, AdmitCounts DEF PollerTop
  <2>2. CASE stop
    BY <1>21, <2>2 DEF PollerTop, fenceVars
  <2>3. QED
    BY <1>21, <2>1, <2>2 DEF PollerTop
<1>22. CASE PhaseAtTop
  <2>1. CASE Dismiss({"phase"})
    BY <1>22, <2>1, DismissCounts DEF PhaseAtTop, Abort
  <2>2. QED
    BY <1>22, <2>1 DEF PhaseAtTop, Abort
<1>23. CASE PublishSample
  <2>1. CASE ~stop
    <3>1. Admit("poll") /\ "poll" \notin admitted
      BY <1>23, <2>1 DEF PublishSample
    <3>2. QED
      BY <1>23, <1>a, <2>1, <3>1, AdmitCounts DEF PublishSample
  <2>2. CASE stop
    BY <1>23, <2>2 DEF PublishSample, fenceVars
  <2>3. QED
    BY <1>23, <2>1, <2>2 DEF PublishSample
<1>24. CASE NestedPhase
  <2>1. CASE ~stop
    <3>1. Admit("phase") /\ "phase" \notin admitted
      BY <1>24, <2>1 DEF NestedPhase
    <3>2. QED
      BY <1>24, <1>a, <2>1, <3>1, AdmitCounts DEF NestedPhase
  <2>2. CASE stop
    <3>1. Dismiss({"poll"}) /\ ppc' = "exited"
      BY <1>24, <2>2 DEF NestedPhase
    <3>2. QED
      BY <1>24, <3>1, DismissCounts DEF NestedPhase
  <2>3. QED
    BY <1>24, <2>1, <2>2 DEF NestedPhase
<1>25. CASE PhaseOfSample
  <2>1. CASE Dismiss({"phase"})
    BY <1>25, <2>1, DismissCounts DEF PhaseOfSample, Abort
  <2>2. CASE Dismiss({"phase", "poll"})
    BY <1>25, <2>2, DismissCounts DEF PhaseOfSample, Abort
  <2>3. QED
    BY <1>25, <2>1, <2>2 DEF PhaseOfSample, Abort
<1>26. CASE Observe
  BY <1>26 DEF Observe, fenceVars
<1>27. CASE IdleInside
  <2>1. CASE Dismiss({"poll"})
    BY <1>27, <2>1, DismissCounts DEF IdleInside
  <2>2. QED
    BY <1>27, <2>1 DEF IdleInside
<1>28. CASE GateRise
  <2>1. CASE Abort({"poll"})
    <3>1. Dismiss({"poll"}) /\ ppc' = "exited"
      BY <2>1 DEF Abort
    <3>2. QED
      BY <1>28, <3>1, DismissCounts DEF GateRise
  <2>2. CASE UNCHANGED fenceVars /\ ppc' = "confirm"
    BY <1>28, <2>2 DEF GateRise, fenceVars
  <2>3. QED
    BY <1>28, <2>1, <2>2 DEF GateRise
<1>29. CASE ConfirmCompletion
  <2>1. CASE Dismiss({"poll"})
    BY <1>29, <2>1, DismissCounts DEF ConfirmCompletion
  <2>2. QED
    BY <1>29, <2>1 DEF ConfirmCompletion
<1>30. CASE PollFailed
  <2>1. CASE ~stop
    <3>1. Admit("poll") /\ "poll" \notin admitted
      BY <1>30, <2>1 DEF PollFailed
    <3>2. QED
      BY <1>30, <1>a, <2>1, <3>1, AdmitCounts DEF PollFailed
  <2>2. CASE stop
    BY <1>30, <2>2 DEF PollFailed, fenceVars
  <2>3. QED
    BY <1>30, <2>1, <2>2 DEF PollFailed
<1>31. CASE CountFailure
  <2>1. CASE Dismiss({"poll"})
    BY <1>31, <2>1, DismissCounts DEF CountFailure
  <2>2. QED
    BY <1>31, <2>1 DEF CountFailure
<1>32. CASE EnterGuard
  <2>1. CASE ~stop
    <3>1. Admit("poll") /\ "poll" \notin admitted
      BY <1>32, <2>1 DEF EnterGuard
    <3>2. QED
      BY <1>32, <1>a, <2>1, <3>1, AdmitCounts DEF EnterGuard
  <2>2. CASE stop
    BY <1>32, <2>2 DEF EnterGuard, fenceVars
  <2>3. QED
    BY <1>32, <2>1, <2>2 DEF EnterGuard
<1>33. CASE GuardElapsed
  <2>1. CASE Dismiss({"poll"})
    BY <1>33, <2>1, DismissCounts DEF GuardElapsed
  <2>2. QED
    BY <1>33, <2>1 DEF GuardElapsed
<1>34. CASE Idle
  BY <1>34 DEF Idle, fenceVars
<1>35. CASE ReadSnapshot
  BY <1>35 DEF ReadSnapshot, fenceVars
<1>36. CASE \E s \in Streams : BeginDelivery(s)
  <2> SUFFICES ASSUME NEW s \in Streams, BeginDelivery(s)
               PROVE  stopped' \in BOOLEAN /\ admitted' \subseteq Contexts /\ CountIsAdmitted'
    BY <1>36
  <2>0. ppc' = ppc /\ s # "poll" /\ s # "phase" /\ s \notin admitted
    BY ContextsFinite DEF BeginDelivery
  <2>1. CASE Admit(s)
    BY <1>a, <2>0, <2>1, AdmitCounts
  <2>2. CASE UNCHANGED fenceVars
    BY <2>0, <2>2 DEF fenceVars
  <2>3. QED
    BY <2>1, <2>2 DEF BeginDelivery
<1>37. CASE \E s \in Streams : EndDelivery(s)
  <2> SUFFICES ASSUME NEW s \in Streams, EndDelivery(s)
               PROVE  stopped' \in BOOLEAN /\ admitted' \subseteq Contexts /\ CountIsAdmitted'
    BY <1>37
  <2>1. ppc' = ppc /\ s # "poll" /\ s # "phase" /\ {s} \subseteq admitted /\ Dismiss({s})
    BY ContextsFinite DEF EndDelivery
  <2>2. QED
    BY <2>1, DismissCounts
<1>38. CASE UNCHANGED vars
  BY <1>38 DEF vars, fenceVars, pollerVars
<1>39. QED
  BY <1>1, <1>2, <1>3, <1>4, <1>5, <1>6, <1>7, <1>8, <1>9, <1>10, <1>11, <1>12, <1>13, <1>14, <1>15, <1>16, <1>17, <1>18, <1>19, <1>20, <1>21, <1>22, <1>23, <1>24, <1>25, <1>26, <1>27, <1>28, <1>29, <1>30, <1>31, <1>32, <1>33, <1>34, <1>35, <1>36, <1>37, <1>38 DEF Next, Main, PollerWork, Deliver

\* Every step keeps the flags of shutdown in step with the main thread.
LEMMA ShutdownStep ==
  ASSUME IInv, [Next]_vars
  PROVE  ShutdownFollowsMain'
<1> USE DEF IInv, TypeOK, MainTypes, FenceTypes, ShutdownFollowsMain, PastDrain
<1>1. CASE OpenDevice
  BY <1>1 DEF OpenDevice, pollerVars, fenceVars
<1>2. CASE CheckMode
  BY <1>2 DEF CheckMode, pollerVars, fenceVars
<1>3. CASE StartStream
  BY <1>3 DEF StartStream, pollerVars, fenceVars
<1>4. CASE StreamsStarted
  BY <1>4 DEF StreamsStarted, pollerVars, fenceVars
<1>5. CASE StartPoller
  BY <1>5 DEF StartPoller, pollerVars, fenceVars
<1>6. CASE ResetTarget
  BY <1>6 DEF ResetTarget, HookRaises, pollerVars, fenceVars
<1>7. CASE WaitReady
  BY <1>7 DEF WaitReady, pollerVars, fenceVars
<1>8. CASE GiveUpReady
  BY <1>8 DEF GiveUpReady, pollerVars, fenceVars
<1>9. CASE ReportNotReady
  BY <1>9 DEF ReportNotReady, HookRaises, pollerVars, fenceVars
<1>10. CASE SwitchPhase
  BY <1>10 DEF SwitchPhase, pollerVars, fenceVars
<1>11. CASE SignalGo
  BY <1>11 DEF SignalGo, HookRaises, pollerVars, fenceVars
<1>12. CASE WaitWindow
  BY <1>12 DEF WaitWindow, pollerVars, fenceVars
<1>13. CASE RequestStop
  BY <1>13 DEF RequestStop, pollerVars, fenceVars
<1>14. CASE CloseFence
  BY <1>14 DEF CloseFence, pollerVars, fenceVars
<1>15. CASE Drained
  <2>1. IsFiniteSet(admitted) /\ Cardinality(admitted) = 0
    BY <1>15, ContextsFinite DEF Drained, CountIsAdmitted
  <2>2. admitted = {}
    BY <2>1, FS_EmptySet
  <2>3. QED
    BY <1>15, <2>2 DEF Drained, fenceVars, pollerVars
<1>16. CASE JoinPoller
  BY <1>16 DEF JoinPoller, pollerVars, fenceVars
<1>17. CASE ReleaseStream
  BY <1>17 DEF ReleaseStream, pollerVars, fenceVars
<1>18. CASE StreamsReleased
  BY <1>18 DEF StreamsReleased, pollerVars, fenceVars
<1>19. CASE Decide
  BY <1>19 DEF Decide, pollerVars, fenceVars
<1>20. CASE CloseDevice
  BY <1>20 DEF CloseDevice, pollerVars, fenceVars
<1>21. CASE PollerTop
  BY <1>21 DEF PollerTop, Admit, mainVars, fenceVars
<1>22. CASE PhaseAtTop
  BY <1>22 DEF PhaseAtTop, Abort, Dismiss, mainVars, fenceVars
<1>23. CASE PublishSample
  BY <1>23 DEF PublishSample, Admit, mainVars, fenceVars
<1>24. CASE NestedPhase
  BY <1>24 DEF NestedPhase, Admit, Dismiss, mainVars, fenceVars
<1>25. CASE PhaseOfSample
  BY <1>25 DEF PhaseOfSample, Abort, Dismiss, mainVars, fenceVars
<1>26. CASE Observe
  BY <1>26 DEF Observe, mainVars, fenceVars
<1>27. CASE IdleInside
  BY <1>27 DEF IdleInside, Dismiss, mainVars, fenceVars
<1>28. CASE GateRise
  BY <1>28 DEF GateRise, Abort, Dismiss, mainVars, fenceVars
<1>29. CASE ConfirmCompletion
  BY <1>29 DEF ConfirmCompletion, Dismiss, mainVars, fenceVars
<1>30. CASE PollFailed
  BY <1>30 DEF PollFailed, Admit, mainVars, fenceVars
<1>31. CASE CountFailure
  BY <1>31 DEF CountFailure, Dismiss, mainVars, fenceVars
<1>32. CASE EnterGuard
  BY <1>32 DEF EnterGuard, Admit, mainVars, fenceVars
<1>33. CASE GuardElapsed
  BY <1>33 DEF GuardElapsed, Dismiss, mainVars, fenceVars
<1>34. CASE Idle
  BY <1>34 DEF Idle, mainVars, fenceVars
<1>35. CASE ReadSnapshot
  BY <1>35 DEF ReadSnapshot, mainVars, fenceVars
<1>36. CASE \E s \in Streams : Deliver(s)
  <2>1. UNCHANGED <<stop, stopped, mpc, ppc>>
    BY <1>36 DEF Deliver, BeginDelivery, EndDelivery, Admit, Dismiss, mainVars, fenceVars
  <2>2. stopped => admitted' \subseteq admitted
    BY <1>36 DEF Deliver, BeginDelivery, EndDelivery, Admit, Dismiss, fenceVars
  <2>3. QED
    BY <2>1, <2>2
<1>37. CASE UNCHANGED vars
  BY <1>37 DEF vars, mainVars, fenceVars, pollerVars
<1>38. QED
  BY <1>1, <1>2, <1>3, <1>4, <1>5, <1>6, <1>7, <1>8, <1>9, <1>10, <1>11, <1>12, <1>13, <1>14, <1>15, <1>16, <1>17, <1>18, <1>19, <1>20, <1>21, <1>22, <1>23, <1>24, <1>25, <1>26, <1>27, <1>28, <1>29, <1>30, <1>31, <1>32, <1>33, <1>34, <1>35, <1>36, <1>37 DEF Next, Main, PollerWork

-----------------------------------------------------------------------------
\* The inductive invariant: types, the fence's count, the stages of shutdown.
THEOREM Invariance == Spec => []IInv
<1>1. Init => IInv
  BY InitIInv
<1>2. IInv /\ [Next]_vars => IInv'
  <2> SUFFICES ASSUME IInv, [Next]_vars PROVE IInv'
    OBVIOUS
  <2>1. MainTypes' /\ PollerTypes' /\ VendorTypes'
    BY TypesStep DEF IInv, TypeOK
  <2>2. stopped' \in BOOLEAN /\ admitted' \subseteq Contexts /\ CountIsAdmitted'
    BY FenceStep
  <2>3. ShutdownFollowsMain'
    BY ShutdownStep
  <2>4. (count \in 0 .. Cardinality(Contexts))'
    <3>1. admitted' \subseteq Contexts /\ count' = Cardinality(admitted')
      BY <2>2 DEF CountIsAdmitted
    <3>2. Cardinality(admitted') <= Cardinality(Contexts)
      BY <3>1, ContextsFinite, FS_Subset
    <3>3. Cardinality(admitted') \in Nat /\ Cardinality(Contexts) \in Nat
      BY <3>1, ContextsFinite, FS_CardinalityType
    <3>4. QED
      BY <3>1, <3>2, <3>3
  <2>5. QED
    BY <2>1, <2>2, <2>3, <2>4 DEF IInv, TypeOK, FenceTypes
<1>3. QED
  BY <1>1, <1>2, PTL DEF Spec

\* The state of a capture keeps its shape: the processing count never goes below
\* zero, nor above what the poller and the streams can hold.
THEOREM TypeCorrect == Spec => []TypeOK
<1>1. IInv => TypeOK
  BY DEF IInv
<1>2. QED
  BY <1>1, Invariance, PTL

\* resources.stop: once it has drained, neither the poller nor any stream is
\* inside processing(), while the vendor teardown runs and ever after.
THEOREM DrainIsFinal == Spec => []NobodyInsideAfterDrain
<1>1. IInv => NobodyInsideAfterDrain
  BY FS_EmptySet DEF IInv, CountIsAdmitted, ShutdownFollowsMain,
     NobodyInsideAfterDrain, InsidePCs
<1>2. QED
  BY <1>1, Invariance, PTL
-----------------------------------------------------------------------------
\* What the abstract fence sees of a step.
LEMMA Unseen ==
  ASSUME UNCHANGED <<stopped, admitted, evidence, errors>>,
         mpc' = mpc \/ (mpc # "drain" /\ mpc' # "drain")
  PROVE  UNCHANGED Fence!vars
BY DEF Fence!vars

LEMMA SeenEnter ==
  ASSUME IInv, NEW c \in Contexts, c \notin admitted, Admit(c),
         UNCHANGED <<mpc, evidence, errors>>
  PROVE  Fence!Next
<1>1. Fence!Enter(c)
  BY DEF Fence!Enter, Admit
<1>2. QED
  BY <1>1 DEF Fence!Next

LEMMA SeenLeave ==
  ASSUME IInv, NEW C, C \subseteq admitted, C # {}, Dismiss(C), UNCHANGED mpc
  PROVE  Fence!Next
<1>1. Fence!Leave(C) /\ C \in SUBSET Contexts
  BY DEF Fence!Leave, Dismiss, IInv, TypeOK, FenceTypes
<1>2. QED
  BY <1>1 DEF Fence!Next

LEMMA SeenWork ==
  ASSUME ~stopped \/ admitted # {}, UNCHANGED <<stopped, admitted, mpc>>
  PROVE  Fence!Next
<1>1. Fence!Work
  BY DEF Fence!Work
<1>2. QED
  BY <1>1 DEF Fence!Next

\* Every step of a capture is a step of the abstract fence, or none.
LEMMA FenceSimulation ==
  ASSUME IInv, [Next]_vars
  PROVE  [Fence!Next]_Fence!vars
<1>a. "poll" \in Contexts /\ "phase" \in Contexts /\ Streams \subseteq Contexts
  BY DEF Contexts
<1>b. /\ "poll" \in admitted <=> ppc \in PollPCs
      /\ "phase" \in admitted <=> ppc \in PhasePCs
  BY DEF IInv, CountIsAdmitted
<1>1. CASE OpenDevice
  BY <1>1, Unseen DEF OpenDevice, fenceVars, pollerVars
<1>2. CASE CheckMode
  BY <1>2, Unseen DEF CheckMode, fenceVars, pollerVars
<1>3. CASE StartStream
  <2>1. ~stopped
    BY <1>3 DEF StartStream, IInv, ShutdownFollowsMain
  <2>2. CASE UNCHANGED evidence
    BY <1>3, <2>1, <2>2 DEF StartStream, fenceVars, Fence!vars
  <2>3. CASE UNCHANGED mpc
    BY <1>3, <2>1, <2>3, SeenWork DEF StartStream, fenceVars
  <2>4. QED
    BY <1>3, <2>2, <2>3 DEF StartStream
<1>4. CASE StreamsStarted
  BY <1>4, Unseen DEF StreamsStarted, fenceVars, pollerVars
<1>5. CASE StartPoller
  BY <1>5, Unseen DEF StartPoller, fenceVars, pollerVars
<1>6. CASE ResetTarget
  BY <1>6, Unseen DEF ResetTarget, HookRaises, fenceVars, pollerVars
<1>7. CASE WaitReady
  BY <1>7, Unseen DEF WaitReady, fenceVars, pollerVars
<1>8. CASE GiveUpReady
  BY <1>8, Unseen DEF GiveUpReady, fenceVars, pollerVars
<1>9. CASE ReportNotReady
  BY <1>9, Unseen DEF ReportNotReady, HookRaises, fenceVars, pollerVars
<1>10. CASE SwitchPhase
  BY <1>10, Unseen DEF SwitchPhase, fenceVars, pollerVars
<1>11. CASE SignalGo
  BY <1>11, Unseen DEF SignalGo, HookRaises, fenceVars, pollerVars
<1>12. CASE WaitWindow
  BY <1>12, Unseen DEF WaitWindow, fenceVars, pollerVars
<1>13. CASE RequestStop
  BY <1>13, Unseen DEF RequestStop, fenceVars, pollerVars
<1>14. CASE CloseFence
  <2>1. ~stopped
    BY <1>14 DEF CloseFence, IInv, ShutdownFollowsMain
  <2>2. Fence!Close
    BY <1>14, <2>1 DEF CloseFence, Fence!Close
  <2>3. QED
    BY <2>2 DEF Fence!Next
<1>15. CASE Drained
  <2>1. stopped
    BY <1>15 DEF Drained, IInv, ShutdownFollowsMain
  <2>2. IsFiniteSet(admitted) /\ Cardinality(admitted) = 0
    BY <1>15, ContextsFinite DEF Drained, IInv, TypeOK, FenceTypes, CountIsAdmitted
  <2>3. admitted = {}
    BY <2>2, FS_EmptySet
  <2>4. Fence!Drain
    BY <1>15, <2>1, <2>3 DEF Drained, Fence!Drain, fenceVars
  <2>5. QED
    BY <2>4 DEF Fence!Next
<1>16. CASE JoinPoller
  BY <1>16, Unseen DEF JoinPoller, fenceVars, pollerVars
<1>17. CASE ReleaseStream
  BY <1>17, Unseen DEF ReleaseStream, fenceVars, pollerVars
<1>18. CASE StreamsReleased
  BY <1>18, Unseen DEF StreamsReleased, fenceVars, pollerVars
<1>19. CASE Decide
  BY <1>19, Unseen DEF Decide, fenceVars, pollerVars
<1>20. CASE CloseDevice
  BY <1>20, Unseen DEF CloseDevice, fenceVars, pollerVars
<1>21. CASE PollerTop
  <2>1. CASE ~stop
    <3>1. Admit("phase") /\ "phase" \notin admitted /\ UNCHANGED <<mpc, evidence, errors>>
      BY <1>21, <1>b, <2>1 DEF PollerTop, mainVars, PollPCs, PhasePCs
    <3>2. QED
      BY <1>a, <3>1, SeenEnter
  <2>2. CASE stop
    BY <1>21, <2>2, Unseen DEF PollerTop, mainVars, fenceVars
  <2>3. QED
    BY <2>1, <2>2
<1>22. CASE PhaseAtTop
  BY <1>22, <1>b, SeenLeave DEF PhaseAtTop, Abort, mainVars, PollPCs, PhasePCs
<1>23. CASE PublishSample
  <2>1. CASE ~stop
    <3>1. Admit("poll") /\ "poll" \notin admitted /\ UNCHANGED <<mpc, evidence, errors>>
      BY <1>23, <1>b, <2>1 DEF PublishSample, mainVars, PollPCs, PhasePCs
    <3>2. QED
      BY <1>a, <3>1, SeenEnter
  <2>2. CASE stop
    BY <1>23, <2>2, Unseen DEF PublishSample, mainVars, fenceVars
  <2>3. QED
    BY <2>1, <2>2
<1>24. CASE NestedPhase
  <2>1. CASE ~stop
    <3>1. Admit("phase") /\ "phase" \notin admitted /\ UNCHANGED <<mpc, evidence, errors>>
      BY <1>24, <1>b, <2>1 DEF NestedPhase, mainVars, PollPCs, PhasePCs
    <3>2. QED
      BY <1>a, <3>1, SeenEnter
  <2>2. CASE stop
    BY <1>24, <1>b, <2>2, SeenLeave DEF NestedPhase, mainVars, PollPCs
  <2>3. QED
    BY <2>1, <2>2
<1>25. CASE PhaseOfSample
  <2>1. CASE Dismiss({"phase"})
    BY <1>25, <1>b, <2>1, SeenLeave DEF PhaseOfSample, Abort, mainVars, PollPCs, PhasePCs
  <2>2. CASE Dismiss({"phase", "poll"})
    BY <1>25, <1>b, <2>2, SeenLeave DEF PhaseOfSample, Abort, mainVars, PollPCs, PhasePCs
  <2>3. QED
    BY <1>25, <2>1, <2>2 DEF PhaseOfSample, Abort
<1>26. CASE Observe
  <2>1. admitted # {}
    BY <1>26, <1>b DEF Observe, PollPCs
  <2>2. QED
    BY <1>26, <2>1, SeenWork DEF Observe, fenceVars, mainVars
<1>27. CASE IdleInside
  BY <1>27, <1>b, SeenLeave DEF IdleInside, mainVars, PollPCs, PhasePCs
<1>28. CASE GateRise
  <2>1. CASE Abort({"poll"})
    BY <1>28, <1>b, <2>1, SeenLeave DEF GateRise, Abort, mainVars, PollPCs
  <2>2. CASE UNCHANGED <<fenceVars, errors>>
    BY <1>28, <2>2, Unseen DEF GateRise, fenceVars, mainVars
  <2>3. QED
    BY <1>28, <2>1, <2>2 DEF GateRise
<1>29. CASE ConfirmCompletion
  BY <1>29, <1>b, SeenLeave DEF ConfirmCompletion, mainVars, PollPCs, PhasePCs
<1>30. CASE PollFailed
  <2>1. CASE ~stop
    <3>1. Admit("poll") /\ "poll" \notin admitted /\ UNCHANGED <<mpc, evidence, errors>>
      BY <1>30, <1>b, <2>1 DEF PollFailed, mainVars, PollPCs, PhasePCs
    <3>2. QED
      BY <1>a, <3>1, SeenEnter
  <2>2. CASE stop
    BY <1>30, <2>2, Unseen DEF PollFailed, mainVars, fenceVars
  <2>3. QED
    BY <2>1, <2>2
<1>31. CASE CountFailure
  BY <1>31, <1>b, SeenLeave DEF CountFailure, mainVars, PollPCs, PhasePCs
<1>32. CASE EnterGuard
  <2>1. CASE ~stop
    <3>1. Admit("poll") /\ "poll" \notin admitted /\ UNCHANGED <<mpc, evidence, errors>>
      BY <1>32, <1>b, <2>1 DEF EnterGuard, mainVars, PollPCs, PhasePCs
    <3>2. QED
      BY <1>a, <3>1, SeenEnter
  <2>2. CASE stop
    BY <1>32, <2>2, Unseen DEF EnterGuard, mainVars, fenceVars
  <2>3. QED
    BY <2>1, <2>2
<1>33. CASE GuardElapsed
  BY <1>33, <1>b, SeenLeave DEF GuardElapsed, mainVars, PollPCs, PhasePCs
<1>34. CASE Idle
  BY <1>34, Unseen DEF Idle, fenceVars, mainVars
<1>35. CASE ReadSnapshot
  BY <1>35, Unseen DEF ReadSnapshot, fenceVars, mainVars
<1>36. CASE \E s \in Streams : BeginDelivery(s)
  <2> SUFFICES ASSUME NEW s \in Streams, BeginDelivery(s)
               PROVE  [Fence!Next]_Fence!vars
    BY <1>36
  <2>1. CASE stopped
    BY <2>1, Unseen DEF BeginDelivery, fenceVars, mainVars
  <2>2. CASE ~stopped
    BY <1>a, <2>2, SeenEnter DEF BeginDelivery, mainVars
  <2>3. QED
    BY <2>1, <2>2
<1>37. CASE \E s \in Streams : EndDelivery(s)
  BY <1>37, SeenLeave DEF EndDelivery, mainVars
<1>38. CASE UNCHANGED vars
  BY <1>38, Unseen DEF vars, fenceVars, mainVars
<1>39. QED
  BY <1>1, <1>2, <1>3, <1>4, <1>5, <1>6, <1>7, <1>8, <1>9, <1>10, <1>11, <1>12, <1>13, <1>14, <1>15, <1>16, <1>17, <1>18, <1>19, <1>20, <1>21, <1>22, <1>23, <1>24, <1>25, <1>26, <1>27, <1>28, <1>29, <1>30, <1>31, <1>32, <1>33, <1>34, <1>35, <1>36, <1>37, <1>38 DEF Next, Main, PollerWork, Deliver

\* A gated capture implements the fence: admission closes once, nobody enters
\* after that, and from the drain on the evidence and the recorded callback errors
\* never change again.
THEOREM ImplementsFence == Spec => FenceSpec
<1>1. Init => Fence!Init
  BY DEF Init, Fence!Init
<1>2. IInv /\ [Next]_vars => [Fence!Next]_Fence!vars
  BY FenceSimulation
<1>3. QED
  BY <1>1, <1>2, Invariance, PTL DEF Spec, FenceSpec, Fence!Spec
-----------------------------------------------------------------------------
\* The calls of the teardown are the controls and subscriptions of the set-up, each of them once.
LEMMA EveryControlIsReleased ==
  ASSUME NEW c \in Controls
  PROVE  \E i \in 1 .. LastCall : ReleaseCall(i) = c
<1>1. PICK j \in 1 .. Len(AllStreams) : AllStreams[j] = c[1]
  BY DEF Controls, Streams
<1>2. c[2] \in {"ctrl", "sub"} /\ c = <<c[1], c[2]>>
  BY DEF Controls
<1>3. LastCall = 2 * Len(AllStreams) /\ Len(AllStreams) \in {1, 2, 3}
  BY StreamsInOrder DEF LastCall
<1>4. CASE c[2] = "ctrl"
  <2>1. 2 * j - 1 \in 1 .. LastCall /\ ((2 * j - 1) + 1) \div 2 = j /\ (2 * j - 1) % 2 = 1
    BY <1>1, <1>3
  <2>2. ReleaseCall(2 * j - 1) = c
    BY <1>1, <1>2, <1>4, <2>1 DEF ReleaseCall
  <2>3. QED
    BY <2>1, <2>2
<1>5. CASE c[2] = "sub"
  <2>1. PICK i \in 1 .. LastCall : (i + 1) \div 2 = j /\ i % 2 # 1
    <3>1. 2 * j \in 1 .. LastCall /\ (2 * j + 1) \div 2 = j /\ (2 * j) % 2 # 1
      BY <1>1, <1>3
    <3>2. QED
      BY <3>1
  <2>2. ReleaseCall(i) = c
    BY <1>1, <1>2, <1>5, <2>1 DEF ReleaseCall
  <2>3. QED
    BY <2>1, <2>2
<1>6. QED
  BY <1>2, <1>4, <1>5

\* The poller and the streams decide nothing of the main thread's and touch nothing in the
\* instrument; an error is recorded by a poller that is inside processing().
LEMMA ThreadsKeep ==
  ASSUME PollerWork \/ ReadSnapshot \/ \E s \in Streams : Deliver(s)
  PROVE  /\ UNCHANGED <<mpc, step, inflight, outcome, held, stopped>>
         /\ UNCHANGED <<attempted, foreign, device, dirty>>
         /\ errors' = errors \/ ppc \in InsidePCs
<1> USE DEF mainVars, vendorVars, fenceVars, Admit, Dismiss, Abort, InsidePCs, PollPCs, PhasePCs
<1>1. CASE PollerTop \/ PhaseAtTop \/ PublishSample \/ NestedPhase \/ PhaseOfSample
  BY <1>1, Zenon DEF PollerTop, PhaseAtTop, PublishSample, NestedPhase, PhaseOfSample
<1>2. CASE Observe \/ IdleInside \/ GateRise \/ ConfirmCompletion \/ PollFailed
  BY <1>2, Zenon DEF Observe, IdleInside, GateRise, ConfirmCompletion, PollFailed
<1>3. CASE CountFailure \/ EnterGuard \/ GuardElapsed \/ Idle \/ ReadSnapshot
  BY <1>3, Zenon DEF CountFailure, EnterGuard, GuardElapsed, Idle, ReadSnapshot
<1>4. CASE \E s \in Streams : Deliver(s)
  BY <1>4, Zenon DEF Deliver, BeginDelivery, EndDelivery
<1>5. QED
  BY <1>1, <1>2, <1>3, <1>4 DEF PollerWork

\* Main's steps that neither call the vendor nor decide the outcome.
Passes ==
  \/ StreamsStarted \/ StartPoller \/ ResetTarget \/ WaitReady \/ GiveUpReady \/ ReportNotReady
  \/ SwitchPhase \/ SignalGo \/ WaitWindow \/ RequestStop \/ CloseFence \/ Drained \/ JoinPoller

LEMMA PassesKeep ==
  ASSUME Passes
  PROVE  /\ UNCHANGED <<attempted, foreign, device, dirty, held>>
         /\ mpc' \notin {"open", "mode", "decide", "close", "done"}
         /\ mpc' = "release" => step' = 1
<1> USE DEF mainVars, vendorVars, HookRaises
<1>1. CASE StreamsStarted \/ StartPoller \/ ResetTarget \/ GiveUpReady \/ ReportNotReady
  BY <1>1 DEF StreamsStarted, StartPoller, ResetTarget, GiveUpReady, ReportNotReady
<1>2. CASE SwitchPhase \/ SignalGo \/ WaitWindow \/ RequestStop \/ CloseFence \/ Drained \/ JoinPoller
  BY <1>2 DEF SwitchPhase, SignalGo, WaitWindow, RequestStop, CloseFence, Drained, JoinPoller
<1>3. CASE WaitReady
  BY <1>3 DEF WaitReady
<1>4. QED
  BY <1>1, <1>2, <1>3 DEF Passes

\* Teardown owns what was attempted, no less and no more.
LEMMA OwnsStep ==
  ASSUME OwnsAttempts, [Next]_vars
  PROVE  OwnsAttempts'
<1> USE DEF OwnsAttempts
<1>1. CASE OpenDevice
  BY <1>1 DEF OpenDevice, vendorVars
<1>2. CASE CheckMode
  BY <1>2 DEF CheckMode, vendorVars
<1>3. CASE StartStream
  BY <1>3 DEF StartStream, vendorVars
<1>4. CASE Passes
  BY <1>4, PassesKeep
<1>5. CASE ReleaseStream
  BY <1>5 DEF ReleaseStream
<1>6. CASE StreamsReleased \/ Decide \/ CloseDevice
  BY <1>6 DEF StreamsReleased, Decide, CloseDevice, vendorVars
<1>7. CASE PollerWork \/ ReadSnapshot \/ \E s \in Streams : Deliver(s)
  BY <1>7, ThreadsKeep
<1>8. CASE UNCHANGED vars
  BY <1>8 DEF vars, mainVars, vendorVars
<1>9. QED
  BY <1>1, <1>2, <1>3, <1>4, <1>5, <1>6, <1>7, <1>8 DEF Next, Main, Passes

\* Release by release, and none is forgotten.
LEMMA ReleasedStep ==
  ASSUME MainTypes, VendorTypes, OwnsAttempts, ReleasedSoFar, [Next]_vars
  PROVE  ReleasedSoFar'
<1> USE DEF ReleasedSoFar
<1>1. CASE OpenDevice
  BY <1>1 DEF OpenDevice, vendorVars, OwnsAttempts
<1>2. CASE CheckMode
  BY <1>2 DEF CheckMode, vendorVars, OwnsAttempts
<1>3. CASE StartStream
  BY <1>3 DEF StartStream
<1>4. CASE Passes
  BY <1>4, PassesKeep
<1>5. CASE ReleaseStream
  <2>1. /\ mpc = "release" /\ mpc' = "release" /\ step' = step + 1 /\ attempted' = attempted
        /\ step \in Int
    BY <1>5, StreamsInOrder DEF ReleaseStream, MainTypes
  <2> SUFFICES ASSUME ~dirty', NEW i \in 1 .. step
               PROVE  ReleaseCall(i) \notin device' \cap attempted
    BY <2>1
  <2>2. device' \subseteq device /\ (dirty' = dirty \/ dirty')
    BY <1>5 DEF ReleaseStream
  <2>3. CASE i = step
    BY <1>5, <2>2, <2>3 DEF ReleaseStream
  <2>4. CASE i \in 1 .. step - 1
    BY <2>1, <2>2, <2>4
  <2>5. QED
    BY <2>1, <2>3, <2>4
<1>6. CASE StreamsReleased
  <2> SUFFICES ASSUME ~dirty, NEW c \in device \cap attempted PROVE FALSE
    BY <1>6 DEF StreamsReleased, vendorVars
  <2>1. PICK i \in 1 .. LastCall : ReleaseCall(i) = c
    BY EveryControlIsReleased DEF VendorTypes
  <2>2. i \in 1 .. step - 1
    BY <1>6, StreamsInOrder DEF StreamsReleased, MainTypes
  <2>3. QED
    BY <1>6, <2>1, <2>2 DEF StreamsReleased
<1>7. CASE Decide \/ CloseDevice
  BY <1>7 DEF Decide, CloseDevice, vendorVars
<1>8. CASE PollerWork \/ ReadSnapshot \/ \E s \in Streams : Deliver(s)
  BY <1>8, ThreadsKeep
<1>9. CASE UNCHANGED vars
  BY <1>9 DEF vars, mainVars, vendorVars
<1>10. QED
  BY <1>1, <1>2, <1>3, <1>4, <1>5, <1>6, <1>7, <1>8, <1>9 DEF Next, Main, Passes

\* The device reference is given back on every way out.
LEMMA GivesBackStep ==
  ASSUME GivesBack, [Next]_vars
  PROVE  GivesBack'
<1> USE DEF GivesBack
<1>1. CASE OpenDevice
  BY <1>1 DEF OpenDevice
<1>2. CASE CheckMode \/ StartStream
  BY <1>2 DEF CheckMode, StartStream
<1>3. CASE Passes
  BY <1>3, PassesKeep
<1>4. CASE ReleaseStream \/ StreamsReleased \/ Decide \/ CloseDevice
  BY <1>4 DEF ReleaseStream, StreamsReleased, Decide, CloseDevice
<1>5. CASE PollerWork \/ ReadSnapshot \/ \E s \in Streams : Deliver(s)
  BY <1>5, ThreadsKeep
<1>6. CASE UNCHANGED vars
  BY <1>6 DEF vars, mainVars
<1>7. QED
  BY <1>1, <1>2, <1>3, <1>4, <1>5, <1>6 DEF Next, Main, Passes

\* The outcome is decided where the errors are final.
LEMMA RankedStep ==
  ASSUME IInv, OutcomeIsRanked, [Next]_vars
  PROVE  OutcomeIsRanked'
<1> USE DEF OutcomeIsRanked
<1>1. CASE OpenDevice
  BY <1>1 DEF OpenDevice
<1>2. CASE CheckMode
  BY <1>2 DEF CheckMode
<1>3. CASE StartStream
  BY <1>3 DEF StartStream
<1>4. CASE Passes
  BY <1>4, PassesKeep
<1>5. CASE ReleaseStream \/ StreamsReleased
  BY <1>5 DEF ReleaseStream, StreamsReleased
<1>6. CASE Decide
  <2>1. stopped /\ mpc' = "close" /\ UNCHANGED <<stopped, errors, inflight>>
    BY <1>6 DEF Decide, IInv, ShutdownFollowsMain, fenceVars
  <2>2. inflight \in {"hook", "setup", "none"}
    BY DEF IInv, TypeOK, MainTypes, Failures
  <2>3. CASE inflight = "hook"
    BY <1>6, <2>1, <2>3 DEF Decide
  <2>4. CASE inflight = "setup"
    BY <1>6, <2>1, <2>4 DEF Decide
  <2>5. CASE inflight = "none" /\ errors
    BY <1>6, <2>1, <2>5 DEF Decide
  <2>6. CASE inflight = "none" /\ ~errors
    BY <1>6, <2>1, <2>6 DEF Decide
  <2>7. QED
    BY <2>2, <2>3, <2>4, <2>5, <2>6
<1>7. CASE CloseDevice
  BY <1>7 DEF CloseDevice, fenceVars
<1>8. CASE PollerWork \/ ReadSnapshot \/ \E s \in Streams : Deliver(s)
  <2>1. /\ UNCHANGED <<mpc, inflight, outcome, stopped>>
        /\ errors' = errors \/ ppc \in InsidePCs
    BY <1>8, ThreadsKeep
  <2>2. mpc \in {"close", "done"} /\ stopped => ppc \notin InsidePCs
    BY FS_EmptySet DEF IInv, CountIsAdmitted, ShutdownFollowsMain, PastDrain, InsidePCs
  <2>3. CASE errors' = errors
    BY <2>1, <2>3
  <2>4. CASE errors' # errors
    BY <2>1, <2>2, <2>4
  <2>5. QED
    BY <2>3, <2>4
<1>9. CASE UNCHANGED vars
  BY <1>9 DEF vars, mainVars, fenceVars
<1>10. QED
  BY <1>1, <1>2, <1>3, <1>4, <1>5, <1>6, <1>7, <1>8, <1>9 DEF Next, Main, Passes

\* The invariant of the teardown: what is on is owned, what is released stays off, the device
\* reference goes back, the outcome ranks as it should.
THEOREM TeardownInvariance == Spec => []TeardownIInv
<1>1. Init => TeardownIInv
  <2> SUFFICES ASSUME Init PROVE TeardownIInv
    OBVIOUS
  <2>1. ~held
    BY Zenon DEF Init
  <2>2. OwnsAttempts /\ ReleasedSoFar /\ OutcomeIsRanked
    BY DEF Init, OwnsAttempts, ReleasedSoFar, OutcomeIsRanked
  <2>3. QED
    BY <2>1, <2>2, InitIInv DEF TeardownIInv, GivesBack
<1>2. TeardownIInv /\ IInv' /\ [Next]_vars => TeardownIInv'
  BY OwnsStep, ReleasedStep, GivesBackStep, RankedStep DEF TeardownIInv, IInv, TypeOK
<1>3. QED
  BY <1>1, <1>2, Invariance, PTL DEF Spec

\* resources.stop: however the capture ends, its device reference is given back, what it switched
\* on is off again (unless a release itself raised) and what somebody else had on still is.
THEOREM TeardownIsExact == Spec => []LeavesInstrument
<1>1. TeardownIInv => LeavesInstrument
  BY DEF TeardownIInv, OwnsAttempts, ReleasedSoFar, GivesBack, LeavesInstrument,
         NothingLeftRunning, ForeignControlsUntouched
<1>2. QED
  BY <1>1, TeardownInvariance, PTL

\* The caller's own failure surfaces over everything the streams and callbacks did, and a result
\* means that no callback raised, at the end as at the moment it was decided.
THEOREM OutcomeHolds == Spec => []ErrorPrecedence
<1>1. TeardownIInv => ErrorPrecedence
  BY DEF TeardownIInv, OutcomeIsRanked, ErrorPrecedence
<1>2. QED
  BY <1>1, TeardownInvariance, PTL
-----------------------------------------------------------------------------
\* A set of natural numbers has a least one.
LEMMA LeastOne ==
  ASSUME NEW S \in SUBSET Nat, S # {}
  PROVE  \E n \in S : \A m \in S : n <= m
<1>1. PICK n \in S : \A m \in S : ~(<<m, n>> \in OpToRel(<, Nat))
  BY NatLessThanWellFounded, WFMin
<1>2. \A m \in S : n <= m
  <2> SUFFICES ASSUME NEW m \in S PROVE n <= m
    OBVIOUS
  <2>1. m < n => <<m, n>> \in OpToRel(<, Nat)
    BY DEF OpToRel
  <2>2. ~(m < n)
    BY <1>1, <2>1, Zenon
  <2> QED
    BY <2>2
<1> QED
  BY <1>2

\* And a greatest one where it is bounded.
LEMMA GreatestOne ==
  ASSUME NEW S \in SUBSET Nat, S # {}, NEW b \in Nat, \A m \in S : m <= b
  PROVE  \E n \in S : \A m \in S : m <= n
<1> DEFINE T == {b - m : m \in S}
<1>1. T \in SUBSET Nat /\ T # {}
  <2>1. \A m \in S : b - m \in Nat
    OBVIOUS
  <2> QED
    BY <2>1
<1>2. PICK t \in T : \A u \in T : t <= u
  BY <1>1, LeastOne
<1>3. PICK n \in S : t = b - n
  OBVIOUS
<1>4. \A m \in S : m <= n
  <2> SUFFICES ASSUME NEW m \in S PROVE m <= n
    OBVIOUS
  <2>1. b - m \in T
    OBVIOUS
  <2> QED
    BY <1>2, <1>3, <2>1
<1> QED
  BY <1>4

-----------------------------------------------------------------------------
(* A signal and its edges.  A level is known from the edge before it. *)

\* A signal of n samples, its edges between two counters, and a stretch of one level.
IsASignal(f, n) == n \in Nat /\ \A k \in 1 .. n : f[k] \in Levels
EdgesIn(f, a, b) == {<<k, f[k + 1]>> : k \in {j \in a + 1 .. b - 1 : f[j + 1] # f[j]}}
Steady(f, a, b, level) == \A k \in a .. b - 1 : f[k + 1] = level

\* Where no edge is, the level stays.
LEMMA NoEdgeIsSteady ==
  ASSUME NEW f, NEW a \in Nat, NEW b \in Nat, NEW x \in a .. b - 1, NEW y \in x .. b,
         \A e \in EdgesIn(f, a, b) : ~(x < e[1] /\ e[1] < y)
  PROVE  Steady(f, x, y, f[x + 1])
<1> SUFFICES ASSUME ~Steady(f, x, y, f[x + 1]) PROVE FALSE
  OBVIOUS
<1> DEFINE S == {k \in x .. y - 1 : f[k + 1] # f[x + 1]}
<1>1. S \in SUBSET Nat /\ S # {}
  <2>1. x \in Nat
    OBVIOUS
  <2>2. S # {}
    BY DEF Steady
  <2> QED
    BY <2>1, <2>2
<1>2. PICK k \in S : \A m \in S : k <= m
  BY <1>1, LeastOne
<1>3. k > x /\ k \in Nat
  OBVIOUS
<1>4. k - 1 \notin S
  BY <1>2, <1>3
<1>5. f[k - 1 + 1] = f[x + 1]
  BY <1>3, <1>4
<1>6. f[k] = f[x + 1]
  BY <1>3, <1>5
<1>7. f[k + 1] # f[k] /\ k \in a + 1 .. b - 1
  BY <1>3, <1>6
<1>8. <<k, f[k + 1]>> \in EdgesIn(f, a, b)
  BY <1>7 DEF EdgesIn
<1>9. x < k /\ k < y
  BY <1>3
<1> QED
  BY <1>8, <1>9

\* An edge is where the level changed, and to what.
LEMMA EdgeIsReal ==
  ASSUME NEW f, NEW a \in Nat, NEW b \in Nat, NEW e \in EdgesIn(f, a, b)
  PROVE  /\ e = <<e[1], e[2]>> /\ e[1] \in a + 1 .. b - 1 /\ e[1] \in Nat
         /\ e[2] = f[e[1] + 1] /\ f[e[1] + 1] # f[e[1]]
BY DEF EdgesIn

\* The next edge ends what was there before.
LEMMA NextEdgeEnds ==
  ASSUME NEW f, NEW a \in Nat, NEW b \in Nat, NEW x \in a .. b - 1,
         NEW e \in NextEdge(EdgesIn(f, a, b), x)
  PROVE  /\ e = <<e[1], e[2]>> /\ e[1] \in x + 1 .. b - 1 /\ e[1] \in Nat
         /\ e[2] = f[e[1] + 1] /\ f[e[1] + 1] # f[e[1]] /\ f[e[1]] = f[x + 1]
         /\ Steady(f, x, e[1], f[x + 1])
<1>1. e \in EdgesIn(f, a, b) /\ x < e[1] /\ \A d \in EdgesIn(f, a, b) : x < d[1] => e[1] <= d[1]
  BY DEF NextEdge
<1>2. /\ e = <<e[1], e[2]>> /\ e[1] \in a + 1 .. b - 1 /\ e[1] \in Nat
      /\ e[2] = f[e[1] + 1] /\ f[e[1] + 1] # f[e[1]]
  BY <1>1, EdgeIsReal
<1>3. \A d \in EdgesIn(f, a, b) : ~(x < d[1] /\ d[1] < e[1])
  <2> SUFFICES ASSUME NEW d \in EdgesIn(f, a, b), x < d[1] PROVE ~(d[1] < e[1])
    OBVIOUS
  <2>1. d[1] \in Nat
    BY EdgeIsReal
  <2> QED
    BY <1>1, <1>2, <2>1
<1>4. e[1] \in x .. b
  BY <1>1, <1>2
<1>5. Steady(f, x, e[1], f[x + 1])
  BY <1>3, <1>4, NoEdgeIsSteady
<1>6. f[e[1] - 1 + 1] = f[x + 1]
  BY <1>1, <1>2, <1>5 DEF Steady
<1>7. f[e[1]] = f[x + 1]
  BY <1>2, <1>6
<1> QED
  BY <1>1, <1>2, <1>5, <1>7

\* Without a next edge the level stays to the end.
LEMMA NoNextEdge ==
  ASSUME NEW f, NEW a \in Nat, NEW b \in Nat, NEW x \in a .. b - 1,
         NextEdge(EdgesIn(f, a, b), x) = {}
  PROVE  Steady(f, x, b, f[x + 1])
<1>1. ASSUME NEW e \in EdgesIn(f, a, b), x < e[1] PROVE FALSE
  <2> DEFINE S == {n \in x + 1 .. b - 1 : <<n, f[n + 1]>> \in EdgesIn(f, a, b)}
  <2>1. e = <<e[1], f[e[1] + 1]>> /\ e[1] \in x + 1 .. b - 1
    BY <1>1, EdgeIsReal
  <2>2. S \in SUBSET Nat /\ S # {}
    BY <1>1, <2>1
  <2>3. PICK n \in S : \A m \in S : n <= m
    BY <2>2, LeastOne
  <2>4. ASSUME NEW d \in EdgesIn(f, a, b), x < d[1] PROVE n <= d[1]
    <3>1. d = <<d[1], f[d[1] + 1]>> /\ d[1] \in x + 1 .. b - 1
      BY <2>4, EdgeIsReal
    <3> QED
      BY <2>3, <3>1
  <2>5. <<n, f[n + 1]>> \in NextEdge(EdgesIn(f, a, b), x)
    BY <2>3, <2>4 DEF NextEdge
  <2> QED
    BY <2>5
<1>2. b \in x .. b
  OBVIOUS
<1> QED
  BY <1>1, <1>2, NoEdgeIsSteady

\* Where the level stays and then changes, that is the next edge.
LEMMA NextEdgeIs ==
  ASSUME NEW f, NEW a \in Nat, NEW b \in Nat, NEW x \in a .. b - 1, NEW y \in x + 1 .. b - 1,
         NEW level, Steady(f, x, y, level), f[y + 1] # level
  PROVE  NextEdge(EdgesIn(f, a, b), x) = {<<y, f[y + 1]>>}
<1>1. f[y - 1 + 1] = level
  BY DEF Steady
<1>2. f[y] = level /\ y \in a + 1 .. b - 1
  BY <1>1
<1>3. <<y, f[y + 1]>> \in EdgesIn(f, a, b)
  BY <1>2 DEF EdgesIn
<1>4. ASSUME NEW d \in EdgesIn(f, a, b), x < d[1] PROVE y <= d[1] /\ d = <<d[1], f[d[1] + 1]>> /\ d[1] \in Nat
  <2>1. /\ d = <<d[1], f[d[1] + 1]>> /\ d[1] \in a + 1 .. b - 1 /\ f[d[1] + 1] # f[d[1]]
    BY EdgeIsReal
  <2>2. d[1] < y => f[d[1] + 1] = level
    BY <1>4, <2>1 DEF Steady
  <2>3. d[1] < y => d[1] - 1 \in x .. y - 1
    BY <1>4, <2>1
  <2>4. d[1] < y => f[d[1] - 1 + 1] = level
    BY <2>3 DEF Steady
  <2> QED
    BY <2>1, <2>2, <2>4
<1>5. <<y, f[y + 1]>> \in NextEdge(EdgesIn(f, a, b), x)
  BY <1>3, <1>4 DEF NextEdge
<1>6. ASSUME NEW e \in NextEdge(EdgesIn(f, a, b), x) PROVE e = <<y, f[y + 1]>>
  <2>1. e \in EdgesIn(f, a, b) /\ x < e[1] /\ e[1] <= y
    BY <1>3, <1>6 DEF NextEdge
  <2> QED
    BY <1>4, <2>1
<1> QED
  BY <1>5, <1>6

\* Where the level stays to the end there is no next edge.
LEMMA NoNextEdgeIs ==
  ASSUME NEW f, NEW a \in Nat, NEW b \in Nat, NEW x \in a .. b - 1, NEW level, Steady(f, x, b, level)
  PROVE  NextEdge(EdgesIn(f, a, b), x) = {}
<1> SUFFICES ASSUME NEW e \in NextEdge(EdgesIn(f, a, b), x) PROVE FALSE
  OBVIOUS
<1>1. e \in EdgesIn(f, a, b) /\ x < e[1]
  BY DEF NextEdge
<1>2. e[1] \in a + 1 .. b - 1 /\ f[e[1] + 1] # f[e[1]]
  BY <1>1, EdgeIsReal
<1>3. f[e[1] + 1] = level /\ f[e[1] - 1 + 1] = level
  BY <1>1, <1>2 DEF Steady
<1> QED
  BY <1>2, <1>3

-----------------------------------------------------------------------------
(* What the streams hand over: pieces of the lines, in order. *)

\* A frame, and the counter after its last sample.
FrameOf == [first : Nat, levels : Seq(Levels)]
EndOf(f) == f.first + Len(f.levels)

\* Pieces of a line of which h samples were handed over, and all there are.
Piece(l, h, f) ==
  Len(f.levels) > 0 /\ EndOf(f) <= h /\ \A i \in 1 .. Len(f.levels) : f.levels[i] = l[f.first + i]
Pieces(l, h, fs) ==
  /\ fs \in Seq(FrameOf)
  /\ \A k \in 1 .. Len(fs) : Piece(l, h, fs[k])
  /\ \A j, k \in 1 .. Len(fs) : j < k => EndOf(fs[j]) <= fs[k].first
\* Each frame begins where the one before ended.
Adjoin(fs) == \A k \in 1 .. Len(fs) - 1 : Adjacent(fs[k], fs[k + 1])
\* Nothing is missing before, between or after the frames.
AllPieces(h, fs) ==
  /\ fs = <<>> => h = 0
  /\ fs # <<>> => fs[1].first = 0 /\ EndOf(fs[Len(fs)]) = h /\ Adjoin(fs)

\* Pieces of a line are pieces of what the line grows to.
LEMMA PiecesStay ==
  ASSUME NEW l, NEW m, NEW h \in Nat, NEW i \in Nat, h <= i, NEW fs, Pieces(l, h, fs),
         \A k \in 1 .. h : m[k] = l[k]
  PROVE  Pieces(m, i, fs)
<1>1. ASSUME NEW k \in 1 .. Len(fs) PROVE Piece(m, i, fs[k])
  <2> DEFINE f == fs[k]
  <2>1. f \in FrameOf /\ Piece(l, h, f)
    BY DEF Pieces
  <2> HIDE DEF f
  <2>2. f.first \in Nat /\ Len(f.levels) \in Nat /\ f.first + Len(f.levels) <= h
    BY <2>1 DEF FrameOf, Piece, EndOf
  <2>3. \A j \in 1 .. Len(f.levels) : f.first + j \in 1 .. h
    BY <2>2
  <2>4. Piece(m, i, f)
    BY <2>1, <2>2, <2>3 DEF Piece, EndOf
  <2> QED
    BY <2>4 DEF f
<1> QED
  BY <1>1 DEF Pieces

\* The next frame is one more piece.
LEMMA OnePieceMore ==
  ASSUME NEW l, NEW h \in Nat, NEW i \in Nat, h <= i, NEW fs, Pieces(l, h, fs),
         NEW f \in FrameOf, f.first = h, Piece(l, i, f)
  PROVE  Pieces(l, i, Append(fs, f))
<1> DEFINE n == Len(fs)
           gs == Append(fs, f)
<1>1. fs \in Seq(FrameOf) /\ n \in Nat
  BY DEF Pieces
<1>2. /\ gs \in Seq(FrameOf) /\ Len(gs) = n + 1 /\ gs[n + 1] = f
      /\ \A k \in 1 .. n : gs[k] = fs[k]
  BY <1>1
<1> HIDE DEF gs, n
<1>3. Pieces(l, i, fs)
  BY PiecesStay
<1>4. \A k \in 1 .. n : Piece(l, i, gs[k]) /\ EndOf(gs[k]) <= f.first
  BY <1>2, <1>3 DEF Pieces, Piece, n
<1>5. \A k \in 1 .. n + 1 : k \in 1 .. n \/ k = n + 1
  BY <1>1
<1>6. \A k \in 1 .. n + 1 : Piece(l, i, gs[k])
  BY <1>2, <1>4, <1>5
<1>7. ASSUME NEW j \in 1 .. n + 1, NEW k \in 1 .. n + 1, j < k PROVE EndOf(gs[j]) <= gs[k].first
  <2>1. j \in 1 .. n
    BY <1>1, <1>7
  <2>2. CASE k = n + 1
    BY <1>2, <1>4, <2>1, <2>2
  <2>3. CASE k \in 1 .. n
    BY <1>2, <1>3, <1>7, <2>1, <2>3 DEF Pieces, n
  <2> QED
    BY <1>5, <2>2, <2>3
<1> QED
  BY <1>2, <1>6, <1>7 DEF Pieces, gs

\* All there is and the next frame are all there is then.
LEMMA AllAndOneMore ==
  ASSUME NEW h \in Nat, NEW fs \in Seq(FrameOf), AllPieces(h, fs),
         NEW f \in FrameOf, f.first = h, NEW i, EndOf(f) = i
  PROVE  AllPieces(i, Append(fs, f))
<1> DEFINE n == Len(fs)
           gs == Append(fs, f)
<1>1. /\ n \in Nat /\ Len(gs) = n + 1 /\ gs[n + 1] = f /\ gs \in Seq(FrameOf)
      /\ \A k \in 1 .. n : gs[k] = fs[k]
  OBVIOUS
<1>2. fs # <<>> => n > 0
  OBVIOUS
<1>3. fs = <<>> => n = 0
  OBVIOUS
<1> HIDE DEF gs, n
<1>4. gs # <<>>
  BY <1>1
<1>5. gs[1].first = 0
  <2>1. CASE fs = <<>>
    BY <1>1, <1>3, <2>1 DEF AllPieces
  <2>2. CASE fs # <<>>
    <3>1. 1 \in 1 .. n
      BY <1>1, <1>2, <2>2
    <3> QED
      BY <1>1, <2>2, <3>1 DEF AllPieces
  <2> QED
    BY <2>1, <2>2
<1>6. ASSUME NEW k \in 1 .. n PROVE Adjacent(gs[k], gs[k + 1])
  <2>0. fs # <<>> /\ k \in Nat
    BY <1>1, <1>3, <1>6
  <2>1. CASE k = n
    BY <1>1, <2>0, <2>1 DEF AllPieces, Adjacent, EndOf, n
  <2>2. CASE k # n
    <3>1. k \in 1 .. n - 1 /\ k + 1 \in 1 .. n
      BY <1>1, <2>2
    <3> QED
      BY <1>1, <2>0, <3>1 DEF AllPieces, Adjoin, n
  <2> QED
    BY <2>1, <2>2
<1>7. Adjoin(gs)
  BY <1>1, <1>6 DEF Adjoin
<1> QED
  BY <1>1, <1>4, <1>5, <1>7 DEF AllPieces, gs

\* The lines are signals of levels, and no more of them was handed over than was sampled.
SignalsAreLines ==
  /\ setup \in Setups
  /\ line \in [Channels -> Seq(Levels)] /\ \A c \in Channels : Len(line[c]) = Taken
  /\ handed \in [Channels -> Nat] /\ \A c \in Channels : handed[c] <= Taken
  /\ error \in [Channels -> BOOLEAN]
\* What is kept of a line are pieces of it.
FramesAreOfLines ==
  /\ frames = [c \in Channels |-> frames[c]]
  /\ \A c \in Channels : Len(frames[c]) <= MaxFrames /\ Pieces(line[c], handed[c], frames[c])
\* Packets are intervals of the counter, none past what the statistics stream handed over.
PacketsInOrder ==
  /\ packets \in Seq(Nat \X Nat)
  /\ counted \in Nat /\ counted <= Taken /\ lost \in Nat /\ lost <= MaxLosses
  /\ \A i \in 1 .. Len(packets) : packets[i][1] < packets[i][2] /\ packets[i][2] <= counted

\* Where nothing was lost, what is kept is everything.
FramesAreAll == lost = 0 => \A c \in Channels : ~error[c] => AllPieces(handed[c], frames[c])
\* Where nothing was lost, the packets follow each other from the first sample on.
PacketsAreAll ==
  lost = 0 =>
    /\ packets = <<>> => counted = 0
    /\ packets # <<>> => packets[1][1] = 0 /\ packets[Len(packets)][2] = counted /\ Contiguous(packets)
\* The retained evidence is of the lines.
Evident == SignalsAreLines /\ FramesAreOfLines /\ PacketsInOrder /\ FramesAreAll /\ PacketsAreAll

\* The arguments of a capture, and the bounds of its streams, are numbers.
LEMMA SetupBounds ==
  ASSUME setup \in Setups
  PROVE  /\ NeedsDone \in BOOLEAN /\ MinGate \in Nat /\ PlanFloor \in Nat /\ MinGate <= PlanFloor
         /\ FrameSizes \subseteq Nat \ {0} /\ PacketSizes \subseteq Nat \ {0}
         /\ MaxFrames \in Nat /\ MaxLosses \in Nat /\ MaxLag \in Nat /\ Horizon \in Nat
         /\ "gate" \in Channels /\ Channels \subseteq {"gate", "state"} /\ (NeedsDone <=> "state" \in Channels)
BY EvidenceAssumption
   DEF NeedsDone, MinGate, PlanFloor, FrameSizes, PacketSizes, MaxFrames, MaxLosses, MaxLag, Horizon, Channels

\* Before the first sample there is nothing to be wrong.
LEMMA InitEvident == EvidenceInit => Evident
<1> SUFFICES ASSUME EvidenceInit PROVE Evident
  OBVIOUS
<1> USE DEF EvidenceInit
<1>1. /\ MaxFrames \in Nat /\ MaxLosses \in Nat /\ "gate" \in Channels
  BY SetupBounds
<1>2. <<>> \in Seq(Levels) /\ Len(<<>>) = 0 /\ <<>> \in Seq(Nat \X Nat) /\ <<>> \in Seq(FrameOf)
  OBVIOUS
<1>3. SignalsAreLines
  BY <1>1, <1>2 DEF SignalsAreLines, Taken
<1>4. FramesAreOfLines
  BY <1>1, <1>2 DEF FramesAreOfLines, Pieces
<1>5. PacketsInOrder
  BY <1>1, <1>2, <1>3 DEF PacketsInOrder, SignalsAreLines, Taken
<1>6. FramesAreAll /\ PacketsAreAll
  BY DEF FramesAreAll, PacketsAreAll, AllPieces
<1> QED
  BY <1>3, <1>4, <1>5, <1>6 DEF Evident

\* The setup, and with it the channels and the bounds, stays.
LEMMA SetupStays ==
  ASSUME Evident, UNCHANGED setup
  PROVE  /\ Channels' = Channels /\ MaxFrames' = MaxFrames /\ MaxLosses' = MaxLosses
         /\ FrameSizes' = FrameSizes /\ NeedsDone' = NeedsDone /\ setup' \in Setups
         /\ "gate" \in Channels /\ MaxFrames \in Nat /\ MaxLosses \in Nat
         /\ \A c \in Channels : /\ line[c] \in Seq(Levels) /\ Len(line[c]) = Taken /\ Taken \in Nat
                                /\ handed[c] \in Nat /\ handed[c] <= Taken
                                /\ Len(frames[c]) <= MaxFrames /\ Pieces(line[c], handed[c], frames[c])
<1>1. setup' = setup /\ setup \in Setups
  BY DEF Evident, SignalsAreLines
<1>2. /\ Channels' = Channels /\ MaxFrames' = MaxFrames /\ MaxLosses' = MaxLosses
      /\ FrameSizes' = FrameSizes /\ NeedsDone' = NeedsDone
  BY <1>1 DEF Channels, NeedsDone, MaxFrames, MaxLosses, FrameSizes
<1>3. "gate" \in Channels /\ MaxFrames \in Nat /\ MaxLosses \in Nat
  BY <1>1, SetupBounds
<1>4. /\ line \in [Channels -> Seq(Levels)] /\ handed \in [Channels -> Nat]
      /\ \A c \in Channels : Len(line[c]) = Taken
      /\ \A c \in Channels : handed[c] <= Taken
      /\ \A c \in Channels : Len(frames[c]) <= MaxFrames /\ Pieces(line[c], handed[c], frames[c])
  BY DEF Evident, SignalsAreLines, FramesAreOfLines
<1>5. Taken \in Nat
  BY <1>3, <1>4 DEF Taken
<1> QED
  BY <1>1, <1>2, <1>3, <1>4, <1>5

\* A sample adds to the lines, and takes nothing back.
LEMMA SampleStep ==
  ASSUME Evident, UNCHANGED setup, NEW levels \in [Channels -> Levels], Sample(levels)
  PROVE  Evident'
<1> USE DEF Sample, streamVars
<1>1. \A c \in Channels : /\ line'[c] \in Seq(Levels) /\ Len(line'[c]) = Taken + 1
                          /\ \A k \in 1 .. Taken : line'[c][k] = line[c][k]
  <2> SUFFICES ASSUME NEW c \in Channels
               PROVE  /\ line'[c] \in Seq(Levels) /\ Len(line'[c]) = Taken + 1
                      /\ \A k \in 1 .. Taken : line'[c][k] = line[c][k]
    OBVIOUS
  <2>1. line'[c] = Append(line[c], levels[c]) /\ levels[c] \in Levels
    OBVIOUS
  <2>2. line[c] \in Seq(Levels) /\ Len(line[c]) = Taken
    BY SetupStays
  <2> QED
    BY <2>1, <2>2
<1>2. Taken' = Taken + 1 /\ Taken \in Nat
  BY <1>1, SetupStays DEF Taken
<1>3. SignalsAreLines'
  BY <1>1, <1>2, SetupStays DEF Evident, SignalsAreLines
<1>4. ASSUME NEW c \in Channels PROVE Pieces(line'[c], handed[c], frames[c])
  <2>1. \A k \in 1 .. handed[c] : k \in 1 .. Taken
    BY <1>2, SetupStays
  <2>2. handed[c] \in Nat /\ Pieces(line[c], handed[c], frames[c])
    BY SetupStays
  <2>3. \A k \in 1 .. handed[c] : line'[c][k] = line[c][k]
    BY <1>1, <2>1
  <2>4. handed[c] <= handed[c]
    BY <2>2
  <2> QED
    BY <2>2, <2>3, <2>4, PiecesStay
<1>5. FramesAreOfLines'
  BY <1>4, SetupStays DEF Evident, FramesAreOfLines
<1>6. PacketsInOrder'
  BY <1>2, SetupStays DEF Evident, PacketsInOrder
<1>7. FramesAreAll' /\ PacketsAreAll'
  BY SetupStays DEF Evident, FramesAreAll, PacketsAreAll, Contiguous
<1> QED
  BY <1>3, <1>5, <1>6, <1>7 DEF Evident

\* A frame is the next piece of its line.
LEMMA HandedIsAPiece ==
  ASSUME Evident, NEW c \in Channels, NEW n \in FrameSizes, handed[c] + n <= Taken
  PROVE  /\ Handed(c, n) \in FrameOf /\ Handed(c, n).first = handed[c] /\ n \in Nat
         /\ EndOf(Handed(c, n)) = handed[c] + n /\ Piece(line[c], handed[c] + n, Handed(c, n))
<1>1. /\ n \in Nat /\ n > 0 /\ handed[c] \in Nat /\ line[c] \in Seq(Levels) /\ Len(line[c]) = Taken
  BY SetupBounds DEF Evident, SignalsAreLines
<1> DEFINE l == [i \in 1 .. n |-> line[c][handed[c] + i]]
<1>2. l \in [1 .. n -> Levels]
  <2> SUFFICES ASSUME NEW i \in 1 .. n PROVE line[c][handed[c] + i] \in Levels
    OBVIOUS
  <2>1. handed[c] + i \in 1 .. Len(line[c])
    BY <1>1
  <2> QED
    BY <1>1, <2>1
<1>3. \A i \in 1 .. n : l[i] = line[c][handed[c] + i]
  OBVIOUS
<1>4. Handed(c, n) = [first |-> handed[c], levels |-> l]
  BY DEF Handed
<1> HIDE DEF l
<1>5. l \in Seq(Levels) /\ Len(l) = n
  BY <1>1, <1>2
<1> QED
  BY <1>1, <1>3, <1>4, <1>5 DEF FrameOf, EndOf, Piece

\* Whatever becomes of n samples of a channel, they are handed over.
HandsOver(c, n) ==
  /\ handed[c] + n <= Taken /\ handed' = [handed EXCEPT ![c] = handed[c] + n]
  /\ UNCHANGED <<setup, line, packets, counted>>

\* What was handed over is within the line, and the pieces kept stay pieces of it.
LEMMA HandedStep ==
  ASSUME Evident, NEW c \in Channels, NEW n \in FrameSizes, HandsOver(c, n)
  PROVE  /\ handed' \in [Channels -> Nat] /\ Taken' = Taken /\ n \in Nat
         /\ \A d \in Channels : handed[d] <= handed'[d] /\ handed'[d] <= Taken
         /\ handed'[c] = handed[c] + n /\ \A d \in Channels \ {c} : handed'[d] = handed[d]
         /\ \A d \in Channels : Pieces(line'[d], handed'[d], frames[d])
<1>1. n \in Nat /\ handed \in [Channels -> Nat] /\ Taken \in Nat
  BY SetupBounds DEF Evident, SignalsAreLines
<1>2. /\ handed' \in [Channels -> Nat] /\ Taken' = Taken
      /\ \A d \in Channels : handed[d] <= handed'[d] /\ handed'[d] <= Taken
      /\ handed'[c] = handed[c] + n /\ \A d \in Channels \ {c} : handed'[d] = handed[d]
  BY <1>1 DEF HandsOver, Evident, SignalsAreLines, Taken
<1>3. ASSUME NEW d \in Channels PROVE Pieces(line'[d], handed'[d], frames[d])
  <2>1. /\ handed[d] \in Nat /\ handed'[d] \in Nat /\ handed[d] <= handed'[d] /\ line' = line
        /\ Pieces(line[d], handed[d], frames[d])
    BY <1>1, <1>2 DEF HandsOver, Evident, FramesAreOfLines
  <2> QED
    BY <2>1, PiecesStay
<1> QED
  BY <1>1, <1>2, <1>3

\* A frame that is kept.
LEMMA KeepsFrame ==
  ASSUME Evident, NEW c \in Channels, NEW n \in FrameSizes, HandsOver(c, n), ~error[c],
         Len(frames[c]) < MaxFrames, frames' = [frames EXCEPT ![c] = Append(frames[c], Handed(c, n))],
         UNCHANGED <<error, lost>>
  PROVE  Evident'
<1>0. UNCHANGED <<setup, line, packets, counted>> /\ handed[c] + n <= Taken
  BY DEF HandsOver
<1> DEFINE f == Handed(c, n)
<1>1. /\ f \in FrameOf /\ f.first = handed[c] /\ n \in Nat
      /\ EndOf(f) = handed[c] + n /\ Piece(line[c], handed[c] + n, f)
  BY <1>0, HandedIsAPiece
<1> HIDE DEF f
<1>2. SignalsAreLines'
  BY <1>0, SetupStays, HandedStep DEF Evident, SignalsAreLines
<1>3. /\ frames'[c] = Append(frames[c], f) /\ frames' = [d \in Channels |-> frames'[d]]
      /\ \A d \in Channels \ {c} : frames'[d] = frames[d]
  BY DEF f, Evident, FramesAreOfLines
<1>4. /\ handed[c] \in Nat /\ Pieces(line[c], handed[c], frames[c]) /\ frames[c] \in Seq(FrameOf)
      /\ handed'[c] = handed[c] + n /\ line' = line
  BY <1>0, SetupStays, HandedStep DEF Pieces
<1>5. Pieces(line'[c], handed'[c], frames'[c])
  <2>1. handed[c] + n \in Nat /\ handed[c] <= handed[c] + n
    BY <1>1, <1>4
  <2>2. Pieces(line[c], handed[c] + n, Append(frames[c], f))
    BY <1>1, <1>4, <2>1, OnePieceMore
  <2> QED
    BY <1>3, <1>4, <2>2
<1>6. Len(frames'[c]) <= MaxFrames
  BY <1>0, <1>1, <1>3, <1>4, SetupStays
<1>7. FramesAreOfLines'
  <2>1. \A d \in Channels \ {c} : Len(frames'[d]) <= MaxFrames /\ Pieces(line'[d], handed'[d], frames'[d])
    BY <1>0, <1>3, SetupStays, HandedStep
  <2> QED
    BY <1>0, <1>3, <1>5, <1>6, <2>1, SetupStays DEF FramesAreOfLines
<1>8. FramesAreAll'
  <2> SUFFICES ASSUME lost = 0, NEW d \in Channels, ~error[d] PROVE AllPieces(handed'[d], frames'[d])
    BY <1>0, SetupStays DEF FramesAreAll
  <2>1. AllPieces(handed[d], frames[d])
    BY DEF Evident, FramesAreAll
  <2>2. CASE d = c
    BY <1>1, <1>3, <1>4, <2>1, <2>2, AllAndOneMore
  <2>3. CASE d # c
    BY <1>3, <2>1, <2>3, HandedStep
  <2> QED
    BY <2>2, <2>3
<1>9. PacketsInOrder' /\ PacketsAreAll'
  BY <1>0, SetupStays, HandedStep DEF Evident, PacketsInOrder, PacketsAreAll, Contiguous
<1> QED
  BY <1>2, <1>7, <1>8, <1>9 DEF Evident

\* Frames that are refused, malformed or lost: the evidence is as it was, and no longer everything.
LEMMA DropsFrame ==
  ASSUME Evident, NEW c \in Channels, NEW n \in FrameSizes, HandsOver(c, n), UNCHANGED frames,
         error' \in [Channels -> BOOLEAN], \A d \in Channels : error[d] => error'[d],
         lost' \in {lost, lost + 1}, lost' <= MaxLosses, error'[c] \/ lost' # lost
  PROVE  Evident'
<1>0. UNCHANGED <<setup, line, packets, counted>> /\ lost \in Nat
  BY DEF HandsOver, Evident, PacketsInOrder
<1>1. SignalsAreLines'
  BY <1>0, SetupStays, HandedStep DEF Evident, SignalsAreLines
<1>2. FramesAreOfLines'
  <2>1. \A d \in Channels : Len(frames[d]) <= MaxFrames /\ Pieces(line'[d], handed'[d], frames[d])
    BY <1>0, SetupStays, HandedStep
  <2>2. frames = [d \in Channels |-> frames[d]]
    BY DEF Evident, FramesAreOfLines
  <2> QED
    BY <1>0, <2>1, <2>2, SetupStays DEF FramesAreOfLines
<1>3. FramesAreAll'
  <2> SUFFICES ASSUME lost' = 0, NEW d \in Channels, ~error'[d] PROVE AllPieces(handed'[d], frames'[d])
    BY <1>0, SetupStays DEF FramesAreAll
  <2>1. lost' = lost /\ lost = 0
    BY <1>0
  <2>2. d # c /\ ~error[d]
    BY <2>1
  <2>3. handed'[d] = handed[d]
    BY <2>2, HandedStep
  <2>4. AllPieces(handed[d], frames[d])
    BY <2>1, <2>2 DEF Evident, FramesAreAll
  <2> QED
    BY <2>3, <2>4
<1>4. Taken' = Taken /\ MaxLosses' = MaxLosses /\ lost' \in Nat /\ (lost' = 0 => lost = 0)
  BY <1>0, SetupStays, HandedStep
<1>5. PacketsInOrder'
  BY <1>0, <1>4 DEF Evident, PacketsInOrder
<1>6. PacketsAreAll'
  BY <1>0, <1>4 DEF Evident, PacketsAreAll, Contiguous
<1> QED
  BY <1>1, <1>2, <1>3, <1>5, <1>6 DEF Evident

\* A frame is kept, refused, malformed or lost.
LEMMA FrameStep ==
  ASSUME Evident, UNCHANGED setup, NEW c \in Channels, NEW n \in FrameSizes,
         Frame(c, n) \/ BadFrame(c, n) \/ LoseFrame(c, n)
  PROVE  Evident'
<1>1. HandsOver(c, n)
  BY DEF Frame, BadFrame, LoseFrame, HandsOver
<1>2. error \in [Channels -> BOOLEAN] /\ lost \in Nat /\ lost <= MaxLosses /\ MaxLosses \in Nat
  BY SetupBounds DEF Evident, SignalsAreLines, PacketsInOrder
<1>3. CASE Frame(c, n) /\ ~error[c] /\ Len(frames[c]) < MaxFrames
           /\ frames' = [frames EXCEPT ![c] = Append(@, Handed(c, n))] /\ UNCHANGED error
  BY <1>1, <1>3, KeepsFrame DEF Frame
<1>4. CASE Frame(c, n) /\ error' = [error EXCEPT ![c] = TRUE] /\ UNCHANGED frames
  BY <1>1, <1>2, <1>4, DropsFrame DEF Frame
<1>5. CASE BadFrame(c, n)
  BY <1>1, <1>2, <1>5, DropsFrame DEF BadFrame
<1>6. CASE LoseFrame(c, n)
  BY <1>1, <1>2, <1>6, DropsFrame DEF LoseFrame
<1> QED
  BY <1>3, <1>4, <1>5, <1>6 DEF Frame

\* A packet of statistics is handed over or lost.
LEMMA PacketStep ==
  ASSUME Evident, UNCHANGED setup, NEW n \in PacketSizes, Packet(n) \/ LosePacket(n)
  PROVE  Evident'
<1>0. UNCHANGED <<line, streamVars>> /\ counted + n <= Taken /\ counted' = counted + n
  BY DEF Packet, LosePacket
<1>1. /\ n \in Nat /\ n > 0 /\ counted \in Nat /\ lost \in Nat /\ lost <= MaxLosses /\ MaxLosses \in Nat
      /\ packets \in Seq(Nat \X Nat) /\ Taken' = Taken /\ Taken \in Nat
  BY <1>0, SetupBounds DEF Evident, PacketsInOrder, SignalsAreLines, Taken
<1>2. SignalsAreLines' /\ FramesAreOfLines'
  BY <1>0, <1>1, SetupStays DEF streamVars, Evident, SignalsAreLines, FramesAreOfLines
<1>3. CASE Packet(n)
  <2> DEFINE p == <<counted, counted + n>>
             m == Len(packets)
  <2>1. packets' = Append(packets, p) /\ lost' = lost
    BY <1>3 DEF Packet
  <2>2. p \in Nat \X Nat /\ p[1] = counted /\ p[2] = counted + n
    BY <1>1
  <2> HIDE DEF p
  <2>3. /\ m \in Nat /\ packets' \in Seq(Nat \X Nat) /\ Len(packets') = m + 1 /\ packets'[m + 1] = p
        /\ \A i \in 1 .. m : packets'[i] = packets[i] /\ packets[i] \in Nat \X Nat
    BY <1>1, <2>1, <2>2
  <2>4. ASSUME NEW i \in 1 .. m PROVE packets[i][2] <= counted + n /\ packets[i][1] < packets[i][2]
    <3>1. packets[i][1] < packets[i][2] /\ packets[i][2] <= counted
      BY DEF Evident, PacketsInOrder
    <3>2. packets[i][1] \in Nat /\ packets[i][2] \in Nat
      BY <2>3
    <3> QED
      BY <1>1, <3>1, <3>2
  <2>5. \A i \in 1 .. m + 1 : i \in 1 .. m \/ i = m + 1
    BY <2>3
  <2>6. ASSUME NEW i \in 1 .. m + 1 PROVE packets'[i][1] < packets'[i][2] /\ packets'[i][2] <= counted + n
    <3>1. CASE i = m + 1
      BY <1>1, <2>2, <2>3, <3>1
    <3>2. CASE i \in 1 .. m
      BY <2>3, <2>4, <3>2
    <3> QED
      BY <2>5, <3>1, <3>2
  <2>7. PacketsInOrder'
    BY <1>0, <1>1, <2>1, <2>3, <2>6, SetupStays DEF PacketsInOrder
  <2>8. FramesAreAll'
    BY <1>0, <2>1, SetupStays DEF streamVars, Evident, FramesAreAll
  <2>9. PacketsAreAll'
    <3> SUFFICES ASSUME lost = 0
                 PROVE  packets'[1][1] = 0 /\ packets'[m + 1][2] = counted' /\ Contiguous(packets')
      BY <2>1, <2>3 DEF PacketsAreAll
    <3>1. packets = <<>> => counted = 0 /\ m = 0
      BY DEF Evident, PacketsAreAll
    <3>2. packets # <<>> => packets[1][1] = 0 /\ packets[m][2] = counted /\ m > 0
                            /\ \A i \in 1 .. m - 1 : packets[i + 1][1] = packets[i][2]
      BY <1>1 DEF Evident, PacketsAreAll, Contiguous
    <3>3. packets'[1][1] = 0
      BY <2>2, <2>3, <3>1, <3>2
    <3>4. ASSUME NEW i \in 1 .. m PROVE packets'[i + 1][1] = packets'[i][2]
      <4>1. packets # <<>> /\ packets'[i] = packets[i]
        BY <2>3, <3>1
      <4>2. CASE i = m
        BY <2>2, <2>3, <3>2, <4>1, <4>2
      <4>3. CASE i # m
        <5>1. i \in 1 .. m - 1 /\ i + 1 \in 1 .. m
          BY <2>3, <4>3
        <5> QED
          BY <2>3, <3>2, <4>1, <5>1
      <4> QED
        BY <4>2, <4>3
    <3> QED
      BY <1>0, <2>2, <2>3, <3>3, <3>4 DEF Contiguous
  <2> QED
    BY <1>2, <2>7, <2>8, <2>9 DEF Evident
<1>4. CASE LosePacket(n)
  <2>1. packets' = packets /\ lost' = lost + 1 /\ lost < MaxLosses
    BY <1>4 DEF LosePacket
  <2>2. \A i \in 1 .. Len(packets) : packets[i][2] <= counted + n /\ packets[i][1] < packets[i][2]
    <3>1. \A i \in 1 .. Len(packets) : packets[i] \in Nat \X Nat
      BY <1>1
    <3> QED
      BY <1>1, <3>1 DEF Evident, PacketsInOrder
  <2>3. PacketsInOrder' /\ FramesAreAll' /\ PacketsAreAll'
    BY <1>0, <1>1, <2>1, <2>2, SetupStays DEF PacketsInOrder, FramesAreAll, PacketsAreAll
  <2> QED
    BY <1>2, <2>3 DEF Evident
<1> QED
  BY <1>3, <1>4

\* Every step keeps the evidence what it is.
LEMMA EvidentStep ==
  ASSUME Evident, UNCHANGED setup, EvidenceNext
  PROVE  Evident'
<1>1. ASSUME NEW levels \in [Channels -> Levels], Sample(levels) PROVE Evident'
  BY <1>1, SampleStep
<1>2. ASSUME NEW c \in Channels, NEW n \in FrameSizes, Frame(c, n) \/ BadFrame(c, n) \/ LoseFrame(c, n)
      PROVE  Evident'
  BY <1>2, FrameStep
<1>3. ASSUME NEW n \in PacketSizes, Packet(n) \/ LosePacket(n) PROVE Evident'
  BY <1>3, PacketStep
<1> QED
  BY <1>1, <1>2, <1>3 DEF EvidenceNext

\* And what changes nothing of it does not matter.
LEMMA EvidentStays ==
  ASSUME Evident, UNCHANGED evidenceVars
  PROVE  Evident'
<1>1. setup' = setup /\ line' = line /\ handed' = handed /\ frames' = frames /\ error' = error
      /\ packets' = packets /\ counted' = counted /\ lost' = lost
  BY DEF evidenceVars, streamVars
<1> QED
  BY <1>1 DEF Evident, SignalsAreLines, FramesAreOfLines, PacketsInOrder, FramesAreAll, PacketsAreAll, Taken,
              Channels, NeedsDone, MaxFrames, MaxLosses, Contiguous

\* Frames in order, each no further than the next or than what was handed over.
LEMMA EvidentTypes == Evident => EvidenceTypes
<1> SUFFICES ASSUME Evident PROVE EvidenceTypes
  OBVIOUS
<1>1. /\ setup \in Setups /\ MaxLosses \in Nat /\ lost \in Nat /\ lost <= MaxLosses /\ Taken \in Nat
      /\ counted \in Nat /\ counted <= Taken
  BY SetupStays, SetupBounds DEF Evident, SignalsAreLines, PacketsInOrder, Taken
<1>2. \A i \in DOMAIN packets : packets[i][1] < packets[i][2] /\ packets[i][2] <= counted
  <2>1. packets \in Seq(Nat \X Nat)
    BY DEF Evident, PacketsInOrder
  <2>2. DOMAIN packets = 1 .. Len(packets)
    BY <2>1
  <2> QED
    BY <2>2 DEF Evident, PacketsInOrder
<1>3. ASSUME NEW c \in Channels
      PROVE  /\ line[c] \in Seq(Levels) /\ handed[c] \in 0 .. Taken /\ error[c] \in BOOLEAN
             /\ Len(frames[c]) <= MaxFrames
             /\ \A i \in DOMAIN frames[c] :
                  frames[c][i].first + Len(frames[c][i].levels)
                    <= IF i < Len(frames[c]) THEN frames[c][i + 1].first ELSE handed[c]
  <2>1. /\ line[c] \in Seq(Levels) /\ handed[c] \in 0 .. Taken /\ error[c] \in BOOLEAN
        /\ Len(frames[c]) <= MaxFrames
    BY <1>1 DEF Evident, SignalsAreLines, FramesAreOfLines
  <2>2. Pieces(line[c], handed[c], frames[c])
    BY DEF Evident, FramesAreOfLines
  <2>3. ASSUME NEW i \in DOMAIN frames[c]
        PROVE  frames[c][i].first + Len(frames[c][i].levels)
                 <= IF i < Len(frames[c]) THEN frames[c][i + 1].first ELSE handed[c]
    <3>1. i \in 1 .. Len(frames[c]) /\ Len(frames[c]) \in Nat
      BY <2>2 DEF Pieces
    <3>2. frames[c][i].first + Len(frames[c][i].levels) <= handed[c]
      BY <2>2, <3>1 DEF Pieces, Piece, EndOf
    <3>3. CASE i < Len(frames[c])
      <4>1. i + 1 \in 1 .. Len(frames[c]) /\ i < i + 1
        BY <3>1, <3>3
      <4> QED
        BY <2>2, <3>1, <3>3, <4>1 DEF Pieces, EndOf
    <3> QED
      BY <3>2, <3>3
  <2> QED
    BY <2>1, <2>3
<1> QED
  BY <1>1, <1>2, <1>3 DEF EvidenceTypes

-----------------------------------------------------------------------------
(* What a run of adjacent frames decodes to. *)

\* What the first sample of a frame is compared with.
Before(fs, k) == IF k = 1 THEN fs[1].levels[1] ELSE Last(fs[k - 1].levels)

\* A frame, and where it stands on the line.
Stands(l, h, f) ==
  /\ f.first \in Nat /\ Len(f.levels) \in Nat /\ Len(f.levels) > 0 /\ DOMAIN f.levels = 1 .. Len(f.levels)
  /\ EndOf(f) = f.first + Len(f.levels) /\ EndOf(f) \in Nat /\ EndOf(f) <= h
  /\ \A i \in 1 .. Len(f.levels) : f.levels[i] = l[f.first + i]

\* Every frame that is kept stands on the line.
LEMMA FramesStand ==
  ASSUME NEW l, NEW h \in Nat, NEW fs, Pieces(l, h, fs), NEW k \in 1 .. Len(fs)
  PROVE  Stands(l, h, fs[k])
<1>1. fs \in Seq(FrameOf) /\ fs[k] \in FrameOf /\ Piece(l, h, fs[k])
  BY DEF Pieces
<1>2. fs[k].first \in Nat /\ Len(fs[k].levels) \in Nat /\ fs[k].levels \in Seq(Levels)
  BY <1>1 DEF FrameOf
<1>3. EndOf(fs[k]) = fs[k].first + Len(fs[k].levels) /\ DOMAIN fs[k].levels = 1 .. Len(fs[k].levels)
  BY <1>2 DEF EndOf
<1> QED
  BY <1>1, <1>2, <1>3 DEF Piece, Stands

\* There is a first frame and a last one.
LEMMA FirstAndLast ==
  ASSUME NEW l, NEW h, NEW fs, Pieces(l, h, fs), fs # <<>>
  PROVE  /\ fs \in Seq(FrameOf) /\ DOMAIN fs = 1 .. Len(fs) /\ Len(fs) \in Nat /\ Len(fs) > 0
         /\ 1 \in 1 .. Len(fs) /\ Len(fs) \in 1 .. Len(fs)
<1>1. fs \in Seq(FrameOf)
  BY DEF Pieces
<1>2. Len(fs) \in Nat /\ Len(fs) > 0 /\ DOMAIN fs = 1 .. Len(fs)
  BY <1>1
<1> QED
  BY <1>1, <1>2

\* Each sample between the first frame and the last is in one of them.
LEMMA FrameOfCounter ==
  ASSUME NEW l, NEW h \in Nat, NEW fs, Pieces(l, h, fs), fs # <<>>, Adjoin(fs),
         NEW j \in fs[1].first .. EndOf(fs[Len(fs)]) - 1
  PROVE  \E k \in 1 .. Len(fs) : fs[k].first <= j /\ j < EndOf(fs[k])
<1> DEFINE n == Len(fs)
           S == {k \in 1 .. n : fs[k].first <= j}
<1>0. n \in Nat /\ n > 0
  BY FirstAndLast
<1>1. 1 \in 1 .. n /\ n \in 1 .. n
  BY FirstAndLast
<1>2. fs[1].first \in Nat /\ EndOf(fs[n]) \in Nat
  <2>1. Stands(l, h, fs[1]) /\ Stands(l, h, fs[n])
    BY <1>1, FramesStand
  <2> QED
    BY <2>1 DEF Stands
<1>3. j \in Int /\ fs[1].first <= j /\ j < EndOf(fs[n])
  BY <1>2
<1>4. S \in SUBSET Nat /\ S # {} /\ \A m \in S : m <= n
  BY <1>0, <1>1, <1>3
<1>5. PICK k \in S : \A m \in S : m <= k
  BY <1>0, <1>4, GreatestOne
<1>6. k \in 1 .. n /\ fs[k].first <= j
  OBVIOUS
<1>7. j < EndOf(fs[k])
  <2>1. CASE k = n
    BY <1>3, <2>1
  <2>2. CASE k # n
    <3>1. k \in 1 .. n - 1 /\ k + 1 \in 1 .. n /\ k + 1 > k
      BY <1>6, <2>2
    <3>2. fs[k + 1].first \in Nat /\ EndOf(fs[k]) \in Nat
      <4>1. Stands(l, h, fs[k]) /\ Stands(l, h, fs[k + 1])
        BY <1>6, <3>1, FramesStand
      <4> QED
        BY <4>1 DEF Stands
    <3>3. fs[k + 1].first = EndOf(fs[k])
      BY <3>1 DEF Adjoin, Adjacent, EndOf
    <3>4. k + 1 \notin S
      BY <1>5, <1>6, <3>1
    <3>5. ~(fs[k + 1].first <= j)
      BY <3>1, <3>4
    <3> QED
      BY <1>3, <3>2, <3>3, <3>5
  <2> QED
    BY <2>1, <2>2
<1> QED
  BY <1>6, <1>7

\* The level a frame is compared with is the line's at the sample before it.
LEMMA BeforeIsLine ==
  ASSUME NEW l, NEW h \in Nat, NEW fs, Pieces(l, h, fs), fs # <<>>, Adjoin(fs),
         NEW k \in 2 .. Len(fs)
  PROVE  Before(fs, k) = l[fs[k].first] /\ fs[1].first < fs[k].first
<1>0. Len(fs) \in Nat
  BY FirstAndLast
<1>1. k \in 1 .. Len(fs) /\ k - 1 \in 1 .. Len(fs) - 1 /\ k - 1 \in 1 .. Len(fs) /\ 1 \in 1 .. Len(fs) /\ k # 1 /\ 1 < k
  BY <1>0
<1> DEFINE g == fs[k - 1]
<1>2. /\ g.first \in Nat /\ Len(g.levels) \in Nat /\ Len(g.levels) > 0
      /\ \A i \in 1 .. Len(g.levels) : g.levels[i] = l[g.first + i]
  <2>1. Stands(l, h, g)
    BY <1>1, FramesStand
  <2> QED
    BY <2>1 DEF Stands
<1>3. g.levels[Len(g.levels)] = l[g.first + Len(g.levels)]
  BY <1>2
<1>4. fs[k - 1 + 1].first = g.first + Len(g.levels)
  BY <1>1 DEF Adjoin, Adjacent
<1>5. k - 1 + 1 = k
  BY <1>1
<1>6. EndOf(fs[1]) <= fs[k].first
  BY <1>1 DEF Pieces
<1>7. fs[1].first < EndOf(fs[1]) /\ fs[1].first \in Nat /\ EndOf(fs[1]) \in Nat /\ fs[k].first \in Nat
  <2>1. Stands(l, h, fs[1]) /\ Stands(l, h, fs[k])
    BY <1>1, FramesStand
  <2> QED
    BY <2>1 DEF Stands
<1> QED
  BY <1>1, <1>3, <1>4, <1>5, <1>6, <1>7 DEF Before, Last

\* The place of a sample in its frame, and on the line.
LEMMA WithinFrame ==
  ASSUME NEW first \in Nat, NEW n \in Nat, NEW i \in 2 .. n, NEW a \in Nat, NEW b \in Nat,
         a <= first, first + n <= b
  PROVE  /\ i - 1 \in 1 .. n /\ first + i - 1 \in a + 1 .. b - 1
         /\ first + i - 1 = first + (i - 1) /\ first + i - 1 + 1 = first + i
OBVIOUS

\* An edge that is decoded is an edge of the line ...
LEMMA DecodedIsReal ==
  ASSUME NEW l, NEW h \in Nat, NEW fs, Pieces(l, h, fs), fs # <<>>, Adjoin(fs),
         NEW k \in 1 .. Len(fs), NEW e \in EdgesOf(fs[k], Before(fs, k))
  PROVE  e \in EdgesIn(l, fs[1].first, EndOf(fs[Len(fs)]))
<1> DEFINE f == fs[k]
           a == fs[1].first
           b == EndOf(fs[Len(fs)])
<1>0. Len(fs) \in Nat /\ 1 \in 1 .. Len(fs) /\ Len(fs) \in 1 .. Len(fs) /\ k \in Nat
  BY FirstAndLast
<1>00. Stands(l, h, f)
  BY FramesStand
<1>1. /\ f.first \in Nat /\ Len(f.levels) \in Nat /\ Len(f.levels) > 0 /\ EndOf(f) = f.first + Len(f.levels)
      /\ \A i \in 1 .. Len(f.levels) : f.levels[i] = l[f.first + i] /\ DOMAIN f.levels = 1 .. Len(f.levels)
  BY <1>00 DEF Stands
<1>2. PICK i \in DOMAIN f.levels : /\ e = <<f.first + i - 1, f.levels[i]>>
                                   /\ f.levels[i] # IF i = 1 THEN Before(fs, k) ELSE f.levels[i - 1]
  BY DEF EdgesOf
<1>3. i \in 1 .. Len(f.levels)
  BY <1>1
<1>4. a \in Nat /\ b \in Nat /\ EndOf(f) <= b
  <2>0. Stands(l, h, fs[1]) /\ Stands(l, h, fs[Len(fs)])
    BY <1>0, FramesStand
  <2>1. a \in Nat /\ b \in Nat /\ fs[Len(fs)].first \in Nat /\ fs[Len(fs)].first < b
    BY <2>0 DEF Stands
  <2>2. CASE k = Len(fs)
    BY <1>1, <2>1, <2>2
  <2>3. CASE k # Len(fs)
    <3>1. k < Len(fs)
      BY <1>0, <2>3
    <3>2. EndOf(f) <= fs[Len(fs)].first
      BY <1>0, <3>1 DEF Pieces
    <3> QED
      BY <1>1, <2>1, <3>2
  <2> QED
    BY <2>2, <2>3
<1>5. k = 1 \/ k \in 2 .. Len(fs)
  BY <1>0
<1>6. a <= f.first
  <2>1. k \in 2 .. Len(fs) => a < f.first
    BY BeforeIsLine
  <2> QED
    BY <1>1, <1>4, <1>5, <2>1
<1>7. f.levels[i] = l[f.first + i]
  BY <1>1, <1>3
<1>8. CASE i = 1
  <2>1. k # 1
    BY <1>2, <1>8 DEF Before
  <2>2. Before(fs, k) = l[f.first] /\ a < f.first
    BY <1>5, <2>1, BeforeIsLine
  <2>3. f.first \in a + 1 .. b - 1 /\ l[f.first + 1] # l[f.first]
    BY <1>1, <1>2, <1>4, <1>7, <1>8, <2>2
  <2>4. e = <<f.first, l[f.first + 1]>>
    BY <1>1, <1>2, <1>7, <1>8
  <2> QED
    BY <2>3, <2>4 DEF EdgesIn
<1>9. CASE i # 1
  <2> DEFINE j == f.first + i - 1
  <2>1. i - 1 \in 1 .. Len(f.levels) /\ j \in a + 1 .. b - 1 /\ j = f.first + (i - 1) /\ j + 1 = f.first + i
    <3>1. i > 1 /\ i <= Len(f.levels) /\ i \in Nat /\ f.first + Len(f.levels) <= b
      BY <1>1, <1>3, <1>4, <1>9
    <3>2. f.first \in Nat /\ a \in Nat /\ b \in Nat /\ a <= f.first /\ Len(f.levels) \in Nat
      BY <1>1, <1>4, <1>6
    <3>3. i \in 2 .. Len(f.levels)
      BY <3>1, <3>2
    <3> HIDE DEF f, a, b
    <3> QED
      BY <3>1, <3>2, <3>3, WithinFrame
  <2>2. f.levels[i - 1] = l[f.first + (i - 1)]
    BY <1>1, <2>1
  <2>3. e = <<j, l[j + 1]>> /\ l[j + 1] # l[j]
    BY <1>2, <1>7, <1>9, <2>1, <2>2
  <2> QED
    BY <2>1, <2>3 DEF EdgesIn
<1> QED
  BY <1>8, <1>9

\* ... and an edge of the line is decoded.
LEMMA RealIsDecoded ==
  ASSUME NEW l, NEW h \in Nat, NEW fs, Pieces(l, h, fs), fs # <<>>, Adjoin(fs),
         NEW e \in EdgesIn(l, fs[1].first, EndOf(fs[Len(fs)]))
  PROVE  \E k \in 1 .. Len(fs) : e \in EdgesOf(fs[k], Before(fs, k))
<1> DEFINE a == fs[1].first
           b == EndOf(fs[Len(fs)])
<1>0. Len(fs) \in Nat /\ 1 \in 1 .. Len(fs) /\ Len(fs) \in 1 .. Len(fs)
  BY FirstAndLast
<1>1. a \in Nat /\ b \in Nat
  <2>1. Stands(l, h, fs[1]) /\ Stands(l, h, fs[Len(fs)])
    BY <1>0, FramesStand
  <2> QED
    BY <2>1 DEF Stands
<1> DEFINE j == e[1]
<1>2. e = <<j, l[j + 1]>> /\ j \in a + 1 .. b - 1 /\ j \in Nat /\ l[j + 1] # l[j]
  <2>1. e \in EdgesIn(l, a, b)
    OBVIOUS
  <2> HIDE DEF a, b
  <2>2. /\ e = <<e[1], e[2]>> /\ e[1] \in a + 1 .. b - 1 /\ e[1] \in Nat
        /\ e[2] = l[e[1] + 1] /\ l[e[1] + 1] # l[e[1]]
    BY <1>1, <2>1, EdgeIsReal
  <2> QED
    BY <2>2
<1> HIDE DEF j
<1>3. j \in a .. b - 1
  BY <1>1, <1>2
<1>4. PICK k \in 1 .. Len(fs) : fs[k].first <= j /\ j < EndOf(fs[k])
  BY <1>3, FrameOfCounter
<1> DEFINE f == fs[k]
           i == j - f.first + 1
<1>5. /\ f.first \in Nat /\ Len(f.levels) \in Nat /\ EndOf(f) = f.first + Len(f.levels)
      /\ DOMAIN f.levels = 1 .. Len(f.levels)
      /\ \A x \in 1 .. Len(f.levels) : f.levels[x] = l[f.first + x]
  <2>1. Stands(l, h, f)
    BY FramesStand
  <2> QED
    BY <2>1 DEF Stands
<1>6. i \in 1 .. Len(f.levels) /\ f.first + i = j + 1 /\ f.first + i - 1 = j
  <2>1. f.first <= j /\ j < f.first + Len(f.levels)
    BY <1>4, <1>5
  <2>2. f.first \in Nat /\ Len(f.levels) \in Nat /\ j \in Nat
    BY <1>2, <1>5
  <2> DEFINE at == f.first
             long == Len(f.levels)
  <2> HIDE DEF f, at, long
  <2>3. /\ j - at + 1 \in 1 .. long /\ at + (j - at + 1) = j + 1
        /\ at + (j - at + 1) - 1 = j
    BY <2>1, <2>2 DEF at, long
  <2> QED
    BY <2>3 DEF at, long
<1> HIDE DEF i
<1>7. f.levels[i] = l[j + 1]
  BY <1>5, <1>6
<1>8. DOMAIN f.levels = 1 .. Len(f.levels)
  BY <1>5
<1>9. (IF i = 1 THEN Before(fs, k) ELSE f.levels[i - 1]) = l[j]
  <2>1. CASE i = 1
    <3>1. f.first = j
      BY <1>2, <1>5, <1>6, <2>1
    <3>2. k # 1
      BY <1>1, <1>2, <3>1
    <3>3. k \in 2 .. Len(fs)
      BY <1>0, <3>2
    <3> QED
      BY <2>1, <3>1, <3>3, BeforeIsLine
  <2>2. CASE i # 1
    <3>1. i - 1 \in 1 .. Len(f.levels) /\ f.first + (i - 1) = j
      <4> DEFINE x == f.first
                 n == Len(f.levels)
      <4>1. x \in Nat /\ n \in Nat /\ i \in 1 .. n /\ i # 1 /\ x + i = j + 1
        BY <1>5, <1>6, <2>2
      <4> HIDE DEF x, n
      <4>2. i - 1 \in 1 .. n /\ x + (i - 1) = j
        BY <1>2, <4>1
      <4> QED
        BY <4>2 DEF x, n
    <3> QED
      BY <1>5, <2>2, <3>1
  <2> QED
    BY <2>1, <2>2
<1>10. e = <<f.first + i - 1, f.levels[i]>>
  BY <1>2, <1>6, <1>7
<1>11. e \in EdgesOf(f, Before(fs, k))
  BY <1>2, <1>6, <1>7, <1>8, <1>9, <1>10 DEF EdgesOf
<1> QED
  BY <1>11

\* An accepted trace, and what it says of the line.
LEMMA TraceFacts ==
  ASSUME Evident, NEW c \in Channels, NEW t \in Traces(c)
  PROVE  /\ t.first \in Nat /\ t.end \in Nat /\ t.first < t.end /\ t.end <= handed[c]
         /\ t.edges = EdgesIn(line[c], t.first, t.end)
         /\ t.initial = line[c][t.first + 1] /\ t.level = line[c][t.end]
         /\ ~error[c] /\ frames[c] # <<>> /\ Adjoin(frames[c]) /\ packets # <<>> /\ Contiguous(packets)
         /\ t.first = frames[c][1].first /\ t.end = EndOf(frames[c][Len(frames[c])])
<1> DEFINE fs == frames[c]
           l == line[c]
           h == handed[c]
           last == fs[Len(fs)]
<1>1. ~error[c] /\ fs # <<>> /\ Adjoin(fs) /\ packets # <<>> /\ Contiguous(packets)
  BY Zenon DEF Traces, Adjoin
<1>2. t = [first |-> fs[1].first, initial |-> fs[1].levels[1],
           edges |-> UNION {EdgesOf(fs[k], Before(fs, k)) : k \in DOMAIN fs},
           level |-> Last(Last(fs).levels), end |-> Last(fs).first + Len(Last(fs).levels)]
  BY <1>1 DEF Traces, Before
<1>3. h \in Nat /\ Pieces(l, h, fs)
  BY DEF Evident, SignalsAreLines, FramesAreOfLines
<1>4. fs \in Seq(FrameOf) /\ Len(fs) \in Nat /\ DOMAIN fs = 1 .. Len(fs) /\ 1 \in 1 .. Len(fs) /\ Len(fs) \in 1 .. Len(fs)
  BY <1>1, <1>3, FirstAndLast
<1>5. Last(fs) = last /\ Last(last.levels) = last.levels[Len(last.levels)] /\ EndOf(last) = last.first + Len(last.levels)
  BY DEF Last, EndOf
<1>6. UNION {EdgesOf(fs[k], Before(fs, k)) : k \in DOMAIN fs} = EdgesIn(l, fs[1].first, EndOf(last))
  <2>1. \A k \in 1 .. Len(fs) : EdgesOf(fs[k], Before(fs, k)) \subseteq EdgesIn(l, fs[1].first, EndOf(last))
    BY <1>1, <1>3, DecodedIsReal
  <2>2. \A e \in EdgesIn(l, fs[1].first, EndOf(last)) : \E k \in 1 .. Len(fs) : e \in EdgesOf(fs[k], Before(fs, k))
    BY <1>1, <1>3, RealIsDecoded
  <2> QED
    BY <1>4, <2>1, <2>2
<1>7. /\ fs[1].first \in Nat /\ EndOf(last) \in Nat /\ EndOf(last) <= h /\ Len(last.levels) > 0 /\ last.first \in Nat
      /\ Len(last.levels) \in Nat /\ EndOf(fs[1]) \in Nat /\ fs[1].first < EndOf(fs[1])
      /\ fs[1].levels[1] = l[fs[1].first + 1] /\ last.levels[Len(last.levels)] = l[last.first + Len(last.levels)]
  <2>1. /\ fs[1].first \in Nat /\ Len(fs[1].levels) \in Nat /\ Len(fs[1].levels) > 0
        /\ EndOf(fs[1]) = fs[1].first + Len(fs[1].levels)
        /\ \A i \in 1 .. Len(fs[1].levels) : fs[1].levels[i] = l[fs[1].first + i]
    <3>1. Stands(l, h, fs[1])
      BY <1>3, <1>4, FramesStand
    <3> QED
      BY <3>1 DEF Stands
  <2>2. /\ last.first \in Nat /\ Len(last.levels) \in Nat /\ Len(last.levels) > 0
        /\ EndOf(last) = last.first + Len(last.levels) /\ EndOf(last) <= h
        /\ \A i \in 1 .. Len(last.levels) : last.levels[i] = l[last.first + i]
    <3>1. Stands(l, h, last)
      BY <1>3, <1>4, FramesStand
    <3> QED
      BY <3>1 DEF Stands
  <2>3. fs[1].levels[1] = l[fs[1].first + 1]
    BY <2>1
  <2>4. last.levels[Len(last.levels)] = l[last.first + Len(last.levels)]
    <3>1. Len(last.levels) \in 1 .. Len(last.levels)
      <4> HIDE DEF last
      <4> QED
        BY <2>2
    <3> QED
      BY <2>2, <3>1
  <2>5. EndOf(fs[1]) \in Nat /\ fs[1].first < EndOf(fs[1]) /\ EndOf(last) \in Nat
    <3> DEFINE f == fs[1]
               x == last
    <3> HIDE DEF f, x, last
    <3> QED
      BY <2>1, <2>2 DEF f, x
  <2> QED
    BY <2>1, <2>2, <2>3, <2>4, <2>5
<1>8. fs[1].first < EndOf(last)
  <2>1. CASE Len(fs) = 1
    BY <1>7, <2>1
  <2>2. CASE Len(fs) # 1
    <3>0. 1 < Len(fs)
      <4> DEFINE n == Len(fs)
      <4>1. n \in Nat /\ 1 \in 1 .. n
        BY <1>4
      <4> HIDE DEF n
      <4>2. n # 1 => 1 < n
        BY <4>1
      <4> QED
        BY <2>2, <4>2 DEF n
    <3>1. EndOf(fs[1]) <= last.first
      BY <1>3, <1>4, <3>0 DEF Pieces
    <3> QED
      BY <1>5, <1>7, <3>1
  <2> QED
    BY <2>1, <2>2
<1> QED
  BY <1>1, <1>2, <1>5, <1>6, <1>7, <1>8

\* So an accepted trace is the signal.
LEMMA EvidentTraces == Evident => TraceIsSignal
<1> SUFFICES ASSUME Evident, NEW c \in Channels, NEW t \in Traces(c)
             PROVE  /\ t.edges = TrueEdges(c, t.first, t.end)
                    /\ t.initial = line[c][t.first + 1] /\ t.level = line[c][t.end]
  BY DEF TraceIsSignal
<1>1. TrueEdges(c, t.first, t.end) = EdgesIn(line[c], t.first, t.end)
  BY DEF TrueEdges, EdgesIn
<1> QED
  BY <1>1, TraceFacts

-----------------------------------------------------------------------------
(* What the completion's operators find on a trace, in terms of the lines. *)

\* A trace is the stretch of a line between two counters.
IsTraceOf(g, l) ==
  /\ g.first \in Nat /\ g.end \in Nat /\ g.first < g.end
  /\ g.edges = EdgesIn(l, g.first, g.end)
  /\ g.initial = l[g.first + 1] /\ g.level = l[g.end]
  /\ \A k \in 1 .. g.end : l[k] \in Levels

\* The gate counts as idle where it was low at this sample and at the one before.
LEMMA IdleIs ==
  ASSUME NEW g, NEW l, IsTraceOf(g, l), NEW n \in g.first + 1 .. g.end - 1
  PROVE  IdleBefore(g, n) <=> (l[n] = 0 /\ l[n + 1] = 0)
<1> DEFINE a == g.first
           b == g.end
           B == {e \in g.edges : e[1] <= n}
<1>1. a \in Nat /\ b \in Nat /\ g.edges = EdgesIn(l, a, b) /\ g.initial = l[a + 1]
  BY DEF IsTraceOf
<1>2. n \in a + 1 .. b - 1
  OBVIOUS
<1> HIDE DEF a, b
<1>3. n \in Nat /\ n - 1 \in Nat /\ n - 1 + 1 = n
  BY <1>1, <1>2
<1>4. CASE B = {}
  <2>1. IdleAt(g, n) = <<a, l[a + 1]>>
    BY <1>1, <1>4 DEF IdleAt, a
  <2>2. \A e \in EdgesIn(l, a, b) : ~(a < e[1] /\ e[1] < n + 1)
    <3> SUFFICES ASSUME NEW e \in EdgesIn(l, a, b) PROVE ~(e[1] < n + 1)
      OBVIOUS
    <3>1. e[1] \in Nat /\ ~(e[1] <= n)
      BY <1>1, <1>4, EdgeIsReal
    <3> QED
      BY <1>3, <3>1
  <2>3. a \in a .. b - 1 /\ n + 1 \in a .. b
    BY <1>1, <1>2
  <2>4. Steady(l, a, n + 1, l[a + 1])
    BY <1>1, <2>2, <2>3, NoEdgeIsSteady
  <2>5. n - 1 \in a .. n + 1 - 1 /\ n \in a .. n + 1 - 1 /\ a < n
    BY <1>1, <1>2
  <2>6. l[n - 1 + 1] = l[a + 1] /\ l[n + 1] = l[a + 1]
    BY <2>4, <2>5 DEF Steady
  <2> QED
    BY <1>3, <2>1, <2>5, <2>6 DEF IdleBefore
<1>5. CASE B # {}
  <2> DEFINE S == {e[1] : e \in B}
             newest == CHOOSE e \in B : \A d \in B : d[1] <= e[1]
  <2>1. S \in SUBSET Nat /\ S # {} /\ \A m \in S : m <= n
    <3>1. \A e \in B : e[1] \in Nat
      BY <1>1, EdgeIsReal
    <3> QED
      BY <1>5, <3>1
  <2>2. PICK m \in S : \A x \in S : x <= m
    BY <1>3, <2>1, GreatestOne
  <2>3. PICK e \in B : e[1] = m
    OBVIOUS
  <2>4. \A d \in B : d[1] <= e[1]
    BY <2>2, <2>3
  <2>5. newest \in B /\ \A d \in B : d[1] <= newest[1]
    BY <2>4
  <2>6. IdleAt(g, n) = newest
    BY <1>5 DEF IdleAt
  <2> HIDE DEF newest
  <2> DEFINE y == newest[1]
  <2>7. /\ newest = <<y, newest[2]>> /\ y \in a + 1 .. b - 1 /\ y \in Nat /\ y <= n
        /\ newest[2] = l[y + 1] /\ l[y + 1] # l[y]
    <3>1. newest \in EdgesIn(l, a, b) /\ newest[1] <= n
      BY <1>1, <2>5
    <3> QED
      BY <1>1, <3>1, EdgeIsReal
  <2>8. \A d \in EdgesIn(l, a, b) : ~(y < d[1] /\ d[1] < n + 1)
    <3> SUFFICES ASSUME NEW d \in EdgesIn(l, a, b), d[1] < n + 1 PROVE ~(y < d[1])
      OBVIOUS
    <3>1. d[1] \in Nat
      BY <1>1, EdgeIsReal
    <3>2. d \in B
      BY <1>1, <1>3, <3>1
    <3> QED
      BY <2>5, <2>7, <3>1, <3>2
  <2> HIDE DEF y
  <2>9. y \in a .. b - 1 /\ n + 1 \in y .. b
    BY <1>1, <1>2, <1>3, <2>7
  <2>10. Steady(l, y, n + 1, l[y + 1])
    BY <1>1, <2>8, <2>9, NoEdgeIsSteady
  <2>11. l[n + 1] = l[y + 1]
    <3>1. n \in y .. n + 1 - 1
      BY <1>3, <2>7
    <3> QED
      BY <2>10, <3>1 DEF Steady
  <2>12. y < n => l[n] = l[y + 1]
    <3>1. y < n => n - 1 \in y .. n + 1 - 1
      BY <1>3, <2>7
    <3> QED
      BY <1>3, <2>10, <3>1 DEF Steady
  <2>13. ~(y < n) => y = n
    BY <1>3, <2>7
  <2>14. IdleAt(g, n)[1] = y /\ IdleAt(g, n)[2] = l[y + 1]
    BY <2>6, <2>7 DEF y
  <2> QED
    BY <2>7, <2>11, <2>12, <2>13, <2>14 DEF IdleBefore
<1> QED
  BY <1>4, <1>5

\* READY at a, its acknowledgement at b, the gate from r to f, DONE at d, on the lines themselves.
Transacts(lg, ls, a, b, r, f, d) ==
  /\ {a, b, r, f, d} \subseteq Nat /\ 0 < a /\ a < b /\ b <= r /\ r < f /\ f <= d
  /\ ls[a] = 0 /\ Steady(ls, a, b, 1) /\ Steady(ls, b, d, 0) /\ ls[d + 1] = 1
  /\ lg[a] = 0 /\ Steady(lg, a, r, 0) /\ Steady(lg, r, f, 1) /\ Steady(lg, f, d + 1, 0)

\* A transaction on the lines is found on every trace that holds it.
LEMMA TransactionIsSeen ==
  ASSUME NEW g, NEW s, NEW lg, NEW ls, IsTraceOf(g, lg), IsTraceOf(s, ls),
         NEW a, NEW b, NEW r, NEW f, NEW d, Transacts(lg, ls, a, b, r, f, d),
         g.first < a, s.first < a, d < g.end, d < s.end
  PROVE  /\ <<a, 1>> \in Attempts(g, s)
         /\ Acknowledged(s, a) = {<<b, 0>>} /\ Done(s, a) = {<<d, 1>>}
         /\ Between(g, s, a) = {<<r, 1>>, <<f, 0>>}
<1> DEFINE ga == g.first
           gb == g.end
           sa == s.first
           sb == s.end
<1>1. /\ ga \in Nat /\ gb \in Nat /\ g.edges = EdgesIn(lg, ga, gb)
      /\ sa \in Nat /\ sb \in Nat /\ s.edges = EdgesIn(ls, sa, sb)
  BY DEF IsTraceOf
<1>2. /\ a \in Nat /\ b \in Nat /\ r \in Nat /\ f \in Nat /\ d \in Nat
      /\ 0 < a /\ a < b /\ b <= r /\ r < f /\ f <= d
      /\ ls[a] = 0 /\ Steady(ls, a, b, 1) /\ Steady(ls, b, d, 0) /\ ls[d + 1] = 1
      /\ lg[a] = 0 /\ Steady(lg, a, r, 0) /\ Steady(lg, r, f, 1) /\ Steady(lg, f, d + 1, 0)
  BY DEF Transacts
<1>3. ga < a /\ sa < a /\ d < gb /\ d < sb
  OBVIOUS
<1> HIDE DEF ga, gb, sa, sb
<1>4. ls[a + 1] = 1 /\ ls[b + 1] = 0 /\ lg[a + 1] = 0 /\ lg[r + 1] = 1 /\ lg[f + 1] = 0
  BY <1>2 DEF Steady
<1>5. lg[r] = 0 /\ lg[f] = 1
  <2>1. r - 1 \in a .. r - 1 /\ f - 1 \in r .. f - 1 /\ r - 1 + 1 = r /\ f - 1 + 1 = f
    BY <1>2
  <2>2. lg[r - 1 + 1] = 0 /\ lg[f - 1 + 1] = 1
    BY <1>2, <2>1 DEF Steady
  <2> QED
    BY <2>1, <2>2
<1>6. Acknowledged(s, a) = {<<b, 0>>}
  <2>1. a \in sa .. sb - 1 /\ b \in a + 1 .. sb - 1
    BY <1>1, <1>2, <1>3
  <2>2. ls[b + 1] # 1
    BY <1>4
  <2>3. NextEdge(EdgesIn(ls, sa, sb), a) = {<<b, ls[b + 1]>>}
    BY <1>1, <1>2, <2>1, <2>2, NextEdgeIs
  <2> QED
    BY <1>1, <1>4, <2>3 DEF Acknowledged
<1>7. Done(s, a) = {<<d, 1>>}
  <2>1. b \in sa .. sb - 1 /\ d \in b + 1 .. sb - 1
    BY <1>1, <1>2, <1>3
  <2>2. NextEdge(s.edges, b) = {<<d, 1>>}
    BY <1>1, <1>2, <2>1, NextEdgeIs
  <2>3. <<b, 0>>[1] = b
    OBVIOUS
  <2> QED
    BY <1>6, <2>2, <2>3 DEF Done
<1>8. Between(g, s, a) = {<<r, 1>>, <<f, 0>>}
  <2>1. Between(g, s, a) = {e \in EdgesIn(lg, ga, gb) : a < e[1] /\ e[1] <= d}
    BY <1>1, <1>7 DEF Between
  <2>2. r \in ga + 1 .. gb - 1 /\ f \in ga + 1 .. gb - 1
    BY <1>1, <1>2, <1>3
  <2>3. <<r, lg[r + 1]>> \in EdgesIn(lg, ga, gb) /\ <<f, lg[f + 1]>> \in EdgesIn(lg, ga, gb)
    BY <1>4, <1>5, <2>2 DEF EdgesIn
  <2>4. <<r, 1>> \in Between(g, s, a) /\ <<f, 0>> \in Between(g, s, a)
    BY <1>2, <1>4, <2>1, <2>3
  <2>5. ASSUME NEW e \in Between(g, s, a) PROVE e = <<r, 1>> \/ e = <<f, 0>>
    <3> DEFINE n == e[1]
    <3>1. /\ e = <<n, lg[n + 1]>> /\ n \in Nat /\ lg[n + 1] # lg[n] /\ a < n /\ n <= d
      BY <1>1, <2>1, EdgeIsReal
    <3> HIDE DEF n
    <3>2. n - 1 \in Nat /\ n - 1 + 1 = n
      BY <1>2, <3>1
    <3>3. n < r => lg[n + 1] = 0 /\ lg[n - 1 + 1] = 0
      BY <1>2, <3>1, <3>2 DEF Steady
    <3>4. r < n /\ n < f => lg[n + 1] = 1 /\ lg[n - 1 + 1] = 1
      BY <1>2, <3>1, <3>2 DEF Steady
    <3>5. f < n => lg[n + 1] = 0 /\ lg[n - 1 + 1] = 0
      BY <1>2, <3>1, <3>2 DEF Steady
    <3>6. n = r \/ n = f
      BY <1>2, <3>1, <3>2, <3>3, <3>4, <3>5
    <3> QED
      BY <1>4, <3>1, <3>6
  <2> QED
    BY <2>4, <2>5
<1>9. IdleBefore(g, a)
  <2>1. a \in g.first + 1 .. g.end - 1
    BY <1>1, <1>2, <1>3 DEF ga, gb
  <2> QED
    BY <1>2, <1>4, <2>1, IdleIs
<1>10. a > Start(g, s)
  BY <1>3 DEF Start, ga, sa
<1>11. <<a, 1>> \in s.edges
  <2>1. a \in sa + 1 .. sb - 1
    BY <1>1, <1>2, <1>3
  <2>2. <<a, ls[a + 1]>> \in EdgesIn(ls, sa, sb)
    BY <1>2, <1>4, <2>1 DEF EdgesIn
  <2> QED
    BY <1>1, <1>4, <2>2
<1>12. <<a, 1>> \in Attempts(g, s)
  <2>1. <<a, 1>>[1] = a /\ <<a, 1>>[2] = 1
    OBVIOUS
  <2> QED
    BY <1>6, <1>8, <1>9, <1>10, <1>11, <2>1 DEF Attempts
<1> QED
  BY <1>6, <1>7, <1>8, <1>12

\* The evidence ends with the first of its parts to end.
LEMMA EndIsLeast ==
  ASSUME NEW g, NEW s, g.end \in Nat, s.end \in Nat, Last(packets)[2] \in Nat
  PROVE  /\ End(g, s) \in Nat /\ End(g, s) <= g.end /\ End(g, s) <= s.end /\ End(g, s) <= Last(packets)[2]
         /\ End(g, s) \in {g.end, s.end, Last(packets)[2]}
<1> DEFINE x == g.end
           y == s.end
           z == Last(packets)[2]
           S == {x, y, z}
<1>1. x \in Nat /\ y \in Nat /\ z \in Nat
  OBVIOUS
<1> HIDE DEF x, y, z
<1>2. \E m \in S : \A n \in S : m <= n
  BY <1>1
<1>3. Min(S) \in S /\ \A n \in S : Min(S) <= n
  BY <1>2 DEF Min
<1> QED
  BY <1>1, <1>3 DEF End, x, y, z

\* A transaction that is resolved is made of edges, and its times are numbers.
LEMMA NatOfWhole ==
  ASSUME NEW g, NEW s, NEW lg, NEW ls, IsTraceOf(g, lg), IsTraceOf(s, ls), NEW t \in Resolve(g, s)
  PROVE  /\ t = <<t[1], t[2], t[3], t[4], t[5]>>
         /\ Attempts(g, s) = {<<t[1], 1>>} /\ Whole(g, s, t) /\ Quiet(g, s, t)
         /\ {t[1], t[2], t[3], t[4], t[5]} \subseteq Nat
         /\ <<t[1], 1>> \in EdgesIn(ls, s.first, s.end)
         /\ <<t[2], 0>> \in NextEdge(EdgesIn(ls, s.first, s.end), t[1])
         /\ <<t[5], 1>> \in NextEdge(EdgesIn(ls, s.first, s.end), t[2])
<1>1. Attempts(g, s) = {<<t[1], 1>>} /\ Whole(g, s, t) /\ Quiet(g, s, t)
  BY Zenon DEF Resolve
<1>2. PICK a \in Attempts(g, s) : t \in Times(g, s, a[1])
  BY DEF Resolve
<1>3. t = <<t[1], t[2], t[3], t[4], t[5]>>
  BY <1>2 DEF Times
<1>4. /\ g.first \in Nat /\ g.end \in Nat /\ g.edges = EdgesIn(lg, g.first, g.end)
      /\ s.first \in Nat /\ s.end \in Nat /\ s.edges = EdgesIn(ls, s.first, s.end)
  BY DEF IsTraceOf
<1>5. <<t[1], 1>> \in EdgesIn(ls, s.first, s.end)
  BY <1>1, <1>4 DEF Attempts
<1>6. <<t[2], 0>> \in NextEdge(EdgesIn(ls, s.first, s.end), t[1])
  BY <1>1, <1>4 DEF Whole, Acknowledged
<1>7. <<t[5], 1>> \in NextEdge(EdgesIn(ls, s.first, s.end), t[2])
  <2>1. Acknowledged(s, t[1]) = {<<t[2], 0>>} /\ Done(s, t[1]) = {<<t[5], 1>>}
    BY <1>1 DEF Whole
  <2>2. <<t[2], 0>>[1] = t[2]
    OBVIOUS
  <2> QED
    BY <1>4, <2>1, <2>2 DEF Done
<1>8. t[1] \in Nat /\ t[2] \in Nat /\ t[5] \in Nat
  <2>1. ASSUME NEW e \in EdgesIn(ls, s.first, s.end) PROVE e[1] \in Nat
    BY <1>4, EdgeIsReal
  <2>2. <<t[2], 0>> \in EdgesIn(ls, s.first, s.end) /\ <<t[5], 1>> \in EdgesIn(ls, s.first, s.end)
    BY <1>6, <1>7 DEF NextEdge
  <2>3. <<t[1], 1>>[1] = t[1] /\ <<t[2], 0>>[1] = t[2] /\ <<t[5], 1>>[1] = t[5]
    OBVIOUS
  <2> QED
    BY <1>5, <2>1, <2>2, <2>3
<1>9. t[3] \in Nat /\ t[4] \in Nat
  <2>1. ASSUME NEW e \in EdgesIn(lg, g.first, g.end) PROVE e[1] \in Nat
    BY <1>4, EdgeIsReal
  <2>2. <<t[3], 1>> \in EdgesIn(lg, g.first, g.end) /\ <<t[4], 0>> \in EdgesIn(lg, g.first, g.end)
    BY <1>1, <1>4 DEF Whole, Between
  <2>3. <<t[3], 1>>[1] = t[3] /\ <<t[4], 0>>[1] = t[4]
    OBVIOUS
  <2> QED
    BY <2>1, <2>2, <2>3
<1> QED
  BY <1>1, <1>3, <1>5, <1>6, <1>7, <1>8, <1>9

\* What the traces are found to hold is on the lines.
LEMMA SeenIsTransaction ==
  ASSUME NEW g, NEW s, NEW lg, NEW ls, IsTraceOf(g, lg), IsTraceOf(s, ls), NEW t \in Resolve(g, s),
         Last(packets)[2] \in Nat
  PROVE  /\ Transacts(lg, ls, t[1], t[2], t[3], t[4], t[5])
         /\ g.first < t[1] /\ s.first < t[1] /\ t[5] < g.end /\ t[5] < s.end
         /\ t[5] < Last(packets)[2] /\ Steady(ls, t[5], s.end, 1) /\ Steady(lg, t[4], g.end, 0)
<1> DEFINE a == t[1]
           b == t[2]
           r == t[3]
           f == t[4]
           d == t[5]
           ga == g.first
           gb == g.end
           sa == s.first
           sb == s.end
<1>1. /\ ga \in Nat /\ gb \in Nat /\ g.edges = EdgesIn(lg, ga, gb)
      /\ sa \in Nat /\ sb \in Nat /\ s.edges = EdgesIn(ls, sa, sb)
      /\ \A k \in 1 .. gb : lg[k] \in Levels
      /\ \A k \in 1 .. sb : ls[k] \in Levels
  BY DEF IsTraceOf
<1>2. /\ Attempts(g, s) = {<<a, 1>>} /\ Whole(g, s, t) /\ Quiet(g, s, t)
      /\ a \in Nat /\ b \in Nat /\ r \in Nat /\ f \in Nat /\ d \in Nat
      /\ <<a, 1>> \in EdgesIn(ls, sa, sb)
      /\ <<b, 0>> \in NextEdge(EdgesIn(ls, sa, sb), a)
      /\ <<d, 1>> \in NextEdge(EdgesIn(ls, sa, sb), b)
  BY NatOfWhole
<1>3. /\ a < b /\ b <= r /\ r < f /\ f <= d /\ d < End(g, s)
      /\ Between(g, s, a) = {<<r, 1>>, <<f, 0>>} /\ Done(s, a) = {<<d, 1>>}
  BY <1>2 DEF Whole
<1>4. /\ NextEdge(g.edges, f) = {} /\ NextEdge(s.edges, d) = {}
  BY <1>2 DEF Quiet
<1>5. a > Start(g, s) /\ IdleBefore(g, a)
  BY <1>2 DEF Attempts
<1>6. ga < a /\ sa < a
  BY <1>1, <1>2, <1>5 DEF Start
<1>7. sa < sb /\ d \in sa .. sb - 1 /\ a \in sa .. sb - 1 /\ b \in sa .. sb - 1
  <2>1. <<d, 1>> \in EdgesIn(ls, sa, sb)
    BY <1>2 DEF NextEdge
  <2>2. <<d, 1>>[1] \in sa + 1 .. sb - 1
    BY <1>1, <2>1, EdgeIsReal
  <2> QED
    BY <1>1, <1>2, <1>3, <1>6, <2>2
<1>8. ls[a] = 0 /\ ls[a + 1] = 1
  <2>1. <<a, 1>>[2] = ls[<<a, 1>>[1] + 1] /\ ls[<<a, 1>>[1] + 1] # ls[<<a, 1>>[1]]
    BY <1>1, <1>2, EdgeIsReal
  <2>2. ls[a + 1] = 1 /\ ls[a] # 1
    BY <2>1
  <2>3. ls[a] \in Levels
    BY <1>1, <1>2, <1>6, <1>7
  <2> QED
    BY <2>2, <2>3 DEF Levels
<1>9. Steady(ls, a, b, 1) /\ ls[b + 1] = 0
  <2>1. <<b, 0>>[2] = ls[<<b, 0>>[1] + 1] /\ Steady(ls, a, <<b, 0>>[1], ls[a + 1])
    BY <1>1, <1>2, <1>7, NextEdgeEnds
  <2> QED
    BY <1>8, <2>1
<1>10. Steady(ls, b, d, 0) /\ ls[d + 1] = 1
  <2>1. <<d, 1>>[2] = ls[<<d, 1>>[1] + 1] /\ Steady(ls, b, <<d, 1>>[1], ls[b + 1])
    BY <1>1, <1>2, <1>7, NextEdgeEnds
  <2> QED
    BY <1>9, <2>1
<1>11. Steady(ls, d, sb, 1)
  BY <1>1, <1>4, <1>7, <1>10, NoNextEdge
<1>12. <<r, 1>> \in EdgesIn(lg, ga, gb) /\ <<f, 0>> \in EdgesIn(lg, ga, gb)
  BY <1>1, <1>3 DEF Between
<1>13. /\ r \in ga + 1 .. gb - 1 /\ lg[r + 1] = 1 /\ lg[r] = 0
       /\ f \in ga + 1 .. gb - 1 /\ lg[f + 1] = 0
  <2>1. r \in ga + 1 .. gb - 1 /\ lg[r + 1] = 1 /\ lg[r + 1] # lg[r]
    <3>1. /\ <<r, 1>>[1] \in ga + 1 .. gb - 1 /\ <<r, 1>>[2] = lg[<<r, 1>>[1] + 1]
          /\ lg[<<r, 1>>[1] + 1] # lg[<<r, 1>>[1]]
      <4> DEFINE e == <<r, 1>>
      <4>1. e \in EdgesIn(lg, ga, gb)
        BY <1>12
      <4> HIDE DEF e
      <4>2. e[1] \in ga + 1 .. gb - 1 /\ e[2] = lg[e[1] + 1] /\ lg[e[1] + 1] # lg[e[1]]
        BY <1>1, <4>1, EdgeIsReal
      <4> QED
        BY <4>2 DEF e
    <3> QED
      BY <3>1
  <2>2. <<f, 0>>[1] \in ga + 1 .. gb - 1 /\ <<f, 0>>[2] = lg[<<f, 0>>[1] + 1]
    <3> DEFINE e == <<f, 0>>
    <3>1. e \in EdgesIn(lg, ga, gb)
      BY <1>12
    <3> HIDE DEF e
    <3>2. e[1] \in ga + 1 .. gb - 1 /\ e[2] = lg[e[1] + 1]
      BY <1>1, <3>1, EdgeIsReal
    <3> QED
      BY <3>2 DEF e
  <2>3. lg[r] \in Levels
    BY <1>1, <2>1
  <2> QED
    BY <2>1, <2>2, <2>3 DEF Levels
<1>14. \A e \in EdgesIn(lg, ga, gb) : a < e[1] => e[1] = r \/ e[1] = f \/ d < e[1]
  <2> SUFFICES ASSUME NEW e \in EdgesIn(lg, ga, gb), a < e[1], ~(d < e[1]) PROVE e[1] = r \/ e[1] = f
    OBVIOUS
  <2>1. e[1] \in Nat
    BY <1>1, EdgeIsReal
  <2>2. e[1] <= d
    BY <1>2, <2>1
  <2>3. e \in Between(g, s, a)
    BY <1>1, <1>3, <2>2 DEF Between
  <2> QED
    BY <1>3, <2>3
<1>15. <<r, 1>> \in NextEdge(EdgesIn(lg, ga, gb), a)
  <2>1. \A e \in EdgesIn(lg, ga, gb) : a < e[1] => r <= e[1]
    <3> SUFFICES ASSUME NEW e \in EdgesIn(lg, ga, gb), a < e[1] PROVE r <= e[1]
      OBVIOUS
    <3>1. e[1] \in Nat
      BY <1>1, EdgeIsReal
    <3> QED
      BY <1>2, <1>3, <1>14, <3>1
  <2> QED
    BY <1>2, <1>3, <1>12, <2>1 DEF NextEdge
<1>16. <<f, 0>> \in NextEdge(EdgesIn(lg, ga, gb), r)
  <2>1. \A e \in EdgesIn(lg, ga, gb) : r < e[1] => f <= e[1]
    <3> SUFFICES ASSUME NEW e \in EdgesIn(lg, ga, gb), r < e[1] PROVE f <= e[1]
      OBVIOUS
    <3>1. e[1] \in Nat
      BY <1>1, EdgeIsReal
    <3> QED
      BY <1>2, <1>3, <1>14, <3>1
  <2> QED
    BY <1>2, <1>3, <1>12, <2>1 DEF NextEdge
<1>17. a \in ga .. gb - 1 /\ r \in ga .. gb - 1 /\ f \in ga .. gb - 1
  BY <1>1, <1>2, <1>3, <1>6, <1>13
<1>18. Steady(lg, a, r, 0)
  <2>1. lg[<<r, 1>>[1]] = lg[a + 1] /\ Steady(lg, a, <<r, 1>>[1], lg[a + 1])
    BY <1>1, <1>15, <1>17, NextEdgeEnds
  <2> QED
    BY <1>13, <2>1
<1>19. Steady(lg, r, f, 1)
  <2>1. Steady(lg, r, <<f, 0>>[1], lg[r + 1])
    BY <1>1, <1>16, <1>17, NextEdgeEnds
  <2> QED
    BY <1>13, <2>1
<1>20. Steady(lg, f, gb, 0)
  BY <1>1, <1>4, <1>13, <1>17, NoNextEdge
<1>21. d < gb /\ d < sb /\ d < Last(packets)[2]
  BY <1>1, <1>2, <1>3, EndIsLeast
<1>22. Steady(lg, f, d + 1, 0)
  BY <1>1, <1>2, <1>3, <1>20, <1>21 DEF Steady
<1>23. lg[a] = 0
  <2>1. a \in g.first + 1 .. g.end - 1
    BY <1>1, <1>2, <1>6, <1>17
  <2> QED
    BY <1>5, <2>1, IdleIs
<1>24. Transacts(lg, ls, a, b, r, f, d)
  BY <1>2, <1>3, <1>6, <1>1, <1>8, <1>9, <1>10, <1>18, <1>19, <1>22, <1>23 DEF Transacts
<1> QED
  BY <1>6, <1>11, <1>20, <1>21, <1>24

\* An accepted trace is a trace of its line.
LEMMA TraceOfLine ==
  ASSUME Evident, NEW c \in Channels, NEW t \in Traces(c)
  PROVE  IsTraceOf(t, line[c])
<1>1. /\ t.first \in Nat /\ t.end \in Nat /\ t.first < t.end /\ t.end <= handed[c]
      /\ t.edges = EdgesIn(line[c], t.first, t.end)
      /\ t.initial = line[c][t.first + 1] /\ t.level = line[c][t.end]
  BY TraceFacts
<1>2. line[c] \in Seq(Levels) /\ Len(line[c]) = Taken /\ handed[c] \in Nat /\ handed[c] <= Taken /\ Taken \in Nat
  BY SetupStays DEF Evident, SignalsAreLines, Taken
<1>3. \A k \in 1 .. t.end : line[c][k] \in Levels
  BY <1>1, <1>2
<1> QED
  BY <1>1, <1>3 DEF IsTraceOf

\* There is one trace of a channel, at most.
LEMMA OneTrace ==
  ASSUME NEW c, NEW t \in Traces(c), NEW u \in Traces(c)
  PROVE  t = u
BY DEF Traces

\* The packets of an accepted trace.
LEMMA PacketFacts ==
  ASSUME Evident, packets # <<>>
  PROVE  /\ Len(packets) \in Nat /\ Len(packets) > 0 /\ DOMAIN packets = 1 .. Len(packets)
         /\ 1 \in DOMAIN packets /\ Len(packets) \in DOMAIN packets
         /\ Last(packets) = packets[Len(packets)] /\ Last(packets)[2] \in Nat /\ packets[1][1] \in Nat
         /\ \A i \in DOMAIN packets : packets[i][1] \in Nat /\ packets[i][2] \in Nat /\ packets[i][1] < packets[i][2]
<1>1. packets \in Seq(Nat \X Nat)
  BY DEF Evident, PacketsInOrder
<1>2. Len(packets) \in Nat /\ Len(packets) > 0 /\ DOMAIN packets = 1 .. Len(packets)
  BY <1>1
<1>3. \A i \in DOMAIN packets : packets[i] \in Nat \X Nat
  BY <1>1
<1>4. \A i \in DOMAIN packets : packets[i][1] \in Nat /\ packets[i][2] \in Nat /\ packets[i][1] < packets[i][2]
  BY <1>2, <1>3 DEF Evident, PacketsInOrder
<1>5. 1 \in DOMAIN packets /\ Len(packets) \in DOMAIN packets
  BY <1>2
<1> QED
  BY <1>2, <1>4, <1>5 DEF Last

\* A completion, its traces, and where it stands on the lines.
LEMMA CompletionFacts ==
  ASSUME Evident, NEW t \in Completion
  PROVE  /\ NeedsDone /\ "gate" \in Channels /\ "state" \in Channels /\ packets # <<>>
         /\ \E g \in Traces("gate"), s \in Traces("state") :
              /\ t \in Resolve(g, s) /\ IsTraceOf(g, line["gate"]) /\ IsTraceOf(s, line["state"])
              /\ Transacts(line["gate"], line["state"], t[1], t[2], t[3], t[4], t[5])
              /\ g.first < t[1] /\ s.first < t[1] /\ t[5] < g.end /\ t[5] < s.end
              /\ t[5] < Last(packets)[2]
              /\ Steady(line["state"], t[5], s.end, 1) /\ Steady(line["gate"], t[4], g.end, 0)
<1>1. NeedsDone /\ \E g \in Traces("gate"), s \in Traces("state") : t \in Resolve(g, s)
  BY DEF Completion
<1>2. "gate" \in Channels /\ "state" \in Channels
  BY <1>1 DEF Channels
<1>3. PICK g \in Traces("gate"), s \in Traces("state") : t \in Resolve(g, s)
  BY <1>1
<1>4. IsTraceOf(g, line["gate"]) /\ IsTraceOf(s, line["state"]) /\ packets # <<>>
  BY <1>2, TraceOfLine, TraceFacts
<1>5. Last(packets)[2] \in Nat
  BY <1>4, PacketFacts
<1>6. /\ Transacts(line["gate"], line["state"], t[1], t[2], t[3], t[4], t[5])
      /\ g.first < t[1] /\ s.first < t[1] /\ t[5] < g.end /\ t[5] < s.end
      /\ t[5] < Last(packets)[2]
      /\ Steady(line["state"], t[5], s.end, 1) /\ Steady(line["gate"], t[4], g.end, 0)
  BY <1>3, <1>4, <1>5, SeenIsTransaction
<1> QED
  BY <1>1, <1>2, <1>3, <1>4, <1>6

\* So a completion is a transaction on the lines.
LEMMA EvidentCompletion == Evident => CompletionIsTransaction
<1> SUFFICES ASSUME Evident, NEW t \in Completion, NEW g \in Traces("gate"), NEW s \in Traces("state")
             PROVE  /\ line["state"][t[1]] = 0
                    /\ LevelIs("state", t[1], t[2], 1) /\ LevelIs("state", t[2], t[5], 0)
                    /\ LevelIs("state", t[5], s.end, 1)
                    /\ LevelIs("gate", t[1], t[3], 0) /\ LevelIs("gate", t[3], t[4], 1)
                    /\ LevelIs("gate", t[4], g.end, 0)
                    /\ packets[1][1] < t[3] /\ t[4] <= Last(packets)[2]
  BY DEF CompletionIsTransaction
<1> DEFINE lg == line["gate"]
           ls == line["state"]
<1>1. PICK gg \in Traces("gate"), ss \in Traces("state") :
        /\ t \in Resolve(gg, ss) /\ IsTraceOf(gg, lg) /\ IsTraceOf(ss, ls)
        /\ Transacts(lg, ls, t[1], t[2], t[3], t[4], t[5])
        /\ Steady(ls, t[5], ss.end, 1) /\ Steady(lg, t[4], gg.end, 0)
  BY CompletionFacts
<1>2. gg = g /\ ss = s
  BY OneTrace
<1>3. /\ ls[t[1]] = 0 /\ Steady(ls, t[1], t[2], 1) /\ Steady(ls, t[2], t[5], 0) /\ Steady(ls, t[5], s.end, 1)
      /\ Steady(lg, t[1], t[3], 0) /\ Steady(lg, t[3], t[4], 1) /\ Steady(lg, t[4], g.end, 0)
      /\ t[3] \in Nat
  BY <1>1, <1>2 DEF Transacts
<1>4. t[3] - 1 >= packets[1][1] /\ t[4] <= Last(packets)[2]
  <2>1. Whole(g, s, t)
    BY <1>1, <1>2 DEF Resolve
  <2>2. Evidence(<<t[3], t[4]>>)
    BY <2>1 DEF Whole
  <2> QED
    BY <2>2 DEF Evidence
<1>5. packets[1][1] \in Nat
  BY CompletionFacts, PacketFacts
<1> QED
  BY <1>3, <1>4, <1>5 DEF LevelIs, Steady

-----------------------------------------------------------------------------
(* What a confirmed completion stands on stays. *)

\* From where to where a channel is kept.
FirstOf(c) == frames[c][1].first
EndOfLast(c) == EndOf(frames[c][Len(frames[c])])

\* The transaction is on the lines, and inside what is kept of them.
Kept(t) ==
  /\ NeedsDone /\ t = <<t[1], t[2], t[3], t[4], t[5]>>
  /\ Transacts(line["gate"], line["state"], t[1], t[2], t[3], t[4], t[5])
  /\ \A c \in Channels : frames[c] # <<>> /\ FirstOf(c) < t[1] /\ t[5] < EndOfLast(c)
\* History: the completion that was confirmed first is kept.
ConfirmedIsKept == \A t \in confirmed : Kept(t)

\* A completion is kept from the moment it is found.
LEMMA CompletionIsKept == Evident => \A t \in Completion : Kept(t)
<1> SUFFICES ASSUME Evident, NEW t \in Completion PROVE Kept(t)
  OBVIOUS
<1>1. NeedsDone /\ "gate" \in Channels /\ "state" \in Channels /\ Channels = {"gate", "state"}
  BY CompletionFacts DEF Channels
<1>2. PICK g \in Traces("gate"), s \in Traces("state") :
        /\ t \in Resolve(g, s) /\ IsTraceOf(g, line["gate"]) /\ IsTraceOf(s, line["state"])
        /\ Transacts(line["gate"], line["state"], t[1], t[2], t[3], t[4], t[5])
        /\ g.first < t[1] /\ s.first < t[1] /\ t[5] < g.end /\ t[5] < s.end
  BY CompletionFacts
<1>3. t = <<t[1], t[2], t[3], t[4], t[5]>>
  BY <1>2, NatOfWhole
<1>4. /\ frames["gate"] # <<>> /\ FirstOf("gate") = g.first /\ EndOfLast("gate") = g.end
      /\ frames["state"] # <<>> /\ FirstOf("state") = s.first /\ EndOfLast("state") = s.end
  BY <1>1, TraceFacts DEF FirstOf, EndOfLast
<1> QED
  BY <1>1, <1>2, <1>3, <1>4 DEF Kept

\* No other completion is found where one is kept.
LEMMA KeptIsOnly ==
  ASSUME Evident, NEW t, Kept(t), NEW u \in Completion
  PROVE  u = t
<1>1. NeedsDone /\ "gate" \in Channels /\ "state" \in Channels
  BY CompletionFacts
<1>2. PICK g \in Traces("gate"), s \in Traces("state") :
        u \in Resolve(g, s) /\ IsTraceOf(g, line["gate"]) /\ IsTraceOf(s, line["state"])
  BY CompletionFacts
<1>3. /\ FirstOf("gate") = g.first /\ EndOfLast("gate") = g.end
      /\ FirstOf("state") = s.first /\ EndOfLast("state") = s.end
  BY <1>1, TraceFacts DEF FirstOf, EndOfLast
<1>4. /\ Transacts(line["gate"], line["state"], t[1], t[2], t[3], t[4], t[5])
      /\ g.first < t[1] /\ s.first < t[1] /\ t[5] < g.end /\ t[5] < s.end
      /\ t = <<t[1], t[2], t[3], t[4], t[5]>>
  BY <1>1, <1>3 DEF Kept
<1>5. /\ <<t[1], 1>> \in Attempts(g, s)
      /\ Acknowledged(s, t[1]) = {<<t[2], 0>>} /\ Done(s, t[1]) = {<<t[5], 1>>}
      /\ Between(g, s, t[1]) = {<<t[3], 1>>, <<t[4], 0>>}
  BY <1>2, <1>4, TransactionIsSeen
<1>6. Attempts(g, s) = {<<u[1], 1>>} /\ Whole(g, s, u) /\ u = <<u[1], u[2], u[3], u[4], u[5]>>
  BY <1>2, NatOfWhole
<1>7. u[1] = t[1]
  BY <1>5, <1>6
<1>8. /\ Acknowledged(s, t[1]) = {<<u[2], 0>>} /\ Done(s, t[1]) = {<<u[5], 1>>}
      /\ Between(g, s, t[1]) = {<<u[3], 1>>, <<u[4], 0>>}
  BY <1>6, <1>7 DEF Whole
<1>9. u[2] = t[2] /\ u[5] = t[5]
  <2>1. {<<u[2], 0>>} = {<<t[2], 0>>} /\ {<<u[5], 1>>} = {<<t[5], 1>>}
    BY <1>5, <1>8
  <2>2. <<u[2], 0>> = <<t[2], 0>> /\ <<u[5], 1>> = <<t[5], 1>>
    BY <2>1
  <2> QED
    BY <2>2
<1>10. u[3] = t[3] /\ u[4] = t[4]
  <2>1. {<<u[3], 1>>, <<u[4], 0>>} = {<<t[3], 1>>, <<t[4], 0>>}
    BY <1>5, <1>8
  <2>2. <<u[3], 1>> \in {<<t[3], 1>>, <<t[4], 0>>} /\ <<u[4], 0>> \in {<<t[3], 1>>, <<t[4], 0>>}
    BY <2>1
  <2> QED
    BY <2>2
<1> QED
  BY <1>4, <1>6, <1>7, <1>9, <1>10

\* A transaction on the lines stays one when the lines grow.
LEMMA TransactsStays ==
  ASSUME NEW lg, NEW ls, NEW mg, NEW ms, NEW a, NEW b, NEW r, NEW f, NEW d,
         Transacts(lg, ls, a, b, r, f, d),
         \A k \in 1 .. d + 1 : mg[k] = lg[k], \A k \in 1 .. d + 1 : ms[k] = ls[k]
  PROVE  Transacts(mg, ms, a, b, r, f, d)
<1>1. /\ a \in Nat /\ b \in Nat /\ r \in Nat /\ f \in Nat /\ d \in Nat
      /\ 0 < a /\ a < b /\ b <= r /\ r < f /\ f <= d
      /\ ls[a] = 0 /\ Steady(ls, a, b, 1) /\ Steady(ls, b, d, 0) /\ ls[d + 1] = 1
      /\ lg[a] = 0 /\ Steady(lg, a, r, 0) /\ Steady(lg, r, f, 1) /\ Steady(lg, f, d + 1, 0)
  BY DEF Transacts
<1>2. ASSUME NEW l, NEW m, \A k \in 1 .. d + 1 : m[k] = l[k],
             NEW x \in Nat, NEW y \in Nat, y <= d + 1, NEW level, Steady(l, x, y, level)
      PROVE  Steady(m, x, y, level)
  BY <1>1, <1>2 DEF Steady
<1>3. /\ Steady(ms, a, b, 1) /\ Steady(ms, b, d, 0)
      /\ Steady(mg, a, r, 0) /\ Steady(mg, r, f, 1) /\ Steady(mg, f, d + 1, 0)
  <2>1. b <= d + 1 /\ d <= d + 1 /\ r <= d + 1 /\ f <= d + 1 /\ d + 1 <= d + 1 /\ d + 1 \in Nat
    BY <1>1
  <2> QED
    BY <1>1, <1>2, <2>1
<1>4. a \in 1 .. d + 1 /\ d + 1 \in 1 .. d + 1
  BY <1>1
<1> QED
  BY <1>1, <1>3, <1>4 DEF Transacts

\* Lines and frames are only added to.
Adds ==
  \A c \in Channels : /\ \A k \in 1 .. Taken : line'[c][k] = line[c][k]
                      /\ \/ frames'[c] = frames[c]
                         \/ \E f : frames'[c] = Append(frames[c], f)

\* No step takes a sample or a frame back.
LEMMA StepAdds ==
  ASSUME Evident, UNCHANGED setup, EvidenceNext
  PROVE  Adds
<1>0. line \in [Channels -> Seq(Levels)] /\ (\A c \in Channels : Len(line[c]) = Taken)
      /\ frames = [c \in Channels |-> frames[c]]
  BY DEF Evident, SignalsAreLines, FramesAreOfLines
<1>1. ASSUME NEW levels \in [Channels -> Levels], Sample(levels) PROVE Adds
  <2>1. ASSUME NEW c \in Channels, NEW k \in 1 .. Taken PROVE line'[c][k] = line[c][k]
    <3>1. line'[c] = Append(line[c], levels[c]) /\ levels[c] \in Levels
      BY <1>1 DEF Sample
    <3> QED
      BY <1>0, <3>1
  <2> QED
    BY <1>1, <2>1 DEF Adds, Sample, streamVars
<1>2. ASSUME NEW c \in Channels, NEW n \in FrameSizes, Frame(c, n) PROVE Adds
  <2>1. line' = line
    BY <1>2 DEF Frame
  <2>2. \/ frames' = frames
        \/ frames' = [frames EXCEPT ![c] = Append(frames[c], Handed(c, n))]
    BY <1>2 DEF Frame
  <2> QED
    BY <1>0, <2>1, <2>2 DEF Adds
<1>3. ASSUME NEW c \in Channels, NEW n \in FrameSizes, BadFrame(c, n) \/ LoseFrame(c, n) PROVE Adds
  BY <1>3 DEF Adds, BadFrame, LoseFrame
<1>4. ASSUME NEW n \in PacketSizes, Packet(n) \/ LosePacket(n) PROVE Adds
  BY <1>4 DEF Adds, Packet, LosePacket, streamVars
<1> QED
  BY <1>1, <1>2, <1>3, <1>4 DEF EvidenceNext

\* The last frame is the one that reaches furthest.
LEMMA LastIsFurthest ==
  ASSUME NEW l, NEW h \in Nat, NEW fs, Pieces(l, h, fs), NEW k \in 1 .. Len(fs)
  PROVE  EndOf(fs[k]) <= EndOf(fs[Len(fs)]) /\ EndOf(fs[k]) \in Nat /\ EndOf(fs[Len(fs)]) \in Nat
         /\ EndOf(fs[Len(fs)]) <= h
<1>1. fs # <<>>
  OBVIOUS
<1>2. Len(fs) \in Nat /\ Len(fs) \in 1 .. Len(fs)
  BY <1>1, FirstAndLast
<1>3. Stands(l, h, fs[k]) /\ Stands(l, h, fs[Len(fs)])
  BY <1>2, FramesStand
<1>4. /\ EndOf(fs[k]) \in Nat /\ EndOf(fs[Len(fs)]) \in Nat /\ fs[Len(fs)].first \in Nat
      /\ fs[Len(fs)].first < EndOf(fs[Len(fs)]) /\ EndOf(fs[Len(fs)]) <= h
  BY <1>3 DEF Stands
<1>5. CASE k = Len(fs)
  BY <1>4, <1>5
<1>6. CASE k # Len(fs)
  <2>1. k < Len(fs)
    BY <1>2, <1>6
  <2>2. EndOf(fs[k]) <= fs[Len(fs)].first
    BY <1>2, <2>1 DEF Pieces
  <2> QED
    BY <1>4, <2>2
<1> QED
  BY <1>5, <1>6

\* So what is kept stays kept.
LEMMA KeptStays ==
  ASSUME Evident, Evident', Adds, UNCHANGED setup, NEW t, Kept(t)
  PROVE  Kept(t)'
<1>1. /\ NeedsDone' /\ Channels' = Channels /\ NeedsDone /\ "gate" \in Channels /\ "state" \in Channels
      /\ t = <<t[1], t[2], t[3], t[4], t[5]>>
  BY SetupStays DEF Kept, Channels, NeedsDone
<1>2. Transacts(line["gate"], line["state"], t[1], t[2], t[3], t[4], t[5])
  BY DEF Kept
<1>3. t[5] \in Nat
  BY <1>2 DEF Transacts
<1>4. ASSUME NEW c \in Channels
      PROVE  /\ frames'[c] # <<>> /\ FirstOf(c)' = FirstOf(c) /\ EndOfLast(c) <= EndOfLast(c)'
             /\ EndOfLast(c) \in Nat /\ EndOfLast(c)' \in Nat /\ EndOfLast(c) <= Taken
  <2>1. frames[c] # <<>> /\ Pieces(line[c], handed[c], frames[c]) /\ handed[c] \in Nat /\ handed[c] <= Taken
    BY SetupStays DEF Kept
  <2>2. Pieces(line'[c], handed'[c], frames'[c]) /\ handed'[c] \in Nat
    BY <1>1 DEF Evident, FramesAreOfLines, SignalsAreLines
  <2> DEFINE fs == frames[c]
             gs == frames'[c]
             n == Len(fs)
  <2>3. n \in Nat /\ n > 0 /\ 1 \in 1 .. n /\ n \in 1 .. n /\ fs \in Seq(FrameOf)
    BY <2>1, FirstAndLast
  <2>4. gs = fs \/ \E f : gs = Append(fs, f)
    BY DEF Adds
  <2>5. n \in 1 .. Len(gs) /\ gs[1] = fs[1] /\ gs[n] = fs[n] /\ gs # <<>>
    <3>1. CASE gs = fs
      BY <2>3, <3>1
    <3>2. ASSUME NEW f, gs = Append(fs, f) PROVE n \in 1 .. Len(gs) /\ gs[1] = fs[1] /\ gs[n] = fs[n]
      BY <2>3, <3>2
    <3>3. n \in 1 .. Len(gs) /\ gs[1] = fs[1] /\ gs[n] = fs[n]
      BY <2>4, <3>1, <3>2
    <3> QED
      BY <3>3
  <2>6. EndOf(gs[n]) <= EndOf(gs[Len(gs)]) /\ EndOf(gs[n]) \in Nat /\ EndOf(gs[Len(gs)]) \in Nat
    BY <2>2, <2>5, LastIsFurthest
  <2>7. EndOf(fs[n]) \in Nat /\ EndOf(fs[n]) <= handed[c]
    BY <2>1, <2>3, LastIsFurthest
  <2>8. EndOf(fs[n]) <= Taken /\ Taken \in Nat
    BY <2>1, <2>7, SetupStays
  <2> QED
    BY <2>5, <2>6, <2>7, <2>8 DEF FirstOf, EndOfLast
<1>5. ASSUME NEW c \in Channels PROVE \A k \in 1 .. t[5] + 1 : line'[c][k] = line[c][k]
  <2>1. t[5] < EndOfLast(c) /\ EndOfLast(c) \in Nat /\ EndOfLast(c) <= Taken /\ Taken \in Nat
    BY <1>4, SetupStays DEF Kept
  <2>2. \A k \in 1 .. t[5] + 1 : k \in 1 .. Taken
    BY <1>3, <2>1
  <2> QED
    BY <2>2 DEF Adds
<1>6. Transacts(line'["gate"], line'["state"], t[1], t[2], t[3], t[4], t[5])
  BY <1>1, <1>2, <1>5, TransactsStays
<1>7. \A c \in Channels : FirstOf(c) < t[1] /\ t[5] < EndOfLast(c)
  BY DEF Kept
<1>8. \A c \in Channels : frames'[c] # <<>> /\ FirstOf(c)' < t[1] /\ t[5] < EndOfLast(c)'
  BY <1>3, <1>4, <1>7
<1> QED
  BY <1>1, <1>6, <1>8 DEF Kept

\* Every step of the history keeps it.
EvidenceInv == Evident /\ ConfirmedIsKept

\* At first nothing is confirmed.
LEMMA InitHistory == InitAndHistory => EvidenceInv
BY InitEvident DEF InitAndHistory, EvidenceInv, ConfirmedIsKept

\* A step confirms a completion that is found, or keeps the one there is.
LEMMA StepHistory == EvidenceInv /\ [EvidenceStep]_<<evidenceVars, confirmed>> => EvidenceInv'
<1> SUFFICES ASSUME EvidenceInv, [EvidenceStep]_<<evidenceVars, confirmed>> PROVE EvidenceInv'
  OBVIOUS
<1>1. CASE EvidenceStep
  <2>1. UNCHANGED setup /\ EvidenceNext /\ Remember
    BY <1>1 DEF EvidenceStep
  <2>2. Evident /\ Evident' /\ Adds
    BY <2>1, EvidentStep, StepAdds DEF EvidenceInv
  <2>3. CASE confirmed = {}
    <3>1. confirmed' = Completion'
      BY <2>1, <2>3 DEF Remember
    <3>2. (Evident => \A t \in Completion : Kept(t))'
      BY CompletionIsKept, PTL
    <3>3. \A t \in Completion' : Kept(t)'
      BY <2>2, <3>2
    <3> QED
      BY <2>2, <3>1, <3>3 DEF EvidenceInv, ConfirmedIsKept
  <2>4. CASE confirmed # {}
    <3>1. confirmed' = confirmed
      BY <2>1, <2>4 DEF Remember
    <3>2. ASSUME NEW t \in confirmed PROVE Kept(t)'
      <4>1. Kept(t)
        BY DEF EvidenceInv, ConfirmedIsKept
      <4> QED
        BY <2>1, <2>2, <4>1, KeptStays
    <3> QED
      BY <2>2, <3>1, <3>2 DEF EvidenceInv, ConfirmedIsKept
  <2> QED
    BY <2>3, <2>4
<1>2. CASE UNCHANGED <<evidenceVars, confirmed>>
  <2>1. Evident'
    BY <1>2, EvidentStays DEF EvidenceInv
  <2>2. UNCHANGED <<setup, line, frames, confirmed>>
    BY <1>2 DEF evidenceVars, streamVars
  <2> QED
    BY <2>1, <2>2 DEF EvidenceInv, ConfirmedIsKept, Kept, NeedsDone, Channels, FirstOf, EndOfLast
<1> QED
  BY <1>1, <1>2

\* So no other completion takes the place of the one that was confirmed.
LEMMA HistoryIsFinal == EvidenceInv => ConfirmedIsFinal
<1> SUFFICES ASSUME EvidenceInv, confirmed # {}, NEW u \in Completion PROVE u \in confirmed
  BY DEF ConfirmedIsFinal
<1>1. PICK t \in confirmed : Kept(t)
  BY DEF EvidenceInv, ConfirmedIsKept
<1>2. u = t
  BY <1>1, KeptIsOnly DEF EvidenceInv
<1> QED
  BY <1>2

-----------------------------------------------------------------------------
(* A clean run is recognised. *)

\* Where nothing was lost or refused, the trace is the whole line.
LEMMA CleanTrace ==
  ASSUME Evident, lost = 0, NEW c \in Channels, ~error[c], handed[c] > 0, counted > 0
  PROVE  /\ packets # <<>> /\ Last(packets)[2] = counted /\ packets[1][1] = 0
         /\ \E t \in Traces(c) : t.first = 0 /\ t.end = handed[c]
<1> DEFINE fs == frames[c]
<1>1. handed[c] \in Nat /\ counted \in Nat
  BY DEF Evident, SignalsAreLines, PacketsInOrder
<1>2. AllPieces(handed[c], fs)
  BY DEF Evident, FramesAreAll
<1>3. fs # <<>> /\ fs[1].first = 0 /\ EndOf(fs[Len(fs)]) = handed[c] /\ Adjoin(fs)
  BY <1>1, <1>2 DEF AllPieces
<1>4. packets # <<>> /\ packets[1][1] = 0 /\ packets[Len(packets)][2] = counted /\ Contiguous(packets)
  BY <1>1 DEF Evident, PacketsAreAll
<1>5. Last(packets)[2] = counted
  BY <1>4 DEF Last
<1>6. Traces(c) # {}
  BY <1>3, <1>4 DEF Traces, Adjoin
<1>7. PICK t \in Traces(c) : TRUE
  BY <1>6
<1>8. t.first = 0 /\ t.end = handed[c]
  BY <1>3, TraceFacts
<1> QED
  BY <1>4, <1>5, <1>8

\* The gate's one high, from its two edges.
LEMMA CleanGate ==
  ASSUME NEW l, NEW h \in Nat, \A k \in 1 .. h : l[k] \in Levels, l[1] = 0,
         NEW r \in Nat, NEW f \in Nat, EdgesIn(l, 0, h) = {<<r, 1>>, <<f, 0>>}
  PROVE  /\ 0 < r /\ r < f /\ f < h
         /\ Steady(l, 0, r, 0) /\ Steady(l, r, f, 1) /\ Steady(l, f, h, 0)
<1> DEFINE E == EdgesIn(l, 0, h)
<1>1. <<r, 1>> \in E /\ <<f, 0>> \in E /\ \A e \in E : e[1] = r \/ e[1] = f
  OBVIOUS
<1>2. /\ r \in 1 .. h - 1 /\ l[r + 1] = 1 /\ l[r + 1] # l[r]
      /\ f \in 1 .. h - 1 /\ l[f + 1] = 0 /\ l[f + 1] # l[f]
  BY <1>1 DEF EdgesIn
<1> HIDE DEF E
<1>3. 0 \in 0 .. h - 1 /\ 0 \in Nat
  BY <1>2
<1>4. r # f
  BY <1>2
<1>5. ~(f < r)
  <2> SUFFICES ASSUME f < r PROVE FALSE
    OBVIOUS
  <2>1. \A e \in EdgesIn(l, 0, h) : ~(0 < e[1] /\ e[1] < f)
    BY <1>1 DEF E
  <2>2. f \in 0 .. h
    BY <1>2
  <2>3. Steady(l, 0, f, l[0 + 1])
    BY <1>3, <2>1, <2>2, NoEdgeIsSteady
  <2>4. f - 1 \in 0 .. f - 1 /\ f - 1 + 1 = f
    BY <1>2
  <2>5. l[f - 1 + 1] = l[0 + 1]
    BY <2>3, <2>4 DEF Steady
  <2> QED
    BY <1>2, <2>4, <2>5
<1>6. r < f
  BY <1>2, <1>4, <1>5
<1>7. Steady(l, 0, r, 0)
  <2>1. \A e \in EdgesIn(l, 0, h) : ~(0 < e[1] /\ e[1] < r)
    BY <1>1, <1>6 DEF E
  <2>2. r \in 0 .. h
    BY <1>2
  <2>3. Steady(l, 0, r, l[0 + 1])
    BY <1>3, <2>1, <2>2, NoEdgeIsSteady
  <2> QED
    BY <2>3
<1>8. Steady(l, r, f, 1)
  <2>1. \A e \in EdgesIn(l, 0, h) : ~(r < e[1] /\ e[1] < f)
    BY <1>1 DEF E
  <2>2. r \in 0 .. h - 1 /\ f \in r .. h
    BY <1>2, <1>6
  <2>3. Steady(l, r, f, l[r + 1])
    BY <1>3, <2>1, <2>2, NoEdgeIsSteady
  <2> QED
    BY <1>2, <2>3
<1>9. Steady(l, f, h, 0)
  <2>1. \A e \in EdgesIn(l, 0, h) : ~(f < e[1] /\ e[1] < h)
    BY <1>1, <1>6 DEF E
  <2>2. f \in 0 .. h - 1 /\ h \in f .. h
    BY <1>2
  <2>3. Steady(l, f, h, l[f + 1])
    BY <1>3, <2>1, <2>2, NoEdgeIsSteady
  <2> QED
    BY <1>2, <2>3
<1> QED
  BY <1>2, <1>6, <1>7, <1>8, <1>9

\* From READY on the state moves three times.
ReadyEdges(l, h, a, b, d) == {e \in EdgesIn(l, 0, h) : e[1] >= a} = {<<a, 1>>, <<b, 0>>, <<d, 1>>}

\* READY, acknowledgement and DONE, from the edges from READY on.
LEMMA CleanState ==
  ASSUME NEW l, NEW h \in Nat, \A k \in 1 .. h : l[k] \in Levels,
         NEW a \in Nat, NEW b \in Nat, NEW d \in Nat, a < b, b < d,
         ReadyEdges(l, h, a, b, d)
  PROVE  /\ 0 < a /\ d < h /\ l[a] = 0
         /\ Steady(l, a, b, 1) /\ Steady(l, b, d, 0) /\ Steady(l, d, h, 1) /\ l[d + 1] = 1
<1> DEFINE E == EdgesIn(l, 0, h)
<1>1. /\ <<a, 1>> \in E /\ <<b, 0>> \in E /\ <<d, 1>> \in E
      /\ \A e \in E : e[1] >= a => e[1] = a \/ e[1] = b \/ e[1] = d
  <2>1. {e \in E : e[1] >= a} = {<<a, 1>>, <<b, 0>>, <<d, 1>>}
    BY DEF ReadyEdges
  <2> HIDE DEF E
  <2> QED
    BY <2>1
<1>2. /\ a \in 1 .. h - 1 /\ l[a + 1] = 1 /\ l[a + 1] # l[a]
      /\ b \in 1 .. h - 1 /\ l[b + 1] = 0
      /\ d \in 1 .. h - 1 /\ l[d + 1] = 1
  BY <1>1 DEF EdgesIn
<1>3. l[a] = 0
  BY <1>2 DEF Levels
<1>4. \A e \in E : e[1] \in Nat
  BY EdgeIsReal
<1> HIDE DEF E
<1>5. Steady(l, a, b, 1)
  <2>1. \A e \in EdgesIn(l, 0, h) : ~(a < e[1] /\ e[1] < b)
    BY <1>1, <1>4 DEF E
  <2>2. a \in 0 .. h - 1 /\ b \in a .. h
    BY <1>2
  <2>3. Steady(l, a, b, l[a + 1])
    BY <2>1, <2>2, NoEdgeIsSteady
  <2> QED
    BY <1>2, <2>3
<1>6. Steady(l, b, d, 0)
  <2>1. \A e \in EdgesIn(l, 0, h) : ~(b < e[1] /\ e[1] < d)
    BY <1>1, <1>4 DEF E
  <2>2. b \in 0 .. h - 1 /\ d \in b .. h
    BY <1>2
  <2>3. Steady(l, b, d, l[b + 1])
    BY <2>1, <2>2, NoEdgeIsSteady
  <2> QED
    BY <1>2, <2>3
<1>7. Steady(l, d, h, 1)
  <2>1. \A e \in EdgesIn(l, 0, h) : ~(d < e[1] /\ e[1] < h)
    BY <1>1, <1>4 DEF E
  <2>2. d \in 0 .. h - 1 /\ h \in d .. h
    BY <1>2
  <2>3. Steady(l, d, h, l[d + 1])
    BY <2>1, <2>2, NoEdgeIsSteady
  <2> QED
    BY <1>2, <2>3
<1> QED
  BY <1>2, <1>3, <1>5, <1>6, <1>7

\* A READY before the one acknowledged with the gate idle began no transaction: it was withdrawn, and
\* raised again, before the gate moved.
LEMMA WithdrawnIsNone ==
  ASSUME NEW g, NEW s, NEW l, IsTraceOf(s, l), NEW a \in Nat, <<a, 1>> \in s.edges,
         \A e \in g.edges : a < e[1] /\ e[1] \in Nat, NEW x \in Attempts(g, s)
  PROVE  ~(x[1] < a)
<1> SUFFICES ASSUME x[1] < a PROVE FALSE
  OBVIOUS
<1> DEFINE n == x[1]
           p == s.first
           q == s.end
<1>1. p \in Nat /\ q \in Nat /\ s.edges = EdgesIn(l, p, q)
  BY DEF IsTraceOf
<1>2. x \in EdgesIn(l, p, q) /\ x[2] = 1 /\ Acknowledged(s, n) # {} /\ Between(g, s, n) # {}
  BY <1>1 DEF Attempts
<1> HIDE DEF p, q
<1>3. n \in p + 1 .. q - 1 /\ n \in Nat /\ l[n + 1] = 1
  BY <1>1, <1>2, EdgeIsReal
<1>4. a \in p + 1 .. q - 1 /\ l[a + 1] = 1 /\ l[a + 1] # l[a]
  BY <1>1 DEF EdgesIn
<1> HIDE DEF n
<1>5. n < a
  BY DEF n
<1>6. PICK y \in NextEdge(EdgesIn(l, p, q), n) : TRUE
  BY <1>1, <1>2 DEF Acknowledged
<1> DEFINE m == y[1]
<1>7. m \in n + 1 .. q - 1 /\ m \in Nat /\ l[m] = l[n + 1] /\ l[m + 1] # l[m]
  <2>1. n \in p .. q - 1
    BY <1>1, <1>3
  <2> QED
    BY <1>1, <1>6, <2>1, NextEdgeEnds
<1>8. m <= a
  BY <1>1, <1>5, <1>6 DEF NextEdge
<1> HIDE DEF m
<1>9. m < a
  BY <1>3, <1>4, <1>7, <1>8
<1>10. NextEdge(EdgesIn(l, p, q), m) # {}
  <2> SUFFICES ASSUME NextEdge(EdgesIn(l, p, q), m) = {} PROVE FALSE
    OBVIOUS
  <2>1. m \in p .. q - 1
    BY <1>1, <1>3, <1>7
  <2>2. Steady(l, m, q, l[m + 1])
    BY <1>1, <2>1, NoNextEdge
  <2>3. a \in m .. q - 1 /\ a - 1 \in m .. q - 1 /\ a - 1 + 1 = a
    BY <1>1, <1>3, <1>4, <1>7, <1>9
  <2>4. l[a + 1] = l[m + 1] /\ l[a - 1 + 1] = l[m + 1]
    BY <2>2, <2>3 DEF Steady
  <2> QED
    BY <1>4, <2>3, <2>4
<1>11. PICK z \in NextEdge(EdgesIn(l, p, q), m) : TRUE
  BY <1>10
<1>12. z[1] <= a /\ z[1] \in Nat
  <2>1. z \in EdgesIn(l, p, q) /\ \A e \in EdgesIn(l, p, q) : m < e[1] => z[1] <= e[1]
    BY <1>11 DEF NextEdge
  <2>2. z[1] \in Nat
    BY <1>1, <2>1, EdgeIsReal
  <2>3. <<a, 1>> \in EdgesIn(l, p, q) /\ <<a, 1>>[1] = a
    BY <1>1
  <2> QED
    BY <1>9, <2>1, <2>2, <2>3
<1>13. z \in Done(s, n)
  BY <1>1, <1>6, <1>11 DEF Done, Acknowledged, m
<1>14. PICK w \in Between(g, s, n) : TRUE
  BY <1>2 DEF n
<1>15. w \in g.edges /\ w[1] <= z[1]
  BY <1>13, <1>14 DEF Between
<1>16. a < w[1] /\ w[1] \in Nat
  BY <1>15
<1> QED
  BY <1>12, <1>15, <1>16

\* The transaction of a clean run is found, and is the only one.
LEMMA CleanRun ==
  ASSUME Evident, NeedsDone, lost = 0, \A c \in Channels : ~error[c], counted > 0,
         NEW a \in Nat, NEW b \in Nat, NEW r \in Nat, NEW f \in Nat, NEW d \in Nat,
         line["gate"][1] = 0, TrueEdges("gate", 0, handed["gate"]) = {<<r, 1>>, <<f, 0>>},
         {e \in TrueEdges("state", 0, handed["state"]) : e[1] >= a} = {<<a, 1>>, <<b, 0>>, <<d, 1>>},
         a < b, b <= r, f <= d, d < handed["gate"], d < handed["state"], d < counted, Evidence(<<r, f>>)
  PROVE  <<a, b, r, f, d>> \in Completion
<1> DEFINE lg == line["gate"]
           ls == line["state"]
           hg == handed["gate"]
           hs == handed["state"]
           t == <<a, b, r, f, d>>
<1>1. "gate" \in Channels /\ "state" \in Channels
  BY DEF Channels
<1>2. /\ hg \in Nat /\ hs \in Nat /\ counted \in Nat
      /\ hg <= Taken /\ hs <= Taken /\ Taken \in Nat
      /\ lg \in Seq(Levels) /\ Len(lg) = Taken /\ ls \in Seq(Levels) /\ Len(ls) = Taken
  BY <1>1, SetupStays DEF Evident, SignalsAreLines, PacketsInOrder, Taken
<1>3. (\A k \in 1 .. hg : lg[k] \in Levels) /\ (\A k \in 1 .. hs : ls[k] \in Levels)
  <2> HIDE DEF lg, ls, hg, hs, t
  <2> QED
    BY <1>2
<1>4. /\ 0 < r /\ r < f /\ f < hg
      /\ Steady(lg, 0, r, 0) /\ Steady(lg, r, f, 1) /\ Steady(lg, f, hg, 0)
  <2>1. EdgesIn(lg, 0, hg) = {<<r, 1>>, <<f, 0>>}
    BY DEF TrueEdges, EdgesIn
  <2> QED
    BY <1>2, <1>3, <2>1, CleanGate
<1>5. /\ 0 < a /\ d < hs /\ ls[a] = 0
      /\ Steady(ls, a, b, 1) /\ Steady(ls, b, d, 0) /\ Steady(ls, d, hs, 1) /\ ls[d + 1] = 1
  <2>1. ReadyEdges(ls, hs, a, b, d)
    BY DEF ReadyEdges, TrueEdges, EdgesIn
  <2>2. b < d
    BY <1>4
  <2> HIDE DEF lg, ls, hg, hs, t
  <2>3. hs \in Nat /\ \A k \in 1 .. hs : ls[k] \in Levels
    BY <1>2, <1>3
  <2>4. /\ 0 < a /\ d < hs /\ ls[a] = 0
        /\ Steady(ls, a, b, 1) /\ Steady(ls, b, d, 0) /\ Steady(ls, d, hs, 1) /\ ls[d + 1] = 1
    BY ONLY a \in Nat, b \in Nat, d \in Nat, a < b, <2>1, <2>2, <2>3, CleanState
  <2> QED
    BY <2>4
<1>6. Transacts(lg, ls, a, b, r, f, d)
  <2> HIDE DEF lg, ls, hg, hs, t
  <2>1. lg[a] = 0
    <3>1. a - 1 \in 0 .. r - 1 /\ a - 1 + 1 = a
      BY <1>5
    <3>2. lg[a - 1 + 1] = 0
      BY <1>4, <3>1 DEF Steady
    <3> QED
      BY <3>1, <3>2
  <2>2. Steady(lg, a, r, 0)
    BY <1>4, <1>5 DEF Steady
  <2>3. Steady(lg, f, d + 1, 0)
    <3>1. d < hg
      BY DEF hg
    <3> QED
      BY <1>2, <1>4, <3>1 DEF Steady
  <2> QED
    BY <1>4, <1>5, <2>1, <2>2, <2>3 DEF Transacts
<1>7. PICK g \in Traces("gate") : g.first = 0 /\ g.end = hg
  BY <1>1, <1>2, CleanTrace
<1>8. PICK s \in Traces("state") : s.first = 0 /\ s.end = hs
  BY <1>1, <1>2, CleanTrace
<1>9. IsTraceOf(g, lg) /\ IsTraceOf(s, ls) /\ Last(packets)[2] = counted
  <2>1. hg > 0
    BY <1>2
  <2> QED
    BY <1>1, <2>1, TraceOfLine, CleanTrace
<1>10. /\ <<a, 1>> \in Attempts(g, s)
       /\ Acknowledged(s, a) = {<<b, 0>>} /\ Done(s, a) = {<<d, 1>>}
       /\ Between(g, s, a) = {<<r, 1>>, <<f, 0>>}
  <2>1. g.first < a /\ s.first < a /\ d < g.end /\ d < s.end
    BY <1>5, <1>7, <1>8
  <2> QED
    BY <1>6, <1>9, <2>1, TransactionIsSeen
<1>11. g.edges = {<<r, 1>>, <<f, 0>>} /\ s.edges = EdgesIn(ls, 0, hs)
  BY <1>7, <1>8, <1>9 DEF IsTraceOf, TrueEdges, EdgesIn
<1>12. NextEdge(s.edges, d) = {} /\ NextEdge(g.edges, f) = {}
  <2> HIDE DEF lg, ls, hg, hs, t
  <2>1. NextEdge(EdgesIn(ls, 0, hs), d) = {}
    <3>1. d \in 0 .. hs - 1
      BY <1>2, <1>5
    <3> QED
      BY <1>2, <1>5, <3>1, NoNextEdgeIs
  <2>2. NextEdge(EdgesIn(lg, 0, hg), f) = {}
    <3>1. f \in 0 .. hg - 1
      BY <1>2, <1>4
    <3> QED
      BY <1>2, <1>4, <3>1, NoNextEdgeIs
  <2> QED
    BY <1>7, <1>9, <1>11, <2>1, <2>2 DEF IsTraceOf
<1>13. \A x \in Attempts(g, s) : x = <<a, 1>>
  <2> SUFFICES ASSUME NEW x \in Attempts(g, s) PROVE x = <<a, 1>>
    OBVIOUS
  <2>1. x \in EdgesIn(ls, 0, hs) /\ x[2] = 1 /\ Acknowledged(s, x[1]) # {}
    BY <1>11 DEF Attempts
  <2>2. x[1] \in Nat
    BY <1>2, <2>1, EdgeIsReal
  <2>3. ~(x[1] < a)
    <3>1. \A e \in g.edges : a < e[1] /\ e[1] \in Nat
      BY <1>4, <1>11
    <3>2. <<a, 1>> \in s.edges
      BY <1>10 DEF Attempts
    <3> QED
      BY <1>9, <3>1, <3>2, WithdrawnIsNone
  <2>4. x \in {<<a, 1>>, <<b, 0>>, <<d, 1>>}
    <3>1. x[1] >= a
      BY <2>2, <2>3
    <3>2. x \in {e \in EdgesIn(ls, 0, hs) : e[1] >= a}
      BY <2>1, <3>1
    <3> QED
      BY <3>2 DEF TrueEdges, EdgesIn
  <2>5. x # <<b, 0>>
    BY <2>1
  <2>6. x # <<d, 1>>
    BY <1>12, <2>1 DEF Acknowledged
  <2> QED
    BY <2>4, <2>5, <2>6
<1>14. Attempts(g, s) = {<<a, 1>>}
  BY <1>10, <1>13
<1>15. t[1] = a /\ t[2] = b /\ t[3] = r /\ t[4] = f /\ t[5] = d
  OBVIOUS
<1> HIDE DEF t
<1>16. Whole(g, s, t)
  <2>1. End(g, s) \in {g.end, s.end, Last(packets)[2]}
    BY <1>2, <1>7, <1>8, <1>9, EndIsLeast
  <2>2. d < End(g, s)
    BY <1>5, <1>7, <1>8, <1>9, <2>1
  <2>3. Evidence(<<t[3], t[4]>>)
    BY <1>15
  <2> QED
    BY <1>4, <1>10, <1>15, <2>2, <2>3 DEF Whole
<1>17. Quiet(g, s, t)
  <2>1. g.level = lg[hg] /\ s.level = ls[hs]
    BY <1>7, <1>8, <1>9 DEF IsTraceOf
  <2> HIDE DEF lg, ls, hg, hs
  <2>2. hg - 1 \in f .. hg - 1 /\ hg - 1 + 1 = hg /\ hs - 1 \in d .. hs - 1 /\ hs - 1 + 1 = hs
    BY <1>2, <1>4, <1>5
  <2>3. lg[hg - 1 + 1] = 0 /\ ls[hs - 1 + 1] = 1
    BY <1>4, <1>5, <2>2 DEF Steady
  <2> QED
    BY <1>12, <1>15, <2>1, <2>2, <2>3 DEF Quiet
<1>18. t \in Times(g, s, a)
  <2>1. <<b, 0>>[1] = b /\ <<d, 1>>[1] = d /\ <<r, 1>>[1] = r /\ <<f, 0>>[1] = f
    OBVIOUS
  <2> QED
    BY <1>10, <2>1 DEF Times, t
<1>19. t \in Resolve(g, s)
  <2>1. <<a, 1>>[1] = a
    OBVIOUS
  <2>2. t \in UNION {Times(g, s, e[1]) : e \in Attempts(g, s)}
    BY <1>10, <1>18, <2>1
  <2> QED
    BY <1>14, <1>15, <1>16, <1>17, <2>2 DEF Resolve
<1> QED
  BY <1>19 DEF Completion, t

\* So a clean run is recognised.
LEMMA EvidentRun == Evident => RunIsRecognised
<1> SUFFICES ASSUME Evident, NeedsDone /\ lost = 0 /\ (\A c \in Channels : ~error[c]) /\ counted > 0
             PROVE  \A r, f \in {e[1] : e \in TrueEdges("gate", 0, handed["gate"])} :
                    \A a, b, d \in {e[1] : e \in TrueEdges("state", 0, handed["state"])} :
                      /\ line["gate"][1] = 0 /\ TrueEdges("gate", 0, handed["gate"]) = {<<r, 1>>, <<f, 0>>}
                      /\ {e \in TrueEdges("state", 0, handed["state"]) : e[1] >= a} = {<<a, 1>>, <<b, 0>>, <<d, 1>>}
                      /\ a < b /\ b <= r /\ f <= d
                      /\ \A n \in {handed["gate"], handed["state"], counted} : d < n
                      /\ Evidence(<<r, f>>)
                      => Completion = {<<a, b, r, f, d>>}
  BY DEF RunIsRecognised
<1> TAKE r, f \in {e[1] : e \in TrueEdges("gate", 0, handed["gate"])}
<1> TAKE a, b, d \in {e[1] : e \in TrueEdges("state", 0, handed["state"])}
<1> HAVE /\ line["gate"][1] = 0 /\ TrueEdges("gate", 0, handed["gate"]) = {<<r, 1>>, <<f, 0>>}
         /\ {e \in TrueEdges("state", 0, handed["state"]) : e[1] >= a} = {<<a, 1>>, <<b, 0>>, <<d, 1>>}
         /\ a < b /\ b <= r /\ f <= d
         /\ \A n \in {handed["gate"], handed["state"], counted} : d < n
         /\ Evidence(<<r, f>>)
<1>1. "gate" \in Channels /\ "state" \in Channels
  BY DEF Channels
<1>2. handed["gate"] \in Nat /\ handed["state"] \in Nat
  BY <1>1 DEF Evident, SignalsAreLines
<1>3. a \in Nat /\ b \in Nat /\ r \in Nat /\ f \in Nat /\ d \in Nat
  BY <1>2 DEF TrueEdges
<1>4. d < handed["gate"] /\ d < handed["state"] /\ d < counted
  OBVIOUS
<1>5. <<a, b, r, f, d>> \in Completion
  BY <1>3, <1>4, CleanRun
<1>6. ASSUME NEW u \in Completion PROVE u = <<a, b, r, f, d>>
  <2>1. Kept(<<a, b, r, f, d>>)
    BY <1>5, CompletionIsKept
  <2> QED
    BY <2>1, KeptIsOnly
<1> QED
  BY <1>5, <1>6

\* All that is said of traces and completions.
LEMMA CompletionSound == EvidenceInv => EvidenceIsSound /\ CompletionIsSound
BY EvidentTypes, EvidentTraces, EvidentCompletion, EvidentRun, HistoryIsFinal
   DEF EvidenceInv, EvidenceIsSound, CompletionIsSound

-----------------------------------------------------------------------------
(* The window selected is a real high. *)

\* Where the level changed, it did so at a last edge, and stayed.
LEMMA LastChange ==
  ASSUME NEW l, NEW a \in Nat, NEW b \in Nat, NEW x \in a .. b - 1, NEW i \in x .. b - 1, l[i + 1] # l[x + 1]
  PROVE  \E m \in x + 1 .. i : /\ <<m, l[m + 1]>> \in EdgesIn(l, a, b) /\ l[m + 1] = l[i + 1]
                               /\ Steady(l, m, i + 1, l[i + 1])
<1> DEFINE S == {k \in x .. i : l[k + 1] # l[i + 1]}
<1>1. S \in SUBSET Nat /\ S # {} /\ (\A k \in S : k <= i) /\ i \in Nat /\ x \in Nat
  OBVIOUS
<1>2. PICK k \in S : \A y \in S : y <= k
  BY <1>1, GreatestOne
<1>3. k \in Nat /\ x <= k /\ k <= i /\ l[k + 1] # l[i + 1]
  BY <1>1
<1>4. k < i
  BY <1>1, <1>3
<1>5. k + 1 \in x .. i /\ k + 1 \notin S
  BY <1>1, <1>2, <1>3, <1>4
<1>6. l[k + 1 + 1] = l[i + 1]
  BY <1>5
<1>7. \A y \in k + 1 .. i + 1 - 1 : l[y + 1] = l[i + 1]
  <2> SUFFICES ASSUME NEW y \in k + 1 .. i + 1 - 1 PROVE l[y + 1] = l[i + 1]
    OBVIOUS
  <2>1. y \in x .. i /\ ~(y <= k)
    BY <1>1, <1>3
  <2> QED
    BY <1>2, <2>1
<1>8. k + 1 \in a + 1 .. b - 1
  BY <1>1, <1>3, <1>4
<1>9. <<k + 1, l[k + 1 + 1]>> \in EdgesIn(l, a, b)
  BY <1>3, <1>6, <1>8 DEF EdgesIn
<1>10. k + 1 \in x + 1 .. i
  BY <1>1, <1>3, <1>4
<1>11. Steady(l, k + 1, i + 1, l[i + 1])
  BY <1>7 DEF Steady
<1> WITNESS k + 1 \in x + 1 .. i
<1> QED
  BY <1>6, <1>9, <1>11

\* A high of the gate, between its edges.
IsHigh(l, w) == /\ w[1] \in Nat /\ w[2] \in Nat /\ w[1] < w[2] /\ w = <<w[1], w[2]>>
                /\ l[w[1]] = 0 /\ Steady(l, w[1], w[2], 1) /\ l[w[2] + 1] = 0

\* A window on a trace is a high of its line.
LEMMA WindowIsHigh ==
  ASSUME NEW t, NEW l, IsTraceOf(t, l), NEW w \in GateWindows(t)
  PROVE  IsHigh(l, w) /\ t.first < w[1] /\ w[2] < t.end
<1> DEFINE a == t.first
           b == t.end
<1>1. a \in Nat /\ b \in Nat /\ t.edges = EdgesIn(l, a, b) /\ \A k \in 1 .. b : l[k] \in Levels
  BY DEF IsTraceOf
<1>20. PICK e \in EdgesIn(l, a, b) :
         e[2] = 1 /\ \E d \in NextEdge(EdgesIn(l, a, b), e[1]) : w = <<e[1], d[1]>>
  BY <1>1 DEF GateWindows
<1>2. PICK d \in NextEdge(EdgesIn(l, a, b), e[1]) : e[2] = 1 /\ w = <<e[1], d[1]>>
  BY <1>20
<1> HIDE DEF a, b
<1>3. /\ e[1] \in a + 1 .. b - 1 /\ e[1] \in Nat /\ l[e[1] + 1] = 1 /\ l[e[1] + 1] # l[e[1]]
  BY <1>1, <1>2, EdgeIsReal
<1>4. l[e[1]] = 0
  <2>1. e[1] \in 1 .. b
    BY <1>1, <1>3
  <2> QED
    BY <1>1, <1>3, <2>1 DEF Levels
<1>5. e[1] \in a .. b - 1
  BY <1>1, <1>3
<1>6. /\ d[1] \in e[1] + 1 .. b - 1 /\ d[1] \in Nat
      /\ l[d[1] + 1] # l[d[1]] /\ l[d[1]] = l[e[1] + 1] /\ Steady(l, e[1], d[1], l[e[1] + 1])
  BY <1>1, <1>5, NextEdgeEnds
<1>7. l[d[1] + 1] = 0
  <2>1. d[1] + 1 \in 1 .. b
    BY <1>1, <1>6
  <2> QED
    BY <1>1, <1>3, <1>6, <2>1 DEF Levels
<1>8. w[1] = e[1] /\ w[2] = d[1] /\ w = <<w[1], w[2]>>
  BY <1>2
<1>9. e[1] < d[1] /\ a < e[1] /\ d[1] < b
  BY <1>1, <1>3, <1>6
<1> QED
  BY <1>3, <1>4, <1>6, <1>7, <1>8, <1>9 DEF IsHigh, a, b

\* Any stretch of high that ends on the trace, after a low on it, is the end of a window.
LEMMA HighIsInWindow ==
  ASSUME NEW t, NEW l, IsTraceOf(t, l), NEW x \in t.first .. t.end - 1, l[x + 1] = 0,
         NEW i \in x .. t.end - 1, NEW j \in i + 1 .. t.end - 1, Steady(l, i, j, 1), l[j + 1] = 0
  PROVE  \E m \in x + 1 .. i : <<m, j>> \in GateWindows(t)
<1> DEFINE a == t.first
           b == t.end
<1>1. a \in Nat /\ b \in Nat /\ t.edges = EdgesIn(l, a, b)
  BY DEF IsTraceOf
<1>2. x \in a .. b - 1 /\ i \in x .. b - 1 /\ j \in i + 1 .. b - 1
  OBVIOUS
<1> HIDE DEF a, b
<1>3. l[i + 1] = 1
  BY <1>1, <1>2 DEF Steady
<1>4. PICK m \in x + 1 .. i : /\ <<m, l[m + 1]>> \in EdgesIn(l, a, b) /\ l[m + 1] = l[i + 1]
                              /\ Steady(l, m, i + 1, l[i + 1])
  <2>1. l[i + 1] # l[x + 1]
    BY <1>3
  <2> QED
    BY <1>1, <1>2, <2>1, LastChange
<1>5. Steady(l, m, j, 1)
  BY <1>1, <1>2, <1>3, <1>4 DEF Steady
<1>6. m \in a .. b - 1 /\ j \in m + 1 .. b - 1
  BY <1>1, <1>2
<1>7. NextEdge(EdgesIn(l, a, b), m) = {<<j, 0>>}
  <2>1. l[j + 1] # 1
    OBVIOUS
  <2>2. NextEdge(EdgesIn(l, a, b), m) = {<<j, l[j + 1]>>}
    BY <1>1, <1>5, <1>6, <2>1, NextEdgeIs
  <2> QED
    BY <2>2
<1>8. <<m, j>> \in GateWindows(t)
  <2> DEFINE e == <<m, 1>>
  <2>1. e \in {y \in t.edges : y[2] = 1}
    BY <1>1, <1>3, <1>4
  <2>2. e[1] = m
    OBVIOUS
  <2> HIDE DEF e
  <2>3. <<m, j>> \in {<<e[1], d[1]>> : d \in NextEdge(t.edges, e[1])}
    <3>1. <<j, 0>> \in NextEdge(t.edges, e[1]) /\ <<j, 0>>[1] = j
      BY <1>1, <1>7, <2>2
    <3> QED
      BY <2>2, <3>1
  <2> QED
    BY <2>1, <2>3 DEF GateWindows
<1> QED
  BY <1>8

\* A selected window: a high on the trace, after which none is as long as was planned.
LEMMA SelectedFacts ==
  ASSUME Evident, NEW fallback \in BOOLEAN, NEW w \in Reduced(fallback)
  PROVE  /\ "gate" \in Channels /\ IsHigh(line["gate"], w) /\ Evidence(w) /\ w[2] - w[1] >= MinGate
         /\ \E t \in Traces("gate") :
              /\ IsTraceOf(t, line["gate"]) /\ t.first < w[1] /\ w[2] < t.end
              /\ \A i \in w[2] .. t.end - 1 : \A j \in i + 1 .. t.end - 1 :
                   Steady(line["gate"], i, j, 1) /\ line["gate"][j + 1] = 0 => j - i < PlanFloor
<1> DEFINE l == line["gate"]
<1>1. "gate" \in Channels
  BY SetupStays DEF Channels
<1>2. Evidence(w) /\ w[2] - w[1] >= MinGate
  BY DEF Reduced, Streamed
<1>3. CASE NeedsDone
  <2>1. PICK u \in Completion : w = <<u[3], u[4]>>
    BY <1>3 DEF Reduced, Streamed
  <2>2. PICK g \in Traces("gate"), s \in Traces("state") :
          /\ IsTraceOf(g, l) /\ Transacts(l, line["state"], u[1], u[2], u[3], u[4], u[5])
          /\ g.first < u[1] /\ u[5] < g.end /\ Steady(l, u[4], g.end, 0)
    BY CompletionFacts
  <2> DEFINE r == u[3]
             f == u[4]
  <2>3. /\ u[1] \in Nat /\ u[2] \in Nat /\ r \in Nat /\ f \in Nat /\ u[5] \in Nat
        /\ u[1] < u[2] /\ u[2] <= r /\ r < f /\ f <= u[5]
        /\ Steady(l, u[1], r, 0) /\ Steady(l, r, f, 1) /\ Steady(l, f, u[5] + 1, 0)
    BY <2>2 DEF Transacts
  <2>4. g.first \in Nat /\ g.end \in Nat
    BY <2>2 DEF IsTraceOf
  <2>5. w = <<r, f>> /\ w[1] = r /\ w[2] = f
    BY <2>1
  <2> HIDE DEF r, f, l
  <2>6. l[r] = 0
    <3>1. r - 1 \in u[1] .. r - 1 /\ r - 1 + 1 = r
      BY <2>3
    <3>2. l[r - 1 + 1] = 0
      BY <2>3, <3>1 DEF Steady
    <3> QED
      BY <3>1, <3>2
  <2>7. l[f + 1] = 0
    BY <2>3 DEF Steady
  <2>8. IsHigh(l, w)
    BY <2>3, <2>5, <2>6, <2>7 DEF IsHigh
  <2>9. g.first < w[1] /\ w[2] < g.end
    BY <2>2, <2>3, <2>4, <2>5 DEF f
  <2>10. ASSUME NEW i \in w[2] .. g.end - 1, NEW j \in i + 1 .. g.end - 1, Steady(l, i, j, 1)
         PROVE  FALSE
    <3>1. l[i + 1] = 1
      BY <2>3, <2>4, <2>5, <2>10 DEF Steady
    <3>2. l[i + 1] = 0
      BY <2>2, <2>3, <2>4, <2>5 DEF Steady, f
    <3> QED
      BY <3>1, <3>2
  <2> QED
    BY <1>1, <1>2, <2>2, <2>8, <2>9, <2>10 DEF l
<1>4. CASE ~NeedsDone
  <2>1. PICK t \in Traces("gate") : w \in Ranked(GateWindows(t), fallback)
    BY <1>4 DEF Reduced, Streamed
  <2>2. IsTraceOf(t, l)
    BY <1>1, TraceOfLine
  <2>3. w \in Candidates(GateWindows(t), fallback) /\ \A o \in Candidates(GateWindows(t), fallback) : o[1] <= w[1]
    BY <2>1 DEF Ranked
  <2>4. w \in GateWindows(t)
    BY <2>3 DEF Candidates
  <2>5. IsHigh(l, w) /\ t.first < w[1] /\ w[2] < t.end
    BY <2>2, <2>4, WindowIsHigh
  <2>6. /\ w[1] \in Nat /\ w[2] \in Nat /\ w[1] < w[2] /\ l[w[2] + 1] = 0
        /\ t.first \in Nat /\ t.end \in Nat /\ PlanFloor \in Nat
    BY <2>2, <2>5, SetupBounds DEF IsHigh, IsTraceOf, Evident, SignalsAreLines
  <2> HIDE DEF l
  <2>7. ASSUME NEW i \in w[2] .. t.end - 1, NEW j \in i + 1 .. t.end - 1, Steady(l, i, j, 1), l[j + 1] = 0,
               ~(j - i < PlanFloor)
        PROVE  FALSE
    <3>1. w[2] \in t.first .. t.end - 1
      BY <2>5, <2>6
    <3>2. PICK m \in w[2] + 1 .. i : <<m, j>> \in GateWindows(t)
      BY <2>2, <2>6, <2>7, <3>1, HighIsInWindow
    <3>3. m \in Nat /\ j \in Nat /\ i \in Nat /\ m <= i /\ w[1] < m
      BY <2>6, <3>2
    <3>4. j - m >= PlanFloor
      BY <2>6, <2>7, <3>3
    <3> DEFINE o == <<m, j>>
               long == {v \in GateWindows(t) : v[2] - v[1] >= PlanFloor}
    <3>5. o[1] = m /\ o[2] = j
      OBVIOUS
    <3>6. o \in long
      BY <3>2, <3>4, <3>5
    <3>7. Candidates(GateWindows(t), fallback) = long
      BY <3>6 DEF Candidates
    <3>8. m <= w[1]
      BY <2>3, <3>5, <3>6, <3>7
    <3> QED
      BY <2>6, <3>3, <3>8
  <2> QED
    BY <1>1, <1>2, <2>2, <2>5, <2>7 DEF l
<1> QED
  BY <1>3, <1>4

\* So the window that is selected is real, and the last that qualifies.
LEMMA EvidentSelection == Evident => SelectedIsReal
<1> SUFFICES ASSUME Evident, NEW fallback \in BOOLEAN, NEW w \in Reduced(fallback), NEW t \in Traces("gate")
             PROVE  /\ line["gate"][w[1]] = 0 /\ LevelIs("gate", w[1], w[2], 1) /\ line["gate"][w[2] + 1] = 0
                    /\ w[2] - w[1] >= MinGate
                    /\ \A i \in w[2] .. t.end - 1 : \A j \in i + 1 .. t.end - 1 :
                         LevelIs("gate", i, j, 1) /\ line["gate"][j + 1] = 0 => j - i < PlanFloor
  BY DEF SelectedIsReal
<1>1. PICK g \in Traces("gate") :
        /\ \A i \in w[2] .. g.end - 1 : \A j \in i + 1 .. g.end - 1 :
             Steady(line["gate"], i, j, 1) /\ line["gate"][j + 1] = 0 => j - i < PlanFloor
  BY SelectedFacts
<1>2. g = t
  BY OneTrace
<1>3. IsHigh(line["gate"], w) /\ w[2] - w[1] >= MinGate
  BY SelectedFacts
<1>4. \A x, y : LevelIs("gate", x, y, 1) <=> Steady(line["gate"], x, y, 1)
  BY DEF LevelIs, Steady
<1> QED
  BY <1>1, <1>2, <1>3, <1>4 DEF IsHigh

-----------------------------------------------------------------------------
(* The library's sum over a finite set, whose elements it takes in an order it chooses: one element more *)
(* adds what it maps to. *)

\* The library takes an element, and adds what it maps to to the sum of the others.
PickOf(s) == CHOOSE x \in s : TRUE
SumsOver(f, D, g) == g = [s \in D |-> IF s = {} THEN 0 ELSE f[PickOf(s)] + g[s \ {PickOf(s)}]]
\* Sets no larger than k: the sums over them exist by induction on k.
OfSize(S, k) == {s \in SUBSET S : Cardinality(s) <= k}

\* Without the element taken a set is smaller.
LEMMA PickedLess ==
  ASSUME NEW S, IsFiniteSet(S), NEW s \in SUBSET S, s # {}
  PROVE  /\ PickOf(s) \in s /\ s \ {PickOf(s)} \in SUBSET S /\ IsFiniteSet(s)
         /\ Cardinality(s) \in Nat /\ Cardinality(s) > 0
         /\ Cardinality(s \ {PickOf(s)}) = Cardinality(s) - 1
<1>1. IsFiniteSet(s)
  BY FS_Subset
<1>2. PickOf(s) \in s
  BY DEF PickOf
<1>3. Cardinality(s \ {PickOf(s)}) = Cardinality(s) - 1
  BY <1>1, <1>2, FS_RemoveElement
<1>4. Cardinality(s) \in Nat /\ Cardinality(s) # 0
  BY <1>1, FS_CardinalityType, FS_EmptySet
<1> QED
  BY <1>1, <1>2, <1>3, <1>4

\* Of finite sets one is smallest.
LEMMA SmallestSet ==
  ASSUME NEW B, B # {}, \A s \in B : IsFiniteSet(s)
  PROVE  \E s \in B : Cardinality(s) \in Nat /\ \A u \in B : Cardinality(s) <= Cardinality(u)
<1> DEFINE N == {Cardinality(s) : s \in B}
<1>1. \A s \in B : Cardinality(s) \in Nat
  BY FS_CardinalityType
<1>2. N \in SUBSET Nat /\ N # {}
  BY <1>1
<1>3. PICK n \in N : \A m \in N : n <= m
  BY <1>2, LeastOne
<1> QED
  BY <1>1, <1>3

\* There are sums over all sets up to any size ...
LEMMA SumsOfSize ==
  ASSUME NEW f, NEW S, IsFiniteSet(S)
  PROVE  \A k \in Nat : \E g : SumsOver(f, OfSize(S, k), g)
<1> SUFFICES ASSUME ~(\A k \in Nat : \E g : SumsOver(f, OfSize(S, k), g)) PROVE FALSE
  OBVIOUS
<1> DEFINE B == {k \in Nat : ~\E g : SumsOver(f, OfSize(S, k), g)}
<1>1. B \in SUBSET Nat /\ B # {}
  OBVIOUS
<1>2. PICK k \in B : \A m \in B : k <= m
  BY <1>1, LeastOne
<1>3. k \in Nat /\ ~\E g : SumsOver(f, OfSize(S, k), g)
  OBVIOUS
<1>4. CASE k = 0
  <2> DEFINE g == [s \in OfSize(S, k) |-> 0]
  <2>1. \A s \in OfSize(S, k) : s = {}
    <3> SUFFICES ASSUME NEW s \in OfSize(S, k), s # {} PROVE FALSE
      OBVIOUS
    <3>1. s \in SUBSET S /\ Cardinality(s) <= 0
      BY <1>4 DEF OfSize
    <3>2. Cardinality(s) \in Nat /\ Cardinality(s) > 0
      BY <3>1, PickedLess
    <3> QED
      BY <3>1, <3>2
  <2>2. SumsOver(f, OfSize(S, k), g)
    BY <2>1 DEF SumsOver
  <2> QED
    BY <1>3, <2>2
<1>5. CASE k # 0
  <2>1. k - 1 \in Nat /\ k - 1 \notin B
    BY <1>2, <1>3, <1>5
  <2>2. PICK g : SumsOver(f, OfSize(S, k - 1), g)
    BY <2>1
  <2> DEFINE h == [s \in OfSize(S, k) |-> IF s = {} THEN 0 ELSE f[PickOf(s)] + g[s \ {PickOf(s)}]]
  <2>3. ASSUME NEW u \in OfSize(S, k - 1) PROVE h[u] = g[u]
    <3>1. u \in SUBSET S /\ Cardinality(u) <= k - 1
      BY DEF OfSize
    <3>2. IsFiniteSet(u) /\ Cardinality(u) \in Nat
      BY <3>1, FS_Subset, FS_CardinalityType
    <3>3. u \in OfSize(S, k)
      BY <1>3, <3>1, <3>2 DEF OfSize
    <3>4. h[u] = IF u = {} THEN 0 ELSE f[PickOf(u)] + g[u \ {PickOf(u)}]
      BY <3>3
    <3>5. g[u] = IF u = {} THEN 0 ELSE f[PickOf(u)] + g[u \ {PickOf(u)}]
      BY <2>2 DEF SumsOver
    <3> QED
      BY <3>4, <3>5
  <2>4. ASSUME NEW s \in OfSize(S, k), s # {} PROVE g[s \ {PickOf(s)}] = h[s \ {PickOf(s)}]
    <3>1. s \in SUBSET S /\ Cardinality(s) <= k
      BY DEF OfSize
    <3>2. s \ {PickOf(s)} \in SUBSET S /\ Cardinality(s \ {PickOf(s)}) = Cardinality(s) - 1 /\ Cardinality(s) \in Nat
      BY <2>4, <3>1, PickedLess
    <3>3. s \ {PickOf(s)} \in OfSize(S, k - 1)
      BY <1>3, <3>1, <3>2 DEF OfSize
    <3> QED
      BY <2>3, <3>3
  <2>5. h = [s \in OfSize(S, k) |-> IF s = {} THEN 0 ELSE f[PickOf(s)] + h[s \ {PickOf(s)}]]
    BY <2>4, Zenon
  <2>6. SumsOver(f, OfSize(S, k), h)
    BY <2>5 DEF SumsOver
  <2> QED
    BY <1>3, <2>6
<1> QED
  BY <1>4, <1>5

\* ... and so over all subsets of a finite set.
LEMMA SumsExist ==
  ASSUME NEW f, NEW S, IsFiniteSet(S)
  PROVE  \E g : SumsOver(f, SUBSET S, g)
<1>1. Cardinality(S) \in Nat
  BY FS_CardinalityType
<1>2. OfSize(S, Cardinality(S)) = SUBSET S
  BY FS_Subset DEF OfSize
<1>3. \E g : SumsOver(f, OfSize(S, Cardinality(S)), g)
  BY <1>1, SumsOfSize
<1> QED
  BY <1>2, <1>3

\* Sums are determined: two tables of them agree.
LEMMA SumsAgree ==
  ASSUME NEW f, NEW S, IsFiniteSet(S), NEW T, IsFiniteSet(T), NEW g, NEW h,
         SumsOver(f, SUBSET S, g), SumsOver(f, SUBSET T, h), NEW r \in SUBSET S, r \in SUBSET T
  PROVE  g[r] = h[r]
<1> SUFFICES ASSUME g[r] # h[r] PROVE FALSE
  OBVIOUS
<1> DEFINE B == {s \in SUBSET S : s \in SUBSET T /\ g[s] # h[s]}
<1>1. B # {}
  OBVIOUS
<1>2. \A s \in B : IsFiniteSet(s)
  BY FS_Subset
<1>3. PICK s \in B : Cardinality(s) \in Nat /\ \A u \in B : Cardinality(s) <= Cardinality(u)
  BY <1>1, <1>2, SmallestSet
<1>4. s \in SUBSET S /\ s \in SUBSET T /\ g[s] # h[s]
  OBVIOUS
<1>5. /\ g[s] = IF s = {} THEN 0 ELSE f[PickOf(s)] + g[s \ {PickOf(s)}]
      /\ h[s] = IF s = {} THEN 0 ELSE f[PickOf(s)] + h[s \ {PickOf(s)}]
  BY <1>4 DEF SumsOver
<1>6. s # {} /\ g[s \ {PickOf(s)}] # h[s \ {PickOf(s)}]
  BY <1>4, <1>5
<1>7. s \ {PickOf(s)} \in B
  BY <1>4, <1>6
<1>8. Cardinality(s \ {PickOf(s)}) = Cardinality(s) - 1
  BY <1>4, <1>6, PickedLess
<1> QED
  BY <1>3, <1>7, <1>8

\* Sums of integers are integers.
LEMMA SumsAreInt ==
  ASSUME NEW f, NEW S, IsFiniteSet(S), NEW g, SumsOver(f, SUBSET S, g), \A x \in S : f[x] \in Int,
         NEW r \in SUBSET S
  PROVE  g[r] \in Int
<1> SUFFICES ASSUME g[r] \notin Int PROVE FALSE
  OBVIOUS
<1> DEFINE B == {s \in SUBSET S : g[s] \notin Int}
<1>1. B # {} /\ \A s \in B : IsFiniteSet(s)
  BY FS_Subset
<1>2. PICK s \in B : Cardinality(s) \in Nat /\ \A u \in B : Cardinality(s) <= Cardinality(u)
  BY <1>1, SmallestSet
<1>3. s \in SUBSET S /\ g[s] \notin Int
  OBVIOUS
<1>4. g[s] = IF s = {} THEN 0 ELSE f[PickOf(s)] + g[s \ {PickOf(s)}]
  BY <1>3 DEF SumsOver
<1>5. s # {}
  BY <1>3, <1>4
<1>6. PickOf(s) \in s /\ s \ {PickOf(s)} \in SUBSET S /\ Cardinality(s \ {PickOf(s)}) = Cardinality(s) - 1
  BY <1>3, <1>5, PickedLess
<1>7. s \ {PickOf(s)} \notin B
  BY <1>2, <1>6
<1>8. g[s \ {PickOf(s)}] \in Int /\ f[PickOf(s)] \in Int
  BY <1>3, <1>6, <1>7
<1> QED
  BY <1>3, <1>4, <1>5, <1>8

\* Whichever element is taken first, the sum is the same.
LEMMA SumsAnyOrder ==
  ASSUME NEW f, NEW S, IsFiniteSet(S), NEW g, SumsOver(f, SUBSET S, g), \A x \in S : f[x] \in Int,
         NEW r \in SUBSET S, NEW x \in r
  PROVE  g[r] = f[x] + g[r \ {x}]
<1> SUFFICES ASSUME g[r] # f[x] + g[r \ {x}] PROVE FALSE
  OBVIOUS
<1> DEFINE B == {s \in SUBSET S : \E y \in s : g[s] # f[y] + g[s \ {y}]}
<1>1. B # {} /\ \A s \in B : IsFiniteSet(s)
  BY FS_Subset
<1>2. PICK s \in B : Cardinality(s) \in Nat /\ \A u \in B : Cardinality(s) <= Cardinality(u)
  BY <1>1, SmallestSet
<1>3. PICK y \in s : g[s] # f[y] + g[s \ {y}]
  OBVIOUS
<1>4. s \in SUBSET S /\ s # {}
  OBVIOUS
<1> DEFINE c == PickOf(s)
<1>5. g[s] = f[c] + g[s \ {c}]
  BY <1>4 DEF SumsOver
<1>6. c \in s /\ Cardinality(s \ {c}) = Cardinality(s) - 1
  BY <1>4, PickedLess
<1>7. Cardinality(s \ {y}) = Cardinality(s) - 1
  BY <1>1, FS_RemoveElement
<1> HIDE DEF c
<1>8. c # y
  BY <1>3, <1>5
<1>9. s \ {c} \notin B /\ s \ {y} \notin B
  BY <1>2, <1>6, <1>7
<1>10. g[s \ {c}] = f[y] + g[(s \ {c}) \ {y}]
  BY <1>4, <1>8, <1>9
<1>11. g[s \ {y}] = f[c] + g[(s \ {y}) \ {c}]
  BY <1>4, <1>6, <1>8, <1>9
<1>12. (s \ {y}) \ {c} = (s \ {c}) \ {y}
  OBVIOUS
<1>13. g[(s \ {c}) \ {y}] \in Int /\ f[y] \in Int /\ f[c] \in Int
  BY <1>4, <1>6, SumsAreInt
<1> DEFINE p == g[(s \ {c}) \ {y}]
<1>14. g[s] = f[c] + (f[y] + p) /\ g[s \ {y}] = f[c] + p
  BY <1>5, <1>10, <1>11, <1>12
<1>15. p \in Int
  BY <1>13
<1> HIDE DEF p
<1>16. f[c] + (f[y] + p) = f[y] + (f[c] + p)
  BY <1>13, <1>15
<1> QED
  BY <1>3, <1>14, <1>16

\* The sum the library defines is that of the table.
LEMMA SumIsSums ==
  ASSUME NEW f, NEW S, IsFiniteSet(S)
  PROVE  \E g : SumsOver(f, SUBSET S, g) /\ SumFunctionOnSet(f, S) = g[S]
<1> DEFINE h == CHOOSE g : g = [s \in SUBSET S |-> IF s = {} THEN 0
                                                   ELSE f[CHOOSE x \in s : TRUE] + g[s \ {CHOOSE x \in s : TRUE}]]
<1>1. SumFunctionOnSet(f, S) = h[S]
  BY DEF SumFunctionOnSet, FoldFunctionOnSet, MapThenFoldSet
<1>2. h = CHOOSE g : SumsOver(f, SUBSET S, g)
  BY DEF SumsOver, PickOf
<1> HIDE DEF h
<1>3. SumsOver(f, SUBSET S, h)
  BY <1>2, SumsExist
<1> QED
  BY <1>1, <1>3

\* No elements, no sum.
LEMMA SumOfNone == ASSUME NEW f PROVE SumFunctionOnSet(f, {}) = 0
<1>1. PICK g : SumsOver(f, SUBSET {}, g) /\ SumFunctionOnSet(f, {}) = g[{}]
  BY SumIsSums, FS_EmptySet
<1> QED
  BY <1>1 DEF SumsOver

\* One element's part of a sum.
LEMMA SumOfMore ==
  ASSUME NEW f, NEW S, IsFiniteSet(S), \A x \in S : f[x] \in Int, NEW x \in S
  PROVE  /\ SumFunctionOnSet(f, S) = f[x] + SumFunctionOnSet(f, S \ {x})
         /\ SumFunctionOnSet(f, S \ {x}) \in Int
<1>1. PICK g : SumsOver(f, SUBSET S, g) /\ SumFunctionOnSet(f, S) = g[S]
  BY SumIsSums
<1>2. IsFiniteSet(S \ {x})
  BY FS_RemoveElement
<1>3. PICK h : SumsOver(f, SUBSET (S \ {x}), h) /\ SumFunctionOnSet(f, S \ {x}) = h[S \ {x}]
  BY <1>2, SumIsSums
<1>4. h[S \ {x}] = g[S \ {x}]
  <2> DEFINE T == S \ {x}
  <2>1. T \in SUBSET S /\ T \in SUBSET T /\ IsFiniteSet(T) /\ SumsOver(f, SUBSET T, h)
    BY <1>2, <1>3
  <2> HIDE DEF T
  <2>2. SumsOver(f, SUBSET S, g)
    BY <1>1
  <2>3. g[T] = h[T]
    BY ONLY IsFiniteSet(S), <2>1, <2>2, SumsAgree
  <2> QED
    BY <2>3 DEF T
<1>5. g[S] = f[x] + g[S \ {x}] /\ g[S \ {x}] \in Int
  BY <1>1, SumsAnyOrder, SumsAreInt
<1> QED
  BY <1>1, <1>3, <1>4, <1>5

\* A sum of natural numbers is one, and no less than any of them.
LEMMA SumIsNat ==
  ASSUME NEW f, NEW S, IsFiniteSet(S), \A x \in S : f[x] \in Nat
  PROVE  SumFunctionOnSet(f, S) \in Nat
<1> SUFFICES ASSUME SumFunctionOnSet(f, S) \notin Nat PROVE FALSE
  OBVIOUS
<1> DEFINE B == {s \in SUBSET S : SumFunctionOnSet(f, s) \notin Nat}
<1>1. B # {} /\ \A s \in B : IsFiniteSet(s)
  BY FS_Subset
<1>2. PICK s \in B : Cardinality(s) \in Nat /\ \A u \in B : Cardinality(s) <= Cardinality(u)
  BY <1>1, SmallestSet
<1>3. s \in SUBSET S /\ SumFunctionOnSet(f, s) \notin Nat /\ IsFiniteSet(s)
  BY <1>1
<1>4. s # {}
  BY <1>3, SumOfNone
<1>5. PICK x \in s : TRUE
  BY <1>4
<1>6. SumFunctionOnSet(f, s) = f[x] + SumFunctionOnSet(f, s \ {x})
  <2>1. \A y \in s : f[y] \in Int
    BY <1>3
  <2> QED
    BY <1>3, <2>1, SumOfMore
<1>7. Cardinality(s \ {x}) = Cardinality(s) - 1
  BY <1>3, FS_RemoveElement
<1>8. s \ {x} \notin B
  BY <1>2, <1>7
<1>9. SumFunctionOnSet(f, s \ {x}) \in Nat /\ f[x] \in Nat
  BY <1>3, <1>8
<1> QED
  BY <1>3, <1>6, <1>9

\* And it is no less than any one of them.
LEMMA SumAtLeast ==
  ASSUME NEW f, NEW S, IsFiniteSet(S), \A x \in S : f[x] \in Nat, NEW x \in S
  PROVE  f[x] <= SumFunctionOnSet(f, S)
<1>1. IsFiniteSet(S \ {x})
  BY FS_RemoveElement
<1>2. SumFunctionOnSet(f, S \ {x}) \in Nat
  BY <1>1, SumIsNat
<1>3. SumFunctionOnSet(f, S) = f[x] + SumFunctionOnSet(f, S \ {x})
  BY SumOfMore
<1> QED
  BY <1>2, <1>3

-----------------------------------------------------------------------------
(* What is integrated, and how far it is from the window. *)

\* Packets one after the other, from From(1) to To of the last.
From(i) == packets[i][1]
To(i) == packets[i][2]
InARow(n) ==
  /\ n \in Nat /\ n > 0 /\ DOMAIN packets = 1 .. n
  /\ \A i \in 1 .. n : From(i) \in Nat /\ To(i) \in Nat /\ From(i) < To(i)
  /\ \A i \in 1 .. n - 1 : From(i + 1) = To(i)
\* How long each packet is.
Lengths == [i \in DOMAIN packets |-> packets[i][2] - packets[i][1]]

\* Contiguous packets are in a row.
LEMMA PacketsInARow ==
  ASSUME Evident, packets # <<>>, Contiguous(packets)
  PROVE  InARow(Len(packets)) /\ Last(packets)[2] = To(Len(packets))
BY PacketFacts DEF InARow, From, To, Contiguous

\* What is so of each packet in a row.
LEMMA InARowFacts ==
  ASSUME NEW n, InARow(n), NEW i \in 1 .. n
  PROVE  /\ n \in Nat /\ i \in Nat /\ From(i) \in Nat /\ To(i) \in Nat /\ From(i) < To(i)
         /\ Lengths[i] = To(i) - From(i) /\ Lengths[i] \in Nat
<1>1. n \in Nat /\ i \in DOMAIN packets /\ From(i) \in Nat /\ To(i) \in Nat /\ From(i) < To(i)
  BY DEF InARow
<1>2. Lengths[i] = To(i) - From(i)
  BY <1>1 DEF Lengths, From, To
<1> QED
  BY <1>1, <1>2

\* An earlier packet ends before a later one begins.
LEMMA EarlierPacket ==
  ASSUME NEW n, InARow(n), NEW i \in 1 .. n, NEW j \in 1 .. n, i < j
  PROVE  To(i) <= From(j)
<1> SUFFICES ASSUME ~(To(i) <= From(j)) PROVE FALSE
  OBVIOUS
<1> DEFINE S == {k \in 1 .. n : i < k /\ ~(To(i) <= From(k))}
<1>0. n \in Nat /\ i \in Nat
  BY InARowFacts
<1>1. S \in SUBSET Nat /\ S # {}
  OBVIOUS
<1>2. PICK k \in S : \A m \in S : k <= m
  BY <1>1, LeastOne
<1>3. k \in 1 .. n /\ i < k /\ ~(To(i) <= From(k))
  OBVIOUS
<1> HIDE DEF S
<1>4. k - 1 \in 1 .. n /\ k - 1 \in 1 .. n - 1 /\ k - 1 + 1 = k /\ ~(k <= k - 1)
  BY <1>0, <1>3
<1>5. From(k) = To(k - 1)
  BY <1>4 DEF InARow
<1>6. CASE k - 1 = i
  <2>1. To(i) \in Nat
    BY InARowFacts
  <2> QED
    BY <1>3, <1>5, <1>6, <2>1
<1>7. CASE k - 1 # i
  <2>1. i < k - 1
    BY <1>0, <1>3, <1>7
  <2>2. k - 1 \notin S
    BY <1>2, <1>4
  <2>3. To(i) <= From(k - 1)
    BY <1>4, <2>1, <2>2 DEF S
  <2>4. From(k - 1) < To(k - 1) /\ From(k - 1) \in Nat /\ To(k - 1) \in Nat
    BY <1>4, InARowFacts
  <2>5. To(i) \in Nat
    BY InARowFacts
  <2> QED
    BY <1>3, <1>5, <2>3, <2>4, <2>5
<1> QED
  BY <1>6, <1>7

\* What packets span is the sum of their lengths.
LEMMA SpanIsSum == \A S : Span(S) = SumFunctionOnSet(Lengths, S)
BY DEF Span, Lengths

\* Packets in a row span what lies between their ends.
LEMMA SpanOfRange ==
  ASSUME NEW n, InARow(n), NEW i \in 1 .. n, NEW j \in i .. n
  PROVE  Span(i .. j) = To(j) - From(i)
<1> SUFFICES ASSUME ~(Span(i .. j) = To(j) - From(i)) PROVE FALSE
  OBVIOUS
<1> DEFINE S == {k \in i .. n : ~(Span(i .. k) = To(k) - From(i))}
<1>0. n \in Nat /\ i \in Nat /\ From(i) \in Nat
  BY InARowFacts
<1>1. S \in SUBSET Nat /\ S # {}
  BY <1>0
<1>2. PICK k \in S : \A m \in S : k <= m
  BY <1>1, LeastOne
<1>3. k \in i .. n /\ ~(Span(i .. k) = To(k) - From(i))
  OBVIOUS
<1> HIDE DEF S
<1>4. k \in 1 .. n /\ k \in Nat /\ i <= k /\ k \in i .. k
  BY <1>0, <1>3
<1>5. /\ From(k) \in Nat /\ To(k) \in Nat /\ Lengths[k] = To(k) - From(k)
  BY <1>4, InARowFacts
<1>6. Span(i .. k) = Lengths[k] + Span((i .. k) \ {k})
  <2> DEFINE T == i .. k
  <2>1. IsFiniteSet(T) /\ k \in T
    BY <1>0, <1>4, FS_Interval
  <2>2. \A x \in T : Lengths[x] \in Int
    <3> SUFFICES ASSUME NEW x \in T PROVE Lengths[x] \in Int
      OBVIOUS
    <3>1. x \in 1 .. n
      BY <1>0, <1>4
    <3> QED
      BY <3>1, InARowFacts
  <2> HIDE DEF T
  <2>3. SumFunctionOnSet(Lengths, T) = Lengths[k] + SumFunctionOnSet(Lengths, T \ {k})
    BY <2>1, <2>2, SumOfMore
  <2> QED
    BY <2>3, SpanIsSum DEF T
<1>7. CASE k = i
  <2>1. (i .. k) \ {k} = {}
    BY <1>0, <1>7
  <2>2. Span({}) = 0
    BY SpanIsSum, SumOfNone
  <2>3. Span(i .. k) = Lengths[k] + 0
    BY <1>6, <2>1, <2>2
  <2>4. Lengths[k] + 0 = To(k) - From(i)
    BY <1>5, <1>7
  <2> QED
    BY <1>3, <2>3, <2>4
<1>8. CASE k # i
  <2>1. (i .. k) \ {k} = i .. k - 1 /\ k - 1 \in i .. n /\ k - 1 \in 1 .. n /\ k - 1 \in 1 .. n - 1 /\ k - 1 + 1 = k
        /\ ~(k <= k - 1)
    BY <1>0, <1>3, <1>4, <1>8
  <2>2. k - 1 \notin S
    BY <1>2, <2>1
  <2>3. Span(i .. k - 1) = To(k - 1) - From(i)
    BY <2>1, <2>2 DEF S
  <2>4. From(k) = To(k - 1)
    BY <2>1 DEF InARow
  <2>5. Span(i .. k) = (To(k) - From(k)) + (From(k) - From(i))
    BY <1>5, <1>6, <2>1, <2>3, <2>4
  <2>6. (To(k) - From(k)) + (From(k) - From(i)) = To(k) - From(i)
    BY <1>0, <1>5
  <2> QED
    BY <1>3, <2>5, <2>6
<1> QED
  BY <1>7, <1>8

\* A window over the packets.
Window(n, w) ==
  /\ w[1] \in Nat /\ w[2] \in Nat /\ w[1] < w[2]
  /\ From(1) < w[1] /\ w[2] <= To(n) /\ Selected(w) # {}

\* The packets selected, by twice their midpoints.
LEMMA SelectedIs ==
  ASSUME NEW n, InARow(n), NEW w
  PROVE  Selected(w) = {i \in 1 .. n : 2 * w[1] <= From(i) + To(i) /\ From(i) + To(i) < 2 * w[2]}
BY DEF InARow, Selected, From, To

\* A packet an edge falls inside of is on the boundary.
LEMMA BoundaryIs ==
  ASSUME NEW n, InARow(n), NEW w, NEW i \in 1 .. n,
         (From(i) < w[1] /\ w[1] < To(i)) \/ (From(i) < w[2] /\ w[2] < To(i))
  PROVE  i \in Boundary(w)
BY DEF InARow, Boundary, From, To

\* The packets selected are in a row, too.
LEMMA SelectedIsRange ==
  ASSUME NEW n, InARow(n), NEW w, Window(n, w)
  PROVE  \E i, j \in 1 .. n : /\ i <= j /\ Selected(w) = i .. j
                              /\ \A k \in Selected(w) : i <= k /\ k <= j
<1> DEFINE S == Selected(w)
<1>0. n \in Nat
  BY DEF InARow
<1>1. S \in SUBSET Nat /\ S # {} /\ \A k \in S : k <= n
  BY <1>0, SelectedIs DEF Window
<1>2. PICK i \in S : \A k \in S : i <= k
  BY <1>1, LeastOne
<1>3. PICK j \in S : \A k \in S : k <= j
  BY <1>0, <1>1, GreatestOne
<1>4. i \in 1 .. n /\ j \in 1 .. n /\ i <= j
  BY <1>2, SelectedIs
<1>5. S \subseteq i .. j
  BY <1>1, <1>2, <1>3, <1>4
<1>6. ASSUME NEW k \in i .. j PROVE k \in S
  <2>1. k \in 1 .. n
    BY <1>0, <1>4
  <2>2. /\ From(i) \in Nat /\ To(i) \in Nat /\ From(i) < To(i)
        /\ From(j) \in Nat /\ To(j) \in Nat /\ From(j) < To(j)
        /\ From(k) \in Nat /\ To(k) \in Nat /\ From(k) < To(k)
    BY <1>4, <2>1, InARowFacts
  <2>3. From(i) + To(i) <= From(k) + To(k)
    <3>1. CASE i = k
      BY <2>2, <3>1
    <3>2. CASE i < k
      <4>1. To(i) <= From(k)
        BY <1>4, <2>1, <3>2, EarlierPacket
      <4> QED
        BY <2>2, <4>1
    <3> QED
      BY <1>4, <2>1, <3>1, <3>2
  <2>4. From(k) + To(k) <= From(j) + To(j)
    <3>1. CASE k = j
      BY <2>2, <3>1
    <3>2. CASE k < j
      <4>1. To(k) <= From(j)
        BY <1>4, <2>1, <3>2, EarlierPacket
      <4> QED
        BY <2>2, <4>1
    <3> QED
      BY <1>4, <2>1, <3>1, <3>2
  <2>5. 2 * w[1] <= From(i) + To(i) /\ From(j) + To(j) < 2 * w[2] /\ w[1] \in Nat /\ w[2] \in Nat
    BY <1>2, <1>3, SelectedIs DEF Window
  <2>6. 2 * w[1] <= From(k) + To(k) /\ From(k) + To(k) < 2 * w[2]
    BY <2>2, <2>3, <2>4, <2>5
  <2> QED
    BY <2>1, <2>6, SelectedIs
<1>7. S = i .. j
  BY <1>5, <1>6
<1> QED
  BY <1>2, <1>3, <1>4, <1>7

\* Where the packets selected begin, and where they end: at the edge, or no further from it than half
\* the packet the edge falls inside of.
Near(x, y, w) ==
  x = y \/ \E k \in Boundary(w) : 2 * (x - y) <= Lengths[k] /\ 2 * (y - x) <= Lengths[k]

LEMMA BeginsNear ==
  ASSUME NEW n, InARow(n), NEW w, Window(n, w), NEW i \in 1 .. n, i \in Selected(w),
         \A k \in Selected(w) : i <= k
  PROVE  Near(From(i), w[1], w)
<1>1. /\ w[1] \in Nat /\ w[2] \in Nat /\ From(1) < w[1] /\ n \in Nat
      /\ 2 * w[1] <= From(i) + To(i) /\ From(i) + To(i) < 2 * w[2]
  BY SelectedIs DEF Window, InARow
<1>2. From(i) \in Nat /\ To(i) \in Nat /\ From(i) < To(i) /\ Lengths[i] = To(i) - From(i) /\ i \in Nat
  BY InARowFacts
<1>3. CASE From(i) = w[1]
  BY <1>3 DEF Near
<1>4. CASE From(i) < w[1]
  <2>1. w[1] < To(i)
    BY <1>1, <1>2, <1>4
  <2>2. i \in Boundary(w)
    BY <1>4, <2>1, BoundaryIs
  <2>3. 2 * (From(i) - w[1]) <= Lengths[i] /\ 2 * (w[1] - From(i)) <= Lengths[i]
    BY <1>1, <1>2, <1>4
  <2> QED
    BY <2>2, <2>3 DEF Near
<1>5. CASE w[1] < From(i)
  <2>1. i # 1
    BY <1>1, <1>2, <1>5
  <2> DEFINE k == i - 1
  <2>2. k \in 1 .. n /\ k \in 1 .. n - 1 /\ k + 1 = i /\ k < i /\ ~(i <= k)
    BY <1>1, <1>2, <2>1
  <2>3. From(k + 1) = To(k)
    BY <2>2 DEF InARow
  <2> HIDE DEF k
  <2>4. From(k) \in Nat /\ To(k) \in Nat /\ From(k) < To(k) /\ Lengths[k] = To(k) - From(k)
    BY <2>2, InARowFacts
  <2>5. To(k) = From(i)
    BY <2>2, <2>3
  <2>6. ~(2 * w[1] <= From(k) + To(k) /\ From(k) + To(k) < 2 * w[2])
    BY <2>2, SelectedIs
  <2>7. From(k) + To(k) < 2 * w[1]
    BY <1>1, <1>2, <2>4, <2>5, <2>6
  <2>8. From(k) < w[1] /\ w[1] < To(k)
    BY <1>1, <1>2, <1>5, <2>4, <2>5, <2>7
  <2>9. k \in Boundary(w)
    BY <2>2, <2>8, BoundaryIs
  <2>10. 2 * (From(i) - w[1]) <= Lengths[k] /\ 2 * (w[1] - From(i)) <= Lengths[k]
    BY <1>1, <1>2, <1>5, <2>4, <2>5, <2>7
  <2> QED
    BY <2>9, <2>10 DEF Near
<1> QED
  BY <1>1, <1>2, <1>3, <1>4, <1>5

\* The same of where they end.
LEMMA EndsNear ==
  ASSUME NEW n, InARow(n), NEW w, Window(n, w), NEW i \in 1 .. n, i \in Selected(w),
         \A k \in Selected(w) : k <= i
  PROVE  Near(To(i), w[2], w)
<1>1. /\ w[1] \in Nat /\ w[2] \in Nat /\ w[2] <= To(n) /\ n \in Nat
      /\ 2 * w[1] <= From(i) + To(i) /\ From(i) + To(i) < 2 * w[2]
  BY SelectedIs DEF Window, InARow
<1>2. From(i) \in Nat /\ To(i) \in Nat /\ From(i) < To(i) /\ Lengths[i] = To(i) - From(i) /\ i \in Nat
  BY InARowFacts
<1>3. CASE To(i) = w[2]
  BY <1>3 DEF Near
<1>4. CASE w[2] < To(i)
  <2>1. From(i) < w[2]
    BY <1>1, <1>2, <1>4
  <2>2. i \in Boundary(w)
    BY <1>4, <2>1, BoundaryIs
  <2>3. 2 * (To(i) - w[2]) <= Lengths[i] /\ 2 * (w[2] - To(i)) <= Lengths[i]
    BY <1>1, <1>2, <1>4
  <2> QED
    BY <2>2, <2>3 DEF Near
<1>5. CASE To(i) < w[2]
  <2>1. i # n
    BY <1>1, <1>2, <1>5
  <2> DEFINE k == i + 1
  <2>2. k \in 1 .. n /\ i \in 1 .. n - 1 /\ i < k /\ ~(k <= i)
    BY <1>1, <1>2, <2>1
  <2>3. From(k) = To(i)
    BY <2>2 DEF InARow
  <2> HIDE DEF k
  <2>4. From(k) \in Nat /\ To(k) \in Nat /\ From(k) < To(k) /\ Lengths[k] = To(k) - From(k)
    BY <2>2, InARowFacts
  <2>6. ~(2 * w[1] <= From(k) + To(k) /\ From(k) + To(k) < 2 * w[2])
    BY <2>2, SelectedIs
  <2>7. 2 * w[2] <= From(k) + To(k)
    BY <1>1, <1>2, <2>3, <2>4, <2>6
  <2>8. From(k) < w[2] /\ w[2] < To(k)
    BY <1>1, <1>2, <1>5, <2>3, <2>4, <2>7
  <2>9. k \in Boundary(w)
    BY <2>2, <2>8, BoundaryIs
  <2>10. 2 * (To(i) - w[2]) <= Lengths[k] /\ 2 * (w[2] - To(i)) <= Lengths[k]
    BY <1>1, <1>2, <1>5, <2>3, <2>4, <2>7
  <2> QED
    BY <2>9, <2>10 DEF Near
<1> QED
  BY <1>1, <1>2, <1>3, <1>4, <1>5

\* What they span is no further from the window than the packets on its boundary.
LEMMA SpanNearWindow ==
  ASSUME NEW n, InARow(n), NEW w, Window(n, w)
  PROVE  LET excess == Span(Selected(w)) - (w[2] - w[1])
             bound == Span(Boundary(w)) + 2
         IN  -bound <= excess /\ excess <= bound
<1> DEFINE U == Span(Boundary(w))
<1>1. IsFiniteSet(Boundary(w)) /\ \A k \in Boundary(w) : Lengths[k] \in Nat /\ k \in 1 .. n
  <2>1. Boundary(w) \subseteq 1 .. n
    BY DEF Boundary, InARow
  <2>2. IsFiniteSet(1 .. n)
    BY FS_Interval DEF InARow
  <2> QED
    BY <2>1, <2>2, FS_Subset, InARowFacts
<1>2. U \in Nat
  BY <1>1, SpanIsSum, SumIsNat
<1>3. ASSUME NEW k \in Boundary(w) PROVE Lengths[k] <= U /\ Lengths[k] \in Nat
  BY <1>1, SpanIsSum, SumAtLeast
<1> HIDE DEF U
<1>4. PICK i, j \in 1 .. n : /\ i <= j /\ Selected(w) = i .. j
                             /\ \A k \in Selected(w) : i <= k /\ k <= j
  BY SelectedIsRange
<1>5. i \in Selected(w) /\ j \in Selected(w) /\ j \in i .. n
  BY <1>4
<1>6. Near(From(i), w[1], w) /\ Near(To(j), w[2], w)
  BY <1>4, <1>5, BeginsNear, EndsNear
<1>7. From(i) \in Nat /\ To(j) \in Nat /\ w[1] \in Nat /\ w[2] \in Nat
  BY InARowFacts DEF Window
<1>8. ASSUME NEW x \in Nat, NEW y \in Nat, Near(x, y, w)
      PROVE  2 * (x - y) <= U /\ 2 * (y - x) <= U
  <2>1. CASE x = y
    BY <1>2, <2>1
  <2>2. ASSUME NEW k \in Boundary(w), 2 * (x - y) <= Lengths[k], 2 * (y - x) <= Lengths[k]
        PROVE  2 * (x - y) <= U /\ 2 * (y - x) <= U
    BY <1>2, <1>3, <2>2
  <2> QED
    BY <1>8, <2>1, <2>2 DEF Near
<1>9. /\ 2 * (From(i) - w[1]) <= U /\ 2 * (w[1] - From(i)) <= U
      /\ 2 * (To(j) - w[2]) <= U /\ 2 * (w[2] - To(j)) <= U
  BY <1>6, <1>7, <1>8
<1>10. Span(Selected(w)) = To(j) - From(i)
  BY <1>4, <1>5, SpanOfRange
<1>11. -(U + 2) <= (To(j) - From(i)) - (w[2] - w[1]) /\ (To(j) - From(i)) - (w[2] - w[1]) <= U + 2
  BY <1>2, <1>7, <1>9
<1> QED
  BY <1>10, <1>11 DEF U

\* So what is integrated is within its uncertainty.
LEMMA EvidentIntegration == Evident => IntegrationWithinUncertainty
<1> SUFFICES ASSUME Evident, NEW fallback \in BOOLEAN, NEW w \in Reduced(fallback)
             PROVE  LET excess == Span(Selected(w)) - (w[2] - w[1])
                        bound == Span(Boundary(w)) + 2
                    IN  -bound <= excess /\ excess <= bound
  BY DEF IntegrationWithinUncertainty
<1>1. "gate" \in Channels /\ IsHigh(line["gate"], w) /\ Evidence(w) /\ \E t \in Traces("gate") : TRUE
  BY SelectedFacts
<1>2. packets # <<>> /\ Contiguous(packets)
  BY <1>1, TraceFacts
<1>3. InARow(Len(packets)) /\ Last(packets)[2] = To(Len(packets))
  BY <1>2, PacketsInARow
<1>4. From(1) \in Nat
  BY <1>2, PacketFacts DEF From
<1>5. Window(Len(packets), w)
  BY <1>1, <1>3, <1>4 DEF Evidence, Window, IsHigh, From
<1> QED
  BY <1>3, <1>5, SpanNearWindow

\* What is retained and confirmed is of the lines at every state, for any captures, any lines and
\* any way the streams cut, refuse and lose them.
LEMMA EvidenceInvariant == EvidenceSpec => []EvidenceInv
BY InitHistory, StepHistory, PTL DEF EvidenceSpec

\* A trace that counter_gate_trace accepts is the signal: its edges are the line's transitions,
\* each at its own counter, none missing and none added.
THEOREM EvidenceIsAlwaysSound == EvidenceSpec => []EvidenceIsSound
<1>1. EvidenceInv => EvidenceIsSound
  BY CompletionSound
<1> QED
  BY <1>1, EvidenceInvariant, PTL

\* The window that select_gate reduces is a real high of the gate and the last that qualifies,
\* and the packets integrated are within the published uncertainty of it.
THEOREM SelectionIsAlwaysSound == EvidenceSpec => []SelectionIsSound
<1>1. EvidenceInv => SelectionIsSound
  BY EvidentSelection, EvidentIntegration DEF EvidenceInv, SelectionIsSound
<1> QED
  BY <1>1, EvidenceInvariant, PTL

\* A completion is one whole firmware transaction, a clean run has one, and none takes the place of
\* the one that was confirmed first.
THEOREM CompletionIsAlwaysSound == EvidenceSpec => []CompletionIsSound
<1>1. EvidenceInv => CompletionIsSound
  BY CompletionSound
<1> QED
  BY <1>1, EvidenceInvariant, PTL
=============================================================================
