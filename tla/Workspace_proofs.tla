-------------------------- MODULE Workspace_proofs --------------------------
(***************************************************************************)
(* Proofs about Workspace for any number of processes, resolutions and     *)
(* invocations: what an invocation builds, finds and measures is its own.  *)
(* And about Pipeline, for any sessions, boards, computers and engine      *)
(* modules: the run that is made is the one that was asked for.            *)
(***************************************************************************)
EXTENDS Workspace, Pipeline, FiniteSetTheorems, SequenceTheorems, TLAPS

\* Before the first invocation there is nothing in the directory.
LEMMA InitWorkspace == Init => WorkspaceIInv
<1> SUFFICES ASSUME Init PROVE WorkspaceIInv
  OBVIOUS
<1>1. suspect \in BOOLEAN /\ ~suspect
  BY Zenon DEF Init
<1>2. TypeOK
  BY <1>1 DEF Init, TypeOK, Stages, Policies, Locked
<1>3. RunLockIsHeld /\ StampIsOfItsLock
  BY <1>1, WorkspaceAssumption DEF Init, RunLockIsHeld, Inside, StampIsOfItsLock
<1>4. \A r \in Runs : Established(r)
  BY DEF Init, Established, Locked, Built, Verified
<1>5. QED
  BY <1>2, <1>3, <1>4 DEF WorkspaceIInv

\* The flag of a failed build stays one.
LEMMA SuspectType ==
  ASSUME suspect \in BOOLEAN, [Next]_vars
  PROVE  suspect' \in BOOLEAN
<1> USE DEF dirVars, runVars, binVars, Ended
<1>1. CASE UNCHANGED vars
  BY <1>1, Zenon DEF vars
<1>2. ASSUME NEW r \in Runs, Start(r) \/ Acquire(r) \/ Stop(r) PROVE suspect' \in BOOLEAN
  BY <1>2, Zenon DEF Start, Acquire, Stop
<1>3. ASSUME NEW r \in Runs, Measure(r) PROVE suspect' \in BOOLEAN
  BY <1>3, Zenon DEF Measure, Flash, FlashFails, Capture, RenderPower, LinkPower, FlashPower,
                     CapturePower, Report
<1>4. ASSUME NEW r \in Runs, Prepare(r) PROVE suspect' \in BOOLEAN
  BY <1>4, Zenon DEF Prepare, Clean, Generate, ResolveLock, SkipSync, VerifyFrozen, RejectFrozen,
                     Repair, SyncCut, WriteStamp, Configure, BuildFails, Build
<1>5. QED
  BY <1>1, <1>2, <1>3, <1>4 DEF Next, Run

\* A resolution that nsx lock makes is one the directory knows afterwards.
LEMMA ResolvedTypes ==
  ASSUME TypeOK, StampIsOfItsLock, NEW r \in Runs, ResolveLock(r)
  PROVE  /\ newest' \in Nat /\ newest' >= newest
         /\ nsxLock' \in 1 .. newest'
         /\ "returning" \notin mishaps => nsxLock' = newest'
<1> USE DEF TypeOK
<1>1. CASE policy[r] = "update" \/ nsxLock = None
  <2>1. PICK d \in Resolutions : nsxLock' = d /\ newest' = (IF d > newest THEN d ELSE newest)
    BY <1>1 DEF ResolveLock
  <2>2. d \in Nat /\ d >= 1 /\ ("returning" \notin mishaps => d \in {newest, newest + 1})
    BY WorkspaceAssumption DEF Resolutions
  <2>3. QED
    BY <2>1, <2>2
<1>2. CASE ~(policy[r] = "update" \/ nsxLock = None)
  <2>1. nsxLock' = nsxLock /\ newest' = newest
    BY <1>2 DEF ResolveLock
  <2>2. QED
    BY <1>2, <2>1 DEF StampIsOfItsLock, Sound
<1>3. QED
  BY <1>1, <1>2

\* Every step keeps the shape of the state, and past the lock stage there is a lock.
LEMMA TypesStep ==
  ASSUME WorkspaceIInv, [Next]_vars
  PROVE  TypeOK'
<1>s. suspect' \in BOOLEAN
  BY SuspectType DEF WorkspaceIInv, TypeOK
<1>z. \A r \in Runs : ResolveLock(r) => newest' \in Nat /\ newest' >= newest /\ nsxLock' \in 1 .. newest'
  BY ResolvedTypes DEF WorkspaceIInv
<1> USE <1>s, WorkspaceAssumption DEF WorkspaceIInv, TypeOK, Stages, Locked, Goto, dirVars, runVars, words, binVars
<1>a. ASSUME NEW r \in Runs, Start(r) PROVE TypeOK'
  BY <1>a DEF Start
<1>b. ASSUME NEW r \in Runs, Acquire(r) PROVE TypeOK'
  BY <1>b DEF Acquire
<1>c. ASSUME NEW r \in Runs, Clean(r) PROVE TypeOK'
  <2>1. /\ nsxLock' \in {nsxLock, None} /\ modules' \in {modules, None, Torn}
        /\ stamp' \in {stamp, None}
        /\ configured' \in {configured, None} /\ profileBin' \in {profileBin, None}
        /\ powerBin' \in {powerBin, None}
    BY <1>c DEF Clean, Left, TreesLeft
  <2>2. pc' \in [Runs -> Stages] /\ \A s \in Runs : pc'[s] \notin Locked
    <3>1. \A s \in Runs \ {r} : pc[s] \in {"idle", "waiting"}
      BY <1>c DEF Clean, RunLockIsHeld, Inside
    <3>2. pc' = [pc EXCEPT ![r] = "generate"]
      BY <1>c DEF Clean
    <3>3. QED
      BY <3>1, <3>2
  <2>3. UNCHANGED <<mishaps, runVars, newest, mode, words, source, board>>
    BY <1>c DEF Clean
  <2>4. QED
    BY <2>1, <2>2, <2>3
<1>d. ASSUME NEW r \in Runs, Generate(r) PROVE TypeOK'
  BY <1>d DEF Generate
<1>e. ASSUME NEW r \in Runs, ResolveLock(r) PROVE TypeOK'
  <2>1. newest' \in Nat /\ newest' >= newest /\ nsxLock' \in 1 .. newest'
    BY <1>e, <1>z
  <2>2. mode' \in [Runs -> {"updated", "reused", "resolved", None}]
    BY <1>e DEF ResolveLock
  <2>3. 1 .. newest \subseteq 1 .. newest'
    BY <2>1
  <2>4. provenance' \in [Runs -> 1 .. newest' \cup {None}]
    BY <1>e, <2>3 DEF ResolveLock
  <2>5. stamp' \in 1 .. newest' \cup {None} /\ configured' \in 1 .. newest' \cup {None}
        /\ modules' \in 1 .. newest' \cup {None, Torn}
    BY <1>e, <2>3 DEF ResolveLock
  <2>6. nsxLock' # None
    BY <2>1
  <2>7. QED
    BY <1>e, <2>1, <2>2, <2>4, <2>5, <2>6 DEF ResolveLock
<1>f. ASSUME NEW r \in Runs, SkipSync(r) PROVE TypeOK'
  BY <1>f DEF SkipSync, Record
<1>g. ASSUME NEW r \in Runs, VerifyFrozen(r) PROVE TypeOK'
  BY <1>g DEF VerifyFrozen
<1>h. ASSUME NEW r \in Runs, RejectFrozen(r) PROVE TypeOK'
  BY <1>h DEF RejectFrozen
<1>i. ASSUME NEW r \in Runs, Repair(r) PROVE TypeOK'
  BY <1>i DEF Repair
<1>j. ASSUME NEW r \in Runs, SyncCut(r) PROVE TypeOK'
  BY <1>j DEF SyncCut, Ended, Policies
<1>k. ASSUME NEW r \in Runs, WriteStamp(r) PROVE TypeOK'
  BY <1>k DEF WriteStamp, Record
<1>l. ASSUME NEW r \in Runs, Configure(r) PROVE TypeOK'
  BY <1>l DEF Configure
<1>m. ASSUME NEW r \in Runs, BuildFails(r) PROVE TypeOK'
  BY <1>m DEF BuildFails, Ended, Policies
<1>n. ASSUME NEW r \in Runs, Build(r) PROVE TypeOK'
  <2>1. source \in Nat
    BY <1>n DEF Build, Established
  <2>2. profileBin' \in Image
    BY <1>n, <2>1 DEF Build, Image
  <2>3. QED
    BY <1>n, <2>2 DEF Build
<1>o. ASSUME NEW r \in Runs, Flash(r) PROVE TypeOK'
  BY <1>o DEF Flash
<1>p. ASSUME NEW r \in Runs, FlashFails(r) PROVE TypeOK'
  BY <1>p DEF FlashFails, Ended, Policies
<1>q. ASSUME NEW r \in Runs, Capture(r) PROVE TypeOK'
  BY <1>q DEF Capture
<1>r. ASSUME NEW r \in Runs, RenderPower(r) PROVE TypeOK'
  BY <1>r DEF RenderPower
<1>t. ASSUME NEW r \in Runs, LinkPower(r) PROVE TypeOK'
  <2>1. [role |-> "power", src |-> serial[r], mods |-> modules] \in Image
    BY DEF Image
  <2>2. QED
    BY <1>t, <2>1 DEF LinkPower
<1>u. ASSUME NEW r \in Runs, FlashPower(r) PROVE TypeOK'
  BY <1>u DEF FlashPower
<1>v. ASSUME NEW r \in Runs, CapturePower(r) PROVE TypeOK'
  BY <1>v DEF CapturePower
<1>w. ASSUME NEW r \in Runs, Report(r) \/ Stop(r) PROVE TypeOK'
  BY <1>w DEF Report, Stop, Ended, Policies
<1>x. CASE UNCHANGED vars
  BY <1>x DEF vars
<1>y. QED
  BY <1>a, <1>b, <1>c, <1>d, <1>e, <1>f, <1>g, <1>h, <1>i, <1>j, <1>k, <1>l, <1>m, <1>n, <1>o, <1>p,
     <1>q, <1>r, <1>t, <1>u, <1>v, <1>w, <1>x DEF Next, Run, Prepare, Measure

\* The run lock stays held by whoever is inside.
LEMMA LockStep ==
  ASSUME WorkspaceIInv, [Next]_vars
  PROVE  RunLockIsHeld'
<1> USE DEF WorkspaceIInv, TypeOK, RunLockIsHeld, Inside, Goto, runVars
<1>a. ASSUME NEW r \in Runs, Start(r) PROVE RunLockIsHeld'
  BY <1>a, WorkspaceAssumption DEF Start
<1>b. ASSUME NEW r \in Runs, Acquire(r) PROVE RunLockIsHeld'
  BY <1>b DEF Acquire
<1>c. ASSUME NEW r \in Runs, Prepare(r) PROVE RunLockIsHeld'
  <2>1. CASE Ended(r)
    BY <2>1 DEF Ended
  <2>2. CASE /\ UNCHANGED <<fd, lockFile>> /\ pc[r] \notin {"idle", "waiting"}
             /\ \E to \in Stages : pc' = [pc EXCEPT ![r] = to]
    BY <2>2
  <2>3. QED
    BY <1>c, <2>1, <2>2 DEF Prepare, Clean, Generate, ResolveLock, SkipSync, VerifyFrozen,
         RejectFrozen, Repair, SyncCut, WriteStamp, Configure, BuildFails, Build, Stages
<1>d. ASSUME NEW r \in Runs, Measure(r) PROVE RunLockIsHeld'
  <2>1. CASE Ended(r)
    BY <2>1 DEF Ended
  <2>2. CASE /\ UNCHANGED <<fd, lockFile>> /\ pc[r] \notin {"idle", "waiting"}
             /\ \E to \in Stages : pc' = [pc EXCEPT ![r] = to]
    BY <2>2
  <2>3. QED
    BY <1>d, <2>1, <2>2 DEF Measure, Flash, FlashFails, Capture, RenderPower, LinkPower,
         FlashPower, CapturePower, Report, Stages
<1>e. ASSUME NEW r \in Runs, Stop(r) PROVE RunLockIsHeld'
  BY <1>e DEF Stop, Ended
<1>f. CASE UNCHANGED vars
  BY <1>f DEF vars
<1>g. QED
  BY <1>a, <1>b, <1>c, <1>d, <1>e, <1>f DEF Next, Run
-----------------------------------------------------------------------------
\* Of an invocation that is not inside, nothing is claimed.
LEMMA Outside ==
  ASSUME NEW s, pc'[s] \in {"idle", "waiting"}
  PROVE  Established(s)'
BY DEF Established, Locked, Verified, Built

\* While r is inside, nobody else is.
LEMMA OthersOutside ==
  ASSUME WorkspaceIInv, NEW r \in Runs, Inside(r), NEW to, pc' = [pc EXCEPT ![r] = to]
  PROVE  \A s \in Runs \ {r} : Established(s)'
<1> SUFFICES ASSUME NEW s \in Runs \ {r} PROVE Established(s)'
  OBVIOUS
<1>1. pc'[s] \in {"idle", "waiting"}
  BY DEF WorkspaceIInv, TypeOK, RunLockIsHeld, Inside
<1>2. QED
  BY <1>1, Outside

\* Somebody who waits, gives up waiting or comes changes nothing for the one inside.
LEMMA Undisturbed ==
  ASSUME NEW s, Established(s), UNCHANGED <<mishaps, dirVars, binVars>>,
         pc'[s] = pc[s], serial'[s] = serial[s], provenance'[s] = provenance[s],
         s \in vouched => s \in vouched'
  PROVE  Established(s)'
BY DEF Established, dirVars, binVars, Sound, OnTornTrees

\* Who leaves the directory as it is keeps the stamp true of it.
LEMMA StampKept ==
  ASSUME StampIsOfItsLock, UNCHANGED <<mishaps, dirVars>>
  PROVE  StampIsOfItsLock'
BY DEF StampIsOfItsLock, dirVars, Sound

\* A step of the invocation inside keeps the stamp true and what it has established.
LEMMA InsideStep ==
  ASSUME WorkspaceIInv, NEW r \in Runs, Prepare(r) \/ Measure(r)
  PROVE  StampIsOfItsLock' /\ Established(r)'
<1>i. /\ TypeOK /\ RunLockIsHeld /\ StampIsOfItsLock
      /\ pc \in [Runs -> Stages] /\ serial \in [Runs -> Nat] /\ provenance \in [Runs -> 1 .. newest \cup {None}]
      /\ newest \in Nat /\ nsxLock \in 1 .. newest \cup {None} /\ stamp \in 1 .. newest \cup {None}
      /\ modules \in 1 .. newest \cup {None, Torn}
      /\ pc[r] \in Locked => nsxLock # None
  BY DEF WorkspaceIInv, TypeOK
<1>e. Established(r)
  BY DEF WorkspaceIInv
<1>n. None \notin Nat /\ Torn \notin Nat /\ None # Torn
  BY WorkspaceAssumption
<1>1. CASE Clean(r)
  <2>1. /\ nsxLock' \in {nsxLock, None} /\ modules' \in {modules, None, Torn} /\ stamp' \in {stamp, None}
        /\ UNCHANGED <<mishaps, newest, suspect>> /\ pc'[r] = "generate"
    BY <1>i, <1>1 DEF Clean, Goto, Left, TreesLeft
  <2>2. StampIsOfItsLock'
    BY <1>i, <1>n, <2>1 DEF StampIsOfItsLock, Sound
  <2>3. Established(r)'
    BY <2>1 DEF Established, Locked, Verified, Built
  <2>4. QED
    BY <2>2, <2>3
<1>2. CASE Generate(r)
  BY <1>i, <1>e, <1>2, StampKept DEF Generate, Goto, runVars, dirVars, words, binVars, StampIsOfItsLock, Sound,
     OnTornTrees, Established, Locked, Verified, Built
<1>3. CASE ResolveLock(r)
  <2>1. /\ newest' \in Nat /\ newest' >= newest /\ nsxLock' \in 1 .. newest'
        /\ "returning" \notin mishaps => nsxLock' = newest'
    BY <1>i, <1>3, ResolvedTypes
  <2>2. UNCHANGED <<mishaps, modules, stamp, suspect, source, serial>> /\ pc'[r] = "sync" /\ pc[r] = "lock"
    BY <1>i, <1>3 DEF ResolveLock, Goto, runVars, binVars
  <2>3. StampIsOfItsLock'
    BY <1>i, <2>1, <2>2 DEF StampIsOfItsLock, Sound
  <2>4. Established(r)'
    BY <1>e, <2>2 DEF Established, Locked, Verified, Built
  <2>5. QED
    BY <2>3, <2>4
<1>4. CASE SkipSync(r)
  <2>1. /\ UNCHANGED <<mishaps, dirVars, binVars, serial>> /\ pc[r] = "sync" /\ pc'[r] = "configure"
        /\ provenance'[r] = nsxLock /\ stamp = nsxLock /\ modules # None /\ nsxLock # None
        /\ r \in vouched'
    BY <1>i, <1>4 DEF SkipSync, Goto, Record, StampMatches, runVars, Locked
  <2>2. ~suspect
    BY <1>i, <2>1 DEF StampIsOfItsLock
  <2>3. Sound => modules \in {nsxLock, Torn}
    BY <1>i, <1>n, <2>1 DEF StampIsOfItsLock, Sound
  <2>4. Established(r)'
    BY <1>e, <2>1, <2>2, <2>3 DEF Established, Locked, Verified, Built, Sound, OnTornTrees, dirVars, binVars
  <2>5. QED
    BY <1>i, <2>1, <2>4, StampKept
<1>5. CASE VerifyFrozen(r)
  <2>1. /\ UNCHANGED <<mishaps, nsxLock, newest, stamp, source, serial>>
        /\ pc[r] = "sync" /\ pc'[r] = "stamp" /\ nsxLock # None /\ modules' = nsxLock
    BY <1>i, <1>5 DEF VerifyFrozen, Goto, runVars, binVars, Locked
  <2>2. ~suspect'
    BY <1>5 DEF VerifyFrozen
  <2>3. StampIsOfItsLock'
    BY <1>i, <1>n, <2>1, <2>2 DEF StampIsOfItsLock, Sound
  <2>4. Established(r)'
    BY <1>e, <2>1, <2>2 DEF Established, Locked, Verified, Built
  <2>5. QED
    BY <2>3, <2>4
<1>6. CASE RejectFrozen(r)
  BY <1>i, <1>e, <1>6, StampKept DEF RejectFrozen, Goto, runVars, dirVars, words, binVars, StampIsOfItsLock, Sound,
     OnTornTrees, Established, Locked, Verified, Built
<1>7. CASE Repair(r)
  <2>1. /\ UNCHANGED <<mishaps, nsxLock, newest, stamp, source, serial>>
        /\ pc[r] = "repair" /\ pc'[r] = "stamp" /\ nsxLock # None /\ modules' = nsxLock
    BY <1>i, <1>7 DEF Repair, Goto, runVars, binVars, Locked
  <2>2. ~suspect'
    BY <1>7 DEF Repair
  <2>3. StampIsOfItsLock'
    BY <1>i, <1>n, <2>1, <2>2 DEF StampIsOfItsLock, Sound
  <2>4. Established(r)'
    BY <1>e, <2>1, <2>2 DEF Established, Locked, Verified, Built
  <2>5. QED
    BY <2>3, <2>4
<1>8. CASE SyncCut(r)
  <2>1. /\ UNCHANGED <<mishaps, nsxLock, newest, stamp, suspect>> /\ pc'[r] = "idle" /\ nsxLock # None
        /\ modules' \in {nsxLock, Torn, None}
    BY <1>i, <1>8 DEF SyncCut, Ended, Locked
  <2>2. StampIsOfItsLock'
    BY <1>i, <1>n, <2>1 DEF StampIsOfItsLock, Sound
  <2>3. QED
    BY <2>1, <2>2, Outside
<1>9. CASE WriteStamp(r)
  <2>1. /\ UNCHANGED <<mishaps, nsxLock, newest, modules, suspect, source, serial>>
        /\ pc[r] = "stamp" /\ pc'[r] = "configure" /\ stamp' = nsxLock /\ provenance'[r] = nsxLock
    BY <1>i, <1>9 DEF WriteStamp, Goto, Record, runVars, binVars
  <2>2. ~suspect /\ (Sound => modules = nsxLock) /\ source = serial[r]
    BY <1>e, <2>1 DEF Established, Locked, Verified
  <2>3. StampIsOfItsLock'
    BY <1>i, <1>n, <2>1, <2>2 DEF StampIsOfItsLock, Sound
  <2>4. Established(r)'
    BY <1>e, <2>1, <2>2 DEF Established, Locked, Verified, Built, Sound
  <2>5. QED
    BY <2>3, <2>4
<1>10. CASE Configure(r)
  BY <1>i, <1>e, <1>10, StampKept DEF Configure, Goto, runVars, dirVars, words, binVars, StampIsOfItsLock, Sound,
     OnTornTrees, Established, Locked, Verified, Built
<1>11. CASE BuildFails(r)
  <2>1. /\ UNCHANGED <<mishaps, nsxLock, newest, modules>> /\ pc'[r] = "idle" /\ stamp' = None
    BY <1>i, <1>11 DEF BuildFails, Ended
  <2>2. StampIsOfItsLock'
    BY <1>i, <2>1 DEF StampIsOfItsLock, Sound
  <2>3. QED
    BY <2>1, <2>2, Outside
<1>12. CASE Build(r)
  BY <1>i, <1>e, <1>12, StampKept DEF Build, Goto, runVars, dirVars, words, binVars, StampIsOfItsLock, Sound,
     OnTornTrees, Established, Locked, Verified, Built
<1>13. CASE Flash(r)
  BY <1>i, <1>e, <1>13, StampKept DEF Flash, Goto, runVars, dirVars, words, binVars, StampIsOfItsLock, Sound,
     OnTornTrees, Established, Locked, Verified, Built
<1>14. CASE FlashFails(r)
  BY <1>i, <1>e, <1>14, StampKept DEF FlashFails, Goto, Ended, runVars, dirVars, words, binVars, StampIsOfItsLock, Sound,
     OnTornTrees, Established, Locked, Verified, Built
<1>15. CASE Capture(r)
  BY <1>i, <1>e, <1>15, StampKept DEF Capture, Goto, runVars, dirVars, words, binVars, StampIsOfItsLock, Sound,
     OnTornTrees, Established, Locked, Verified, Built
<1>16. CASE RenderPower(r)
  BY <1>i, <1>e, <1>16, StampKept DEF RenderPower, Goto, runVars, dirVars, words, binVars, StampIsOfItsLock, Sound,
     OnTornTrees, Established, Locked, Verified, Built
<1>17. CASE LinkPower(r)
  BY <1>i, <1>e, <1>17, StampKept DEF LinkPower, Goto, runVars, dirVars, words, binVars, StampIsOfItsLock, Sound,
     OnTornTrees, Established, Locked, Verified, Built
<1>18. CASE FlashPower(r)
  BY <1>i, <1>e, <1>18, StampKept DEF FlashPower, Goto, runVars, dirVars, words, binVars, StampIsOfItsLock, Sound,
     OnTornTrees, Established, Locked, Verified, Built
<1>19. CASE CapturePower(r)
  BY <1>i, <1>e, <1>19, StampKept DEF CapturePower, Goto, runVars, dirVars, words, binVars, StampIsOfItsLock, Sound,
     OnTornTrees, Established, Locked, Verified, Built
<1>20. CASE Report(r)
  BY <1>i, <1>e, <1>20, StampKept DEF Report, Goto, Ended, runVars, dirVars, words, binVars, StampIsOfItsLock, Sound,
     OnTornTrees, Established, Locked, Verified, Built
<1>21. QED
  BY <1>1, <1>2, <1>3, <1>4, <1>5, <1>6, <1>7, <1>8, <1>9, <1>10, <1>11, <1>12, <1>13, <1>14, <1>15, <1>16, <1>17, <1>18, <1>19, <1>20 DEF Prepare, Measure

\* Only the invocation inside touches what Established speaks of.
LEMMA EstablishedStep ==
  ASSUME WorkspaceIInv, [Next]_vars
  PROVE  StampIsOfItsLock' /\ \A r \in Runs : Established(r)'
<1>i. StampIsOfItsLock /\ pc \in [Runs -> Stages] /\ \A r \in Runs : Established(r)
  BY DEF WorkspaceIInv, TypeOK
<1>t. serial \in [Runs -> Nat] /\ provenance \in [Runs -> 1 .. newest \cup {None}]
  BY DEF WorkspaceIInv, TypeOK
<1>1. ASSUME NEW r \in Runs, Start(r) PROVE StampIsOfItsLock' /\ \A s \in Runs : Established(s)'
  <2>1. /\ UNCHANGED <<mishaps, dirVars, binVars, provenance, vouched>> /\ pc'[r] = "waiting"
        /\ \A s \in Runs \ {r} : pc'[s] = pc[s] /\ serial'[s] = serial[s]
    BY <1>1, <1>i, <1>t DEF Start, Goto, words
  <2>2. ASSUME NEW s \in Runs PROVE Established(s)'
    <3>1. CASE s = r
      BY <2>1, <3>1, Outside
    <3>2. CASE s # r
      BY <1>i, <2>1, <3>2, Undisturbed
    <3>3. QED
      BY <3>1, <3>2
  <2>3. QED
    BY <1>i, <2>1, <2>2, StampKept
<1>2. ASSUME NEW r \in Runs, Acquire(r) PROVE StampIsOfItsLock' /\ \A s \in Runs : Established(s)'
  <2>1. UNCHANGED <<mishaps, dirVars, binVars>>
    BY <1>2 DEF Acquire
  <2>2. \A s \in Runs \ {r} : pc'[s] \in {"idle", "waiting"}
    BY <1>2, <1>i DEF Acquire, Goto, WorkspaceIInv, RunLockIsHeld, Inside
  <2>3. pc'[r] \in {"clean", "generate"}
    BY <1>2, <1>i DEF Acquire, Goto
  <2>4. Established(r)'
    BY <2>3 DEF Established, Locked, Verified, Built
  <2>5. QED
    BY <1>i, <2>1, <2>2, <2>4, StampKept, Outside
<1>3. ASSUME NEW r \in Runs, Prepare(r) \/ Measure(r)
      PROVE  StampIsOfItsLock' /\ \A s \in Runs : Established(s)'
  <2>1. StampIsOfItsLock' /\ Established(r)'
    BY <1>3, InsideStep
  <2>2. Inside(r)
    BY <1>3 DEF Inside, Goto, Prepare, Measure, Clean, Generate, ResolveLock, SkipSync, VerifyFrozen,
       RejectFrozen, Repair, SyncCut, WriteStamp, Configure, BuildFails, Build, Flash, FlashFails,
       Capture, RenderPower, LinkPower, FlashPower, CapturePower, Report
  <2>3. \E to : pc' = [pc EXCEPT ![r] = to]
    BY <1>3 DEF Ended, Goto, Prepare, Measure, Clean, Generate, ResolveLock, SkipSync, VerifyFrozen,
       RejectFrozen, Repair, SyncCut, WriteStamp, Configure, BuildFails, Build, Flash, FlashFails,
       Capture, RenderPower, LinkPower, FlashPower, CapturePower, Report
  <2>4. \A s \in Runs \ {r} : Established(s)'
    BY <2>2, <2>3, OthersOutside
  <2>5. QED
    BY <2>1, <2>4
<1>4. ASSUME NEW r \in Runs, Stop(r) PROVE StampIsOfItsLock' /\ \A s \in Runs : Established(s)'
  <2>1. /\ UNCHANGED <<mishaps, dirVars, binVars>> /\ pc'[r] = "idle"
        /\ \A s \in Runs \ {r} :
             /\ pc'[s] = pc[s] /\ serial'[s] = serial[s] /\ provenance'[s] = provenance[s]
             /\ s \in vouched => s \in vouched'
    BY <1>4, <1>i, <1>t DEF Stop, Ended
  <2>2. ASSUME NEW s \in Runs PROVE Established(s)'
    <3>1. CASE s = r
      BY <2>1, <3>1, Outside
    <3>2. CASE s # r
      BY <1>i, <2>1, <3>2, Undisturbed
    <3>3. QED
      BY <3>1, <3>2
  <2>3. QED
    BY <1>i, <2>1, <2>2, StampKept
<1>5. CASE UNCHANGED vars
  <2>1. UNCHANGED <<mishaps, dirVars, binVars, pc, serial, provenance, vouched>>
    BY <1>5 DEF vars, runVars, words
  <2>2. ASSUME NEW s \in Runs PROVE Established(s)'
    BY <1>i, <2>1, Undisturbed
  <2>3. QED
    BY <1>i, <2>1, <2>2, StampKept
<1>6. QED
  BY <1>1, <1>2, <1>3, <1>4, <1>5 DEF Next, Run
-----------------------------------------------------------------------------
\* The inductive invariant: one invocation inside, a stamp that is of its lock, and what the
\* invocation inside has established so far.
THEOREM WorkspaceInvariance == Spec => []WorkspaceIInv
<1>1. WorkspaceIInv /\ [Next]_vars => WorkspaceIInv'
  BY TypesStep, LockStep, EstablishedStep DEF WorkspaceIInv
<1>2. QED
  BY <1>1, InitWorkspace, PTL DEF Spec

\* The run lock: from its build to its report the executable in the directory is the
\* invocation's own, whatever the others do and whatever mishaps befall the trees.
THEOREM ArtifactsHold == Spec => []ArtifactsAreOwn
<1>1. WorkspaceIInv => ArtifactsAreOwn
  BY DEF WorkspaceIInv, Established, ArtifactsAreOwn, Built
<1>2. QED
  BY <1>1, WorkspaceInvariance, PTL

\* A build that failed is verified again before the next one, whatever mishaps befall the trees.
THEOREM FailedBuildHolds == Spec => []FailedBuildReverified
<1>1. WorkspaceIInv => FailedBuildReverified
  BY DEF WorkspaceIInv, Established, FailedBuildReverified
<1>2. QED
  BY <1>1, WorkspaceInvariance, PTL

\* As long as no resolution comes back, wherever a clean or a materialization stops: what an
\* invocation measures is the image it built, of the modules its provenance names, or of torn
\* trees of which it took the stamp's word.
THEOREM OwnArtifactsHold ==
  ASSUME \A m \in Mishaps : "returning" \notin m
  PROVE  Spec => []OwnArtifacts
<1>1. WorkspaceIInv => OwnArtifacts
  <2> SUFFICES ASSUME WorkspaceIInv PROVE OwnArtifacts
    OBVIOUS
  <2>1. Sound
    BY DEF WorkspaceIInv, TypeOK, Sound
  <2>2. ArtifactsAreOwn
    BY DEF WorkspaceIInv, Established, ArtifactsAreOwn, Built
  <2>3. MeasuresOwnImage
    <3> SUFFICES ASSUME NEW r \in Runs
                 PROVE  /\ pc[r] = "capture" => board \in OwnImages("profile", r)
                        /\ pc[r] = "capturePower" => board \in OwnImages("power", r)
      BY DEF MeasuresOwnImage
    <3>1. pc[r] \in {"capture", "capturePower"} =>
            modules \in {provenance[r]} \cup (IF r \in vouched THEN {Torn} ELSE {})
      BY <2>1 DEF WorkspaceIInv, Established, Verified, Built, OnTornTrees
    <3>2. pc[r] = "capture" => board = [role |-> "profile", src |-> serial[r], mods |-> modules]
      BY DEF WorkspaceIInv, Established, Built
    <3>3. pc[r] = "capturePower" => board = [role |-> "power", src |-> serial[r], mods |-> modules]
      BY DEF WorkspaceIInv, Established, Built
    <3> QED
      BY <3>1, <3>2, <3>3 DEF OwnImages
  <2>4. QED
    BY <2>2, <2>3 DEF WorkspaceIInv, OwnArtifacts
<1>2. QED
  BY <1>1, WorkspaceInvariance, PTL

\* Under the same condition, what compiles is what nsx.lock names, by verification or on the
\* word of a stamp, save where that word was taken for torn trees; and it was verified again
\* after a failed build.
THEOREM BuildsHold ==
  ASSUME \A m \in Mishaps : "returning" \notin m
  PROVE  Spec => []BuildsVerifiedModules
<1>1. WorkspaceIInv => BuildsVerifiedModules
  <2> SUFFICES ASSUME WorkspaceIInv PROVE BuildsVerifiedModules
    OBVIOUS
  <2>1. Sound
    BY DEF WorkspaceIInv, TypeOK, Sound
  <2>2. BuildsLockedModules
    BY <2>1 DEF WorkspaceIInv, Established, BuildsLockedModules, Verified, Built
  <2>3. FailedBuildReverified
    BY DEF WorkspaceIInv, Established, FailedBuildReverified
  <2>4. QED
    BY <2>2, <2>3 DEF BuildsVerifiedModules
<1>2. QED
  BY <1>1, WorkspaceInvariance, PTL

-----------------------------------------------------------------------------
(* The session: what a key is worth in a merged intent. *)

\* A merged intent says something of key k of section s, a plain value in its place included.
Speaks(m, s, k) == s \in DOMAIN m /\ (m[s].table => k \in DOMAIN m[s].of)

LEMMA MergedDomain == ASSUME NEW low, NEW high PROVE DOMAIN Merge(low, high) = DOMAIN low \cup DOMAIN high
BY DEF Merge

LEMMA MergedSection ==
  ASSUME NEW low, NEW high, NEW s \in DOMAIN low \cup DOMAIN high
  PROVE  /\ s \notin DOMAIN high => Merge(low, high)[s] = low[s]
         /\ s \in DOMAIN high /\ s \notin DOMAIN low => Merge(low, high)[s] = high[s]
         /\ s \in DOMAIN high /\ s \in DOMAIN low => Merge(low, high)[s] = Stacked(low[s], high[s])
BY DEF Merge

LEMMA StackedSection ==
  ASSUME NEW low, NEW high
  PROVE  /\ low.table /\ high.table =>
              /\ Stacked(low, high).table /\ Stacked(low, high).of = Overlay(low.of, high.of)
         /\ ~(low.table /\ high.table) => Stacked(low, high) = high
BY DEF Stacked, Table

LEMMA OverlaidKey ==
  ASSUME NEW low, NEW high
  PROVE  /\ DOMAIN Overlay(low, high) = DOMAIN low \cup DOMAIN high
         /\ \A k \in DOMAIN high : Overlay(low, high)[k] = high[k]
         /\ \A k \in DOMAIN low \ DOMAIN high : Overlay(low, high)[k] = low[k]
BY DEF Overlay

\* The later layer wins; what it does not speak of stays; nothing comes from nowhere.
LEMMA LaterWins ==
  ASSUME NEW low, NEW high, NEW s, NEW k, HasKey(high, s, k)
  PROVE  HasKey(Merge(low, high), s, k) /\ Merge(low, high)[s].of[k] = high[s].of[k]
<1>1. s \in DOMAIN high /\ high[s].table /\ k \in DOMAIN high[s].of BY DEF HasKey
<1>2. s \in DOMAIN Merge(low, high) BY <1>1, MergedDomain
<1>3. CASE s \notin DOMAIN low BY <1>1, <1>2, <1>3, MergedSection DEF HasKey
<1>4. CASE s \in DOMAIN low /\ low[s].table
  <2>1. Merge(low, high)[s] = Stacked(low[s], high[s]) BY <1>1, <1>4, MergedSection
  <2>2. Merge(low, high)[s].table /\ Merge(low, high)[s].of = Overlay(low[s].of, high[s].of)
    BY <1>1, <1>4, <2>1, StackedSection
  <2>3. /\ DOMAIN Overlay(low[s].of, high[s].of) = DOMAIN low[s].of \cup DOMAIN high[s].of
        /\ \A x \in DOMAIN high[s].of : Overlay(low[s].of, high[s].of)[x] = high[s].of[x]
        /\ \A x \in DOMAIN low[s].of \ DOMAIN high[s].of : Overlay(low[s].of, high[s].of)[x] = low[s].of[x]
    BY OverlaidKey
  <2> QED BY <1>1, <1>2, <2>2, <2>3 DEF HasKey
<1>5. CASE s \in DOMAIN low /\ ~low[s].table
  <2>1. Merge(low, high)[s] = Stacked(low[s], high[s]) BY <1>1, <1>5, MergedSection
  <2>2. Merge(low, high)[s] = high[s] BY <1>1, <1>5, <2>1, StackedSection
  <2> QED BY <1>1, <1>2, <2>2 DEF HasKey
<1> QED BY <1>3, <1>4, <1>5

LEMMA EarlierStays ==
  ASSUME NEW low, NEW high, NEW s, NEW k, HasKey(low, s, k), ~Speaks(high, s, k)
  PROVE  HasKey(Merge(low, high), s, k) /\ Merge(low, high)[s].of[k] = low[s].of[k]
<1>1. s \in DOMAIN low /\ low[s].table /\ k \in DOMAIN low[s].of BY DEF HasKey
<1>2. s \in DOMAIN Merge(low, high) BY <1>1, MergedDomain
<1>3. CASE s \notin DOMAIN high BY <1>1, <1>2, <1>3, MergedSection DEF HasKey
<1>4. CASE s \in DOMAIN high
  <2>1. high[s].table /\ k \notin DOMAIN high[s].of BY <1>4 DEF Speaks
  <2>2. Merge(low, high)[s] = Stacked(low[s], high[s]) BY <1>1, <1>4, MergedSection
  <2>3. Merge(low, high)[s].table /\ Merge(low, high)[s].of = Overlay(low[s].of, high[s].of)
    BY <1>1, <2>1, <2>2, StackedSection
  <2>4. /\ DOMAIN Overlay(low[s].of, high[s].of) = DOMAIN low[s].of \cup DOMAIN high[s].of
        /\ \A x \in DOMAIN high[s].of : Overlay(low[s].of, high[s].of)[x] = high[s].of[x]
        /\ \A x \in DOMAIN low[s].of \ DOMAIN high[s].of : Overlay(low[s].of, high[s].of)[x] = low[s].of[x]
    BY OverlaidKey
  <2> QED BY <1>1, <1>2, <2>1, <2>3, <2>4 DEF HasKey
<1> QED BY <1>3, <1>4

LEMMA NothingFromNowhere ==
  ASSUME NEW low, NEW high, NEW s, NEW k, HasKey(Merge(low, high), s, k)
  PROVE  \/ HasKey(high, s, k) /\ Merge(low, high)[s].of[k] = high[s].of[k]
         \/ HasKey(low, s, k) /\ Merge(low, high)[s].of[k] = low[s].of[k]
<1>1. s \in DOMAIN low \cup DOMAIN high BY MergedDomain DEF HasKey
<1>2. CASE s \notin DOMAIN high BY <1>1, <1>2, MergedSection DEF HasKey
<1>3. CASE s \in DOMAIN high /\ s \notin DOMAIN low BY <1>1, <1>3, MergedSection DEF HasKey
<1>4. CASE s \in DOMAIN high /\ s \in DOMAIN low
  <2>1. Merge(low, high)[s] = Stacked(low[s], high[s]) BY <1>4, MergedSection
  <2>2. CASE low[s].table /\ high[s].table
    <3>1. Merge(low, high)[s].of = Overlay(low[s].of, high[s].of) BY <2>1, <2>2, StackedSection
    <3>2. k \in DOMAIN Merge(low, high)[s].of BY DEF HasKey
    <3>4. /\ DOMAIN Overlay(low[s].of, high[s].of) = DOMAIN low[s].of \cup DOMAIN high[s].of
          /\ \A x \in DOMAIN high[s].of : Overlay(low[s].of, high[s].of)[x] = high[s].of[x]
          /\ \A x \in DOMAIN low[s].of \ DOMAIN high[s].of : Overlay(low[s].of, high[s].of)[x] = low[s].of[x]
      BY OverlaidKey
    <3>3. k \in DOMAIN low[s].of \cup DOMAIN high[s].of BY <3>1, <3>2, <3>4
    <3> QED BY <1>4, <2>2, <3>1, <3>3, <3>4 DEF HasKey
  <2>3. CASE ~(low[s].table /\ high[s].table)
    BY <1>4, <2>1, <2>3, StackedSection DEF HasKey
  <2> QED BY <2>2, <2>3
<1> QED BY <1>1, <1>2, <1>3, <1>4

LEMMA SilenceStays ==
  ASSUME NEW low, NEW high, NEW s, NEW k, ~Speaks(low, s, k), ~Speaks(high, s, k)
  PROVE  ~Speaks(Merge(low, high), s, k)
<1> SUFFICES ASSUME s \in DOMAIN Merge(low, high)
             PROVE  Merge(low, high)[s].table /\ k \notin DOMAIN Merge(low, high)[s].of
  BY DEF Speaks
<1>1. s \in DOMAIN low \cup DOMAIN high BY MergedDomain
<1>2. s \in DOMAIN low => low[s].table /\ k \notin DOMAIN low[s].of BY DEF Speaks
<1>3. s \in DOMAIN high => high[s].table /\ k \notin DOMAIN high[s].of BY DEF Speaks
<1>4. CASE s \notin DOMAIN high BY <1>1, <1>2, <1>4, MergedSection
<1>5. CASE s \in DOMAIN high /\ s \notin DOMAIN low BY <1>1, <1>3, <1>5, MergedSection
<1>6. CASE s \in DOMAIN high /\ s \in DOMAIN low
  <2>1. Merge(low, high)[s] = Stacked(low[s], high[s]) BY <1>6, MergedSection
  <2>2. Merge(low, high)[s].table /\ Merge(low, high)[s].of = Overlay(low[s].of, high[s].of)
    BY <1>2, <1>3, <1>6, <2>1, StackedSection
  <2>3. /\ DOMAIN Overlay(low[s].of, high[s].of) = DOMAIN low[s].of \cup DOMAIN high[s].of
        /\ \A x \in DOMAIN high[s].of : Overlay(low[s].of, high[s].of)[x] = high[s].of[x]
        /\ \A x \in DOMAIN low[s].of \ DOMAIN high[s].of : Overlay(low[s].of, high[s].of)[x] = low[s].of[x]
    BY OverlaidKey
  <2> QED BY <1>2, <1>3, <1>6, <2>2, <2>3
<1> QED BY <1>1, <1>4, <1>5, <1>6

\* m is what layers lo to hi of g add up to: who speaks last is heard, and nobody else is.
LastHeard(m, g, lo, hi) ==
  \A i \in lo..hi : \A s \in DOMAIN g[i] : \A k \in DOMAIN g[i][s].of :
    HasKey(g[i], s, k) /\ (\A j \in (i + 1)..hi : ~Speaks(g[j], s, k)) =>
      HasKey(m, s, k) /\ m[s].of[k] = g[i][s].of[k]
OnlyHeard(m, g, lo, hi) ==
  \A s \in DOMAIN m :
    /\ m[s].table => \A k \in DOMAIN m[s].of :
         \E i \in lo..hi : HasKey(g[i], s, k) /\ g[i][s].of[k] = m[s].of[k]
    /\ ~m[s].table => \E i \in lo..hi : s \in DOMAIN g[i] /\ ~g[i][s].table
AddsUp(m, g, lo, hi) == LastHeard(m, g, lo, hi) /\ OnlyHeard(m, g, lo, hi)

LEMMA SilentLayers ==
  ASSUME NEW m, NEW g, NEW lo \in Int, NEW hi \in Int, OnlyHeard(m, g, lo, hi), NEW s, NEW k,
         \A j \in lo..hi : ~Speaks(g[j], s, k)
  PROVE  ~Speaks(m, s, k)
<1> SUFFICES ASSUME Speaks(m, s, k) PROVE FALSE OBVIOUS
<1>1. s \in DOMAIN m /\ (m[s].table => k \in DOMAIN m[s].of) BY DEF Speaks
<1>2. CASE m[s].table
  <2>1. PICK i \in lo..hi : HasKey(g[i], s, k) BY <1>1, <1>2 DEF OnlyHeard
  <2> QED BY <2>1 DEF HasKey, Speaks
<1>3. CASE ~m[s].table
  <2>1. PICK i \in lo..hi : s \in DOMAIN g[i] /\ ~g[i][s].table BY <1>1, <1>3 DEF OnlyHeard
  <2> QED BY <2>1 DEF Speaks
<1> QED BY <1>2, <1>3

LEMMA LastHeardOfTwo ==
  ASSUME NEW a, NEW b, NEW g, NEW lo \in Int, NEW mid \in Int, NEW hi \in Int, lo <= mid + 1, mid <= hi,
         AddsUp(a, g, lo, mid), AddsUp(b, g, mid + 1, hi)
  PROVE  LastHeard(Merge(a, b), g, lo, hi)
<1> DEFINE M == Merge(a, b)
<1> SUFFICES ASSUME NEW i \in lo..hi, NEW s \in DOMAIN g[i], NEW k \in DOMAIN g[i][s].of,
                    HasKey(g[i], s, k), \A j \in (i + 1)..hi : ~Speaks(g[j], s, k)
             PROVE  HasKey(M, s, k) /\ M[s].of[k] = g[i][s].of[k]
  BY DEF LastHeard
<1> HIDE DEF M
<1>1. CASE i > mid
  <2>1. i \in (mid + 1)..hi BY <1>1
  <2>2. HasKey(b, s, k) /\ b[s].of[k] = g[i][s].of[k] BY <2>1 DEF AddsUp, LastHeard
  <2> QED BY <2>2, LaterWins DEF M
<1>2. CASE i <= mid
  <2>1. i \in lo..mid /\ \A j \in (i + 1)..mid : ~Speaks(g[j], s, k) BY <1>2
  <2>2. HasKey(a, s, k) /\ a[s].of[k] = g[i][s].of[k] BY <2>1 DEF AddsUp, LastHeard
  <2>3. \A j \in (mid + 1)..hi : ~Speaks(g[j], s, k) BY <1>2
  <2>4. ~Speaks(b, s, k) BY <2>3, SilentLayers DEF AddsUp
  <2> QED BY <2>2, <2>4, EarlierStays DEF M
<1> QED BY <1>1, <1>2

LEMMA OnlyHeardOfTwo ==
  ASSUME NEW a, NEW b, NEW g, NEW lo \in Int, NEW mid \in Int, NEW hi \in Int, lo <= mid + 1, mid <= hi,
         AddsUp(a, g, lo, mid), AddsUp(b, g, mid + 1, hi)
  PROVE  OnlyHeard(Merge(a, b), g, lo, hi)
<1> DEFINE M == Merge(a, b)
<1>0. \A i : i \in lo..mid \/ i \in (mid + 1)..hi => i \in lo..hi OBVIOUS
<1> SUFFICES ASSUME NEW s \in DOMAIN M
             PROVE  /\ M[s].table => \A k \in DOMAIN M[s].of :
                         \E i \in lo..hi : HasKey(g[i], s, k) /\ g[i][s].of[k] = M[s].of[k]
                    /\ ~M[s].table => \E i \in lo..hi : s \in DOMAIN g[i] /\ ~g[i][s].table
  BY DEF OnlyHeard
<1> HIDE DEF M
<1>1. ASSUME M[s].table, NEW k \in DOMAIN M[s].of
      PROVE  \E i \in lo..hi : HasKey(g[i], s, k) /\ g[i][s].of[k] = M[s].of[k]
  <2>1. HasKey(M, s, k) BY <1>1 DEF HasKey
  <2>2. \/ HasKey(b, s, k) /\ M[s].of[k] = b[s].of[k]
        \/ HasKey(a, s, k) /\ M[s].of[k] = a[s].of[k]
    BY <2>1, NothingFromNowhere DEF M
  <2>3. CASE HasKey(b, s, k) /\ M[s].of[k] = b[s].of[k]
    <3>1. PICK i \in (mid + 1)..hi : HasKey(g[i], s, k) /\ g[i][s].of[k] = b[s].of[k]
      BY <2>3 DEF HasKey, AddsUp, OnlyHeard
    <3> QED BY <1>0, <2>3, <3>1
  <2>4. CASE HasKey(a, s, k) /\ M[s].of[k] = a[s].of[k]
    <3>1. PICK i \in lo..mid : HasKey(g[i], s, k) /\ g[i][s].of[k] = a[s].of[k]
      BY <2>4 DEF HasKey, AddsUp, OnlyHeard
    <3> QED BY <1>0, <2>4, <3>1
  <2> QED BY <2>2, <2>3, <2>4
<1>2. ASSUME ~M[s].table
      PROVE  \E i \in lo..hi : s \in DOMAIN g[i] /\ ~g[i][s].table
  <2>1. s \in DOMAIN a \cup DOMAIN b BY MergedDomain DEF M
  <2>2. s \notin DOMAIN b => M[s] = a[s] BY <2>1, MergedSection DEF M
  <2>3. s \in DOMAIN b => M[s] = b[s]
    <3> SUFFICES ASSUME s \in DOMAIN b PROVE M[s] = b[s] OBVIOUS
    <3>1. CASE s \notin DOMAIN a BY <3>1, <2>1, MergedSection DEF M
    <3>2. CASE s \in DOMAIN a
      <4>1. M[s] = Stacked(a[s], b[s]) BY <3>2, <2>1, MergedSection DEF M
      <4>2. ~(a[s].table /\ b[s].table) BY <1>2, <4>1, StackedSection
      <4> QED BY <4>1, <4>2, StackedSection
    <3> QED BY <3>1, <3>2
  <2>4. CASE s \in DOMAIN b
    <3>1. PICK i \in (mid + 1)..hi : s \in DOMAIN g[i] /\ ~g[i][s].table
      BY <1>2, <2>3, <2>4 DEF AddsUp, OnlyHeard
    <3> QED BY <1>0, <3>1
  <2>5. CASE s \notin DOMAIN b
    <3>1. s \in DOMAIN a /\ ~a[s].table BY <1>2, <2>1, <2>2, <2>5
    <3>2. PICK i \in lo..mid : s \in DOMAIN g[i] /\ ~g[i][s].table
      BY <3>1 DEF AddsUp, OnlyHeard
    <3> QED BY <1>0, <3>2
  <2> QED BY <2>4, <2>5
<1> QED BY <1>1, <1>2

LEMMA TwoAddUp ==
  ASSUME NEW a, NEW b, NEW g, NEW lo \in Int, NEW mid \in Int, NEW hi \in Int, lo <= mid + 1, mid <= hi,
         AddsUp(a, g, lo, mid), AddsUp(b, g, mid + 1, hi)
  PROVE  AddsUp(Merge(a, b), g, lo, hi)
BY LastHeardOfTwo, OnlyHeardOfTwo DEF AddsUp

LEMMA OneAddsUp ==
  ASSUME NEW g, NEW n \in Int
  PROVE  AddsUp(g[n], g, n, n) /\ AddsUp(<<>>, g, n + 1, n)
<1>1. \A i : i \in n..n <=> i = n OBVIOUS
<1>2. \A i : i \notin (n + 1)..n OBVIOUS
<1>3. LastHeard(g[n], g, n, n) BY <1>1 DEF LastHeard
<1>4. OnlyHeard(g[n], g, n, n) BY <1>1 DEF OnlyHeard, HasKey
<1>5. LastHeard(<<>>, g, n + 1, n) BY <1>2 DEF LastHeard
<1>6. OnlyHeard(<<>>, g, n + 1, n) BY DEF OnlyHeard
<1> QED BY <1>3, <1>4, <1>5, <1>6 DEF AddsUp

LEMMA LongerListAddsUp ==
  ASSUME NEW m, NEW g, NEW h, NEW lo \in Int, NEW hi \in Int, \A i \in lo..hi : h[i] = g[i],
         AddsUp(m, g, lo, hi)
  PROVE  AddsUp(m, h, lo, hi)
<1>1. \A i \in lo..hi : \A j \in (i + 1)..hi : j \in lo..hi OBVIOUS
<1>2. LastHeard(m, h, lo, hi) BY <1>1 DEF AddsUp, LastHeard
<1>3. OnlyHeard(m, h, lo, hi) BY DEF AddsUp, OnlyHeard
<1> QED BY <1>2, <1>3 DEF AddsUp

LEMMA OneMore ==
  ASSUME NEW m, NEW S, NEW g \in Seq(S), NEW layer \in S, NEW lo \in Int, 1 <= lo, lo <= Len(g) + 1,
         AddsUp(m, g, lo, Len(g))
  PROVE  AddsUp(Merge(m, layer), Append(g, layer), lo, Len(g) + 1)
<1> DEFINE h == Append(g, layer)
           n == Len(g)
<1>1. n \in Int /\ h[n + 1] = layer /\ \A i \in 1..n : h[i] = g[i] OBVIOUS
<1> HIDE DEF h, n
<1>2. \A i \in lo..n : h[i] = g[i] BY <1>1
<1>3. AddsUp(m, g, lo, n) BY DEF n
<1>4. AddsUp(m, h, lo, n) BY <1>1, <1>2, <1>3, LongerListAddsUp
<1>5. AddsUp(layer, h, n + 1, n + 1) BY <1>1, OneAddsUp
<1>6. lo <= n + 1 /\ n <= n + 1 BY <1>1 DEF n
<1>7. AddsUp(Merge(m, layer), h, lo, n + 1) BY <1>1, <1>4, <1>5, <1>6, TwoAddUp
<1> QED BY <1>7 DEF h, n

-----------------------------------------------------------------------------
(* The session's invariant. *)

SessionLayers == Intents \cup IntentLayers \cup {ModelLayer("another")}
Settled(m) == \E h \in ComputeHosts : LoadsConfig(m, h) /\ conf = ConfigOf(m)
SessionAddsUp ==
  /\ given \in Seq(SessionLayers)
  /\ settled = "open" =>
       /\ intent = [base |-> intent.base, over |-> intent.over] /\ folded \in 1..Len(given)
       /\ AddsUp(intent.base, given, 1, folded) /\ AddsUp(intent.over, given, folded + 1, Len(given))
  /\ settled = "resolved" =>
       \E m \in {MergedIntent, Merge(MergedIntent, ModelLayer("another"))} :
         AddsUp(m, given, 1, Len(given)) /\ Settled(m)

PipelineStart == intent \in {NewSession(y) : y \in Intents} /\ PipelineInit

LEMMA SessionStarts == ASSUME PipelineStart PROVE SessionAddsUp
<1>1. PICK y \in Intents : intent = [base |-> y, over |-> <<>>] BY DEF PipelineStart, NewSession
<1>2. given = <<y>> /\ folded = 1 /\ settled = "open" BY <1>1 DEF PipelineStart, PipelineInit, ConfigInit
<1>3. Len(given) = 1 /\ given[1] = y BY <1>2
<1>4. given \in Seq(SessionLayers) BY <1>2 DEF SessionLayers
<1>5. AddsUp(given[1], given, 1, 1) /\ AddsUp(<<>>, given, 1 + 1, 1) BY OneAddsUp
<1> QED BY <1>1, <1>2, <1>3, <1>4, <1>5 DEF SessionAddsUp

LEMMA WithAddsUp ==
  ASSUME SessionAddsUp, NEW layer \in IntentLayers, With(layer)
  PROVE  SessionAddsUp'
<1> DEFINE n == Len(given)
<1>1. settled = "open" /\ settled' = "open" /\ folded' = folded BY DEF With
<1>2. given \in Seq(SessionLayers) /\ layer \in SessionLayers BY DEF SessionAddsUp, SessionLayers
<1>3. folded \in 1..n /\ AddsUp(intent.base, given, 1, folded)
      /\ AddsUp(intent.over, given, folded + 1, Len(given))
  BY <1>1 DEF SessionAddsUp
<1>4. given' = Append(given, layer) BY DEF With
<1>5. given' \in Seq(SessionLayers) /\ Len(given') = n + 1 /\ n \in Nat
      /\ \A i \in 1..n : given'[i] = given[i]
  BY <1>2, <1>4
<1>6. intent' = [intent EXCEPT !.over = Merge(intent.over, layer)] BY DEF With
<1>7. AddsUp(Merge(intent.over, layer), given', folded + 1, n + 1)
  <2>1. folded + 1 \in Int /\ 1 <= folded + 1 /\ folded + 1 <= n + 1 BY <1>3, <1>5
  <2> QED BY <1>2, <1>3, <1>4, <2>1, OneMore
<1>8. AddsUp(intent.base, given', 1, folded)
  <2>1. \A i \in 1..folded : given'[i] = given[i] BY <1>3, <1>5
  <2>2. folded \in Int BY <1>3, <1>5
  <2> QED BY <1>3, <2>1, <2>2, LongerListAddsUp
<1>9. intent' = [base |-> intent.base, over |-> Merge(intent.over, layer)]
  BY <1>1, <1>6 DEF SessionAddsUp
<1>10. intent'.base = intent.base /\ intent'.over = Merge(intent.over, layer) BY <1>9
<1>11. folded' \in 1..Len(given') BY <1>1, <1>3, <1>5
<1> QED BY <1>1, <1>5, <1>7, <1>8, <1>9, <1>10, <1>11 DEF SessionAddsUp

LEMMA SavedAddsUp ==
  ASSUME SessionAddsUp, SaveAndLoad
  PROVE  SessionAddsUp'
<1> DEFINE n == Len(given)
<1>1. /\ settled = "open" /\ settled' = "open" /\ given' = given /\ folded' = n /\ folded < n
      /\ intent' = [base |-> Merge(intent.base, intent.over), over |-> <<>>]
  BY DEF SaveAndLoad
<1>2. /\ given \in Seq(SessionLayers) /\ folded \in 1..n
      /\ AddsUp(intent.base, given, 1, folded) /\ AddsUp(intent.over, given, folded + 1, n)
  BY <1>1 DEF SessionAddsUp
<1>3. n \in Nat /\ folded \in Int /\ 1 <= folded + 1 /\ folded <= n BY <1>2
<1>4. AddsUp(Merge(intent.base, intent.over), given, 1, n) BY <1>2, <1>3, TwoAddUp
<1>5. AddsUp(<<>>, given, n + 1, n) BY <1>3, OneAddsUp
<1>6. intent'.base = Merge(intent.base, intent.over) /\ intent'.over = <<>> BY <1>1
<1>7. n \in 1..n BY <1>2, <1>3
<1> QED BY <1>1, <1>2, <1>4, <1>5, <1>6, <1>7 DEF SessionAddsUp

LEMMA ResolvedAddsUp ==
  ASSUME SessionAddsUp, NEW h \in ComputeHosts, ResolveConfig(h) \/ ResolveWithModel("another", h)
  PROVE  SessionAddsUp'
<1> DEFINE n == Len(given)
           another == ModelLayer("another")
<1>1. settled = "open" /\ settled' \in {"resolved", "refused"} /\ intent' = intent
  BY DEF ResolveConfig, ResolveWithModel, Load
<1>2. /\ given \in Seq(SessionLayers) /\ folded \in 1..n
      /\ AddsUp(intent.base, given, 1, folded) /\ AddsUp(intent.over, given, folded + 1, n)
  BY <1>1 DEF SessionAddsUp
<1>3. n \in Nat /\ folded \in Int /\ 1 <= folded + 1 /\ folded <= n BY <1>2
<1>4. AddsUp(MergedIntent, given, 1, n) BY <1>2, <1>3, TwoAddUp DEF MergedIntent
<1>5. MergedIntent' = MergedIntent BY <1>1 DEF MergedIntent
<1>6. CASE ResolveConfig(h)
  <2>1. given' = given /\ Load(MergedIntent, h) BY <1>6 DEF ResolveConfig
  <2>2. settled' = "resolved" => LoadsConfig(MergedIntent, h) /\ conf' = ConfigOf(MergedIntent)
    BY <2>1 DEF Load
  <2>3. settled' = "resolved" => Settled(MergedIntent)' BY <1>5, <2>2 DEF Settled
  <2> QED BY <1>1, <1>2, <1>4, <1>5, <2>1, <2>3 DEF SessionAddsUp
<1>7. CASE ResolveWithModel("another", h)
  <2> DEFINE M == Merge(MergedIntent, another)
  <2>1. given' = Append(given, another) /\ Load(M, h) BY <1>7 DEF ResolveWithModel
  <2>2. settled' = "resolved" => LoadsConfig(M, h) /\ conf' = ConfigOf(M) BY <2>1 DEF Load
  <2>3. M' = M BY <1>5
  <2>4. settled' = "resolved" => Settled(M)' BY <2>3, <2>2 DEF Settled
  <2>5. another \in SessionLayers BY DEF SessionLayers
  <2>6. given' \in Seq(SessionLayers) /\ Len(given') = n + 1 BY <1>2, <2>1, <2>5
  <2>7. 1 \in Int /\ 1 <= 1 /\ 1 <= n + 1 BY <1>3
  <2>8. AddsUp(M, given', 1, n + 1) BY <1>2, <1>4, <2>1, <2>5, <2>7, OneMore
  <2>9. AddsUp(M, given, 1, Len(given))' BY <2>3, <2>6, <2>8
  <2> QED BY <1>1, <2>4, <2>6, <2>9 DEF SessionAddsUp
<1> QED BY <1>6, <1>7

\* What a section of the settled configuration is.
Unfilled(m, s, k) == IF s = "power" /\ k \in Pins THEN PinOf(m, k)
                     ELSE IF s = "build" /\ k = "offline" THEN FieldOf(m, s, k) \/ FrozenAlias(m)
                     ELSE FieldOf(m, s, k)
LEMMA SectionsOf ==
  ASSUME NEW m
  PROVE  /\ DOMAIN ConfigOf(m) = DOMAIN Defaults \cup Free
         /\ \A s \in DOMAIN Defaults \ Free : ConfigOf(m)[s] = [k \in DOMAIN Defaults[s] |-> Unfilled(m, s, k)]
         /\ ConfigOf(m)["pmu_counters"] = Keyed(m, "pmu_counters", [g \in {"cpu"} |-> "default"])
         /\ ConfigOf(m)["nsx_modules"] = Keyed(m, "nsx_modules", <<>>)
BY DEF ConfigOf, Free, Unfilled

LEMMA DefaultSections ==
  /\ DOMAIN Defaults = {"model", "engine", "target", "profiling", "power", "output", "build"}
  /\ "board" \in DOMAIN Defaults["target"] /\ Defaults["target"]["board"] = "apollo510_evb"
  /\ DOMAIN Defaults["power"] = {"enabled", "driver", "firmware", "mode", "lockstep", "stats_rate_hz",
       "sync_gpio_pin", "state_gpio_pin", "go_gpio_pin", "ina228_board", "ina228_shunt_ohms"}
  /\ Defaults["power"]["mode"] = "external"
  /\ "type" \in DOMAIN Defaults["engine"] /\ Defaults["engine"]["type"] = "helia-rt"
BY DEF Defaults

LEMMA SettledKey ==
  ASSUME NEW m, NEW s \in DOMAIN ConfigOf(m), NEW k, HasKey(m, s, k), KnownSection(m, s),
         ~(s = "build" /\ k = "offline")
  PROVE  ConfigOf(m)[s][k] = Coerced(s, k, m[s].of[k])
<1>1. s \in DOMAIN m /\ m[s].table /\ k \in DOMAIN m[s].of BY DEF HasKey
<1>2. s \in DOMAIN Defaults \cup Free BY SectionsOf
<1>3. s # "target" => Coerced(s, k, m[s].of[k]) = m[s].of[k] BY DEF Coerced
<1>4. CASE s = "pmu_counters" BY <1>1, <1>3, <1>4, SectionsOf DEF Keyed
<1>5. CASE s = "nsx_modules" BY <1>1, <1>3, <1>5, SectionsOf DEF Keyed
<1>6. CASE s \notin Free
  <2>0. ~(m[s] = Scalar("null"))
    <3>1. Scalar("null").table = FALSE BY DEF Scalar
    <3> QED BY <1>1, <3>1
  <2>1. s \in DOMAIN Defaults /\ s \notin Switches BY <1>2, <1>6, DefaultSections DEF Switches
  <2>2. KnownField(s, k, m[s].of[k]) BY <1>1, <1>6, <2>0, <2>1 DEF KnownSection
  <2>3. k \in DOMAIN Defaults[s] BY <2>2 DEF KnownField
  <2>4. s \in DOMAIN Defaults \ Free BY <1>6, <2>1
  <2>5. ConfigOf(m)[s] = [x \in DOMAIN Defaults[s] |-> Unfilled(m, s, x)] BY <2>4, SectionsOf
  <2>6. ConfigOf(m)[s][k] = Unfilled(m, s, k) BY <2>3, <2>5
  <2>7. Unfilled(m, s, k) = Coerced(s, k, m[s].of[k])
    <3>1. CASE s = "power" /\ k \in Pins BY <1>3, <3>1 DEF Unfilled, PinOf
    <3>2. CASE ~(s = "power" /\ k \in Pins) BY <3>2 DEF Unfilled, FieldOf
    <3> QED BY <3>1, <3>2
  <2> QED BY <2>6, <2>7
<1> QED BY <1>2, <1>4, <1>5, <1>6 DEF Free

\* What the later stages may take for granted of a settled configuration.
ConfSound(c) ==
  /\ c.target.board \in DOMAIN Catalogue /\ Coherent(c)
  /\ c.power.mode \in {"external", "internal"}
  /\ c.engine.type \in {"litert", "helia-rt", "helia-aot", "executorch"}

LEMMA BoardOfConfig ==
  ASSUME NEW m
  PROVE  ConfigOf(m).target.board = BoardNamed(m)
<1>1. "target" \in DOMAIN Defaults \ Free BY DefaultSections DEF Free
<1>2. ConfigOf(m)["target"] = [k \in DOMAIN Defaults["target"] |-> Unfilled(m, "target", k)] BY <1>1, SectionsOf
<1>3. ConfigOf(m)["target"]["board"] = Unfilled(m, "target", "board") BY <1>2, DefaultSections
<1>4. Unfilled(m, "target", "board") = FieldOf(m, "target", "board") BY DEF Unfilled
<1>5. FieldOf(m, "target", "board") = BoardNamed(m)
  BY DefaultSections DEF FieldOf, BoardNamed, Coerced
<1> QED BY <1>3, <1>4, <1>5

LEMMA ModeOfConfig ==
  ASSUME NEW m, "power" \in DOMAIN m => KnownSection(m, "power")
  PROVE  ConfigOf(m).power.mode \in {"external", "internal"}
<1>1. "power" \in DOMAIN Defaults \ Free BY DefaultSections DEF Free
<1>2. ConfigOf(m)["power"] = [k \in DOMAIN Defaults["power"] |-> Unfilled(m, "power", k)] BY <1>1, SectionsOf
<1>3. ConfigOf(m)["power"]["mode"] = Unfilled(m, "power", "mode") BY <1>2, DefaultSections
<1>4. Unfilled(m, "power", "mode") = FieldOf(m, "power", "mode") BY DEF Unfilled, Pins
<1>5. CASE ~HasKey(m, "power", "mode") BY <1>3, <1>4, <1>5, DefaultSections DEF FieldOf
<1>6. CASE HasKey(m, "power", "mode")
  <2> DEFINE v == m["power"].of["mode"]
  <2>1. "power" \in DOMAIN m /\ m["power"].table /\ "mode" \in DOMAIN m["power"].of BY <1>6 DEF HasKey
  <2>2. Scalar("null").table = FALSE BY DEF Scalar
  <2>3. KnownField("power", "mode", v) BY <2>1, <2>2 DEF KnownSection, Free, Switches
  <2>4. "mode" \in DOMAIN Permitted["power"] /\ Permitted["power"]["mode"] = {"external", "internal"}
    BY DEF Permitted
  <2>5. v \in {"external", "internal"} BY <2>3, <2>4 DEF KnownField
  <2>6. FieldOf(m, "power", "mode") = v BY <1>6 DEF FieldOf, Coerced
  <2> QED BY <1>3, <1>4, <2>5, <2>6
<1> QED BY <1>5, <1>6

LEMMA EngineOfConfig ==
  ASSUME NEW m, "engine" \in DOMAIN m => KnownSection(m, "engine")
  PROVE  ConfigOf(m).engine.type \in {"litert", "helia-rt", "helia-aot", "executorch"}
<1>1. "engine" \in DOMAIN Defaults \ Free BY DefaultSections DEF Free
<1>2. ConfigOf(m)["engine"] = [k \in DOMAIN Defaults["engine"] |-> Unfilled(m, "engine", k)] BY <1>1, SectionsOf
<1>3. ConfigOf(m)["engine"]["type"] = Unfilled(m, "engine", "type") BY <1>2, DefaultSections
<1>4. Unfilled(m, "engine", "type") = FieldOf(m, "engine", "type") BY DEF Unfilled
<1>5. CASE ~HasKey(m, "engine", "type") BY <1>3, <1>4, <1>5, DefaultSections DEF FieldOf
<1>6. CASE HasKey(m, "engine", "type")
  <2> DEFINE v == m["engine"].of["type"]
  <2>1. "engine" \in DOMAIN m /\ m["engine"].table /\ "type" \in DOMAIN m["engine"].of BY <1>6 DEF HasKey
  <2>3. KnownField("engine", "type", v) BY <2>1 DEF KnownSection, Free, Switches
  <2>4. /\ "type" \in DOMAIN Permitted["engine"]
        /\ Permitted["engine"]["type"] = {"litert", "helia-rt", "helia-aot", "executorch"}
    BY DEF Permitted
  <2>5. v \in {"litert", "helia-rt", "helia-aot", "executorch"} BY <2>3, <2>4 DEF KnownField
  <2>6. FieldOf(m, "engine", "type") = v BY <1>6 DEF FieldOf, Coerced
  <2> QED BY <1>3, <1>4, <2>5, <2>6
<1> QED BY <1>5, <1>6

LEMMA SettledIsSound ==
  ASSUME NEW m, NEW h, LoadsConfig(m, h)
  PROVE  ConfSound(ConfigOf(m))
<1>1. "power" \in DOMAIN m => KnownSection(m, "power") BY DEF LoadsConfig
<1>2. ConfigOf(m).power.mode \in {"external", "internal"} BY <1>1, ModeOfConfig
<1>3. ConfigOf(m).target.board \in DOMAIN Catalogue BY BoardOfConfig DEF LoadsConfig
<1>4. ConfigOf(m).engine.type \in {"litert", "helia-rt", "helia-aot", "executorch"} BY EngineOfConfig DEF LoadsConfig
<1> QED BY <1>2, <1>3, <1>4 DEF ConfSound, LoadsConfig

\* The last word of the layers, and the pins of the board.
LEMMA LastWordHolds ==
  ASSUME SessionAddsUp
  PROVE  LastWordStands
<1> SUFFICES ASSUME settled = "resolved", NEW i \in 1..Len(given), NEW s \in DOMAIN given[i] \cap DOMAIN conf,
                    NEW k \in DOMAIN given[i][s].of \ (IF s = "build" THEN {"offline"} ELSE {}),
                    LastToSay(i, s, k)
             PROVE  conf[s][k] = Coerced(s, k, given[i][s].of[k])
  BY DEF LastWordStands
<1>1. PICK m : AddsUp(m, given, 1, Len(given)) /\ Settled(m) BY DEF SessionAddsUp
<1>2. PICK h \in ComputeHosts : LoadsConfig(m, h) /\ conf = ConfigOf(m) BY <1>1 DEF Settled
<1>3. HasKey(given[i], s, k) BY DEF LastToSay, Says
<1>4. \A j \in (i + 1)..Len(given) : ~Speaks(given[j], s, k) BY DEF LastToSay, Touches, Speaks
<1>5. HasKey(m, s, k) /\ m[s].of[k] = given[i][s].of[k] BY <1>1, <1>3, <1>4 DEF AddsUp, LastHeard
<1>6. KnownSection(m, s) BY <1>2, <1>5 DEF LoadsConfig, HasKey
<1>7. ~(s = "build" /\ k = "offline") OBVIOUS
<1>8. s \in DOMAIN ConfigOf(m) BY <1>2
<1>9. ConfigOf(m)[s][k] = Coerced(s, k, m[s].of[k]) BY <1>5, <1>6, <1>7, <1>8, SettledKey
<1> QED BY <1>2, <1>5, <1>9

LEMMA PinsHold ==
  ASSUME SessionAddsUp
  PROVE  PinsAreTheBoards
<1> SUFFICES ASSUME settled = "resolved", NEW p \in Pins
             PROVE  \/ conf.power[p] = Catalogue[conf.target.board].pins[p]
                    \/ \E i \in 1..Len(given) : Says(i, "power", p) /\ given[i]["power"].of[p] = conf.power[p]
  BY DEF PinsAreTheBoards
<1>1. PICK m : AddsUp(m, given, 1, Len(given)) /\ Settled(m) BY DEF SessionAddsUp
<1>2. conf = ConfigOf(m) BY <1>1 DEF Settled
<1>3. "power" \in DOMAIN Defaults \ Free /\ p \in DOMAIN Defaults["power"] BY DefaultSections DEF Free, Pins
<1>4. ConfigOf(m)["power"] = [k \in DOMAIN Defaults["power"] |-> Unfilled(m, "power", k)] BY <1>3, SectionsOf
<1>5. conf.power[p] = PinOf(m, p) BY <1>2, <1>3, <1>4 DEF Unfilled
<1>6. CASE ~HasKey(m, "power", p) BY <1>2, <1>5, <1>6, BoardOfConfig DEF PinOf
<1>7. CASE HasKey(m, "power", p)
  <2>1. "power" \in DOMAIN m /\ m["power"].table /\ p \in DOMAIN m["power"].of BY <1>7 DEF HasKey
  <2>2. PICK i \in 1..Len(given) : HasKey(given[i], "power", p)
                                   /\ given[i]["power"].of[p] = m["power"].of[p]
    BY <1>1, <2>1 DEF AddsUp, OnlyHeard
  <2> QED BY <1>5, <1>7, <2>2 DEF PinOf, Says
<1> QED BY <1>6, <1>7

-----------------------------------------------------------------------------
(* The stages: what each leaves for those after it. *)

LEMMA StagesInOrder ==
  /\ Len(PipelineStages) = 18
  /\ PipelineStages[1] = "preflight" /\ PipelineStages[2] = "ensure_board_powered" /\ PipelineStages[3] = "resolve_platform"
  /\ PipelineStages[4] = "resolve_jlink_probe" /\ PipelineStages[5] = "prepare_engine" /\ PipelineStages[6] = "analyze_model"
  /\ PipelineStages[7] = "plan_memory" /\ PipelineStages[8] = "generate_firmware" /\ PipelineStages[9] = "build_firmware"
  /\ PipelineStages[10] = "verify_placement" /\ PipelineStages[11] = "flash_firmware" /\ PipelineStages[12] = "capture_pmu"
  /\ PipelineStages[13] = "plan_power_run" /\ PipelineStages[14] = "build_power_firmware"
  /\ PipelineStages[15] = "flash_power_firmware" /\ PipelineStages[16] = "capture_power"
  /\ PipelineStages[17] = "collect_power_terminal" /\ PipelineStages[18] = "generate_report"
BY DEF PipelineStages

JobShape ==
  /\ job = [status |-> job.status, at |-> job.at, why |-> job.why]
  /\ DOMAIN learned = {"arena", "weights", "compiled", "timed", "counted"}
  /\ job.at \in 0..18 /\ job.status \in {"idle", "running", "done", "failed"}
  /\ job.status = "idle" => job.at = 0 /\ made = {} /\ job.why = ""
  /\ job.status # "idle" => job.at >= 1 /\ settled = "handed over"
  /\ job.status \in {"running", "done"} => job.why = ""
  /\ settled \in {"resolved", "handed over"} => ConfSound(conf)

\* What a stage that was passed has made, or has seen to.
NpuSettled == conf.engine.type # "executorch" /\ host.litert => NpuAgrees
Placed ==
  /\ learned.arena = "psram" => conf.model.arena_location = "psram"
  /\ learned.weights = "psram" => conf.model.weights_location = "psram"
  /\ "psram" \in {learned.arena, learned.weights} => Catalogue[conf.target.board].psram
PlanFits ==
  /\ "power_plan" \in made /\ DriverMode(conf.power.driver) = conf.power.mode
  /\ DedicatedImage(conf) => learned.counted = (~Infers(conf) \/ learned.timed)
\* What stage n owes to those after it.
Owed(n) ==
  /\ n = 1 => PreflightOk(conf, host)
  /\ n = 3 => "soc" \in made
  /\ n = 5 => "artifacts" \in made
  /\ n = 6 => NpuSettled
  /\ n = 7 => Placed
  /\ n = 8 => "firmware_dir" \in made
  /\ n = 9 => "profile_firmware" \in made
  /\ n = 11 => "profile_deployment" \in made
  /\ n = 12 => "pmu_result" \in made
  /\ n = 13 /\ PowerEnabled(conf) => PlanFits
  /\ n = 14 /\ DedicatedImage(conf) /\ learned.counted => "power_firmware" \in made
  /\ n = 15 /\ DedicatedImage(conf) => "power_deployment" \in made
  /\ n = 16 /\ PowerEnabled(conf) /\ conf.power.mode # "internal" => "observation" \in made
Foreseen == \A n \in 1..17 : job.at > n => Owed(n)

\* What is in the context was made by its stage.
Sourced ==
  /\ "firmware_dir" \in made =>
       /\ job.at > 8 /\ app = Generated(conf, learned.arena, learned.weights)
       /\ RefsAgree(conf, Selected(conf, learned.arena, learned.weights))
  /\ Deployed => job.at > 11
  /\ "observation" \in made => job.at > 16 /\ PowerEnabled(conf) /\ conf.power.mode # "internal"
  /\ "terminal" \in made => job.at > 17 /\ DedicatedImage(conf)
Starvation == job.why = "starved" => job.at = 15 /\ Infers(conf) /\ ~learned.timed
JobSoFar == JobShape /\ Foreseen /\ Sourced /\ Starvation

\* A stage that works is the one its name says, and is passed or fails.
LEMMA StageAt ==
  ASSUME JobShape, Running
  PROVE  job.at \in 1..18 /\ job.why = "" /\ settled = "handed over" /\ ConfSound(conf)
<1>1. job.status = "running" BY DEF Running
<1>2. job.at \in 0..18 /\ job.at >= 1 /\ job.why = "" /\ settled = "handed over"
  BY <1>1 DEF JobShape
<1>3. ConfSound(conf) BY <1>2 DEF JobShape
<1>4. job.at \in 1..18
  <2> DEFINE n == job.at
  <2>1. n \in 0..18 /\ n >= 1 BY <1>2
  <2> HIDE DEF n
  <2>2. n \in 1..18 BY <2>1
  <2> QED BY <2>2 DEF n
<1> QED BY <1>2, <1>3, <1>4

LEMMA Passing ==
  ASSUME JobShape, Running, Advance
  PROVE  /\ job.at < 18 => job' = [status |-> "running", at |-> job.at + 1, why |-> ""]
         /\ job.at = 18 => job' = [status |-> "done", at |-> 18, why |-> ""]
<1>1. PICK n \in 1..18 : n = job.at BY StageAt
<1>2. job = [status |-> "running", at |-> n, why |-> ""]
  BY <1>1, StageAt DEF JobShape, Running
<1>3. Len(PipelineStages) = 18 BY StagesInOrder
<1>4. CASE n = 18
  <2>1. job' = [job EXCEPT !.status = "done"] BY <1>1, <1>3, <1>4 DEF Advance
  <2>2. job' = [status |-> "done", at |-> n, why |-> ""] BY <2>1, <1>2
  <2>3. job' = [status |-> "done", at |-> 18, why |-> ""] BY <2>2, <1>4
  <2>4. job.at = 18 /\ ~(job.at < 18) BY <1>1, <1>4
  <2> QED BY <2>3, <2>4
<1>5. CASE n # 18
  <2>1. job' = [job EXCEPT !.at = n + 1] BY <1>1, <1>3, <1>5 DEF Advance
  <2>2. job' = [status |-> "running", at |-> n + 1, why |-> ""] BY <2>1, <1>2
  <2> QED BY <2>2, <1>1, <1>5
<1> QED BY <1>4, <1>5

LEMMA Failing ==
  ASSUME JobShape, NEW why, Fails(why)
  PROVE  /\ job' = [status |-> "failed", at |-> job.at, why |-> why]
         /\ UNCHANGED <<made, learned, app>>
BY DEF JobShape, Fails

\* A failing stage leaves everything as it was.
LEMMA FailingKeeps ==
  ASSUME JobSoFar, Running, NEW why, Fails(why), UNCHANGED <<configVars, host>>,
         why = "starved" => job.at = 15 /\ Infers(conf) /\ ~learned.timed
  PROVE  JobSoFar'
<1>1. /\ job' = [status |-> "failed", at |-> job.at, why |-> why]
      /\ UNCHANGED <<made, learned, app>>
  BY Failing DEF JobSoFar
<1>2. job'.at = job.at /\ job'.status = "failed" /\ job'.why = why BY <1>1
<1>3. conf' = conf /\ settled' = settled BY DEF configVars
<1>4. JobShape' BY <1>1, <1>2, <1>3 DEF JobSoFar, JobShape, Running
<1>5. Foreseen'
  <2>1. \A n \in 1..17 : Owed(n) => Owed(n)' BY <1>1, <1>3 DEF Owed, Placed, NpuSettled, NpuAgrees, SourceAnalysed, PlanFits
  <2> QED BY <1>2, <2>1 DEF JobSoFar, Foreseen
<1>6. Sourced' BY <1>1, <1>2, <1>3 DEF JobSoFar, Sourced, Deployed
<1>7. Starvation' BY <1>1, <1>2, <1>3 DEF Starvation
<1> QED BY <1>4, <1>5, <1>6, <1>7 DEF JobSoFar

\* The name of a stage is its place.
LEMMA StageNumber ==
  ASSUME JobShape, Running, NEW i \in 1..18, Current = PipelineStages[i]
  PROVE  job.at = i
<1>1. PICK n \in 1..18 : n = job.at BY StageAt
<1>2. PipelineStages[n] = PipelineStages[i] BY <1>1 DEF Current
<1>3. n = i BY <1>2, StagesInOrder
<1> QED BY <1>1, <1>3

LEMMA Successor ==
  ASSUME NEW n \in 1..18, NEW a, a = IF n = 18 THEN 18 ELSE n + 1
  PROVE  /\ a \in 0..18 /\ a >= 1 /\ a >= n
         /\ \A k \in 1..17 : a > k => k <= n /\ (k < n => n > k)
OBVIOUS

LEMMA PassedAt ==
  ASSUME JobShape, Running, Advance
  PROVE  \E n \in 1..18, a \in 1..18, st \in {"running", "done"} :
           /\ job.at = n /\ job' = [status |-> st, at |-> a, why |-> ""]
           /\ a = IF n = 18 THEN 18 ELSE n + 1
<1>1. PICK n \in 1..18 : n = job.at BY StageAt
<1>2. CASE n = 18
  <2>1. job' = [status |-> "done", at |-> 18, why |-> ""] BY <1>1, <1>2, Passing
  <2> QED BY <1>1, <1>2, <2>1
<1>3. CASE n # 18
  <2>1. n < 18 /\ n + 1 \in 1..18 BY <1>3
  <2>2. job.at < 18 BY <1>1, <2>1
  <2>3. job' = [status |-> "running", at |-> job.at + 1, why |-> ""] BY <2>2, Passing
  <2>4. job' = [status |-> "running", at |-> n + 1, why |-> ""] BY <1>1, <2>3
  <2> QED BY <1>1, <1>3, <2>1, <2>4
<1> QED BY <1>2, <1>3

LEMMA NextAt ==
  ASSUME JobShape, Running, Advance, NEW i \in 1..18, Current = PipelineStages[i]
  PROVE  job.at = i /\ job'.at = IF i = 18 THEN 18 ELSE i + 1
<1>1. job.at = i BY StageNumber
<1>2. PICK n \in 1..18, a \in 1..18, st \in {"running", "done"} :
        /\ job.at = n /\ job' = [status |-> st, at |-> a, why |-> ""]
        /\ a = IF n = 18 THEN 18 ELSE n + 1
  BY PassedAt
<1>3. job'.at = a /\ n = i BY <1>1, <1>2
<1> QED BY <1>1, <1>2, <1>3

LEMMA PassKeeps ==
  ASSUME JobSoFar, Running, Advance, UNCHANGED <<configVars, host>>,
         DOMAIN learned' = {"arena", "weights", "compiled", "timed", "counted"},
         \A k \in 1..17 : k <= job.at /\ (k < job.at => Owed(k)) => Owed(k)',
         Sourced'
  PROVE  JobSoFar'
<1>1. PICK n \in 1..18, a \in 1..18, st \in {"running", "done"} :
        /\ job.at = n /\ job' = [status |-> st, at |-> a, why |-> ""]
        /\ a = IF n = 18 THEN 18 ELSE n + 1
  BY PassedAt DEF JobSoFar
<1>2. job'.at = a /\ job'.status = st /\ job'.why = "" BY <1>1
<1>3. \A k \in 1..17 : a > k => k <= n /\ (k < n => n > k) BY <1>1, Successor
<1>4. a \in 0..18 /\ a >= 1 /\ a >= n BY <1>1, Successor
<1>5. job' = [status |-> job'.status, at |-> job'.at, why |-> job'.why] BY <1>1, <1>2
<1>6. conf' = conf /\ settled' = settled BY DEF configVars
<1>7. settled = "handed over" /\ ConfSound(conf) BY StageAt DEF JobSoFar
<1>8. JobShape' BY <1>2, <1>4, <1>5, <1>6, <1>7 DEF JobSoFar, JobShape
<1>9. Foreseen'
  <2> SUFFICES ASSUME NEW k \in 1..17, job'.at > k PROVE Owed(k)' BY DEF Foreseen
  <2>1. k <= n /\ (k < n => n > k) BY <1>2, <1>3
  <2>2. k <= job.at /\ (k < job.at => job.at > k) BY <1>1, <2>1
  <2>3. k < job.at => Owed(k) BY <2>2 DEF JobSoFar, Foreseen
  <2> QED BY <2>2, <2>3
<1>10. Starvation' BY <1>2 DEF Starvation
<1> QED BY <1>8, <1>9, <1>10 DEF JobSoFar

\* The stages that may skip themselves, and when.
LEMMA SkipsWhen ==
  /\ \A n \in {1, 3, 5, 7, 8, 9, 11, 12, 18} : ~SkipsItself(PipelineStages[n])
  /\ SkipsItself(PipelineStages[6]) <=> conf.engine.type = "executorch" \/ ~(learned.compiled \/ host.litert)
  /\ SkipsItself(PipelineStages[13]) <=> ~PowerEnabled(conf)
  /\ SkipsItself(PipelineStages[14]) <=> ~DedicatedImage(conf) \/ "power_plan" \notin made \/ ~learned.counted
  /\ SkipsItself(PipelineStages[15]) <=> ~DedicatedImage(conf)
  /\ SkipsItself(PipelineStages[16]) <=> ~PowerEnabled(conf) \/ conf.power.mode = "internal"
  /\ SkipsItself(PipelineStages[17]) <=> ~DedicatedImage(conf) \/ "power_plan" \notin made
<1>1. ~SkipsItself("preflight") BY DEF SkipsItself
<1>2. ~SkipsItself("resolve_platform") BY DEF SkipsItself
<1>3. ~SkipsItself("prepare_engine") BY DEF SkipsItself
<1>4. ~SkipsItself("plan_memory") BY DEF SkipsItself
<1>5. ~SkipsItself("generate_firmware") BY DEF SkipsItself
<1>6. ~SkipsItself("build_firmware") BY DEF SkipsItself
<1>7. ~SkipsItself("flash_firmware") BY DEF SkipsItself
<1>8. ~SkipsItself("capture_pmu") BY DEF SkipsItself
<1>9. ~SkipsItself("generate_report") BY DEF SkipsItself
<1>10. SkipsItself("analyze_model") <=> conf.engine.type = "executorch" \/ ~(learned.compiled \/ host.litert)
  BY DEF SkipsItself
<1>11. SkipsItself("plan_power_run") <=> ~PowerEnabled(conf) BY DEF SkipsItself
<1>12. SkipsItself("build_power_firmware")
         <=> ~DedicatedImage(conf) \/ "power_plan" \notin made \/ ~learned.counted
  BY DEF SkipsItself, DedicatedImage
<1>13. SkipsItself("flash_power_firmware") <=> ~DedicatedImage(conf) BY DEF SkipsItself, DedicatedImage
<1>14. SkipsItself("capture_power") <=> ~PowerEnabled(conf) \/ conf.power.mode = "internal"
  BY DEF SkipsItself
<1>15. SkipsItself("collect_power_terminal") <=> ~DedicatedImage(conf) \/ "power_plan" \notin made
  BY DEF SkipsItself, DedicatedImage
<1>16. \A n \in {1, 3, 5, 7, 8, 9, 11, 12, 18} : ~SkipsItself(PipelineStages[n])
  BY <1>1, <1>2, <1>3, <1>4, <1>5, <1>6, <1>7, <1>8, <1>9, StagesInOrder
<1> QED BY <1>10, <1>11, <1>12, <1>13, <1>14, <1>15, <1>16, StagesInOrder

LEMMA PreflightKeeps ==
  ASSUME JobSoFar, PreflightStage PROVE JobSoFar'
<1>1. Running /\ Current = PipelineStages[1] /\ UNCHANGED <<configVars, host>>
  BY StagesInOrder DEF PreflightStage, Works, Enters
<1>2. job.at = 1 BY <1>1, StageNumber DEF JobSoFar
<1>3. CASE ~PreflightOk(conf, host) BY <1>1, <1>3, FailingKeeps DEF PreflightStage
<1>4. CASE PreflightOk(conf, host)
  <2>1. Advance /\ UNCHANGED <<made, learned, app>> BY <1>4 DEF PreflightStage, Gives
  <2>2. \A k \in 1..17 : k <= job.at /\ (k < job.at => Owed(k)) => Owed(k)'
    BY <1>1, <1>2, <1>4, <2>1 DEF Owed, configVars
  <2>3. Sourced' BY <1>1, <1>2, <2>1 DEF JobSoFar, Sourced, configVars, Deployed
  <2> QED BY <1>1, <2>1, <2>2, <2>3, PassKeeps DEF JobSoFar, JobShape
<1> QED BY <1>3, <1>4

LEMMA BoardPoweredKeeps ==
  ASSUME JobSoFar, EnsureBoardPoweredStage PROVE JobSoFar'
<1>1. Running /\ Current = PipelineStages[2] /\ UNCHANGED <<configVars, host>>
  BY StagesInOrder DEF EnsureBoardPoweredStage, Works, Enters
<1>2. job.at = 2 BY <1>1, StageNumber DEF JobSoFar
<1>3. Advance /\ made' = made \cup {} /\ UNCHANGED <<learned, app>> BY DEF EnsureBoardPoweredStage, Gives
<1>4. \A k \in 1..17 : k <= job.at /\ (k < job.at => Owed(k)) => Owed(k)'
  BY <1>1, <1>2, <1>3 DEF Owed, configVars, NpuSettled, NpuAgrees, SourceAnalysed, Placed, PlanFits
<1>5. job'.at = 3 BY <1>1, <1>3, NextAt DEF JobSoFar
<1>6. Sourced' BY <1>1, <1>2, <1>3, <1>5 DEF JobSoFar, Sourced, configVars, Deployed
<1> QED BY <1>1, <1>3, <1>4, <1>6, PassKeeps DEF JobSoFar, JobShape

LEMMA PlatformKeeps ==
  ASSUME JobSoFar, ResolvePlatformStage PROVE JobSoFar'
<1>1. Running /\ Current = PipelineStages[3] /\ UNCHANGED <<configVars, host>>
  BY StagesInOrder DEF ResolvePlatformStage, Works, Enters
<1>2. job.at = 3 BY <1>1, StageNumber DEF JobSoFar
<1> DEFINE known == conf.target.cpu \in {"null"} \cup Catalogue[conf.target.board].cpus
<1>3. CASE ~known BY <1>1, <1>3, FailingKeeps DEF ResolvePlatformStage
<1>4. CASE known
  <2>1. Advance /\ made' = made \cup {"soc"} /\ UNCHANGED <<learned, app>>
    BY <1>4 DEF ResolvePlatformStage, Gives
  <2>2. \A k \in 1..17 : k <= job.at /\ (k < job.at => Owed(k)) => Owed(k)'
    BY <1>1, <1>2, <2>1 DEF Owed, configVars
  <2>3. Sourced' BY <1>1, <1>2, <2>1 DEF JobSoFar, Sourced, configVars, Deployed
  <2> QED BY <1>1, <2>1, <2>2, <2>3, PassKeeps DEF JobSoFar, JobShape
<1> QED BY <1>3, <1>4

LEMMA ProbeKeeps ==
  ASSUME JobSoFar, ResolveJLinkProbeStage PROVE JobSoFar'
<1>1. Running /\ Current = PipelineStages[4] /\ UNCHANGED <<configVars, host>>
  BY StagesInOrder DEF ResolveJLinkProbeStage, Works, Enters
<1>2. job.at = 4 BY <1>1, StageNumber DEF JobSoFar
<1>3. Advance /\ made' = made \cup {} /\ UNCHANGED <<learned, app>> BY DEF ResolveJLinkProbeStage, Gives
<1>4. \A k \in 1..17 : k <= job.at /\ (k < job.at => Owed(k)) => Owed(k)'
  BY <1>1, <1>2, <1>3 DEF Owed, configVars, NpuSettled, NpuAgrees, SourceAnalysed, Placed, PlanFits
<1>5. job'.at = 5 BY <1>1, <1>3, NextAt DEF JobSoFar
<1>6. Sourced' BY <1>1, <1>2, <1>3, <1>5 DEF JobSoFar, Sourced, configVars, Deployed
<1> QED BY <1>1, <1>3, <1>4, <1>6, PassKeeps DEF JobSoFar, JobShape

LEMMA EngineKeeps ==
  ASSUME JobSoFar, PrepareEngineStage PROVE JobSoFar'
<1>1. Running /\ Current = PipelineStages[5] /\ UNCHANGED <<configVars, host>>
  BY StagesInOrder DEF PrepareEngineStage, Works, Enters
<1>2. job.at = 5 BY <1>1, StageNumber DEF JobSoFar
<1>3. Advance /\ made' = made \cup {"artifacts"} /\ app' = app BY DEF PrepareEngineStage, Gives
<1>4. PICK b : learned' = [learned EXCEPT !.compiled = b] BY DEF PrepareEngineStage
<1>5. \A k \in 1..17 : k <= job.at /\ (k < job.at => Owed(k)) => Owed(k)'
  BY <1>1, <1>2, <1>3 DEF Owed, configVars
<1>6. Sourced' BY <1>1, <1>2, <1>3 DEF JobSoFar, Sourced, configVars, Deployed
<1>7. DOMAIN learned' = {"arena", "weights", "compiled", "timed", "counted"} BY <1>4 DEF JobSoFar, JobShape
<1> QED BY <1>1, <1>3, <1>5, <1>6, <1>7, PassKeeps

LEMMA ModelKeeps ==
  ASSUME JobSoFar, AnalyzeModelStage PROVE JobSoFar'
<1>1. Running /\ Current = PipelineStages[6] /\ UNCHANGED <<configVars, host>>
  BY StagesInOrder DEF AnalyzeModelStage, Works, Enters
<1>2. job.at = 6 BY <1>1, StageNumber DEF JobSoFar
<1>3. CASE ~NpuAgrees BY <1>1, <1>3, FailingKeeps DEF AnalyzeModelStage
<1>4. CASE NpuAgrees
  <2>1. PICK P \in {{}, {"analysis"}} : Advance /\ made' = made \cup P /\ UNCHANGED <<learned, app>>
    BY <1>4 DEF AnalyzeModelStage, Gives
  <2>2. \A k \in 1..17 : k <= job.at /\ (k < job.at => Owed(k)) => Owed(k)'
    BY <1>1, <1>2, <1>4, <2>1 DEF Owed, configVars, NpuSettled, NpuAgrees, SourceAnalysed
  <2>3. Sourced' BY <1>1, <1>2, <2>1 DEF JobSoFar, Sourced, configVars, Deployed
  <2> QED BY <1>1, <2>1, <2>2, <2>3, PassKeeps DEF JobSoFar, JobShape
<1> QED BY <1>3, <1>4

LEMMA MemoryKeeps ==
  ASSUME JobSoFar, PlanMemoryStage PROVE JobSoFar'
<1>1. Running /\ Current = PipelineStages[7] /\ UNCHANGED <<configVars, host>>
  BY StagesInOrder DEF PlanMemoryStage, Works, Enters
<1>2. job.at = 7 BY <1>1, StageNumber DEF JobSoFar
<1> DEFINE asked == {conf.model.arena_location, conf.model.weights_location} \ {"null"}
           lacking == \E r \in asked : ~BoardHas(conf.target.board, r)
<1>3. CASE lacking BY <1>1, <1>3, FailingKeeps DEF PlanMemoryStage
<1>4. CASE ~lacking
  <2>1. Advance /\ made' = made \cup {"regions"} /\ app' = app BY <1>4 DEF PlanMemoryStage, Gives
  <2>2. PICK x, y :
          /\ conf.model.arena_location = "null" => x \in {"tcm", "sram"}
          /\ conf.model.arena_location # "null" => x = conf.model.arena_location
          /\ conf.model.weights_location = "null" => y \in {"mram"}
          /\ conf.model.weights_location # "null" => y = conf.model.weights_location
          /\ learned' = [learned EXCEPT !.arena = x, !.weights = y]
    BY <1>4 DEF PlanMemoryStage
  <2>3. /\ DOMAIN learned' = {"arena", "weights", "compiled", "timed", "counted"}
        /\ learned'.arena = x /\ learned'.weights = y
    BY <2>2 DEF JobSoFar, JobShape
  <2>4. x = "psram" => conf.model.arena_location = "psram" BY <2>2
  <2>5. y = "psram" => conf.model.weights_location = "psram" BY <2>2
  <2>6. "psram" \in {x, y} => Catalogue[conf.target.board].psram BY <1>4, <2>4, <2>5 DEF BoardHas
  <2>7. Placed' BY <1>1, <2>3, <2>4, <2>5, <2>6 DEF Placed, configVars
  <2>8. \A k \in 1..17 : k <= job.at /\ (k < job.at => Owed(k)) => Owed(k)'
    BY <1>1, <1>2, <2>1, <2>7 DEF Owed, configVars, NpuSettled, NpuAgrees, SourceAnalysed
  <2>9. Sourced' BY <1>1, <1>2, <2>1 DEF JobSoFar, Sourced, configVars, Deployed
  <2> QED BY <1>1, <2>1, <2>3, <2>8, <2>9, PassKeeps
<1> QED BY <1>3, <1>4

LEMMA FirmwareKeeps ==
  ASSUME JobSoFar, GenerateFirmwareStage PROVE JobSoFar'
<1>1. Running /\ Current = PipelineStages[8] /\ UNCHANGED <<configVars, host>>
  BY StagesInOrder DEF GenerateFirmwareStage, Works, Enters
<1>2. job.at = 8 BY <1>1, StageNumber DEF JobSoFar
<1> DEFINE agree == RefsAgree(conf, Selected(conf, learned.arena, learned.weights))
<1>3. CASE ~agree BY <1>1, <1>3, FailingKeeps DEF GenerateFirmwareStage
<1>4. CASE agree
  <2>1. /\ Advance /\ made' = made \cup {"firmware_dir"} /\ learned' = learned
        /\ app' = Generated(conf, learned.arena, learned.weights)
    BY <1>4 DEF GenerateFirmwareStage, Gives
  <2>2. \A k \in 1..17 : k <= job.at /\ (k < job.at => Owed(k)) => Owed(k)'
    BY <1>1, <1>2, <2>1 DEF Owed, configVars, NpuSettled, NpuAgrees, SourceAnalysed, Placed
  <2>3. job'.at = 9 BY <1>1, <2>1, NextAt DEF JobSoFar
  <2>4. Sourced'
    BY <1>1, <1>2, <1>4, <2>1, <2>3 DEF JobSoFar, Sourced, configVars, Deployed
  <2> QED BY <1>1, <2>1, <2>2, <2>4, PassKeeps DEF JobSoFar, JobShape
<1> QED BY <1>3, <1>4

LEMMA BuildKeeps ==
  ASSUME JobSoFar, BuildFirmwareStage PROVE JobSoFar'
<1>1. Running /\ Current = PipelineStages[9] /\ UNCHANGED <<configVars, host>>
  BY StagesInOrder DEF BuildFirmwareStage, Works, Enters
<1>2. job.at = 9 BY <1>1, StageNumber DEF JobSoFar
<1>3. Advance /\ made' = made \cup {"profile_firmware"} /\ UNCHANGED <<learned, app>> BY DEF BuildFirmwareStage, Gives
<1>4. \A k \in 1..17 : k <= job.at /\ (k < job.at => Owed(k)) => Owed(k)'
  BY <1>1, <1>2, <1>3 DEF Owed, configVars, NpuSettled, NpuAgrees, SourceAnalysed, Placed, PlanFits
<1>5. job'.at = 10 BY <1>1, <1>3, NextAt DEF JobSoFar
<1>6. Sourced' BY <1>1, <1>2, <1>3, <1>5 DEF JobSoFar, Sourced, configVars, Deployed
<1> QED BY <1>1, <1>3, <1>4, <1>6, PassKeeps DEF JobSoFar, JobShape

LEMMA VerifyKeeps ==
  ASSUME JobSoFar, VerifyPlacementStage PROVE JobSoFar'
<1>1. Running /\ Current = PipelineStages[10] /\ UNCHANGED <<configVars, host>>
  BY StagesInOrder DEF VerifyPlacementStage, Works, Enters
<1>2. job.at = 10 BY <1>1, StageNumber DEF JobSoFar
<1>3. Advance /\ made' = made \cup {} /\ UNCHANGED <<learned, app>> BY DEF VerifyPlacementStage, Gives
<1>4. \A k \in 1..17 : k <= job.at /\ (k < job.at => Owed(k)) => Owed(k)'
  BY <1>1, <1>2, <1>3 DEF Owed, configVars, NpuSettled, NpuAgrees, SourceAnalysed, Placed, PlanFits
<1>5. job'.at = 11 BY <1>1, <1>3, NextAt DEF JobSoFar
<1>6. Sourced' BY <1>1, <1>2, <1>3, <1>5 DEF JobSoFar, Sourced, configVars, Deployed
<1> QED BY <1>1, <1>3, <1>4, <1>6, PassKeeps DEF JobSoFar, JobShape

LEMMA FlashKeeps ==
  ASSUME JobSoFar, FlashFirmwareStage PROVE JobSoFar'
<1>1. Running /\ Current = PipelineStages[11] /\ UNCHANGED <<configVars, host>>
  BY StagesInOrder DEF FlashFirmwareStage, Works, Enters
<1>2. job.at = 11 BY <1>1, StageNumber DEF JobSoFar
<1>3. Advance /\ made' = made \cup {"profile_deployment"} /\ UNCHANGED <<learned, app>> BY DEF FlashFirmwareStage, Gives
<1>4. \A k \in 1..17 : k <= job.at /\ (k < job.at => Owed(k)) => Owed(k)'
  BY <1>1, <1>2, <1>3 DEF Owed, configVars, NpuSettled, NpuAgrees, SourceAnalysed, Placed, PlanFits
<1>5. job'.at = 12 BY <1>1, <1>3, NextAt DEF JobSoFar
<1>6. Sourced' BY <1>1, <1>2, <1>3, <1>5 DEF JobSoFar, Sourced, configVars, Deployed
<1> QED BY <1>1, <1>3, <1>4, <1>6, PassKeeps DEF JobSoFar, JobShape

LEMMA PmuKeeps ==
  ASSUME JobSoFar, CapturePmuStage PROVE JobSoFar'
<1>1. Running /\ Current = PipelineStages[12] /\ UNCHANGED <<configVars, host>>
  BY StagesInOrder DEF CapturePmuStage, Works, Enters
<1>2. job.at = 12 BY <1>1, StageNumber DEF JobSoFar
<1>3. Advance /\ made' = made \cup {"pmu_result"} /\ app' = app BY DEF CapturePmuStage, Gives
<1>4. PICK b : learned' = [learned EXCEPT !.timed = b] BY DEF CapturePmuStage
<1>5. /\ DOMAIN learned' = {"arena", "weights", "compiled", "timed", "counted"}
      /\ learned'.arena = learned.arena /\ learned'.weights = learned.weights
  BY <1>4 DEF JobSoFar, JobShape
<1>6. \A k \in 1..17 : k <= job.at /\ (k < job.at => Owed(k)) => Owed(k)'
  BY <1>1, <1>2, <1>3, <1>5 DEF Owed, configVars, NpuSettled, NpuAgrees, SourceAnalysed, Placed
<1>7. job'.at = 13 BY <1>1, <1>3, NextAt DEF JobSoFar
<1>8. Sourced' BY <1>1, <1>2, <1>3, <1>5, <1>7 DEF JobSoFar, Sourced, configVars, Deployed
<1> QED BY <1>1, <1>3, <1>5, <1>6, <1>8, PassKeeps

LEMMA PlanKeeps ==
  ASSUME JobSoFar, PlanPowerRunStage PROVE JobSoFar'
<1>1. Running /\ Current = PipelineStages[13] /\ UNCHANGED <<configVars, host>>
  BY StagesInOrder DEF PlanPowerRunStage, Works, Enters
<1>2. job.at = 13 BY <1>1, StageNumber DEF JobSoFar
<1> DEFINE fits == DriverMode(conf.power.driver) = conf.power.mode
<1>3. CASE ~fits BY <1>1, <1>3, FailingKeeps DEF PlanPowerRunStage
<1>4. CASE fits
  <2>1. /\ Advance /\ made' = made \cup {"power_plan"} /\ app' = app
        /\ learned' = [learned EXCEPT !.counted =
               conf.power.firmware = "dedicated" /\ (~Infers(conf) \/ learned.timed)]
    BY <1>4 DEF PlanPowerRunStage, Gives
  <2>2. /\ DOMAIN learned' = {"arena", "weights", "compiled", "timed", "counted"}
        /\ learned'.arena = learned.arena /\ learned'.weights = learned.weights
        /\ learned'.timed = learned.timed
        /\ learned'.counted = (conf.power.firmware = "dedicated" /\ (~Infers(conf) \/ learned.timed))
    BY <2>1 DEF JobSoFar, JobShape
  <2>3. PlanFits' BY <1>1, <1>4, <2>1, <2>2 DEF PlanFits, configVars, DedicatedImage
  <2>4. \A k \in 1..17 : k <= job.at /\ (k < job.at => Owed(k)) => Owed(k)'
    BY <1>1, <1>2, <2>1, <2>2, <2>3 DEF Owed, configVars, NpuSettled, NpuAgrees, SourceAnalysed, Placed
  <2>5. job'.at = 14 BY <1>1, <2>1, NextAt DEF JobSoFar
  <2>6. Sourced' BY <1>1, <1>2, <2>1, <2>2, <2>5 DEF JobSoFar, Sourced, configVars, Deployed
  <2> QED BY <1>1, <2>1, <2>2, <2>4, <2>6, PassKeeps
<1> QED BY <1>3, <1>4

LEMMA PowerBuildKeeps ==
  ASSUME JobSoFar, BuildPowerFirmwareStage PROVE JobSoFar'
<1>1. Running /\ Current = PipelineStages[14] /\ UNCHANGED <<configVars, host>>
  BY StagesInOrder DEF BuildPowerFirmwareStage, Works, Enters
<1>2. job.at = 14 BY <1>1, StageNumber DEF JobSoFar
<1>3. Advance /\ made' = made \cup {"power_firmware"} /\ UNCHANGED <<learned, app>> BY DEF BuildPowerFirmwareStage, Gives
<1>4. \A k \in 1..17 : k <= job.at /\ (k < job.at => Owed(k)) => Owed(k)'
  BY <1>1, <1>2, <1>3 DEF Owed, configVars, NpuSettled, NpuAgrees, SourceAnalysed, Placed, PlanFits
<1>5. job'.at = 15 BY <1>1, <1>3, NextAt DEF JobSoFar
<1>6. Sourced' BY <1>1, <1>2, <1>3, <1>5 DEF JobSoFar, Sourced, configVars, Deployed
<1> QED BY <1>1, <1>3, <1>4, <1>6, PassKeeps DEF JobSoFar, JobShape

LEMMA PowerFlashKeeps ==
  ASSUME JobSoFar, FlashPowerFirmwareStage PROVE JobSoFar'
<1>1. Running /\ Current = PipelineStages[15] /\ UNCHANGED <<configVars, host>>
  BY StagesInOrder DEF FlashPowerFirmwareStage, Works, Enters
<1>2. job.at = 15 BY <1>1, StageNumber DEF JobSoFar
<1>3. Advance /\ made' = made \cup {"power_deployment"} /\ UNCHANGED <<learned, app>> BY DEF FlashPowerFirmwareStage, Gives
<1>4. \A k \in 1..17 : k <= job.at /\ (k < job.at => Owed(k)) => Owed(k)'
  BY <1>1, <1>2, <1>3 DEF Owed, configVars, NpuSettled, NpuAgrees, SourceAnalysed, Placed, PlanFits
<1>5. job'.at = 16 BY <1>1, <1>3, NextAt DEF JobSoFar
<1>6. Sourced' BY <1>1, <1>2, <1>3, <1>5 DEF JobSoFar, Sourced, configVars, Deployed
<1> QED BY <1>1, <1>3, <1>4, <1>6, PassKeeps DEF JobSoFar, JobShape

LEMMA ObservationKeeps ==
  ASSUME JobSoFar, CapturePowerStage PROVE JobSoFar'
<1>1. Running /\ Current = PipelineStages[16] /\ UNCHANGED <<configVars, host>>
  BY StagesInOrder DEF CapturePowerStage, Works, Enters
<1>2. job.at = 16 BY <1>1, StageNumber DEF JobSoFar
<1>3. Advance /\ made' = made \cup {"observation"} /\ UNCHANGED <<learned, app>> BY DEF CapturePowerStage, Gives
<1>4. \A k \in 1..17 : k <= job.at /\ (k < job.at => Owed(k)) => Owed(k)'
  BY <1>1, <1>2, <1>3 DEF Owed, configVars, NpuSettled, NpuAgrees, SourceAnalysed, Placed, PlanFits
<1>7. PowerEnabled(conf) /\ conf.power.mode # "internal" BY SkipsWhen, StagesInOrder DEF CapturePowerStage, Works, Enters
<1>5. job'.at = 17 BY <1>1, <1>3, NextAt DEF JobSoFar
<1>6. Sourced' BY <1>1, <1>2, <1>3, <1>5, <1>7 DEF JobSoFar, Sourced, configVars, Deployed
<1> QED BY <1>1, <1>3, <1>4, <1>6, PassKeeps DEF JobSoFar, JobShape

LEMMA TerminalKeeps ==
  ASSUME JobSoFar, CollectPowerTerminalStage PROVE JobSoFar'
<1>1. Running /\ Current = PipelineStages[17] /\ UNCHANGED <<configVars, host>>
  BY StagesInOrder DEF CollectPowerTerminalStage, Works, Enters
<1>2. job.at = 17 BY <1>1, StageNumber DEF JobSoFar
<1>3. Advance /\ made' = made \cup {"terminal"} /\ UNCHANGED <<learned, app>> BY DEF CollectPowerTerminalStage, Gives
<1>4. \A k \in 1..17 : k <= job.at /\ (k < job.at => Owed(k)) => Owed(k)'
  BY <1>1, <1>2, <1>3 DEF Owed, configVars, NpuSettled, NpuAgrees, SourceAnalysed, Placed, PlanFits
<1>7. DedicatedImage(conf) BY SkipsWhen, StagesInOrder DEF CollectPowerTerminalStage, Works, Enters
<1>5. job'.at = 18 BY <1>1, <1>3, NextAt DEF JobSoFar
<1>6. Sourced' BY <1>1, <1>2, <1>3, <1>5, <1>7 DEF JobSoFar, Sourced, configVars, Deployed
<1> QED BY <1>1, <1>3, <1>4, <1>6, PassKeeps DEF JobSoFar, JobShape

LEMMA ReportKeeps ==
  ASSUME JobSoFar, GenerateReportStage PROVE JobSoFar'
<1>1. Running /\ Current = PipelineStages[18] /\ UNCHANGED <<configVars, host>>
  BY StagesInOrder DEF GenerateReportStage, Works, Enters
<1>2. job.at = 18 BY <1>1, StageNumber DEF JobSoFar
<1>3. Advance /\ made' = made \cup {"report"} /\ UNCHANGED <<learned, app>> BY DEF GenerateReportStage, Gives
<1>4. \A k \in 1..17 : k <= job.at /\ (k < job.at => Owed(k)) => Owed(k)'
  BY <1>1, <1>2, <1>3 DEF Owed, configVars, NpuSettled, NpuAgrees, SourceAnalysed, Placed, PlanFits
<1>5. job'.at = 18 BY <1>1, <1>3, NextAt DEF JobSoFar
<1>6. Sourced' BY <1>1, <1>2, <1>3, <1>5 DEF JobSoFar, Sourced, configVars, Deployed
<1> QED BY <1>1, <1>3, <1>4, <1>6, PassKeeps DEF JobSoFar, JobShape

LEMMA SkippingOwesNothing ==
  ASSUME JobSoFar, Running, SkipsItself(Current)
  PROVE  Owed(job.at)
<1>1. PICK n \in 1..18 : n = job.at BY StageAt DEF JobSoFar
<1>2. SkipsItself(PipelineStages[n]) BY <1>1 DEF Current
<1>3. n \notin {1, 3, 5, 7, 8, 9, 11, 12, 18} BY <1>2, SkipsWhen
<1>4. n > 13 => Owed(13) BY <1>1 DEF JobSoFar, Foreseen
<1>5. n = 14 /\ DedicatedImage(conf) => "power_plan" \in made
  BY <1>4 DEF Owed, PlanFits, DedicatedImage
<1>6. Owed(n) BY <1>2, <1>3, <1>5, SkipsWhen DEF Owed, NpuSettled
<1> QED BY <1>1, <1>6

LEMMA SkipKeeps ==
  ASSUME JobSoFar, SkipStage PROVE JobSoFar'
<1>1. Running /\ SkipsItself(Current) /\ Advance /\ UNCHANGED <<configVars, host, made, learned, app>>
  BY DEF SkipStage
<1>2. Owed(job.at) BY <1>1, SkippingOwesNothing
<1>3. PICK n \in 1..18 : n = job.at BY <1>1, StageAt DEF JobSoFar
<1>4. Current = PipelineStages[n] BY <1>3 DEF Current
<1>5. job'.at = IF n = 18 THEN 18 ELSE n + 1 BY <1>1, <1>4, NextAt DEF JobSoFar
<1>6. \A k \in 1..17 : Owed(k) => Owed(k)'
  BY <1>1 DEF Owed, configVars, NpuSettled, NpuAgrees, SourceAnalysed, Placed, PlanFits
<1>7. \A k \in 1..17 : k <= n /\ ~(k < n) => k = n OBVIOUS
<1>8. \A k \in 1..17 : k <= job.at /\ (k < job.at => Owed(k)) => Owed(k)'
  BY <1>2, <1>3, <1>6, <1>7
<1>9. Sourced' BY <1>1, <1>3, <1>5 DEF JobSoFar, Sourced, configVars, Deployed
<1> QED BY <1>1, <1>8, <1>9, PassKeeps DEF JobSoFar, JobShape

\* What the stages read.
LEMMA ReadsWhen ==
  /\ \A n \in {1, 2, 3, 4, 5, 6, 7, 10, 13} : ReadsFirst(PipelineStages[n]) = {}
  /\ ReadsFirst(PipelineStages[8]) = {"artifacts", "soc"}
  /\ ReadsFirst(PipelineStages[9]) = {"artifacts", "firmware_dir"}
  /\ ReadsFirst(PipelineStages[11]) = {"soc", "profile_firmware"}
  /\ ReadsFirst(PipelineStages[12]) = {"soc", "profile_deployment"}
  /\ ReadsFirst(PipelineStages[14]) = {"power_plan", "firmware_dir", "profile_firmware"}
  /\ ReadsFirst(PipelineStages[15]) = {"soc", "power_firmware"}
  /\ ReadsFirst(PipelineStages[16]) =
       {"power_plan"} \cup (IF conf.power.firmware = "dedicated" THEN {"power_deployment"} ELSE {})
  /\ ReadsFirst(PipelineStages[17]) =
       {"power_deployment"} \cup (IF conf.power.mode = "internal" THEN {} ELSE {"observation"})
  /\ ReadsFirst(PipelineStages[18]) = {"pmu_result"}
<1>1. ReadsFirst("preflight") = {} /\ ReadsFirst("ensure_board_powered") = {} BY DEF ReadsFirst
<1>2. ReadsFirst("resolve_platform") = {} /\ ReadsFirst("resolve_jlink_probe") = {} BY DEF ReadsFirst
<1>3. ReadsFirst("prepare_engine") = {} /\ ReadsFirst("analyze_model") = {} BY DEF ReadsFirst
<1>4. ReadsFirst("plan_memory") = {} /\ ReadsFirst("verify_placement") = {} BY DEF ReadsFirst
<1>5. ReadsFirst("plan_power_run") = {} BY DEF ReadsFirst
<1>6. ReadsFirst("generate_firmware") = {"artifacts", "soc"} BY DEF ReadsFirst
<1>7. ReadsFirst("build_firmware") = {"artifacts", "firmware_dir"} BY DEF ReadsFirst
<1>8. ReadsFirst("flash_firmware") = {"soc", "profile_firmware"} BY DEF ReadsFirst
<1>9. ReadsFirst("capture_pmu") = {"soc", "profile_deployment"} BY DEF ReadsFirst
<1>10. ReadsFirst("build_power_firmware") = {"power_plan", "firmware_dir", "profile_firmware"} BY DEF ReadsFirst
<1>11. ReadsFirst("flash_power_firmware") = {"soc", "power_firmware"} BY DEF ReadsFirst
<1>12. ReadsFirst("capture_power") =
         {"power_plan"} \cup (IF conf.power.firmware = "dedicated" THEN {"power_deployment"} ELSE {})
  BY DEF ReadsFirst
<1>13. ReadsFirst("collect_power_terminal") =
         {"power_deployment"} \cup (IF conf.power.mode = "internal" THEN {} ELSE {"observation"})
  BY DEF ReadsFirst
<1>14. ReadsFirst("generate_report") = {"pmu_result"} BY DEF ReadsFirst
<1>15. \A n \in {1, 2, 3, 4, 5, 6, 7, 10, 13} : ReadsFirst(PipelineStages[n]) = {}
  BY <1>1, <1>2, <1>3, <1>4, <1>5, StagesInOrder
<1> QED BY <1>6, <1>7, <1>8, <1>9, <1>10, <1>11, <1>12, <1>13, <1>14, <1>15, StagesInOrder

LEMMA OnlyThePowerFlashStarves ==
  ASSUME JobSoFar, Running, ~SkipsItself(Current), ~(ReadsFirst(Current) \subseteq made)
  PROVE  job.at = 15 /\ Infers(conf) /\ ~learned.timed
<1>1. PICK n \in 1..18 : n = job.at BY StageAt DEF JobSoFar
<1>2. Current = PipelineStages[n] BY <1>1 DEF Current
<1>3. ~(ReadsFirst(PipelineStages[n]) \subseteq made) /\ ~SkipsItself(PipelineStages[n]) BY <1>2
<1>4. n \in {8, 9, 11, 12, 14, 15, 16, 17, 18} BY <1>3, ReadsWhen
<1>5. \A k \in 1..17 : n > k => Owed(k) BY <1>1 DEF JobSoFar, Foreseen
<1>6. /\ n > 3 => "soc" \in made
      /\ n > 5 => "artifacts" \in made
      /\ n > 8 => "firmware_dir" \in made
      /\ n > 9 => "profile_firmware" \in made
      /\ n > 11 => "profile_deployment" \in made
      /\ n > 12 => "pmu_result" \in made
  BY <1>5 DEF Owed
<1>7. /\ n > 13 /\ PowerEnabled(conf) => PlanFits
      /\ n > 14 /\ DedicatedImage(conf) /\ learned.counted => "power_firmware" \in made
      /\ n > 15 /\ DedicatedImage(conf) => "power_deployment" \in made
      /\ n > 16 /\ PowerEnabled(conf) /\ conf.power.mode # "internal" => "observation" \in made
  BY <1>5 DEF Owed
<1>8. n \notin {8, 9, 11, 12, 18} BY <1>3, <1>6, ReadsWhen
<1>9. n # 14
  <2> SUFFICES ASSUME n = 14 PROVE FALSE OBVIOUS
  <2>1. "power_plan" \in made BY <1>3, SkipsWhen
  <2> QED BY <2>1, <1>3, <1>6, ReadsWhen
<1>10. n # 16
  <2> SUFFICES ASSUME n = 16 PROVE FALSE OBVIOUS
  <2>1. PowerEnabled(conf) BY <1>3, SkipsWhen
  <2>2. "power_plan" \in made BY <2>1, <1>7 DEF PlanFits
  <2>3. conf.power.firmware = "dedicated" => "power_deployment" \in made
    BY <2>1, <1>7 DEF DedicatedImage
  <2> QED BY <2>2, <2>3, <1>3, ReadsWhen
<1>11. n # 17
  <2> SUFFICES ASSUME n = 17 PROVE FALSE OBVIOUS
  <2>1. DedicatedImage(conf) /\ PowerEnabled(conf) BY <1>3, SkipsWhen DEF DedicatedImage
  <2>2. "power_deployment" \in made BY <2>1, <1>7
  <2>3. conf.power.mode # "internal" => "observation" \in made BY <2>1, <1>7
  <2> QED BY <2>2, <2>3, <1>3, ReadsWhen
<1>12. n = 15 BY <1>4, <1>8, <1>9, <1>10, <1>11
<1>13. DedicatedImage(conf) /\ PowerEnabled(conf) BY <1>3, <1>12, SkipsWhen DEF DedicatedImage
<1>14. "power_firmware" \notin made BY <1>3, <1>6, <1>12, ReadsWhen
<1>15. learned.counted = (~Infers(conf) \/ learned.timed) BY <1>7, <1>12, <1>13 DEF PlanFits
<1>16. ~learned.counted BY <1>7, <1>12, <1>13, <1>14
<1> QED BY <1>1, <1>12, <1>15, <1>16

LEMMA StarvingKeeps ==
  ASSUME JobSoFar, Starves PROVE JobSoFar'
<1>1. /\ Running /\ ~SkipsItself(Current) /\ ~(ReadsFirst(Current) \subseteq made)
      /\ Fails("starved") /\ UNCHANGED <<configVars, host>>
  BY DEF Starves
<1>2. job.at = 15 /\ Infers(conf) /\ ~learned.timed BY <1>1, OnlyThePowerFlashStarves
<1> QED BY <1>1, <1>2, FailingKeeps

LEMMA BreakingKeeps ==
  ASSUME JobSoFar, Breaks PROVE JobSoFar'
BY FailingKeeps DEF Breaks

LEMMA StartKeeps ==
  ASSUME JobSoFar, StartRun PROVE JobSoFar'
<1>1. /\ settled = "resolved" /\ job.status = "idle" /\ job' = [job EXCEPT !.status = "running", !.at = 1]
      /\ settled' = "handed over" /\ UNCHANGED <<conf, host, made, learned, app>>
  BY DEF StartRun
<1>2. job = [status |-> "idle", at |-> 0, why |-> ""] /\ made = {} /\ ConfSound(conf)
  BY <1>1 DEF JobSoFar, JobShape
<1>3. job' = [status |-> "running", at |-> 1, why |-> ""] BY <1>1, <1>2
<1>4. job'.status = "running" /\ job'.at = 1 /\ job'.why = "" BY <1>3
<1>5. job' = [status |-> job'.status, at |-> job'.at, why |-> job'.why] BY <1>3, <1>4
<1>10. DOMAIN learned' = {"arena", "weights", "compiled", "timed", "counted"} /\ ConfSound(conf')
  BY <1>1, <1>2 DEF JobSoFar, JobShape
<1>13. 1 \in 0..18 /\ 1 >= 1 OBVIOUS
<1>11. job'.at \in 0..18 /\ job'.at >= 1 BY <1>4, <1>13
<1>6. JobShape' BY <1>1, <1>4, <1>5, <1>10, <1>11 DEF JobShape
<1>12. \A n \in 1..17 : ~(1 > n) OBVIOUS
<1>7. Foreseen' BY <1>4, <1>12 DEF Foreseen
<1>8. Sourced' BY <1>1, <1>2 DEF Sourced, Deployed
<1>9. Starvation' BY <1>4 DEF Starvation
<1> QED BY <1>6, <1>7, <1>8, <1>9 DEF JobSoFar

\* Before the run there is nothing but its configuration.
LEMMA BeforeTheRun ==
  ASSUME JobSoFar, settled = "open", UNCHANGED <<job, made, learned, app>>,
         settled' \in {"open", "refused"} \/ (settled' = "resolved" /\ ConfSound(conf'))
  PROVE  JobSoFar'
<1>1. job.status = "idle" /\ job.at = 0 /\ made = {} /\ job.why = "" BY DEF JobSoFar, JobShape
<1>2. JobShape'
  <2>1. settled' \notin {"resolved", "handed over"} \/ ConfSound(conf') OBVIOUS
  <2> QED BY <1>1, <2>1 DEF JobSoFar, JobShape, ConfSound, Coherent, WiredForLockstep, ShuntKnown, OneMode
<1>6. \A n \in 1..17 : ~(0 > n) OBVIOUS
<1>3. Foreseen' BY <1>1, <1>6 DEF Foreseen
<1>4. Sourced' BY <1>1 DEF Sourced, Deployed
<1>5. Starvation' BY <1>1 DEF Starvation
<1> QED BY <1>2, <1>3, <1>4, <1>5 DEF JobSoFar

LEMMA SettlingKeeps ==
  ASSUME JobSoFar, SettleConfig PROVE JobSoFar'
<1>1. PICK h \in ComputeHosts : ResolveConfig(h) \/ ResolveWithModel("another", h) BY DEF SettleConfig
<1>2. PICK m : Load(m, h) BY <1>1 DEF ResolveConfig, ResolveWithModel
<1>3. settled = "open" BY <1>1 DEF ResolveConfig, ResolveWithModel
<1>4. settled' = (IF LoadsConfig(m, h) THEN "resolved" ELSE "refused") BY <1>2 DEF Load
<1>5. LoadsConfig(m, h) => conf' = ConfigOf(m) BY <1>2 DEF Load
<1>6. LoadsConfig(m, h) => ConfSound(conf') BY <1>5, SettledIsSound
<1>7. settled' \in {"open", "refused"} \/ (settled' = "resolved" /\ ConfSound(conf')) BY <1>4, <1>6
<1>8. UNCHANGED <<job, made, learned, app>> BY DEF SettleConfig
<1> QED BY <1>3, <1>7, <1>8, BeforeTheRun

LEMMA ComposingKeeps ==
  ASSUME JobSoFar, Compose PROVE JobSoFar'
<1>1. settled = "open" /\ settled' = "open" BY DEF Compose, With, SaveAndLoad
<1>2. UNCHANGED <<job, made, learned, app>> BY DEF Compose
<1> QED BY <1>1, <1>2, BeforeTheRun

LEMMA IdlingKeeps ==
  ASSUME JobSoFar, UNCHANGED pipelineVars PROVE JobSoFar'
<1>1. /\ job' = job /\ made' = made /\ learned' = learned /\ app' = app /\ host' = host
      /\ conf' = conf /\ settled' = settled
  BY DEF pipelineVars, configVars
<1>2. JobShape' BY <1>1 DEF JobSoFar, JobShape
<1>3. Foreseen'
  <2>1. \A n \in 1..17 : Owed(n) => Owed(n)'
    BY <1>1 DEF Owed, Placed, NpuSettled, NpuAgrees, SourceAnalysed, PlanFits
  <2> QED BY <1>1, <2>1 DEF JobSoFar, Foreseen
<1>4. Sourced' BY <1>1 DEF JobSoFar, Sourced, Deployed
<1>5. Starvation' BY <1>1 DEF JobSoFar, Starvation
<1> QED BY <1>2, <1>3, <1>4, <1>5 DEF JobSoFar

LEMMA JobStarts == ASSUME PipelineStart PROVE JobSoFar
<1>1. /\ job = [status |-> "idle", at |-> 0, why |-> ""] /\ made = {} /\ learned = NothingLearned
      /\ settled = "open"
  BY DEF PipelineStart, PipelineInit, ConfigInit
<1>6. DOMAIN learned = {"arena", "weights", "compiled", "timed", "counted"} BY <1>1 DEF NothingLearned
<1>7. job.status = "idle" /\ job.at = 0 /\ job.why = "" BY <1>1
<1>8. job = [status |-> job.status, at |-> job.at, why |-> job.why] BY <1>1, <1>7
<1>9. 0 \in 0..18 /\ \A n \in 1..17 : ~(0 > n) OBVIOUS
<1>2. JobShape BY <1>1, <1>6, <1>7, <1>8, <1>9 DEF JobShape
<1>3. Foreseen BY <1>7, <1>9 DEF Foreseen
<1>4. Sourced BY <1>1 DEF Sourced, Deployed
<1>5. Starvation BY <1>1 DEF Starvation
<1> QED BY <1>2, <1>3, <1>4, <1>5 DEF JobSoFar

LEMMA StageSteps ==
  ASSUME JobSoFar, PipelineNext
  PROVE  JobSoFar'
<1>1. CASE Compose BY <1>1, ComposingKeeps
<1>2. CASE SettleConfig BY <1>2, SettlingKeeps
<1>3. CASE StartRun BY <1>3, StartKeeps
<1>4. CASE SkipStage BY <1>4, SkipKeeps
<1>5. CASE Starves BY <1>5, StarvingKeeps
<1>6. CASE Breaks BY <1>6, BreakingKeeps
<1>7. CASE PreflightStage BY <1>7, PreflightKeeps
<1>8. CASE EnsureBoardPoweredStage BY <1>8, BoardPoweredKeeps
<1>9. CASE ResolvePlatformStage BY <1>9, PlatformKeeps
<1>10. CASE ResolveJLinkProbeStage BY <1>10, ProbeKeeps
<1>11. CASE PrepareEngineStage BY <1>11, EngineKeeps
<1>12. CASE AnalyzeModelStage BY <1>12, ModelKeeps
<1>13. CASE PlanMemoryStage BY <1>13, MemoryKeeps
<1>14. CASE GenerateFirmwareStage BY <1>14, FirmwareKeeps
<1>15. CASE BuildFirmwareStage BY <1>15, BuildKeeps
<1>16. CASE VerifyPlacementStage BY <1>16, VerifyKeeps
<1>17. CASE FlashFirmwareStage BY <1>17, FlashKeeps
<1>18. CASE CapturePmuStage BY <1>18, PmuKeeps
<1>19. CASE PlanPowerRunStage BY <1>19, PlanKeeps
<1>20. CASE BuildPowerFirmwareStage BY <1>20, PowerBuildKeeps
<1>21. CASE FlashPowerFirmwareStage BY <1>21, PowerFlashKeeps
<1>22. CASE CapturePowerStage BY <1>22, ObservationKeeps
<1>23. CASE CollectPowerTerminalStage BY <1>23, TerminalKeeps
<1>24. CASE GenerateReportStage BY <1>24, ReportKeeps
<1> QED BY <1>1, <1>2, <1>3, <1>4, <1>5, <1>6, <1>7, <1>8, <1>9, <1>10, <1>11, <1>12, <1>13, <1>14,
          <1>15, <1>16, <1>17, <1>18, <1>19, <1>20, <1>21, <1>22, <1>23, <1>24 DEF PipelineNext

\* The session, in every step: a stage leaves it alone, the run takes it away.
LEMMA SessionKept ==
  ASSUME SessionAddsUp, UNCHANGED configVars PROVE SessionAddsUp'
<1>1. intent' = intent /\ given' = given /\ folded' = folded /\ settled' = settled /\ conf' = conf
  BY DEF configVars
<1> QED BY <1>1 DEF SessionAddsUp, MergedIntent, Settled, AddsUp

LEMMA SessionSteps ==
  ASSUME SessionAddsUp, PipelineNext PROVE SessionAddsUp'
<1>1. CASE Compose BY <1>1, WithAddsUp, SavedAddsUp DEF Compose
<1>2. CASE SettleConfig BY <1>2, ResolvedAddsUp DEF SettleConfig
<1>3. CASE StartRun
  <2>1. settled' = "handed over" /\ given' = <<>> BY <1>3 DEF StartRun
  <2>2. <<>> \in Seq(SessionLayers) OBVIOUS
  <2>3. given' \in Seq(SessionLayers)' BY <2>1, <2>2 DEF SessionLayers, ModelLayer, Table
  <2> QED BY <2>1, <2>3 DEF SessionAddsUp
<1>4. CASE UNCHANGED configVars BY <1>4, SessionKept
<1>5. PipelineNext => Compose \/ SettleConfig \/ StartRun \/ UNCHANGED configVars
  BY DEF PipelineNext, SkipStage, Starves, Breaks, Works, Enters, PreflightStage, EnsureBoardPoweredStage,
    ResolvePlatformStage, ResolveJLinkProbeStage, PrepareEngineStage, AnalyzeModelStage, PlanMemoryStage,
    GenerateFirmwareStage, BuildFirmwareStage, VerifyPlacementStage, FlashFirmwareStage, CapturePmuStage,
    PlanPowerRunStage, BuildPowerFirmwareStage, FlashPowerFirmwareStage, CapturePowerStage,
    CollectPowerTerminalStage, GenerateReportStage
<1> QED BY <1>1, <1>2, <1>3, <1>4, <1>5

-----------------------------------------------------------------------------
(* What the stages promise together. *)

LEMMA NobodyElseStarves == ASSUME JobSoFar PROVE NoStageStarves
BY StagesInOrder DEF JobSoFar, Starvation, NoStageStarves, Current

\* A deployed image was preceded by every check of the planning stages.
LEMMA DeployedIsChecked ==
  ASSUME JobSoFar, Deployed
  PROVE  /\ PreflightOk(conf, host) /\ NpuSettled /\ Placed
         /\ app = Generated(conf, learned.arena, learned.weights)
<1>1. job.at > 11 /\ job.at \in 0..18 BY DEF JobSoFar, Sourced, JobShape
<1>2. PICK n \in 0..18 : n = job.at /\ n > 11 BY <1>1
<1>3. \A k \in {1, 6, 7, 8} : k \in 1..17 /\ n > k BY <1>2
<1>4. \A k \in {1, 6, 7, 8} : Owed(k) BY <1>2, <1>3 DEF JobSoFar, Foreseen
<1>5. PreflightOk(conf, host) /\ NpuSettled /\ Placed /\ "firmware_dir" \in made BY <1>4 DEF Owed
<1> QED BY <1>5 DEF JobSoFar, Sourced

LEMMA PsramHasAWriter == ASSUME JobSoFar PROVE PsramIsFilled
<1> SUFFICES ASSUME Deployed, InPsram(conf, learned.arena, learned.weights)
             PROVE  /\ conf.engine.type # "executorch"
                    /\ "psram" \in {learned.arena, learned.weights} => Catalogue[conf.target.board].psram
                    /\ conf.engine.type = "helia-aot" => ~conf.engine.allocate_arenas
                    /\ learned.weights = "psram" /\ conf.engine.type \in Tflm => conf.target.transport = "rtt"
                    /\ {"nsx-psram", "nsx-interrupt"} \subseteq DOMAIN app.rows
                    /\ "nsx-psram" \in app.links.profile
  BY DEF PsramIsFilled
<1>1. /\ PreflightOk(conf, host) /\ Placed /\ app = Generated(conf, learned.arena, learned.weights)
  BY DeployedIsChecked
<1>2. SplitLocationsOk(conf) BY <1>1 DEF PreflightOk
<1>3. /\ learned.arena = "psram" => conf.model.arena_location = "psram"
      /\ learned.weights = "psram" => conf.model.weights_location = "psram"
      /\ "psram" \in {learned.arena, learned.weights} => Catalogue[conf.target.board].psram
  BY <1>1 DEF Placed
<1>4. conf.engine.type # "executorch" BY <1>2, <1>3 DEF SplitLocationsOk, InPsram
<1>5. conf.engine.type = "helia-aot" => ~conf.engine.allocate_arenas
  BY <1>2, <1>3 DEF SplitLocationsOk, InPsram
<1>6. learned.weights = "psram" /\ conf.engine.type \in Tflm => conf.target.transport = "rtt"
  BY <1>2, <1>3 DEF SplitLocationsOk
<1>7. {"nsx-psram", "nsx-interrupt"} \subseteq Selected(conf, learned.arena, learned.weights) BY DEF Selected
<1>8. DOMAIN app.rows = Selected(conf, learned.arena, learned.weights) \cup Brought(conf)
  BY <1>1 DEF Generated, Rows
<1>9. "nsx-psram" \in app.links.profile BY <1>1 DEF Generated, LinkLines
<1> QED BY <1>3, <1>4, <1>5, <1>6, <1>7, <1>8, <1>9

LEMMA NpuModelMet == ASSUME JobSoFar PROVE NpuMeetsItsModel
<1> SUFFICES ASSUME Deployed, conf.engine.type # "executorch"
             PROVE  /\ OnNpu(conf) => /\ SourceAnalysed
                                      /\ host.model.vela \in {"unknown", Catalogue[conf.target.board].npu}
                                      /\ NpuModule \in app.links.profile
                    /\ SourceAnalysed => (OnNpu(conf) <=> host.model.vela # "none")
  BY DEF NpuMeetsItsModel
<1>1. PreflightOk(conf, host) /\ NpuSettled /\ app = Generated(conf, learned.arena, learned.weights)
  BY DeployedIsChecked
<1>2. NpuBackendOk(conf, host) BY <1>1 DEF PreflightOk
<1>3. host.litert => NpuAgrees BY <1>1 DEF NpuSettled
<1>4. SourceAnalysed => (OnNpu(conf) <=> host.model.vela # "none") BY <1>3 DEF NpuAgrees, SourceAnalysed
<1>5. ASSUME OnNpu(conf)
      PROVE  /\ SourceAnalysed /\ host.model.vela \in {"unknown", Catalogue[conf.target.board].npu}
             /\ NpuModule \in app.links.profile
  <2>1. host.litert /\ host.model.vela \in {"none", "unknown", Catalogue[conf.target.board].npu}
    BY <1>2, <1>5 DEF NpuBackendOk
  <2>2. SourceAnalysed BY <1>3, <1>5, <2>1 DEF NpuAgrees
  <2>3. host.model.vela # "none" BY <1>4, <1>5, <2>2
  <2>4. NpuModule \in app.links.profile BY <1>1, <1>5 DEF Generated, LinkLines, OnNpu
  <2> QED BY <2>1, <2>2, <2>3, <2>4
<1> QED BY <1>4, <1>5

LEMMA ObservedIsPlanned ==
  ASSUME JobSoFar, "observation" \in made
  PROVE  /\ PreflightOk(conf, host) /\ PowerEnabled(conf) /\ conf.power.mode = "external"
         /\ conf.power.driver # "ina228"
<1>1. job.at > 16 /\ job.at \in 0..18 /\ PowerEnabled(conf) /\ conf.power.mode # "internal"
  BY DEF JobSoFar, Sourced, JobShape
<1>2. PICK n \in 0..18 : n = job.at /\ n > 16 BY <1>1
<1>3. \A k \in {1, 13} : k \in 1..17 /\ n > k BY <1>2
<1>4. Owed(1) /\ Owed(13) BY <1>2, <1>3 DEF JobSoFar, Foreseen
<1>5. PreflightOk(conf, host) /\ PlanFits BY <1>1, <1>4 DEF Owed
<1>6. DriverMode(conf.power.driver) # "internal" BY <1>1, <1>5 DEF PlanFits
<1>7. conf.power.driver # "ina228" /\ DriverMode(conf.power.driver) = "external" BY <1>6 DEF DriverMode
<1>8. conf.power.mode = "external" BY <1>5, <1>7 DEF PlanFits
<1> QED BY <1>1, <1>5, <1>7, <1>8

LEMMA UsbIsFree == ASSUME JobSoFar PROVE SharedUsbIsFree
<1> SUFFICES ASSUME "observation" \in made, conf.target.transport = "usb_cdc",
                    conf.power.firmware = "shared", Locksteps(conf)
             PROVE  FALSE
  BY DEF SharedUsbIsFree
<1>1. PreflightOk(conf, host) /\ PowerEnabled(conf) BY ObservedIsPlanned
<1> QED BY <1>1 DEF PreflightOk, TransportOk

LEMMA TheInstrumentFits == ASSUME JobSoFar PROVE InstrumentFits
<1>1. "observation" \in made => conf.power.mode = "external" /\ conf.power.driver # "ina228"
  BY ObservedIsPlanned
<1>2. ASSUME "terminal" \in made, conf.power.mode = "internal"
      PROVE  /\ DedicatedImage(conf) /\ MonitorOnTarget(conf)
             /\ {"nsx-i2c", "nsx-sensors"} \subseteq app.links.power
  <2>1. job.at > 17 /\ job.at \in 0..18 /\ DedicatedImage(conf) /\ PowerEnabled(conf)
    BY <1>2 DEF JobSoFar, Sourced, JobShape, DedicatedImage
  <2>2. PICK n \in 0..18 : n = job.at /\ n > 17 BY <2>1
  <2>3. \A k \in {8, 13} : k \in 1..17 /\ n > k BY <2>2
  <2>4. Owed(8) /\ Owed(13) BY <2>2, <2>3 DEF JobSoFar, Foreseen
  <2>5. PlanFits /\ "firmware_dir" \in made BY <2>1, <2>4 DEF Owed
  <2>6. conf.power.driver = "ina228" BY <1>2, <2>5 DEF PlanFits, DriverMode
  <2>7. PICK m \in 1..18 : m = n BY <2>2
  <2>8. Coherent(conf)
    <3>1. job.at # 0 BY <2>2
    <3>2. ConfSound(conf) BY <3>1 DEF JobSoFar, JobShape
    <3> QED BY <3>2 DEF ConfSound
  <2>9. ShuntKnown(conf) BY <2>6, <2>8 DEF Coherent
  <2>10. MonitorOnTarget(conf) BY <2>1, <2>9 DEF MonitorOnTarget
  <2>11. app.links = LinkLines(conf, learned.arena, learned.weights)
    BY <2>5 DEF JobSoFar, Sourced, Generated
  <2>12. {"nsx-i2c", "nsx-sensors"} \subseteq LinkLines(conf, learned.arena, learned.weights).power
    BY <2>1, <2>10 DEF LinkLines
  <2> QED BY <2>1, <2>10, <2>11, <2>12
<1> QED BY <1>1, <1>2 DEF InstrumentFits

\* The three places that gate a module agree: what is linked is listed.
LEMMA LinkedIsListed ==
  ASSUME NEW c, NEW arena, NEW weights, c.target.board \in DOMAIN Catalogue
  PROVE  LinksWhatItLists(Generated(c, arena, weights))
<1> DEFINE names == Selected(c, arena, weights)
           links == LinkLines(c, arena, weights)
<1>1. DOMAIN Generated(c, arena, weights).rows = names \cup Brought(c) BY DEF Generated, Rows
<1>2. Generated(c, arena, weights).links = links BY DEF Generated
<1>3. links.profile \subseteq names \cup Brought(c)
  BY DEF LinkLines, Selected, Starter, Brought
<1>4. links.power \subseteq names \cup Brought(c)
  BY DEF LinkLines, Selected, Starter, Brought, MonitorOnTarget, GatedExternally
<1> QED BY <1>1, <1>2, <1>3, <1>4 DEF LinksWhatItLists

\* Whatever a run selects may be selected for its board.
LEMMA SelectedIsSelectable ==
  ASSUME NEW c, NEW arena, NEW weights
  PROVE  Selected(c, arena, weights) \subseteq Selectable(c.target.board)
BY DEF Selected, Selectable

\* A row of a selected module takes the ref of its project, or is a local directory.
LEMMA RefOfSelected ==
  ASSUME NEW c, NEW names, NEW n \in names
  PROVE  /\ SelectedRow(c, names, n).project = ProjectOf(c.target.board, n)
         /\ SelectedRow(c, names, n).local => SelectedRow(c, names, n).ref = ""
         /\ ~SelectedRow(c, names, n).local =>
              SelectedRow(c, names, n).ref =
                IF ProjectOf(c.target.board, n) \in DOMAIN ProjectRefs(c, names)
                THEN ProjectRefs(c, names)[ProjectOf(c.target.board, n)] ELSE ""
BY DEF SelectedRow, Row

LEMMA RefOfBrought ==
  ASSUME NEW c, NEW n, ~BroughtRow(c, n).local
  PROVE  /\ BroughtRow(c, n).project = EngineModule(c, n).project /\ ~EngineModule(c, n).local
         /\ BroughtRow(c, n).ref = IF EngineModule(c, n).project \in DOMAIN QualifiedRef
                                   THEN QualifiedRef[EngineModule(c, n).project] ELSE ""
BY DEF BroughtRow, Row

\* What an engine brings, but for the NPU's driver, is of a project nothing selected is of.
LEMMA BroughtIsApart ==
  ASSUME NEW c, c.target.board \in DOMAIN Catalogue, NEW arena, NEW weights,
         c.engine.type \in {"litert", "helia-rt", "helia-aot", "executorch"},
         NEW n \in Brought(c), n # NpuModule, ~BroughtRow(c, n).local,
         NEW k \in Selected(c, arena, weights)
  PROVE  BroughtRow(c, n).project # ProjectOf(c.target.board, k)
<1>1. n \in DOMAIN EngineModules[c.engine.type] BY DEF Brought
<1>2. EngineModule(c, n) = EngineModules[c.engine.type][n] BY DEF EngineModule
<1>3. ~EngineModules[c.engine.type][n].local /\ BroughtRow(c, n).project = EngineModules[c.engine.type][n].project
  BY <1>2, RefOfBrought
<1>4. k \in Selectable(c.target.board) BY SelectedIsSelectable
<1>5. c.engine.type \in DOMAIN EngineModules BY EnginesBringTheirOwn
<1> QED BY <1>1, <1>3, <1>4, <1>5, EnginesBringTheirOwn

LEMMA OneRefEach ==
  ASSUME NEW c, c.target.board \in DOMAIN Catalogue, NEW arena, NEW weights,
         c.engine.type \in {"litert", "helia-rt", "helia-aot", "executorch"}
  PROVE  OneRefPerProject(Generated(c, arena, weights))
<1> DEFINE names == Selected(c, arena, weights)
           rows == Generated(c, arena, weights).rows
           registry == Generated(c, arena, weights).registry
<1>1. DOMAIN rows = names \cup Brought(c) /\ DOMAIN registry = names BY DEF Generated, Rows
<1>2. \A n \in names : rows[n] = SelectedRow(c, names, n) BY DEF Generated, Rows
<1>3. \A n \in Brought(c) \ names : rows[n] = BroughtRow(c, n) BY DEF Generated, Rows
<1>4. \A n \in names : registry[n] = RegistryRef(c, names, n) BY DEF Generated
<1> HIDE DEF names, rows, registry
<1>5. ASSUME NEW m \in names, NEW n \in names, rows[m].project = rows[n].project,
             ~rows[m].local, ~rows[n].local
      PROVE  rows[m].ref = rows[n].ref
  <2> DEFINE Pinned(k) == IF ProjectOf(c.target.board, k) \in DOMAIN ProjectRefs(c, names)
                          THEN ProjectRefs(c, names)[ProjectOf(c.target.board, k)] ELSE ""
  <2>1. \A k \in names : /\ rows[k].project = ProjectOf(c.target.board, k)
                         /\ ~rows[k].local => rows[k].ref = Pinned(k)
    <3> SUFFICES ASSUME NEW k \in names
                 PROVE  /\ rows[k].project = ProjectOf(c.target.board, k)
                        /\ ~rows[k].local => rows[k].ref = Pinned(k)
      OBVIOUS
    <3>1. rows[k] = SelectedRow(c, names, k) BY <1>2
    <3>2. /\ SelectedRow(c, names, k).project = ProjectOf(c.target.board, k)
          /\ ~SelectedRow(c, names, k).local => SelectedRow(c, names, k).ref = Pinned(k)
      BY RefOfSelected
    <3> QED BY <3>1, <3>2
  <2>2. ProjectOf(c.target.board, m) = ProjectOf(c.target.board, n) BY <1>5, <2>1
  <2>3. Pinned(m) = Pinned(n) BY <2>2
  <2>4. rows[m].ref = Pinned(m) /\ rows[n].ref = Pinned(n) BY <1>5, <2>1
  <2> QED BY <2>3, <2>4
<1>6. ASSUME NEW m \in names, NEW n \in Brought(c) \ names, n # NpuModule, ~rows[n].local
      PROVE  rows[m].project # rows[n].project
  <2>1. rows[m] = SelectedRow(c, names, m) /\ rows[n] = BroughtRow(c, n) BY <1>2, <1>3
  <2>2. rows[m].project = ProjectOf(c.target.board, m) BY <2>1, RefOfSelected
  <2>3. BroughtRow(c, n).project # ProjectOf(c.target.board, m) BY <1>6, <2>1, BroughtIsApart DEF names
  <2> QED BY <2>1, <2>2, <2>3
<1>7. ASSUME NEW m \in Brought(c) \ names, NEW n \in Brought(c) \ names,
             rows[m].project = rows[n].project, ~rows[m].local, ~rows[n].local
      PROVE  rows[m].ref = rows[n].ref
  <2>1. rows[m] = BroughtRow(c, m) /\ rows[n] = BroughtRow(c, n) BY <1>3
  <2>2. EngineModule(c, m).project = EngineModule(c, n).project BY <1>7, <2>1, RefOfBrought
  <2> QED BY <1>7, <2>1, <2>2, RefOfBrought
<1>8. ASSUME NEW m \in DOMAIN rows, NEW n \in DOMAIN rows, rows[m].project = rows[n].project,
             ~rows[m].local, ~rows[n].local
      PROVE  rows[m].ref = rows[n].ref \/ NpuModule \in {m, n}
  <2>1. CASE m \in names /\ n \in names BY <1>5, <1>8, <2>1
  <2>2. CASE m \in names /\ n \notin names
    <3>1. n \in Brought(c) \ names BY <1>1, <2>2
    <3> QED BY <1>6, <1>8, <2>2, <3>1
  <2>3. CASE m \notin names /\ n \in names
    <3>1. m \in Brought(c) \ names BY <1>1, <2>3
    <3> QED BY <1>6, <1>8, <2>3, <3>1
  <2>4. CASE m \notin names /\ n \notin names
    <3>1. m \in Brought(c) \ names /\ n \in Brought(c) \ names BY <1>1, <2>4
    <3> QED BY <1>7, <1>8, <3>1
  <2> QED BY <2>1, <2>2, <2>3, <2>4
<1>9. ASSUME NEW m \in names, rows[m].ref # ""
      PROVE  registry[m] = rows[m].ref
  <2>1. rows[m] = SelectedRow(c, names, m) /\ registry[m] = RegistryRef(c, names, m) BY <1>2, <1>4
  <2>2. ProjectOf(c.target.board, m) \in DOMAIN ProjectRefs(c, names)
        /\ rows[m].ref = ProjectRefs(c, names)[ProjectOf(c.target.board, m)]
    BY <1>9, <2>1, RefOfSelected
  <2> QED BY <2>1, <2>2 DEF RegistryRef
<1>10. \A m, n \in DOMAIN rows :
         /\ rows[m].project = rows[n].project /\ ~rows[m].local /\ ~rows[n].local =>
              rows[m].ref = rows[n].ref \/ NpuModule \in {m, n}
         /\ m \in DOMAIN registry /\ rows[m].ref # "" => registry[m] = rows[m].ref
  BY <1>1, <1>8, <1>9
<1> QED BY <1>10 DEF OneRefPerProject, rows, registry

LEMMA TheAppIsSound ==
  ASSUME JobSoFar, "firmware_dir" \in made
  PROVE  OneRefPerProject(app) /\ LinksWhatItLists(app)
<1>1. app = Generated(conf, learned.arena, learned.weights) /\ job.at > 8 /\ job.at \in 0..18
  BY DEF JobSoFar, Sourced, JobShape
<1>2. job.at # 0 BY <1>1
<1>3. ConfSound(conf) BY <1>2 DEF JobSoFar, JobShape
<1> QED BY <1>1, <1>3, OneRefEach, LinkedIsListed DEF ConfSound

\* What the properties of a run follow from: the merged intent says what the layers said last,
\* and every stage that was passed left what the later ones take for granted.
RunSoFar == SessionAddsUp /\ JobSoFar

THEOREM RunIsAlwaysAsSoFar == PipelineSpec => []RunSoFar
<1>1. PipelineStart => RunSoFar BY SessionStarts, JobStarts DEF RunSoFar
<1>2. RunSoFar /\ [PipelineNext]_pipelineVars => RunSoFar'
  <2>1. RunSoFar /\ PipelineNext => RunSoFar' BY SessionSteps, StageSteps DEF RunSoFar
  <2>2. RunSoFar /\ UNCHANGED pipelineVars => RunSoFar'
    BY IdlingKeeps, SessionKept DEF RunSoFar, pipelineVars
  <2> QED BY <2>1, <2>2
<1> QED BY <1>1, <1>2, PTL DEF PipelineSpec, PipelineStart

\* The run that is made is the one that was asked for: the last layer has the last word, the pins
\* are the board's, no stage but the power flash starves, PSRAM has a writer, NPU images meet NPU
\* models, lock-step never waits on the shared USB port, the instrument is of the kind the window
\* needs, a project has one ref, and an image links what its app lists.
THEOREM RunIsAlwaysAsConfigured == PipelineSpec => []RunIsAsConfigured
<1>1. RunSoFar => RunIsAsConfigured
  BY LastWordHolds, PinsHold, NobodyElseStarves, PsramHasAWriter, NpuModelMet, UsbIsFree, TheInstrumentFits,
     TheAppIsSound DEF RunSoFar, RunIsAsConfigured
<1> QED BY <1>1, RunIsAlwaysAsSoFar, PTL
=============================================================================
