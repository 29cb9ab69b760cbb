------------------------ MODULE DeviceHandle_proofs ------------------------
(***************************************************************************)
(* The reference count of a Joulescope handle is right, and whoever holds  *)
(* the device has it open, for any number of users and devices.            *)
(***************************************************************************)
EXTENDS DeviceHandle, FiniteSetTheorems, TLAPS

\* The users of a device are finitely many, and none only if the count is zero.
LEMMA UsersCounted ==
  ASSUME NEW p \in Paths
  PROVE  /\ IsFiniteSet(Counted(p)) /\ Cardinality(Counted(p)) \in Nat
         /\ Cardinality(Counted(p)) = 0 <=> Counted(p) = {}
<1>1. Counted(p) \subseteq Users
  BY DEF Counted
<1>2. IsFiniteSet(Counted(p))
  BY <1>1, FS_Subset, HandleAssumption
<1> QED
  BY <1>2, FS_CardinalityType, FS_EmptySet

\* A device with no user has no user of its own in it.
LEMMA NoUser ==
  ASSUME NEW p \in Paths, Counted(p) = {}, NEW u \in Users, device[u] = p
  PROVE  pc[u] \notin {"held", "giveback", "close"}
BY DEF Counted

\* The initial states satisfy the invariant: no device has a user.
LEMMA InitIInv == Init => IInv
<1> SUFFICES ASSUME Init PROVE IInv
  OBVIOUS
<1>1. TypeOK
  BY HandleAssumption DEF Init, TypeOK, Inside
<1>2. \A p \in Paths : Counted(p) = {}
  BY DEF Init, Counted
<1>3. CountIsUsers
  BY <1>2, FS_EmptySet DEF Init, CountIsUsers
<1>4. LockIsOwned /\ OpenWhileHeld /\ VendorCallsAtTheEnds
  BY HandleAssumption DEF Init, LockIsOwned, OpenWhileHeld, VendorCallsAtTheEnds, Inside
<1> QED
  BY <1>1, <1>3, <1>4 DEF IInv

\* A step that moves no user in or out of a device's count keeps all counts.
LEMMA CountsKept ==
  ASSUME CountIsUsers, UNCHANGED refcounts,
         \A p \in Paths : Counted(p)' = Counted(p)
  PROVE  CountIsUsers'
BY DEF CountIsUsers

\* A step of u that stays outside the counted places, or inside them, on one device.
LEMMA CountedKept ==
  ASSUME TypeOK, NEW u \in Users, NEW to,
         pc' = [pc EXCEPT ![u] = to],
         \A v \in Users \ {u} : device'[v] = device[v],
         \/ /\ pc[u] \notin {"held", "giveback", "close"}
            /\ to \notin {"held", "giveback", "close"}
         \/ /\ pc[u] \in {"held", "giveback", "close"}
            /\ to \in {"held", "giveback", "close"}
            /\ device'[u] = device[u]
  PROVE  \A p \in Paths : Counted(p)' = Counted(p)
BY DEF TypeOK, Counted

\* Counting a user in: Reuse adds one to the count, CountOpen begins it.
LEMMA CountedIn ==
  ASSUME IInv, NEW u \in Users, pc[u] \in {"open", "count"},
         pc' = [pc EXCEPT ![u] = "held"], UNCHANGED device,
         refcounts' = [refcounts EXCEPT ![device[u]] = refcounts[device[u]] + 1]
  PROVE  /\ CountIsUsers'
         /\ \A p \in Paths : Counted(p)' = IF p = device[u] THEN Counted(p) \cup {u} ELSE Counted(p)
<1>1. device[u] \in Paths /\ refcounts \in [Paths -> Nat]
  BY DEF IInv, TypeOK
<1>2. \A p \in Paths : Counted(p)' = IF p = device[u] THEN Counted(p) \cup {u} ELSE Counted(p)
  BY DEF IInv, TypeOK, Counted
<1>3. u \notin Counted(device[u])
  BY DEF Counted
<1>4. Cardinality(Counted(device[u]) \cup {u}) = Cardinality(Counted(device[u])) + 1
  BY <1>1, <1>3, UsersCounted, FS_AddElement
<1>5. CountIsUsers'
  BY <1>1, <1>2, <1>4 DEF IInv, CountIsUsers
<1> QED
  BY <1>2, <1>5

\* Counting a user out.
LEMMA CountedOut ==
  ASSUME IInv, NEW u \in Users, NEW to, pc[u] = "close", to \in {"idle", "vendorclose"},
         pc' = [pc EXCEPT ![u] = to], UNCHANGED device,
         refcounts' = [refcounts EXCEPT ![device[u]] = refcounts[device[u]] - 1]
  PROVE  /\ CountIsUsers' /\ refcounts' \in [Paths -> Nat]
         /\ \A p \in Paths : Counted(p)' = IF p = device[u] THEN Counted(p) \ {u} ELSE Counted(p)
         /\ refcounts[device[u]] <= 1 => Counted(device[u])' = {}
<1>1. device[u] \in Paths /\ refcounts \in [Paths -> Nat]
  BY DEF IInv, TypeOK
<1>2. \A p \in Paths : Counted(p)' = IF p = device[u] THEN Counted(p) \ {u} ELSE Counted(p)
  BY DEF IInv, TypeOK, Counted
<1>3. u \in Counted(device[u])
  BY DEF Counted
<1>4. /\ IsFiniteSet(Counted(device[u])) /\ Cardinality(Counted(device[u])) \in Nat
      /\ Cardinality(Counted(device[u])) # 0
  BY <1>1, <1>3, UsersCounted
<1>5. /\ Cardinality(Counted(device[u]) \ {u}) = Cardinality(Counted(device[u])) - 1
      /\ IsFiniteSet(Counted(device[u]) \ {u})
  BY <1>3, <1>4, FS_RemoveElement
<1>6. refcounts[device[u]] = Cardinality(Counted(device[u]))
  BY <1>1 DEF IInv, CountIsUsers
<1>7. CountIsUsers'
  BY <1>1, <1>2, <1>5, <1>6 DEF IInv, CountIsUsers
<1>8. refcounts' \in [Paths -> Nat]
  BY <1>1, <1>4, <1>6
<1>9. ASSUME refcounts[device[u]] <= 1 PROVE Counted(device[u])' = {}
  <2>1. Cardinality(Counted(device[u]) \ {u}) = 0
    BY <1>4, <1>5, <1>6, <1>9
  <2>2. Counted(device[u]) \ {u} = {}
    BY <1>5, <2>1, FS_EmptySet
  <2> QED
    BY <1>1, <1>2, <2>2
<1> QED
  BY <1>2, <1>7, <1>8, <1>9

\* The invariant is inductive.
LEMMA NextIInv == IInv /\ [Next]_vars => IInv'
<1> SUFFICES ASSUME IInv, [Next]_vars PROVE IInv'
  OBVIOUS
<1> USE DEF IInv
<1>1. ASSUME NEW u \in Users, NEW p \in Paths, AskOpen(u, p) PROVE IInv'
  <2>1. TypeOK'
    BY <1>1 DEF TypeOK, AskOpen, Goto, Inside
  <2>2. \A q \in Paths : Counted(q)' = Counted(q)
    BY <1>1, CountedKept DEF TypeOK, AskOpen, Goto
  <2>3. CountIsUsers'
    BY <1>1, <2>2, CountsKept DEF AskOpen
  <2>4. LockIsOwned'
    BY <1>1, HandleAssumption DEF TypeOK, LockIsOwned, AskOpen, Goto, Inside
  <2>6. OpenWhileHeld'
    BY <1>1 DEF TypeOK, OpenWhileHeld, AskOpen, Goto
  <2>7. VendorCallsAtTheEnds'
    BY <1>1, <2>1, <2>2 DEF TypeOK, VendorCallsAtTheEnds, AskOpen, Goto
  <2> QED
    BY <2>1, <2>3, <2>4, <2>6, <2>7
<1>2. ASSUME NEW u \in Users, LockForOpen(u) PROVE IInv'
  <2>1. TypeOK'
    BY <1>2, HandleAssumption DEF TypeOK, LockForOpen, Goto, Inside
  <2>2. \A q \in Paths : Counted(q)' = Counted(q)
    BY <1>2, CountedKept DEF TypeOK, LockForOpen, Goto
  <2>3. CountIsUsers'
    BY <1>2, <2>2, CountsKept DEF LockForOpen
  <2>4. LockIsOwned'
    BY <1>2, HandleAssumption DEF TypeOK, LockIsOwned, LockForOpen, Goto, Inside
  <2>6. OpenWhileHeld'
    BY <1>2 DEF TypeOK, OpenWhileHeld, LockForOpen, Goto
  <2>7. VendorCallsAtTheEnds'
    BY <1>2, <2>1, <2>2 DEF TypeOK, VendorCallsAtTheEnds, LockForOpen, Goto
  <2> QED
    BY <2>1, <2>3, <2>4, <2>6, <2>7
<1>3. ASSUME NEW u \in Users, VendorOpen(u) PROVE IInv'
  <2>1. TypeOK'
    BY <1>3 DEF TypeOK, VendorOpen, Goto, Inside
  <2>2. \A q \in Paths : Counted(q)' = Counted(q)
    BY <1>3, CountedKept DEF TypeOK, VendorOpen, Goto
  <2>3. CountIsUsers'
    BY <1>3, <2>2, CountsKept DEF VendorOpen
  <2>4. LockIsOwned'
    BY <1>3, HandleAssumption DEF TypeOK, LockIsOwned, VendorOpen, Goto, Inside
  <2>6. OpenWhileHeld'
    BY <1>3 DEF TypeOK, OpenWhileHeld, VendorOpen, Goto
  <2>5. Counted(device[u]) = {} /\ device[u] \in Paths
    BY <1>3, UsersCounted DEF TypeOK, CountIsUsers, VendorOpen
  <2>7. VendorCallsAtTheEnds'
    BY <1>3, <2>2, <2>5 DEF TypeOK, VendorCallsAtTheEnds, VendorOpen, Goto
  <2> QED
    BY <2>1, <2>3, <2>4, <2>6, <2>7
<1>4. ASSUME NEW u \in Users, OpenFails(u) PROVE IInv'
  <2>1. TypeOK'
    BY <1>4 DEF TypeOK, OpenFails, Goto, Inside
  <2>2. \A q \in Paths : Counted(q)' = Counted(q)
    BY <1>4, CountedKept DEF TypeOK, OpenFails, Goto
  <2>3. CountIsUsers'
    BY <1>4, <2>2, CountsKept DEF OpenFails
  <2>4. LockIsOwned'
    BY <1>4, HandleAssumption DEF TypeOK, LockIsOwned, OpenFails, Goto, Inside
  <2>6. OpenWhileHeld'
    BY <1>4 DEF TypeOK, OpenWhileHeld, OpenFails, Goto
  <2>7. VendorCallsAtTheEnds'
    BY <1>4, <2>1, <2>2 DEF TypeOK, VendorCallsAtTheEnds, OpenFails, Goto
  <2> QED
    BY <2>1, <2>3, <2>4, <2>6, <2>7
<1>5. ASSUME NEW u \in Users, AskClose(u) PROVE IInv'
  <2>1. TypeOK'
    BY <1>5 DEF TypeOK, AskClose, Goto, Inside
  <2>2. \A q \in Paths : Counted(q)' = Counted(q)
    BY <1>5, CountedKept DEF TypeOK, AskClose, Goto
  <2>3. CountIsUsers'
    BY <1>5, <2>2, CountsKept DEF AskClose
  <2>4. LockIsOwned'
    BY <1>5, HandleAssumption DEF TypeOK, LockIsOwned, AskClose, Goto, Inside
  <2>6. OpenWhileHeld'
    BY <1>5 DEF TypeOK, OpenWhileHeld, AskClose, Goto
  <2>7. VendorCallsAtTheEnds'
    BY <1>5, <2>1, <2>2 DEF TypeOK, VendorCallsAtTheEnds, AskClose, Goto
  <2> QED
    BY <2>1, <2>3, <2>4, <2>6, <2>7
<1>6. ASSUME NEW u \in Users, LockForClose(u) PROVE IInv'
  <2>1. TypeOK'
    BY <1>6 DEF TypeOK, LockForClose, Goto, Inside
  <2>2. \A q \in Paths : Counted(q)' = Counted(q)
    BY <1>6, CountedKept DEF TypeOK, LockForClose, Goto
  <2>3. CountIsUsers'
    BY <1>6, <2>2, CountsKept DEF LockForClose
  <2>4. LockIsOwned'
    BY <1>6, HandleAssumption DEF TypeOK, LockIsOwned, LockForClose, Goto, Inside
  <2>6. OpenWhileHeld'
    BY <1>6 DEF TypeOK, OpenWhileHeld, LockForClose, Goto
  <2>7. VendorCallsAtTheEnds'
    BY <1>6, <2>1, <2>2 DEF TypeOK, VendorCallsAtTheEnds, LockForClose, Goto
  <2> QED
    BY <2>1, <2>3, <2>4, <2>6, <2>7
<1>7. ASSUME NEW u \in Users, VendorClose(u) PROVE IInv'
  <2>1. TypeOK'
    BY <1>7 DEF TypeOK, VendorClose, Goto, Inside
  <2>2. \A q \in Paths : Counted(q)' = Counted(q)
    BY <1>7, CountedKept DEF TypeOK, VendorClose, Goto
  <2>3. CountIsUsers'
    BY <1>7, <2>2, CountsKept DEF VendorClose
  <2>4. LockIsOwned'
    BY <1>7, HandleAssumption DEF TypeOK, LockIsOwned, VendorClose, Goto, Inside
  <2>5. Counted(device[u]) = {} /\ device[u] \in Paths
    BY <1>7 DEF TypeOK, VendorCallsAtTheEnds, VendorClose, Goto
  <2>6. OpenWhileHeld'
    <3>1. SUFFICES ASSUME NEW v \in Users, pc'[v] \in {"count", "held", "giveback", "close"}
                   PROVE  vendor'[device[v]]
      BY <1>7 DEF OpenWhileHeld, VendorClose
    <3>2. v # u /\ pc'[v] = pc[v]
      BY <1>7, <3>1 DEF TypeOK, VendorClose, Goto
    <3>3. pc[v] # "count"
      BY <1>7, <3>2 DEF LockIsOwned, Inside, VendorClose, Goto
    <3>4. vendor[device[v]] /\ device[v] # device[u]
      BY <2>5, <3>1, <3>2, <3>3, NoUser DEF OpenWhileHeld
    <3>5. device[v] \in Paths /\ device[u] \in Paths
      BY DEF TypeOK
    <3> QED
      BY <1>7, <3>4, <3>5 DEF TypeOK, VendorClose
  <2>7. VendorCallsAtTheEnds'
    BY <1>7, <2>1, <2>2 DEF TypeOK, VendorCallsAtTheEnds, VendorClose, Goto
  <2> QED
    BY <2>1, <2>3, <2>4, <2>6, <2>7
<1>8. ASSUME NEW u \in Users, Busy(u) PROVE IInv'
  <2>1. TypeOK'
    BY <1>8, HandleAssumption DEF TypeOK, Busy
  <2>2. \A q \in Paths : Counted(q)' = Counted(q)
    BY <1>8 DEF Counted, Busy
  <2>3. CountIsUsers' /\ LockIsOwned' /\ OpenWhileHeld'
    BY <1>8, <2>2, CountsKept DEF LockIsOwned, OpenWhileHeld, Busy, Inside
  <2>4. VendorCallsAtTheEnds'
    BY <1>8, <2>2 DEF TypeOK, VendorCallsAtTheEnds, Busy
  <2> QED
    BY <2>1, <2>3, <2>4
<1>9. ASSUME NEW p \in Paths, Foreign(p) PROVE IInv'
  <2>1. TypeOK'
    BY <1>9 DEF TypeOK, Foreign
  <2>2. \A q \in Paths : Counted(q)' = Counted(q)
    BY <1>9 DEF Counted, Foreign
  <2>3. CountIsUsers' /\ LockIsOwned' /\ OpenWhileHeld'
    BY <1>9, <2>2, CountsKept DEF LockIsOwned, OpenWhileHeld, Foreign, Inside
  <2>4. VendorCallsAtTheEnds'
    BY <1>9, <2>2 DEF TypeOK, VendorCallsAtTheEnds, Foreign
  <2> QED
    BY <2>1, <2>3, <2>4
<1>10. ASSUME NEW u \in Users, Reuse(u) PROVE IInv'
  <2>1. TypeOK'
    BY <1>10 DEF TypeOK, Reuse, Goto, Inside
  <2>2. /\ CountIsUsers'
        /\ \A p \in Paths : Counted(p)' = IF p = device[u] THEN Counted(p) \cup {u} ELSE Counted(p)
    BY <1>10, CountedIn DEF Reuse, Goto
  <2>3. lock = u
    BY <1>10 DEF LockIsOwned, Reuse, Goto, Inside
  <2>4. LockIsOwned'
    BY <1>10, <2>3, HandleAssumption DEF TypeOK, LockIsOwned, Reuse, Goto, Inside
  <2>5. PICK v \in Users : device[v] = device[u] /\ pc[v] \in {"held", "giveback", "close"}
    <3>1. device[u] \in Paths /\ Cardinality(Counted(device[u])) # 0
      BY <1>10 DEF TypeOK, CountIsUsers, Reuse
    <3> QED
      BY <3>1, UsersCounted DEF Counted
  <2>6. OpenWhileHeld'
    BY <1>10, <2>5 DEF TypeOK, OpenWhileHeld, Reuse, Goto
  <2>7. VendorCallsAtTheEnds'
    BY <1>10, <2>3 DEF TypeOK, VendorCallsAtTheEnds, LockIsOwned, Reuse, Goto, Inside
  <2> QED
    BY <2>1, <2>2, <2>4, <2>6, <2>7
<1>11. ASSUME NEW u \in Users, CountOpen(u) PROVE IInv'
  <2>1. TypeOK'
    BY <1>11 DEF TypeOK, CountOpen, Goto, Inside
  <2>2. refcounts[device[u]] = 0 /\ device[u] \in Paths
    BY <1>11, FS_EmptySet DEF TypeOK, CountIsUsers, VendorCallsAtTheEnds, CountOpen, Goto
  <2>3. CountIsUsers'
    <3>1. refcounts' = [refcounts EXCEPT ![device[u]] = refcounts[device[u]] + 1]
      BY <1>11, <2>2 DEF CountOpen
    <3> QED
      BY <1>11, <3>1, CountedIn DEF CountOpen, Goto
  <2>4. lock = u
    BY <1>11 DEF LockIsOwned, CountOpen, Goto, Inside
  <2>5. LockIsOwned'
    BY <1>11, <2>4, HandleAssumption DEF TypeOK, LockIsOwned, CountOpen, Goto, Inside
  <2>6. OpenWhileHeld'
    BY <1>11 DEF TypeOK, OpenWhileHeld, CountOpen, Goto
  <2>7. VendorCallsAtTheEnds'
    BY <1>11, <2>4 DEF TypeOK, VendorCallsAtTheEnds, LockIsOwned, CountOpen, Goto, Inside
  <2> QED
    BY <2>1, <2>3, <2>5, <2>6, <2>7
<1>12. ASSUME NEW u \in Users, Uncount(u) PROVE IInv'
  <2> DEFINE to == IF refcounts[device[u]] > 1 THEN "idle" ELSE "vendorclose"
  <2>0. /\ pc[u] = "close" /\ pc' = [pc EXCEPT ![u] = to] /\ UNCHANGED device
        /\ refcounts' = [refcounts EXCEPT ![device[u]] = refcounts[device[u]] - 1]
        /\ lock' = (IF refcounts[device[u]] > 1 THEN Nobody ELSE lock)
        /\ UNCHANGED <<retries, vendor, foreign>>
    BY <1>12 DEF Uncount, Goto
  <2>1. /\ CountIsUsers' /\ refcounts' \in [Paths -> Nat]
        /\ \A p \in Paths : Counted(p)' = IF p = device[u] THEN Counted(p) \ {u} ELSE Counted(p)
        /\ refcounts[device[u]] <= 1 => Counted(device[u])' = {}
    <3>1. to \in {"idle", "vendorclose"}
      OBVIOUS
    <3> HIDE DEF to
    <3> QED
      BY <2>0, <3>1, CountedOut
  <2>2. TypeOK'
    BY <2>0, <2>1 DEF TypeOK, Inside
  <2>3. lock = u
    BY <2>0 DEF LockIsOwned, Inside
  <2>4. LockIsOwned'
    BY <2>0, <2>3, HandleAssumption DEF TypeOK, LockIsOwned, Inside
  <2>5. OpenWhileHeld'
    BY <2>0 DEF TypeOK, OpenWhileHeld
  <2>6. VendorCallsAtTheEnds'
    <3>1. SUFFICES ASSUME NEW v \in Users, pc'[v] \in {"count", "vendorclose"}
                   PROVE  Counted(device[v])' = {}
      BY <2>0 DEF VendorCallsAtTheEnds
    <3>2. v = u
      BY <2>0, <2>3, <3>1 DEF TypeOK, LockIsOwned, Inside
    <3>3. ~(refcounts[device[u]] > 1)
      BY <2>0, <3>1, <3>2 DEF TypeOK
    <3>4. refcounts[device[u]] <= 1
      BY <3>3 DEF TypeOK
    <3> QED
      BY <2>1, <3>2, <3>4
  <2> QED
    BY <2>1, <2>2, <2>4, <2>5, <2>6
<1>13. CASE UNCHANGED vars
  <2>1. \A q \in Paths : Counted(q)' = Counted(q)
    BY <1>13 DEF Counted, vars
  <2>2. TypeOK' /\ LockIsOwned' /\ OpenWhileHeld'
    BY <1>13 DEF TypeOK, LockIsOwned, OpenWhileHeld, Inside, vars
  <2>3. CountIsUsers'
    BY <1>13, <2>1, CountsKept DEF vars
  <2>4. VendorCallsAtTheEnds'
    BY <1>13, <2>1 DEF TypeOK, VendorCallsAtTheEnds, vars
  <2> QED
    BY <2>2, <2>3, <2>4
<1> QED
  BY <1>1, <1>2, <1>3, <1>4, <1>5, <1>6, <1>7, <1>8, <1>9, <1>10, <1>11, <1>12, <1>13 DEF Next, Opening, Closing

\* The inductive invariant holds throughout: the count is the number of users, only the
\* owner of the lock is between a vendor call and its count.
THEOREM Invariance == Spec => []IInv
BY InitIInv, NextIInv, PTL DEF Spec

\* Shape of the state of _open_device and _close_device, for any users and devices.
THEOREM TypeCorrect == Spec => []TypeOK
<1>1. IInv => TypeOK
  BY DEF IInv
<1> QED
  BY <1>1, Invariance, PTL

\* Whoever holds a Joulescope has it open, whatever the other users do.
THEOREM HolderHasItOpen == Spec => []OpenWhileHeld
<1>1. IInv => OpenWhileHeld
  BY DEF IInv
<1> QED
  BY <1>1, Invariance, PTL

\* Nobody new is counted by a step that keeps the counted users: it maps to a step of
\* the shared handle that changes at most one vendor handle.
LEMMA MapsToChange ==
  ASSUME TypeOK, NEW p \in Paths, Counted(p) = {},
         \A q \in Paths : Counted(q)' = Counted(q),
         NEW b \in BOOLEAN, vendor' = [vendor EXCEPT ![p] = b]
  PROVE  Shared!Change(p)
BY DEF Shared!Change, TypeOK

\* Initial states map to initial states of the shared handle.
LEMMA InitShared == Init => Shared!Init
BY DEF Init, Shared!Init, Counted

\* Each step is one of the shared handle, or changes neither its holders nor the vendor.
LEMMA StepShared == IInv /\ [Next]_vars => [Shared!Next]_(Shared!vars)
<1> SUFFICES ASSUME IInv, [Next]_vars PROVE [Shared!Next]_(Shared!vars)
  OBVIOUS
<1>q. ASSUME \A q \in Paths : Counted(q)' = Counted(q), UNCHANGED vendor
      PROVE  UNCHANGED Shared!vars
  BY <1>q DEF Shared!vars
<1>1. ASSUME NEW u \in Users, VendorOpen(u) PROVE Shared!Next
  <2>1. device[u] \in Paths /\ Counted(device[u]) = {}
    BY <1>1, UsersCounted DEF IInv, TypeOK, CountIsUsers, VendorOpen
  <2>2. \A q \in Paths : Counted(q)' = Counted(q)
    BY <1>1, CountedKept DEF IInv, TypeOK, VendorOpen, Goto
  <2>3. Shared!Change(device[u])
    BY <1>1, <2>1, <2>2, MapsToChange DEF IInv, VendorOpen
  <2> QED
    BY <2>1, <2>3 DEF Shared!Next
<1>2. ASSUME NEW u \in Users, VendorClose(u) PROVE Shared!Next
  <2>1. device[u] \in Paths /\ Counted(device[u]) = {}
    BY <1>2 DEF IInv, TypeOK, VendorCallsAtTheEnds, VendorClose, Goto
  <2>2. \A q \in Paths : Counted(q)' = Counted(q)
    BY <1>2, CountedKept DEF IInv, TypeOK, VendorClose, Goto
  <2>3. PICK b \in BOOLEAN : vendor' = [vendor EXCEPT ![device[u]] = b]
    BY <1>2 DEF VendorClose
  <2>4. Shared!Change(device[u])
    BY <2>1, <2>2, <2>3, MapsToChange DEF IInv
  <2> QED
    BY <2>1, <2>4 DEF Shared!Next
<1>3. ASSUME NEW u \in Users, Reuse(u) \/ CountOpen(u) PROVE Shared!Next
  <2>1. /\ pc[u] \in {"open", "count"} /\ device[u] \in Paths
        /\ pc' = [pc EXCEPT ![u] = "held"] /\ UNCHANGED <<device, vendor>>
    BY <1>3 DEF IInv, TypeOK, Reuse, CountOpen, Goto
  <2>2. \A p \in Paths : Counted(p)' = IF p = device[u] THEN Counted(p) \cup {u} ELSE Counted(p)
    BY <2>1 DEF IInv, TypeOK, Counted
  <2>3. u \notin Counted(device[u])
    BY <2>1 DEF Counted
  <2>4. vendor[device[u]]
    <3>1. CASE Reuse(u)
      <4>1. Cardinality(Counted(device[u])) # 0
        BY <2>1, <3>1 DEF IInv, CountIsUsers, Reuse
      <4>2. PICK v \in Users : device[v] = device[u] /\ pc[v] \in {"held", "giveback", "close"}
        BY <2>1, <4>1, UsersCounted DEF Counted
      <4> QED
        BY <4>2 DEF IInv, OpenWhileHeld
    <3>2. CASE CountOpen(u)
      BY <3>2 DEF IInv, OpenWhileHeld, CountOpen, Goto
    <3> QED
      BY <1>3, <3>1, <3>2
  <2>5. Shared!Take(u, device[u])
    BY <2>1, <2>2, <2>3, <2>4 DEF Shared!Take
  <2> QED
    BY <2>1, <2>5 DEF Shared!Next
<1>4. ASSUME NEW u \in Users, Uncount(u) PROVE Shared!Next
  <2>1. /\ pc[u] = "close" /\ device[u] \in Paths /\ UNCHANGED <<device, vendor>>
    BY <1>4 DEF IInv, TypeOK, Uncount, Goto
  <2>2. /\ pc'[u] \in {"idle", "vendorclose"}
        /\ \A v \in Users \ {u} : pc'[v] = pc[v]
    BY <1>4 DEF IInv, TypeOK, Uncount, Goto
  <2>3. \A p \in Paths : Counted(p)' = IF p = device[u] THEN Counted(p) \ {u} ELSE Counted(p)
    BY <2>1, <2>2 DEF Counted
  <2>4. u \in Counted(device[u])
    BY <2>1 DEF Counted
  <2>5. Shared!GiveBack(u, device[u])
    BY <2>1, <2>3, <2>4 DEF Shared!GiveBack
  <2> QED
    BY <2>1, <2>5 DEF Shared!Next
<1>5. ASSUME NEW u \in Users,
             \/ LockForOpen(u) \/ OpenFails(u) \/ AskClose(u) \/ LockForClose(u)
             \/ \E p \in Paths : AskOpen(u, p)
      PROVE  UNCHANGED Shared!vars
  <2>1. \A q \in Paths : Counted(q)' = Counted(q)
    BY <1>5, CountedKept
       DEF IInv, TypeOK, LockForOpen, OpenFails, AskClose, LockForClose, AskOpen, Goto
  <2>2. UNCHANGED vendor
    BY <1>5 DEF LockForOpen, OpenFails, AskClose, LockForClose, AskOpen
  <2> QED
    BY <1>q, <2>1, <2>2
<1>6. ASSUME \/ \E u \in Users : Busy(u)
             \/ \E p \in Paths : Foreign(p)
             \/ UNCHANGED vars
      PROVE  UNCHANGED Shared!vars
  BY <1>6, <1>q DEF Busy, Foreign, vars, Counted
<1> QED
  BY <1>1, <1>2, <1>3, <1>4, <1>5, <1>6 DEF Next, Opening, Closing

\* The counted handle implements the shared one: the vendor's open and close are made
\* only while nobody holds the device, and a user is handed an open device.
THEOREM ImplementsShared == Spec => SharedSpec
BY InitShared, StepShared, Invariance, PTL DEF Spec, SharedSpec, Shared!SharedSpec
=============================================================================
