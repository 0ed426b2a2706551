--------------------------- MODULE NightShiftProofs ---------------------------
(***************************************************************************)
(* What holds of the night shift for any number of shelves, workers and    *)
(* deaths: the types, the exclusion the shelf mutexes give, and that it    *)
(* moves products only as Shelves allows, whatever the interleaving of its *)
(* comparisons, its half-done exchanges and its deaths; what gets lost is  *)
(* bounded by the deaths in the middle of an exchange.                     *)
(***************************************************************************)
EXTENDS NightShift, FiniteSetTheorems, TLAPS

\* A shelf pair is two different shelves.
LEMMA PairShelves ==
    ASSUME NEW p \in Pairs
    PROVE  p[1] \in Places /\ p[2] \in Places /\ p[1] # p[2]
BY NAssumption DEF Pairs, Places

\* The types hold initially and every step of worker_thread, manager_work and
\* main keeps them.
THEOREM TypeCorrect == Spec => []TypeOK
<1>1. Init => TypeOK
  BY NAssumption DEF Init, TypeOK, Arrangements, Pairs, Places, Products
<1>2. TypeOK /\ [Next]_vars => TypeOK'
  <2> SUFFICES ASSUME TypeOK, [Next]_vars PROVE TypeOK'
    OBVIOUS
  <2> USE NAssumption, WorkerAssumption
  <2>1. ASSUME NEW w \in Workers, NEW p \in Pairs, Pick(w, p) PROVE TypeOK'
    BY <2>1 DEF TypeOK, Pick, Goto, managerVars, Gone, Dead
  <2>2. ASSUME NEW w \in Workers, Leave(w) PROVE TypeOK'
    BY <2>2 DEF TypeOK, Leave, Goto, managerVars, Gone, Dead
  <2>3. ASSUME NEW w \in Workers, LockFirst(w) PROVE TypeOK'
    BY <2>3 DEF TypeOK, LockFirst, Lock, Goto, managerVars, Gone, Dead
  <2>4. ASSUME NEW w \in Workers, LockSecond(w) PROVE TypeOK'
    BY <2>4 DEF TypeOK, LockSecond, Lock, Goto, managerVars, Gone, Dead
  <2>5. ASSUME NEW w \in Workers, Compare(w) PROVE TypeOK'
    <3>1. idx[w][1] \in Places /\ idx[w][2] \in Places
      BY PairShelves DEF TypeOK
    <3>2. shelf[idx[w][1]] \in Products /\ shelf[idx[w][2]] \in Products
      BY <3>1 DEF TypeOK
    <3> QED
      BY <2>5, <3>1, <3>2 DEF TypeOK, Compare, Goto, managerVars, Gone, Dead
  <2>6. ASSUME NEW w \in Workers, StoreSecond(w) PROVE TypeOK'
    BY <2>6 DEF TypeOK, StoreSecond, Goto, managerVars, Gone, Dead
  <2>7. ASSUME NEW w \in Workers, UnlockFirst(w) PROVE TypeOK'
    BY <2>7 DEF TypeOK, UnlockFirst, Unlock, Goto, managerVars, Gone, Dead
  <2>8. ASSUME NEW w \in Workers, UnlockSecond(w) PROVE TypeOK'
    BY <2>8 DEF TypeOK, UnlockSecond, Unlock, Goto, managerVars, Gone, Dead
  <2>9. ASSUME NEW w \in Workers, Die(w) PROVE TypeOK'
    BY <2>9 DEF TypeOK, Die, Goto, managerVars, Gone, Dead
  <2>10. ASSUME ScanLoad PROVE TypeOK'
    <3>1. pos \in Places
      BY DEF TypeOK, Places
    <3> QED
      BY <2>10, <3>1 DEF TypeOK, ScanLoad, workerVars
  <2>11. ASSUME ScanCompare PROVE TypeOK'
    BY <2>11 DEF TypeOK, ScanCompare, workerVars
  <2>12. ASSUME CloseShift PROVE TypeOK'
    BY <2>12 DEF TypeOK, CloseShift, workerVars
  <2>13. ASSUME Finish PROVE TypeOK'
    BY <2>13 DEF TypeOK, Finish, workerVars, managerVars
  <2>14. ASSUME UNCHANGED vars PROVE TypeOK'
    BY <2>14 DEF TypeOK, vars, workerVars, managerVars
  <2> QED
    BY <2>1, <2>2, <2>3, <2>4, <2>5, <2>6, <2>7, <2>8, <2>9, <2>10, <2>11,
       <2>12, <2>13, <2>14
    DEF Next, WorkerStep, ManagerStep, Over
<1> QED
  BY <1>1, <1>2, PTL DEF Spec

-----------------------------------------------------------------------------
\* A mutex that may be taken is held by nobody who is still running.
LEMMA FreeIsNotHeld ==
    ASSUME TypeOK, LocksOwned, NEW s \in Places, CanLock(s)
    PROVE  \A w \in Workers : s \notin Held(w)
BY WorkerAssumption DEF LocksOwned, CanLock, Held, HasFirst, HasSecond, Gone, Dead, TypeOK

\* A worker's step moves no lock and no pc but its own.
THEOREM MutualExclusion == Spec => [](LocksOwned /\ NoAbandonedLock)
<1> DEFINE Safe == LocksOwned /\ NoAbandonedLock
<1>1. Init => Safe
  BY WorkerAssumption
  DEF Init, LocksOwned, NoAbandonedLock, Held, HasFirst, HasSecond
<1>2. TypeOK /\ TypeOK' /\ Safe /\ [Next]_vars => Safe'
  <2> SUFFICES ASSUME TypeOK, TypeOK', LocksOwned, NoAbandonedLock, [Next]_vars
               PROVE  LocksOwned' /\ NoAbandonedLock'
    OBVIOUS
  <2> USE WorkerAssumption DEF Held, HasFirst, HasSecond, LocksOwned, NoAbandonedLock
  <2>1. ASSUME NEW w \in Workers, NEW p \in Pairs, Pick(w, p)
        PROVE  LocksOwned' /\ NoAbandonedLock'
    BY <2>1 DEF Pick, Goto, TypeOK, Dead
  <2>2. ASSUME NEW w \in Workers, Leave(w)
        PROVE  LocksOwned' /\ NoAbandonedLock'
    BY <2>2 DEF Leave, Goto, TypeOK, Dead
  <2>3. ASSUME NEW w \in Workers, LockFirst(w)
        PROVE  LocksOwned' /\ NoAbandonedLock'
    <3>1. idx[w][1] \in Places
      BY PairShelves DEF TypeOK
    <3>2. \A v \in Workers : idx[w][1] \notin Held(v)
      BY <2>3, <3>1, FreeIsNotHeld DEF LockFirst, Lock
    <3> QED
      BY <2>3, <3>1, <3>2 DEF LockFirst, Lock, Goto, TypeOK, Dead
  <2>4. ASSUME NEW w \in Workers, LockSecond(w)
        PROVE  LocksOwned' /\ NoAbandonedLock'
    <3>1. idx[w][2] \in Places
      BY PairShelves DEF TypeOK
    <3>2. \A v \in Workers : idx[w][2] \notin Held(v)
      BY <2>4, <3>1, FreeIsNotHeld DEF LockSecond, Lock
    <3> QED
      BY <2>4, <3>1, <3>2 DEF LockSecond, Lock, Goto, TypeOK, Dead
  <2>5. ASSUME NEW w \in Workers, Compare(w)
        PROVE  LocksOwned' /\ NoAbandonedLock'
    BY <2>5 DEF Compare, Goto, TypeOK, Dead
  <2>6. ASSUME NEW w \in Workers, StoreSecond(w)
        PROVE  LocksOwned' /\ NoAbandonedLock'
    BY <2>6 DEF StoreSecond, Goto, TypeOK, Dead
  <2>7. ASSUME NEW w \in Workers, UnlockFirst(w)
        PROVE  LocksOwned' /\ NoAbandonedLock'
    <3>1. idx[w][1] \in Places /\ idx[w][1] # idx[w][2]
      BY PairShelves DEF TypeOK
    <3>2. owner[idx[w][1]] = w
      BY <2>7, <3>1 DEF UnlockFirst
    <3> QED
      BY <2>7, <3>1, <3>2 DEF UnlockFirst, Unlock, Goto, TypeOK, Dead
  <2>8. ASSUME NEW w \in Workers, UnlockSecond(w)
        PROVE  LocksOwned' /\ NoAbandonedLock'
    <3>1. idx[w][2] \in Places
      BY PairShelves DEF TypeOK
    <3>2. owner[idx[w][2]] = w
      BY <2>8, <3>1 DEF UnlockSecond
    <3> QED
      BY <2>8, <3>1, <3>2 DEF UnlockSecond, Unlock, Goto, TypeOK, Dead
  <2>9. ASSUME NEW w \in Workers, Die(w)
        PROVE  LocksOwned' /\ NoAbandonedLock'
    BY <2>9 DEF Die, Goto, TypeOK, Dead
  <2>10. CASE UNCHANGED <<owner, pc, idx>>
    BY <2>10
  <2> QED
    BY <2>1, <2>2, <2>3, <2>4, <2>5, <2>6, <2>7, <2>8, <2>9, <2>10
    DEF Next, WorkerStep, ManagerStep, ScanLoad, ScanCompare, CloseShift, Finish,
        Over, vars, workerVars
<1> QED
  BY <1>1, <1>2, TypeCorrect, PTL DEF Spec

\* A shelf lock belongs to a worker that holds it or has died: nobody leaves one behind.
THEOREM LocksComeBack == Spec => []NoAbandonedLock
BY MutualExclusion, PTL

-----------------------------------------------------------------------------
(* The refinement of Shelves.                                              *)

\* Between the two stores of SWAP the smaller product is on both shelves and
\* the larger one in the worker's __x.
HalfDone ==
    \A w \in Workers : pc[w] = "store2" =>
        /\ shelf[idx[w][1]] = shelf[idx[w][2]]
        /\ shelf[idx[w][2]] < hold[w]

\* The shelves two workers hold are different.
LEMMA HeldApart ==
    ASSUME LocksOwned, NEW v \in Workers, NEW w \in Workers, v # w,
           NEW s \in Held(v), NEW t \in Held(w)
    PROVE  s # t
BY DEF LocksOwned

\* A worker between its locks and unlocks holds both shelves of its pair.
LEMMA BothHeld ==
    ASSUME TypeOK, NEW w \in Workers, pc[w] \in {"compare", "store2"}
    PROVE  /\ idx[w] \in Pairs
           /\ idx[w][1] \in Held(w) /\ idx[w][2] \in Held(w)
           /\ idx[w][1] \in Places /\ idx[w][2] \in Places /\ idx[w][1] # idx[w][2]
<1>1. idx[w] \in Pairs
  BY DEF TypeOK
<1>2. idx[w][1] \in Places /\ idx[w][2] \in Places /\ idx[w][1] # idx[w][2]
  BY <1>1, PairShelves
<1> QED
  BY <1>1, <1>2 DEF Held, HasFirst, HasSecond

\* The exchange under way is what Compare left, whatever the others do.
THEOREM HalfSwaps == Spec => []HalfDone
<1>1. Init => HalfDone
  BY DEF Init, HalfDone
<1>2. TypeOK /\ LocksOwned /\ HalfDone /\ [Next]_vars => HalfDone'
  <2> SUFFICES ASSUME TypeOK, LocksOwned, HalfDone, [Next]_vars,
                      NEW v \in Workers, pc'[v] = "store2"
               PROVE  /\ shelf'[idx'[v][1]] = shelf'[idx'[v][2]]
                      /\ shelf'[idx'[v][2]] < hold'[v]
    BY DEF HalfDone
  <2>1. ASSUME NEW w \in Workers, Compare(w)
        PROVE  /\ shelf'[idx'[v][1]] = shelf'[idx'[v][2]]
               /\ shelf'[idx'[v][2]] < hold'[v]
    <3>1. pc[w] = "compare"
      BY <2>1 DEF Compare
    <3>2. CASE v = w
      <4>1. /\ idx[w][1] \in Places /\ idx[w][2] \in Places /\ idx[w][1] # idx[w][2]
            /\ idx' = idx
        BY <2>1, <3>1, BothHeld DEF Compare
      <4>2. /\ shelf[idx[w][1]] > shelf[idx[w][2]]
            /\ hold' = [hold EXCEPT ![w] = shelf[idx[w][1]]]
            /\ shelf' = [shelf EXCEPT ![idx[w][1]] = shelf[idx[w][2]]]
        BY <2>1, <3>2 DEF Compare, Goto, TypeOK
      <4>3. /\ hold'[w] = shelf[idx[w][1]]
            /\ shelf'[idx[w][1]] = shelf[idx[w][2]] /\ shelf'[idx[w][2]] = shelf[idx[w][2]]
        BY <4>1, <4>2 DEF TypeOK
      <4> QED
        BY <3>2, <4>1, <4>2, <4>3
    <3>3. CASE v # w
      <4>1. pc[v] = "store2"
        BY <2>1, <3>3 DEF Compare, Goto, TypeOK
      <4>2. idx[v][1] # idx[w][1] /\ idx[v][2] # idx[w][1]
        BY <3>1, <3>3, <4>1, BothHeld, HeldApart
      <4>3. shelf'[idx[v][1]] = shelf[idx[v][1]] /\ shelf'[idx[v][2]] = shelf[idx[v][2]]
        BY <2>1, <4>1, <4>2, BothHeld DEF Compare, TypeOK
      <4> QED
        BY <2>1, <3>3, <4>1, <4>3 DEF Compare, HalfDone, TypeOK
    <3> QED
      BY <3>2, <3>3
  <2>2. ASSUME NEW w \in Workers, StoreSecond(w)
        PROVE  /\ shelf'[idx'[v][1]] = shelf'[idx'[v][2]]
               /\ shelf'[idx'[v][2]] < hold'[v]
    <3>1. v # w /\ pc[v] = "store2" /\ pc[w] = "store2"
      BY <2>2 DEF StoreSecond, Goto, TypeOK
    <3>2. idx[v][1] # idx[w][2] /\ idx[v][2] # idx[w][2]
      BY <3>1, BothHeld, HeldApart
    <3>3. shelf'[idx[v][1]] = shelf[idx[v][1]] /\ shelf'[idx[v][2]] = shelf[idx[v][2]]
      BY <2>2, <3>1, <3>2, BothHeld DEF StoreSecond, TypeOK
    <3> QED
      BY <2>2, <3>1, <3>3 DEF StoreSecond, HalfDone
  <2>3. ASSUME NEW w \in Workers, NEW p \in Pairs, Pick(w, p)
        PROVE  pc[v] = "store2" /\ idx'[v] = idx[v] /\ UNCHANGED <<shelf, hold>>
    BY <2>3 DEF Pick, Goto, TypeOK
  <2>4. ASSUME NEW w \in Workers, Leave(w)
        PROVE  pc[v] = "store2" /\ UNCHANGED <<shelf, hold, idx>>
    BY <2>4 DEF Leave, Goto, TypeOK
  <2>5. ASSUME NEW w \in Workers, LockFirst(w) \/ LockSecond(w)
        PROVE  pc[v] = "store2" /\ UNCHANGED <<shelf, hold, idx>>
    BY <2>5 DEF LockFirst, LockSecond, Goto, TypeOK
  <2>6. ASSUME NEW w \in Workers, UnlockFirst(w) \/ UnlockSecond(w)
        PROVE  pc[v] = "store2" /\ UNCHANGED <<shelf, hold, idx>>
    BY <2>6 DEF UnlockFirst, UnlockSecond, Goto, TypeOK
  <2>7. ASSUME NEW w \in Workers, Die(w)
        PROVE  pc[v] = "store2" /\ UNCHANGED <<shelf, hold, idx>>
    BY <2>7 DEF Die, Goto, TypeOK
  <2>8. CASE UNCHANGED <<shelf, pc, idx, hold>>
    BY <2>8 DEF HalfDone
  <2> QED
    BY <2>1, <2>2, <2>3, <2>4, <2>5, <2>6, <2>7, <2>8
    DEF HalfDone, Next, WorkerStep, ManagerStep, ScanLoad, ScanCompare, CloseShift,
        Finish, Over, vars, workerVars
<1> QED
  BY <1>1, <1>2, TypeCorrect, MutualExclusion, PTL DEF Spec

-----------------------------------------------------------------------------
(* What Settled shows on a shelf: the product in the hands of whoever is   *)
(* about to store it there, the product on the shelf if nobody is.         *)
SettledIs ==
    \A s \in Places :
        /\ \A w \in Workers : pc[w] = "store2" /\ idx[w][2] = s => Settled[s] = hold[w]
        /\ (\A w \in Workers : pc[w] = "store2" => idx[w][2] # s) => Settled[s] = shelf[s]

\* Two workers never have a product in hand for the same shelf.
LEMMA SettledAt == TypeOK /\ LocksOwned => SettledIs
<1> SUFFICES ASSUME TypeOK, LocksOwned, NEW s \in Places
             PROVE  /\ \A w \in Workers :
                          pc[w] = "store2" /\ idx[w][2] = s => Settled[s] = hold[w]
                    /\ (\A w \in Workers : pc[w] = "store2" => idx[w][2] # s)
                          => Settled[s] = shelf[s]
  BY DEF SettledIs
<1>1. ASSUME NEW w \in Workers, pc[w] = "store2", idx[w][2] = s
      PROVE  Settled[s] = hold[w]
  <2>1. InHand(s) = {w}
    <3>1. ASSUME NEW v \in InHand(s) PROVE v = w
      <4>1. v \in Workers /\ s \in Held(v) /\ s \in Held(w)
        BY <1>1, BothHeld DEF InHand
      <4> QED
        BY <4>1, HeldApart
    <3> QED
      BY <1>1, <3>1 DEF InHand
  <2>2. (CHOOSE v \in InHand(s) : TRUE) = w
    BY <2>1
  <2> QED
    BY <2>1, <2>2 DEF Settled
<1>2. ASSUME \A w \in Workers : pc[w] = "store2" => idx[w][2] # s
      PROVE  Settled[s] = shelf[s]
  BY <1>2 DEF Settled, InHand
<1> QED
  BY <1>1, <1>2

LEMMA SettledAtNext == TypeOK' /\ LocksOwned' => SettledIs'
BY SettledAt, PTL

\* A shelf somebody holds without being half-way through an exchange shows
\* what is on it.
LEMMA HeldShows ==
    ASSUME TypeOK, LocksOwned, NEW w \in Workers, NEW s \in Held(w),
           pc[w] = "store2" => idx[w][2] # s
    PROVE  Settled[s] = shelf[s]
<1>1. s \in Places
  BY DEF Held
<1>2. ASSUME NEW v \in Workers, pc[v] = "store2" PROVE idx[v][2] # s
  BY <1>2, BothHeld, HeldApart
<1> QED
  BY <1>1, <1>2, SettledAt DEF SettledIs

\* A step that neither starts nor ends an exchange shows no change.
LEMMA SettledKept ==
    ASSUME UNCHANGED <<shelf, hold>>,
           \A w \in Workers : /\ pc'[w] = "store2" <=> pc[w] = "store2"
                              /\ pc[w] = "store2" => idx'[w] = idx[w]
    PROVE  Settled' = Settled
<1>1. \A s \in Places : {w \in Workers : pc'[w] = "store2" /\ idx'[w][2] = s} = InHand(s)
  BY DEF InHand
<1>2. Settled' = [s \in Places |->
                    IF {w \in Workers : pc'[w] = "store2" /\ idx'[w][2] = s} = {}
                      THEN shelf'[s]
                      ELSE hold'[CHOOSE w \in {v \in Workers : pc'[v] = "store2" /\ idx'[v][2] = s} : TRUE]]
  BY DEF Settled, InHand
<1> QED
  BY <1>1, <1>2 DEF Settled

-----------------------------------------------------------------------------
\* An exchange of the shelves p shows seen through Settled.
Tidied(p) ==
    /\ Settled[p[1]] > Settled[p[2]]
    /\ Settled' = [Settled EXCEPT ![p[1]] = Settled[p[2]], ![p[2]] = Settled[p[1]]]
    /\ UNCHANGED Torn

\* The exchange of p by w torn by the death of w.
Ripped(w, p) ==
    /\ Settled[p[1]] < Settled[p[2]]
    /\ Settled' = [Settled EXCEPT ![p[2]] = Settled[p[1]]]
    /\ w \in Workers \ Torn
    /\ Torn' = Torn \cup {w}

\* Every shelf shows a product.
ShowsProducts == Settled \in [Places -> Products]

LEMMA SettledType == TypeOK /\ LocksOwned => ShowsProducts
<1> SUFFICES ASSUME TypeOK, LocksOwned, NEW s \in Places PROVE Settled[s] \in Products
  BY DEF Settled, ShowsProducts
<1> QED
  BY SettledAt DEF SettledIs, TypeOK

LEMMA SettledTypeNext == TypeOK' /\ LocksOwned' => ShowsProducts'
BY SettledType, PTL

\* The comparison that finds its pair in the wrong order is the exchange.
LEMMA CompareView ==
    ASSUME TypeOK, LocksOwned, TypeOK', LocksOwned', NEW w \in Workers, Compare(w)
    PROVE  Tidied(idx[w]) \/ UNCHANGED <<Settled, Torn>>
<1> DEFINE i == idx[w][1]
           j == idx[w][2]
<1>1. pc[w] = "compare" /\ idx[w] \in Pairs /\ i \in Held(w) /\ j \in Held(w) /\ i # j
      /\ i \in Places /\ j \in Places
  BY BothHeld DEF Compare
<1>2. Settled[i] = shelf[i] /\ Settled[j] = shelf[j]
  BY <1>1, HeldShows
<1>3. UNCHANGED Torn
  BY DEF Compare, Goto, TypeOK, Torn
<1>4. CASE shelf[i] > shelf[j]
  <2>1. /\ pc' = [pc EXCEPT ![w] = "store2"] /\ idx' = idx
        /\ hold' = [hold EXCEPT ![w] = shelf[i]]
        /\ shelf' = [shelf EXCEPT ![i] = shelf[j]]
    BY <1>4 DEF Compare, Goto
  <2>2. Settled'[j] = Settled[i]
    BY <1>1, <1>2, <2>1, SettledAtNext DEF SettledIs, TypeOK
  <2>3. Settled'[i] = Settled[j]
    <3>1. ASSUME NEW v \in Workers, pc'[v] = "store2" PROVE idx'[v][2] # i
      BY <1>1, <2>1, <3>1, BothHeld, HeldApart DEF TypeOK
    <3> QED
      BY <1>1, <1>2, <2>1, <3>1, SettledAtNext DEF SettledIs, TypeOK
  <2>4. ASSUME NEW s \in Places, s # i, s # j PROVE Settled'[s] = Settled[s]
    <3>1. CASE \E v \in Workers : pc[v] = "store2" /\ idx[v][2] = s
      <4>1. PICK v \in Workers : pc[v] = "store2" /\ idx[v][2] = s
        BY <3>1
      <4>2. v # w /\ pc'[v] = "store2" /\ idx'[v][2] = s /\ hold'[v] = hold[v]
        BY <1>1, <2>1, <4>1 DEF TypeOK
      <4> QED
        BY <4>1, <4>2, SettledAt, SettledAtNext DEF SettledIs
    <3>2. CASE \A v \in Workers : pc[v] = "store2" => idx[v][2] # s
      <4>1. \A v \in Workers : pc'[v] = "store2" => idx'[v][2] # s
        BY <2>1, <2>4, <3>2 DEF TypeOK
      <4>2. shelf'[s] = shelf[s]
        BY <2>1, <2>4 DEF TypeOK
      <4> QED
        BY <3>2, <4>1, <4>2, SettledAt, SettledAtNext DEF SettledIs
    <3> QED
      BY <3>1, <3>2
  <2>5. Settled' = [Settled EXCEPT ![i] = Settled[j], ![j] = Settled[i]]
    <3>1. Settled \in [Places -> Products] /\ Settled' \in [Places -> Products]
      BY SettledType, SettledTypeNext DEF ShowsProducts
    <3> QED
      BY <1>1, <2>2, <2>3, <2>4, <3>1
  <2> QED
    BY <1>2, <1>3, <1>4, <2>5 DEF Tidied
<1>5. CASE ~(shelf[i] > shelf[j])
  <2>1. UNCHANGED <<shelf, hold, idx>> /\ pc' = [pc EXCEPT ![w] = "unlock1"]
    BY <1>5 DEF Compare, Goto
  <2> QED
    BY <1>1, <1>3, <2>1, SettledKept DEF TypeOK
<1> QED
  BY <1>4, <1>5

\* The second store puts on the shelf what Settled already showed there.
LEMMA StoreView ==
    ASSUME TypeOK, LocksOwned, TypeOK', LocksOwned', NEW w \in Workers, StoreSecond(w)
    PROVE  UNCHANGED <<Settled, Torn>>
<1> DEFINE j == idx[w][2]
<1>1. pc[w] = "store2" /\ j \in Held(w) /\ j \in Places
  BY BothHeld DEF StoreSecond
<1>2. /\ pc' = [pc EXCEPT ![w] = "unlock1"] /\ UNCHANGED <<idx, hold>>
      /\ shelf' = [shelf EXCEPT ![j] = hold[w]]
  BY DEF StoreSecond, Goto
<1>3. UNCHANGED Torn
  BY <1>1, <1>2 DEF Torn, TypeOK
<1>4. Settled'[j] = Settled[j]
  <2>1. ASSUME NEW v \in Workers, pc'[v] = "store2" PROVE idx'[v][2] # j
    BY <1>1, <1>2, <2>1, BothHeld, HeldApart DEF TypeOK
  <2> QED
    BY <1>1, <1>2, <2>1, SettledAt, SettledAtNext DEF SettledIs, TypeOK
<1>5. ASSUME NEW s \in Places, s # j PROVE Settled'[s] = Settled[s]
  <2>1. CASE \E v \in Workers : pc[v] = "store2" /\ idx[v][2] = s
    <3>1. PICK v \in Workers : pc[v] = "store2" /\ idx[v][2] = s
      BY <2>1
    <3>2. pc'[v] = "store2" /\ idx'[v][2] = s /\ hold'[v] = hold[v]
      BY <1>2, <1>5, <3>1 DEF TypeOK
    <3> QED
      BY <3>1, <3>2, SettledAt, SettledAtNext DEF SettledIs
  <2>2. CASE \A v \in Workers : pc[v] = "store2" => idx[v][2] # s
    <3>1. \A v \in Workers : pc'[v] = "store2" => idx'[v][2] # s
      BY <1>2, <2>2 DEF TypeOK
    <3>2. shelf'[s] = shelf[s]
      BY <1>2, <1>5 DEF TypeOK
    <3> QED
      BY <2>2, <3>1, <3>2, SettledAt, SettledAtNext DEF SettledIs
  <2> QED
    BY <2>1, <2>2
<1>6. Settled \in [Places -> Products] /\ Settled' \in [Places -> Products]
  BY SettledType, SettledTypeNext DEF ShowsProducts
<1> QED
  BY <1>3, <1>4, <1>5, <1>6

\* A death between the two stores tears the exchange, any other shows nothing.
LEMMA DeathView ==
    ASSUME TypeOK, LocksOwned, HalfDone, TypeOK', LocksOwned', NEW w \in Workers, Die(w)
    PROVE  Ripped(w, idx[w]) \/ UNCHANGED <<Settled, Torn>>
<1> DEFINE i == idx[w][1]
           j == idx[w][2]
<1>1. CASE pc[w] # "store2"
  <2>1. UNCHANGED <<shelf, hold, idx>> /\ pc' = [pc EXCEPT ![w] = "died"] /\ pc[w] \notin Gone
    BY <1>1 DEF Die, Goto
  <2>2. UNCHANGED Torn
    BY <2>1 DEF Torn, TypeOK, Gone, Dead
  <2> QED
    BY <1>1, <2>1, <2>2, SettledKept DEF TypeOK
<1>2. CASE pc[w] = "store2"
  <2>1. idx[w] \in Pairs /\ i \in Held(w) /\ j \in Held(w) /\ i # j /\ i \in Places /\ j \in Places
    BY <1>2, BothHeld
  <2>2. UNCHANGED <<shelf, hold, idx>> /\ pc' = [pc EXCEPT ![w] = "torn"]
    BY <1>2 DEF Die, Goto
  <2>3. w \in Workers \ Torn /\ Torn' = Torn \cup {w}
    BY <1>2, <2>2 DEF Torn, TypeOK
  <2>4. Settled[i] = shelf[i] /\ Settled[j] = hold[w]
    BY <1>2, <2>1, HeldShows, SettledAt DEF SettledIs
  <2>5. Settled'[j] = shelf[j]
    <3>1. ASSUME NEW v \in Workers, pc'[v] = "store2" PROVE idx'[v][2] # j
      BY <2>1, <2>2, <3>1, BothHeld, HeldApart DEF TypeOK
    <3> QED
      BY <2>1, <2>2, <3>1, SettledAtNext DEF SettledIs
  <2>6. ASSUME NEW s \in Places, s # j PROVE Settled'[s] = Settled[s]
    <3>1. CASE \E v \in Workers : pc[v] = "store2" /\ idx[v][2] = s
      <4>1. PICK v \in Workers : pc[v] = "store2" /\ idx[v][2] = s
        BY <3>1
      <4>2. pc'[v] = "store2" /\ idx'[v][2] = s /\ hold'[v] = hold[v]
        BY <2>2, <2>6, <4>1 DEF TypeOK
      <4> QED
        BY <4>1, <4>2, SettledAt, SettledAtNext DEF SettledIs
    <3>2. CASE \A v \in Workers : pc[v] = "store2" => idx[v][2] # s
      <4>1. \A v \in Workers : pc'[v] = "store2" => idx'[v][2] # s
        BY <2>2, <3>2 DEF TypeOK
      <4> QED
        BY <2>2, <3>2, <4>1, SettledAt, SettledAtNext DEF SettledIs
    <3> QED
      BY <3>1, <3>2
  <2>7. Settled' = [Settled EXCEPT ![j] = Settled[i]]
    <3>1. Settled \in [Places -> Products] /\ Settled' \in [Places -> Products]
      BY SettledType, SettledTypeNext DEF ShowsProducts
    <3>2. shelf[i] = shelf[j]
      BY <1>2 DEF HalfDone
    <3> QED
      BY <2>1, <2>4, <2>5, <2>6, <3>1, <3>2
  <2> QED
    BY <1>2, <2>3, <2>4, <2>7 DEF HalfDone, Ripped
<1> QED
  BY <1>1, <1>2

\* Every step of the program shows an exchange, a torn exchange or nothing.
LEMMA StepView ==
    ASSUME TypeOK, LocksOwned, HalfDone, TypeOK', LocksOwned', [Next]_vars
    PROVE  \/ \E p \in Pairs : Tidied(p)
           \/ \E p \in Pairs : \E w \in Workers : Ripped(w, p)
           \/ UNCHANGED <<Settled, Torn>>
<1>1. ASSUME NEW w \in Workers, Compare(w)
      PROVE  (\E p \in Pairs : Tidied(p)) \/ UNCHANGED <<Settled, Torn>>
  BY <1>1, CompareView DEF TypeOK
<1>2. ASSUME NEW w \in Workers, StoreSecond(w)
      PROVE  UNCHANGED <<Settled, Torn>>
  BY <1>2, StoreView
<1>3. ASSUME NEW w \in Workers, Die(w)
      PROVE  (\E p \in Pairs : Ripped(w, p)) \/ UNCHANGED <<Settled, Torn>>
  BY <1>3, DeathView DEF TypeOK
<1>4. ASSUME NEW w \in Workers, NEW p \in Pairs, Pick(w, p)
      PROVE  UNCHANGED <<Settled, Torn>>
  BY <1>4, SettledKept DEF Pick, Goto, TypeOK, Torn
<1>5. ASSUME NEW w \in Workers, Leave(w) \/ LockFirst(w) \/ LockSecond(w)
      PROVE  UNCHANGED <<Settled, Torn>>
  BY <1>5, SettledKept DEF Leave, LockFirst, LockSecond, Goto, TypeOK, Torn
<1>6. ASSUME NEW w \in Workers, UnlockFirst(w) \/ UnlockSecond(w)
      PROVE  UNCHANGED <<Settled, Torn>>
  BY <1>6, SettledKept DEF UnlockFirst, UnlockSecond, Goto, TypeOK, Torn
<1>7. CASE UNCHANGED <<shelf, pc, idx, hold>>
  BY <1>7, SettledKept DEF Torn
<1> QED
  BY <1>1, <1>2, <1>3, <1>4, <1>5, <1>6, <1>7
  DEF Next, WorkerStep, ManagerStep, ScanLoad, ScanCompare, CloseShift, Finish, Over,
      vars, workerVars

LEMMA TornFinite == IsFiniteSet(Torn) /\ Cardinality(Torn) \in Nat
BY WorkerAssumption, FS_Subset, FS_CardinalityType DEF Torn

\* One more torn exchange is one more dead worker.
LEMMA RippedCounts ==
    ASSUME NEW w \in Workers \ Torn, Torn' = Torn \cup {w}
    PROVE  Cardinality(Torn') = Cardinality(Torn) + 1
BY TornFinite, FS_AddElement

\* With nothing in hand yet the shelves show what main put on them.
LEMMA InitView == Init => Settled = shelf /\ Torn = {}
<1> SUFFICES ASSUME Init PROVE Settled = shelf /\ Torn = {}
  OBVIOUS
<1>1. Torn = {} /\ \A s \in Places : InHand(s) = {}
  BY DEF Init, Torn, InHand
<1> QED
  BY <1>1 DEF Init, Arrangements, Settled

\* Every run of worker_thread, manager_work and main moves products only as
\* Shelves allows: SWAP under both mutexes is one exchange, a death inside it
\* one torn exchange, anything else moves nothing.
THEOREM Refines == Spec => Implements
<1>1. Init => View!Init
  <2> SUFFICES ASSUME Init PROVE View!Init
    OBVIOUS
  <2>1. Settled = shelf /\ Cardinality(Torn) = 0
    BY InitView, FS_EmptySet
  <2> QED
    BY <2>1 DEF Init, Arrangements, Places, Products, View!Init, View!Arrangements,
                View!Places, View!Products
<1>2. TypeOK /\ TypeOK' /\ LocksOwned /\ LocksOwned' /\ HalfDone /\ [Next]_vars
        => [View!Next]_(View!vars)
  <2> SUFFICES ASSUME TypeOK, TypeOK', LocksOwned, LocksOwned', HalfDone, [Next]_vars
               PROVE  [View!Next]_(View!vars)
    OBVIOUS
  <2>1. ASSUME NEW p \in Pairs, Tidied(p) PROVE View!Next
    BY <2>1 DEF Tidied, View!Next, View!Tidy, View!Pairs, View!Places, Pairs, Places
  <2>2. ASSUME NEW p \in Pairs, NEW w \in Workers, Ripped(w, p) PROVE View!Next
    <3>1. Cardinality(Torn') = Cardinality(Torn) + 1
      BY <2>2, RippedCounts DEF Ripped
    <3> QED
      BY <2>2, <3>1 DEF Ripped, View!Next, View!Tear, View!Pairs, View!Places, Pairs, Places
  <2>3. CASE UNCHANGED <<Settled, Torn>>
    BY <2>3 DEF View!vars
  <2> QED
    BY <2>1, <2>2, <2>3, StepView
<1> QED
  BY <1>1, <1>2, TypeCorrect, MutualExclusion, HalfSwaps, PTL
  DEF Spec, Implements, View!Spec

-----------------------------------------------------------------------------
LEMMA ProductsFinite == IsFiniteSet(Products) /\ Cardinality(Products) = N
                        /\ IsFiniteSet(Places) /\ Cardinality(Places) = N
BY NAssumption, FS_Interval DEF Products, Places

LEMMA MissingFinite == IsFiniteSet(Missing) /\ Cardinality(Missing) \in Nat
BY ProductsFinite, FS_Subset, FS_CardinalityType DEF Missing

\* Nothing is missing from a shuffle of the products.
LEMMA NoneMissing == Init => Missing = {}
<1> SUFFICES ASSUME Init, NEW x \in Products PROVE x \in {Settled[s] : s \in Places}
  BY DEF Missing
<1>1. shelf \in Injection(Places, Products)
  BY DEF Init, Arrangements, Injection, IsInjective
<1>2. shelf \in Surjection(Places, Products)
  BY <1>1, ProductsFinite, FS_Injection
<1> QED
  BY <1>2, InitView DEF Surjection

\* Whatever the workers do and wherever they die, at most one product is lost
\* for each of them killed in the middle of a SWAP.
THEOREM LossBounded == Spec => []NothingElseLost
<1>1. Init => NothingElseLost
  <2> SUFFICES ASSUME Init PROVE Cardinality(Missing) <= Cardinality(Torn)
    BY DEF NothingElseLost
  <2>1. Missing = {} /\ Torn = {}
    BY NoneMissing, InitView
  <2>2. Cardinality(Missing) = 0 /\ Cardinality(Torn) = 0
    BY <2>1, FS_EmptySet
  <2> QED
    BY <2>2
<1>2. TypeOK /\ TypeOK' /\ LocksOwned /\ LocksOwned' /\ HalfDone /\ NothingElseLost
        /\ [Next]_vars => NothingElseLost'
  <2> SUFFICES ASSUME TypeOK, TypeOK', LocksOwned, LocksOwned', HalfDone,
                      NothingElseLost, [Next]_vars
               PROVE  NothingElseLost'
    OBVIOUS
  <2>0. Settled \in [Places -> Products] /\ Settled' \in [Places -> Products]
    BY SettledType, SettledTypeNext DEF ShowsProducts
  <2>1. ASSUME NEW p \in Pairs, Tidied(p) PROVE NothingElseLost'
    <3>1. p[1] \in Places /\ p[2] \in Places /\ p[1] # p[2]
      BY PairShelves
    <3>2. \A s \in Places : \E t \in Places : Settled'[t] = Settled[s]
      BY <2>0, <2>1, <3>1 DEF Tidied
    <3>3. Missing' \subseteq Missing
      BY <3>2 DEF Missing
    <3>4. Cardinality(Missing') <= Cardinality(Missing)
      BY <3>3, MissingFinite, FS_Subset
    <3>5. Cardinality(Missing') \in Nat
      BY <3>3, MissingFinite, FS_Subset, FS_CardinalityType
    <3> QED
      BY <2>1, <3>4, <3>5, MissingFinite, TornFinite DEF Tidied, NothingElseLost
  <2>2. ASSUME NEW p \in Pairs, NEW w \in Workers, Ripped(w, p) PROVE NothingElseLost'
    <3>1. p[1] \in Places /\ p[2] \in Places /\ p[1] # p[2]
      BY PairShelves
    <3>2. \A s \in Places : s # p[2] => Settled'[s] = Settled[s]
      BY <2>0, <2>2, <3>1 DEF Ripped
    <3>3. Missing' \subseteq Missing \cup {Settled[p[2]]}
      BY <3>2 DEF Missing
    <3>4. IsFiniteSet(Missing \cup {Settled[p[2]]})
          /\ Cardinality(Missing \cup {Settled[p[2]]}) <= Cardinality(Missing) + 1
          /\ Cardinality(Missing \cup {Settled[p[2]]}) \in Nat
      BY MissingFinite, FS_AddElement
    <3>5. Cardinality(Missing') <= Cardinality(Missing \cup {Settled[p[2]]})
          /\ Cardinality(Missing') \in Nat
      BY <3>3, <3>4, FS_Subset, FS_CardinalityType
    <3>6. Cardinality(Torn') = Cardinality(Torn) + 1
      BY <2>2, RippedCounts DEF Ripped
    <3> QED
      BY <3>4, <3>5, <3>6, MissingFinite, TornFinite DEF NothingElseLost
  <2>3. CASE UNCHANGED <<Settled, Torn>>
    BY <2>3 DEF NothingElseLost, Missing
  <2> QED
    BY <2>1, <2>2, <2>3, StepView
<1> QED
  BY <1>1, <1>2, TypeCorrect, MutualExclusion, HalfSwaps, PTL DEF Spec

-----------------------------------------------------------------------------
(* An exchange never makes the order worse.                                *)

\* The pairs of places whose products are in the wrong order.
Inverted(a) == {p \in Places \X Places : p[1] < p[2] /\ a[p[1]] > a[p[2]]}

\* Exchanging an inverted pair i, j inverts no more pairs than there were: a pair that is
\* inverted afterwards was inverted before, either as it is or with i and j renamed.
LEMMA ExchangeInverts ==
    ASSUME NEW a \in [Places -> Products], NEW i \in Places, NEW j \in Places, i < j, a[i] > a[j],
           NEW b, b = [a EXCEPT ![i] = a[j], ![j] = a[i]]
    PROVE  Inversions(b) <= Inversions(a)
<1> DEFINE other(x) == IF x = i THEN j ELSE IF x = j THEN i ELSE x
           renamed(p) == <<other(p[1]), other(p[2])>>
           from(p) == IF other(p[1]) < other(p[2]) THEN renamed(p) ELSE p
           f == [p \in Inverted(b) |-> from(p)]
<1>1. /\ Places \subseteq Int /\ Products \subseteq Int
      /\ \A x \in Places : other(x) \in Places /\ other(other(x)) = x /\ b[x] = a[other(x)]
  BY NAssumption DEF Places, Products
<1>2. \A x \in Places : a[x] \in Int /\ x \in Int
  BY <1>1
<1>3. ASSUME NEW p \in Inverted(b) PROVE from(p) \in Inverted(a)
  <2>1. /\ p \in Places \X Places /\ p = <<p[1], p[2]>> /\ p[1] \in Places /\ p[2] \in Places
        /\ p[1] < p[2] /\ b[p[1]] > b[p[2]]
    BY DEF Inverted
  <2>2. CASE other(p[1]) < other(p[2])
    <3>1. a[other(p[1])] > a[other(p[2])]
      BY <1>1, <2>1
    <3>2. renamed(p) \in Inverted(a)
      BY <1>1, <2>1, <2>2, <3>1 DEF Inverted
    <3> QED
      BY <2>2, <3>2
  <2>3. CASE ~(other(p[1]) < other(p[2]))
    <3>1. a[p[1]] > a[p[2]]
      <4>1. PICK x \in Places, y \in Places : x = p[1] /\ y = p[2]
        BY <2>1
      <4>2. /\ x \in Int /\ y \in Int /\ i \in Int /\ j \in Int /\ i < j /\ x < y /\ ~(other(x) < other(y))
            /\ a[x] \in Int /\ a[y] \in Int /\ a[i] \in Int /\ a[j] \in Int /\ a[i] > a[j]
            /\ a[other(x)] > a[other(y)]
        BY <1>1, <1>2, <2>1, <2>3, <4>1
      <4>3. ASSUME x = i PROVE a[x] > a[y]
        BY ONLY <4>2, <4>3
      <4>4. ASSUME x # i PROVE a[x] > a[y]
        <5>1. x # j /\ y = j
          BY ONLY <4>2, <4>4
        <5>2. a[x] > a[i]
          BY ONLY <4>2, <4>4, <5>1
        <5> QED
          BY ONLY <4>2, <5>1, <5>2
      <4>5. a[x] > a[y]
        BY <4>3, <4>4
      <4> QED
        BY <4>1, <4>5
    <3>2. p \in Inverted(a)
      BY <2>1, <3>1 DEF Inverted
    <3> QED
      BY <2>3, <3>2
  <2> QED
    BY <2>2, <2>3
<1>4. ASSUME NEW p \in Inverted(b), NEW q \in Inverted(b), from(p) = from(q) PROVE p = q
  <2>1. /\ p = <<p[1], p[2]>> /\ p[1] \in Places /\ p[2] \in Places /\ p[1] < p[2]
        /\ q = <<q[1], q[2]>> /\ q[1] \in Places /\ q[2] \in Places /\ q[1] < q[2]
    BY DEF Inverted
  <2> QED
    BY <1>1, <1>2, <1>4, <2>1
<1>5. f \in Injection(Inverted(b), Inverted(a))
  <2>1. f \in [Inverted(b) -> Inverted(a)]
    BY <1>3
  <2>2. \A p, q \in Inverted(b) : f[p] = f[q] => p = q
    BY <1>4
  <2> QED
    BY <2>1, <2>2 DEF Injection, IsInjective
<1>6. IsFiniteSet(Inverted(a))
  <2>1. IsFiniteSet(Places \X Places)
    BY ProductsFinite, FS_Product
  <2> QED
    BY <2>1, FS_Subset DEF Inverted
<1> HIDE DEF f
<1>7. Cardinality(Inverted(b)) <= Cardinality(Inverted(a))
  BY <1>5, <1>6, FS_Injection
<1> QED
  BY <1>7 DEF Inversions, Inverted

\* worker_thread: whatever pair a worker compared while others were moving products, no
\* step raises the number of pairs in the wrong order but a death inside SWAP.
THEOREM OrderImproves == Spec => NeverLessSorted
<1>1. TypeOK /\ TypeOK' /\ LocksOwned /\ LocksOwned' /\ HalfDone
        /\ [Next]_vars => [Torn' = Torn => Inversions(Settled') <= Inversions(Settled)]_vars
  <2> SUFFICES ASSUME TypeOK, TypeOK', LocksOwned, LocksOwned', HalfDone, [Next]_vars, Torn' = Torn
               PROVE  Inversions(Settled') <= Inversions(Settled)
    OBVIOUS
  <2>0. Settled \in [Places -> Products]
    BY SettledType DEF ShowsProducts
  <2>1. ASSUME NEW p \in Pairs, Tidied(p) PROVE Inversions(Settled') <= Inversions(Settled)
    <3>1. p[1] \in Places /\ p[2] \in Places /\ p[1] < p[2]
      BY DEF Pairs
    <3>2. /\ Settled[p[1]] > Settled[p[2]]
          /\ Settled' = [Settled EXCEPT ![p[1]] = Settled[p[2]], ![p[2]] = Settled[p[1]]]
      BY <2>1 DEF Tidied
    <3> QED
      BY <2>0, <3>1, <3>2, ExchangeInverts
  <2>2. ASSUME NEW p \in Pairs, NEW w \in Workers, Ripped(w, p) PROVE FALSE
    BY <2>2 DEF Ripped
  <2>3. CASE UNCHANGED <<Settled, Torn>>
    <3>1. IsFiniteSet(Inverted(Settled))
      <4>1. IsFiniteSet(Places \X Places)
        BY ProductsFinite, FS_Product
      <4> QED
        BY <4>1, FS_Subset DEF Inverted
    <3>2. Inversions(Settled) \in Nat
      BY <3>1, FS_CardinalityType DEF Inversions, Inverted
    <3> QED
      BY <2>3, <3>2
  <2> QED
    BY <2>1, <2>2, <2>3, StepView
<1> QED
  BY <1>1, TypeCorrect, MutualExclusion, HalfSwaps, PTL DEF Spec, NeverLessSorted
=============================================================================
