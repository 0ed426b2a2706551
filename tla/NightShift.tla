------------------------------ MODULE NightShift ------------------------------
(***************************************************************************)
(* L3/PolishLab/sop-shop.c: workers sort the shelves of a shared array by  *)
(* exchanging random pairs under two robust per-shelf mutexes, a manager   *)
(* polls the array without any lock and ends the shift by clearing `run`.  *)
(* A step is one access to memory another process can touch.               *)
(***************************************************************************)
EXTENDS Integers, FiniteSets

CONSTANTS N,            \* argv[1]: shelves and products
          Workers,      \* argv[2] of them
          Nobody,       \* owner of a free mutex
          MaxDeaths     \* bound: workers killed from outside

ASSUME NAssumption      == N \in Nat /\ N >= 2
ASSUME WorkerAssumption == IsFiniteSet(Workers) /\ Nobody \notin Workers
ASSUME DeathAssumption  == MaxDeaths \in Nat

Places   == 0..N-1
Products == 1..N
\* fault: the two indices are left as drawn
UnorderedPairs == {p \in Places \X Places : p[1] # p[2]}

\* The two indices of a round, the smaller one first.
Pairs    == {p \in Places \X Places : p[1] < p[2]}

VARIABLES shelf,        \* shopArray
          owner,        \* shelfMutexes: owner of each, a dead owner included
          run,          \* sharedStock->run
          pc, idx,      \* per worker: next step, <<idx1, idx2>>
          hold,         \* per worker: __x of SWAP
          mgr, pos,     \* manager: next step, i of isSorted
          left,         \* manager: array[i] as loaded
          main          \* "wait" in wait(NULL), then "done"

workerVars  == <<pc, idx, hold>>
managerVars == <<mgr, pos, left>>
vars == <<shelf, owner, run, workerVars, managerVars, main>>

Arrangements == {a \in [Places -> Products] : \A i, j \in Places : a[i] = a[j] => i = j}

Dead == {"died", "torn"}          \* "torn": killed between the stores of SWAP
Gone == Dead \cup {"exited"}

\* main: the array is any shuffle of 1..N, run = 1, mutexes free, all forked.
Init ==
    /\ shelf \in Arrangements
    /\ owner = [s \in Places |-> Nobody]
    /\ run = TRUE
    /\ pc = [w \in Workers |-> "pick"]
    /\ idx = [w \in Workers |-> <<0, 1>>]
    /\ hold = [w \in Workers |-> 1]
    /\ mgr = "load" /\ pos = 0 /\ left = 1
    /\ main = "wait"

-----------------------------------------------------------------------------
(* mutex_lock_handler: a free mutex, or one whose owner is gone            *)
(* (EOWNERDEAD, made consistent and kept), is taken; otherwise it blocks.  *)
CanLock(s) == owner[s] \in {Nobody} \cup {w \in Workers : pc[w] \in Gone}

\* fault: the result of pthread_mutex_lock is ignored
LockRegardless(w, s) == owner' = [owner EXCEPT ![s] = w]

Lock(w, s)   == CanLock(s) /\ owner' = [owner EXCEPT ![s] = w]
Unlock(w, s) == owner' = [owner EXCEPT ![s] = Nobody]
Goto(w, l)   == pc' = [pc EXCEPT ![w] = l]

\* while(run): draw two different shelves and put the smaller one first.
Pick(w, p) ==
    /\ pc[w] = "pick" /\ run
    /\ idx' = [idx EXCEPT ![w] = p]
    /\ Goto(w, "lock1")
    /\ UNCHANGED <<shelf, owner, run, hold, managerVars, main>>

Leave(w) ==
    /\ pc[w] = "pick" /\ ~run
    /\ Goto(w, "exited")
    /\ UNCHANGED <<shelf, owner, run, idx, hold, managerVars, main>>

LockFirst(w) ==
    /\ pc[w] = "lock1"
    /\ Lock(w, idx[w][1])
    /\ Goto(w, "lock2")
    /\ UNCHANGED <<shelf, run, idx, hold, managerVars, main>>

\* fault: only the first shelf is locked
LockSecondSkipped(w) ==
    /\ pc[w] = "lock2"
    /\ Goto(w, "compare")
    /\ UNCHANGED <<shelf, owner, run, idx, hold, managerVars, main>>

LockSecond(w) ==
    /\ pc[w] = "lock2"
    /\ Lock(w, idx[w][2])
    /\ Goto(w, "compare")
    /\ UNCHANGED <<shelf, run, idx, hold, managerVars, main>>

\* The comparison, and for a wrong pair the first store of SWAP.
Compare(w) ==
    LET i == idx[w][1]
        j == idx[w][2]
    IN  /\ pc[w] = "compare"
        /\ IF shelf[i] > shelf[j]
             THEN /\ hold' = [hold EXCEPT ![w] = shelf[i]]
                  /\ shelf' = [shelf EXCEPT ![i] = shelf[j]]
                  /\ Goto(w, "store2")
             ELSE /\ Goto(w, "unlock1")
                  /\ UNCHANGED <<shelf, hold>>
        /\ UNCHANGED <<owner, run, idx, managerVars, main>>

StoreSecond(w) ==
    /\ pc[w] = "store2"
    /\ shelf' = [shelf EXCEPT ![idx[w][2]] = hold[w]]
    /\ Goto(w, "unlock1")
    /\ UNCHANGED <<owner, run, idx, hold, managerVars, main>>

\* fault: the first unlock is forgotten
UnlockFirstSkipped(w) ==
    /\ pc[w] = "unlock1"
    /\ Goto(w, "unlock2")
    /\ UNCHANGED <<shelf, owner, run, idx, hold, managerVars, main>>

UnlockFirst(w) ==
    /\ pc[w] = "unlock1"
    /\ Unlock(w, idx[w][1])
    /\ Goto(w, "unlock2")
    /\ UNCHANGED <<shelf, run, idx, hold, managerVars, main>>

UnlockSecond(w) ==
    /\ pc[w] = "unlock2"
    /\ Unlock(w, idx[w][2])
    /\ Goto(w, "pick")
    /\ UNCHANGED <<shelf, run, idx, hold, managerVars, main>>

\* A worker is killed; what it stored and what it locked stay as they are.
Die(w) ==
    /\ pc[w] \notin Gone
    /\ Cardinality({v \in Workers : pc[v] \in Dead}) < MaxDeaths
    /\ Goto(w, IF pc[w] = "store2" THEN "torn" ELSE "died")
    /\ UNCHANGED <<shelf, owner, run, idx, hold, managerVars, main>>

-----------------------------------------------------------------------------
(* manager_work: isSorted reads array[i] and array[i+1] with no lock.      *)
ScanLoad ==
    /\ mgr = "load"
    /\ left' = shelf[pos]
    /\ mgr' = "compare"
    /\ UNCHANGED <<shelf, owner, run, workerVars, pos, main>>

\* fault: the scan runs one pair too far
ScanCompareOverrun ==
    /\ mgr = "compare"
    /\ \/ left > shelf[pos + 1]  /\ mgr' = "load" /\ pos' = 0
       \/ left <= shelf[pos + 1] /\ mgr' = "load" /\ pos' = pos + 1
    /\ UNCHANGED <<shelf, owner, run, workerVars, left, main>>

ScanCompare ==
    /\ mgr = "compare"
    /\ \/ /\ left > shelf[pos + 1]         \* return 0: sleep and start again
          /\ mgr' = "load" /\ pos' = 0
       \/ /\ left <= shelf[pos + 1]
          /\ IF pos < N - 2 THEN mgr' = "load" /\ pos' = pos + 1
                            ELSE mgr' = "sorted" /\ UNCHANGED pos
    /\ UNCHANGED <<shelf, owner, run, workerVars, left, main>>

\* managerMutex has no other user, so taking it never waits.
CloseShift ==
    /\ mgr = "sorted"
    /\ run' = FALSE
    /\ mgr' = "exited"
    /\ UNCHANGED <<shelf, owner, workerVars, pos, left, main>>

\* while(wait(NULL) > 0): every child has been reaped.
Finish ==
    /\ main = "wait"
    /\ mgr = "exited" /\ \A w \in Workers : pc[w] \in Gone
    /\ main' = "done"
    /\ UNCHANGED <<shelf, owner, run, workerVars, managerVars>>

Over == main = "done" /\ UNCHANGED vars

-----------------------------------------------------------------------------
WorkerStep(w) ==
    \/ \E p \in Pairs : Pick(w, p)
    \/ Leave(w)
    \/ LockFirst(w) \/ LockSecond(w)
    \/ Compare(w) \/ StoreSecond(w)
    \/ UnlockFirst(w) \/ UnlockSecond(w)

ManagerStep == ScanLoad \/ ScanCompare \/ CloseShift

Next ==
    \/ \E w \in Workers : WorkerStep(w) \/ Die(w)
    \/ ManagerStep
    \/ Finish
    \/ Over

Spec == Init /\ [][Next]_vars

(* The kernel runs every runnable process, and rand() draws every pair     *)
(* again and again.  Deaths are not owed to anyone.                        *)
Fairness ==
    /\ \A w \in Workers : WF_vars(WorkerStep(w))
    /\ \A w \in Workers : \A p \in Pairs : SF_vars(Pick(w, p))
    /\ WF_vars(ManagerStep)
    /\ WF_vars(Finish)

FairSpec == Spec /\ Fairness

-----------------------------------------------------------------------------
\* The types of the variables.
TypeOK ==
    /\ shelf \in [Places -> Products]
    /\ owner \in [Places -> Workers \cup {Nobody}]
    /\ run \in BOOLEAN
    /\ pc \in [Workers -> {"pick", "lock1", "lock2", "compare", "store2",
                           "unlock1", "unlock2"} \cup Gone]
    /\ idx \in [Workers -> Pairs]
    /\ hold \in [Workers -> Products]
    /\ mgr \in {"load", "compare", "sorted", "exited"}
    /\ pos \in 0..N-2
    /\ left \in Products
    /\ main \in {"wait", "done"}

\* The mutexes a live worker holds at each point of its loop.
HasFirst(w)  == pc[w] \in {"lock2", "compare", "store2", "unlock1"}
HasSecond(w) == pc[w] \in {"compare", "store2", "unlock1", "unlock2"}

Held(w) == {s \in Places : \/ s = idx[w][1] /\ HasFirst(w)
                           \/ s = idx[w][2] /\ HasSecond(w)}

\* Every mutex a worker believes it holds is recorded as its own, so no two
\* workers ever touch the same shelf between lock and unlock, even after a
\* mutex was inherited from a dead owner.
LocksOwned == \A w \in Workers : \A s \in Held(w) : owner[s] = w

\* A free-running worker that exits leaves no mutex behind: only the dead do.
NoAbandonedLock ==
    \A s \in Places : owner[s] # Nobody =>
        pc[owner[s]] \in Dead \/ s \in Held(owner[s])

\* The array with every exchange in progress carried to its second shelf.
InHand(s) == {w \in Workers : pc[w] = "store2" /\ idx[w][2] = s}
Settled ==
    [s \in Places |-> IF InHand(s) = {} THEN shelf[s] ELSE hold[CHOOSE w \in InHand(s) : TRUE]]

Torn    == {w \in Workers : pc[w] = "torn"}
Missing == Products \ {Settled[s] : s \in Places}

\* Each worker killed in the middle of an exchange costs at most one product;
\* with no such death the shelves hold a permutation of the products.
NothingElseLost == Cardinality(Missing) <= Cardinality(Torn)

Inversions(a) == Cardinality({p \in Places \X Places : p[1] < p[2] /\ a[p[1]] > a[p[2]]})

\* No worker ever makes the order worse: the number of pairs in the wrong
\* order never rises, whatever pair was compared while others were moving
\* products; only a death in the middle of an exchange may raise it.
NeverLessSorted == [][Torn' = Torn => Inversions(Settled') <= Inversions(Settled)]_vars

\* The shelves-only view of this system (see Shelves).
View == INSTANCE Shelves WITH shelf <- Settled, tears <- Cardinality(Torn)

\* The shelves move exactly as the abstract specification allows.
Implements == View!Spec

\* l7en.md: the manager "checks if the array is sorted. If it is" he ends the
\* shift; so a closed shift should have sorted shelves.
Sorted(a) == \A i, j \in Places : i < j => a[i] <= a[j]
ClosedMeansSorted == ~run => Sorted(Settled)

\* The night ends: every process exits and main gets past wait(NULL).
ShiftEnds == <>(main = "done")
=============================================================================
