----------------------------- MODULE ShopRetake -----------------------------
(***************************************************************************)
(* RetakePrep/Bitronka-L3/sop-shop.c: the night shift without a manager.   *)
(* A worker compares two shelves with no lock, then locks both and         *)
(* exchanges them without comparing again.  Mutexes are indexed 1..n while *)
(* the array ends at MAX_SHELVES - 1: with n = MAX_SHELVES the last mutex  *)
(* is zeroed memory behind it, private to a process as far as waking goes. *)
(***************************************************************************)
EXTENDS Integers, FiniteSets, Functions

CONSTANTS Shelf,      \* n: products and shelves are 1..n
          Team, NoOne,
          TURNS       \* 10 in the code

ShopAssumption == Shelf \in Nat /\ Shelf > 1 /\ IsFiniteSet(Team) /\ NoOne \notin Team /\ TURNS \in Nat

Shelves == 1..Shelf
Pairs   == {p \in Shelves \X Shelves : p[1] < p[2]}

VARIABLES full,         \* n = MAX_SHELVES
          ShopArray, mutex,
          wpc, pair, seen,      \* per worker: next call, <<a, b>>, first product loaded
          turns,                \* turns left
          touched       \* history: workers whose pair changed since they looked

vars == <<full, ShopArray, mutex, wpc, pair, seen, turns, touched>>

Init ==
    /\ full \in BOOLEAN
    /\ ShopArray \in Bijection(Shelves, Shelves)
    /\ mutex = [s \in Shelves |-> NoOne]
    /\ wpc = [w \in Team |-> "pick"] /\ pair = [w \in Team |-> <<1, 2>>]
    /\ seen = [w \in Team |-> 1] /\ turns = [w \in Team |-> TURNS]
    /\ touched = {}

Goto(w, l) == wpc' = [wpc EXCEPT ![w] = l]

\* The two draws and the load of the first shelf.
Look(w, p) ==
    /\ wpc[w] = "pick" /\ turns[w] > 0
    /\ pair' = [pair EXCEPT ![w] = p] /\ seen' = [seen EXCEPT ![w] = ShopArray[p[1]]]
    /\ turns' = [turns EXCEPT ![w] = @ - 1]
    /\ touched' = touched \ {w}
    /\ Goto(w, "compare") /\ UNCHANGED <<full, ShopArray, mutex>>

\* fault: the two are always exchanged
CompareNot(w) ==
    /\ wpc[w] = "compare" /\ Goto(w, "lockA")
    /\ UNCHANGED <<full, ShopArray, mutex, pair, seen, turns, touched>>

\* The load of the second shelf and the comparison.
Compare(w) ==
    /\ wpc[w] = "compare"
    /\ Goto(w, IF seen[w] > ShopArray[pair[w][2]] THEN "lockA" ELSE "pick")
    /\ UNCHANGED <<full, ShopArray, mutex, pair, seen, turns, touched>>

\* fault: the second mutex is not locked
LockOne(w, s) ==
    /\ <<wpc[w], s>> \in {<<"lockA", pair[w][1]>>, <<"lockB", pair[w][2]>>}
    /\ mutex[pair[w][1]] \in {NoOne, w}
    /\ mutex' = [mutex EXCEPT ![pair[w][1]] = w]
    /\ Goto(w, IF wpc[w] = "lockA" THEN "lockB" ELSE "loadA")
    /\ UNCHANGED <<full, ShopArray, pair, seen, turns, touched>>

Lock(w, s) ==
    /\ <<wpc[w], s>> \in {<<"lockA", pair[w][1]>>, <<"lockB", pair[w][2]>>}
    /\ mutex[s] = NoOne
    /\ mutex' = [mutex EXCEPT ![s] = w]
    /\ Goto(w, IF wpc[w] = "lockA" THEN "lockB" ELSE "loadA")
    /\ UNCHANGED <<full, ShopArray, pair, seen, turns, touched>>

\* The mutex behind the array is held: the worker sleeps on a futex that no
\* other process wakes.
SleepForEver(w) ==
    /\ full /\ wpc[w] = "lockB" /\ pair[w][2] = Shelf /\ mutex[Shelf] # NoOne
    /\ Goto(w, "asleep")
    /\ UNCHANGED <<full, ShopArray, mutex, pair, seen, turns, touched>>

\* SWAP: __x = ShopArray[a - 1], then the two stores, each of them seen by
\* whoever is looking.
LoadA(w) ==
    /\ wpc[w] = "loadA" /\ seen' = [seen EXCEPT ![w] = ShopArray[pair[w][1]]]
    /\ Goto(w, "storeA") /\ UNCHANGED <<full, ShopArray, mutex, pair, turns, touched>>

Put(w, s, x) ==
    /\ ShopArray' = [ShopArray EXCEPT ![s] = x]
    /\ touched' = touched \cup {v \in Team \ {w} : s \in {pair[v][1], pair[v][2]}}

StoreA(w) ==
    /\ wpc[w] = "storeA" /\ Put(w, pair[w][1], ShopArray[pair[w][2]])
    /\ Goto(w, "storeB") /\ UNCHANGED <<full, mutex, pair, seen, turns>>

StoreB(w) ==
    /\ wpc[w] = "storeB" /\ Put(w, pair[w][2], seen[w])
    /\ Goto(w, "unlockA") /\ UNCHANGED <<full, mutex, pair, seen, turns>>

Unlock(w) ==
    /\ wpc[w] \in {"unlockA", "unlockB"}
    /\ mutex' = [mutex EXCEPT ![pair[w][IF wpc[w] = "unlockA" THEN 1 ELSE 2]] = NoOne]
    /\ Goto(w, IF wpc[w] = "unlockA" THEN "unlockB" ELSE "pick")
    /\ UNCHANGED <<full, ShopArray, pair, seen, turns, touched>>

Leave(w) ==
    /\ wpc[w] = "pick" /\ turns[w] = 0 /\ Goto(w, "exited")
    /\ UNCHANGED <<full, ShopArray, mutex, pair, seen, turns, touched>>

Turn(w) ==
    \/ Compare(w) \/ SleepForEver(w) \/ LoadA(w) \/ StoreA(w) \/ StoreB(w) \/ Unlock(w) \/ Leave(w)
    \/ (\E p \in Pairs : Look(w, p)) \/ (\E s \in Shelves : Lock(w, s))

Next == \E w \in Team : Turn(w)

Fairness == \A w \in Team : WF_vars(Turn(w))

-----------------------------------------------------------------------------
\* The types of the variables.
TypeOK ==
    /\ full \in BOOLEAN /\ ShopArray \in [Shelves -> Shelves] /\ mutex \in [Shelves -> Team \cup {NoOne}]
    /\ wpc \in [Team -> {"pick", "compare", "lockA", "lockB", "asleep", "loadA", "storeA", "storeB",
                         "unlockA", "unlockB", "exited"}]
    /\ pair \in [Team -> Pairs] /\ seen \in [Team -> Shelves] /\ turns \in [Team -> 0..TURNS]
    /\ touched \subseteq Team

\* Counting what a worker between its two stores still carries, every product is
\* there once: the exchange is safe although the comparison is not.
NothingLost ==
    LET carrying == {w \in Team : wpc[w] = "storeB"}
    IN  \A x \in Shelves : (\E s \in Shelves : ShopArray[s] = x) \/ (\E w \in carrying : seen[w] = x)

\* The product on each shelf, an exchange made at its first store.
Settled ==
    [s \in Shelves |->
        LET filling == {w \in Team : wpc[w] = "storeB" /\ pair[w][2] = s}
        IN  IF filling = {} THEN ShopArray[s] ELSE seen[CHOOSE w \in filling : TRUE]]

\* Whatever a step does to the shelves is the exchange of the pair of the worker that
\* makes it, and puts the two into the wrong order only when somebody changed one of
\* them after this worker had looked.
WorseOnlyIfStale ==
    Settled' # Settled =>
        \E w \in Team :
            LET a == pair[w][1]
                b == pair[w][2]
            IN  /\ wpc'[w] # wpc[w]
                /\ Settled' = [Settled EXCEPT ![a] = Settled[b], ![b] = Settled[a]]
                /\ w \in touched \/ Settled[a] > Settled[b]

\* With fewer than MAX_SHELVES products every worker gets through its turns and
\* main past its wait.
ShiftEnded == full \/ \A w \in Team : wpc[w] = "exited"
=============================================================================
