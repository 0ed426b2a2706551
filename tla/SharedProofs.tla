----------------------------- MODULE SharedProofs -----------------------------
(***************************************************************************)
(* The programs of MCShared for any number of processes: the dog race, its *)
(* retake and the integral, one after the other.  Each has an inductive    *)
(* invariant over its own variables; the suite runs one program and leaves *)
(* the variables of the others alone.                                      *)
(***************************************************************************)
EXTENDS MCShared, SumTheorems

\* A step of the suite is a step of the program that runs, and of no other.
LEMMA OneProgramRuns ==
    ASSUME [Next]_vars
    PROVE  /\ Integral!Next \/ UNCHANGED integral
           /\ Race!Next \/ UNCHANGED race
           /\ Retake!Next \/ UNCHANGED retake
BY DEF Next, vars

-----------------------------------------------------------------------------
(* RetakePrep/DogRace-L3/sop-race.c.                                       *)

\* The holder of the mutex is between its lock and its unlock.
HolderAwake == runMutex # Nobody => rpc[runMutex] \in {"move", "unlock"}

RetakeInv == Retake!TypeOK /\ HolderAwake /\ Retake!SomeoneRuns /\ Retake!NobodyMarked

\* The invariant holds before the first fork.
LEMMA RetakeInit == Init => RetakeInv
BY SharedAssumption
DEF Init, Retake!Init, RetakeInv, Retake!TypeOK, HolderAwake, Retake!SomeoneRuns,
    Retake!NobodyMarked

\* Every step of a dog keeps it; the interesting one is SleepForEver, where the dog
\* that holds the mutex is the witness.
LEMMA RetakeStep == RetakeInv /\ [Next]_vars => RetakeInv'
<1> SUFFICES ASSUME RetakeInv, Retake!Next \/ UNCHANGED retake PROVE RetakeInv'
  BY OneProgramRuns
<1>0. Nobody \notin Procs /\ MAX_MOVEMENT \in Nat
  BY SharedAssumption DEF Integral!ProcAssumption, Race!RaceAssumption
<1> USE DEF RetakeInv, Retake!TypeOK, HolderAwake, Retake!SomeoneRuns, Retake!NobodyMarked,
            Retake!Goto
<1>1. CASE UNCHANGED retake
  BY <1>1 DEF retake
<1>2. ASSUME NEW d \in Procs, Retake!Fork(d) \/ Retake!Zero(d) PROVE RetakeInv'
  BY <1>0, <1>2 DEF Retake!Fork, Retake!Zero
<1>3. ASSUME NEW d \in Procs, Retake!Lock(d) PROVE RetakeInv'
  BY <1>0, <1>3 DEF Retake!Lock
<1>4. ASSUME NEW d \in Procs, Retake!SleepForEver(d) PROVE RetakeInv'
  <2>1. runMutex \in Procs /\ runMutex # d
    BY <1>4 DEF Retake!SleepForEver
  <2>2. rpc'[runMutex] = rpc[runMutex]
    BY <1>4, <2>1 DEF Retake!SleepForEver
  <2> QED
    BY <1>4, <2>1, <2>2 DEF Retake!SleepForEver
<1>5. ASSUME NEW d \in Procs, NEW move \in 1..MAX_MOVEMENT, Retake!Move(d, move)
      PROVE  RetakeInv'
  <2>1. move \in 0..MAX_MOVEMENT
    BY <1>0
  <2>2. rtrack' = rtrack
    BY <1>5, <2>1 DEF Retake!Move
  <2> QED
    BY <1>5, <2>2 DEF Retake!Move
<1>6. ASSUME NEW d \in Procs, Retake!Unlock(d) PROVE RetakeInv'
  BY <1>0, <1>6 DEF Retake!Unlock
<1> QED
  BY <1>1, <1>2, <1>3, <1>4, <1>5, <1>6 DEF Retake!Next, Retake!Run

\* However many dogs of RetakePrep/DogRace-L3/sop-race.c the private mutex puts to
\* sleep, one stays awake and goes on.
THEOREM RaceGoesOn == Spec => []SomeoneRuns
<1>1. RetakeInv => SomeoneRuns
  BY DEF RetakeInv, SomeoneRuns
<1> QED
  BY <1>1, RetakeInit, RetakeStep, PTL DEF Spec

-----------------------------------------------------------------------------
(* L3/DogRace/sop-race.c.                                                  *)

\* Until it starts a dog stands on the first cell.
StartsAtZero == \A d \in Procs : dpc[d] \in {"unborn", "barrier"} => pos[d] = 0

RaceInv == Race!TypeOK /\ StartsAtZero /\ Race!NoGhosts

\* No dog is on the track yet.
LEMMA RaceInit == Init => RaceInv
<1>1. Nobody \notin Procs /\ 0 \in Race!Cells
  BY SharedAssumption DEF Race!RaceAssumption, Race!Cells
<1> QED
  BY <1>1
  DEF Init, Race!Init, RaceInv, Race!TypeOK, StartsAtZero, Race!NoGhosts

\* Marks are left where MarkOf says, by each of the unprotected steps of a dog and
\* whatever the others overwrite.
LEMMA RaceStep == RaceInv /\ [Next]_vars => RaceInv'
<1> SUFFICES ASSUME RaceInv, Race!Next \/ UNCHANGED race PROVE RaceInv'
  BY OneProgramRuns
<1>0. /\ Nobody \notin Procs /\ MAX_MOVEMENT \in Nat \ {0}
      /\ Length \in Nat /\ Length > MAX_MOVEMENT /\ 0 \in Race!Cells
  BY SharedAssumption DEF Race!RaceAssumption, Race!Cells
<1> USE DEF RaceInv, Race!TypeOK, StartsAtZero, Race!NoGhosts, Race!MarkOf, Race!Goto
<1>1. CASE UNCHANGED race
  BY <1>1 DEF race
<1>2. ASSUME NEW d \in Procs, Race!Fork(d) PROVE RaceInv'
  BY <1>2 DEF Race!Fork
<1>3. ASSUME NEW d \in Procs, Race!Start(d) PROVE RaceInv'
  BY <1>0, <1>3 DEF Race!Start
<1>4. ASSUME NEW d \in Procs, NEW move \in 1..MAX_MOVEMENT, Race!Forward(d, move)
      PROVE  RaceInv'
  <2>1. pos[d] + move \in Race!Cells
    BY <1>0, <1>4 DEF Race!Forward, Race!Cells
  <2> QED
    BY <1>4, <2>1 DEF Race!Forward
<1>5. ASSUME NEW d \in Procs, NEW move \in 1..MAX_MOVEMENT, Race!Bounce(d, move)
      PROVE  RaceInv'
  <2>1. 2 * (Length - 1) - pos[d] - move \in Race!Cells
    BY <1>0, <1>5 DEF Race!Bounce, Race!Cells
  <2> QED
    BY <1>5, <2>1 DEF Race!Bounce
<1>6. ASSUME NEW d \in Procs, Race!Look(d) PROVE RaceInv'
  BY <1>6 DEF Race!Look
<1>7. ASSUME NEW d \in Procs, Race!Land(d) PROVE RaceInv'
  BY <1>7 DEF Race!Land
<1>8. ASSUME NEW d \in Procs, Race!Mark(d) PROVE RaceInv'
  BY <1>0, <1>8 DEF Race!Mark
<1>9. ASSUME NEW d \in Procs, Race!Clear(d) PROVE RaceInv'
  BY <1>0, <1>9 DEF Race!Clear
<1>10. CASE Race!Frozen
  BY <1>10 DEF Race!Frozen, Race!vars
<1> QED
  BY <1>1, <1>2, <1>3, <1>4, <1>5, <1>6, <1>7, <1>8, <1>9, <1>10 DEF Race!Next, Race!Run

\* A dog of L3/DogRace/sop-race.c leaves a mark behind only where it was turned away;
\* in the retake no dog is ever on the track.
THEOREM MarksStay == Spec => []MarksSound
<1>1. RaceInv /\ RetakeInv => MarksSound
  BY DEF RaceInv, RetakeInv, MarksSound
<1> QED
  BY <1>1, RetakeInit, RetakeStep, RaceInit, RaceStep, PTL DEF Spec

-----------------------------------------------------------------------------
(* L3/Exercise2/integral.c.                                                *)

\* Steps of a process: before it has a memory, while it holds the named semaphore,
\* before it first locks the mutex, before it counts itself out.
Opening  == {"semOpen", "semReopen", "semWait", "shmOpen", "shmReopen"}
UnderSem == {"shmOpen", "shmReopen", "ftruncate", "semPost"}
Fresh    == {"ftruncate", "semPost", "memset", "initMutex", "initCounter", "lockIn"}
Leaving  == {"unlockOut", "shmUnlink", "semUnlink", "exited", "killed"}

\* What the next step of a process says about its other variables.
Where(p) ==
    /\ pc[p] \in {"semOpen", "semReopen"} => sem[p] = 0
    /\ pc[p] \notin {"semOpen", "semReopen", "killed"} => sem[p] # 0
    /\ pc[p] \in Opening => mem[p] = 0 /\ ~first[p]
    /\ pc[p] \notin Opening \cup {"killed"} => mem[p] # 0
    /\ pc[p] \in Opening \cup Fresh \cup {"loadIn", "count", "unlockIn"} => batch[p] = 0
    /\ pc[p] \in {"lockAdd", "loadAdd", "add"} => batch[p] < Batches
    /\ pc[p] = "add" => reg[p] >= 0
    /\ last[p] => pc[p] \in Leaving
    /\ pc[p] \in {"shmUnlink", "semUnlink"} => last[p]

\* The named semaphores are binary: one process at a time opens the memory.
SemSound ==
    /\ \A p \in Procs : pc[p] \in UnderSem => sems[sem[p]] = 0
    /\ \A p, q \in Procs : p # q /\ pc[p] \in UnderSem /\ pc[q] \in UnderSem => sem[p] # sem[q]

\* Every memory has one creator.
MadeExact == made = Cardinality({p \in Procs : first[p]})

\* A process that found a memory its creator has not sized came by another semaphore.
UnsizedApart ==
    /\ shmName <= made /\ \A p \in Procs : mem[p] <= made
    /\ \A p, q \in Procs : p # q /\ pc[q] = "ftruncate" /\ mem[p] = mem[q] => sem[p] # sem[q]

Shape == Integral!TypeOK /\ (\A p \in Procs : Where(p)) /\ SemSound /\ MadeExact /\ UnsizedApart

\* Who is between lock and unlock of a sound memory owns its mutex, and the value it
\* has loaded is still there.
OwnerInside ==
    \A p \in Procs : mem[p] \notin spoilt =>
        /\ pc[p] \in Integral!Critical => owner[mem[p]] = p
        /\ pc[p] \in {"count", "uncount"} => reg[p] = counter[mem[p]]
        /\ pc[p] = "add" => reg[p] = samples[mem[p]]

\* A name that a process found and that is gone, or is the name of a later semaphore,
\* was removed by another process.
OtherLast(p) == \E q \in Procs \ {p} : last[q]
NamesRemoved ==
    \A p \in Procs :
        /\ sem[p] # 0 /\ pc[p] \notin {"exited", "killed"} /\ sem[p] # semName => OtherLast(p)
        /\ pc[p] = "semReopen" /\ semName = 0 => OtherLast(p)
        /\ /\ mem[p] # 0 \/ pc[p] = "shmReopen"
           /\ pc[p] \notin {"semUnlink", "exited", "killed"} /\ shmName = 0
           => OtherLast(p)

\* As long as nothing went wrong somebody is on the way to remove each name.
Harmless == spoilt = {} /\ \A p \in Procs : pc[p] # "killed"
CaresForSem(p) == sem[p] # 0 /\ (pc[p] \in Leaving => last[p] /\ pc[p] # "exited")
CaresForShm(p) == mem[p] # 0 /\ (pc[p] \in Leaving => last[p] /\ pc[p] \in {"unlockOut", "shmUnlink"})
NamesCaredFor ==
    Harmless => /\ semName # 0 => \E p \in Procs : CaresForSem(p)
                /\ shmName # 0 => \E p \in Procs : CaresForShm(p)

IntegralInv ==
    /\ Shape /\ OwnerInside /\ Integral!CounterExact /\ Integral!SamplesExact
    /\ NamesRemoved /\ Integral!KilledByARace /\ NamesCaredFor

\* The instance's names for the operators of the library mean the same.
LEMMA SameOperators ==
    /\ \A S : Integral!IsFiniteSet(S) <=> IsFiniteSet(S)
    /\ \A S : Integral!Cardinality(S) = Cardinality(S)
    /\ \A f : Integral!SumFunction(f) = SumFunction(f)
<1>1. \A S : Integral!IsFiniteSet(S) <=> IsFiniteSet(S)
  BY DEF Integral!IsFiniteSet, IsFiniteSet
<1>2. \A S : Integral!Cardinality(S) = Cardinality(S)
  BY DEF Integral!Cardinality, Cardinality, Integral!IsFiniteSet, IsFiniteSet
<1>3. \A f : Integral!SumFunction(f) = SumFunction(f)
  BY Zenon DEF SumFunction, SumFunctionOnSet, FoldFunctionOnSet, MapThenFoldSet,
     Integral!SumFunction, Integral!SumFunctionOnSet, Integral!FoldFunctionOnSet,
     Integral!MapThenFoldSet
<1> QED
  BY <1>1, <1>2, <1>3

LEMMA Parameters ==
    /\ Procs # {} /\ IsFiniteSet(Procs) /\ Cardinality(Procs) \in Nat
    /\ Nobody \notin Procs /\ Batches \in Nat
BY SharedAssumption, SameOperators, FS_CardinalityType
DEF Integral!ProcAssumption, Integral!BatchAssumption

\* Memories are numbered 1 to the number of processes.
LEMMA MemNumbers == Integral!Mems = 1..Cardinality(Procs)
BY SameOperators DEF Integral!Mems

\* No process has anything yet.
LEMMA IntegralInit == Init => IntegralInv
<1> SUFFICES ASSUME Init PROVE IntegralInv
  OBVIOUS
<1> USE DEF Init, Integral!Init
<1>1. Procs # {} /\ IsFiniteSet(Procs) /\ Nobody \notin Procs /\ Batches \in Nat
  BY Parameters
<1>2. Integral!TypeOK
  BY <1>1 DEF Integral!TypeOK
<1>3. (\A p \in Procs : Where(p)) /\ SemSound /\ OwnerInside
  BY DEF Where, SemSound, OwnerInside, Opening, UnderSem, Fresh, Leaving, Integral!Critical
<1>4. MadeExact
  <2>1. {p \in Procs : first[p]} = {}
    OBVIOUS
  <2> QED
    BY <2>1, FS_EmptySet DEF MadeExact
<1>5. Integral!CounterExact
  <2>1. \A m \in Integral!Mems : Integral!Counted(m) = {}
    BY DEF Integral!Counted, Integral!Critical
  <2> QED
    BY <2>1, FS_EmptySet, SameOperators DEF Integral!CounterExact
<1>6. Integral!SamplesExact
  <2> SUFFICES ASSUME NEW m \in Integral!Mems PROVE samples[m] = Integral!Batched(m)
    BY DEF Integral!SamplesExact
  <2> DEFINE f == [p \in Procs |-> IF mem[p] = m THEN batch[p] ELSE 0]
  <2>1. f \in [Procs -> Int] /\ \A p \in Procs : f[p] = 0
    OBVIOUS
  <2>2. SumFunction(f) = 0
    <3> HIDE DEF f
    <3> QED
      BY <1>1, <2>1, SumZero
  <2> QED
    BY <2>2, SameOperators DEF Integral!Batched
<1>7. NamesRemoved /\ Integral!KilledByARace /\ NamesCaredFor
  BY DEF NamesRemoved, Integral!KilledByARace, NamesCaredFor
<1>8. UnsizedApart
  BY DEF UnsizedApart
<1> QED
  BY <1>2, <1>3, <1>4, <1>5, <1>6, <1>7, <1>8 DEF IntegralInv, Shape

\* There is a number for the semaphore and for the memory a process creates.
LEMMA RoomForNames ==
    ASSUME Shape, NEW p \in Procs
    PROVE  /\ pc[p] = "semOpen" => Integral!NextSem \in Integral!Mems
           /\ pc[p] = "shmOpen" => made + 1 \in Integral!Mems
<1>1. IsFiniteSet(Procs)
  BY Parameters
<1> DEFINE Others == Procs \ {p}
<1>2. IsFiniteSet(Others) /\ Cardinality(Others) \in Nat /\ Cardinality(Procs) = Cardinality(Others) + 1
  <2>1. IsFiniteSet(Others) /\ Cardinality(Others) = Cardinality(Procs) - 1
    BY <1>1, FS_RemoveElement
  <2>2. Cardinality(Others) \in Nat
    BY <2>1, FS_CardinalityType
  <2> QED
    BY <2>1, <2>2, Parameters
<1>3. ASSUME pc[p] = "semOpen" PROVE Integral!NextSem \in Integral!Mems
  <2> DEFINE Sems  == {sem[q] : q \in Others}
             SemsOf == [q \in Others |-> sem[q]]
             InUse == {sem[q] : q \in Procs} \ {0}
  <2>1. sem[p] = 0
    BY <1>3 DEF Shape, Where
  <2>2. InUse \subseteq Sems
    BY <2>1
  <2>3. SemsOf \in Surjection(Others, Sems)
    BY DEF Surjection
  <2>4. IsFiniteSet(Sems) /\ Cardinality(Sems) <= Cardinality(Others)
    <3> HIDE DEF Others, Sems, SemsOf
    <3> QED
      BY <1>2, <2>3, FS_Surjection
  <2>5. IsFiniteSet(InUse) /\ Cardinality(InUse) <= Cardinality(Sems)
    BY <2>2, <2>4, FS_Subset
  <2>6. Cardinality(InUse) \in Nat /\ Cardinality(Sems) \in Nat
    BY <2>4, <2>5, FS_CardinalityType
  <2>7. Integral!NextSem = 1 + Cardinality(InUse)
    BY SameOperators DEF Integral!NextSem
  <2> HIDE DEF Others, Sems, InUse
  <2> QED
    BY <1>2, <2>4, <2>5, <2>6, <2>7, MemNumbers
<1>4. ASSUME pc[p] = "shmOpen" PROVE made + 1 \in Integral!Mems
  <2>1. ~first[p]
    BY <1>4 DEF Shape, Where, Opening
  <2>2. {q \in Procs : first[q]} \subseteq Others
    BY <2>1
  <2>3. made \in Nat /\ made <= Cardinality(Others)
    BY <1>2, <2>2, FS_Subset, FS_CardinalityType DEF Shape, MadeExact
  <2> QED
    BY <1>2, <2>3, MemNumbers
<1> QED
  BY <1>3, <1>4

\* The types and places of the processes.
LEMMA PlacesStep ==
    ASSUME Shape, NEW p \in Procs, Integral!Step(p)
    PROVE  Integral!TypeOK' /\ \A q \in Procs : Where(q)'
<1>0. Nobody \notin Procs /\ Batches \in Nat /\ 0 \notin Integral!Mems
  BY Parameters, MemNumbers
<1>r. /\ pc[p] = "semOpen" => Integral!NextSem \in Integral!Mems
      /\ pc[p] = "shmOpen" => made + 1 \in Integral!Mems
  BY RoomForNames
<1> USE DEF Shape, Integral!TypeOK, Where, Integral!Goto, Integral!names, Integral!store,
            Integral!Critical, Opening, UnderSem, Fresh, Leaving
<1>1. CASE Integral!SemOpen(p)
  BY <1>0, <1>r, <1>1 DEF Integral!SemOpen
<1>2. CASE Integral!SemReopen(p)
  BY <1>0, <1>2 DEF Integral!SemReopen
<1>3. CASE Integral!SemWait(p)
  BY <1>0, <1>3 DEF Integral!SemWait
<1>4. CASE Integral!ShmOpen(p)
  <2>1. CASE shmName = 0
    <3>1. made' \in Integral!Mems /\ made' # 0
      BY <1>0, <1>r, <1>4, <2>1 DEF Integral!ShmOpen
    <3>2. /\ mem' = [mem EXCEPT ![p] = made'] /\ shmName' = made'
          /\ first' = [first EXCEPT ![p] = TRUE] /\ pc' = [pc EXCEPT ![p] = "ftruncate"]
          /\ UNCHANGED <<semName, sems, owner, counter, samples, sem, batch, reg, last, spoilt>>
      BY <1>4, <2>1 DEF Integral!ShmOpen
    <3>3. pc[p] = "shmOpen"
      BY <1>4 DEF Integral!ShmOpen
    <3> QED
      BY <1>0, <3>1, <3>2, <3>3
  <2>2. CASE shmName # 0
    BY <1>0, <1>4, <2>2 DEF Integral!ShmOpen
  <2> QED
    BY <2>1, <2>2
<1>5. CASE Integral!ShmReopen(p)
  BY <1>0, <1>5 DEF Integral!ShmReopen, SemSound
<1>6. CASE Integral!SemPost(p)
  BY <1>0, <1>6 DEF Integral!SemPost, SemSound
<1>7. CASE Integral!InitMutex(p)
  BY <1>0, <1>7 DEF Integral!InitMutex, Integral!Spoil
<1>8. CASE Integral!InitCounter(p)
  BY <1>0, <1>8 DEF Integral!InitCounter, Integral!Spoil
<1>9. CASE Integral!Lock(p)
  BY <1>0, <1>9 DEF Integral!Lock, Integral!Locked
<1>10. CASE Integral!Load(p)
  BY <1>0, <1>10 DEF Integral!Load, Integral!Loaded
<1>11. CASE Integral!Count(p)
  BY <1>0, <1>11 DEF Integral!Count
<1>12. CASE Integral!UnlockIn(p)
  BY <1>0, <1>12 DEF Integral!UnlockIn, Integral!Release
<1>13. CASE Integral!Work(p)
  BY <1>0, <1>13 DEF Integral!Work
<1>14. CASE Integral!Add(p)
  BY <1>0, <1>14 DEF Integral!Add
<1>15. CASE Integral!UnlockAdd(p)
  BY <1>0, <1>15 DEF Integral!UnlockAdd, Integral!Release
<1>16. CASE Integral!Uncount(p)
  BY <1>0, <1>16 DEF Integral!Uncount
<1>17. CASE Integral!UnlockOut(p)
  BY <1>0, <1>17 DEF Integral!UnlockOut, Integral!Release
<1>18. CASE Integral!ShmUnlink(p)
  BY <1>0, <1>18 DEF Integral!ShmUnlink
<1>19. CASE Integral!SemUnlink(p)
  BY <1>0, <1>19 DEF Integral!SemUnlink
<1>20. CASE Integral!Ftruncate(p) \/ Integral!TouchUnsized(p)
  BY <1>0, <1>20 DEF Integral!Ftruncate, Integral!TouchUnsized
<1>21. CASE Integral!Memset(p)
  BY <1>0, <1>21 DEF Integral!Memset, Integral!Spoil
<1> QED
  BY <1>1, <1>2, <1>3, <1>4, <1>5, <1>6, <1>7, <1>8, <1>9, <1>10, <1>11, <1>12, <1>13,
     <1>14, <1>15, <1>16, <1>17, <1>18, <1>19, <1>20, <1>21 DEF Integral!Step

\* Only the three steps at the named semaphore change who may open.
LEMMA SemStep ==
    ASSUME Shape, NEW p \in Procs, Integral!Step(p)
    PROVE  SemSound'
<1>0. 0 \notin Integral!Mems
  BY MemNumbers
<1> USE DEF Shape, Integral!TypeOK, Where, SemSound, UnderSem, Integral!Goto
<1>1. CASE Integral!SemOpen(p) \/ Integral!SemReopen(p)
  BY <1>1 DEF Integral!SemOpen, Integral!SemReopen, Integral!names, Integral!store
<1>2. CASE Integral!SemWait(p)
  BY <1>0, <1>2 DEF Integral!SemWait, Integral!names, Integral!store
<1>3. CASE Integral!ShmOpen(p)
  BY <1>3 DEF Integral!ShmOpen, Integral!names, Integral!store
<1>4. CASE Integral!ShmReopen(p)
  BY <1>0, <1>4 DEF Integral!ShmReopen, Integral!names, Integral!store
<1>5. CASE Integral!SemPost(p)
  BY <1>0, <1>5 DEF Integral!SemPost, Integral!names, Integral!store
<1>6. CASE Integral!Memset(p) \/ Integral!InitMutex(p) \/ Integral!InitCounter(p)
  BY <1>6 DEF Integral!Memset, Integral!InitMutex, Integral!InitCounter, Integral!names
<1>7. CASE Integral!Lock(p) \/ Integral!Load(p)
  BY <1>7 DEF Integral!Lock, Integral!Load, Integral!Locked, Integral!Loaded, Integral!names
<1>10. CASE Integral!Ftruncate(p) \/ Integral!TouchUnsized(p)
  BY <1>10 DEF Integral!Ftruncate, Integral!TouchUnsized, Integral!names
<1>8. CASE Integral!Count(p) \/ Integral!UnlockIn(p) \/ Integral!Work(p) \/ Integral!Add(p)
           \/ Integral!UnlockAdd(p)
  BY <1>8 DEF Integral!Count, Integral!UnlockIn, Integral!Work, Integral!Add,
              Integral!UnlockAdd, Integral!names
<1>9. CASE Integral!Uncount(p) \/ Integral!UnlockOut(p) \/ Integral!ShmUnlink(p)
           \/ Integral!SemUnlink(p)
  BY <1>9 DEF Integral!Uncount, Integral!UnlockOut, Integral!ShmUnlink, Integral!SemUnlink,
              Integral!names
<1> QED
  BY <1>1, <1>2, <1>3, <1>4, <1>5, <1>6, <1>7, <1>8, <1>9, <1>10 DEF Integral!Step

LEMMA MadeStep ==
    ASSUME Shape, NEW p \in Procs, Integral!Step(p)
    PROVE  MadeExact'
<1>1. CASE Integral!ShmOpen(p) /\ shmName = 0
  <2> DEFINE F == {q \in Procs : first[q]}
  <2>1. IsFiniteSet(F) /\ made = Cardinality(F)
    BY Parameters, FS_Subset DEF Shape, MadeExact
  <2>2. p \notin F /\ {q \in Procs : first'[q]} = F \cup {p}
    BY <1>1 DEF Shape, Where, Opening, Integral!TypeOK, Integral!ShmOpen
  <2>3. made' = made + 1
    BY <1>1 DEF Integral!ShmOpen
  <2> QED
    BY <2>1, <2>2, <2>3, FS_AddElement, FS_CardinalityType DEF MadeExact
<1>2. CASE Integral!ShmOpen(p) /\ shmName # 0
  BY <1>2 DEF Integral!ShmOpen, Shape, MadeExact
<1>3. CASE ~Integral!ShmOpen(p)
  <2>1. UNCHANGED <<made, first>>
    BY <1>3
    DEF Integral!Step, Integral!SemOpen, Integral!SemReopen, Integral!SemWait,
        Integral!ShmReopen, Integral!SemPost, Integral!Ftruncate, Integral!Memset,
        Integral!InitMutex, Integral!InitCounter, Integral!TouchUnsized,
        Integral!Lock, Integral!Load, Integral!Count, Integral!UnlockIn, Integral!Work,
        Integral!Add, Integral!UnlockAdd, Integral!Uncount, Integral!UnlockOut,
        Integral!ShmUnlink, Integral!SemUnlink
  <2> QED
    BY <2>1 DEF Shape, MadeExact
<1> QED
  BY <1>1, <1>2, <1>3

\* A memory is new when its creator gets it, and whoever finds it before it is sized
\* holds a semaphore of its own.
LEMMA ApartStep ==
    ASSUME Shape, NEW p \in Procs, Integral!Step(p)
    PROVE  UnsizedApart'
<1>0. Integral!Mems \subseteq Nat \ {0}
  BY Parameters, MemNumbers
<1> USE DEF Shape, Integral!TypeOK, Where, UnsizedApart, Integral!Goto, Opening, UnderSem
<1>1. CASE Integral!SemOpen(p) \/ Integral!SemReopen(p)
  BY <1>0, <1>1 DEF Integral!SemOpen, Integral!SemReopen, Integral!names, Integral!store
<1>2. CASE Integral!ShmOpen(p)
  <2>1. CASE shmName = 0
    <3>1. /\ made' = made + 1 /\ shmName' = made'
          /\ mem' = [mem EXCEPT ![p] = made'] /\ pc' = [pc EXCEPT ![p] = "ftruncate"]
          /\ UNCHANGED sem
      BY <1>2, <2>1 DEF Integral!ShmOpen
    <3>2. made \in Nat /\ \A q \in Procs : mem[q] \in Nat
      <4>1. Integral!Mems \cup {0} \subseteq Nat
        BY <1>0
      <4>2. made \in Integral!Mems \cup {0} /\ mem \in [Procs -> Integral!Mems \cup {0}]
        OBVIOUS
      <4> QED
        BY ONLY <4>1, <4>2
    <3>3. \A q \in Procs : mem'[q] <= made' /\ (q # p => mem'[q] < mem'[p])
      BY <3>1, <3>2
    <3> QED
      BY <3>1, <3>2, <3>3
  <2>2. CASE shmName # 0
    BY <1>2, <2>2 DEF Integral!ShmOpen
  <2> QED
    BY <2>1, <2>2
<1>3. CASE Integral!ShmReopen(p)
  BY <1>0, <1>3 DEF Integral!ShmReopen, SemSound, Integral!names
<1>4. CASE Integral!ShmUnlink(p)
  BY <1>0, <1>4 DEF Integral!ShmUnlink
<1>5. CASE ~(Integral!SemOpen(p) \/ Integral!SemReopen(p) \/ Integral!ShmOpen(p)
             \/ Integral!ShmReopen(p) \/ Integral!ShmUnlink(p))
  <2>1. UNCHANGED <<shmName, made, mem, sem>> /\ pc'[p] # "ftruncate"
        /\ \A q \in Procs : q # p => pc'[q] = pc[q]
    BY <1>5
    DEF Integral!Step, Integral!SemWait, Integral!SemPost, Integral!Ftruncate, Integral!Memset,
        Integral!InitMutex, Integral!InitCounter, Integral!TouchUnsized,
        Integral!Lock, Integral!Locked, Integral!Load, Integral!Loaded, Integral!Count,
        Integral!UnlockIn, Integral!Work, Integral!Add, Integral!UnlockAdd, Integral!Uncount,
        Integral!UnlockOut, Integral!SemUnlink, Integral!names
  <2> QED
    BY <2>1
<1> QED
  BY <1>1, <1>2, <1>3, <1>4, <1>5

\* A process that enters, leaves or writes excludes the others by the mutex; one that
\* initialises a memory in use has spoilt it.
LEMMA OwnerStep ==
    ASSUME Shape, OwnerInside, NEW p \in Procs, Integral!Step(p)
    PROVE  OwnerInside'
<1>0. Nobody \notin Procs /\ 0 \notin Integral!Mems
  BY Parameters, MemNumbers
<1> USE DEF Shape, Integral!TypeOK, Where, OwnerInside, Integral!Goto, Integral!Critical,
            Opening, Fresh, Leaving
<1>1. CASE Integral!SemOpen(p) \/ Integral!SemReopen(p) \/ Integral!SemWait(p)
  BY <1>1 DEF Integral!SemOpen, Integral!SemReopen, Integral!SemWait, Integral!names,
              Integral!store
<1>2. CASE Integral!ShmOpen(p) \/ Integral!ShmReopen(p)
  BY <1>2 DEF Integral!ShmOpen, Integral!ShmReopen, Integral!names, Integral!store
<1>3. CASE Integral!SemPost(p) \/ Integral!Ftruncate(p) \/ Integral!TouchUnsized(p)
  BY <1>3 DEF Integral!SemPost, Integral!Ftruncate, Integral!TouchUnsized, Integral!names,
              Integral!store
<1>4. CASE Integral!InitMutex(p)
  BY <1>0, <1>4 DEF Integral!InitMutex, Integral!Spoil, Integral!Used, Integral!names
<1>14. CASE Integral!Memset(p)
  BY <1>0, <1>14 DEF Integral!Memset, Integral!Spoil, Integral!Used, Integral!names
<1>5. CASE Integral!InitCounter(p)
  BY <1>0, <1>5 DEF Integral!InitCounter, Integral!Spoil, Integral!Used, Integral!names
<1>6. CASE Integral!Lock(p)
  BY <1>0, <1>6 DEF Integral!Lock, Integral!Locked, Integral!names
<1>7. CASE Integral!Load(p)
  BY <1>0, <1>7 DEF Integral!Load, Integral!Loaded, Integral!names, Integral!store
<1>8. CASE Integral!Count(p)
  BY <1>0, <1>8 DEF Integral!Count, Integral!names
<1>9. CASE Integral!Work(p)
  BY <1>9 DEF Integral!Work, Integral!names, Integral!store
<1>10. CASE Integral!Add(p)
  BY <1>0, <1>10 DEF Integral!Add, Integral!names
<1>11. CASE Integral!Uncount(p)
  BY <1>0, <1>11 DEF Integral!Uncount, Integral!names
<1>12. CASE Integral!UnlockIn(p) \/ Integral!UnlockAdd(p) \/ Integral!UnlockOut(p)
  BY <1>0, <1>12
  DEF Integral!UnlockIn, Integral!UnlockAdd, Integral!UnlockOut, Integral!Release, Integral!names
<1>13. CASE Integral!ShmUnlink(p) \/ Integral!SemUnlink(p)
  BY <1>13 DEF Integral!ShmUnlink, Integral!SemUnlink, Integral!names, Integral!store
<1> QED
  BY <1>1, <1>2, <1>3, <1>4, <1>5, <1>6, <1>7, <1>8, <1>9, <1>10, <1>11, <1>12, <1>13,
     <1>14
  DEF Integral!Step

\* Who is counted changes only when a process counts itself in or out.
LEMMA CountedSame ==
    ASSUME Shape, NEW p \in Procs, Integral!Step(p),
           pc[p] \notin {"count", "uncount"}, NEW m \in Integral!Mems
    PROVE  Integral!Counted(m)' = Integral!Counted(m)
<1> USE DEF Shape, Integral!TypeOK, Where, Integral!Counted, Integral!Goto, Integral!Critical,
            Opening, Fresh, Leaving
<1>1. CASE Integral!SemOpen(p) \/ Integral!SemReopen(p) \/ Integral!SemWait(p)
  BY <1>1 DEF Integral!SemOpen, Integral!SemReopen, Integral!SemWait, Integral!names,
              Integral!store
<1>2. CASE Integral!ShmOpen(p) \/ Integral!ShmReopen(p)
  BY <1>2 DEF Integral!ShmOpen, Integral!ShmReopen, Integral!names, Integral!store
<1>3. CASE Integral!SemPost(p) \/ Integral!Memset(p) \/ Integral!InitMutex(p)
           \/ Integral!InitCounter(p)
  BY <1>3 DEF Integral!SemPost, Integral!Memset, Integral!InitMutex, Integral!InitCounter,
              Integral!names
<1>7. CASE Integral!Ftruncate(p) \/ Integral!TouchUnsized(p)
  BY <1>7 DEF Integral!Ftruncate, Integral!TouchUnsized, Integral!names
<1>4. CASE Integral!Lock(p) \/ Integral!Load(p)
  BY <1>4 DEF Integral!Lock, Integral!Locked, Integral!Load, Integral!Loaded, Integral!names
<1>5. CASE Integral!UnlockIn(p) \/ Integral!Work(p) \/ Integral!Add(p) \/ Integral!UnlockAdd(p)
  BY <1>5 DEF Integral!UnlockIn, Integral!Work, Integral!Add, Integral!UnlockAdd, Integral!names
<1>6. CASE Integral!UnlockOut(p) \/ Integral!ShmUnlink(p) \/ Integral!SemUnlink(p)
  BY <1>6 DEF Integral!UnlockOut, Integral!ShmUnlink, Integral!SemUnlink, Integral!names
<1> QED
  BY <1>1, <1>2, <1>3, <1>4, <1>5, <1>6, <1>7
  DEF Integral!Step, Integral!Count, Integral!Uncount

\* Of the steps that write counter, those of a creator spoil the memory or find nobody
\* counted, and the others hold the mutex and count the one process that moves.
LEMMA CounterStep ==
    ASSUME Shape, OwnerInside, Integral!CounterExact, NEW p \in Procs, Integral!Step(p)
    PROVE  Integral!CounterExact'
<1> DEFINE C(m) == Integral!Counted(m)
<1>f. \A m : IsFiniteSet(C(m)) /\ Cardinality(C(m)) \in Nat
  <2> SUFFICES ASSUME NEW m PROVE IsFiniteSet(C(m)) /\ Cardinality(C(m)) \in Nat
    OBVIOUS
  <2>1. C(m) \subseteq Procs
    BY DEF Integral!Counted
  <2> QED
    BY <2>1, Parameters, FS_Subset, FS_CardinalityType
<1>c. \A m \in Integral!Mems \ spoilt : counter[m] = Cardinality(C(m))
  BY SameOperators DEF Integral!CounterExact
<1> SUFFICES ASSUME NEW m \in Integral!Mems, m \notin spoilt'
             PROVE  counter'[m] = Cardinality(C(m)')
  BY SameOperators DEF Integral!CounterExact
<1>1. CASE Integral!Count(p)
  <2>0. m \notin spoilt /\ mem[p] \in Integral!Mems
    BY <1>1 DEF Integral!Count, Shape, Integral!TypeOK, Where, Opening
  <2>1. CASE m = mem[p]
    <3>1. counter'[m] = counter[m] + 1
      BY <1>1, <2>0, <2>1 DEF Integral!Count, OwnerInside, Integral!Critical, Shape, Integral!TypeOK
    <3>2. p \notin C(m) /\ C(m)' = C(m) \cup {p}
      BY <1>1, <2>1
      DEF Integral!Count, Integral!Counted, Integral!Critical, Integral!Goto, Integral!names,
          Shape, Integral!TypeOK
    <3> HIDE DEF C
    <3>3. counter[m] = Cardinality(C(m)) /\ IsFiniteSet(C(m)) /\ Cardinality(C(m)) \in Nat
      BY <1>c, <1>f, <2>0
    <3>4. Cardinality(C(m) \cup {p}) = Cardinality(C(m)) + 1
      BY ONLY <3>2, <3>3, FS_AddElement
    <3> QED
      BY ONLY <3>1, <3>2, <3>3, <3>4
  <2>2. CASE m # mem[p]
    <3>1. counter'[m] = counter[m] /\ C(m)' = C(m)
      BY <1>1, <2>0, <2>2
      DEF Integral!Count, Integral!Counted, Integral!Goto, Integral!names, Shape, Integral!TypeOK
    <3> QED
      BY <1>c, <2>0, <3>1
  <2> QED
    BY <2>1, <2>2
<1>2. CASE Integral!Uncount(p)
  <2>0. m \notin spoilt /\ mem[p] \in Integral!Mems
    BY <1>2 DEF Integral!Uncount, Shape, Integral!TypeOK, Where, Opening
  <2>1. CASE m = mem[p]
    <3>1. counter'[m] = counter[m] - 1
      BY <1>2, <2>0, <2>1
      DEF Integral!Uncount, OwnerInside, Integral!Critical, Shape, Integral!TypeOK
    <3>2. p \in C(m) /\ C(m)' = C(m) \ {p}
      BY <1>2, <2>1
      DEF Integral!Uncount, Integral!Counted, Integral!Critical, Integral!Goto, Integral!names,
          Shape, Integral!TypeOK
    <3> HIDE DEF C
    <3>3. counter[m] = Cardinality(C(m)) /\ IsFiniteSet(C(m)) /\ Cardinality(C(m)) \in Nat
      BY <1>c, <1>f, <2>0
    <3>4. Cardinality(C(m) \ {p}) = Cardinality(C(m)) - 1
      BY ONLY <3>2, <3>3, FS_RemoveElement
    <3> QED
      BY ONLY <3>1, <3>2, <3>3, <3>4
  <2>2. CASE m # mem[p]
    <3>1. counter'[m] = counter[m] /\ C(m)' = C(m)
      BY <1>2, <2>0, <2>2
      DEF Integral!Uncount, Integral!Counted, Integral!Goto, Integral!names, Shape, Integral!TypeOK
    <3> QED
      BY <1>c, <2>0, <3>1
  <2> QED
    BY <2>1, <2>2
<1>3. CASE Integral!Memset(p) \/ Integral!InitCounter(p)
  <2>0. C(m)' = C(m)
    BY <1>3, CountedSame DEF Integral!Memset, Integral!InitCounter
  <2>1. CASE m = mem[p]
    <3>1. Integral!Used(m) = {} /\ counter'[m] = 0
      BY <1>3, <2>1
      DEF Integral!Memset, Integral!InitCounter, Integral!Spoil, Shape, Integral!TypeOK
    <3>2. C(m) = {}
      BY <3>1 DEF Integral!Used, Integral!Counted, Integral!Critical
    <3> QED
      BY <2>0, <3>1, <3>2, FS_EmptySet
  <2>2. CASE m # mem[p]
    <3>1. m \notin spoilt /\ counter'[m] = counter[m]
      BY <1>3, <2>2
      DEF Integral!Memset, Integral!InitCounter, Integral!Spoil, Shape, Integral!TypeOK
    <3> QED
      BY <1>c, <2>0, <3>1
  <2> QED
    BY <2>1, <2>2
<1>4. CASE ~(Integral!Count(p) \/ Integral!Uncount(p) \/ Integral!Memset(p)
             \/ Integral!InitCounter(p))
  <2>1. counter' = counter /\ spoilt \subseteq spoilt' /\ pc[p] \notin {"count", "uncount"}
    BY <1>4
    DEF Integral!Step, Integral!SemOpen, Integral!SemReopen, Integral!SemWait, Integral!ShmOpen,
        Integral!ShmReopen, Integral!SemPost, Integral!Ftruncate, Integral!TouchUnsized,
        Integral!InitMutex, Integral!Spoil, Integral!Lock, Integral!Locked, Integral!Load,
        Integral!Loaded, Integral!UnlockIn, Integral!Work, Integral!Add, Integral!UnlockAdd,
        Integral!UnlockOut, Integral!ShmUnlink, Integral!SemUnlink, Integral!store
  <2>2. C(m)' = C(m)
    BY <2>1, CountedSame
  <2> QED
    BY <1>c, <2>1, <2>2
<1> QED
  BY <1>1, <1>2, <1>3, <1>4

\* What the processes added to a memory, one by one.
Shares(m) == [q \in Procs |-> IF mem[q] = m THEN batch[q] ELSE 0]

\* A process has added nothing before it is past its first lock.
LEMMA SharesSame ==
    ASSUME Shape, NEW p \in Procs, Integral!Step(p), ~Integral!Add(p), NEW m \in Integral!Mems
    PROVE  Shares(m)' = Shares(m)
<1> USE DEF Shape, Integral!TypeOK, Where, Shares, Opening, Fresh
<1>1. CASE Integral!ShmOpen(p) \/ Integral!ShmReopen(p)
  BY <1>1 DEF Integral!ShmOpen, Integral!ShmReopen
<1>2. CASE ~(Integral!ShmOpen(p) \/ Integral!ShmReopen(p))
  <2>1. UNCHANGED <<mem, batch>>
    BY <1>2
    DEF Integral!Step, Integral!SemOpen, Integral!SemReopen, Integral!SemWait,
        Integral!Ftruncate, Integral!SemPost, Integral!Memset, Integral!InitMutex,
        Integral!InitCounter, Integral!TouchUnsized, Integral!Lock, Integral!Load, Integral!Count, Integral!UnlockIn, Integral!Work,
        Integral!UnlockAdd, Integral!Uncount, Integral!UnlockOut,
        Integral!ShmUnlink, Integral!SemUnlink
  <2> QED
    BY <2>1
<1> QED
  BY <1>1, <1>2

LEMMA SamplesStep ==
    ASSUME Shape, OwnerInside, Integral!SamplesExact, NEW p \in Procs, Integral!Step(p)
    PROVE  Integral!SamplesExact'
<1>0. IsFiniteSet(Procs) /\ 0 \notin Integral!Mems /\ 0..Batches \subseteq Int
  BY Parameters, MemNumbers
<1>c. \A m \in Integral!Mems \ spoilt : samples[m] = SumFunction(Shares(m))
  BY SameOperators DEF Integral!SamplesExact, Integral!Batched, Shares
<1> SUFFICES ASSUME NEW m \in Integral!Mems, m \notin spoilt'
             PROVE  samples'[m] = SumFunction(Shares(m)')
  BY SameOperators DEF Integral!SamplesExact, Integral!Batched, Shares
<1>t. Shares(m) \in [Procs -> Int] /\ Shares(m)' \in [Procs -> Int]
  <2>1. batch \in [Procs -> 0..Batches] /\ batch' \in [Procs -> 0..Batches]
    BY PlacesStep DEF Shape, Integral!TypeOK
  <2> QED
    BY <1>0, <2>1 DEF Shares
<1>1. CASE Integral!Add(p)
  <2>0. m \notin spoilt /\ mem[p] \in Integral!Mems
    BY <1>1 DEF Integral!Add, Shape, Integral!TypeOK, Where, Opening
  <2>1. CASE m = mem[p]
    <3>1. samples'[m] = samples[m] + 1
      BY <1>1, <2>0, <2>1 DEF Integral!Add, OwnerInside, Shape, Integral!TypeOK
    <3>2. /\ Shares(m)'[p] = Shares(m)[p] + 1
          /\ \A q \in Procs : q # p => Shares(m)'[q] = Shares(m)[q]
      BY <1>1, <2>1 DEF Integral!Add, Shares, Shape, Integral!TypeOK
    <3>3. /\ SumFunction(Shares(m)) \in Int /\ SumFunction(Shares(m)') \in Int
          /\ SumFunction(Shares(m)') = SumFunction(Shares(m)) + Shares(m)'[p] - Shares(m)[p]
      BY <1>0, <1>t, <3>2, SumChange
    <3>4. Shares(m)[p] \in Int
      BY <1>t
    <3> QED
      BY <1>c, <2>0, <3>1, <3>2, <3>3, <3>4
  <2>2. CASE m # mem[p]
    <3>1. samples'[m] = samples[m]
      BY <1>1, <2>0, <2>2 DEF Integral!Add, Shape, Integral!TypeOK
    <3>2. Shares(m)' = Shares(m)
      BY <1>1, <2>2 DEF Integral!Add, Shares, Shape, Integral!TypeOK
    <3> QED
      BY <1>c, <2>0, <3>1, <3>2
  <2> QED
    BY <2>1, <2>2
<1>2. CASE Integral!Memset(p)
  <2>0. Shares(m)' = Shares(m)
    BY <1>2, SharesSame DEF Integral!Memset, Integral!Add
  <2>1. CASE m = mem[p]
    <3>1. Integral!Used(m) = {} /\ samples'[m] = 0
      BY <1>2, <2>1 DEF Integral!Memset, Integral!Spoil, Shape, Integral!TypeOK
    <3>2. \A q \in Procs : Shares(m)[q] = 0
      BY <3>1 DEF Integral!Used, Shares, Shape, Where, Fresh
    <3>3. SumFunction(Shares(m)) = 0
      BY <1>0, <1>t, <3>2, SumZero
    <3> QED
      BY <2>0, <3>1, <3>3
  <2>2. CASE m # mem[p]
    <3>1. m \notin spoilt /\ samples'[m] = samples[m]
      BY <1>2, <2>2 DEF Integral!Memset, Integral!Spoil, Shape, Integral!TypeOK
    <3> QED
      BY <1>c, <2>0, <3>1
  <2> QED
    BY <2>1, <2>2
<1>3. CASE ~(Integral!Add(p) \/ Integral!Memset(p))
  <2>1. samples' = samples /\ spoilt \subseteq spoilt'
    BY <1>3
    DEF Integral!Step, Integral!SemOpen, Integral!SemReopen, Integral!SemWait, Integral!ShmOpen,
        Integral!ShmReopen, Integral!SemPost, Integral!Ftruncate, Integral!TouchUnsized,
        Integral!InitMutex, Integral!InitCounter, Integral!Spoil,
        Integral!Lock, Integral!Load, Integral!Count, Integral!UnlockIn, Integral!Work,
        Integral!UnlockAdd, Integral!Uncount, Integral!UnlockOut, Integral!ShmUnlink,
        Integral!SemUnlink, Integral!store
  <2>2. Shares(m)' = Shares(m)
    BY <1>3, SharesSame
  <2> QED
    BY <1>c, <2>1, <2>2
<1> QED
  BY <1>1, <1>2, <1>3

\* The last process stays the last; a name goes only when such a process removes it.
LEMMA RemovedStep ==
    ASSUME Shape, NamesRemoved, Integral!KilledByARace, NEW p \in Procs, Integral!Step(p)
    PROVE  NamesRemoved' /\ Integral!KilledByARace'
<1>1. \A q \in Procs : last[q] => last'[q]
  BY DEF Shape, Integral!TypeOK, Where, Leaving,
     Integral!Step, Integral!SemOpen, Integral!SemReopen, Integral!SemWait, Integral!ShmOpen,
     Integral!ShmReopen, Integral!SemPost, Integral!Ftruncate, Integral!Memset,
     Integral!InitMutex, Integral!InitCounter, Integral!TouchUnsized,
     Integral!Lock, Integral!Load, Integral!Count, Integral!UnlockIn, Integral!Work,
     Integral!Add, Integral!UnlockAdd, Integral!Uncount, Integral!UnlockOut,
     Integral!ShmUnlink, Integral!SemUnlink
<1>2. \A q \in Procs : OtherLast(q) => OtherLast(q)'
  BY <1>1 DEF OtherLast
<1>k. \A q \in Procs : pc[q] = "killed" => OtherLast(q)
  BY DEF Integral!KilledByARace, OtherLast
<1> SUFFICES NamesRemoved' /\ \A q \in Procs : pc'[q] = "killed" => OtherLast(q)'
  BY DEF Integral!KilledByARace, OtherLast
<1> USE DEF NamesRemoved, Shape, Integral!TypeOK, Where, Integral!Goto, Opening
<1>3. CASE Integral!SemOpen(p)
  <2>1. CASE semName = 0
    <3>1. \A q \in Procs : sem[q] # 0 /\ pc[q] \notin {"exited", "killed"} => OtherLast(q)
      BY <2>1
    <3>2. pc[p] = "semOpen" /\ pc' = [pc EXCEPT ![p] = "semWait"]
          /\ sem' = [sem EXCEPT ![p] = semName'] /\ UNCHANGED <<shmName, mem, last>>
      BY <1>3, <2>1 DEF Integral!SemOpen
    <3>3. \A q \in Procs : /\ q # p => pc'[q] = pc[q] /\ sem'[q] = sem[q]
                           /\ pc[q] = "semReopen" => OtherLast(q)
      BY <2>1, <3>2
    <3>4. sem'[p] = semName' /\ pc'[p] = "semWait" /\ mem'[p] = 0
      BY <3>2
    <3>5. \A q \in Procs \ {p} : mem'[q] = mem[q]
      BY <3>2
    <3> QED
      BY <1>2, <1>k, <3>1, <3>2, <3>3, <3>4, <3>5
  <2>2. CASE semName # 0
    BY <1>2, <1>3, <1>k, <2>2 DEF Integral!SemOpen, Integral!names, Integral!store
  <2> QED
    BY <2>1, <2>2
<1>12. CASE Integral!SemReopen(p)
  BY <1>2, <1>12, <1>k DEF Integral!SemReopen, Integral!names, Integral!store
<1>4. CASE Integral!ShmOpen(p) \/ Integral!ShmReopen(p)
  BY <1>2, <1>4, <1>k, MemNumbers
  DEF Integral!ShmOpen, Integral!ShmReopen, Integral!names, Integral!store
<1>5. CASE Integral!ShmUnlink(p)
  <2>1. \A q \in Procs : q # p => OtherLast(q)
    BY <1>5 DEF Integral!ShmUnlink, OtherLast
  <2> QED
    BY <1>2, <1>5, <1>k, <2>1 DEF Integral!ShmUnlink
<1>6. CASE Integral!SemUnlink(p)
  <2>1. \A q \in Procs : q # p => OtherLast(q)
    BY <1>6 DEF Integral!SemUnlink, OtherLast
  <2> QED
    BY <1>2, <1>6, <1>k, <2>1 DEF Integral!SemUnlink
<1>7. CASE Integral!SemWait(p) \/ Integral!Ftruncate(p) \/ Integral!SemPost(p)
           \/ Integral!Memset(p) \/ Integral!InitMutex(p) \/ Integral!InitCounter(p)
  BY <1>2, <1>7, <1>k
  DEF Integral!SemWait, Integral!Ftruncate, Integral!SemPost, Integral!Memset,
      Integral!InitMutex, Integral!InitCounter, Integral!names
<1>11. CASE Integral!TouchUnsized(p)
  <2>1. PICK q \in Procs : pc[q] = "ftruncate" /\ mem[q] = mem[p]
    BY <1>11 DEF Integral!TouchUnsized, Integral!Sized
  <2>2. pc[p] = "lockIn" /\ sem[p] # sem[q] /\ sem[p] # 0 /\ sem[q] # 0
    BY <1>11, <2>1 DEF Integral!TouchUnsized, UnsizedApart
  <2>3. ~last[p] /\ (OtherLast(p) \/ OtherLast(q))
    BY <2>1, <2>2 DEF Leaving
  <2>4. OtherLast(p)
    BY <2>3 DEF OtherLast
  <2> QED
    BY <1>2, <1>11, <1>k, <2>4 DEF Integral!TouchUnsized, Integral!names
<1>8. CASE Integral!Lock(p) \/ Integral!Load(p)
  BY <1>2, <1>8, <1>k
  DEF Integral!Lock, Integral!Locked, Integral!Load, Integral!Loaded, Integral!names
<1>9. CASE Integral!Count(p) \/ Integral!UnlockIn(p) \/ Integral!Work(p) \/ Integral!Add(p)
           \/ Integral!UnlockAdd(p)
  BY <1>2, <1>9, <1>k
  DEF Integral!Count, Integral!UnlockIn, Integral!Work, Integral!Add, Integral!UnlockAdd,
      Integral!names
<1>10. CASE Integral!Uncount(p) \/ Integral!UnlockOut(p)
  BY <1>2, <1>10, <1>k DEF Integral!Uncount, Integral!UnlockOut, Integral!names
<1> QED
  BY <1>3, <1>4, <1>5, <1>6, <1>7, <1>8, <1>9, <1>10, <1>11,
     <1>12 DEF Integral!Step

\* Who counts itself out and is not the last leaves somebody counted, who will be; only
\* the last one stops caring for a name, and the name is gone then.
LEMMA CaredStep ==
    ASSUME Shape, OwnerInside, Integral!CounterExact, NamesCaredFor, NEW p \in Procs,
           Integral!Step(p)
    PROVE  NamesCaredFor'
<1> SUFFICES ASSUME Harmless'
             PROVE  /\ semName' # 0 => \E q \in Procs : CaresForSem(q)'
                    /\ shmName' # 0 => \E q \in Procs : CaresForShm(q)'
  BY DEF NamesCaredFor
<1>h. Harmless
  <2>1. pc[p] # "killed"
    BY DEF Integral!Locked, Integral!Loaded,
        Integral!Step, Integral!SemOpen, Integral!SemReopen, Integral!SemWait,
        Integral!ShmOpen, Integral!ShmReopen, Integral!SemPost, Integral!Ftruncate,
        Integral!Memset, Integral!TouchUnsized, Integral!InitMutex,
        Integral!InitCounter, Integral!Lock, Integral!Load, Integral!Count, Integral!UnlockIn,
        Integral!Work, Integral!Add, Integral!UnlockAdd, Integral!Uncount, Integral!UnlockOut,
        Integral!ShmUnlink, Integral!SemUnlink
  <2>2. \A q \in Procs : q # p => pc'[q] = pc[q]
    BY DEF Shape, Integral!TypeOK, Integral!Goto,
        Integral!Step, Integral!SemOpen, Integral!SemReopen, Integral!SemWait,
        Integral!ShmOpen, Integral!ShmReopen, Integral!SemPost, Integral!Ftruncate,
        Integral!Memset, Integral!TouchUnsized, Integral!InitMutex,
        Integral!InitCounter, Integral!Lock, Integral!Load, Integral!Count, Integral!UnlockIn,
        Integral!Work, Integral!Add, Integral!UnlockAdd, Integral!Uncount, Integral!UnlockOut,
        Integral!ShmUnlink, Integral!SemUnlink
  <2>3. spoilt \subseteq spoilt'
    BY DEF Integral!Spoil,
        Integral!Step, Integral!SemOpen, Integral!SemReopen, Integral!SemWait,
        Integral!ShmOpen, Integral!ShmReopen, Integral!SemPost, Integral!Ftruncate,
        Integral!Memset, Integral!TouchUnsized, Integral!InitMutex,
        Integral!InitCounter, Integral!Lock, Integral!Load, Integral!Count, Integral!UnlockIn,
        Integral!Work, Integral!Add, Integral!UnlockAdd, Integral!Uncount, Integral!UnlockOut,
        Integral!ShmUnlink, Integral!SemUnlink
  <2> QED
    BY <2>1, <2>2, <2>3 DEF Harmless
<1>c. /\ semName # 0 => \E q \in Procs : CaresForSem(q)
      /\ shmName # 0 => \E q \in Procs : CaresForShm(q)
  BY <1>h DEF NamesCaredFor
<1> USE DEF Shape, Integral!TypeOK, Where, Integral!Goto, CaresForSem, CaresForShm,
            Opening, Leaving
<1>1. CASE Integral!SemOpen(p)
  <2>1. pc[p] = "semOpen" /\ shmName' = shmName /\ UNCHANGED <<mem, last>>
    BY <1>1 DEF Integral!SemOpen
  <2>2. CASE semName = 0
    <3>1. semName' \in 1..Cardinality(Procs) /\ sem' = [sem EXCEPT ![p] = semName']
          /\ pc' = [pc EXCEPT ![p] = "semWait"]
      BY <1>1, <2>1, <2>2, RoomForNames, MemNumbers DEF Integral!SemOpen
    <3>2. sem'[p] = semName' /\ semName' # 0 /\ pc'[p] = "semWait"
      BY <3>1
    <3>3. CaresForSem(p)'
      BY <3>2
    <3>4. \A q \in Procs \ {p} : pc'[q] = pc[q]
      BY <3>1
    <3>5. ~CaresForShm(p)
      BY <2>1
    <3>6. \A q \in Procs \ {p} : CaresForShm(q) => CaresForShm(q)'
      BY <2>1, <3>4
    <3> QED
      BY <1>c, <2>1, <3>3, <3>5, <3>6
  <2>3. CASE semName # 0
    <3>1. UNCHANGED <<semName, sem>> /\ pc' = [pc EXCEPT ![p] = "semReopen"]
      BY <1>1, <2>3 DEF Integral!SemOpen
    <3> QED
      BY <1>c, <2>1, <3>1
  <2> QED
    BY <2>2, <2>3
<1>2. CASE Integral!SemReopen(p)
  BY <1>2, <1>c DEF Integral!SemReopen, Integral!names, Integral!store
<1>3. CASE Integral!ShmOpen(p)
  <2>1. CASE shmName = 0
    <3>1. made + 1 # 0
      BY <1>3, RoomForNames, MemNumbers DEF Integral!ShmOpen
    <3>2. CaresForShm(p)'
      BY <1>3, <2>1, <3>1 DEF Integral!ShmOpen
    <3>3. semName' # 0 => \E q \in Procs : CaresForSem(q)'
      BY <1>3, <1>c, <2>1 DEF Integral!ShmOpen
    <3> QED
      BY <3>2, <3>3
  <2>2. CASE shmName # 0
    BY <1>3, <1>c, <2>2 DEF Integral!ShmOpen, Integral!store
  <2> QED
    BY <2>1, <2>2
<1>4. CASE Integral!ShmReopen(p)
  <2>1. shmName # 0
    BY <1>4 DEF Integral!ShmReopen, Harmless
  <2> QED
    BY <1>4, <1>c, <2>1 DEF Integral!ShmReopen, Integral!names, Integral!store
<1>5. CASE Integral!SemWait(p) \/ Integral!Ftruncate(p) \/ Integral!SemPost(p)
           \/ Integral!Memset(p) \/ Integral!InitMutex(p) \/ Integral!InitCounter(p)
  BY <1>5, <1>c
  DEF Integral!SemWait, Integral!Ftruncate, Integral!SemPost, Integral!Memset,
      Integral!InitMutex, Integral!InitCounter, Integral!names
<1>12. CASE Integral!TouchUnsized(p)
  BY <1>12 DEF Integral!TouchUnsized, Harmless
<1>6. CASE Integral!Lock(p) \/ Integral!Load(p)
  BY <1>6, <1>c
  DEF Integral!Lock, Integral!Locked, Integral!Load, Integral!Loaded, Integral!names
<1>7. CASE Integral!Count(p) \/ Integral!UnlockIn(p) \/ Integral!Work(p) \/ Integral!Add(p)
           \/ Integral!UnlockAdd(p)
  BY <1>7, <1>c
  DEF Integral!Count, Integral!UnlockIn, Integral!Work, Integral!Add, Integral!UnlockAdd,
      Integral!names
<1>8. CASE Integral!Uncount(p)
  <2>0. /\ pc[p] = "uncount" /\ pc' = [pc EXCEPT ![p] = "unlockOut"]
        /\ UNCHANGED <<semName, shmName, sem, mem>>
        /\ last' = [last EXCEPT ![p] = counter'[mem[p]] = 0]
    BY <1>8 DEF Integral!Uncount, Integral!names
  <2>1. CASE counter'[mem[p]] = 0
    <3>1. last'[p] /\ sem'[p] # 0 /\ mem'[p] # 0 /\ pc'[p] = "unlockOut"
      BY <2>0, <2>1
    <3> QED
      BY <3>1
  <2>2. CASE counter'[mem[p]] # 0
    <3>1. PICK m \in Integral!Mems \ spoilt' : m = mem[p]
      BY <2>0, MemNumbers DEF Harmless
    <3>2. counter'[m] = Cardinality(Integral!Counted(m)')
      BY <1>8, <3>1, CounterStep, SameOperators DEF Integral!CounterExact
    <3>3. Integral!Counted(m)' # {}
      BY <2>2, <3>1, <3>2, FS_EmptySet
    <3>4. PICK q \in Procs : q \in Integral!Counted(m)'
      BY <3>3 DEF Integral!Counted
    <3>5. pc'[q] \notin Opening \cup Leaving \cup {"killed"}
      BY <3>4 DEF Integral!Counted, Integral!Critical
    <3>6. sem'[q] # 0 /\ mem'[q] # 0
      BY <1>8, <3>5, PlacesStep
    <3> QED
      BY <3>5, <3>6
  <2> QED
    BY <2>1, <2>2
<1>9. CASE Integral!UnlockOut(p)
  BY <1>9, <1>c DEF Integral!UnlockOut, Integral!names
<1>10. CASE Integral!ShmUnlink(p)
  BY <1>10, <1>c DEF Integral!ShmUnlink, Integral!store
<1>11. CASE Integral!SemUnlink(p)
  BY <1>11, <1>c DEF Integral!SemUnlink, Integral!store, Harmless
<1> QED
  BY <1>1, <1>2, <1>3, <1>4, <1>5, <1>6, <1>7, <1>8, <1>9, <1>10, <1>11,
     <1>12 DEF Integral!Step

LEMMA IntegralStep == IntegralInv /\ [Next]_vars => IntegralInv'
<1> SUFFICES ASSUME IntegralInv, Integral!Next \/ UNCHANGED integral PROVE IntegralInv'
  BY OneProgramRuns
<1>1. CASE UNCHANGED integral
  BY <1>1
  DEF integral, IntegralInv, Shape, Integral!TypeOK, Where, SemSound, MadeExact, UnsizedApart, OwnerInside,
      Integral!CounterExact, Integral!Counted, Integral!SamplesExact, Integral!Batched,
      NamesRemoved, OtherLast, Integral!KilledByARace, NamesCaredFor, Harmless, CaresForSem,
      CaresForShm
<1>2. ASSUME NEW p \in Procs, Integral!Step(p) PROVE IntegralInv'
  <2>1. Shape'
    BY <1>2, PlacesStep, SemStep, MadeStep, ApartStep DEF IntegralInv, Shape
  <2>2. OwnerInside' /\ Integral!CounterExact' /\ Integral!SamplesExact'
    BY <1>2, OwnerStep, CounterStep, SamplesStep DEF IntegralInv
  <2>3. NamesRemoved' /\ Integral!KilledByARace' /\ NamesCaredFor'
    BY <1>2, RemovedStep, CaredStep DEF IntegralInv
  <2> QED
    BY <2>1, <2>2, <2>3 DEF IntegralInv
<1>3. ASSUME Integral!Over PROVE IntegralInv'
  BY <1>1, <1>3
  DEF Integral!Over, Integral!vars, Integral!names, Integral!store, integral
<1> QED
  BY <1>1, <1>2, <1>3 DEF Integral!Next

LEMMA IntegralHolds == Spec => []IntegralInv
BY IntegralInit, IntegralStep, PTL DEF Spec

\* The variables of the three programs keep their types, whatever the number of
\* processes, batches and cells.
THEOREM TypesHold == Spec => []TypeOK
<1>1. IntegralInv /\ RaceInv /\ RetakeInv => TypeOK
  BY DEF IntegralInv, Shape, RaceInv, RetakeInv, TypeOK
<1> QED
  BY <1>1, IntegralHolds, RetakeInit, RetakeStep, RaceInit, RaceStep, PTL DEF Spec

\* The mutex of L3/Exercise2/integral.c lets one process at a time work on a memory that
\* was initialised before anyone used it.
THEOREM OneWorks == Spec => []OneInside
<1>1. IntegralInv => OneInside
  BY Parameters
  DEF IntegralInv, OwnerInside, OneInside, Integral!OneInside
<1> QED
  BY <1>1, IntegralHolds, PTL

\* counter of such a memory is the number of processes counted in and not out, and its
\* totals are the sum of the batches they added.
THEOREM CountsHold == Spec => []CountsExact
<1>1. IntegralInv => CountsExact
  BY DEF IntegralInv, CountsExact
<1> QED
  BY <1>1, IntegralHolds, PTL

\* When all processes have left, none killed and no memory initialised late, both names
\* are gone.
THEOREM NamesGo == Spec => []NothingLeaks
<1>1. IntegralInv => NothingLeaks
  BY DEF IntegralInv, NamesCaredFor, Harmless, CaresForSem, CaresForShm, Leaving,
     NothingLeaks, Integral!NothingLeaks, Integral!Gone
<1> QED
  BY <1>1, IntegralHolds, PTL

\* A failing call, or a touch of a memory without bytes, that kills a process means that another one decided to clean up.
THEOREM RaceKills == Spec => []KilledByARace
<1>1. IntegralInv => KilledByARace
  BY DEF IntegralInv, KilledByARace
<1> QED
  BY <1>1, IntegralHolds, PTL
=============================================================================
