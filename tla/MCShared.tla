------------------------------- MODULE MCShared -------------------------------
(***************************************************************************)
(* Programs of L3 in which processes of one kind meet in a shared memory:  *)
(* the integral, whose processes come when they like, and both dog races.  *)
(* One program runs at a time.  The run has three processes: there may be  *)
(* one that cleans up, one that opened the old memory and is not counted   *)
(* yet, and one that creates a new memory meanwhile.                       *)
(***************************************************************************)
EXTENDS Integers, FiniteSets, TLC

CONSTANTS Procs, Nobody, Batches, Length, MAX_MOVEMENT

VARIABLES prog,
          semName, sems, shmName, made, owner, counter, samples,
          pc, sem, mem, first, batch, reg, last, spoilt,
          track, dpc, pos, prev, bumped,
          rpc, runMutex, rtrack

integral == <<semName, sems, shmName, made, owner, counter, samples,
              pc, sem, mem, first, batch, reg, last, spoilt>>
race     == <<track, dpc, pos, prev, bumped>>
retake   == <<rpc, runMutex, rtrack>>
vars     == <<prog, integral, race, retake>>

Integral == INSTANCE Integral
Race     == INSTANCE DogRace WITH Dogs <- Procs, NoDog <- Nobody, L <- Length
Retake   == INSTANCE DogRaceRetake WITH Dogs <- Procs, NoDog <- Nobody

ASSUME SharedAssumption ==
    Procs # {} /\ Integral!ProcAssumption /\ Integral!BatchAssumption /\ Race!RaceAssumption

Init ==
    /\ prog \in {"integral", "race", "retake"}
    /\ Integral!Init /\ Race!Init /\ Retake!Init

Next ==
    \/ prog = "integral" /\ Integral!Next /\ UNCHANGED <<prog, race, retake>>
    \/ prog = "race" /\ Race!Next /\ UNCHANGED <<prog, integral, retake>>
    \/ prog = "retake" /\ Retake!Next /\ UNCHANGED <<prog, integral, race>>

Spec == Init /\ [][Next]_vars

Swappable == Permutations(Procs)

-----------------------------------------------------------------------------
\* The types of the variables.
TypeOK == Integral!TypeOK /\ Race!TypeOK /\ Retake!TypeOK

\* Integral: one process at a time works on a memory that was initialised in time.
OneInside == Integral!OneInside

\* Integral: counter and totals of such a memory are what the processes did.
CountsExact == Integral!CounterExact /\ Integral!SamplesExact

\* Integral: the last one out removes both names.
NothingLeaks == Integral!NothingLeaks

\* Integral: only a lost race for a name kills a process.
KilledByARace == Integral!KilledByARace

\* DogRace, DogRaceRetake: marks are where dogs left them.
MarksSound == Race!NoGhosts /\ Retake!NobodyMarked

\* DogRaceRetake: the private mutex puts dogs to sleep for ever, but never all.
SomeoneRuns == Retake!SomeoneRuns
=============================================================================
