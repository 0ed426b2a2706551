------------------------------- MODULE DogRace -------------------------------
(***************************************************************************)
(* L3/DogRace/sop-race.c: dogs run up and down a shared track.  Each dog   *)
(* has a mutex, but it locks only its own: nothing protects the track.  A  *)
(* dog that bounces into an occupied cell keeps its mutex and blocks on it *)
(* at its next move.                                                       *)
(* returnFlags[d] is written by dog d alone, just before it is read: the   *)
(* branch for a flag of 0 cannot be reached.                               *)
(***************************************************************************)
EXTENDS Integers, FiniteSets

CONSTANTS Dogs, NoDog,
          L,                \* cells of the track, at least 16 in the code
          MAX_MOVEMENT      \* 6 in the code

RaceAssumption ==
    /\ IsFiniteSet(Dogs) /\ NoDog \notin Dogs
    /\ MAX_MOVEMENT \in Nat \ {0} /\ L \in Nat /\ L > MAX_MOVEMENT

Cells == 0..L - 1

VARIABLES track,            \* who is marked in each cell
          dpc, pos, prev,   \* per dog: next step, pos, prevPos
          bumped            \* history: dogs that found a cell ahead occupied

vars == <<track, dpc, pos, prev, bumped>>

Init ==
    /\ track = [c \in Cells |-> NoDog]
    /\ dpc = [d \in Dogs |-> "unborn"]
    /\ pos = [d \in Dogs |-> 0] /\ prev = [d \in Dogs |-> 0]
    /\ bumped = {}

Goto(d, l) == dpc' = [dpc EXCEPT ![d] = l]

\* bring_dogs; the new dog waits at the barrier.
Fork(d) ==
    /\ dpc[d] = "unborn" /\ Goto(d, "barrier")
    /\ UNCHANGED <<track, pos, prev, bumped>>

\* The barrier is open when all have come; then track[0] = getpid(), whoever is there.
Start(d) ==
    /\ dpc[d] = "barrier" /\ \A e \in Dogs : dpc[e] # "unborn"
    /\ track' = [track EXCEPT ![0] = d]
    /\ Goto(d, "run")
    /\ UNCHANGED <<pos, prev, bumped>>

\* The position changes first, under the dog's own mutex.
Forward(d, move) ==
    /\ dpc[d] = "run" /\ pos[d] + move < L
    /\ prev' = [prev EXCEPT ![d] = pos[d]] /\ pos' = [pos EXCEPT ![d] = @ + move]
    /\ Goto(d, "look")
    /\ UNCHANGED <<track, bumped>>

\* Only then it looks: an occupied cell keeps its mark and the dog runs on
\* from there, its old mark left behind.
Look(d) ==
    /\ dpc[d] = "look"
    /\ IF track[pos[d]] = NoDog THEN Goto(d, "mark") /\ UNCHANGED bumped
       ELSE Goto(d, "run") /\ bumped' = bumped \cup {d}
    /\ UNCHANGED <<track, pos, prev>>

Bounce(d, move) ==
    /\ dpc[d] = "run" /\ pos[d] + move >= L
    /\ prev' = [prev EXCEPT ![d] = pos[d]]
    /\ pos' = [pos EXCEPT ![d] = 2 * (L - 1) - @ - move]
    /\ Goto(d, "land")
    /\ UNCHANGED <<track, bumped>>

\* The mutex is unlocked only when the cell is free; the next lock never returns.
Land(d) ==
    /\ dpc[d] = "land"
    /\ Goto(d, IF track[pos[d]] = NoDog THEN "mark" ELSE "stuck")
    /\ UNCHANGED <<track, pos, prev, bumped>>

Mark(d) ==
    /\ dpc[d] = "mark" /\ track' = [track EXCEPT ![pos[d]] = d]
    /\ Goto(d, "clear")
    /\ UNCHANGED <<pos, prev, bumped>>

\* fault: the cell the dog comes from keeps its mark
ClearNot(d) ==
    /\ dpc[d] = "clear" /\ Goto(d, "run")
    /\ UNCHANGED <<track, pos, prev, bumped>>

\* track[prevPos] = 0, also when another dog has marked that cell meanwhile.
Clear(d) ==
    /\ dpc[d] = "clear" /\ track' = [track EXCEPT ![prev[d]] = NoDog]
    /\ Goto(d, "run")
    /\ UNCHANGED <<pos, prev, bumped>>

Run(d) ==
    \/ Start(d) \/ Look(d) \/ Land(d) \/ Mark(d) \/ Clear(d)
    \/ \E move \in 1..MAX_MOVEMENT : Forward(d, move) \/ Bounce(d, move)

\* main waits for dogs that never end.
Frozen == (\A d \in Dogs : dpc[d] = "stuck") /\ UNCHANGED vars

Next == (\E d \in Dogs : Fork(d) \/ Run(d)) \/ Frozen

-----------------------------------------------------------------------------
\* The types of the variables: a bounce never leaves the track.
TypeOK ==
    /\ track \in [Cells -> Dogs \cup {NoDog}]
    /\ dpc \in [Dogs -> {"unborn", "barrier", "run", "look", "land", "mark", "clear", "stuck"}]
    /\ pos \in [Dogs -> Cells] /\ prev \in [Dogs -> Cells] /\ bumped \subseteq Dogs

\* Where the mark of a dog may be that was never turned away.
MarkOf(d) ==
    IF dpc[d] \in {"look", "land", "mark", "stuck"} THEN {prev[d]}
    ELSE IF dpc[d] = "clear" THEN {prev[d], pos[d]} ELSE {pos[d]}

\* Marks are wiped and overwritten by other dogs, but a dog leaves a mark behind
\* only by finding the cell ahead of it occupied.
NoGhosts == \A c \in Cells : track[c] \in Dogs \ bumped => c \in MarkOf(track[c])
=============================================================================
