---------------------------- MODULE DogRaceRetake ----------------------------
(***************************************************************************)
(* RetakePrep/DogRace-L3/sop-race.c: the dogs share one mutex that nobody  *)
(* initialises.  Zeroed memory works as a mutex, but as one that is not    *)
(* process-shared: whoever finds it held sleeps and is never woken.  The   *)
(* position is forgotten at every move, and a cell is marked only if it is *)
(* marked already.                                                         *)
(***************************************************************************)
EXTENDS Integers, FiniteSets

CONSTANTS Dogs, NoDog, MAX_MOVEMENT

VARIABLES rpc,          \* per dog: see TypeOK
          runMutex,     \* holder
          rtrack        \* cells 0..MAX_MOVEMENT, the only ones looked at

vars == <<rpc, runMutex, rtrack>>

Init ==
    /\ rpc = [d \in Dogs |-> "unborn"] /\ runMutex = NoDog
    /\ rtrack = [c \in 0..MAX_MOVEMENT |-> NoDog]

Goto(d, l) == rpc' = [rpc EXCEPT ![d] = l]

\* birth_dogs; the dog waits at the barrier.
Fork(d) == rpc[d] = "unborn" /\ Goto(d, "barrier") /\ UNCHANGED <<runMutex, rtrack>>

\* Past the barrier every dog zeroes the track, some of them while others run.
Zero(d) ==
    /\ rpc[d] = "barrier" /\ \A e \in Dogs : rpc[e] # "unborn"
    /\ rtrack' = [c \in DOMAIN rtrack |-> NoDog]
    /\ Goto(d, "run") /\ UNCHANGED runMutex

Lock(d) ==
    /\ rpc[d] = "run" /\ runMutex = NoDog
    /\ runMutex' = d /\ Goto(d, "move") /\ UNCHANGED rtrack

SleepForEver(d) ==
    /\ rpc[d] = "run" /\ runMutex # NoDog
    /\ Goto(d, "asleep") /\ UNCHANGED <<runMutex, rtrack>>

\* fault: a free cell is taken
MoveIfFree(d, move) ==
    /\ rpc[d] = "move"
    /\ rtrack' = IF rtrack[move] = NoDog THEN [rtrack EXCEPT ![move] = d] ELSE rtrack
    /\ Goto(d, "unlock") /\ UNCHANGED runMutex

Move(d, move) ==
    /\ rpc[d] = "move"
    /\ rtrack' = IF rtrack[move] # NoDog THEN [rtrack EXCEPT ![move] = d] ELSE rtrack
    /\ Goto(d, "unlock") /\ UNCHANGED runMutex

\* fault: another lock instead of the unlock
UnlockNot(d) ==
    /\ rpc[d] = "unlock" /\ Goto(d, "run") /\ UNCHANGED <<runMutex, rtrack>>

Unlock(d) ==
    /\ rpc[d] = "unlock" /\ runMutex' = NoDog
    /\ Goto(d, "run") /\ UNCHANGED rtrack

Run(d) ==
    \/ Zero(d) \/ Lock(d) \/ SleepForEver(d) \/ Unlock(d)
    \/ \E move \in 1..MAX_MOVEMENT : Move(d, move)

Next == \E d \in Dogs : Fork(d) \/ Run(d)
Spec == Init /\ [][Next]_vars

-----------------------------------------------------------------------------
\* The types of the variables.
TypeOK ==
    /\ rpc \in [Dogs -> {"unborn", "barrier", "run", "asleep", "move", "unlock"}]
    /\ runMutex \in Dogs \cup {NoDog} /\ rtrack \in [0..MAX_MOVEMENT -> Dogs \cup {NoDog}]

\* Dogs fall asleep for ever one by one, but the last one never does: the mutex is
\* held by a dog that is awake.
SomeoneRuns == \E d \in Dogs : rpc[d] # "asleep"

\* No dog is ever seen on the track.
NobodyMarked == \A c \in 0..MAX_MOVEMENT : rtrack[c] = NoDog
=============================================================================
