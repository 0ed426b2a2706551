----------------------------- MODULE SharedSlots -----------------------------
(***************************************************************************)
(* L3/montecarlhoe.c and L3/tmp_monte.c: n children, forked from n - 1     *)
(* down to 0, each write one slot of a shared mapping; the parent reaps    *)
(* them all and averages the slots.  A fork that fails ends the group in   *)
(* one version, the parent alone in the other.                             *)
(***************************************************************************)
EXTENDS Naturals, FiniteSets

CONSTANTS Samplers,     \* n
          MaxFails      \* bound: forks that fail and children killed from outside

SlotsAssumption == Samplers \in Nat \ {0} /\ MaxFails \in Nat

VARIABLES hoe,          \* TRUE: montecarlhoe.c, FALSE: tmp_monte.c
          toFork,       \* n, counted down by create_children
          task,         \* per slot: "unborn", "working", "zombie", "reaped", "orphan", "gone"
          data,         \* slots written
          boss,         \* "forking", "waiting", "averaged", "exited", "killed"
          fails, murdered

vars == <<hoe, toFork, task, data, boss, fails, murdered>>
Slots == 0..Samplers - 1

Init ==
    /\ hoe \in BOOLEAN /\ toFork = Samplers
    /\ task = [s \in Slots |-> "unborn"] /\ data = {} /\ boss = "forking"
    /\ fails = 0 /\ murdered = {}

\* while (n-- > 0) fork(); the child works on slot n.
Fork ==
    /\ boss = "forking"
    /\ IF toFork > 0
       THEN /\ toFork' = toFork - 1 /\ task' = [task EXCEPT ![toFork'] = "working"]
            /\ UNCHANGED boss
       ELSE boss' = "waiting" /\ UNCHANGED <<toFork, task>>
    /\ UNCHANGED <<hoe, data, fails, murdered>>

\* fork returns -1: ERR kills the group, or exit leaves the children alone.
ForkFails ==
    /\ boss = "forking" /\ toFork > 0 /\ fails < MaxFails
    /\ fails' = fails + 1
    /\ boss' = IF hoe THEN "killed" ELSE "exited"
    /\ task' = [s \in Slots |-> IF task[s] = "unborn" THEN "unborn"
                               ELSE IF hoe \/ task[s] = "zombie" THEN "gone" ELSE "orphan"]
    /\ UNCHANGED <<hoe, toFork, data, murdered>>

\* child_work: the store, then exit.
Sample(s) ==
    /\ task[s] \in {"working", "orphan"} /\ s \notin data
    /\ data' = data \cup {s}
    /\ UNCHANGED <<hoe, toFork, task, boss, fails, murdered>>

Ends(s) == task' = [task EXCEPT ![s] = IF @ = "orphan" THEN "gone" ELSE "zombie"]

Exit(s) ==
    /\ task[s] \in {"working", "orphan"} /\ s \in data /\ Ends(s)
    /\ UNCHANGED <<hoe, toFork, data, boss, fails, murdered>>

\* External: a signal kills one child.
Kill(s) ==
    /\ task[s] \in {"working", "orphan"} /\ fails < MaxFails
    /\ fails' = fails + 1 /\ murdered' = murdered \cup {s} /\ Ends(s)
    /\ UNCHANGED <<hoe, toFork, data, boss>>

Reap(s) ==
    /\ boss = "waiting" /\ task[s] = "zombie"
    /\ task' = [task EXCEPT ![s] = "reaped"]
    /\ UNCHANGED <<hoe, toFork, data, boss, fails, murdered>>

\* parent_work: wait fails with ECHILD, the slots are added up.
Average ==
    /\ boss = "waiting" /\ \A s \in Slots : task[s] \in {"reaped", "unborn"}
    /\ boss' = "averaged"
    /\ UNCHANGED <<hoe, toFork, task, data, fails, murdered>>

Boss == Fork \/ (\E s \in Slots : Reap(s)) \/ Average
Next == Boss \/ ForkFails \/ \E s \in Slots : Sample(s) \/ Exit(s) \/ Kill(s)

Fairness == WF_vars(Boss) /\ \A s \in Slots : WF_vars(Sample(s) \/ Exit(s))

-----------------------------------------------------------------------------
\* The types of the variables.
TypeOK ==
    /\ hoe \in BOOLEAN /\ toFork \in 0..Samplers /\ data \subseteq Slots /\ murdered \subseteq Slots
    /\ task \in [Slots -> {"unborn", "working", "zombie", "reaped", "orphan", "gone"}]
    /\ boss \in {"forking", "waiting", "averaged", "exited", "killed"} /\ fails \in 0..MaxFails

\* An average is taken over written slots only, those of murdered children aside:
\* a failed fork never leads to an average over the children there are.
AverageWhole == boss = "averaged" => Slots \ murdered \subseteq data

\* The average is printed, or the parent has failed; no child is left working.
SamplingEnded ==
    boss \in {"averaged", "exited", "killed"} /\ \A s \in Slots : task[s] \notin {"working", "orphan"}
=============================================================================
