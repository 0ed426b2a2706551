----------------------------- MODULE ForkAndRead -----------------------------
(***************************************************************************)
(* RetakePrep/MonteCarlo-mix/montecarlo.c and L1/CardGame/main.c: one pipe *)
(* per child; the parent forks a child and reads its answer in the same    *)
(* iteration, with the write ends of all pipes open.                       *)
(***************************************************************************)
EXTENDS Integers, Sequences, FiniteSets

CONSTANTS N,            \* children: 0..30 in montecarlo.c, 2..5 in CardGame
          MaxKills      \* bound: children killed from outside

ForkAssumption == N \in Nat /\ MaxKills \in Nat

Children == 1..N

VARIABLES at,           \* the parent's loop index; N + 1: the closes, N + 2: waited
          st,           \* "none", "run", "wrote", "dead"
          pipe,         \* answers in workerPipes, sendPipes
          sum,          \* answers the parent has read
          kills

vars == <<at, st, pipe, sum, kills>>

Init ==
    /\ at = 1 /\ sum = {} /\ kills = 0
    /\ st = [i \in Children |-> "none"] /\ pipe = [i \in Children |-> <<>>]

Fork ==
    /\ at \in Children /\ st[at] = "none"
    /\ st' = [st EXCEPT ![at] = "run"]
    /\ UNCHANGED <<at, pipe, sum, kills>>

\* fault: the child goes on after its answer
AnswerAgain(i) ==
    /\ st[i] = "run" /\ Len(pipe[i]) < 2
    /\ pipe' = [pipe EXCEPT ![i] = Append(@, i)]
    /\ UNCHANGED <<at, st, sum, kills>>

\* child_work, player_work: one answer.
Answer(i) ==
    /\ st[i] = "run" /\ st' = [st EXCEPT ![i] = "wrote"]
    /\ pipe' = [pipe EXCEPT ![i] = Append(@, i)]
    /\ UNCHANGED <<at, sum, kills>>

\* The child closes its end and exits.
Exit(i) ==
    /\ st[i] = "wrote" /\ st' = [st EXCEPT ![i] = "dead"]
    /\ UNCHANGED <<at, pipe, sum, kills>>

\* The read in the fork's iteration; the parent's own write end keeps an end
\* of file from ever coming.
Read ==
    /\ at \in Children /\ st[at] # "none" /\ pipe[at] # <<>>
    /\ sum' = sum \cup {Head(pipe[at])}
    /\ pipe' = [pipe EXCEPT ![at] = Tail(@)] /\ at' = at + 1
    /\ UNCHANGED <<st, kills>>

\* while(wait(NULL) > 0)
Reap ==
    /\ at = N + 1 /\ \A i \in Children : st[i] = "dead"
    /\ at' = at + 1
    /\ UNCHANGED <<st, pipe, sum, kills>>

\* External: a signal kills a child.
Kill(i) ==
    /\ st[i] \in {"run", "wrote"} /\ kills < MaxKills
    /\ kills' = kills + 1 /\ st' = [st EXCEPT ![i] = "dead"]
    /\ UNCHANGED <<at, pipe, sum>>

Next == Fork \/ Read \/ Reap \/ \E i \in Children : Answer(i) \/ Exit(i) \/ Kill(i)

\* The scheduler runs the parent and the child whenever they are not blocked.
Fairness ==
    /\ WF_vars(Fork \/ Read \/ Reap)
    /\ \A i \in Children : WF_vars(Answer(i) \/ Exit(i))

Spec == Init /\ [][Next]_vars

-----------------------------------------------------------------------------
\* The types of the variables.
TypeOK ==
    /\ at \in 1..N + 2 /\ sum \subseteq Children /\ kills \in 0..MaxKills
    /\ st \in [Children -> {"none", "run", "wrote", "dead"}]
    /\ \A i \in Children : pipe[i] \in {<<>>, <<i>>}

\* The children never work side by side, and the parent that has left the
\* loop has an answer of each: the loop goes past a child only with it.
OneByOne ==
    /\ Cardinality({i \in Children : st[i] = "run"}) <= 1
    /\ sum = {i \in Children : i < at}

\* The program ends, or the parent is blocked for good in the read of a child that was
\* killed before its answer: no end of file comes, as the parent could write itself.
EndedOrBlocked ==
    \/ at = N + 2
    \/ at \in Children /\ st[at] = "dead" /\ pipe[at] = <<>>
=============================================================================
