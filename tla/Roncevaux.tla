------------------------------ MODULE Roncevaux ------------------------------
(***************************************************************************)
(* L1/PolishTask/main.c: every knight is a process with a pipe of its own; *)
(* it drains the hits out of its pipe without blocking, then writes a hit  *)
(* into the pipe of a random enemy.  EPIPE tells it of a dead enemy, end   *)
(* of file that no enemy is left.  Which of the two it sees depends on who *)
(* still holds a descriptor, the parent and half-started knights included. *)
(* L1/polishtask.c is the version before it; where they differ, see draft. *)
(***************************************************************************)
EXTENDS Integers, Sequences, FiniteSets, SequencesExt, Functions

CONSTANTS Franks, Saracens,     \* the two files, as sequences of knights
          Health, Attack,       \* per knight: HP and attack read from them
          MaxPending            \* bound: hits waiting in one pipe

Knights == ToSet(Franks) \cup ToSet(Saracens)
Foes(k) == IF k \in ToSet(Franks) THEN Saracens ELSE Franks
Roster  == Franks \o Saracens

ArmyAssumption == {Franks, Saracens} \subseteq Seq(Knights) \ {<<>>} /\ IsInjective(Roster)
StatAssumption ==
    /\ Health \in [Knights -> Nat \ {0}] /\ Attack \in [Knights -> Nat \ {0}]
    /\ MaxPending \in Nat \ {0}

VARIABLES draft,      \* TRUE: L1/polishtask.c
          forked,     \* knights forked so far, in roster order
          parent,     \* "fork", then "wait": the parent has closed every pipe; "killed"
          pc,         \* per knight: see TypeOK
          hp, enemies, alive,   \* attacker.HP, enemyPipes, AliveKnightsCount
          pipe,       \* per knight: hits in its pipe, oldest first
          sent        \* history: strength written to each knight

vars == <<draft, forked, parent, pc, hp, enemies, alive, pipe, sent>>

Init ==
    /\ draft \in BOOLEAN /\ forked = 0 /\ parent = "fork"
    /\ pc = [k \in Knights |-> "unborn"]
    /\ hp = Health
    /\ enemies = [k \in Knights |-> Foes(k)]
    /\ alive = [k \in Knights |-> Len(Foes(k))]
    /\ pipe = [k \in Knights |-> <<>>]
    /\ sent = [k \in Knights |-> 0]

\* Ways to end a life, before the descriptors are closed and after.
Leaving == {"falls", "eof", "alone"}
Closed  == {"fell", "saw eof", "was alone", "killed"}
After   == [falls |-> "fell", eof |-> "saw eof", alone |-> "was alone"]

\* The parent, and a child until it has closed what it does not use, hold
\* both ends of every pipe.
HeldByAll == parent = "fork" \/ \E k \in Knights : pc[k] = "started"

\* The Saracens of the draft never close the read ends of the Franks.
Hoarded(k) == draft /\ k \in ToSet(Franks) /\ \E e \in ToSet(Saracens) : pc[e] \notin Closed

ReadOpen(k)  == HeldByAll \/ pc[k] \notin Closed \/ Hoarded(k)
WriteOpen(k) == HeldByAll \/ \E e \in ToSet(Foes(k)) : pc[e] \notin Closed

Goto(k, l) == pc' = [pc EXCEPT ![k] = l]

-----------------------------------------------------------------------------
(* create_knights_and_pipes                                                *)
Fork ==
    /\ parent = "fork" /\ forked < Len(Roster)
    /\ forked' = forked + 1
    /\ Goto(Roster[forked'], "started")
    /\ UNCHANGED <<draft, parent, hp, enemies, alive, pipe, sent>>

\* The parent closes all pipes and goes on to wait(NULL).
ParentClose ==
    /\ parent = "fork" /\ forked = Len(Roster)
    /\ parent' = "wait"
    /\ UNCHANGED <<draft, forked, pc, hp, enemies, alive, pipe, sent>>

CloseUnused(k) ==
    /\ pc[k] = "started" /\ Goto(k, "read")
    /\ UNCHANGED <<draft, forked, parent, hp, enemies, alive, pipe, sent>>

-----------------------------------------------------------------------------
(* child_work                                                              *)

\* The draft's knights fall one hit later.
Fatal(h) == IF draft THEN h < 0 ELSE h <= 0

\* fault: the byte is looked at and left in the pipe
TakeHitTwice(k) ==
    /\ pc[k] = "read" /\ pipe[k] # <<>>
    /\ hp' = [hp EXCEPT ![k] = @ - Head(pipe[k])]
    /\ Goto(k, IF Fatal(hp'[k]) THEN "falls" ELSE "read")
    /\ UNCHANGED <<draft, forked, parent, enemies, alive, pipe, sent>>

\* read returns a hit.
TakeHit(k) ==
    /\ pc[k] = "read" /\ pipe[k] # <<>>
    /\ pipe' = [pipe EXCEPT ![k] = Tail(@)]
    /\ hp' = [hp EXCEPT ![k] = @ - Head(pipe[k])]
    /\ Goto(k, IF Fatal(hp'[k]) THEN "falls" ELSE "read")
    /\ UNCHANGED <<draft, forked, parent, enemies, alive, sent>>

\* read returns EAGAIN.
NoHit(k) ==
    /\ pc[k] = "read" /\ pipe[k] = <<>> /\ WriteOpen(k)
    /\ Goto(k, "attack")
    /\ UNCHANGED <<draft, forked, parent, hp, enemies, alive, pipe, sent>>

\* fault: an empty pipe is taken for the end of the battle
SeeEndEarly(k) ==
    /\ pc[k] = "read" /\ pipe[k] = <<>>
    /\ alive' = [alive EXCEPT ![k] = 0]
    /\ Goto(k, "eof")
    /\ UNCHANGED <<draft, forked, parent, hp, enemies, pipe, sent>>

\* read returns 0: no enemy has the pipe open any more.
SeeEnd(k) ==
    /\ pc[k] = "read" /\ pipe[k] = <<>> /\ ~WriteOpen(k)
    /\ alive' = [alive EXCEPT ![k] = 0]
    /\ Goto(k, "eof")
    /\ UNCHANGED <<draft, forked, parent, hp, enemies, pipe, sent>>

\* The bits of j are bits of n: what rand() & n can be.
Masked(j, n) == \A b \in 0..6 : (j \div 2^b) % 2 <= (n \div 2^b) % 2

\* Position drawn in the list: rand() % enemyCount, in the draft rand() & enemyCount.
Drawn(k) ==
    LET n == Len(enemies[k])
    IN  {i \in 1..n : draft => Masked(i - 1, n)}

\* The draft may draw enemyCount itself.  The memory behind the list is 0, so
\* the hit goes to descriptor 0 or, when that cannot be written to, ERR ends
\* the whole group.
Astray(k) ==
    /\ pc[k] = "attack" /\ draft
    /\ \/ Goto(k, "read") /\ UNCHANGED parent
       \/ pc' = [e \in Knights |-> "killed"] /\ parent' = "killed"
    /\ UNCHANGED <<draft, forked, hp, enemies, alive, pipe, sent>>

\* write succeeds, msleep, next round.  The enemy drawn may be dead.
Strike(k, i, s) ==
    LET target == enemies[k][i]
    IN  /\ pc[k] = "attack" /\ ReadOpen(target)
        /\ Len(pipe[target]) < MaxPending
        /\ pipe' = [pipe EXCEPT ![target] = Append(@, s)]
        /\ sent' = [sent EXCEPT ![target] = @ + s]
        /\ Goto(k, "read")
        /\ UNCHANGED <<draft, forked, parent, hp, enemies, alive>>

Swap(f, i, j) == [f EXCEPT ![i] = f[j], ![j] = f[i]]

\* fault: the last living enemy overwrites the dead one
FindDeadOverwrite(k, i) ==
    /\ pc[k] = "attack" /\ ~ReadOpen(enemies[k][i])
    /\ alive' = [alive EXCEPT ![k] = @ - 1]
    /\ enemies' = [enemies EXCEPT ![k][i] = enemies[k][alive[k]]]
    /\ Goto(k, IF alive'[k] = 0 THEN "alone" ELSE "attack")
    /\ UNCHANGED <<draft, forked, parent, hp, pipe, sent>>

\* EPIPE: one less, exchanged with the last of those still counted.
FindDead(k, i) ==
    /\ pc[k] = "attack" /\ ~ReadOpen(enemies[k][i])
    /\ alive' = [alive EXCEPT ![k] = @ - 1]
    /\ enemies' = [enemies EXCEPT ![k] = Swap(@, i, alive[k])]
    /\ Goto(k, IF alive'[k] = 0 THEN "alone" ELSE "attack")
    /\ UNCHANGED <<draft, forked, parent, hp, pipe, sent>>

\* The end of child_work: close its own read end and every entry of enemyPipes.
CloseAll(k) ==
    /\ pc[k] \in Leaving /\ Goto(k, After[pc[k]])
    /\ UNCHANGED <<draft, forked, parent, hp, enemies, alive, pipe, sent>>

-----------------------------------------------------------------------------
\* char rand_attack = rand() % attacker.attack
Char(n)      == ((n + 128) % 256) - 128
Strengths(k) == {Char(n) : n \in 0..Attack[k] - 1}

Fight(k) ==
    \/ TakeHit(k) \/ NoHit(k) \/ SeeEnd(k) \/ CloseAll(k) \/ CloseUnused(k) \/ Astray(k)
    \/ \E i \in Drawn(k) : FindDead(k, i) \/ \E s \in Strengths(k) : Strike(k, i, s)

Gone == \A k \in Knights : pc[k] \in Closed
Over == Gone /\ parent # "fork" /\ UNCHANGED vars

Next == Fork \/ ParentClose \/ (\E k \in Knights : Fight(k)) \/ Over

Spec == Init /\ [][Next]_vars

(* Every process runs, and rand() keeps hitting every enemy with more than *)
(* strength 0.                                                             *)
Fairness ==
    /\ WF_vars(Fork \/ ParentClose)
    /\ \A k \in Knights :
         /\ WF_vars(Fight(k))
         /\ \A i \in DOMAIN Foes(k) : SF_vars(\E s \in Strengths(k) \ {0} : Strike(k, i, s))

FairSpec == Spec /\ Fairness

-----------------------------------------------------------------------------
\* The types of the variables.
TypeOK ==
    /\ draft \in BOOLEAN /\ forked \in 0..Len(Roster) /\ parent \in {"fork", "wait", "killed"}
    /\ pc \in [Knights -> {"unborn", "started", "read", "attack"} \cup Leaving \cup Closed]
    /\ hp \in [Knights -> Int] /\ sent \in [Knights -> Int]
    /\ \A k \in Knights : /\ alive[k] \in 0..Len(Foes(k))
                          /\ enemies[k] \in [DOMAIN Foes(k) -> ToSet(Foes(k))]
                          /\ Len(pipe[k]) <= MaxPending

\* However often dead enemies are moved to the back, the list keeps every enemy
\* once, so the final loop closes every descriptor exactly once.
EveryEnemyListed == \A k \in Knights : ToSet(enemies[k]) = ToSet(Foes(k))

Total(s) == SumFunction(s)

\* Every hit written is either waiting in the pipe or taken off the HP, once.
HitsAccounted == \A k \in Knights : Health[k] - hp[k] + Total(pipe[k]) = sent[k]

\* End of file is never a false alarm, though half-started knights and the parent hold
\* every pipe: the side that sees it has won.  All enemies of such a knight have left, it
\* has taken every hit ever written to it, and none of its enemies saw an end of file:
\* two knights never take each other for dead.
SawTheEnd(k) == pc[k] \in {"eof", "saw eof"}
EndIsReal ==
    \A k \in Knights : SawTheEnd(k) =>
        /\ pipe[k] = <<>> /\ Health[k] - hp[k] = sent[k]
        /\ \A e \in ToSet(Foes(k)) : pc[e] \in Closed /\ ~SawTheEnd(e)

\* Whoever falls or gives up, the others learn of it by EPIPE or end of file: no
\* knight fights on for ever and main gets past its wait.  (In the draft a Saracen can
\* go on hitting dead Franks until the pipe is full.)
BattleEnded == ~draft => Gone /\ parent = "wait"

\* task.md: "If a knight determines that all their enemies are dead, they also
\* terminate"; dead enemies are marked "to avoid attacking them again".
LeavesOnlyWhenAlone ==
    ~draft => \A k \in Knights : pc[k] = "alone" => \A e \in ToSet(Foes(k)) : pc[e] \in Closed
=============================================================================
