------------------------------- MODULE ShipGame -------------------------------
(***************************************************************************)
(* L1/ShipGame/ships.c: players in a ring.  Player i writes pipe i and     *)
(* reads the pipe of the player before it; each round it discards one card *)
(* and then blocks until it gets one.  The player whose cards are all of   *)
(* one suit writes its pid to a pipe shared with the parent, and goes on.  *)
(* The parent keeps both ends of every pipe of the ring, so no player ever *)
(* sees an end of file or EPIPE.                                           *)
(***************************************************************************)
EXTENDS Integers, Sequences, FiniteSets, FiniteSetsExt, SequencesExt, Functions

CONSTANTS N,            \* players, 4..7 in the code
          M,            \* cards in a hand, at least 4 in the code
          Suits,        \* 4 in the code
          Capacity      \* bound: cards a pipe holds, 16384 in the code

RingAssumption == N \in Nat \ {0, 1} /\ M \in Nat \ {0}
DeckAssumption == Suits \in Nat \ {0} /\ Capacity \in Nat \ {0}

Players == 0..N - 1
Cards   == 1..N * M             \* bound: the cards that were dealt, of 52
Prev(i) == (i - 1 + N) % N

VARIABLES forked,       \* parent: children created so far
          hand,         \* cards of a player, the empty slot left out
          pc,           \* "send", "receive"
          pipe,         \* playerPipes: pipe[i] from player i to the next one
          shared,       \* SHARED: what the parent's only read will return
          over          \* the parent has read it: kill(0, SIGTERM)

vars == <<forked, hand, pc, pipe, shared, over>>

Nobody == -1

\* deal_random_cards: M distinct cards for each player.
Deals == {d \in [Players -> kSubset(M, Cards)] :
            \A i, j \in Players : i # j => d[i] \cap d[j] = {}}

\* isWinning compares neighbours only, which makes all of them equal.
isWinning(h) == \A a, b \in h : a % Suits = b % Suits

\* fault: a player receives before it sends
InitReceiving ==
    /\ forked = 0 /\ hand \in Deals
    /\ pc = [i \in Players |-> "receive"]
    /\ pipe = [i \in Players |-> <<>>]
    /\ shared = Nobody /\ over = FALSE

Init ==
    /\ forked = 0 /\ hand \in Deals
    /\ pc = [i \in Players |-> "send"]
    /\ pipe = [i \in Players |-> <<>>]
    /\ shared = Nobody /\ over = FALSE

Fork ==
    /\ ~over /\ forked < N /\ forked' = forked + 1
    /\ UNCHANGED <<hand, pc, pipe, shared, over>>

Running(i) == ~over /\ i < forked

\* fault: the card is sent and stays in its slot
SendCopy(i) ==
    /\ Running(i) /\ pc[i] = "send" /\ Len(pipe[i]) < Capacity
    /\ \E c \in hand[i] : pipe' = [pipe EXCEPT ![i] = Append(@, c)]
    /\ pc' = [pc EXCEPT ![i] = "receive"]
    /\ UNCHANGED <<forked, hand, shared, over>>

\* child_work: discard any card; a full pipe blocks.
Send(i) ==
    /\ Running(i) /\ pc[i] = "send" /\ Len(pipe[i]) < Capacity
    /\ \E c \in hand[i] :
         /\ hand' = [hand EXCEPT ![i] = @ \ {c}]
         /\ pipe' = [pipe EXCEPT ![i] = Append(@, c)]
    /\ pc' = [pc EXCEPT ![i] = "receive"]
    /\ UNCHANGED <<forked, shared, over>>

\* child_work: the blocking read, the new card, isWinning.  Only the first
\* report in SHARED is ever read.
Receive(i) ==
    LET from == pipe[Prev(i)]
        full == hand[i] \cup {Head(from)}
    IN  /\ Running(i) /\ pc[i] = "receive" /\ from # <<>>
        /\ hand' = [hand EXCEPT ![i] = full]
        /\ pipe' = [pipe EXCEPT ![Prev(i)] = Tail(@)]
        /\ shared' = IF isWinning(full) /\ shared = Nobody THEN i ELSE shared
        /\ pc' = [pc EXCEPT ![i] = "send"]
        /\ UNCHANGED <<forked, over>>

\* The parent's read after the last fork; SIGTERM ends parent and players.
ReadWinner ==
    /\ ~over /\ forked = N /\ shared # Nobody
    /\ over' = TRUE
    /\ UNCHANGED <<forked, hand, pc, pipe, shared>>

Next == Fork \/ ReadWinner \/ \E i \in Players : Send(i) \/ Receive(i)

Spec == Init /\ [][Next]_vars

-----------------------------------------------------------------------------
\* The types of the variables.
TypeOK ==
    /\ forked \in 0..N /\ over \in BOOLEAN /\ shared \in Players \cup {Nobody}
    /\ hand \in [Players -> SUBSET Cards]
    /\ pc \in [Players -> {"send", "receive"}]
    /\ \A i \in Players : pipe[i] \in Seq(Cards) /\ Len(pipe[i]) <= Capacity

\* No card is lost, copied or dealt twice: it is in one hand or once in a pipe,
\* and one is under way for each player that has sent and not yet received.
CardsOnce ==
    /\ \A i, j \in Players : i # j => hand[i] \cap hand[j] = {} /\ ToSet(pipe[i]) \cap ToSet(pipe[j]) = {}
    /\ \A i \in Players : Cardinality(ToSet(pipe[i])) = Len(pipe[i])
    /\ (UNION Range(hand)) \cup (UNION {ToSet(pipe[i]) : i \in Players}) = Cards
    /\ \A i, j \in Players : hand[i] \cap ToSet(pipe[j]) = {}
    /\ \A i \in Players : Cardinality(hand[i]) = IF pc[i] = "send" THEN M ELSE M - 1
    /\ SumFunction([i \in Players |-> Len(pipe[i])])
         = Cardinality({i \in Players : pc[i] = "receive"})

\* The blocking reads and writes never close the ring: once all children
\* exist, one of them can go on, however little a pipe holds.
RingMoves ==
    forked = N =>
       \E i \in Players : \/ pc[i] = "send" /\ Len(pipe[i]) < Capacity
                          \/ pc[i] = "receive" /\ pipe[Prev(i)] # <<>>
=============================================================================
