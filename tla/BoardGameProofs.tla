--------------------------- MODULE BoardGameProofs ---------------------------
(***************************************************************************)
(* What holds of the board game for a board of any side, any points and    *)
(* any number of clients: the types, the permits of the semaphore that     *)
(* everybody initialises, and the points, whoever takes them.              *)
(***************************************************************************)
EXTENDS BoardGame, SumTheorems

\* The board has at least nine fields.
LEMMA Area == N * N \in Nat /\ N * N >= 9
<1>1. \A n \in Nat : n >= 3 => n * n \in Nat /\ n * n >= 9
  OBVIOUS
<1> QED
  BY <1>1, NAssumption

\* Every field a client may search is one of the board.
LEMMA ReachOnBoard ==
    ASSUME NEW s \in {0, N}
    PROVE  Reach(s) \subseteq Fields
<1>1. CASE s = 0
  BY <1>1, Area DEF Reach, Fields
<1>2. CASE s = N /\ N # 0
  <2> SUFFICES ASSUME NEW x \in 1..N-1, NEW y \in 1..N-1 PROVE N * y + x \in 0..N*N-1
    BY <1>2, NAssumption DEF Reach, Fields
  <2>1. N \in Nat /\ x \in Nat /\ y \in Nat /\ x <= N - 1 /\ y <= N - 1
    BY NAssumption
  <2>2. N * y \in Nat /\ N * y <= N * (N - 1) /\ N * (N - 1) = N * N - N /\ N * N \in Nat
    BY <2>1
  <2> QED
    BY <2>1, <2>2
<1> QED
  BY <1>1, <1>2

\* Points are numbers.
LEMMA PointsAreNumbers ==
    ASSUME TypeOK
    PROVE  board \in [Fields -> Nat]
<1>1. Points \cup {0} \subseteq Nat
  BY PointsAssumption
<1> QED
  BY <1>1 DEF TypeOK

-----------------------------------------------------------------------------
\* How far the server has dealt, in terms of its next step; only then does its
\* signal thread start.
Filling ==
    /\ main \in {"create", "init", "size", "fill", "reinit"} => sig = "none"
    /\ main \in {"create", "init", "size"} => filled = 0
    /\ main = "fill" => filled < N * N

Typed == TypeOK /\ Filling

\* The types hold in every reachable state, and the server never deals a field
\* that is not on the board.
THEOREM TypeCorrect == Spec => []Typed
<1>1. Init => Typed
  <2>1. 0 \in Fields /\ 0 \in 0..N*N
    BY Area DEF Fields
  <2>2. Init => Filling
    BY Area DEF Init, Filling
  <2>3. Init => TypeOK
    <3> SUFFICES ASSUME Init PROVE TypeOK
      OBVIOUS
    <3>1. board \in [Fields -> Points \cup {0}]
      BY DEF Init
    <3>2. pc \in [Clients -> {"out", "failed", "init", "size", "wait", "search", "clear",
                            "post", "last", "oops", "over"}]
      BY DEF Init
    <3>3. at \in [Clients -> Fields]
      BY <2>1 DEF Init
    <3>4. seen \in [Clients -> {0, N}] /\ score \in [Clients -> Nat]
      BY DEF Init
    <3> QED
      BY <2>1, <3>1, <3>2, <3>3, <3>4 DEF Init, TypeOK
  <2> QED
    BY <2>2, <2>3 DEF Typed
<1>2. Typed /\ [Next]_vars => Typed'
  <2> USE NAssumption, PointsAssumption, ClientAssumption, Area
  <2> SUFFICES ASSUME Typed, [Next]_vars PROVE Typed'
    OBVIOUS
  <2> USE DEF Typed, TypeOK, Filling, serverVars, clientVars, GoMain, Go
  <2>1. CASE Create
    BY <2>1 DEF Create
  <2>2. CASE InitSem
    BY <2>2 DEF InitSem, SemInit
  <2>3. CASE StoreSize
    BY <2>3 DEF StoreSize
  <2>4. ASSUME NEW p \in Points, Fill(p) PROVE Typed'
    <3>1. filled \in Fields /\ p \in Nat
      BY <2>4 DEF Fill, Fields
    <3> QED
      BY <2>4, <3>1 DEF Fill
  <2>5. CASE MainWait
    BY <2>5 DEF MainWait, Wait
  <2>6. CASE Check
    BY <2>6 DEF Check, Post
  <2>7. CASE PrintBoard
    BY <2>7 DEF PrintBoard, Post
  <2>8. CASE Shutdown
    BY <2>8 DEF Shutdown
  <2>9. CASE Interrupt
    BY <2>9 DEF Interrupt
  <2>10. CASE Handler
    <3>1. CASE SigWait
      BY <3>1 DEF SigWait, Wait
    <3>2. CASE SigStop
      BY <3>2 DEF SigStop
    <3>3. CASE SigPost
      BY <3>3 DEF SigPost, Post
    <3> QED
      BY <2>10, <3>1, <3>2, <3>3 DEF Handler
  <2>11. ASSUME NEW c \in Clients, Open(c) PROVE Typed'
    BY <2>11 DEF Open
  <2>12. ASSUME NEW c \in Clients, JoinInit(c) PROVE Typed'
    BY <2>12 DEF JoinInit, SemInit
  <2>13. ASSUME NEW c \in Clients, ReadSize(c) PROVE Typed'
    BY <2>13 DEF ReadSize
  <2>14. ASSUME NEW c \in Clients, Enter(c) PROVE Typed'
    BY <2>14 DEF Enter, Wait
  <2>15. ASSUME NEW c \in Clients, NEW f \in Reach(seen[c]), Search(c, f) PROVE Typed'
    <3>1. f \in Fields
      BY ReachOnBoard
    <3>2. board[f] \in Nat /\ score[c] \in Nat
      BY <3>1, PointsAreNumbers
    <3>3. score[c] + board[f] \in Nat
      BY <3>2
    <3> QED
      BY <2>15, <3>1, <3>3 DEF Search
  <2>16. ASSUME NEW c \in Clients, Clear(c) PROVE Typed'
    BY <2>16 DEF Clear
  <2>17. ASSUME NEW c \in Clients, Leave(c) PROVE Typed'
    BY <2>17 DEF Leave, Post
  <2>18. CASE UNCHANGED vars
    BY <2>18 DEF vars
  <2> QED
    BY <2>1, <2>2, <2>3, <2>4, <2>5, <2>6, <2>7, <2>8, <2>9, <2>10, <2>11, <2>12,
       <2>13, <2>14, <2>15, <2>16, <2>17, <2>18 DEF Next, Setup, Loop, Play
<1> QED
  BY <1>1, <1>2, PTL DEF Spec

\* So the variables of L3/serverexe.c and L3/clientexe.c keep their types.
THEOREM TypesHold == Spec => []TypeOK
BY TypeCorrect, PTL DEF Typed

-----------------------------------------------------------------------------
\* The next steps of a client that is inside.
Within == {"search", "clear", "post", "last", "oops"}

\* The holders can be counted.
LEMMA InsideFinite ==
    ASSUME TypeOK
    PROVE  IsFiniteSet(Inside) /\ Cardinality(Inside) \in Nat /\ Holders \in Nat
<1>1. Inside \subseteq Clients
  BY DEF Inside
<1>2. IsFiniteSet(Inside) /\ Cardinality(Inside) \in Nat
  BY <1>1, ClientAssumption, FS_Subset, FS_CardinalityType
<1> QED
  BY <1>2 DEF Holders

\* A step of client c to l adds it to those inside, takes it out or leaves them
\* as they are.
LEMMA InsideMoves ==
    ASSUME TypeOK, NEW c \in Clients, NEW l, pc' = [pc EXCEPT ![c] = l]
    PROVE  /\ pc[c] \notin Within /\ l \in Within =>
                  Cardinality(Inside') = Cardinality(Inside) + 1
           /\ pc[c] \in Within /\ l \notin Within =>
                  /\ Cardinality(Inside') = Cardinality(Inside) - 1
                  /\ Cardinality(Inside) >= 1
           /\ (pc[c] \in Within <=> l \in Within) => Inside' = Inside
<1> USE DEF Within
<1>1. ASSUME pc[c] \notin Within, l \in Within
      PROVE  Cardinality(Inside') = Cardinality(Inside) + 1
  <2>1. Inside' = Inside \cup {c} /\ c \notin Inside
    BY <1>1 DEF Inside, TypeOK
  <2> QED
    BY <2>1, InsideFinite, FS_AddElement
<1>2. ASSUME pc[c] \in Within, l \notin Within
      PROVE  /\ Cardinality(Inside') = Cardinality(Inside) - 1
             /\ Cardinality(Inside) >= 1
  <2>1. Inside' = Inside \ {c} /\ c \in Inside
    BY <1>2 DEF Inside, TypeOK
  <2>2. Cardinality(Inside) # 0
    BY <2>1, InsideFinite, FS_EmptySet
  <2> QED
    BY <2>1, <2>2, InsideFinite, FS_RemoveElement
<1>3. ASSUME pc[c] \in Within <=> l \in Within
      PROVE  Inside' = Inside
  BY <1>3 DEF Inside, TypeOK
<1> QED
  BY <1>1, <1>2, <1>3

\* The server has not initialised the semaphore yet.
Early == main \in {"create", "init"}

\* What one step does to the semaphore and to those who hold it.
Idle  == sem' = sem /\ Holders' = Holders /\ Early' = Early /\ trampled' = trampled
Takes == /\ sem > 0 /\ sem' = sem - 1 /\ Holders' = Holders + 1
         /\ Early' = Early /\ trampled' = trampled
Gives == /\ Holders >= 1 /\ sem' = sem + 1 /\ Holders' = Holders - 1
         /\ Early' = Early /\ trampled' = trampled
Joins == /\ sem' = 1 /\ Holders' = Holders /\ (Early' => Early)
         /\ trampled' = (trampled \/ Holders > 0)

\* Every step is one of the four.
LEMMA PermitSteps ==
    ASSUME Typed, [Next]_vars
    PROVE  Idle \/ Takes \/ Gives \/ Joins
<1> USE DEF Typed, serverVars, clientVars, GoMain, Go
<1>0. Cardinality(Inside) \in Nat
  BY InsideFinite
<1>1. ASSUME UNCHANGED <<pc, sem, trampled>>,
             MainInside' = MainInside, SigInside' = SigInside, Early' = Early
      PROVE  Idle
  BY <1>1 DEF Idle, Holders, Inside
<1>2. CASE Create \/ StoreSize \/ Shutdown \/ Interrupt \/ SigStop
  BY <1>1, <1>2
  DEF Create, StoreSize, Shutdown, Interrupt, SigStop, MainInside, SigInside, Early
<1>3. ASSUME NEW p \in Points, Fill(p) PROVE Idle
  BY <1>1, <1>3 DEF Fill, MainInside, SigInside, Early
<1>4. CASE InitSem
  <2>1. /\ Inside' = Inside /\ (Early' => Early)
        /\ MainInside' = MainInside /\ SigInside' = SigInside
    BY <1>4 DEF InitSem, Filling, Inside, MainInside, SigInside, Early
  <2>2. sem' = 1 /\ trampled' = (trampled \/ Holders > 0)
    BY <1>4 DEF InitSem, SemInit
  <2>3. Holders' = Holders
    BY <2>1 DEF Holders
  <2> QED
    BY <2>1, <2>2, <2>3 DEF Joins
<1>5. CASE MainWait
  BY <1>0, <1>5 DEF MainWait, Wait, Takes, Holders, Inside, MainInside, SigInside, Early
<1>6. CASE Check
  <2>1. CASE running
    BY <1>0, <1>6, <2>1 DEF Check, Post, Gives, Holders, Inside, MainInside, SigInside, Early
  <2>2. CASE ~running
    BY <1>1, <1>6, <2>2 DEF Check, MainInside, SigInside, Early
  <2> QED
    BY <2>1, <2>2
<1>7. CASE PrintBoard
  BY <1>0, <1>7 DEF PrintBoard, Post, Gives, Holders, Inside, MainInside, SigInside, Early
<1>8. CASE SigWait
  BY <1>0, <1>8 DEF SigWait, Wait, Takes, Holders, Inside, MainInside, SigInside, Early
<1>9. CASE SigPost
  BY <1>0, <1>9 DEF SigPost, Post, Gives, Holders, Inside, MainInside, SigInside, Early
<1>10. ASSUME NEW c \in Clients, Open(c) \/ ReadSize(c) \/ Clear(c) PROVE Idle
  <2>1. UNCHANGED <<main, sig, sem, trampled>>
    BY <1>10 DEF Open, ReadSize, Clear
  <2>2. \E l : pc' = [pc EXCEPT ![c] = l] /\ (pc[c] \in Within <=> l \in Within)
    BY <1>10 DEF Open, ReadSize, Clear, Within
  <2>3. Inside' = Inside
    BY <2>2, InsideMoves
  <2> QED
    BY <2>1, <2>3 DEF Idle, Holders, MainInside, SigInside, Early
<1>11. ASSUME NEW c \in Clients, JoinInit(c) PROVE Joins
  <2>1. pc' = [pc EXCEPT ![c] = "size"] /\ pc[c] \notin Within /\ "size" \notin Within
    BY <1>11 DEF JoinInit, Within
  <2>2. Inside' = Inside
    BY <2>1, InsideMoves
  <2> QED
    BY <1>11, <2>2 DEF JoinInit, SemInit, Joins, Holders, MainInside, SigInside, Early
<1>12. ASSUME NEW c \in Clients, Enter(c) PROVE Takes
  <2>1. Cardinality(Inside') = Cardinality(Inside) + 1
    BY <1>12, InsideMoves DEF Enter, Within
  <2> QED
    BY <1>0, <1>12, <2>1 DEF Enter, Wait, Takes, Holders, MainInside, SigInside, Early
<1>13. ASSUME NEW c \in Clients, NEW f \in Reach(seen[c]), Search(c, f) PROVE Idle
  <2>1. Inside' = Inside
    BY <1>13, InsideMoves DEF Search, Within
  <2> QED
    BY <1>13, <2>1 DEF Search, Idle, Holders, MainInside, SigInside, Early
<1>14. ASSUME NEW c \in Clients, Leave(c) PROVE Gives
  <2>1. /\ pc[c] \in Within
        /\ \E l \in {"wait", "over"} : l \notin Within /\ pc' = [pc EXCEPT ![c] = l]
    BY <1>14 DEF Leave, Within
  <2>2. Cardinality(Inside') = Cardinality(Inside) - 1 /\ Cardinality(Inside) >= 1
    BY <2>1, InsideMoves
  <2> QED
    BY <1>0, <1>14, <2>2 DEF Leave, Post, Gives, Holders, MainInside, SigInside, Early
<1>15. CASE UNCHANGED vars
  BY <1>1, <1>15 DEF vars, MainInside, SigInside, Early
<1> QED
  BY <1>1, <1>2, <1>3, <1>4, <1>5, <1>6, <1>7, <1>8, <1>9, <1>10, <1>11, <1>12, <1>13,
     <1>14, <1>15, Zenon
  DEF Next, Setup, Loop, Handler, Play

\* As long as no sem_init of L3/serverexe.c or L3/clientexe.c hits a semaphore in
\* use there is one permit or one holder, and never neither.
THEOREM OnePermit == Spec => []PermitsKept
<1>1. Init => PermitsKept
  <2>1. Init => Inside = {}
    BY DEF Init, Inside
  <2>2. Init => Holders = 0
    BY <2>1, FS_EmptySet DEF Init, Holders, MainInside, SigInside
  <2> QED
    BY <2>2 DEF Init, PermitsKept
<1>2. Typed /\ PermitsKept /\ [Next]_vars => PermitsKept'
  <2> SUFFICES ASSUME Typed, PermitsKept, [Next]_vars PROVE PermitsKept'
    OBVIOUS
  <2>1. Holders \in Nat /\ sem \in Nat
    BY InsideFinite DEF Typed, TypeOK
  <2>2. PermitsKept <=> /\ ~trampled => (Early /\ sem = 0 /\ Holders = 0) \/ sem + Holders = 1
                        /\ ~Early => sem + Holders >= 1
    BY DEF PermitsKept, Early
  <2>3. PermitsKept' <=>
            /\ ~trampled' => (Early' /\ sem' = 0 /\ Holders' = 0) \/ sem' + Holders' = 1
            /\ ~Early' => sem' + Holders' >= 1
    BY DEF PermitsKept, Early
  <2>4. CASE Idle
    BY <2>1, <2>2, <2>3, <2>4 DEF Idle
  <2>5. CASE Takes
    BY <2>1, <2>2, <2>3, <2>5 DEF Takes
  <2>6. CASE Gives
    BY <2>1, <2>2, <2>3, <2>6 DEF Gives
  <2>7. CASE Joins
    <3>1. sem' = 1 /\ Holders' = Holders /\ (~trampled' => ~(Holders > 0))
      BY <2>7 DEF Joins
    <3>2. sem' + Holders' >= 1 /\ (~trampled' => sem' + Holders' = 1)
      BY <2>1, <3>1
    <3> QED
      BY <2>3, <3>2
  <2> QED
    BY <2>4, <2>5, <2>6, <2>7, PermitSteps
<1> QED
  BY <1>1, <1>2, TypeCorrect, PTL DEF Spec

\* Who left with the semaphore in hand is its only holder, and there is no permit.
LEMMA OnlyTheLost ==
    ASSUME Typed, PermitsKept, Stuck, ~trampled, ~SettingUp
    PROVE  /\ sem = 0 /\ ~SigInside
           /\ main \notin {"check", "print", "join"}
           /\ \A c \in Inside : pc[c] = "oops"
           /\ Holders > 0
<1>1. IsFiniteSet(Inside) /\ Cardinality(Inside) \in Nat /\ sem \in Nat
  BY InsideFinite DEF Typed, TypeOK
<1>2. sem + Holders = 1
  BY DEF PermitsKept, SettingUp
<1>3. CASE main = "gone"
  <2>1. MainInside /\ sem = 0 /\ Cardinality(Inside) = 0 /\ ~SigInside /\ Holders > 0
    BY <1>1, <1>2, <1>3 DEF Holders, MainInside
  <2>2. Inside = {}
    BY <1>1, <2>1, FS_EmptySet
  <2> QED
    BY <1>3, <2>1, <2>2
<1>4. ASSUME NEW c \in Clients, pc[c] = "oops"
      PROVE  sem = 0 /\ ~SigInside /\ ~MainInside /\ Inside = {c} /\ Holders > 0
  <2>1. c \in Inside
    BY <1>4 DEF Inside
  <2>2. IsFiniteSet(Inside \ {c}) /\ Cardinality(Inside \ {c}) = Cardinality(Inside) - 1
    BY <1>1, <2>1, FS_RemoveElement
  <2>3. Cardinality(Inside \ {c}) \in Nat
    BY <2>2, FS_CardinalityType
  <2>4. sem = 0 /\ ~SigInside /\ ~MainInside /\ Cardinality(Inside \ {c}) = 0 /\ Holders > 0
    BY <1>1, <1>2, <2>2, <2>3 DEF Holders
  <2>5. Inside \ {c} = {}
    BY <2>2, <2>4, FS_EmptySet
  <2> QED
    BY <2>1, <2>4, <2>5
<1> QED
  BY <1>3, <1>4 DEF Stuck, MainInside

\* An exit of a client (D = 1) or of the server with the semaphore in hand freezes the
\* game until somebody joins and runs sem_init on it.
THEOREM GameFreezes == Spec => GameFrozen
<1>1. ASSUME Typed, PermitsKept, [Next]_vars, Stuck, ~trampled, ~SettingUp
      PROVE  /\ UNCHANGED <<shm, board, score, running, main>>
             /\ \/ UNCHANGED sem
                \/ trampled' /\ \E c \in Clients : pc[c] = "init" /\ pc'[c] = "size"
  <2>0. /\ sem = 0 /\ ~SigInside /\ Holders > 0
        /\ main \notin {"check", "print", "join"}
        /\ \A c \in Inside : pc[c] = "oops"
    BY <1>1, OnlyTheLost
  <2>1. ~ Setup
    BY <1>1 DEF Setup, Create, InitSem, StoreSize, Fill, SettingUp
  <2>2. ~ Loop
    BY <2>0 DEF Loop, MainWait, Wait, Check, PrintBoard, Shutdown
  <2>3. ~ Handler
    BY <2>0 DEF Handler, SigWait, Wait, SigStop, SigPost, SigInside
  <2>4. CASE Interrupt
    BY <2>4 DEF Interrupt, clientVars
  <2>5. ASSUME NEW c \in Clients, Play(c) PROVE ReadSize(c)
    <3>1. ~ Enter(c)
      BY <2>0 DEF Enter, Wait
    <3>2. pc[c] \notin {"search", "clear", "post", "last"}
      BY <2>0 DEF Inside
    <3> QED
      BY <2>5, <3>1, <3>2 DEF Play, Search, Clear, Leave
  <2>6. ASSUME NEW c \in Clients, Open(c) \/ ReadSize(c)
        PROVE  UNCHANGED <<shm, board, score, running, main, sem>>
    BY <2>6 DEF Open, ReadSize, serverVars
  <2>7. ASSUME NEW c \in Clients, JoinInit(c)
        PROVE  /\ UNCHANGED <<shm, board, score, running, main>>
               /\ trampled' /\ pc[c] = "init" /\ pc'[c] = "size"
    <3>1. c \in DOMAIN pc
      BY <1>1 DEF Typed, TypeOK
    <3> QED
      BY <2>0, <2>7, <3>1 DEF JoinInit, SemInit, Go, serverVars
  <2>8. CASE UNCHANGED vars
    BY <2>8 DEF vars, serverVars, clientVars
  <2> QED
    BY <1>1, <2>1, <2>2, <2>3, <2>4, <2>5, <2>6, <2>7, <2>8 DEF Next
<1> QED
  BY <1>1, TypeCorrect, OnePermit, PTL DEF Spec, GameFrozen

-----------------------------------------------------------------------------
\* Fields the server has not dealt yet are empty.
EmptyAhead == \A f \in Fields : f >= filled => board[f] = 0

\* A client only clears a field that was dealt.
ClearsDealt == \A c \in Clients : pc[c] = "clear" => at[c] < filled

\* What lies on the board and is not about to be cleared.
Left == [f \in Fields |->
            IF \E c \in Clients : pc[c] = "clear" /\ at[c] = f THEN 0 ELSE board[f]]

\* What the clients have scored and not cleared yet: InHand is its sum.
Carried == [c \in Clients |-> IF pc[c] = "clear" THEN board[at[c]] ELSE 0]

NoneLost  == SumFunction(Left) + Scored >= dealt
NoneTwice == ~trampled => OnBoard + Scored - InHand = dealt

Counted == EmptyAhead /\ ClearsDealt /\ NoneLost /\ NoneTwice

\* All of these are functions to numbers on finite sets, and so have a sum.
LEMMA Numbers ==
    ASSUME TypeOK
    PROVE  /\ IsFiniteSet(Fields) /\ IsFiniteSet(Clients)
           /\ board \in [Fields -> Nat] /\ Left \in [Fields -> Nat]
           /\ Carried \in [Clients -> Nat] /\ score \in [Clients -> Nat]
           /\ SumFunction(Left) \in Nat /\ OnBoard \in Nat
           /\ Scored \in Nat /\ InHand \in Nat /\ InHand = SumFunction(Carried)
<1>1. IsFiniteSet(Fields) /\ IsFiniteSet(Clients)
  BY Area, ClientAssumption, FS_Interval DEF Fields
<1>2. board \in [Fields -> Nat] /\ score \in [Clients -> Nat]
  BY PointsAreNumbers DEF TypeOK
<1>3. Left \in [Fields -> Nat]
  BY <1>2 DEF Left
<1>4. Carried \in [Clients -> Nat]
  BY <1>2 DEF Carried, TypeOK
<1>5. InHand = SumFunction(Carried)
  BY DEF InHand, Carried
<1> QED
  BY <1>1, <1>2, <1>3, <1>4, <1>5, SumNat DEF OnBoard, Scored

\* A step that leaves the points alone, and whoever is about to clear a field.
LEMMA PointsAlone ==
    ASSUME TypeOK, TypeOK', Counted, UNCHANGED <<board, filled, score, dealt>>,
           trampled => trampled',
           \A c \in Clients : /\ pc'[c] = "clear" <=> pc[c] = "clear"
                              /\ pc[c] = "clear" => at'[c] = at[c]
    PROVE  Counted'
<1>1. Left' = Left
  BY DEF Left
<1>2. InHand' = InHand
  <2>1. Carried' = Carried
    BY DEF Carried
  <2> QED
    BY <2>1 DEF InHand, Carried
<1>3. EmptyAhead' /\ ClearsDealt'
  BY DEF Counted, EmptyAhead, ClearsDealt
<1> QED
  BY <1>1, <1>2, <1>3 DEF Counted, NoneLost, NoneTwice, OnBoard, Scored

\* An untrampled semaphore lets no two clients in.
LEMMA InsideAlone ==
    ASSUME TypeOK, PermitsKept, ~trampled,
           NEW c \in Clients, NEW d \in Clients, c \in Inside, d \in Inside
    PROVE  c = d
<1>1. IsFiniteSet(Inside) /\ Cardinality(Inside) \in Nat /\ sem \in Nat
  BY InsideFinite DEF TypeOK
<1>2. Cardinality(Inside) <= 1
  BY <1>1 DEF PermitsKept, Holders
<1>3. Cardinality(Inside) # 0
  BY <1>1, FS_EmptySet
<1>4. Cardinality(Inside) = 1
  BY <1>1, <1>2, <1>3
<1> QED
  BY <1>1, <1>4, FS_Singleton

\* Fill puts a value on a field that was empty and that nobody is about to clear.
LEMMA FillCounts ==
    ASSUME Typed, TypeOK', Counted, NEW p \in Points, Fill(p)
    PROVE  Counted'
<1> USE DEF Typed
<1>1. /\ filled \in Fields /\ p \in Nat /\ board[filled] = 0 /\ filled \in Nat
      /\ board' = [board EXCEPT ![filled] = p] /\ filled' = filled + 1
      /\ dealt' = dealt + p /\ UNCHANGED <<pc, at, score, trampled>>
  <2>1. filled \in Fields
    BY NAssumption, Area DEF Fill, TypeOK, Filling, Fields
  <2>2. p \in Nat
    BY PointsAssumption
  <2> QED
    BY <2>1, <2>2 DEF Fill, serverVars, clientVars, Counted, EmptyAhead, TypeOK
<1>2. \A c \in Clients : pc[c] = "clear" => at[c] < filled /\ at[c] # filled
  BY <1>1 DEF Counted, ClearsDealt, TypeOK, Fields
<1>3. OnBoard' = OnBoard + p
  <2>1. board \in [Fields -> Int] /\ IsFiniteSet(Fields) /\ p \in Int
    BY <1>1, Numbers
  <2>2. SumFunction(board') = SumFunction(board) + p - board[filled]
    BY <1>1, <2>1, SumExcept
  <2> QED
    BY <1>1, <2>2, Numbers DEF OnBoard
<1>4. SumFunction(Left)' = SumFunction(Left) + p
  <2>1. Left' \in [Fields -> Int] /\ Left \in [Fields -> Int]
    BY <1>1, Numbers DEF Left
  <2>2. Left'[filled] = p /\ Left[filled] = 0
    BY <1>1, <1>2 DEF Left, TypeOK
  <2>3. \A f \in Fields : f # filled => Left'[f] = Left[f]
    BY <1>1 DEF Left, TypeOK
  <2>4. SumFunction(Left') = SumFunction(Left) + Left'[filled] - Left[filled]
    <3>1. filled \in Fields /\ IsFiniteSet(Fields)
      BY <1>1, Numbers
    <3> QED
      BY <2>1, <2>3, <3>1, SumChange
  <2> QED
    BY <2>2, <2>4, <1>1, Numbers
<1>5. InHand' = InHand
  <2>1. Carried' = Carried
    BY <1>1, <1>2 DEF Carried, TypeOK
  <2> QED
    BY <2>1 DEF InHand, Carried
<1>6. EmptyAhead' /\ ClearsDealt'
  BY <1>1, <1>2 DEF Counted, EmptyAhead, ClearsDealt, TypeOK, Fields
<1>7. Scored' = Scored
  BY <1>1 DEF Scored
<1>8. NoneLost'
  BY <1>1, <1>4, <1>7, Numbers DEF Counted, NoneLost, TypeOK
<1>9. NoneTwice'
  BY <1>1, <1>3, <1>5, <1>7, Numbers DEF Counted, NoneTwice, TypeOK
<1> QED
  BY <1>6, <1>8, <1>9 DEF Counted

\* A client scores what it finds; the field stays as it is until it clears it.
LEMMA SearchCounts ==
    ASSUME Typed, TypeOK', Counted, NEW c \in Clients, NEW f \in Reach(seen[c]), Search(c, f)
    PROVE  Counted'
<1> USE DEF Typed
<1>1. /\ f \in Fields /\ board[f] \in Nat /\ score[c] \in Nat /\ pc[c] = "search"
      /\ at' = [at EXCEPT ![c] = f] /\ score' = [score EXCEPT ![c] = score[c] + board[f]]
      /\ UNCHANGED <<board, filled, dealt, trampled>>
  BY ReachOnBoard, Numbers DEF Search, serverVars, TypeOK
<1>2. CASE board[f] = 0
  <2>1. pc' = [pc EXCEPT ![c] = "last"] /\ score' = score
    BY <1>1, <1>2 DEF Search, Go, TypeOK
  <2> QED
    BY <1>1, <2>1, PointsAlone DEF TypeOK
<1>3. CASE board[f] # 0
  <2>1. pc' = [pc EXCEPT ![c] = "clear"]
    BY <1>3 DEF Search, Go
  <2>2. Scored' = Scored + board[f]
    <3>1. score \in [Clients -> Int] /\ IsFiniteSet(Clients) /\ score[c] + board[f] \in Int
      BY <1>1, Numbers
    <3>2. SumFunction(score') = SumFunction(score) + (score[c] + board[f]) - score[c]
      BY <1>1, <3>1, SumExcept
    <3> QED
      BY <1>1, <3>2, Numbers DEF Scored
  <2>3. InHand' = InHand + board[f]
    <3>1. Carried' \in [Clients -> Int] /\ Carried \in [Clients -> Int]
      BY <1>1, <2>1, Numbers DEF Carried, TypeOK
    <3>2. Carried'[c] = board[f] /\ Carried[c] = 0
      BY <1>1, <2>1 DEF Carried, TypeOK
    <3>3. \A d \in Clients : d # c => Carried'[d] = Carried[d]
      BY <1>1, <2>1 DEF Carried, TypeOK
    <3>4. SumFunction(Carried') = SumFunction(Carried) + Carried'[c] - Carried[c]
      BY <3>1, <3>3, Numbers, SumChange
    <3>5. InHand' = SumFunction(Carried')
      BY DEF InHand, Carried
    <3> QED
      BY <1>1, <3>2, <3>4, <3>5, Numbers
  <2>4. SumFunction(Left)' \in Int /\ SumFunction(Left)' >= SumFunction(Left) - board[f]
    <3>1. Left' \in [Fields -> Int] /\ Left \in [Fields -> Int]
      BY <1>1, Numbers DEF Left
    <3>2. Left'[f] \in Nat /\ Left[f] \in Nat /\ Left[f] <= board[f]
      BY <1>1, Numbers DEF Left
    <3>3. \A g \in Fields : g # f => Left'[g] = Left[g]
      BY <1>1, <2>1 DEF Left, TypeOK
    <3>4. /\ SumFunction(Left') \in Int
          /\ SumFunction(Left') = SumFunction(Left) + Left'[f] - Left[f]
      BY <1>1, <3>1, <3>3, Numbers, SumChange
    <3> QED
      BY <1>1, <3>2, <3>4, Numbers
  <2>5. EmptyAhead' /\ ClearsDealt'
    <3>1. f < filled
      BY <1>1, <1>3 DEF Counted, EmptyAhead, TypeOK, Fields
    <3> QED
      BY <1>1, <2>1, <3>1 DEF Counted, EmptyAhead, ClearsDealt, TypeOK
  <2>6. NoneLost'
    BY <1>1, <2>2, <2>4, Numbers DEF Counted, NoneLost, TypeOK
  <2>7. NoneTwice'
    <3>1. OnBoard' = OnBoard
      BY <1>1 DEF OnBoard
    <3> QED
      BY <1>1, <2>2, <2>3, <3>1, Numbers DEF Counted, NoneTwice, TypeOK
  <2> QED
    BY <2>5, <2>6, <2>7 DEF Counted
<1> QED
  BY <1>2, <1>3

\* Clearing the field takes from the board what the client has scored already, and
\* nothing else if it is the only one inside.
LEMMA ClearCounts ==
    ASSUME Typed, TypeOK', Counted, PermitsKept, NEW c \in Clients, Clear(c)
    PROVE  Counted'
<1> USE DEF Typed
<1> DEFINE a == at[c]
<1>1. /\ a \in Fields /\ board[a] \in Nat /\ pc[c] = "clear"
      /\ pc' = [pc EXCEPT ![c] = "post"] /\ board' = [board EXCEPT ![a] = 0]
      /\ UNCHANGED <<at, score, filled, dealt, trampled>>
  BY Numbers DEF Clear, Go, serverVars, TypeOK
<1>2. OnBoard' = OnBoard - board[a]
  <2>1. board \in [Fields -> Int] /\ IsFiniteSet(Fields) /\ 0 \in Int
    BY Numbers
  <2>2. SumFunction(board') = SumFunction(board) + 0 - board[a]
    BY <1>1, <2>1, SumExcept
  <2> QED
    BY <1>1, <2>2, Numbers DEF OnBoard
<1>3. Left' = Left
  <2>1. ASSUME NEW f \in Fields PROVE Left'[f] = Left[f]
    <3>1. CASE f = a
      BY <1>1, <3>1 DEF Left, TypeOK
    <3>2. CASE f # a
      BY <1>1, <3>2 DEF Left, TypeOK
    <3> QED
      BY <3>1, <3>2
  <2> QED
    BY <2>1 DEF Left
<1>4. ~trampled => InHand' = InHand - board[a]
  <2> SUFFICES ASSUME ~trampled PROVE InHand' = InHand - board[a]
    OBVIOUS
  <2>1. \A d \in Clients : d # c => pc[d] # "clear"
    BY <1>1, InsideAlone DEF Inside
  <2>2. Carried' \in [Clients -> Int] /\ Carried \in [Clients -> Int]
    BY <1>1, <2>1, Numbers DEF Carried, TypeOK
  <2>3. Carried'[c] = 0 /\ Carried[c] = board[a]
    BY <1>1 DEF Carried, TypeOK
  <2>4. \A d \in Clients : d # c => Carried'[d] = Carried[d]
    BY <1>1, <2>1 DEF Carried, TypeOK
  <2>5. SumFunction(Carried') = SumFunction(Carried) + Carried'[c] - Carried[c]
    BY <2>2, <2>4, Numbers, SumChange
  <2>6. InHand' = SumFunction(Carried')
    BY DEF InHand, Carried
  <2> QED
    BY <1>1, <2>3, <2>5, <2>6, Numbers
<1>5. EmptyAhead' /\ ClearsDealt'
  BY <1>1 DEF Counted, EmptyAhead, ClearsDealt, TypeOK
<1>6. Scored' = Scored
  BY <1>1 DEF Scored
<1>7. NoneLost'
  BY <1>1, <1>3, <1>6 DEF Counted, NoneLost
<1>8. NoneTwice'
  BY <1>1, <1>2, <1>4, <1>6, Numbers DEF Counted, NoneTwice, TypeOK
<1> QED
  BY <1>5, <1>7, <1>8 DEF Counted

\* Initially nothing has been dealt.
LEMMA NothingDealt == Init => Counted
<1> SUFFICES ASSUME Init PROVE Counted
  OBVIOUS
<1>1. IsFiniteSet(Fields) /\ IsFiniteSet(Clients)
  BY Area, ClientAssumption, FS_Interval DEF Fields
<1>2. SumFunction(board) = 0
  <2>1. board \in [Fields -> Int] /\ \A f \in Fields : board[f] = 0
    BY DEF Init
  <2> QED
    BY <1>1, <2>1, SumZero
<1>3. SumFunction(Left) = 0
  <2>1. Left \in [Fields -> Int] /\ \A f \in Fields : Left[f] = 0
    BY DEF Init, Left
  <2> QED
    BY <1>1, <2>1, SumZero
<1>4. SumFunction(score) = 0
  <2>1. score \in [Clients -> Int] /\ \A c \in Clients : score[c] = 0
    BY DEF Init
  <2> QED
    BY <1>1, <2>1, SumZero
<1>5. SumFunction(Carried) = 0
  <2>1. Carried \in [Clients -> Int] /\ \A c \in Clients : Carried[c] = 0
    BY DEF Init, Carried
  <2> QED
    BY <1>1, <2>1, SumZero
<1>6. InHand = 0
  BY <1>5 DEF InHand, Carried
<1>7. EmptyAhead /\ ClearsDealt
  BY DEF Init, EmptyAhead, ClearsDealt
<1>8. dealt = 0
  BY DEF Init
<1> QED
  BY <1>2, <1>3, <1>4, <1>6, <1>7, <1>8 DEF Counted, NoneLost, NoneTwice, OnBoard, Scored

\* Every step of the server and of a client keeps count of the points.
LEMMA CountedSteps ==
    ASSUME Typed, TypeOK', PermitsKept, Counted, [Next]_vars
    PROVE  Counted'
<1> USE DEF Typed, serverVars, clientVars, Go, GoMain
<1>1. CASE Create \/ StoreSize \/ Loop \/ Interrupt \/ Handler
  <2>1. UNCHANGED <<board, filled, score, dealt, trampled, pc, at>>
    BY <1>1
    DEF Create, StoreSize, Loop, MainWait, Check, PrintBoard, Shutdown, Interrupt, Handler,
        SigWait, SigStop, SigPost
  <2> QED
    BY <2>1, PointsAlone
<1>2. CASE InitSem
  <2>1. UNCHANGED <<board, filled, score, dealt, pc, at>> /\ (trampled => trampled')
    BY <1>2 DEF InitSem, SemInit
  <2> QED
    BY <2>1, PointsAlone
<1>3. ASSUME NEW p \in Points, Fill(p) PROVE Counted'
  BY <1>3, FillCounts
<1>4. ASSUME NEW c \in Clients, Open(c) \/ ReadSize(c) \/ Enter(c) \/ Leave(c) PROVE Counted'
  <2>1. /\ UNCHANGED <<board, filled, score, dealt, trampled, at>>
        /\ \A d \in Clients : pc'[d] = "clear" <=> pc[d] = "clear"
    BY <1>4 DEF Open, ReadSize, Enter, Leave, TypeOK
  <2> QED
    BY <2>1, PointsAlone
<1>5. ASSUME NEW c \in Clients, JoinInit(c) PROVE Counted'
  <2>1. /\ UNCHANGED <<board, filled, score, dealt, at>> /\ (trampled => trampled')
        /\ \A d \in Clients : pc'[d] = "clear" <=> pc[d] = "clear"
    BY <1>5 DEF JoinInit, SemInit, TypeOK
  <2> QED
    BY <2>1, PointsAlone
<1>6. ASSUME NEW c \in Clients, NEW f \in Reach(seen[c]), Search(c, f) PROVE Counted'
  BY <1>6, SearchCounts
<1>7. ASSUME NEW c \in Clients, Clear(c) PROVE Counted'
  BY <1>7, ClearCounts
<1>8. CASE UNCHANGED vars
  BY <1>8, PointsAlone DEF vars
<1> QED
  BY <1>1, <1>2, <1>3, <1>4, <1>5, <1>6, <1>7, <1>8 DEF Next, Setup, Play

\* No point dealt by L3/serverexe.c is ever lost; with the semaphore untouched each
\* is on the board or in the score of exactly one L3/clientexe.c.
THEOREM PointsAddUp == Spec => []PointsKept
<1>1. Typed /\ Typed' /\ PermitsKept /\ Counted /\ [Next]_vars => Counted'
  BY CountedSteps DEF Typed
<1>2. Typed /\ Counted => PointsKept
  <2> SUFFICES ASSUME TypeOK, Counted PROVE PointsKept
    BY DEF Typed
  <2>1. board \in [Fields -> Int] /\ Left \in [Fields -> Int] /\ IsFiniteSet(Fields)
    BY Numbers
  <2>2. \A f \in Fields : Left[f] <= board[f]
    BY Numbers DEF Left
  <2>3. SumFunction(Left) <= OnBoard
    BY <2>1, <2>2, SumMonotonic DEF OnBoard
  <2>4. dealt \in Nat
    BY DEF TypeOK
  <2> QED
    BY <2>3, <2>4, Numbers DEF Counted, NoneLost, NoneTwice, PointsKept
<1> QED
  BY <1>1, <1>2, NothingDealt, TypeCorrect, OnePermit, PTL DEF Spec
=============================================================================
