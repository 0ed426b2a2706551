----------------------------- MODULE ForksProofs -----------------------------
(***************************************************************************)
(* What holds of the programs that fork a family of processes, for any     *)
(* number of children, any capacity of a pipe and any deal of the cards:   *)
(* the types, what passes through the pipes and the shared memory, and     *)
(* what main relies on once it has reaped its children.                    *)
(***************************************************************************)
EXTENDS MCForks, Sequences, SumTheorems

-----------------------------------------------------------------------------
(* L3/Exercise1/repeating_letters.c.                                       *)

\* Children are forked in order; the slots of a child that has ended are written unless
\* it resigned; main leaves its wait when all have been reaped, or a signal cuts it short.
LettersInv ==
    /\ Letters!TypeOK
    /\ \A c \in Letters!All : kid[c] = "unborn" <=> c > born
    /\ slots = IF resigns THEN {} ELSE {c \in Letters!All : kid[c] \in {"zombie", "reaped"}}
    /\ ppc # "fork" => born = Kids
    /\ ppc \in {"print", "done"} /\ ~cut => \A c \in Letters!All : kid[c] = "reaped"

LEMMA KidsPositive == Kids \in Nat /\ Kids # 0
BY ForksAssumption DEF ForksAssumption, Letters!LettersAssumption

LEMMA LettersInit == Init => LettersInv
<1> SUFFICES ASSUME Init PROVE LettersInv
  OBVIOUS
<1>1. /\ resigns \in BOOLEAN /\ born = 0 /\ kid = [c \in Letters!All |-> "unborn"]
      /\ slots = {} /\ ppc = "fork" /\ sigchld = FALSE /\ inHandler = FALSE /\ cut = FALSE
  BY DEF Init, Letters!Init
<1>2. /\ 0 \in 0..Kids /\ FALSE \in BOOLEAN /\ {} \subseteq Letters!All
      /\ \A c \in Letters!All : kid[c] = "unborn" /\ c > born
  BY <1>1, KidsPositive DEF Letters!All
<1>3. kid \in [Letters!All -> {"unborn", "working", "zombie", "reaped"}]
  BY ONLY <1>1
<1>4. Letters!TypeOK
  BY ONLY <1>1, <1>2, <1>3 DEF Letters!TypeOK
<1> QED
  BY ONLY <1>1, <1>2, <1>4 DEF LettersInv

LEMMA LettersStep == ASSUME LettersInv, Letters!Next PROVE LettersInv'
<1> USE KidsPositive DEF Letters!All, Letters!TypeOK, LettersInv
<1>1. CASE Letters!Fork
  <2>1. CASE born < Kids
    <3>1. /\ born' = born + 1 /\ kid' = [kid EXCEPT ![born + 1] = "working"]
          /\ UNCHANGED <<ppc, resigns, slots, sigchld, inHandler, cut>> /\ ppc = "fork"
      BY <1>1, <2>1 DEF Letters!Fork
    <3>2. born + 1 \in 1..Kids /\ kid[born + 1] = "unborn"
      BY <2>1
    <3>3. {c \in 1..Kids : kid'[c] \in {"zombie", "reaped"}} = {c \in 1..Kids : kid[c] \in {"zombie", "reaped"}}
      BY <3>1, <3>2
    <3>4. kid' \in [1..Kids -> {"unborn", "working", "zombie", "reaped"}] /\ born' \in 0..Kids
      BY <3>1, <3>2
    <3>5. \A c \in 1..Kids : kid'[c] = "unborn" <=> c > born'
      BY <3>1, <3>2
    <3> QED
      BY <3>1, <3>3, <3>4, <3>5
  <2>2. CASE ~(born < Kids)
    BY <1>1, <2>2 DEF Letters!Fork
  <2> QED
    BY <2>1, <2>2
<1>2. ASSUME NEW c \in 1..Kids, Letters!Exit(c) PROVE LettersInv'
  <2>1. /\ kid[c] = "working" /\ kid' = [kid EXCEPT ![c] = "zombie"] /\ sigchld' = TRUE
        /\ slots' = (IF resigns THEN slots ELSE slots \cup {c})
        /\ UNCHANGED <<resigns, born, ppc, inHandler, cut>>
    BY <1>2 DEF Letters!Exit
  <2>2. {d \in 1..Kids : kid'[d] \in {"zombie", "reaped"}}
          = {d \in 1..Kids : kid[d] \in {"zombie", "reaped"}} \cup {c}
    BY <2>1
  <2> QED
    BY <2>1, <2>2
<1>3. CASE Letters!EnterHandler
  BY <1>3 DEF Letters!EnterHandler
<1>4. ASSUME NEW c \in Letters!With("zombie"), kid' = [kid EXCEPT ![c] = "reaped"],
             inHandler' \in BOOLEAN, ppc' \in {ppc, "wait"}, ppc' = ppc \/ ppc # "fork",
             UNCHANGED <<resigns, born, slots, sigchld, cut>>
      PROVE  LettersInv'
  <2>1. c \in 1..Kids /\ kid[c] = "zombie"
    BY <1>4 DEF Letters!With
  <2>2. {d \in 1..Kids : kid'[d] \in {"zombie", "reaped"}} = {d \in 1..Kids : kid[d] \in {"zombie", "reaped"}}
    BY <1>4, <2>1
  <2> QED
    BY <1>4, <2>1, <2>2
<1>5. CASE Letters!ReapInHandler
  BY <1>4, <1>5 DEF Letters!ReapInHandler
<1>6. CASE Letters!Wait
  <2>1. UNCHANGED <<resigns, born, slots, sigchld, inHandler>>
    BY <1>6 DEF Letters!Wait
  <2>2. CASE ppc = "wait" /\ ppc' = "scan" /\ UNCHANGED <<kid, cut>>
    BY <2>1, <2>2
  <2>3. CASE /\ ppc \in {"scan", "asleep"} /\ ppc' = "wait" /\ UNCHANGED cut
             /\ \E c \in Letters!With("zombie") : kid' = [kid EXCEPT ![c] = "reaped"]
    BY <1>4, <2>1, <2>3
  <2>4. CASE /\ ppc = "scan" /\ Letters!With("zombie") = {} /\ UNCHANGED <<kid, cut>>
             /\ ppc' = IF Letters!With("working") = {} THEN "print" ELSE "scanned"
    <3>1. Letters!With("working") = {} => \A d \in 1..Kids : kid[d] = "reaped"
      BY <2>4 DEF Letters!With
    <3> QED
      BY <2>1, <2>4, <3>1
  <2>5. CASE /\ ppc = "scanned" /\ cut' = sigchld /\ UNCHANGED kid
             /\ ppc' = IF sigchld THEN "print" ELSE "asleep"
    <3>1. CASE sigchld
      BY <2>1, <2>5, <3>1
    <3>2. CASE ~sigchld
      BY <2>1, <2>5, <3>2
    <3> QED
      BY <3>1, <3>2
  <2> QED
    BY <1>6, <2>2, <2>3, <2>4, <2>5 DEF Letters!Wait
<1>7. CASE Letters!PrintSlots
  BY <1>7 DEF Letters!PrintSlots
<1> QED
  BY <1>1, <1>2, <1>3, <1>5, <1>6, <1>7 DEF Letters!Next, Letters!Main

LEMMA LettersMeaning == LettersInv => Letters!TypeOK /\ Letters!PrintsComplete
BY DEF LettersInv, Letters!PrintsComplete, Letters!With

-----------------------------------------------------------------------------
(* L3/montecarlhoe.c and L3/tmp_monte.c.                                   *)

\* While the parent has not failed, slots from toFork on have a child, and a child
\* that has ended has written its slot or was killed.
SamplesInv ==
    /\ Samples!TypeOK
    /\ boss \in {"waiting", "averaged"} => toFork = 0
    /\ boss \in {"forking", "waiting", "averaged"} =>
         \A s \in Samples!Slots :
            /\ task[s] = "unborn" <=> s < toFork
            /\ task[s] \notin {"orphan", "gone"}
            /\ task[s] \in {"zombie", "reaped"} => s \in data \/ s \in murdered
    /\ boss = "averaged" => \A s \in Samples!Slots : task[s] = "reaped"

LEMMA SamplersPositive == Samplers \in Nat /\ Samplers # 0 /\ MaxFails \in Nat
BY ForksAssumption DEF ForksAssumption, Samples!SlotsAssumption

LEMMA SamplesInit == Init => SamplesInv
<1> SUFFICES ASSUME Init PROVE SamplesInv
  OBVIOUS
<1>1. /\ hoe \in BOOLEAN /\ toFork = Samplers
      /\ task = [s \in Samples!Slots |-> "unborn"] /\ data = {} /\ boss = "forking"
      /\ fails = 0 /\ murdered = {}
  BY DEF Init, Samples!Init
<1> QED
  BY <1>1, SamplersPositive DEF SamplesInv, Samples!TypeOK, Samples!Slots

LEMMA SamplesStep == ASSUME SamplesInv, Samples!Next PROVE SamplesInv'
<1> USE SamplersPositive DEF Samples!Slots, Samples!TypeOK, SamplesInv
<1>1. CASE Samples!Fork
  <2>1. CASE toFork > 0
    <3>1. /\ toFork' = toFork - 1 /\ task' = [task EXCEPT ![toFork'] = "working"] /\ boss = "forking"
          /\ UNCHANGED <<hoe, data, fails, murdered, boss>>
      BY <1>1, <2>1 DEF Samples!Fork
    <3>2. toFork' \in 0..Samplers - 1
      BY <2>1, <3>1
    <3> QED
      BY <3>1, <3>2
  <2>2. CASE ~(toFork > 0)
    BY <1>1, <2>2 DEF Samples!Fork
  <2> QED
    BY <2>1, <2>2
<1>2. CASE Samples!ForkFails
  BY <1>2 DEF Samples!ForkFails
<1>3. ASSUME NEW s \in 0..Samplers - 1, Samples!Sample(s) PROVE SamplesInv'
  BY <1>3 DEF Samples!Sample
<1>4. ASSUME NEW s \in 0..Samplers - 1, Samples!Exit(s) PROVE SamplesInv'
  BY <1>4 DEF Samples!Exit, Samples!Ends
<1>5. ASSUME NEW s \in 0..Samplers - 1, Samples!Kill(s) PROVE SamplesInv'
  BY <1>5 DEF Samples!Kill, Samples!Ends
<1>6. ASSUME NEW s \in 0..Samplers - 1, Samples!Reap(s) PROVE SamplesInv'
  BY <1>6 DEF Samples!Reap
<1>7. CASE Samples!Average
  BY <1>7 DEF Samples!Average
<1> QED
  BY <1>1, <1>2, <1>3, <1>4, <1>5, <1>6, <1>7 DEF Samples!Next, Samples!Boss

LEMMA SamplesMeaning == SamplesInv => Samples!TypeOK /\ Samples!AverageWhole
BY DEF SamplesInv, Samples!AverageWhole

-----------------------------------------------------------------------------
(* RetakePrep/MonteCarlo-mix/montecarlo.c and L1/CardGame/main.c.          *)

\* Only the child of the loop's iteration works or has an answer in its pipe.
FarmInv ==
    /\ Farm!TypeOK /\ fpipe = [i \in Farm!Children |-> fpipe[i]]
    /\ \A i \in Farm!Children :
         /\ fst[i] = "run" => i = at /\ fpipe[i] = <<>>
         /\ fst[i] = "none" => fpipe[i] = <<>>
         /\ i > at <=> (fst[i] = "none" /\ i # at)
         /\ i # at => fpipe[i] = <<>>
    /\ sum = {i \in Farm!Children : i < at}

LEMMA FarmSize == N \in Nat /\ MaxKills \in Nat
BY ForksAssumption DEF ForksAssumption, Farm!ForkAssumption

LEMMA FarmInit == Init => FarmInv
<1> SUFFICES ASSUME Init PROVE FarmInv
  OBVIOUS
<1>1. /\ at = 1 /\ sum = {} /\ fkills = 0
      /\ fst = [i \in Farm!Children |-> "none"] /\ fpipe = [i \in Farm!Children |-> <<>>]
  BY DEF Init, Farm!Init
<1> QED
  BY <1>1, FarmSize DEF FarmInv, Farm!TypeOK, Farm!Children

LEMMA FarmStep == ASSUME FarmInv, Farm!Next PROVE FarmInv'
<1> USE FarmSize DEF Farm!Children, Farm!TypeOK, FarmInv
<1>1. CASE Farm!Fork
  BY <1>1 DEF Farm!Fork
<1>2. CASE Farm!Read
  <2>1. /\ at \in 1..N /\ fst[at] \in {"wrote", "dead"} /\ fpipe[at] = <<at>>
        /\ sum' = sum \cup {at} /\ fpipe' = [fpipe EXCEPT ![at] = <<>>] /\ at' = at + 1
        /\ UNCHANGED <<fst, fkills>>
    <3>1. at \in 1..N /\ fst[at] # "none" /\ fpipe[at] # <<>> /\ fpipe[at] = <<at>>
      BY <1>2 DEF Farm!Read
    <3>2. Head(<<at>>) = at /\ Tail(<<at>>) = <<>>
      OBVIOUS
    <3> QED
      BY <1>2, <3>1, <3>2 DEF Farm!Read
  <2>2. at' \in 1..N + 2 /\ sum' = {i \in 1..N : i < at'}
    BY <2>1
  <2>3. /\ \A i \in 1..N : fpipe'[i] = <<>>
        /\ fpipe' = [i \in 1..N |-> fpipe'[i]]
    BY <2>1
  <2> QED
    BY <2>1, <2>2, <2>3
<1>3. CASE Farm!Reap
  BY <1>3 DEF Farm!Reap
<1>4. ASSUME NEW i \in 1..N, Farm!Answer(i) PROVE FarmInv'
  <2>1. /\ fst[i] = "run" /\ fst' = [fst EXCEPT ![i] = "wrote"]
        /\ fpipe' = [fpipe EXCEPT ![i] = <<i>>] /\ UNCHANGED <<at, sum, fkills>>
    <3>1. fst[i] = "run" /\ fpipe' = [fpipe EXCEPT ![i] = Append(fpipe[i], i)] /\ fpipe[i] = <<>>
      BY <1>4 DEF Farm!Answer
    <3>2. Append(<<>>, i) = <<i>>
      OBVIOUS
    <3> QED
      BY <1>4, <3>1, <3>2 DEF Farm!Answer
  <2> QED
    BY <2>1
<1>5. ASSUME NEW i \in 1..N, Farm!Exit(i) PROVE FarmInv'
  BY <1>5 DEF Farm!Exit
<1>6. ASSUME NEW i \in 1..N, Farm!Kill(i) PROVE FarmInv'
  BY <1>6 DEF Farm!Kill
<1> QED
  BY <1>1, <1>2, <1>3, <1>4, <1>5, <1>6 DEF Farm!Next

LEMMA FarmMeaning == FarmInv => Farm!TypeOK /\ Farm!OneByOne
<1> SUFFICES ASSUME FarmInv PROVE Farm!OneByOne
  BY DEF FarmInv
<1> DEFINE R == {i \in Farm!Children : fst[i] = "run"}
<1>1. R \subseteq {at} /\ Farm!Cardinality(R) = Cardinality(R)
  BY DEF FarmInv, Farm!Cardinality, Cardinality
<1>2. IsFiniteSet({at}) /\ Cardinality({at}) = 1
  BY FS_Singleton
<1> HIDE DEF R
<1>3. Cardinality(R) <= 1
  BY <1>1, <1>2, FS_Subset
<1> QED
  BY <1>1, <1>3 DEF R, FarmInv, Farm!OneByOne

-----------------------------------------------------------------------------
(* RetakePrep/Bitronka-L3/sop-shop.c.                                      *)

\* From the lock of its first and of its second mutex to their unlocks.
HasFirst  == {"lockB", "asleep", "loadA", "storeA", "storeB", "unlockA"}
HasSecond == {"loadA", "storeA", "storeB", "unlockA", "unlockB"}
ShelvesHeld ==
    \A w \in Team : /\ wpc[w] \in HasFirst  => mutex[pair[w][1]] = w
                    /\ wpc[w] \in HasSecond => mutex[pair[w][2]] = w

\* What an exchange has in hand is the product of the first shelf, and between the two
\* stores the second shelf's product is there twice.
Exchanging ==
    \A w \in Team : /\ wpc[w] = "storeA" => seen[w] = ShopArray[pair[w][1]]
                    /\ wpc[w] = "storeB" => ShopArray[pair[w][1]] = ShopArray[pair[w][2]]

\* What a worker has compared still holds unless its pair was changed.
Fresh(w) ==
    /\ wpc[w] = "compare" => seen[w] = ShopArray[pair[w][1]]
    /\ wpc[w] \in {"lockA", "lockB", "asleep", "loadA"} => ShopArray[pair[w][1]] > ShopArray[pair[w][2]]
    /\ wpc[w] = "storeA" => seen[w] > ShopArray[pair[w][2]]

ShopInv ==
    /\ Shop!TypeOK /\ ShelvesHeld /\ Exchanging /\ Shop!NothingLost
    /\ \A w \in Team \ touched : Fresh(w)

LEMMA ShopParameters == /\ Shelf \in Nat /\ Shelf > 1 /\ TURNS \in Nat /\ NoOne \notin Team
BY ForksAssumption DEF ForksAssumption, Shop!ShopAssumption

LEMMA ShopInit == Init => ShopInv
<1> SUFFICES ASSUME Init PROVE ShopInv
  OBVIOUS
<1>1. /\ full \in BOOLEAN /\ ShopArray \in Shop!Bijection(Shop!Shelves, Shop!Shelves)
      /\ mutex = [s \in Shop!Shelves |-> NoOne]
      /\ wpc = [w \in Team |-> "pick"] /\ pair = [w \in Team |-> <<1, 2>>]
      /\ seen = [w \in Team |-> 1] /\ turns = [w \in Team |-> TURNS] /\ touched = {}
  BY DEF Init, Shop!Init
<1>2. /\ ShopArray \in [Shop!Shelves -> Shop!Shelves]
      /\ \A x \in Shop!Shelves : \E s \in Shop!Shelves : ShopArray[s] = x
  BY <1>1 DEF Shop!Bijection, Shop!Injection, Shop!Surjection
<1>3. <<1, 2>> \in Shop!Pairs /\ 1 \in Shop!Shelves
  BY ShopParameters DEF Shop!Pairs, Shop!Shelves
<1>4. TURNS \in 0..TURNS
  BY ShopParameters
<1>5. Shop!TypeOK
  BY ONLY <1>1, <1>2, <1>3, <1>4 DEF Shop!TypeOK
<1>6. \A w \in Team : wpc[w] = "pick"
  BY ONLY <1>1
<1> QED
  BY ONLY <1>2, <1>5, <1>6 DEF ShopInv, ShelvesHeld, Exchanging, Shop!NothingLost, Fresh, HasFirst, HasSecond

\* The pair of a worker, and that two workers do not hold the same shelf.
LEMMA PairOf ==
    ASSUME ShopInv, NEW w \in Team
    PROVE  /\ pair[w][1] \in Shop!Shelves /\ pair[w][2] \in Shop!Shelves /\ pair[w][1] # pair[w][2]
           /\ seen[w] \in Shop!Shelves
           /\ ShopArray[pair[w][1]] \in Shop!Shelves /\ ShopArray[pair[w][2]] \in Shop!Shelves
<1>1. pair[w] \in Shop!Pairs /\ seen[w] \in Shop!Shelves /\ ShopArray \in [Shop!Shelves -> Shop!Shelves]
  BY DEF ShopInv, Shop!TypeOK
<1>2. pair[w][1] \in Shop!Shelves /\ pair[w][2] \in Shop!Shelves /\ pair[w][1] < pair[w][2]
  BY <1>1 DEF Shop!Pairs
<1>3. \A a, b \in Shop!Shelves : a < b => a # b
  BY ShopParameters DEF Shop!Shelves
<1> QED
  BY ONLY <1>1, <1>2, <1>3

\* A step that changes only where one worker is, and nothing that depends on it.
LEMMA ShopMove ==
    ASSUME ShopInv, NEW w \in Team, NEW l \in {"pick", "lockA", "asleep", "exited"},
           wpc' = [wpc EXCEPT ![w] = l], UNCHANGED <<full, ShopArray, mutex, pair, seen, turns, touched>>,
           wpc[w] \in {"pick", "compare", "lockB"},
           l = "asleep" => wpc[w] = "lockB",
           l = "lockA" /\ w \notin touched => ShopArray[pair[w][1]] > ShopArray[pair[w][2]]
    PROVE  ShopInv'
<1>1. wpc \in [Team -> {"pick", "compare", "lockA", "lockB", "asleep", "loadA", "storeA", "storeB",
                        "unlockA", "unlockB", "exited"}]
  BY DEF ShopInv, Shop!TypeOK
<1>2. \A v \in Team : v # w => wpc'[v] = wpc[v]
  BY <1>1
<1>3. wpc'[w] = l
  BY <1>1
<1>4. Shop!TypeOK'
  BY <1>1 DEF ShopInv, Shop!TypeOK, Shop!Shelves, Shop!Pairs
<1>5. ShelvesHeld'
  BY <1>2, <1>3 DEF ShopInv, ShelvesHeld, HasFirst, HasSecond
<1>6. Exchanging'
  BY <1>2, <1>3 DEF ShopInv, Exchanging
<1>7. Shop!NothingLost'
  BY <1>2, <1>3 DEF ShopInv, Shop!NothingLost, Shop!Shelves
<1>8. \A v \in Team \ touched' : Fresh(v)'
  BY <1>2, <1>3 DEF ShopInv, Fresh
<1> QED
  BY <1>4, <1>5, <1>6, <1>7, <1>8 DEF ShopInv

LEMMA ShopStep == ASSUME ShopInv, Shop!Next PROVE ShopInv'
<1> SUFFICES ASSUME NEW w \in Team, Shop!Turn(w) PROVE ShopInv'
  BY DEF Shop!Next
<1> DEFINE S == Shop!Shelves
           a == pair[w][1]
           b == pair[w][2]
           Calls == {"pick", "compare", "lockA", "lockB", "asleep", "loadA", "storeA", "storeB",
                     "unlockA", "unlockB", "exited"}
<1>i. /\ wpc \in [Team -> Calls] /\ mutex \in [S -> Team \cup {NoOne}] /\ ShopArray \in [S -> S]
      /\ pair \in [Team -> Shop!Pairs] /\ seen \in [Team -> S] /\ turns \in [Team -> 0..TURNS]
      /\ touched \subseteq Team /\ full \in BOOLEAN
  BY DEF ShopInv, Shop!TypeOK
<1>p. a \in S /\ b \in S /\ a # b
  BY PairOf
<1>n. NoOne \notin Team
  BY ShopParameters
<1>1. CASE Shop!Compare(w)
  <2>1. CASE seen[w] > ShopArray[b]
    <3>1. w \notin touched => ShopArray[a] > ShopArray[b]
      BY <1>1, <2>1 DEF Shop!Compare, ShopInv, Fresh
    <3> QED
      BY <1>1, <2>1, <3>1, ShopMove DEF Shop!Compare, Shop!Goto
  <2>2. CASE ~(seen[w] > ShopArray[b])
    BY <1>1, <2>2, ShopMove DEF Shop!Compare, Shop!Goto
  <2> QED
    BY <2>1, <2>2
<1>2. CASE Shop!SleepForEver(w)
  BY <1>2, ShopMove DEF Shop!SleepForEver, Shop!Goto
<1>3. CASE Shop!Leave(w)
  BY <1>3, ShopMove DEF Shop!Leave, Shop!Goto
<1>4. ASSUME NEW p \in Shop!Pairs, Shop!Look(w, p) PROVE ShopInv'
  <2>1. /\ wpc[w] = "pick" /\ wpc' = [wpc EXCEPT ![w] = "compare"]
        /\ pair' = [pair EXCEPT ![w] = p] /\ seen' = [seen EXCEPT ![w] = ShopArray[p[1]]]
        /\ turns[w] > 0 /\ turns' = [turns EXCEPT ![w] = turns[w] - 1] /\ touched' = touched \ {w}
        /\ UNCHANGED <<full, ShopArray, mutex>>
    BY <1>4 DEF Shop!Look, Shop!Goto
  <2>2. p[1] \in S
    BY DEF Shop!Pairs
  <2>3. \A v \in Team : v # w => /\ wpc'[v] = wpc[v] /\ pair'[v] = pair[v] /\ seen'[v] = seen[v]
                                 /\ (v \in touched' <=> v \in touched)
    BY <1>i, <2>1
  <2>4. wpc'[w] = "compare" /\ seen'[w] = ShopArray[pair'[w][1]]
    BY <1>i, <2>1
  <2>5. Shop!TypeOK'
    <3>1. turns[w] - 1 \in 0..TURNS
      BY <1>i, <2>1, ShopParameters
    <3> HIDE DEF S
    <3>2. /\ turns' \in [Team -> 0..TURNS] /\ seen' \in [Team -> S] /\ pair' \in [Team -> Shop!Pairs]
          /\ wpc' \in [Team -> Calls] /\ touched' \subseteq Team
      BY <1>i, <2>1, <2>2, <3>1
    <3> QED
      BY <1>i, <2>1, <3>2 DEF Shop!TypeOK, Shop!Shelves, S, Shop!Pairs
  <2>6. ShelvesHeld' /\ Exchanging'
    BY <2>1, <2>3, <2>4 DEF ShopInv, ShelvesHeld, Exchanging, HasFirst, HasSecond
  <2>7. Shop!NothingLost'
    BY <2>1, <2>3 DEF ShopInv, Shop!NothingLost, Shop!Shelves
  <2>8. \A v \in Team \ touched' : Fresh(v)'
    BY <2>1, <2>3, <2>4 DEF ShopInv, Fresh
  <2> QED
    BY <2>5, <2>6, <2>7, <2>8 DEF ShopInv
<1>5. ASSUME NEW s \in S, Shop!Lock(w, s) PROVE ShopInv'
  <2>1. /\ (wpc[w] = "lockA" /\ s = a) \/ (wpc[w] = "lockB" /\ s = b)
        /\ mutex[s] = NoOne /\ mutex' = [mutex EXCEPT ![s] = w]
        /\ wpc' = [wpc EXCEPT ![w] = IF wpc[w] = "lockA" THEN "lockB" ELSE "loadA"]
        /\ UNCHANGED <<full, ShopArray, pair, seen, turns, touched>>
    BY <1>5 DEF Shop!Lock, Shop!Goto
  <2>2. \A v \in Team : v # w => wpc'[v] = wpc[v]
    BY <1>i, <2>1
  <2>3. /\ wpc[w] = "lockA" => wpc'[w] = "lockB"
        /\ wpc[w] = "lockB" => wpc'[w] = "loadA"
    BY <1>i, <2>1
  <2>4. /\ mutex' \in [S -> Team \cup {NoOne}] /\ mutex'[s] = w /\ wpc' \in [Team -> Calls]
        /\ \A t \in S : t # s => mutex'[t] = mutex[t]
    BY <1>i, <2>1
  <2>5. Shop!TypeOK'
    BY <1>i, <2>1, <2>4 DEF Shop!TypeOK, Shop!Shelves, Shop!Pairs
  <2>6. ShelvesHeld'
    <3>1. ASSUME NEW v \in Team, v # w
          PROVE  /\ wpc'[v] \in HasFirst  => mutex'[pair[v][1]] = v
                 /\ wpc'[v] \in HasSecond => mutex'[pair[v][2]] = v
      BY <1>n, <2>1, <2>2, <2>4, <3>1, PairOf DEF ShopInv, ShelvesHeld
    <3>2. /\ wpc'[w] \in HasFirst  => mutex'[a] = w
          /\ wpc'[w] \in HasSecond => mutex'[b] = w
      <4>1. CASE wpc[w] = "lockA" /\ s = a
        BY <2>3, <2>4, <4>1 DEF HasFirst, HasSecond
      <4>2. CASE wpc[w] = "lockB" /\ s = b
        <5>1. mutex[a] = w
          BY <4>2 DEF ShopInv, ShelvesHeld, HasFirst
        <5> QED
          BY <1>p, <2>4, <4>2, <5>1
      <4> QED
        BY <2>1, <4>1, <4>2
    <3> QED
      BY <2>1, <3>1, <3>2 DEF ShelvesHeld
  <2>7. Exchanging'
    BY <2>1, <2>2, <2>3 DEF ShopInv, Exchanging
  <2>8. Shop!NothingLost'
    BY <2>1, <2>2 DEF ShopInv, Shop!NothingLost, Shop!Shelves
  <2>9. \A v \in Team \ touched' : Fresh(v)'
    BY <2>1, <2>2, <2>3 DEF ShopInv, Fresh
  <2> QED
    BY <2>5, <2>6, <2>7, <2>8, <2>9 DEF ShopInv
<1>6. CASE Shop!LoadA(w)
  <2>1. /\ wpc[w] = "loadA" /\ seen' = [seen EXCEPT ![w] = ShopArray[a]]
        /\ wpc' = [wpc EXCEPT ![w] = "storeA"]
        /\ UNCHANGED <<full, ShopArray, mutex, pair, turns, touched>>
    BY <1>6 DEF Shop!LoadA, Shop!Goto
  <2>2. /\ \A v \in Team : v # w => wpc'[v] = wpc[v] /\ seen'[v] = seen[v]
        /\ wpc'[w] = "storeA" /\ seen'[w] = ShopArray[a]
    BY <1>i, <2>1
  <2>3. Shop!TypeOK'
    <3>1. wpc' \in [Team -> Calls] /\ seen' \in [Team -> S]
      BY <1>i, <1>p, <2>1
    <3> QED
      BY <1>i, <2>1, <3>1 DEF Shop!TypeOK, Shop!Shelves, Shop!Pairs
  <2>4. ShelvesHeld' /\ Exchanging'
    BY <2>1, <2>2 DEF ShopInv, ShelvesHeld, Exchanging, HasFirst, HasSecond
  <2>5. Shop!NothingLost'
    BY <2>1, <2>2 DEF ShopInv, Shop!NothingLost, Shop!Shelves
  <2>6. \A v \in Team \ touched' : Fresh(v)'
    BY <2>1, <2>2 DEF ShopInv, Fresh
  <2> QED
    BY <2>3, <2>4, <2>5, <2>6 DEF ShopInv
<1>7. CASE Shop!StoreA(w) \/ Shop!StoreB(w)
  <2> DEFINE s == IF wpc[w] = "storeA" THEN a ELSE b
             x == IF wpc[w] = "storeA" THEN ShopArray[b] ELSE seen[w]
             l == IF wpc[w] = "storeA" THEN "storeB" ELSE "unlockA"
  <2>1. /\ wpc[w] \in {"storeA", "storeB"} /\ ShopArray' = [ShopArray EXCEPT ![s] = x]
        /\ touched' = touched \cup {v \in Team \ {w} : s \in {pair[v][1], pair[v][2]}}
        /\ wpc' = [wpc EXCEPT ![w] = l] /\ UNCHANGED <<full, mutex, pair, seen, turns>>
    BY <1>7 DEF Shop!StoreA, Shop!StoreB, Shop!Put, Shop!Goto
  <2>2. s \in S /\ x \in S /\ l \in Calls
    BY <1>i, <1>p
  <2>3. mutex[a] = w /\ mutex[b] = w
    BY <2>1 DEF ShopInv, ShelvesHeld, HasFirst, HasSecond
  <2>4. /\ \A v \in Team : v # w => wpc'[v] = wpc[v]
        /\ wpc[w] = "storeA" => wpc'[w] = "storeB"
        /\ wpc[w] = "storeB" => wpc'[w] = "unlockA"
    BY <1>i, <2>1
  <2>5. ShopArray'[s] = x /\ \A t \in S : t # s => ShopArray'[t] = ShopArray[t]
    <3> HIDE DEF s, x
    <3> QED
      BY <1>i, <2>1, <2>2
  <2>6. Shop!TypeOK'
    <3> HIDE DEF s, x, l
    <3>1. wpc' \in [Team -> Calls] /\ ShopArray' \in [S -> S] /\ touched' \subseteq Team
      BY <1>i, <2>1, <2>2
    <3> QED
      BY <1>i, <2>1, <3>1 DEF Shop!TypeOK, Shop!Shelves, Shop!Pairs
  <2>7. ShelvesHeld'
    BY <2>1, <2>4 DEF ShopInv, ShelvesHeld, HasFirst, HasSecond
  <2>8. Exchanging'
    <3>1. ASSUME NEW v \in Team, v # w, wpc[v] \in {"storeA", "storeB"}
          PROVE  ShopArray'[pair[v][1]] = ShopArray[pair[v][1]] /\ ShopArray'[pair[v][2]] = ShopArray[pair[v][2]]
      <4>1. mutex[pair[v][1]] = v /\ mutex[pair[v][2]] = v
        BY <3>1 DEF ShopInv, ShelvesHeld, HasFirst, HasSecond
      <4> QED
        BY <2>3, <2>5, <3>1, <4>1, PairOf
    <3>2. wpc[w] = "storeA" => ShopArray'[a] = ShopArray'[b]
      BY <1>p, <2>5
    <3> QED
      BY <2>1, <2>4, <3>1, <3>2 DEF ShopInv, Exchanging
  <2>9. Shop!NothingLost'
    <3> SUFFICES ASSUME NEW y \in S
                 PROVE  \/ \E t \in S : ShopArray'[t] = y
                        \/ \E v \in Team : wpc'[v] = "storeB" /\ seen[v] = y
      BY <2>1 DEF Shop!NothingLost, Shop!Shelves
    <3>1. CASE wpc[w] = "storeA"
      <4>1. CASE \E t \in S : ShopArray[t] = y
        <5>1. PICK t \in S : ShopArray[t] = y
          BY <4>1
        <5>2. CASE t = a
          <6>1. seen[w] = y
            BY <3>1, <5>1, <5>2 DEF ShopInv, Exchanging
          <6> QED
            BY <2>4, <3>1, <6>1
        <5>3. CASE t # a
          BY <2>5, <3>1, <5>1, <5>3
        <5> QED
          BY <5>2, <5>3
      <4>2. CASE \E v \in Team : wpc[v] = "storeB" /\ seen[v] = y
        BY <2>4, <3>1, <4>2
      <4> QED
        BY <4>1, <4>2 DEF ShopInv, Shop!NothingLost
    <3>2. CASE wpc[w] = "storeB"
      <4>1. ShopArray[a] = ShopArray[b] /\ s = b /\ x = seen[w]
        BY <3>2 DEF ShopInv, Exchanging
      <4>2. CASE \E t \in S : ShopArray[t] = y
        <5>1. PICK t \in S : ShopArray[t] = y /\ t # b
          BY <1>p, <4>1, <4>2
        <5> QED
          BY <2>5, <4>1, <5>1
      <4>3. CASE \E v \in Team : wpc[v] = "storeB" /\ seen[v] = y
        <5>1. PICK v \in Team : wpc[v] = "storeB" /\ seen[v] = y
          BY <4>3
        <5>2. CASE v = w
          BY <1>p, <2>5, <4>1, <5>1, <5>2
        <5>3. CASE v # w
          BY <2>4, <5>1, <5>3
        <5> QED
          BY <5>2, <5>3
      <4> QED
        BY <4>2, <4>3 DEF ShopInv, Shop!NothingLost
    <3> QED
      BY <2>1, <3>1, <3>2
  <2>10. \A v \in Team \ touched' : Fresh(v)'
    <3> SUFFICES ASSUME NEW v \in Team, v \notin touched' PROVE Fresh(v)'
      OBVIOUS
    <3>1. CASE v = w
      BY <2>1, <2>4, <3>1 DEF Fresh
    <3>2. CASE v # w
      <4>1. s # pair[v][1] /\ s # pair[v][2] /\ v \notin touched
        BY <2>1, <3>2
      <4>2. ShopArray'[pair[v][1]] = ShopArray[pair[v][1]] /\ ShopArray'[pair[v][2]] = ShopArray[pair[v][2]]
        BY <2>5, <4>1, PairOf
      <4> QED
        BY <2>1, <2>4, <3>2, <4>1, <4>2 DEF ShopInv, Fresh
    <3> QED
      BY <3>1, <3>2
  <2> QED
    BY <2>6, <2>7, <2>8, <2>9, <2>10 DEF ShopInv
<1>8. CASE Shop!Unlock(w)
  <2> DEFINE s == IF wpc[w] = "unlockA" THEN a ELSE b
  <2>1. /\ wpc[w] \in {"unlockA", "unlockB"} /\ mutex' = [mutex EXCEPT ![s] = NoOne]
        /\ wpc' = [wpc EXCEPT ![w] = IF wpc[w] = "unlockA" THEN "unlockB" ELSE "pick"]
        /\ UNCHANGED <<full, ShopArray, pair, seen, turns, touched>>
    BY <1>8 DEF Shop!Unlock, Shop!Goto
  <2>2. s \in S /\ mutex[s] = w
    BY <1>p, <2>1 DEF ShopInv, ShelvesHeld, HasFirst, HasSecond
  <2>3. /\ \A v \in Team : v # w => wpc'[v] = wpc[v]
        /\ wpc[w] = "unlockA" => wpc'[w] = "unlockB"
        /\ wpc[w] = "unlockB" => wpc'[w] = "pick"
    BY <1>i, <2>1
  <2>4. \A t \in S : t # s => mutex'[t] = mutex[t]
    BY <1>i, <2>1
  <2>5. Shop!TypeOK'
    <3> HIDE DEF s
    <3>1. wpc' \in [Team -> Calls] /\ mutex' \in [S -> Team \cup {NoOne}]
      BY <1>i, <2>1, <2>2
    <3> QED
      BY <1>i, <2>1, <3>1 DEF Shop!TypeOK, Shop!Shelves, Shop!Pairs
  <2>6. ShelvesHeld'
    <3>1. ASSUME NEW v \in Team, v # w
          PROVE  /\ wpc'[v] \in HasFirst  => mutex'[pair[v][1]] = v
                 /\ wpc'[v] \in HasSecond => mutex'[pair[v][2]] = v
      <4> HIDE DEF s
      <4> QED
        BY <2>1, <2>2, <2>3, <2>4, <3>1, PairOf DEF ShopInv, ShelvesHeld
    <3>2. /\ wpc'[w] \in HasFirst  => mutex'[a] = w
          /\ wpc'[w] \in HasSecond => mutex'[b] = w
      <4>1. CASE wpc[w] = "unlockA"
        <5>1. wpc'[w] = "unlockB"
          BY <2>3, <4>1
        <5>2. mutex[b] = w \/ wpc'[w] # "unlockB"
          BY <4>1, <1>8 DEF ShopInv, ShelvesHeld, HasFirst, HasSecond
        <5> QED
          BY <1>p, <2>4, <4>1, <5>1, <5>2 DEF HasFirst, HasSecond
      <4>2. CASE wpc[w] = "unlockB"
        BY <2>3, <4>2 DEF HasFirst, HasSecond
      <4> QED
        BY <2>1, <4>1, <4>2
    <3> QED
      BY <2>1, <3>1, <3>2 DEF ShelvesHeld
  <2>7. Exchanging' /\ Shop!NothingLost' /\ \A v \in Team \ touched' : Fresh(v)'
    BY <2>1, <2>3 DEF ShopInv, Exchanging, Shop!NothingLost, Fresh, Shop!Shelves
  <2> QED
    BY <2>5, <2>6, <2>7 DEF ShopInv
<1> QED
  BY <1>1, <1>2, <1>3, <1>4, <1>5, <1>6, <1>7, <1>8 DEF Shop!Turn

LEMMA ShopMeaning == ShopInv => Shop!TypeOK /\ Shop!NothingLost
BY DEF ShopInv

\* A shelf shows what it holds, or what the worker between its two stores brings it: of
\* those there is one, because it holds the shelf's mutex.
Filling(s) == {w \in Team : wpc[w] = "storeB" /\ pair[w][2] = s}
Shows ==
    \A s \in Shop!Shelves : /\ \A w \in Filling(s) : Shop!Settled[s] = seen[w]
                            /\ Filling(s) = {} => Shop!Settled[s] = ShopArray[s]

LEMMA SettledShows == ShopInv => Shows
<1> SUFFICES ASSUME ShopInv, NEW s \in Shop!Shelves
             PROVE  /\ \A w \in Filling(s) : Shop!Settled[s] = seen[w]
                    /\ Filling(s) = {} => Shop!Settled[s] = ShopArray[s]
  BY DEF Shows
<1>1. Shop!Settled[s] = IF Filling(s) = {} THEN ShopArray[s] ELSE seen[CHOOSE w \in Filling(s) : TRUE]
  BY DEF Shop!Settled, Filling
<1>2. ASSUME NEW w \in Filling(s) PROVE Shop!Settled[s] = seen[w]
  <2>1. \A v \in Filling(s) : v = w
    BY DEF Filling, ShopInv, ShelvesHeld, HasSecond
  <2>2. (CHOOSE v \in Filling(s) : TRUE) = w
    BY <2>1
  <2> QED
    BY <1>1, <2>2
<1> QED
  BY <1>1, <1>2

LEMMA SettledShowsNext == ShopInv' => Shows'
BY SettledShows, PTL

\* A step that neither begins nor ends an exchange shows no change.
LEMMA SettledKept ==
    ASSUME UNCHANGED ShopArray,
           \A w \in Team : /\ wpc'[w] = "storeB" <=> wpc[w] = "storeB"
                           /\ wpc[w] = "storeB" => pair'[w] = pair[w] /\ seen'[w] = seen[w]
    PROVE  UNCHANGED Shop!Settled
<1>1. \A s \in Shop!Shelves : {w \in Team : wpc'[w] = "storeB" /\ pair'[w][2] = s} = Filling(s)
  BY DEF Filling
<1>2. Shop!Settled' = [s \in Shop!Shelves |->
          IF {w \in Team : wpc'[w] = "storeB" /\ pair'[w][2] = s} = {} THEN ShopArray'[s]
          ELSE seen'[CHOOSE w \in {v \in Team : wpc'[v] = "storeB" /\ pair'[v][2] = s} : TRUE]]
  BY DEF Shop!Settled, Shop!Shelves
<1>3. Shop!Settled = [s \in Shop!Shelves |->
          IF Filling(s) = {} THEN ShopArray[s] ELSE seen[CHOOSE w \in Filling(s) : TRUE]]
  BY DEF Shop!Settled, Filling
<1>4. ASSUME NEW s \in Shop!Shelves, Filling(s) # {}
      PROVE  seen'[CHOOSE w \in Filling(s) : TRUE] = seen[CHOOSE w \in Filling(s) : TRUE]
  <2>1. (CHOOSE w \in Filling(s) : TRUE) \in Filling(s)
    BY <1>4
  <2> QED
    BY <2>1 DEF Filling
<1> QED
  BY <1>1, <1>2, <1>3, <1>4

\* The first store of an exchange is the exchange, of the two products the worker holds
\* the mutexes of; if nobody touched them since it looked they are in the wrong order.
LEMMA StoreAShows ==
    ASSUME ShopInv, ShopInv', NEW w \in Team, Shop!StoreA(w)
    PROVE  LET a == pair[w][1]
               b == pair[w][2]
           IN  /\ wpc'[w] # wpc[w]
               /\ Shop!Settled' = [Shop!Settled EXCEPT ![a] = Shop!Settled[b], ![b] = Shop!Settled[a]]
               /\ w \in touched \/ Shop!Settled[a] > Shop!Settled[b]
<1> DEFINE S == Shop!Shelves
           a == pair[w][1]
           b == pair[w][2]
<1>1. /\ wpc[w] = "storeA" /\ ShopArray' = [ShopArray EXCEPT ![a] = ShopArray[b]]
      /\ wpc' = [wpc EXCEPT ![w] = "storeB"] /\ UNCHANGED <<mutex, pair, seen>>
  BY DEF Shop!StoreA, Shop!Put, Shop!Goto
<1>2. /\ wpc \in [Team -> {"pick", "compare", "lockA", "lockB", "asleep", "loadA", "storeA", "storeB",
                           "unlockA", "unlockB", "exited"}]
      /\ ShopArray \in [S -> S]
  BY DEF ShopInv, Shop!TypeOK
<1>3. a \in S /\ b \in S /\ a # b
  BY PairOf
<1>4. wpc'[w] = "storeB" /\ \A v \in Team : v # w => wpc'[v] = wpc[v]
  BY <1>1, <1>2
<1>5. mutex[a] = w /\ mutex[b] = w
  BY <1>1 DEF ShopInv, ShelvesHeld, HasFirst, HasSecond
<1>6. Filling(a) = {} /\ Filling(b) = {}
  BY <1>1, <1>5 DEF Filling, ShopInv, ShelvesHeld, HasSecond
<1>7. \A s \in S : Filling(s)' = IF s = b THEN {w} ELSE Filling(s)
  BY <1>1, <1>4, <1>6 DEF Filling
<1>8. Shop!Settled[a] = ShopArray[a] /\ Shop!Settled[b] = ShopArray[b] /\ seen[w] = ShopArray[a]
  BY <1>1, <1>3, <1>6, SettledShows DEF Shows, ShopInv, Exchanging
<1>9. /\ ShopArray'[a] = ShopArray[b] /\ \A s \in S : s # a => ShopArray'[s] = ShopArray[s]
  BY <1>1, <1>2, <1>3
<1>10. ASSUME NEW s \in S
       PROVE  Shop!Settled'[s] = IF s = a THEN Shop!Settled[b] ELSE IF s = b THEN Shop!Settled[a]
                                 ELSE Shop!Settled[s]
  <2>1. /\ \A v \in Filling(s)' : Shop!Settled'[s] = seen'[v]
        /\ Filling(s)' = {} => Shop!Settled'[s] = ShopArray'[s]
    BY SettledShowsNext DEF Shows, Shop!Shelves
  <2>2. /\ \A v \in Filling(s) : Shop!Settled[s] = seen[v]
        /\ Filling(s) = {} => Shop!Settled[s] = ShopArray[s]
    BY SettledShows DEF Shows
  <2> QED
    BY <1>1, <1>3, <1>6, <1>7, <1>8, <1>9, <2>1, <2>2
<1>12. /\ Shop!Settled = [s \in S |-> Shop!Settled[s]]
       /\ Shop!Settled' = [s \in S |-> Shop!Settled'[s]]
  BY DEF Shop!Settled, Shop!Shelves
<1>13. w \in touched \/ Shop!Settled[a] > Shop!Settled[b]
  BY <1>1, <1>8 DEF ShopInv, Fresh
<1>14. Shop!Settled' = [Shop!Settled EXCEPT ![a] = Shop!Settled[b], ![b] = Shop!Settled[a]]
  BY <1>3, <1>10, <1>12
<1>15. wpc'[w] # wpc[w]
  BY <1>1, <1>4
<1> QED
  BY <1>13, <1>14, <1>15

\* The second store brings the shelf what it shows already.
LEMMA StoreBShows == ASSUME ShopInv, ShopInv', NEW w \in Team, Shop!StoreB(w) PROVE UNCHANGED Shop!Settled
<1> DEFINE S == Shop!Shelves
           b == pair[w][2]
<1>1. /\ wpc[w] = "storeB" /\ ShopArray' = [ShopArray EXCEPT ![b] = seen[w]]
      /\ wpc' = [wpc EXCEPT ![w] = "unlockA"] /\ UNCHANGED <<mutex, pair, seen>>
  BY DEF Shop!StoreB, Shop!Put, Shop!Goto
<1>2. /\ wpc \in [Team -> {"pick", "compare", "lockA", "lockB", "asleep", "loadA", "storeA", "storeB",
                           "unlockA", "unlockB", "exited"}]
      /\ ShopArray \in [S -> S]
  BY DEF ShopInv, Shop!TypeOK
<1>3. b \in S
  BY PairOf
<1>4. wpc'[w] = "unlockA" /\ \A v \in Team : v # w => wpc'[v] = wpc[v]
  BY <1>1, <1>2
<1>5. Filling(b) = {w}
  BY <1>1 DEF Filling, ShopInv, ShelvesHeld, HasSecond
<1>6. Filling(b)' = {} /\ \A s \in S : s # b => Filling(s)' = Filling(s)
  <2>1. \A v \in Team : v # w => wpc'[v] # "storeB" \/ pair'[v][2] # b
    BY <1>1, <1>4, <1>5 DEF Filling
  <2> QED
    BY <1>1, <1>4, <2>1 DEF Filling
<1>7. ShopArray'[b] = seen[w] /\ \A s \in S : s # b => ShopArray'[s] = ShopArray[s]
  BY <1>1, <1>2, <1>3
<1>8. ASSUME NEW s \in S PROVE Shop!Settled'[s] = Shop!Settled[s]
  <2>1. /\ \A v \in Filling(s)' : Shop!Settled'[s] = seen'[v]
        /\ Filling(s)' = {} => Shop!Settled'[s] = ShopArray'[s]
    BY SettledShowsNext DEF Shows, Shop!Shelves
  <2>2. /\ \A v \in Filling(s) : Shop!Settled[s] = seen[v]
        /\ Filling(s) = {} => Shop!Settled[s] = ShopArray[s]
    BY SettledShows DEF Shows
  <2> QED
    BY <1>1, <1>5, <1>6, <1>7, <2>1, <2>2
<1>9. /\ Shop!Settled = [s \in S |-> Shop!Settled[s]]
      /\ Shop!Settled' = [s \in S |-> Shop!Settled'[s]]
  BY DEF Shop!Settled, Shop!Shelves
<1> QED
  BY <1>8, <1>9

\* Every step of a worker shows an exchange of its pair or no change.
LEMMA ShopShows ==
    ASSUME ShopInv, ShopInv', Shop!Next
    PROVE  UNCHANGED Shop!Settled \/ \E w \in Team : Shop!StoreA(w)
<1> SUFFICES ASSUME NEW w \in Team, Shop!Turn(w), ~Shop!StoreA(w) PROVE UNCHANGED Shop!Settled
  BY DEF Shop!Next
<1>1. wpc \in [Team -> {"pick", "compare", "lockA", "lockB", "asleep", "loadA", "storeA", "storeB",
                        "unlockA", "unlockB", "exited"}]
      /\ pair \in [Team -> Shop!Pairs] /\ seen \in [Team -> Shop!Shelves]
  BY DEF ShopInv, Shop!TypeOK
<1>2. CASE Shop!Compare(w) \/ Shop!SleepForEver(w) \/ Shop!Leave(w) \/ Shop!Unlock(w)
  <2>1. /\ UNCHANGED <<ShopArray, pair, seen>> /\ wpc[w] # "storeB"
        /\ \E l \in {"lockA", "pick", "asleep", "exited", "unlockB"} : wpc' = [wpc EXCEPT ![w] = l]
    BY <1>2 DEF Shop!Compare, Shop!SleepForEver, Shop!Leave, Shop!Unlock, Shop!Goto
  <2>2. \A v \in Team : wpc'[v] = "storeB" <=> wpc[v] = "storeB"
    BY <1>1, <2>1
  <2> QED
    BY <2>1, <2>2, SettledKept
<1>3. ASSUME NEW p \in Shop!Pairs, Shop!Look(w, p) PROVE UNCHANGED Shop!Settled
  <2>1. /\ UNCHANGED ShopArray /\ wpc[w] = "pick" /\ wpc' = [wpc EXCEPT ![w] = "compare"]
        /\ pair' = [pair EXCEPT ![w] = p] /\ seen' = [seen EXCEPT ![w] = ShopArray[p[1]]]
    BY <1>3 DEF Shop!Look, Shop!Goto
  <2>2. \A v \in Team : /\ wpc'[v] = "storeB" <=> wpc[v] = "storeB"
                        /\ wpc[v] = "storeB" => pair'[v] = pair[v] /\ seen'[v] = seen[v]
    BY <1>1, <2>1
  <2> QED
    BY <2>1, <2>2, SettledKept
<1>4. ASSUME NEW s \in Shop!Shelves, Shop!Lock(w, s) PROVE UNCHANGED Shop!Settled
  <2>1. /\ UNCHANGED <<ShopArray, pair, seen>> /\ wpc[w] # "storeB"
        /\ \E l \in {"lockB", "loadA"} : wpc' = [wpc EXCEPT ![w] = l]
    BY <1>4 DEF Shop!Lock, Shop!Goto
  <2>2. \A v \in Team : wpc'[v] = "storeB" <=> wpc[v] = "storeB"
    BY <1>1, <2>1
  <2> QED
    BY <2>1, <2>2, SettledKept
<1>5. CASE Shop!LoadA(w)
  <2>1. /\ UNCHANGED <<ShopArray, pair>> /\ wpc[w] = "loadA" /\ wpc' = [wpc EXCEPT ![w] = "storeA"]
        /\ seen' = [seen EXCEPT ![w] = ShopArray[pair[w][1]]]
    BY <1>5 DEF Shop!LoadA, Shop!Goto
  <2>2. \A v \in Team : /\ wpc'[v] = "storeB" <=> wpc[v] = "storeB"
                        /\ wpc[v] = "storeB" => pair'[v] = pair[v] /\ seen'[v] = seen[v]
    BY <1>1, <2>1
  <2> QED
    BY <2>1, <2>2, SettledKept
<1>6. CASE Shop!StoreB(w)
  BY <1>6, StoreBShows
<1> QED
  BY <1>2, <1>3, <1>4, <1>5, <1>6 DEF Shop!Turn

LEMMA ShopExchanges == ASSUME ShopInv, ShopInv', Shop!Next PROVE Shop!WorseOnlyIfStale
BY ShopShows, StoreAShows DEF Shop!WorseOnlyIfStale

-----------------------------------------------------------------------------
(* RetakePrep/Brigades-L1/sop-factory.c, and L1/sop-eng.c before it.       *)

Crew    == W1 + W2 + W3
Gone(b) == {w \in Line!Member(b) : st[w] = "dead"}

\* Children are forked in order, all of them before the parent closes its ends.
LineShape ==
    /\ bforked \in 0..Crew /\ parent \in {"forking", "waiting", "done"}
    /\ st \in [1..Crew -> {"none", "born", "work", "dead"}]
    /\ first \in Seq({Line!Letter}) /\ second \in Seq({Line!Letter, Line!Garbage}) /\ Len(second) <= Capacity
    /\ buf \in [Line!Member(2) -> {Line!Letter, Line!Garbage}]
    /\ copies \in [Line!Member(2) -> 0..MaxCopies]
    /\ total \in [Line!Member(3) -> 0..Batch + 1]
    /\ killed \subseteq 1..Crew /\ Cardinality(killed) <= MaxKills /\ \A w \in killed : st[w] = "dead"
    /\ \A w \in 1..Crew : st[w] = "none" <=> w > bforked
    /\ parent # "forking" => bforked = Crew

\* Why a worker that was not killed is gone, and where a letter nobody wrote comes from.
Stale  == \E w \in Line!Member(2) : copies[w] > 0 /\ buf[w] = Line!Garbage
Spoilt == Line!Garbage \in Line!ToSet(second)
Causes ==
    /\ ~(Gone(3) \subseteq killed) => Line!Member(2) \subseteq killed /\ second = <<>>
    /\ ~(Gone(2) \subseteq killed) => Line!Member(3) \subseteq killed
    /\ ~(Gone(1) \subseteq killed) => Line!Member(2) \subseteq Gone(2)
    /\ Stale \/ Spoilt => Line!Member(1) \subseteq killed
LineInv == LineShape /\ Len(first) <= Capacity /\ Causes

\* In the draft a letter in the first pipe was written by somebody who is gone.
DraftInv == LineShape /\ Len(first) <= Cardinality(Gone(1))

LEMMA LineParameters ==
    /\ W1 \in Nat /\ W2 \in Nat /\ W3 \in Nat /\ W1 > 0 /\ W2 > 0 /\ W3 > 0
    /\ Capacity \in Nat /\ MaxCopies \in Nat /\ Batch \in Nat /\ MaxCopies > 0 /\ Capacity > 0
    /\ MaxKills \in Nat /\ W1 <= Capacity
BY ForksAssumption
DEF ForksAssumption, Line!BrigadeAssumption, Line!PipeAssumption, Line!RoomAssumption

LEMMA LineWorkers ==
    /\ Crew \in Nat /\ Line!Workers = 1..Crew /\ Line!Cardinality(Line!Workers) = Crew
    /\ Line!Member(1) = 1..W1 /\ Line!Member(1) \subseteq 1..Crew
    /\ Line!Member(2) \subseteq 1..Crew /\ Line!Member(3) \subseteq 1..Crew
    /\ \A w \in 1..Crew : /\ w \in Line!Member(1) <=> Line!Brigade(w) = 1
                          /\ w \in Line!Member(2) <=> Line!Brigade(w) = 2
                          /\ w \in Line!Member(3) <=> Line!Brigade(w) = 3
<1>1. Crew \in Nat /\ Line!Workers = 1..Crew
  BY LineParameters DEF Crew, Line!Workers
<1>2. Line!Cardinality(Line!Workers) = Cardinality(Line!Workers)
  BY DEF Line!Cardinality, Cardinality
<1>3. Cardinality(1..Crew) = Crew
  BY <1>1, FS_Interval
<1>4. Line!Member(1) = 1..W1
  BY <1>1, LineParameters DEF Line!Member, Line!Brigade, Crew
<1> QED
  BY <1>1, <1>2, <1>3, <1>4 DEF Line!Member

LEMMA GoneIsFinite ==
    ASSUME NEW b
    PROVE  IsFiniteSet(Gone(b)) /\ Cardinality(Gone(b)) \in Nat
<1>1. Gone(b) \subseteq 1..Crew
  BY LineWorkers DEF Gone, Line!Member
<1>2. IsFiniteSet(1..Crew)
  BY LineWorkers, FS_Interval
<1> QED
  BY <1>1, <1>2, FS_Subset, FS_CardinalityType

LEMMA LineInit == Init => LineInv /\ DraftInv
<1> SUFFICES ASSUME Init PROVE LineInv /\ DraftInv
  OBVIOUS
<1>1. /\ bforked = 0 /\ parent = "forking" /\ st = [w \in 1..Crew |-> "none"]
      /\ first = <<>> /\ second = <<>>
      /\ buf = [w \in Line!Member(2) |-> Line!Garbage] /\ copies = [w \in Line!Member(2) |-> 0]
      /\ total = [w \in Line!Member(3) |-> 0] /\ killed = {}
  BY LineWorkers DEF Init, Line!Init
<1>2. 0 \in 0..Crew /\ 0 \in 0..MaxCopies /\ 0 \in 0..Batch + 1 /\ 0 <= MaxKills
  BY LineParameters, LineWorkers
<1>3. \A w \in 1..Crew : st[w] = "none" /\ w > bforked
  BY <1>1, LineWorkers
<1>4. \A T : <<>> \in Seq(T) /\ Len(<<>>) = 0
  OBVIOUS
<1>5. LineShape
  <2>1. st \in [1..Crew -> {"none", "born", "work", "dead"}]
    BY ONLY <1>1
  <2>2. /\ buf \in [Line!Member(2) -> {Line!Letter, Line!Garbage}]
        /\ copies \in [Line!Member(2) -> 0..MaxCopies] /\ total \in [Line!Member(3) -> 0..Batch + 1]
    BY ONLY <1>1, <1>2
  <2>3. first \in Seq({Line!Letter}) /\ second \in Seq({Line!Letter, Line!Garbage})
    BY ONLY <1>1, <1>4
  <2>4. Len(second) <= Capacity
    BY <1>1, <1>4, LineParameters
  <2>5. Cardinality(killed) <= MaxKills
    BY <1>1, <1>2, FS_EmptySet
  <2> QED
    BY ONLY <1>1, <1>2, <1>3, <2>1, <2>2, <2>3, <2>4, <2>5 DEF LineShape
<1>6. Gone(1) = {} /\ Gone(2) = {} /\ Gone(3) = {}
  BY <1>3, LineWorkers DEF Gone
<1>7. Cardinality(Gone(1)) = 0
  BY <1>6, FS_EmptySet
<1>9. ~Stale /\ ~Spoilt
  BY <1>1 DEF Stale, Spoilt, Line!ToSet
<1>8. Len(first) = 0 /\ Len(first) <= Capacity
  BY <1>1, <1>4, LineParameters
<1> QED
  BY <1>1, <1>5, <1>6, <1>7, <1>8, <1>9 DEF LineInv, Causes, DraftInv

\* An end nobody has open: everybody who could have it is gone.
LEMMA ClosedMeans ==
    ASSUME LineShape
    PROVE  /\ ~Line!Open(1, "r") \/ ~Line!Open(2, "w") => Line!Member(2) \subseteq Gone(2)
           /\ ~Line!Open(1, "w") => Line!Member(1) \subseteq Gone(1)
           /\ ~Line!Open(2, "r") => Line!Member(3) \subseteq Gone(3)
<1> SUFFICES ASSUME NEW p \in {1, 2}, NEW end \in {"r", "w"}, ~Line!Open(p, end),
                    NEW w \in 1..Crew, st[w] # "dead"
             PROVE  /\ w \in Line!Member(2) => <<p, end>> \notin {<<1, "r">>, <<2, "w">>}
                    /\ w \in Line!Member(1) => <<p, end>> # <<1, "w">>
                    /\ w \in Line!Member(3) => <<p, end>> # <<2, "r">>
  BY LineWorkers DEF Gone
<1>1. parent # "forking" /\ ~Line!Holds(w, p, end)
  BY LineWorkers DEF Line!Open
<1>2. st[w] = "work"
  <2>1. st[w] # "none"
    BY <1>1, LineWorkers DEF LineShape
  <2>2. st[w] # "born"
    BY <1>1 DEF Line!Holds
  <2> QED
    BY <2>1, <2>2 DEF LineShape
<1>3. /\ w \in Line!Member(1) <=> Line!Brigade(w) = 1
      /\ w \in Line!Member(2) <=> Line!Brigade(w) = 2
      /\ w \in Line!Member(3) <=> Line!Brigade(w) = 3
  BY LineWorkers
<1> QED
  BY <1>1, <1>2, <1>3 DEF Line!Holds

\* A worker at work was not killed, and is not among the gone.
LEMMA WorkingMeans ==
    ASSUME LineShape, NEW b, NEW w \in Line!Member(b), st[w] = "work"
    PROVE  w \notin killed /\ w \notin Gone(b) /\ ~(Line!Member(b) \subseteq killed)
           /\ ~(Line!Member(b) \subseteq Gone(b))
BY DEF LineShape, Gone

\* Forking and closing: nothing moves in the pipes and nobody goes.
Settles(w) == Line!Fork \/ Line!ParentCloses \/ Line!ParentReaps \/ Line!CloseUnused(w)

LEMMA SettlesStep ==
    ASSUME LineShape, NEW w \in 1..Crew, Settles(w)
    PROVE  /\ LineShape' /\ UNCHANGED <<first, second, buf, copies, killed>>
           /\ \A b : Gone(b)' = Gone(b)
<1> USE DEF LineShape
<1>1. CASE Line!Fork
  <2>1. /\ bforked < Crew /\ bforked' = bforked + 1 /\ st' = [st EXCEPT ![bforked + 1] = "born"]
        /\ parent = "forking" /\ UNCHANGED <<parent, first, second, buf, copies, total, killed>>
    BY <1>1, LineWorkers DEF Line!Fork
  <2>2. bforked + 1 \in 1..Crew /\ bforked' \in 0..Crew /\ st[bforked + 1] = "none"
    BY <2>1, LineWorkers
  <2>3. \A v \in 1..Crew : st'[v] = IF v = bforked + 1 THEN "born" ELSE st[v]
    BY <2>1
  <2>4. \A v \in 1..Crew : st'[v] = "none" <=> v > bforked'
    BY <2>1, <2>2, <2>3, LineWorkers
  <2>5. LineShape'
    BY <2>1, <2>2, <2>4
  <2>6. \A b : Gone(b)' = Gone(b)
    BY <2>2, <2>3, LineWorkers DEF Gone, Line!Member
  <2> QED
    BY <2>1, <2>5, <2>6
<1>2. CASE Line!ParentCloses \/ Line!ParentReaps
  <2>1. /\ parent' \in {"waiting", "done"} /\ bforked = Crew
        /\ UNCHANGED <<bforked, st, first, second, buf, copies, total, killed>>
    BY <1>2, LineWorkers DEF Line!ParentCloses, Line!ParentReaps
  <2> QED
    BY <2>1 DEF Gone
<1>3. CASE Line!CloseUnused(w)
  <2>1. /\ st[w] = "born" /\ st' = [st EXCEPT ![w] = "work"]
        /\ UNCHANGED <<bforked, parent, first, second, buf, copies, total, killed>>
    BY <1>3 DEF Line!CloseUnused
  <2>2. \A v \in 1..Crew : st'[v] = IF v = w THEN "work" ELSE st[v]
    BY <2>1
  <2>3. LineShape'
    BY <2>1, <2>2
  <2>4. \A b : Gone(b)' = Gone(b)
    BY <2>1, <2>2, LineWorkers DEF Gone, Line!Member
  <2> QED
    BY <2>1, <2>3, <2>4
<1> QED
  BY <1>1, <1>2, <1>3 DEF Settles

\* A worker ends: only its own brigade loses somebody, and no descriptor comes back.
LEMMA EndsStep ==
    ASSUME LineShape, NEW w \in 1..Crew, st[w] \in {"born", "work"},
           Line!Ends(w), UNCHANGED <<bforked, parent>>
    PROVE  /\ st' \in [1..Crew -> {"none", "born", "work", "dead"}]
           /\ \A v \in 1..Crew : st'[v] = "none" <=> v > bforked'
           /\ \A b : Gone(b)' = IF w \in Line!Member(b) THEN Gone(b) \cup {w} ELSE Gone(b)
           /\ \A b : Gone(b)' # Gone(b) => Cardinality(Gone(b)') = Cardinality(Gone(b)) + 1
           /\ \A b : Cardinality(Gone(b)') >= Cardinality(Gone(b))
           /\ w \in Line!Member(1) => Cardinality(Gone(1)') = Cardinality(Gone(1)) + 1
           /\ \A v \in 1..Crew : st[v] = "dead" => st'[v] = "dead"
<1>1. /\ st' = [st EXCEPT ![w] = "dead"] /\ UNCHANGED <<bforked, parent>>
  BY DEF Line!Ends
<1>2. \A v \in 1..Crew : st'[v] = IF v = w THEN "dead" ELSE st[v]
  BY <1>1 DEF LineShape
<1>3. /\ st' \in [1..Crew -> {"none", "born", "work", "dead"}]
      /\ \A v \in 1..Crew : st'[v] = "none" <=> v > bforked'
  BY <1>1, <1>2 DEF LineShape
<1>4. ASSUME NEW b
      PROVE  /\ Gone(b)' = IF w \in Line!Member(b) THEN Gone(b) \cup {w} ELSE Gone(b)
             /\ w \notin Gone(b)
  BY <1>2, LineWorkers DEF Gone, Line!Member
<1>5. ASSUME NEW b
      PROVE  Cardinality(Gone(b) \cup {w}) = Cardinality(Gone(b)) + 1
  BY <1>4, GoneIsFinite, FS_AddElement
<1>6. \A b : Cardinality(Gone(b)) \in Nat
  BY GoneIsFinite
<1>7. \A v \in 1..Crew : st[v] = "dead" => st'[v] = "dead"
  BY <1>2
<1>8. \A b : /\ Gone(b)' # Gone(b) => Cardinality(Gone(b)') = Cardinality(Gone(b)) + 1
             /\ Cardinality(Gone(b)') >= Cardinality(Gone(b))
             /\ w \in Line!Member(b) => Cardinality(Gone(b)') = Cardinality(Gone(b)) + 1
  <2> SUFFICES ASSUME NEW b
      PROVE  /\ Gone(b)' # Gone(b) => Cardinality(Gone(b)') = Cardinality(Gone(b)) + 1
             /\ Cardinality(Gone(b)') >= Cardinality(Gone(b))
             /\ w \in Line!Member(b) => Cardinality(Gone(b)') = Cardinality(Gone(b)) + 1
    OBVIOUS
  <2>1. Gone(b)' = (IF w \in Line!Member(b) THEN Gone(b) \cup {w} ELSE Gone(b))
    BY <1>4
  <2>2. Cardinality(Gone(b) \cup {w}) = Cardinality(Gone(b)) + 1 /\ Cardinality(Gone(b)) \in Nat
    BY <1>5, <1>6
  <2> QED
    BY <2>1, <2>2
<1> QED
  BY <1>3, <1>4, <1>7, <1>8

LEMMA EndsShape ==
    ASSUME LineShape, NEW w \in 1..Crew, st[w] \in {"born", "work"}, Line!Ends(w),
           UNCHANGED <<bforked, parent, first, second, buf, copies, total, killed>>
    PROVE  LineShape'
<1>1. /\ st' \in [1..Crew -> {"none", "born", "work", "dead"}]
      /\ \A v \in 1..Crew : st'[v] = "none" <=> v > bforked'
      /\ \A v \in 1..Crew : st[v] = "dead" => st'[v] = "dead"
  BY EndsStep
<1>2. \A v \in killed' : st'[v] = "dead"
  BY <1>1 DEF LineShape
<1> QED
  BY <1>1, <1>2 DEF LineShape

LEMMA KillStep ==
    ASSUME LineShape, NEW w \in 1..Crew, Line!Kill(w)
    PROVE  /\ LineShape' /\ UNCHANGED <<first, second, buf, copies>> /\ killed' = killed \cup {w}
           /\ Cardinality(Gone(1)') >= Cardinality(Gone(1))
           /\ \A b : Gone(b) \subseteq Gone(b)' /\ Gone(b)' \subseteq Gone(b) \cup {w}
<1>1. /\ st[w] \in {"born", "work"} /\ Line!Cardinality(killed) < MaxKills
      /\ killed' = killed \cup {w} /\ Line!Ends(w)
      /\ UNCHANGED <<bforked, parent, first, second, buf, copies, total>>
  BY DEF Line!Kill
<1>2. Cardinality(killed') <= MaxKills
  <2>1. Line!Cardinality(killed) = Cardinality(killed)
    BY DEF Line!Cardinality, Cardinality
  <2>2. IsFiniteSet(killed) /\ w \notin killed
    <3>1. killed \subseteq 1..Crew /\ IsFiniteSet(1..Crew)
      BY LineWorkers, FS_Interval DEF LineShape
    <3> QED
      BY <1>1, <3>1, FS_Subset DEF LineShape
  <2>3. Cardinality(killed) \in Nat /\ Cardinality(killed \cup {w}) = Cardinality(killed) + 1
    BY <2>2, FS_AddElement, FS_CardinalityType
  <2> QED
    BY <1>1, <2>1, <2>3, LineParameters
<1>3. /\ st' \in [1..Crew -> {"none", "born", "work", "dead"}]
      /\ \A v \in 1..Crew : st'[v] = "none" <=> v > bforked'
      /\ \A v \in killed' : st'[v] = "dead"
  <2>1. st'[w] = "dead"
    BY <1>1 DEF LineShape, Line!Ends
  <2> QED
    BY <1>1, <2>1, EndsStep DEF LineShape
<1>4. LineShape'
  BY <1>1, <1>2, <1>3 DEF LineShape
<1>5. \A b : Gone(b)' = IF w \in Line!Member(b) THEN Gone(b) \cup {w} ELSE Gone(b)
  BY <1>1, EndsStep
<1>6. Cardinality(Gone(1)') >= Cardinality(Gone(1))
  BY <1>1, EndsStep
<1> QED
  BY <1>1, <1>4, <1>5, <1>6

LEMMA CopyStep ==
    ASSUME LineShape, NEW w \in 1..Crew, Line!Copy(w)
    PROVE  /\ LineShape' /\ UNCHANGED <<first, buf, killed>>
           /\ Cardinality(Gone(1)') >= Cardinality(Gone(1))
<1>1. /\ st[w] = "work" /\ w \in Line!Member(2) /\ copies[w] > 0
      /\ UNCHANGED <<bforked, parent, first, buf, total, killed>>
  BY DEF Line!Copy
<1>2. CASE /\ Len(second) < Capacity /\ second' = Append(second, buf[w])
           /\ copies' = [copies EXCEPT ![w] = copies[w] - 1] /\ UNCHANGED st
  <2>1. buf[w] \in {Line!Letter, Line!Garbage} /\ copies[w] - 1 \in 0..MaxCopies
    BY <1>1, LineParameters DEF LineShape
  <2>2. copies' \in [Line!Member(2) -> 0..MaxCopies]
    BY <1>1, <1>2, <2>1 DEF LineShape
  <2> DEFINE T == {Line!Letter, Line!Garbage}
  <2>3. second' \in Seq(T) /\ Len(second') <= Capacity
    <3>1. buf[w] \in T /\ second \in Seq(T)
      BY <2>1 DEF LineShape
    <3> HIDE DEF T
    <3> QED
      BY <1>2, <3>1, LineParameters
  <2>4. LineShape'
    BY <1>1, <1>2, <2>2, <2>3 DEF LineShape
  <2>5. \A b : Gone(b)' = Gone(b)
    BY <1>2 DEF Gone
  <2>6. Cardinality(Gone(1)) \in Nat
    BY GoneIsFinite
  <2> QED
    BY <1>1, <2>4, <2>5, <2>6
<1>3. CASE Line!Ends(w) /\ UNCHANGED <<second, copies>>
  <2>1. LineShape'
    BY <1>1, <1>3, EndsShape
  <2>2. Cardinality(Gone(1)') >= Cardinality(Gone(1))
    BY <1>1, <1>3, EndsStep
  <2> QED
    BY <1>1, <2>1, <2>2
<1> QED
  BY <1>2, <1>3 DEF Line!Copy

LEMMA ReadFirst ==
    ASSUME NEW s \in Seq({Line!Letter}), s # <<>>
    PROVE  Head(s) = Line!Letter /\ Tail(s) \in Seq({Line!Letter}) /\ Len(Tail(s)) = Len(s) - 1
<1> DEFINE T == {Line!Letter}
<1>1. Head(s) \in T
  OBVIOUS
<1>2. Tail(s) \in Seq(T) /\ Len(Tail(s)) = Len(s) - 1
  <2> HIDE DEF T
  <2>1. s \in Seq(T)
    BY DEF T
  <2> QED
    BY <2>1
<1> QED
  BY <1>1, <1>2

LEMMA WriteFirst ==
    ASSUME NEW s \in Seq({Line!Letter})
    PROVE  Append(s, Line!Letter) \in Seq({Line!Letter}) /\ Len(Append(s, Line!Letter)) = Len(s) + 1
OBVIOUS

LEMMA ReadSecond ==
    ASSUME NEW s \in Seq({Line!Letter, Line!Garbage}), s # <<>>
    PROVE  Tail(s) \in Seq({Line!Letter, Line!Garbage}) /\ Len(Tail(s)) = Len(s) - 1
<1> DEFINE T == {Line!Letter, Line!Garbage}
<1>1. s \in Seq(T)
  OBVIOUS
<1> HIDE DEF T
<1>2. Tail(s) \in Seq(T) /\ Len(Tail(s)) = Len(s) - 1
  BY <1>1
<1> QED
  BY <1>2 DEF T

\* Nobody goes but by a signal, and no letter comes up: the causes stay.
LEMMA CausesKept ==
    ASSUME Causes, killed \subseteq killed', \A b : Gone(b) \subseteq Gone(b)',
           \A b : Gone(b) \subseteq killed => Gone(b)' \subseteq killed',
           ~(Line!Member(2) \subseteq killed) \/ second # <<>> \/ second' = <<>>,
           Stale' \/ Spoilt' => Stale \/ Spoilt
    PROVE  Causes'
BY DEF Causes

LEMMA LineStep == ASSUME LineInv, Line!Next PROVE LineInv'
<1>i. /\ LineShape /\ Len(first) <= Capacity /\ Causes
      /\ first \in Seq({Line!Letter}) /\ second \in Seq({Line!Letter, Line!Garbage})
  BY DEF LineInv, LineShape
<1>j. ASSUME NEW w \in 1..Crew, Settles(w) PROVE LineInv'
  <2>1. /\ LineShape' /\ UNCHANGED <<first, second, buf, copies, killed>>
        /\ \A b : Gone(b)' = Gone(b)
    BY <1>i, <1>j, SettlesStep
  <2>2. Causes'
    BY <1>i, <2>1 DEF Causes, Stale, Spoilt
  <2> QED
    BY <1>i, <2>1, <2>2 DEF LineInv
<1>1. CASE Line!Fork \/ Line!ParentCloses \/ Line!ParentReaps
  <2>1. 1 \in 1..Crew /\ Settles(1)
    BY <1>1, LineWorkers, LineParameters DEF Settles
  <2> QED
    BY <1>j, <2>1
<1>2. ASSUME NEW w \in 1..Crew, Line!CloseUnused(w) PROVE LineInv'
  BY <1>j, <1>2 DEF Settles
<1>3. ASSUME NEW w \in 1..Crew, Line!Kill(w) PROVE LineInv'
  <2>1. /\ LineShape' /\ UNCHANGED <<first, second, buf, copies>> /\ killed' = killed \cup {w}
        /\ \A b : Gone(b) \subseteq Gone(b)' /\ Gone(b)' \subseteq Gone(b) \cup {w}
    BY <1>i, <1>3, KillStep
  <2>2. Stale' \/ Spoilt' => Stale \/ Spoilt
    BY <2>1 DEF Stale, Spoilt
  <2>3. \A b : Gone(b) \subseteq killed => Gone(b)' \subseteq killed'
    BY <2>1
  <2>4. Causes'
    BY <1>i, <2>1, <2>2, <2>3, CausesKept
  <2> QED
    BY <1>i, <2>1, <2>4 DEF LineInv
<1>4. ASSUME NEW w \in 1..Crew, Line!Copy(w) PROVE LineInv'
  <2>1. /\ LineShape' /\ UNCHANGED <<first, buf, killed>>
        /\ w \in Line!Member(2) /\ st[w] = "work" /\ copies[w] > 0 /\ UNCHANGED <<bforked, parent>>
    BY <1>i, <1>4, CopyStep DEF Line!Copy
  <2>2. w \notin killed /\ ~(Line!Member(2) \subseteq killed) /\ Gone(3) \subseteq killed
    BY <1>i, <2>1, WorkingMeans DEF Causes
  <2>3. CASE second' = Append(second, buf[w]) /\ copies' = [copies EXCEPT ![w] = copies[w] - 1] /\ UNCHANGED st
    <3>1. \A b : Gone(b)' = Gone(b)
      BY <2>3 DEF Gone
    <3>2. Stale' => Stale
      <4>1. \A v \in Line!Member(2) : copies'[v] > 0 => copies[v] > 0
        BY <1>i, <2>1, <2>3 DEF LineShape
      <4> QED
        BY <2>1, <4>1 DEF Stale
    <3>3. Spoilt' => Spoilt \/ Stale
      <4>1. \A i \in 1..Len(second') : second'[i] = Line!Garbage => Spoilt \/ buf[w] = Line!Garbage
        <5> DEFINE T == {Line!Letter, Line!Garbage}
        <5>1. buf[w] \in T /\ second \in Seq(T)
          BY <1>i, <2>1 DEF LineShape
        <5>2. Line!ToSet(second) = {second[i] : i \in 1..Len(second)}
          BY <1>i DEF Line!ToSet
        <5> HIDE DEF T
        <5>3. \A i \in 1..Len(second') : (i \in 1..Len(second) /\ second'[i] = second[i]) \/ second'[i] = buf[w]
          BY <2>3, <5>1
        <5> QED
          BY <5>2, <5>3 DEF Spoilt
      <4>2. Line!ToSet(second') = {second'[i] : i \in 1..Len(second')}
        BY <2>1 DEF LineShape, Line!ToSet
      <4> QED
        BY <2>1, <4>1, <4>2 DEF Spoilt, Stale
    <3>4. Causes'
      BY <1>i, <2>1, <2>2, <3>1, <3>2, <3>3, CausesKept
    <3> QED
      BY <1>i, <2>1, <3>4 DEF LineInv
  <2>4. CASE ~Line!Open(2, "r") /\ Line!Ends(w) /\ UNCHANGED <<second, copies>>
    <3>1. Line!Member(3) \subseteq killed
      BY <1>i, <2>2, <2>4, ClosedMeans
    <3>2. w \notin Line!Member(1) /\ w \notin Line!Member(3)
      BY <2>1, LineWorkers
    <3>3. Gone(1)' = Gone(1) /\ Gone(3)' = Gone(3) /\ Gone(2) \subseteq Gone(2)'
      BY <1>i, <2>1, <2>4, <3>2, EndsStep
    <3>4. Stale' \/ Spoilt' => Stale \/ Spoilt
      BY <2>1, <2>4 DEF Stale, Spoilt
    <3>5. Causes'
      BY <1>i, <2>1, <2>2, <3>1, <3>3, <3>4 DEF Causes
    <3> QED
      BY <1>i, <2>1, <3>5 DEF LineInv
  <2> QED
    BY <1>4, <2>3, <2>4 DEF Line!Copy
<1>5. ASSUME NEW w \in 1..Crew, Line!Produce(w) PROVE LineInv'
  <2>1. /\ st[w] = "work" /\ w \in Line!Member(1)
        /\ UNCHANGED <<bforked, parent, second, buf, copies, total, killed>>
    BY <1>5 DEF Line!Produce
  <2>2. CASE Len(first) < Capacity /\ first' = Append(first, Line!Letter) /\ UNCHANGED st
    <3>1. first' \in Seq({Line!Letter}) /\ Len(first') <= Capacity
      BY <1>i, <2>2, WriteFirst, LineParameters
    <3> QED
      BY <1>i, <2>1, <2>2, <3>1 DEF LineInv, LineShape, Causes, Stale, Spoilt, Gone
  <2>3. CASE ~Line!Open(1, "r") /\ Line!Ends(w) /\ UNCHANGED first
    <3>1. LineShape'
      BY <1>i, <2>1, <2>3, EndsShape
    <3>2. w \notin Line!Member(2) /\ w \notin Line!Member(3)
      BY <2>1, LineWorkers
    <3>3. Gone(2)' = Gone(2) /\ Gone(3)' = Gone(3)
      BY <1>i, <2>1, <2>3, <3>2, EndsStep
    <3>4. Line!Member(2) \subseteq Gone(2)
      BY <1>i, <2>3, ClosedMeans
    <3>5. Causes'
      BY <1>i, <2>1, <3>3, <3>4 DEF Causes, Stale, Spoilt
    <3> QED
      BY <1>i, <2>3, <3>1, <3>5 DEF LineInv
  <2> QED
    BY <1>5, <2>2, <2>3 DEF Line!Produce
<1>6. ASSUME NEW w \in 1..Crew, Line!Take(w) PROVE LineInv'
  <2>1. /\ st[w] = "work" /\ w \in Line!Member(2) /\ UNCHANGED <<bforked, parent, st, second, total, killed>>
        /\ \E n \in 1..MaxCopies : copies' = [copies EXCEPT ![w] = n]
        /\ \/ first # <<>> /\ buf' = [buf EXCEPT ![w] = Head(first)] /\ first' = Tail(first)
           \/ ~Line!Open(1, "w") /\ UNCHANGED <<buf, first>>
    BY <1>6 DEF Line!Take
  <2>2. copies' \in [Line!Member(2) -> 0..MaxCopies] /\ \A v \in Line!Member(2) : v # w => copies'[v] = copies[v]
    <3>1. PICK n \in 1..MaxCopies : copies' = [copies EXCEPT ![w] = n]
      BY <2>1
    <3>2. n \in 0..MaxCopies
      BY LineParameters
    <3> QED
      BY <1>i, <3>1, <3>2 DEF LineShape
  <2>3. /\ buf' \in [Line!Member(2) -> {Line!Letter, Line!Garbage}]
        /\ first' \in Seq({Line!Letter}) /\ Len(first') <= Capacity
        /\ Stale' => Stale \/ Line!Member(1) \subseteq killed
    <3>1. CASE first # <<>> /\ buf' = [buf EXCEPT ![w] = Head(first)] /\ first' = Tail(first)
      <4>1. Head(first) = Line!Letter /\ first' \in Seq({Line!Letter}) /\ Len(first') = Len(first) - 1
        BY <1>i, <3>1, ReadFirst
      <4>2. Len(first') <= Capacity
        BY <1>i, <4>1, LineParameters
      <4>3. buf'[w] = Line!Letter /\ Line!Letter # Line!Garbage
        BY <1>i, <2>1, <3>1, <4>1 DEF LineShape, Line!Letter, Line!Garbage
      <4>4. \A v \in Line!Member(2) : v # w => buf'[v] = buf[v]
        BY <1>i, <3>1 DEF LineShape
      <4>5. Stale' => Stale
        BY <2>2, <4>3, <4>4 DEF Stale
      <4> QED
        BY <1>i, <3>1, <4>1, <4>2, <4>5 DEF LineShape
    <3>2. CASE ~Line!Open(1, "w") /\ UNCHANGED <<buf, first>>
      <4>1. Line!Member(1) \subseteq Gone(1) /\ ~(Line!Member(2) \subseteq Gone(2))
        BY <1>i, <2>1, <3>2, ClosedMeans, WorkingMeans
      <4> QED
        BY <1>i, <3>2, <4>1 DEF LineShape, Causes
    <3> QED
      BY <2>1, <3>1, <3>2
  <2>4. LineShape'
    BY <1>i, <2>1, <2>2, <2>3 DEF LineShape
  <2>5. \A b : Gone(b)' = Gone(b)
    BY <2>1 DEF Gone
  <2>6. Causes'
    BY <1>i, <2>1, <2>3, <2>5 DEF Causes, Spoilt
  <2> QED
    BY <2>3, <2>4, <2>6 DEF LineInv
<1>7. ASSUME NEW w \in 1..Crew, Line!Collect(w) PROVE LineInv'
  <2>1. /\ st[w] = "work" /\ w \in Line!Member(3)
        /\ UNCHANGED <<bforked, parent, first, buf, copies, killed>>
    BY <1>7 DEF Line!Collect
  <2>2. CASE /\ second # <<>> /\ second' = Tail(second) /\ UNCHANGED st
             /\ total' = [total EXCEPT ![w] = IF total[w] > Batch THEN total[w] ELSE total[w] + 1]
    <3>1. second' \in Seq({Line!Letter, Line!Garbage}) /\ Len(second') = Len(second) - 1
      BY <1>i, <2>2, ReadSecond
    <3>2. Len(second') <= Capacity
      BY <1>i, <3>1, LineParameters DEF LineShape
    <3>3. (IF total[w] > Batch THEN total[w] ELSE total[w] + 1) \in 0..Batch + 1
      <4>1. total[w] \in 0..Batch + 1
        BY <1>i, <2>1 DEF LineShape
      <4> QED
        BY <4>1, LineParameters
    <3>4. total' \in [Line!Member(3) -> 0..Batch + 1]
      BY <1>i, <2>2, <3>3 DEF LineShape
    <3>5. LineShape'
      BY <1>i, <2>1, <2>2, <3>1, <3>2, <3>4 DEF LineShape
    <3>6. Spoilt' => Spoilt
      <4>0. second \in Seq({Line!Letter, Line!Garbage})
        BY <1>i
      <4>1. Line!ToSet(second) = {second[i] : i \in 1..Len(second)} /\ Line!ToSet(second') = {second'[i] : i \in 1..Len(second')}
        BY ONLY <4>0, <3>1 DEF Line!ToSet
      <4> DEFINE T == {Line!Letter, Line!Garbage}
      <4>2. second \in Seq(T)
        BY <1>i
      <4> HIDE DEF T
      <4>3. \A i \in 1..Len(second') : i + 1 \in 1..Len(second) /\ second'[i] = second[i + 1]
        BY <2>2, <4>2
      <4> QED
        BY <4>1, <4>3 DEF Spoilt
    <3>7. \A b : Gone(b)' = Gone(b)
      BY <2>2 DEF Gone
    <3>8. Stale' => Stale
      BY <2>1 DEF Stale
    <3>9. Causes'
      BY <1>i, <2>1, <2>2, <3>6, <3>7, <3>8, CausesKept
    <3> QED
      BY <1>i, <2>1, <3>5, <3>9 DEF LineInv
  <2>3. CASE second = <<>> /\ ~Line!Open(2, "w") /\ Line!Ends(w) /\ UNCHANGED <<second, total>>
    <3>1. LineShape'
      BY <1>i, <2>1, <2>3, EndsShape
    <3>2. w \notin Line!Member(1) /\ w \notin Line!Member(2)
      BY <2>1, LineWorkers
    <3>3. Gone(1)' = Gone(1) /\ Gone(2)' = Gone(2)
      BY <1>i, <2>1, <2>3, <3>2, EndsStep
    <3>4. Line!Member(2) \subseteq killed
      <4>1. Line!Member(2) \subseteq Gone(2) /\ ~(Line!Member(3) \subseteq killed)
        BY <1>i, <2>1, <2>3, ClosedMeans, WorkingMeans
      <4> QED
        BY <1>i, <4>1 DEF Causes
    <3>5. Stale' \/ Spoilt' => Stale \/ Spoilt
      BY <2>1, <2>3 DEF Stale, Spoilt
    <3>6. Causes'
      BY <1>i, <2>1, <2>3, <3>3, <3>4, <3>5 DEF Causes
    <3> QED
      BY <1>i, <2>1, <3>1, <3>6 DEF LineInv
  <2> QED
    BY <1>7, <2>2, <2>3 DEF Line!Collect
<1> QED
  BY <1>1, <1>2, <1>3, <1>4, <1>5, <1>6, <1>7, LineWorkers DEF Line!Next, Line!Work

LEMMA DraftStep == ASSUME DraftInv, Line!DraftNext PROVE DraftInv'
<1>i. /\ LineShape /\ Len(first) <= Cardinality(Gone(1)) /\ Cardinality(Gone(1)) \in Nat
      /\ first \in Seq({Line!Letter}) /\ second \in Seq({Line!Letter, Line!Garbage})
  BY GoneIsFinite DEF DraftInv, LineShape
<1>j. Cardinality(Gone(1)') \in Nat
  <2>1. Gone(1)' \subseteq 1..Crew /\ IsFiniteSet(1..Crew)
    BY LineWorkers, FS_Interval DEF Gone, Line!Member
  <2> QED
    BY <2>1, FS_Subset, FS_CardinalityType
<1>k. Len(first) \in Nat
  BY <1>i
<1>1. CASE Line!Fork \/ Line!ParentCloses \/ Line!ParentReaps
  <2>1. 1 \in 1..Crew /\ Settles(1)
    BY <1>1, LineWorkers, LineParameters DEF Settles
  <2> QED
    BY <1>i, <2>1, SettlesStep DEF DraftInv
<1>2. ASSUME NEW w \in 1..Crew, Line!CloseUnused(w) PROVE DraftInv'
  <2>1. Settles(w)
    BY <1>2 DEF Settles
  <2> QED
    BY <1>i, <2>1, SettlesStep DEF DraftInv
<1>3. ASSUME NEW w \in 1..Crew, Line!Kill(w) PROVE DraftInv'
  <2>1. LineShape' /\ first' = first /\ Cardinality(Gone(1)') >= Cardinality(Gone(1))
    BY <1>i, <1>3, KillStep
  <2> QED
    BY <1>i, <1>j, <1>k, <2>1 DEF DraftInv
<1>4. ASSUME NEW w \in 1..Crew, Line!Copy(w) PROVE DraftInv'
  <2>1. LineShape' /\ first' = first /\ Cardinality(Gone(1)') >= Cardinality(Gone(1))
    BY <1>i, <1>4, CopyStep
  <2> QED
    BY <1>i, <1>j, <1>k, <2>1 DEF DraftInv
<1>5. ASSUME NEW w \in 1..Crew, Line!WriteOne(w) PROVE DraftInv'
  <2>1. /\ st[w] = "work" /\ w \in Line!Member(1) /\ Line!Ends(w)
        /\ first' = (IF Line!Open(1, "r") THEN Append(first, Line!Letter) ELSE first)
        /\ UNCHANGED <<bforked, parent, second, buf, copies, total, killed>>
    BY <1>5 DEF Line!WriteOne
  <2>2. /\ st' \in [1..Crew -> {"none", "born", "work", "dead"}]
        /\ \A v \in 1..Crew : st'[v] = "none" <=> v > bforked'
        /\ \A v \in killed' : st'[v] = "dead"
        /\ Cardinality(Gone(1)') = Cardinality(Gone(1)) + 1
    BY <1>i, <2>1, EndsStep DEF LineShape
  <2>3. first' \in Seq({Line!Letter}) /\ Len(first') <= Len(first) + 1 /\ Len(first') \in Nat
    BY <1>i, <1>k, <2>1, WriteFirst
  <2>4. LineShape'
    BY <1>i, <2>1, <2>2, <2>3 DEF LineShape
  <2> QED
    BY <1>i, <1>k, <2>2, <2>3, <2>4 DEF DraftInv
<1>6. ASSUME NEW w \in 1..Crew, Line!ReadOne(w) PROVE DraftInv'
  <2>1. /\ st[w] = "work" /\ w \in Line!Member(2)
        /\ UNCHANGED <<bforked, parent, second, total, killed>>
    BY <1>6 DEF Line!ReadOne
  <2>2. CASE /\ first # <<>> /\ first' = Tail(first) /\ buf' = [buf EXCEPT ![w] = Head(first)]
             /\ copies' = [copies EXCEPT ![w] = 1] /\ UNCHANGED st
    <3>1. Head(first) = Line!Letter /\ first' \in Seq({Line!Letter}) /\ Len(first') = Len(first) - 1
      BY <1>i, <2>2, ReadFirst
    <3>2. 1 \in 0..MaxCopies
      BY LineParameters
    <3>3. /\ buf' \in [Line!Member(2) -> {Line!Letter, Line!Garbage}]
          /\ copies' \in [Line!Member(2) -> 0..MaxCopies]
      BY <1>i, <2>2, <3>1, <3>2 DEF LineShape
    <3>4. LineShape'
      BY <1>i, <2>1, <2>2, <3>1, <3>3 DEF LineShape
    <3> QED
      BY <1>i, <1>k, <2>2, <3>1, <3>4 DEF DraftInv, Gone
  <2>3. CASE Line!Ends(w) /\ UNCHANGED <<first, buf, copies>>
    <3>1. Cardinality(Gone(1)') >= Cardinality(Gone(1))
      BY <1>i, <2>1, <2>3, EndsStep
    <3>2. LineShape'
      BY <1>i, <2>1, <2>3, EndsShape
    <3> QED
      BY <1>i, <1>j, <1>k, <2>3, <3>1, <3>2 DEF DraftInv
  <2> QED
    BY <1>6, <2>2, <2>3 DEF Line!ReadOne
<1>7. ASSUME NEW w \in 1..Crew, Line!ReadAnywhere(w) PROVE DraftInv'
  <2>1. /\ st[w] = "work" /\ w \in Line!Member(3)
        /\ UNCHANGED <<bforked, parent, first, buf, copies, total, killed>>
    BY <1>7 DEF Line!ReadAnywhere
  <2>2. second' \in Seq({Line!Letter, Line!Garbage}) /\ Len(second') <= Capacity
    <3>1. CASE second' = second
      BY <1>i, <3>1 DEF LineShape
    <3>2. CASE \E n \in 1..Len(second) : second' = SubSeq(second, n + 1, Len(second))
      <4>1. PICK n \in 1..Len(second) : second' = SubSeq(second, n + 1, Len(second))
        BY <3>2
      <4> DEFINE T == {Line!Letter, Line!Garbage}
      <4>2. PICK k \in Nat : k = Len(second) /\ second \in Seq(T) /\ k <= Capacity
        BY <1>i DEF LineShape
      <4> HIDE DEF T
      <4>3. SubSeq(second, n + 1, k) \in Seq(T) /\ Len(SubSeq(second, n + 1, k)) = k - n
        BY <4>2
      <4>4. Len(second') <= Capacity
        BY <4>1, <4>2, <4>3, LineParameters
      <4> QED
        BY <4>1, <4>2, <4>3, <4>4 DEF T
    <3> QED
      BY <1>7, <3>1, <3>2 DEF Line!ReadAnywhere
  <2>3. st' = st \/ Line!Ends(w)
    BY <1>7 DEF Line!ReadAnywhere
  <2>4. /\ st' \in [1..Crew -> {"none", "born", "work", "dead"}]
        /\ \A v \in 1..Crew : st'[v] = "none" <=> v > bforked'
        /\ \A v \in killed' : st'[v] = "dead"
        /\ Cardinality(Gone(1)') >= Cardinality(Gone(1))
    <3>1. CASE st' = st
      BY <1>i, <2>1, <3>1 DEF LineShape, Gone
    <3>2. CASE Line!Ends(w)
      BY <1>i, <2>1, <3>2, EndsStep DEF LineShape
    <3> QED
      BY <2>3, <3>1, <3>2
  <2>5. LineShape'
    BY <1>i, <2>1, <2>2, <2>4 DEF LineShape
  <2> QED
    BY <1>i, <1>j, <1>k, <2>1, <2>4, <2>5 DEF DraftInv
<1> QED
  BY <1>1, <1>2, <1>3, <1>4, <1>5, <1>6, <1>7, LineWorkers DEF Line!DraftNext, Line!DraftWork

LEMMA LineTypes == ASSUME LineShape, Len(first) <= Capacity PROVE Line!TypeOK
<1>1. Line!ToSet(first) \subseteq {Line!Letter}
  BY DEF Line!ToSet, LineShape
<1>2. Line!ToSet(second) \subseteq {Line!Letter, Line!Garbage}
  BY DEF Line!ToSet, LineShape
<1>3. Line!Cardinality(killed) = Cardinality(killed)
  BY DEF Line!Cardinality, Cardinality
<1> QED
  BY <1>1, <1>2, <1>3, LineWorkers DEF LineShape, Line!TypeOK

LEMMA LineMeaning == LineInv => Line!TypeOK /\ Line!StopsHaveACause
<1> SUFFICES ASSUME LineInv PROVE Line!TypeOK /\ Line!StopsHaveACause
  OBVIOUS
<1>1. Line!TypeOK
  BY LineTypes DEF LineInv
<1>2. \A b : Line!Ended(b) # {} <=> ~(Gone(b) \subseteq killed)
  BY DEF Line!Ended, Gone
<1>3. Line!DeadIn(2) <=> Line!Member(2) \subseteq Gone(2)
  BY DEF Line!DeadIn, Gone
<1> QED
  BY <1>1, <1>2, <1>3 DEF LineInv, Causes, Stale, Spoilt, Line!StopsHaveACause

LEMMA DraftMeaning == DraftInv => Line!TypeOK
<1> SUFFICES ASSUME DraftInv PROVE Line!TypeOK
  OBVIOUS
<1>1. Gone(1) \subseteq 1..W1 /\ IsFiniteSet(1..W1) /\ Cardinality(1..W1) = W1
  BY LineWorkers, LineParameters, FS_Interval DEF Gone
<1>2. Cardinality(Gone(1)) <= W1 /\ Cardinality(Gone(1)) \in Nat
  BY <1>1, FS_Subset, FS_CardinalityType
<1>3. Len(first) \in Nat /\ Len(first) <= Cardinality(Gone(1))
  BY DEF DraftInv, LineShape
<1>4. Len(first) <= Capacity
  BY <1>2, <1>3, LineParameters
<1> QED
  BY <1>4, LineTypes DEF DraftInv

-----------------------------------------------------------------------------
(* Numbers and sequences.                                                  *)

\* A set of natural numbers that is not empty has a smallest one.
LEMMA SmallestOf ==
    ASSUME NEW B \in SUBSET Nat, B # {}
    PROVE  \E n \in B : \A m \in B : n <= m
<1>1. PICK n \in B : \A m \in B : ~(<<m, n>> \in OpToRel(<, Nat))
  BY NatLessThanWellFounded, WFMin
<1>2. \A m \in B : ~(m < n)
  BY <1>1 DEF OpToRel
<1> QED
  BY <1>2

\* A set of numbers below n that is closed under the successor modulo n has all or none.
LEMMA AroundTheRing ==
    ASSUME NEW n \in Nat \ {0}, NEW B \in SUBSET (0..n - 1), NEW x \in B,
           n - 1 \in B => 0 \in B, \A i \in B : i < n - 1 => i + 1 \in B
    PROVE  B = 0..n - 1
<1>1. 0 \in B
  <2> SUFFICES ASSUME 0 \notin B PROVE FALSE
    OBVIOUS
  <2> DEFINE D == {n - 1 - i : i \in B}
  <2>1. D \in SUBSET Nat /\ D # {}
    OBVIOUS
  <2>2. PICK d \in D : \A m \in D : d <= m
    BY <2>1, SmallestOf
  <2>3. PICK i \in B : d = n - 1 - i
    BY <2>2
  <2>4. i < n - 1
    <3>1. i \in 0..n - 1 /\ i # n - 1
      BY <2>3
    <3> QED
      BY <3>1
  <2>5. n - 1 - (i + 1) \in D
    BY <2>4
  <2>6. d = n - 1 - i /\ ~(n - 1 - i <= n - 1 - (i + 1))
    BY <2>3
  <2> HIDE DEF D
  <2> QED
    BY <2>2, <2>5, <2>6
<1>2. ASSUME NEW j \in 0..n - 1, j \notin B PROVE FALSE
  <2> DEFINE D == (0..n - 1) \ B
  <2>1. D \in SUBSET Nat /\ D # {}
    BY <1>2
  <2>2. PICK d \in D : \A m \in D : d <= m
    BY <2>1, SmallestOf
  <2>3. d > 0 /\ d \in 0..n - 1
    BY <1>1, <2>2
  <2>4. d - 1 \in B
    <3>1. ~(d <= d - 1) /\ d - 1 \in 0..n - 1
      BY <2>3
    <3> QED
      BY <2>2, <3>1
  <2> QED
    BY <2>2, <2>3, <2>4
<1> QED
  BY <1>2

Contents(s) == {s[i] : i \in 1..Len(s)}
Distinct(s) == \A i, j \in 1..Len(s) : i # j => s[i] # s[j]

LEMMA EmptyContents == Contents(<<>>) = {} /\ Distinct(<<>>) /\ Len(<<>>) = 0
BY DEF Contents, Distinct

LEMMA AppendContents ==
    ASSUME NEW T, NEW s \in Seq(T), NEW c \in T
    PROVE  /\ Append(s, c) \in Seq(T) /\ Len(Append(s, c)) = Len(s) + 1
           /\ Contents(Append(s, c)) = Contents(s) \cup {c}
           /\ Distinct(s) /\ c \notin Contents(s) => Distinct(Append(s, c))
<1>1. /\ Append(s, c) \in Seq(T) /\ Len(Append(s, c)) = Len(s) + 1
      /\ \A i \in 1..Len(s) : Append(s, c)[i] = s[i]
      /\ Append(s, c)[Len(s) + 1] = c /\ Len(s) \in Nat
  OBVIOUS
<1> DEFINE t == Append(s, c)
<1> HIDE DEF t
<1>2. /\ Len(t) = Len(s) + 1 /\ \A i \in 1..Len(s) : t[i] = s[i]
      /\ t[Len(s) + 1] = c /\ Len(s) \in Nat
  BY <1>1 DEF t
<1>3. PICK n \in Nat : n = Len(s) /\ Len(t) = n + 1
  BY <1>2
<1>4. \A i \in 1..n + 1 : i \in 1..n \/ i = n + 1
  OBVIOUS
<1>5. n + 1 \in 1..n + 1 /\ \A i \in 1..n : i \in 1..n + 1 /\ i # n + 1
  OBVIOUS
<1>6. Contents(t) = Contents(s) \cup {c}
  BY <1>2, <1>3, <1>4, <1>5 DEF Contents
<1>7. Distinct(s) /\ c \notin Contents(s) => Distinct(t)
  BY <1>2, <1>3, <1>4, <1>5 DEF Contents, Distinct
<1> QED
  BY <1>1, <1>6, <1>7 DEF t

LEMMA TailContents ==
    ASSUME NEW T, NEW s \in Seq(T), s # <<>>, Distinct(s)
    PROVE  /\ Head(s) \in T /\ Head(s) \in Contents(s)
           /\ Tail(s) \in Seq(T) /\ Len(Tail(s)) = Len(s) - 1
           /\ Contents(Tail(s)) = Contents(s) \ {Head(s)} /\ Distinct(Tail(s))
<1>1. /\ Head(s) = s[1] /\ 1 \in 1..Len(s) /\ Head(s) \in T
      /\ Tail(s) \in Seq(T) /\ Len(Tail(s)) = Len(s) - 1 /\ Len(s) \in Nat
      /\ \A i \in 1..Len(s) - 1 : Tail(s)[i] = s[i + 1]
  OBVIOUS
<1> DEFINE t == Tail(s)
           h == Head(s)
<1>2. PICK n \in Nat : n = Len(s) /\ Len(t) = n - 1
  BY <1>1
<1> HIDE DEF t, h
<1>3. h = s[1] /\ \A i \in 1..n - 1 : t[i] = s[i + 1]
  BY <1>1, <1>2 DEF t, h
<1>4. /\ 1 \in 1..n /\ \A i \in 1..n - 1 : i + 1 \in 1..n /\ i + 1 # 1
      /\ \A i \in 1..n : i # 1 => \E j \in 1..n - 1 : i = j + 1
  <2>1. 1 \in 1..n
    BY <1>1, <1>2
  <2>2. ASSUME NEW i \in 1..n, i # 1 PROVE \E j \in 1..n - 1 : i = j + 1
    <3>1. i - 1 \in 1..n - 1 /\ i = (i - 1) + 1
      BY <2>2
    <3> QED
      BY <3>1
  <2> QED
    BY <2>1, <2>2
<1>5. Contents(t) = Contents(s) \ {h}
  <2>1. \A j \in 1..n - 1 : t[j] \in Contents(s) /\ t[j] # h
    BY <1>2, <1>3, <1>4 DEF Contents, Distinct
  <2>2. ASSUME NEW i \in 1..n, s[i] # h PROVE \E j \in 1..n - 1 : s[i] = t[j]
    <3>1. PICK j \in 1..n - 1 : i = j + 1
      BY <1>3, <1>4, <2>2
    <3> QED
      BY <1>3, <3>1
  <2> QED
    BY <1>2, <2>1, <2>2 DEF Contents
<1>6. Distinct(t)
  <2> SUFFICES ASSUME NEW i \in 1..n - 1, NEW j \in 1..n - 1, i # j PROVE t[i] # t[j]
    BY <1>2 DEF Distinct
  <2>1. i + 1 \in 1..n /\ j + 1 \in 1..n /\ i + 1 # j + 1
    OBVIOUS
  <2> QED
    BY <1>2, <1>3, <2>1 DEF Distinct
<1>7. h \in Contents(s)
  BY <1>2, <1>3, <1>4 DEF Contents
<1> QED
  BY <1>1, <1>5, <1>6, <1>7 DEF t, h

-----------------------------------------------------------------------------
(* L1/ShipGame/ships.c.                                                    *)

Fill      == [i \in Ship!Players |-> Len(pipe[i])]
Receivers == {i \in Ship!Players : pc[i] = "receive"}

ShipTypes ==
    /\ forked \in 0..N /\ over \in BOOLEAN /\ shared \in Ship!Players \cup {Ship!Nobody}
    /\ hand \in [Ship!Players -> SUBSET Ship!Cards]
    /\ pc \in [Ship!Players -> {"send", "receive"}]
    /\ pipe \in [Ship!Players -> Seq(Ship!Cards)]
    /\ \A i \in Ship!Players : Len(pipe[i]) <= Capacity

\* A card is in one place, and in a pipe only once.
CardsApart ==
    /\ \A i, j \in Ship!Players :
         /\ i # j => hand[i] \cap hand[j] = {} /\ Contents(pipe[i]) \cap Contents(pipe[j]) = {}
         /\ hand[i] \cap Contents(pipe[j]) = {}
    /\ \A i \in Ship!Players : Distinct(pipe[i]) /\ Cardinality(Contents(pipe[i])) = Len(pipe[i])
CardsThere == \A c \in Ship!Cards : \E i \in Ship!Players : c \in hand[i] \/ c \in Contents(pipe[i])

\* Every player that waits for a card has sent one, so the pipes hold as many.
CardsCounted ==
    /\ \A i \in Ship!Players : Cardinality(hand[i]) = IF pc[i] = "send" THEN M ELSE M - 1
    /\ SumFunction(Fill) = Cardinality(Receivers)

ShipInv == ShipTypes /\ CardsApart /\ CardsThere /\ CardsCounted

LEMMA ShipParameters ==
    /\ N \in Nat /\ N > 1 /\ M \in Nat /\ M > 0 /\ Capacity \in Nat /\ Capacity > 0
    /\ IsFiniteSet(Ship!Players) /\ Cardinality(Ship!Players) = N
    /\ IsFiniteSet(Ship!Cards) /\ N * M \in Nat /\ Cardinality(Ship!Cards) = N * M
<1>1. N \in Nat /\ N > 1 /\ M \in Nat /\ M > 0 /\ Capacity \in Nat /\ Capacity > 0
  BY ForksAssumption DEF ForksAssumption, Ship!RingAssumption, Ship!DeckAssumption
<1>2. IsFiniteSet(0..N - 1) /\ Cardinality(0..N - 1) = N
  BY <1>1, FS_Interval
<1>3. N * M \in Nat
  BY <1>1
<1>4. IsFiniteSet(1..N * M) /\ Cardinality(1..N * M) = N * M
  <2> DEFINE k == N * M
  <2> HIDE DEF k
  <2>1. IsFiniteSet(1..k) /\ (k \in Nat => Cardinality(1..k) = k)
    BY <1>3, FS_Interval DEF k
  <2> QED
    BY <1>3, <2>1 DEF k
<1> QED
  BY <1>1, <1>2, <1>3, <1>4 DEF Ship!Players, Ship!Cards

\* The instance's names for the operators of the library mean the same.
LEMMA ShipOperators ==
    /\ \A S : Ship!Cardinality(S) = Cardinality(S)
    /\ \A f : Ship!SumFunction(f) = SumFunction(f)
    /\ \A f : Ship!Range(f) = {f[x] : x \in DOMAIN f}
    /\ \A T : \A s \in Seq(T) : Ship!ToSet(s) = Contents(s)
<1>1. \A S : Ship!Cardinality(S) = Cardinality(S)
  BY DEF Ship!Cardinality, Cardinality, Ship!IsFiniteSet, IsFiniteSet
<1>2. \A f : Ship!SumFunction(f) = SumFunction(f)
  BY Zenon DEF SumFunction, SumFunctionOnSet, FoldFunctionOnSet, MapThenFoldSet,
     Ship!SumFunction, Ship!SumFunctionOnSet, Ship!FoldFunctionOnSet, Ship!MapThenFoldSet
<1>3. \A f : Ship!Range(f) = {f[x] : x \in DOMAIN f}
  BY DEF Ship!Range
<1>4. \A T : \A s \in Seq(T) : Ship!ToSet(s) = Contents(s)
  BY DEF Ship!ToSet, Contents
<1> QED
  BY <1>1, <1>2, <1>3, <1>4

\* The pipe a player reads is that of the player before it.
LEMMA PrevIs ==
    /\ Ship!Prev(0) = N - 1
    /\ \A i \in 1..N - 1 : Ship!Prev(i) = i - 1
    /\ \A i \in Ship!Players : Ship!Prev(i) \in Ship!Players
<1>1. ASSUME NEW x \in 0..N - 1 PROVE x % N = x
  BY <1>1, ShipParameters
<1>2. ASSUME NEW x \in 0..N - 1 PROVE (x + N) % N = x
  BY <1>2, ShipParameters
<1>3. Ship!Prev(0) = N - 1
  <2>1. 0 - 1 + N = N - 1 /\ N - 1 \in 0..N - 1
    BY ShipParameters
  <2> QED
    BY <1>1, <2>1 DEF Ship!Prev
<1>4. ASSUME NEW i \in 1..N - 1 PROVE Ship!Prev(i) = i - 1
  <2>1. i - 1 \in 0..N - 1
    BY ShipParameters
  <2> QED
    BY <1>2, <2>1 DEF Ship!Prev
<1>5. \A i \in Ship!Players : i = 0 \/ i \in 1..N - 1
  BY ShipParameters DEF Ship!Players
<1>6. N - 1 \in Ship!Players /\ \A i \in 1..N - 1 : i - 1 \in Ship!Players
  BY ShipParameters DEF Ship!Players
<1> QED
  BY <1>3, <1>4, <1>5, <1>6

\* Hands of M cards that have none in common hold M times as many cards as there are.
LEMMA HandsCount ==
    ASSUME NEW d \in [Ship!Players -> SUBSET Ship!Cards],
           \A i \in Ship!Players : Cardinality(d[i]) = M,
           \A i, j \in Ship!Players : i # j => d[i] \cap d[j] = {}
    PROVE  UNION {d[i] : i \in Ship!Players} = Ship!Cards
<1> DEFINE In(T) == UNION {d[i] : i \in T}
           Good == {T \in SUBSET Ship!Players : Cardinality(In(T)) = Cardinality(T) * M}
<1>1. ASSUME NEW T \in SUBSET Ship!Players
      PROVE  /\ IsFiniteSet(T) /\ Cardinality(T) \in Nat
             /\ In(T) \in SUBSET Ship!Cards /\ IsFiniteSet(In(T)) /\ Cardinality(In(T)) \in Nat
  <2>1. In(T) \in SUBSET Ship!Cards
    OBVIOUS
  <2> HIDE DEF In
  <2> QED
    BY <2>1, ShipParameters, FS_Subset, FS_CardinalityType
<1>2. ASSUME NEW T \in SUBSET Ship!Players, T = {} \/ T \ {Pick(T)} \in Good
      PROVE  T \in Good
  <2>1. CASE T = {}
    <3>1. In(T) = {}
      BY <2>1
    <3>2. Cardinality({}) = 0 /\ 0 * M = 0
      BY FS_EmptySet, ShipParameters
    <3> HIDE DEF In
    <3> QED
      BY <2>1, <3>1, <3>2
  <2>2. CASE T # {}
    <3> DEFINE x == Pick(T)
               R == T \ {x}
    <3>1. /\ x \in T /\ R \in SUBSET Ship!Players /\ Cardinality(R) \in Nat
          /\ Cardinality(T) = Cardinality(R) + 1
      BY <2>2, PickShrinks, ShipParameters
    <3>2. Cardinality(In(R)) = Cardinality(R) * M
      BY <1>2, <2>2
    <3> HIDE DEF x
    <3>3. In(T) = In(R) \cup d[x] /\ In(R) \cap d[x] = {}
      BY <3>1
    <3>4. IsFiniteSet(In(R)) /\ IsFiniteSet(d[x]) /\ Cardinality(d[x]) = M
      BY <1>1, <3>1, ShipParameters, FS_Subset
    <3> HIDE DEF In, R
    <3>5. Cardinality(In(R) \cup d[x]) = Cardinality(In(R)) + M
      <4>1. Cardinality(In(R) \cap d[x]) = 0
        BY <3>3, FS_EmptySet
      <4>2. Cardinality(In(R) \cup d[x]) = Cardinality(In(R)) + Cardinality(d[x]) - Cardinality(In(R) \cap d[x])
        BY <3>4, FS_Union
      <4>3. Cardinality(In(R)) \in Nat
        BY <3>4, FS_CardinalityType
      <4> QED
        BY <3>4, <4>1, <4>2, <4>3, ShipParameters
    <3>6. \A n \in Nat : n * M + M = (n + 1) * M
      BY ShipParameters
    <3> QED
      BY <3>1, <3>2, <3>3, <3>5, <3>6
  <2> QED
    BY <2>1, <2>2
<1> HIDE DEF Good
<1>3. \A T \in SUBSET Ship!Players : T \in Good
  BY <1>2, PickInduction, ShipParameters
<1>4. Cardinality(In(Ship!Players)) = N * M
  <2>1. Ship!Players \in Good
    BY <1>3
  <2> QED
    BY <2>1, ShipParameters DEF Good
<1>5. In(Ship!Players) \in SUBSET Ship!Cards
  BY <1>1
<1> QED
  BY <1>4, <1>5, ShipParameters, FS_Subset

LEMMA ShipInit == Init => ShipInv
<1> SUFFICES ASSUME Init PROVE ShipInv
  OBVIOUS
<1>1. /\ forked = 0 /\ hand \in Ship!Deals /\ pc = [i \in Ship!Players |-> "send"]
      /\ pipe = [i \in Ship!Players |-> <<>>] /\ shared = Ship!Nobody /\ over = FALSE
  BY DEF Init, Ship!Init
<1>2. /\ hand \in [Ship!Players -> SUBSET Ship!Cards]
      /\ \A i \in Ship!Players : Cardinality(hand[i]) = M
      /\ \A i, j \in Ship!Players : i # j => hand[i] \cap hand[j] = {}
  <2>1. \A S : Ship!kSubset(M, S) = {T \in SUBSET S : Cardinality(T) = M}
    BY ShipOperators DEF Ship!kSubset
  <2> QED
    BY <1>1, <2>1 DEF Ship!Deals
<1>3. \A i \in Ship!Players : /\ pc[i] = "send" /\ pipe[i] = <<>> /\ Len(pipe[i]) = 0
                              /\ Contents(pipe[i]) = {} /\ Distinct(pipe[i])
  BY <1>1, EmptyContents
<1>4. ShipTypes
  <2>1. <<>> \in Seq(Ship!Cards) /\ 0 \in 0..N
    BY ShipParameters
  <2>2. pipe \in [Ship!Players -> Seq(Ship!Cards)] /\ pc \in [Ship!Players -> {"send", "receive"}]
    BY ONLY <1>1, <2>1
  <2>3. \A i \in Ship!Players : Len(pipe[i]) <= Capacity
    BY <1>3, ShipParameters
  <2>4. over \in BOOLEAN /\ shared \in Ship!Players \cup {Ship!Nobody}
    BY ONLY <1>1
  <2> QED
    BY ONLY <1>1, <1>2, <2>1, <2>2, <2>3, <2>4 DEF ShipTypes
<1>5. CardsApart
  <2>1. Cardinality({}) = 0
    BY FS_EmptySet
  <2> QED
    BY <1>2, <1>3, <2>1 DEF CardsApart
<1>6. CardsThere
  BY <1>2, HandsCount DEF CardsThere
<1>7. CardsCounted
  <2>1. Receivers = {} /\ Cardinality({}) = 0
    BY <1>3, FS_EmptySet DEF Receivers
  <2>2. Fill \in [Ship!Players -> Int] /\ \A i \in Ship!Players : Fill[i] = 0
    BY <1>3 DEF Fill
  <2>3. SumFunction(Fill) = 0
    BY <2>2, SumZero, ShipParameters
  <2> QED
    BY <1>2, <1>3, <2>1, <2>3 DEF CardsCounted
<1> QED
  BY <1>4, <1>5, <1>6, <1>7 DEF ShipInv

\* The sum of what the pipes hold changes with one of them.
LEMMA FillChanges ==
    ASSUME ShipTypes, pipe' \in [Ship!Players -> Seq(Ship!Cards)],
           NEW k \in Ship!Players, \A i \in Ship!Players : i # k => pipe'[i] = pipe[i]
    PROVE  /\ SumFunction(Fill) \in Int /\ SumFunction(Fill') \in Int
           /\ SumFunction(Fill') = SumFunction(Fill) + Len(pipe'[k]) - Len(pipe[k])
<1>1. Fill \in [Ship!Players -> Int] /\ Fill' \in [Ship!Players -> Int]
  <2>1. \A i \in Ship!Players : Len(pipe[i]) \in Int /\ Len(pipe'[i]) \in Int
    BY DEF ShipTypes
  <2> QED
    BY <2>1 DEF Fill
<1>2. \A i \in Ship!Players : /\ Fill[i] = Len(pipe[i]) /\ Fill'[i] = Len(pipe'[i])
                              /\ i # k => Fill'[i] = Fill[i]
  BY DEF Fill
<1>3. IsFiniteSet(Ship!Players) /\ \A y \in Ship!Players : y # k => Fill'[y] = Fill[y]
  BY <1>2, ShipParameters
<1>4. /\ SumFunction(Fill) \in Int /\ SumFunction(Fill') \in Int
      /\ SumFunction(Fill') = SumFunction(Fill) + Fill'[k] - Fill[k]
  BY ONLY <1>1, <1>3, SumChange
<1> QED
  BY <1>2, <1>4

LEMMA ShipSend == ASSUME ShipInv, NEW i \in Ship!Players, Ship!Send(i) PROVE ShipInv'
<1> USE DEF ShipInv
<1>1. PICK c \in hand[i] : /\ hand' = [hand EXCEPT ![i] = hand[i] \ {c}]
                           /\ pipe' = [pipe EXCEPT ![i] = Append(pipe[i], c)]
  BY DEF Ship!Send
<1>2. /\ pc[i] = "send" /\ Len(pipe[i]) < Capacity /\ pc' = [pc EXCEPT ![i] = "receive"]
      /\ UNCHANGED <<forked, shared, over>>
  BY DEF Ship!Send
<1>3. /\ hand[i] \in SUBSET Ship!Cards /\ c \in Ship!Cards /\ pipe[i] \in Seq(Ship!Cards)
      /\ c \notin Contents(pipe[i]) /\ Distinct(pipe[i]) /\ Cardinality(Contents(pipe[i])) = Len(pipe[i])
  BY DEF ShipTypes, CardsApart
<1> DEFINE s == Append(pipe[i], c)
<1>4. /\ s \in Seq(Ship!Cards) /\ Len(s) = Len(pipe[i]) + 1
      /\ Contents(s) = Contents(pipe[i]) \cup {c} /\ Distinct(s)
  BY <1>3, AppendContents
<1>5. /\ hand' \in [Ship!Players -> SUBSET Ship!Cards] /\ pipe' \in [Ship!Players -> Seq(Ship!Cards)]
      /\ pc' \in [Ship!Players -> {"send", "receive"}]
      /\ hand'[i] = hand[i] \ {c} /\ pipe'[i] = s /\ pc'[i] = "receive"
      /\ \A k \in Ship!Players : k # i => hand'[k] = hand[k] /\ pipe'[k] = pipe[k] /\ pc'[k] = pc[k]
  <2> DEFINE S == Seq(Ship!Cards)
             H == hand[i] \ {c}
  <2>1. H \in SUBSET Ship!Cards
    BY <1>3
  <2>2. s \in S /\ pipe \in [Ship!Players -> S] /\ pipe' = [pipe EXCEPT ![i] = s]
    BY <1>1, <1>4 DEF ShipTypes
  <2> HIDE DEF S, s, H
  <2>3. hand' = [hand EXCEPT ![i] = H] /\ hand \in [Ship!Players -> SUBSET Ship!Cards]
    BY <1>1 DEF H, ShipTypes
  <2>4. pc \in [Ship!Players -> {"send", "receive"}]
    BY DEF ShipTypes
  <2>5. /\ hand' \in [Ship!Players -> SUBSET Ship!Cards] /\ hand'[i] = H
        /\ \A k \in Ship!Players : k # i => hand'[k] = hand[k]
    BY ONLY <2>1, <2>3
  <2>6. /\ pipe' \in [Ship!Players -> S] /\ pipe'[i] = s
        /\ \A k \in Ship!Players : k # i => pipe'[k] = pipe[k]
    BY ONLY <2>2
  <2>7. /\ pc' \in [Ship!Players -> {"send", "receive"}] /\ pc'[i] = "receive"
        /\ \A k \in Ship!Players : k # i => pc'[k] = pc[k]
    BY <1>2, <2>4
  <2> QED
    BY ONLY <2>5, <2>6, <2>7 DEF S, H
<1> HIDE DEF s
<1>6. ShipTypes'
  <2>1. Len(pipe[i]) \in Nat
    BY <1>3
  <2>2. Len(s) <= Capacity
    BY <1>2, <1>4, <2>1, ShipParameters
  <2> QED
    BY <1>2, <1>5, <2>2 DEF ShipTypes
<1>7. CardsApart'
  <2>1. Cardinality(Contents(s)) = Len(s)
    <3>1. IsFiniteSet(Contents(pipe[i]))
      <4>1. Contents(pipe[i]) \subseteq Ship!Cards
        BY <1>3 DEF Contents
      <4> QED
        BY <4>1, ShipParameters, FS_Subset
    <3>2. Cardinality(Contents(pipe[i]) \cup {c}) = Cardinality(Contents(pipe[i])) + 1
      BY <1>3, <3>1, FS_AddElement
    <3> QED
      BY <1>3, <1>4, <3>2
  <2>2. \A k \in Ship!Players : /\ hand'[k] \subseteq hand[k]
                                /\ Contents(pipe'[k]) = IF k = i THEN Contents(pipe[i]) \cup {c}
                                                        ELSE Contents(pipe[k])
    BY <1>4, <1>5
  <2>3. /\ \A k \in Ship!Players : c \notin Contents(pipe[k]) /\ (k # i => c \notin hand[k])
        /\ c \notin hand'[i]
    BY <1>5 DEF CardsApart
  <2>4. \A k \in Ship!Players : Distinct(pipe'[k]) /\ Cardinality(Contents(pipe'[k])) = Len(pipe'[k])
    BY <1>4, <1>5, <2>1 DEF CardsApart
  <2>5. \A j, k \in Ship!Players : /\ j # k => hand'[j] \cap hand'[k] = {}
                                   /\ j # k => Contents(pipe'[j]) \cap Contents(pipe'[k]) = {}
    BY <2>2, <2>3 DEF CardsApart
  <2>6. \A j, k \in Ship!Players : hand'[j] \cap Contents(pipe'[k]) = {}
    BY <2>2, <2>3 DEF CardsApart
  <2> QED
    BY <2>4, <2>5, <2>6 DEF CardsApart
<1>8. CardsThere'
  BY <1>4, <1>5 DEF CardsThere
<1>9. CardsCounted'
  <2>1. Receivers' = Receivers \cup {i} /\ i \notin Receivers
    BY <1>2, <1>5 DEF Receivers
  <2>2. IsFiniteSet(Receivers)
    BY ShipParameters, FS_Subset DEF Receivers
  <2>3. Cardinality(Receivers') = Cardinality(Receivers) + 1
    BY <2>1, <2>2, FS_AddElement
  <2>4. SumFunction(Fill') = SumFunction(Fill) + Len(s) - Len(pipe[i]) /\ SumFunction(Fill) \in Int
    BY <1>5, FillChanges
  <2>5. SumFunction(Fill') = SumFunction(Fill) + 1
    <3>1. Len(pipe[i]) \in Nat
      BY <1>3
    <3> QED
      BY <1>4, <2>4, <3>1
  <2>6. Cardinality(hand'[i]) = M - 1
    <3>1. IsFiniteSet(hand[i]) /\ Cardinality(hand[i]) = M
      BY <1>2, <1>3, ShipParameters, FS_Subset DEF CardsCounted
    <3>2. Cardinality(hand[i] \ {c}) = Cardinality(hand[i]) - 1
      BY <3>1, FS_RemoveElement
    <3> QED
      BY <1>5, <3>1, <3>2
  <2>7. \A k \in Ship!Players : Cardinality(hand'[k]) = IF pc'[k] = "send" THEN M ELSE M - 1
    BY <1>5, <2>6 DEF CardsCounted
  <2> QED
    BY <2>3, <2>5, <2>7 DEF CardsCounted
<1> QED
  BY <1>6, <1>7, <1>8, <1>9

LEMMA ShipReceive == ASSUME ShipInv, NEW i \in Ship!Players, Ship!Receive(i) PROVE ShipInv'
<1> USE DEF ShipInv
<1>1. PICK j \in Ship!Players : j = Ship!Prev(i)
  BY PrevIs
<1>2. /\ pc[i] = "receive" /\ pipe[j] # <<>> /\ hand' = [hand EXCEPT ![i] = hand[i] \cup {Head(pipe[j])}]
      /\ pipe' = [pipe EXCEPT ![j] = Tail(pipe[j])] /\ shared' \in {i, shared}
      /\ pc' = [pc EXCEPT ![i] = "send"] /\ UNCHANGED <<forked, over>>
  BY <1>1 DEF Ship!Receive
<1>3. /\ pipe[j] \in Seq(Ship!Cards) /\ Distinct(pipe[j]) /\ Len(pipe[j]) \in Nat
      /\ Cardinality(Contents(pipe[j])) = Len(pipe[j]) /\ hand[i] \in SUBSET Ship!Cards
  BY DEF ShipTypes, CardsApart
<1> DEFINE s == Tail(pipe[j])
           c == Head(pipe[j])
<1>4. /\ s \in Seq(Ship!Cards) /\ Len(s) = Len(pipe[j]) - 1 /\ c \in Ship!Cards
      /\ c \in Contents(pipe[j]) /\ Contents(s) = Contents(pipe[j]) \ {c} /\ Distinct(s)
  BY <1>2, <1>3, TailContents
<1>5. /\ hand' \in [Ship!Players -> SUBSET Ship!Cards] /\ pipe' \in [Ship!Players -> Seq(Ship!Cards)]
      /\ pc' \in [Ship!Players -> {"send", "receive"}]
      /\ hand'[i] = hand[i] \cup {c} /\ pipe'[j] = s /\ pc'[i] = "send"
      /\ \A k \in Ship!Players : /\ k # i => hand'[k] = hand[k] /\ pc'[k] = pc[k]
                                 /\ k # j => pipe'[k] = pipe[k]
  <2> DEFINE S == Seq(Ship!Cards)
             H == hand[i] \cup {c}
  <2>1. H \in SUBSET Ship!Cards
    BY <1>3, <1>4
  <2>2. s \in S /\ pipe \in [Ship!Players -> S] /\ pipe' = [pipe EXCEPT ![j] = s]
    BY <1>2, <1>4 DEF ShipTypes
  <2> HIDE DEF S, s, H
  <2>3. hand' = [hand EXCEPT ![i] = H] /\ hand \in [Ship!Players -> SUBSET Ship!Cards]
    BY <1>2 DEF H, ShipTypes
  <2>4. pc \in [Ship!Players -> {"send", "receive"}]
    BY DEF ShipTypes
  <2>5. /\ hand' \in [Ship!Players -> SUBSET Ship!Cards] /\ hand'[i] = H
        /\ \A k \in Ship!Players : k # i => hand'[k] = hand[k]
    BY ONLY <2>1, <2>3
  <2>6. /\ pipe' \in [Ship!Players -> S] /\ pipe'[j] = s
        /\ \A k \in Ship!Players : k # j => pipe'[k] = pipe[k]
    BY ONLY <2>2
  <2>7. /\ pc' \in [Ship!Players -> {"send", "receive"}] /\ pc'[i] = "send"
        /\ \A k \in Ship!Players : k # i => pc'[k] = pc[k]
    BY <1>2, <2>4
  <2> QED
    BY ONLY <2>5, <2>6, <2>7 DEF S, H
<1> HIDE DEF s, c
<1>6. ShipTypes'
  <2>1. Len(pipe[j]) <= Capacity
    BY DEF ShipTypes
  <2>2. Len(s) <= Capacity
    BY <1>3, <1>4, <2>1, ShipParameters
  <2>3. shared' \in Ship!Players \cup {Ship!Nobody}
    BY <1>2 DEF ShipTypes
  <2> QED
    BY <1>2, <1>5, <2>2, <2>3 DEF ShipTypes
<1>7. CardsApart'
  <2>1. Cardinality(Contents(s)) = Len(s)
    <3>1. IsFiniteSet(Contents(pipe[j]))
      <4>1. Contents(pipe[j]) \subseteq Ship!Cards
        BY <1>3 DEF Contents
      <4> QED
        BY <4>1, ShipParameters, FS_Subset
    <3>2. Cardinality(Contents(pipe[j]) \ {c}) = Cardinality(Contents(pipe[j])) - 1
      BY <1>4, <3>1, FS_RemoveElement
    <3> QED
      BY <1>3, <1>4, <3>2
  <2>2. \A k \in Ship!Players : /\ hand'[k] = IF k = i THEN hand[i] \cup {c} ELSE hand[k]
                                /\ Contents(pipe'[k]) = IF k = j THEN Contents(pipe[j]) \ {c}
                                                        ELSE Contents(pipe[k])
    BY <1>4, <1>5
  <2>3. \A k \in Ship!Players : c \notin hand[k] /\ (k # j => c \notin Contents(pipe[k]))
    BY <1>4 DEF CardsApart
  <2>4. \A k \in Ship!Players : Distinct(pipe'[k]) /\ Cardinality(Contents(pipe'[k])) = Len(pipe'[k])
    BY <1>4, <1>5, <2>1 DEF CardsApart
  <2>5. \A m, k \in Ship!Players : /\ m # k => hand'[m] \cap hand'[k] = {}
                                   /\ m # k => Contents(pipe'[m]) \cap Contents(pipe'[k]) = {}
    BY <2>2, <2>3 DEF CardsApart
  <2>6. \A m, k \in Ship!Players : hand'[m] \cap Contents(pipe'[k]) = {}
    BY <2>2, <2>3 DEF CardsApart
  <2> QED
    BY <2>4, <2>5, <2>6 DEF CardsApart
<1>8. CardsThere'
  BY <1>4, <1>5 DEF CardsThere
<1>9. CardsCounted'
  <2>1. Receivers' = Receivers \ {i} /\ i \in Receivers
    BY <1>2, <1>5 DEF Receivers
  <2>2. IsFiniteSet(Receivers)
    BY ShipParameters, FS_Subset DEF Receivers
  <2>3. Cardinality(Receivers') = Cardinality(Receivers) - 1
    BY <2>1, <2>2, FS_RemoveElement
  <2>4. SumFunction(Fill') = SumFunction(Fill) + Len(s) - Len(pipe[j]) /\ SumFunction(Fill) \in Int
    BY <1>5, FillChanges
  <2>5. SumFunction(Fill') = SumFunction(Fill) - 1
    BY <1>3, <1>4, <2>4
  <2>6. Cardinality(hand'[i]) = M
    <3>1. IsFiniteSet(hand[i]) /\ Cardinality(hand[i]) = M - 1 /\ c \notin hand[i]
      BY <1>2, <1>3, <1>4, ShipParameters, FS_Subset DEF CardsCounted, CardsApart
    <3>2. Cardinality(hand[i] \cup {c}) = Cardinality(hand[i]) + 1
      BY <3>1, FS_AddElement
    <3> QED
      BY <1>5, <3>1, <3>2, ShipParameters
  <2>7. \A k \in Ship!Players : Cardinality(hand'[k]) = IF pc'[k] = "send" THEN M ELSE M - 1
    BY <1>5, <2>6 DEF CardsCounted
  <2> QED
    BY <2>3, <2>5, <2>7 DEF CardsCounted
<1> QED
  BY <1>6, <1>7, <1>8, <1>9

LEMMA ShipStep == ASSUME ShipInv, Ship!Next PROVE ShipInv'
<1>1. CASE Ship!Fork \/ Ship!ReadWinner
  <2>1. forked \in 0..N /\ over \in BOOLEAN /\ N \in Nat
    BY ShipParameters DEF ShipInv, ShipTypes
  <2>2. ASSUME Ship!Fork
        PROVE  forked' \in 0..N /\ over' \in BOOLEAN /\ UNCHANGED <<hand, pc, pipe, shared>>
    <3>1. forked < N /\ forked' = forked + 1 /\ UNCHANGED <<hand, pc, pipe, shared, over>>
      BY <2>2 DEF Ship!Fork
    <3>2. forked' \in 0..N
      BY ONLY <2>1, <3>1
    <3> QED
      BY <2>1, <3>1, <3>2
  <2>3. ASSUME Ship!ReadWinner
        PROVE  forked' \in 0..N /\ over' \in BOOLEAN /\ UNCHANGED <<hand, pc, pipe, shared>>
    BY <2>1, <2>3 DEF Ship!ReadWinner
  <2>4. /\ forked' \in 0..N /\ over' \in BOOLEAN /\ UNCHANGED <<hand, pc, pipe, shared>>
    BY <1>1, <2>2, <2>3
  <2> QED
    BY <2>4 DEF ShipInv, ShipTypes, CardsApart, CardsThere, CardsCounted, Fill, Receivers
<1> QED
  BY <1>1, ShipSend, ShipReceive DEF Ship!Next

LEMMA ShipMeaning == ShipInv => Ship!TypeOK /\ Ship!CardsOnce /\ Ship!RingMoves
<1> SUFFICES ASSUME ShipInv PROVE Ship!TypeOK /\ Ship!CardsOnce /\ Ship!RingMoves
  OBVIOUS
<1> USE DEF ShipInv
<1>1. Ship!TypeOK
  BY DEF ShipTypes, Ship!TypeOK
<1>2. \A i \in Ship!Players : pipe[i] \in Seq(Ship!Cards) /\ Ship!ToSet(pipe[i]) = Contents(pipe[i])
  BY ShipOperators DEF ShipTypes
<1>3. Ship!CardsOnce
  <2>1. \A i, j \in Ship!Players :
           i # j => hand[i] \cap hand[j] = {} /\ Ship!ToSet(pipe[i]) \cap Ship!ToSet(pipe[j]) = {}
    BY <1>2 DEF CardsApart
  <2>2. \A i \in Ship!Players : Ship!Cardinality(Ship!ToSet(pipe[i])) = Len(pipe[i])
    BY <1>2, ShipOperators DEF CardsApart
  <2>3. (UNION Ship!Range(hand)) \cup (UNION {Ship!ToSet(pipe[i]) : i \in Ship!Players}) = Ship!Cards
    <3>1. Ship!Range(hand) = {hand[i] : i \in Ship!Players}
      BY ShipOperators DEF ShipTypes
    <3>2. \A i \in Ship!Players : hand[i] \subseteq Ship!Cards /\ Contents(pipe[i]) \subseteq Ship!Cards
      BY <1>2 DEF ShipTypes, Contents
    <3>3. UNION {Ship!ToSet(pipe[i]) : i \in Ship!Players} = UNION {Contents(pipe[i]) : i \in Ship!Players}
      BY <1>2
    <3>4. \A c \in Ship!Cards : \E i \in Ship!Players : c \in hand[i] \/ c \in Contents(pipe[i])
      BY DEF CardsThere
    <3>5. (UNION {hand[i] : i \in Ship!Players}) \cup (UNION {Contents(pipe[i]) : i \in Ship!Players})
            = Ship!Cards
      BY ONLY <3>2, <3>4
    <3> QED
      BY ONLY <3>1, <3>3, <3>5
  <2>4. \A i, j \in Ship!Players : hand[i] \cap Ship!ToSet(pipe[j]) = {}
    BY <1>2 DEF CardsApart
  <2>5. \A i \in Ship!Players : Ship!Cardinality(hand[i]) = IF pc[i] = "send" THEN M ELSE M - 1
    BY ShipOperators DEF CardsCounted
  <2>6. Ship!SumFunction([i \in Ship!Players |-> Len(pipe[i])])
          = Ship!Cardinality({i \in Ship!Players : pc[i] = "receive"})
    BY ShipOperators DEF CardsCounted, Fill, Receivers
  <2> QED
    BY <2>1, <2>2, <2>3, <2>4, <2>5, <2>6 DEF Ship!CardsOnce
<1>4. ASSUME \A i \in Ship!Players : ~(pc[i] = "send" /\ Len(pipe[i]) < Capacity),
             \A i \in Ship!Players : ~(pc[i] = "receive" /\ pipe[Ship!Prev(i)] # <<>>)
      PROVE  FALSE
  <2> DEFINE Senders == {i \in Ship!Players : pc[i] = "send"}
  <2>1. \A i \in Ship!Players : Len(pipe[i]) \in Nat
    BY <1>2
  <2>2. \A i \in Senders : Len(pipe[i]) > 0 /\ pipe[i] # <<>>
    BY <1>4, <2>1, ShipParameters
  <2>3. \A i \in Ship!Players : i \in Senders \/ (pc[i] = "receive" /\ pipe[Ship!Prev(i)] = <<>>)
    BY <1>4 DEF ShipTypes
  <2>4. Fill \in [Ship!Players -> Nat] /\ \A i \in Ship!Players : Fill[i] = Len(pipe[i])
    BY <2>1 DEF Fill
  <2>5. SumFunction(Fill) \in Nat /\ \A i \in Ship!Players : Fill[i] <= SumFunction(Fill)
    BY <2>4, SumNat, ShipParameters
  <2>6. CASE Senders = {}
    <3>1. \A i \in Ship!Players : pipe[i] = <<>>
      <4> SUFFICES ASSUME NEW i \in Ship!Players PROVE pipe[i] = <<>>
        OBVIOUS
      <4>1. CASE i = N - 1
        <5>1. 0 \in Ship!Players
          BY ShipParameters DEF Ship!Players
        <5> QED
          BY <2>3, <2>6, <4>1, <5>1, PrevIs
      <4>2. CASE i # N - 1
        <5>1. i + 1 \in 1..N - 1 /\ i + 1 \in Ship!Players /\ (i + 1) - 1 = i
          BY <4>2, ShipParameters DEF Ship!Players
        <5>2. Ship!Prev(i + 1) = i
          BY <5>1, PrevIs
        <5> QED
          BY <2>3, <2>6, <5>1, <5>2
      <4> QED
        BY <4>1, <4>2
    <3>2. \A i \in Ship!Players : Fill[i] = 0
      BY <2>4, <3>1, EmptyContents
    <3>3. Fill \in [Ship!Players -> Int]
      BY <2>4
    <3>4. SumFunction(Fill) = 0
      BY <3>2, <3>3, SumZero, ShipParameters
    <3>5. Receivers = Ship!Players
      BY <2>3, <2>6 DEF Receivers
    <3>6. SumFunction(Fill) = Cardinality(Receivers) /\ Cardinality(Ship!Players) > 0
      BY ShipParameters DEF CardsCounted
    <3> QED
      BY ONLY <3>4, <3>5, <3>6
  <2>7. CASE Senders # {}
    <3>1. PICK x \in Senders : TRUE
      BY <2>7
    <3>2. Senders \in SUBSET (0..N - 1)
      BY DEF Ship!Players
    <3>3. N - 1 \in Senders => 0 \in Senders
      <4>1. 0 \in Ship!Players
        BY ShipParameters DEF Ship!Players
      <4> QED
        BY <2>2, <2>3, <4>1, PrevIs
    <3>4. ASSUME NEW i \in Senders, i < N - 1 PROVE i + 1 \in Senders
      <4>1. i + 1 \in 1..N - 1 /\ i + 1 \in Ship!Players /\ (i + 1) - 1 = i
        BY <3>4, ShipParameters DEF Ship!Players
      <4>2. Ship!Prev(i + 1) = i
        BY <4>1, PrevIs
      <4> QED
        BY <2>2, <2>3, <4>1, <4>2
    <3> HIDE DEF Senders
    <3>5. Senders = 0..N - 1
      BY <3>1, <3>2, <3>3, <3>4, AroundTheRing, ShipParameters
    <3>6. Receivers = {}
      BY <3>5 DEF Receivers, Senders, Ship!Players
    <3>7. SumFunction(Fill) = 0
      BY <3>6, FS_EmptySet DEF CardsCounted
    <3>8. x \in Ship!Players /\ Fill[x] > 0
      BY <2>2, <2>4, <3>1 DEF Senders
    <3> QED
      BY <2>4, <2>5, <3>7, <3>8
  <2> QED
    BY <2>6, <2>7
<1>5. Ship!RingMoves
  BY <1>4 DEF Ship!RingMoves
<1> QED
  BY <1>1, <1>3, <1>5

-----------------------------------------------------------------------------
(* L1/PolishTask/main.c and L1/polishtask.c.                               *)

Army        == Knights!Knights
FoeSet(k)   == Knights!ToSet(Knights!Foes(k))
FoeCount(k) == Len(Knights!Foes(k))
Fighting    == {"unborn", "started", "read", "attack"}
Stages      == Fighting \cup Knights!Leaving \cup Knights!Closed

\* What a knight was struck with is in its pipe or was taken off its HP.
KnightsHits ==
    /\ hp \in [Army -> Int] /\ sent \in [Army -> Int] /\ kpipe \in [Army -> Seq(Int)]
    /\ \A k \in Army : /\ Len(kpipe[k]) <= MaxPending
                       /\ Health[k] - hp[k] + SumFunction(kpipe[k]) = sent[k]

\* The list of enemies is a list of all of them.
Lists(f, n, T) == f \in [1..n -> T] /\ \A e \in T : \E i \in 1..n : f[i] = e
KnightsLists ==
    /\ enemies = [k \in Army |-> enemies[k]]
    /\ \A k \in Army : Lists(enemies[k], FoeCount(k), FoeSet(k))

\* Who is not yet forked has done nothing; whoever fights knows a living enemy; the
\* enemies of one that saw the end have closed everything, its pipe is empty for good.
KnightsCourse ==
    /\ draft \in BOOLEAN /\ kforked \in 0..Len(Knights!Roster)
    /\ kparent \in {"fork", "wait", "killed"}
    /\ kpc \in [Army -> Stages] /\ alive \in [Army -> Int]
    /\ \A k \in Army : /\ alive[k] \in 0..FoeCount(k)
                       /\ kpc[k] \in Fighting => alive[k] >= 1
                       /\ kpc[k] \in {"eof", "saw eof"} => \A e \in FoeSet(k) : kpc[e] \in Knights!Closed
    /\ kparent = "fork" =>
         \A j \in 1..Len(Knights!Roster) : j > kforked => kpc[Knights!Roster[j]] = "unborn"

KnightsInv == KnightsHits /\ KnightsLists /\ KnightsCourse

\* Who saw the end has an empty pipe, and no enemy of it saw one.
SawTheEnd(k) == kpc[k] \in {"eof", "saw eof"}
KnightsEnd   == \A k \in Army : SawTheEnd(k) =>
                    kpipe[k] = <<>> /\ \A e \in FoeSet(k) : kpc[e] # "saw eof"

LEMMA ArmyParameters ==
    /\ MaxPending \in Nat /\ MaxPending # 0 /\ Health \in [Army -> Nat] /\ Attack \in [Army -> Nat]
    /\ Len(Knights!Roster) \in Nat
    /\ \A j \in 1..Len(Knights!Roster) : Knights!Roster[j] \in Army
    /\ \A i, j \in 1..Len(Knights!Roster) : Knights!Roster[i] = Knights!Roster[j] => i = j
<1>1. /\ Franks \in Seq(Army) /\ Saracens \in Seq(Army) /\ Knights!IsInjective(Knights!Roster)
      /\ MaxPending \in Nat /\ MaxPending # 0 /\ Health \in [Army -> Nat] /\ Attack \in [Army -> Nat]
  BY ForksAssumption DEF ForksAssumption, Knights!ArmyAssumption, Knights!StatAssumption, Army
<1>2. Knights!Roster \in Seq(Army)
  BY <1>1 DEF Knights!Roster
<1> DEFINE r == Knights!Roster
<1> HIDE DEF r
<1>3. r \in Seq(Army) /\ Knights!IsInjective(r)
  BY <1>1, <1>2 DEF r
<1>4. Len(r) \in Nat /\ DOMAIN r = 1..Len(r) /\ \A j \in 1..Len(r) : r[j] \in Army
  BY <1>3
<1>5. \A i, j \in 1..Len(r) : r[i] = r[j] => i = j
  BY <1>3, <1>4 DEF Knights!IsInjective
<1> QED
  BY <1>1, <1>4, <1>5 DEF r

LEMMA FoesOf ==
    ASSUME NEW k \in Army
    PROVE  /\ FoeCount(k) \in Nat /\ FoeCount(k) >= 1 /\ FoeSet(k) \subseteq Army
           /\ DOMAIN Knights!Foes(k) = 1..FoeCount(k)
           /\ Knights!Foes(k) \in [1..FoeCount(k) -> FoeSet(k)]
           /\ \A e \in FoeSet(k) : \E i \in 1..FoeCount(k) : Knights!Foes(k)[i] = e
<1> DEFINE s == Knights!Foes(k)
<1>1. s \in Seq(Army) /\ s # <<>>
  BY ForksAssumption DEF ForksAssumption, Knights!ArmyAssumption, Knights!Foes, Army
<1>2. FoeSet(k) = Knights!ToSet(s) /\ FoeCount(k) = Len(s)
  BY DEF FoeSet, FoeCount
<1> HIDE DEF s
<1>3. Len(s) \in Nat /\ Len(s) >= 1 /\ DOMAIN s = 1..Len(s) /\ \A i \in 1..Len(s) : s[i] \in Army
  BY <1>1
<1>4. Knights!ToSet(s) = {s[i] : i \in 1..Len(s)}
  BY <1>3 DEF Knights!ToSet
<1>5. s = [i \in 1..Len(s) |-> s[i]]
  BY <1>1
<1>6. s \in [1..Len(s) -> Knights!ToSet(s)]
  BY <1>4, <1>5
<1> QED
  BY <1>2, <1>3, <1>4, <1>6 DEF s

\* The instance's names for the operators of the library mean the same.
LEMMA KnightsOperators == \A f : Knights!SumFunction(f) = SumFunction(f)
BY Zenon DEF SumFunction, SumFunctionOnSet, FoldFunctionOnSet, MapThenFoldSet,
   Knights!SumFunction, Knights!SumFunctionOnSet, Knights!FoldFunctionOnSet, Knights!MapThenFoldSet

LEMMA KnightsInit == Init => KnightsInv /\ KnightsEnd
<1> SUFFICES ASSUME Init PROVE KnightsInv /\ KnightsEnd
  OBVIOUS
<1> USE DEF Army
<1>1. /\ draft \in BOOLEAN /\ kforked = 0 /\ kparent = "fork" /\ hp = Health
      /\ kpc = [k \in Army |-> "unborn"] /\ enemies = [k \in Army |-> Knights!Foes(k)]
      /\ alive = [k \in Army |-> FoeCount(k)] /\ kpipe = [k \in Army |-> <<>>]
      /\ sent = [k \in Army |-> 0]
  BY DEF Init, Knights!Init, FoeCount
<1> HIDE DEF Army
<1>2. KnightsHits
  <2>1. hp \in [Army -> Int] /\ sent \in [Army -> Int]
    BY <1>1, ArmyParameters
  <2>2. kpipe \in [Army -> Seq(Int)]
    BY <1>1
  <2>3. ASSUME NEW k \in Army
        PROVE  Len(kpipe[k]) <= MaxPending /\ Health[k] - hp[k] + SumFunction(kpipe[k]) = sent[k]
    <3>1. kpipe[k] = <<>> /\ sent[k] = 0 /\ hp[k] = Health[k] /\ Health[k] \in Nat
      BY <1>1, ArmyParameters
    <3> QED
      BY <3>1, ArmyParameters, SumEmptySeq
  <2> QED
    BY <2>1, <2>2, <2>3 DEF KnightsHits
<1>3. KnightsLists
  <2>1. enemies = [k \in Army |-> enemies[k]]
    BY <1>1
  <2>2. ASSUME NEW k \in Army
        PROVE  Lists(enemies[k], FoeCount(k), FoeSet(k))
    <3>1. enemies[k] = Knights!Foes(k)
      BY <1>1
    <3> QED
      BY <3>1, FoesOf DEF Lists
  <2> QED
    BY <2>1, <2>2 DEF KnightsLists
<1>4. KnightsCourse
  <2>1. kpc \in [Army -> Stages] /\ \A k \in Army : kpc[k] = "unborn"
    BY <1>1 DEF Stages, Fighting
  <2>2. \A k \in Army : alive[k] = FoeCount(k) /\ FoeCount(k) \in Nat /\ FoeCount(k) >= 1
    BY <1>1, FoesOf
  <2>3. alive \in [Army -> Int]
    BY <1>1, <2>2
  <2> QED
    BY <1>1, <2>1, <2>2, <2>3, ArmyParameters DEF KnightsCourse
<1>5. KnightsEnd
  BY <1>1 DEF KnightsEnd, SawTheEnd
<1> QED
  BY <1>2, <1>3, <1>4, <1>5 DEF KnightsInv

-----------------------------------------------------------------------------

\* A living knight k moves on to stage l.
LEMMA CourseStep ==
    ASSUME KnightsCourse, NEW k \in Army, kpc[k] \notin Knights!Closed, kpc[k] # "unborn",
           NEW l \in Stages, l # "unborn", kpc' = [kpc EXCEPT ![k] = l],
           alive' \in [Army -> Int], \A e \in Army : e # k => alive'[e] = alive[e],
           alive'[k] \in 0..FoeCount(k), l \in Fighting => alive'[k] >= 1,
           l \in {"eof", "saw eof"} => \A e \in FoeSet(k) : kpc[e] \in Knights!Closed,
           UNCHANGED <<draft, kforked, kparent>>
    PROVE  KnightsCourse'
<1> USE DEF KnightsCourse
<1>1. kpc' \in [Army -> Stages] /\ kpc'[k] = l /\ \A e \in Army : e # k => kpc'[e] = kpc[e]
  OBVIOUS
<1>2. \A e \in Army : kpc[e] \in Knights!Closed => kpc'[e] \in Knights!Closed
  BY <1>1
<1>3. ASSUME NEW j \in Army
      PROVE  /\ alive'[j] \in 0..FoeCount(j)
             /\ kpc'[j] \in Fighting => alive'[j] >= 1
             /\ kpc'[j] \in {"eof", "saw eof"} => \A e \in FoeSet(j) : kpc'[e] \in Knights!Closed
  <2>1. FoeSet(j) \subseteq Army
    BY FoesOf
  <2>2. CASE j = k
    BY <1>1, <1>2, <2>1, <2>2
  <2>3. CASE j # k
    <3>1. kpc'[j] = kpc[j] /\ alive'[j] = alive[j]
      BY <1>1, <2>3
    <3>2. kpc[j] \in {"eof", "saw eof"} => \A e \in FoeSet(j) : kpc[e] \in Knights!Closed
      OBVIOUS
    <3> QED
      BY <1>2, <2>1, <3>1, <3>2
  <2> QED
    BY <2>2, <2>3
<1>4. kparent' = "fork" =>
        \A j \in 1..Len(Knights!Roster) : j > kforked' => kpc'[Knights!Roster[j]] = "unborn"
  BY <1>1, ArmyParameters
<1> QED
  BY <1>1, <1>3, <1>4

\* A move of k alone that touches neither the hits nor the list.
LEMMA QuietMove ==
    ASSUME KnightsInv, NEW k \in Army, kpc[k] \notin Knights!Closed, kpc[k] # "unborn",
           NEW l \in Stages, l # "unborn", kpc' = [kpc EXCEPT ![k] = l],
           l \in Fighting => kpc[k] \in Fighting,
           l \in {"eof", "saw eof"} => \A e \in FoeSet(k) : kpc[e] \in Knights!Closed,
           UNCHANGED <<draft, kforked, kparent, hp, enemies, alive, kpipe, sent>>
    PROVE  KnightsInv'
<1>1. KnightsHits'
  <2>1. KnightsHits
    BY DEF KnightsInv
  <2> QED
    BY ONLY <2>1, UNCHANGED <<hp, kpipe, sent>> DEF KnightsHits
<1>2. KnightsLists'
  <2>1. KnightsLists
    BY DEF KnightsInv
  <2> QED
    BY ONLY <2>1, UNCHANGED enemies DEF KnightsLists
<1>3. /\ KnightsCourse /\ alive' \in [Army -> Int] /\ \A e \in Army : e # k => alive'[e] = alive[e]
      /\ alive'[k] \in 0..FoeCount(k) /\ (l \in Fighting => alive'[k] >= 1)
  BY DEF KnightsInv, KnightsCourse
<1>4. KnightsCourse'
  BY <1>3, CourseStep
<1> QED
  BY <1>1, <1>2, <1>4 DEF KnightsInv

LEMMA KnightsFork == ASSUME KnightsInv, Knights!Fork PROVE KnightsInv'
<1> DEFINE c == Knights!Roster[kforked + 1]
<1>1. /\ kparent = "fork" /\ kforked < Len(Knights!Roster) /\ kforked' = kforked + 1
      /\ kpc' = [kpc EXCEPT ![c] = "started"]
      /\ UNCHANGED <<draft, kparent, hp, enemies, alive, kpipe, sent>>
  BY DEF Knights!Fork, Knights!Goto
<1>2. KnightsHits /\ KnightsLists /\ KnightsCourse
  BY DEF KnightsInv
<1>3. KnightsHits'
  BY ONLY <1>1, <1>2 DEF KnightsHits
<1>4. KnightsLists'
  BY ONLY <1>1, <1>2 DEF KnightsLists
<1>5. KnightsCourse'
  <2>8. /\ kforked \in 0..Len(Knights!Roster)
        /\ \A j \in 1..Len(Knights!Roster) : j > kforked => kpc[Knights!Roster[j]] = "unborn"
    BY <1>1, <1>2 DEF KnightsCourse
  <2>9. PICK n \in Nat : n = Len(Knights!Roster)
    BY ArmyParameters
  <2>10. PICK m \in Nat : m = kforked
    BY <2>8, <2>9
  <2>11. m + 1 \in 1..n /\ m + 1 \in 0..n /\ m + 1 > m
    BY <1>1, <2>9, <2>10
  <2>1. kforked + 1 \in 1..Len(Knights!Roster) /\ kforked' \in 0..Len(Knights!Roster)
    BY <1>1, <2>9, <2>10, <2>11
  <2>2. c \in Army /\ kpc[c] = "unborn"
    BY <2>1, <2>8, <2>9, <2>10, <2>11, ArmyParameters
  <2>3. ASSUME NEW j \in 1..Len(Knights!Roster), j > kforked'
        PROVE  Knights!Roster[j] # c /\ Knights!Roster[j] \in Army /\ j > kforked
    <3>1. j \in 1..n /\ j > m + 1 /\ j # m + 1 /\ j > m
      BY <1>1, <2>3, <2>9, <2>10
    <3> QED
      BY <2>1, <2>9, <2>10, <3>1, ArmyParameters
  <2> HIDE DEF c
  <2> USE <1>2 DEF KnightsCourse
  <2>4. kpc' \in [Army -> Stages] /\ kpc'[c] = "started" /\ \A e \in Army : e # c => kpc'[e] = kpc[e]
    BY <1>1, <2>2 DEF Stages, Fighting
  <2>5. \A e \in Army : kpc[e] \in Knights!Closed => kpc'[e] \in Knights!Closed
    BY <2>2, <2>4 DEF Knights!Closed
  <2>6. ASSUME NEW j \in Army
        PROVE  /\ alive'[j] \in 0..FoeCount(j)
               /\ kpc'[j] \in Fighting => alive'[j] >= 1
               /\ kpc'[j] \in {"eof", "saw eof"} => \A e \in FoeSet(j) : kpc'[e] \in Knights!Closed
    <3>1. FoeSet(j) \subseteq Army /\ alive'[j] = alive[j]
      BY <1>1, FoesOf
    <3>2. CASE j = c
      <4>1. kpc[j] \in Fighting /\ kpc'[j] = "started"
        BY <2>2, <2>4, <3>2 DEF Fighting
      <4> QED
        BY <3>1, <4>1
    <3>3. CASE j # c
      <4>1. kpc'[j] = kpc[j]
        BY <2>4, <3>3
      <4>2. kpc[j] \in {"eof", "saw eof"} => \A e \in FoeSet(j) : kpc[e] \in Knights!Closed
        OBVIOUS
      <4> QED
        BY <2>5, <3>1, <4>1, <4>2
    <3> QED
      BY <3>2, <3>3
  <2>7. \A j \in 1..Len(Knights!Roster) : j > kforked' => kpc'[Knights!Roster[j]] = "unborn"
    BY <2>3, <2>4, <2>8
  <2> QED
    BY <1>1, <2>1, <2>4, <2>6, <2>7
<1> QED
  BY <1>3, <1>4, <1>5 DEF KnightsInv

LEMMA KnightsClose == ASSUME KnightsInv, Knights!ParentClose PROVE KnightsInv'
<1>1. kparent' = "wait" /\ UNCHANGED <<draft, kforked, kpc, hp, enemies, alive, kpipe, sent>>
  BY DEF Knights!ParentClose
<1>2. KnightsHits /\ KnightsLists /\ KnightsCourse
  BY DEF KnightsInv
<1>3. KnightsHits'
  BY ONLY <1>1, <1>2 DEF KnightsHits
<1>4. KnightsLists'
  BY ONLY <1>1, <1>2 DEF KnightsLists
<1>5. KnightsCourse'
  BY ONLY <1>1, <1>2 DEF KnightsCourse
<1> QED
  BY <1>3, <1>4, <1>5 DEF KnightsInv

\* A hit taken leaves the pipe and comes off the HP.
LEMMA KnightsTakeHit == ASSUME KnightsInv, NEW k \in Army, Knights!TakeHit(k) PROVE KnightsInv'
<1> DEFINE h == Head(kpipe[k])
           l == IF Knights!Fatal(hp'[k]) THEN "falls" ELSE "read"
<1>1. /\ kpc[k] = "read" /\ kpipe[k] # <<>>
      /\ kpipe' = [kpipe EXCEPT ![k] = Tail(kpipe[k])] /\ hp' = [hp EXCEPT ![k] = hp[k] - h]
      /\ kpc' = [kpc EXCEPT ![k] = l]
      /\ UNCHANGED <<draft, kforked, kparent, enemies, alive, sent>>
  BY DEF Knights!TakeHit, Knights!Goto
<1>2. KnightsHits /\ KnightsLists /\ KnightsCourse
  BY DEF KnightsInv
<1>3. KnightsHits'
  <2> USE <1>2 DEF KnightsHits
  <2>1. kpipe[k] \in Seq(Int) /\ Tail(kpipe[k]) \in Seq(Int) /\ Len(Tail(kpipe[k])) <= Len(kpipe[k])
    BY <1>1
  <2>2. /\ SumFunction(kpipe[k]) \in Int /\ SumFunction(Tail(kpipe[k])) \in Int /\ h \in Int
        /\ SumFunction(kpipe[k]) = h + SumFunction(Tail(kpipe[k]))
    BY <1>1, <2>1, SumTail
  <2> DEFINE S == Seq(Int)
             t == Tail(kpipe[k])
  <2> HIDE DEF S, t, h, l
  <2>3. kpipe \in [Army -> S] /\ t \in S /\ Len(t) <= Len(kpipe[k]) /\ Len(kpipe[k]) \in Nat /\ Len(t) \in Nat
    BY <2>1 DEF S, t
  <2>4. kpipe' \in [Army -> S] /\ kpipe'[k] = t /\ \A e \in Army : e # k => kpipe'[e] = kpipe[e]
    BY <1>1, <2>3 DEF t
  <2>5. hp' \in [Army -> Int] /\ hp'[k] = hp[k] - h /\ \A e \in Army : e # k => hp'[e] = hp[e]
    BY <1>1, <2>2
  <2>6. sent' = sent
    BY <1>1
  <2>7. Len(t) <= MaxPending
    BY <2>3, ArmyParameters
  <2>8. Health[k] - hp'[k] + SumFunction(t) = sent'[k]
    <3>1. Health[k] - hp[k] + SumFunction(kpipe[k]) = sent[k] /\ Health[k] \in Int /\ hp[k] \in Int
      BY ArmyParameters
    <3> QED
      BY <2>2, <2>5, <2>6, <3>1 DEF t
  <2>9. ASSUME NEW e \in Army
        PROVE  Len(kpipe'[e]) <= MaxPending /\ Health[e] - hp'[e] + SumFunction(kpipe'[e]) = sent'[e]
    BY <2>4, <2>5, <2>6, <2>7, <2>8
  <2> QED
    BY <2>4, <2>5, <2>6, <2>9 DEF S
<1>4. KnightsLists'
  BY ONLY <1>1, <1>2 DEF KnightsLists
<1>5. KnightsCourse'
  <2> HIDE DEF h
  <2>1. PICK m : m = l
    OBVIOUS
  <2>2. m \in {"falls", "read"} /\ kpc' = [kpc EXCEPT ![k] = m]
    BY <1>1, <2>1
  <2> HIDE DEF l
  <2>3. /\ m \in Stages /\ m # "unborn" /\ m \notin {"eof", "saw eof"}
        /\ kpc[k] \notin Knights!Closed /\ kpc[k] # "unborn" /\ kpc[k] \in Fighting
    BY <1>1, <2>2 DEF Stages, Fighting, Knights!Leaving, Knights!Closed
  <2>4. /\ alive' \in [Army -> Int] /\ \A e \in Army : e # k => alive'[e] = alive[e]
        /\ alive'[k] \in 0..FoeCount(k) /\ (m \in Fighting => alive'[k] >= 1)
    BY <1>1, <1>2, <2>3 DEF KnightsCourse
  <2>5. UNCHANGED <<draft, kforked, kparent>>
    BY <1>1
  <2> QED
    BY <1>2, <2>2, <2>3, <2>4, <2>5, CourseStep
<1> QED
  BY <1>3, <1>4, <1>5 DEF KnightsInv

\* The end of file is seen when every enemy has closed.
LEMMA KnightsSeeEnd == ASSUME KnightsInv, NEW k \in Army, Knights!SeeEnd(k) PROVE KnightsInv'
<1>1. /\ kpc[k] = "read" /\ ~Knights!WriteOpen(k) /\ alive' = [alive EXCEPT ![k] = 0]
      /\ kpc' = [kpc EXCEPT ![k] = "eof"]
      /\ UNCHANGED <<draft, kforked, kparent, hp, enemies, kpipe, sent>>
  BY DEF Knights!SeeEnd, Knights!Goto
<1>2. KnightsHits /\ KnightsLists /\ KnightsCourse
  BY DEF KnightsInv
<1>3. KnightsHits'
  BY ONLY <1>1, <1>2 DEF KnightsHits
<1>4. KnightsLists'
  BY ONLY <1>1, <1>2 DEF KnightsLists
<1>5. \A e \in FoeSet(k) : kpc[e] \in Knights!Closed
  BY <1>1 DEF Knights!WriteOpen, FoeSet
<1>6. FoeCount(k) \in Nat
  BY FoesOf
<1>7. /\ "eof" \in Stages /\ "eof" \notin Fighting /\ kpc[k] \notin Knights!Closed /\ kpc[k] # "unborn"
  BY <1>1 DEF Stages, Fighting, Knights!Leaving, Knights!Closed
<1>8. /\ alive' \in [Army -> Int] /\ \A e \in Army : e # k => alive'[e] = alive[e]
      /\ alive'[k] \in 0..FoeCount(k)
  <2>1. alive \in [Army -> Int]
    BY <1>2 DEF KnightsCourse
  <2>2. alive' \in [Army -> Int] /\ alive'[k] = 0 /\ \A e \in Army : e # k => alive'[e] = alive[e]
    BY <1>1, <2>1
  <2> QED
    BY <1>6, <2>2
<1>9. KnightsCourse'
  BY <1>1, <1>2, <1>5, <1>7, <1>8, CourseStep
<1> QED
  BY <1>3, <1>4, <1>9 DEF KnightsInv

\* The draft's write behind the list goes astray or ends the whole group.
LEMMA KnightsAstray == ASSUME KnightsInv, NEW k \in Army, Knights!Astray(k) PROVE KnightsInv'
<1>1. /\ kpc[k] = "attack" /\ UNCHANGED <<draft, kforked, hp, enemies, alive, kpipe, sent>>
      /\ \/ kpc' = [kpc EXCEPT ![k] = "read"] /\ UNCHANGED kparent
         \/ kpc' = [e \in Army |-> "killed"] /\ kparent' = "killed"
  BY DEF Knights!Astray, Knights!Goto, Army
<1>2. CASE kpc' = [kpc EXCEPT ![k] = "read"] /\ UNCHANGED kparent
  <2>1. /\ "read" \in Stages /\ kpc[k] \in Fighting /\ kpc[k] \notin Knights!Closed /\ kpc[k] # "unborn"
    BY <1>1 DEF Stages, Fighting, Knights!Closed
  <2> QED
    BY <1>1, <1>2, <2>1, QuietMove
<1>3. CASE kpc' = [e \in Army |-> "killed"] /\ kparent' = "killed"
  <2>1. KnightsHits /\ KnightsLists /\ KnightsCourse
    BY DEF KnightsInv
  <2>2. KnightsHits'
    BY ONLY <1>1, <2>1 DEF KnightsHits
  <2>3. KnightsLists'
    BY ONLY <1>1, <2>1 DEF KnightsLists
  <2>4. "killed" \in Stages /\ "killed" \notin Fighting /\ "killed" \in Knights!Closed
    BY DEF Stages, Fighting, Knights!Closed
  <2>5. kpc' \in [Army -> Stages] /\ \A e \in Army : kpc'[e] = "killed"
    BY <1>3, <2>4
  <2>6. KnightsCourse'
    BY <1>1, <1>3, <2>1, <2>4, <2>5 DEF KnightsCourse
  <2> QED
    BY <2>2, <2>3, <2>6 DEF KnightsInv
<1> QED
  BY <1>1, <1>2, <1>3

\* A hit written is in the enemy's pipe.
LEMMA KnightsStrike ==
    ASSUME KnightsInv, NEW k \in Army, NEW i \in 1..FoeCount(k), NEW s \in Int, Knights!Strike(k, i, s)
    PROVE  KnightsInv'
<1>1. PICK g : g = enemies[k][i]
  OBVIOUS
<1>2. /\ kpc[k] = "attack" /\ Len(kpipe[g]) < MaxPending
      /\ kpipe' = [kpipe EXCEPT ![g] = Append(kpipe[g], s)]
      /\ sent' = [sent EXCEPT ![g] = sent[g] + s]
      /\ kpc' = [kpc EXCEPT ![k] = "read"]
      /\ UNCHANGED <<draft, kforked, kparent, hp, enemies, alive>>
  BY <1>1 DEF Knights!Strike, Knights!Goto
<1>3. KnightsHits /\ KnightsLists /\ KnightsCourse
  BY DEF KnightsInv
<1>4. g \in Army
  <2>1. enemies[k] \in [1..FoeCount(k) -> FoeSet(k)] /\ FoeSet(k) \subseteq Army
    BY <1>3, FoesOf DEF KnightsLists, Lists
  <2> QED
    BY <1>1, <2>1
<1>5. KnightsHits'
  <2> USE <1>3 DEF KnightsHits
  <2>1. /\ kpipe[g] \in Seq(Int) /\ Append(kpipe[g], s) \in Seq(Int)
        /\ Len(Append(kpipe[g], s)) = Len(kpipe[g]) + 1 /\ Len(kpipe[g]) \in Nat
    BY <1>4
  <2>2. /\ SumFunction(kpipe[g]) \in Int
        /\ SumFunction(Append(kpipe[g], s)) = SumFunction(kpipe[g]) + s
    BY <2>1, SumAppend
  <2> DEFINE S == Seq(Int)
             t == Append(kpipe[g], s)
  <2> HIDE DEF S, t
  <2>3. kpipe \in [Army -> S] /\ t \in S /\ Len(t) <= MaxPending
    <3>1. kpipe \in [Army -> S] /\ t \in S
      BY <2>1 DEF S, t
    <3>2. Len(t) = Len(kpipe[g]) + 1 /\ Len(kpipe[g]) \in Nat
      BY <2>1 DEF t
    <3>3. Len(t) <= MaxPending
      BY ONLY <1>2, <3>2, ArmyParameters
    <3> QED
      BY <3>1, <3>3
  <2>4. kpipe' \in [Army -> S] /\ kpipe'[g] = t /\ \A e \in Army : e # g => kpipe'[e] = kpipe[e]
    BY <1>2, <1>4, <2>3 DEF t
  <2>5. sent' \in [Army -> Int] /\ sent'[g] = sent[g] + s /\ \A e \in Army : e # g => sent'[e] = sent[e]
    BY <1>2, <1>4
  <2>6. hp' = hp
    BY <1>2
  <2>7. Health[g] - hp[g] + SumFunction(t) = sent'[g]
    <3>1. Health[g] - hp[g] + SumFunction(kpipe[g]) = sent[g] /\ Health[g] \in Int /\ hp[g] \in Int
      BY <1>4, ArmyParameters
    <3> QED
      BY <2>2, <2>5, <3>1 DEF t
  <2>8. ASSUME NEW e \in Army
        PROVE  Len(kpipe'[e]) <= MaxPending /\ Health[e] - hp'[e] + SumFunction(kpipe'[e]) = sent'[e]
    BY <2>3, <2>4, <2>5, <2>6, <2>7
  <2> QED
    BY <2>4, <2>5, <2>6, <2>8 DEF S
<1>6. KnightsLists'
  BY ONLY <1>2, <1>3 DEF KnightsLists
<1>7. KnightsCourse'
  <2>1. /\ "read" \in Stages /\ "read" \notin {"eof", "saw eof"} /\ kpc[k] \in Fighting
        /\ kpc[k] \notin Knights!Closed /\ kpc[k] # "unborn"
    BY <1>2 DEF Stages, Fighting, Knights!Closed
  <2>2. /\ alive' \in [Army -> Int] /\ \A e \in Army : e # k => alive'[e] = alive[e]
        /\ alive'[k] \in 0..FoeCount(k) /\ alive'[k] >= 1
    BY <1>2, <1>3, <2>1 DEF KnightsCourse
  <2>3. UNCHANGED <<draft, kforked, kparent>>
    BY <1>2
  <2> QED
    BY <1>2, <1>3, <2>1, <2>2, <2>3, CourseStep
<1> QED
  BY <1>5, <1>6, <1>7 DEF KnightsInv

\* Two entries of a list exchanged leave the same enemies in it.
LEMMA SwapKeeps ==
    ASSUME NEW n, NEW T, NEW f, Lists(f, n, T), NEW i \in 1..n, NEW j \in 1..n
    PROVE  Lists(Knights!Swap(f, i, j), n, T)
<1> USE DEF Lists
<1> DEFINE g == [f EXCEPT ![i] = f[j], ![j] = f[i]]
<1>1. g \in [1..n -> T]
  OBVIOUS
<1>2. g[j] = f[i] /\ g[i] = f[j] /\ \A x \in 1..n : x # i /\ x # j => g[x] = f[x]
  OBVIOUS
<1>3. Knights!Swap(f, i, j) = g
  BY DEF Knights!Swap
<1> HIDE DEF g
<1>4. ASSUME NEW e \in T PROVE \E x \in 1..n : g[x] = e
  <2>1. PICK x \in 1..n : f[x] = e
    OBVIOUS
  <2> QED
    BY <1>2, <2>1
<1> QED
  BY <1>1, <1>3, <1>4

LEMMA KnightsFindDead ==
    ASSUME KnightsInv, NEW k \in Army, NEW i \in 1..FoeCount(k), Knights!FindDead(k, i) PROVE KnightsInv'
<1> DEFINE l == IF alive'[k] = 0 THEN "alone" ELSE "attack"
           w == Knights!Swap(enemies[k], i, alive[k])
<1>1. /\ kpc[k] = "attack" /\ alive' = [alive EXCEPT ![k] = alive[k] - 1]
      /\ enemies' = [enemies EXCEPT ![k] = w] /\ kpc' = [kpc EXCEPT ![k] = l]
      /\ UNCHANGED <<draft, kforked, kparent, hp, kpipe, sent>>
  BY DEF Knights!FindDead, Knights!Goto
<1>2. KnightsHits /\ KnightsLists /\ KnightsCourse
  BY DEF KnightsInv
<1>3. KnightsHits'
  BY ONLY <1>1, <1>2 DEF KnightsHits
<1>4. PICK n \in Nat : n = FoeCount(k)
  BY FoesOf
<1>5. kpc[k] \in Fighting /\ kpc[k] \notin Knights!Closed /\ kpc[k] # "unborn"
  BY <1>1 DEF Fighting, Knights!Closed
<1>6. alive \in [Army -> Int] /\ alive[k] \in 1..n /\ alive[k] - 1 \in 0..n
  <2>1. alive \in [Army -> Int] /\ alive[k] \in 0..FoeCount(k) /\ alive[k] >= 1
    BY <1>2, <1>5 DEF KnightsCourse
  <2> QED
    BY <1>4, <2>1
<1>7. KnightsLists'
  <2>1. enemies = [e \in Army |-> enemies[e]] /\ Lists(enemies[k], n, FoeSet(k)) /\ i \in 1..n
    BY <1>2, <1>4 DEF KnightsLists
  <2>2. Lists(w, n, FoeSet(k))
    BY <1>6, <2>1, SwapKeeps
  <2> HIDE DEF w
  <2>3. /\ enemies' = [e \in Army |-> enemies'[e]] /\ enemies'[k] = w
        /\ \A e \in Army : e # k => enemies'[e] = enemies[e]
    BY <1>1, <2>1
  <2>4. ASSUME NEW m \in Army
        PROVE  Lists(enemies'[m], FoeCount(m), FoeSet(m))
    <3>1. CASE m = k
      BY <1>4, <2>2, <2>3, <3>1
    <3>2. CASE m # k
      BY <1>2, <2>3, <3>2 DEF KnightsLists
    <3> QED
      BY <3>1, <3>2
  <2> QED
    BY <2>3, <2>4 DEF KnightsLists
<1>8. KnightsCourse'
  <2>1. alive' \in [Army -> Int] /\ alive'[k] = alive[k] - 1 /\ \A e \in Army : e # k => alive'[e] = alive[e]
    BY <1>1, <1>6
  <2>2. PICK m : m = l
    OBVIOUS
  <2>3. m = (IF alive'[k] = 0 THEN "alone" ELSE "attack") /\ kpc' = [kpc EXCEPT ![k] = m]
    BY <1>1, <2>2
  <2> HIDE DEF l
  <2>4. m \in {"alone", "attack"} /\ (m = "attack" => alive'[k] # 0)
    BY <2>3
  <2>5. m \in Stages /\ m # "unborn" /\ m \notin {"eof", "saw eof"} /\ (m \in Fighting => m = "attack")
    BY <2>4 DEF Stages, Fighting, Knights!Leaving
  <2>6. alive'[k] \in 0..FoeCount(k) /\ (m \in Fighting => alive'[k] >= 1)
    <3>1. PICK a \in 1..n : a = alive[k]
      BY <1>6
    <3>2. alive'[k] = a - 1 /\ a - 1 \in 0..n /\ (a - 1 # 0 => a - 1 >= 1)
      BY <2>1, <3>1
    <3> QED
      BY <1>4, <2>4, <2>5, <3>2
  <2>7. UNCHANGED <<draft, kforked, kparent>>
    BY <1>1
  <2> QED
    BY <1>2, <1>5, <2>1, <2>3, <2>5, <2>6, <2>7, CourseStep
<1> QED
  BY <1>3, <1>7, <1>8 DEF KnightsInv

LEMMA KnightsCloseAll == ASSUME KnightsInv, NEW k \in Army, Knights!CloseAll(k) PROVE KnightsInv'
<1>1. /\ kpc[k] \in {"falls", "eof", "alone"} /\ kpc' = [kpc EXCEPT ![k] = Knights!After[kpc[k]]]
      /\ UNCHANGED <<draft, kforked, kparent, hp, enemies, alive, kpipe, sent>>
  BY DEF Knights!CloseAll, Knights!Goto, Knights!Leaving
<1>2. PICK l : l = Knights!After[kpc[k]]
  OBVIOUS
<1>3. /\ l \in {"fell", "saw eof", "was alone"} /\ (l = "saw eof" => kpc[k] = "eof")
      /\ kpc' = [kpc EXCEPT ![k] = l]
  <2>1. Knights!After["falls"] = "fell" /\ Knights!After["eof"] = "saw eof" /\ Knights!After["alone"] = "was alone"
    BY DEF Knights!After
  <2>2. CASE kpc[k] = "falls"
    BY <1>1, <1>2, <2>1, <2>2
  <2>3. CASE kpc[k] = "eof"
    BY <1>1, <1>2, <2>1, <2>3
  <2>4. CASE kpc[k] = "alone"
    BY <1>1, <1>2, <2>1, <2>4
  <2> QED
    BY <1>1, <2>2, <2>3, <2>4
<1>4. /\ l \in Stages /\ l # "unborn" /\ l \notin Fighting
      /\ kpc[k] \notin Knights!Closed /\ kpc[k] # "unborn"
  BY <1>1, <1>3 DEF Stages, Fighting, Knights!Leaving, Knights!Closed
<1>5. l \in {"eof", "saw eof"} => \A e \in FoeSet(k) : kpc[e] \in Knights!Closed
  BY <1>3 DEF KnightsInv, KnightsCourse
<1> QED
  BY <1>1, <1>3, <1>4, <1>5, QuietMove

LEMMA DrawnIsListed ==
    ASSUME KnightsInv, NEW k \in Army, NEW i \in Knights!Drawn(k)
    PROVE  i \in 1..FoeCount(k)
<1>1. enemies[k] \in [1..FoeCount(k) -> FoeSet(k)] /\ FoeCount(k) \in Nat
  BY FoesOf DEF KnightsInv, KnightsLists, Lists
<1>2. Len(enemies[k]) = FoeCount(k)
  BY <1>1
<1> QED
  BY <1>2 DEF Knights!Drawn

LEMMA KnightsStep == ASSUME KnightsInv, Knights!Next PROVE KnightsInv'
<1>1. CASE Knights!Fork
  BY <1>1, KnightsFork
<1>2. CASE Knights!ParentClose
  BY <1>2, KnightsClose
<1>3. CASE UNCHANGED knights
  <2>1. UNCHANGED <<draft, kforked, kparent, kpc, hp, enemies, alive, kpipe, sent>>
    BY <1>3 DEF knights
  <2> QED
    BY ONLY KnightsInv, <2>1 DEF KnightsInv, KnightsHits, KnightsLists, KnightsCourse
<1>4. ASSUME NEW k \in Army, Knights!Fight(k) PROVE KnightsInv'
  <2>1. CASE Knights!TakeHit(k)
    BY <2>1, KnightsTakeHit
  <2>2. CASE Knights!NoHit(k)
    <3>1. /\ kpc[k] = "read" /\ kpc' = [kpc EXCEPT ![k] = "attack"]
          /\ UNCHANGED <<draft, kforked, kparent, hp, enemies, alive, kpipe, sent>>
      BY <2>2 DEF Knights!NoHit, Knights!Goto
    <3>2. "attack" \in Stages /\ kpc[k] \in Fighting /\ kpc[k] \notin Knights!Closed /\ kpc[k] # "unborn"
      BY <3>1 DEF Stages, Fighting, Knights!Closed
    <3> QED
      BY <3>1, <3>2, QuietMove
  <2>3. CASE Knights!SeeEnd(k)
    BY <2>3, KnightsSeeEnd
  <2>4. CASE Knights!CloseAll(k)
    BY <2>4, KnightsCloseAll
  <2>5. CASE Knights!CloseUnused(k)
    <3>1. /\ kpc[k] = "started" /\ kpc' = [kpc EXCEPT ![k] = "read"]
          /\ UNCHANGED <<draft, kforked, kparent, hp, enemies, alive, kpipe, sent>>
      BY <2>5 DEF Knights!CloseUnused, Knights!Goto
    <3>2. "read" \in Stages /\ kpc[k] \in Fighting /\ kpc[k] \notin Knights!Closed /\ kpc[k] # "unborn"
      BY <3>1 DEF Stages, Fighting, Knights!Closed
    <3> QED
      BY <3>1, <3>2, QuietMove
  <2>6. CASE Knights!Astray(k)
    BY <2>6, KnightsAstray
  <2>7. \A i \in Knights!Drawn(k) : i \in 1..FoeCount(k)
    BY DrawnIsListed
  <2>8. ASSUME NEW i \in Knights!Drawn(k), Knights!FindDead(k, i) PROVE KnightsInv'
    BY <2>7, <2>8, KnightsFindDead
  <2>9. ASSUME NEW i \in Knights!Drawn(k), NEW s \in Knights!Strengths(k), Knights!Strike(k, i, s)
        PROVE  KnightsInv'
    <3>1. s \in Int
      <4>1. Attack[k] \in Nat
        BY ArmyParameters
      <4>2. PICK n \in 0..Attack[k] - 1 : s = Knights!Char(n)
        BY DEF Knights!Strengths
      <4>3. n \in Int
        BY <4>1
      <4> QED
        BY <4>2, <4>3 DEF Knights!Char
    <3> QED
      BY <2>7, <2>9, <3>1, KnightsStrike
  <2> QED
    BY <1>4, <2>1, <2>2, <2>3, <2>4, <2>5, <2>6, <2>8, <2>9 DEF Knights!Fight
<1> QED
  BY <1>1, <1>2, <1>3, <1>4 DEF Knights!Next, Knights!Over, Knights!vars, knights, Army

LEMMA FoesAreMutual == ASSUME NEW k \in Army, NEW e \in FoeSet(k) PROVE k \in FoeSet(e) /\ e # k
<1> DEFINE F == Knights!ToSet(Franks)
           S == Knights!ToSet(Saracens)
<1>2. Army = F \cup S /\ \A d : FoeSet(d) = IF d \in F THEN S ELSE F
  BY DEF Army, Knights!Knights, FoeSet, Knights!Foes
<1>3. F \cap S = {}
  <2>1. /\ Franks \in Seq(Army) /\ Saracens \in Seq(Army) /\ Knights!IsInjective(Franks \o Saracens)
    BY ForksAssumption DEF ForksAssumption, Knights!ArmyAssumption, Knights!Roster, Army
  <2>2. PICK f, t : f = Franks /\ t = Saracens /\ f \in Seq(Army) /\ t \in Seq(Army) /\ Knights!IsInjective(f \o t)
    BY <2>1
  <2>3. \A i \in 1..Len(f), j \in 1..Len(t) : f[i] # t[j]
    <3> SUFFICES ASSUME NEW i \in 1..Len(f), NEW j \in 1..Len(t), f[i] = t[j] PROVE FALSE
      OBVIOUS
    <3>1. /\ i \in DOMAIN (f \o t) /\ Len(f) + j \in DOMAIN (f \o t) /\ i # Len(f) + j
          /\ (f \o t)[i] = f[i] /\ (f \o t)[Len(f) + j] = t[j]
      BY <2>2
    <3> QED
      BY <2>2, <3>1 DEF Knights!IsInjective
  <2>4. F = {f[i] : i \in 1..Len(f)} /\ S = {t[j] : j \in 1..Len(t)}
    BY <2>2 DEF Knights!ToSet
  <2> QED
    BY <2>3, <2>4
<1> QED
  BY <1>2, <1>3

\* A step of knight k: whoever saw the end is no enemy of k, and k writes to enemies only.
LEMMA EndKept ==
    ASSUME KnightsInv, KnightsEnd, NEW k \in Army, kpc[k] \notin Knights!Closed,
           NEW l, kpc' = [kpc EXCEPT ![k] = l],
           \A e \in Army : e # k /\ k \notin FoeSet(e) => kpipe'[e] = kpipe[e],
           l \in {"eof", "saw eof"} => kpipe'[k] = <<>>
    PROVE  KnightsEnd'
<1>1. kpc'[k] = l /\ \A e \in Army : e # k => kpc'[e] = kpc[e]
  BY DEF KnightsInv, KnightsCourse
<1>2. ASSUME NEW e \in Army, SawTheEnd(e) PROVE k \notin FoeSet(e)
  BY <1>2 DEF SawTheEnd, KnightsInv, KnightsCourse
<1>3. ASSUME NEW j \in Army, kpc'[j] \in {"eof", "saw eof"}
      PROVE  kpipe'[j] = <<>> /\ \A e \in FoeSet(j) : kpc'[e] # "saw eof"
  <2>1. CASE j = k
    <3> SUFFICES ASSUME NEW e \in FoeSet(k), kpc'[e] = "saw eof" PROVE FALSE
      BY <1>1, <1>3, <2>1
    <3>1. e \in Army /\ k \in FoeSet(e) /\ e # k
      BY FoesOf, FoesAreMutual
    <3> QED
      BY <1>1, <1>2, <3>1 DEF SawTheEnd
  <2>2. CASE j # k
    <3>1. SawTheEnd(j) /\ k \notin FoeSet(j)
      BY <1>1, <1>2, <1>3, <2>2 DEF SawTheEnd
    <3>2. \A e \in FoeSet(j) : e \in Army /\ e # k
      BY <3>1, FoesOf
    <3> QED
      BY <1>1, <2>2, <3>1, <3>2 DEF KnightsEnd
  <2> QED
    BY <2>1, <2>2
<1> QED
  BY <1>3 DEF KnightsEnd, SawTheEnd

LEMMA EndStep == ASSUME KnightsInv, KnightsEnd, Knights!Next PROVE KnightsEnd'
<1>1. CASE Knights!Fork
  <2> DEFINE c == Knights!Roster[kforked + 1]
  <2>1. /\ kparent = "fork" /\ kforked < Len(Knights!Roster) /\ kpc' = [kpc EXCEPT ![c] = "started"]
        /\ kpipe' = kpipe
    BY <1>1 DEF Knights!Fork, Knights!Goto
  <2>2. c \in Army /\ kpc[c] = "unborn"
    <3>1. /\ kforked \in 0..Len(Knights!Roster)
          /\ \A j \in 1..Len(Knights!Roster) : j > kforked => kpc[Knights!Roster[j]] = "unborn"
      BY <2>1 DEF KnightsInv, KnightsCourse
    <3>2. PICK n \in Nat : n = Len(Knights!Roster)
      BY ArmyParameters
    <3>3. PICK m \in Nat : m = kforked
      BY <3>1, <3>2
    <3>4. m + 1 \in 1..n /\ m + 1 > m
      BY <2>1, <3>2, <3>3
    <3> QED
      BY <3>1, <3>2, <3>3, <3>4, ArmyParameters
  <2> HIDE DEF c
  <2> QED
    BY <2>1, <2>2, EndKept DEF Knights!Closed
<1>2. CASE Knights!ParentClose \/ UNCHANGED knights
  <2>1. UNCHANGED <<kpc, kpipe>>
    BY <1>2 DEF Knights!ParentClose, knights
  <2> QED
    BY ONLY KnightsEnd, <2>1 DEF KnightsEnd, SawTheEnd
<1>3. ASSUME NEW k \in Army, Knights!Fight(k) PROVE KnightsEnd'
  <2>q. ASSUME NEW l, kpc[k] \notin Knights!Closed, l \notin {"eof", "saw eof"},
               kpc' = [kpc EXCEPT ![k] = l],
               \A e \in Army : e # k /\ k \notin FoeSet(e) => kpipe'[e] = kpipe[e]
        PROVE  KnightsEnd'
    BY <2>q, EndKept
  <2>1. CASE Knights!TakeHit(k)
    <3>1. kpc[k] = "read" /\ kpipe' = [kpipe EXCEPT ![k] = Tail(kpipe[k])]
          /\ \E l \in {"falls", "read"} : kpc' = [kpc EXCEPT ![k] = l]
      BY <2>1 DEF Knights!TakeHit, Knights!Goto
    <3>2. \A e \in Army : e # k => kpipe'[e] = kpipe[e]
      BY <3>1 DEF KnightsInv, KnightsHits
    <3> QED
      BY <2>q, <3>1, <3>2 DEF Knights!Closed
  <2>2. CASE Knights!NoHit(k) \/ Knights!CloseUnused(k)
    BY <2>q, <2>2 DEF Knights!NoHit, Knights!CloseUnused, Knights!Goto, Knights!Closed
  <2>3. CASE Knights!SeeEnd(k)
    BY <2>3, EndKept DEF Knights!SeeEnd, Knights!Goto, Knights!Closed
  <2>4. CASE Knights!CloseAll(k)
    <3>1. kpc[k] \in Knights!Leaving /\ kpc' = [kpc EXCEPT ![k] = Knights!After[kpc[k]]] /\ kpipe' = kpipe
      BY <2>4 DEF Knights!CloseAll, Knights!Goto
    <3>2. /\ Knights!After["falls"] = "fell" /\ Knights!After["eof"] = "saw eof"
          /\ Knights!After["alone"] = "was alone"
      BY DEF Knights!After
    <3>3. /\ Knights!After[kpc[k]] = "saw eof" => kpc[k] = "eof"
          /\ Knights!After[kpc[k]] # "eof" /\ kpc[k] \notin Knights!Closed
      BY <3>1, <3>2 DEF Knights!Leaving, Knights!Closed
    <3>4. kpc[k] = "eof" => kpipe[k] = <<>>
      BY DEF KnightsEnd, SawTheEnd
    <3>5. PICK l : l = Knights!After[kpc[k]]
      OBVIOUS
    <3> QED
      BY <3>1, <3>3, <3>4, <3>5, EndKept
  <2>5. CASE Knights!Astray(k)
    <3>1. CASE kpc' = [kpc EXCEPT ![k] = "read"]
      BY <2>q, <2>5, <3>1 DEF Knights!Astray, Knights!Closed
    <3>2. CASE kpc' = [e \in Army |-> "killed"]
      BY <3>2 DEF KnightsEnd, SawTheEnd
    <3> QED
      BY <2>5, <3>1, <3>2 DEF Knights!Astray, Knights!Goto, Army
  <2>6. ASSUME NEW i \in Knights!Drawn(k), Knights!FindDead(k, i) PROVE KnightsEnd'
    <3>1. kpc[k] = "attack" /\ kpipe' = kpipe /\ \E l \in {"alone", "attack"} : kpc' = [kpc EXCEPT ![k] = l]
      BY <2>6 DEF Knights!FindDead, Knights!Goto
    <3> QED
      BY <2>q, <3>1 DEF Knights!Closed
  <2>7. ASSUME NEW i \in Knights!Drawn(k), NEW s, Knights!Strike(k, i, s) PROVE KnightsEnd'
    <3>1. PICK g : g = enemies[k][i]
      OBVIOUS
    <3>2. kpc[k] = "attack" /\ kpc' = [kpc EXCEPT ![k] = "read"]
          /\ kpipe' = [kpipe EXCEPT ![g] = Append(kpipe[g], s)]
      BY <2>7, <3>1 DEF Knights!Strike, Knights!Goto
    <3>3. g \in FoeSet(k)
      BY <3>1, DrawnIsListed DEF KnightsInv, KnightsLists, Lists
    <3>4. g \in Army /\ k \in FoeSet(g)
      BY <3>3, FoesOf, FoesAreMutual
    <3>5. \A e \in Army : e # g => kpipe'[e] = kpipe[e]
      BY <3>2 DEF KnightsInv, KnightsHits
    <3>6. \A e \in Army : e # k /\ k \notin FoeSet(e) => kpipe'[e] = kpipe[e]
      BY <3>4, <3>5
    <3> QED
      BY <2>q, <3>2, <3>6 DEF Knights!Closed
  <2> QED
    BY <1>3, <2>1, <2>2, <2>3, <2>4, <2>5, <2>6, <2>7 DEF Knights!Fight
<1> QED
  BY <1>1, <1>2, <1>3 DEF Knights!Next, Knights!Over, Knights!vars, knights, Army

LEMMA KnightsMeaning ==
    KnightsInv /\ KnightsEnd => /\ Knights!TypeOK /\ Knights!HitsAccounted
                                /\ Knights!EndIsReal /\ Knights!EveryEnemyListed
<1> SUFFICES ASSUME KnightsInv, KnightsEnd
             PROVE  /\ Knights!TypeOK /\ Knights!HitsAccounted
                    /\ Knights!EndIsReal /\ Knights!EveryEnemyListed
  OBVIOUS
<1>1. KnightsHits /\ KnightsLists /\ KnightsCourse
  BY DEF KnightsInv
<1>2. Knights!HitsAccounted
  <2>1. \A k \in Army : Health[k] - hp[k] + SumFunction(kpipe[k]) = sent[k]
    BY <1>1 DEF KnightsHits
  <2> QED
    BY <2>1, KnightsOperators DEF Knights!HitsAccounted, Knights!Total, Army
<1>3. Knights!EndIsReal
  <2> SUFFICES ASSUME NEW k \in Army, kpc[k] \in {"eof", "saw eof"}
               PROVE  /\ kpipe[k] = <<>> /\ Health[k] - hp[k] = sent[k]
                      /\ \A e \in FoeSet(k) : kpc[e] \in Knights!Closed /\ kpc[e] \notin {"eof", "saw eof"}
    BY DEF Knights!EndIsReal, Knights!SawTheEnd, FoeSet, Army
  <2>1. kpipe[k] = <<>> /\ \A e \in FoeSet(k) : kpc[e] # "saw eof"
    BY DEF KnightsEnd, SawTheEnd
  <2>2. Health[k] - hp[k] = sent[k]
    <3>1. Health[k] - hp[k] + SumFunction(kpipe[k]) = sent[k]
      BY <1>1 DEF KnightsHits
    <3>2. hp[k] \in Int
      BY <1>1 DEF KnightsHits
    <3>3. Health[k] \in Nat
      BY ArmyParameters
    <3>4. SumFunction(kpipe[k]) = 0
      BY <2>1, SumEmptySeq
    <3> QED
      BY ONLY <3>1, <3>2, <3>3, <3>4
  <2>4. \A e \in FoeSet(k) : kpc[e] \in Knights!Closed
    BY <1>1 DEF KnightsCourse
  <2>5. "eof" \notin Knights!Closed
    BY DEF Knights!Closed
  <2> QED
    BY <2>1, <2>2, <2>4, <2>5
<1>4. ASSUME NEW k \in Army
      PROVE  /\ Knights!ToSet(enemies[k]) = FoeSet(k)
             /\ enemies[k] \in [DOMAIN Knights!Foes(k) -> FoeSet(k)]
  <2>1. /\ enemies[k] \in [1..FoeCount(k) -> FoeSet(k)] /\ DOMAIN Knights!Foes(k) = 1..FoeCount(k)
        /\ \A e \in FoeSet(k) : \E i \in 1..FoeCount(k) : enemies[k][i] = e
    BY <1>1, FoesOf DEF KnightsLists, Lists
  <2>2. Knights!ToSet(enemies[k]) = {enemies[k][i] : i \in 1..FoeCount(k)}
    BY <2>1 DEF Knights!ToSet
  <2> QED
    BY <2>1, <2>2
<1>5. Knights!EveryEnemyListed
  BY <1>4 DEF Knights!EveryEnemyListed, FoeSet, Army
<1>6. Knights!TypeOK
  <2>1. /\ draft \in BOOLEAN /\ kforked \in 0..Len(Knights!Roster) /\ kparent \in {"fork", "wait", "killed"}
        /\ kpc \in [Army -> {"unborn", "started", "read", "attack"} \cup Knights!Leaving \cup Knights!Closed]
    BY <1>1 DEF KnightsCourse, Stages, Fighting
  <2>2. hp \in [Army -> Int] /\ sent \in [Army -> Int]
    BY <1>1 DEF KnightsHits
  <2>3. \A k \in Army : alive[k] \in 0..FoeCount(k) /\ Len(kpipe[k]) <= MaxPending
    BY <1>1 DEF KnightsCourse, KnightsHits
  <2> QED
    BY <1>4, <2>1, <2>2, <2>3 DEF Knights!TypeOK, Army, FoeSet, FoeCount
<1> QED
  BY <1>2, <1>3, <1>5, <1>6

-----------------------------------------------------------------------------
(* The suite: the program that runs keeps its invariant.                   *)
ForksInv ==
    /\ prog = "ship" => ShipInv
    /\ prog = "line" => LineInv
    /\ prog = "line draft" => DraftInv
    /\ prog = "farm" => FarmInv
    /\ prog = "knights" => KnightsInv /\ KnightsEnd
    /\ prog = "shop" => ShopInv
    /\ prog = "letters" => LettersInv
    /\ prog = "samples" => SamplesInv

LEMMA ForksInit == Init => ForksInv
BY ShipInit, LineInit, FarmInit, KnightsInit, ShopInit, LettersInit, SamplesInit DEF ForksInv

LEMMA ForksStutter == ASSUME ForksInv, UNCHANGED vars PROVE ForksInv'
<1>1. UNCHANGED <<prog, ship, line, farm, knights, shop, letters, samples>>
  BY DEF vars
<1>2. ASSUME ShipInv PROVE ShipInv'
  BY <1>1, <1>2 DEF ship, ShipInv, ShipTypes, CardsApart, CardsThere, CardsCounted, Fill, Receivers
<1>3. ASSUME LineInv PROVE LineInv'
  BY <1>1, <1>3 DEF line, LineInv, LineShape, Causes, Stale, Spoilt, Gone
<1>4. ASSUME DraftInv PROVE DraftInv'
  BY <1>1, <1>4 DEF line, DraftInv, LineShape, Gone
<1>5. ASSUME FarmInv PROVE FarmInv'
  BY <1>1, <1>5 DEF farm, FarmInv, Farm!TypeOK
<1>6. ASSUME KnightsInv, KnightsEnd PROVE KnightsInv' /\ KnightsEnd'
  <2>1. KnightsInv'
    BY <1>1, <1>6 DEF knights, KnightsInv, KnightsHits, KnightsLists, KnightsCourse
  <2>2. KnightsEnd'
    BY <1>1, <1>6 DEF knights, KnightsEnd, SawTheEnd
  <2> QED
    BY <2>1, <2>2
<1>7. ASSUME ShopInv PROVE ShopInv'
  <2>1. UNCHANGED <<full, ShopArray, mutex, wpc, pair, seen, turns, touched>>
    BY <1>1 DEF shop
  <2>2. Shop!TypeOK'
    BY ONLY <1>7, <2>1 DEF ShopInv, Shop!TypeOK
  <2>3. ShelvesHeld' /\ Exchanging'
    BY ONLY <1>7, <2>1 DEF ShopInv, ShelvesHeld, Exchanging
  <2>4. Shop!NothingLost'
    BY ONLY <1>7, <2>1 DEF ShopInv, Shop!NothingLost
  <2>5. \A w \in Team \ touched' : Fresh(w)'
    BY ONLY <1>7, <2>1 DEF ShopInv, Fresh
  <2> QED
    BY <2>2, <2>3, <2>4, <2>5 DEF ShopInv
<1>8. ASSUME LettersInv PROVE LettersInv'
  BY <1>1, <1>8 DEF letters, LettersInv, Letters!TypeOK
<1>9. ASSUME SamplesInv PROVE SamplesInv'
  BY <1>1, <1>9 DEF samples, SamplesInv, Samples!TypeOK
<1> QED
  BY <1>1, <1>2, <1>3, <1>4, <1>5, <1>6, <1>7, <1>8, <1>9 DEF ForksInv

LEMMA ForksStep == ForksInv /\ [Next]_vars => ForksInv'
<1> SUFFICES ASSUME ForksInv, [Next]_vars PROVE ForksInv'
  OBVIOUS
<1>1. CASE prog = "ship" /\ Ship!Next /\ prog' = prog
  BY <1>1, ShipStep DEF ForksInv
<1>2. CASE prog = "line" /\ Line!Next /\ prog' = prog
  BY <1>2, LineStep DEF ForksInv
<1>3. CASE prog = "line draft" /\ Line!DraftNext /\ prog' = prog
  BY <1>3, DraftStep DEF ForksInv
<1>4. CASE prog = "farm" /\ Farm!Next /\ prog' = prog
  BY <1>4, FarmStep DEF ForksInv
<1>5. CASE prog = "knights" /\ Knights!Next /\ prog' = prog
  BY <1>5, KnightsStep, EndStep DEF ForksInv
<1>6. CASE prog = "shop" /\ Shop!Next /\ prog' = prog
  BY <1>6, ShopStep DEF ForksInv
<1>7. CASE prog = "letters" /\ Letters!Next /\ prog' = prog
  BY <1>7, LettersStep DEF ForksInv
<1>8. CASE prog = "samples" /\ Samples!Next /\ prog' = prog
  BY <1>8, SamplesStep DEF ForksInv
<1>9. CASE UNCHANGED vars
  BY <1>9, ForksStutter
<1> QED
  BY <1>1, <1>2, <1>3, <1>4, <1>5, <1>6, <1>7, <1>8, <1>9 DEF Next

LEMMA ForksAlways == Spec => []ForksInv
BY ForksInit, ForksStep, PTL DEF Spec

\* The variables of the program that runs have their types: no pipe ever holds more than
\* its capacity, and no list or counter of the knights points beyond the enemies there are.
THEOREM TypesHold == Spec => []TypeOK
<1>1. ForksInv => TypeOK
  <2> SUFFICES ASSUME ForksInv PROVE TypeOK
    OBVIOUS
  <2>1. prog \in {"line", "line draft"} => Line!TypeOK
    BY LineMeaning, DraftMeaning DEF ForksInv
  <2> QED
    BY <2>1, ShipMeaning, FarmMeaning, KnightsMeaning, ShopMeaning, LettersMeaning, SamplesMeaning
       DEF ForksInv, TypeOK
<1> QED
  BY <1>1, ForksAlways, PTL

\* L1/ShipGame, L1/PolishTask and the retake of the night shift: however the processes
\* take turns, every card is in one hand or one pipe, every hit written waits in a pipe or
\* was taken off the HP once, and every product stays on the shelves.
THEOREM NothingIsLost == Spec => []NothingLost
<1>1. ForksInv => NothingLost
  BY ShipMeaning, KnightsMeaning, ShopMeaning DEF ForksInv, NothingLost
<1> QED
  BY <1>1, ForksAlways, PTL

\* L1/ShipGame/ships.c: for every number of players and every capacity of a pipe the ring
\* of blocking reads and writes never closes, as the pipes hold as many cards as players
\* are waiting for one.
THEOREM RingNeverCloses == Spec => []RingMoves
<1>1. ForksInv => RingMoves
  BY ShipMeaning DEF ForksInv, RingMoves
<1> QED
  BY <1>1, ForksAlways, PTL

\* RetakePrep/Brigades-L1 and L1/PolishTask, for brigades and armies of every size.  No
\* worker stops on its own: at the other end of its pipe a whole brigade is gone, and the
\* first to go were killed.  An end of file is seen by one army only, by knights that have
\* taken every hit and whose enemies have all left, whatever half-started children hold.
THEOREM EndOfFileIsReal == Spec => []EndIsReal
<1>1. ForksInv => EndIsReal
  BY LineMeaning, KnightsMeaning DEF ForksInv, EndIsReal
<1> QED
  BY <1>1, ForksAlways, PTL

\* L1/PolishTask/main.c and L1/polishtask.c: for armies of every size the list of enemies,
\* reordered whenever a dead one is met, keeps every enemy.
THEOREM EnemiesStayListed == Spec => []EveryEnemyListed
<1>1. ForksInv => EveryEnemyListed
  BY KnightsMeaning DEF ForksInv, EveryEnemyListed
<1> QED
  BY <1>1, ForksAlways, PTL

\* RetakePrep/MonteCarlo-mix, L1/CardGame, L3/Exercise1 and L3/montecarlhoe.c: main uses a
\* child's result only when it is whole, for every number of children.  In L3/Exercise1 this
\* holds of a main whose wait was not cut short by a SIGCHLD (EINTR).
THEOREM MainReadsWhole == Spec => []ResultsComplete
<1>1. ForksInv => ResultsComplete
  BY FarmMeaning, LettersMeaning, SamplesMeaning DEF ForksInv, ResultsComplete
<1> QED
  BY <1>1, ForksAlways, PTL

\* The retake of the night shift: with any number of shelves and workers, products move
\* only by whole exchanges of the pair one worker has locked, and a worker that makes the
\* order worse acts on a comparison that somebody has made stale since.
THEOREM StaleBeforeWorse == Spec => WorseOnlyIfStale
<1>1. ForksInv /\ ForksInv' /\ [Next]_vars => [prog = "shop" => Shop!WorseOnlyIfStale]_vars
  <2> SUFFICES ASSUME ForksInv, ForksInv', Next, prog = "shop" PROVE Shop!WorseOnlyIfStale
    OBVIOUS
  <2>1. Shop!Next /\ ShopInv /\ ShopInv'
    BY DEF Next, ForksInv
  <2> QED
    BY <2>1, ShopExchanges
<1> QED
  BY <1>1, ForksAlways, PTL DEF Spec, WorseOnlyIfStale

\* The shelves of the retake as the abstract night shift sees them, and that no worker
\* exchanges a pair that somebody changed after it had looked.
Night == INSTANCE Shelves WITH N <- Shelf, shelf <- [i \in 0..Shelf - 1 |-> Shop!Settled[i + 1]], tears <- 0
NoneStale == prog = "shop" /\ \A w \in Team : wpc[w] = "storeA" => w \notin touched

\* The retake of the night shift does what the night shift does, as long as no comparison
\* is stale when it is acted on: Shelves allows every step, and no exchange is torn.
THEOREM FreshImplements == Spec /\ []NoneStale => Night!Spec
<1>1. Init /\ NoneStale => Night!Init
  <2> SUFFICES ASSUME Init PROVE Night!Init
    OBVIOUS
  <2>1. ShopArray \in Shop!Bijection(Shop!Shelves, Shop!Shelves) /\ \A w \in Team : wpc[w] = "pick"
    BY DEF Init, Shop!Init
  <2>2. /\ ShopArray \in [Shop!Shelves -> Shop!Shelves]
        /\ \A s, t \in Shop!Shelves : ShopArray[s] = ShopArray[t] => s = t
    BY <2>1 DEF Shop!Bijection, Shop!Injection, Shop!IsInjective
  <2>3. \A s \in Shop!Shelves : Shop!Settled[s] = ShopArray[s]
    BY <2>1, ShopInit, SettledShows DEF Shows, Filling
  <2>4. \A i \in 0..Shelf - 1 : i + 1 \in Shop!Shelves
    BY ShopParameters DEF Shop!Shelves
  <2> DEFINE shown == [i \in 0..Shelf - 1 |-> Shop!Settled[i + 1]]
  <2>5. shown \in [0..Shelf - 1 -> 1..Shelf]
    BY <2>2, <2>3, <2>4 DEF Shop!Shelves
  <2>6. ASSUME NEW i \in 0..Shelf - 1, NEW j \in 0..Shelf - 1, shown[i] = shown[j] PROVE i = j
    <3>1. i + 1 = j + 1
      BY <2>2, <2>3, <2>4, <2>6
    <3> QED
      BY <3>1
  <2> QED
    BY <2>5, <2>6 DEF Night!Init, Night!Arrangements, Night!Places, Night!Products
<1>2. ForksInv /\ ForksInv' /\ [Next]_vars /\ NoneStale => [Night!Next]_(Night!vars)
  <2> SUFFICES ASSUME ForksInv, ForksInv', [Next]_vars, NoneStale PROVE [Night!Next]_(Night!vars)
    OBVIOUS
  <2>1. CASE UNCHANGED vars
    <3>1. UNCHANGED Shop!Settled
      BY <2>1, SettledKept DEF vars, shop
    <3> QED
      BY <3>1 DEF Night!vars
  <2>2. CASE Next
    <3>1. Shop!Next /\ ShopInv /\ ShopInv'
      BY <2>2 DEF Next, ForksInv, NoneStale
    <3>2. CASE UNCHANGED Shop!Settled
      BY <3>2 DEF Night!vars
    <3>3. ASSUME NEW w \in Team, Shop!StoreA(w) PROVE Night!Next
      <4> DEFINE a == pair[w][1]
                 b == pair[w][2]
      <4>1. /\ Shop!Settled' = [Shop!Settled EXCEPT ![a] = Shop!Settled[b], ![b] = Shop!Settled[a]]
            /\ w \in touched \/ Shop!Settled[a] > Shop!Settled[b]
        BY <3>1, <3>3, StoreAShows
      <4>2. w \notin touched
        BY <3>3 DEF NoneStale, Shop!StoreA
      <4>3. a \in 1..Shelf /\ b \in 1..Shelf /\ a < b /\ Shelf \in Nat
        BY <3>1, ShopParameters DEF ShopInv, Shop!TypeOK, Shop!Pairs, Shop!Shelves
      <4>4. Shop!Settled = [s \in 1..Shelf |-> Shop!Settled[s]]
        BY DEF Shop!Settled, Shop!Shelves
      <4>5. PICK i \in 0..Shelf - 1, j \in 0..Shelf - 1 : i < j /\ i + 1 = a /\ j + 1 = b
        <5>1. a - 1 \in 0..Shelf - 1 /\ b - 1 \in 0..Shelf - 1 /\ a - 1 < b - 1 /\ a - 1 + 1 = a /\ b - 1 + 1 = b
          BY <4>3
        <5> QED
          BY <5>1
      <4> DEFINE shown == [k \in 0..Shelf - 1 |-> Shop!Settled[k + 1]]
      <4>6. shown[i] = Shop!Settled[a] /\ shown[j] = Shop!Settled[b]
        BY <4>5
      <4>7. ASSUME NEW k \in 0..Shelf - 1
            PROVE  Shop!Settled'[k + 1] = IF k = j THEN shown[i] ELSE IF k = i THEN shown[j] ELSE shown[k]
        <5>1. k + 1 \in 1..Shelf /\ (k + 1 = a <=> k = i) /\ (k + 1 = b <=> k = j)
          BY <4>3, <4>5
        <5>2. Shop!Settled'[k + 1] = IF k + 1 = b THEN Shop!Settled[a] ELSE IF k + 1 = a THEN Shop!Settled[b]
                                     ELSE Shop!Settled[k + 1]
          BY <4>1, <4>3, <4>4, <5>1
        <5>3. shown[k] = Shop!Settled[k + 1]
          OBVIOUS
        <5> HIDE DEF shown
        <5> QED
          BY ONLY <4>6, <5>1, <5>2, <5>3
      <4>8. shown' = [k \in 0..Shelf - 1 |-> Shop!Settled'[k + 1]]
        OBVIOUS
      <4>9. shown' = [shown EXCEPT ![i] = shown[j], ![j] = shown[i]]
        BY <4>7, <4>8
      <4>10. <<i, j>> \in Night!Pairs
        BY <4>5 DEF Night!Pairs, Night!Places
      <4>11. shown[i] > shown[j]
        BY <4>1, <4>2, <4>6
      <4> QED
        BY <4>9, <4>10, <4>11 DEF Night!Next, Night!Tidy
    <3> QED
      BY <3>1, <3>2, <3>3, ShopShows
  <2> QED
    BY <2>1, <2>2
<1> QED
  BY <1>1, <1>2, ForksAlways, PTL DEF Spec, Night!Spec
=============================================================================
