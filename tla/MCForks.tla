------------------------------- MODULE MCForks -------------------------------
(***************************************************************************)
(* The programs whose main forks a family of processes and waits for them: *)
(* the rings, lines and bundles of pipes of L1, and three of L3 over       *)
(* shared memory.  One of them runs at a time: the variables of the others *)
(* keep their initial values.                                              *)
(***************************************************************************)
EXTENDS Integers, FiniteSets, TLC

CONSTANTS Programs,                                 \* those to be run
          N, M, Suits,                              \* ring
          Capacity, W1, W2, W3, MaxCopies, Batch, MaxKills,     \* lines, farm
          Franks, Saracens, Health, Attack, MaxPending,         \* knights
          roland, oliver, marsile,                  \* their names
          Shelf, Team, NoOne, TURNS,                \* retake of the night shift
          Kids, Samplers, MaxFails                  \* letters, samples

VARIABLES prog,
          forked, hand, pc, pipe, shared, over,
          bforked, parent, st, first, second, buf, copies, total, killed,
          at, fst, fpipe, sum, fkills,
          draft, kforked, kparent, kpc, hp, enemies, alive, kpipe, sent,
          full, ShopArray, mutex, wpc, pair, seen, turns, touched,
          resigns, born, kid, slots, ppc, sigchld, inHandler, cut,
          hoe, toFork, task, data, boss, fails, murdered

ship    == <<forked, hand, pc, pipe, shared, over>>
line    == <<bforked, parent, st, first, second, buf, copies, total, killed>>
farm    == <<at, fst, fpipe, sum, fkills>>
knights == <<draft, kforked, kparent, kpc, hp, enemies, alive, kpipe, sent>>
shop    == <<full, ShopArray, mutex, wpc, pair, seen, turns, touched>>
letters == <<resigns, born, kid, slots, ppc, sigchld, inHandler, cut>>
samples == <<hoe, toFork, task, data, boss, fails, murdered>>
vars    == <<prog, ship, line, farm, knights, shop, letters, samples>>

Ship    == INSTANCE ShipGame
Line    == INSTANCE BrigadesDraft WITH forked <- bforked
Farm    == INSTANCE ForkAndRead WITH st <- fst, pipe <- fpipe, kills <- fkills
Knights == INSTANCE Roncevaux WITH forked <- kforked, parent <- kparent, pc <- kpc, pipe <- kpipe
Shop    == INSTANCE ShopRetake
Letters == INSTANCE RepeatingLetters
Samples == INSTANCE SharedSlots

\* Two armies in which every hit counts.
MCFranks   == <<roland, oliver>>
MCSaracens == <<marsile>>
MCHealth   == (roland :> 1) @@ (oliver :> 1) @@ (marsile :> 2)
MCAttack   == [k \in {roland, oliver, marsile} |-> 2]

ASSUME ForksAssumption ==
    /\ Ship!RingAssumption /\ Ship!DeckAssumption
    /\ Line!BrigadeAssumption /\ Line!PipeAssumption /\ Line!RoomAssumption /\ Farm!ForkAssumption
    /\ Knights!ArmyAssumption /\ Knights!StatAssumption
    /\ Shop!ShopAssumption /\ Letters!LettersAssumption /\ Samples!SlotsAssumption

\* Where another program runs, one initial state of each is enough.
Init ==
    /\ prog \in Programs
    /\ Ship!Init /\ Line!Init /\ Farm!Init /\ Knights!Init /\ Shop!Init /\ Letters!Init /\ Samples!Init
    /\ prog # "ship" => \A i \in Ship!Players : hand[i] = (M * i + 1)..(M * i + M)
    /\ prog # "knights" => ~draft
    /\ prog # "shop" => ~full /\ \A s \in 1..Shelf : ShopArray[s] = s
    /\ prog # "letters" => ~resigns
    /\ prog # "samples" => hoe

Next ==
    \/ prog = "ship" /\ Ship!Next /\ UNCHANGED <<prog, line, farm, knights, shop, letters, samples>>
    \/ prog = "line" /\ Line!Next /\ UNCHANGED <<prog, ship, farm, knights, shop, letters, samples>>
    \/ prog = "line draft" /\ Line!DraftNext
          /\ UNCHANGED <<prog, ship, farm, knights, shop, letters, samples>>
    \/ prog = "farm" /\ Farm!Next /\ UNCHANGED <<prog, ship, line, knights, shop, letters, samples>>
    \/ prog = "knights" /\ Knights!Next /\ UNCHANGED <<prog, ship, line, farm, shop, letters, samples>>
    \/ prog = "shop" /\ Shop!Next /\ UNCHANGED <<prog, ship, line, farm, knights, letters, samples>>
    \/ prog = "letters" /\ Letters!Next /\ UNCHANGED <<prog, ship, line, farm, knights, shop, samples>>
    \/ prog = "samples" /\ Samples!Next /\ UNCHANGED <<prog, ship, line, farm, knights, shop, letters>>

Fairness ==
    \/ prog = "ship"
    \/ prog = "line" /\ Line!Fairness
    \/ prog = "line draft" /\ Line!DraftFairness
    \/ prog = "farm" /\ Farm!Fairness
    \/ prog = "knights" /\ Knights!Fairness
    \/ prog = "shop" /\ Shop!Fairness
    \/ prog = "letters" /\ Letters!Fairness
    \/ prog = "samples" /\ Samples!Fairness

Spec == Init /\ [][Next]_vars /\ Fairness

-----------------------------------------------------------------------------
\* The types of the variables of the program that runs.
TypeOK ==
    /\ prog = "ship" => Ship!TypeOK
    /\ prog \in {"line", "line draft"} => Line!TypeOK
    /\ prog = "farm" => Farm!TypeOK
    /\ prog = "knights" => Knights!TypeOK
    /\ prog = "shop" => Shop!TypeOK
    /\ prog = "letters" => Letters!TypeOK
    /\ prog = "samples" => Samples!TypeOK

\* ShipGame, Roncevaux, ShopRetake: no card, hit or product is lost or copied on its
\* way from one process to another.
NothingLost ==
    /\ prog = "ship" => Ship!CardsOnce
    /\ prog = "knights" => Knights!HitsAccounted
    /\ prog = "shop" => Shop!NothingLost

\* ShipGame: the ring of blocking reads and writes never closes.
RingMoves == prog = "ship" => Ship!RingMoves

\* Brigades, Roncevaux: whoever leaves because of a pipe has a reason to.
EndIsReal ==
    /\ prog = "line" => Line!StopsHaveACause
    /\ prog = "knights" => Knights!EndIsReal

\* Roncevaux: however often the list is reordered it keeps every enemy once.
EveryEnemyListed == prog = "knights" => Knights!EveryEnemyListed

\* ForkAndRead, RepeatingLetters, SharedSlots: main uses what children wrote only
\* when all of it is there, but for the wait of RepeatingLetters that a signal cuts short.
ResultsComplete ==
    /\ prog = "farm" => Farm!OneByOne
    /\ prog = "letters" => Letters!PrintsComplete
    /\ prog = "samples" => Samples!AverageWhole

\* ShopRetake: products move only by whole exchanges, and the order gets worse only by
\* acting on a stale comparison.
WorseOnlyIfStale == [][prog = "shop" => Shop!WorseOnlyIfStale]_vars

\* What each program reaches under its fairness, and for good.
AllEnd == <>[](CASE prog = "line" -> Line!UpstreamStopped
                 [] prog = "line draft" -> Line!FirstTwoEnded
                 [] prog = "farm" -> Farm!EndedOrBlocked
                 [] prog = "knights" -> Knights!BattleEnded
                 [] prog = "shop" -> Shop!ShiftEnded
                 [] prog = "letters" -> Letters!Printed
                 [] prog = "samples" -> Samples!SamplingEnded
                 [] prog = "ship" -> TRUE)

\* Roncevaux against task.md: a knight leaves when all its enemies are dead.
LeavesOnlyWhenAlone == Knights!LeavesOnlyWhenAlone
=============================================================================
