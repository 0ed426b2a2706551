# Verification of ops2-labs

The repository is a set of POSIX C programs, one or two source files each, that exercise
processes, pipes, signals, message queues, shared memory and sockets. Every program is a small
concurrent system of its own; they share no code except copied helpers (`mutex_lock_handler`,
`init_mutex`, `ERR`, the socket helpers of `L4/*/common.h`). `ERR` is part of every protocol:
in L1-L3 it is `kill(0, SIGKILL)`, so one failing call of one process ends the whole group.

## Inventory

Each entry: state; operations; interaction; hard behaviour; what makes it correct.

| component | sources | state | operations and interaction | what is hard |
|---|---|---|---|---|
| Night shift (Bitronka) | `L3/PolishLab/sop-shop.c`, task `l7en.md` | shared `shopArray`, one robust process-shared mutex per shelf, `run` flag under `managerMutex` | M workers pick two shelves, lock both in index order, swap if out of order; manager polls `isSorted` with no lock and clears `run` | ordered locking, owner death inside a two-store swap, the manager's scan racing the swaps |
| Night shift, retake | `RetakePrep/Bitronka-L3/sop-shop.c` | the shelves and mutexes, no manager | 10 turns per worker; compares *before* it locks | stale comparison when the locks are got; with 256 products one mutex lies behind the array |
| Board game | `L3/serverexe.c`, `L3/clientexe.c` | shm board, unnamed semaphore inside it | server prints the board under the semaphore, clients search cells; signal thread stops the server | every client re-runs `sem_init` on the live semaphore; a client may `exit` holding it |
| Integral | `L3/Exercise2/integral.c` | named semaphore, shm with counter, totals and a robust mutex | processes join, add batches, the last one unlinks | `sem_post` before the first process initialises the memory; open-then-count against last-one-cleans-up |
| Roncevaux with pipes | `L1/PolishTask/main.c`, task `task.md`; the first draft in `L1/polishtask.c` | one pipe per knight, per-process HP, enemy list, `AliveKnightsCount` | non-blocking read of hits, random write to an enemy, EPIPE means dead | the index is drawn over all enemies, dead ones included; in the draft it may be one too far |
| Ship game | `L1/ShipGame/ships.c` | ring of pipes, hand of M cards per player, shared pipe to the parent | discard one, receive one, report a win; parent kills the group | ring of blocking reads, card conservation, who wins |
| Card game | `L1/CardGame/main.c`, `L1/cardgame.c`, `L1/cardgame copy.c` | pipes to the server | one card per player | parent reads right after each fork |
| Brigades | `RetakePrep/Brigades-L1/sop-factory.c`, `L1/sop-eng.c` | two shared pipes between three brigades | produce, duplicate, collect | end of file through inherited descriptors |
| Monte Carlo by pipes | `RetakePrep/MonteCarlo-mix/montecarlo.c` | one pipe per worker | fork, then blocking read in the same loop | the parent holds the write end it waits on |
| Store queue | `L2/sop2-6/sop-queue.c`, task `Task.md` | POSIX queue of 4 messages with priorities, notification registration | clients `mq_timedsend`, checkout drains in a loop and in a signal handler | re-registration before draining, a pending signal after `mq_close`, timeout |
| Bingo | `L2/bingo.c`, `L2/tmp_bingo.c` | queues `pin`, `pout` of 10, notification | parent sends n numbers, n children answer | registration after fork, full non-blocking queue, EINTR in `wait` |
| Disc sampler | `L2/Graded/ops-queue.c` | two queues of `MAX_MSG_COUNT`, notification | parent sends points, children test them, handler counts | `mq_setattr` clears O_NONBLOCK, so the handler's drain loop blocks |
| Task queue | `L2/exercise2.c` | one queue of 10 tasks | parent sends 5n tasks, n workers take 5 each | SIGINT stops the producer, workers keep waiting |
| Chat by queues | `L2/Exercise4/server.c`, `client.c` | server queue of 10, `currentcli` of main, `clients` of the handler, notification | connect, text and exit with priorities 0, 2 and 1 | higher priorities overtake; main stops reading when it is full; the handler registers for a signal that kills |
| Calculator | `L2/sop-server.c`, `sop-client.c` | four named queues | the server answers one request, the client unlinks the names | opens and unlinks of several runs interleave, `x / 0` |
| Dog race | `L3/DogRace/sop-race.c`, `RetakePrep/DogRace-L3/sop-race.c` | shared track, barrier, one mutex per dog, `returnFlags` | move, bounce at the end of the track | a dog's own mutex protects the common track; a branch that keeps its mutex |
| Cards in shm | `L3/Exercise4/cards.c` | semaphore, shm | set-up, children open a semaphore | pointer in shared memory |
| Repeating letters | `L3/Exercise1/repeating_letters.c` | slot per child in shared memory, SIGCHLD handler | count letters or resign, print | handler and main both reap, the handler blocks, and a signal can cut main's wait short |
| Monte Carlo by shm | `L3/montecarlhoe.c`, `L3/tmp_monte.c` | slot per child | fork, sample, reap all, average | failing forks, killed children |
| Railway network | `RetakePrep/Trains-L3/railway.c`, `sop-railway.c`, `railway.h` | neighbour rows, lengths, destroyed flags in a memory that outlives the program | load a file, add a connection, find a shortest way; a library: `main` only initialises and destroys the network and calls neither the load nor the search | what an earlier load left, rows, indices and the search's queue that run over, relaxation without a second visit |
| Messengers | `L4/Messengers/server.c`, `client.c`, `common.h` | epoll set, `ClientList`, `active_connections`, city ownership on both sides | connect, change owner, broadcast, disconnect | the count is passed by value, removed entries stay, full server |
| Electors | `L4/EXERCISE2/sop-hre.c` | epoll set, array of electors with districts | district inside accept, votes, disconnect | the same by-value count, a blocking read in accept, a descriptor closed twice |
| Enalia | `L4/Consultations/sop-enalia.c` | epoll set, count | greet, print, close | the count never goes down, who is turned away stays open |
| Wizards | `L4/EXERCISE3/wizards.c` | epoll set, one connection, bytes of the ritual | serve one client, then end | the end is noticed after a whole batch of events |
| Drafts and exercises | other files of `L1`-`L4`, `OS1_review`, `L3/notes` | - | see "Left out for good" | - |

Every component and its status is also in `PROJECT.json`.

## How the project is laid out

* One module per program. State that belongs to the code has the code's names (`shelf`/`shopArray`,
  `AliveKnightsCount`/`alive`, `tasks_done`); a `pc` per process or thread names the next call. One
  action is one system call or one access to memory another process can touch; what a process does
  on its own between two of them is folded into the action before.
* `Shelves` is the abstract specification of the night shift; `NightShift` refines it, and so does `ShopRetake`
  in runs without a stale comparison.
* `MessageQueue` holds what four of the queue programs share: a POSIX queue reduced to the number of
  its messages, its registration and the notification on its way. It stands for the kernel and is
  external.
* `Wire` holds what three of the socket servers share: clients, connections and descriptors.
  `BrigadesDraft` extends `Brigades` with the actions in which an earlier version differs.
* Most programs are checked in suites: `MCForks` (families of processes), `MCShared` (shared memory),
  `MCSockets` and `MCQueues` instantiate several modules, `prog` picks the program of a behaviour, and
  the variables of the others stay put. A property of a suite is the conjunction of what the programs
  call by that idea. The night shift, the board game and the railway have an MC module of their own.
* Proofs are in modules of their own: `NightShiftProofs`, `BoardGameProofs`, `RailwayProofs`, one per
  suite (`ForksProofs`, `SharedProofs`, `SocketsProofs`, `QueuesProofs`), and `SumTheorems` for sums.
* A definition under the comment "fault:" is what the definition after it would be with a likely
  bug; no action uses it. Each property is tried against one of them.

## The modules

| module | models | actions and the code behind them |
|---|---|---|
| `NightShift` | `L3/PolishLab/sop-shop.c` | `Pick`, `LockFirst`, `LockSecond`, `Compare`, `StoreSecond`, `UnlockFirst`, `UnlockSecond` are one round of `worker_thread` with SWAP taken apart into its two stores; `ScanLoad`, `ScanCompare`, `CloseShift` are `manager_work` with one load of `isSorted` per step; `Die` kills a worker anywhere; `Finish` is the `wait` loop of main. `CanLock` is `mutex_lock_handler`: EOWNERDEAD hands a dead owner's mutex on |
| `Shelves` | what the night shift promises | `Tidy` exchanges a pair in the wrong order, `Tear` is an exchange that reached only its first shelf |
| `BoardGame` | `L3/serverexe.c`, `L3/clientexe.c` | `Create` .. `Fill` set the board up, `MainWait`, `Check`, `PrintBoard`, `Shutdown` are main, `Interrupt`, `SigWait`, `SigStop`, `SigPost` the signal thread, `Open`, `JoinInit`, `ReadSize`, `Enter`, `Search`, `Clear`, `Leave` a client |
| `ShopRetake` | `RetakePrep/Bitronka-L3/sop-shop.c` | `Look` and `Compare` are the two loads before the locks, `Lock`, `LoadA`, `StoreA`, `StoreB`, `Unlock` the exchange, `SleepForEver` the mutex behind the array; `touched` remembers whose pair changed since it looked |
| `DogRace` | `L3/DogRace/sop-race.c` | `Start`, `Forward`, `Look`, `Bounce`, `Land`, `Mark`, `Clear` are one move with every load and store of the track by itself; a dog that bounces keeps its mutex. `returnFlags[d]` is written just before it is read, so the branch for 0 is unreachable and left out |
| `DogRaceRetake` | `RetakePrep/DogRace-L3/sop-race.c` | `Zero`, `Lock`, `SleepForEver`, `Move`, `Unlock`; a cell is marked only if it is marked already |
| `Integral` | `L3/Exercise2/integral.c` | opening of the two names call by call, `Ftruncate`, `Memset`, `InitMutex`, `InitCounter`, `TouchUnsized` (SIGBUS in a memory without bytes), the three locked read-modify-writes, `ShmUnlink`, `SemUnlink`; names and the objects behind them are separate, so a process can keep working in an unlinked memory |
| `Roncevaux` | `L1/PolishTask/main.c`; with `draft`, the first version in `L1/polishtask.c` | `Fork`, `ParentClose`, `CloseUnused`; `TakeHit`/`NoHit`/`SeeEnd` are the three results of the non-blocking read, `Strike`/`FindDead` the two of the write; `CloseAll` the end of a knight |
| `RepeatingLetters` | `L3/Exercise1/repeating_letters.c` | `Fork`, `ExitEarly`, `Exit`, `EnterHandler`, `ReapInHandler`, `Wait`, `PrintSlots`. `Wait` is taken apart into its look for a zombie and its sleep, because SIGCHLD between them makes it fail (`cut`). `rand` is seeded before the forks, so all children resign or none |
| `SharedSlots` | `L3/montecarlhoe.c`, `L3/tmp_monte.c` | `Fork`, `ForkFails` (one version kills the group, the other leaves), `Sample`, `Exit`, `Kill`, `Reap`, `Average` |
| `Wire` | netcat-like clients, TCP, the descriptors of a server | `Connect`, `Send`, `Close`; `AcceptAs`, `WriteTo`, `CloseFd` are pieces of the servers' actions |
| `Electors` | `L4/EXERCISE2/sop-hre.c` | `Accept`, then `Welcome` or `WrongDistrict` when the byte it blocks for is there; `Poll`, `SkipNewline`, `Vote`, `Disconnect`, `ReadReset` |
| `Enalia` | `L4/Consultations/sop-enalia.c` | `Accept`, `Message`, `Disconnect`, `ReadReset` |
| `Wizards` | `L4/EXERCISE3/wizards.c` | `Accept`, `Chant`, `Disconnect`, `Stop` |
| `Messengers` | `L4/Messengers/*` | server: `Accept`, `Disconnect` (`remove_client`), `ReadReset`, `Handle` (`broadcast_message`), `Ignore`, `ServerStop`; client: `Connect`, `FirstEvents`, `Command`, `OtherLine`, `ReadServer`, `Leave` |
| `ShipGame` | `L1/ShipGame/ships.c` | `Fork`, `Send`, `Receive`, `ReadWinner` |
| `Brigades` | `RetakePrep/Brigades-L1/sop-factory.c` | `Fork`, `CloseUnused`, `Produce`, `Take`, `Copy`, `Collect`, `ParentCloses`, `ParentReaps`, and `Kill` from outside, which `killed` remembers; `Holds` is who has which descriptor |
| `BrigadesDraft` | `L1/sop-eng.c` | `WriteOne`, `ReadOne`, `ReadAnywhere`: brigade 3 reads through a pointer that was never set |
| `ForkAndRead` | `RetakePrep/MonteCarlo-mix/montecarlo.c`, `L1/CardGame/main.c` | `Fork`, `Answer`, `Exit`, `Read`, `Reap`, and `Kill` from outside |
| `StoreQueue` | `L2/sop2-6/sop-queue.c` | `OpenCheckout` .. `LeaveCheckout` are `checkout_work`, `EnterHandler`, `EnterClosed`, `HandlerReceive` are `shop_handler`, `Send` is one `mq_timedsend` of a client |
| `TaskQueue` | `L2/exercise2.c` | `Send`, `Reap`, `Start`, `Receive`, `Exit`, and SIGINT to the parent or to a worker at any point |
| `DiscSampler` | `L2/Graded/ops-queue.c` | `SendPoint`, `EnterHandler`, `Count` (one round of `mq_handler`), `Test`, `Report` |
| `Bingo` | `L2/bingo.c` | `Register`, `SendNumber`, `Wait`, `Close`, `Unlink`, both handlers (either may end main's `wait`), `Open`, `Receive`, `Answer` of a child |
| `ChatQueue` | `L2/Exercise4/*` | server: `Receive` (main), `EnterHandler`, `HandlerReceive`; client: `Join`, `Say`, `Leave`. `Send` is `mq_send`: to a blocked reader at once, else into the queue, perhaps with the notification |
| `Calculator` | `L2/sop-server.c`, `sop-client.c` | `Start`, `Open` (one `mq_open` each), `Serve`; `ClientOpen`, `Ask`, `ReadAnswer`, `Unlink` (one `mq_unlink` each); Ctrl-C on either side. A queue is named by the server run that created it, because an unlinked queue lives on in those who have it open |
| `Railway` | `RetakePrep/Trains-L3/*` | `NetworkInit`, `ReadStations`, `ReadConnections`, `ReadLine`, `BadLine` are `create_railway` line by line, with rows and lengths laid out as in the struct; `find_shortest_way` is the function: `Visit` is one turn of the main loop, `RelaxAll` its loop over a row, `Relax` one neighbour; a write past `visiting_order` is `Overrun`, and the search is then `Aborted`, as by the sanitizer of the Makefile |

## The runs

Sizes are those of the whole state graph; no run is cut off.

| run | instance | states | what it shows |
|---|---|---|---|
| `night_safe` | 3 shelves, 2 workers, both may die | 119 k | shelf locks are exclusive and never abandoned by a live worker (`LocksOwned`, `NoAbandonedLock`); the order never gets worse but by a death inside SWAP (`NeverLessSorted`), which costs one product (`NothingElseLost`); the program implements `Shelves` (`Implements`) |
| `night_live` | the same, no deaths | 68 k | every process exits, main gets past `wait` (`ShiftEnds`) |
| `night_closed` | the same | violated | the manager's scan is no snapshot: it can find the shelves sorted when they are not (`ClosedMeansSorted`) |
| `board_safe` | 3 x 3 board (4 fields in reach), 2 clients | 921 k | permits while clients re-run `sem_init` on a live semaphore: one unless trampled, never too few (`PermitsKept`); points counted once unless trampled, never lost (`PointsKept`); a client or server that leaves with the semaphore in hand stops everybody else until a newcomer runs `sem_init` (`GameFrozen`) |
| `shared_safe` | 3 processes, 1 batch each; 3 dogs, 4 cells, moves of 1 and 2 | 1.57 M | integral: exact counts and totals in every memory not initialised late (`OneInside`, `CountsExact`), names removed by the last (`NothingLeaks`), death only by losing a race for a name, also by touching a memory not yet sized (`KilledByARace`); dogs: a dog leaves a mark behind only by finding the cell ahead of it occupied, and the retaken race marks nobody (`MarksSound`), one retaken dog stays awake (`SomeoneRuns`) |
| `forks_safe` | ring of 3 players with 2 cards; brigades of 1, 2 and 1; 3 children; 2 Franks against 1 Saracen; 3 shelves and 2 workers; 3 slots | 140 k | no card, hit or product lost or copied on its way (`NothingLost`); the ring moves (`RingMoves`); nobody leaves because of a pipe without a cause: brigade 3 only when all of brigade 2 was killed, brigade 2 when all of brigade 3 was, and a knight that sees an end of file has taken every hit and has no enemy that saw one too (`EndIsReal`); the list keeps every enemy once (`EveryEnemyListed`); main uses only complete results, unless a signal cut its wait short (`ResultsComplete`); in the retaken night shift products move only by whole exchanges of one worker's pair, and only a stale comparison makes the order worse (`WorseOnlyIfStale`); each program reaches its end, or a block that is named: the parent of the farm on a child killed before its answer (`AllEnd`) |
| `knights_alone` | Roncevaux of `forks_safe` | violated | a dead enemy drawn twice is counted twice, and a knight leaves a living one (`LeavesOnlyWhenAlone`) |
| `sockets_safe` | 3 clients, room for 2, 1 command or 2 bytes each, ritual of 2 | 1.34 M | the client array against the epoll set (`NobodyForgotten`), the count against both (`CountExact`), open descriptors nobody polls, which are exactly those of the clients turned away (`TurnedAwayLeak`), no end of a server while its clients behave and stay (`EndsForAReason`) |
| `queues_safe` | store: 3 clients, queue of 2, 3 hours; tasks: 3 workers, 2 each; sampler: 2 testers, 6 points; bingo: 3 children, queues of 2; chat: 3 clients, capacity 2, queue of 3; calculator: 2 clients, 2 server runs | 560 k | no message waits for a reader that will not be told (`WakeupsKept`); no task is lost and no client miscounted (`SharesAddUp`); clients that end well leave no request or answer to the next one (`NothingStale`); everything ends or is read out (`AllEnd`) |
| `queues_ebadf` | the store | violated | an order just before `mq_close`: `mq_notify` in the handler fails with EBADF and ERR kills the group (`BadDescriptorHandled`) |
| `railway_safe` | room for 5 stations, 2 loads of up to 4 lines | 542 k | rows hold what the load accepted unless one ran over (`RowsHoldTheLoad`); the search runs past `visiting_order` exactly if every station is reached and a connection leads back, and otherwise finds a way exactly if there is one (`SearchFinds`); with equal lengths the way it returns is the shortest (`ShortestIfEqual`) |
| `railway_short` | stations 0 to 3 in room for 8, lengths 1 and 3 | violated | a distance improved after its station was visited is not passed on (`ShortestWay`) |

### Bounds and why they are enough

For the safety properties the theorems below cover all other sizes; for liveness the bounds are what
there is.

* Night shift: three shelves give two pairs that share a shelf and a scan of two steps; two workers
  meet on one shelf, inherit from each other and wait for each other.
* Board game: a 3 x 3 board is the smallest the server accepts; two clients allow one to join while
  another and the server's two threads use the semaphore.
* Integral: the races need one process that cleans up, one that has the old memory open and one that
  creates the next. One batch is one critical section in the middle; more of them repeat it.
* Dogs: four cells and moves of one or two let two dogs meet in a cell, bounce, and bounce into
  themselves; three dogs let two collide where a third has been.
* Roncevaux: two against one gives a list of two enemies and two writers to one pipe.
  `MaxPending` = 1 hit per pipe; a full pipe delays a strike, the 65536 hits at which the real write
  would block for ever are outside the model.
* Sockets: with three clients and room for two every branch of accept and a reused descriptor occur;
  `MaxCommands` and `MaxBytes` bound what one client sends, `Ritual` = 2 replaces the five bytes of
  wizards.
* Pipes: `Capacity` = 2 and `MaxCopies`, `Batch` = 2 fill and drain the pipes; `MaxKills` = 2 kills
  enough workers for both ends of file and SIGPIPE, `MaxFails` = 1 lets a fork fail in the middle.
* Retaken night shift: three shelves, one turn for each of two workers: the stale comparison needs one
  exchange between look and lock.
* Queues: queues of two or three become full and empty; `MaxSigints` = 2 interrupts two processes. A
  chat capacity of two is reached by main, by the handler and by neither; two server runs let the
  second open what a client is unlinking.
* Railway: four lines have every shape of detour that two lengths allow, and four of the five stations can be
  joined in a ring, so that ways are found beside cycles; the lines can also reach all five, where the search runs
  over. The second load finds rows of the first. `MAX_STATION_COUNT` = 5 in place of 64 makes rows run over. A
  network with every station reached and no connection back to the first needs a destroyed one and is not in the
  run; the proof covers it.

### Deadlock checking

It is on where a program that stops is a program that ended or a sleep the module names
(`NightShift`, `MCShared`: the stutter of finished processes is an explicit action, `Frozen` in
`DogRace` is a race whose dogs all block on themselves). It is off where the code really can stop: a
board game client that exits inside the critical section blocks everyone; a server that has ended does
nothing; `ForkAndRead` waits for ever after a killed child, `DiscSampler` after its handler blocked,
the chat server for a client. For the ring, the absence of deadlock is the invariant `RingMoves`.

### Fairness

* `NightShift`: weak fairness of every process (the kernel runs what is runnable) and strong fairness
  of `Pick(w, p)` for every pair, because `rand()` keeps drawing every pair. Without the latter two
  shelves might never be compared. Deaths are not owed.
* `Roncevaux`: weak fairness of the parent and of every knight, strong fairness of a strike of
  non-zero strength at every position of the list, again because of `rand()`.
* All other programs with a liveness property: weak fairness of every process that runs, and of the
  delivery of a pending signal. Nothing is assumed about who is served first, and users (who type,
  connect, interrupt or start a program) owe nothing.
* The dogs and the socket servers have no liveness property: a race may freeze, and a server ends when
  a client makes it.

## What is proved

Every type invariant, safety invariant and action property that a passing run checks is a theorem, for
every value of the constants. The statements are those of the runs: a suite's theorem speaks of the suite's `Spec` and of the conjunction the run
checks. Assumed are only the constants' named `ASSUME`s (sizes are naturals, sets of processes are
finite, a board has side three at least, station numbers are bytes ...), which TLC evaluates on every run.

In a suite each program has an inductive invariant of its own (`RetakeInv`, `IntegralInv`,
`MessengersInv`, `StoreInv`, `ShopInv` ...), which implies what the program contributes to the suite's
properties (the lemmas `...Meaning`). It is initial, kept by every action of the program (`...Step`), and
kept by the steps of the others because they leave its variables alone; the suite's invariant is the
conjunction.

### `NightShiftProofs`: any number of shelves, any finite set of workers, any number of deaths

1. `TypeCorrect`: `Spec => []TypeOK`. Inductive as it stands, one step per action.
2. `MutualExclusion`: `Spec => [](LocksOwned /\ NoAbandonedLock)`, and `LocksComeBack` for the second
   alone. The conjunction is inductive on top of `TypeOK`; the lemma `FreeIsNotHeld` says that a mutex
   that can be taken, one of a dead owner included, is held by no live worker.
3. `HalfSwaps`: `Spec => []HalfDone`. Between the two stores of SWAP both shelves carry the smaller
   product and `__x` the larger. It needs the exclusion of 2: only the owner could disturb it.
4. `Refines`: `Spec => Implements`. The mapping shows on each shelf what an exchange in progress will
   put there (`Settled`) and counts workers that died inside SWAP. `SettledAt` says that at most one
   worker has something in hand for a shelf, so `Compare` maps to `Tidy` (`CompareView`),
   `StoreSecond` to nothing (`StoreView`), a death between the stores to `Tear` (`DeathView`), and
   the rest to nothing (`StepView`). `HalfDone` is what makes the torn exchange a `Tear`.
5. `LossBounded`: `Spec => []NothingElseLost`. A shuffle misses no product because an injection
   between finite sets of one size is onto; `StepView` then leaves an exchange, which keeps the set of
   products shown, and a torn one, which loses at most one.
6. `OrderImproves`: `Spec => NeverLessSorted`. By `StepView` only an exchange moves products, and
   `ExchangeInverts` maps the pairs in the wrong order after it one-to-one to such pairs before it:
   a pair goes to the pair with the two exchanged places renamed, if that is still in order, else to itself.

The inductive invariant behind 3 to 6 is `TypeOK /\ LocksOwned /\ NoAbandonedLock /\ HalfDone`.
`NothingElseLost` alone is not inductive: from an arbitrary state a store could overwrite the only
copy of a product.

### `BoardGameProofs`: any board, points and number of clients

* `TypesHold`. `TypeOK` needs `Filling`: `Fill` stops at the last field of the board.
* `OnePermit`: `Spec => []PermitsKept`. `Holders` is a cardinality; `PermitSteps` says that each action
  takes a permit, gives one back, sets it anew, or leaves permits and holders alone.
* `GameFreezes`: `Spec => GameFrozen`. By `PermitsKept` who left with the permit is the only holder (`OnlyTheLost`), so no step that needs it or has it is enabled.
* `PointsAddUp`: `Spec => []PointsKept`. On top come `EmptyAhead` (nothing is dealt ahead of `Fill`) and
  `ClearsDealt`; a client between counting a field and clearing it holds its points twice (`InHand`), and
  alone on that field unless somebody trampled on the semaphore.

### `SharedProofs`: any number of processes, batches, dogs and cells

* Integral: `OneWorks`, `CountsHold`, `NamesGo`, `RaceKills`. `IntegralInv` says for each `pc` what a
  process has open (`Where`), that the semaphore is binary and who is under it (`SemSound`), that the
  owner of a sound memory's mutex is inside and what its half-done read-modify-write has loaded
  (`OwnerInside`, the counter and the sample steps), and who still takes care of each name (`CaresForSem`,
  `CaresForShm`): as long as a name is there and nobody was killed, some process will unlink it.
  `RaceKills` needs `NamesRemoved` (a name that is gone, or that belongs to a later semaphore, was removed by another
  process) and `UnsizedApart` (whoever shares a memory that is not yet sized came by another semaphore).
* Dogs: `MarksStay`; `RaceGoesOn` needs `HolderAwake`: whoever holds the mutex of the retake is
  between its lock and its unlock, so it is a witness when another dog falls asleep for ever.

### `SocketsProofs`: any number of clients, any room for them

`NoneForgotten`, `CountsHold`, `TurnedAwayLeaks`, `ReasonsHold`. Common to all servers: an open descriptor belongs
to one client, a client in the backlog has none yet (`Apart`), and the lowest free descriptor is free
(`FreeFdIsFree`). `MessengersInv` adds that every polled descriptor has somebody at its other
end and an entry in the table after each `remove_client`; `ElectorsInv` the newcomer whose byte accept waits for
(`Served`, `Entered`); `EnaliaInv` and `WizardsInv` the count.
`TurnedAway` says for Messengers and Enalia, where the descriptor of a client that does not fit stays open, that the
open descriptors outside the epoll set are those of exactly these clients; `TurnedAwayStep` takes a client in, turns it
away or drops it. A descriptor left open by any other path, before or after the server was full, would break it.

### `ForksProofs`: eight programs of processes and pipes, any sizes

* `RingNeverCloses` (`RingMoves`) of the ship game: every waiting player has sent its card, so the pipes hold
  as many cards as players wait (`CardsCounted`); if all waited on empty pipes there would be none.
  `AroundTheRing` walks the ring. `NothingIsLost` for its cards: `CardsApart` and `CardsThere`.
* `NothingIsLost` and `StaleBeforeWorse` of the retaken night shift: both shelves are held between lock and
  unlock (`ShelvesHeld`), what was loaded there stands in the carried value (`Exchanging`), and the comparison is
  still true unless somebody touched the pair (`Fresh`). `Settled` counts an exchange at its first store, as in
  `NightShift`; the mutex leaves one worker to fill a shelf (`SettledShows`), so the first store is an exchange
  of what the shelves show (`StoreAShows`), and nothing else changes it (`StoreBShows`, `SettledKept`).
* `FreshImplements`: in every run of the retake in which no worker acts on a stale comparison (`NoneStale`), the shelves
  move as `Shelves` allows, and no exchange is torn. The hypothesis is what the missing second look costs: exchanges
  still happen under it, and without it TLC finds a step, with three shelves and two workers, that `Shelves` forbids.
* `EndOfFileIsReal`: a worker that stopped without being killed points to a brigade all of which is gone, and
  this cannot go round in a circle (`Causes`); a knight that sees the end of its pipe has only enemies that
  closed it (`KnightsCourse`), has taken what they sent (`KnightsHits`), and kept its own pipes open until then, so
  that none of them saw an end of file (`KnightsEnd`).
* `NothingIsLost` for hits: for every knight the HP lost and the sum of its pipe are what was sent to it
  (`KnightsHits`). `EnemiesStayListed`: every enemy keeps a place in the list under every swap with a
  dead one (`KnightsLists`, `SwapKeeps`).
* `MainReadsWhole`: a slot in shared memory is written before its child exits and read when all are reaped, unless
  EINTR ended the wait (`LettersInv` with `cut`, `SamplesInv`); a parent that reads a pipe per child goes past it only with its answer (`FarmInv`).

### `QueuesProofs`: six programs over message queues, any numbers and lengths

* `NoMessageWaitsUnseen` (`WakeupsKept`): between `mq_notify` and `mq_close` a reader is registered or
  its signal is on its way, or it is about to drain the queue (`StoreInv`, `BingoInv`, `DiscInv`).
* `SharesHold`: tasks to be sent, queued and done are all there are (`TasksInv`); of the chat, the queued
  connects less the queued exits and both counts add up to the clients present (`ChatCounts`). `FirstWaits` says that
  the message `mq_receive` takes exists, `ReadKeepsSum` that reading one moves it from the queue into a count,
  `SendAddsToSum` that sending one adds it to either.
* `NothingLeftBehind` (`NothingStale`) of the calculator: each pending request and each answer is
  owed to a client that waits for it or was interrupted (`Owed`), and which run's queues a client has open says
  how far it got (`Held`, `Later`). When all have ended well nothing is owed.

### `RailwayProofs`: up to 254 stations, any files one after another

`RailwayTypesHold` and `RowsFaithful` (`RowsHoldTheLoad`). The inductive part is `RowKept`: as long as no row ran
over, a row holds up to its count the neighbours of this load once each, and behind the count everything is
invalid, also right after `railway_network_init`, which leaves the counts of earlier loads. `RowsInOrder`,
`CellPlace` and `CellsApart` are the layout of the struct; `StoreApart` and `StoreTwice` follow the four stores of a
line through it. They include the case in which the first entry overwrites the count of the second station, which
shows in a count that has outgrown its row. 254 is the largest size at which `INVALID_STATION`, a `uint8_t`, and
its successor are numbers of their own; the program's is 64.

`SearchComplete` (`SearchFinds`) and `ShortestWhereEqual` (`ShortestIfEqual`) are about `find_shortest_way` on what
a first file without loops leaves:

* `FileInv` says what that is: no row ran over, because a station has at most as many neighbours as its row
  has entries; no row has a hole; and the length of a connection is that of a line of the file.
* The queue (`IsQueue`): what is on it was visited, each station once, but for the start, which may come a second
  time. After turn i every neighbour of the first i entries is on it (`Done`), so after `MAX_STATION_COUNT` turns
  what was visited is closed under open connections (`SearchedAll`), unless the queue has outgrown its array first. Walks of at most one step less than there are
  stations reach the least closed set, by counting: a step that adds nobody is the last that could (`ReachedIsLeast`,
  `ReachedIsClosed`). So both are the same. `QueueBound` counts the queue: it outgrows the array exactly if every station was visited,
  the first one included, to which then a connection leads (`Led`), and `SearchFindsWays` puts the cases together.
* With lengths all equal the search is breadth first (`Breadth`): the queue is in the order of the distances and nobody
  on it is more than one connection further away than the next to be visited (`InOrder`), no neighbour of a station
  visited is more than one connection further away than it (`Passed`), and every station hangs on the one before it
  with a distance of one connection more (`Linked`). In the end no walk is shorter than a distance
  (`NoWalkShorter`), and the stations read back from the destination are a walk of that length (`ShortestFound`).

The loops are recursive functions over the naturals. `Iterates` gives such a function's equations, and what holds
after every turn is shown with a family of sets, one for each turn, that the turns stay in (`StaysIn`).

### `SumTheorems`

Lemmas about `SumFunction` of the community modules, used by five of these modules: one element changed, one
element more, all zero, a sequence appended to or its head removed. The induction over the size of the index set
is made with sets of subsets (`PickInduction`, `SubsetInduction`), since the library's induction theorems take an
operator as parameter.

### Only model-checked

* `ShiftEnds` and `AllEnd`: liveness under fairness is out of the prover's reach.
* That the code does violate what the four runs expected to fail say of it.

## Where the code and its documents differ

* `sop-shop.c:127` against `l7en.md:51`: see `night_closed`.
* `L1/PolishTask/main.c:108` against `task.md:43` and `:47`: see `knights_alone`.
* `sop-queue.c:61` against `L2/sop2-6/Task.md:61`: see `queues_ebadf`.
* `railway.c:187` against `railway.h:171` ("Path array first element has starting station as given from
  index") and `railway.h:169` ("Functions found shortest way"): see `railway_short`.

Seen while modelling, and part of the models without a run of their own:

* `L4/Consultations/README.md` wants a client that does not fit told and its connection closed, and
  messages sent to all others; `sop-enalia.c:85-97` tells it and keeps the descriptor, and prints messages. So
  the demand of `README.md:47` does not hold; `TurnedAwayLeak` says what holds instead: what stays open is the
  descriptor of each client turned away and nothing else.
* `L2/Exercise4/client.c` gives the exit a higher priority than the connect, so a server that was busy
  may see a client leave before it came, and the handler of `server.c` registers for SIGRTMIN, whose
  default action ends the server at its second notification.
* `L3/DogRace/sop-race.c` can leave a dog blocked on its own mutex; in the retaken race no dog is ever
  on the track.
* `railway.c:190`: the start is queued twice, so when all 64 stations are reached the search writes past
  `visiting_order`. The Makefile builds with the address sanitizer, which ends the program; without it the
  behaviour is undefined. `SearchFinds` says that this happens for exactly these networks.
* `repeating_letters.c:133` and `bingo.c:202`: SIGCHLD is handled without SA_RESTART, so a child that ends
  while main is about to sleep in `wait` makes it fail with EINTR, and the loop ends. Main of the letters then
  prints slots that are not complete (`cut`), main of bingo removes its queues while children use them.
* `L3/Exercise2/integral.c`: a process may reach a new memory through its name before the creator has sized
  it, if the two came by different semaphores, and dies of SIGBUS at its first lock.

## Abstractions

* `sem_init` on a semaphore in use is undefined; the model does what glibc does, it overwrites the
  value and leaves the waiters waiting. `sem_destroy` leaves the value alone.
* The zeroed mutex of `integral.c` behaves as a free normal mutex until it is initialised.
* A socket is a sequence of whole messages and a state: open, closed by the peer with everything
  read (FIN), closed with unread data (RST). One epoll event of the server is one step.
* The writes of one accept of Enalia are one step: no other process can tell them apart, and EPIPE on a later
  one is ignored. The one write of Wizards, to the client it turns away, cannot fail, since that client
  has sent at most its FIN.
* A knight of Roncevaux closes its descriptors in one step. In between, the others would at most see EPIPE on
  one pipe before the end of file on another, which they also see when they run late.
* In `Railway` load and search are called as a program with a network would call them; `main` of
  `sop-railway.c` does not. The search works on its own arrays and is one step; it stops at the overrun.
* Messages of the queue programs are counted, in `ChatQueue` by priority; contents do not steer the
  code's control. Timeouts may happen whenever the call blocks. Sleeps order nothing.
* `DiscSampler` may start with reports of an earlier run in its queue, which it does not unlink.
* Random draws are nondeterministic choices; random values that only get printed are left out.
* `ERR` in L1-L3 ends the whole process group in one step.
* Deaths by signals from outside are modelled where the program has code for them: the robust mutexes
  of the night shift, ends of file and SIGPIPE in `Brigades` and `ForkAndRead`.

Not modelled of the components that are: boards larger than the mapping (`serverexe.c:60` accepts 99
where 31 fit), attack 0 (`main.c:109`), a write that blocks on a full pipe of 65536 hits
(`main.c:111`), city numbers outside 1..20 (`server.c:126` accepts any two characters), the name under
which the chat server prints a text, a restart of the chat server on a queue that was left, numbers that
do not fit the ten characters of `sop-server.c:94`, the bytes of unterminated strings, file parsing and all output. That one silent client keeps the electors' server
from everybody else (`sop-hre.c:106`) is a state of the model; nothing in the code promises otherwise,
so no property is stated.

## Plan

Done: `NightShift` with `Shelves`, `BoardGame`, the suites of forks, shared memory, sockets and queues,
`Railway`, the proofs of every safety property the runs check, and that both night shifts implement `Shelves`, the
retake as long as no comparison is stale.

What is left:

* Abstract specifications of further programs, with refinement proofs as for the two night shifts. The next
  would be the calculator's: its four queues implement one exchange of a request and an answer.

## Left out for good

* Drafts that do not compile: `L3/Exercise3/channel.c`, `L3/Roncevaux/sop-knights.c`,
  `L2/EnglishTaskPrep/chiny.c`, `L2/exercise3.c`, `L2/Exercise3/exercise3_1.c`,
  `L1/englishlab_prep.c`; and the drafts in `L1/polishtask.c` behind the first one, which are comments.
* `L3/Exercise4/cards.c`: unfinished; what the children would share is a pointer of another address
  space.
* Single-feature exercises, course notes, skeletons handed out with tasks, and walks over files: they
  keep no state worth a model.
