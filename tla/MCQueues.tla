------------------------------ MODULE MCQueues ------------------------------
(***************************************************************************)
(* The programs of L2 over POSIX message queues, one of them at a time:    *)
(* the variables of the others keep their initial values.                  *)
(***************************************************************************)
EXTENDS Naturals

CONSTANTS CLIENT_COUNT, MIN_ITEMS, MAX_ITEMS, OPEN_FOR, MAX_MSG_COUNT,
          Workers, Share, MAX_MSG, MaxSigints,
          CHILD_COUNT, ROUNDS,
          Children, MAX_NUM,
          Guests, MAX_CLIENTS, Room, Texts,
          Askers, MaxRuns

VARIABLES prog,
          forked, main, pc, hour, handler, queue, left,
          tmain, iter, stop, tst, tasks_done, tqueue, sigints,
          dforked, sent, dhandler, found, work, parentQueue, child, hits, old,
          bmain, toSend, bst, bhandler, pin, pout,
          server, currentcli, clients, waiting, armed, signal, guest, typed,
          runs, calc, zero, name, fd, asks, replies, asker, cfd, unlinked, ask

store   == <<forked, main, pc, hour, handler, queue, left>>
tasks   == <<tmain, iter, stop, tst, tasks_done, tqueue, sigints>>
sampler == <<dforked, sent, dhandler, found, work, parentQueue, child, hits, old>>
bingo   == <<bmain, toSend, bst, bhandler, pin, pout>>
chat    == <<server, currentcli, clients, waiting, armed, signal, guest, typed>>
sums    == <<runs, calc, zero, name, fd, asks, replies, asker, cfd, unlinked, ask>>
vars    == <<prog, store, tasks, sampler, bingo, chat, sums>>

Store == INSTANCE StoreQueue
Tasks == INSTANCE TaskQueue WITH main <- tmain, st <- tst, queue <- tqueue
Disc  == INSTANCE DiscSampler WITH forked <- dforked, handler <- dhandler
Bingo == INSTANCE Bingo WITH main <- bmain, st <- bst, handler <- bhandler
Chat  == INSTANCE ChatQueue
Sums  == INSTANCE Calculator WITH server <- calc

ASSUME QueuesAssumption ==
    /\ Store!StoreAssumption /\ Tasks!TaskAssumption /\ Disc!DiscAssumption
    /\ Bingo!BingoAssumption /\ Chat!ChatAssumption /\ Sums!CalculatorAssumption

\* Where another program runs, one initial state of each is enough.
Init ==
    /\ prog \in {"store", "tasks", "sampler", "bingo", "chat", "sums"}
    /\ Store!Init /\ Tasks!Init /\ Disc!Init /\ Bingo!Init /\ Chat!Init /\ Sums!Init
    /\ prog # "store"   => left = [c \in Store!Clients |-> MIN_ITEMS]
    /\ prog # "sampler" => old = 0 /\ work.n = 0
    /\ prog # "sums"    => ask = [c \in Askers |-> "other"]

Next ==
    \/ prog = "store"   /\ Store!Next /\ UNCHANGED <<prog, tasks, sampler, bingo, chat, sums>>
    \/ prog = "tasks"   /\ Tasks!Next /\ UNCHANGED <<prog, store, sampler, bingo, chat, sums>>
    \/ prog = "sampler" /\ Disc!Next  /\ UNCHANGED <<prog, store, tasks, bingo, chat, sums>>
    \/ prog = "bingo"   /\ Bingo!Next /\ UNCHANGED <<prog, store, tasks, sampler, chat, sums>>
    \/ prog = "chat"    /\ Chat!Next  /\ UNCHANGED <<prog, store, tasks, sampler, bingo, sums>>
    \/ prog = "sums"    /\ Sums!Next  /\ UNCHANGED <<prog, store, tasks, sampler, bingo, chat>>

Fairness ==
    \/ prog = "store" /\ Store!Fairness
    \/ prog = "tasks" /\ Tasks!Fairness
    \/ prog = "sampler" /\ Disc!Fairness
    \/ prog = "bingo" /\ Bingo!Fairness
    \/ prog = "chat" /\ Chat!Fairness
    \/ prog = "sums" /\ Sums!Fairness

Spec == Init /\ [][Next]_vars /\ Fairness

-----------------------------------------------------------------------------
\* The types of the variables of the program that runs.
TypeOK ==
    /\ prog = "store" => Store!TypeOK
    /\ prog = "tasks" => Tasks!TypeOK
    /\ prog = "sampler" => Disc!TypeOK
    /\ prog = "bingo" => Bingo!TypeOK
    /\ prog = "chat" => Chat!TypeOK
    /\ prog = "sums" => Sums!TypeOK

\* StoreQueue, DiscSampler, Bingo: no message waits in a queue whose reader is
\* neither at work nor about to be told.
WakeupsKept ==
    /\ prog = "store" => Store!WakeupsKept
    /\ prog = "sampler" => Disc!WakeupsKept
    /\ prog = "bingo" => Bingo!WakeupsKept

\* TaskQueue: the tasks left, queued and done are the workers' shares.  ChatQueue:
\* the counts of main and of the handler and the queue are the clients.
SharesAddUp ==
    /\ prog = "tasks" => Tasks!SharesAddUp
    /\ prog = "chat" => Chat!MembersCounted

\* Calculator: clients that end well leave nothing behind for the next ones.
NothingStale == prog = "sums" => Sums!NothingStale

\* The store, the task queue and the bingo end, the sampler counts every hit, the
\* chat is read out and no request or answer waits for a reader that is there.
AllEnd == <>[](CASE prog = "store"   -> Store!Ended
                 [] prog = "tasks"   -> Tasks!Ended
                 [] prog = "sampler" -> Disc!Counted
                 [] prog = "bingo"   -> Bingo!Ended
                 [] prog = "chat"    -> Chat!ReadOut
                 [] prog = "sums"    -> Sums!Settled)

\* StoreQueue against Task.md, stage 4: "Bad file descriptor" is handled.
BadDescriptorHandled == Store!BadDescriptorHandled
=============================================================================
