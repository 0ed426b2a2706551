----------------------------- MODULE DiscSampler -----------------------------
(***************************************************************************)
(* L2/Graded/ops-queue.c: the parent sends points to the work queue, the   *)
(* children send 1 for each point in the disc, the handler of the parent's *)
(* notification counts.  mq_setattr with mq_flags = 0 takes O_NONBLOCK off *)
(* the parent's queue, so the handler's loop never meets EAGAIN: once      *)
(* entered it blocks in mq_receive and the loop of parent_work stays where *)
(* it was interrupted.  The program therefore ends only by a signal, and   *)
(* does not unlink its queues at the start: a run may find the messages of *)
(* the one before.                                                         *)
(***************************************************************************)
EXTENDS Naturals, FiniteSets, MessageQueue

CONSTANTS CHILD_COUNT, MAX_MSG_COUNT,
          ROUNDS                \* points, 512 in the code

DiscAssumption == {CHILD_COUNT, MAX_MSG_COUNT, ROUNDS} \subseteq Nat \ {0}

Testers == 1..CHILD_COUNT

VARIABLES forked, sent,         \* parent: children, points sent
          handler,              \* "off", "drain", "blocked" in mq_receive
          found,                \* i of mq_handler
          work, parentQueue,
          child,                \* "none", "idle", "hit": has a 1 to send
          hits,                 \* history: points found in the disc
        old                   \* history: reports found in the queue at the start

vars == <<forked, sent, handler, found, work, parentQueue, child, hits, old>>

\* main: both queues with what they hold, the handler and its registration before the first fork.
Init ==
    /\ forked = 0 /\ sent = 0 /\ handler = "off" /\ found = 0
    /\ old \in 0..MAX_MSG_COUNT
    /\ parentQueue = [Arm(Fresh) EXCEPT !.n = old]
    /\ \E k \in 0..MAX_MSG_COUNT : work = [Fresh EXCEPT !.n = k]
    /\ child = [c \in Testers |-> "none"] /\ hits = 0

Fork ==
    /\ handler = "off" /\ forked < CHILD_COUNT
    /\ forked' = forked + 1 /\ child' = [child EXCEPT ![forked + 1] = "idle"]
    /\ UNCHANGED <<sent, handler, found, work, parentQueue, hits, old>>

\* parent_work
SendPoint ==
    /\ handler = "off" /\ forked = CHILD_COUNT /\ sent < ROUNDS
    /\ ~Full(work, MAX_MSG_COUNT)
    /\ sent' = sent + 1 /\ work' = Put(work)
    /\ UNCHANGED <<forked, handler, found, parentQueue, child, hits, old>>

EnterHandler ==
    /\ handler = "off" /\ parentQueue.signal
    /\ handler' = "drain" /\ parentQueue' = Deliver(parentQueue)
    /\ UNCHANGED <<forked, sent, found, work, child, hits, old>>

\* mq_handler: one round of the loop, on the blocking descriptor.
Count ==
    /\ handler # "off"
    /\ IF parentQueue.n > 0
         THEN /\ parentQueue' = Take(parentQueue) /\ found' = found + 1
              /\ handler' = "drain"
         ELSE handler' = "blocked" /\ UNCHANGED <<parentQueue, found>>
    /\ UNCHANGED <<forked, sent, work, child, hits, old>>

\* child_work: a point, and checkInDisc.
Test(c) ==
    /\ child[c] = "idle" /\ work.n > 0
    /\ work' = Take(work)
    /\ \E in \in {0, 1} :
         /\ hits' = hits + in
         /\ child' = [child EXCEPT ![c] = IF in = 1 THEN "hit" ELSE "idle"]
    /\ UNCHANGED <<forked, sent, handler, found, parentQueue, old>>

\* child_work: the send blocks while the parent's queue is full.
Report(c) ==
    /\ child[c] = "hit" /\ ~Full(parentQueue, MAX_MSG_COUNT)
    /\ parentQueue' = IF handler = "blocked" THEN PutToWaiting(parentQueue) ELSE Put(parentQueue)
    /\ child' = [child EXCEPT ![c] = "idle"]
    /\ UNCHANGED <<forked, sent, handler, found, work, hits, old>>

Parent  == Fork \/ SendPoint \/ EnterHandler \/ Count
Work(c) == Test(c) \/ Report(c)

Next == Parent \/ \E c \in Testers : Work(c)

Spec == Init /\ [][Next]_vars

\* Every process is scheduled and a signal is delivered.
Fairness == WF_vars(Fork \/ SendPoint) /\ WF_vars(EnterHandler) /\ WF_vars(Count)
            /\ \A c \in Testers : WF_vars(Work(c))

-----------------------------------------------------------------------------
\* The types of the variables.
TypeOK ==
    /\ forked \in 0..CHILD_COUNT /\ sent \in 0..ROUNDS
    /\ handler \in {"off", "drain", "blocked"}
    /\ {found, hits} \subseteq 0..ROUNDS + MAX_MSG_COUNT /\ old \in 0..MAX_MSG_COUNT
    /\ work \in Queue(MAX_MSG_COUNT) /\ parentQueue \in Queue(MAX_MSG_COUNT)
    /\ child \in [Testers -> {"none", "idle", "hit"}]

\* A report in the parent's queue has its signal on the way or the handler at
\* work; but a report of an earlier run keeps the queue from ever being empty,
\* and this run is never notified.
WakeupsKept ==
    IF old = 0 THEN parentQueue.n > 0 => parentQueue.signal \/ handler # "off"
               ELSE handler = "off" /\ ~parentQueue.signal

\* However early the handler stops the parent, every point that was sent is
\* tested and every hit is counted in the end, if the queue was empty at first.
Counted == old = 0 => work.n = 0 /\ found = hits /\ (handler = "off" => sent = ROUNDS)
=============================================================================
