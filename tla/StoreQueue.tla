----------------------------- MODULE StoreQueue -----------------------------
(***************************************************************************)
(* L2/sop2-6/sop-queue.c: clients send orders to a queue of                *)
(* MAX_MSG_COUNT, the checkout reads them in a loop and in the handler of  *)
(* the queue's notification.  Time is abstracted: a send may time out      *)
(* whenever the queue is full, and the 100 ms before the clients are       *)
(* forked order nothing.                                                   *)
(***************************************************************************)
EXTENDS Naturals, FiniteSets, MessageQueue

CONSTANTS CLIENT_COUNT, MAX_MSG_COUNT, MIN_ITEMS, MAX_ITEMS, OPEN_FOR

StoreAssumption ==
    /\ {CLIENT_COUNT, MAX_MSG_COUNT, OPEN_FOR} \subseteq Nat \ {0}
    /\ MIN_ITEMS \in Nat /\ MAX_ITEMS \in Nat /\ MIN_ITEMS <= MAX_ITEMS

Clients == 1..CLIENT_COUNT

VARIABLES forked,       \* children of create_children: the checkout, then the clients
          main,         \* "up", "done"; "killed" with the whole group by ERR
          pc,           \* checkout: "start", "open", "hour", "closing", "closed", "gone"
          hour,         \* hours that are over
          handler,      \* the checkout is in shop_handler
          queue,
          left          \* items a client has still to order; 0 also once it has left

vars == <<forked, main, pc, hour, handler, queue, left>>

Init ==
    /\ forked = 0 /\ main = "up" /\ pc = "start" /\ hour = 0
    /\ handler = FALSE /\ queue = Fresh
    /\ left \in [Clients -> MIN_ITEMS..MAX_ITEMS]

Up == main = "up"

Fork ==
    /\ Up /\ forked < CLIENT_COUNT + 1 /\ forked' = forked + 1
    /\ UNCHANGED <<main, pc, hour, handler, queue, left>>

\* checkout_work: mq_open, sethandler, mq_notify.
OpenCheckout ==
    /\ Up /\ forked > 0 /\ pc = "start"
    /\ pc' = "open" /\ queue' = Arm(queue)
    /\ UNCHANGED <<forked, main, hour, handler, left>>

\* "Closed today" or "OPEN today".
Decide ==
    /\ Up /\ ~handler /\ pc = "open"
    /\ pc' \in {"closing", "hour"}
    /\ UNCHANGED <<forked, main, hour, handler, queue, left>>

\* fault: one hour too many
PollPastClosing ==
    /\ Up /\ ~handler /\ pc = "hour"
    /\ IF queue.n > 0
         THEN queue' = Take(queue) /\ UNCHANGED <<hour, pc>>
         ELSE /\ hour' = hour + 1 /\ UNCHANGED queue
              /\ pc' = IF hour = OPEN_FOR THEN "closing" ELSE pc
    /\ UNCHANGED <<forked, main, handler, left>>

\* One mq_receive of the loop; EAGAIN ends the hour.
Poll ==
    /\ Up /\ ~handler /\ pc = "hour"
    /\ IF queue.n > 0
         THEN queue' = Take(queue) /\ UNCHANGED <<hour, pc>>
         ELSE /\ hour' = hour + 1 /\ UNCHANGED queue
              /\ pc' = IF hour' = OPEN_FOR THEN "closing" ELSE pc
    /\ UNCHANGED <<forked, main, handler, left>>

CloseQueue ==
    /\ Up /\ ~handler /\ pc = "closing"
    /\ pc' = "closed" /\ queue' = Unregister(queue)
    /\ UNCHANGED <<forked, main, hour, handler, left>>

\* The signal that was on its way when mq_close was called comes before exit.
LeaveCheckout ==
    /\ Up /\ pc = "closed" /\ ~queue.signal
    /\ pc' = "gone"
    /\ UNCHANGED <<forked, main, hour, handler, queue, left>>

\* fault: the handler does not register again
EnterUnregistered ==
    /\ Up /\ ~handler /\ queue.signal /\ pc \in {"open", "hour", "closing"}
    /\ handler' = TRUE /\ queue' = [queue EXCEPT !.signal = FALSE]
    /\ UNCHANGED <<forked, main, pc, hour, left>>

\* shop_handler: registers again, then drains.
EnterHandler ==
    /\ Up /\ ~handler /\ queue.signal /\ pc \in {"open", "hour", "closing"}
    /\ handler' = TRUE /\ queue' = Deliver(queue)
    /\ UNCHANGED <<forked, main, pc, hour, left>>

\* shop_handler after mq_close: mq_notify gives EBADF, ERR kills the group.
EnterClosed ==
    /\ Up /\ queue.signal /\ pc = "closed"
    /\ main' = "killed" /\ queue' = [queue EXCEPT !.signal = FALSE]
    /\ UNCHANGED <<forked, pc, hour, handler, left>>

HandlerReceive ==
    /\ Up /\ handler
    /\ IF queue.n > 0 THEN queue' = Take(queue) /\ UNCHANGED handler
                      ELSE handler' = FALSE /\ UNCHANGED queue
    /\ UNCHANGED <<forked, main, pc, hour, left>>

Working(c) == Up /\ forked > c /\ left[c] > 0

\* client_work: one mq_timedsend; a timeout ends the client.
Send(c) ==
    /\ Working(c)
    /\ \/ /\ ~Full(queue, MAX_MSG_COUNT) /\ queue' = Put(queue)
          /\ left' = [left EXCEPT ![c] = @ - 1]
       \/ /\ Full(queue, MAX_MSG_COUNT) /\ left' = [left EXCEPT ![c] = 0]
          /\ UNCHANGED queue
    /\ UNCHANGED <<forked, main, pc, hour, handler>>

\* main: every child has been waited for.
Reap ==
    /\ Up /\ forked = CLIENT_COUNT + 1 /\ pc = "gone"
    /\ \A c \in Clients : left[c] = 0
    /\ main' = "done"
    /\ UNCHANGED <<forked, pc, hour, handler, queue, left>>

Checkout == \/ OpenCheckout \/ Decide \/ Poll \/ CloseQueue \/ LeaveCheckout
            \/ EnterHandler \/ EnterClosed \/ HandlerReceive

Next == Fork \/ Reap \/ Checkout \/ \E c \in Clients : Send(c)

Spec == Init /\ [][Next]_vars

\* Every process is scheduled.
Fairness ==
    /\ WF_vars(Fork \/ Reap) /\ WF_vars(Checkout)
    /\ \A c \in Clients : WF_vars(Send(c))

-----------------------------------------------------------------------------
\* The types of the variables.
TypeOK ==
    /\ forked \in 0..CLIENT_COUNT + 1 /\ main \in {"up", "done", "killed"}
    /\ pc \in {"start", "open", "hour", "closing", "closed", "gone"}
    /\ hour \in 0..OPEN_FOR /\ handler \in BOOLEAN
    /\ queue \in Queue(MAX_MSG_COUNT) /\ left \in [Clients -> 0..MAX_ITEMS]

\* Once an hour has been polled, an order in the queue always has its signal
\* on the way or the handler at work: no order is left for ever between the
\* two readers.
WakeupsKept ==
    pc \in {"hour", "closing"} /\ hour > 0 /\ queue.n > 0 => queue.signal \/ handler

\* The store ends, by itself or by ERR: full queues and late signals never
\* leave anybody waiting.
Ended == main # "up"

\* Task.md, stage 4: the "Bad file descriptor" of mq_notify is to be handled.
BadDescriptorHandled == main # "killed"
=============================================================================
