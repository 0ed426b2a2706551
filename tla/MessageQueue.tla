---------------------------- MODULE MessageQueue ----------------------------
(***************************************************************************)
(* A POSIX message queue as the programs of L2 use it.  What is in a       *)
(* message does not matter to any of them, so a queue is the number of its *)
(* messages; one process may be registered for a notification, which is a  *)
(* signal sent once, when a message reaches the empty queue and no process *)
(* is blocked in mq_receive.                                               *)
(***************************************************************************)
EXTENDS Naturals

Queue(max) == [n : 0..max, armed : BOOLEAN, signal : BOOLEAN]
Fresh      == [n |-> 0, armed |-> FALSE, signal |-> FALSE]

Full(q, max) == q.n >= max

\* mq_send to a queue in which nobody is blocked.
Put(q) ==
    IF q.n = 0 /\ q.armed
    THEN [n |-> 1, armed |-> FALSE, signal |-> TRUE]
    ELSE [q EXCEPT !.n = @ + 1]

\* mq_send while a process is blocked in mq_receive: no notification.
PutToWaiting(q) == [q EXCEPT !.n = @ + 1]

\* mq_receive.
Take(q) == [q EXCEPT !.n = @ - 1]

\* mq_notify.
Arm(q) == [q EXCEPT !.armed = TRUE]

\* The signal is delivered; the handler's first call is mq_notify.
Deliver(q) == [q EXCEPT !.signal = FALSE, !.armed = TRUE]

\* mq_close by the registered process.
Unregister(q) == [q EXCEPT !.armed = FALSE]
=============================================================================
