-------------------------------- MODULE Bingo --------------------------------
(***************************************************************************)
(* L2/bingo.c: the parent sends one number for each child through pout,    *)
(* each child answers through pin, which is O_NONBLOCK in all of them, and *)
(* the handler of the parent's notification reads the answers.  Neither    *)
(* handler restarts the call it interrupts.                                *)
(***************************************************************************)
EXTENDS Naturals, FiniteSets, MessageQueue

CONSTANTS Children,     \* n of them, 1..99 in the code
          MAX_NUM       \* mq_maxmsg of both queues, 10 in the code

BingoAssumption == IsFiniteSet(Children) /\ Children # {} /\ MAX_NUM \in Nat \ {0}

VARIABLES main,         \* "fork", "send", "wait", "closing", "closed", "done"; "killed"
          toSend,       \* numbers parent_work has still to send
          st,           \* child: "none", "start", "open", "got", "zombie", "reaped"
          handler,      \* the parent is in mq_handler
          pin, pout

vars == <<main, toSend, st, handler, pin, pout>>

Init ==
    /\ main = "fork" /\ toSend = Cardinality(Children)
    /\ st = [c \in Children |-> "none"] /\ handler = FALSE
    /\ pin = Fresh /\ pout = Fresh

\* ERR: kill(0, SIGKILL).
Err ==
    /\ main' = IF main = "done" THEN main ELSE "killed"
    /\ st' = [c \in Children |-> "reaped"]

Fork ==
    /\ main = "fork"
    /\ \E c \in Children : st[c] = "none" /\ st' = [st EXCEPT ![c] = "start"]
    /\ UNCHANGED <<main, toSend, handler, pin, pout>>

\* mq_notify, after the forks and before the first number.
Register ==
    /\ main = "fork" /\ \A c \in Children : st[c] # "none"
    /\ pin' = Arm(pin) /\ main' = "send"
    /\ UNCHANGED <<toSend, st, handler, pout>>

\* parent_work
SendNumber ==
    /\ main = "send" /\ ~handler
    /\ IF toSend > 0
         THEN /\ ~Full(pout, MAX_NUM)
              /\ pout' = Put(pout) /\ toSend' = toSend - 1 /\ UNCHANGED main
         ELSE main' = "wait" /\ UNCHANGED <<toSend, pout>>
    /\ UNCHANGED <<st, handler, pin>>

Running == {c \in Children : st[c] \in {"start", "open", "got"}}
Zombies == {c \in Children : st[c] = "zombie"}

\* wait(NULL): a zombie, or ECHILD, which ends the loop.
Wait ==
    /\ main = "wait" /\ ~handler
    /\ \/ \E c \in Zombies : st' = [st EXCEPT ![c] = "reaped"] /\ UNCHANGED main
       \/ Zombies = {} /\ Running = {} /\ main' = "closing" /\ UNCHANGED st
    /\ UNCHANGED <<toSend, handler, pin, pout>>

\* mq_close of both queues, then the unlinks.
Close ==
    /\ main = "closing" /\ ~handler
    /\ main' = "closed" /\ pin' = Unregister(pin)
    /\ UNCHANGED <<toSend, st, handler, pout>>

\* A signal that was on its way finds the queue closed: EBADF.
Unlink ==
    /\ main = "closed"
    /\ IF pin.signal THEN Err ELSE main' = "done" /\ UNCHANGED st
    /\ UNCHANGED <<toSend, handler, pin, pout>>

Blocked == main = "send" /\ toSend > 0 /\ Full(pout, MAX_NUM)

\* SIGRTMIN: mq_send fails with EINTR, which is ERR once the handler is done;
\* a blocked wait fails too, which ends the loop.
EnterHandler ==
    /\ main \in {"send", "wait", "closing"} /\ ~handler /\ pin.signal
    /\ \/ Blocked /\ Err /\ UNCHANGED <<handler, pin>>
       \/ /\ handler' = TRUE /\ pin' = Deliver(pin) /\ UNCHANGED st
          /\ \/ UNCHANGED main
             \/ main = "wait" /\ Zombies = {} /\ main' = "closing"
    /\ UNCHANGED <<toSend, pout>>

HandlerReceive ==
    /\ handler /\ main # "killed"
    /\ IF pin.n > 0 THEN pin' = Take(pin) /\ UNCHANGED handler
                    ELSE handler' = FALSE /\ UNCHANGED pin
    /\ UNCHANGED <<main, toSend, st, pout>>

\* sigchld_handler: reaps all there are; a blocked mq_send fails with EINTR, and so does
\* a wait whose scan the child came too late for: the loop ends with children left.
Sigchld ==
    /\ main \in {"fork", "send", "wait", "closing"} /\ Zombies # {}
    /\ \/ Blocked /\ ~handler /\ Err
       \/ /\ st' = [c \in Children |-> IF c \in Zombies THEN "reaped" ELSE st[c]]
          /\ \/ UNCHANGED main
             \/ main = "wait" /\ ~handler /\ main' = "closing"
    /\ UNCHANGED <<toSend, handler, pin, pout>>

\* child_work: mq_open, which fails once pout is unlinked.
Open(c) ==
    /\ st[c] = "start"
    /\ IF main = "done" THEN Err ELSE st' = [st EXCEPT ![c] = "open"] /\ UNCHANGED main
    /\ UNCHANGED <<toSend, handler, pin, pout>>

Receive(c) ==
    /\ st[c] = "open" /\ pout.n > 0
    /\ pout' = Take(pout) /\ st' = [st EXCEPT ![c] = "got"]
    /\ UNCHANGED <<main, toSend, handler, pin>>

\* A full pin is EAGAIN, and ERR.
Answer(c) ==
    /\ st[c] = "got"
    /\ IF Full(pin, MAX_NUM) THEN Err /\ UNCHANGED pin
       ELSE pin' = Put(pin) /\ st' = [st EXCEPT ![c] = "zombie"] /\ UNCHANGED main
    /\ UNCHANGED <<toSend, handler, pout>>

Parent == Fork \/ Register \/ SendNumber \/ Wait \/ Close \/ Unlink
Signal == EnterHandler \/ HandlerReceive \/ Sigchld
Child(c) == Open(c) \/ Receive(c) \/ Answer(c)

Next == Parent \/ Signal \/ \E c \in Children : Child(c)

Spec == Init /\ [][Next]_vars

\* Every process is scheduled and signals are delivered.
Fairness ==
    /\ WF_vars(Parent) /\ WF_vars(EnterHandler \/ HandlerReceive)
    /\ \A c \in Children : WF_vars(Child(c))

-----------------------------------------------------------------------------
\* The types of the variables.
TypeOK ==
    /\ main \in {"fork", "send", "wait", "closing", "closed", "done", "killed"}
    /\ toSend \in 0..Cardinality(Children) /\ handler \in BOOLEAN
    /\ st \in [Children -> {"none", "start", "open", "got", "zombie", "reaped"}]
    /\ pin \in Queue(MAX_NUM) /\ pout \in Queue(MAX_NUM)

\* An answer in pin has its signal on the way or the handler at work as long
\* as the parent has the queue: nothing is answered before the registration.
WakeupsKept ==
    pin.n > 0 /\ main \in {"fork", "send", "wait", "closing"} => pin.signal \/ handler

\* The parent ends, and though it may leave before its children there is a
\* number for each of them: they end too.
Ended == main \in {"done", "killed"} /\ Running = {}
=============================================================================
