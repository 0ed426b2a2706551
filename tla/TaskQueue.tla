------------------------------ MODULE TaskQueue ------------------------------
(***************************************************************************)
(* L2/exercise2.c: the parent queues 5 n tasks, each of n workers takes 5. *)
(* SIGINT is handled in the parent and, by inheritance, in the workers:    *)
(* it sets stop_requested, which only the parent reads, and interrupts     *)
(* whatever call is blocked (no SA_RESTART).                               *)
(***************************************************************************)
EXTENDS Naturals, FiniteSets, MessageQueue

CONSTANTS Workers,      \* n of them, 2..20 in the code
          Share,        \* tasks of a worker, 5 in the code
          MAX_MSG,      \* mq_maxmsg, 10 in the code
          MaxSigints    \* bound: interrupts by the user

TaskAssumption ==
    /\ IsFiniteSet(Workers) /\ Workers # {}
    /\ {Share, MAX_MSG} \subseteq Nat \ {0} /\ MaxSigints \in Nat

VARIABLES main,         \* "fork", "send", "wait", "done" (queue unlinked), "killed"
          iter,         \* tasks the parent has still to send
          stop,         \* stop_requested of the parent
          st,           \* worker: "none", "start", "loop", "gone"
          tasks_done, queue,
          sigints

vars == <<main, iter, stop, st, tasks_done, queue, sigints>>

n == Cardinality(Workers)

Init ==
    /\ main = "fork" /\ iter = Share * n /\ stop = FALSE
    /\ st = [w \in Workers |-> "none"] /\ tasks_done = [w \in Workers |-> 0]
    /\ queue = Fresh /\ sigints = 0

\* ERR in a worker or in the parent: kill(0, SIGKILL).
Err ==
    /\ main' = IF main = "done" THEN main ELSE "killed"
    /\ st' = [w \in Workers |-> "gone"]

Fork ==
    /\ main = "fork"
    /\ IF \E w \in Workers : st[w] = "none"
         THEN \E w \in Workers : st[w] = "none" /\ st' = [st EXCEPT ![w] = "start"] /\ UNCHANGED main
         ELSE main' = "send" /\ UNCHANGED st
    /\ UNCHANGED <<iter, stop, tasks_done, queue, sigints>>

\* fault: the loop ends one task early
SendOneShort ==
    /\ main = "send"
    /\ IF ~stop /\ iter > 1
         THEN /\ ~Full(queue, MAX_MSG)
              /\ queue' = Put(queue) /\ iter' = iter - 1 /\ UNCHANGED main
         ELSE main' = "wait" /\ UNCHANGED <<iter, queue>>
    /\ UNCHANGED <<stop, st, tasks_done, sigints>>

\* parent_work: mq_send blocks while the queue is full.
Send ==
    /\ main = "send"
    /\ IF ~stop /\ iter > 0
         THEN /\ ~Full(queue, MAX_MSG)
              /\ queue' = Put(queue) /\ iter' = iter - 1 /\ UNCHANGED main
         ELSE main' = "wait" /\ UNCHANGED <<iter, queue>>
    /\ UNCHANGED <<stop, st, tasks_done, sigints>>

Reap ==
    /\ main = "wait" /\ \A w \in Workers : st[w] = "gone"
    /\ main' = "done"
    /\ UNCHANGED <<iter, stop, st, tasks_done, queue, sigints>>

\* child_work: mq_open fails once the queue is unlinked.
Start(w) ==
    /\ st[w] = "start"
    /\ IF main = "done" THEN Err
       ELSE st' = [st EXCEPT ![w] = "loop"] /\ UNCHANGED main
    /\ UNCHANGED <<iter, stop, tasks_done, queue, sigints>>

\* fault: a task that is taken is not counted when the queue is empty after it
ReceiveUncounted(w) ==
    /\ st[w] = "loop" /\ tasks_done[w] < Share /\ queue.n > 0
    /\ queue' = Take(queue)
    /\ tasks_done' = IF queue.n > 1 THEN [tasks_done EXCEPT ![w] = @ + 1] ELSE tasks_done
    /\ UNCHANGED <<main, iter, stop, st, sigints>>

Receive(w) ==
    /\ st[w] = "loop" /\ tasks_done[w] < Share /\ queue.n > 0
    /\ queue' = Take(queue)
    /\ tasks_done' = [tasks_done EXCEPT ![w] = @ + 1]
    /\ UNCHANGED <<main, iter, stop, st, sigints>>

Exit(w) ==
    /\ st[w] = "loop" /\ tasks_done[w] = Share
    /\ st' = [st EXCEPT ![w] = "gone"]
    /\ UNCHANGED <<main, iter, stop, tasks_done, queue, sigints>>

\* SIGINT to the parent: ERR in a blocked mq_send, the end of the wait loop
\* while workers run, or the flag alone.
Sigint ==
    /\ main \in {"fork", "send", "wait"} /\ sigints < MaxSigints
    /\ sigints' = sigints + 1 /\ stop' = TRUE
    /\ \/ main = "send" /\ iter > 0 /\ Full(queue, MAX_MSG) /\ Err
       \/ main = "wait" /\ main' = "done" /\ UNCHANGED st
       \/ UNCHANGED <<main, st>>
    /\ UNCHANGED <<iter, tasks_done, queue>>

\* SIGINT to a worker: ERR if it is blocked in mq_receive, else nothing.
WorkerSigint(w) ==
    /\ st[w] = "loop" /\ queue.n = 0 /\ tasks_done[w] < Share /\ sigints < MaxSigints
    /\ sigints' = sigints + 1 /\ Err
    /\ UNCHANGED <<iter, stop, tasks_done, queue>>

Parent == Fork \/ Send \/ Reap
Work(w) == Start(w) \/ Receive(w) \/ Exit(w)

Next == Parent \/ Sigint \/ \E w \in Workers : Work(w) \/ WorkerSigint(w)

Spec == Init /\ [][Next]_vars

\* Every process is scheduled.
Fairness == WF_vars(Parent) /\ \A w \in Workers : WF_vars(Work(w))

-----------------------------------------------------------------------------
\* The types of the variables.
TypeOK ==
    /\ main \in {"fork", "send", "wait", "done", "killed"}
    /\ iter \in 0..Share * n /\ stop \in BOOLEAN /\ sigints \in 0..MaxSigints
    /\ st \in [Workers -> {"none", "start", "loop", "gone"}]
    /\ tasks_done \in [Workers -> 0..Share] /\ queue \in Queue(MAX_MSG)

\* A worker without its share always has enough tasks to come, so a run nobody
\* interrupts ends with every task done and nothing in the queue.
SharesAddUp ==
    sigints = 0 =>
       iter + queue.n + Cardinality(UNION {{w} \X (1..tasks_done[w]) : w \in Workers}) = Share * n

\* A run nobody interrupts ends.
Ended == sigints > 0 \/ main = "done"
=============================================================================
