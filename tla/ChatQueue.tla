------------------------------ MODULE ChatQueue ------------------------------
(***************************************************************************)
(* L2/Exercise4: clients send "connect", "exit" and texts to one queue     *)
(* with priorities 0, 1 and 2, and the server counts who is there.         *)
(* mq_receive takes the highest priority first, so that texts overtake     *)
(* exits and both the connect.  The server reads in main and, after a      *)
(* notification, in sigusr1_handler, each with a count of its own.         *)
(***************************************************************************)
EXTENDS Integers, FiniteSets

CONSTANTS Guests,       \* clients that are started
          MAX_CLIENTS,  \* 8 in the code
          Room,         \* mq_maxmsg, 10 in the code
          Texts         \* texts a client types at most

ChatAssumption ==
    /\ IsFiniteSet(Guests) /\ {MAX_CLIENTS, Room} \subseteq Nat \ {0} /\ Texts \in Nat

VARIABLES server,       \* "loop", "blocked", "handler", "hblocked", "dead"
          currentcli,   \* main's count
          clients,      \* the count of the handler
          waiting,      \* messages in the queue by priority
          armed,        \* signal mq_notify asked for: "none", "USR1", "RTMIN"
          signal,       \* SIGUSR1 is on its way
          guest,        \* "out", "in"; "told" or "silent" once it has left
          typed         \* texts a guest has sent

vars == <<server, currentcli, clients, waiting, armed, signal, guest, typed>>

connect == 0
exit == 1
text == 2

\* mq_open and the first mq_notify.
Init ==
    /\ server = "loop" /\ currentcli = 0 /\ clients = 0
    /\ waiting = [p \in 0..2 |-> 0] /\ armed = "USR1" /\ signal = FALSE
    /\ guest = [g \in Guests |-> "out"] /\ typed = [g \in Guests |-> 0]

Queued == waiting[connect] + waiting[exit] + waiting[text]
First  == CHOOSE p \in 0..2 : waiting[p] > 0 /\ \A q \in p + 1..2 : waiting[q] = 0

\* What a message does to a count.
Counted(n, p) == IF p = connect THEN n + 1 ELSE IF p = exit THEN n - 1 ELSE n

\* One mq_receive of main.  At MAX_CLIENTS main prints and never reads again.
Receive ==
    /\ server = "loop" /\ currentcli # MAX_CLIENTS
    /\ IF Queued > 0
         THEN /\ currentcli' = Counted(currentcli, First)
              /\ waiting' = [waiting EXCEPT ![First] = @ - 1] /\ UNCHANGED server
         ELSE /\ ~signal /\ server' = "blocked" /\ UNCHANGED <<currentcli, waiting>>
    /\ UNCHANGED <<clients, armed, signal, guest, typed>>

\* sigusr1_handler registers again, for SIGRTMIN, which nobody handles.
EnterHandler ==
    /\ server = "loop" /\ signal
    /\ server' = "handler" /\ signal' = FALSE /\ armed' = "RTMIN"
    /\ UNCHANGED <<currentcli, clients, waiting, guest, typed>>

\* fault: an exit is not counted
HandlerReceiveNoExit ==
    /\ server = "handler"
    /\ \/ /\ clients = MAX_CLIENTS
          /\ server' = "loop" /\ UNCHANGED <<clients, waiting>>
       \/ /\ clients # MAX_CLIENTS /\ Queued > 0
          /\ clients' = IF First = exit THEN clients ELSE Counted(clients, First)
          /\ waiting' = [waiting EXCEPT ![First] = @ - 1] /\ UNCHANGED server
       \/ /\ clients # MAX_CLIENTS /\ Queued = 0
          /\ server' = "hblocked" /\ UNCHANGED <<clients, waiting>>
    /\ UNCHANGED <<currentcli, armed, signal, guest, typed>>

\* The handler's loop: back to main only when it has counted MAX_CLIENTS itself.
HandlerReceive ==
    /\ server = "handler"
    /\ \/ /\ clients = MAX_CLIENTS
          /\ server' = "loop" /\ UNCHANGED <<clients, waiting>>
       \/ /\ clients # MAX_CLIENTS /\ Queued > 0
          /\ clients' = Counted(clients, First)
          /\ waiting' = [waiting EXCEPT ![First] = @ - 1] /\ UNCHANGED server
       \/ /\ clients # MAX_CLIENTS /\ Queued = 0
          /\ server' = "hblocked" /\ UNCHANGED <<clients, waiting>>
    /\ UNCHANGED <<currentcli, armed, signal, guest, typed>>

\* mq_send: to a receiver that is blocked at once; otherwise into the queue, and
\* the notification is used up by the message that finds it empty.
Send(p) ==
    /\ Queued < Room
    /\ \/ /\ server = "blocked" /\ server' = "loop"
          /\ currentcli' = Counted(currentcli, p)
          /\ UNCHANGED <<clients, waiting, armed, signal>>
       \/ /\ server = "hblocked" /\ server' = "handler"
          /\ clients' = Counted(clients, p)
          /\ UNCHANGED <<currentcli, waiting, armed, signal>>
       \/ /\ server \notin {"blocked", "hblocked"}
          /\ waiting' = [waiting EXCEPT ![p] = @ + 1]
          /\ IF Queued = 0 /\ server # "dead"
               THEN /\ armed' = "none"
                    /\ signal' = (signal \/ armed = "USR1")
                    /\ server' = IF armed = "RTMIN" THEN "dead" ELSE server
               ELSE UNCHANGED <<armed, signal, server>>
          /\ UNCHANGED <<currentcli, clients>>

Join(g) ==
    /\ guest[g] = "out" /\ Send(connect)
    /\ guest' = [guest EXCEPT ![g] = "in"] /\ UNCHANGED typed

Say(g) ==
    /\ guest[g] = "in" /\ typed[g] < Texts /\ Send(text)
    /\ typed' = [typed EXCEPT ![g] = @ + 1] /\ UNCHANGED guest

\* "exit", or the end of the input, of which the server is not told.
Leave(g) ==
    /\ guest[g] = "in"
    /\ \/ Send(exit) /\ guest' = [guest EXCEPT ![g] = "told"]
       \/ /\ guest' = [guest EXCEPT ![g] = "silent"]
          /\ UNCHANGED <<server, currentcli, clients, waiting, armed, signal>>
    /\ UNCHANGED typed

Serve == Receive \/ EnterHandler \/ HandlerReceive
Next == Serve \/ \E g \in Guests : Join(g) \/ Say(g) \/ Leave(g)
Spec == Init /\ [][Next]_vars

\* The server is scheduled; people type when they like.
Fairness == WF_vars(Serve)

-----------------------------------------------------------------------------
\* The types of the variables; a count may be negative.
TypeOK ==
    /\ server \in {"loop", "blocked", "handler", "hblocked", "dead"}
    /\ currentcli \in -Cardinality(Guests)..MAX_CLIENTS
    /\ clients \in -Cardinality(Guests)..MAX_CLIENTS
    /\ waiting \in [0..2 -> 0..Room] /\ armed \in {"none", "USR1", "RTMIN"}
    /\ signal \in BOOLEAN
    /\ guest \in [Guests -> {"out", "in", "told", "silent"}]
    /\ typed \in [Guests -> 0..Texts]

\* However messages overtake each other and whoever reads them, the two counts and
\* the queue together are the clients that have not said exit.
MembersCounted ==
    currentcli + clients + waiting[connect] - waiting[exit]
        = Cardinality({g \in Guests : guest[g] \in {"in", "silent"}})

\* The queue is read out for good, unless main is full or the second notification
\* has killed the server.
ReadOut == server = "dead" \/ currentcli = MAX_CLIENTS \/ Queued = 0
=============================================================================
