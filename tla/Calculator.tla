----------------------------- MODULE Calculator -----------------------------
(***************************************************************************)
(* L2/sop-server.c and L2/sop-client.c: the server opens four queues,      *)
(* takes one request and sends the sum, quotient or remainder of its own   *)
(* arguments through the queue of that name; a client opens the queues,    *)
(* asks, reads the answer and unlinks all four.  Nothing orders the two    *)
(* but sleeps, which order nothing, so a server that is started again may  *)
(* open a queue that a client is about to unlink.                          *)
(***************************************************************************)
EXTENDS Naturals, Sequences, FiniteSets

CONSTANTS Askers,       \* clients that are started
          MaxRuns       \* bound: times the server is started

CalculatorAssumption == IsFiniteSet(Askers) /\ MaxRuns \in Nat

Answers  == {"pid_s", "pid_d", "pid_m"}
Names    == Answers \cup {"client_queue"}
Requests == Answers \cup {"other"}

VARIABLES runs,         \* times the server was started
          server,       \* "off", "open", "receive"
          zero,         \* its second argument is 0
          name,         \* run that created the queue of this name, 0 without one
          fd,           \* the server's queues; as long as it has opened
          asks,         \* requests in each queue that was a client_queue
          replies,      \* number of answers in each other queue
          asker,        \* client: "off", "open", "send", "wait", "unlink", "done", "dead"
          cfd,          \* its queues, in the order of its opens
          unlinked,     \* names it has unlinked
          ask           \* its argument

vars == <<runs, server, zero, name, fd, asks, replies, asker, cfd, unlinked, ask>>
clientVars == <<asker, cfd, unlinked, ask>>

ServerOpens == <<"pid_s", "pid_d", "pid_m", "client_queue">>
ClientOpens == <<"client_queue", "pid_s", "pid_d", "pid_m">>

Init ==
    /\ runs = 0 /\ server = "off" /\ zero = FALSE /\ fd = <<>>
    /\ name = [n \in Names |-> 0]
    /\ asks = [r \in 1..MaxRuns |-> <<>>]
    /\ replies = [n \in Answers |-> [r \in 1..MaxRuns |-> 0]]
    /\ asker = [c \in Askers |-> "off"] /\ cfd = [c \in Askers |-> <<>>]
    /\ unlinked = [c \in Askers |-> 0] /\ ask \in [Askers -> Requests]

Start ==
    /\ server = "off" /\ runs < MaxRuns
    /\ runs' = runs + 1 /\ server' = "open" /\ zero' \in BOOLEAN /\ fd' = <<>>
    /\ UNCHANGED <<name, asks, replies, clientVars>>

\* mq_open with O_CREAT: the queue of that name, or a new one.
Open ==
    /\ server = "open"
    /\ LET n == ServerOpens[Len(fd) + 1]
           q == IF name[n] = 0 THEN runs ELSE name[n]
       IN /\ name' = [name EXCEPT ![n] = q] /\ fd' = Append(fd, q)
          /\ server' = IF Len(fd') = Len(ServerOpens) THEN "receive" ELSE server
    /\ UNCHANGED <<runs, zero, asks, replies, clientVars>>

\* One request, then the end; x / 0 and x % 0 are SIGFPE, and a name that is none of
\* the three has no answer.
Serve ==
    /\ server = "receive" /\ asks[fd[4]] # <<>>
    /\ LET a == Head(asks[fd[4]])
           q == CHOOSE i \in 1..4 : ServerOpens[i] = a
       IN IF a = "other" \/ (zero /\ a # "pid_s")
            THEN UNCHANGED replies
            ELSE replies' = [replies EXCEPT ![a][fd[q]] = @ + 1]
    /\ asks' = [asks EXCEPT ![fd[4]] = Tail(@)] /\ server' = "off"
    /\ UNCHANGED <<runs, zero, name, fd, clientVars>>

\* The user's Ctrl-C.
InterruptServer ==
    /\ server # "off" /\ server' = "off"
    /\ UNCHANGED <<runs, zero, name, fd, asks, replies, clientVars>>

Interrupt(c) ==
    /\ asker[c] \notin {"off", "done", "dead"}
    /\ asker' = [asker EXCEPT ![c] = "dead"]
    /\ UNCHANGED <<runs, server, zero, name, fd, asks, replies, cfd, unlinked, ask>>

StartClient(c) ==
    /\ asker[c] = "off" /\ asker' = [asker EXCEPT ![c] = "open"]
    /\ UNCHANGED <<runs, server, zero, name, fd, asks, replies, cfd, unlinked, ask>>

\* mq_open without O_CREAT; ERR kills a client that finds no queue.
ClientOpen(c) ==
    /\ asker[c] = "open"
    /\ LET q == name[ClientOpens[Len(cfd[c]) + 1]]
       IN IF q = 0
            THEN asker' = [asker EXCEPT ![c] = "dead"] /\ UNCHANGED cfd
            ELSE /\ cfd' = [cfd EXCEPT ![c] = Append(@, q)]
                 /\ asker' = [asker EXCEPT ![c] =
                                IF Len(cfd'[c]) = Len(ClientOpens) THEN "send" ELSE @]
    /\ UNCHANGED <<runs, server, zero, name, fd, asks, replies, unlinked, ask>>

\* Only for the three names does the client wait for an answer.
Ask(c) ==
    /\ asker[c] = "send"
    /\ asks' = [asks EXCEPT ![cfd[c][1]] = Append(@, ask[c])]
    /\ asker' = [asker EXCEPT ![c] = IF ask[c] \in Answers THEN "wait" ELSE "unlink"]
    /\ UNCHANGED <<runs, server, zero, name, fd, replies, cfd, unlinked, ask>>

\* The client's queue of the answer it waits for.
AnswerQueue(c) == cfd[c][CHOOSE i \in 1..4 : ClientOpens[i] = ask[c]]

ReadAnswer(c) ==
    /\ asker[c] = "wait" /\ replies[ask[c]][AnswerQueue(c)] > 0
    /\ replies' = [replies EXCEPT ![ask[c]][AnswerQueue(c)] = @ - 1]
    /\ asker' = [asker EXCEPT ![c] = "unlink"]
    /\ UNCHANGED <<runs, server, zero, name, fd, asks, cfd, unlinked, ask>>

\* fault: the queue of requests is left
UnlinkAnswers(c) ==
    /\ asker[c] = "unlink"
    /\ IF unlinked[c] = 0
         THEN unlinked' = [unlinked EXCEPT ![c] = 1] /\ UNCHANGED <<name, asker>>
         ELSE LET n == ClientOpens[unlinked[c] + 1]
              IN /\ name[n] # 0 /\ name' = [name EXCEPT ![n] = 0]
                 /\ unlinked' = [unlinked EXCEPT ![c] = @ + 1]
                 /\ asker' = [asker EXCEPT ![c] =
                                IF unlinked'[c] = Len(ClientOpens) THEN "done" ELSE @]
    /\ UNCHANGED <<runs, server, zero, fd, asks, replies, cfd, ask>>

\* One mq_unlink; a name that is gone is ERR.
Unlink(c) ==
    /\ asker[c] = "unlink"
    /\ LET n == ClientOpens[unlinked[c] + 1]
       IN IF name[n] = 0
            THEN asker' = [asker EXCEPT ![c] = "dead"] /\ UNCHANGED <<name, unlinked>>
            ELSE /\ name' = [name EXCEPT ![n] = 0]
                 /\ unlinked' = [unlinked EXCEPT ![c] = @ + 1]
                 /\ asker' = [asker EXCEPT ![c] =
                                IF unlinked'[c] = Len(ClientOpens) THEN "done" ELSE @]
    /\ UNCHANGED <<runs, server, zero, fd, asks, replies, cfd, ask>>

Client(c) == ClientOpen(c) \/ Ask(c) \/ ReadAnswer(c) \/ Unlink(c)

Next == \/ Start \/ Open \/ Serve \/ InterruptServer
        \/ \E c \in Askers : StartClient(c) \/ Client(c) \/ Interrupt(c)
Spec == Init /\ [][Next]_vars

\* What has been started is scheduled.
Fairness == WF_vars(Open \/ Serve) /\ \A c \in Askers : WF_vars(Client(c))

-----------------------------------------------------------------------------
\* The types of the variables.
TypeOK ==
    /\ runs \in 0..MaxRuns /\ server \in {"off", "open", "receive"} /\ zero \in BOOLEAN
    /\ name \in [Names -> 0..MaxRuns]
    /\ Len(fd) <= 4 /\ \A i \in DOMAIN fd : fd[i] \in 1..MaxRuns
    /\ \A r \in 1..MaxRuns : \A i \in DOMAIN asks[r] : asks[r][i] \in Requests
    /\ \A n \in Answers, r \in 1..MaxRuns : replies[n][r] \in 0..MaxRuns
    /\ asker \in [Askers -> {"off", "open", "send", "wait", "unlink", "done", "dead"}]
    /\ \A c \in Askers : Len(cfd[c]) <= 4 /\ unlinked[c] \in 0..4

\* When every client has ended well and the server is off, no name leads to an old
\* request or answer, which the next client would take for its own.
NothingStale ==
    server = "off" /\ (\A c \in Askers : asker[c] \in {"off", "done"})
        => /\ \A n \in Answers : name[n] # 0 => replies[n][name[n]] = 0
           /\ name["client_queue"] # 0 => asks[name["client_queue"]] = <<>>

\* For good, no request waits in the queue the server reads and no answer in the
\* queue a client reads.
Settled ==
    /\ server = "receive" => asks[fd[4]] = <<>>
    /\ \A c \in Askers : asker[c] = "wait" => replies[ask[c]][AnswerQueue(c)] = 0
=============================================================================
