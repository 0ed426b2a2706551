------------------------------- MODULE Electors -------------------------------
(***************************************************************************)
(* L4/EXERCISE2/sop-hre.c: a client's first byte is its district, read in  *)
(* the middle of accept; every later byte is a vote.  The array of clients *)
(* is that of Messengers: remove_client gets the count by value.  SIGPIPE  *)
(* is blocked.  The byte behind buf, which atoi may look at, is taken for  *)
(* no digit.  A client without a district is welcomed again in main, but   *)
(* there is none (EveryoneHasADistrict), so that branch is left out.       *)
(***************************************************************************)
EXTENDS Wire

CONSTANTS MAX_CLIENTS

VARIABLES serving,      \* what the server is in the middle of
          elist         \* ClientList

vars == <<wireVars, serving, elist>>

\* 1 is a district and a vote, 5 a district only, "x" neither, "nl" a newline.
Bytes     == {"1", "5", "x", "nl"}
Districts == {"1", "5"}
Polling   == [at |-> "poll", fd |-> 0]
NoEntry   == [fd |-> 0, district |-> FALSE]
Listed    == {elist[i].fd : i \in 1..active}

Init ==
    /\ WireInit /\ serving = Polling /\ elist = [i \in 1..MAX_CLIENTS |-> NoEntry]

Crash == up' = "crashed" /\ UNCHANGED <<peer, epoll, backlog, active, pc, link, told, sent, removed, refused, elist>>

\* accept; a full server closes the connection at once, otherwise it goes on to
\* wait for the district.
Accept(f) ==
    /\ up = "up" /\ serving = Polling
    /\ IF active < MAX_CLIENTS
       THEN /\ AcceptAs(f) /\ epoll' = epoll \cup {f}
            /\ elist' = [elist EXCEPT ![active + 1] = [fd |-> f, district |-> FALSE]]
            /\ serving' = [at |-> "welcome", fd |-> f]
       ELSE /\ backlog # <<>> /\ f = FreeFd /\ backlog' = Tail(backlog)
            /\ UNCHANGED <<peer, epoll, elist, serving>>
    /\ UNCHANGED <<up, active, pc, link, inq, told, sent, removed, refused>>

\* The three ways a write ends: it succeeds; EPIPE, and the descriptor is closed
\* but stays in the array; ECONNRESET, and ERR.
Answer(f) ==
    \/ link[peer[f]] \in {"open", "fin"} /\ WriteTo(peer[f]) /\ UNCHANGED <<up, peer, epoll, removed>>
    \/ link[peer[f]] = "dead" /\ CloseFd(f) /\ UNCHANGED <<up, link, told>>
    \/ link[peer[f]] = "rst" /\ up' = "crashed" /\ UNCHANGED <<peer, epoll, removed, link, told>>

\* One read of one byte in which the server blocks; at the end of file the
\* district is whatever buf holds.
Reads(c, b) ==
    \/ inq[c] # <<>> /\ b = Head(inq[c]) /\ inq' = [inq EXCEPT ![c] = Tail(@)]
    \/ EndSeen(c) /\ UNCHANGED inq

\* fault: a wrong district is only reported
WelcomeAny(b) ==
    LET f == serving.fd
    IN  /\ up = "up" /\ serving.at = "welcome" /\ Reads(peer[f], b)
        /\ elist' = [elist EXCEPT ![active + 1].district = b \in Districts]
        /\ active' = active + 1 /\ serving' = Polling
        /\ Answer(f)
        /\ UNCHANGED <<backlog, pc, sent, refused>>

\* A district is entered and answered; only then is the client counted.
Welcome(b) ==
    LET f == serving.fd
    IN  /\ up = "up" /\ serving.at = "welcome" /\ Reads(peer[f], b) /\ b \in Districts
        /\ elist' = [elist EXCEPT ![active + 1].district = TRUE]
        /\ active' = active + 1 /\ serving' = Polling
        /\ Answer(f)
        /\ UNCHANGED <<backlog, pc, sent, refused>>

\* The descriptor is closed, then written to: EBADF is ERR, unless the name of
\* district 0 or beyond traps before.
WrongDistrict(b) ==
    /\ up = "up" /\ serving.at = "welcome" /\ Reads(peer[serving.fd], b) /\ b \notin Districts
    /\ Crash /\ UNCHANGED serving

ReadReset ==
    /\ up = "up" /\ serving # Polling /\ ResetSeen(peer[serving.fd])
    /\ Crash /\ UNCHANGED <<inq, serving>>

\* An event of a client found in the array.
Poll(f) ==
    /\ up = "up" /\ serving = Polling /\ f \in epoll \cap Listed
    /\ inq[peer[f]] # <<>> \/ link[peer[f]] # "open"
    /\ serving' = [at |-> "vote", fd |-> f]
    /\ UNCHANGED <<wireVars, elist>>

\* recv_votes reads on after a newline, and blocks there if need be.
SkipNewline ==
    /\ up = "up" /\ serving.at = "vote" /\ inq[peer[serving.fd]] # <<>>
    /\ Head(inq[peer[serving.fd]]) = "nl"
    /\ inq' = [inq EXCEPT ![peer[serving.fd]] = Tail(@)]
    /\ UNCHANGED <<up, peer, epoll, backlog, active, pc, link, told, sent, removed, refused, serving, elist>>

\* The shift of remove_client; the last entry stays twice.
Shift(f) ==
    LET at == {i \in 1..active : elist[i].fd = f}
    IN  IF at = {} THEN elist
        ELSE [i \in DOMAIN elist |-> IF i >= Min(at) /\ i < active THEN elist[i + 1] ELSE elist[i]]

Disconnect ==
    LET f == serving.fd
    IN  /\ up = "up" /\ serving.at = "vote" /\ EndSeen(peer[f])
        /\ CloseFd(f) /\ elist' = Shift(f) /\ serving' = Polling
        /\ UNCHANGED <<up, backlog, active, pc, link, inq, told, sent, refused>>

\* A vote is answered; anything else closes the connection and leaves it in the array.
Vote(b) ==
    LET f == serving.fd
    IN  /\ up = "up" /\ serving.at = "vote" /\ inq[peer[f]] # <<>> /\ b = Head(inq[peer[f]]) /\ b # "nl"
        /\ inq' = [inq EXCEPT ![peer[f]] = Tail(@)]
        /\ IF b = "1" THEN Answer(f) ELSE CloseFd(f) /\ UNCHANGED <<up, link, told>>
        /\ serving' = Polling
        /\ UNCHANGED <<backlog, active, pc, sent, refused, elist>>

Server ==
    \/ (\E f \in Fds : Accept(f) \/ Poll(f)) \/ ReadReset \/ SkipNewline \/ Disconnect
    \/ \E b \in Bytes : Welcome(b) \/ WrongDistrict(b) \/ Vote(b)

Next == Server \/ \E c \in Clients : Talk(c, Bytes) /\ UNCHANGED <<serving, elist>>

-----------------------------------------------------------------------------
\* The types of the variables.
TypeOK ==
    /\ WireTypes /\ active <= MAX_CLIENTS
    /\ serving \in [at : {"poll", "welcome", "vote"}, fd : Fds \cup {0}]
    /\ elist \in [1..MAX_CLIENTS -> [fd : Fds \cup {0}, district : BOOLEAN]]

\* Whatever was removed or only closed before, an event of a polled client finds it in
\* the array (otherwise epoll_wait would report it again for ever).
NobodyForgotten == serving.at # "welcome" => epoll \subseteq Listed

\* Every client in the array has chosen a district before its next byte is read.
EveryoneHasADistrict == \A i \in 1..active : elist[i].district

\* Until the first close the array is exact.
ExactUntilFirstClose ==
    ~removed /\ serving.at # "welcome" => Listed = epoll /\ active = Cardinality(epoll)

\* No descriptor is open that is not polled: who is turned away is closed.
NothingUnpolled == Open = epoll

\* The server ends itself only when somebody has left, or chose no district.
CrashCause ==
    up = "crashed" => (\E c \in Clients : pc[c] = "left") \/ serving.at = "welcome"
=============================================================================
