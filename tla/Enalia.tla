-------------------------------- MODULE Enalia --------------------------------
(***************************************************************************)
(* L4/Consultations/sop-enalia.c: a chat server that greets and prints.    *)
(* The number of connections only grows, a client that is turned away is   *)
(* told so and never closed, and its descriptor is not polled.  SIGPIPE is *)
(* blocked and EPIPE ignored.                                              *)
(***************************************************************************)
EXTENDS Wire

CONSTANTS MAX_CLIENTS

vars == wireVars

Init == WireInit

\* accept, and the greeting or "Server is full" to the new client itself.  All writes of
\* one accept are one: a client that was not written to before has at most sent its FIN,
\* so the first one succeeds, and EPIPE on a later one is ignored in the greeting.  The
\* full server writes once, so the close on EPIPE is never reached.
Accept(f) ==
    /\ up = "up" /\ AcceptAs(f) /\ WriteTo(Head(backlog))
    /\ IF active < MAX_CLIENTS
       THEN active' = active + 1 /\ epoll' = epoll \cup {f} /\ UNCHANGED refused
       ELSE refused' = refused \cup {Head(backlog)} /\ UNCHANGED <<active, epoll>>
    /\ UNCHANGED <<up, pc, inq, sent, removed>>

\* A message is printed.
Message(f) ==
    /\ up = "up" /\ f \in epoll /\ inq[peer[f]] # <<>>
    /\ inq' = [inq EXCEPT ![peer[f]] = <<>>]
    /\ UNCHANGED <<up, peer, epoll, backlog, active, pc, link, told, sent, removed, refused>>

\* fault: the end of file is printed like a message
DisconnectUnclosed(f) ==
    /\ up = "up" /\ f \in epoll /\ EndSeen(peer[f])
    /\ epoll' = epoll \ {f} /\ removed' = TRUE
    /\ UNCHANGED <<up, peer, backlog, active, pc, link, inq, told, sent, refused>>

Disconnect(f) ==
    /\ up = "up" /\ f \in epoll /\ EndSeen(peer[f])
    /\ CloseFd(f)
    /\ UNCHANGED <<up, backlog, active, pc, link, inq, told, sent, refused>>

ReadReset(f) ==
    /\ up = "up" /\ f \in epoll /\ ResetSeen(peer[f]) /\ up' = "crashed"
    /\ UNCHANGED <<peer, epoll, backlog, active, pc, link, inq, told, sent, removed, refused>>

Server == \E f \in Fds : Accept(f) \/ Message(f) \/ Disconnect(f) \/ ReadReset(f)

Next == Server \/ \E c \in Clients : Talk(c, {"x"})

-----------------------------------------------------------------------------
\* The types of the variables.
TypeOK == WireTypes /\ active <= MAX_CLIENTS

\* The count is the number of clients served, until the first of them leaves.
ExactUntilFirstLeave == ~removed => active = Cardinality(epoll)

\* The open descriptors that nobody polls are those of the clients turned away, each of
\* them and no other.
TurnedAwayLeak == {peer[f] : f \in Open \ epoll} = refused

CrashNeedsALeave == up = "crashed" => \E c \in Clients : pc[c] = "left"
=============================================================================
