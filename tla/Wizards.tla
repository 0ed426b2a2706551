------------------------------- MODULE Wizards -------------------------------
(***************************************************************************)
(* L4/EXERCISE3/wizards.c: one client at a time, and an end when it has    *)
(* sent five bytes or has left.  The flag is tested after all events of    *)
(* one epoll_wait, so one more connection may be accepted before the end.  *)
(* The client that is served is never written to, so its close is no reset.*)
(***************************************************************************)
EXTENDS Wire

CONSTANTS Ritual        \* bytes, 5 in the code

VARIABLES total         \* total_bytes

vars == <<wireVars, total>>

Init == WireInit /\ total = 0

\* fault: the count is lowered for everyone
AcceptUncounted(f) ==
    /\ up \in {"up", "last"} /\ AcceptAs(f) /\ epoll' = epoll \cup {f}
    /\ active' = 0
    /\ UNCHANGED <<up, pc, link, inq, told, sent, removed, refused, total>>

\* accept; the second client is told to go, and closed.  That write is the only one to it
\* and succeeds, even if the client has already closed its end.
Accept(f) ==
    /\ up \in {"up", "last"}
    /\ IF active = 0 THEN AcceptAs(f) /\ epoll' = epoll \cup {f} /\ active' = 1
       ELSE /\ backlog # <<>> /\ f = FreeFd /\ backlog' = Tail(backlog)
            /\ UNCHANGED <<peer, epoll, active>>
    /\ UNCHANGED <<up, pc, link, inq, told, sent, removed, refused, total>>

\* All the bytes there are; enough of them end the ritual, well or not.
Chant(f) ==
    LET c == peer[f]
    IN  /\ up = "up" /\ f \in epoll /\ inq[c] # <<>>
        /\ total' = total + Len(inq[c]) /\ inq' = [inq EXCEPT ![c] = <<>>]
        /\ IF total' >= Ritual
           THEN CloseFd(f) /\ active' = active - 1 /\ up' = "last"
           ELSE UNCHANGED <<peer, epoll, removed, active, up>>
        /\ UNCHANGED <<backlog, pc, link, told, sent, refused>>

Disconnect(f) ==
    /\ up = "up" /\ f \in epoll /\ EndSeen(peer[f])
    /\ CloseFd(f) /\ active' = active - 1 /\ up' = "last"
    /\ UNCHANGED <<backlog, pc, link, inq, told, sent, refused, total>>

Stop ==
    /\ up = "last" /\ up' = "stopped"
    /\ UNCHANGED <<peer, epoll, backlog, active, pc, link, inq, told, sent, removed, refused, total>>

Server == Stop \/ \E f \in Fds : Accept(f) \/ Chant(f) \/ Disconnect(f)

Next == Server \/ \E c \in Clients : Talk(c, {"x"}) /\ UNCHANGED total

-----------------------------------------------------------------------------
\* The types of the variables.
TypeOK == WireTypes /\ active \in {0, 1} /\ total \in Nat

\* The count is exact at all times and nobody else is served.
OneWizard == active = Cardinality(epoll) /\ Open = epoll

\* The server ends after enough bytes of one client after the other, or when one left.
EndsForAReason == up # "up" => total >= Ritual \/ \E c \in Clients : pc[c] = "left"
=============================================================================
