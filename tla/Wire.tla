--------------------------------- MODULE Wire ---------------------------------
(***************************************************************************)
(* What the epoll servers of L4 other than Messengers have in common:      *)
(* clients such as netcat, the connections as TCP keeps them, and the      *)
(* descriptors of the server.  As in Messengers, one epoll event is        *)
(* handled in one step unless the handler blocks in a read.                *)
(***************************************************************************)
EXTENDS Integers, Sequences, FiniteSets, FiniteSetsExt, SequencesExt

CONSTANTS Clients, Nobody,
          MaxBytes          \* bound: bytes one client sends

VARIABLES up,           \* server: "up", "crashed"; "last" and "stopped" where a server ends
          peer, epoll,  \* per open descriptor the client behind it; those polled
          backlog,      \* connections not accepted yet
          active,       \* connections the server counts
          pc,           \* client: "out", "in", "left"
          link,         \* client's end: "open", "fin", "rst", or "dead" once a write after
                        \* "fin" was answered by a reset
          inq,          \* bytes under way to the server
          told,         \* the server ever wrote to the client
          sent,         \* bytes the client sent
          removed,      \* history: some polled connection was closed
          refused       \* history: clients a full Enalia turned away

wireVars == <<up, peer, epoll, backlog, active, pc, link, inq, told, sent, removed, refused>>

Fds == 1..Cardinality(Clients)

WireInit ==
    /\ up = "up" /\ peer = [f \in Fds |-> Nobody] /\ epoll = {} /\ backlog = <<>> /\ active = 0
    /\ pc = [c \in Clients |-> "out"] /\ link = [c \in Clients |-> "open"]
    /\ inq = [c \in Clients |-> <<>>] /\ told = [c \in Clients |-> FALSE]
    /\ sent = [c \in Clients |-> 0] /\ removed = FALSE
    /\ refused = {}

-----------------------------------------------------------------------------
(* The clients.                                                            *)
Connect(c) ==
    /\ pc[c] = "out" /\ up = "up"
    /\ pc' = [pc EXCEPT ![c] = "in"] /\ backlog' = Append(backlog, c)
    /\ UNCHANGED <<up, peer, epoll, active, link, inq, told, sent, removed, refused>>

Connected(c) == pc[c] = "in" /\ (c \in ToSet(backlog) \/ \E f \in Fds : peer[f] = c)

Send(c, b) ==
    /\ Connected(c) /\ sent[c] < MaxBytes
    /\ inq' = [inq EXCEPT ![c] = Append(@, b)] /\ sent' = [sent EXCEPT ![c] = @ + 1]
    /\ UNCHANGED <<up, peer, epoll, backlog, active, pc, link, told, removed, refused>>

\* A close with unread bytes is a reset, otherwise a FIN.
Close(c, l) ==
    /\ Connected(c) /\ l \in {"fin", "rst"} /\ (l = "rst" => told[c])
    /\ pc' = [pc EXCEPT ![c] = "left"] /\ link' = [link EXCEPT ![c] = l]
    /\ UNCHANGED <<up, peer, epoll, backlog, active, inq, told, sent, removed, refused>>

Talk(c, bytes) == Connect(c) \/ (\E b \in bytes : Send(c, b)) \/ \E l \in {"fin", "rst"} : Close(c, l)

-----------------------------------------------------------------------------
(* The server's calls.                                                     *)
FreeFd    == Min({f \in Fds : peer[f] = Nobody})
EndSeen(c)   == inq[c] = <<>> /\ link[c] \in {"fin", "dead"}       \* read returns 0
ResetSeen(c) == inq[c] = <<>> /\ link[c] = "rst"                   \* ECONNRESET

\* accept, under the lowest free number.
AcceptAs(f) ==
    /\ backlog # <<>> /\ f = FreeFd /\ backlog' = Tail(backlog)
    /\ peer' = [peer EXCEPT ![f] = Head(backlog)]

\* A write that reaches the socket; one to a client that has gone brings a reset, in time.
WriteTo(c) ==
    /\ told' = [told EXCEPT ![c] = TRUE]
    /\ \E l \in IF link[c] = "fin" THEN {"fin", "dead"} ELSE {link[c]} : link' = [link EXCEPT ![c] = l]

\* close, which also takes the descriptor out of the epoll set.
CloseFd(f) ==
    peer' = [peer EXCEPT ![f] = Nobody] /\ epoll' = epoll \ {f} /\ removed' = TRUE

-----------------------------------------------------------------------------
\* The types of the variables.
WireTypes ==
    /\ up \in {"up", "last", "stopped", "crashed"} /\ peer \in [Fds -> Clients \cup {Nobody}]
    /\ epoll \subseteq Fds /\ active \in Nat /\ told \in [Clients -> BOOLEAN]
    /\ pc \in [Clients -> {"out", "in", "left"}] /\ removed \in BOOLEAN
    /\ link \in [Clients -> {"open", "fin", "rst", "dead"}] /\ sent \in [Clients -> 0..MaxBytes]
    /\ refused \subseteq Clients

Open == {f \in Fds : peer[f] # Nobody}
=============================================================================
