------------------------------ MODULE Messengers ------------------------------
(***************************************************************************)
(* L4/Messengers: server.c keeps its clients in an array beside an epoll   *)
(* set and forwards every change of a city's owner to all but the sender;  *)
(* client.c keeps a table of its own.  remove_client gets the number of    *)
(* connections by value, so the array of main never gets shorter.          *)
(* One epoll event is handled in one step: the server is a single thread   *)
(* and a write to one socket does not depend on the others.                *)
(***************************************************************************)
EXTENDS Integers, Sequences, FiniteSets, FiniteSetsExt, SequencesExt

CONSTANTS Clients, Nobody,
          MAX_CLIENTS,
          Cities,               \* bound: city numbers in use, 20 in the code
          MaxCommands           \* bound: changes one client sends

ClientAssumption == IsFiniteSet(Clients) /\ Nobody \notin Clients
SizeAssumption   == MAX_CLIENTS \in Nat \ {0} /\ MaxCommands \in Nat /\ Cities \subseteq 1..20

Fds      == 1..Cardinality(Clients)
Changes  == [city : Cities, owner : {"g", "p"}]
Messages == [city : Cities, owner : {"g", "p", "x"}]   \* "m" sends any letter: "x"
Full     == [city |-> 0, owner |-> "full"]      \* "Server is full"

VARIABLES up,           \* server: "up", "stopped" by SIGINT, "crashed"
          peer,         \* per descriptor: the client at the other end
          epoll,        \* descriptors registered with EPOLL_CTL_ADD
          list, active, \* ClientList and active_connections of main
          ownership,    \* city_ownership
          backlog,      \* connections not accepted yet
          pc, turn,     \* client: "out", "idle", "loop", "left"; events[] still to handle
          ready,        \* client: events[] of its only epoll_wait
          link,         \* client's socket: "open", "fin", "rst", or "dead" once a
                        \* write after "fin" was answered by a reset
          inq, chan,    \* bytes under way to the server, to the client
          told,         \* the server ever wrote to the client
          table, sent,  \* ownership_table of the client; changes it sent
          removed,      \* history: some connection was removed
          refused       \* history: clients that found the server full

serverVars == <<up, peer, epoll, list, active, ownership, removed, refused>>
clientVars == <<pc, turn, ready, table, sent>>
netVars    == <<backlog, link, inq, chan, told>>
vars == <<serverVars, clientVars, netVars>>

Init ==
    /\ up = "up" /\ peer = [f \in Fds |-> Nobody] /\ epoll = {}
    /\ list = [i \in 1..MAX_CLIENTS |-> 0] /\ active = 0
    /\ ownership = [k \in Cities |-> "g"] /\ removed = FALSE /\ refused = {}
    /\ backlog = <<>>
    /\ pc = [c \in Clients |-> "out"]
    /\ turn = [c \in Clients |-> <<>>] /\ ready = [c \in Clients |-> <<>>]
    /\ link = [c \in Clients |-> "open"]
    /\ inq = [c \in Clients |-> <<>>] /\ chan = [c \in Clients |-> <<>>]
    /\ told = [c \in Clients |-> FALSE]
    /\ table = [c \in Clients |-> [k \in Cities |-> "g"]]
    /\ sent = [c \in Clients |-> 0]

-----------------------------------------------------------------------------
(* The server.                                                             *)
Crash == up' = "crashed"
FreeFd == Min({f \in Fds : peer[f] = Nobody})

\* fault: the bound of the array is checked too late
AcceptTooMany(f) ==
    /\ up = "up" /\ backlog # <<>> /\ f = FreeFd
    /\ peer' = [peer EXCEPT ![f] = Head(backlog)]
    /\ backlog' = Tail(backlog)
    /\ list' = [list EXCEPT ![active + 1] = f]
    /\ active' = active + 1 /\ epoll' = epoll \cup {f}
    /\ UNCHANGED <<up, ownership, removed, refused, clientVars, link, inq, chan, told>>

\* accept; a full server answers and keeps the descriptor, unregistered.  Its one write to
\* a client never written to before cannot fail, so the close on EPIPE is not reached.
Accept(f) ==
    LET c == Head(backlog)
    IN  /\ up = "up" /\ backlog # <<>> /\ f = FreeFd
        /\ peer' = [peer EXCEPT ![f] = c]
        /\ backlog' = Tail(backlog)
        /\ \/ /\ active < MAX_CLIENTS
              /\ list' = [list EXCEPT ![active + 1] = f]
              /\ active' = active + 1 /\ epoll' = epoll \cup {f}
              /\ UNCHANGED <<chan, link, told, refused>>
           \/ /\ active >= MAX_CLIENTS
              /\ chan' = [chan EXCEPT ![c] = Append(@, Full)]
              /\ told' = [told EXCEPT ![c] = TRUE] /\ refused' = refused \cup {c}
              /\ link' = [link EXCEPT ![c] = IF @ = "open" THEN @ ELSE "dead"]
              /\ UNCHANGED <<list, active, epoll>>
        /\ UNCHANGED <<up, ownership, removed, clientVars, inq>>

\* fault: the entries behind the removed one stay where they are, the last is lost
ShortenOnly(f) ==
    IF \E i \in 1..active : list[i] = f THEN [list EXCEPT ![active] = 0] ELSE list

\* The shift of remove_client: the first entry equal to f goes, the last stays
\* twice because the caller's count does not change.
Shift(f) ==
    LET at == {i \in 1..active : list[i] = f}
    IN  IF at = {} THEN list
        ELSE [i \in DOMAIN list |-> IF i >= Min(at) /\ i < active THEN list[i + 1] ELSE list[i]]

\* read returns 0: remove_client.
Disconnect(f) ==
    /\ up = "up" /\ f \in epoll
    /\ inq[peer[f]] = <<>> /\ link[peer[f]] \in {"fin", "dead"}
    /\ list' = Shift(f)
    /\ epoll' = epoll \ {f}
    /\ peer' = [peer EXCEPT ![f] = Nobody]
    /\ removed' = TRUE
    /\ UNCHANGED <<up, active, ownership, refused, clientVars, netVars>>

\* read fails with ECONNRESET: ERR.
ReadReset(f) ==
    /\ up = "up" /\ f \in epoll
    /\ inq[peer[f]] = <<>> /\ link[peer[f]] = "rst"
    /\ Crash
    /\ UNCHANGED <<peer, epoll, list, active, ownership, removed, refused, clientVars, netVars>>

Targets(f)   == {i \in 1..active : list[i] # f}
Writes(f, c) == Cardinality({i \in Targets(f) : peer[list[i]] = c})

\* write fails: EBADF on a closed entry is ERR, a reset socket raises SIGPIPE
\* (not ignored) or gives ECONNRESET; the second write after "fin" may.
Doomed(f) ==
    \/ \E i \in Targets(f) : peer[list[i]] = Nobody
    \/ \E c \in Clients : Writes(f, c) > 0 /\ link[c] \in {"rst", "dead"}
Risky(f) == \E c \in Clients : Writes(f, c) > 1 /\ link[c] = "fin"

Forward(f, m) ==
    /\ chan' = [c \in Clients |-> chan[c] \o [i \in 1..Writes(f, c) |-> m]]
    /\ told' = [c \in Clients |-> told[c] \/ Writes(f, c) > 0]
    /\ link' = [c \in Clients |-> IF Writes(f, c) > 0 /\ link[c] = "fin" THEN "dead" ELSE link[c]]
    /\ UNCHANGED up

\* fault: the sender's descriptor is closed once its message is forwarded
HandleOnce(f) ==
    LET c == peer[f]
        m == Head(inq[c])
    IN  /\ up = "up" /\ f \in epoll /\ inq[c] # <<>> /\ m \in Changes
        /\ inq' = [inq EXCEPT ![c] = Tail(@)]
        /\ ownership' = [ownership EXCEPT ![m.city] = m.owner]
        /\ \/ ~Doomed(f) /\ Forward(f, m)
           \/ (Doomed(f) \/ Risky(f)) /\ Crash /\ UNCHANGED <<chan, told, link>>
        /\ peer' = [peer EXCEPT ![f] = Nobody] /\ epoll' = epoll \ {f}
        /\ UNCHANGED <<list, active, removed, refused, clientVars, backlog>>

\* handle_client_messages on a full message, broadcast_message.
Handle(f) ==
    LET c == peer[f]
        m == Head(inq[c])
    IN  /\ up = "up" /\ f \in epoll /\ inq[c] # <<>> /\ m \in Changes
        /\ inq' = [inq EXCEPT ![c] = Tail(@)]
        /\ ownership' = [ownership EXCEPT ![m.city] = m.owner]
        /\ \/ ~Doomed(f) /\ Forward(f, m)
           \/ (Doomed(f) \/ Risky(f)) /\ Crash /\ UNCHANGED <<chan, told, link>>
        /\ UNCHANGED <<peer, epoll, list, active, removed, refused, clientVars, backlog>>

\* A message that begins with neither p nor g is read and dropped.
Ignore(f) ==
    LET c == peer[f]
    IN  /\ up = "up" /\ f \in epoll /\ inq[c] # <<>> /\ Head(inq[c]) \notin Changes
        /\ inq' = [inq EXCEPT ![c] = Tail(@)]
        /\ UNCHANGED <<serverVars, clientVars, backlog, link, chan, told>>

\* SIGINT: epoll_wait fails with EINTR and the loop ends.
ServerStop ==
    /\ up = "up" /\ up' = "stopped"
    /\ UNCHANGED <<peer, epoll, list, active, ownership, removed, refused, clientVars, netVars>>

-----------------------------------------------------------------------------
(* A client.                                                               *)
Connect(c) ==
    /\ pc[c] = "out"
    /\ IF up = "up"
         THEN pc' = [pc EXCEPT ![c] = "idle"] /\ backlog' = Append(backlog, c)
         ELSE pc' = [pc EXCEPT ![c] = "left"] /\ UNCHANGED backlog
    /\ UNCHANGED <<serverVars, turn, ready, table, sent, link, inq, chan, told>>

Readable(c) == chan[c] # <<>> \/ up # "up"

\* The only epoll_wait: what is ready now is all this client will ever poll.
FirstEvents(c, r) ==
    /\ pc[c] = "idle"
    /\ ("server" \in ToSet(r) => Readable(c))
    /\ pc' = [pc EXCEPT ![c] = "loop"]
    /\ ready' = [ready EXCEPT ![c] = r] /\ turn' = [turn EXCEPT ![c] = r]
    /\ UNCHANGED <<serverVars, table, sent, netVars>>

NextTurn(c) == turn' = [turn EXCEPT ![c] = IF Len(@) = 1 THEN ready[c] ELSE Tail(@)]
Facing(c, what) == pc[c] = "loop" /\ Head(turn[c]) = what

\* "m" and "t": send the change and enter it in the own table, where all but p is g.
Command(c, m) ==
    /\ Facing(c, "stdin") /\ up = "up" /\ sent[c] < MaxCommands
    /\ inq' = [inq EXCEPT ![c] = Append(@, m)]
    /\ table' = [table EXCEPT ![c][m.city] = IF m.owner = "p" THEN "p" ELSE "g"]
    /\ sent' = [sent EXCEPT ![c] = @ + 1]
    /\ NextTurn(c)
    /\ UNCHANGED <<serverVars, pc, ready, backlog, link, chan, told>>

\* "o" and every other line.
OtherLine(c) ==
    /\ Facing(c, "stdin") /\ NextTurn(c)
    /\ UNCHANGED <<serverVars, pc, ready, table, sent, netVars>>

\* read_from_server.  A forwarded change is longer than the 4 bytes read here
\* (strlen + 1 of an unterminated buffer), so its start may be out of step.
ReadServer(c) ==
    LET m == Head(chan[c])
    IN  /\ Facing(c, "server") /\ chan[c] # <<>>
        /\ chan' = [chan EXCEPT ![c] = Tail(@)]
        /\ \/ m # Full /\ table' = [table EXCEPT ![c][m.city] = m.owner]
           \/ UNCHANGED table
        /\ NextTurn(c)
        /\ UNCHANGED <<serverVars, pc, ready, sent, backlog, link, inq, told>>

\* A close with unread bytes is a reset, otherwise a FIN.
Close(c) ==
    /\ pc' = [pc EXCEPT ![c] = "left"]
    /\ \E l \in {"fin", "rst"} :
         /\ l = "fin" => chan[c] = <<>>
         /\ l = "rst" => told[c]
         /\ link' = [link EXCEPT ![c] = l]
    /\ chan' = [chan EXCEPT ![c] = <<>>]
    /\ UNCHANGED <<serverVars, turn, ready, table, sent, backlog, inq, told>>

\* "e", SIGINT, end of input, or the server is gone.
Leave(c) == pc[c] \in {"idle", "loop"} /\ Close(c)

-----------------------------------------------------------------------------
Modes == {<<"stdin">>, <<"server">>, <<"stdin", "server">>, <<"server", "stdin">>}

Server == \E f \in Fds : Accept(f) \/ Disconnect(f) \/ ReadReset(f) \/ Handle(f) \/ Ignore(f)
Client(c) ==
    \/ Connect(c) \/ \E r \in Modes : FirstEvents(c, r)
    \/ \E m \in Messages : Command(c, m)
    \/ OtherLine(c) \/ ReadServer(c) \/ Leave(c)

Next == Server \/ ServerStop \/ \E c \in Clients : Client(c)

Spec == Init /\ [][Next]_vars

-----------------------------------------------------------------------------
\* The types of the variables.
TypeOK ==
    /\ up \in {"up", "stopped", "crashed"}
    /\ peer \in [Fds -> Clients \cup {Nobody}] /\ epoll \subseteq Fds
    /\ list \in [1..MAX_CLIENTS -> Fds \cup {0}] /\ active \in 0..MAX_CLIENTS
    /\ ownership \in [Cities -> {"g", "p"}] /\ removed \in BOOLEAN
    /\ refused \subseteq Clients
    /\ pc \in [Clients -> {"out", "idle", "loop", "left"}]
    /\ link \in [Clients -> {"open", "fin", "rst", "dead"}]
    /\ told \in [Clients -> BOOLEAN] /\ sent \in [Clients -> 0..MaxCommands]
    /\ table \in [Clients -> [Cities -> {"g", "p"}]]
    /\ \A c \in Clients : ready[c] \in Modes \cup {<<>>} /\ Len(turn[c]) <= Len(ready[c])

Listed == {list[i] : i \in 1..active}

\* Whatever was removed before, each client the server polls is still in the
\* part of the array that broadcast_message goes through.
NobodyForgotten == epoll \subseteq Listed

\* Up to the first disconnection the array is exact: nobody gets a message
\* twice and nothing is written to a closed or reused descriptor.
ExactUntilFirstLeave ==
    ~removed => Listed = epoll /\ active = Cardinality(epoll)

\* The server ends itself only after some client has closed its socket.
CrashNeedsALeave == up = "crashed" => \E c \in Clients : pc[c] = "left"

\* The open descriptors that nobody polls are those of the clients turned away from a
\* full server, each of them and no other.
TurnedAwayLeak ==
    {peer[f] : f \in {g \in Fds \ epoll : peer[g] # Nobody}} = refused
=============================================================================
