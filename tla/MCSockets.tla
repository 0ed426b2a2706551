------------------------------ MODULE MCSockets ------------------------------
(***************************************************************************)
(* The epoll servers of L4, one at a time.  They share the variables of    *)
(* the network.  The run has room for two clients and a third one: it is   *)
(* turned away, or takes over a descriptor that one of the others had.     *)
(***************************************************************************)
EXTENDS Integers, FiniteSets, TLC

CONSTANTS Clients, Nobody, MAX_CLIENTS, Cities, MaxCommands, MaxBytes, Ritual

Swappable == Permutations(Clients)

VARIABLES prog,
          up, peer, epoll, active, removed, refused, backlog, link, inq, told, sent, pc,  \* all
          list, ownership, turn, ready, chan, table,        \* messengers
          serving, elist,                                   \* electors
          total                                             \* wizards

wire       == <<up, peer, epoll, active, removed, refused, backlog, link, inq, told, sent, pc>>
messengers == <<list, ownership, turn, ready, chan, table>>
electors   == <<serving, elist>>
vars       == <<prog, wire, messengers, electors, total>>

Messengers == INSTANCE Messengers
Electors   == INSTANCE Electors
Enalia     == INSTANCE Enalia
Wizards    == INSTANCE Wizards

ASSUME SocketsAssumption ==
    Messengers!ClientAssumption /\ Messengers!SizeAssumption /\ MaxBytes \in Nat /\ Ritual \in Nat \ {0}

Init ==
    /\ prog \in {"messengers", "electors", "enalia", "wizards"}
    /\ Messengers!Init /\ Electors!Init /\ Enalia!Init /\ Wizards!Init

Next ==
    \/ prog = "messengers" /\ Messengers!Next /\ UNCHANGED <<prog, electors, total>>
    \/ prog = "electors" /\ Electors!Next /\ UNCHANGED <<prog, messengers, total>>
    \/ prog = "enalia" /\ Enalia!Next /\ UNCHANGED <<prog, messengers, electors, total>>
    \/ prog = "wizards" /\ Wizards!Next /\ UNCHANGED <<prog, messengers, electors>>

Spec == Init /\ [][Next]_vars

-----------------------------------------------------------------------------
\* The types of the variables of the program that runs.
TypeOK ==
    /\ prog = "messengers" => Messengers!TypeOK
    /\ prog = "electors" => Electors!TypeOK
    /\ prog = "enalia" => Enalia!TypeOK
    /\ prog = "wizards" => Wizards!TypeOK

\* Messengers, Electors: every client the server polls is in its array, whatever was
\* removed before, and no elector's vote is read before its district.
NobodyForgotten ==
    /\ prog = "messengers" => Messengers!NobodyForgotten
    /\ prog = "electors" => Electors!NobodyForgotten /\ Electors!EveryoneHasADistrict

\* The connections counted are those polled: always in Wizards, in the other servers
\* until the first connection is closed.
CountExact ==
    /\ prog = "messengers" => Messengers!ExactUntilFirstLeave
    /\ prog = "electors" => Electors!ExactUntilFirstClose
    /\ prog = "enalia" => Enalia!ExactUntilFirstLeave
    /\ prog = "wizards" => Wizards!OneWizard

\* Descriptors that are open and not polled are never read, written or closed again.
\* Messengers and Enalia keep exactly those of the clients they turned away (which
\* L4/Consultations/README.md wants closed), Electors keeps none.
TurnedAwayLeak ==
    /\ prog = "messengers" => Messengers!TurnedAwayLeak
    /\ prog = "electors" => Electors!NothingUnpolled
    /\ prog = "enalia" => Enalia!TurnedAwayLeak

\* No server ends itself while all its clients behave and stay.
EndsForAReason ==
    /\ prog = "messengers" => Messengers!CrashNeedsALeave
    /\ prog = "electors" => Electors!CrashCause
    /\ prog = "enalia" => Enalia!CrashNeedsALeave
    /\ prog = "wizards" => Wizards!EndsForAReason
=============================================================================
