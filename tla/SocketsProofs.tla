---------------------------- MODULE SocketsProofs ----------------------------
(***************************************************************************)
(* The epoll servers of MCSockets for any number of clients and any size   *)
(* of their arrays.  What they have in common comes first: who is at the   *)
(* other end of a descriptor.  Then each server has an inductive invariant *)
(* of its own, which holds while that server is the program that runs.     *)
(***************************************************************************)
EXTENDS MCSockets, Sequences, SumTheorems

LEMMA Parameters ==
    /\ IsFiniteSet(Clients) /\ Cardinality(Clients) \in Nat /\ Nobody \notin Clients
    /\ MAX_CLIENTS \in Nat \ {0} /\ MaxCommands \in Nat /\ MaxBytes \in Nat
    /\ Ritual \in Nat \ {0}
<1>1. IsFiniteSet(Clients)
  BY SocketsAssumption
  DEF Messengers!ClientAssumption, Messengers!IsFiniteSet, IsFiniteSet
<1> QED
  BY <1>1, SocketsAssumption, FS_CardinalityType
  DEF Messengers!ClientAssumption, Messengers!SizeAssumption

\* A finite set of integers that is not empty has a least element.
LEMMA LeastElement ==
    ASSUME NEW S, IsFiniteSet(S), S \subseteq Int, S # {}
    PROVE  \E x \in S : \A y \in S : x =< y
<1> DEFINE Good == {T \in SUBSET S : T # {} => \E x \in T : \A y \in T : x =< y}
<1>1. ASSUME NEW T \in SUBSET S, T = {} \/ T \ {Pick(T)} \in Good
      PROVE  T \in Good
  <2> SUFFICES ASSUME T # {} PROVE \E x \in T : \A y \in T : x =< y
    OBVIOUS
  <2>1. Pick(T) \in T /\ Pick(T) \in Int
    BY DEF Pick
  <2>2. CASE T \ {Pick(T)} = {}
    <3>1. T = {Pick(T)}
      BY <2>1, <2>2
    <3> QED
      BY <2>1, <3>1
  <2>3. CASE T \ {Pick(T)} # {}
    <3>1. PICK x \in T \ {Pick(T)} : \A y \in T \ {Pick(T)} : x =< y
      BY <1>1, <2>3
    <3>2. \A y \in T : y = Pick(T) \/ y \in T \ {Pick(T)}
      OBVIOUS
    <3>3. T \subseteq Int
      OBVIOUS
    <3> DEFINE p == Pick(T)
    <3> HIDE DEF p
    <3>4. CASE x =< p
      <4>1. \A y \in T : x =< y
        BY <3>1, <3>2, <3>4 DEF p
      <4> QED
        BY <3>1, <4>1
    <3>5. CASE ~(x =< p)
      <4>1. \A y \in T : p =< y
        <5> SUFFICES ASSUME NEW y \in T PROVE p =< y
          OBVIOUS
        <5>1. p \in Int /\ x \in Int /\ y \in Int /\ p =< x
          BY <2>1, <3>1, <3>3, <3>5 DEF p
        <5>2. y = p \/ x =< y
          BY <3>1, <3>2 DEF p
        <5> QED
          BY <5>1, <5>2
      <4> QED
        BY <2>1, <4>1 DEF p
    <3> QED
      BY <3>4, <3>5
  <2> QED
    BY <2>2, <2>3
<1>2. \A T \in SUBSET S : T \in Good
  <2> HIDE DEF Good
  <2> QED
    BY <1>1, PickInduction
<1> QED
  BY <1>2

-----------------------------------------------------------------------------
(* Descriptors, the same in all programs.                                  *)

Fds    == 1..Cardinality(Clients)
FreeFd == CHOOSE f \in {g \in Fds : peer[g] = Nobody} :
              \A h \in {g \in Fds : peer[g] = Nobody} : f =< h

\* The instances' names for these operators mean the same.
LEMMA SameFds ==
    /\ Messengers!Fds = Fds /\ Electors!Fds = Fds /\ Enalia!Fds = Fds /\ Wizards!Fds = Fds
    /\ Messengers!FreeFd = FreeFd /\ Electors!FreeFd = FreeFd /\ Enalia!FreeFd = FreeFd
    /\ Wizards!FreeFd = FreeFd
<1>1. /\ \A S : Messengers!Cardinality(S) = Cardinality(S)
      /\ \A S : Electors!Cardinality(S) = Cardinality(S)
      /\ \A S : Enalia!Cardinality(S) = Cardinality(S)
      /\ \A S : Wizards!Cardinality(S) = Cardinality(S)
  BY DEF Messengers!Cardinality, Electors!Cardinality, Enalia!Cardinality,
     Wizards!Cardinality, Cardinality, Messengers!IsFiniteSet, Electors!IsFiniteSet,
     Enalia!IsFiniteSet, Wizards!IsFiniteSet, IsFiniteSet
<1>2. /\ Messengers!Fds = Fds /\ Electors!Fds = Fds /\ Enalia!Fds = Fds /\ Wizards!Fds = Fds
  BY <1>1 DEF Messengers!Fds, Electors!Fds, Enalia!Fds, Wizards!Fds, Fds
<1> QED
  BY <1>2
  DEF FreeFd, Messengers!FreeFd, Electors!FreeFd, Enalia!FreeFd, Wizards!FreeFd,
      Messengers!Min, Electors!Min, Enalia!Min, Wizards!Min

\* Nobody connects twice: each client waits in the backlog once or is behind one descriptor.
Apart ==
    /\ peer \in [Fds -> Clients \cup {Nobody}] /\ backlog \in Seq(Clients)
    /\ \A f \in Fds : peer[f] # Nobody => pc[peer[f]] # "out"
    /\ \A f, g \in Fds : f # g /\ peer[f] # Nobody => peer[f] # peer[g]
    /\ \A i \in 1..Len(backlog) :
          pc[backlog[i]] # "out" /\ \A f \in Fds : peer[f] # backlog[i]
    /\ \A i, j \in 1..Len(backlog) : i # j => backlog[i] # backlog[j]

\* So there is a free descriptor for whoever waits: connections never run out of numbers.
LEMMA FreeFdIsFree ==
    ASSUME Apart, backlog # <<>>
    PROVE  /\ Head(backlog) \in Clients /\ \A f \in Fds : peer[f] # Head(backlog)
           /\ FreeFd \in Fds /\ peer[FreeFd] = Nobody
<1> DEFINE c == Head(backlog)
           Free == {g \in Fds : peer[g] = Nobody}
<1>1. c \in Clients /\ c = backlog[1] /\ 1 \in 1..Len(backlog)
  BY DEF Apart
<1>2. \A f \in Fds : peer[f] # c
  BY <1>1 DEF Apart
<1>3. Free # {}
  <2> SUFFICES ASSUME Free = {} PROVE FALSE
    OBVIOUS
  <2> DEFINE Others == Clients \ {c}
  <2>1. peer \in Injection(Fds, Others)
    BY <1>1, <1>2 DEF Apart, Injection, IsInjective
  <2>2. IsFiniteSet(Others) /\ Cardinality(Others) = Cardinality(Clients) - 1
    BY <1>1, Parameters, FS_RemoveElement
  <2>3. Cardinality(Fds) <= Cardinality(Others)
    <3> HIDE DEF Others
    <3> QED
      BY <2>1, <2>2, FS_Injection
  <2>4. Cardinality(Fds) = Cardinality(Clients)
    <3>1. Cardinality(Clients) >= 1
      BY <2>2, Parameters, FS_CardinalityType
    <3> QED
      BY <3>1, Parameters, FS_Interval DEF Fds
  <2> QED
    BY <2>2, <2>3, <2>4, Parameters
<1>4. IsFiniteSet(Free) /\ Free \subseteq Int
  <2>1. IsFiniteSet(Fds) /\ Fds \subseteq Int
    BY Parameters, FS_Interval DEF Fds
  <2> QED
    BY <2>1, FS_Subset
<1>5. FreeFd \in Free
  <2>1. \E x \in Free : \A y \in Free : x =< y
    <3> HIDE DEF Free
    <3> QED
      BY <1>3, <1>4, LeastElement
  <2> QED
    BY <2>1 DEF FreeFd
<1> QED
  BY <1>1, <1>2, <1>5

\* What a step does to the connections: nothing, a client connects, the server accepts
\* one or turns it away, or it closes a descriptor.
Quiet    == UNCHANGED <<peer, backlog>>
            /\ \A c \in Clients : pc[c] # "out" => pc'[c] # "out"
Joins(c) == /\ pc[c] = "out" /\ pc' = [pc EXCEPT ![c] = pc'[c]] /\ pc'[c] # "out"
            /\ backlog' = Append(backlog, c) /\ peer' = peer
Accepted == /\ backlog # <<>> /\ backlog' = Tail(backlog) /\ pc' = pc
            /\ peer' = peer \/ peer' = [peer EXCEPT ![FreeFd] = Head(backlog)]
Closed(f) == UNCHANGED <<backlog, pc>> /\ peer' = [peer EXCEPT ![f] = Nobody]
Network  == Quiet \/ (\E c \in Clients : Joins(c)) \/ Accepted \/ \E f \in Fds : Closed(f)

LEMMA ApartStep ==
    ASSUME Apart, DOMAIN pc = Clients, Network
    PROVE  Apart'
<1>0. Nobody \notin Clients
  BY Parameters
<1> USE DEF Apart
<1>1. CASE Quiet
  BY <1>0, <1>1 DEF Quiet
<1>2. ASSUME NEW c \in Clients, Joins(c) PROVE Apart'
  <2>1. /\ backlog' \in Seq(Clients) /\ Len(backlog') = Len(backlog) + 1
        /\ \A i \in 1..Len(backlog) : backlog'[i] = backlog[i]
        /\ backlog'[Len(backlog) + 1] = c
    BY <1>2 DEF Joins
  <2>2. \A i \in 1..Len(backlog') : i \in 1..Len(backlog) \/ backlog'[i] = c
    BY <2>1
  <2>3. \A i \in 1..Len(backlog) : backlog[i] # c
    BY <1>2 DEF Joins
  <2>4. \A f \in Fds : peer[f] # c
    BY <1>0, <1>2 DEF Joins
  <2>5. \A d \in Clients : pc[d] # "out" => pc'[d] # "out"
    BY <1>2 DEF Joins
  <2>6. peer' = peer /\ pc'[c] # "out"
    BY <1>2 DEF Joins
  <2>7. \A i, j \in 1..Len(backlog') : i # j => backlog'[i] # backlog'[j]
    BY <2>1, <2>3
  <2>8. \A f \in Fds : peer'[f] # Nobody => pc'[peer'[f]] # "out"
    BY <2>5, <2>6
  <2>9. \A i \in 1..Len(backlog') :
           pc'[backlog'[i]] # "out" /\ \A f \in Fds : peer'[f] # backlog'[i]
    <3> SUFFICES ASSUME NEW i \in 1..Len(backlog')
                 PROVE  pc'[backlog'[i]] # "out" /\ \A f \in Fds : peer'[f] # backlog'[i]
      OBVIOUS
    <3>1. CASE i \in 1..Len(backlog)
      <4>1. backlog'[i] = backlog[i] /\ backlog[i] \in Clients
        BY <2>1, <3>1
      <4> QED
        BY <2>5, <2>6, <3>1, <4>1
    <3>2. CASE backlog'[i] = c
      BY <2>4, <2>6, <3>2
    <3> QED
      BY <2>2, <3>1, <3>2
  <2> QED
    BY <2>1, <2>6, <2>7, <2>8, <2>9
<1>3. CASE Accepted
  <2>1. /\ backlog' \in Seq(Clients) /\ Len(backlog') = Len(backlog) - 1
        /\ \A i \in 1..Len(backlog') : backlog'[i] = backlog[i + 1] /\ i + 1 \in 1..Len(backlog)
        /\ 1 \in 1..Len(backlog) /\ Head(backlog) = backlog[1]
    BY <1>3 DEF Accepted
  <2>2. /\ Head(backlog) \in Clients /\ \A f \in Fds : peer[f] # Head(backlog)
        /\ FreeFd \in Fds /\ peer[FreeFd] = Nobody
    BY <1>3, FreeFdIsFree DEF Accepted
  <2>3. pc' = pc /\ (peer' = peer \/ peer' = [peer EXCEPT ![FreeFd] = Head(backlog)])
    BY <1>3 DEF Accepted
  <2>4. \A i \in 1..Len(backlog') : backlog'[i] # Head(backlog)
    BY <2>1
  <2>5. \A i, j \in 1..Len(backlog') : i # j => backlog'[i] # backlog'[j]
    BY <2>1
  <2>6. \A i \in 1..Len(backlog') :
           pc'[backlog'[i]] # "out" /\ \A f \in Fds : peer'[f] # backlog'[i]
    <3> SUFFICES ASSUME NEW i \in 1..Len(backlog')
                 PROVE  pc'[backlog'[i]] # "out" /\ \A f \in Fds : peer'[f] # backlog'[i]
      OBVIOUS
    <3>1. PICK j \in 1..Len(backlog) : backlog'[i] = backlog[j]
      BY <2>1
    <3>2. pc[backlog[j]] # "out" /\ \A f \in Fds : peer[f] # backlog[j]
      OBVIOUS
    <3>3. backlog[j] # Head(backlog)
      BY <2>4, <3>1
    <3> HIDE DEF FreeFd, Apart
    <3>4. peer \in [Fds -> Clients \cup {Nobody}]
      BY DEF Apart
    <3> QED
      BY <2>2, <2>3, <3>1, <3>2, <3>3, <3>4
  <2>7. pc[Head(backlog)] # "out"
    BY <2>1
  <2> HIDE DEF FreeFd
  <2>8. /\ peer' \in [Fds -> Clients \cup {Nobody}]
        /\ \A f \in Fds : peer'[f] # Nobody => pc'[peer'[f]] # "out"
        /\ \A f, g \in Fds : f # g /\ peer'[f] # Nobody => peer'[f] # peer'[g]
    BY <2>2, <2>3, <2>7
  <2> QED
    BY <2>1, <2>5, <2>6, <2>8
<1>4. ASSUME NEW f \in Fds, Closed(f) PROVE Apart'
  BY <1>0, <1>4 DEF Closed
<1> QED
  BY <1>1, <1>2, <1>3, <1>4 DEF Network

\* Somebody has closed its socket, which alone changes what a client's end looks like.
SomeoneLeft == \E c \in Clients : pc[c] = "left"
LinksClosed == \A c \in Clients : link[c] # "open" => pc[c] = "left"

\* The open descriptors that are not polled are those of the clients turned away.
TurnedAway ==
    /\ refused \subseteq Clients
    /\ \A f \in Fds \ epoll : peer[f] # Nobody => peer[f] \in refused
    /\ \A c \in refused : \E f \in Fds \ epoll : peer[f] = c

\* What becomes of them when a client is accepted, turned away, or closed.
TakesIn(f, c)   == /\ peer[f] = Nobody /\ peer' = [peer EXCEPT ![f] = c]
                   /\ epoll' = epoll \cup {f} /\ refused' = refused
TurnsAway(f, c) == /\ peer[f] = Nobody /\ peer' = [peer EXCEPT ![f] = c]
                   /\ f \notin epoll /\ epoll' = epoll /\ refused' = refused \cup {c}
Drops(f)        == /\ f \in epoll /\ peer' = [peer EXCEPT ![f] = Nobody]
                   /\ epoll' = epoll \ {f} /\ refused' = refused

LEMMA TurnedAwayStep ==
    ASSUME TurnedAway, Nobody \notin Clients, epoll \subseteq Fds,
           peer \in [Fds -> Clients \cup {Nobody}], NEW f \in Fds, NEW c \in Clients,
           TakesIn(f, c) \/ TurnsAway(f, c) \/ Drops(f)
    PROVE  TurnedAway'
<1> USE DEF TurnedAway
<1>1. CASE TakesIn(f, c)
  <2>1. \A d \in refused : \E g \in Fds \ epoll' : peer'[g] = d
    BY <1>1 DEF TakesIn
  <2> QED
    BY <1>1, <2>1 DEF TakesIn
<1>2. CASE TurnsAway(f, c)
  <2>1. \A d \in refused : \E g \in Fds \ epoll' : peer'[g] = d
    BY <1>2 DEF TurnsAway
  <2>2. f \in Fds \ epoll' /\ peer'[f] = c
    BY <1>2 DEF TurnsAway
  <2>3. \A g \in Fds \ epoll' : peer'[g] # Nobody => peer'[g] \in refused'
    BY <1>2 DEF TurnsAway
  <2> QED
    BY <1>2, <2>1, <2>2, <2>3 DEF TurnsAway
<1>3. CASE Drops(f)
  <2>1. \A d \in refused : \E g \in Fds \ epoll' : peer'[g] = d
    BY <1>3 DEF Drops
  <2> QED
    BY <1>3, <2>1 DEF Drops
<1> QED
  BY <1>1, <1>2, <1>3

-----------------------------------------------------------------------------
(* L4/Messengers.                                                          *)

\* The bytes under way are changes, and a client that polls has something to turn to.
Channels ==
    /\ inq \in [Clients -> Seq(Messengers!Messages)]
    /\ chan \in [Clients -> Seq(Messengers!Changes \cup {Messengers!Full})]
    /\ turn \in [Clients -> Seq({"stdin", "server"})]
    /\ \A c \in Clients : pc[c] = "loop" => ready[c] \in Messengers!Modes /\ turn[c] # <<>>
    /\ ready \in [Clients -> Messengers!Modes \cup {<<>>}]

MessengersInv ==
    /\ Messengers!TypeOK /\ Channels /\ Apart /\ LinksClosed
    /\ \A f \in epoll : peer[f] # Nobody
    /\ removed => SomeoneLeft
    /\ Messengers!NobodyForgotten /\ Messengers!ExactUntilFirstLeave
    /\ Messengers!CrashNeedsALeave /\ TurnedAway

LEMMA MessengersInit == Init => MessengersInv
<1> SUFFICES ASSUME Init PROVE MessengersInv
  OBVIOUS
<1> USE DEF Init, Messengers!Init
<1>0. Messengers!Fds = Fds /\ Nobody \notin Clients /\ MAX_CLIENTS \in Nat \ {0} /\ MaxCommands \in Nat
  BY SameFds, Parameters
<1>1. Messengers!TypeOK
  <2>1. \A c \in Clients : ready[c] = <<>> /\ turn[c] = <<>>
    OBVIOUS
  <2>2. table \in [Clients -> [Cities -> {"g", "p"}]] /\ ownership \in [Cities -> {"g", "p"}]
    OBVIOUS
  <2>3. /\ list \in [1..MAX_CLIENTS -> Messengers!Fds \cup {0}] /\ active \in 0..MAX_CLIENTS
        /\ peer \in [Messengers!Fds -> Clients \cup {Nobody}] /\ epoll \subseteq Messengers!Fds
    BY <1>0
  <2>4. sent \in [Clients -> 0..MaxCommands]
    BY <1>0
  <2>5. \A c \in Clients : Len(turn[c]) <= Len(ready[c])
    BY <2>1
  <2>6. pc \in [Clients -> {"out", "idle", "loop", "left"}]
    OBVIOUS
  <2>7. link \in [Clients -> {"open", "fin", "rst", "dead"}]
    OBVIOUS
  <2>8. told \in [Clients -> BOOLEAN]
    OBVIOUS
  <2> QED
    BY <2>1, <2>2, <2>3, <2>4, <2>5, <2>6, <2>7, <2>8 DEF Messengers!TypeOK
<1>2. Channels
  BY DEF Channels
<1>3. Apart
  BY <1>0 DEF Apart
<1>4. LinksClosed
  BY DEF LinksClosed
<1>5. Messengers!Listed = {} /\ Messengers!Cardinality({}) = 0
  <2>1. Messengers!Cardinality({}) = Cardinality({})
    BY DEF Messengers!Cardinality, Cardinality, Messengers!IsFiniteSet, IsFiniteSet
  <2> QED
    BY <2>1, FS_EmptySet DEF Messengers!Listed
<1>6. TurnedAway
  BY <1>0 DEF TurnedAway
<1> QED
  BY <1>1, <1>2, <1>3, <1>4, <1>5, <1>6
  DEF MessengersInv, Messengers!NobodyForgotten, Messengers!ExactUntilFirstLeave,
      Messengers!CrashNeedsALeave

\* How the steps of this program look on the network.
LEMMA MessengersNetwork ==
    ASSUME MessengersInv, Messengers!Next
    PROVE  Network /\ DOMAIN pc = Clients
<1> USE DEF MessengersInv, Messengers!TypeOK, Messengers!serverVars, Messengers!clientVars,
            Messengers!netVars
<1>1. ASSUME NEW f \in Fds, Messengers!Accept(f) PROVE Accepted
  BY <1>1, SameFds DEF Messengers!Accept, Accepted
<1>2. ASSUME NEW f \in Fds, Messengers!Disconnect(f) PROVE Closed(f)
  BY <1>2 DEF Messengers!Disconnect, Closed
<1>3. ASSUME NEW f \in Fds, Messengers!ReadReset(f) \/ Messengers!Handle(f) \/ Messengers!Ignore(f) PROVE Quiet
  BY <1>3 DEF Messengers!ReadReset, Messengers!Handle, Messengers!Ignore, Quiet
<1>4. ASSUME Messengers!ServerStop PROVE Quiet
  BY <1>4 DEF Messengers!ServerStop, Quiet
<1>5. ASSUME NEW c \in Clients, Messengers!Connect(c) PROVE Quiet \/ Joins(c)
  BY <1>5 DEF Messengers!Connect, Quiet, Joins
<1>6. ASSUME NEW c \in Clients, NEW r \in Messengers!Modes, Messengers!FirstEvents(c, r)
      PROVE  Quiet
  BY <1>6 DEF Messengers!FirstEvents, Quiet
<1>7. ASSUME NEW c \in Clients,
             (\E m \in Messengers!Messages : Messengers!Command(c, m))
             \/ Messengers!OtherLine(c) \/ Messengers!ReadServer(c)
      PROVE  Quiet
  BY <1>7 DEF Messengers!Command, Messengers!OtherLine, Messengers!ReadServer, Quiet
<1>8. ASSUME NEW c \in Clients, Messengers!Leave(c) PROVE Quiet
  BY <1>8 DEF Messengers!Leave, Messengers!Close, Quiet
<1>9. Network
  BY <1>1, <1>2, <1>3, <1>4, <1>5, <1>6, <1>7, <1>8, SameFds
  DEF Network, Messengers!Next, Messengers!Server, Messengers!Client
<1> QED
  BY <1>9

\* Entries move to the front when one is taken out, and none but that one is lost.
LEMMA ShiftKeeps ==
    ASSUME MessengersInv, NEW f \in Fds
    PROVE  /\ Messengers!Shift(f) \in [1..MAX_CLIENTS -> Fds \cup {0}]
           /\ \A i \in 1..active : list[i] # f =>
                 \E j \in 1..active : Messengers!Shift(f)[j] = list[i]
<1> DEFINE at == {i \in 1..active : list[i] = f}
           new == Messengers!Shift(f)
<1>0. /\ active \in 0..MAX_CLIENTS /\ MAX_CLIENTS \in Nat /\ list \in [1..MAX_CLIENTS -> Fds \cup {0}]
  BY Parameters, SameFds DEF MessengersInv, Messengers!TypeOK
<1>1. CASE at = {}
  BY <1>0, <1>1 DEF Messengers!Shift
<1>2. CASE at # {}
  <2> DEFINE m == CHOOSE x \in at : \A y \in at : x =< y
  <2>1. IsFiniteSet(at) /\ at \subseteq Int
    <3>1. IsFiniteSet(1..active)
      BY <1>0, FS_Interval
    <3> QED
      BY <1>0, <3>1, FS_Subset
  <2>2. \E x \in at : \A y \in at : x =< y
    <3> HIDE DEF at
    <3> QED
      BY <1>2, <2>1, LeastElement
  <2>3. m \in at /\ \A y \in at : m =< y
    BY <2>2
  <2>4. new = [i \in 1..MAX_CLIENTS |-> IF i >= m /\ i < active THEN list[i + 1] ELSE list[i]]
    BY <1>0, <1>2 DEF Messengers!Shift, Messengers!Min
  <2> HIDE DEF m, new
  <2>5. new \in [1..MAX_CLIENTS -> Fds \cup {0}]
    BY <1>0, <2>3, <2>4
  <2>6. ASSUME NEW i \in 1..active, list[i] # f PROVE \E j \in 1..active : new[j] = list[i]
    <3>1. i # m /\ m \in 1..active
      BY <2>3, <2>6
    <3>2. CASE i < m
      BY <1>0, <2>4, <3>1, <3>2
    <3>3. CASE i > m
      <4>1. i - 1 \in 1..active /\ i - 1 >= m /\ i - 1 < active /\ i - 1 \in 1..MAX_CLIENTS
        BY <1>0, <3>1, <3>3
      <4>2. new[i - 1] = list[i]
        BY <1>0, <2>4, <4>1
      <4> QED
        BY <4>1, <4>2
    <3> QED
      BY <1>0, <3>1, <3>2, <3>3
  <2> QED
    BY <2>5, <2>6 DEF new
<1> QED
  BY <1>1, <1>2

LEMMA ModesAreShort ==
    \A r \in Messengers!Modes :
        r \in Seq({"stdin", "server"}) /\ r # <<>> /\ Len(r) \in {1, 2}
<1> SUFFICES ASSUME NEW r \in Messengers!Modes
             PROVE  r \in Seq({"stdin", "server"}) /\ r # <<>> /\ Len(r) \in {1, 2}
  OBVIOUS
<1>1. CASE r = <<"stdin">>
  BY <1>1
<1>2. CASE r = <<"server">>
  BY <1>2
<1>3. CASE r = <<"stdin", "server">>
  BY <1>3
<1>4. CASE r = <<"server", "stdin">>
  BY <1>4
<1> QED
  BY <1>1, <1>2, <1>3, <1>4 DEF Messengers!Modes

LEMMA TailIsLeft ==
    ASSUME NEW S, NEW s \in Seq(S), s # <<>>, Len(s) # 1
    PROVE  Tail(s) \in Seq(S) /\ Tail(s) # <<>> /\ Len(Tail(s)) <= Len(s)
<1>1. Tail(s) \in Seq(S) /\ Len(Tail(s)) = Len(s) - 1 /\ Len(s) \in Nat /\ Len(s) # 0
  OBVIOUS
<1>2. Len(Tail(s)) # 0
  BY <1>1
<1> DEFINE t == Tail(s)
<1> HIDE DEF t
<1>3. t \in Seq(S) /\ Len(t) # 0
  BY <1>1, <1>2 DEF t
<1>4. t # <<>>
  BY <1>3
<1> QED
  BY <1>1, <1>4 DEF t

\* Going round the events of the only epoll_wait.
LEMMA TurnStep ==
    ASSUME MessengersInv, NEW c \in Clients, pc[c] = "loop", Messengers!NextTurn(c)
    PROVE  /\ turn' \in [Clients -> Seq({"stdin", "server"})] /\ turn'[c] # <<>>
           /\ \A d \in Clients : Len(turn'[d]) <= Len(ready[d]) /\ (d # c => turn'[d] = turn[d])
<1> USE DEF MessengersInv, Channels, Messengers!TypeOK
<1>1. /\ ready[c] \in Seq({"stdin", "server"}) /\ ready[c] # <<>> /\ Len(ready[c]) \in {1, 2}
  BY ModesAreShort
<1>2. turn[c] \in Seq({"stdin", "server"}) /\ turn[c] # <<>> /\ Len(turn[c]) <= Len(ready[c])
  OBVIOUS
<1> DEFINE new == IF Len(turn[c]) = 1 THEN ready[c] ELSE Tail(turn[c])
<1>3. new \in Seq({"stdin", "server"}) /\ new # <<>> /\ Len(new) <= Len(ready[c])
  <2>1. CASE Len(turn[c]) = 1
    BY <1>1, <2>1
  <2>2. CASE Len(turn[c]) # 1
    <3>1. Tail(turn[c]) \in Seq({"stdin", "server"}) /\ Tail(turn[c]) # <<>>
          /\ Len(Tail(turn[c])) <= Len(turn[c])
      BY <1>2, <2>2, TailIsLeft
    <3>2. Len(Tail(turn[c])) \in Nat /\ Len(turn[c]) \in Nat /\ Len(ready[c]) \in Nat
      BY <1>1, <1>2, <3>1
    <3>3. new = Tail(turn[c])
      BY <2>2
    <3> DEFINE t == Tail(turn[c])
    <3> HIDE DEF new, t
    <3>4. new = t /\ t \in Seq({"stdin", "server"}) /\ t # <<>> /\ Len(t) <= Len(turn[c])
          /\ Len(t) \in Nat
      BY <3>1, <3>2, <3>3 DEF t
    <3> QED
      BY <1>2, <3>2, <3>4
  <2> QED
    BY <2>1, <2>2
<1>4. turn' = [turn EXCEPT ![c] = new]
  BY DEF Messengers!NextTurn
<1> HIDE DEF new
<1> QED
  BY <1>3, <1>4

\* A change is written to a client a finite number of times.
LEMMA WritesAreFinite ==
    ASSUME active \in Nat, NEW f \in Fds, NEW c \in Clients
    PROVE  Messengers!Writes(f, c) \in Nat
<1> DEFINE W == {i \in Messengers!Targets(f) : peer[list[i]] = c}
<1>1. IsFiniteSet(W)
  <2>1. IsFiniteSet(1..active) /\ W \subseteq 1..active
    BY FS_Interval DEF Messengers!Targets
  <2> QED
    BY <2>1, FS_Subset
<1>2. Messengers!Writes(f, c) = Cardinality(W)
  BY DEF Messengers!Writes, Messengers!Cardinality, Cardinality, Messengers!IsFiniteSet, IsFiniteSet
<1> QED
  BY <1>1, <1>2, FS_CardinalityType

\* The types, by who has the variables.
ServerTyped ==
    /\ up \in {"up", "stopped", "crashed"} /\ epoll \subseteq Fds
    /\ peer \in [Fds -> Clients \cup {Nobody}]
    /\ list \in [1..MAX_CLIENTS -> Fds \cup {0}] /\ active \in 0..MAX_CLIENTS
    /\ ownership \in [Cities -> {"g", "p"}] /\ removed \in BOOLEAN
    /\ refused \subseteq Clients
LinksTyped ==
    /\ link \in [Clients -> {"open", "fin", "rst", "dead"}] /\ told \in [Clients -> BOOLEAN]
BytesTyped ==
    /\ inq \in [Clients -> Seq(Messengers!Messages)]
    /\ chan \in [Clients -> Seq(Messengers!Changes \cup {Messengers!Full})]
TablesTyped ==
    /\ sent \in [Clients -> 0..MaxCommands] /\ table \in [Clients -> [Cities -> {"g", "p"}]]
TurnsTyped ==
    /\ pc \in [Clients -> {"out", "idle", "loop", "left"}]
    /\ turn \in [Clients -> Seq({"stdin", "server"})]
    /\ ready \in [Clients -> Messengers!Modes \cup {<<>>}]
    /\ \A c \in Clients : Len(turn[c]) <= Len(ready[c])
    /\ \A c \in Clients : pc[c] = "loop" => ready[c] \in Messengers!Modes /\ turn[c] # <<>>
Typed == ServerTyped /\ LinksTyped /\ BytesTyped /\ TablesTyped /\ TurnsTyped

LEMMA TypedIs == Typed <=> Messengers!TypeOK /\ Channels
<1>1. Messengers!Fds = Fds
  BY SameFds
<1> QED
  BY <1>1
  DEF Typed, ServerTyped, LinksTyped, BytesTyped, TablesTyped, TurnsTyped, Messengers!TypeOK,
      Channels

LEMMA TypedIsAfter == Typed' <=> Messengers!TypeOK' /\ Channels'
BY TypedIs, PTL

LEMMA MessengersTypes ==
    ASSUME MessengersInv, Messengers!Next
    PROVE  Typed'
<1>0. /\ Nobody \notin Clients /\ MAX_CLIENTS \in Nat \ {0} /\ MaxCommands \in Nat
  BY Parameters
<1>i. Typed
  BY TypedIs DEF MessengersInv
<1> USE DEF Typed, ServerTyped, LinksTyped, BytesTyped, TablesTyped, TurnsTyped,
            Messengers!serverVars, Messengers!clientVars, Messengers!netVars
<1>1. ASSUME NEW f \in Fds, Messengers!Accept(f) PROVE Typed'
  <2>1. Head(backlog) \in Clients
    BY <1>1, FreeFdIsFree DEF Messengers!Accept, MessengersInv
  <2>2. ServerTyped'
    <3>1. CASE active < MAX_CLIENTS
      <4>1. active' = active + 1 /\ active + 1 \in 0..MAX_CLIENTS
        BY <1>0, <1>i, <1>1, <3>1 DEF Messengers!Accept
      <4>2. /\ up' = up /\ ownership' = ownership /\ removed' = removed /\ refused' = refused
            /\ epoll' = epoll \cup {f} /\ list' = [list EXCEPT ![active + 1] = f]
            /\ peer' = [peer EXCEPT ![f] = Head(backlog)]
        BY <1>0, <1>i, <1>1, <3>1 DEF Messengers!Accept
      <4> QED
        BY <1>0, <1>i, <2>1, <3>1, <4>1, <4>2
    <3>2. CASE ~(active < MAX_CLIENTS)
      BY <1>0, <1>i, <1>1, <2>1, <3>2 DEF Messengers!Accept
    <3> QED
      BY <3>1, <3>2
  <2>3. BytesTyped'
    <3>1. chan' = chan \/ \E c \in Clients : chan' = [chan EXCEPT ![c] = Append(@, Messengers!Full)]
      BY <1>1, <2>1 DEF Messengers!Accept
    <3>2. inq' = inq
      BY <1>1 DEF Messengers!Accept
    <3>3. ASSUME NEW c \in Clients, chan' = [chan EXCEPT ![c] = Append(@, Messengers!Full)]
          PROVE  BytesTyped'
      <4> DEFINE S == Messengers!Changes \cup {Messengers!Full}
      <4>1. chan \in [Clients -> Seq(S)] /\ Messengers!Full \in S
        BY <1>i
      <4> HIDE DEF S
      <4>2. chan' \in [Clients -> Seq(S)]
        BY <3>3, <4>1
      <4> QED
        BY <1>i, <3>2, <4>2 DEF S
    <3> QED
      BY <1>i, <3>1, <3>2, <3>3
  <2>4. LinksTyped'
    BY <1>i, <1>1, <2>1 DEF Messengers!Accept
  <2>5. TablesTyped' /\ TurnsTyped'
    BY <1>i, <1>1 DEF Messengers!Accept
  <2> QED
    BY <2>2, <2>3, <2>4, <2>5
<1>2. ASSUME NEW f \in Fds, Messengers!Disconnect(f) PROVE Typed'
  BY <1>i, <1>2, ShiftKeeps DEF Messengers!Disconnect
<1>3. ASSUME NEW f \in Fds, Messengers!ReadReset(f) PROVE Typed'
  BY <1>i, <1>3 DEF Messengers!ReadReset, Messengers!Crash
<1>4. ASSUME NEW f \in Fds, Messengers!Handle(f) PROVE Typed'
  <2> DEFINE c == peer[f]
             m == Head(inq[c])
  <2>1. c \in Clients /\ m \in Messengers!Changes
    BY <1>i, <1>4 DEF Messengers!Handle, MessengersInv
  <2>2. ServerTyped'
    BY <1>i, <1>4, <2>1 DEF Messengers!Handle, Messengers!Forward, Messengers!Crash, Messengers!Changes
  <2>3. \A d \in Clients : Messengers!Writes(f, d) \in Nat
    BY <1>i, WritesAreFinite
  <2>4. BytesTyped'
    <3>1. inq' \in [Clients -> Seq(Messengers!Messages)]
      BY <1>i, <1>4, <2>1 DEF Messengers!Handle
    <3>2. \A d \in Clients : chan[d] \o [i \in 1..Messengers!Writes(f, d) |-> m]
                                 \in Seq(Messengers!Changes \cup {Messengers!Full})
      <4> SUFFICES ASSUME NEW d \in Clients
                   PROVE  chan[d] \o [i \in 1..Messengers!Writes(f, d) |-> m]
                             \in Seq(Messengers!Changes \cup {Messengers!Full})
        OBVIOUS
      <4> DEFINE n == Messengers!Writes(f, d)
                 S == Messengers!Changes \cup {Messengers!Full}
      <4>1. n \in Nat /\ m \in S /\ chan[d] \in Seq(S)
        BY <1>i, <2>1, <2>3
      <4> HIDE DEF n, S, m
      <4>2. [i \in 1..n |-> m] \in Seq(S)
        BY <4>1
      <4>3. chan[d] \o [i \in 1..n |-> m] \in Seq(S)
        BY <4>1, <4>2
      <4> QED
        BY <4>3 DEF n, S
    <3>3. chan' = chan
          \/ chan' = [d \in Clients |-> chan[d] \o [i \in 1..Messengers!Writes(f, d) |-> m]]
      BY <1>4 DEF Messengers!Handle, Messengers!Forward
    <3> HIDE DEF m, c
    <3> QED
      BY <1>i, <3>1, <3>2, <3>3
  <2>5. LinksTyped'
    <3> DEFINE Writes(d) == Messengers!Writes(f, d) > 0
    <3>1. \/ UNCHANGED <<told, link>>
          \/ /\ told' = [d \in Clients |-> told[d] \/ Writes(d)]
             /\ link' = [d \in Clients |-> IF Writes(d) /\ link[d] = "fin" THEN "dead" ELSE link[d]]
      BY <1>4 DEF Messengers!Handle, Messengers!Forward
    <3> HIDE DEF Writes
    <3>2. told' \in [Clients -> BOOLEAN]
      BY <1>i, <3>1
    <3>3. link' \in [Clients -> {"open", "fin", "rst", "dead"}]
      BY <1>i, <3>1
    <3> QED
      BY <3>2, <3>3
  <2>6. TablesTyped' /\ TurnsTyped'
    BY <1>i, <1>4 DEF Messengers!Handle
  <2> QED
    BY <2>2, <2>4, <2>5, <2>6
<1>13. ASSUME NEW f \in Fds, Messengers!Ignore(f) PROVE Typed'
  <2>1. peer[f] \in Clients
    BY <1>i, <1>13 DEF Messengers!Ignore, MessengersInv
  <2>2. inq' \in [Clients -> Seq(Messengers!Messages)]
    BY <1>i, <1>13, <2>1 DEF Messengers!Ignore
  <2> QED
    BY <1>i, <1>13, <2>2 DEF Messengers!Ignore
<1>5. ASSUME Messengers!ServerStop PROVE Typed'
  BY <1>i, <1>5 DEF Messengers!ServerStop
<1>6. ASSUME NEW c \in Clients, Messengers!Connect(c) PROVE Typed'
  BY <1>i, <1>6 DEF Messengers!Connect
<1>7. ASSUME NEW c \in Clients, NEW r \in Messengers!Modes, Messengers!FirstEvents(c, r)
      PROVE  Typed'
  <2>1. r \in Seq({"stdin", "server"}) /\ r # <<>> /\ Len(r) <= Len(r)
    BY ModesAreShort
  <2> QED
    BY <1>i, <1>7, <2>1 DEF Messengers!FirstEvents
<1>8. ASSUME NEW c \in Clients, NEW m \in Messengers!Messages, Messengers!Command(c, m)
      PROVE  Typed'
  <2>1. TurnsTyped'
    BY <1>i, <1>8, TurnStep DEF Messengers!Command, Messengers!Facing
  <2>2. BytesTyped'
    BY <1>i, <1>8 DEF Messengers!Command
  <2>3. TablesTyped'
    BY <1>0, <1>i, <1>8 DEF Messengers!Command, Messengers!Messages
  <2>4. ServerTyped' /\ LinksTyped'
    BY <1>i, <1>8 DEF Messengers!Command
  <2> QED
    BY <2>1, <2>2, <2>3, <2>4
<1>9. ASSUME NEW c \in Clients, Messengers!OtherLine(c) PROVE Typed'
  <2>1. TurnsTyped'
    BY <1>i, <1>9, TurnStep DEF Messengers!OtherLine, Messengers!Facing
  <2> QED
    BY <1>i, <1>9, <2>1 DEF Messengers!OtherLine
<1>10. ASSUME NEW c \in Clients, Messengers!ReadServer(c) PROVE Typed'
  <2>1. TurnsTyped'
    BY <1>i, <1>10, TurnStep DEF Messengers!ReadServer, Messengers!Facing
  <2>2. BytesTyped'
    BY <1>i, <1>10 DEF Messengers!ReadServer
  <2>3. Head(chan[c]) \in Messengers!Changes \cup {Messengers!Full}
    BY <1>i, <1>10 DEF Messengers!ReadServer
  <2>4. TablesTyped'
    <3>1. table' = table \/ \E m \in Messengers!Changes : table' = [table EXCEPT ![c][m.city] = m.owner]
      BY <1>10, <2>3 DEF Messengers!ReadServer
    <3>2. sent' = sent
      BY <1>10 DEF Messengers!ReadServer
    <3>3. ASSUME NEW m \in Messengers!Changes, table' = [table EXCEPT ![c][m.city] = m.owner]
          PROVE  table' \in [Clients -> [Cities -> {"g", "p"}]]
      <4>1. m.city \in Cities /\ m.owner \in {"g", "p"}
        BY DEF Messengers!Changes
      <4> QED
        BY <1>i, <3>3, <4>1
    <3> QED
      BY <1>i, <3>1, <3>2, <3>3
  <2>5. ServerTyped' /\ LinksTyped'
    BY <1>i, <1>10 DEF Messengers!ReadServer
  <2> QED
    BY <2>1, <2>2, <2>4, <2>5
<1>11. ASSUME NEW c \in Clients, Messengers!Leave(c) PROVE Typed'
  BY <1>i, <1>11 DEF Messengers!Leave, Messengers!Close
<1> QED
  BY <1>1, <1>2, <1>3, <1>4, <1>5, <1>6, <1>7, <1>8, <1>9, <1>10, <1>11, <1>13, SameFds
  DEF Messengers!Next, Messengers!Server, Messengers!Client

\* The clients' steps leave the server's array and descriptors alone.
LEMMA MessengersClients ==
    ASSUME MessengersInv, NEW c \in Clients, Messengers!Client(c)
    PROVE  /\ UNCHANGED <<up, peer, epoll, list, active, removed, refused, told>>
           /\ LinksClosed' /\ (SomeoneLeft => SomeoneLeft')
<1> USE DEF MessengersInv, Messengers!TypeOK, LinksClosed, SomeoneLeft, Messengers!serverVars,
            Messengers!netVars
<1>1. CASE Messengers!Connect(c)
  BY <1>1 DEF Messengers!Connect
<1>2. ASSUME NEW r \in Messengers!Modes, Messengers!FirstEvents(c, r)
      PROVE  /\ UNCHANGED <<up, peer, epoll, list, active, removed, refused, told>>
             /\ LinksClosed' /\ (SomeoneLeft => SomeoneLeft')
  BY <1>2 DEF Messengers!FirstEvents
<1>3. CASE (\E m \in Messengers!Messages : Messengers!Command(c, m))
           \/ Messengers!OtherLine(c) \/ Messengers!ReadServer(c)
  BY <1>3 DEF Messengers!Command, Messengers!OtherLine, Messengers!ReadServer
<1>4. CASE Messengers!Leave(c)
  BY <1>4 DEF Messengers!Leave, Messengers!Close
<1> QED
  BY <1>1, <1>2, <1>3, <1>4 DEF Messengers!Client

LEMMA MessengersAccept ==
    ASSUME MessengersInv, NEW f \in Fds, Messengers!Accept(f)
    PROVE  /\ \A g \in epoll' : peer'[g] # Nobody
           /\ LinksClosed' /\ UNCHANGED <<up, removed, pc>>
           /\ Messengers!NobodyForgotten' /\ Messengers!ExactUntilFirstLeave'
           /\ TurnedAway'
<1>i. /\ ServerTyped /\ LinksTyped /\ MAX_CLIENTS \in Nat /\ Nobody \notin Clients
      /\ Messengers!Fds = Fds
  BY TypedIs, Parameters, SameFds DEF MessengersInv, Typed
<1>f. /\ f = FreeFd /\ peer[f] = Nobody /\ Head(backlog) \in Clients
      /\ UNCHANGED <<up, removed, pc>> /\ f \notin epoll
  <2>1. f = FreeFd /\ backlog # <<>> /\ UNCHANGED <<up, removed, pc>>
    BY SameFds DEF Messengers!Accept, Messengers!clientVars
  <2> QED
    BY <2>1, FreeFdIsFree DEF MessengersInv
<1> DEFINE c == Head(backlog)
<1>p. peer' = [peer EXCEPT ![f] = c] /\ c \in Clients /\ peer' \in [Fds -> Clients \cup {Nobody}]
  BY <1>i, <1>f DEF Messengers!Accept, ServerTyped
<1>e. epoll \subseteq Fds /\ IsFiniteSet(epoll) /\ Cardinality(epoll) \in Nat
  <2>1. IsFiniteSet(Fds)
    BY Parameters, FS_Interval DEF Fds
  <2> QED
    BY <1>i, <2>1, FS_Subset, FS_CardinalityType DEF ServerTyped
<1>c. \A S : Messengers!Cardinality(S) = Cardinality(S)
  BY DEF Messengers!Cardinality, Cardinality, Messengers!IsFiniteSet, IsFiniteSet
<1>1. CASE active < MAX_CLIENTS
  <2>1. /\ list' = [list EXCEPT ![active + 1] = f] /\ active' = active + 1
        /\ epoll' = epoll \cup {f} /\ UNCHANGED <<link, told>>
    BY <1>i, <1>1 DEF Messengers!Accept, ServerTyped
  <2>2. \A g \in epoll' : peer'[g] # Nobody
    BY <1>f, <1>p, <1>e, <1>i, <2>1 DEF MessengersInv
  <2>3. Messengers!Listed' = Messengers!Listed \cup {f}
    <3>1. active \in Nat /\ active + 1 \in 1..MAX_CLIENTS /\ list \in [1..MAX_CLIENTS -> Fds \cup {0}]
      BY <1>i, <1>1 DEF ServerTyped
    <3>2. list'[active + 1] = f /\ \A i \in 1..active : list'[i] = list[i]
      BY <2>1, <3>1
    <3>3. 1..active' = 1..active \cup {active + 1}
      BY <2>1, <3>1
    <3> QED
      BY <3>2, <3>3 DEF Messengers!Listed
  <2>4. Messengers!NobodyForgotten'
    BY <2>1, <2>3 DEF Messengers!NobodyForgotten, MessengersInv
  <2>5. Messengers!ExactUntilFirstLeave'
    <3>1. Cardinality(epoll') = Cardinality(epoll) + 1
      BY <1>e, <1>f, <2>1, FS_AddElement
    <3> QED
      BY <1>c, <1>f, <2>1, <2>3, <3>1 DEF Messengers!ExactUntilFirstLeave, MessengersInv
  <2>6. TurnedAway'
    <3>1. TakesIn(f, c)
      BY <1>f, <1>i, <1>p, <1>1, <2>1 DEF Messengers!Accept, TakesIn, ServerTyped
    <3> QED
      BY <1>i, <1>p, <3>1, TurnedAwayStep DEF MessengersInv, ServerTyped
  <2>7. LinksClosed'
    BY <1>f, <2>1 DEF LinksClosed, MessengersInv
  <2> QED
    BY <1>f, <2>2, <2>4, <2>5, <2>6, <2>7
<1>2. CASE ~(active < MAX_CLIENTS)
  <2>1. /\ active = MAX_CLIENTS /\ told' = [told EXCEPT ![c] = TRUE]
        /\ UNCHANGED <<list, active, epoll>>
        /\ link' = [link EXCEPT ![c] = IF @ = "open" THEN @ ELSE "dead"]
    BY <1>i, <1>2 DEF Messengers!Accept, ServerTyped
  <2>2. \A g \in epoll' : peer'[g] # Nobody
    BY <1>f, <1>p, <1>e, <1>i, <2>1 DEF MessengersInv
  <2>4. Messengers!NobodyForgotten' /\ Messengers!ExactUntilFirstLeave'
    BY <1>f, <2>1
    DEF Messengers!NobodyForgotten, Messengers!ExactUntilFirstLeave, Messengers!Listed,
        MessengersInv
  <2>6. TurnedAway'
    <3>1. TurnsAway(f, c)
      BY <1>f, <1>i, <1>p, <1>2, <2>1 DEF Messengers!Accept, TurnsAway, ServerTyped
    <3> QED
      BY <1>i, <1>p, <3>1, TurnedAwayStep DEF MessengersInv, ServerTyped
  <2>7. LinksClosed'
    BY <1>f, <1>i, <1>p, <2>1 DEF LinksClosed, MessengersInv, LinksTyped
  <2> QED
    BY <1>f, <2>2, <2>4, <2>6, <2>7
<1> QED
  BY <1>1, <1>2

\* The server ends itself on a write to a closed descriptor, which takes a removal, or
\* on a connection that was closed at the other end.
LEMMA MessengersHandle ==
    ASSUME MessengersInv, NEW f \in Fds, Messengers!Handle(f)
    PROVE  /\ UNCHANGED <<peer, epoll, list, active, removed, refused, pc>>
           /\ LinksClosed' /\ (up' = "crashed" => SomeoneLeft)
<1>i. /\ ServerTyped /\ LinksTyped /\ active \in Nat
  BY TypedIs, Parameters DEF MessengersInv, Typed, ServerTyped
<1>1. UNCHANGED <<peer, epoll, list, active, removed, refused, pc>> /\ up = "up"
  BY DEF Messengers!Handle, Messengers!clientVars
<1>2. \A d \in Clients : link[d] # "open" => SomeoneLeft
  BY DEF MessengersInv, LinksClosed, SomeoneLeft
<1>3. Messengers!Doomed(f) => SomeoneLeft
  <2>1. ASSUME NEW i \in Messengers!Targets(f), peer[list[i]] = Nobody PROVE removed
    <3>1. list[i] \in Messengers!Listed
      BY DEF Messengers!Targets, Messengers!Listed
    <3> QED
      BY <2>1, <3>1 DEF MessengersInv, Messengers!ExactUntilFirstLeave
  <2> QED
    BY <1>2, <2>1 DEF Messengers!Doomed, MessengersInv
<1>4. Messengers!Risky(f) => SomeoneLeft
  BY <1>2 DEF Messengers!Risky
<1>5. CASE UNCHANGED <<chan, told, link>> /\ (Messengers!Doomed(f) \/ Messengers!Risky(f))
  BY <1>1, <1>3, <1>4, <1>5 DEF LinksClosed, MessengersInv
<1>6. CASE Messengers!Forward(f, Head(inq[peer[f]]))
  <2>1. LinksClosed'
    BY <1>1, <1>6 DEF Messengers!Forward, LinksClosed, MessengersInv
  <2>2. up' = up
    BY <1>6 DEF Messengers!Forward
  <2> QED
    BY <1>1, <2>1, <2>2
<1> QED
  BY <1>5, <1>6 DEF Messengers!Handle

LEMMA MessengersStep ==
    ASSUME MessengersInv, Messengers!Next
    PROVE  MessengersInv'
<1>i. ServerTyped /\ LinksTyped /\ Messengers!Fds = Fds
  BY TypedIs, SameFds DEF MessengersInv, Typed
<1>t. Messengers!TypeOK' /\ Channels' /\ Apart'
  <2>1. Apart
    BY DEF MessengersInv
  <2> QED
    BY <2>1, MessengersTypes, TypedIsAfter, MessengersNetwork, ApartStep
<1> SUFFICES /\ \A f \in epoll' : peer'[f] # Nobody
             /\ LinksClosed' /\ (removed' => SomeoneLeft')
             /\ Messengers!NobodyForgotten' /\ Messengers!ExactUntilFirstLeave'
             /\ Messengers!CrashNeedsALeave' /\ TurnedAway'
  BY <1>t DEF MessengersInv
<1> USE DEF Messengers!CrashNeedsALeave, SomeoneLeft
<1> DEFINE Rest == /\ \A f \in epoll' : peer'[f] # Nobody
                   /\ LinksClosed' /\ (removed' => SomeoneLeft')
                   /\ Messengers!NobodyForgotten' /\ Messengers!ExactUntilFirstLeave'
                   /\ Messengers!CrashNeedsALeave' /\ TurnedAway'
<1>1. ASSUME NEW f \in Fds, Messengers!Accept(f) PROVE Rest
  BY <1>1, MessengersAccept DEF MessengersInv
<1>2. ASSUME NEW f \in Fds, Messengers!Disconnect(f) PROVE Rest
  <2>1. /\ removed' = TRUE /\ epoll' = epoll \ {f} /\ peer' = [peer EXCEPT ![f] = Nobody]
        /\ list' = Messengers!Shift(f) /\ UNCHANGED <<up, active, pc, link, told>>
        /\ f \in epoll /\ link[peer[f]] \in {"fin", "dead"}
    BY <1>2 DEF Messengers!Disconnect, Messengers!clientVars, Messengers!netVars
  <2>2. peer[f] \in Clients
    BY <1>i, <2>1 DEF MessengersInv, ServerTyped
  <2>3. SomeoneLeft'
    BY <2>1, <2>2 DEF MessengersInv, LinksClosed
  <2>4. Messengers!NobodyForgotten'
    <3>1. \A g \in epoll \ {f} : \E i \in 1..active : list[i] = g /\ g # f
      BY DEF MessengersInv, Messengers!NobodyForgotten, Messengers!Listed
    <3>2. \A g \in epoll \ {f} : \E j \in 1..active : Messengers!Shift(f)[j] = g
      BY <3>1, ShiftKeeps
    <3> QED
      BY <2>1, <3>2 DEF Messengers!NobodyForgotten, Messengers!Listed
  <2>5. LinksClosed' /\ Messengers!ExactUntilFirstLeave'
    BY <2>1 DEF MessengersInv, LinksClosed, Messengers!ExactUntilFirstLeave
  <2>6. TurnedAway'
    <3>1. Drops(f)
      BY <1>2, <2>1 DEF Messengers!Disconnect, Drops
    <3> QED
      BY <1>i, <2>2, <3>1, Parameters, TurnedAwayStep DEF MessengersInv, ServerTyped
  <2>7. \A g \in epoll' : peer'[g] # Nobody
    BY <1>i, <2>1 DEF MessengersInv, ServerTyped
  <2> QED
    BY <2>3, <2>4, <2>5, <2>6, <2>7
<1>3. ASSUME NEW f \in Fds, Messengers!ReadReset(f) PROVE Rest
  <2>1. /\ UNCHANGED <<peer, epoll, list, active, removed, refused, pc, link, told>>
        /\ f \in epoll /\ link[peer[f]] = "rst"
    BY <1>3
    DEF Messengers!ReadReset, Messengers!clientVars, Messengers!netVars
  <2>2. peer[f] \in Clients
    BY <1>i, <2>1 DEF MessengersInv, ServerTyped
  <2>3. SomeoneLeft'
    BY <2>1, <2>2 DEF MessengersInv, LinksClosed
  <2> QED
    BY <2>1, <2>3
    DEF MessengersInv, LinksClosed, Messengers!NobodyForgotten, Messengers!Listed,
        Messengers!ExactUntilFirstLeave, TurnedAway
<1>4. ASSUME NEW f \in Fds, Messengers!Handle(f) PROVE Rest
  <2>1. /\ UNCHANGED <<peer, epoll, list, active, removed, refused, pc>>
        /\ LinksClosed' /\ (up' = "crashed" => SomeoneLeft)
    BY <1>4, MessengersHandle
  <2>2. TurnedAway'
    BY <2>1 DEF MessengersInv, TurnedAway
  <2> QED
    BY <2>1, <2>2
    DEF MessengersInv, Messengers!NobodyForgotten, Messengers!Listed,
        Messengers!ExactUntilFirstLeave
<1>7. ASSUME NEW f \in Fds, Messengers!Ignore(f) PROVE Rest
  <2>1. UNCHANGED <<up, peer, epoll, list, active, removed, refused, pc, link>>
    BY <1>7 DEF Messengers!Ignore, Messengers!serverVars, Messengers!clientVars
  <2> QED
    BY <2>1
    DEF MessengersInv, LinksClosed, Messengers!NobodyForgotten, Messengers!Listed,
        Messengers!ExactUntilFirstLeave, TurnedAway
<1>5. ASSUME Messengers!ServerStop PROVE Rest
  BY <1>5
  DEF Messengers!ServerStop, Messengers!clientVars, Messengers!netVars, MessengersInv,
      LinksClosed, Messengers!NobodyForgotten, Messengers!Listed,
      Messengers!ExactUntilFirstLeave, TurnedAway
<1>6. ASSUME NEW c \in Clients, Messengers!Client(c) PROVE Rest
  BY <1>6, MessengersClients
  DEF MessengersInv, Messengers!NobodyForgotten, Messengers!Listed,
      Messengers!ExactUntilFirstLeave, TurnedAway
<1> QED
  BY <1>1, <1>2, <1>3, <1>4, <1>5, <1>6, <1>7, <1>i DEF Messengers!Next, Messengers!Server

-----------------------------------------------------------------------------
(* The variables of Wire, which the other three servers use.               *)
Bytes == {"1", "5", "x", "nl"}

WireTyped ==
    /\ up \in {"up", "last", "stopped", "crashed"} /\ peer \in [Fds -> Clients \cup {Nobody}]
    /\ epoll \subseteq Fds /\ active \in Nat /\ told \in [Clients -> BOOLEAN]
    /\ pc \in [Clients -> {"out", "in", "left"}] /\ removed \in BOOLEAN
    /\ link \in [Clients -> {"open", "fin", "rst", "dead"}] /\ sent \in [Clients -> 0..MaxBytes]
    /\ refused \subseteq Clients
    /\ inq \in [Clients -> Seq(Bytes)]

WireInv ==
    WireTyped /\ Apart /\ LinksClosed /\ \A f \in epoll : peer[f] # Nobody

LEMMA WireTypesHold ==
    WireTyped => Electors!WireTypes /\ Enalia!WireTypes /\ Wizards!WireTypes
BY SameFds DEF WireTyped, Electors!WireTypes, Enalia!WireTypes, Wizards!WireTypes

LEMMA WireStart == Init => WireInv
<1> SUFFICES ASSUME Init PROVE WireInv
  OBVIOUS
<1> USE DEF Init, Enalia!Init, Enalia!WireInit
<1>0. Enalia!Fds = Fds /\ Nobody \notin Clients /\ MaxBytes \in Nat
  BY SameFds, Parameters
<1>1. WireTyped
  <2>1. /\ told \in [Clients -> BOOLEAN] /\ inq \in [Clients -> Seq(Bytes)]
        /\ sent \in [Clients -> 0..MaxBytes] /\ peer \in [Fds -> Clients \cup {Nobody}]
    BY <1>0
  <2>2. /\ pc \in [Clients -> {"out", "in", "left"}]
        /\ link \in [Clients -> {"open", "fin", "rst", "dead"}]
    OBVIOUS
  <2> QED
    BY <2>1, <2>2 DEF WireTyped
<1>2. Apart
  BY <1>0 DEF Apart
<1>3. LinksClosed
  BY DEF LinksClosed
<1> QED
  BY <1>1, <1>2, <1>3 DEF WireInv

\* What a client does: it connects, sends a byte or closes its end.
Joining(c) == /\ pc[c] = "out" /\ pc' = [pc EXCEPT ![c] = "in"] /\ backlog' = Append(backlog, c)
              /\ UNCHANGED <<link, inq, sent>>
Sending(c) == /\ sent[c] < MaxBytes /\ sent' = [sent EXCEPT ![c] = @ + 1]
              /\ \E b \in Bytes : inq' = [inq EXCEPT ![c] = Append(@, b)]
              /\ UNCHANGED <<pc, backlog, link>>
Closing(c) == /\ pc' = [pc EXCEPT ![c] = "left"]
              /\ \E l \in {"fin", "rst"} : link' = [link EXCEPT ![c] = l]
              /\ UNCHANGED <<backlog, inq, sent>>
Talks(c)   == /\ UNCHANGED <<up, peer, epoll, active, told, removed, refused>>
              /\ Joining(c) \/ Sending(c) \/ Closing(c)

LEMMA TalkIs ==
    ASSUME NEW c \in Clients
    PROVE  /\ Electors!Talk(c, Electors!Bytes) => Talks(c)
           /\ Enalia!Talk(c, {"x"}) => Talks(c)
           /\ Wizards!Talk(c, {"x"}) => Talks(c)
<1> USE DEF Talks, Joining, Sending, Closing
<1>1. ASSUME Electors!Talk(c, Electors!Bytes) PROVE Talks(c)
  <2>1. CASE Electors!Connect(c)
    BY <2>1 DEF Electors!Connect
  <2>2. ASSUME NEW b \in Electors!Bytes, Electors!Send(c, b) PROVE Talks(c)
    BY <2>2 DEF Electors!Send, Electors!Bytes, Bytes
  <2>3. ASSUME NEW l \in {"fin", "rst"}, Electors!Close(c, l) PROVE Talks(c)
    BY <2>3 DEF Electors!Close
  <2> QED
    BY <1>1, <2>1, <2>2, <2>3 DEF Electors!Talk
<1>2. ASSUME Enalia!Talk(c, {"x"}) PROVE Talks(c)
  <2>1. CASE Enalia!Connect(c)
    BY <2>1 DEF Enalia!Connect
  <2>2. ASSUME NEW b \in {"x"}, Enalia!Send(c, b) PROVE Talks(c)
    BY <2>2 DEF Enalia!Send, Bytes
  <2>3. ASSUME NEW l \in {"fin", "rst"}, Enalia!Close(c, l) PROVE Talks(c)
    BY <2>3 DEF Enalia!Close
  <2> QED
    BY <1>2, <2>1, <2>2, <2>3 DEF Enalia!Talk
<1>3. ASSUME Wizards!Talk(c, {"x"}) PROVE Talks(c)
  <2>1. CASE Wizards!Connect(c)
    BY <2>1 DEF Wizards!Connect
  <2>2. ASSUME NEW b \in {"x"}, Wizards!Send(c, b) PROVE Talks(c)
    BY <2>2 DEF Wizards!Send, Bytes
  <2>3. ASSUME NEW l \in {"fin", "rst"}, Wizards!Close(c, l) PROVE Talks(c)
    BY <2>3 DEF Wizards!Close
  <2> QED
    BY <1>3, <2>1, <2>2, <2>3 DEF Wizards!Talk
<1> QED
  BY <1>1, <1>2, <1>3

LEMMA TalkStep ==
    ASSUME WireInv, NEW c \in Clients, Talks(c)
    PROVE  WireInv' /\ (SomeoneLeft => SomeoneLeft')
<1> USE DEF WireInv, WireTyped, LinksClosed, SomeoneLeft
<1>0. MaxBytes \in Nat
  BY Parameters
<1>1. CASE Joining(c)
  <2>1. Joins(c)
    BY <1>1 DEF Talks, Joining, Joins
  <2>2. Apart'
    BY <2>1, ApartStep DEF Network
  <2> QED
    BY <1>1, <2>2 DEF Talks, Joining
<1>2. CASE Sending(c)
  <2>1. Quiet
    BY <1>2 DEF Talks, Sending, Quiet
  <2>2. Apart'
    BY <2>1, ApartStep DEF Network
  <2>3. inq' \in [Clients -> Seq(Bytes)] /\ sent' \in [Clients -> 0..MaxBytes]
    BY <1>0, <1>2 DEF Sending
  <2> QED
    BY <1>2, <2>2, <2>3 DEF Talks, Sending
<1>3. CASE Closing(c)
  <2>1. Quiet
    BY <1>3 DEF Talks, Closing, Quiet
  <2>2. Apart'
    BY <2>1, ApartStep DEF Network
  <2> QED
    BY <1>3, <2>2 DEF Talks, Closing
<1> QED
  BY <1>1, <1>2, <1>3 DEF Talks

\* What a server does to the links: an end that is open stays so.
LEMMA ServerStep ==
    ASSUME WireInv, WireTyped', Network, UNCHANGED pc,
           \A c \in Clients : link[c] = "open" => link'[c] = "open",
           \A f \in epoll' : peer'[f] # Nobody
    PROVE  WireInv' /\ (SomeoneLeft <=> SomeoneLeft')
<1>1. DOMAIN pc = Clients
  BY DEF WireInv, WireTyped
<1>2. Apart'
  BY <1>1, ApartStep DEF WireInv
<1>3. LinksClosed'
  BY DEF WireInv, LinksClosed
<1> QED
  BY <1>2, <1>3 DEF WireInv, SomeoneLeft

\* The descriptors that are open, and what becomes of a descriptor accepted or closed.
Open == {f \in Fds : peer[f] # Nobody}

LEMMA OpenIs ==
    /\ Electors!Open = Open /\ Enalia!Open = Open /\ Wizards!Open = Open
    /\ \A S : Electors!Cardinality(S) = Cardinality(S)
    /\ \A S : Enalia!Cardinality(S) = Cardinality(S)
    /\ \A S : Wizards!Cardinality(S) = Cardinality(S)
BY SameFds
DEF Open, Electors!Open, Enalia!Open, Wizards!Open,
    Electors!Cardinality, Enalia!Cardinality, Wizards!Cardinality, Cardinality,
    Electors!IsFiniteSet, Enalia!IsFiniteSet, Wizards!IsFiniteSet, IsFiniteSet

LEMMA OpenIsAfter == Electors!Open' = Open' /\ Enalia!Open' = Open' /\ Wizards!Open' = Open'
BY SameFds DEF Open, Electors!Open, Enalia!Open, Wizards!Open

\* All the bytes of a client may be taken at once.
LEMMA BytesTaken ==
    ASSUME WireTyped, NEW c, inq' = [inq EXCEPT ![c] = <<>>]
    PROVE  inq' \in [Clients -> Seq(Bytes)]
<1> DEFINE S == Seq(Bytes)
<1>1. inq \in [Clients -> S] /\ <<>> \in S
  BY DEF WireTyped
<1> HIDE DEF S
<1>2. inq' \in [Clients -> S]
  BY <1>1
<1> QED
  BY <1>2 DEF S

LEMMA PolledAreFinite ==
    ASSUME WireInv
    PROVE  /\ IsFiniteSet(epoll) /\ Cardinality(epoll) \in Nat /\ epoll \subseteq Open
           /\ \A f \in epoll : /\ peer[f] \in Clients /\ f \in Fds
                               /\ Cardinality(epoll \ {f}) = Cardinality(epoll) - 1
           /\ \A f \in Fds \ epoll : Cardinality(epoll \cup {f}) = Cardinality(epoll) + 1
<1>1. IsFiniteSet(Fds) /\ epoll \subseteq Fds
  BY Parameters, FS_Interval DEF Fds, WireInv, WireTyped
<1>2. IsFiniteSet(epoll) /\ Cardinality(epoll) \in Nat
  BY <1>1, FS_Subset, FS_CardinalityType
<1>3. \A f \in epoll : Cardinality(epoll \ {f}) = Cardinality(epoll) - 1
  BY <1>2, FS_RemoveElement
<1>4. \A f \in Fds \ epoll : Cardinality(epoll \cup {f}) = Cardinality(epoll) + 1
  BY <1>2, FS_AddElement
<1> QED
  BY <1>1, <1>2, <1>3, <1>4 DEF WireInv, WireTyped, Open

\* accept as these servers call it.
AcceptedAs(f) == /\ backlog # <<>> /\ f = FreeFd /\ backlog' = Tail(backlog)
                 /\ peer' = [peer EXCEPT ![f] = Head(backlog)]

LEMMA AcceptStep ==
    ASSUME WireInv, NEW f \in Fds, AcceptedAs(f), UNCHANGED pc
    PROVE  /\ Network /\ f \notin epoll /\ peer[f] = Nobody /\ Head(backlog) \in Clients
           /\ peer' \in [Fds -> Clients \cup {Nobody}]
           /\ Open' = Open \cup {f} /\ \A g \in epoll \cup {f} : peer'[g] # Nobody
<1>1. peer[f] = Nobody /\ Head(backlog) \in Clients
  BY FreeFdIsFree DEF WireInv, AcceptedAs
<1>2. Network
  BY DEF AcceptedAs, Accepted, Network
<1>3. Nobody \notin Clients
  BY Parameters
<1> QED
  BY <1>1, <1>2, <1>3 DEF AcceptedAs, WireInv, WireTyped, Open

LEMMA CloseStep ==
    ASSUME WireInv, NEW f \in epoll, peer' = [peer EXCEPT ![f] = Nobody], epoll' = epoll \ {f},
           UNCHANGED <<pc, backlog>>
    PROVE  /\ Network /\ Open' = Open \ {f} /\ peer' \in [Fds -> Clients \cup {Nobody}]
           /\ \A g \in epoll' : peer'[g] # Nobody
<1>1. f \in Fds
  BY DEF WireInv, WireTyped
<1>2. Network
  BY <1>1 DEF Network, Closed
<1> QED
  BY <1>1, <1>2 DEF WireInv, WireTyped, Open

-----------------------------------------------------------------------------
(* L4/Consultations/sop-enalia.c.                                          *)
EnaliaInv ==
    /\ WireInv /\ active <= MAX_CLIENTS
    /\ Enalia!ExactUntilFirstLeave /\ TurnedAway /\ Enalia!CrashNeedsALeave

LEMMA EnaliaInit == Init => EnaliaInv
<1> SUFFICES ASSUME Init PROVE EnaliaInv
  OBVIOUS
<1>1. WireInv
  BY WireStart
<1>2. active = 0 /\ epoll = {} /\ up = "up" /\ peer = [f \in Fds |-> Nobody] /\ refused = {}
  BY SameFds DEF Init, Enalia!Init, Enalia!WireInit
<1>3. Open = {}
  BY <1>2 DEF Open
<1> QED
  BY <1>1, <1>2, <1>3, FS_EmptySet, OpenIs, Parameters
  DEF EnaliaInv, Enalia!ExactUntilFirstLeave, TurnedAway, Enalia!CrashNeedsALeave

LEMMA EnaliaStep ==
    ASSUME EnaliaInv, Enalia!Next
    PROVE  EnaliaInv'
<1>i. /\ WireInv /\ active <= MAX_CLIENTS /\ (~removed => active = Cardinality(epoll))
      /\ TurnedAway /\ (up = "crashed" => SomeoneLeft)
      /\ WireTyped /\ MAX_CLIENTS \in Nat
  BY OpenIs, Parameters
  DEF EnaliaInv, Enalia!ExactUntilFirstLeave,
      Enalia!CrashNeedsALeave, SomeoneLeft, WireInv
<1> SUFFICES /\ WireInv' /\ active' <= MAX_CLIENTS /\ (~removed' => active' = Cardinality(epoll'))
             /\ TurnedAway' /\ (up' = "crashed" => SomeoneLeft')
  BY OpenIs, OpenIsAfter
  DEF EnaliaInv, Enalia!ExactUntilFirstLeave,
      Enalia!CrashNeedsALeave, SomeoneLeft
<1> DEFINE Kept == /\ WireInv' /\ active' <= MAX_CLIENTS
                   /\ (~removed' => active' = Cardinality(epoll'))
                   /\ TurnedAway'
                   /\ (up' = "crashed" => SomeoneLeft')
<1>1. ASSUME NEW f \in Fds, Enalia!Accept(f) PROVE Kept
  <2> DEFINE c == Head(backlog)
  <2>1. AcceptedAs(f) /\ UNCHANGED <<up, pc, inq, sent, removed>> /\ up = "up"
    BY <1>1, SameFds DEF Enalia!Accept, Enalia!AcceptAs, AcceptedAs
  <2>2. /\ Network /\ f \notin epoll /\ peer[f] = Nobody /\ c \in Clients
        /\ peer' \in [Fds -> Clients \cup {Nobody}]
        /\ Open' = Open \cup {f} /\ \A g \in epoll \cup {f} : peer'[g] # Nobody
    BY <1>i, <2>1, AcceptStep
  <2>3. /\ told' = [told EXCEPT ![c] = TRUE]
        /\ \E l \in {"dead", link[c]} : (link[c] = "open" => l = "open") /\ link' = [link EXCEPT ![c] = l]
    BY <1>1 DEF Enalia!Accept, Enalia!WriteTo
  <2>4. /\ told' \in [Clients -> BOOLEAN]
        /\ link' \in [Clients -> {"open", "fin", "rst", "dead"}]
        /\ \A d \in Clients : link[d] = "open" => link'[d] = "open"
    BY <1>i, <2>2, <2>3 DEF WireTyped
  <2>7. refused' \subseteq Clients
    <3>1. refused \subseteq Clients /\ c \in Clients
      BY <1>i, <2>2 DEF WireTyped
    <3>2. refused' = refused \/ refused' = refused \cup {c}
      BY <1>1 DEF Enalia!Accept
    <3> QED
      BY ONLY <3>1, <3>2
  <2>5. CASE active < MAX_CLIENTS
    <3>1. active' = active + 1 /\ epoll' = epoll \cup {f}
      BY <1>1, <2>5 DEF Enalia!Accept
    <3>2. WireTyped'
      BY <1>i, <2>1, <2>2, <2>4, <2>7, <3>1 DEF WireTyped
    <3>3. WireInv' /\ (SomeoneLeft <=> SomeoneLeft')
      BY <1>i, <2>1, <2>2, <2>4, <3>1, <3>2, ServerStep
    <3>4. Cardinality(epoll') = Cardinality(epoll) + 1
      BY <1>i, <2>2, <3>1, PolledAreFinite
    <3>5. active' <= MAX_CLIENTS
      BY <1>i, <2>5, <3>1 DEF WireTyped
    <3>6. TurnedAway'
      <4>1. TakesIn(f, c)
        BY <1>1, <2>1, <2>2, <2>5, <3>1 DEF Enalia!Accept, TakesIn, AcceptedAs
      <4> QED
        BY <1>i, <2>2, <4>1, Parameters, TurnedAwayStep DEF WireTyped
    <3> QED
      BY <1>i, <2>1, <3>1, <3>3, <3>4, <3>5, <3>6
  <2>6. CASE ~(active < MAX_CLIENTS)
    <3>1. active' = active /\ epoll' = epoll /\ active = MAX_CLIENTS
      BY <1>1, <1>i, <2>6 DEF Enalia!Accept, WireTyped
    <3>2. WireTyped'
      BY <1>i, <2>1, <2>2, <2>4, <2>7, <3>1 DEF WireTyped
    <3>3. WireInv' /\ (SomeoneLeft <=> SomeoneLeft')
      BY <1>i, <2>1, <2>2, <2>4, <3>1, <3>2, ServerStep
    <3>4. TurnedAway'
      <4>1. TurnsAway(f, c)
        BY <1>1, <2>1, <2>2, <2>6, <3>1 DEF Enalia!Accept, TurnsAway, AcceptedAs
      <4> QED
        BY <1>i, <2>2, <4>1, Parameters, TurnedAwayStep DEF WireTyped
    <3> QED
      BY <1>i, <2>1, <3>1, <3>3, <3>4
  <2> QED
    BY <2>5, <2>6
<1>2. ASSUME NEW f \in Fds, Enalia!Message(f) PROVE Kept
  <2>1. /\ inq' = [inq EXCEPT ![peer[f]] = <<>>]
        /\ UNCHANGED <<up, peer, epoll, backlog, active, pc, link, told, sent, removed, refused>>
    BY <1>2 DEF Enalia!Message
  <2>2. WireTyped'
    BY <1>i, <2>1, BytesTaken DEF WireTyped
  <2>3. Network
    BY <2>1 DEF Network, Quiet
  <2>4. WireInv' /\ (SomeoneLeft <=> SomeoneLeft')
    BY <1>i, <2>1, <2>2, <2>3, ServerStep DEF WireInv
  <2> QED
    BY <1>i, <2>1, <2>4 DEF TurnedAway
<1>3. ASSUME NEW f \in Fds, Enalia!Disconnect(f) PROVE Kept
  <2>1. /\ f \in epoll /\ peer' = [peer EXCEPT ![f] = Nobody] /\ epoll' = epoll \ {f}
        /\ removed' = TRUE /\ UNCHANGED <<up, backlog, active, pc, link, inq, told, sent, refused>>
        /\ up = "up"
    BY <1>3 DEF Enalia!Disconnect, Enalia!CloseFd
  <2>2. /\ Network /\ Open' = Open \ {f} /\ peer' \in [Fds -> Clients \cup {Nobody}]
        /\ \A g \in epoll' : peer'[g] # Nobody
    BY <1>i, <2>1, CloseStep
  <2>3. WireTyped'
    BY <1>i, <2>1, <2>2 DEF WireTyped
  <2>4. WireInv'
    BY <1>i, <2>1, <2>2, <2>3, ServerStep
  <2>5. TurnedAway'
    <3>1. Drops(f) /\ peer[f] \in Clients
      BY <1>i, <2>1, PolledAreFinite DEF Drops
    <3> QED
      BY <1>i, <3>1, Parameters, TurnedAwayStep DEF WireTyped
  <2> QED
    BY <1>i, <2>1, <2>2, <2>4, <2>5
<1>4. ASSUME NEW f \in Fds, Enalia!ReadReset(f) PROVE Kept
  <2>1. /\ f \in epoll /\ link[peer[f]] = "rst" /\ up' = "crashed"
        /\ UNCHANGED <<peer, epoll, backlog, active, pc, link, inq, told, sent, removed, refused>>
    BY <1>4 DEF Enalia!ReadReset, Enalia!ResetSeen
  <2>2. WireTyped' /\ Network
    BY <1>i, <2>1 DEF WireTyped, Network, Quiet
  <2>3. WireInv' /\ (SomeoneLeft <=> SomeoneLeft')
    BY <1>i, <2>1, <2>2, ServerStep DEF WireInv
  <2>4. SomeoneLeft
    BY <1>i, <2>1, PolledAreFinite DEF WireInv, LinksClosed, SomeoneLeft
  <2> QED
    BY <1>i, <2>1, <2>3, <2>4 DEF TurnedAway
<1>5. ASSUME NEW c \in Clients, Enalia!Talk(c, {"x"}) PROVE Kept
  <2>1. Talks(c)
    BY <1>5, TalkIs
  <2>2. WireInv' /\ (SomeoneLeft => SomeoneLeft')
    BY <1>i, <2>1, TalkStep
  <2> QED
    BY <1>i, <2>1, <2>2 DEF Talks, TurnedAway
<1> QED
  BY <1>1, <1>2, <1>3, <1>4, <1>5, SameFds DEF Enalia!Next, Enalia!Server

-----------------------------------------------------------------------------
(* L4/EXERCISE3/wizards.c.                                                 *)
WizardsInv ==
    /\ WireInv /\ active \in {0, 1} /\ total \in Nat
    /\ Wizards!OneWizard /\ Wizards!EndsForAReason

LEMMA WizardsInit == Init => WizardsInv
<1> SUFFICES ASSUME Init PROVE WizardsInv
  OBVIOUS
<1>1. WireInv
  BY WireStart
<1>2. active = 0 /\ epoll = {} /\ up = "up" /\ peer = [f \in Fds |-> Nobody] /\ total = 0
  BY SameFds DEF Init, Wizards!Init, Wizards!WireInit
<1>3. Open = {}
  BY <1>2 DEF Open
<1> QED
  BY <1>1, <1>2, <1>3, FS_EmptySet, OpenIs
  DEF WizardsInv, Wizards!OneWizard, Wizards!EndsForAReason

LEMMA WizardsStep ==
    ASSUME WizardsInv, Wizards!Next
    PROVE  WizardsInv'
<1>i. /\ WireInv /\ active \in {0, 1} /\ total \in Nat /\ active = Cardinality(epoll)
      /\ Open = epoll /\ (up # "up" => total >= Ritual \/ SomeoneLeft)
      /\ WireTyped /\ Ritual \in Nat
  BY OpenIs, Parameters
  DEF WizardsInv, Wizards!OneWizard, Wizards!EndsForAReason, SomeoneLeft, WireInv
<1> DEFINE Kept == /\ WireInv' /\ active' \in {0, 1} /\ total' \in Nat
                   /\ active' = Cardinality(epoll') /\ Open' = epoll'
                   /\ (up' # "up" => total' >= Ritual \/ SomeoneLeft')
<1> SUFFICES Kept
  BY OpenIs, OpenIsAfter DEF WizardsInv, Wizards!OneWizard, Wizards!EndsForAReason, SomeoneLeft
<1>1. ASSUME NEW f \in Fds, Wizards!Accept(f), active = 0 PROVE Kept
  <2>1. /\ AcceptedAs(f) /\ epoll' = epoll \cup {f} /\ active' = 1
        /\ UNCHANGED <<up, pc, link, inq, told, sent, removed, refused, total>>
    BY <1>1, SameFds DEF Wizards!Accept, Wizards!AcceptAs, AcceptedAs
  <2>2. /\ Network /\ f \notin epoll /\ peer' \in [Fds -> Clients \cup {Nobody}]
        /\ Open' = Open \cup {f} /\ \A g \in epoll \cup {f} : peer'[g] # Nobody
    BY <1>i, <2>1, AcceptStep
  <2>3. WireTyped'
    BY <1>i, <2>1, <2>2 DEF WireTyped
  <2>4. WireInv' /\ (SomeoneLeft <=> SomeoneLeft')
    BY <1>i, <2>1, <2>2, <2>3, ServerStep
  <2>5. Cardinality(epoll') = Cardinality(epoll) + 1
    BY <1>i, <2>1, <2>2, PolledAreFinite
  <2> QED
    BY <1>1, <1>i, <2>1, <2>2, <2>4, <2>5
<1>2. ASSUME NEW f \in Fds, Wizards!Accept(f), active # 0 PROVE Kept
  <2>1. /\ backlog # <<>> /\ backlog' = Tail(backlog)
        /\ UNCHANGED <<up, peer, epoll, active, pc, link, inq, told, sent, removed, refused, total>>
    BY <1>2 DEF Wizards!Accept
  <2>2. WireTyped' /\ Network
    BY <1>i, <2>1 DEF WireTyped, Network, Accepted
  <2>3. WireInv' /\ (SomeoneLeft <=> SomeoneLeft')
    BY <1>i, <2>1, <2>2, ServerStep DEF WireInv
  <2> QED
    BY <1>i, <2>1, <2>3 DEF Open
<1>3. ASSUME NEW f \in Fds, Wizards!Chant(f) PROVE Kept
  <2>1. /\ f \in epoll /\ total' = total + Len(inq[peer[f]]) /\ up = "up"
        /\ inq' = [inq EXCEPT ![peer[f]] = <<>>]
        /\ UNCHANGED <<backlog, pc, link, told, sent, refused>>
    BY <1>3 DEF Wizards!Chant
  <2>2. total' \in Nat
    BY <1>i, <2>1, PolledAreFinite DEF WireTyped
  <2>3. CASE total' >= Ritual
    <3>1. /\ peer' = [peer EXCEPT ![f] = Nobody] /\ epoll' = epoll \ {f} /\ removed' = TRUE
          /\ active' = active - 1 /\ up' = "last"
      BY <1>3, <2>3 DEF Wizards!Chant, Wizards!CloseFd
    <3>2. /\ Network /\ Open' = Open \ {f} /\ peer' \in [Fds -> Clients \cup {Nobody}]
          /\ \A g \in epoll' : peer'[g] # Nobody
      BY <1>i, <2>1, <3>1, CloseStep
    <3>3. /\ Cardinality(epoll \ {f}) = Cardinality(epoll) - 1
          /\ Cardinality(epoll') \in Nat
      <4>1. IsFiniteSet(epoll')
        BY <1>i, <3>1, PolledAreFinite, FS_Subset
      <4> QED
        BY <1>i, <2>1, <4>1, PolledAreFinite, FS_CardinalityType
    <3>4. active' \in {0, 1} /\ active' = Cardinality(epoll') /\ active' \in Nat
      BY <1>i, <3>1, <3>3
    <3>5. WireTyped'
      BY <1>i, <2>1, <3>1, <3>2, <3>4, BytesTaken DEF WireTyped
    <3>6. WireInv'
      BY <1>i, <2>1, <3>1, <3>2, <3>5, ServerStep
    <3> QED
      BY <1>i, <2>2, <2>3, <3>1, <3>2, <3>4, <3>6
  <2>4. CASE ~(total' >= Ritual)
    <3>1. UNCHANGED <<peer, epoll, removed, active, up>>
      BY <1>3, <2>4 DEF Wizards!Chant
    <3>2. WireTyped' /\ Network
      BY <1>i, <2>1, <3>1, BytesTaken DEF WireTyped, Network, Quiet
    <3>3. WireInv'
      BY <1>i, <2>1, <3>1, <3>2, ServerStep DEF WireInv
    <3> QED
      BY <1>i, <2>1, <2>2, <3>1, <3>3 DEF Open
  <2> QED
    BY <2>3, <2>4
<1>4. ASSUME NEW f \in Fds, Wizards!Disconnect(f) PROVE Kept
  <2>1. /\ f \in epoll /\ peer' = [peer EXCEPT ![f] = Nobody] /\ epoll' = epoll \ {f}
        /\ removed' = TRUE /\ active' = active - 1 /\ up' = "last"
        /\ link[peer[f]] \in {"fin", "dead"}
        /\ UNCHANGED <<backlog, pc, link, inq, told, sent, refused, total>>
    BY <1>4 DEF Wizards!Disconnect, Wizards!CloseFd, Wizards!EndSeen
  <2>2. /\ Network /\ Open' = Open \ {f} /\ peer' \in [Fds -> Clients \cup {Nobody}]
        /\ \A g \in epoll' : peer'[g] # Nobody
    BY <1>i, <2>1, CloseStep
  <2>3. /\ Cardinality(epoll \ {f}) = Cardinality(epoll) - 1
        /\ Cardinality(epoll') \in Nat
    <3>1. IsFiniteSet(epoll')
      BY <1>i, <2>1, PolledAreFinite, FS_Subset
    <3> QED
      BY <1>i, <2>1, <3>1, PolledAreFinite, FS_CardinalityType
  <2>4. active' \in {0, 1} /\ active' = Cardinality(epoll') /\ active' \in Nat
    BY <1>i, <2>1, <2>3
  <2>5. WireTyped'
    BY <1>i, <2>1, <2>2, <2>4 DEF WireTyped
  <2>6. WireInv' /\ (SomeoneLeft <=> SomeoneLeft')
    BY <1>i, <2>1, <2>2, <2>5, ServerStep
  <2>7. SomeoneLeft
    BY <1>i, <2>1, PolledAreFinite DEF WireInv, LinksClosed, SomeoneLeft
  <2> QED
    BY <1>i, <2>1, <2>2, <2>4, <2>6, <2>7
<1>5. CASE Wizards!Stop
  <2>1. /\ up = "last" /\ up' = "stopped"
        /\ UNCHANGED <<peer, epoll, backlog, active, pc, link, inq, told, sent, removed, refused, total>>
    BY <1>5 DEF Wizards!Stop
  <2>2. WireTyped' /\ Network
    BY <1>i, <2>1 DEF WireTyped, Network, Quiet
  <2>3. WireInv' /\ (SomeoneLeft <=> SomeoneLeft')
    BY <1>i, <2>1, <2>2, ServerStep DEF WireInv
  <2> QED
    BY <1>i, <2>1, <2>3 DEF Open
<1>6. ASSUME NEW c \in Clients, Wizards!Talk(c, {"x"}), UNCHANGED total PROVE Kept
  <2>1. Talks(c)
    BY <1>6, TalkIs
  <2>2. WireInv' /\ (SomeoneLeft => SomeoneLeft')
    BY <1>i, <2>1, TalkStep
  <2> QED
    BY <1>6, <1>i, <2>1, <2>2 DEF Talks, Open
<1> QED
  BY <1>1, <1>2, <1>3, <1>4, <1>5, <1>6, SameFds DEF Wizards!Next, Wizards!Server

-----------------------------------------------------------------------------
(* L4/EXERCISE2/sop-hre.c.                                                 *)

\* The client that is welcomed: entered behind the array and not counted yet.
Newcomer == IF serving.at = "welcome" THEN {serving.fd} ELSE {}

Served ==
    /\ serving \in [at : {"poll", "welcome", "vote"}, fd : Fds \cup {0}]
    /\ serving.at = "poll" => serving = Electors!Polling
    /\ serving.at # "poll" => serving.fd \in epoll
    /\ serving.at = "welcome" => active < MAX_CLIENTS /\ elist[active + 1].fd = serving.fd

Entered ==
    /\ active <= MAX_CLIENTS
    /\ elist \in [1..MAX_CLIENTS -> [fd : Fds \cup {0}, district : BOOLEAN]]
    /\ Electors!EveryoneHasADistrict
    /\ epoll \subseteq Electors!Listed \cup Newcomer
    /\ ~removed => /\ epoll = Electors!Listed \cup Newcomer
                   /\ Electors!Listed \cap Newcomer = {}
                   /\ active = Cardinality(Electors!Listed)

Reasons == up = "crashed" => SomeoneLeft \/ serving.at = "welcome"

ElectorsInv == WireInv /\ Served /\ Entered /\ Open = epoll /\ Reasons

LEMMA ElectorsInit == Init => ElectorsInv
<1> SUFFICES ASSUME Init PROVE ElectorsInv
  OBVIOUS
<1>1. WireInv
  BY WireStart
<1>2. /\ active = 0 /\ epoll = {} /\ up = "up" /\ peer = [f \in Fds |-> Nobody]
      /\ serving = Electors!Polling /\ elist = [i \in 1..MAX_CLIENTS |-> Electors!NoEntry]
  BY SameFds DEF Init, Electors!Init, Electors!WireInit
<1>3. Open = {}
  BY <1>2 DEF Open
<1>4. Electors!Listed = {} /\ Newcomer = {} /\ Cardinality({}) = 0
  BY <1>2, FS_EmptySet DEF Electors!Listed, Newcomer, Electors!Polling
<1>5. Served
  BY <1>2 DEF Served, Electors!Polling
<1>6. Entered
  BY <1>2, <1>4, Parameters
  DEF Entered, Electors!EveryoneHasADistrict, Electors!NoEntry
<1> QED
  BY <1>1, <1>2, <1>3, <1>5, <1>6 DEF ElectorsInv, Reasons

\* A write succeeds, closes the descriptor or ends the server.
LEMMA AnswerStep ==
    ASSUME ElectorsInv, NEW f \in epoll, Electors!Answer(f), UNCHANGED <<pc, backlog, sent, refused>>,
           active' \in Nat, inq' \in [Clients -> Seq(Bytes)], up = "up"
    PROVE  /\ WireInv' /\ (SomeoneLeft <=> SomeoneLeft') /\ Open' = epoll'
           /\ epoll' \in {epoll, epoll \ {f}} /\ (~removed' => ~removed /\ epoll' = epoll)
           /\ up' = "crashed" => SomeoneLeft
<1>i. WireInv /\ WireTyped /\ Open = epoll /\ peer[f] \in Clients /\ f \in Fds
  BY PolledAreFinite DEF ElectorsInv, WireInv
<1>1. CASE link[peer[f]] \in {"open", "fin"} /\ Electors!WriteTo(peer[f])
           /\ UNCHANGED <<up, peer, epoll, removed>>
  <2>1. \E l \in {"dead", link[peer[f]]} :
            (link[peer[f]] = "open" => l = "open") /\ link' = [link EXCEPT ![peer[f]] = l]
    BY <1>1 DEF Electors!WriteTo
  <2>2. told' = [told EXCEPT ![peer[f]] = TRUE]
    BY <1>1 DEF Electors!WriteTo
  <2>3. /\ told' \in [Clients -> BOOLEAN]
        /\ link' \in [Clients -> {"open", "fin", "rst", "dead"}]
        /\ \A d \in Clients : link[d] = "open" => link'[d] = "open"
    BY <1>i, <2>1, <2>2 DEF WireTyped
  <2>4. WireTyped' /\ Network
    BY <1>i, <1>1, <2>3 DEF WireTyped, Network, Quiet
  <2>5. WireInv' /\ (SomeoneLeft <=> SomeoneLeft')
    BY <1>i, <1>1, <2>3, <2>4, ServerStep DEF WireInv
  <2> QED
    BY <1>i, <1>1, <2>5 DEF Open
<1>2. CASE link[peer[f]] = "dead" /\ Electors!CloseFd(f) /\ UNCHANGED <<up, link, told>>
  <2>1. peer' = [peer EXCEPT ![f] = Nobody] /\ epoll' = epoll \ {f} /\ removed' = TRUE
    BY <1>2 DEF Electors!CloseFd
  <2>2. /\ Network /\ Open' = Open \ {f} /\ peer' \in [Fds -> Clients \cup {Nobody}]
        /\ \A g \in epoll' : peer'[g] # Nobody
    BY <1>i, <2>1, CloseStep
  <2>3. WireTyped'
    BY <1>i, <1>2, <2>1, <2>2 DEF WireTyped
  <2>4. WireInv' /\ (SomeoneLeft <=> SomeoneLeft')
    BY <1>i, <1>2, <2>2, <2>3, ServerStep
  <2> QED
    BY <1>i, <1>2, <2>1, <2>2, <2>4
<1>3. CASE link[peer[f]] = "rst" /\ up' = "crashed" /\ UNCHANGED <<peer, epoll, removed, link, told>>
  <2>1. WireTyped' /\ Network
    BY <1>i, <1>3 DEF WireTyped, Network, Quiet
  <2>2. WireInv' /\ (SomeoneLeft <=> SomeoneLeft')
    BY <1>i, <1>3, <2>1, ServerStep DEF WireInv
  <2>3. SomeoneLeft
    BY <1>i, <1>3 DEF WireInv, LinksClosed, SomeoneLeft
  <2> QED
    BY <1>i, <1>3, <2>2, <2>3 DEF Open
<1> QED
  BY <1>1, <1>2, <1>3 DEF Electors!Answer

\* One byte of a client is taken, or the end of file is seen.
LEMMA ByteTaken ==
    ASSUME WireTyped, NEW c \in Clients,
           inq' = inq \/ (inq[c] # <<>> /\ inq' = [inq EXCEPT ![c] = Tail(@)])
    PROVE  inq' \in [Clients -> Seq(Bytes)]
<1>1. CASE inq' = inq
  BY <1>1 DEF WireTyped
<1>2. CASE inq[c] # <<>> /\ inq' = [inq EXCEPT ![c] = Tail(@)]
  <2> DEFINE S == Seq(Bytes)
             t == Tail(inq[c])
  <2>1. inq \in [Clients -> S] /\ t \in S /\ inq' = [inq EXCEPT ![c] = t]
    BY <1>2 DEF WireTyped
  <2> HIDE DEF S, t
  <2>2. inq' \in [Clients -> S]
    BY <2>1
  <2> QED
    BY <2>2 DEF S
<1> QED
  BY <1>1, <1>2

\* The array with a newcomer behind it is one longer.
LEMMA ListedGrows ==
    ASSUME Entered, active \in Nat, active < MAX_CLIENTS, active' = active + 1,
           NEW f \in Fds, elist[active + 1].fd = f,
           elist' = [elist EXCEPT ![active + 1].district = TRUE]
    PROVE  /\ elist' \in [1..MAX_CLIENTS -> [fd : Fds \cup {0}, district : BOOLEAN]]
           /\ Electors!Listed' = Electors!Listed \cup {f} /\ Electors!EveryoneHasADistrict'
<1>0. active + 1 \in 1..MAX_CLIENTS /\ MAX_CLIENTS \in Nat
  BY Parameters
<1>1. /\ elist' \in [1..MAX_CLIENTS -> [fd : Fds \cup {0}, district : BOOLEAN]]
      /\ elist'[active + 1].fd = f /\ elist'[active + 1].district = TRUE
      /\ \A i \in 1..active : elist'[i] = elist[i]
  <2> DEFINE Entry == [fd : Fds \cup {0}, district : BOOLEAN]
             new == [elist[active + 1] EXCEPT !.district = TRUE]
  <2>1. elist \in [1..MAX_CLIENTS -> Entry] /\ elist[active + 1] \in Entry
    BY <1>0 DEF Entered
  <2>2. new \in Entry /\ new.fd = f /\ new.district = TRUE
    BY <2>1
  <2>3. elist' = [elist EXCEPT ![active + 1] = new]
    OBVIOUS
  <2> HIDE DEF Entry, new
  <2>4. elist' \in [1..MAX_CLIENTS -> Entry] /\ elist'[active + 1] = new
        /\ \A i \in 1..active : elist'[i] = elist[i]
    BY <1>0, <2>1, <2>2, <2>3
  <2> QED
    BY <2>2, <2>4 DEF Entry
<1>2. 1..active' = 1..active \cup {active + 1}
  BY <1>0
<1>3. Electors!EveryoneHasADistrict'
  BY <1>1, <1>2 DEF Entered, Electors!EveryoneHasADistrict
<1> QED
  BY <1>1, <1>2, <1>3 DEF Electors!Listed

\* The shift loses none but the entry that is removed.
LEMMA ElectorsShift ==
    ASSUME Entered, active \in Nat, NEW f \in Fds
    PROVE  LET new == Electors!Shift(f)
           IN  /\ new \in [1..MAX_CLIENTS -> [fd : Fds \cup {0}, district : BOOLEAN]]
               /\ \A j \in 1..active : \E i \in 1..active : new[j] = elist[i]
               /\ \A i \in 1..active : elist[i].fd # f => \E j \in 1..active : new[j] = elist[i]
<1> DEFINE at == {i \in 1..active : elist[i].fd = f}
           new == Electors!Shift(f)
           Entry == [fd : Fds \cup {0}, district : BOOLEAN]
<1>0. active \in 0..MAX_CLIENTS /\ MAX_CLIENTS \in Nat /\ elist \in [1..MAX_CLIENTS -> Entry]
  BY Parameters DEF Entered
<1> HIDE DEF Entry
<1>1. CASE at = {}
  <2>1. new = elist
    BY <1>1 DEF Electors!Shift
  <2> QED
    BY <1>0, <2>1 DEF Entry
<1>2. CASE at # {}
  <2> DEFINE m == CHOOSE x \in at : \A y \in at : x =< y
  <2>1. IsFiniteSet(at) /\ at \subseteq Int
    <3>1. IsFiniteSet(1..active)
      BY <1>0, FS_Interval
    <3> QED
      BY <1>0, <3>1, FS_Subset
  <2>2. \E x \in at : \A y \in at : x =< y
    <3> HIDE DEF at
    <3> QED
      BY <1>2, <2>1, LeastElement
  <2>3. m \in at
    BY <2>2
  <2>4. new = [i \in 1..MAX_CLIENTS |-> IF i >= m /\ i < active THEN elist[i + 1] ELSE elist[i]]
    BY <1>0, <1>2 DEF Electors!Shift, Electors!Min
  <2>m. m \in 1..active /\ elist[m].fd = f
    BY <2>3
  <2> HIDE DEF m, new
  <2>5. new \in [1..MAX_CLIENTS -> Entry]
    BY <1>0, <2>m, <2>4
  <2>6. ASSUME NEW i \in 1..active, elist[i].fd # f PROVE \E j \in 1..active : new[j] = elist[i]
    <3>1. i # m
      BY <2>m, <2>6
    <3>2. CASE i < m
      BY <1>0, <2>m, <2>4, <3>1, <3>2
    <3>3. CASE i > m
      <4>1. i - 1 \in 1..active /\ i - 1 >= m /\ i - 1 < active /\ i - 1 \in 1..MAX_CLIENTS
        BY <1>0, <2>m, <3>1, <3>3
      <4>2. new[i - 1] = elist[i]
        BY <1>0, <2>4, <4>1
      <4> QED
        BY <4>1, <4>2
    <3> QED
      BY <1>0, <2>m, <3>1, <3>2, <3>3
  <2>7. ASSUME NEW j \in 1..active PROVE \E i \in 1..active : new[j] = elist[i]
    <3>1. CASE j >= m /\ j < active
      <4>1. new[j] = elist[j + 1] /\ j + 1 \in 1..active
        BY <1>0, <2>4, <3>1
      <4> QED
        BY <4>1
    <3>2. CASE ~(j >= m /\ j < active)
      <4>1. new[j] = elist[j]
        BY <1>0, <2>4, <3>2
      <4> QED
        BY <4>1
    <3> QED
      BY <3>1, <3>2
  <2> QED
    BY <2>5, <2>6, <2>7 DEF new, Entry
<1> QED
  BY <1>1, <1>2

LEMMA ElectorsStep ==
    ASSUME ElectorsInv, Electors!Next
    PROVE  ElectorsInv'
<1>i. /\ WireInv /\ WireTyped /\ Served /\ Entered /\ Open = epoll /\ Reasons
      /\ MAX_CLIENTS \in Nat /\ active \in Nat
  BY Parameters DEF ElectorsInv, WireInv, WireTyped
<1>w. \A f \in epoll : peer[f] \in Clients /\ f \in Fds
  BY <1>i, PolledAreFinite
<1>1. ASSUME NEW f \in Fds, Electors!Accept(f), active < MAX_CLIENTS PROVE ElectorsInv'
  <2>1. /\ AcceptedAs(f) /\ epoll' = epoll \cup {f} /\ serving = Electors!Polling /\ up = "up"
        /\ elist' = [elist EXCEPT ![active + 1] = [fd |-> f, district |-> FALSE]]
        /\ serving' = [at |-> "welcome", fd |-> f]
        /\ UNCHANGED <<up, active, pc, link, inq, told, sent, removed, refused>>
    BY <1>1, SameFds DEF Electors!Accept, Electors!AcceptAs, AcceptedAs
  <2>2. /\ Network /\ f \notin epoll /\ peer' \in [Fds -> Clients \cup {Nobody}]
        /\ Open' = Open \cup {f} /\ \A g \in epoll \cup {f} : peer'[g] # Nobody
    BY <1>i, <2>1, AcceptStep
  <2>3. WireTyped'
    BY <1>i, <2>1, <2>2 DEF WireTyped
  <2>4. WireInv'
    BY <1>i, <2>1, <2>2, <2>3, ServerStep
  <2>5. active + 1 \in 1..MAX_CLIENTS
    BY <1>i, <1>1
  <2>6. Served'
    BY <1>1, <1>i, <2>1, <2>5 DEF Served, Entered
  <2>7. /\ elist' \in [1..MAX_CLIENTS -> [fd : Fds \cup {0}, district : BOOLEAN]]
        /\ \A i \in 1..active : elist'[i] = elist[i]
    BY <1>i, <2>1, <2>5 DEF Entered
  <2>8. Electors!Listed' = Electors!Listed /\ Electors!EveryoneHasADistrict'
    BY <1>i, <2>1, <2>7 DEF Electors!Listed, Electors!EveryoneHasADistrict, Entered
  <2>9. Newcomer = {} /\ Newcomer' = {f}
    BY <2>1 DEF Newcomer, Electors!Polling
  <2>10. Entered'
    BY <1>i, <2>1, <2>2, <2>7, <2>8, <2>9 DEF Entered
  <2> QED
    BY <1>i, <2>1, <2>2, <2>4, <2>6, <2>10 DEF ElectorsInv, Reasons
<1>q. ASSUME WireInv', UNCHANGED <<peer, epoll, active, elist, serving, removed>>,
             (SomeoneLeft => SomeoneLeft'),
             up' = up \/ SomeoneLeft' \/ serving.at = "welcome"
      PROVE  ElectorsInv'
  BY <1>i, <1>q
  DEF ElectorsInv, Served, Entered, Reasons, Newcomer, Electors!Listed,
      Electors!EveryoneHasADistrict, Open
<1>2. ASSUME NEW f \in Fds, Electors!Accept(f), ~(active < MAX_CLIENTS) PROVE ElectorsInv'
  <2>1. /\ backlog # <<>> /\ backlog' = Tail(backlog)
        /\ UNCHANGED <<up, peer, epoll, active, pc, link, inq, told, sent, removed, refused, elist, serving>>
    BY <1>2 DEF Electors!Accept
  <2>2. WireTyped' /\ Network
    BY <1>i, <2>1 DEF WireTyped, Network, Accepted
  <2>3. WireInv' /\ (SomeoneLeft <=> SomeoneLeft')
    BY <1>i, <2>1, <2>2, ServerStep DEF WireInv
  <2> QED
    BY <1>q, <2>1, <2>3
<1>3. ASSUME NEW f \in Fds, Electors!Poll(f) PROVE ElectorsInv'
  <2>1. /\ f \in epoll /\ serving' = [at |-> "vote", fd |-> f] /\ serving = Electors!Polling
        /\ UNCHANGED <<up, peer, epoll, backlog, active, pc, link, inq, told, sent, removed, refused, elist>>
    BY <1>3 DEF Electors!Poll, Electors!wireVars
  <2>2. WireTyped' /\ Network
    BY <1>i, <2>1 DEF WireTyped, Network, Quiet
  <2>3. WireInv' /\ (SomeoneLeft <=> SomeoneLeft')
    BY <1>i, <2>1, <2>2, ServerStep DEF WireInv
  <2>4. Served'
    BY <1>3, <1>i, <2>1 DEF Served
  <2>5. Newcomer = {} /\ Newcomer' = {}
    BY <2>1 DEF Newcomer, Electors!Polling
  <2>6. Entered'
    BY <1>i, <2>1, <2>5 DEF Entered, Electors!Listed, Electors!EveryoneHasADistrict
  <2>7. Reasons'
    BY <1>i, <2>1, <2>3 DEF Reasons, Electors!Polling
  <2> QED
    BY <1>i, <2>1, <2>3, <2>4, <2>6, <2>7 DEF ElectorsInv, Open
<1>4. ASSUME Electors!ReadReset PROVE ElectorsInv'
  <2>1. /\ serving # Electors!Polling /\ link[peer[serving.fd]] = "rst" /\ up' = "crashed"
        /\ UNCHANGED <<peer, epoll, backlog, active, pc, link, inq, told, sent, removed, refused, elist, serving>>
    BY <1>4 DEF Electors!ReadReset, Electors!Crash, Electors!ResetSeen
  <2>2. WireTyped' /\ Network
    BY <1>i, <2>1 DEF WireTyped, Network, Quiet
  <2>3. WireInv' /\ (SomeoneLeft <=> SomeoneLeft')
    BY <1>i, <2>1, <2>2, ServerStep DEF WireInv
  <2>4. SomeoneLeft
    BY <1>i, <1>w, <2>1 DEF Served, WireInv, LinksClosed, SomeoneLeft
  <2> QED
    BY <1>q, <2>1, <2>3, <2>4
<1>5. ASSUME Electors!SkipNewline PROVE ElectorsInv'
  <2>1. /\ serving.at = "vote" /\ inq[peer[serving.fd]] # <<>>
        /\ inq' = [inq EXCEPT ![peer[serving.fd]] = Tail(@)]
        /\ UNCHANGED <<up, peer, epoll, backlog, active, pc, link, told, sent, removed, refused, serving, elist>>
    BY <1>5 DEF Electors!SkipNewline
  <2>0. peer[serving.fd] \in Clients
    BY <1>i, <1>w, <2>1 DEF Served
  <2>2. inq' \in [Clients -> Seq(Bytes)]
    BY <1>i, <2>0, <2>1, ByteTaken
  <2>3. WireTyped' /\ Network
    BY <1>i, <2>1, <2>2 DEF WireTyped, Network, Quiet
  <2>4. WireInv' /\ (SomeoneLeft <=> SomeoneLeft')
    BY <1>i, <2>1, <2>3, ServerStep DEF WireInv
  <2> QED
    BY <1>q, <2>1, <2>4
<1>6. ASSUME Electors!Disconnect PROVE ElectorsInv'
  <2> DEFINE f == serving.fd
             new == Electors!Shift(f)
  <2>1. /\ serving.at = "vote" /\ up = "up" /\ peer' = [peer EXCEPT ![f] = Nobody]
        /\ epoll' = epoll \ {f} /\ removed' = TRUE /\ elist' = new
        /\ serving' = Electors!Polling
        /\ UNCHANGED <<up, backlog, active, pc, link, inq, told, sent, refused>>
    BY <1>6 DEF Electors!Disconnect, Electors!CloseFd
  <2>0. f \in epoll /\ f \in Fds
    BY <1>i, <1>w, <2>1 DEF Served
  <2>2. /\ Network /\ Open' = Open \ {f} /\ peer' \in [Fds -> Clients \cup {Nobody}]
        /\ \A g \in epoll' : peer'[g] # Nobody
    BY <1>i, <2>0, <2>1, CloseStep
  <2>3. WireTyped'
    BY <1>i, <2>1, <2>2 DEF WireTyped
  <2>4. WireInv'
    BY <1>i, <2>1, <2>2, <2>3, ServerStep
  <2>5. Served'
    BY <2>1 DEF Served, Electors!Polling
  <2>6. /\ new \in [1..MAX_CLIENTS -> [fd : Fds \cup {0}, district : BOOLEAN]]
        /\ \A j \in 1..active : \E i \in 1..active : new[j] = elist[i]
        /\ \A i \in 1..active : elist[i].fd # f => \E j \in 1..active : new[j] = elist[i]
    BY <1>i, <2>0, ElectorsShift
  <2> HIDE DEF new
  <2>7. Newcomer = {} /\ Newcomer' = {}
    BY <2>1 DEF Newcomer, Electors!Polling
  <2>8. epoll' \subseteq Electors!Listed'
    <3>1. \A g \in epoll : \E i \in 1..active : elist[i].fd = g
      BY <1>i, <2>7 DEF Entered, Electors!Listed
    <3>2. ASSUME NEW g \in epoll \ {f} PROVE \E j \in 1..active : new[j].fd = g
      <4>1. PICK i \in 1..active : elist[i].fd = g
        BY ONLY <3>1, <3>2
      <4>2. PICK j \in 1..active : new[j] = elist[i]
        BY ONLY <2>6, <3>2, <4>1
      <4> QED
        BY ONLY <4>1, <4>2
    <3>3. elist' = new /\ active' = active /\ epoll' = epoll \ {f}
      BY <2>1
    <3> HIDE DEF f
    <3>4. ASSUME NEW g \in epoll' PROVE g \in Electors!Listed'
      <4>1. PICK j \in 1..active : new[j].fd = g
        BY ONLY <3>2, <3>3, <3>4
      <4> QED
        BY ONLY <3>3, <4>1 DEF Electors!Listed
    <3> QED
      BY ONLY <3>4
  <2>9. Electors!EveryoneHasADistrict'
    BY <1>i, <2>1, <2>6 DEF Entered, Electors!EveryoneHasADistrict
  <2>10. Entered'
    BY <1>i, <2>1, <2>6, <2>7, <2>8, <2>9 DEF Entered
  <2> QED
    BY <1>i, <2>1, <2>2, <2>4, <2>5, <2>10 DEF ElectorsInv, Reasons
<1>7. ASSUME NEW b \in Electors!Bytes, Electors!Welcome(b) PROVE ElectorsInv'
  <2> DEFINE f == serving.fd
  <2>1. /\ up = "up" /\ serving.at = "welcome" /\ active' = active + 1
        /\ serving' = Electors!Polling /\ Electors!Answer(f)
        /\ elist' = [elist EXCEPT ![active + 1].district = TRUE]
        /\ UNCHANGED <<backlog, pc, sent, refused>>
    BY <1>7 DEF Electors!Welcome
  <2>0. /\ f \in epoll /\ f \in Fds /\ peer[f] \in Clients
        /\ active < MAX_CLIENTS /\ elist[active + 1].fd = f
    BY <1>i, <1>w, <2>1 DEF Served
  <2>2. inq' \in [Clients -> Seq(Bytes)]
    <3>1. inq' = inq \/ (inq[peer[f]] # <<>> /\ inq' = [inq EXCEPT ![peer[f]] = Tail(@)])
      BY <1>7 DEF Electors!Welcome, Electors!Reads
    <3> QED
      BY <1>i, <2>0, <3>1, ByteTaken
  <2>3. /\ WireInv' /\ (SomeoneLeft <=> SomeoneLeft') /\ Open' = epoll'
        /\ epoll' \in {epoll, epoll \ {f}} /\ (~removed' => ~removed /\ epoll' = epoll)
        /\ up' = "crashed" => SomeoneLeft
    BY <1>i, <2>0, <2>1, <2>2, AnswerStep
  <2>4. Served'
    BY <2>1 DEF Served, Electors!Polling
  <2>5. /\ elist' \in [1..MAX_CLIENTS -> [fd : Fds \cup {0}, district : BOOLEAN]]
        /\ Electors!Listed' = Electors!Listed \cup {f} /\ Electors!EveryoneHasADistrict'
    BY <1>i, <2>0, <2>1, ListedGrows
  <2>6. Newcomer = {f} /\ Newcomer' = {}
    BY <2>1 DEF Newcomer, Electors!Polling
  <2>7. IsFiniteSet(Electors!Listed)
    <3>1. ~removed => Electors!Listed \subseteq epoll
      BY <1>i DEF Entered
    <3>2. Electors!Listed \subseteq Fds \cup {0}
      <4>1. \A i \in 1..active : elist[i].fd \in Fds \cup {0}
        BY <1>i DEF Entered
      <4> QED
        BY <4>1 DEF Electors!Listed
    <3>3. IsFiniteSet(Fds \cup {0})
      <4>1. IsFiniteSet(Fds)
        BY Parameters, FS_Interval DEF Fds
      <4> QED
        BY <4>1, FS_AddElement
    <3> QED
      BY <3>2, <3>3, FS_Subset
  <2>8. ~removed' => active' = Cardinality(Electors!Listed')
    <3> SUFFICES ASSUME ~removed' PROVE active' = Cardinality(Electors!Listed')
      OBVIOUS
    <3>1. active = Cardinality(Electors!Listed) /\ f \notin Electors!Listed
      BY <1>i, <2>3, <2>6 DEF Entered
    <3>2. Cardinality(Electors!Listed \cup {f}) = Cardinality(Electors!Listed) + 1
      BY <2>7, <3>1, FS_AddElement
    <3> QED
      BY <2>1, <2>5, <3>1, <3>2
  <2>9. Entered'
    <3>1. epoll \subseteq Electors!Listed \cup {f}
          /\ (~removed => epoll = Electors!Listed \cup {f})
      BY <1>i, <2>6 DEF Entered
    <3>2. active' <= MAX_CLIENTS
      BY <1>i, <2>0, <2>1
    <3> QED
      BY <2>3, <2>5, <2>6, <2>8, <3>1, <3>2 DEF Entered
  <2> QED
    BY <2>3, <2>4, <2>9 DEF ElectorsInv, Reasons
<1>8. ASSUME NEW b \in Electors!Bytes, Electors!WrongDistrict(b) PROVE ElectorsInv'
  <2> DEFINE f == serving.fd
  <2>1. /\ serving.at = "welcome"
        /\ UNCHANGED <<peer, epoll, backlog, active, pc, link, told, sent, removed, refused, elist, serving>>
        /\ up' = "crashed"
        /\ inq' = inq \/ (inq[peer[f]] # <<>> /\ inq' = [inq EXCEPT ![peer[f]] = Tail(@)])
    BY <1>8 DEF Electors!WrongDistrict, Electors!Crash, Electors!Reads
  <2>0. peer[f] \in Clients
    BY <1>i, <1>w, <2>1 DEF Served
  <2>2. inq' \in [Clients -> Seq(Bytes)]
    BY <1>i, <2>0, <2>1, ByteTaken
  <2>3. WireTyped' /\ Network
    BY <1>i, <2>1, <2>2 DEF WireTyped, Network, Quiet
  <2>4. WireInv' /\ (SomeoneLeft <=> SomeoneLeft')
    BY <1>i, <2>1, <2>3, ServerStep DEF WireInv
  <2> QED
    BY <1>q, <2>1, <2>4
<1>9. ASSUME NEW b \in Electors!Bytes, Electors!Vote(b) PROVE ElectorsInv'
  <2> DEFINE f == serving.fd
  <2>1. /\ up = "up" /\ serving.at = "vote" /\ serving' = Electors!Polling
        /\ inq[peer[f]] # <<>> /\ inq' = [inq EXCEPT ![peer[f]] = Tail(@)]
        /\ UNCHANGED <<backlog, active, pc, sent, refused, elist>>
    BY <1>9 DEF Electors!Vote
  <2>0. f \in epoll /\ f \in Fds /\ peer[f] \in Clients
    BY <1>i, <1>w, <2>1 DEF Served
  <2>2. inq' \in [Clients -> Seq(Bytes)]
    BY <1>i, <2>0, <2>1, ByteTaken
  <2>3. /\ WireInv' /\ (SomeoneLeft <=> SomeoneLeft') /\ Open' = epoll'
        /\ epoll' \in {epoll, epoll \ {f}} /\ (~removed' => ~removed /\ epoll' = epoll)
        /\ up' = "crashed" => SomeoneLeft
    <3>1. CASE b = "1"
      <4>1. Electors!Answer(f)
        BY <1>9, <3>1 DEF Electors!Vote
      <4> QED
        BY <1>i, <2>0, <2>1, <2>2, <4>1, AnswerStep
    <3>2. CASE b # "1"
      <4>1. /\ peer' = [peer EXCEPT ![f] = Nobody] /\ epoll' = epoll \ {f} /\ removed' = TRUE
            /\ UNCHANGED <<up, link, told>>
        BY <1>9, <3>2 DEF Electors!Vote, Electors!CloseFd
      <4>2. /\ Network /\ Open' = Open \ {f} /\ peer' \in [Fds -> Clients \cup {Nobody}]
            /\ \A g \in epoll' : peer'[g] # Nobody
        BY <1>i, <2>0, <2>1, <4>1, CloseStep
      <4>3. WireTyped'
        BY <1>i, <2>1, <2>2, <4>1, <4>2 DEF WireTyped
      <4>4. WireInv' /\ (SomeoneLeft <=> SomeoneLeft')
        BY <1>i, <2>1, <4>1, <4>2, <4>3, ServerStep
      <4> QED
        BY <1>i, <2>1, <4>1, <4>2, <4>4
    <3> QED
      BY <3>1, <3>2
  <2>4. Served'
    BY <2>1 DEF Served, Electors!Polling
  <2>5. Newcomer = {} /\ Newcomer' = {} /\ Electors!Listed' = Electors!Listed
    BY <2>1 DEF Newcomer, Electors!Polling, Electors!Listed
  <2>6. Entered'
    BY <1>i, <2>1, <2>3, <2>5 DEF Entered, Electors!EveryoneHasADistrict
  <2> QED
    BY <2>3, <2>4, <2>6 DEF ElectorsInv, Reasons
<1>10. ASSUME NEW c \in Clients, Electors!Talk(c, Electors!Bytes), UNCHANGED <<serving, elist>>
       PROVE  ElectorsInv'
  <2>1. Talks(c)
    BY <1>10, TalkIs
  <2>2. WireInv' /\ (SomeoneLeft => SomeoneLeft')
    BY <1>i, <2>1, TalkStep
  <2> QED
    BY <1>10, <1>q, <2>1, <2>2 DEF Talks
<1> QED
  BY <1>1, <1>2, <1>3, <1>4, <1>5, <1>6, <1>7, <1>8, <1>9, <1>10, SameFds
  DEF Electors!Next, Electors!Server

-----------------------------------------------------------------------------
(* The suite: the invariant of the program that runs.                      *)
SocketsInv ==
    /\ prog = "messengers" => MessengersInv
    /\ prog = "electors" => ElectorsInv
    /\ prog = "enalia" => EnaliaInv
    /\ prog = "wizards" => WizardsInv

LEMMA SocketsInit == Init => SocketsInv
BY MessengersInit, ElectorsInit, EnaliaInit, WizardsInit DEF SocketsInv

\* The invariants speak of the variables only.
LEMMA SocketsStutter ==
    ASSUME SocketsInv, UNCHANGED vars
    PROVE  SocketsInv'
<1>1. UNCHANGED <<prog, wire, messengers, electors, total>>
  BY DEF vars
<1>2. ASSUME MessengersInv PROVE MessengersInv'
  <2>1. Messengers!TypeOK'
    BY <1>1, <1>2 DEF wire, messengers, MessengersInv, Messengers!TypeOK
  <2>2. Channels' /\ Apart' /\ LinksClosed'
    BY <1>1, <1>2 DEF wire, messengers, MessengersInv, Channels, Apart, LinksClosed
  <2>3. (\A f \in epoll : peer[f] # Nobody)' /\ (removed => SomeoneLeft)'
    BY <1>1, <1>2 DEF wire, MessengersInv, SomeoneLeft
  <2>4. Messengers!NobodyForgotten' /\ Messengers!ExactUntilFirstLeave'
    BY <1>1, <1>2
    DEF wire, messengers, MessengersInv, Messengers!NobodyForgotten,
        Messengers!ExactUntilFirstLeave, Messengers!Listed
  <2>5. Messengers!CrashNeedsALeave' /\ TurnedAway'
    BY <1>1, <1>2
    DEF wire, MessengersInv, Messengers!CrashNeedsALeave, TurnedAway
  <2> QED
    BY <2>1, <2>2, <2>3, <2>4, <2>5 DEF MessengersInv
<1>w. ASSUME WireInv PROVE WireInv'
  BY <1>1, <1>w DEF wire, WireInv, WireTyped, Apart, LinksClosed
<1>3. ASSUME ElectorsInv PROVE ElectorsInv'
  <2>1. WireInv'
    BY <1>3, <1>w DEF ElectorsInv
  <2>2. Served' /\ Entered' /\ Reasons' /\ Open' = epoll'
    BY <1>1, <1>3
    DEF wire, electors, ElectorsInv, Served, Entered, Reasons, Open, Newcomer, SomeoneLeft,
        Electors!Polling, Electors!Listed, Electors!EveryoneHasADistrict
  <2> QED
    BY <2>1, <2>2 DEF ElectorsInv
<1>4. ASSUME EnaliaInv PROVE EnaliaInv'
  <2>1. WireInv'
    BY <1>4, <1>w DEF EnaliaInv
  <2> QED
    BY <1>1, <1>4, <2>1
    DEF wire, EnaliaInv, Enalia!ExactUntilFirstLeave, TurnedAway,
        Enalia!CrashNeedsALeave
<1>5. ASSUME WizardsInv PROVE WizardsInv'
  <2>1. WireInv'
    BY <1>5, <1>w DEF WizardsInv
  <2> QED
    BY <1>1, <1>5, <2>1
    DEF wire, WizardsInv, Wizards!OneWizard, Wizards!EndsForAReason, Wizards!Open
<1> QED
  BY <1>1, <1>2, <1>3, <1>4, <1>5 DEF SocketsInv

LEMMA SocketsStep == SocketsInv /\ [Next]_vars => SocketsInv'
<1> SUFFICES ASSUME SocketsInv, [Next]_vars PROVE SocketsInv'
  OBVIOUS
<1>1. CASE prog = "messengers" /\ Messengers!Next /\ UNCHANGED prog
  BY <1>1, MessengersStep DEF SocketsInv
<1>2. CASE prog = "electors" /\ Electors!Next /\ UNCHANGED prog
  BY <1>2, ElectorsStep DEF SocketsInv
<1>3. CASE prog = "enalia" /\ Enalia!Next /\ UNCHANGED prog
  BY <1>3, EnaliaStep DEF SocketsInv
<1>4. CASE prog = "wizards" /\ Wizards!Next /\ UNCHANGED prog
  BY <1>4, WizardsStep DEF SocketsInv
<1>5. CASE UNCHANGED vars
  BY <1>5, SocketsStutter
<1> QED
  BY <1>1, <1>2, <1>3, <1>4, <1>5 DEF Next

LEMMA SocketsAlways == Spec => []SocketsInv
BY SocketsInit, SocketsStep, PTL DEF Spec

\* The variables of the server that runs have their types: a list has room for every
\* connection the server counts, whatever clients connect, send and leave.
THEOREM TypesHold == Spec => []TypeOK
<1>1. SocketsInv => TypeOK
  BY WireTypesHold, SameFds
  DEF SocketsInv, TypeOK, MessengersInv, ElectorsInv, EnaliaInv, WizardsInv, WireInv, Served,
      Entered, Electors!TypeOK, Enalia!TypeOK, Wizards!TypeOK
<1> QED
  BY <1>1, SocketsAlways, PTL

\* L4/Messengers, EXERCISE2: the shift of remove_client, which gets the count by value,
\* leaves every polled client in the array, however many were removed before; and no
\* elector is counted before its district is entered.
THEOREM NoneForgotten == Spec => []NobodyForgotten
<1>1. SocketsInv => NobodyForgotten
  BY DEF SocketsInv, NobodyForgotten, MessengersInv, ElectorsInv, Entered, Newcomer,
         Electors!NobodyForgotten
<1> QED
  BY <1>1, SocketsAlways, PTL

\* The number of connections a server counts is the number it polls until the first is
\* closed; wizards.c, which lowers it, keeps it exact for ever and at most one.
THEOREM CountsHold == Spec => []CountExact
<1>1. ASSUME ElectorsInv PROVE Electors!ExactUntilFirstClose
  BY <1>1, OpenIs DEF ElectorsInv, Entered, Newcomer, Electors!ExactUntilFirstClose
<1>2. SocketsInv => CountExact
  BY <1>1 DEF SocketsInv, CountExact, MessengersInv, EnaliaInv, WizardsInv
<1> QED
  BY <1>2, SocketsAlways, PTL

\* The descriptors that are open and not polled are exactly those of the clients turned
\* away from a full Messengers or Enalia server; sop-hre.c has none at all, whichever way
\* a write fails.
THEOREM TurnedAwayLeaks == Spec => []TurnedAwayLeak
<1>1. ASSUME TurnedAway, Nobody \notin Clients
      PROVE  {peer[f] : f \in {g \in Fds \ epoll : peer[g] # Nobody}} = refused
  BY <1>1 DEF TurnedAway
<1>2. ASSUME MessengersInv PROVE Messengers!TurnedAwayLeak
  BY <1>1, <1>2, SameFds, Parameters DEF MessengersInv, Messengers!TurnedAwayLeak
<1>3. ASSUME EnaliaInv PROVE Enalia!TurnedAwayLeak
  <2>1. Open \ epoll = {g \in Fds \ epoll : peer[g] # Nobody}
    BY DEF Open
  <2> QED
    BY <1>1, <1>3, <2>1, OpenIs, Parameters DEF EnaliaInv, Enalia!TurnedAwayLeak
<1>4. SocketsInv => TurnedAwayLeak
  BY <1>2, <1>3, OpenIs
  DEF SocketsInv, TurnedAwayLeak, ElectorsInv, Electors!NothingUnpolled
<1> QED
  BY <1>4, SocketsAlways, PTL

\* No server ends itself unless some client has closed its socket, except sop-hre.c on a
\* wrong district and wizards.c when it has its bytes.
THEOREM ReasonsHold == Spec => []EndsForAReason
<1>1. SocketsInv => EndsForAReason
  BY DEF SocketsInv, EndsForAReason, MessengersInv, ElectorsInv, EnaliaInv, WizardsInv, Reasons,
         SomeoneLeft, Electors!CrashCause
<1> QED
  BY <1>1, SocketsAlways, PTL
=============================================================================
