----------------------------- MODULE QueuesProofs -----------------------------
(***************************************************************************)
(* What holds of the message queue programs for any number of clients and  *)
(* workers, any length of a queue and any amount of work: the types, the   *)
(* notifications, the sums and what a client leaves behind.                *)
(***************************************************************************)
EXTENDS MCQueues, MessageQueue, Sequences, SumTheorems

\* A library operator is the same in every program.
LEMMA SameCardinality ==
    /\ \A S : Tasks!Cardinality(S) = Cardinality(S) /\ (Tasks!IsFiniteSet(S) <=> IsFiniteSet(S))
    /\ \A S : Bingo!Cardinality(S) = Cardinality(S) /\ (Bingo!IsFiniteSet(S) <=> IsFiniteSet(S))
    /\ \A S : Chat!Cardinality(S) = Cardinality(S) /\ (Chat!IsFiniteSet(S) <=> IsFiniteSet(S))
    /\ \A S : Sums!IsFiniteSet(S) <=> IsFiniteSet(S)
BY DEF Cardinality, IsFiniteSet, Tasks!Cardinality, Tasks!IsFiniteSet, Bingo!Cardinality,
       Bingo!IsFiniteSet, Chat!Cardinality, Chat!IsFiniteSet, Sums!IsFiniteSet

LEMMA Parameters ==
    /\ CLIENT_COUNT \in Nat /\ CLIENT_COUNT # 0 /\ MAX_MSG_COUNT \in Nat /\ MAX_MSG_COUNT # 0
    /\ OPEN_FOR \in Nat /\ OPEN_FOR # 0 /\ CHILD_COUNT \in Nat /\ CHILD_COUNT # 0
    /\ ROUNDS \in Nat /\ MIN_ITEMS \in Nat /\ MAX_ITEMS \in Nat /\ MIN_ITEMS <= MAX_ITEMS
    /\ IsFiniteSet(Workers) /\ Share \in Nat /\ MAX_MSG \in Nat /\ MAX_MSG # 0 /\ MaxSigints \in Nat
    /\ IsFiniteSet(Children) /\ MAX_NUM \in Nat /\ MAX_NUM # 0
    /\ IsFiniteSet(Guests) /\ MAX_CLIENTS \in Nat /\ MAX_CLIENTS # 0 /\ Room \in Nat /\ Room # 0
    /\ Texts \in Nat /\ IsFiniteSet(Askers) /\ MaxRuns \in Nat
BY QueuesAssumption, SameCardinality
DEF QueuesAssumption, Store!StoreAssumption, Tasks!TaskAssumption, Disc!DiscAssumption,
    Bingo!BingoAssumption, Chat!ChatAssumption, Sums!CalculatorAssumption

-----------------------------------------------------------------------------
(* The queues.                                                             *)
LEMMA QueueFields ==
    ASSUME NEW max \in Nat, NEW q \in Queue(max)
    PROVE  q.n \in 0..max /\ q.armed \in BOOLEAN /\ q.signal \in BOOLEAN
BY DEF Queue

LEMMA QueueChanges ==
    ASSUME NEW max \in Nat, NEW q \in Queue(max)
    PROVE  /\ Arm(q) \in Queue(max) /\ Arm(q).n = q.n /\ Arm(q).armed /\ Arm(q).signal = q.signal
           /\ Deliver(q) \in Queue(max) /\ Deliver(q).n = q.n /\ Deliver(q).armed
           /\ ~Deliver(q).signal
           /\ Unregister(q) \in Queue(max) /\ Unregister(q).n = q.n
           /\ Unregister(q).signal = q.signal
           /\ [q EXCEPT !.signal = FALSE] \in Queue(max)
           /\ [q EXCEPT !.signal = FALSE].n = q.n
BY DEF Queue, Arm, Deliver, Unregister

LEMMA QueueTake ==
    ASSUME NEW max \in Nat, NEW q \in Queue(max), q.n > 0
    PROVE  /\ Take(q) \in Queue(max) /\ Take(q).n = q.n - 1
           /\ Take(q).armed = q.armed /\ Take(q).signal = q.signal
BY DEF Queue, Take

\* A message to the empty queue turns the registration into a signal.
LEMMA QueuePut ==
    ASSUME NEW max \in Nat, NEW q \in Queue(max), ~Full(q, max)
    PROVE  /\ Put(q) \in Queue(max) /\ Put(q).n = q.n + 1
           /\ q.n = 0 /\ q.armed => Put(q).signal
           /\ ~(q.n = 0 /\ q.armed) => Put(q).armed = q.armed /\ Put(q).signal = q.signal
           /\ PutToWaiting(q) \in Queue(max) /\ PutToWaiting(q).n = q.n + 1
           /\ PutToWaiting(q).armed = q.armed /\ PutToWaiting(q).signal = q.signal
<1>1. q.n \in 0..max /\ q.n < max
  BY DEF Queue, Full
<1>2. ASSUME q.n = 0 /\ q.armed
      PROVE  Put(q) \in Queue(max) /\ Put(q).n = q.n + 1 /\ Put(q).signal
  <2>1. Put(q) = [n |-> 1, armed |-> FALSE, signal |-> TRUE] /\ 1 \in 0..max
    BY <1>1, <1>2 DEF Put
  <2> QED
    BY <1>2, <2>1 DEF Queue
<1>3. PutToWaiting(q) = [q EXCEPT !.n = q.n + 1] /\ q.n + 1 \in 0..max
  BY <1>1 DEF PutToWaiting
<1>4. /\ PutToWaiting(q) \in Queue(max) /\ PutToWaiting(q).n = q.n + 1
      /\ PutToWaiting(q).armed = q.armed /\ PutToWaiting(q).signal = q.signal
  BY <1>3 DEF Queue
<1>5. ~(q.n = 0 /\ q.armed) => Put(q) = PutToWaiting(q)
  BY DEF Put, PutToWaiting
<1> QED
  BY <1>2, <1>4, <1>5

LEMMA FreshQueue ==
    ASSUME NEW max \in Nat
    PROVE  Fresh \in Queue(max) /\ Fresh.n = 0 /\ ~Fresh.armed /\ ~Fresh.signal
BY DEF Fresh, Queue

LEMMA StoreQueues ==
    /\ \A max : Store!Queue(max) = Queue(max)
    /\ \A q, max : Store!Full(q, max) = Full(q, max)
    /\ Store!Fresh = Fresh
    /\ \A q : /\ Store!Put(q) = Put(q) /\ Store!Take(q) = Take(q) /\ Store!Arm(q) = Arm(q)
              /\ Store!Deliver(q) = Deliver(q) /\ Store!Unregister(q) = Unregister(q)
BY DEF Store!Fresh, Fresh, Store!Queue, Queue, Store!Full, Full, Store!Put, Put, Store!Take, Take, Store!Arm, Arm,
       Store!Deliver, Deliver, Store!Unregister, Unregister

LEMMA BingoQueues ==
    /\ \A max : Bingo!Queue(max) = Queue(max)
    /\ \A q, max : Bingo!Full(q, max) = Full(q, max)
    /\ Bingo!Fresh = Fresh
    /\ \A q : /\ Bingo!Put(q) = Put(q) /\ Bingo!Take(q) = Take(q) /\ Bingo!Arm(q) = Arm(q)
              /\ Bingo!Deliver(q) = Deliver(q) /\ Bingo!Unregister(q) = Unregister(q)
BY DEF Bingo!Fresh, Fresh, Bingo!Queue, Queue, Bingo!Full, Full, Bingo!Put, Put, Bingo!Take, Take, Bingo!Arm, Arm,
       Bingo!Deliver, Deliver, Bingo!Unregister, Unregister

LEMMA DiscQueues ==
    /\ \A max : Disc!Queue(max) = Queue(max)
    /\ \A q, max : Disc!Full(q, max) = Full(q, max)
    /\ \A q : /\ Disc!Put(q) = Put(q) /\ Disc!Take(q) = Take(q)
              /\ Disc!Deliver(q) = Deliver(q) /\ Disc!PutToWaiting(q) = PutToWaiting(q)
BY DEF Disc!Queue, Queue, Disc!Full, Full, Disc!Put, Put, Disc!Take, Take,
       Disc!Deliver, Deliver, Disc!PutToWaiting, PutToWaiting

LEMMA TaskQueues ==
    /\ \A max : Tasks!Queue(max) = Queue(max)
    /\ \A q, max : Tasks!Full(q, max) = Full(q, max)
    /\ Tasks!Fresh = Fresh
    /\ \A q : Tasks!Put(q) = Put(q) /\ Tasks!Take(q) = Take(q)
BY DEF Tasks!Fresh, Fresh, Tasks!Queue, Queue, Tasks!Full, Full, Tasks!Put, Put, Tasks!Take, Take

-----------------------------------------------------------------------------
(* L2/sop2-6/sop-queue.c.                                                  *)

\* From mq_notify to mq_close the checkout is registered or its signal is on the way; an
\* hour is over when the queue was found empty, so what is in it later has a signal.
StoreInv ==
    /\ Store!TypeOK /\ Store!WakeupsKept
    /\ pc \in {"open", "hour", "closing"} => queue.armed \/ queue.signal
    /\ pc \in {"start", "open"} => hour = 0
    /\ pc = "hour" => hour < OPEN_FOR

LEMMA StoreInit == Init => StoreInv
<1> SUFFICES ASSUME Init PROVE StoreInv
  OBVIOUS
<1>1. queue \in Store!Queue(MAX_MSG_COUNT)
  BY Parameters, StoreQueues, FreshQueue DEF Init, Store!Init
<1>2. left \in [Store!Clients -> MIN_ITEMS..MAX_ITEMS] /\ MIN_ITEMS..MAX_ITEMS \subseteq 0..MAX_ITEMS
  BY Parameters DEF Init, Store!Init
<1>3. left \in [Store!Clients -> 0..MAX_ITEMS]
  BY <1>2
<1>4. /\ forked = 0 /\ main = "up" /\ pc = "start" /\ hour = 0 /\ handler \in BOOLEAN
  BY DEF Init, Store!Init
<1>5. 0 \in 0..CLIENT_COUNT + 1 /\ 0 \in 0..OPEN_FOR
  BY Parameters
<1>6. Store!TypeOK
  BY <1>1, <1>3, <1>4, <1>5 DEF Store!TypeOK
<1> QED
  BY <1>4, <1>6 DEF StoreInv, Store!WakeupsKept

LEMMA StoreStep ==
    ASSUME StoreInv, Store!Next
    PROVE  StoreInv'
<1>i. queue \in Queue(MAX_MSG_COUNT)
  BY StoreQueues DEF StoreInv, Store!TypeOK
<1> USE Parameters, StoreQueues, <1>i, QueueFields DEF StoreInv, Store!TypeOK, Store!WakeupsKept
<1>1. CASE Store!Fork
  BY <1>1 DEF Store!Fork
<1>2. CASE Store!Reap
  BY <1>2 DEF Store!Reap
<1>3. CASE Store!OpenCheckout
  <2>1. /\ pc' = "open" /\ queue' = Arm(queue) /\ UNCHANGED <<forked, main, hour, handler, left>>
        /\ hour = 0
    BY <1>3 DEF Store!OpenCheckout
  <2>2. queue' \in Queue(MAX_MSG_COUNT) /\ queue'.armed
    BY <2>1, QueueChanges
  <2> QED
    BY <2>1, <2>2
<1>4. CASE Store!Decide
  BY <1>4 DEF Store!Decide
<1>5. CASE Store!Poll
  BY <1>5, QueueTake DEF Store!Poll
<1>6. CASE Store!CloseQueue
  BY <1>6, QueueChanges DEF Store!CloseQueue
<1>7. CASE Store!LeaveCheckout
  BY <1>7 DEF Store!LeaveCheckout
<1>8. CASE Store!EnterHandler
  BY <1>8, QueueChanges DEF Store!EnterHandler
<1>9. CASE Store!EnterClosed
  BY <1>9, QueueChanges DEF Store!EnterClosed
<1>10. CASE Store!HandlerReceive
  <2>1. CASE queue.n > 0
    <3>1. queue' = Take(queue) /\ UNCHANGED <<forked, main, pc, hour, handler, left>> /\ handler
      BY <1>10, <2>1 DEF Store!HandlerReceive
    <3>2. queue' \in Queue(MAX_MSG_COUNT) /\ queue'.armed = queue.armed /\ queue'.signal = queue.signal
      BY <2>1, <3>1, QueueTake
    <3> QED
      BY <3>1, <3>2
  <2>2. CASE ~(queue.n > 0)
    BY <1>10, <2>2 DEF Store!HandlerReceive
  <2> QED
    BY <2>1, <2>2
<1>11. ASSUME NEW c \in Store!Clients, Store!Send(c) PROVE StoreInv'
  BY <1>11, QueuePut DEF Store!Send, Store!Working
<1> QED
  BY <1>1, <1>2, <1>3, <1>4, <1>5, <1>6, <1>7, <1>8, <1>9, <1>10, <1>11
  DEF Store!Next, Store!Checkout

-----------------------------------------------------------------------------
(* L2/bingo.c.                                                             *)

\* No number is sent, and so none answered, before the registration.
BingoInv ==
    /\ Bingo!TypeOK /\ Bingo!WakeupsKept
    /\ bmain = "fork" => /\ pin.n = 0 /\ pout.n = 0
                         /\ \A c \in Children : bst[c] \in {"none", "start", "open"}
    /\ bmain \in {"send", "wait", "closing"} => pin.armed \/ pin.signal

LEMMA BingoInit == Init => BingoInv
<1> SUFFICES ASSUME Init PROVE BingoInv
  OBVIOUS
<1>1. Bingo!Cardinality(Children) \in Nat
  BY Parameters, SameCardinality, FS_CardinalityType
<1>2. pin \in Bingo!Queue(MAX_NUM) /\ pin.n = 0 /\ pout \in Bingo!Queue(MAX_NUM) /\ pout.n = 0
  BY Parameters, BingoQueues, FreshQueue DEF Init, Bingo!Init
<1>3. /\ bmain = "fork" /\ toSend = Bingo!Cardinality(Children) /\ bhandler \in BOOLEAN
      /\ bst = [c \in Children |-> "none"]
  BY DEF Init, Bingo!Init
<1>4. Bingo!TypeOK
  BY <1>1, <1>2, <1>3 DEF Bingo!TypeOK
<1> QED
  BY <1>2, <1>3, <1>4 DEF BingoInv, Bingo!WakeupsKept

LEMMA BingoStep ==
    ASSUME BingoInv, Bingo!Next
    PROVE  BingoInv'
<1>0. Bingo!Cardinality(Children) \in Nat
  BY Parameters, SameCardinality, FS_CardinalityType
<1>i. pin \in Queue(MAX_NUM) /\ pout \in Queue(MAX_NUM)
  BY BingoQueues DEF BingoInv, Bingo!TypeOK
<1> USE Parameters, BingoQueues, <1>0, <1>i, QueueFields
    DEF BingoInv, Bingo!TypeOK, Bingo!WakeupsKept, Bingo!Err
<1>1. CASE Bingo!Fork
  BY <1>1 DEF Bingo!Fork
<1>2. CASE Bingo!Register
  <2>1. /\ bmain = "fork" /\ bmain' = "send" /\ pin' = Arm(pin)
        /\ UNCHANGED <<toSend, bst, bhandler, pout>>
    BY <1>2 DEF Bingo!Register
  <2>2. pin' \in Queue(MAX_NUM) /\ pin'.armed /\ pin'.n = 0
    BY <2>1, QueueChanges
  <2> QED
    BY <2>1, <2>2
<1>3. CASE Bingo!SendNumber
  BY <1>3, QueuePut DEF Bingo!SendNumber
<1>4. CASE Bingo!Wait
  BY <1>4 DEF Bingo!Wait
<1>5. CASE Bingo!Close
  BY <1>5, QueueChanges DEF Bingo!Close
<1>6. CASE Bingo!Unlink
  BY <1>6 DEF Bingo!Unlink
<1>7. CASE Bingo!EnterHandler
  <2>1. CASE Bingo!Blocked /\ Bingo!Err /\ UNCHANGED <<bhandler, pin>>
    BY <1>7, <2>1 DEF Bingo!EnterHandler
  <2>2. CASE bhandler' = TRUE /\ pin' = Deliver(pin) /\ UNCHANGED bst
             /\ (bmain' = bmain \/ bmain' = "closing")
    <3>1. pin' \in Queue(MAX_NUM) /\ pin'.armed
      BY <2>2, QueueChanges
    <3>2. toSend' = toSend /\ pout' = pout /\ bmain \in {"send", "wait", "closing"}
      BY <1>7 DEF Bingo!EnterHandler
    <3>3. bhandler' \in BOOLEAN /\ bhandler'
      BY <2>2
    <3> QED
      BY <2>2, <3>1, <3>2, <3>3
  <2> QED
    BY <1>7, <2>1, <2>2 DEF Bingo!EnterHandler
<1>8. CASE Bingo!HandlerReceive
  <2>1. CASE pin.n > 0
    <3>1. pin' = Take(pin) /\ UNCHANGED <<bmain, toSend, bst, bhandler, pout>> /\ bhandler
      BY <1>8, <2>1 DEF Bingo!HandlerReceive
    <3>2. /\ pin' \in Queue(MAX_NUM) /\ pin'.armed = pin.armed /\ pin'.signal = pin.signal
          /\ bmain # "fork"
      BY <2>1, <3>1, QueueTake
    <3> QED
      BY <3>1, <3>2
  <2>2. CASE ~(pin.n > 0)
    BY <1>8, <2>2 DEF Bingo!HandlerReceive
  <2> QED
    BY <2>1, <2>2
<1>9. CASE Bingo!Sigchld
  BY <1>9 DEF Bingo!Sigchld, Bingo!Zombies
<1>10. ASSUME NEW c \in Children, Bingo!Open(c) PROVE BingoInv'
  BY <1>10 DEF Bingo!Open
<1>11. ASSUME NEW c \in Children, Bingo!Receive(c) PROVE BingoInv'
  BY <1>11, QueueTake DEF Bingo!Receive
<1>12. ASSUME NEW c \in Children, Bingo!Answer(c) PROVE BingoInv'
  BY <1>12, QueuePut DEF Bingo!Answer
<1> QED
  BY <1>1, <1>2, <1>3, <1>4, <1>5, <1>6, <1>7, <1>8, <1>9, <1>10, <1>11, <1>12
  DEF Bingo!Next, Bingo!Parent, Bingo!Signal, Bingo!Child

-----------------------------------------------------------------------------
(* L2/Graded/ops-queue.c.                                                  *)

\* The children that have a 1 to send; what was found, is queued or is to be sent are the
\* points in the disc and the reports of the run before.
Hit == {c \in Disc!Testers : child[c] = "hit"}

DiscInv ==
    /\ dforked \in 0..CHILD_COUNT /\ sent \in 0..ROUNDS
    /\ dhandler \in {"off", "drain", "blocked"} /\ old \in 0..MAX_MSG_COUNT
    /\ found \in Nat /\ hits \in Nat
    /\ work \in Queue(MAX_MSG_COUNT) /\ parentQueue \in Queue(MAX_MSG_COUNT)
    /\ child \in [Disc!Testers -> {"none", "idle", "hit"}]
    /\ \A c \in Disc!Testers : c > dforked => child[c] = "none"
    /\ found + parentQueue.n + Cardinality(Hit) = hits + old
    /\ hits + work.n <= sent + MAX_MSG_COUNT
    /\ dhandler = "off" => found = 0
    /\ Disc!WakeupsKept
    /\ old = 0 /\ dhandler = "off" => parentQueue.armed \/ parentQueue.signal
    /\ old # 0 => parentQueue.n > 0

\* Who has a 1 to send is one of finitely many.
LEMMA HitIsFinite == IsFiniteSet(Hit) /\ Cardinality(Hit) \in Nat
<1>1. IsFiniteSet(Disc!Testers)
  BY Parameters, FS_Interval DEF Disc!Testers
<1> QED
  BY <1>1, FS_Subset, FS_CardinalityType DEF Hit

LEMMA DiscTypes == DiscInv => Disc!TypeOK
<1> SUFFICES ASSUME DiscInv PROVE Disc!TypeOK
  OBVIOUS
<1>1. work.n \in Nat /\ parentQueue.n \in Nat
  BY Parameters, QueueFields DEF DiscInv
<1>2. hits \in 0..ROUNDS + MAX_MSG_COUNT
  BY <1>1, Parameters DEF DiscInv
<1>3. found \in 0..ROUNDS + MAX_MSG_COUNT
  <2>1. CASE old = 0
    BY <1>1, <1>2, <2>1, HitIsFinite, Parameters DEF DiscInv
  <2>2. CASE old # 0
    BY <2>2, Parameters DEF DiscInv, Disc!WakeupsKept
  <2> QED
    BY <2>1, <2>2
<1> QED
  BY <1>2, <1>3, DiscQueues DEF DiscInv, Disc!TypeOK

LEMMA DiscInit == Init => DiscInv
<1> SUFFICES ASSUME Init PROVE DiscInv
  OBVIOUS
<1>1. /\ dforked = 0 /\ sent = 0 /\ dhandler = "off" /\ found = 0 /\ hits = 0
      /\ old \in 0..MAX_MSG_COUNT /\ child = [c \in Disc!Testers |-> "none"]
      /\ parentQueue = [Disc!Arm(Disc!Fresh) EXCEPT !.n = old]
      /\ \E k \in 0..MAX_MSG_COUNT : work = [Disc!Fresh EXCEPT !.n = k]
  BY DEF Init, Disc!Init
<1>2. parentQueue = [n |-> old, armed |-> TRUE, signal |-> FALSE]
  BY <1>1 DEF Disc!Arm, Disc!Fresh
<1>3. PICK k \in 0..MAX_MSG_COUNT : work = [n |-> k, armed |-> FALSE, signal |-> FALSE]
  BY <1>1 DEF Disc!Fresh
<1>4. /\ work \in Queue(MAX_MSG_COUNT) /\ parentQueue \in Queue(MAX_MSG_COUNT)
      /\ work.n = k /\ parentQueue.n = old /\ parentQueue.armed /\ ~parentQueue.signal
  <2>1. parentQueue \in Queue(MAX_MSG_COUNT)
    <3>1. old \in 0..MAX_MSG_COUNT
      BY <1>1
    <3> QED
      BY <1>2, <3>1 DEF Queue
  <2>2. work \in Queue(MAX_MSG_COUNT)
    BY <1>3 DEF Queue
  <2>3. work.n = k
    BY <1>3
  <2>4. parentQueue.n = old /\ parentQueue.armed /\ ~parentQueue.signal
    BY <1>2
  <2> QED
    BY <2>1, <2>2, <2>3, <2>4
<1>5. Cardinality(Hit) = 0
  <2>1. Hit = {}
    BY <1>1 DEF Hit
  <2> QED
    BY <2>1, FS_EmptySet
<1>6. Disc!WakeupsKept /\ (old # 0 => parentQueue.n > 0)
  BY <1>1, <1>4 DEF Disc!WakeupsKept
<1>7. 0 \in 0..CHILD_COUNT /\ 0 \in 0..ROUNDS
  BY Parameters
<1> QED
  BY <1>1, <1>3, <1>4, <1>5, <1>6, <1>7, Parameters DEF DiscInv

LEMMA DiscStep ==
    ASSUME DiscInv, Disc!Next
    PROVE  DiscInv'
<1>i. /\ work.n \in Nat /\ parentQueue.n \in Nat /\ Cardinality(Hit) \in Nat
      /\ work \in Queue(MAX_MSG_COUNT) /\ parentQueue \in Queue(MAX_MSG_COUNT)
      /\ parentQueue.signal \in BOOLEAN /\ parentQueue.armed \in BOOLEAN
      /\ IsFiniteSet(Hit)
  BY Parameters, QueueFields, HitIsFinite DEF DiscInv
<1> USE Parameters, DiscQueues, <1>i
<1>1. CASE Disc!Fork
  <2>1. /\ dhandler = "off" /\ dforked < CHILD_COUNT /\ dforked' = dforked + 1
        /\ child' = [child EXCEPT ![dforked + 1] = "idle"]
        /\ UNCHANGED <<sent, dhandler, found, work, parentQueue, hits, old>>
    BY <1>1 DEF Disc!Fork
  <2>2. dforked + 1 \in Disc!Testers /\ child[dforked + 1] = "none"
    BY <2>1 DEF DiscInv, Disc!Testers
  <2>3. Hit' = Hit
    BY <2>1, <2>2 DEF DiscInv, Hit
  <2>4. /\ child' \in [Disc!Testers -> {"none", "idle", "hit"}]
        /\ \A c \in Disc!Testers : c > dforked' => child'[c] = "none"
    BY <2>1, <2>2 DEF DiscInv, Disc!Testers
  <2> QED
    BY <2>1, <2>3, <2>4 DEF DiscInv, Disc!WakeupsKept
<1>2. CASE Disc!SendPoint
  <2>1. /\ sent < ROUNDS /\ ~Full(work, MAX_MSG_COUNT) /\ sent' = sent + 1 /\ work' = Put(work)
        /\ UNCHANGED <<dforked, dhandler, found, parentQueue, child, hits, old>>
    BY <1>2 DEF Disc!SendPoint
  <2>2. work' \in Queue(MAX_MSG_COUNT) /\ work'.n = work.n + 1
    BY <2>1, QueuePut DEF DiscInv
  <2> QED
    BY <2>1, <2>2 DEF DiscInv, Disc!WakeupsKept, Hit
<1>3. CASE Disc!EnterHandler
  <2>1. /\ dhandler' = "drain" /\ parentQueue' = Deliver(parentQueue) /\ parentQueue.signal
        /\ UNCHANGED <<dforked, sent, found, work, child, hits, old>>
    BY <1>3 DEF Disc!EnterHandler
  <2>2. parentQueue' \in Queue(MAX_MSG_COUNT) /\ parentQueue'.n = parentQueue.n
    <3>1. Deliver(parentQueue) \in Queue(MAX_MSG_COUNT) /\ Deliver(parentQueue).n = parentQueue.n
      BY ONLY <1>i DEF Queue, Deliver
    <3> QED
      BY ONLY <2>1, <3>1
  <2>3. old = 0
    BY <2>1 DEF DiscInv, Disc!WakeupsKept
  <2> QED
    BY <2>1, <2>2, <2>3 DEF DiscInv, Disc!WakeupsKept, Hit
<1>4. CASE Disc!Count
  <2>1. dhandler # "off" /\ old = 0 /\ UNCHANGED <<dforked, sent, work, child, hits, old>>
    BY <1>4 DEF Disc!Count, DiscInv, Disc!WakeupsKept
  <2>2. CASE parentQueue.n > 0
    <3>1. parentQueue' = Take(parentQueue) /\ found' = found + 1 /\ dhandler' = "drain"
      BY <1>4, <2>2 DEF Disc!Count
    <3>2. parentQueue' \in Queue(MAX_MSG_COUNT) /\ parentQueue'.n = parentQueue.n - 1
      BY <2>2, <3>1, QueueTake DEF DiscInv
    <3> QED
      BY <2>1, <3>1, <3>2 DEF DiscInv, Disc!WakeupsKept, Hit
  <2>3. CASE ~(parentQueue.n > 0)
    <3>1. dhandler' = "blocked" /\ UNCHANGED <<parentQueue, found>>
      BY <1>4, <2>3 DEF Disc!Count
    <3> QED
      BY <2>1, <3>1 DEF DiscInv, Disc!WakeupsKept, Hit
  <2> QED
    BY <2>2, <2>3
<1>5. ASSUME NEW c \in Disc!Testers, Disc!Test(c) PROVE DiscInv'
  <2>1. PICK in \in {0, 1} :
          /\ hits' = hits + in
          /\ child' = [child EXCEPT ![c] = IF in = 1 THEN "hit" ELSE "idle"]
    BY <1>5 DEF Disc!Test
  <2>2. /\ child[c] = "idle" /\ work.n > 0 /\ work' = Take(work)
        /\ UNCHANGED <<dforked, sent, dhandler, found, parentQueue, old>>
    BY <1>5 DEF Disc!Test
  <2>3. work' \in Queue(MAX_MSG_COUNT) /\ work'.n = work.n - 1
    BY <2>2, QueueTake DEF DiscInv
  <2>4. Cardinality(Hit') = Cardinality(Hit) + in
    <3>1. c \notin Hit
      BY <2>2 DEF Hit
    <3>2. CASE in = 1
      <4>1. Hit' = Hit \cup {c}
        BY <2>1, <2>2, <3>2 DEF Hit, DiscInv
      <4> QED
        BY <3>1, <3>2, <4>1, FS_AddElement
    <3>3. CASE in = 0
      <4>1. Hit' = Hit
        BY <2>1, <2>2, <3>3 DEF Hit, DiscInv
      <4> QED
        BY <3>3, <4>1
    <3> QED
      BY <3>2, <3>3
  <2>5. /\ child' \in [Disc!Testers -> {"none", "idle", "hit"}]
        /\ \A d \in Disc!Testers : d > dforked' => child'[d] = "none"
    BY <2>1, <2>2 DEF DiscInv
  <2> QED
    BY <2>1, <2>2, <2>3, <2>4, <2>5 DEF DiscInv, Disc!WakeupsKept
<1>6. ASSUME NEW c \in Disc!Testers, Disc!Report(c) PROVE DiscInv'
  <2>1. /\ child[c] = "hit" /\ ~Full(parentQueue, MAX_MSG_COUNT)
        /\ parentQueue' = IF dhandler = "blocked" THEN PutToWaiting(parentQueue) ELSE Put(parentQueue)
        /\ child' = [child EXCEPT ![c] = "idle"]
        /\ UNCHANGED <<dforked, sent, dhandler, found, work, hits, old>>
    BY <1>6 DEF Disc!Report
  <2>2. parentQueue' \in Queue(MAX_MSG_COUNT) /\ parentQueue'.n = parentQueue.n + 1
    BY <2>1, QueuePut DEF DiscInv
  <2>3. Cardinality(Hit') = Cardinality(Hit) - 1
    <3>1. c \in Hit /\ Hit' = Hit \ {c}
      BY <2>1 DEF Hit, DiscInv
    <3> QED
      BY <3>1, FS_RemoveElement
  <2>4. /\ child' \in [Disc!Testers -> {"none", "idle", "hit"}]
        /\ \A d \in Disc!Testers : d > dforked' => child'[d] = "none"
    BY <2>1 DEF DiscInv
  <2>5. /\ Disc!WakeupsKept'
        /\ old' = 0 /\ dhandler' = "off" => parentQueue'.armed \/ parentQueue'.signal
    <3>1. CASE dhandler # "off"
      BY <2>1, <3>1 DEF DiscInv, Disc!WakeupsKept
    <3>2. CASE dhandler = "off"
      <4>1. parentQueue' = Put(parentQueue)
        BY <2>1, <3>2
      <4>2. /\ parentQueue.n = 0 /\ parentQueue.armed => parentQueue'.signal
            /\ ~(parentQueue.n = 0 /\ parentQueue.armed)
                 => parentQueue'.armed = parentQueue.armed /\ parentQueue'.signal = parentQueue.signal
        BY <2>1, <4>1, QueuePut DEF DiscInv
      <4> QED
        BY <2>1, <2>2, <3>2, <4>2 DEF DiscInv, Disc!WakeupsKept
    <3> QED
      BY <3>1, <3>2
  <2> QED
    BY <2>1, <2>2, <2>3, <2>4, <2>5 DEF DiscInv
<1> QED
  BY <1>1, <1>2, <1>3, <1>4, <1>5, <1>6 DEF Disc!Next, Disc!Parent, Disc!Work

-----------------------------------------------------------------------------
(* L2/exercise2.c.                                                         *)

\* The tasks done, each with its worker and its number there.
DoneTasks == UNION {{w} \X (1..tasks_done[w]) : w \in Workers}
AllTasks  == Share * Tasks!n

TasksInv ==
    /\ tmain \in {"fork", "send", "wait", "done", "killed"}
    /\ iter \in 0..AllTasks /\ stop \in BOOLEAN /\ sigints \in 0..MaxSigints
    /\ tst \in [Workers -> {"none", "start", "loop", "gone"}]
    /\ tasks_done \in [Workers -> 0..Share] /\ tqueue \in Queue(MAX_MSG)
    /\ iter + tqueue.n + Cardinality(DoneTasks) = AllTasks

LEMMA DoneIsFinite ==
    ASSUME tasks_done \in [Workers -> 0..Share]
    PROVE  /\ IsFiniteSet(DoneTasks) /\ Cardinality(DoneTasks) \in Nat
           /\ \A x : x \in DoneTasks <=> \E w \in Workers : \E i \in 1..tasks_done[w] : x = <<w, i>>
<1>1. \A x : x \in DoneTasks <=> \E w \in Workers : \E i \in 1..tasks_done[w] : x = <<w, i>>
  BY DEF DoneTasks
<1>2. DoneTasks \subseteq Workers \X (1..Share)
  BY <1>1, Parameters
<1>3. IsFiniteSet(Workers \X (1..Share))
  <2>1. IsFiniteSet(1..Share)
    BY Parameters, FS_Interval
  <2> QED
    BY <2>1, Parameters, FS_Product
<1> QED
  BY <1>1, <1>2, <1>3, FS_Subset, FS_CardinalityType

LEMMA TasksMeaning == TasksInv => Tasks!TypeOK /\ Tasks!SharesAddUp
BY SameCardinality, TaskQueues
DEF TasksInv, AllTasks, DoneTasks, Tasks!TypeOK, Tasks!SharesAddUp

LEMMA AllTasksNat == AllTasks \in Nat
<1>1. Tasks!n \in Nat
  BY Parameters, SameCardinality, FS_CardinalityType DEF Tasks!n
<1> QED
  BY <1>1, Parameters DEF AllTasks

LEMMA TasksInit == Init => TasksInv
<1> SUFFICES ASSUME Init PROVE TasksInv
  OBVIOUS
<1>1. /\ tmain = "fork" /\ iter = AllTasks /\ stop \in BOOLEAN /\ sigints = 0
      /\ tst = [w \in Workers |-> "none"] /\ tasks_done = [w \in Workers |-> 0]
      /\ tqueue = Tasks!Fresh
  BY DEF Init, Tasks!Init, AllTasks
<1>2. tqueue \in Queue(MAX_MSG) /\ tqueue.n = 0
  BY <1>1, TaskQueues, Parameters, FreshQueue
<1>3. tasks_done \in [Workers -> 0..Share]
  BY <1>1, Parameters
<1>4. Cardinality(DoneTasks) = 0
  <2>1. DoneTasks = {}
    BY <1>1, <1>3, DoneIsFinite
  <2> QED
    BY <2>1, FS_EmptySet
<1> QED
  BY <1>1, <1>2, <1>3, <1>4, AllTasksNat, Parameters DEF TasksInv

LEMMA TasksStep ==
    ASSUME TasksInv, Tasks!Next
    PROVE  TasksInv'
<1>i. /\ tqueue \in Queue(MAX_MSG) /\ tqueue.n \in Nat /\ Cardinality(DoneTasks) \in Nat
      /\ IsFiniteSet(DoneTasks)
  BY Parameters, QueueFields, DoneIsFinite DEF TasksInv
<1> USE Parameters, TaskQueues, AllTasksNat, <1>i
<1>1. CASE Tasks!Fork
  BY <1>1 DEF Tasks!Fork, TasksInv, DoneTasks
<1>2. CASE Tasks!Send
  <2>1. CASE ~stop /\ iter > 0
    <3>1. /\ ~Full(tqueue, MAX_MSG) /\ tqueue' = Put(tqueue) /\ iter' = iter - 1
          /\ UNCHANGED <<tmain, stop, tst, tasks_done, sigints>>
      BY <1>2, <2>1 DEF Tasks!Send
    <3>2. tqueue' \in Queue(MAX_MSG) /\ tqueue'.n = tqueue.n + 1
      BY <3>1, QueuePut
    <3> QED
      BY <2>1, <3>1, <3>2 DEF TasksInv, DoneTasks
  <2>2. CASE ~(~stop /\ iter > 0)
    BY <1>2, <2>2 DEF Tasks!Send, TasksInv, DoneTasks
  <2> QED
    BY <2>1, <2>2
<1>3. CASE Tasks!Reap
  BY <1>3 DEF Tasks!Reap, TasksInv, DoneTasks
<1>4. CASE Tasks!Sigint
  BY <1>4 DEF Tasks!Sigint, Tasks!Err, TasksInv, DoneTasks
<1>5. ASSUME NEW w \in Workers, Tasks!Start(w) PROVE TasksInv'
  BY <1>5 DEF Tasks!Start, Tasks!Err, TasksInv, DoneTasks
<1>6. ASSUME NEW w \in Workers, Tasks!Receive(w) PROVE TasksInv'
  <2>1. /\ tasks_done[w] < Share /\ tqueue.n > 0 /\ tqueue' = Take(tqueue)
        /\ tasks_done' = [tasks_done EXCEPT ![w] = tasks_done[w] + 1]
        /\ UNCHANGED <<tmain, iter, stop, tst, sigints>>
    BY <1>6 DEF Tasks!Receive
  <2>2. tqueue' \in Queue(MAX_MSG) /\ tqueue'.n = tqueue.n - 1
    BY <2>1, QueueTake
  <2>3. /\ tasks_done \in [Workers -> 0..Share] /\ tasks_done' \in [Workers -> 0..Share]
        /\ tasks_done[w] \in Nat
    BY <2>1 DEF TasksInv
  <2> DEFINE x == <<w, tasks_done[w] + 1>>
  <2>4. x \notin DoneTasks
    BY <2>3, DoneIsFinite
  <2>5. DoneTasks' = DoneTasks \cup {x}
    <3>1. \A y : y \in DoneTasks' <=> \E v \in Workers : \E i \in 1..tasks_done'[v] : y = <<v, i>>
      BY DEF DoneTasks
    <3>2. \A v \in Workers : v # w => tasks_done'[v] = tasks_done[v]
      BY <2>1, <2>3
    <3>3. 1..tasks_done'[w] = 1..tasks_done[w] \cup {tasks_done[w] + 1}
      BY <2>1, <2>3
    <3>4. \A y : y \in DoneTasks' => y \in DoneTasks \cup {x}
      BY <2>3, <3>1, <3>2, <3>3, DoneIsFinite
    <3>5. \A y : y \in DoneTasks \cup {x} => y \in DoneTasks'
      BY <2>3, <3>1, <3>2, <3>3, DoneIsFinite
    <3> QED
      BY <3>4, <3>5
  <2>6. Cardinality(DoneTasks') = Cardinality(DoneTasks) + 1
    BY <2>4, <2>5, FS_AddElement
  <2> QED
    BY <2>1, <2>2, <2>3, <2>6 DEF TasksInv
<1>7. ASSUME NEW w \in Workers, Tasks!Exit(w) PROVE TasksInv'
  BY <1>7 DEF Tasks!Exit, TasksInv, DoneTasks
<1>8. ASSUME NEW w \in Workers, Tasks!WorkerSigint(w) PROVE TasksInv'
  BY <1>8 DEF Tasks!WorkerSigint, Tasks!Err, TasksInv, DoneTasks
<1> QED
  BY <1>1, <1>2, <1>3, <1>4, <1>5, <1>6, <1>7, <1>8 DEF Tasks!Next, Tasks!Parent, Tasks!Work

-----------------------------------------------------------------------------
(* L2/Exercise4.                                                           *)
Present == {g \in Guests : guest[g] \in {"in", "silent"}}
Told    == {g \in Guests : guest[g] = "told"}

\* A count is below MAX_CLIENTS where its owner blocks in mq_receive, and below zero by no
\* more than the exits that were read.
ChatTyped ==
    /\ server \in {"loop", "blocked", "handler", "hblocked", "dead"}
    /\ armed \in {"none", "USR1", "RTMIN"} /\ signal \in BOOLEAN
    /\ currentcli \in Int /\ currentcli <= MAX_CLIENTS
    /\ clients \in Int /\ clients <= MAX_CLIENTS
    /\ server = "blocked" => currentcli # MAX_CLIENTS
    /\ server = "hblocked" => clients # MAX_CLIENTS
    /\ waiting \in [0..2 -> 0..Room]

ChatCounts ==
    /\ currentcli + clients + waiting[0] - waiting[1] = Cardinality(Present)
    /\ currentcli + Cardinality(Told) - waiting[1] >= 0
    /\ clients + Cardinality(Told) - waiting[1] >= 0

ChatInv ==
    /\ ChatTyped /\ ChatCounts
    /\ guest \in [Guests -> {"out", "in", "told", "silent"}] /\ typed \in [Guests -> 0..Texts]

LEMMA GuestsAreFinite ==
    /\ IsFiniteSet(Present) /\ Cardinality(Present) \in Nat
    /\ IsFiniteSet(Told) /\ Cardinality(Told) \in Nat /\ Cardinality(Told) <= Cardinality(Guests)
    /\ Cardinality(Guests) \in Nat
BY Parameters, FS_Subset, FS_CardinalityType DEF Present, Told

LEMMA ChatMeaning == ChatInv => Chat!TypeOK /\ Chat!MembersCounted
<1> SUFFICES ASSUME ChatInv PROVE Chat!TypeOK /\ Chat!MembersCounted
  OBVIOUS
<1>1. waiting[1] \in Nat
  BY DEF ChatInv, ChatTyped
<1>2. /\ currentcli \in -Cardinality(Guests)..MAX_CLIENTS
      /\ clients \in -Cardinality(Guests)..MAX_CLIENTS
  BY <1>1, GuestsAreFinite, Parameters DEF ChatInv, ChatTyped, ChatCounts
<1>3. Chat!TypeOK
  BY <1>2, SameCardinality DEF ChatInv, ChatTyped, Chat!TypeOK
<1>4. Chat!MembersCounted
  BY SameCardinality
  DEF ChatInv, ChatCounts, Present, Chat!MembersCounted, Chat!connect, Chat!exit
<1> QED
  BY <1>3, <1>4

\* A queue with a message has a message of highest priority.
LEMMA FirstWaits ==
    ASSUME waiting \in [0..2 -> Nat], Chat!Queued > 0
    PROVE  Chat!First \in 0..2 /\ waiting[Chat!First] > 0
<1> DEFINE Is(p) == waiting[p] > 0 /\ \A q \in p + 1..2 : waiting[q] = 0
<1>1. \E p \in 0..2 : Is(p)
  <2>1. CASE waiting[2] > 0
    BY <2>1
  <2>2. CASE waiting[2] = 0 /\ waiting[1] > 0
    BY <2>2
  <2>3. CASE waiting[2] = 0 /\ waiting[1] = 0 /\ waiting[0] > 0
    BY <2>3
  <2> QED
    BY <2>1, <2>2, <2>3 DEF Chat!Queued, Chat!connect, Chat!exit, Chat!text
<1>2. Chat!First = CHOOSE p \in 0..2 : Is(p)
  BY DEF Chat!First
<1> QED
  BY <1>1, <1>2

\* Reading a message moves what it counts from the queue into a count.
LEMMA ReadKeepsSum ==
    ASSUME ChatTyped, NEW p \in 0..2, waiting[p] > 0, NEW m \in Int,
           waiting' = [waiting EXCEPT ![p] = @ - 1]
    PROVE  /\ waiting' \in [0..2 -> 0..Room] /\ Chat!Counted(m, p) \in Int
           /\ Chat!Counted(m, p) <= m + 1 /\ waiting'[1] <= waiting[1]
           /\ Chat!Counted(m, p) + waiting'[0] - waiting'[1] = m + waiting[0] - waiting[1]
           /\ Chat!Counted(m, p) - waiting'[1] >= m - waiting[1]
           /\ waiting[0] \in Nat /\ waiting[1] \in Nat /\ waiting'[0] \in Nat /\ waiting'[1] \in Nat
<1>0. waiting \in [0..2 -> 0..Room] /\ Room \in Nat
  BY Parameters DEF ChatTyped
<1>1. waiting' \in [0..2 -> 0..Room]
  BY <1>0
<1>2. CASE p = 0
  BY <1>0, <1>1, <1>2 DEF Chat!Counted, Chat!connect, Chat!exit
<1>3. CASE p = 1
  BY <1>0, <1>1, <1>3 DEF Chat!Counted, Chat!connect, Chat!exit
<1>4. CASE p = 2
  BY <1>0, <1>1, <1>4 DEF Chat!Counted, Chat!connect, Chat!exit
<1> QED
  BY <1>2, <1>3, <1>4

\* Sending one puts what it counts into the queue or, to a blocked reader, into a count.
LEMMA SendAddsToSum ==
    ASSUME ChatTyped, NEW p \in 0..2, Chat!Send(p)
    PROVE  /\ ChatTyped'
           /\ currentcli' + clients' + waiting'[0] - waiting'[1]
                = Chat!Counted(currentcli + clients + waiting[0] - waiting[1], p)
           /\ currentcli' - waiting'[1] >= currentcli - waiting[1] - (IF p = 1 THEN 1 ELSE 0)
           /\ clients' - waiting'[1] >= clients - waiting[1] - (IF p = 1 THEN 1 ELSE 0)
           /\ waiting[0] \in Int /\ waiting[1] \in Int /\ waiting'[0] \in Int /\ waiting'[1] \in Int
<1>0. /\ waiting \in [0..2 -> 0..Room] /\ Room \in Nat /\ MAX_CLIENTS \in Nat
      /\ waiting[0] \in 0..Room /\ waiting[1] \in 0..Room /\ waiting[2] \in 0..Room
      /\ currentcli \in Int /\ clients \in Int
  BY Parameters DEF ChatTyped
<1>1. waiting[0] + waiting[1] + waiting[2] < Room
  BY DEF Chat!Send, Chat!Queued, Chat!connect, Chat!exit, Chat!text
<1>c. \A m \in Int : /\ Chat!Counted(m, p) \in Int /\ Chat!Counted(m, p) <= m + 1
                     /\ Chat!Counted(m, p) = m + (IF p = 0 THEN 1 ELSE IF p = 1 THEN -1 ELSE 0)
  BY DEF Chat!Counted, Chat!connect, Chat!exit
<1>2. CASE server = "blocked"
  <2>1. /\ server' = "loop" /\ currentcli' = Chat!Counted(currentcli, p)
        /\ UNCHANGED <<clients, waiting, armed, signal>> /\ currentcli # MAX_CLIENTS
    BY <1>2 DEF Chat!Send, ChatTyped
  <2>2. ChatTyped'
    BY <1>0, <1>c, <2>1 DEF ChatTyped
  <2>3. /\ Chat!Counted(currentcli, p) = currentcli + (IF p = 0 THEN 1 ELSE IF p = 1 THEN -1 ELSE 0)
        /\ Chat!Counted(currentcli + clients + waiting[0] - waiting[1], p)
             = currentcli + clients + waiting[0] - waiting[1]
                 + (IF p = 0 THEN 1 ELSE IF p = 1 THEN -1 ELSE 0)
    BY <1>0, <1>c
  <2>4. currentcli' = currentcli + (IF p = 0 THEN 1 ELSE IF p = 1 THEN -1 ELSE 0)
        /\ clients' = clients /\ waiting' = waiting
    BY <2>1, <2>3
  <2>5. p = 0 \/ p = 1 \/ p = 2
    OBVIOUS
  <2> QED
    BY <1>0, <2>2, <2>3, <2>4, <2>5
<1>3. CASE server = "hblocked"
  <2>1. /\ server' = "handler" /\ clients' = Chat!Counted(clients, p)
        /\ UNCHANGED <<currentcli, waiting, armed, signal>> /\ clients # MAX_CLIENTS
    BY <1>3 DEF Chat!Send, ChatTyped
  <2>2. ChatTyped'
    BY <1>0, <1>c, <2>1 DEF ChatTyped
  <2>3. /\ Chat!Counted(clients, p) = clients + (IF p = 0 THEN 1 ELSE IF p = 1 THEN -1 ELSE 0)
        /\ Chat!Counted(currentcli + clients + waiting[0] - waiting[1], p)
             = currentcli + clients + waiting[0] - waiting[1]
                 + (IF p = 0 THEN 1 ELSE IF p = 1 THEN -1 ELSE 0)
    BY <1>0, <1>c
  <2>4. clients' = clients + (IF p = 0 THEN 1 ELSE IF p = 1 THEN -1 ELSE 0)
        /\ currentcli' = currentcli /\ waiting' = waiting
    BY <2>1, <2>3
  <2>5. p = 0 \/ p = 1 \/ p = 2
    OBVIOUS
  <2> QED
    BY <1>0, <2>2, <2>3, <2>4, <2>5
<1>4. CASE server \notin {"blocked", "hblocked"}
  <2>1. /\ waiting' = [waiting EXCEPT ![p] = waiting[p] + 1] /\ UNCHANGED <<currentcli, clients>>
        /\ server' \in {server, "dead"} /\ armed' \in {"none", armed}
    BY <1>4 DEF Chat!Send
  <2>2. signal' \in BOOLEAN
    BY <1>4 DEF Chat!Send, ChatTyped
  <2>3. waiting' \in [0..2 -> 0..Room]
    BY <1>0, <1>1, <2>1
  <2>4. ChatTyped'
    BY <1>4, <2>1, <2>2, <2>3 DEF ChatTyped
  <2>5. CASE p = 0
    BY <1>0, <1>c, <2>1, <2>4, <2>5
  <2>6. CASE p = 1
    BY <1>0, <1>c, <2>1, <2>4, <2>6
  <2>7. CASE p = 2
    BY <1>0, <1>c, <2>1, <2>4, <2>7
  <2> QED
    BY <2>5, <2>6, <2>7
<1> QED
  BY <1>2, <1>3, <1>4

\* Nobody is there and nothing is counted at the start.
LEMMA ChatInit == Init => ChatInv
<1> SUFFICES ASSUME Init PROVE ChatInv
  OBVIOUS
<1>1. /\ server = "loop" /\ currentcli = 0 /\ clients = 0 /\ waiting = [p \in 0..2 |-> 0]
      /\ armed = "USR1" /\ signal \in BOOLEAN
      /\ guest = [g \in Guests |-> "out"] /\ typed = [g \in Guests |-> 0]
  BY DEF Init, Chat!Init
<1>2. Cardinality(Present) = 0 /\ Cardinality(Told) = 0
  <2>1. Present = {} /\ Told = {}
    BY <1>1 DEF Present, Told
  <2> QED
    BY <2>1, FS_EmptySet
<1>3. waiting \in [0..2 -> 0..Room] /\ typed \in [Guests -> 0..Texts]
  BY <1>1, Parameters
<1>4. ChatTyped
  BY <1>1, <1>3, Parameters DEF ChatTyped
<1> QED
  BY <1>1, <1>2, <1>3, <1>4 DEF ChatInv, ChatCounts

\* The reads of main and of the handler.
LEMMA ServeKeeps == ASSUME ChatInv, Chat!Serve PROVE ChatInv'
<1>i. /\ ChatTyped /\ ChatCounts /\ waiting \in [0..2 -> Nat] /\ MAX_CLIENTS \in Nat
      /\ waiting[0] \in Nat /\ waiting[1] \in Nat /\ currentcli \in Int /\ clients \in Int
      /\ Cardinality(Present) \in Nat /\ Cardinality(Told) \in Nat
  BY Parameters, GuestsAreFinite DEF ChatInv, ChatTyped
<1>u. UNCHANGED <<guest, typed>> /\ Present' = Present /\ Told' = Told
  BY DEF Chat!Serve, Chat!Receive, Chat!EnterHandler, Chat!HandlerReceive, Present, Told
<1> SUFFICES ChatTyped' /\ ChatCounts'
  BY <1>u DEF ChatInv
<1>1. CASE Chat!Receive
  <2>1. CASE Chat!Queued > 0
    <3>1. Chat!First \in 0..2 /\ waiting[Chat!First] > 0
      BY <1>i, <2>1, FirstWaits
    <3>2. /\ currentcli' = Chat!Counted(currentcli, Chat!First) /\ currentcli # MAX_CLIENTS
          /\ waiting' = [waiting EXCEPT ![Chat!First] = @ - 1]
          /\ server = "loop" /\ UNCHANGED <<server, clients, armed, signal>>
      BY <1>1, <2>1 DEF Chat!Receive
    <3>3. /\ waiting' \in [0..2 -> 0..Room] /\ currentcli' \in Int /\ currentcli' <= currentcli + 1
          /\ currentcli' + waiting'[0] - waiting'[1] = currentcli + waiting[0] - waiting[1]
          /\ currentcli' - waiting'[1] >= currentcli - waiting[1] /\ waiting'[1] <= waiting[1]
          /\ waiting'[0] \in Nat /\ waiting'[1] \in Nat
      BY <1>i, <3>1, <3>2, ReadKeepsSum
    <3>4. ChatTyped'
      BY <1>i, <3>2, <3>3 DEF ChatTyped
    <3> QED
      BY <1>i, <1>u, <3>2, <3>3, <3>4 DEF ChatCounts
  <2>2. CASE ~(Chat!Queued > 0)
    BY <1>1, <1>u, <1>i, <2>2 DEF Chat!Receive, ChatTyped, ChatCounts
  <2> QED
    BY <2>1, <2>2
<1>2. CASE Chat!EnterHandler
  <2>1. /\ server' = "handler" /\ signal' \in BOOLEAN /\ armed' = "RTMIN"
        /\ UNCHANGED <<currentcli, clients, waiting>>
    BY <1>2 DEF Chat!EnterHandler
  <2> QED
    BY <1>i, <1>u, <2>1 DEF ChatTyped, ChatCounts
<1>3. CASE Chat!HandlerReceive
  <2>1. CASE clients # MAX_CLIENTS /\ Chat!Queued > 0
    <3>1. Chat!First \in 0..2 /\ waiting[Chat!First] > 0
      BY <1>i, <2>1, FirstWaits
    <3>2. /\ clients' = Chat!Counted(clients, Chat!First)
          /\ waiting' = [waiting EXCEPT ![Chat!First] = @ - 1]
          /\ server = "handler" /\ UNCHANGED <<server, currentcli, armed, signal>>
      <4>1. ~(Chat!Queued = 0)
        BY <2>1
      <4> QED
        BY <1>3, <2>1, <4>1 DEF Chat!HandlerReceive
    <3>3. /\ waiting' \in [0..2 -> 0..Room] /\ clients' \in Int /\ clients' <= clients + 1
          /\ clients' + waiting'[0] - waiting'[1] = clients + waiting[0] - waiting[1]
          /\ clients' - waiting'[1] >= clients - waiting[1] /\ waiting'[1] <= waiting[1]
          /\ waiting'[0] \in Nat /\ waiting'[1] \in Nat
      BY <1>i, <3>1, <3>2, ReadKeepsSum
    <3>4. ChatTyped'
      BY <1>i, <2>1, <3>2, <3>3 DEF ChatTyped
    <3> QED
      BY <1>i, <1>u, <3>2, <3>3, <3>4 DEF ChatCounts
  <2>2. CASE ~(clients # MAX_CLIENTS /\ Chat!Queued > 0)
    <3>1. /\ server' \in {"loop", "hblocked"} /\ (server' = "hblocked" => clients # MAX_CLIENTS)
          /\ UNCHANGED <<currentcli, clients, waiting, armed, signal>>
      BY <1>3, <2>2 DEF Chat!HandlerReceive
    <3> QED
      BY <1>i, <1>u, <3>1 DEF ChatTyped, ChatCounts
  <2> QED
    BY <2>1, <2>2
<1> QED
  BY <1>1, <1>2, <1>3 DEF Chat!Serve

\* A client that joins is one more in the queue or in a count.
LEMMA JoinKeeps == ASSUME ChatInv, NEW g \in Guests, Chat!Join(g) PROVE ChatInv'
<1>1. /\ Present' = Present \cup {g} /\ g \notin Present /\ Told' = Told
      /\ guest' \in [Guests -> {"out", "in", "told", "silent"}] /\ typed' = typed
      /\ Chat!Send(0) /\ ChatTyped /\ ChatCounts
  BY DEF Present, Told, Chat!Join, Chat!connect, ChatInv
<1>2. Cardinality(Present') = Cardinality(Present) + 1
  BY <1>1, GuestsAreFinite, FS_AddElement
<1>3. /\ ChatTyped'
      /\ currentcli' + clients' + waiting'[0] - waiting'[1]
           = currentcli + clients + waiting[0] - waiting[1] + 1
      /\ currentcli' - waiting'[1] >= currentcli - waiting[1]
      /\ clients' - waiting'[1] >= clients - waiting[1]
      /\ waiting[0] \in Int /\ waiting[1] \in Int /\ waiting'[0] \in Int /\ waiting'[1] \in Int
  BY <1>1, SendAddsToSum DEF Chat!Counted, Chat!connect, ChatTyped
<1>4. currentcli' \in Int /\ clients' \in Int /\ currentcli \in Int /\ clients \in Int
  BY <1>1, <1>3 DEF ChatTyped
<1>5. ChatCounts'
  BY <1>1, <1>2, <1>3, <1>4, GuestsAreFinite DEF ChatCounts
<1> QED
  BY <1>1, <1>3, <1>5 DEF ChatInv

\* A text changes neither side.
LEMMA SayKeeps == ASSUME ChatInv, NEW g \in Guests, Chat!Say(g) PROVE ChatInv'
<1>1. /\ Present' = Present /\ Told' = Told /\ guest' = guest
      /\ Chat!Send(2) /\ ChatTyped /\ ChatCounts
  BY DEF Present, Told, Chat!Say, Chat!text, ChatInv
<1>2. typed' \in [Guests -> 0..Texts]
  BY Parameters DEF Chat!Say, ChatInv
<1>3. /\ ChatTyped'
      /\ currentcli' + clients' + waiting'[0] - waiting'[1]
           = currentcli + clients + waiting[0] - waiting[1]
      /\ currentcli' - waiting'[1] >= currentcli - waiting[1]
      /\ clients' - waiting'[1] >= clients - waiting[1]
      /\ waiting[0] \in Int /\ waiting[1] \in Int /\ waiting'[0] \in Int /\ waiting'[1] \in Int
  BY <1>1, SendAddsToSum DEF Chat!Counted, Chat!connect, Chat!exit, ChatTyped
<1>4. currentcli' \in Int /\ clients' \in Int /\ currentcli \in Int /\ clients \in Int
  BY <1>1, <1>3 DEF ChatTyped
<1>5. ChatCounts'
  BY <1>1, <1>3, <1>4, GuestsAreFinite DEF ChatCounts
<1> QED
  BY <1>1, <1>2, <1>3, <1>5 DEF ChatInv

\* An exit takes one from both sides, the end of the input from none.
LEMMA LeaveKeeps == ASSUME ChatInv, NEW g \in Guests, Chat!Leave(g) PROVE ChatInv'
<1>0. typed' = typed /\ ChatTyped /\ ChatCounts
  BY DEF Chat!Leave, ChatInv
<1>1. CASE Chat!Send(Chat!exit) /\ guest' = [guest EXCEPT ![g] = "told"]
  <2>1. /\ Present' = Present \ {g} /\ g \in Present /\ Told' = Told \cup {g} /\ g \notin Told
        /\ guest' \in [Guests -> {"out", "in", "told", "silent"}] /\ Chat!Send(1)
    BY <1>1 DEF Present, Told, Chat!Leave, Chat!exit, ChatInv
  <2>2. /\ Cardinality(Present') = Cardinality(Present) - 1
        /\ Cardinality(Told') = Cardinality(Told) + 1
    BY <2>1, GuestsAreFinite, FS_RemoveElement, FS_AddElement
  <2>3. /\ ChatTyped'
        /\ currentcli' + clients' + waiting'[0] - waiting'[1]
             = currentcli + clients + waiting[0] - waiting[1] - 1
        /\ currentcli' - waiting'[1] >= currentcli - waiting[1] - 1
        /\ clients' - waiting'[1] >= clients - waiting[1] - 1
        /\ waiting[0] \in Int /\ waiting[1] \in Int /\ waiting'[0] \in Int /\ waiting'[1] \in Int
    BY <1>0, <2>1, SendAddsToSum DEF Chat!Counted, Chat!connect, Chat!exit, ChatTyped
  <2>4. currentcli' \in Int /\ clients' \in Int /\ currentcli \in Int /\ clients \in Int
    BY <1>0, <2>3 DEF ChatTyped
  <2>5. ChatCounts'
    BY <1>0, <2>2, <2>3, <2>4, GuestsAreFinite DEF ChatCounts
  <2> QED
    BY <1>0, <2>1, <2>3, <2>5 DEF ChatInv
<1>2. CASE /\ guest' = [guest EXCEPT ![g] = "silent"]
           /\ UNCHANGED <<server, currentcli, clients, waiting, armed, signal>>
  <2>1. /\ Present' = Present /\ Told' = Told
        /\ guest' \in [Guests -> {"out", "in", "told", "silent"}]
    BY <1>2 DEF Present, Told, Chat!Leave, ChatInv
  <2> QED
    BY <1>0, <1>2, <2>1 DEF ChatInv, ChatTyped, ChatCounts
<1> QED
  BY <1>1, <1>2 DEF Chat!Leave

LEMMA ChatStep == ASSUME ChatInv, Chat!Next PROVE ChatInv'
BY ServeKeeps, JoinKeeps, SayKeeps, LeaveKeeps DEF Chat!Next

-----------------------------------------------------------------------------
(* L2/sop-server.c and L2/sop-client.c.                                    *)
Runs == 1..MaxRuns

\* How often a request waits in a queue.
CountIn(s, a) == Cardinality({i \in 1..Len(s) : s[i] = a})

LEMMA CountInNat ==
    ASSUME NEW s \in Seq(Sums!Requests), NEW a
    PROVE  IsFiniteSet({i \in 1..Len(s) : s[i] = a}) /\ CountIn(s, a) \in Nat
<1>1. IsFiniteSet(1..Len(s))
  BY FS_Interval
<1> QED
  BY <1>1, FS_Subset, FS_CardinalityType DEF CountIn

LEMMA CountInEmpty == ASSUME NEW a PROVE CountIn(<<>>, a) = 0
<1>1. {i \in 1..Len(<<>>) : <<>>[i] = a} = {}
  OBVIOUS
<1> QED
  BY <1>1, FS_EmptySet DEF CountIn

LEMMA CountInAppend ==
    ASSUME NEW s \in Seq(Sums!Requests), NEW a, NEW b \in Sums!Requests
    PROVE  CountIn(Append(s, b), a) = CountIn(s, a) + (IF b = a THEN 1 ELSE 0)
<1> DEFINE At(t) == {i \in 1..Len(t) : t[i] = a}
<1>1. IsFiniteSet(At(s)) /\ Cardinality(At(s)) \in Nat
  BY CountInNat DEF CountIn
<1>2. /\ Len(Append(s, b)) = Len(s) + 1 /\ Append(s, b)[Len(s) + 1] = b
      /\ \A i \in 1..Len(s) : Append(s, b)[i] = s[i]
  OBVIOUS
<1>3. CASE b = a
  <2>1. At(Append(s, b)) = At(s) \cup {Len(s) + 1} /\ Len(s) + 1 \notin At(s)
    BY <1>2, <1>3
  <2> QED
    BY <1>1, <1>3, <2>1, FS_AddElement DEF CountIn
<1>4. CASE b # a
  <2>1. At(Append(s, b)) = At(s)
    BY <1>2, <1>4
  <2>2. CountIn(Append(s, b), a) = CountIn(s, a) /\ CountIn(s, a) \in Nat
    BY <2>1, CountInNat DEF CountIn
  <2> QED
    BY <1>4, <2>2
<1> QED
  BY <1>3, <1>4

LEMMA CountInTail ==
    ASSUME NEW s \in Seq(Sums!Requests), s # <<>>, NEW a
    PROVE  CountIn(Tail(s), a) + (IF Head(s) = a THEN 1 ELSE 0) <= CountIn(s, a)
<1> DEFINE At(t) == {i \in 1..Len(t) : t[i] = a}
           R == At(s) \ {1}
           f == [i \in At(Tail(s)) |-> i + 1]
<1>1. IsFiniteSet(At(s)) /\ Cardinality(At(s)) \in Nat
  BY CountInNat DEF CountIn
<1>2. /\ Len(Tail(s)) = Len(s) - 1 /\ \A i \in 1..Len(s) - 1 : Tail(s)[i] = s[i + 1]
      /\ Head(s) = s[1] /\ Len(s) \in Nat \ {0}
  OBVIOUS
<1>3. f \in Injection(At(Tail(s)), R)
  <2>1. f \in [At(Tail(s)) -> R]
    BY <1>2
  <2>2. \A i, j \in At(Tail(s)) : f[i] = f[j] => i = j
    OBVIOUS
  <2> QED
    BY <2>1, <2>2 DEF Injection, IsInjective
<1>4. /\ IsFiniteSet(R) /\ Cardinality(R) = IF 1 \in At(s) THEN Cardinality(At(s)) - 1
                                            ELSE Cardinality(At(s))
  BY <1>1, FS_RemoveElement
<1>5. Cardinality(At(Tail(s))) <= Cardinality(R) /\ IsFiniteSet(At(Tail(s)))
  <2> DEFINE T == At(Tail(s))
  <2>1. f \in Injection(T, R)
    BY <1>3
  <2> HIDE DEF T, f, R
  <2>2. Cardinality(T) <= Cardinality(R) /\ IsFiniteSet(T)
    BY <1>4, <2>1, FS_Injection
  <2> QED
    BY <2>2 DEF T
<1>6. Cardinality(At(Tail(s))) \in Nat
  BY <1>5, FS_CardinalityType
<1>7. 1 \in At(s) <=> Head(s) = a
  BY <1>2
<1> HIDE DEF At, R
<1>8. CountIn(s, a) = Cardinality(At(s)) /\ CountIn(Tail(s), a) = Cardinality(At(Tail(s)))
  BY DEF CountIn, At
<1> QED
  BY <1>1, <1>4, <1>5, <1>6, <1>7, <1>8

-----------------------------------------------------------------------------
\* The names in the order they are opened in.
LEMMA Opens ==
    /\ Sums!Answers = {"pid_s", "pid_d", "pid_m"}
    /\ Sums!Names = {"pid_s", "pid_d", "pid_m", "client_queue"}
    /\ Sums!Requests = {"pid_s", "pid_d", "pid_m", "other"}
    /\ Len(Sums!ServerOpens) = 4 /\ Len(Sums!ClientOpens) = 4
    /\ \A i \in 1..4 : /\ Sums!ServerOpens[i] \in Sums!Names /\ Sums!ClientOpens[i] \in Sums!Names
                       /\ Sums!ServerOpens[i] = "client_queue" <=> i = 4
                       /\ Sums!ClientOpens[i] = "client_queue" <=> i = 1
    /\ \A a \in Sums!Answers : /\ \E i \in 1..4 : Sums!ServerOpens[i] = a
                               /\ \E i \in 1..4 : Sums!ClientOpens[i] = a
<1>1. \A i \in 1..4 : i = 1 \/ i = 2 \/ i = 3 \/ i = 4
  OBVIOUS
<1>2. /\ Sums!ServerOpens[1] = "pid_s" /\ Sums!ServerOpens[2] = "pid_d"
      /\ Sums!ServerOpens[3] = "pid_m" /\ Sums!ServerOpens[4] = "client_queue"
      /\ Sums!ClientOpens[1] = "client_queue" /\ Sums!ClientOpens[2] = "pid_s"
      /\ Sums!ClientOpens[3] = "pid_d" /\ Sums!ClientOpens[4] = "pid_m"
  BY DEF Sums!ServerOpens, Sums!ClientOpens
<1>3. Len(Sums!ServerOpens) = 4 /\ Len(Sums!ClientOpens) = 4
  BY DEF Sums!ServerOpens, Sums!ClientOpens
<1> QED
  BY <1>1, <1>2, <1>3 DEF Sums!Answers, Sums!Names, Sums!Requests

SumsServer ==
    /\ runs \in 0..MaxRuns /\ calc \in {"off", "open", "receive"} /\ zero \in BOOLEAN
    /\ calc # "off" => runs > 0
    /\ name \in [Sums!Names -> 0..runs]
    /\ fd \in Seq(Runs) /\ Len(fd) <= 4
    /\ calc = "open" => Len(fd) < 4
    /\ calc = "receive" => Len(fd) = 4
    /\ asks \in [Runs -> Seq(Sums!Requests)]

\* Each run of the server answers at most once.
RepliesTyped ==
    /\ replies \in [Sums!Answers -> [Runs -> Nat]]
    /\ \A m \in Sums!Answers : \A r \in Runs :
          replies[m][r] + (IF calc = "off" THEN 0 ELSE 1) <= runs

ClientsTyped ==
    /\ asker \in [Askers -> {"off", "open", "send", "wait", "unlink", "done", "dead"}]
    /\ cfd \in [Askers -> Seq(Runs)] /\ unlinked \in [Askers -> 0..4]
    /\ ask \in [Askers -> Sums!Requests]
    /\ \A c \in Askers :
          /\ Len(cfd[c]) <= 4
          /\ asker[c] \in {"off", "open"} => Len(cfd[c]) < 4
          /\ asker[c] \in {"send", "wait", "unlink"} => Len(cfd[c]) = 4
          /\ asker[c] \in {"off", "open", "send", "wait"} => unlinked[c] = 0
          /\ asker[c] = "unlink" => unlinked[c] < 4
          /\ asker[c] = "wait" => ask[c] \in Sums!Answers

\* A queue of requests made by a later run is nobody's yet, and empty.
Made == IF calc = "open" THEN runs - 1 ELSE runs
Later ==
    /\ name["client_queue"] <= Made
    /\ \A c \in Askers : cfd[c] # <<>> => cfd[c][1] <= Made
    /\ \A r \in Runs : r > Made => asks[r] = <<>>

\* As long as the queue with a request has its name, somebody who asked has not unlinked it.
Held ==
    \A r \in Runs : asks[r] # <<>> /\ name["client_queue"] = r =>
        \E c \in Askers : \/ asker[c] \in {"wait", "dead"}
                          \/ asker[c] = "unlink" /\ unlinked[c] = 0

\* Every answer and every request for one is for a client that waits or was killed.
Waiters(a)  == {c \in Askers : ask[c] = a /\ asker[c] \in {"wait", "dead"}}
Answered(a) == SumFunction(replies[a])
Pending(a)  == SumFunction([r \in Runs |-> CountIn(asks[r], a)])
Owed == \A a \in Sums!Answers : Answered(a) + Pending(a) <= Cardinality(Waiters(a))

SumsInv == SumsServer /\ RepliesTyped /\ ClientsTyped /\ Later /\ Held /\ Owed

LEMMA RunsAreFinite == IsFiniteSet(Runs) /\ Runs \subseteq Nat
BY Parameters, FS_Interval DEF Runs

LEMMA SumsMeaning == SumsInv => Sums!TypeOK /\ Sums!NothingStale
<1> SUFFICES ASSUME SumsInv PROVE Sums!TypeOK /\ Sums!NothingStale
  OBVIOUS
<1>0. /\ SumsServer /\ RepliesTyped /\ ClientsTyped /\ Later /\ Held /\ Owed /\ MaxRuns \in Nat
      /\ runs \in 0..MaxRuns
  BY Parameters DEF SumsInv, SumsServer
<1>1. Sums!TypeOK
  <2>1. /\ runs \in 0..MaxRuns /\ calc \in {"off", "open", "receive"} /\ zero \in BOOLEAN
        /\ Len(fd) <= 4
    BY <1>0 DEF SumsServer
  <2>2. name \in [Sums!Names -> 0..MaxRuns]
    BY <1>0 DEF SumsServer
  <2>3. \A i \in DOMAIN fd : fd[i] \in 1..MaxRuns
    BY <1>0 DEF SumsServer, Runs
  <2>4. \A r \in 1..MaxRuns : \A i \in DOMAIN asks[r] : asks[r][i] \in Sums!Requests
    BY <1>0 DEF SumsServer, Runs
  <2>5. \A m \in Sums!Answers, r \in 1..MaxRuns : replies[m][r] \in 0..MaxRuns
    BY <1>0 DEF RepliesTyped, Runs
  <2>6. /\ asker \in [Askers -> {"off", "open", "send", "wait", "unlink", "done", "dead"}]
        /\ \A c \in Askers : Len(cfd[c]) <= 4 /\ unlinked[c] \in 0..4
    BY <1>0 DEF ClientsTyped
  <2> QED
    BY <2>1, <2>2, <2>3, <2>4, <2>5, <2>6 DEF Sums!TypeOK
<1>2. Sums!NothingStale
  <2> SUFFICES ASSUME \A c \in Askers : asker[c] \in {"off", "done"}
               PROVE  /\ \A m \in Sums!Answers : name[m] # 0 => replies[m][name[m]] = 0
                      /\ name["client_queue"] # 0 => asks[name["client_queue"]] = <<>>
    BY DEF Sums!NothingStale
  <2>1. \A m \in Sums!Names : name[m] # 0 => name[m] \in Runs
    BY <1>0 DEF SumsServer, Runs
  <2>2. ASSUME NEW m \in Sums!Answers, name[m] # 0 PROVE replies[m][name[m]] = 0
    <3>1. Waiters(m) = {} /\ Cardinality({}) = 0
      BY FS_EmptySet DEF Waiters
    <3>2. replies[m] \in [Runs -> Nat] /\ name[m] \in Runs
      BY <1>0, <2>1, <2>2, Opens DEF RepliesTyped
    <3>3. Answered(m) \in Nat /\ replies[m][name[m]] <= Answered(m)
      BY <3>2, RunsAreFinite, SumNat DEF Answered
    <3>4. Pending(m) \in Nat
      <4> DEFINE g == [r \in Runs |-> CountIn(asks[r], m)]
      <4>1. g \in [Runs -> Nat]
        BY <1>0, CountInNat DEF SumsServer
      <4> HIDE DEF g
      <4>2. SumFunction(g) \in Nat
        BY <4>1, RunsAreFinite, SumNat
      <4> QED
        BY <4>2 DEF g, Pending
    <3>5. Answered(m) + Pending(m) <= 0
      BY <1>0, <3>1 DEF Owed
    <3> QED
      BY <3>2, <3>3, <3>4, <3>5
  <2>3. name["client_queue"] # 0 => asks[name["client_queue"]] = <<>>
    BY <1>0, <2>1, Opens DEF Held
  <2> QED
    BY <2>2, <2>3
<1> QED
  BY <1>1, <1>2

LEMMA SumsInit == Init => SumsInv
<1> SUFFICES ASSUME Init PROVE SumsInv
  OBVIOUS
<1>1. /\ runs = 0 /\ calc = "off" /\ zero \in BOOLEAN /\ fd = <<>> /\ name = [m \in Sums!Names |-> 0]
      /\ asks = [r \in Runs |-> <<>>]
      /\ replies = [m \in Sums!Answers |-> [r \in Runs |-> 0]]
      /\ asker = [c \in Askers |-> "off"] /\ cfd = [c \in Askers |-> <<>>]
      /\ unlinked = [c \in Askers |-> 0] /\ ask \in [Askers -> Sums!Requests]
  BY DEF Init, Sums!Init, Runs
<1>2. SumsServer
  <2>1. <<>> \in Seq(Runs) /\ <<>> \in Seq(Sums!Requests) /\ Len(<<>>) = 0
    OBVIOUS
  <2>2. asks \in [Runs -> Seq(Sums!Requests)]
    <3> DEFINE S == Seq(Sums!Requests)
    <3>1. <<>> \in S
      BY <2>1
    <3> HIDE DEF S
    <3>2. asks \in [Runs -> S]
      BY <1>1, <3>1
    <3> QED
      BY <3>2 DEF S
  <2> QED
    BY <1>1, <2>1, <2>2, Parameters DEF SumsServer
<1>3. RepliesTyped
  BY <1>1, RunsAreFinite DEF RepliesTyped
<1>4. ClientsTyped
  <2> DEFINE S == Seq(Runs)
  <2>1. <<>> \in S /\ Len(<<>>) = 0
    OBVIOUS
  <2> HIDE DEF S
  <2>2. cfd \in [Askers -> S]
    BY <1>1, <2>1
  <2> QED
    BY <1>1, <2>1, <2>2 DEF ClientsTyped, S
<1>5. Later
  BY <1>1, Opens, RunsAreFinite DEF Later, Made
<1>6. Held
  BY <1>1 DEF Held
<1>7. Owed
  <2> SUFFICES ASSUME NEW a \in Sums!Answers
               PROVE  Answered(a) + Pending(a) <= Cardinality(Waiters(a))
    BY DEF Owed
  <2>1. replies[a] \in [Runs -> Int] /\ \A r \in Runs : replies[a][r] = 0
    BY <1>1
  <2>2. Answered(a) = 0
    BY <2>1, RunsAreFinite, SumZero DEF Answered
  <2>3. Pending(a) = 0
    <3> DEFINE g == [r \in Runs |-> CountIn(asks[r], a)]
    <3>1. g \in [Runs -> Int] /\ \A r \in Runs : g[r] = 0
      BY <1>1, CountInEmpty
    <3> HIDE DEF g
    <3>2. SumFunction(g) = 0
      BY <3>1, RunsAreFinite, SumZero
    <3> QED
      BY <3>2 DEF g, Pending
  <2>4. Waiters(a) = {}
    BY <1>1 DEF Waiters
  <2> QED
    BY <2>2, <2>3, <2>4, FS_EmptySet
<1> QED
  BY <1>2, <1>3, <1>4, <1>5, <1>6, <1>7 DEF SumsInv

\* The sums, when a queue changes.
LEMMA PendingNat ==
    ASSUME asks \in [Runs -> Seq(Sums!Requests)], NEW a
    PROVE  Pending(a) \in Nat
<1> DEFINE g == [r \in Runs |-> CountIn(asks[r], a)]
<1>1. g \in [Runs -> Nat]
  BY CountInNat
<1> HIDE DEF g
<1>2. SumFunction(g) \in Nat
  BY <1>1, RunsAreFinite, SumNat
<1> QED
  BY <1>2 DEF g, Pending

LEMMA SumPoint ==
    ASSUME NEW g \in [Runs -> Nat], NEW h \in [Runs -> Nat], NEW r \in Runs,
           \A q \in Runs : q # r => h[q] = g[q]
    PROVE  SumFunction(h) = SumFunction(g) + h[r] - g[r]
<1>1. g \in [Runs -> Int] /\ h \in [Runs -> Int] /\ IsFiniteSet(Runs)
  BY RunsAreFinite
<1> QED
  BY <1>1, SumChange

LEMMA PendingChange ==
    ASSUME asks \in [Runs -> Seq(Sums!Requests)], NEW r \in Runs, NEW s \in Seq(Sums!Requests),
           asks' = [asks EXCEPT ![r] = s], NEW a
    PROVE  Pending(a)' = Pending(a) + CountIn(s, a) - CountIn(asks[r], a)
<1> DEFINE g == [q \in Runs |-> CountIn(asks[q], a)]
           h == [q \in Runs |-> CountIn(asks'[q], a)]
<1>1. g \in [Runs -> Nat]
  BY CountInNat
<1>2. asks' \in [Runs -> Seq(Sums!Requests)]
  <2> DEFINE S == Seq(Sums!Requests)
  <2>1. asks \in [Runs -> S] /\ s \in S
    OBVIOUS
  <2> HIDE DEF S
  <2>2. asks' \in [Runs -> S]
    BY <2>1
  <2> QED
    BY <2>2 DEF S
<1>3. h \in [Runs -> Nat]
  BY <1>2, CountInNat
<1>4. h[r] = CountIn(s, a) /\ g[r] = CountIn(asks[r], a) /\ \A q \in Runs : q # r => h[q] = g[q]
  BY DEF Runs
<1> HIDE DEF g, h
<1>5. SumFunction(h) = SumFunction(g) + h[r] - g[r]
  BY <1>1, <1>3, <1>4, SumPoint
<1> QED
  BY <1>4, <1>5 DEF g, h, Pending

LEMMA RepliesChange ==
    ASSUME replies \in [Sums!Answers -> [Runs -> Nat]], NEW m \in Sums!Answers, NEW r \in Runs,
           NEW v \in Nat, replies' = [replies EXCEPT ![m][r] = v]
    PROVE  /\ replies' \in [Sums!Answers -> [Runs -> Nat]]
           /\ replies'[m][r] = v
           /\ \A l \in Sums!Answers, q \in Runs : l # m \/ q # r => replies'[l][q] = replies[l][q]
OBVIOUS

LEMMA AnsweredNat ==
    ASSUME replies \in [Sums!Answers -> [Runs -> Nat]], NEW m \in Sums!Answers
    PROVE  Answered(m) \in Nat
<1>1. replies[m] \in [Runs -> Nat]
  OBVIOUS
<1> QED
  BY <1>1, RunsAreFinite, SumNat DEF Answered

LEMMA AnsweredMoves ==
    ASSUME replies \in [Sums!Answers -> [Runs -> Nat]], NEW m \in Sums!Answers, NEW r \in Runs,
           NEW d \in {1, -1}, replies[m][r] + d \in Nat,
           replies' = [replies EXCEPT ![m][r] = replies[m][r] + d]
    PROVE  /\ Answered(m)' = Answered(m) + d
           /\ \A l \in Sums!Answers : l # m => Answered(l)' = Answered(l)
<1> DEFINE g == replies[m]
           v == g[r] + d
           h == [g EXCEPT ![r] = v]
<1>1. g \in [Runs -> Nat] /\ h \in [Runs -> Nat] /\ replies' = [replies EXCEPT ![m] = h]
  OBVIOUS
<1>2. replies'[m] = h /\ \A l \in Sums!Answers : l # m => replies'[l] = replies[l]
  BY <1>1
<1>3. g[r] \in Nat /\ v = g[r] + d
  BY <1>1
<1>4. SumFunction(h) = SumFunction(g) + d
  <2>1. g \in [Runs -> Int] /\ IsFiniteSet(Runs) /\ v \in Int
    BY <1>1, RunsAreFinite
  <2>2. SumFunction(g) \in Nat
    BY <1>1, RunsAreFinite, SumNat
  <2> HIDE DEF g, v
  <2>3. SumFunction(h) = SumFunction(g) + v - g[r]
    BY <2>1, SumExcept
  <2> HIDE DEF h
  <2> QED
    BY <1>3, <2>2, <2>3
<1> HIDE DEF h
<1> QED
  BY <1>2, <1>4 DEF Answered

LEMMA WaitersAreFinite ==
    ASSUME NEW a
    PROVE  /\ IsFiniteSet(Waiters(a)) /\ Cardinality(Waiters(a)) \in Nat
           /\ IsFiniteSet(Waiters(a)') /\ Cardinality(Waiters(a)') \in Nat
BY Parameters, FS_Subset, FS_CardinalityType DEF Waiters

\* Nothing is owed anew when no queue changes and whoever waits goes on or is killed.
LEMMA OwedKept ==
    ASSUME SumsInv, UNCHANGED <<asks, replies, ask>>,
           \A c \in Askers : asker[c] \in {"wait", "dead"} => asker'[c] \in {"wait", "dead"}
    PROVE  Owed'
<1> SUFFICES ASSUME NEW a \in Sums!Answers
             PROVE  Answered(a)' + Pending(a)' <= Cardinality(Waiters(a)')
  BY DEF Owed
<1>1. Answered(a)' = Answered(a) /\ Pending(a)' = Pending(a)
  BY DEF Answered, Pending
<1>2. Waiters(a) \subseteq Waiters(a)'
  BY DEF Waiters
<1>3. Cardinality(Waiters(a)) <= Cardinality(Waiters(a)')
  BY <1>2, WaitersAreFinite, FS_Subset
<1>4. Answered(a) \in Nat /\ Pending(a) \in Nat /\ Answered(a) + Pending(a) <= Cardinality(Waiters(a))
  BY AnsweredNat, PendingNat DEF SumsInv, SumsServer, RepliesTyped, Owed
<1> QED
  BY <1>1, <1>3, <1>4, WaitersAreFinite

\* The server's steps.
LEMMA SumsStart == ASSUME SumsInv, Sums!Start PROVE SumsInv'
<1>1. /\ calc = "off" /\ runs < MaxRuns /\ runs' = runs + 1 /\ calc' = "open"
      /\ zero' \in BOOLEAN /\ fd' = <<>>
      /\ UNCHANGED <<name, asks, replies, asker, cfd, unlinked, ask>>
  BY DEF Sums!Start, Sums!clientVars
<1>2. runs \in Nat /\ runs' \in 0..MaxRuns /\ runs' > 0
  BY <1>1, Parameters DEF SumsInv, SumsServer
<1>3. SumsServer'
  <2>1. <<>> \in Seq(Runs) /\ Len(<<>>) = 0
    OBVIOUS
  <2>2. name' \in [Sums!Names -> 0..runs']
    BY <1>1, <1>2 DEF SumsInv, SumsServer
  <2> QED
    BY <1>1, <1>2, <2>1, <2>2 DEF SumsInv, SumsServer
<1>4. RepliesTyped'
  BY <1>1, <1>2 DEF SumsInv, RepliesTyped
<1>5. ClientsTyped'
  BY <1>1 DEF SumsInv, ClientsTyped
<1>6. Later'
  <2>1. Made' = Made
    BY <1>1, <1>2 DEF Made
  <2> QED
    BY <1>1, <2>1 DEF SumsInv, Later
<1>7. Held'
  BY <1>1 DEF SumsInv, Held
<1>8. Owed'
  BY <1>1, OwedKept
<1> QED
  BY <1>3, <1>4, <1>5, <1>6, <1>7, <1>8 DEF SumsInv

LEMMA SumsOpen == ASSUME SumsInv, Sums!Open PROVE SumsInv'
<1>0. calc = "open"
  BY DEF Sums!Open
<1> DEFINE m == Sums!ServerOpens[Len(fd) + 1]
           q == IF name[m] = 0 THEN runs ELSE name[m]
<1>1. /\ calc = "open" /\ name' = [name EXCEPT ![m] = q] /\ fd' = Append(fd, q)
      /\ calc' = IF Len(fd') = 4 THEN "receive" ELSE calc
      /\ UNCHANGED <<runs, zero, asks, replies, asker, cfd, unlinked, ask>>
  BY Opens DEF Sums!Open, Sums!clientVars
<1>i. /\ fd \in Seq(Runs) /\ Len(fd) \in 0..3 /\ runs \in Nat /\ runs > 0 /\ runs <= MaxRuns
      /\ name \in [Sums!Names -> 0..runs] /\ MaxRuns \in Nat
  <2>1. MaxRuns \in Nat /\ runs \in 0..MaxRuns
    BY Parameters DEF SumsInv, SumsServer
  <2>3. /\ runs > 0 /\ fd \in Seq(Runs) /\ Len(fd) < 4 /\ name \in [Sums!Names -> 0..runs]
    BY <1>0 DEF SumsInv, SumsServer
  <2> DEFINE k == Len(fd)
  <2>4. k \in Nat /\ k < 4
    BY <2>3
  <2> HIDE DEF k
  <2>5. k \in 0..3
    BY <2>4
  <2> QED
    BY <2>1, <2>3, <2>5 DEF k
<1>2. Len(fd) + 1 \in 1..4 /\ m \in Sums!Names /\ (m = "client_queue" <=> Len(fd) = 3)
  <2>1. PICK k \in 0..3 : Len(fd) = k
    BY <1>i
  <2>2. k + 1 \in 1..4 /\ (k + 1 = 4 <=> k = 3)
    OBVIOUS
  <2> QED
    BY <2>1, <2>2, Opens
<1>3. q \in Runs /\ q \in 0..runs
  BY <1>2, <1>i DEF Runs
<1> HIDE DEF q, m
<1>4. /\ fd' \in Seq(Runs) /\ Len(fd') = Len(fd) + 1 /\ Len(fd') <= 4
      /\ name' \in [Sums!Names -> 0..runs]
  <2>1. name' \in [Sums!Names -> 0..runs]
    BY <1>1, <1>2, <1>3, <1>i
  <2>2. fd' = Append(fd, q) /\ fd \in Seq(Runs) /\ q \in Runs
    BY <1>1, <1>3, <1>i
  <2>3. fd' \in Seq(Runs) /\ Len(fd') = Len(fd) + 1
    BY <2>2
  <2>4. PICK k \in 0..3 : Len(fd) = k
    BY <1>i
  <2>5. k + 1 <= 4
    OBVIOUS
  <2> QED
    BY <2>1, <2>3, <2>4, <2>5
<1>5. calc' = (IF Len(fd) = 3 THEN "receive" ELSE "open")
  BY <1>1, <1>i, <1>4
<1>6. SumsServer'
  <2>0. PICK k \in 0..3 : Len(fd) = k /\ Len(fd') = k + 1
    BY <1>i, <1>4
  <2>1. calc' = "open" => Len(fd') < 4
    BY <1>5, <2>0
  <2>2. calc' = "receive" => Len(fd') = 4
    BY <1>5, <2>0
  <2>3. calc' \in {"off", "open", "receive"}
    BY <1>5
  <2> QED
    BY <1>1, <1>i, <1>4, <2>1, <2>2, <2>3 DEF SumsInv, SumsServer
<1>7. RepliesTyped'
  BY <1>1, <1>5 DEF SumsInv, RepliesTyped
<1>8. ClientsTyped'
  BY <1>1 DEF SumsInv, ClientsTyped
<1>9. Made = runs - 1 /\ Made' \in {runs - 1, runs} /\ (Len(fd) = 3 => Made' = runs)
  BY <1>1, <1>5 DEF Made
<1>10. /\ Len(fd) # 3 => name'["client_queue"] = name["client_queue"]
       /\ Len(fd) = 3 => /\ name'["client_queue"] = q
                         /\ q = name["client_queue"] \/ q = runs
  <2>1. "client_queue" \in Sums!Names
    BY Opens
  <2>2. q = name[m] \/ q = runs
    BY DEF q
  <2> QED
    BY <1>1, <1>2, <1>i, <2>1, <2>2
<1>11. \A r \in Runs : r > Made => asks[r] = <<>>
  BY DEF SumsInv, Later
<1>12. Later'
  <2>1. name'["client_queue"] <= Made'
    <3>1. name["client_queue"] \in 0..runs /\ name["client_queue"] <= runs - 1
      BY <1>9, <1>i, Opens DEF SumsInv, Later
    <3> QED
      BY <1>3, <1>9, <1>10, <1>i, <3>1
  <2>2. \A c \in Askers : cfd'[c] # <<>> => cfd'[c][1] <= Made'
    <3> SUFFICES ASSUME NEW c \in Askers, cfd[c] # <<>> PROVE cfd[c][1] <= Made'
      BY <1>1
    <3>1. cfd[c][1] \in Int /\ cfd[c][1] <= runs - 1
      BY <1>9, Parameters DEF SumsInv, Later, ClientsTyped, Runs
    <3> QED
      BY <1>9, <1>i, <3>1
  <2>3. \A r \in Runs : r > Made' => asks'[r] = <<>>
    BY <1>1, <1>9, <1>11, <1>i, RunsAreFinite
  <2> QED
    BY <2>1, <2>2, <2>3 DEF Later
<1>13. Held'
  <2> SUFFICES ASSUME NEW r \in Runs, asks[r] # <<>>, name'["client_queue"] = r
               PROVE  \E c \in Askers : \/ asker[c] \in {"wait", "dead"}
                                        \/ asker[c] = "unlink" /\ unlinked[c] = 0
    BY <1>1 DEF Held
  <2>1. r # runs
    BY <1>9, <1>11, <1>i
  <2>2. name["client_queue"] = r
    BY <1>10, <2>1
  <2> QED
    BY <2>2 DEF SumsInv, Held
<1>14. Owed'
  BY <1>1, OwedKept
<1> QED
  BY <1>6, <1>7, <1>8, <1>12, <1>13, <1>14 DEF SumsInv

LEMMA SumsInterruptServer == ASSUME SumsInv, Sums!InterruptServer PROVE SumsInv'
<1>1. /\ calc # "off" /\ calc' = "off"
      /\ UNCHANGED <<runs, zero, name, fd, asks, replies, asker, cfd, unlinked, ask>>
  BY DEF Sums!InterruptServer, Sums!clientVars
<1>i. runs \in Nat
  BY DEF SumsInv, SumsServer
<1>2. SumsServer' /\ ClientsTyped' /\ Held'
  BY <1>1 DEF SumsInv, SumsServer, ClientsTyped, Held
<1>3. RepliesTyped'
  <2>1. \A m \in Sums!Answers : \A r \in Runs : replies[m][r] \in Nat /\ replies[m][r] + 1 <= runs
    BY <1>1 DEF SumsInv, RepliesTyped
  <2> QED
    BY <1>1, <1>i, <2>1 DEF SumsInv, RepliesTyped
<1>4. Later'
  <2>1. Made' = runs /\ Made \in Int /\ Made <= runs
    BY <1>1, <1>i DEF Made
  <2>2. name["client_queue"] \in Nat
    BY Opens DEF SumsInv, SumsServer
  <2>3. \A c \in Askers : cfd[c] # <<>> => cfd[c][1] \in Nat
    <3> SUFFICES ASSUME NEW c \in Askers, cfd[c] # <<>> PROVE cfd[c][1] \in Nat
      OBVIOUS
    <3>1. cfd[c] \in Seq(Runs)
      BY DEF SumsInv, ClientsTyped
    <3>2. cfd[c][1] \in Runs
      BY <3>1
    <3> QED
      BY <3>2, RunsAreFinite
  <2> QED
    BY <1>1, <1>i, <2>1, <2>2, <2>3, RunsAreFinite DEF SumsInv, Later
<1>5. Owed'
  BY <1>1, OwedKept
<1> QED
  BY <1>2, <1>3, <1>4, <1>5 DEF SumsInv

LEMMA SequenceAt == ASSUME NEW s \in Seq(Runs), NEW i \in 1..Len(s) PROVE s[i] \in Runs
OBVIOUS

LEMMA FourQueues ==
    ASSUME NEW s \in Seq(Runs), Len(s) = 4
    PROVE  s # <<>> /\ s[1] \in Runs /\ s[2] \in Runs /\ s[3] \in Runs /\ s[4] \in Runs
<1>0. s # <<>>
  OBVIOUS
<1>1. s[1] \in Runs
  OBVIOUS
<1>2. s[2] \in Runs
  OBVIOUS
<1>3. s[3] \in Runs
  OBVIOUS
<1>4. s[4] \in Runs
  <2>1. 4 \in 1..4
    OBVIOUS
  <2> QED
    BY <2>1, SequenceAt
<1> QED
  BY <1>0, <1>1, <1>2, <1>3, <1>4

LEMMA SumsServe == ASSUME SumsInv, Sums!Serve PROVE SumsInv'
<1> DEFINE r == fd[4]
           a == Head(asks[r])
<1>1. /\ calc = "receive" /\ asks[r] # <<>> /\ asks' = [asks EXCEPT ![r] = Tail(asks[r])]
      /\ calc' = "off" /\ UNCHANGED <<runs, zero, name, fd, asker, cfd, unlinked, ask>>
  BY DEF Sums!Serve, Sums!clientVars
<1>i. /\ asks \in [Runs -> Seq(Sums!Requests)] /\ runs \in Nat /\ fd \in Seq(Runs) /\ Len(fd) = 4
      /\ replies \in [Sums!Answers -> [Runs -> Nat]]
  BY <1>1, Parameters DEF SumsInv, SumsServer, RepliesTyped
<1>2. r \in Runs /\ \A i \in 1..4 : fd[i] \in Runs
  BY <1>i, FourQueues
<1>3. a \in Sums!Requests /\ Tail(asks[r]) \in Seq(Sums!Requests)
  BY <1>1, <1>2, <1>i
<1>4. \/ UNCHANGED replies
      \/ /\ a \in Sums!Answers
         /\ \E v \in Runs : replies' = [replies EXCEPT ![a][v] = replies[a][v] + 1]
  <2>1. CASE a = "other" \/ (zero /\ a # "pid_s")
    BY <2>1 DEF Sums!Serve
  <2>2. CASE ~(a = "other" \/ (zero /\ a # "pid_s"))
    <3> DEFINE j == CHOOSE i \in 1..4 : Sums!ServerOpens[i] = a
    <3>1. a \in Sums!Answers
      BY <1>3, <2>2, Opens
    <3>2. j \in 1..4
      BY <3>1, Opens
    <3>3. replies' = [replies EXCEPT ![a][fd[j]] = replies[a][fd[j]] + 1]
      BY <2>2 DEF Sums!Serve
    <3> HIDE DEF j
    <3> QED
      BY <1>2, <3>1, <3>2, <3>3
  <2> QED
    BY <2>1, <2>2
<1> HIDE DEF r, a
<1>5. asks' \in [Runs -> Seq(Sums!Requests)]
  <2> DEFINE S == Seq(Sums!Requests)
  <2>1. asks \in [Runs -> S] /\ Tail(asks[r]) \in S
    BY <1>3, <1>i
  <2> HIDE DEF S
  <2>2. asks' \in [Runs -> S]
    BY <1>1, <1>2, <2>1
  <2> QED
    BY <2>2 DEF S
<1>6. SumsServer'
  BY <1>1, <1>5 DEF SumsInv, SumsServer
<1>7. \A m \in Sums!Answers : \A q \in Runs : replies[m][q] \in Nat /\ replies[m][q] + 1 <= runs
  BY <1>1, <1>i DEF SumsInv, RepliesTyped
<1>8. RepliesTyped'
  <2>1. CASE UNCHANGED replies
    BY <1>1, <1>7, <1>i, <2>1 DEF RepliesTyped
  <2>2. ASSUME a \in Sums!Answers, NEW v \in Runs,
               replies' = [replies EXCEPT ![a][v] = replies[a][v] + 1]
        PROVE  RepliesTyped'
    <3>1. PICK w \in Nat : w = replies[a][v] + 1
      BY <1>7, <2>2
    <3>a. replies' = [replies EXCEPT ![a][v] = w]
      BY <2>2, <3>1
    <3>2. /\ replies' \in [Sums!Answers -> [Runs -> Nat]] /\ replies'[a][v] = w
          /\ \A m \in Sums!Answers, q \in Runs : m # a \/ q # v => replies'[m][q] = replies[m][q]
      BY <1>i, <2>2, <3>a, RepliesChange
    <3>3. \A m \in Sums!Answers : \A q \in Runs : replies'[m][q] <= runs
      <4> SUFFICES ASSUME NEW m \in Sums!Answers, NEW q \in Runs PROVE replies'[m][q] <= runs
        OBVIOUS
      <4>1. CASE m = a /\ q = v
        BY <1>7, <2>2, <3>1, <3>2, <4>1
      <4>2. CASE m # a \/ q # v
        <5>1. replies'[m][q] = replies[m][q]
          BY <3>2, <4>2
        <5>2. replies[m][q] \in Nat /\ replies[m][q] + 1 <= runs
          BY <1>7
        <5> QED
          BY <1>i, <5>1, <5>2
      <4> QED
        BY <4>1, <4>2
    <3>4. \A m \in Sums!Answers : \A q \in Runs : replies'[m][q] + 0 <= runs
      BY <1>i, <3>2, <3>3
    <3> QED
      BY <1>1, <3>2, <3>4 DEF RepliesTyped
  <2> QED
    BY <1>4, <2>1, <2>2
<1>9. ClientsTyped'
  BY <1>1 DEF SumsInv, ClientsTyped
<1>10. \A q \in Runs : asks'[q] # <<>> => asks[q] # <<>>
  BY <1>1, <1>2, <1>i
<1>11. Later'
  <2>1. Made' = Made
    BY <1>1 DEF Made
  <2> QED
    BY <1>1, <1>10, <2>1 DEF SumsInv, Later
<1>12. Held'
  BY <1>1, <1>10 DEF SumsInv, Held
<1>13. Owed'
  <2> SUFFICES ASSUME NEW b \in Sums!Answers
               PROVE  Answered(b)' + Pending(b)' <= Cardinality(Waiters(b)')
    BY DEF Owed
  <2>1. /\ Waiters(b)' = Waiters(b) /\ Cardinality(Waiters(b)) \in Nat
        /\ Answered(b) \in Nat /\ Pending(b) \in Nat
        /\ Answered(b) + Pending(b) <= Cardinality(Waiters(b))
    <3>1. Waiters(b)' = Waiters(b)
      BY <1>1 DEF Waiters
    <3> QED
      BY <1>i, <3>1, AnsweredNat, PendingNat, WaitersAreFinite DEF SumsInv, Owed
  <2>2. Pending(b)' = Pending(b) + CountIn(Tail(asks[r]), b) - CountIn(asks[r], b)
    BY <1>1, <1>2, <1>3, <1>i, PendingChange
  <2>3. /\ CountIn(Tail(asks[r]), b) + (IF a = b THEN 1 ELSE 0) <= CountIn(asks[r], b)
        /\ CountIn(Tail(asks[r]), b) \in Nat /\ CountIn(asks[r], b) \in Nat
    <3>1. asks[r] \in Seq(Sums!Requests) /\ asks[r] # <<>>
      BY <1>1, <1>2, <1>i
    <3> QED
      BY <1>3, <3>1, CountInTail, CountInNat DEF a
  <2>4. CASE UNCHANGED replies
    <3>1. Answered(b)' = Answered(b)
      BY <2>4 DEF Answered
    <3> QED
      BY <2>1, <2>2, <2>3, <3>1
  <2>5. ASSUME a \in Sums!Answers, NEW v \in Runs,
               replies' = [replies EXCEPT ![a][v] = replies[a][v] + 1]
        PROVE  Answered(b)' + Pending(b)' <= Cardinality(Waiters(b)')
    <3>b. PICK e \in Sums!Answers : e = a
      BY <2>5
    <3>a. replies' = [replies EXCEPT ![e][v] = replies[e][v] + 1]
      BY <2>5, <3>b
    <3>2. /\ Answered(e)' = Answered(e) + 1
          /\ \A l \in Sums!Answers : l # e => Answered(l)' = Answered(l)
      <4>1. 1 \in {1, -1} /\ replies[e][v] + 1 \in Nat
        BY <1>i
      <4> QED
        BY <1>i, <3>a, <4>1, AnsweredMoves
    <3>3. CASE b = e
      BY <2>1, <2>2, <2>3, <3>2, <3>3, <3>b
    <3>4. CASE b # e
      <4>1. Answered(b)' = Answered(b)
        BY <3>2, <3>4
      <4> QED
        BY <2>1, <2>2, <2>3, <3>4, <3>b, <4>1
    <3> QED
      BY <3>3, <3>4
  <2> QED
    BY <1>4, <2>4, <2>5
<1> QED
  BY <1>6, <1>8, <1>9, <1>11, <1>12, <1>13 DEF SumsInv

-----------------------------------------------------------------------------
\* A client's step that opens, asks for and reads nothing leaves the queues' part as it is.
LEMMA ClientOnly ==
    ASSUME SumsInv, UNCHANGED <<runs, calc, zero, name, fd, asks, replies>>
    PROVE  SumsServer' /\ RepliesTyped' /\ Made' = Made
BY DEF SumsInv, SumsServer, RepliesTyped, Made

LEMMA SumsStartClient == ASSUME SumsInv, NEW c \in Askers, Sums!StartClient(c) PROVE SumsInv'
<1>1. /\ asker[c] = "off" /\ asker' = [asker EXCEPT ![c] = "open"]
      /\ UNCHANGED <<runs, calc, zero, name, fd, asks, replies, cfd, unlinked, ask>>
  BY DEF Sums!StartClient
<1>2. ClientsTyped'
  BY <1>1 DEF SumsInv, ClientsTyped
<1>3. Later' /\ Held'
  BY <1>1, ClientOnly DEF SumsInv, ClientsTyped, Later, Held
<1>4. Owed'
  BY <1>1, OwedKept DEF SumsInv, ClientsTyped
<1> QED
  BY <1>1, <1>2, <1>3, <1>4, ClientOnly DEF SumsInv

LEMMA SumsInterrupt == ASSUME SumsInv, NEW c \in Askers, Sums!Interrupt(c) PROVE SumsInv'
<1>1. /\ asker[c] \notin {"off", "done", "dead"} /\ asker' = [asker EXCEPT ![c] = "dead"]
      /\ UNCHANGED <<runs, calc, zero, name, fd, asks, replies, cfd, unlinked, ask>>
  BY DEF Sums!Interrupt
<1>2. ClientsTyped'
  BY <1>1 DEF SumsInv, ClientsTyped
<1>3. Later'
  BY <1>1, ClientOnly DEF SumsInv, Later
<1>4. Held'
  BY <1>1 DEF SumsInv, ClientsTyped, Held
<1>5. Owed'
  BY <1>1, OwedKept DEF SumsInv, ClientsTyped
<1> QED
  BY <1>1, <1>2, <1>3, <1>4, <1>5, ClientOnly DEF SumsInv

LEMMA SumsClientOpen == ASSUME SumsInv, NEW c \in Askers, Sums!ClientOpen(c) PROVE SumsInv'
<1> DEFINE q == name[Sums!ClientOpens[Len(cfd[c]) + 1]]
<1>1. /\ asker[c] = "open"
      /\ UNCHANGED <<runs, calc, zero, name, fd, asks, replies, unlinked, ask>>
  BY DEF Sums!ClientOpen
<1>i. asker \in [Askers -> {"off", "open", "send", "wait", "unlink", "done", "dead"}]
  BY DEF SumsInv, ClientsTyped
<1>2. CASE q = 0
  <2>1. asker' = [asker EXCEPT ![c] = "dead"] /\ UNCHANGED cfd
    BY <1>2 DEF Sums!ClientOpen
  <2>2. ClientsTyped'
    BY <1>1, <2>1 DEF SumsInv, ClientsTyped
  <2>3. Later' /\ Held'
    BY <1>1, <1>i, <2>1, ClientOnly DEF SumsInv, Later, Held
  <2>4. Owed'
    BY <1>1, <1>i, <2>1, OwedKept
  <2> QED
    BY <1>1, <2>2, <2>3, <2>4, ClientOnly DEF SumsInv
<1>3. CASE q # 0
  <2>1. cfd' = [cfd EXCEPT ![c] = Append(cfd[c], q)]
    BY <1>3 DEF Sums!ClientOpen
  <2>2. PICK k \in 0..3 : Len(cfd[c]) = k
    <3> DEFINE k == Len(cfd[c])
    <3>1. k \in Nat /\ k < 4
      BY <1>1 DEF SumsInv, ClientsTyped
    <3> HIDE DEF k
    <3>2. k \in 0..3
      BY <3>1
    <3> QED
      BY <3>2 DEF k
  <2>3. /\ k + 1 \in 1..4 /\ Sums!ClientOpens[k + 1] \in Sums!Names
        /\ (Sums!ClientOpens[k + 1] = "client_queue" <=> k = 0) /\ q = name[Sums!ClientOpens[k + 1]]
    <3>1. k + 1 \in 1..4 /\ (k + 1 = 1 <=> k = 0)
      OBVIOUS
    <3> QED
      BY <2>2, <3>1, Opens
  <2>4. q \in Runs
    BY <1>3, <2>3, Parameters DEF SumsInv, SumsServer, Runs
  <2>5. k = 0 => q <= Made
    BY <2>3 DEF SumsInv, Later
  <2> HIDE DEF q
  <2>6. /\ cfd[c] \in Seq(Runs) /\ cfd \in [Askers -> Seq(Runs)]
    BY DEF SumsInv, ClientsTyped
  <2>7. /\ Append(cfd[c], q) \in Seq(Runs) /\ Len(Append(cfd[c], q)) = k + 1
        /\ (k = 0 => Append(cfd[c], q)[1] = q) /\ (k # 0 => Append(cfd[c], q)[1] = cfd[c][1])
    BY <2>2, <2>4, <2>6
  <2>8. /\ cfd' \in [Askers -> Seq(Runs)] /\ cfd'[c] = Append(cfd[c], q)
        /\ \A d \in Askers : d # c => cfd'[d] = cfd[d]
    <3> DEFINE S == Seq(Runs)
    <3>1. cfd \in [Askers -> S] /\ Append(cfd[c], q) \in S
      BY <2>6, <2>7
    <3> HIDE DEF S
    <3>2. /\ cfd' \in [Askers -> S] /\ cfd'[c] = Append(cfd[c], q)
          /\ \A d \in Askers : d # c => cfd'[d] = cfd[d]
      BY <2>1, <3>1
    <3> QED
      BY <3>2 DEF S
  <2>9. asker' = [asker EXCEPT ![c] = IF k + 1 = 4 THEN "send" ELSE "open"]
    <3>1. asker' = [asker EXCEPT ![c] = IF Len(cfd'[c]) = 4 THEN "send" ELSE asker[c]]
      BY <1>3, Opens DEF Sums!ClientOpen, q
    <3> QED
      BY <1>1, <2>7, <2>8, <3>1
  <2>10. ClientsTyped'
    <3>1. /\ asker' \in [Askers -> {"off", "open", "send", "wait", "unlink", "done", "dead"}]
          /\ asker'[c] \in {"send", "open"} /\ (asker'[c] = "send" <=> k + 1 = 4)
          /\ \A d \in Askers : d # c => asker'[d] = asker[d]
      BY <1>i, <2>9
    <3>2. Len(cfd'[c]) <= 4 /\ (asker'[c] = "open" => Len(cfd'[c]) < 4)
          /\ (asker'[c] = "send" => Len(cfd'[c]) = 4)
      BY <2>3, <2>7, <2>8, <3>1
    <3>3. unlinked'[c] = 0
      BY <1>1 DEF SumsInv, ClientsTyped
    <3> QED
      BY <1>1, <2>8, <3>1, <3>2, <3>3 DEF SumsInv, ClientsTyped
  <2>11. Later'
    <3>1. cfd[c] # <<>> => k # 0
      BY <2>2, <2>6
    <3>2. k # 0 => cfd[c] # <<>>
      BY <2>2, <2>6
    <3>3. cfd'[c][1] <= Made
      BY <2>5, <2>7, <2>8, <3>2 DEF SumsInv, Later
    <3> QED
      BY <1>1, <2>8, <3>3, ClientOnly DEF SumsInv, Later
  <2>12. Held'
    BY <1>1, <1>i, <2>9 DEF SumsInv, Held
  <2>13. Owed'
    BY <1>1, <1>i, <2>9, OwedKept
  <2> QED
    BY <1>1, <2>10, <2>11, <2>12, <2>13, ClientOnly DEF SumsInv
<1> QED
  BY <1>2, <1>3

LEMMA SumsAsk == ASSUME SumsInv, NEW c \in Askers, Sums!Ask(c) PROVE SumsInv'
<1>1. /\ asker[c] = "send" /\ asks' = [asks EXCEPT ![cfd[c][1]] = Append(asks[cfd[c][1]], ask[c])]
      /\ asker' = [asker EXCEPT ![c] = IF ask[c] \in Sums!Answers THEN "wait" ELSE "unlink"]
      /\ UNCHANGED <<runs, calc, zero, name, fd, replies, cfd, unlinked, ask>>
  BY DEF Sums!Ask
<1>i. /\ asker \in [Askers -> {"off", "open", "send", "wait", "unlink", "done", "dead"}]
      /\ asks \in [Runs -> Seq(Sums!Requests)] /\ cfd[c] \in Seq(Runs) /\ Len(cfd[c]) = 4
      /\ ask[c] \in Sums!Requests /\ unlinked[c] = 0 /\ replies \in [Sums!Answers -> [Runs -> Nat]]
  BY <1>1 DEF SumsInv, ClientsTyped, SumsServer, RepliesTyped
<1>2. PICK r \in Runs : r = cfd[c][1]
  BY <1>i, FourQueues
<1>3. PICK t \in Seq(Sums!Requests) : t = Append(asks[r], ask[c])
  <2>1. asks[r] \in Seq(Sums!Requests) /\ ask[c] \in Sums!Requests
    BY <1>i
  <2>2. Append(asks[r], ask[c]) \in Seq(Sums!Requests)
    BY <2>1
  <2> QED
    BY <2>2
<1>4. asks' = [asks EXCEPT ![r] = t]
  BY <1>1, <1>2, <1>3
<1>5. asks' \in [Runs -> Seq(Sums!Requests)] /\ \A q \in Runs : q # r => asks'[q] = asks[q]
  <2> DEFINE S == Seq(Sums!Requests)
  <2>1. asks \in [Runs -> S] /\ t \in S
    BY <1>i
  <2> HIDE DEF S
  <2>2. asks' \in [Runs -> S] /\ \A q \in Runs : q # r => asks'[q] = asks[q]
    BY <1>4, <2>1
  <2> QED
    BY <2>2 DEF S
<1>6. /\ asker' \in [Askers -> {"off", "open", "send", "wait", "unlink", "done", "dead"}]
      /\ asker'[c] \in {"wait", "unlink"} /\ (asker'[c] = "wait" <=> ask[c] \in Sums!Answers)
      /\ \A d \in Askers : d # c => asker'[d] = asker[d]
  BY <1>1, <1>i
<1>7. SumsServer' /\ RepliesTyped'
  BY <1>1, <1>5 DEF SumsInv, SumsServer, RepliesTyped
<1>8. ClientsTyped'
  BY <1>1, <1>i, <1>6 DEF SumsInv, ClientsTyped
<1>9. Later'
  <2>1. Made' = Made
    BY <1>1 DEF Made
  <2>2. cfd[c] # <<>>
    BY <1>i, FourQueues
  <2>3. r <= Made
    BY <1>2, <2>2 DEF SumsInv, Later
  <2>4. Made \in Int
    BY Parameters DEF Made, SumsInv, SumsServer
  <2>5. ASSUME NEW q \in Runs, q > Made PROVE asks'[q] = <<>>
    BY <1>5, <2>3, <2>4, <2>5, RunsAreFinite DEF SumsInv, Later
  <2> QED
    BY <1>1, <2>1, <2>5 DEF SumsInv, Later
<1>10. Held'
  <2> SUFFICES ASSUME NEW q \in Runs, asks'[q] # <<>>, name["client_queue"] = q
               PROVE  \E d \in Askers : \/ asker'[d] \in {"wait", "dead"}
                                        \/ asker'[d] = "unlink" /\ unlinked[d] = 0
    BY <1>1 DEF Held
  <2> QED
    BY <1>6, <1>i
<1>11. Owed'
  <2> SUFFICES ASSUME NEW a \in Sums!Answers
               PROVE  Answered(a)' + Pending(a)' <= Cardinality(Waiters(a)')
    BY DEF Owed
  <2>1. Answered(a)' = Answered(a)
    BY <1>1 DEF Answered
  <2>2. Pending(a)' = Pending(a) + (IF ask[c] = a THEN 1 ELSE 0)
    <3>1. Pending(a)' = Pending(a) + CountIn(t, a) - CountIn(asks[r], a)
      BY <1>4, <1>i, PendingChange
    <3>2. asks[r] \in Seq(Sums!Requests)
      BY <1>i
    <3>3. /\ CountIn(t, a) = CountIn(asks[r], a) + (IF ask[c] = a THEN 1 ELSE 0)
          /\ CountIn(asks[r], a) \in Nat
      BY <1>3, <1>i, <3>2, CountInAppend, CountInNat
    <3>4. Pending(a) \in Nat
      BY <1>i, PendingNat
    <3> QED
      BY <3>1, <3>3, <3>4
  <2>3. /\ Answered(a) \in Nat /\ Pending(a) \in Nat
        /\ Answered(a) + Pending(a) <= Cardinality(Waiters(a))
    BY <1>i, AnsweredNat, PendingNat DEF SumsInv, Owed
  <2>4. CASE ask[c] = a
    <3>1. Waiters(a)' = Waiters(a) \cup {c} /\ c \notin Waiters(a)
      BY <1>1, <1>6, <2>4 DEF Waiters
    <3>2. Cardinality(Waiters(a)') = Cardinality(Waiters(a)) + 1
      BY <3>1, WaitersAreFinite, FS_AddElement
    <3> QED
      BY <2>1, <2>2, <2>3, <2>4, <3>2, WaitersAreFinite
  <2>5. CASE ask[c] # a
    <3>1. Waiters(a)' = Waiters(a)
      BY <1>1, <1>6, <2>5 DEF Waiters
    <3> QED
      BY <2>1, <2>2, <2>3, <2>5, <3>1, WaitersAreFinite
  <2> QED
    BY <2>4, <2>5
<1> QED
  BY <1>7, <1>8, <1>9, <1>10, <1>11 DEF SumsInv

LEMMA SumsReadAnswer == ASSUME SumsInv, NEW c \in Askers, Sums!ReadAnswer(c) PROVE SumsInv'
<1> DEFINE j == CHOOSE i \in 1..4 : Sums!ClientOpens[i] = ask[c]
<1>1. /\ asker[c] = "wait" /\ replies[ask[c]][cfd[c][j]] > 0
      /\ replies' = [replies EXCEPT ![ask[c]][cfd[c][j]] = replies[ask[c]][cfd[c][j]] - 1]
      /\ asker' = [asker EXCEPT ![c] = "unlink"]
      /\ UNCHANGED <<runs, calc, zero, name, fd, asks, cfd, unlinked, ask>>
  BY DEF Sums!ReadAnswer, Sums!AnswerQueue
<1>i. /\ asker \in [Askers -> {"off", "open", "send", "wait", "unlink", "done", "dead"}]
      /\ asks \in [Runs -> Seq(Sums!Requests)] /\ cfd[c] \in Seq(Runs) /\ Len(cfd[c]) = 4
      /\ unlinked[c] = 0 /\ replies \in [Sums!Answers -> [Runs -> Nat]] /\ runs \in Nat
  BY <1>1, Parameters DEF SumsInv, ClientsTyped, SumsServer, RepliesTyped
<1>2. PICK e \in Sums!Answers : e = ask[c]
  BY <1>1 DEF SumsInv, ClientsTyped
<1>3. j \in 1..4
  <2>1. \E i \in 1..4 : Sums!ClientOpens[i] = ask[c]
    BY ONLY <1>2, Opens
  <2> QED
    BY ONLY <2>1
<1> HIDE DEF j
<1>4. PICK r \in Runs : r = cfd[c][j]
  BY ONLY <1>i, <1>3, SMTT(30)
<1>5. replies' = [replies EXCEPT ![e][r] = replies[e][r] - 1] /\ replies[e][r] > 0
  BY <1>1, <1>2, <1>4
<1>6. PICK w \in Nat : w = replies[e][r] - 1
  BY <1>5, <1>i
<1>7. /\ replies' \in [Sums!Answers -> [Runs -> Nat]] /\ replies'[e][r] = w
      /\ \A l \in Sums!Answers, q \in Runs : l # e \/ q # r => replies'[l][q] = replies[l][q]
  <2>1. replies' = [replies EXCEPT ![e][r] = w]
    BY <1>5, <1>6
  <2> QED
    BY <1>i, <2>1, RepliesChange
<1>8. /\ asker' \in [Askers -> {"off", "open", "send", "wait", "unlink", "done", "dead"}]
      /\ asker'[c] = "unlink" /\ \A d \in Askers : d # c => asker'[d] = asker[d]
  BY <1>1, <1>i
<1>9. SumsServer'
  BY <1>1 DEF SumsInv, SumsServer
<1>10. RepliesTyped'
  <2>1. \A m \in Sums!Answers : \A q \in Runs : replies'[m][q] \in Nat /\ replies'[m][q] <= replies[m][q]
    <3> SUFFICES ASSUME NEW m \in Sums!Answers, NEW q \in Runs
                 PROVE  replies'[m][q] \in Nat /\ replies'[m][q] <= replies[m][q]
      OBVIOUS
    <3>1. CASE m = e /\ q = r
      BY <1>6, <1>7, <1>i, <3>1
    <3>2. CASE m # e \/ q # r
      <4>1. replies'[m][q] = replies[m][q] /\ replies[m][q] \in Nat
        BY <1>7, <1>i, <3>2
      <4> QED
        BY <4>1
    <3> QED
      BY <3>1, <3>2
  <2>2. PICK k \in {0, 1} : k = (IF calc = "off" THEN 0 ELSE 1)
    OBVIOUS
  <2>3. \A m \in Sums!Answers : \A q \in Runs : replies[m][q] \in Nat /\ replies[m][q] + k <= runs
    BY <1>i, <2>2 DEF SumsInv, RepliesTyped
  <2>4. \A m \in Sums!Answers : \A q \in Runs : replies'[m][q] + k <= runs
    <3> SUFFICES ASSUME NEW m \in Sums!Answers, NEW q \in Runs PROVE replies'[m][q] + k <= runs
      OBVIOUS
    <3>1. PICK x \in Nat, y \in Nat : x = replies'[m][q] /\ y = replies[m][q]
      BY <2>1, <2>3
    <3>2. x <= y /\ y + k <= runs
      BY <2>1, <2>3, <3>1
    <3>3. x + k <= runs
      BY <1>i, <3>2
    <3> QED
      BY <3>1, <3>3
  <2> QED
    BY <1>1, <1>7, <2>2, <2>4 DEF RepliesTyped
<1>11. ClientsTyped'
  BY <1>1, <1>i, <1>8 DEF SumsInv, ClientsTyped
<1>12. Later'
  BY <1>1 DEF SumsInv, Later, Made
<1>13. Held'
  BY <1>1, <1>i, <1>8 DEF Held
<1>14. Owed'
  <2> SUFFICES ASSUME NEW b \in Sums!Answers
               PROVE  Answered(b)' + Pending(b)' <= Cardinality(Waiters(b)')
    BY DEF Owed
  <2>1. Pending(b)' = Pending(b)
    BY <1>1 DEF Pending
  <2>2. /\ Answered(b) \in Nat /\ Pending(b) \in Nat
        /\ Answered(b) + Pending(b) <= Cardinality(Waiters(b))
    BY <1>i, AnsweredNat, PendingNat DEF SumsInv, Owed
  <2>3. /\ Answered(e)' = Answered(e) - 1
        /\ \A l \in Sums!Answers : l # e => Answered(l)' = Answered(l)
    <3>1. -1 \in {1, -1} /\ replies[e][r] + (-1) = replies[e][r] - 1 /\ replies[e][r] + (-1) \in Nat
      BY <1>5, <1>i
    <3>2. replies' = [replies EXCEPT ![e][r] = replies[e][r] + (-1)]
      BY <1>5, <3>1
    <3>3. /\ Answered(e)' = Answered(e) + (-1)
          /\ \A l \in Sums!Answers : l # e => Answered(l)' = Answered(l)
      BY <1>i, <3>1, <3>2, AnsweredMoves
    <3>4. Answered(e) \in Nat
      BY <1>i, AnsweredNat
    <3> QED
      BY <3>3, <3>4
  <2>4. CASE b = e
    <3>1. Waiters(b)' = Waiters(b) \ {c} /\ c \in Waiters(b)
      BY <1>1, <1>2, <1>8, <2>4 DEF Waiters
    <3>2. Cardinality(Waiters(b)') = Cardinality(Waiters(b)) - 1
      BY <3>1, WaitersAreFinite, FS_RemoveElement
    <3> QED
      BY <2>1, <2>2, <2>3, <2>4, <3>2, WaitersAreFinite
  <2>5. CASE b # e
    <3>1. Waiters(b)' = Waiters(b)
      BY <1>1, <1>2, <1>8, <2>5 DEF Waiters
    <3>2. Answered(b)' = Answered(b)
      BY <2>3, <2>5
    <3> QED
      BY <2>1, <2>2, <3>1, <3>2
  <2> QED
    BY <2>4, <2>5
<1> QED
  BY <1>9, <1>10, <1>11, <1>12, <1>13, <1>14 DEF SumsInv

LEMMA SumsUnlink == ASSUME SumsInv, NEW c \in Askers, Sums!Unlink(c) PROVE SumsInv'
<1> DEFINE m == Sums!ClientOpens[unlinked[c] + 1]
<1>1. /\ asker[c] = "unlink" /\ UNCHANGED <<runs, calc, zero, fd, asks, replies, cfd, ask>>
  BY DEF Sums!Unlink
<1>i. /\ asker \in [Askers -> {"off", "open", "send", "wait", "unlink", "done", "dead"}]
      /\ unlinked \in [Askers -> 0..4] /\ unlinked[c] \in 0..3
      /\ name \in [Sums!Names -> 0..runs] /\ runs \in Nat
  BY <1>1, Parameters DEF SumsInv, ClientsTyped, SumsServer
<1>2. CASE name[m] = 0
  <2>1. asker' = [asker EXCEPT ![c] = "dead"] /\ UNCHANGED <<name, unlinked>>
    BY <1>2 DEF Sums!Unlink
  <2>2. ClientsTyped' /\ Held'
    BY <1>1, <1>i, <2>1 DEF SumsInv, ClientsTyped, Held
  <2>3. Later'
    BY <1>1, <2>1, ClientOnly DEF SumsInv, Later
  <2>4. Owed'
    BY <1>1, <1>i, <2>1, OwedKept
  <2> QED
    BY <1>1, <2>1, <2>2, <2>3, <2>4, ClientOnly DEF SumsInv
<1>3. CASE name[m] # 0
  <2>1. /\ name' = [name EXCEPT ![m] = 0] /\ unlinked' = [unlinked EXCEPT ![c] = unlinked[c] + 1]
        /\ asker' = [asker EXCEPT ![c] = IF unlinked'[c] = Len(Sums!ClientOpens) THEN "done" ELSE asker[c]]
    BY <1>3 DEF Sums!Unlink
  <2>2. PICK k \in 0..3 : unlinked[c] = k
    BY <1>i
  <2>3. k + 1 \in 1..4 /\ m \in Sums!Names /\ (m = "client_queue" <=> k = 0)
    <3>1. k + 1 \in 1..4 /\ (k + 1 = 1 <=> k = 0)
      OBVIOUS
    <3> QED
      BY <2>2, <3>1, Opens
  <2> HIDE DEF m
  <2>4. /\ unlinked' \in [Askers -> 0..4] /\ unlinked'[c] = k + 1 /\ k + 1 \in 0..4
        /\ \A d \in Askers : d # c => unlinked'[d] = unlinked[d]
    BY <1>i, <2>1, <2>2
  <2>5. /\ asker' \in [Askers -> {"off", "open", "send", "wait", "unlink", "done", "dead"}]
        /\ asker'[c] = (IF k = 3 THEN "done" ELSE "unlink")
        /\ \A d \in Askers : d # c => asker'[d] = asker[d]
    <3>1. k + 1 = 4 <=> k = 3
      OBVIOUS
    <3> QED
      BY <1>1, <1>i, <2>1, <2>4, <3>1, Opens
  <2>6. /\ name' \in [Sums!Names -> 0..runs] /\ name'[m] = 0
        /\ \A l \in Sums!Names : l # m => name'[l] = name[l]
    BY <1>i, <2>1, <2>3
  <2>7. SumsServer' /\ RepliesTyped'
    BY <1>1, <2>6 DEF SumsInv, SumsServer, RepliesTyped
  <2>8. ClientsTyped'
    <3>1. asker'[c] = "unlink" => k + 1 < 4
      BY <2>5
    <3> QED
      BY <1>1, <2>4, <2>5, <3>1 DEF SumsInv, ClientsTyped
  <2>9. name'["client_queue"] \in {0, name["client_queue"]} /\ (k = 0 => name'["client_queue"] = 0)
    BY <2>3, <2>6, Opens
  <2>10. Later'
    <3>1. Made' = Made /\ Made \in Nat
      BY <1>1, <1>i DEF Made, SumsInv, SumsServer
    <3> QED
      BY <1>1, <2>9, <3>1 DEF SumsInv, Later
  <2>11. Held'
    <3> SUFFICES ASSUME NEW q \in Runs, asks[q] # <<>>, name'["client_queue"] = q
                 PROVE  \E d \in Askers : \/ asker'[d] \in {"wait", "dead"}
                                          \/ asker'[d] = "unlink" /\ unlinked'[d] = 0
      BY <1>1 DEF Held
    <3>1. q # 0 /\ name["client_queue"] = q /\ k # 0
      BY <2>9 DEF Runs
    <3>2. PICK d \in Askers : \/ asker[d] \in {"wait", "dead"}
                              \/ asker[d] = "unlink" /\ unlinked[d] = 0
      <4>1. \A r \in Runs : asks[r] # <<>> /\ name["client_queue"] = r =>
                \E d \in Askers : \/ asker[d] \in {"wait", "dead"}
                                  \/ asker[d] = "unlink" /\ unlinked[d] = 0
        BY DEF SumsInv, Held
      <4> QED
        BY <3>1, <4>1
    <3>3. d # c
      BY <1>1, <2>2, <3>1, <3>2
    <3> QED
      BY <2>4, <2>5, <3>2, <3>3
  <2>12. Owed'
    BY <1>1, <1>i, <2>5, OwedKept
  <2> QED
    BY <2>7, <2>8, <2>10, <2>11, <2>12 DEF SumsInv
<1> QED
  BY <1>2, <1>3

LEMMA CalculatorStep == ASSUME SumsInv, Sums!Next PROVE SumsInv'
<1>1. ASSUME NEW c \in Askers, Sums!StartClient(c) \/ Sums!Client(c) \/ Sums!Interrupt(c)
      PROVE  SumsInv'
  <2>1. CASE Sums!StartClient(c) \/ Sums!Interrupt(c)
    BY <2>1, SumsStartClient, SumsInterrupt
  <2>2. CASE Sums!ClientOpen(c) \/ Sums!Ask(c)
    BY <2>2, SumsClientOpen, SumsAsk
  <2>3. CASE Sums!ReadAnswer(c) \/ Sums!Unlink(c)
    BY <2>3, SumsReadAnswer, SumsUnlink
  <2> QED
    BY <1>1, <2>1, <2>2, <2>3 DEF Sums!Client
<1>2. CASE Sums!Start \/ Sums!Open \/ Sums!Serve \/ Sums!InterruptServer
  BY <1>2, SumsStart, SumsOpen, SumsServe, SumsInterruptServer
<1> QED
  BY <1>1, <1>2 DEF Sums!Next

-----------------------------------------------------------------------------
(* The suite: the program that runs keeps its invariant.                   *)
QueuesInv ==
    /\ prog = "store" => StoreInv
    /\ prog = "tasks" => TasksInv
    /\ prog = "sampler" => DiscInv
    /\ prog = "bingo" => BingoInv
    /\ prog = "chat" => ChatInv
    /\ prog = "sums" => SumsInv

LEMMA QueuesInit == Init => QueuesInv
BY StoreInit, TasksInit, DiscInit, BingoInit, ChatInit, SumsInit DEF QueuesInv

LEMMA SumsStutter == ASSUME SumsInv, UNCHANGED sums PROVE SumsInv'
<1>1. SumsServer' /\ RepliesTyped'
  BY DEF sums, SumsInv, SumsServer, RepliesTyped
<1>2. ClientsTyped'
  BY DEF sums, SumsInv, ClientsTyped
<1>3. Later' /\ Held'
  BY DEF sums, SumsInv, Later, Made, Held
<1>4. Owed'
  BY OwedKept DEF sums
<1> QED
  BY <1>1, <1>2, <1>3, <1>4 DEF SumsInv

LEMMA QueuesStutter == ASSUME QueuesInv, UNCHANGED vars PROVE QueuesInv'
<1>1. UNCHANGED <<prog, store, tasks, sampler, bingo, chat, sums>>
  BY DEF vars
<1>2. ASSUME StoreInv PROVE StoreInv'
  BY <1>1, <1>2 DEF store, StoreInv, Store!TypeOK, Store!WakeupsKept
<1>3. ASSUME TasksInv PROVE TasksInv'
  BY <1>1, <1>3 DEF tasks, TasksInv, DoneTasks
<1>4. ASSUME DiscInv PROVE DiscInv'
  BY <1>1, <1>4 DEF sampler, DiscInv, Hit, Disc!WakeupsKept
<1>5. ASSUME BingoInv PROVE BingoInv'
  BY <1>1, <1>5 DEF bingo, BingoInv, Bingo!TypeOK, Bingo!WakeupsKept
<1>6. ASSUME ChatInv PROVE ChatInv'
  BY <1>1, <1>6 DEF chat, ChatInv, ChatTyped, ChatCounts, Present, Told
<1>7. ASSUME SumsInv PROVE SumsInv'
  BY <1>1, <1>7, SumsStutter
<1> QED
  BY <1>1, <1>2, <1>3, <1>4, <1>5, <1>6, <1>7 DEF QueuesInv

LEMMA QueuesStep == QueuesInv /\ [Next]_vars => QueuesInv'
<1> SUFFICES ASSUME QueuesInv, [Next]_vars PROVE QueuesInv'
  OBVIOUS
<1>1. CASE prog = "store" /\ Store!Next /\ prog' = prog
  BY <1>1, StoreStep DEF QueuesInv
<1>2. CASE prog = "tasks" /\ Tasks!Next /\ prog' = prog
  BY <1>2, TasksStep DEF QueuesInv
<1>3. CASE prog = "sampler" /\ Disc!Next /\ prog' = prog
  BY <1>3, DiscStep DEF QueuesInv
<1>4. CASE prog = "bingo" /\ Bingo!Next /\ prog' = prog
  BY <1>4, BingoStep DEF QueuesInv
<1>5. CASE prog = "chat" /\ Chat!Next /\ prog' = prog
  BY <1>5, ChatStep DEF QueuesInv
<1>6. CASE prog = "sums" /\ Sums!Next /\ prog' = prog
  BY <1>6, CalculatorStep DEF QueuesInv
<1>7. CASE UNCHANGED vars
  BY <1>7, QueuesStutter
<1> QED
  BY <1>1, <1>2, <1>3, <1>4, <1>5, <1>6, <1>7 DEF Next

LEMMA QueuesAlways == Spec => []QueuesInv
BY QueuesInit, QueuesStep, PTL DEF Spec

\* The variables of the program that runs have their types: no queue ever holds more
\* than its attributes allow, no count of the chat is below what its exits explain, and no
\* client of the calculator reads or unlinks a queue it has not opened.
THEOREM TypesHold == Spec => []TypeOK
<1>1. QueuesInv => TypeOK
  BY TasksMeaning, DiscTypes, ChatMeaning, SumsMeaning DEF QueuesInv, TypeOK, StoreInv, BingoInv
<1> QED
  BY <1>1, QueuesAlways, PTL

\* L2/sop2-6/sop-queue.c, L2/Graded/ops-queue.c and L2/bingo.c: a message that waits has its
\* reader told or at work, for every number of clients, messages and hours: registering
\* again before the queue is read to its end leaves no moment for one to be missed.
THEOREM NoMessageWaitsUnseen == Spec => []WakeupsKept
<1>1. QueuesInv => WakeupsKept
  BY DEF QueuesInv, WakeupsKept, StoreInv, DiscInv, BingoInv
<1> QED
  BY <1>1, QueuesAlways, PTL

\* L2/exercise2.c and L2/Exercise4: every task is in one place, to be sent, queued or
\* done; and the counts of main and of the handler, which no lock protects, with the queue
\* add up to the clients, though a handler interrupts main anywhere.
THEOREM SharesHold == Spec => []SharesAddUp
<1>1. QueuesInv => SharesAddUp
  BY TasksMeaning, ChatMeaning DEF QueuesInv, SharesAddUp
<1> QED
  BY <1>1, QueuesAlways, PTL

\* L2/sop-server.c and L2/sop-client.c: whatever servers and clients are started, stopped
\* and interrupted in whatever order, when all clients have ended well no name leads to a
\* request or an answer of theirs.
THEOREM NothingLeftBehind == Spec => []NothingStale
<1>1. QueuesInv => NothingStale
  BY SumsMeaning DEF QueuesInv, NothingStale
<1> QED
  BY <1>1, QueuesAlways, PTL
=============================================================================
