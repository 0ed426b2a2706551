------------------------------- MODULE Brigades -------------------------------
(***************************************************************************)
(* RetakePrep/Brigades-L1/sop-factory.c: brigade 1 writes letters to the   *)
(* pipe FROM_1_TO_2, brigade 2 copies them to FROM_2_TO_3, brigade 3 reads *)
(* them.  A child holds every descriptor it inherits until it has closed   *)
(* those it does not use, the parent until all children exist.             *)
(* The program has no end of its own; a worker killed from outside is part *)
(* of the model because the ends of file and SIGPIPE it causes are what    *)
(* the closing of descriptors is for.                                      *)
(***************************************************************************)
EXTENDS Integers, Sequences, FiniteSets, SequencesExt, Functions

CONSTANTS W1, W2, W3,   \* workers of each brigade, 1..10 in the code
          Capacity,     \* bound: letters in a pipe, 65536 in the code
          MaxCopies,    \* bound: copies of a letter, 4 in the code
          Batch,        \* bound: letters brigade 3 counts to, 5 in the code
          MaxKills      \* bound: workers killed from outside

BrigadeAssumption == {W1, W2, W3} \subseteq Nat \ {0}
PipeAssumption    == {Capacity, MaxCopies, Batch} \subseteq Nat \ {0} /\ MaxKills \in Nat

Workers    == 1..W1 + W2 + W3                   \* in the order of the forks
Brigade(w) == IF w <= W1 THEN 1 ELSE IF w <= W1 + W2 THEN 2 ELSE 3
Member(b)  == {w \in Workers : Brigade(w) = b}

VARIABLES forked, parent,       \* children so far; "forking", "waiting", "done"
          st,                   \* "none", "born" (all descriptors), "work", "dead"
          first, second,        \* FROM_1_TO_2, FROM_2_TO_3
          buf, copies,          \* brigade 2: buf, writes still to make
          total,                \* brigade 3: total_bytes, counted up to Batch + 1
          killed                \* history: workers killed from outside

vars == <<forked, parent, st, first, second, buf, copies, total, killed>>

Letter  == "letter"     \* 'A' + rand()
Garbage == "garbage"    \* buf before the first read

Init ==
    /\ forked = 0 /\ parent = "forking"
    /\ st = [w \in Workers |-> "none"]
    /\ first = <<>> /\ second = <<>>
    /\ buf = [w \in Member(2) |-> Garbage] /\ copies = [w \in Member(2) |-> 0]
    /\ total = [w \in Member(3) |-> 0]
    /\ killed = {}

\* fault: brigade 1 keeps the end it could read from
HoldsUnclosed(w, p, end) ==
    \/ st[w] = "born"
    \/ /\ st[w] = "work"
       /\ \/ Brigade(w) = 1 /\ p = 1
          \/ Brigade(w) = 2 /\ <<p, end>> \in {<<1, "r">>, <<2, "w">>}
          \/ Brigade(w) = 3 /\ <<p, end>> = <<2, "r">>

\* The descriptors a worker has open: what is left after the closes of its
\* branch of create_workers.
Holds(w, p, end) ==
    \/ st[w] = "born"
    \/ /\ st[w] = "work"
       /\ \/ Brigade(w) = 1 /\ <<p, end>> = <<1, "w">>
          \/ Brigade(w) = 2 /\ <<p, end>> \in {<<1, "r">>, <<2, "w">>}
          \/ Brigade(w) = 3 /\ <<p, end>> = <<2, "r">>

Open(p, end) == parent = "forking" \/ \E w \in Workers : Holds(w, p, end)

-----------------------------------------------------------------------------
Fork ==
    /\ parent = "forking" /\ forked < Cardinality(Workers)
    /\ forked' = forked + 1
    /\ st' = [st EXCEPT ![forked + 1] = "born"]
    /\ UNCHANGED <<parent, first, second, buf, copies, total, killed>>

\* The parent's closes, then wait.
ParentCloses ==
    /\ parent = "forking" /\ forked = Cardinality(Workers)
    /\ parent' = "waiting"
    /\ UNCHANGED <<forked, st, first, second, buf, copies, total, killed>>

ParentReaps ==
    /\ parent = "waiting" /\ Range(st) = {"dead"}
    /\ parent' = "done"
    /\ UNCHANGED <<forked, st, first, second, buf, copies, total, killed>>

CloseUnused(w) ==
    /\ st[w] = "born" /\ st' = [st EXCEPT ![w] = "work"]
    /\ UNCHANGED <<forked, parent, first, second, buf, copies, total, killed>>

Ends(w) == st' = [st EXCEPT ![w] = "dead"]

\* first_brigade_work: write, or SIGPIPE (default action) when nobody can read.
Produce(w) ==
    /\ st[w] = "work" /\ w \in Member(1)
    /\ \/ Open(1, "r") /\ Len(first) < Capacity /\ first' = Append(first, Letter) /\ UNCHANGED st
       \/ ~Open(1, "r") /\ Ends(w) /\ UNCHANGED first
    /\ UNCHANGED <<forked, parent, second, buf, copies, total, killed>>

\* second_brigade_work, the read: 0 at the end of file is taken for a letter,
\* buf keeps what it had.
Take(w) ==
    /\ st[w] = "work" /\ w \in Member(2) /\ copies[w] = 0
    /\ \/ first # <<>> /\ buf' = [buf EXCEPT ![w] = Head(first)] /\ first' = Tail(first)
       \/ first = <<>> /\ ~Open(1, "w") /\ UNCHANGED <<buf, first>>
    /\ \E n \in 1..MaxCopies : copies' = [copies EXCEPT ![w] = n]
    /\ UNCHANGED <<forked, parent, st, second, total, killed>>

\* second_brigade_work, one write.
Copy(w) ==
    /\ st[w] = "work" /\ w \in Member(2) /\ copies[w] > 0
    /\ \/ /\ Open(2, "r") /\ Len(second) < Capacity
          /\ second' = Append(second, buf[w]) /\ copies' = [copies EXCEPT ![w] = @ - 1]
          /\ UNCHANGED st
       \/ ~Open(2, "r") /\ Ends(w) /\ UNCHANGED <<second, copies>>
    /\ UNCHANGED <<forked, parent, first, buf, total, killed>>

\* fault: a read that finds nothing is taken for the end of file
CollectNoWait(w) ==
    /\ st[w] = "work" /\ w \in Member(3)
    /\ \/ /\ second # <<>> /\ second' = Tail(second)
          /\ total' = [total EXCEPT ![w] = IF @ > Batch THEN @ ELSE @ + 1]
          /\ UNCHANGED st
       \/ second = <<>> /\ Ends(w) /\ UNCHANGED <<second, total>>
    /\ UNCHANGED <<forked, parent, first, buf, copies, killed>>

\* third_brigade_work: count, and leave at the end of file.
Collect(w) ==
    /\ st[w] = "work" /\ w \in Member(3)
    /\ \/ /\ second # <<>> /\ second' = Tail(second)
          /\ total' = [total EXCEPT ![w] = IF @ > Batch THEN @ ELSE @ + 1]
          /\ UNCHANGED st
       \/ second = <<>> /\ ~Open(2, "w") /\ Ends(w) /\ UNCHANGED <<second, total>>
    /\ UNCHANGED <<forked, parent, first, buf, copies, killed>>

\* External: a signal killed one worker.
Kill(w) ==
    /\ st[w] \in {"born", "work"} /\ Cardinality(killed) < MaxKills
    /\ killed' = killed \cup {w} /\ Ends(w)
    /\ UNCHANGED <<forked, parent, first, second, buf, copies, total>>

Work(w) == CloseUnused(w) \/ Produce(w) \/ Take(w) \/ Copy(w) \/ Collect(w)

Next == Fork \/ ParentCloses \/ ParentReaps \/ \E w \in Workers : Work(w) \/ Kill(w)

\* The scheduler runs every process that is not blocked; nothing is assumed of
\* the order in which workers blocked on one pipe are served.
Fairness ==
    /\ WF_vars(Fork \/ ParentCloses \/ ParentReaps)
    /\ \A w \in Workers : WF_vars(Work(w))

Spec == Init /\ [][Next]_vars

-----------------------------------------------------------------------------
\* The types of the variables.
TypeOK ==
    /\ forked \in 0..Cardinality(Workers) /\ parent \in {"forking", "waiting", "done"}
    /\ st \in [Workers -> {"none", "born", "work", "dead"}]
    /\ Len(first) <= Capacity /\ ToSet(first) \subseteq {Letter}
    /\ Len(second) <= Capacity /\ ToSet(second) \subseteq {Letter, Garbage}
    /\ buf \in [Member(2) -> {Letter, Garbage}] /\ copies \in [Member(2) -> 0..MaxCopies]
    /\ total \in [Member(3) -> 0..Batch + 1]
    /\ killed \subseteq Workers /\ Cardinality(killed) <= MaxKills

DeadIn(b) == \A w \in Member(b) : st[w] = "dead"

\* Nobody stops on its own.  A worker that was not killed ends because every worker at
\* the other end of its pipe is gone, which starts with a whole brigade killed: of
\* brigade 3 at the end of file only when all of brigade 2 was killed and the pipe is
\* empty, of brigade 2 by SIGPIPE only when all of brigade 3 was.  And brigade 2 makes
\* up a letter, the buf it has never read into, only when all of brigade 1 was killed.
Ended(b) == {w \in Member(b) : st[w] = "dead"} \ killed
StopsHaveACause ==
    /\ Ended(3) # {} => Member(2) \subseteq killed /\ second = <<>>
    /\ Ended(2) # {} => Member(3) \subseteq killed
    /\ Ended(1) # {} => DeadIn(2)
    /\ (Garbage \in ToSet(second) \/ \E w \in Member(2) : copies[w] > 0 /\ buf[w] = Garbage)
          => Member(1) \subseteq killed

\* Once brigade 3 is gone, SIGPIPE ends the brigades before it one after the
\* other, and the parent.
UpstreamStopped == DeadIn(3) => parent = "done"
=============================================================================
