---------------------------- MODULE BrigadesDraft ----------------------------
(***************************************************************************)
(* L1/sop-eng.c, the first version of the brigades: the same pipes and the *)
(* same closes, but brigade 1 writes one letter each, brigade 2 heeds the  *)
(* end of file, and brigade 3 reads through a pointer it never set.        *)
(***************************************************************************)
EXTENDS Brigades

RoomAssumption == W1 <= Capacity        \* ten letters never fill a pipe

\* first_brigade_work: one letter, or SIGPIPE; gone in both cases.
WriteOne(w) ==
    /\ st[w] = "work" /\ w \in Member(1)
    /\ first' = IF Open(1, "r") THEN Append(first, Letter) ELSE first
    /\ Ends(w)
    /\ UNCHANGED <<forked, parent, second, buf, copies, total, killed>>

\* second_brigade_work, the read: a letter to pass on, or the end of file.
ReadOne(w) ==
    /\ st[w] = "work" /\ w \in Member(2) /\ copies[w] = 0
    /\ \/ /\ first # <<>> /\ first' = Tail(first)
          /\ buf' = [buf EXCEPT ![w] = Head(first)] /\ copies' = [copies EXCEPT ![w] = 1]
          /\ UNCHANGED st
       \/ first = <<>> /\ ~Open(1, "w") /\ Ends(w) /\ UNCHANGED <<first, buf, copies>>
    /\ UNCHANGED <<forked, parent, second, total, killed>>

\* third_brigade_work: strlen and read through an uninitialised pointer.  The
\* pointer may trap; it may be one read cannot write to (nothing changes); or
\* it is writable and up to strlen(response) + 1 letters arrive, one of which
\* may make the text five long.
ReadAnywhere(w) ==
    /\ st[w] = "work" /\ w \in Member(3)
    /\ \/ Ends(w) /\ UNCHANGED second
       \/ \E n \in 1..Len(second) :
             /\ second' = SubSeq(second, n + 1, Len(second))
             /\ UNCHANGED st \/ (n = 1 /\ Ends(w))
    /\ UNCHANGED <<forked, parent, first, buf, copies, total, killed>>

DraftWork(w) == CloseUnused(w) \/ WriteOne(w) \/ ReadOne(w) \/ Copy(w)

DraftNext ==
    \/ Fork \/ ParentCloses \/ ParentReaps
    \/ \E w \in Workers : DraftWork(w) \/ ReadAnywhere(w) \/ Kill(w)

\* Brigade 3 is owed no particular outcome of its undefined read.
DraftFairness ==
    /\ WF_vars(Fork \/ ParentCloses \/ ParentReaps)
    /\ \A w \in Workers : WF_vars(DraftWork(w))

\* Here the end of brigade 1 reaches brigade 2: with every stray write end closed,
\* both brigades come to an end, whoever is killed.
FirstTwoEnded == DeadIn(1) /\ DeadIn(2)
=============================================================================
