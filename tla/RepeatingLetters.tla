-------------------------- MODULE RepeatingLetters --------------------------
(***************************************************************************)
(* L3/Exercise1/repeating_letters.c: n children count letters into their   *)
(* slots of a shared mapping or abort; the parent forks them, reaps them   *)
(* both in wait and in a SIGCHLD handler that itself blocks in waitpid,    *)
(* and prints the slots, too early when the handler interrupts its wait.   *)
(* rand() is seeded once, before the forks, so all children resign or none.*)
(***************************************************************************)
EXTENDS Naturals, FiniteSets

CONSTANTS Kids      \* n

LettersAssumption == Kids \in Nat \ {0}

VARIABLES resigns,      \* rand() % 100 < 30, the same draw in every child
          born,         \* children forked
          kid,          \* "unborn", "working", "zombie", "reaped"
          slots,        \* children whose 128 slots are written
          ppc,          \* main: see TypeOK; "scan", "scanned", "asleep" inside wait
          sigchld,      \* SIGCHLD is pending
          inHandler,
          cut           \* history: wait failed with EINTR

vars == <<resigns, born, kid, slots, ppc, sigchld, inHandler, cut>>
All  == 1..Kids

Init ==
    /\ resigns \in BOOLEAN /\ born = 0 /\ kid = [c \in All |-> "unborn"]
    /\ slots = {} /\ ppc = "fork" /\ sigchld = FALSE /\ inHandler = FALSE /\ cut = FALSE

With(s) == {c \in All : kid[c] = s}

\* pop_children; a pending SIGCHLD is delivered before main's next step.
Fork ==
    /\ ppc = "fork" /\ ~inHandler /\ ~sigchld
    /\ IF born < Kids
       THEN born' = born + 1 /\ kid' = [kid EXCEPT ![born + 1] = "working"] /\ UNCHANGED ppc
       ELSE ppc' = "wait" /\ UNCHANGED <<born, kid>>
    /\ UNCHANGED <<resigns, slots, sigchld, inHandler, cut>>

\* fault: exit before count_occurences is done
ExitEarly(c) ==
    /\ kid[c] = "working"
    /\ kid' = [kid EXCEPT ![c] = "zombie"] /\ sigchld' = TRUE
    /\ UNCHANGED <<resigns, born, slots, ppc, inHandler, cut>>

\* child_work: abort, or count_occurences and exit.
Exit(c) ==
    /\ kid[c] = "working"
    /\ slots' = IF resigns THEN slots ELSE slots \cup {c}
    /\ kid' = [kid EXCEPT ![c] = "zombie"] /\ sigchld' = TRUE
    /\ UNCHANGED <<resigns, born, ppc, inHandler, cut>>

\* The handler interrupts main wherever it is outside wait; SIGCHLD is blocked while
\* it runs.
EnterHandler ==
    /\ sigchld /\ ~inHandler /\ ppc \in {"fork", "wait", "print"}
    /\ sigchld' = FALSE /\ inHandler' = TRUE
    /\ UNCHANGED <<resigns, born, kid, slots, ppc, cut>>

\* waitpid(-1, &status, 0) in the handler: blocks while children live, fails
\* with ECHILD when main has reaped the last one.
ReapInHandler ==
    /\ inHandler
    /\ \/ \E c \in With("zombie") : kid' = [kid EXCEPT ![c] = "reaped"]
       \/ With("zombie") \cup With("working") = {} /\ UNCHANGED kid
    /\ inHandler' = FALSE
    /\ UNCHANGED <<resigns, born, slots, ppc, sigchld, cut>>

\* wait in main: it looks for a zombie, finds that no child is left (ECHILD), or
\* goes to sleep, and whoever ends then wakes it up.  SIGCHLD is delivered on the way
\* out; one that comes after the look and before the sleep makes wait fail with
\* EINTR, as sethandler does not set SA_RESTART: the loop ends.
Wait ==
    /\ \/ /\ ppc = "wait" /\ ~inHandler /\ ~sigchld
          /\ ppc' = "scan" /\ UNCHANGED <<kid, cut>>
       \/ /\ ppc \in {"scan", "asleep"}
          /\ \E c \in With("zombie") : kid' = [kid EXCEPT ![c] = "reaped"]
          /\ ppc' = "wait" /\ UNCHANGED cut
       \/ /\ ppc = "scan" /\ With("zombie") = {}
          /\ ppc' = IF With("working") = {} THEN "print" ELSE "scanned"
          /\ UNCHANGED <<kid, cut>>
       \/ /\ ppc = "scanned" /\ cut' = sigchld
          /\ ppc' = (IF sigchld THEN "print" ELSE "asleep") /\ UNCHANGED kid
    /\ UNCHANGED <<resigns, born, slots, sigchld, inHandler>>

PrintSlots ==
    /\ ppc = "print" /\ ~inHandler /\ ~sigchld /\ ppc' = "done"
    /\ UNCHANGED <<resigns, born, kid, slots, sigchld, inHandler, cut>>

Main == Fork \/ EnterHandler \/ ReapInHandler \/ Wait \/ PrintSlots
Next == Main \/ \E c \in All : Exit(c)

Fairness == WF_vars(Main) /\ \A c \in All : WF_vars(Exit(c))

-----------------------------------------------------------------------------
\* The types of the variables.
TypeOK ==
    /\ resigns \in BOOLEAN /\ born \in 0..Kids /\ slots \subseteq All
    /\ kid \in [All -> {"unborn", "working", "zombie", "reaped"}]
    /\ ppc \in {"fork", "wait", "scan", "scanned", "asleep", "print", "done"}
    /\ sigchld \in BOOLEAN /\ inHandler \in BOOLEAN /\ cut \in BOOLEAN

\* Although two places reap, main prints too early in one case only: SIGCHLD cut its
\* wait short while children were at work.  Else every child has ended and, if they
\* did not resign, has written its slots.
PrintsComplete ==
    ppc \in {"print", "done"} /\ ~cut =>
        With("reaped") = All /\ slots = (IF resigns THEN {} ELSE All)

\* A handler that finds nobody left to wait for does not keep main from printing.
Printed == ppc = "done"
=============================================================================
