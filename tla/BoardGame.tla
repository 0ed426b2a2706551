------------------------------ MODULE BoardGame ------------------------------
(***************************************************************************)
(* L3/serverexe.c and L3/clientexe.c: a board in shared memory behind an   *)
(* unnamed semaphore that lies in the same memory.  The server prints the  *)
(* board and stops on SIGINT, clients take the points of random fields.    *)
(* Everybody who maps the memory runs sem_init on it, in use or not; a     *)
(* client that draws D = 1 exits between sem_wait and sem_post.            *)
(***************************************************************************)
EXTENDS Integers, FiniteSets, Functions

CONSTANTS N,         \* argv[1] of the server, side of the board
          Points,    \* bound: values drawn by 1 + rand() % 9
          Clients

ASSUME NAssumption      == N \in Nat /\ N >= 3
ASSUME PointsAssumption == Points # {} /\ Points \subseteq 1..9
ASSUME ClientAssumption == IsFiniteSet(Clients)

Fields == 0..N*N-1

\* Fields N * y + x a client may search when it read `size` as the side; with
\* 0, before the server stored N, both rand() % -1 are 0.
Reach(size) ==
    IF size = 0 THEN {1} ELSE {size * y + x : x \in 1..size-1, y \in 1..size-1}

VARIABLES shm,       \* "none", "open" once created, "unlinked"
          sem,       \* value of the semaphore
          size,      \* board_shared[0]
          board,     \* board_priv
          filled,    \* fields the server has dealt so far
          running,   \* sighandling_args.running
          main, sig, \* next step of the server's two threads
          pc, seen, at, score,   \* per client: next step, N, field, score
          dealt,     \* history: points the server has put on the board
          trampled   \* history: some sem_init hit a semaphore in use

serverVars == <<shm, filled, running, main, sig, dealt>>
clientVars == <<pc, seen, at, score>>
vars == <<serverVars, sem, size, board, clientVars, trampled>>

Init ==
    /\ shm = "none" /\ sem = 0 /\ size = 0
    /\ board = [f \in Fields |-> 0] /\ filled = 0
    /\ running = TRUE /\ main = "create" /\ sig = "none"
    /\ pc = [c \in Clients |-> "out"] /\ seen = [c \in Clients |-> 0]
    /\ at = [c \in Clients |-> 0] /\ score = [c \in Clients |-> 0]
    /\ dealt = 0 /\ trampled = FALSE

\* Who is between a sem_wait and its sem_post, for ever if it left there.
Inside     == {c \in Clients : pc[c] \in {"search", "clear", "post", "last", "oops"}}
MainInside == main \in {"check", "print", "join", "gone"}
SigInside  == sig \in {"stop", "post"}
Holders    == Cardinality(Inside) + (IF MainInside THEN 1 ELSE 0) + (IF SigInside THEN 1 ELSE 0)

Wait == sem > 0 /\ sem' = sem - 1
Post == sem' = sem + 1

\* fault: the semaphore starts with two permits
SemInitTwo == sem' = 2 /\ trampled' = (trampled \/ Holders > 0)

\* sem_init(sem, 1, 1), whatever state the semaphore is in.
SemInit == sem' = 1 /\ trampled' = (trampled \/ Holders > 0)

-----------------------------------------------------------------------------
(* The server's main thread.                                               *)
GoMain(l) == main' = l

Create ==
    /\ main = "create" /\ shm' = "open" /\ GoMain("init")
    /\ UNCHANGED <<sem, size, board, filled, running, sig, clientVars, dealt, trampled>>

InitSem ==
    /\ main \in {"init", "reinit"}
    /\ SemInit
    /\ IF main = "init" THEN GoMain("size") /\ UNCHANGED sig
                        ELSE GoMain("top") /\ sig' = "sigwait"   \* pthread_create
    /\ UNCHANGED <<shm, size, board, filled, running, clientVars, dealt>>

StoreSize ==
    /\ main = "size" /\ size' = N /\ GoMain("fill")
    /\ UNCHANGED <<shm, sem, board, filled, running, sig, clientVars, dealt, trampled>>

\* fault: one field too many
FillOverrun(p) ==
    /\ main = "fill"
    /\ board' = [board EXCEPT ![filled] = p]
    /\ filled' = filled + 1 /\ dealt' = dealt + p
    /\ GoMain(IF filled = N * N THEN "reinit" ELSE "fill")
    /\ UNCHANGED <<shm, sem, size, running, sig, clientVars, trampled>>

Fill(p) ==
    /\ main = "fill"
    /\ board' = [board EXCEPT ![filled] = p]
    /\ filled' = filled + 1 /\ dealt' = dealt + p
    /\ GoMain(IF filled' = N * N THEN "reinit" ELSE "fill")
    /\ UNCHANGED <<shm, sem, size, running, sig, clientVars, trampled>>

MainWait ==
    /\ main \in {"top", "show"}
    /\ Wait
    /\ GoMain(IF main = "top" THEN "check" ELSE "print")
    /\ UNCHANGED <<shm, size, board, filled, running, sig, clientVars, dealt, trampled>>

\* fault: the first sem_post of the loop is missing
CheckKeeps ==
    /\ main = "check"
    /\ GoMain(IF running THEN "show" ELSE "join")
    /\ UNCHANGED <<shm, sem, size, board, filled, running, sig, clientVars, dealt, trampled>>

\* if(!running) break, with the semaphore still held; else sem_post.
Check ==
    /\ main = "check"
    /\ IF running THEN Post /\ GoMain("show") ELSE GoMain("join") /\ UNCHANGED sem
    /\ UNCHANGED <<shm, size, board, filled, running, sig, clientVars, dealt, trampled>>

PrintBoard ==
    /\ main = "print" /\ Post /\ GoMain("top")
    /\ UNCHANGED <<shm, size, board, filled, running, sig, clientVars, dealt, trampled>>

\* pthread_join, then sem_destroy (which leaves the value alone) and unlink.
Shutdown ==
    /\ main = "join" /\ sig = "done"
    /\ GoMain("gone") /\ shm' = "unlinked"
    /\ UNCHANGED <<sem, size, board, filled, running, sig, clientVars, dealt, trampled>>

(* The server's signal thread.                                             *)
Interrupt ==
    /\ sig = "sigwait" /\ sig' = "want"
    /\ UNCHANGED <<shm, sem, size, board, filled, running, main, clientVars, dealt, trampled>>

\* fault: the signal thread does not take the semaphore
SigWaitFree ==
    /\ sig = "want" /\ sig' = "stop"
    /\ UNCHANGED <<shm, sem, size, board, filled, running, main, clientVars, dealt, trampled>>

SigWait ==
    /\ sig = "want" /\ Wait /\ sig' = "stop"
    /\ UNCHANGED <<shm, size, board, filled, running, main, clientVars, dealt, trampled>>

SigStop ==
    /\ sig = "stop" /\ running' = FALSE /\ sig' = "post"
    /\ UNCHANGED <<shm, sem, size, board, filled, main, clientVars, dealt, trampled>>

SigPost ==
    /\ sig = "post" /\ Post /\ sig' = "done"
    /\ UNCHANGED <<shm, size, board, filled, running, main, clientVars, dealt, trampled>>

-----------------------------------------------------------------------------
(* A client.                                                               *)
Go(c, l) == pc' = [pc EXCEPT ![c] = l]

\* shm_open finds the board, or fails and ERR ends the client.
Open(c) ==
    /\ pc[c] = "out"
    /\ Go(c, IF shm = "open" THEN "init" ELSE "failed")
    /\ UNCHANGED <<serverVars, sem, size, board, seen, at, score, trampled>>

JoinInit(c) ==
    /\ pc[c] = "init" /\ SemInit /\ Go(c, "size")
    /\ UNCHANGED <<serverVars, size, board, seen, at, score>>

ReadSize(c) ==
    /\ pc[c] = "size" /\ Go(c, "wait")
    /\ seen' = [seen EXCEPT ![c] = size]
    /\ UNCHANGED <<serverVars, sem, size, board, at, score, trampled>>

\* sem_wait, then D: one draw in nine is "Oops..." and exit.
Enter(c) ==
    /\ pc[c] = "wait" /\ Wait
    /\ Go(c, "search") \/ Go(c, "oops")
    /\ UNCHANGED <<serverVars, size, board, seen, at, score, trampled>>

\* fault: the points found are not added
SearchUnscored(c, f) ==
    /\ pc[c] = "search"
    /\ at' = [at EXCEPT ![c] = f]
    /\ Go(c, IF board[f] = 0 THEN "last" ELSE "clear")
    /\ UNCHANGED <<serverVars, sem, size, board, seen, score, trampled>>

\* P = board_priv[N * y + x]
Search(c, f) ==
    /\ pc[c] = "search"
    /\ at' = [at EXCEPT ![c] = f]
    /\ score' = [score EXCEPT ![c] = @ + board[f]]
    /\ Go(c, IF board[f] = 0 THEN "last" ELSE "clear")
    /\ UNCHANGED <<serverVars, sem, size, board, seen, trampled>>

\* fault: the field searched is not set to 0
ClearForgotten(c) ==
    /\ pc[c] = "clear" /\ Go(c, "post")
    /\ UNCHANGED <<serverVars, sem, size, board, seen, at, score, trampled>>

Clear(c) ==
    /\ pc[c] = "clear" /\ Go(c, "post")
    /\ board' = [board EXCEPT ![at[c]] = 0]
    /\ UNCHANGED <<serverVars, sem, size, seen, at, score, trampled>>

Leave(c) ==
    /\ pc[c] \in {"post", "last"} /\ Post
    /\ Go(c, IF pc[c] = "post" THEN "wait" ELSE "over")
    /\ UNCHANGED <<serverVars, size, board, seen, at, score, trampled>>

-----------------------------------------------------------------------------
Setup == Create \/ InitSem \/ StoreSize \/ \E p \in Points : Fill(p)
Loop  == MainWait \/ Check \/ PrintBoard \/ Shutdown
Handler == SigWait \/ SigStop \/ SigPost
Play(c) == ReadSize(c) \/ Enter(c) \/ (\E f \in Reach(seen[c]) : Search(c, f)) \/ Clear(c) \/ Leave(c)

Next == Setup \/ Loop \/ Interrupt \/ Handler \/ \E c \in Clients : Open(c) \/ JoinInit(c) \/ Play(c)

Spec == Init /\ [][Next]_vars

-----------------------------------------------------------------------------
\* The types of the variables.
TypeOK ==
    /\ shm \in {"none", "open", "unlinked"}
    /\ sem \in Nat /\ size \in {0, N} /\ dealt \in Nat
    /\ board \in [Fields -> Points \cup {0}] /\ filled \in 0..N*N
    /\ running \in BOOLEAN /\ trampled \in BOOLEAN
    /\ main \in {"create", "init", "size", "fill", "reinit", "top", "check", "show",
                 "print", "join", "gone"}
    /\ sig \in {"none", "sigwait", "want", "stop", "post", "done"}
    /\ pc \in [Clients -> {"out", "failed", "init", "size", "wait", "search", "clear",
                           "post", "last", "oops", "over"}]
    /\ seen \in [Clients -> {0, N}] /\ at \in [Clients -> Fields]
    /\ score \in [Clients -> Nat]

\* As long as no sem_init hit a semaphore in use it is free or exactly one thread or
\* process is (or died) inside; and joins can only add permits, so whatever is
\* re-initialised only a holder that never posts can block the rest.
PermitsKept ==
    /\ ~trampled => \/ main \in {"create", "init"} /\ sem = 0 /\ Holders = 0
                    \/ sem + Holders = 1
    /\ main \notin {"create", "init"} => sem + Holders >= 1

OnBoard == SumFunction(board)
Scored  == SumFunction(score)
InHand  == SumFunction([c \in Clients |-> IF pc[c] = "clear" THEN board[at[c]] ELSE 0])

\* A semaphore that was trampled lets points be counted twice, never lost; without
\* it every point dealt is on the board or in one score.
PointsKept ==
    /\ OnBoard + Scored >= dealt
    /\ ~trampled => OnBoard + Scored - InHand = dealt

\* Some process has left with the semaphore in hand: a client that drew D = 1, or
\* the server, whose orderly stop breaks out of its loop before sem_post.
Stuck == main = "gone" \/ \E c \in Clients : pc[c] = "oops"

\* The server has a sem_init of its own ahead, and touches nothing under the semaphore.
SettingUp == main \in {"create", "init", "size", "fill", "reinit"}

\* One exit with the semaphore held stops everybody else: no client scores or clears,
\* the server neither prints, nor stops on SIGINT, nor leaves, until the next sem_init,
\* which only a client that joins brings once the server's are over.
GameFrozen ==
    [][Stuck /\ ~trampled /\ ~SettingUp =>
            /\ UNCHANGED <<shm, board, score, running, main>>
            /\ \/ UNCHANGED sem
               \/ trampled' /\ \E c \in Clients : pc[c] = "init" /\ pc'[c] = "size"]_vars
=============================================================================
