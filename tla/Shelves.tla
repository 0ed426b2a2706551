------------------------------- MODULE Shelves -------------------------------
(***************************************************************************)
(* What the night shift of L3/PolishLab/sop-shop.c promises about the      *)
(* shelves, with no process, mutex or half-done swap in sight: products    *)
(* move only by exchanging a pair that is in the wrong order, and a worker *)
(* that dies with an exchange in its hands leaves one product twice.       *)
(***************************************************************************)
EXTENDS Integers

CONSTANT N                        \* number of shelves and of products

Places   == 0..N-1
Products == 1..N
Pairs    == {p \in Places \X Places : p[1] < p[2]}

VARIABLES shelf,                  \* the product on each shelf
          tears                   \* number of exchanges torn by a death

vars == <<shelf, tears>>

Arrangements == {a \in [Places -> Products] : \A i, j \in Places : a[i] = a[j] => i = j}

Init == shelf \in Arrangements /\ tears = 0

\* Exchange the products of a pair that is in the wrong order.
Tidy(i, j) ==
    /\ shelf[i] > shelf[j]
    /\ shelf' = [shelf EXCEPT ![i] = shelf[j], ![j] = shelf[i]]
    /\ UNCHANGED tears

\* An exchange that reached only the first of its two shelves.
Tear(i, j) ==
    /\ shelf[i] < shelf[j]
    /\ shelf' = [shelf EXCEPT ![j] = shelf[i]]
    /\ tears' = tears + 1

Next == \E p \in Pairs : Tidy(p[1], p[2]) \/ Tear(p[1], p[2])

Spec == Init /\ [][Next]_vars
=============================================================================
