---------------------------- MODULE RailwayProofs ----------------------------
(***************************************************************************)
(* What holds of the railway network for any number of stations and any    *)
(* files, loaded one after another into the same memory.                   *)
(***************************************************************************)
EXTENDS Railway, FiniteSetTheorems, WellFoundedInduction, TLAPS

-----------------------------------------------------------------------------
(* The layout of the struct: rows of Row cells, then the counts.           *)

MAX == MAX_STATION_COUNT

LEMMA Sizes ==
    /\ MAX \in Nat /\ MAX >= 3 /\ MAX <= 254 /\ Row \in Nat /\ Row = MAX - 1
    /\ Stations = 0..Row /\ MAX * Row \in Nat
<1>1. MAX \in Nat /\ MAX >= 3 /\ MAX <= 254 /\ Row = MAX - 1
  BY SizeAssumption DEF MAX, Row
<1>2. Row \in Nat
  BY <1>1
<1>3. MAX * Row \in Nat
  BY <1>1, <1>2
<1> QED
  BY <1>1, <1>2, <1>3 DEF Stations, Row, MAX

\* An entry of a row, or the one behind it, lies before the entries of later rows.
LEMMA RowsInOrder ==
    ASSUME NEW m \in Nat, NEW r \in Nat, NEW a \in Nat, NEW b \in Nat, NEW k \in 0..r,
           a < b, b <= m
    PROVE  a * r + k <= b * r /\ a * r + k \in Nat /\ b * r <= m * r /\ b * r \in Nat /\ m * r \in Nat
<1>1. a * r \in Nat /\ b * r \in Nat /\ m * r \in Nat
  OBVIOUS
<1>2. PICK d \in Nat : b = a + 1 + d
  <2>1. b - a - 1 \in Nat /\ b = a + 1 + (b - a - 1)
    OBVIOUS
  <2> QED
    BY <2>1
<1>3. b * r = a * r + r + d * r /\ d * r \in Nat
  BY <1>2
<1>4. PICK e \in Nat : m = b + e
  <2>1. m - b \in Nat /\ m = b + (m - b)
    OBVIOUS
  <2> QED
    BY <2>1
<1>5. m * r = b * r + e * r /\ e * r \in Nat
  BY <1>4
<1> QED
  BY <1>1, <1>3, <1>5

LEMMA CellPlace ==
    ASSUME NEW a \in Stations, NEW k \in 0..Row
    PROVE  /\ Cell(a, k) \in Nat /\ Cell(a, k) <= MAX * Row
           /\ Cell(a, k) = MAX * Row => a = MAX - 1 /\ k = Row
           /\ k < Row => Cell(a, k) < MAX * Row
<1>1. a \in Nat /\ a + 1 \in Nat /\ a < a + 1 /\ a + 1 <= MAX /\ k \in 0..Row /\ MAX \in Nat /\ Row \in Nat
  BY Sizes
<1>2. a * Row + k <= (a + 1) * Row /\ a * Row + k \in Nat /\ (a + 1) * Row <= MAX * Row
  BY ONLY <1>1, RowsInOrder
<1>3. a * Row \in Nat /\ (a + 1) * Row = a * Row + Row
  BY <1>1
<1>4. a # MAX - 1 => (a + 1) * Row + Row <= MAX * Row
  <2> SUFFICES ASSUME a # MAX - 1 PROVE (a + 1) * Row + Row <= MAX * Row
    OBVIOUS
  <2>1. a + 1 < MAX /\ Row \in 0..Row
    BY <1>1, Sizes
  <2> QED
    BY ONLY <1>1, <2>1, RowsInOrder
<1>5. Row > 0 /\ Row \in Nat /\ MAX * Row \in Nat
  BY Sizes
<1> DEFINE c == a * Row
           m == MAX * Row
<1>6. /\ c + k <= c + Row /\ c + k \in Nat /\ c + Row <= m /\ (a # MAX - 1 => c + Row + Row <= m)
      /\ c \in Nat /\ m \in Nat
  BY <1>2, <1>3, <1>4, <1>5
<1> HIDE DEF c, m
<1>7. c + k \in Nat /\ c + k <= m /\ (c + k = m => a = MAX - 1 /\ k = Row) /\ (k < Row => c + k < m)
  BY <1>1, <1>5, <1>6
<1> QED
  BY <1>7 DEF c, m, Cell

LEMMA CellsApart ==
    ASSUME NEW a \in Stations, NEW b \in Stations, NEW j \in 0..Row - 1, NEW k \in 0..Row - 1,
           Cell(a, j) = Cell(b, k)
    PROVE  a = b /\ j = k
<1>1. a \in Nat /\ b \in Nat /\ MAX \in Nat /\ Row \in Nat /\ a <= MAX /\ b <= MAX /\ j + 1 \in 0..Row /\ k + 1 \in 0..Row
  BY Sizes
<1>2. ASSUME NEW x \in Nat, NEW y \in Nat, NEW i \in Nat, i + 1 \in 0..Row, x < y, y <= MAX
      PROVE  x * Row + i < y * Row /\ x * Row \in Nat /\ y * Row \in Nat
  <2>1. x * Row + (i + 1) <= y * Row /\ y * Row \in Nat
    BY ONLY <1>1, <1>2, RowsInOrder
  <2>2. x * Row \in Nat
    BY <1>1
  <2> QED
    BY <2>1, <2>2
<1>3. a * Row \in Nat /\ b * Row \in Nat /\ a * Row + j = b * Row + k
  BY <1>1 DEF Cell
<1>4. ~(a < b)
  <2> SUFFICES ASSUME a < b PROVE FALSE
    OBVIOUS
  <2>1. a * Row + j < b * Row
    BY <1>1, <1>2
  <2> QED
    BY <1>1, <1>3, <2>1
<1>5. ~(b < a)
  <2> SUFFICES ASSUME b < a PROVE FALSE
    OBVIOUS
  <2>1. b * Row + k < a * Row
    BY <1>1, <1>2
  <2> QED
    BY <1>1, <1>3, <2>1
<1>6. a = b
  BY <1>1, <1>4, <1>5
<1> QED
  BY <1>1, <1>3, <1>6

LEMMA CountPlace ==
    ASSUME NEW a \in Stations
    PROVE  /\ CountCell(a) = MAX * Row + a /\ CountCell(a) \in Nat /\ CountCell(a) >= MAX * Row
           /\ CountCell(a) \in RowsAndCounts /\ CountCell(0) = MAX * Row
           /\ RowsAndCounts = 0..MAX * Row + (MAX - 1)
<1>1. CountCell(a) = MAX * Row + a /\ CountCell(0) = MAX * Row /\ CountCell(MAX - 1) = MAX * Row + (MAX - 1)
  BY Sizes DEF CountCell, MAX
<1> QED
  BY <1>1, Sizes DEF RowsAndCounts, MAX

-----------------------------------------------------------------------------
(* railway_network_add_connection: what the stores do to the rows.         *)

Memory == [RowsAndCounts -> 0..255]

\* The four stores of a line that take the memory from c to d.
StoredBy(c, d, a, b, one, two, e) ==
    /\ one = [c EXCEPT ![Cell(a, c[CountCell(a)])] = b]
    /\ two = [one EXCEPT ![Cell(b, one[CountCell(b)])] = a]
    /\ e = [two EXCEPT ![CountCell(a)] = (@ + 1) % 256]
    /\ d = [e EXCEPT ![CountCell(b)] = (@ + 1) % 256]

\* From c to d only the counts of a and b change, and their entries m and n.
KeptBut(c, d, a, m, b, n) ==
    /\ \A x \in Stations : x # a /\ x # b => d[CountCell(x)] = c[CountCell(x)]
    /\ \A x \in Stations, k \in 0..Row - 1 :
          (x # a \/ k # m) /\ (x # b \/ k # n) => d[Cell(x, k)] = c[Cell(x, k)]

\* Of two stations whose counts end up within a row, both had room for one entry.  A count
\* the first store has overwritten shows in the other one.
LEMMA StoreApart ==
    ASSUME NEW c \in Memory, NEW a \in Stations, NEW b \in Stations, a # b,
           NEW m, NEW n, m = c[CountCell(a)], n = c[CountCell(b)], m <= Row, n <= Row,
           NEW one, NEW two, NEW e, NEW d, StoredBy(c, d, a, b, one, two, e),
           d[CountCell(a)] <= Row, d[CountCell(b)] <= Row
    PROVE  /\ m \in 0..Row - 1 /\ n \in 0..Row - 1
           /\ d[CountCell(a)] = m + 1 /\ d[CountCell(b)] = n + 1
           /\ d[Cell(a, m)] = b /\ d[Cell(b, n)] = a /\ KeptBut(c, d, a, m, b, n)
<1> DEFINE A == CountCell(a)
           B == CountCell(b)
           P == Cell(a, m)
           q == one[B]
           Q == Cell(b, q)
           T == MAX * Row
           D == RowsAndCounts
<1>0. /\ one = [c EXCEPT ![Cell(a, m)] = b]
      /\ two = [one EXCEPT ![Cell(b, one[CountCell(b)])] = a]
      /\ e = [two EXCEPT ![CountCell(a)] = (@ + 1) % 256]
      /\ d = [e EXCEPT ![CountCell(b)] = (@ + 1) % 256]
  BY DEF StoredBy
<1>1. /\ T \in Nat /\ A \in D /\ B \in D /\ A = T + a /\ B = T + b /\ A # B
      /\ a \in Nat /\ b \in Nat /\ Row \in Nat /\ Row = MAX - 1 /\ MAX \in Nat /\ MAX >= 3 /\ MAX <= 254
  <2>1. a \in Nat /\ b \in Nat
    BY Sizes
  <2> QED
    BY <2>1, Sizes, CountPlace
<1>2. c \in [D -> 0..255] /\ m \in 0..Row /\ n \in 0..Row
  <2>1. c \in [D -> 0..255]
    BY DEF Memory
  <2> HIDE DEF D
  <2>2. c[A] \in 0..255 /\ c[B] \in 0..255
    BY ONLY <1>1, <2>1
  <2>3. m \in 0..255 /\ n \in 0..255 /\ m <= Row /\ n <= Row
    BY <2>2
  <2> QED
    BY ONLY <1>1, <2>1, <2>3
<1>3. \A x \in 0..T : x \in D
  <2>1. RowsAndCounts = 0..T + (MAX - 1)
    BY CountPlace
  <2> QED
    BY <1>1, <2>1
<1>4. P \in 0..T /\ (P = T => a = MAX - 1 /\ m = Row) /\ (m < Row => P < T)
  <2>1. P \in Nat /\ P <= T /\ (P = T => a = MAX - 1 /\ m = Row) /\ (m < Row => P < T)
    BY ONLY <1>2, a \in Stations, CellPlace
  <2> QED
    BY <1>1, <2>1
<1> HIDE DEF D, T, A, B, P
<1>5. P \in D /\ one \in [D -> Int] /\ one[P] = b /\ \A x \in D : x # P => one[x] = c[x]
  <2>1. P \in D /\ one = [c EXCEPT ![P] = b]
    BY <1>0, <1>3, <1>4 DEF P
  <2> QED
    BY ONLY <1>1, <1>2, <2>1
<1>6. P # A
  BY <1>1, <1>4
<1>7. P = B => b = 0 /\ a = MAX - 1 /\ m = Row /\ q = 0
  BY <1>1, <1>4, <1>5
<1>8. P # B => q = n
  BY <1>1, <1>5 DEF B
<1>9. q \in 0..Row
  BY <1>1, <1>2, <1>7, <1>8
<1> HIDE DEF q
<1>10. Q \in 0..T /\ (Q = T => b = MAX - 1 /\ q = Row) /\ (q < Row => Q < T)
  <2>1. Q \in Nat /\ Q <= T /\ (Q = T => b = MAX - 1 /\ q = Row) /\ (q < Row => Q < T)
    BY ONLY <1>9, b \in Stations, CellPlace DEF T
  <2> QED
    BY <1>1, <2>1
<1>11. two = [one EXCEPT ![Q] = a]
  BY <1>0 DEF Q, q, B
<1> HIDE DEF Q
<1>12. Q \in D /\ two \in [D -> Int] /\ two[Q] = a /\ \A x \in D : x # Q => two[x] = one[x]
  <2>1. Q \in D /\ a \in Int /\ one \in [D -> Int]
    BY <1>1, <1>3, <1>5, <1>10
  <2> QED
    BY ONLY <1>11, <2>1
<1>13. Q # B
  BY <1>1, <1>10
<1>14. d = [two EXCEPT ![A] = (two[A] + 1) % 256, ![B] = (two[B] + 1) % 256]
  <2>1. e = [two EXCEPT ![A] = (two[A] + 1) % 256] /\ d = [e EXCEPT ![B] = (e[B] + 1) % 256]
    BY <1>0 DEF A, B
  <2>2. e \in [D -> Int] /\ e[B] = two[B]
    BY <1>1, <1>12, <2>1
  <2> QED
    BY ONLY <1>1, <1>12, <2>1, <2>2
<1>15. /\ d[A] = (two[A] + 1) % 256 /\ d[B] = (two[B] + 1) % 256
       /\ \A x \in D : x # A /\ x # B => d[x] = two[x]
  BY <1>1, <1>12, <1>14
<1>16. d[A] <= Row /\ d[B] <= Row /\ c[A] = m /\ c[B] = n
  BY DEF A, B
<1>17. two[B] = q
  BY <1>1, <1>12, <1>13 DEF q
<1>18. \A i \in 0..Row : (i + 1) % 256 = i + 1
  BY <1>1
<1>19. P # B
  <2> SUFFICES ASSUME P = B PROVE FALSE
    OBVIOUS
  <2>1. Q < T /\ Q # A
    BY <1>1, <1>7, <1>10
  <2>2. two[A] = m
    BY <1>1, <1>5, <1>6, <1>12, <1>16, <2>1
  <2>3. d[A] = Row + 1
    BY <1>1, <1>2, <1>7, <1>15, <1>18, <2>2
  <2> QED
    BY <1>1, <1>16, <2>3
<1>20. q = n /\ d[B] = n + 1 /\ n < Row
  <2>1. q = n /\ d[B] = (n + 1) % 256
    BY <1>8, <1>15, <1>17, <1>19
  <2>2. (n + 1) % 256 = n + 1
    BY <1>2, <1>18
  <2> QED
    BY <1>1, <1>2, <1>16, <2>1, <2>2
<1>21. Q < T /\ Q # A
  BY <1>1, <1>10, <1>20
<1>22. two[A] = m
  BY <1>1, <1>5, <1>6, <1>12, <1>16, <1>21
<1>23. d[A] = m + 1 /\ m < Row
  <2>1. d[A] = (m + 1) % 256
    BY <1>15, <1>22
  <2>2. (m + 1) % 256 = m + 1
    BY <1>2, <1>18
  <2> QED
    BY <1>1, <1>2, <1>16, <2>1, <2>2
<1>24. P < T
  BY <1>4, <1>23
<1>25. m \in 0..Row - 1 /\ n \in 0..Row - 1
  BY <1>1, <1>2, <1>20, <1>23
<1>26. P # Q
  <2>1. Cell(a, m) # Cell(b, n)
    BY <1>25, CellsApart
  <2> QED
    BY <1>20, <2>1 DEF P, Q
<1>27. d[P] = b /\ d[Q] = a
  BY <1>1, <1>5, <1>12, <1>15, <1>21, <1>24, <1>26
<1>28. ASSUME NEW x \in Stations, x # a, x # b PROVE d[CountCell(x)] = c[CountCell(x)]
  <2>1. CountCell(x) \in D /\ CountCell(x) = T + x /\ x \in Nat
    <3>1. CountCell(x) \in RowsAndCounts /\ CountCell(x) = MAX * Row + x
      BY CountPlace
    <3>2. x \in Nat
      BY Sizes
    <3> QED
      BY ONLY <3>1, <3>2 DEF T, D
  <2>2. CountCell(x) # A /\ CountCell(x) # B /\ CountCell(x) # P /\ CountCell(x) # Q
    BY <1>1, <1>21, <1>24, <1>28, <2>1, <1>4, <1>10
  <2> QED
    BY <1>5, <1>12, <1>15, <2>1, <2>2
<1>29. ASSUME NEW x \in Stations, NEW k \in 0..Row - 1, x # a \/ k # m, x # b \/ k # n
       PROVE  d[Cell(x, k)] = c[Cell(x, k)]
  <2>1. Cell(x, k) \in Nat /\ Cell(x, k) < T
    <3>1. k \in 0..Row /\ k < Row
      BY <1>1
    <3> QED
      BY <3>1, CellPlace DEF T
  <2>2. Cell(x, k) \in D /\ Cell(x, k) # A /\ Cell(x, k) # B
    BY <1>1, <1>3, <2>1
  <2>3. Cell(x, k) # P /\ Cell(x, k) # Q
    BY <1>20, <1>25, <1>29, CellsApart DEF P, Q
  <2> QED
    BY <1>5, <1>12, <1>15, <2>2, <2>3
<1> QED
  BY <1>20, <1>23, <1>25, <1>27, <1>28, <1>29 DEF A, B, P, Q, KeptBut

\* A station joined to itself gets one entry and a count two higher.
LEMMA StoreTwice ==
    ASSUME NEW c \in Memory, NEW a \in Stations,
           NEW m, m = c[CountCell(a)], m <= Row,
           NEW one, NEW two, NEW e, NEW d, StoredBy(c, d, a, a, one, two, e),
           d[CountCell(a)] <= Row
    PROVE  /\ m \in 0..Row - 2 /\ d[CountCell(a)] = m + 2 /\ d[Cell(a, m)] = a
           /\ KeptBut(c, d, a, m, a, m)
<1> DEFINE A == CountCell(a)
           P == Cell(a, m)
           T == MAX * Row
           D == RowsAndCounts
<1>0. /\ one = [c EXCEPT ![Cell(a, m)] = a]
      /\ two = [one EXCEPT ![Cell(a, one[CountCell(a)])] = a]
      /\ e = [two EXCEPT ![CountCell(a)] = (@ + 1) % 256]
      /\ d = [e EXCEPT ![CountCell(a)] = (@ + 1) % 256]
  BY DEF StoredBy
<1>1. /\ T \in Nat /\ A \in D /\ A = T + a
      /\ a \in Nat /\ Row \in Nat /\ Row = MAX - 1 /\ MAX \in Nat /\ MAX >= 3 /\ MAX <= 254
  <2>1. a \in Nat
    BY Sizes
  <2> QED
    BY <2>1, Sizes, CountPlace
<1>2. c \in [D -> 0..255] /\ m \in 0..Row
  <2>1. c \in [D -> 0..255]
    BY DEF Memory
  <2> HIDE DEF D
  <2>2. c[A] \in 0..255
    BY ONLY <1>1, <2>1
  <2>3. m \in 0..255 /\ m <= Row
    BY <2>2
  <2> QED
    BY ONLY <1>1, <2>1, <2>3
<1>3. \A x \in 0..T : x \in D
  <2>1. RowsAndCounts = 0..T + (MAX - 1)
    BY CountPlace
  <2> QED
    BY <1>1, <2>1
<1>4. P \in 0..T /\ (P = T => a = MAX - 1 /\ m = Row) /\ (m < Row => P < T)
  <2>1. P \in Nat /\ P <= T /\ (P = T => a = MAX - 1 /\ m = Row) /\ (m < Row => P < T)
    BY ONLY <1>2, a \in Stations, CellPlace
  <2> QED
    BY <1>1, <2>1
<1> HIDE DEF D, T, A, P
<1>5. P \in D /\ one \in [D -> Int] /\ one[P] = a /\ \A x \in D : x # P => one[x] = c[x]
  <2>1. P \in D /\ one = [c EXCEPT ![P] = a]
    BY <1>0, <1>3, <1>4 DEF P
  <2> QED
    BY ONLY <1>1, <1>2, <2>1
<1>6. P # A
  BY <1>1, <1>4
<1>7. c[A] = m /\ one[A] = m /\ d[A] <= Row
  BY <1>1, <1>5, <1>6 DEF A
<1>8. two = one
  <2>1. two = [one EXCEPT ![P] = a]
    BY <1>0, <1>7 DEF A, P
  <2> QED
    BY <1>5, <2>1
<1>9. d = [one EXCEPT ![A] = (((m + 1) % 256) + 1) % 256]
  <2>1. e = [one EXCEPT ![A] = (one[A] + 1) % 256] /\ d = [e EXCEPT ![A] = (e[A] + 1) % 256]
    BY <1>0, <1>8 DEF A
  <2>2. e \in [D -> Int] /\ e[A] = (m + 1) % 256
    BY <1>1, <1>2, <1>5, <1>7, <2>1
  <2> QED
    BY ONLY <1>1, <1>5, <2>1, <2>2
<1>10. d[A] = m + 2 /\ \A x \in D : x # A => d[x] = one[x]
  <2>1. (m + 1) % 256 = m + 1 /\ ((m + 1) + 1) % 256 = m + 2
    BY <1>1, <1>2
  <2> QED
    BY <1>1, <1>5, <1>9, <2>1
<1>11. m \in 0..Row - 2 /\ m \in 0..Row - 1 /\ m < Row
  BY <1>1, <1>2, <1>7, <1>10
<1>12. P < T
  BY <1>4, <1>11
<1>13. d[P] = a
  BY <1>5, <1>6, <1>10
<1>14. ASSUME NEW x \in Stations, x # a PROVE d[CountCell(x)] = c[CountCell(x)]
  <2>1. CountCell(x) \in D /\ CountCell(x) = T + x /\ x \in Nat
    <3>1. CountCell(x) \in RowsAndCounts /\ CountCell(x) = MAX * Row + x
      BY CountPlace
    <3>2. x \in Nat
      BY Sizes
    <3> QED
      BY ONLY <3>1, <3>2 DEF T, D
  <2>2. CountCell(x) # A /\ CountCell(x) # P
    BY <1>1, <1>4, <1>12, <1>14, <2>1
  <2> QED
    BY <1>5, <1>10, <2>1, <2>2
<1>15. ASSUME NEW x \in Stations, NEW k \in 0..Row - 1, x # a \/ k # m
       PROVE  d[Cell(x, k)] = c[Cell(x, k)]
  <2>1. Cell(x, k) \in Nat /\ Cell(x, k) < T
    <3>1. k \in 0..Row /\ k < Row
      BY <1>1
    <3> QED
      BY <3>1, CellPlace DEF T
  <2>2. Cell(x, k) \in D /\ Cell(x, k) # A
    BY <1>1, <1>3, <2>1
  <2>3. Cell(x, k) # P
    BY <1>11, <1>15, CellsApart DEF P
  <2> QED
    BY <1>5, <1>10, <2>2, <2>3
<1> QED
  BY <1>10, <1>11, <1>13, <1>14, <1>15 DEF A, P, KeptBut

-----------------------------------------------------------------------------
(* create_railway keeps the rows.                                          *)

\* A row holds, up to its count, what this load joined to the station, once; what is
\* behind the count is invalid from the first initialisation on.
RowKept(a) ==
    /\ NeighbourCount(a) <= Row
    /\ loader = "idle" => NeighbourCount(a) = 0
    /\ \A k \in 0..Row - 1 :
         k >= NeighbourCount(a) /\ loader # "idle" => Neighbour(a, k) = INVALID_STATION
    /\ \A k \in 0..Row - 1 :
         k < NeighbourCount(a) /\ Neighbour(a, k) # INVALID_STATION => Neighbour(a, k) \in Joined(a)
    /\ \A b \in Joined(a) : \E k \in 0..Row - 1 : k < NeighbourCount(a) /\ Neighbour(a, k) = b
    /\ \A j, k \in 0..Row - 1 :
         /\ j < NeighbourCount(a) /\ k < NeighbourCount(a)
         /\ Neighbour(a, j) = Neighbour(a, k) /\ Neighbour(a, j) # INVALID_STATION
         => j = k

RailwayInv ==
    /\ TypeOK /\ accepted \in Seq(Lines)
    /\ loader = "lines" => left # 0
    /\ loader = "idle" => accepted = <<>>
    /\ ~spilled => \A a \in Stations : RowKept(a)

LEMMA NothingJoined == ASSUME accepted = <<>> PROVE \A a \in Stations : Joined(a) = {}
BY DEF Joined, ToSet

LEMMA RailwayInit == Init => RailwayInv
<1> SUFFICES ASSUME Init PROVE RailwayInv
  OBVIOUS
<1>1. /\ station_count = 0 /\ loader = "idle" /\ left = 0 /\ loads = 0 /\ accepted = <<>> /\ spilled = FALSE
      /\ cells = [i \in RowsAndCounts |-> 0] /\ lengths = [i \in LengthIndices |-> 0]
  BY DEF Init
<1>2. cells \in Memory /\ lengths \in [LengthIndices -> Length]
  <2>1. 0 \in Length
    BY DEF Length
  <2> QED
    BY <1>1, <2>1 DEF Memory
<1>3. ToSet(accepted) \subseteq Lines
  BY <1>1 DEF ToSet
<1>4. TypeOK
  <2>1. station_count \in 0..255 /\ left \in 0..MaxLines /\ loads \in 0..MaxLoads
    BY <1>1, BoundAssumption
  <2>2. spilled \in BOOLEAN /\ loader \in {"idle", "stations", "connections", "lines", "loaded", "failed"}
    BY <1>1
  <2> QED
    BY <1>2, <1>3, <2>1, <2>2 DEF TypeOK, Memory
<1>5. ASSUME NEW a \in Stations PROVE RowKept(a)
  <2>1. NeighbourCount(a) = 0
    BY <1>1, CountPlace DEF NeighbourCount
  <2>2. Joined(a) = {}
    BY <1>1, NothingJoined
  <2> QED
    BY <1>1, <2>1, <2>2, Sizes DEF RowKept
<1> QED
  BY <1>1, <1>4, <1>5 DEF RailwayInv

\* A step that leaves the rows and the lines alone.
LEMMA RowsUntouched ==
    ASSUME RailwayInv, UNCHANGED <<cells, accepted, spilled>>, TypeOK',
           loader # "idle", loader' # "idle", loader' = "lines" => left' # 0
    PROVE  RailwayInv'
<1>1. ASSUME ~spilled, NEW a \in Stations PROVE RowKept(a)'
  <2>1. RowKept(a)
    BY <1>1 DEF RailwayInv
  <2> QED
    BY <2>1 DEF RowKept, Joined, NeighbourCount, Neighbour
<1> QED
  BY <1>1 DEF RailwayInv

LEMMA RailwayNetworkInit == ASSUME RailwayInv, NetworkInit PROVE RailwayInv'
<1>1. /\ loads < MaxLoads /\ loads' = loads + 1 /\ station_count' = 0 /\ accepted' = <<>>
      /\ cells' = [i \in DOMAIN cells |-> IF i < CountCell(0) THEN INVALID_STATION ELSE cells[i]]
      /\ loader' = "stations" /\ UNCHANGED <<lengths, left, spilled>>
  BY DEF NetworkInit
<1>2. cells \in Memory /\ lengths \in [LengthIndices -> Length] /\ loads \in 0..MaxLoads /\ left \in 0..MaxLines /\ spilled \in BOOLEAN
  BY DEF RailwayInv, TypeOK, Memory
<1>3. INVALID_STATION \in 0..255
  BY Sizes DEF INVALID_STATION, MAX
<1>4. cells' \in Memory
  BY <1>1, <1>2, <1>3 DEF Memory
<1>5. loads' \in 0..MaxLoads
  BY <1>1, <1>2, BoundAssumption
<1>6. ToSet(accepted') \subseteq Lines /\ accepted' \in Seq(Lines)
  BY <1>1 DEF ToSet
<1>7. TypeOK'
  <2>1. /\ station_count' \in 0..255 /\ left' \in 0..MaxLines /\ spilled' \in BOOLEAN /\ lengths' \in [LengthIndices -> Length]
        /\ loader' \in {"idle", "stations", "connections", "lines", "loaded", "failed"}
    BY <1>1, <1>2
  <2> QED
    BY <1>4, <1>5, <1>6, <2>1 DEF TypeOK, ToSet, Memory
<1>8. ASSUME ~spilled, NEW a \in Stations PROVE RowKept(a)'
  <2>1. RowKept(a) /\ Joined(a)' = {}
    BY <1>1, <1>8 DEF RailwayInv, Joined, ToSet
  <2>2. NeighbourCount(a)' = NeighbourCount(a)
    <3>1. CountCell(a) \in DOMAIN cells /\ ~(CountCell(a) < CountCell(0))
      BY <1>2, CountPlace, Sizes DEF Memory
    <3> QED
      BY <1>1, <3>1 DEF NeighbourCount
  <2>3. \A k \in 0..Row - 1 : Neighbour(a, k)' = INVALID_STATION
    <3> SUFFICES ASSUME NEW k \in 0..Row - 1 PROVE cells'[Cell(a, k)] = INVALID_STATION
      BY DEF Neighbour
    <3>1. k \in 0..Row /\ k < Row
      BY Sizes
    <3>2. Cell(a, k) \in Nat /\ Cell(a, k) < MAX * Row
      BY <3>1, CellPlace
    <3>3. Cell(a, k) < CountCell(0) /\ Cell(a, k) \in RowsAndCounts
      BY <3>2, CountPlace, Sizes
    <3> QED
      BY <1>1, <1>2, <3>3 DEF Memory
  <2>4. loader' # "idle" /\ NeighbourCount(a) <= Row
    BY <1>1, <2>1 DEF RowKept
  <2> QED
    BY ONLY <2>1, <2>2, <2>3, <2>4 DEF RowKept
<1> QED
  BY <1>1, <1>6, <1>7, <1>8 DEF RailwayInv

\* The lines accepted so far and one more.
LEMMA OneMoreLine ==
    ASSUME accepted \in Seq(Lines), NEW l \in Lines, accepted' = <<l>> \o accepted
    PROVE  /\ accepted' \in Seq(Lines) /\ ToSet(accepted') = ToSet(accepted) \cup {l}
           /\ \A a \in Stations : Joined(a)' = Joined(a) \cup {b \in Stations : {l[1], l[2]} = {a, b}}
<1> DEFINE s == accepted
           t == accepted'
<1>1. PICK n \in Nat : n = Len(s)
  OBVIOUS
<1>2. t \in Seq(Lines) /\ Len(t) = n + 1 /\ t[1] = l /\ \A i \in 1..n : t[i + 1] = s[i]
  BY <1>1
<1>3. DOMAIN s = 1..n /\ DOMAIN t = 1..n + 1
  BY <1>1, <1>2
<1> HIDE DEF s, t
<1>4. ToSet(t) = ToSet(s) \cup {l}
  <2>1. \A i \in 1..n : i + 1 \in 1..n + 1 /\ t[i + 1] = s[i]
    BY <1>2
  <2>2. 1 \in 1..n + 1
    OBVIOUS
  <2>3. \A i \in 1..n + 1 : i = 1 \/ \E j \in 1..n : i = j + 1
    <3> SUFFICES ASSUME NEW i \in 1..n + 1, i # 1 PROVE \E j \in 1..n : i = j + 1
      OBVIOUS
    <3>1. i - 1 \in 1..n /\ i = (i - 1) + 1
      OBVIOUS
    <3> QED
      BY <3>1
  <2>4. ToSet(t) = {t[i] : i \in 1..n + 1} /\ ToSet(s) = {s[i] : i \in 1..n}
    BY <1>3 DEF ToSet
  <2>5. ASSUME NEW i \in 1..n + 1 PROVE t[i] = l \/ \E j \in 1..n : t[i] = s[j]
    <3>1. CASE i = 1
      BY <1>2, <3>1
    <3>2. CASE i # 1
      BY <2>1, <2>3, <3>2
    <3> QED
      BY <3>1, <3>2
  <2>6. l \in {t[i] : i \in 1..n + 1} /\ \A j \in 1..n : s[j] \in {t[i] : i \in 1..n + 1}
    BY <1>2, <2>1, <2>2
  <2> QED
    BY <2>4, <2>5, <2>6
<1>5. ToSet(accepted') = ToSet(accepted) \cup {l}
  BY <1>4 DEF s, t
<1>6. ASSUME NEW a \in Stations
      PROVE  Joined(a)' = Joined(a) \cup {b \in Stations : {l[1], l[2]} = {a, b}}
  <2>1. Joined(a)' = {b \in Stations : \E m \in ToSet(accepted') : {m[1], m[2]} = {a, b}}
    BY DEF Joined, ToSet
  <2> QED
    BY <1>5, <2>1 DEF Joined
<1> QED
  BY <1>2, <1>5, <1>6 DEF t

-----------------------------------------------------------------------------
(* One line of a file.                                                     *)

LEMMA Stored ==
    ASSUME NEW a \in Stations, NEW b \in Stations, NEW length, Store(a, b, length)
    PROVE  \E one, two, e : StoredBy(cells, cells', a, b, one, two, e)
<1> DEFINE one == [cells EXCEPT ![Cell(a, NeighbourCount(a))] = b]
           two == [one EXCEPT ![Cell(b, one[CountCell(b)])] = a]
           e   == [two EXCEPT ![CountCell(a)] = (@ + 1) % 256]
<1>1. cells' = [e EXCEPT ![CountCell(b)] = (@ + 1) % 256]
  BY DEF Store
<1>2. StoredBy(cells, cells', a, b, one, two, e)
  BY <1>1 DEF StoredBy, NeighbourCount
<1> QED
  BY ONLY <1>2

\* The memory and the lengths keep their types.
LEMMA StoreTyped ==
    ASSUME cells \in Memory, lengths \in [LengthIndices -> Length],
           NEW a \in Stations, NEW b \in Stations, NEW length \in Length, Store(a, b, length)
    PROVE  cells' \in Memory /\ lengths' \in [LengthIndices -> Length]
<1>0. PICK one, two, e : StoredBy(cells, cells', a, b, one, two, e)
  BY ONLY Store(a, b, length), a \in Stations, b \in Stations, Stored
<1>1. /\ one = [cells EXCEPT ![Cell(a, NeighbourCount(a))] = b]
      /\ two = [one EXCEPT ![Cell(b, one[CountCell(b)])] = a]
      /\ e = [two EXCEPT ![CountCell(a)] = (@ + 1) % 256]
      /\ cells' = [e EXCEPT ![CountCell(b)] = (@ + 1) % 256]
  BY <1>0 DEF StoredBy, NeighbourCount
<1>2. a \in 0..255 /\ b \in 0..255
  BY Sizes
<1>3. CountCell(a) \in RowsAndCounts /\ CountCell(b) \in RowsAndCounts
  BY CountPlace
<1>4. \A i \in 0..255 : (i + 1) % 256 \in 0..255
  OBVIOUS
<1> DEFINE R == RowsAndCounts
           A == CountCell(a)
           B == CountCell(b)
<1>5. cells \in [R -> 0..255]
  BY DEF Memory
<1> HIDE DEF R, A, B
<1>6. one \in [R -> 0..255]
  BY <1>1, <1>2, <1>5
<1>7. two \in [R -> 0..255]
  BY <1>1, <1>2, <1>6
<1>8. A \in R /\ B \in R
  BY <1>3 DEF R, A, B
<1>9. e = [two EXCEPT ![A] = (two[A] + 1) % 256] /\ (two[A] + 1) % 256 \in 0..255
  BY <1>1, <1>4, <1>7, <1>8 DEF A
<1>10. e \in [R -> 0..255]
  BY ONLY <1>7, <1>9
<1>11. cells' = [e EXCEPT ![B] = (e[B] + 1) % 256] /\ (e[B] + 1) % 256 \in 0..255
  BY <1>1, <1>4, <1>8, <1>10 DEF B
<1>12. cells' \in [R -> 0..255]
  BY ONLY <1>10, <1>11
<1>14. lengths' \in [LengthIndices -> Length]
  BY DEF Store
<1> QED
  BY <1>12, <1>14 DEF R, Memory

\* A new entry at the first free place of a row that holds a set keeps it one.
Holds(row, n, set) ==
    /\ n \in Nat /\ n <= Row
    /\ \A k \in 0..Row - 1 : k >= n => row[k] = INVALID_STATION
    /\ \A k \in 0..Row - 1 : k < n /\ row[k] # INVALID_STATION => row[k] \in set
    /\ \A b \in set : \E k \in 0..Row - 1 : k < n /\ row[k] = b
    /\ \A j, k \in 0..Row - 1 :
          j < n /\ k < n /\ row[j] = row[k] /\ row[j] # INVALID_STATION => j = k

RowOf(a) == [k \in 0..Row - 1 |-> Neighbour(a, k)]

LEMMA OneMoreEntry ==
    ASSUME NEW row, NEW n \in Nat, NEW set, Holds(row, n, set), NEW b, b \notin set, b # INVALID_STATION,
           n \in 0..Row - 1, NEW m \in Nat, n < m, m <= Row,
           NEW new, new[n] = b, \A k \in 0..Row - 1 : k # n => new[k] = row[k]
    PROVE  Holds(new, m, set \cup {b})
<1>1. Row \in Nat
  BY Sizes
<1>2. \A k \in 0..Row - 1 : k >= m => new[k] = INVALID_STATION
  BY <1>1 DEF Holds
<1>3. ASSUME NEW k \in 0..Row - 1, k < m, new[k] # INVALID_STATION PROVE k = n \/ (k < n /\ row[k] = new[k])
  BY <1>1, <1>3 DEF Holds
<1>4. \A k \in 0..Row - 1 : k < m /\ new[k] # INVALID_STATION => new[k] \in set \cup {b}
  BY <1>3 DEF Holds
<1>5. ASSUME NEW x \in set \cup {b} PROVE \E k \in 0..Row - 1 : k < m /\ new[k] = x
  <2>1. CASE x = b
    BY <2>1
  <2>2. CASE x \in set
    <3>1. PICK k \in 0..Row - 1 : k < n /\ row[k] = x
      BY <2>2 DEF Holds
    <3>2. k < m /\ new[k] = x
      BY <1>1, <3>1
    <3> QED
      BY <3>2
  <2> QED
    BY <2>1, <2>2
<1>6. ASSUME NEW j \in 0..Row - 1, NEW k \in 0..Row - 1, j < m, k < m,
             new[j] = new[k], new[j] # INVALID_STATION
      PROVE  j = k
  <2>1. j = n \/ (j < n /\ row[j] = new[j] /\ new[j] # b)
    BY <1>3, <1>6 DEF Holds
  <2>2. k = n \/ (k < n /\ row[k] = new[k] /\ new[k] # b)
    BY <1>3, <1>6 DEF Holds
  <2>3. CASE j = n
    BY <1>6, <2>2, <2>3
  <2>4. CASE j # n
    BY <1>6, <2>1, <2>2, <2>4 DEF Holds
  <2> QED
    BY <2>3, <2>4
<1> QED
  BY <1>2, <1>4, <1>5, <1>6 DEF Holds

LEMMA KeptIsHeld ==
    ASSUME NEW a \in Stations, loader # "idle", NeighbourCount(a) \in Nat
    PROVE  RowKept(a) <=> Holds(RowOf(a), NeighbourCount(a), Joined(a))
<1>1. \A k \in 0..Row - 1 : RowOf(a)[k] = Neighbour(a, k)
  BY DEF RowOf
<1> QED
  BY <1>1 DEF RowKept, Holds

LEMMA KeptIsHeldNext ==
    ASSUME NEW a \in Stations, loader' # "idle", NeighbourCount(a)' \in Nat
    PROVE  RowKept(a)' <=> Holds(RowOf(a)', NeighbourCount(a)', Joined(a)')
<1>1. \A k \in 0..Row - 1 : RowOf(a)'[k] = Neighbour(a, k)'
  BY DEF RowOf
<1> QED
  BY <1>1 DEF RowKept, Holds

LEMMA LineJoins ==
    ASSUME RailwayInv, NEW a \in Stations, NEW b \in Stations, NEW length, <<a, b, length>> \in Lines,
           accepted' = <<<<a, b, length>>>> \o accepted
    PROVE  /\ accepted' \in Seq(Lines) /\ ToSet(accepted') \subseteq Lines
           /\ Joined(a)' = Joined(a) \cup {b} /\ Joined(b)' = Joined(b) \cup {a}
           /\ \A x \in Stations : x # a /\ x # b => Joined(x)' = Joined(x)
<1> DEFINE l == <<a, b, length>>
<1>1. accepted \in Seq(Lines) /\ ToSet(accepted) \subseteq Lines /\ l \in Lines /\ l[1] = a /\ l[2] = b
  BY DEF RailwayInv, TypeOK
<1> HIDE DEF l
<1>2. accepted' = <<l>> \o accepted
  BY DEF l
<1>3. /\ accepted' \in Seq(Lines) /\ ToSet(accepted') = ToSet(accepted) \cup {l}
      /\ \A x \in Stations : Joined(x)' = Joined(x) \cup {y \in Stations : {l[1], l[2]} = {x, y}}
  BY ONLY <1>1, <1>2, OneMoreLine
<1>4. /\ {y \in Stations : {a, b} = {a, y}} = {b} /\ {y \in Stations : {a, b} = {b, y}} = {a}
      /\ \A x \in Stations : x # a /\ x # b => {y \in Stations : {a, b} = {x, y}} = {}
  OBVIOUS
<1>5. Joined(a)' = Joined(a) \cup {b} /\ Joined(b)' = Joined(b) \cup {a}
  <2>1. /\ Joined(a)' = Joined(a) \cup {y \in Stations : {l[1], l[2]} = {a, y}}
        /\ Joined(b)' = Joined(b) \cup {y \in Stations : {l[1], l[2]} = {b, y}}
    BY <1>3
  <2> QED
    BY <1>1, <1>4, <2>1
<1>6. ASSUME NEW x \in Stations, x # a, x # b PROVE Joined(x)' = Joined(x)
  <2>1. Joined(x)' = Joined(x) \cup {y \in Stations : {l[1], l[2]} = {x, y}}
    BY ONLY <1>3, x \in Stations
  <2>2. {y \in Stations : {l[1], l[2]} = {x, y}} = {}
    BY <1>1, <1>4, <1>6
  <2> QED
    BY ONLY <2>1, <2>2
<1> QED
  BY <1>1, <1>3, <1>5, <1>6

\* What a line that fits does to the rows of its two stations.
LEMMA LineRows ==
    ASSUME RailwayInv, loader = "lines", loader' # "idle", ~spilled,
           NEW a \in Stations, NEW b \in Stations, NEW length, Store(a, b, length),
           cells' \in Memory, NeighbourCount(a)' <= Row, NeighbourCount(b)' <= Row,
           ~connection_exists(a, b), ~connection_exists(b, a),
           Joined(a)' = Joined(a) \cup {b}, Joined(b)' = Joined(b) \cup {a},
           \A x \in Stations : x # a /\ x # b => Joined(x)' = Joined(x)
    PROVE  \A x \in Stations : RowKept(x)'
<1>1. cells \in Memory
  BY DEF RailwayInv, TypeOK, Memory
<1>2. \A x \in Stations : NeighbourCount(x) \in 0..255 /\ NeighbourCount(x)' \in 0..255
  <2>1. \A x \in Stations : CountCell(x) \in RowsAndCounts
    BY CountPlace
  <2> QED
    BY <1>1, <2>1 DEF Memory, NeighbourCount
<1>3. \A x \in Stations : RowKept(x) /\ NeighbourCount(x) <= Row
  BY DEF RailwayInv, RowKept
<1>4. \A x \in Stations : Holds(RowOf(x), NeighbourCount(x), Joined(x))
  BY <1>2, <1>3, KeptIsHeld
<1>5. b \notin Joined(a) /\ a \notin Joined(b)
  <2>1. ASSUME NEW x \in Stations, NEW y \in Joined(x) PROVE connection_exists(x, y)
    <3>1. PICK k \in 0..Row - 1 : k < NeighbourCount(x) /\ Neighbour(x, k) = y
      BY <1>3 DEF RowKept
    <3>2. NeighbourCount(x) \in 0..255 /\ Row \in Nat
      BY <1>2, Sizes
    <3>3. k \in 0..NeighbourCount(x) - 1
      BY <3>1, <3>2
    <3> QED
      BY <3>1, <3>3 DEF connection_exists
  <2> QED
    BY <2>1
<1>6. a # INVALID_STATION /\ b # INVALID_STATION
  BY Sizes DEF INVALID_STATION, MAX
<1>7. PICK one, two, e : StoredBy(cells, cells', a, b, one, two, e)
  BY ONLY Store(a, b, length), a \in Stations, b \in Stations, Stored
<1> DEFINE c == cells
           d == cells'
           m == NeighbourCount(a)
           n == NeighbourCount(b)
<1>9. \A x \in Stations, k \in 0..Row - 1 : RowOf(x)[k] = c[Cell(x, k)] /\ RowOf(x)'[k] = d[Cell(x, k)]
  BY DEF RowOf, Neighbour
<1>10. \A x \in Stations : NeighbourCount(x) = c[CountCell(x)] /\ NeighbourCount(x)' = d[CountCell(x)]
  BY DEF NeighbourCount
<1>11. c \in Memory /\ d \in Memory /\ m = c[CountCell(a)] /\ n = c[CountCell(b)] /\ m <= Row /\ n <= Row
  BY <1>1, <1>3, <1>10
<1>12. StoredBy(c, d, a, b, one, two, e)
  BY <1>7
<1>13. d[CountCell(a)] <= Row /\ d[CountCell(b)] <= Row
  BY <1>10
<1>14. Row \in Nat /\ m \in Nat /\ n \in Nat
  <2>1. m \in 0..255 /\ n \in 0..255
    BY <1>2
  <2>2. Row \in Nat
    BY Sizes
  <2> QED
    BY ONLY <2>1, <2>2
<1> HIDE DEF c, d, m, n
<1>15. ASSUME NEW x \in Stations, x # a, x # b,
              d[CountCell(x)] = c[CountCell(x)], \A k \in 0..Row - 1 : d[Cell(x, k)] = c[Cell(x, k)]
       PROVE  Holds(RowOf(x)', NeighbourCount(x)', Joined(x)')
  <2>1. Joined(x)' = Joined(x) /\ NeighbourCount(x)' = NeighbourCount(x)
    BY <1>10, <1>15
  <2>2. \A k \in 0..Row - 1 : RowOf(x)'[k] = RowOf(x)[k]
    BY <1>9, <1>15
  <2> QED
    BY <1>4, <2>1, <2>2 DEF Holds
<1>16. CASE a # b
  <2>1. /\ m \in 0..Row - 1 /\ n \in 0..Row - 1
        /\ d[CountCell(a)] = m + 1 /\ d[CountCell(b)] = n + 1
        /\ d[Cell(a, m)] = b /\ d[Cell(b, n)] = a /\ KeptBut(c, d, a, m, b, n)
    BY ONLY <1>11, <1>12, <1>13, <1>16, a \in Stations, b \in Stations, StoreApart
  <2>0. /\ \A x \in Stations : x # a /\ x # b => d[CountCell(x)] = c[CountCell(x)]
        /\ \A x \in Stations, k \in 0..Row - 1 :
              (x # a \/ k # m) /\ (x # b \/ k # n) => d[Cell(x, k)] = c[Cell(x, k)]
    BY <2>1 DEF KeptBut
  <2>2. Holds(RowOf(a)', NeighbourCount(a)', Joined(a)')
    <3>1. Holds(RowOf(a), m, Joined(a))
      BY <1>4 DEF m
    <3>2. RowOf(a)'[m] = b /\ \A k \in 0..Row - 1 : k # m => RowOf(a)'[k] = RowOf(a)[k]
      BY <1>9, <1>16, <2>0, <2>1
    <3>3. NeighbourCount(a)' = m + 1 /\ m + 1 \in Nat /\ m < m + 1 /\ m + 1 <= Row
      BY <1>10, <1>14, <2>1
    <3>4. Holds(RowOf(a)', m + 1, Joined(a) \cup {b})
      BY ONLY <1>5, <1>6, <1>14, <2>1, <3>1, <3>2, <3>3, OneMoreEntry
    <3> QED
      BY <3>3, <3>4
  <2>3. Holds(RowOf(b)', NeighbourCount(b)', Joined(b)')
    <3>1. Holds(RowOf(b), n, Joined(b))
      BY <1>4 DEF n
    <3>2. RowOf(b)'[n] = a /\ \A k \in 0..Row - 1 : k # n => RowOf(b)'[k] = RowOf(b)[k]
      BY <1>9, <1>16, <2>0, <2>1
    <3>3. NeighbourCount(b)' = n + 1 /\ n + 1 \in Nat /\ n < n + 1 /\ n + 1 <= Row
      BY <1>10, <1>14, <2>1
    <3>4. Holds(RowOf(b)', n + 1, Joined(b) \cup {a})
      BY ONLY <1>5, <1>6, <1>14, <2>1, <3>1, <3>2, <3>3, OneMoreEntry
    <3> QED
      BY <3>3, <3>4
  <2>4. \A x \in Stations : Holds(RowOf(x)', NeighbourCount(x)', Joined(x)')
    BY <1>15, <2>0, <2>2, <2>3
  <2> QED
    BY <1>2, <2>4, KeptIsHeldNext
<1>17. CASE a = b
  <2>1. /\ m \in 0..Row - 2 /\ d[CountCell(a)] = m + 2 /\ d[Cell(a, m)] = a /\ KeptBut(c, d, a, m, a, m)
    <3>1. StoredBy(c, d, a, a, one, two, e)
      BY <1>12, <1>17
    <3> QED
      BY ONLY <1>11, <1>13, <3>1, a \in Stations, StoreTwice
  <2>0. /\ \A x \in Stations : x # a => d[CountCell(x)] = c[CountCell(x)]
        /\ \A x \in Stations, k \in 0..Row - 1 :
              x # a \/ k # m => d[Cell(x, k)] = c[Cell(x, k)]
    BY <2>1 DEF KeptBut
  <2>2. Holds(RowOf(a)', NeighbourCount(a)', Joined(a)')
    <3>1. Holds(RowOf(a), m, Joined(a))
      BY <1>4 DEF m
    <3>2. RowOf(a)'[m] = a /\ \A k \in 0..Row - 1 : k # m => RowOf(a)'[k] = RowOf(a)[k]
      BY <1>9, <1>14, <2>0, <2>1
    <3>3. NeighbourCount(a)' = m + 2 /\ m + 2 \in Nat /\ m < m + 2 /\ m + 2 <= Row /\ m \in 0..Row - 1
      BY <1>10, <1>14, <2>1
    <3>4. Holds(RowOf(a)', m + 2, Joined(a) \cup {a})
      BY ONLY <1>5, <1>6, <1>14, <1>17, <3>1, <3>2, <3>3, OneMoreEntry
    <3> QED
      BY <1>17, <3>3, <3>4
  <2>3. \A x \in Stations : Holds(RowOf(x)', NeighbourCount(x)', Joined(x)')
    BY <1>15, <1>17, <2>0, <2>2
  <2> QED
    BY <1>2, <2>3, KeptIsHeldNext
<1> QED
  BY <1>16, <1>17

LEMMA RailwayReadLine ==
    ASSUME RailwayInv, NEW l \in Lines, ReadLine(l[1], l[2], l[3]) PROVE RailwayInv'
<1>1. l \in Stations \X Stations \X (Length \ {0})
  BY LineAssumption
<1>2. PICK a \in Stations, b \in Stations, length \in Length : l = <<a, b, length>>
  BY <1>1
<1>3. ReadLine(a, b, length) /\ <<a, b, length>> \in Lines
  BY <1>2
<1>4. loader = "lines" /\ station_count' = station_count /\ loads' = loads
  BY <1>3 DEF ReadLine
<1>5. left # 0 /\ TypeOK
  BY <1>4 DEF RailwayInv
<1>6. CASE Refused(a, b) \/ connection_exists(a, b) \/ connection_exists(b, a)
  <2>1. loader' = "failed" /\ UNCHANGED <<cells, lengths, left, accepted, spilled>>
    BY <1>3, <1>6 DEF ReadLine
  <2>2. TypeOK'
    BY <1>4, <1>5, <2>1 DEF TypeOK, ToSet
  <2> QED
    BY <1>4, <2>1, <2>2, RowsUntouched
<1>7. CASE ~(Refused(a, b) \/ connection_exists(a, b) \/ connection_exists(b, a))
  <2>1. /\ Store(a, b, length)
        /\ spilled' = (spilled \/ \E x \in {a, b} : cells'[CountCell(x)] > Row)
        /\ accepted' = <<<<a, b, length>>>> \o accepted
        /\ left' = left - 1
        /\ loader' = IF left' = 0 THEN "loaded" ELSE "lines"
    BY <1>3, <1>7 DEF ReadLine
  <2>2. cells \in Memory /\ lengths \in [LengthIndices -> Length]
    BY <1>5 DEF TypeOK, Memory
  <2>3. cells' \in Memory /\ lengths' \in [LengthIndices -> Length]
    BY <2>1, <2>2, StoreTyped
  <2>4. /\ accepted' \in Seq(Lines) /\ ToSet(accepted') \subseteq Lines
        /\ Joined(a)' = Joined(a) \cup {b} /\ Joined(b)' = Joined(b) \cup {a}
        /\ \A x \in Stations : x # a /\ x # b => Joined(x)' = Joined(x)
    BY <1>3, <2>1, LineJoins
  <2>5. left' \in 0..MaxLines
    <3>1. left \in 0..MaxLines
      BY <1>5 DEF TypeOK
    <3> QED
      BY <1>5, <2>1, <3>1, BoundAssumption
  <2>6. spilled' \in BOOLEAN /\ (~spilled' => ~spilled)
    BY <1>5, <2>1 DEF TypeOK
  <2>7. loader' \in {"loaded", "lines"} /\ (loader' = "lines" => left' # 0) /\ loader' # "idle"
    BY <2>1
  <2>8. TypeOK'
    BY <1>4, <1>5, <2>3, <2>4, <2>5, <2>6, <2>7 DEF TypeOK, Memory, ToSet
  <2>9. ASSUME ~spilled' PROVE \A x \in Stations : RowKept(x)'
    <3>1. ~(cells'[CountCell(a)] > Row) /\ ~(cells'[CountCell(b)] > Row)
      BY <2>1, <2>9
    <3>2. cells'[CountCell(a)] \in 0..255 /\ cells'[CountCell(b)] \in 0..255
      BY <2>3, CountPlace DEF Memory
    <3>3. NeighbourCount(a)' <= Row /\ NeighbourCount(b)' <= Row
      <4>1. Row \in Nat
        BY Sizes
      <4> DEFINE i == cells'[CountCell(a)]
                 j == cells'[CountCell(b)]
      <4>2. i \in 0..255 /\ j \in 0..255 /\ ~(i > Row) /\ ~(j > Row)
        BY <3>1, <3>2
      <4> HIDE DEF i, j
      <4>3. i <= Row /\ j <= Row
        BY ONLY <4>1, <4>2
      <4> QED
        BY <4>3 DEF i, j, NeighbourCount
    <3> QED
      BY ONLY RailwayInv, a \in Stations, b \in Stations, <1>4, <1>7, <2>1, <2>3, <2>4, <2>6, <2>7, <2>9, <3>3, LineRows
  <2> QED
    BY <2>4, <2>7, <2>8, <2>9 DEF RailwayInv
<1> QED
  BY <1>6, <1>7

LEMMA RailwayStep == RailwayInv /\ [Next]_vars => RailwayInv'
<1> SUFFICES ASSUME RailwayInv, [Next]_vars PROVE RailwayInv'
  OBVIOUS
<1>1. CASE NetworkInit
  BY <1>1, RailwayNetworkInit
<1>2. CASE BadLine
  <2>1. /\ loader = "lines" /\ loader' = "failed"
        /\ UNCHANGED <<station_count, cells, lengths, left, loads, accepted, spilled>>
    BY <1>2 DEF BadLine
  <2>2. TypeOK'
    BY <2>1 DEF RailwayInv, TypeOK, ToSet
  <2> QED
    BY <2>1, <2>2, RowsUntouched
<1>3. ASSUME NEW n \in StationCounts, ReadStations(n) PROVE RailwayInv'
  <2>1. /\ loader = "stations" /\ station_count' = n /\ loader' \in {"failed", "connections"}
        /\ UNCHANGED <<cells, lengths, left, loads, accepted, spilled>>
    BY <1>3 DEF ReadStations
  <2>2. n \in 0..255
    BY LineAssumption
  <2>3. TypeOK'
    BY <2>1, <2>2 DEF RailwayInv, TypeOK, ToSet
  <2> QED
    BY <2>1, <2>3, RowsUntouched
<1>4. ASSUME NEW n \in 0..MaxLines, ReadConnections(n) PROVE RailwayInv'
  <2>1. /\ loader = "connections" /\ UNCHANGED <<station_count, cells, lengths, loads, accepted, spilled>>
        /\ \/ loader' = "failed" /\ left' = left
           \/ loader' = "lines" /\ left' = n /\ n # 0
    BY <1>4 DEF ReadConnections
  <2>2. TypeOK'
    BY <2>1 DEF RailwayInv, TypeOK, ToSet
  <2> QED
    BY <2>1, <2>2, RowsUntouched
<1>5. ASSUME NEW l \in Lines, ReadLine(l[1], l[2], l[3]) PROVE RailwayInv'
  BY <1>5, RailwayReadLine
<1>6. CASE UNCHANGED vars
  <2>1. UNCHANGED <<station_count, cells, lengths, loader, left, loads, accepted, spilled>>
    BY <1>6 DEF vars
  <2>2. TypeOK'
    BY <2>1 DEF RailwayInv, TypeOK, ToSet
  <2>3. ASSUME ~spilled, NEW a \in Stations PROVE RowKept(a)'
    <3>1. RowKept(a)
      BY <2>3 DEF RailwayInv
    <3> QED
      <4>1. Joined(a)' = Joined(a)
        BY <2>1 DEF Joined, ToSet
      <4>2. NeighbourCount(a)' = NeighbourCount(a) /\ \A k : Neighbour(a, k)' = Neighbour(a, k)
        BY <2>1 DEF NeighbourCount, Neighbour
      <4> QED
        BY ONLY <2>1, <3>1, <4>1, <4>2 DEF RowKept
  <2> QED
    BY <2>1, <2>2, <2>3 DEF RailwayInv
<1> QED
  BY <1>1, <1>2, <1>3, <1>4, <1>5, <1>6 DEF Next

LEMMA RailwayKept == Spec => []RailwayInv
<1>1. Init => RailwayInv
  BY RailwayInit
<1>2. RailwayInv /\ [Next]_vars => RailwayInv'
  BY RailwayStep
<1> QED
  BY <1>1, <1>2, PTL DEF Spec

-----------------------------------------------------------------------------
(* The theorems.                                                           *)

\* The entries of a row that is kept are as many as its station has neighbours.
LEMMA KeptRowHolds ==
    ASSUME TypeOK, NEW a \in Stations, RowKept(a),
           NEW real, real = {k \in 0..NeighbourCount(a) - 1 : Neighbour(a, k) # INVALID_STATION}
    PROVE  /\ {Neighbour(a, k) : k \in real} = Joined(a)
           /\ Cardinality(real) = Cardinality(Joined(a))
<1>1. NeighbourCount(a) \in 0..255 /\ Row \in Nat /\ NeighbourCount(a) <= Row
  <2>1. cells \in Memory /\ CountCell(a) \in RowsAndCounts
    BY CountPlace DEF TypeOK, Memory
  <2>2. NeighbourCount(a) \in 0..255
    BY <2>1 DEF Memory, NeighbourCount
  <2> QED
    BY <2>2, Sizes DEF RowKept
<1>2. \A k : k \in real <=> k \in 0..Row - 1 /\ k < NeighbourCount(a) /\ Neighbour(a, k) # INVALID_STATION
  BY <1>1
<1>3. \A k \in real : Neighbour(a, k) \in Joined(a)
  BY <1>2 DEF RowKept
<1>4. \A b \in Joined(a) : \E k \in real : Neighbour(a, k) = b
  <2> SUFFICES ASSUME NEW b \in Joined(a) PROVE \E k \in real : Neighbour(a, k) = b
    OBVIOUS
  <2>1. PICK k \in 0..Row - 1 : k < NeighbourCount(a) /\ Neighbour(a, k) = b
    BY DEF RowKept
  <2>2. b # INVALID_STATION
    BY Sizes DEF Joined, INVALID_STATION, MAX
  <2> QED
    BY <1>2, <2>1, <2>2
<1>5. \A j, k \in real : Neighbour(a, j) = Neighbour(a, k) => j = k
  BY <1>2 DEF RowKept
<1>6. IsFiniteSet(real)
  <2>1. IsFiniteSet(0..Row - 1)
    BY <1>1, FS_Interval
  <2>2. real \subseteq 0..Row - 1
    BY <1>2
  <2> QED
    BY <2>1, <2>2, FS_Subset
<1>7. ExistsBijection(real, Joined(a))
  <2> DEFINE f == [k \in real |-> Neighbour(a, k)]
  <2>1. f \in [real -> Joined(a)]
    BY <1>3
  <2>2. f \in Bijection(real, Joined(a))
    BY <1>4, <1>5, <2>1 DEF Bijection, Injection, Surjection, IsInjective
  <2> QED
    BY <2>2 DEF ExistsBijection
<1>8. Cardinality(real) = Cardinality(Joined(a))
  BY <1>6, <1>7, FS_Bijection
<1> QED
  BY <1>3, <1>4, <1>8

\* railway.c, create_railway: the counts, the entries and the lengths stay what their
\* types hold, and no file is read past its number of lines.
THEOREM RailwayTypesHold == Spec => []TypeOK
<1>1. RailwayInv => TypeOK
  BY DEF RailwayInv
<1> QED
  BY <1>1, RailwayKept, PTL

\* railway_network_add_connection after railway_network_init, with what earlier files
\* left in neighbour_count: the entries of a row are the neighbours this file gave the
\* station, each of them once, unless a row has run into the next one.
THEOREM RowsFaithful == Spec => []RowsHoldTheLoad
<1>1. RailwayInv => RowsHoldTheLoad
  BY KeptRowHolds DEF RailwayInv, RowsHoldTheLoad
<1> QED
  BY <1>1, RailwayKept, PTL

-----------------------------------------------------------------------------
(* The search: induction up to a number, and functions defined along it.   *)

\* A set of natural numbers that is not empty has a smallest one.
LEMMA SmallestOf ==
    ASSUME NEW B \in SUBSET Nat, B # {}
    PROVE  \E n \in B : \A m \in B : n <= m
<1>1. PICK n \in B : \A m \in B : ~(<<m, n>> \in OpToRel(<, Nat))
  BY NatLessThanWellFounded, WFMin
<1>2. \A m \in B : ~(m < n)
  BY <1>1 DEF OpToRel
<1> QED
  BY <1>2

\* What holds of 0 and passes from i - 1 to i, up to n.
LEMMA UpTo ==
    ASSUME NEW n \in Nat, NEW Q, 0 \in Q, \A i \in 1..n : i - 1 \in Q => i \in Q
    PROVE  \A i \in 0..n : i \in Q
<1> SUFFICES ASSUME NEW x \in 0..n, x \notin Q PROVE FALSE
  OBVIOUS
<1> DEFINE B == {i \in 0..n : i \notin Q}
<1>1. B \in SUBSET Nat /\ B # {}
  OBVIOUS
<1>2. PICK b \in B : \A m \in B : b <= m
  BY <1>1, SmallestOf
<1>3. b \in 1..n /\ b - 1 \in 0..n
  BY <1>2
<1>4. b - 1 \in Q
  <2>1. ~(b <= b - 1)
    BY <1>3
  <2> QED
    BY <1>2, <1>3, <2>1
<1> QED
  BY <1>2, <1>3, <1>4

LEMMA StaysIn ==
    ASSUME NEW n \in Nat, NEW f, NEW G, f[0] \in G[0], \A k \in 1..n : f[k - 1] \in G[k - 1] => f[k] \in G[k]
    PROVE  \A k \in 0..n : f[k] \in G[k]
<1> DEFINE Q == {k \in 0..n : f[k] \in G[k]}
<1>1. 0 \in Q
  OBVIOUS
<1>2. ASSUME NEW k \in 1..n, k - 1 \in Q PROVE k \in Q
  BY <1>2
<1> HIDE DEF Q
<1>3. \A k \in 0..n : k \in Q
  BY <1>1, <1>2, UpTo
<1> QED
  BY <1>3 DEF Q

\* f goes from base on by step.
Iterated(f, n, base, step) ==
    /\ f = [i \in 0..n |-> f[i]] /\ f[0] = base
    /\ \A i \in 1..n : f[i] = step[i][f[i - 1]]

LEMMA Iterates ==
    ASSUME NEW n \in Nat, NEW base, NEW step
    PROVE  \E f : Iterated(f, n, base, step)
<1> DEFINE Q == {m \in 0..n : \E f : Iterated(f, m, base, step)}
<1>1. 0 \in Q
  <2> DEFINE f == [i \in 0..0 |-> base]
  <2>1. Iterated(f, 0, base, step)
    BY DEF Iterated
  <2>2. 0 \in 0..n
    OBVIOUS
  <2> QED
    BY <2>1, <2>2
<1>2. ASSUME NEW i \in 1..n, i - 1 \in Q PROVE i \in Q
  <2>1. PICK f : Iterated(f, i - 1, base, step)
    BY <1>2
  <2>2. f[0] = base /\ \A j \in 1..i - 1 : f[j] = step[j][f[j - 1]]
    BY <2>1 DEF Iterated
  <2> DEFINE g == [j \in 0..i |-> IF j = i THEN step[i][f[i - 1]] ELSE f[j]]
  <2>3. g[0] = base /\ g = [j \in 0..i |-> g[j]]
    BY <2>2
  <2>4. ASSUME NEW j \in 1..i PROVE g[j] = step[j][g[j - 1]]
    <3>1. j \in 0..i /\ j - 1 \in 0..i /\ j - 1 # i
      OBVIOUS
    <3>2. g[j - 1] = f[j - 1]
      BY <3>1
    <3>3. CASE j = i
      <4>1. g[i] = step[i][f[i - 1]]
        OBVIOUS
      <4> HIDE DEF g
      <4> QED
        BY ONLY <3>2, <3>3, <4>1
    <3>4. CASE j # i
      <4>1. j \in 1..i - 1 /\ g[j] = f[j]
        BY <3>1, <3>4
      <4> HIDE DEF g
      <4> QED
        BY <2>2, <3>2, <4>1
    <3> QED
      BY <3>3, <3>4
  <2> HIDE DEF g
  <2>5. Iterated(g, i, base, step)
    BY <2>3, <2>4 DEF Iterated
  <2> QED
    BY <2>5
<1> HIDE DEF Q
<1>3. \A i \in 0..n : i \in Q
  BY <1>1, <1>2, UpTo
<1>4. n \in Q
  BY <1>3
<1> QED
  BY <1>4 DEF Q

-----------------------------------------------------------------------------
(* The recursive functions behind the search.                              *)

\* Sets G[0], ..., G[n] that the turns of a loop lead through.
RelaxLeads(G, n, s, current) ==
    \A k \in 1..n : \A t \in G[k - 1] : Relax(t, current, s.distance[current], k) \in G[k]

RelaxedBy(f, s, current) ==
    f = [k \in 0..NeighbourCount(current) |->
            IF k = 0 THEN s ELSE Relax(f[k - 1], current, s.distance[current], k)]

LEMMA RelaxAllBy ==
    ASSUME NEW s, NEW current, NEW n \in Nat, n = NeighbourCount(current),
           NEW G, s \in G[0], RelaxLeads(G, n, s, current)
    PROVE  RelaxAll(s, current) \in G[n]
<1> DEFINE S == UNION {G[k] : k \in 0..n}
           step == [k \in 1..n |-> [t \in S |-> Relax(t, current, s.distance[current], k)]]
<1>1. PICK f : Iterated(f, n, s, step)
  BY Iterates
<1>2. f = [i \in 0..n |-> f[i]] /\ f[0] = s /\ \A i \in 1..n : f[i] = step[i][f[i - 1]]
  BY <1>1 DEF Iterated
<1>3. ASSUME NEW k \in 1..n, f[k - 1] \in G[k - 1]
      PROVE  f[k] = Relax(f[k - 1], current, s.distance[current], k)
  <2>1. k - 1 \in 0..n
    OBVIOUS
  <2>2. f[k - 1] \in S
    BY <1>3, <2>1
  <2>3. step[k][f[k - 1]] = Relax(f[k - 1], current, s.distance[current], k)
    BY <2>2
  <2> QED
    BY <1>2, <2>3
<1> HIDE DEF S, step
<1>4. \A k \in 0..n : f[k] \in G[k]
  <2>1. \A k \in 1..n : f[k - 1] \in G[k - 1] => f[k] \in G[k]
    BY <1>3 DEF RelaxLeads
  <2> QED
    BY <1>2, <2>1, StaysIn
<1>5. RelaxedBy(f, s, current)
  <2>1. ASSUME NEW k \in 0..n
        PROVE  f[k] = IF k = 0 THEN s ELSE Relax(f[k - 1], current, s.distance[current], k)
    <3>1. CASE k = 0
      BY <1>2, <3>1
    <3>2. CASE k # 0
      <4>1. k \in 1..n /\ k - 1 \in 0..n
        BY <3>2
      <4> QED
        BY <1>3, <1>4, <3>2, <4>1
    <3> QED
      BY <3>1, <3>2
  <2>2. [k \in 0..n |-> f[k]] = [k \in 0..n |-> IF k = 0 THEN s ELSE Relax(f[k - 1], current, s.distance[current], k)]
    BY <2>1
  <2> QED
    BY <1>2, <2>2 DEF RelaxedBy
<1> DEFINE g == CHOOSE g : RelaxedBy(g, s, current)
<1>6. RelaxedBy(g, s, current)
  BY <1>5
<1>7. RelaxAll(s, current) = g[n]
  BY DEF RelaxAll, RelaxedBy
<1> HIDE DEF g
<1>8. g[0] = s /\ \A k \in 1..n : g[k] = Relax(g[k - 1], current, s.distance[current], k)
  BY <1>6 DEF RelaxedBy
<1>9. \A k \in 0..n : g[k] \in G[k]
  <2>1. \A k \in 1..n : g[k - 1] \in G[k - 1] => g[k] \in G[k]
    BY <1>8 DEF RelaxLeads
  <2> QED
    BY <1>8, <2>1, StaysIn
<1> QED
  BY <1>7, <1>9

SearchLeads(G, n) ==
    \A k \in 1..n : \A t \in G[k - 1] : Visit(t, k) \in G[k]

SearchedBy(f, from, to) ==
    f = [k \in 0..MAX_STATION_COUNT |->
            IF k = 0 THEN Start(from, to) ELSE Visit(f[k - 1], k)]

LEMMA SearchBy ==
    ASSUME NEW from, NEW to, NEW n \in Nat, n = MAX,
           NEW G, Start(from, to) \in G[0], SearchLeads(G, n)
    PROVE  Search(from, to) \in G[n]
<1> DEFINE S == UNION {G[k] : k \in 0..n}
           step == [k \in 1..n |-> [t \in S |-> Visit(t, k)]]
<1>1. PICK f : Iterated(f, n, Start(from, to), step)
  BY Iterates
<1>2. f = [i \in 0..n |-> f[i]] /\ f[0] = Start(from, to) /\ \A i \in 1..n : f[i] = step[i][f[i - 1]]
  BY <1>1 DEF Iterated
<1>3. ASSUME NEW k \in 1..n, f[k - 1] \in G[k - 1]
      PROVE  f[k] = Visit(f[k - 1], k)
  <2>1. k - 1 \in 0..n
    OBVIOUS
  <2>2. f[k - 1] \in S
    BY <1>3, <2>1
  <2>3. step[k][f[k - 1]] = Visit(f[k - 1], k)
    BY <2>2
  <2> QED
    BY <1>2, <2>3
<1> HIDE DEF S, step
<1>4. \A k \in 0..n : f[k] \in G[k]
  <2>1. \A k \in 1..n : f[k - 1] \in G[k - 1] => f[k] \in G[k]
    BY <1>3 DEF SearchLeads
  <2> QED
    BY <1>2, <2>1, StaysIn
<1>5. SearchedBy(f, from, to)
  <2>1. ASSUME NEW k \in 0..n
        PROVE  f[k] = IF k = 0 THEN Start(from, to) ELSE Visit(f[k - 1], k)
    <3>1. CASE k = 0
      BY <1>2, <3>1
    <3>2. CASE k # 0
      <4>1. k \in 1..n /\ k - 1 \in 0..n
        BY <3>2
      <4> QED
        BY <1>3, <1>4, <3>2, <4>1
    <3> QED
      BY <3>1, <3>2
  <2>2. [k \in 0..n |-> f[k]] = [k \in 0..n |-> IF k = 0 THEN Start(from, to) ELSE Visit(f[k - 1], k)]
    BY <2>1
  <2> QED
    BY <1>2, <2>2 DEF SearchedBy, MAX
<1> DEFINE g == CHOOSE g : SearchedBy(g, from, to)
<1>6. SearchedBy(g, from, to)
  BY <1>5
<1>7. Search(from, to) = g[n]
  BY DEF Search, SearchedBy, MAX
<1> HIDE DEF g
<1>8. g[0] = Start(from, to) /\ \A k \in 1..n : g[k] = Visit(g[k - 1], k)
  BY <1>6 DEF SearchedBy, MAX
<1>9. \A k \in 0..n : g[k] \in G[k]
  <2>1. \A k \in 1..n : g[k - 1] \in G[k - 1] => g[k] \in G[k]
    BY <1>8 DEF SearchLeads
  <2> QED
    BY <1>8, <2>1, StaysIn
<1> QED
  BY <1>7, <1>9

-----------------------------------------------------------------------------
(* One neighbour.                                                          *)

Searches ==
    [visiting_order : Seq(Stations), visited : SUBSET Stations, distance : [Stations -> Int],
     previous_station : [Stations -> 0..MAX], shortest_path_length : [Stations -> Nat]]

\* The neighbours the search goes on to from a.
Open(a) == {b \in Joined(a) : ~Destroyed(convert_connection_to_idx(a, b))}

\* What the search needs of the memory: rows without holes.
RowsWhole ==
    /\ \A a \in Stations : NeighbourCount(a) \in Nat
    /\ \A a \in Stations : \A k \in 1..NeighbourCount(a) : Neighbour(a, k - 1) \in Joined(a)
    /\ \A a \in Stations : \A b \in Joined(a) : \E k \in 1..NeighbourCount(a) : Neighbour(a, k - 1) = b
    /\ \A a, b \in Stations : LengthAt(a, b) \in Nat

SameAt(s, t, x) ==
    /\ t.distance[x] = s.distance[x] /\ t.previous_station[x] = s.previous_station[x]
    /\ t.shortest_path_length[x] = s.shortest_path_length[x]

Improved(s, t, x, current, d) ==
    /\ t.distance[x] = d /\ t.previous_station[x] = current
    /\ t.shortest_path_length[x] = s.shortest_path_length[current] + 1

\* From s to t the station n has been looked at from current, d away from the start.
LookedAt(s, t, n, current, d) ==
    /\ t.visited = s.visited \cup {n}
    /\ t.visiting_order = IF n \in s.visited THEN s.visiting_order ELSE Append(s.visiting_order, n)
    /\ \A x \in Stations : x # n => SameAt(s, t, x)
    /\ IF s.distance[n] = -1 \/ s.distance[n] > d THEN Improved(s, t, n, current, d) ELSE SameAt(s, t, n)

LEMMA RelaxDoes ==
    ASSUME RowsWhole, NEW s \in Searches, NEW current \in Stations, NEW k \in 1..NeighbourCount(current),
           NEW c \in Int, NEW n, n = Neighbour(current, k - 1), NEW d, d = c + LengthAt(current, n)
    PROVE  /\ n \in Stations /\ n \in Joined(current) /\ d \in Int /\ c <= d
           /\ Relax(s, current, c, k) \in Searches
           /\ (Overrun(s) \/ n \notin Open(current)) => Relax(s, current, c, k) = s
           /\ ~Overrun(s) /\ n \in Open(current) => LookedAt(s, Relax(s, current, c, k), n, current, d)
<1>1. n \in Joined(current) /\ n \in Stations
  BY DEF RowsWhole, Joined
<1>2. LengthAt(current, n) \in Nat
  BY <1>1 DEF RowsWhole
<1>3. d \in Int /\ c <= d
  BY <1>2
<1> DEFINE idx == convert_connection_to_idx(current, n)
           t == IF n \in s.visited THEN s
                ELSE [s EXCEPT !.visited = @ \cup {n}, !.visiting_order = Append(@, n)]
           u == [t EXCEPT !.distance[n] = d, !.previous_station[n] = current,
                          !.shortest_path_length[n] = s.shortest_path_length[current] + 1]
           r == Relax(s, current, c, k)
<1>4. r = IF Overrun(s) \/ Destroyed(idx) THEN s
          ELSE IF s.distance[n] = -1 \/ s.distance[n] > d THEN u ELSE t
  BY DEF Relax, LengthAt
<1>5. n \in Open(current) <=> ~Destroyed(idx)
  BY <1>1 DEF Open
<1>6. current \in 0..MAX
  BY Sizes
<1>7. /\ s.visiting_order \in Seq(Stations) /\ s.visited \in SUBSET Stations /\ s.distance \in [Stations -> Int]
      /\ s.previous_station \in [Stations -> 0..MAX] /\ s.shortest_path_length \in [Stations -> Nat]
  BY DEF Searches
<1>8. /\ t \in Searches /\ t.visited = s.visited \cup {n}
      /\ t.visiting_order = IF n \in s.visited THEN s.visiting_order ELSE Append(s.visiting_order, n)
      /\ t.distance = s.distance /\ t.previous_station = s.previous_station
      /\ t.shortest_path_length = s.shortest_path_length
  <2>1. CASE n \in s.visited
    BY <2>1
  <2>2. CASE n \notin s.visited
    <3>1. t = [s EXCEPT !.visited = s.visited \cup {n}, !.visiting_order = Append(s.visiting_order, n)]
      BY <2>2 DEF Searches
    <3> HIDE DEF t
    <3>2. Append(s.visiting_order, n) \in Seq(Stations) /\ s.visited \cup {n} \in SUBSET Stations
      BY <1>1, <1>7
    <3> QED
      BY <2>2, <3>1, <3>2 DEF Searches
  <2> QED
    BY <2>1, <2>2
<1> HIDE DEF t
<1> DEFINE D == [s.distance EXCEPT ![n] = d]
           P == [s.previous_station EXCEPT ![n] = current]
           L == [s.shortest_path_length EXCEPT ![n] = s.shortest_path_length[current] + 1]
<1>9. D \in [Stations -> Int] /\ P \in [Stations -> 0..MAX] /\ L \in [Stations -> Nat]
  <2>1. s.shortest_path_length[current] + 1 \in Nat
    BY <1>7
  <2> QED
    BY <1>1, <1>3, <1>6, <1>7, <2>1
<1>10. /\ D[n] = d /\ P[n] = current /\ L[n] = s.shortest_path_length[current] + 1
       /\ \A x \in Stations : x # n => D[x] = s.distance[x] /\ P[x] = s.previous_station[x] /\ L[x] = s.shortest_path_length[x]
  BY <1>1, <1>7
<1>11. u = [t EXCEPT !.distance = D, !.previous_station = P, !.shortest_path_length = L]
  BY <1>8 DEF Searches
<1> HIDE DEF D, P, L, u
<1>12. /\ u \in Searches /\ u.visited = t.visited /\ u.visiting_order = t.visiting_order
       /\ u.distance = D /\ u.previous_station = P /\ u.shortest_path_length = L
  BY <1>8, <1>9, <1>11 DEF Searches
<1>13. r \in Searches
  BY <1>4, <1>8, <1>12
<1>14. ASSUME ~Overrun(s), n \in Open(current) PROVE LookedAt(s, r, n, current, d)
  <2>1. CASE s.distance[n] = -1 \/ s.distance[n] > d
    <3>1. r = u
      BY <1>4, <1>5, <1>14, <2>1
    <3>2. \A x \in Stations : x # n => SameAt(s, u, x)
      BY <1>10, <1>12 DEF SameAt
    <3>3. Improved(s, u, n, current, d)
      BY <1>10, <1>12 DEF Improved
    <3> QED
      BY <1>8, <1>12, <2>1, <3>1, <3>2, <3>3 DEF LookedAt
  <2>2. CASE ~(s.distance[n] = -1 \/ s.distance[n] > d)
    <3>1. r = t
      BY <1>4, <1>5, <1>14, <2>2
    <3>2. \A x : SameAt(s, t, x)
      BY <1>8 DEF SameAt
    <3> QED
      BY <1>1, <1>8, <2>2, <3>1, <3>2 DEF LookedAt
  <2> QED
    BY <2>1, <2>2
<1>15. Overrun(s) \/ n \notin Open(current) => r = s
  BY <1>4, <1>5
<1> QED
  BY <1>1, <1>3, <1>13, <1>14, <1>15

-----------------------------------------------------------------------------
(* The queue.                                                              *)

Turns(s) == Len(s.visiting_order)

\* Where connections lead.
Led == UNION {Open(a) : a \in Stations}

\* From the station from on the search has queued stations of R, each of them once and over a
\* connection, and knows a distance of exactly these.
IsQueue(s, from, R) ==
    /\ s \in Searches
    /\ Turns(s) >= 1 /\ s.visiting_order[1] = from
    /\ \A x \in s.visited : \E j \in 2..Turns(s) : s.visiting_order[j] = x
    /\ \A j \in 2..Turns(s) : s.visiting_order[j] \in s.visited
    /\ \A i, j \in 2..Turns(s) : s.visiting_order[i] = s.visiting_order[j] => i = j
    /\ s.visited \subseteq R /\ s.visited \subseteq Led
    /\ s.distance[from] = 0
    /\ \A x \in Stations \ {from} : IF x \in s.visited THEN s.distance[x] >= 0 ELSE s.distance[x] = -1

\* The queue of t is that of s and what has been added to it.
Grown(s, t) ==
    /\ Turns(s) <= Turns(t) /\ s.visited \subseteq t.visited
    /\ \A j \in 1..Turns(s) : t.visiting_order[j] = s.visiting_order[j]

LEMMA LookedAtQueue ==
    ASSUME NEW from \in Stations, NEW R, NEW s, IsQueue(s, from, R), NEW t \in Searches,
           NEW n \in Stations, n \in R, NEW current \in Stations, n \in Open(current),
           NEW d \in Int, d >= 0, LookedAt(s, t, n, current, d)
    PROVE  IsQueue(t, from, R) /\ Grown(s, t) /\ n \in t.visited
<1> DEFINE p == s.visiting_order
           q == t.visiting_order
<1>1. PICK m \in Nat : m = Len(p)
  BY DEF IsQueue, Searches
<1>2. /\ m >= 1 /\ p[1] = from /\ \A x \in s.visited : \E j \in 2..m : p[j] = x
      /\ \A j \in 2..m : p[j] \in s.visited
      /\ \A i, j \in 2..m : p[i] = p[j] => i = j
      /\ s.visited \subseteq R /\ s.visited \subseteq Led /\ s.distance[from] = 0
      /\ \A x \in Stations \ {from} : IF x \in s.visited THEN s.distance[x] >= 0 ELSE s.distance[x] = -1
  BY <1>1 DEF IsQueue, Turns
<1>3. p \in Seq(Stations) /\ q \in Seq(Stations) /\ s.distance \in [Stations -> Int]
  BY DEF IsQueue, Searches
<1>4. /\ t.visited = s.visited \cup {n} /\ q = IF n \in s.visited THEN p ELSE Append(p, n)
      /\ \A x \in Stations : x # n => t.distance[x] = s.distance[x]
      /\ t.distance[n] = IF s.distance[n] = -1 \/ s.distance[n] > d THEN d ELSE s.distance[n]
  BY DEF LookedAt, SameAt, Improved
<1>n. n \in Led
  BY DEF Led
<1>5. t.distance[from] = 0
  <2>1. CASE n = from
    BY <1>2, <1>4, <2>1
  <2>2. CASE n # from
    BY <1>2, <1>4, <2>2
  <2> QED
    BY <2>1, <2>2
<1>6. ASSUME NEW x \in Stations \ {from}
      PROVE  IF x \in t.visited THEN t.distance[x] >= 0 ELSE t.distance[x] = -1
  <2>1. CASE x = n
    <3>1. s.distance[n] \in Int
      BY <1>3
    <3> QED
      BY <1>2, <1>4, <1>6, <2>1, <3>1
  <2>2. CASE x # n
    BY <1>2, <1>4, <1>6, <2>2
  <2> QED
    BY <2>1, <2>2
<1> HIDE DEF p, q
<1>7. CASE n \in s.visited
  <2>1. q = p /\ t.visited = s.visited
    BY <1>4, <1>7
  <2>2. IsQueue(t, from, R)
    BY <1>1, <1>2, <1>5, <1>6, <2>1 DEF IsQueue, Turns, p, q
  <2> QED
    BY <1>1, <1>7, <2>1, <2>2 DEF Grown, Turns, p, q
<1>8. CASE n \notin s.visited
  <2>1. q = Append(p, n) /\ t.visited = s.visited \cup {n}
    BY <1>4, <1>8
  <2>2. Len(q) = m + 1 /\ q[m + 1] = n /\ \A j \in 1..m : q[j] = p[j]
    BY ONLY <1>1, <1>3, <2>1
  <2>3. \A j \in 2..m + 1 : j = m + 1 \/ (j \in 2..m /\ q[j] = p[j])
    BY <2>2
  <2>4. \A x \in t.visited : \E j \in 2..m + 1 : q[j] = x
    <3> SUFFICES ASSUME NEW x \in t.visited PROVE \E j \in 2..m + 1 : q[j] = x
      OBVIOUS
    <3>1. CASE x = n
      <4>1. m + 1 \in 2..m + 1
        BY <1>2
      <4> QED
        BY <2>2, <3>1, <4>1
    <3>2. CASE x # n
      <4>1. PICK j \in 2..m : p[j] = x
        BY <1>2, <2>1, <3>2
      <4>2. j \in 2..m + 1 /\ j \in 1..m
        OBVIOUS
      <4> QED
        BY <2>2, <4>1, <4>2
    <3> QED
      BY <3>1, <3>2
  <2>5. \A j \in 2..m + 1 : q[j] \in t.visited
    BY <1>2, <2>1, <2>2, <2>3
  <2>6. ASSUME NEW i \in 2..m + 1, NEW j \in 2..m + 1, q[i] = q[j] PROVE i = j
    <3>1. i # m + 1 => i \in 2..m /\ q[i] \in s.visited /\ q[i] = p[i]
      BY <1>2, <2>3
    <3>2. j # m + 1 => j \in 2..m /\ q[j] \in s.visited /\ q[j] = p[j]
      BY <1>2, <2>3
    <3> QED
      BY <1>2, <1>8, <2>2, <2>6, <3>1, <3>2
  <2>7. q[1] = from /\ m + 1 >= 1
    BY <1>2, <2>2
  <2>8. t.visited \subseteq R /\ t.visited \subseteq Led
    BY <1>2, <1>n, <2>1
  <2>9. IsQueue(t, from, R)
    BY <1>5, <1>6, <2>2, <2>4, <2>5, <2>6, <2>7, <2>8 DEF IsQueue, Turns, q
  <2>10. Grown(s, t)
    BY <1>1, <2>1, <2>2 DEF Grown, Turns, p, q
  <2> QED
    BY <2>1, <2>9, <2>10
<1> QED
  BY <1>7, <1>8

LEMMA GrownTwice ==
    ASSUME NEW s \in Searches, NEW t \in Searches, NEW u \in Searches, Grown(s, t), Grown(t, u)
    PROVE  Grown(s, u)
<1>1. Turns(s) \in Nat /\ Turns(t) \in Nat /\ Turns(u) \in Nat
  BY DEF Searches, Turns
<1>2. Turns(s) <= Turns(u) /\ \A j \in 1..Turns(s) : j \in 1..Turns(t)
  BY <1>1 DEF Grown
<1> QED
  BY <1>2 DEF Grown

\* R can be left by no connection.
Closed(R) == \A a \in R : Open(a) \subseteq R

\* All neighbours of a station.
LEMMA RelaxAllQueue ==
    ASSUME RowsWhole, NEW from \in Stations, NEW R \in SUBSET Stations, Closed(R),
           NEW s, IsQueue(s, from, R), NEW current \in R, s.distance[current] >= 0,
           NEW u, u = RelaxAll(s, current)
    PROVE  IsQueue(u, from, R) /\ Grown(s, u) /\ (Overrun(u) \/ Open(current) \subseteq u.visited)
<1> DEFINE n == NeighbourCount(current)
           c == s.distance[current]
           N(j) == Neighbour(current, j - 1)
           Good(t, k) == /\ IsQueue(t, from, R) /\ Grown(s, t)
                         /\ Overrun(t) \/ \A j \in 1..k : N(j) \in Open(current) => N(j) \in t.visited
           G == [k \in 0..n |-> {t \in Searches : Good(t, k)}]
<1>1. current \in Stations /\ n \in Nat /\ s \in Searches /\ c \in Int /\ c >= 0
  BY DEF RowsWhole, IsQueue, Searches
<1>2. Good(s, 0)
  <2>1. Turns(s) \in Nat
    BY <1>1 DEF Searches, Turns
  <2> QED
    BY <1>1, <2>1 DEF Grown
<1>3. ASSUME NEW k \in 1..n, NEW t \in Searches, Good(t, k - 1) PROVE Good(Relax(t, current, c, k), k)
  <2> DEFINE r == Relax(t, current, c, k)
             d == c + LengthAt(current, N(k))
  <2>1. /\ N(k) \in Stations /\ N(k) \in Joined(current) /\ d \in Int /\ c <= d /\ r \in Searches
        /\ Overrun(t) \/ N(k) \notin Open(current) => r = t
        /\ ~Overrun(t) /\ N(k) \in Open(current) => LookedAt(t, r, N(k), current, d)
    BY ONLY RowsWhole, <1>1, t \in Searches, k \in 1..n, RelaxDoes
  <2>2. d >= 0
    BY <1>1, <2>1
  <2>3. IsQueue(t, from, R) /\ Grown(s, t)
    BY <1>3
  <2> HIDE DEF r, d
  <2>o. CASE Overrun(t)
    BY <1>3, <2>1, <2>o DEF r
  <2>4. CASE ~Overrun(t) /\ N(k) \notin Open(current)
    <3>1. \A j \in 1..k : j = k \/ j \in 1..k - 1
      BY <1>1
    <3> QED
      BY <1>3, <2>1, <2>4, <3>1 DEF r
  <2>5. CASE ~Overrun(t) /\ N(k) \in Open(current)
    <3>1. N(k) \in R
      BY <2>5 DEF Closed
    <3>2. IsQueue(r, from, R) /\ Grown(t, r) /\ N(k) \in r.visited
      BY <1>1, <2>1, <2>2, <2>3, <2>5, <3>1, LookedAtQueue
    <3>3. Grown(s, r)
      BY <1>1, <2>1, <2>3, <3>2, GrownTwice
    <3>4. ASSUME NEW j \in 1..k, N(j) \in Open(current) PROVE N(j) \in r.visited
      <4>1. CASE j = k
        BY <3>2, <4>1
      <4>2. CASE j # k
        <5>1. j \in 1..k - 1
          BY <1>1, <4>2
        <5>2. N(j) \in t.visited
          BY <1>3, <2>5, <3>4, <5>1
        <5> QED
          BY <3>2, <5>2 DEF Grown
      <4> QED
        BY <4>1, <4>2
    <3> QED
      BY <3>2, <3>3, <3>4 DEF r
  <2> QED
    BY <2>o, <2>4, <2>5
<1> HIDE DEF Good
<1>4. s \in G[0]
  BY <1>1, <1>2
<1>5. RelaxLeads(G, n, s, current)
  <2> SUFFICES ASSUME NEW k \in 1..n, NEW t \in G[k - 1] PROVE Relax(t, current, c, k) \in G[k]
    BY DEF RelaxLeads
  <2>1. k - 1 \in 0..n /\ k \in 0..n
    BY <1>1
  <2>2. t \in Searches /\ Good(t, k - 1)
    BY <2>1
  <2>3. Good(Relax(t, current, c, k), k)
    BY <1>3, <2>2
  <2>4. Relax(t, current, c, k) \in Searches
    BY <2>3 DEF Good, IsQueue
  <2> QED
    BY <2>1, <2>3, <2>4
<1> HIDE DEF G
<1>6. u \in G[n]
  BY ONLY <1>1, <1>4, <1>5, u = RelaxAll(s, current), RelaxAllBy
<1>7. Good(u, n)
  BY <1>1, <1>6 DEF G
<1>8. \A b \in Open(current) : \E j \in 1..n : N(j) = b
  BY <1>1 DEF Open, RowsWhole
<1> QED
  BY <1>7, <1>8 DEF Good

\* The first i turns are over, if the search got that far.
Done(s, i) ==
    Overrun(s) \/ \A j \in 1..Turns(s) : j <= i => Open(s.visiting_order[j]) \subseteq s.visited

LEMMA QueuedStation ==
    ASSUME NEW from \in Stations, NEW R \in SUBSET Stations, from \in R, NEW s, IsQueue(s, from, R),
           NEW j \in 1..Turns(s)
    PROVE  /\ s.visiting_order[j] \in R /\ s.distance[s.visiting_order[j]] >= 0
           /\ Turns(s) \in Nat /\ s.distance[s.visiting_order[j]] \in Int
<1> DEFINE v == s.visiting_order
<1>0. Turns(s) \in Nat /\ s.distance \in [Stations -> Int] /\ s.distance[from] = 0
  BY DEF IsQueue, Searches, Turns
<1>1. v[j] = from \/ v[j] \in s.visited
  <2>1. j = 1 \/ j \in 2..Turns(s)
    BY <1>0
  <2> QED
    BY <2>1 DEF IsQueue
<1>2. v[j] \in R
  BY <1>1 DEF IsQueue
<1>3. s.distance[v[j]] >= 0
  <2>1. CASE v[j] = from
    BY <1>0, <2>1
  <2>2. CASE v[j] # from
    <3>1. v[j] \in Stations \ {from} /\ v[j] \in s.visited
      BY <1>1, <1>2, <2>2
    <3> QED
      BY <3>1 DEF IsQueue
  <2> QED
    BY <2>1, <2>2
<1> QED
  BY <1>0, <1>2, <1>3

LEMMA VisitQueue ==
    ASSUME RowsWhole, NEW from \in Stations, NEW R \in SUBSET Stations, from \in R, Closed(R),
           NEW i \in Nat \ {0}, NEW s, IsQueue(s, from, R), Done(s, i - 1)
    PROVE  IsQueue(Visit(s, i), from, R) /\ Done(Visit(s, i), i)
<1> DEFINE v == s.visiting_order
<1>1. Turns(s) \in Nat /\ s \in Searches
  BY DEF IsQueue, Searches, Turns
<1>o. CASE Overrun(s)
  BY <1>o DEF Visit, Done
<1>2. CASE ~Overrun(s) /\ i > Turns(s)
  <2>1. Visit(s, i) = s
    BY <1>2 DEF Visit, Turns
  <2>2. \A j \in 1..Turns(s) : j <= i - 1
    BY <1>1, <1>2
  <2> QED
    BY <2>1, <2>2 DEF Done
<1>3. CASE ~Overrun(s) /\ ~(i > Turns(s))
  <2>1. Visit(s, i) = RelaxAll(s, v[i])
    BY <1>3 DEF Visit, Turns
  <2>2. i \in 1..Turns(s)
    BY <1>1, <1>3
  <2>3. v[i] \in R /\ s.distance[v[i]] >= 0
    BY <2>2, QueuedStation
  <2> DEFINE u == Visit(s, i)
  <2>4. IsQueue(u, from, R) /\ Grown(s, u) /\ (Overrun(u) \/ Open(v[i]) \subseteq u.visited)
    BY <2>1, <2>3, RelaxAllQueue
  <2> HIDE DEF u
  <2>5. ASSUME ~Overrun(u), NEW j \in 1..Turns(u), j <= i PROVE Open(u.visiting_order[j]) \subseteq u.visited
    <3>1. j \in 1..Turns(s)
      BY <1>1, <2>2, <2>5
    <3>2. u.visiting_order[j] = v[j] /\ s.visited \subseteq u.visited
      BY <2>4, <3>1 DEF Grown
    <3>3. CASE j = i
      BY <2>4, <2>5, <3>2, <3>3
    <3>4. CASE j # i
      <4>1. j <= i - 1
        BY <2>5, <3>4
      <4>2. Open(v[j]) \subseteq s.visited
        BY <1>3, <3>1, <4>1 DEF Done
      <4> QED
        BY <3>2, <4>2
    <3> QED
      BY <3>3, <3>4
  <2> QED
    BY <2>4, <2>5 DEF Done, u
<1> QED
  BY <1>o, <1>2, <1>3

LEMMA StartQueue ==
    ASSUME NEW from \in Stations, NEW to \in Stations, to # from, NEW R, from \in R
    PROVE  IsQueue(Start(from, to), from, R) /\ Done(Start(from, to), 0)
<1> DEFINE s == Start(from, to)
<1>1. /\ s.visiting_order = <<from>> /\ s.visited = {}
      /\ s.distance = [x \in Stations |-> IF x = from /\ x # to THEN 0 ELSE -1]
      /\ s.previous_station = [x \in Stations |-> INVALID_STATION]
      /\ s.shortest_path_length = [x \in Stations |-> 0]
  BY DEF Start
<1>2. s \in Searches
  <2>1. INVALID_STATION \in 0..MAX
    BY Sizes DEF INVALID_STATION, MAX
  <2> QED
    BY <2>1 DEF Searches, Start
<1>3. Turns(s) = 1 /\ s.visiting_order[1] = from
  BY <1>1 DEF Turns
<1>4. s.distance[from] = 0 /\ \A x \in Stations \ {from} : s.distance[x] = -1
  BY <1>1
<1> HIDE DEF s
<1> QED
  BY <1>1, <1>2, <1>3, <1>4 DEF IsQueue, Done, s

\* When the search ends every turn the queue called for is over.
LEMMA SearchQueue ==
    ASSUME RowsWhole, NEW from \in Stations, NEW to \in Stations, to # from,
           NEW R \in SUBSET Stations, from \in R, Closed(R), NEW s, s = Search(from, to)
    PROVE  IsQueue(s, from, R) /\ Done(s, MAX)
<1> DEFINE n == MAX
           G == [k \in 0..n |-> {t \in Searches : IsQueue(t, from, R) /\ Done(t, k)}]
<1>1. n \in Nat
  BY Sizes
<1>2. Start(from, to) \in G[0]
  <2>1. IsQueue(Start(from, to), from, R) /\ Done(Start(from, to), 0)
    BY StartQueue
  <2> QED
    BY <1>1, <2>1 DEF IsQueue
<1>3. SearchLeads(G, n)
  <2> SUFFICES ASSUME NEW k \in 1..n, NEW t \in G[k - 1] PROVE Visit(t, k) \in G[k]
    BY DEF SearchLeads
  <2>1. k - 1 \in 0..n /\ k \in 0..n /\ k \in Nat \ {0}
    BY <1>1
  <2>2. IsQueue(t, from, R) /\ Done(t, k - 1)
    BY <2>1
  <2>3. IsQueue(Visit(t, k), from, R) /\ Done(Visit(t, k), k)
    BY <2>1, <2>2, VisitQueue
  <2> QED
    BY <2>1, <2>3 DEF IsQueue
<1> HIDE DEF G
<1>4. s \in G[n]
  BY <1>1, <1>2, <1>3, SearchBy
<1> QED
  BY <1>1, <1>4 DEF G

-----------------------------------------------------------------------------
(* The reference: walks of growing length.                                 *)

\* p is w with a connection more, over one that is open.
GoesOn(w, p) == p[1] \in Open(w[1]) /\ p[2] = w[2] + LengthAt(w[1], p[1])

LEMMA LongerWalks ==
    ASSUME RowsWhole, NEW W \in SUBSET (Stations \X Nat), NEW V, V = Longer(W, Edges)
    PROVE  /\ V \in SUBSET (Stations \X Nat) /\ W \subseteq V
           /\ \A p \in V : p \in W \/ \E w \in W : GoesOn(w, p)
           /\ \A w \in W, p \in Stations \X Nat : GoesOn(w, p) => p \in V
<1> DEFINE More(w) == {<<e[2], w[2] + LengthAt(e[1], e[2])>> : e \in {f \in Edges : f[1] = w[1]}}
<1>1. V = W \cup UNION {More(w) : w \in W}
  BY DEF Longer
<1>2. ASSUME NEW w \in W, NEW p \in More(w) PROVE GoesOn(w, p) /\ p \in Stations \X Nat
  <2>1. PICK e \in Edges : e[1] = w[1] /\ p = <<e[2], w[2] + LengthAt(e[1], e[2])>>
    BY <1>2
  <2>2. w[1] \in Stations /\ w[2] \in Nat
    OBVIOUS
  <2>3. e[1] \in Stations /\ e[2] \in Stations /\ e[2] \in Open(e[1])
    BY DEF Edges, Open
  <2>4. LengthAt(e[1], e[2]) \in Nat
    BY <2>3 DEF RowsWhole
  <2>5. p[1] = e[2] /\ p[2] = w[2] + LengthAt(e[1], e[2]) /\ p \in Stations \X Nat
    BY <2>1, <2>2, <2>3, <2>4
  <2> QED
    BY <2>1, <2>3, <2>5 DEF GoesOn
<1>3. ASSUME NEW w \in W, NEW p \in Stations \X Nat, GoesOn(w, p) PROVE p \in More(w)
  <2> DEFINE e == <<w[1], p[1]>>
  <2>1. e \in Edges /\ e[1] = w[1] /\ e[2] = p[1]
    BY <1>3 DEF GoesOn, Edges, Open
  <2>2. p = <<p[1], p[2]>>
    OBVIOUS
  <2>3. p = <<e[2], w[2] + LengthAt(e[1], e[2])>>
    BY <1>3, <2>1, <2>2 DEF GoesOn
  <2> HIDE DEF e
  <2> QED
    BY <2>1, <2>3
<1> HIDE DEF More
<1> QED
  BY <1>1, <1>2, <1>3

\* w[i] are the walks from from of up to i connections.
WalksAre(w, from) ==
    /\ w[0] = {<<from, 0>>} /\ Walks(from) = w[Row]
    /\ \A i \in 0..Row : w[i] \in SUBSET (Stations \X Nat)
    /\ \A i \in 1..Row : w[i] = Longer(w[i - 1], Edges)

LEMMA WalksExist ==
    ASSUME RowsWhole, NEW from \in Stations
    PROVE  \E w : WalksAre(w, from)
<1> DEFINE T == SUBSET (Stations \X Nat)
           step == [k \in 1..Row |-> [W \in T |-> Longer(W, Edges)]]
           By(w) == w = [i \in 0..Row |-> IF i = 0 THEN {<<from, 0>>} ELSE Longer(w[i - 1], Edges)]
<1>0. Row \in Nat
  BY Sizes
<1>1. PICK f : Iterated(f, Row, {<<from, 0>>}, step)
  BY <1>0, Iterates
<1>2. f = [i \in 0..Row |-> f[i]] /\ f[0] = {<<from, 0>>} /\ \A i \in 1..Row : f[i] = step[i][f[i - 1]]
  BY <1>1 DEF Iterated
<1>3. \A W \in T : Longer(W, Edges) \in T
  BY LongerWalks
<1> HIDE DEF T
<1>4. \A i \in 1..Row : f[i - 1] \in T => f[i] = Longer(f[i - 1], Edges)
  BY <1>2
<1> DEFINE G == [i \in 0..Row |-> T]
<1>5. \A i \in 0..Row : f[i] \in T
  <2>1. f[0] \in G[0]
    BY <1>0, <1>2 DEF T
  <2>2. \A i \in 1..Row : f[i - 1] \in G[i - 1] => f[i] \in G[i]
    <3> SUFFICES ASSUME NEW i \in 1..Row, f[i - 1] \in G[i - 1] PROVE f[i] \in G[i]
      OBVIOUS
    <3>1. i - 1 \in 0..Row /\ i \in 0..Row
      BY <1>0
    <3> QED
      BY <1>3, <1>4, <3>1
  <2>3. \A i \in 0..Row : f[i] \in G[i]
    <3> HIDE DEF G
    <3> QED
      BY ONLY <1>0, <2>1, <2>2, StaysIn
  <2> QED
    BY <2>3
<1>6. By(f)
  <2>1. ASSUME NEW i \in 0..Row PROVE f[i] = IF i = 0 THEN {<<from, 0>>} ELSE Longer(f[i - 1], Edges)
    <3>1. CASE i = 0
      BY <1>2, <3>1
    <3>2. CASE i # 0
      <4>1. i \in 1..Row /\ i - 1 \in 0..Row
        BY <1>0, <3>2
      <4> QED
        BY <1>4, <1>5, <3>2, <4>1
    <3> QED
      BY <3>1, <3>2
  <2>2. [i \in 0..Row |-> f[i]] = [i \in 0..Row |-> IF i = 0 THEN {<<from, 0>>} ELSE Longer(f[i - 1], Edges)]
    BY <2>1
  <2> QED
    BY <1>2, <2>2
<1> DEFINE w == CHOOSE w : By(w)
<1>7. By(w)
  BY <1>6
<1>8. Walks(from) = w[Row]
  BY DEF Walks
<1> HIDE DEF w
<1>9. w[0] = {<<from, 0>>} /\ \A i \in 1..Row : w[i] = Longer(w[i - 1], Edges)
  <2>1. w = [i \in 0..Row |-> IF i = 0 THEN {<<from, 0>>} ELSE Longer(w[i - 1], Edges)]
    BY <1>7
  <2>2. 0 \in 0..Row /\ \A i \in 1..Row : i \in 0..Row /\ i # 0
    BY <1>0
  <2> QED
    BY ONLY <2>1, <2>2
<1>10. \A i \in 0..Row : w[i] \in T
  <2>1. w[0] \in G[0]
    BY <1>0, <1>9 DEF T
  <2>2. \A i \in 1..Row : w[i - 1] \in G[i - 1] => w[i] \in G[i]
    <3> SUFFICES ASSUME NEW i \in 1..Row, w[i - 1] \in G[i - 1] PROVE w[i] \in G[i]
      OBVIOUS
    <3>1. i - 1 \in 0..Row /\ i \in 0..Row
      BY <1>0
    <3> QED
      BY <1>3, <1>9, <3>1
  <2>3. \A i \in 0..Row : w[i] \in G[i]
    <3> HIDE DEF G
    <3> QED
      BY ONLY <1>0, <2>1, <2>2, StaysIn
  <2> QED
    BY <2>3
<1>11. WalksAre(w, from)
  BY <1>8, <1>9, <1>10 DEF WalksAre, T
<1> QED
  BY <1>11

-----------------------------------------------------------------------------
(* What is reached: the smallest set with from that no connection leaves.  *)

LEMMA ReachedLonger ==
    ASSUME RowsWhole, NEW W \in SUBSET (Stations \X Nat)
    PROVE  /\ Reached(W) \subseteq Reached(Longer(W, Edges))
           /\ \A a \in Reached(W) : Open(a) \subseteq Reached(Longer(W, Edges))
           /\ \A x \in Reached(Longer(W, Edges)) : x \in Reached(W) \/ \E a \in Reached(W) : x \in Open(a)
<1> DEFINE V == Longer(W, Edges)
<1>1. /\ V \in SUBSET (Stations \X Nat) /\ W \subseteq V
      /\ \A p \in V : p \in W \/ \E w \in W : GoesOn(w, p)
      /\ \A w \in W, p \in Stations \X Nat : GoesOn(w, p) => p \in V
  BY LongerWalks
<1> HIDE DEF V
<1>2. Reached(W) \subseteq Reached(V)
  BY <1>1 DEF Reached
<1>3. ASSUME NEW a \in Reached(W), NEW b \in Open(a) PROVE b \in Reached(V)
  <2>1. PICK w \in W : w[1] = a
    BY DEF Reached
  <2>2. a \in Stations /\ b \in Stations /\ w[2] \in Nat /\ w[1] \in Stations
    BY <2>1 DEF Open, Joined
  <2>3. LengthAt(a, b) \in Nat
    BY <2>2 DEF RowsWhole
  <2> DEFINE p == <<b, w[2] + LengthAt(a, b)>>
  <2>4. p \in Stations \X Nat /\ GoesOn(w, p)
    BY <2>1, <2>2, <2>3 DEF GoesOn
  <2>5. p \in V
    BY <1>1, <2>4
  <2> QED
    BY <2>5 DEF Reached
<1>4. ASSUME NEW x \in Reached(V) PROVE x \in Reached(W) \/ \E a \in Reached(W) : x \in Open(a)
  BY <1>1 DEF Reached, GoesOn
<1> QED
  BY <1>2, <1>3, <1>4 DEF V

LEMMA ReachedIsLeast ==
    ASSUME RowsWhole, NEW from \in Stations, NEW C, from \in C, Closed(C)
    PROVE  Reached(Walks(from)) \subseteq C
<1>0. Row \in Nat
  BY Sizes
<1>1. PICK w : WalksAre(w, from)
  BY WalksExist
<1> DEFINE G == [i \in 0..Row |-> {W \in SUBSET (Stations \X Nat) : Reached(W) \subseteq C}]
<1>2. w[0] \in G[0]
  <2>1. w[0] = {<<from, 0>>} /\ Reached({<<from, 0>>}) = {from}
    BY <1>1 DEF WalksAre, Reached
  <2> QED
    BY <1>0, <2>1
<1>3. ASSUME NEW i \in 1..Row, w[i - 1] \in G[i - 1] PROVE w[i] \in G[i]
  <2>1. i - 1 \in 0..Row /\ i \in 0..Row
    BY <1>0
  <2>2. w[i] = Longer(w[i - 1], Edges) /\ w[i] \in SUBSET (Stations \X Nat) /\ w[i - 1] \in SUBSET (Stations \X Nat)
    BY <1>1, <2>1 DEF WalksAre
  <2>3. Reached(w[i - 1]) \subseteq C
    BY <1>3, <2>1
  <2>4. Reached(w[i]) \subseteq C
    BY <2>2, <2>3, ReachedLonger DEF Closed
  <2> QED
    BY <2>1, <2>2, <2>4
<1> HIDE DEF G
<1>4. \A i \in 0..Row : w[i] \in G[i]
  BY ONLY <1>0, <1>2, <1>3, StaysIn
<1>5. Reached(w[Row]) \subseteq C
  BY <1>0, <1>4 DEF G
<1> QED
  BY <1>1, <1>5 DEF WalksAre

LEMMA StationsFinite ==
    /\ IsFiniteSet(Stations) /\ Cardinality(Stations) = MAX
    /\ \A S \in SUBSET Stations : IsFiniteSet(S) /\ Cardinality(S) \in Nat /\ Cardinality(S) <= MAX
    /\ \A S \in SUBSET Stations : Cardinality(S) = MAX => S = Stations
<1>1. Row \in Nat /\ MAX = Row + 1 /\ Stations = 0..Row
  BY Sizes
<1>2. IsFiniteSet(Stations) /\ Cardinality(Stations) = MAX
  <2>1. IsFiniteSet(0..Row) /\ Cardinality(0..Row) = Row - 0 + 1
    BY <1>1, FS_Interval
  <2> QED
    BY <1>1, <2>1
<1>3. ASSUME NEW S \in SUBSET Stations
      PROVE  /\ IsFiniteSet(S) /\ Cardinality(S) \in Nat /\ Cardinality(S) <= MAX
             /\ Cardinality(S) = MAX => S = Stations
  <2>1. /\ IsFiniteSet(S) /\ Cardinality(S) <= Cardinality(Stations)
        /\ Cardinality(S) = Cardinality(Stations) => S = Stations
    BY <1>2, FS_Subset
  <2> QED
    BY <1>2, <2>1, FS_CardinalityType
<1> QED
  BY <1>2, <1>3

\* After as many connections as there are other stations nothing new can be reached.
LEMMA ReachedIsClosed ==
    ASSUME RowsWhole, NEW from \in Stations
    PROVE  /\ Reached(Walks(from)) \in SUBSET Stations /\ from \in Reached(Walks(from))
           /\ Closed(Reached(Walks(from)))
<1>0. Row \in Nat /\ MAX = Row + 1
  BY Sizes
<1>1. PICK w : WalksAre(w, from)
  BY WalksExist
<1> DEFINE Good(i, W) == from \in Reached(W) /\ (Closed(Reached(W)) \/ Cardinality(Reached(W)) >= i + 1)
           G == [i \in 0..Row |-> {W \in SUBSET (Stations \X Nat) : Good(i, W)}]
<1>2. w[0] \in G[0]
  <2>1. w[0] = {<<from, 0>>} /\ Reached({<<from, 0>>}) = {from} /\ w[0] \in SUBSET (Stations \X Nat)
    BY <1>0, <1>1 DEF WalksAre, Reached
  <2>2. Cardinality({from}) = 1
    BY FS_Singleton
  <2> QED
    BY <1>0, <2>1, <2>2
<1>3. ASSUME NEW i \in 1..Row, w[i - 1] \in G[i - 1] PROVE w[i] \in G[i]
  <2>1. i - 1 \in 0..Row /\ i \in 0..Row
    BY <1>0
  <2>2. w[i] = Longer(w[i - 1], Edges) /\ w[i] \in SUBSET (Stations \X Nat) /\ w[i - 1] \in SUBSET (Stations \X Nat)
    BY <1>1, <2>1 DEF WalksAre
  <2> DEFINE A == Reached(w[i - 1])
             B == Reached(w[i])
  <2>3. from \in A /\ (Closed(A) \/ Cardinality(A) >= i)
    BY <1>3, <2>1
  <2>4. /\ A \subseteq B /\ \A a \in A : Open(a) \subseteq B
        /\ \A x \in B : x \in A \/ \E a \in A : x \in Open(a)
    BY <2>2, ReachedLonger
  <2>5. A \subseteq Stations /\ B \subseteq Stations
    BY <2>2 DEF Reached
  <2> HIDE DEF A, B
  <2>6. CASE Closed(A)
    <3>1. B = A
      BY <2>4, <2>6 DEF Closed
    <3>2. Good(i, w[i])
      BY <2>3, <2>6, <3>1 DEF A, B
    <3> QED
      BY <2>1, <2>2, <3>2
  <2>7. CASE ~Closed(A)
    <3>1. PICK x \in B : x \notin A
      BY <2>4, <2>7 DEF Closed
    <3>2. IsFiniteSet(A) /\ IsFiniteSet(B) /\ Cardinality(A) \in Nat /\ Cardinality(B) \in Nat
      BY <2>5, StationsFinite
    <3>3. Cardinality(A) <= Cardinality(B) /\ (Cardinality(A) = Cardinality(B) => A = B)
      BY <2>4, <3>2, FS_Subset
    <3>4. Cardinality(B) >= i + 1
      BY <2>3, <2>7, <3>1, <3>2, <3>3
    <3>5. Good(i, w[i])
      BY <2>3, <2>4, <3>4 DEF B
    <3> QED
      BY <2>1, <2>2, <3>5
  <2> QED
    BY <2>6, <2>7
<1> HIDE DEF G
<1>4. \A i \in 0..Row : w[i] \in G[i]
  BY ONLY <1>0, <1>2, <1>3, StaysIn
<1> DEFINE R == Reached(Walks(from))
<1>5. Walks(from) \in SUBSET (Stations \X Nat) /\ Good(Row, Walks(from))
  BY <1>0, <1>1, <1>4 DEF G, WalksAre
<1>6. R \in SUBSET Stations
  BY <1>5 DEF Reached
<1>7. from \in R /\ (Closed(R) \/ Cardinality(R) >= MAX)
  BY <1>0, <1>5
<1> HIDE DEF R
<1>8. CASE Cardinality(R) >= MAX
  <2>1. R = Stations
    BY <1>0, <1>6, <1>8, StationsFinite
  <2> QED
    BY <1>6, <1>7, <2>1 DEF Closed, Open, Joined, R
<1> QED
  BY <1>6, <1>7, <1>8 DEF R

-----------------------------------------------------------------------------
(* The way found.                                                          *)

\* The stations at[0], ..., at[n] lead back from to.
LeadsBack(at, n, to, s) ==
    at[n] = to /\ \A k \in 0..n - 1 : at[k] = s.previous_station[at[k + 1]]

LEMMA WayFound ==
    ASSUME TypeOK, NEW from \in Known, NEW to \in Known, NEW s \in Searches, s = Search(from, to),
           NEW n, n = s.shortest_path_length[to]
    PROVE  /\ n \in Nat
           /\ Overrun(s) => find_shortest_way(from, to) = Aborted
           /\ ~Overrun(s) /\ s.distance[to] = -1 => find_shortest_way(from, to) = NoWay
           /\ ~Overrun(s) /\ s.distance[to] # -1 =>
                 \E at : /\ LeadsBack(at, n, to, s)
                         /\ find_shortest_way(from, to) = [k \in 1..n + 1 |-> at[k - 1]]
<1> DEFINE prev == s.previous_station
           By(at) == at = [k \in 0..n |-> IF k = n THEN to ELSE prev[at[k + 1]]]
           at == CHOOSE at : By(at)
<1>1. n \in Nat /\ to \in Stations
  BY DEF Known, Searches
<1>2. ~(from > station_count \/ to > station_count)
  <2>1. station_count \in 0..255 /\ from \in Stations /\ from <= station_count /\ to <= station_count
    BY DEF TypeOK, Known
  <2>2. from \in Nat /\ to \in Nat
    BY <1>1, <2>1, Sizes
  <2> QED
    BY ONLY <2>1, <2>2
<1>3. find_shortest_way(from, to) = IF Overrun(s) THEN Aborted
                                    ELSE IF s.distance[to] = -1 THEN NoWay ELSE [k \in 1..n + 1 |-> at[k - 1]]
  BY <1>2 DEF find_shortest_way
<1> HIDE DEF prev
<1>4. By(at)
  <2> DEFINE step == [i \in 1..n |-> prev]
  <2>1. PICK f : Iterated(f, n, to, step)
    BY <1>1, Iterates
  <2>2. f[0] = to /\ \A i \in 1..n : f[i] = prev[f[i - 1]]
    BY <2>1 DEF Iterated
  <2> DEFINE g == [k \in 0..n |-> f[n - k]]
  <2>3. ASSUME NEW k \in 0..n PROVE g[k] = IF k = n THEN to ELSE prev[g[k + 1]]
    <3>1. CASE k = n
      <4>1. n - k = 0
        BY <1>1, <3>1
      <4> QED
        BY <2>2, <3>1, <4>1
    <3>2. CASE k # n
      <4>1. k + 1 \in 0..n /\ n - k \in 1..n /\ n - k - 1 = n - (k + 1)
        BY <1>1, <3>2
      <4>2. g[k + 1] = f[n - (k + 1)] /\ g[k] = f[n - k]
        BY <4>1
      <4>3. f[n - k] = prev[f[n - k - 1]]
        BY <2>2, <4>1
      <4> HIDE DEF g
      <4> QED
        BY <3>2, <4>1, <4>2, <4>3
    <3> QED
      BY <3>1, <3>2
  <2>4. By(g)
    <3>1. g = [k \in 0..n |-> g[k]]
      OBVIOUS
    <3> HIDE DEF g
    <3>2. [k \in 0..n |-> g[k]] = [k \in 0..n |-> IF k = n THEN to ELSE prev[g[k + 1]]]
      BY <2>3
    <3> QED
      BY <3>1, <3>2
  <2> HIDE DEF g
  <2> QED
    BY <2>4
<1> HIDE DEF at
<1>5. at[n] = to /\ \A k \in 0..n - 1 : at[k] = prev[at[k + 1]]
  <2>1. n \in 0..n /\ \A k \in 0..n - 1 : k \in 0..n /\ k # n
    BY <1>1
  <2> QED
    BY <1>4, <2>1
<1>6. LeadsBack(at, n, to, s)
  BY <1>5 DEF LeadsBack, prev
<1> QED
  BY <1>1, <1>3, <1>6

\* A queue has one entry more than stations were visited, and all of them are entries.
LEMMA QueueBound ==
    ASSUME NEW from \in Stations, NEW R \in SUBSET Stations, NEW s, IsQueue(s, from, R)
    PROVE  /\ Turns(s) \in Nat /\ Turns(s) <= MAX + 1
           /\ Turns(s) > MAX => s.visited = Stations
           /\ s.visited = Stations => Turns(s) > MAX
           /\ \A x \in {from} \cup s.visited : \E j \in 1..Turns(s) : s.visiting_order[j] = x
<1> DEFINE v == s.visiting_order
<1>5. PICK m \in Nat : m = Len(v)
  BY DEF IsQueue, Searches
<1>6. /\ m >= 1 /\ v[1] = from /\ \A x \in s.visited : \E j \in 2..m : v[j] = x
      /\ \A j \in 2..m : v[j] \in s.visited
      /\ \A i, j \in 2..m : v[i] = v[j] => i = j
      /\ s.visited \subseteq R
  BY <1>5 DEF IsQueue, Turns
<1>7. IsFiniteSet(s.visited) /\ Cardinality(s.visited) = m - 1
  <2>1. s.visited \in SUBSET Stations
    BY <1>6
  <2>2. IsFiniteSet(2..m) /\ Cardinality(2..m) = m - 1
    <3>1. IsFiniteSet(2..m) /\ Cardinality(2..m) = IF 2 > m THEN 0 ELSE m - 2 + 1
      BY FS_Interval
    <3> QED
      BY <1>6, <3>1
  <2> DEFINE f == [j \in 2..m |-> v[j]]
  <2>3. f \in Bijection(2..m, s.visited)
    <3>1. f \in [2..m -> s.visited]
      BY <1>6
    <3>2. \A i, j \in 2..m : f[i] = f[j] => i = j
      BY <1>6
    <3>3. \A x \in s.visited : \E j \in 2..m : f[j] = x
      BY <1>6
    <3> HIDE DEF f
    <3> QED
      BY <3>1, <3>2, <3>3 DEF Bijection, Injection, Surjection, IsInjective
  <2>4. ExistsBijection(2..m, s.visited)
    BY <2>3 DEF ExistsBijection
  <2> QED
    BY <2>1, <2>2, <2>4, FS_Bijection
<1>8. m - 1 <= MAX /\ (m - 1 = MAX <=> s.visited = Stations)
  <2>1. s.visited \in SUBSET Stations
    BY <1>6
  <2> QED
    BY <1>7, <2>1, StationsFinite
<1>9. MAX \in Nat
  BY Sizes
<1>10. m <= MAX + 1 /\ (m > MAX <=> m - 1 = MAX)
  BY <1>8, <1>9
<1>11. \A x \in {from} \cup s.visited : \E j \in 1..m : v[j] = x
  <2> SUFFICES ASSUME NEW x \in {from} \cup s.visited PROVE \E j \in 1..m : v[j] = x
    OBVIOUS
  <2>1. CASE x = from
    <3>1. 1 \in 1..m
      BY <1>6
    <3> QED
      BY <1>6, <2>1, <3>1
  <2>2. CASE x # from
    <3>1. PICK j \in 2..m : v[j] = x
      BY <1>6, <2>2
    <3>2. j \in 1..m
      OBVIOUS
    <3> QED
      BY <3>1, <3>2
  <2> QED
    BY <2>1, <2>2
<1> QED
  BY <1>5, <1>8, <1>10, <1>11 DEF Turns

LEMMA QueueEntries ==
    ASSUME NEW from \in Stations, NEW s, IsQueue(s, from, Stations)
    PROVE  \A x \in {from} \cup s.visited : \E j \in 1..Turns(s) : s.visiting_order[j] = x
<1>1. Stations \in SUBSET Stations
  OBVIOUS
<1> QED
  BY <1>1, QueueBound

\* When the search has ended the stations it knows are left by no connection.
LEMMA SearchedAll ==
    ASSUME NEW from \in Stations, NEW R \in SUBSET Stations, NEW s, IsQueue(s, from, R), Done(s, MAX), ~Overrun(s)
    PROVE  \A x \in {from} \cup s.visited : Open(x) \subseteq s.visited
<1> SUFFICES ASSUME NEW x \in {from} \cup s.visited PROVE Open(x) \subseteq s.visited
  OBVIOUS
<1>1. PICK j \in 1..Turns(s) : s.visiting_order[j] = x
  BY QueueBound
<1>2. Turns(s) \in Nat /\ Turns(s) <= MAX /\ MAX \in Nat
  <2>1. Turns(s) \in Nat /\ MAX \in Nat
    BY QueueBound, Sizes
  <2> QED
    BY <2>1 DEF Overrun, Turns, MAX
<1>3. j <= MAX
  BY <1>2
<1> QED
  BY <1>1, <1>3 DEF Done

LEMMA SearchFindsWays ==
    ASSUME TypeOK, RowsWhole, NEW from \in Known, NEW to \in Known \ {from},
           NEW way, way = find_shortest_way(from, to), NEW R, R = Reached(Walks(from))
    PROVE  /\ way = Aborted <=> R = Stations /\ \E e \in Edges : e[2] = from
           /\ way # Aborted => (way # NoWay <=> to \in R)
<1> DEFINE s == Search(from, to)
           C == {from} \cup s.visited
<1>1. from \in Stations /\ to \in Stations /\ to # from
  BY DEF Known
<1>2. R \in SUBSET Stations /\ from \in R /\ Closed(R)
  BY <1>1, ReachedIsClosed
<1>3. IsQueue(s, from, R) /\ Done(s, MAX)
  BY <1>1, <1>2, SearchQueue
<1>4. s \in Searches /\ s.visited \subseteq R /\ s.visited \subseteq Led
  BY <1>3 DEF IsQueue
<1>w. \E n \in Nat : /\ Overrun(s) => way = Aborted
                     /\ ~Overrun(s) /\ s.distance[to] = -1 => way = NoWay
                     /\ ~Overrun(s) /\ s.distance[to] # -1 =>
                           \E at : LeadsBack(at, n, to, s) /\ way = [k \in 1..n + 1 |-> at[k - 1]]
  BY <1>4, WayFound
<1> HIDE DEF s
<1>5. Overrun(s) <=> s.visited = Stations
  <2>1. (Turns(s) > MAX => s.visited = Stations) /\ (s.visited = Stations => Turns(s) > MAX)
    BY <1>1, <1>2, <1>3, QueueBound
  <2> QED
    BY <2>1 DEF Overrun, Turns, MAX
<1>e. \A a, b \in Stations : b \in Open(a) <=> <<a, b>> \in Edges
  BY DEF Open, Edges
<1>6. CASE Overrun(s)
  <2>1. way = Aborted /\ R = Stations /\ from \in Led
    BY <1>1, <1>2, <1>4, <1>5, <1>6, <1>w
  <2>2. PICK a \in Stations : from \in Open(a)
    BY <2>1 DEF Led
  <2>3. <<a, from>> \in Edges /\ <<a, from>>[2] = from
    BY <1>1, <1>e, <2>2
  <2> QED
    BY <2>1, <2>3
<1>7. CASE ~Overrun(s)
  <2>1. \A x \in C : Open(x) \subseteq s.visited
    BY <1>1, <1>2, <1>3, <1>7, SearchedAll
  <2>2. R = C
    <3>1. from \in C /\ Closed(C)
      BY <2>1 DEF Closed
    <3> HIDE DEF C
    <3>2. R \subseteq C
      BY <1>1, <3>1, ReachedIsLeast
    <3> QED
      BY <1>2, <1>4, <3>2 DEF C
  <2>3. ~(R = Stations /\ \E e \in Edges : e[2] = from)
    <3> SUFFICES ASSUME R = Stations, NEW e \in Edges, e[2] = from PROVE FALSE
      OBVIOUS
    <3>1. e[1] \in Stations /\ from \in Open(e[1])
      BY <1>1 DEF Edges, Open
    <3>2. from \in s.visited
      BY <2>1, <2>2, <3>1
    <3> QED
      BY <1>5, <1>7, <2>2, <3>2
  <2>4. to \in R <=> s.distance[to] # -1
    <3>1. to \in Stations \ {from} /\ s.distance[to] \in Int
      BY <1>1, <1>4 DEF Searches
    <3>2. IF to \in s.visited THEN s.distance[to] >= 0 ELSE s.distance[to] = -1
      BY <1>3, <3>1 DEF IsQueue
    <3> QED
      BY <1>1, <2>2, <3>1, <3>2
  <2>5. NoWay # Aborted
    <3>1. <<-1>>[1] = -1 /\ <<-2>>[1] = -2
      OBVIOUS
    <3> QED
      BY <3>1 DEF NoWay, Aborted
  <2>6. ASSUME s.distance[to] # -1 PROVE way # NoWay /\ way # Aborted
    <3>0. PICK n \in Nat : \E at : LeadsBack(at, n, to, s) /\ way = [k \in 1..n + 1 |-> at[k - 1]]
      BY <1>7, <1>w, <2>6
    <3>1. PICK at : LeadsBack(at, n, to, s) /\ way = [k \in 1..n + 1 |-> at[k - 1]]
      BY <3>0
    <3>2. n + 1 \in 1..n + 1 /\ (n + 1) - 1 = n /\ at[n] = to
      BY <3>1 DEF LeadsBack
    <3>3. DOMAIN way = 1..n + 1 /\ way[n + 1] = to
      BY <3>1, <3>2
    <3>4. to # -1 /\ to # -2
      BY <1>1, Sizes
    <3>5. ASSUME NEW x, way = <<x>> PROVE x = to
      <4>1. DOMAIN way = 1..1 /\ way[1] = x
        BY <3>5
      <4>2. n + 1 \in 1..1
        BY <3>2, <3>3, <4>1
      <4>3. n + 1 = 1
        BY <4>2
      <4> QED
        BY <3>3, <4>1, <4>3
    <3> QED
      BY <3>4, <3>5 DEF NoWay, Aborted
  <2> QED
    BY <1>7, <1>w, <2>3, <2>4, <2>5, <2>6
<1> QED
  BY <1>6, <1>7

-----------------------------------------------------------------------------
(* The first file, if it joins no station to itself, leaves rows without   *)
(* holes; and the lengths of connections are those of their lines.         *)

LEMMA ConnectionPlace ==
    ASSUME NEW a \in Stations, NEW b \in Stations
    PROVE  convert_connection_to_idx(a, b) \in LengthIndices
<1>1. /\ a \in Nat /\ b \in Nat /\ a <= MAX - 1 /\ b <= MAX - 1 /\ MAX \in Nat /\ MAX - 1 \in Nat
      /\ MAX - 1 <= MAX /\ 0 \in 0..MAX
  BY Sizes
<1>2. a * MAX \in Nat /\ (MAX - 1) * MAX \in Nat
  BY ONLY <1>1
<1>3. a * MAX <= (MAX - 1) * MAX
  <2>1. CASE a = MAX - 1
    BY <1>2, <2>1
  <2>2. CASE a # MAX - 1
    <3>1. a < MAX - 1
      BY <1>1, <2>2
    <3>2. a * MAX + 0 <= (MAX - 1) * MAX
      BY ONLY <1>1, <3>1, RowsInOrder
    <3> QED
      BY <1>2, <3>2
  <2> QED
    BY <2>1, <2>2
<1>4. convert_connection_to_idx(a, b) = a * MAX + b /\ LengthIndices = 0..(MAX - 1) * MAX + (MAX - 1)
  BY DEF convert_connection_to_idx, LengthIndices, MAX
<1> DEFINE p == a * MAX
           q == (MAX - 1) * MAX
<1>5. p \in Nat /\ q \in Nat /\ p <= q
  BY <1>2, <1>3
<1> HIDE DEF p, q
<1>6. p + b \in 0..q + (MAX - 1)
  BY ONLY <1>1, <1>5
<1> QED
  BY <1>4, <1>6 DEF p, q

LEMMA ConnectionsApart ==
    ASSUME NEW a \in Stations, NEW b \in Stations, NEW x \in Stations, NEW y \in Stations,
           convert_connection_to_idx(a, b) = convert_connection_to_idx(x, y)
    PROVE  a = x /\ b = y
<1>1. /\ a \in Nat /\ b \in Nat /\ x \in Nat /\ y \in Nat /\ MAX \in Nat /\ a <= MAX /\ x <= MAX
      /\ b + 1 \in 0..MAX /\ y + 1 \in 0..MAX
  BY Sizes
<1>2. ASSUME NEW i \in Nat, NEW j \in Nat, NEW k \in Nat, k + 1 \in 0..MAX, i < j, j <= MAX
      PROVE  i * MAX + k < j * MAX /\ i * MAX \in Nat /\ j * MAX \in Nat
  <2>1. i * MAX + (k + 1) <= j * MAX /\ j * MAX \in Nat
    BY ONLY <1>1, <1>2, RowsInOrder
  <2>2. i * MAX \in Nat
    BY <1>1
  <2> QED
    BY <2>1, <2>2
<1>3. a * MAX \in Nat /\ x * MAX \in Nat /\ a * MAX + b = x * MAX + y
  BY <1>1 DEF convert_connection_to_idx, MAX
<1>4. ~(a < x)
  <2> SUFFICES ASSUME a < x PROVE FALSE
    OBVIOUS
  <2>1. a * MAX + b < x * MAX
    BY <1>1, <1>2
  <2> QED
    BY <1>1, <1>3, <2>1
<1>5. ~(x < a)
  <2> SUFFICES ASSUME x < a PROVE FALSE
    OBVIOUS
  <2>1. x * MAX + y < a * MAX
    BY <1>1, <1>2
  <2> QED
    BY <1>1, <1>3, <2>1
<1>6. a = x
  BY <1>1, <1>4, <1>5
<1> QED
  BY <1>1, <1>3, <1>6

\* Two stations with room for one more neighbour get it.
LEMMA StoreFits ==
    ASSUME NEW c \in Memory, NEW a \in Stations, NEW b \in Stations, a # b,
           NEW m \in 0..Row - 1, NEW n \in 0..Row - 1, m = c[CountCell(a)], n = c[CountCell(b)],
           NEW one, NEW two, NEW e, NEW d, StoredBy(c, d, a, b, one, two, e)
    PROVE  d[CountCell(a)] = m + 1 /\ d[CountCell(b)] = n + 1
<1> DEFINE A == CountCell(a)
           B == CountCell(b)
           P == Cell(a, m)
           Q == Cell(b, n)
           T == MAX * Row
           D == RowsAndCounts
<1>0. /\ one = [c EXCEPT ![Cell(a, m)] = b]
      /\ two = [one EXCEPT ![Cell(b, one[CountCell(b)])] = a]
      /\ e = [two EXCEPT ![CountCell(a)] = (@ + 1) % 256]
      /\ d = [e EXCEPT ![CountCell(b)] = (@ + 1) % 256]
  BY DEF StoredBy
<1>1. /\ T \in Nat /\ A \in D /\ B \in D /\ A = T + a /\ B = T + b /\ A # B
      /\ a \in Nat /\ b \in Nat /\ Row \in Nat /\ Row = MAX - 1 /\ MAX \in Nat /\ MAX <= 254
  <2>1. a \in Nat /\ b \in Nat
    BY Sizes
  <2> QED
    BY <2>1, Sizes, CountPlace
<1>2. P \in Nat /\ P < T /\ Q \in Nat /\ Q < T
  <2>1. m \in 0..Row /\ n \in 0..Row /\ m < Row /\ n < Row
    BY <1>1
  <2> QED
    BY <2>1, CellPlace
<1>3. P # A /\ P # B /\ Q # A /\ Q # B
  BY <1>1, <1>2
<1>4. c \in [D -> 0..255] /\ c[A] = m /\ c[B] = n
  BY DEF Memory
<1> HIDE DEF D, T, A, B, P, Q
<1>5. one \in [D -> Int] /\ one[A] = m /\ one[B] = n
  <2>1. one = [c EXCEPT ![P] = b]
    BY <1>0 DEF P
  <2>2. b \in Int /\ A \in D /\ B \in D /\ P # A /\ P # B
    BY <1>1, <1>3
  <2>3. c \in [D -> Int]
    BY <1>4
  <2> QED
    BY ONLY <1>4, <2>1, <2>2, <2>3
<1>6. two \in [D -> Int] /\ two[A] = m /\ two[B] = n
  <2>1. two = [one EXCEPT ![Q] = a]
    BY <1>0, <1>5 DEF B, Q
  <2>2. a \in Int /\ A \in D /\ B \in D /\ Q # A /\ Q # B
    BY <1>1, <1>3
  <2> QED
    BY ONLY <1>5, <2>1, <2>2
<1>7. (m + 1) % 256 = m + 1 /\ (n + 1) % 256 = n + 1
  BY <1>1
<1>8. e = [two EXCEPT ![A] = (two[A] + 1) % 256]
  BY <1>0 DEF A
<1>9. e \in [D -> Int] /\ e[A] = m + 1 /\ e[B] = n
  BY <1>1, <1>6, <1>7, <1>8
<1>10. d = [e EXCEPT ![B] = (e[B] + 1) % 256]
  BY <1>0 DEF B
<1>11. d[A] = m + 1 /\ d[B] = n + 1
  BY <1>1, <1>7, <1>9, <1>10
<1> QED
  BY <1>11 DEF A, B

NoHole(a) == \A k \in 0..Row - 1 : k < NeighbourCount(a) => Neighbour(a, k) # INVALID_STATION

FirstFile == loads <= 1 /\ \A l \in ToSet(accepted) : l[1] # l[2]

FileInv ==
    /\ loads = 0 => loader = "idle" /\ ~spilled
    /\ FirstFile => ~spilled /\ \A a \in Stations : NoHole(a)
    /\ \A a \in Stations : \A b \in Joined(a) : \E l \in ToSet(accepted) : l[3] = LengthAt(a, b)

LEMMA FileInit == Init => FileInv
<1> SUFFICES ASSUME Init PROVE FileInv
  OBVIOUS
<1>1. loader = "idle" /\ accepted = <<>> /\ spilled = FALSE /\ cells = [i \in RowsAndCounts |-> 0]
  BY DEF Init
<1>2. ASSUME NEW a \in Stations PROVE NeighbourCount(a) = 0 /\ Joined(a) = {}
  BY <1>1, CountPlace, NothingJoined DEF NeighbourCount
<1>3. ASSUME NEW a \in Stations PROVE NoHole(a)
  BY <1>2 DEF NoHole
<1> QED
  BY <1>1, <1>2, <1>3 DEF FileInv

LEMMA FileUntouched ==
    ASSUME FileInv, UNCHANGED <<cells, lengths, accepted, spilled, loads>>, loads = 0 => loader' = "idle"
    PROVE  FileInv'
<1>1. FirstFile' <=> FirstFile
  BY DEF FirstFile, ToSet
<1>2. ASSUME NEW a \in Stations PROVE (NoHole(a)' <=> NoHole(a)) /\ Joined(a)' = Joined(a)
  BY DEF NoHole, NeighbourCount, Neighbour, Joined, ToSet
<1>3. ASSUME NEW a \in Stations, NEW b \in Joined(a)' PROVE \E l \in ToSet(accepted)' : l[3] = LengthAt(a, b)'
  <2>1. PICK l \in ToSet(accepted) : l[3] = LengthAt(a, b)
    BY <1>2 DEF FileInv
  <2>2. LengthAt(a, b)' = LengthAt(a, b) /\ l \in ToSet(accepted)'
    BY DEF LengthAt, ToSet
  <2> QED
    BY <2>1, <2>2
<1> QED
  BY <1>1, <1>2, <1>3 DEF FileInv

LEMMA FileNetworkInit == ASSUME RailwayInv, FileInv, NetworkInit PROVE FileInv'
<1>1. /\ loads' = loads + 1 /\ accepted' = <<>>
      /\ cells' = [i \in DOMAIN cells |-> IF i < CountCell(0) THEN INVALID_STATION ELSE cells[i]]
      /\ spilled' = spilled
  BY DEF NetworkInit
<1>2. loads \in Nat /\ cells \in Memory
  BY BoundAssumption DEF RailwayInv, TypeOK, Memory
<1>3. \A a \in Stations : Joined(a)' = {}
  BY <1>1 DEF Joined, ToSet
<1>4. ASSUME FirstFile' PROVE ~spilled' /\ \A a \in Stations : NoHole(a)'
  <2>1. loads = 0
    BY <1>1, <1>2, <1>4 DEF FirstFile
  <2>2. loader = "idle" /\ ~spilled
    BY <2>1 DEF FileInv
  <2>3. ASSUME NEW a \in Stations PROVE NoHole(a)'
    <3>1. NeighbourCount(a) = 0
      BY <2>2 DEF RailwayInv, RowKept
    <3>2. CountCell(a) \in DOMAIN cells /\ ~(CountCell(a) < CountCell(0))
      BY <1>2, CountPlace, Sizes DEF Memory
    <3>3. NeighbourCount(a)' = 0
      BY <1>1, <3>1, <3>2 DEF NeighbourCount
    <3> QED
      BY <3>3 DEF NoHole
  <2> QED
    BY <1>1, <2>2, <2>3
<1>5. loads' # 0
  BY <1>1, <1>2
<1> QED
  BY <1>3, <1>4, <1>5 DEF FileInv

\* A row without holes has room for a neighbour it does not hold yet.
LEMMA RoomForOneMore ==
    ASSUME TypeOK, NEW a \in Stations, NEW b \in Stations, a # b, RowKept(a), NoHole(a),
           a \notin Joined(a), b \notin Joined(a)
    PROVE  NeighbourCount(a) \in 0..Row - 1
<1>1. Row \in Nat /\ MAX = Row + 1 /\ NeighbourCount(a) \in Nat /\ NeighbourCount(a) <= Row
  <2>1. cells \in Memory /\ CountCell(a) \in RowsAndCounts
    BY CountPlace DEF TypeOK, Memory
  <2>2. NeighbourCount(a) \in 0..255
    BY <2>1 DEF Memory, NeighbourCount
  <2>3. NeighbourCount(a) <= Row
    BY DEF RowKept
  <2>4. Row \in Nat /\ MAX = Row + 1
    BY Sizes
  <2> QED
    BY ONLY <2>2, <2>3, <2>4
<1> DEFINE n == NeighbourCount(a)
           real == {k \in 0..n - 1 : Neighbour(a, k) # INVALID_STATION}
<1>2. Cardinality(real) = Cardinality(Joined(a))
  BY KeptRowHolds
<1>3. real = 0..n - 1
  BY <1>1 DEF NoHole
<1>0. n \in Nat /\ n <= Row /\ n \in Int /\ n - 1 \in Int
  BY <1>1
<1> HIDE DEF n, real
<1>4. Cardinality(0..n - 1) = n
  <2>1. Cardinality(0..n - 1) = IF 0 > n - 1 THEN 0 ELSE (n - 1) - 0 + 1
    BY <1>0, FS_Interval
  <2> QED
    BY <1>0, <2>1
<1>5. Cardinality(Joined(a)) = n
  BY <1>2, <1>3, <1>4
<1>6. Joined(a) \in SUBSET Stations
  BY DEF Joined
<1> DEFINE J == Joined(a) \cup {a}
<1>7. Cardinality(J) = n + 1
  <2>1. IsFiniteSet(Joined(a))
    BY <1>6, StationsFinite
  <2> QED
    BY <1>5, <2>1, FS_AddElement
<1>8. J \in SUBSET Stations /\ J # Stations
  BY <1>6
<1>9. Cardinality(J) <= MAX /\ Cardinality(J) # MAX
  BY <1>8, StationsFinite
<1> HIDE DEF J
<1>10. n \in 0..Row - 1
  BY <1>0, <1>1, <1>7, <1>9
<1> QED
  BY <1>10 DEF n

LEMMA FileReadLine ==
    ASSUME RailwayInv, RailwayInv', FileInv, NEW l \in Lines, ReadLine(l[1], l[2], l[3])
    PROVE  FileInv'
<1>1. l \in Stations \X Stations \X (Length \ {0})
  BY LineAssumption
<1>2. PICK a \in Stations, b \in Stations, length \in Length : l = <<a, b, length>>
  BY <1>1
<1>3. ReadLine(a, b, length) /\ l[1] = a /\ l[2] = b /\ l[3] = length
  BY <1>2
<1>4. loader = "lines" /\ loads' = loads /\ loads # 0
  BY <1>3 DEF ReadLine, FileInv
<1>5. CASE Refused(a, b) \/ connection_exists(a, b) \/ connection_exists(b, a)
  <2>1. UNCHANGED <<cells, lengths, accepted, spilled, loads>>
    BY <1>3, <1>5 DEF ReadLine
  <2> QED
    BY ONLY <1>4, <2>1, FileInv, FileUntouched
<1>6. CASE ~(Refused(a, b) \/ connection_exists(a, b) \/ connection_exists(b, a))
  <2>1. /\ Store(a, b, length)
        /\ spilled' = (spilled \/ \E x \in {a, b} : cells'[CountCell(x)] > Row)
        /\ accepted' = <<l>> \o accepted
    BY <1>2, <1>3, <1>6 DEF ReadLine
  <2>2. /\ ToSet(accepted') = ToSet(accepted) \cup {l}
        /\ \A x \in Stations : Joined(x)' = Joined(x) \cup {y \in Stations : {l[1], l[2]} = {x, y}}
    <3>1. accepted \in Seq(Lines)
      BY DEF RailwayInv
    <3> QED
      BY ONLY <2>1, <3>1, l \in Lines, OneMoreLine
  <2>3. ASSUME NEW x \in Stations, NEW y \in Joined(x)' PROVE \E k \in ToSet(accepted') : k[3] = LengthAt(x, y)'
    <3>1. y \in Stations
      BY DEF Joined
    <3> DEFINE p == convert_connection_to_idx(x, y)
               q == convert_connection_to_idx(a, b)
               r == convert_connection_to_idx(b, a)
    <3>2. p \in LengthIndices /\ q \in LengthIndices /\ r \in LengthIndices
      BY <3>1, ConnectionPlace
    <3>3. lengths \in [LengthIndices -> Length] /\ lengths' = [lengths EXCEPT ![q] = length, ![r] = length]
      BY <2>1 DEF Store, RailwayInv, TypeOK
    <3>4. LengthAt(x, y)' = lengths'[p] /\ LengthAt(x, y) = lengths[p]
      BY DEF LengthAt
    <3>5. CASE {a, b} = {x, y}
      <4>1. p = q \/ p = r
        BY <3>5
      <4> HIDE DEF p, q, r
      <4>2. lengths'[p] = length
        BY ONLY <3>2, <3>3, <4>1
      <4>3. l \in ToSet(accepted') /\ l[3] = length
        BY <1>3, <2>2
      <4> QED
        BY <3>4, <4>2, <4>3
    <3>6. CASE {a, b} # {x, y}
      <4>1. y \in Joined(x)
        BY <1>3, <2>2, <3>6
      <4>2. p # q /\ p # r
        BY <3>1, <3>6, ConnectionsApart
      <4> HIDE DEF p, q, r
      <4>3. lengths'[p] = lengths[p]
        BY ONLY <3>2, <3>3, <4>2
      <4>4. PICK k \in ToSet(accepted) : k[3] = LengthAt(x, y)
        BY <4>1 DEF FileInv
      <4> QED
        BY <2>2, <3>4, <4>3, <4>4
    <3> QED
      BY <3>5, <3>6
  <2>4. ASSUME FirstFile' PROVE ~spilled' /\ \A x \in Stations : NoHole(x)'
    <3>1. a # b /\ FirstFile
      <4>1. loads' <= 1 /\ \A k \in ToSet(accepted') : k[1] # k[2]
        BY <2>4 DEF FirstFile, ToSet
      <4>2. \A k \in ToSet(accepted) : k \in ToSet(accepted')
        BY <2>2
      <4> QED
        BY <1>3, <1>4, <2>2, <4>1, <4>2 DEF FirstFile
    <3>2. ~spilled /\ \A x \in Stations : NoHole(x)
      BY <3>1 DEF FileInv
    <3>3. \A x \in Stations : RowKept(x)
      BY <3>2 DEF RailwayInv
    <3>4. \A x \in Stations : x \notin Joined(x)
      BY <3>1 DEF Joined, FirstFile
    <3>5. cells \in Memory /\ TypeOK
      BY DEF RailwayInv, TypeOK, Memory
    <3>6. b \notin Joined(a) /\ a \notin Joined(b)
      <4>1. ASSUME NEW x \in Stations, NEW y \in Joined(x) PROVE connection_exists(x, y)
        <5>1. PICK k \in 0..Row - 1 : k < NeighbourCount(x) /\ Neighbour(x, k) = y
          BY <3>3 DEF RowKept
        <5>2. NeighbourCount(x) \in 0..255 /\ Row \in Nat
          BY <3>5, CountPlace, Sizes DEF Memory, NeighbourCount
        <5>3. k \in 0..NeighbourCount(x) - 1
          BY <5>1, <5>2
        <5> QED
          BY <5>1, <5>3 DEF connection_exists
      <4> QED
        BY <1>6, <4>1
    <3> DEFINE m == NeighbourCount(a)
               n == NeighbourCount(b)
               c == cells
               d == cells'
    <3>7. m \in 0..Row - 1 /\ n \in 0..Row - 1
      BY <3>1, <3>2, <3>3, <3>4, <3>5, <3>6, RoomForOneMore
    <3>8. m = c[CountCell(a)] /\ n = c[CountCell(b)]
      BY DEF NeighbourCount
    <3>9. PICK one, two, e : StoredBy(c, d, a, b, one, two, e)
      BY ONLY <2>1, a \in Stations, b \in Stations, Stored
    <3>10. \A x \in Stations : NeighbourCount(x) = c[CountCell(x)] /\ NeighbourCount(x)' = d[CountCell(x)]
      BY DEF NeighbourCount
    <3>11. \A x \in Stations, k \in 0..Row - 1 : Neighbour(x, k) = c[Cell(x, k)] /\ Neighbour(x, k)' = d[Cell(x, k)]
      BY DEF Neighbour
    <3> HIDE DEF m, n, c, d
    <3>12. c \in Memory
      BY <3>5 DEF c
    <3>13. d[CountCell(a)] = m + 1 /\ d[CountCell(b)] = n + 1
      BY ONLY <3>1, <3>7, <3>8, <3>9, <3>12, a \in Stations, b \in Stations, StoreFits
    <3>14. Row \in Nat
      BY Sizes
    <3>15. m <= Row /\ n <= Row /\ m + 1 <= Row /\ n + 1 <= Row /\ m \in Nat /\ n \in Nat
      BY ONLY <3>7, <3>14
    <3>16. d[CountCell(a)] <= Row /\ d[CountCell(b)] <= Row
      BY <3>13, <3>15
    <3>17. /\ d[Cell(a, m)] = b /\ d[Cell(b, n)] = a /\ KeptBut(c, d, a, m, b, n)
      BY ONLY <3>1, <3>8, <3>9, <3>12, <3>15, <3>16, a \in Stations, b \in Stations, StoreApart
    <3>18. /\ \A x \in Stations : x # a /\ x # b => d[CountCell(x)] = c[CountCell(x)]
           /\ \A x \in Stations, k \in 0..Row - 1 :
                (x # a \/ k # m) /\ (x # b \/ k # n) => d[Cell(x, k)] = c[Cell(x, k)]
      BY <3>17 DEF KeptBut
    <3>19. ~spilled'
      <4>1. ~(d[CountCell(a)] > Row) /\ ~(d[CountCell(b)] > Row)
        BY ONLY <3>13, <3>14, <3>15
      <4> QED
        BY <2>1, <3>2, <4>1 DEF d
    <3>20. a # INVALID_STATION /\ b # INVALID_STATION
      BY Sizes DEF INVALID_STATION, MAX
    <3>21. ASSUME NEW x \in Stations PROVE NoHole(x)'
      <4> SUFFICES ASSUME NEW k \in 0..Row - 1, k < d[CountCell(x)] PROVE d[Cell(x, k)] # INVALID_STATION
        BY <3>10, <3>11 DEF NoHole
      <4>1. CASE x = a /\ k = m
        BY <3>17, <3>20, <4>1
      <4>2. CASE x = b /\ k = n
        BY <3>17, <3>20, <4>2
      <4>3. CASE (x # a \/ k # m) /\ (x # b \/ k # n)
        <5>1. d[Cell(x, k)] = c[Cell(x, k)]
          BY <3>18, <4>3
        <5>2. k < c[CountCell(x)]
          <6>1. CASE x = a
            BY <3>8, <3>13, <3>15, <4>3, <6>1
          <6>2. CASE x = b
            BY <3>8, <3>13, <3>15, <4>3, <6>2
          <6>3. CASE x # a /\ x # b
            BY <3>18, <6>3
          <6> QED
            BY <6>1, <6>2, <6>3
        <5>3. NoHole(x)
          BY <3>2
        <5>4. Neighbour(x, k) # INVALID_STATION
          BY <3>10, <5>2, <5>3 DEF NoHole
        <5> QED
          BY <3>11, <5>1, <5>4
      <4> QED
        BY <4>1, <4>2, <4>3
    <3> QED
      BY <3>19, <3>21
  <2> QED
    BY <1>4, <2>3, <2>4 DEF FileInv, ToSet
<1> QED
  BY <1>5, <1>6

LEMMA FileStep == RailwayInv /\ RailwayInv' /\ FileInv /\ [Next]_vars => FileInv'
<1> SUFFICES ASSUME RailwayInv, RailwayInv', FileInv, [Next]_vars PROVE FileInv'
  OBVIOUS
<1>1. CASE NetworkInit
  BY <1>1, FileNetworkInit
<1>2. CASE BadLine \/ (\E n \in StationCounts : ReadStations(n)) \/ (\E n \in 0..MaxLines : ReadConnections(n))
  <2>1. UNCHANGED <<cells, lengths, accepted, spilled, loads>> /\ loader # "idle"
    BY <1>2 DEF BadLine, ReadStations, ReadConnections
  <2>2. loads # 0
    BY <2>1 DEF FileInv
  <2> QED
    BY ONLY <2>1, <2>2, FileInv, FileUntouched
<1>3. ASSUME NEW l \in Lines, ReadLine(l[1], l[2], l[3]) PROVE FileInv'
  BY <1>3, FileReadLine
<1>4. CASE UNCHANGED vars
  <2>1. UNCHANGED <<cells, lengths, accepted, spilled, loads>> /\ loader' = loader
    BY <1>4 DEF vars
  <2>2. loads = 0 => loader' = "idle"
    BY <2>1 DEF FileInv
  <2> QED
    BY ONLY <2>1, <2>2, FileInv, FileUntouched
<1> QED
  BY <1>1, <1>2, <1>3, <1>4 DEF Next

LEMMA FileKept == Spec => [](RailwayInv /\ FileInv)
<1>1. Init => FileInv
  BY FileInit
<1>2. RailwayInv /\ RailwayInv' /\ FileInv /\ [Next]_vars => FileInv'
  BY FileStep
<1> QED
  BY <1>1, <1>2, RailwayKept, PTL DEF Spec

\* What Whole says of a file is enough for the search.
LEMMA WholeRows == ASSUME RailwayInv, FileInv, Whole PROVE RowsWhole
<1>1. FirstFile
  BY DEF Whole, FirstFile
<1>2. \A a \in Stations : NoHole(a) /\ RowKept(a)
  BY <1>1 DEF FileInv, RailwayInv
<1>3. ASSUME NEW a \in Stations
      PROVE  /\ NeighbourCount(a) \in Nat
             /\ \A k \in 1..NeighbourCount(a) : Neighbour(a, k - 1) \in Joined(a)
             /\ \A b \in Joined(a) : \E k \in 1..NeighbourCount(a) : Neighbour(a, k - 1) = b
  <2>1. NeighbourCount(a) \in 0..255
    <3>1. cells \in Memory /\ CountCell(a) \in RowsAndCounts
      BY CountPlace DEF RailwayInv, TypeOK, Memory
    <3> QED
      BY <3>1 DEF Memory, NeighbourCount
  <2>2. NoHole(a) /\ RowKept(a) /\ NeighbourCount(a) <= Row /\ Row \in Nat
    BY <1>2, Sizes DEF RowKept
  <2>3. ASSUME NEW k \in 1..NeighbourCount(a) PROVE Neighbour(a, k - 1) \in Joined(a)
    <3>1. k - 1 \in 0..Row - 1 /\ k - 1 < NeighbourCount(a)
      BY <2>1, <2>2
    <3> QED
      BY <2>2, <3>1 DEF NoHole, RowKept
  <2>4. ASSUME NEW b \in Joined(a) PROVE \E k \in 1..NeighbourCount(a) : Neighbour(a, k - 1) = b
    <3>1. PICK k \in 0..Row - 1 : k < NeighbourCount(a) /\ Neighbour(a, k) = b
      BY <2>2 DEF RowKept
    <3>2. k + 1 \in 1..NeighbourCount(a) /\ (k + 1) - 1 = k
      BY <2>1, <3>1
    <3> QED
      BY <3>1, <3>2
  <2> QED
    BY <2>1, <2>3, <2>4
<1>4. ASSUME NEW a \in Stations, NEW b \in Stations PROVE LengthAt(a, b) \in Nat
  <2>1. lengths \in [LengthIndices -> Length] /\ convert_connection_to_idx(a, b) \in LengthIndices
    BY ConnectionPlace DEF RailwayInv, TypeOK
  <2>2. LengthAt(a, b) \in Length
    BY <2>1 DEF LengthAt
  <2>3. Length \subseteq Nat
    BY DEF Length
  <2> QED
    BY ONLY <2>2, <2>3
<1> QED
  BY <1>3, <1>4 DEF RowsWhole

\* railway_network_find_shortest_way, on the network that a first file without loops
\* leaves, whatever the lengths: it writes past the end of visiting_order (railway.c:190)
\* exactly if it reaches every station there can be and can come back to the first;
\* otherwise it returns a way exactly if some walk leads there.
THEOREM SearchComplete == Spec => []SearchFinds
<1>1. RailwayInv /\ FileInv => SearchFinds
  <2> SUFFICES ASSUME RailwayInv, FileInv, Whole, NEW from \in Known, NEW to \in Known \ {from},
                      NEW way, way = find_shortest_way(from, to), NEW R, R = Reached(Walks(from))
      PROVE  /\ way = Aborted <=> R = Stations /\ \E e \in Edges : e[2] = from
             /\ ~(R = Stations /\ \E e \in Edges : e[2] = from) => (way # NoWay <=> to \in R)
    BY DEF SearchFinds
  <2>1. TypeOK /\ RowsWhole
    BY WholeRows DEF RailwayInv
  <2>2. /\ way = Aborted <=> R = Stations /\ \E e \in Edges : e[2] = from
        /\ way # Aborted => (way # NoWay <=> to \in R)
    BY <2>1, SearchFindsWays
  <2> QED
    BY <2>2
<1> QED
  BY <1>1, FileKept, PTL

-----------------------------------------------------------------------------
(* Connections of one length: the search is breadth first.                 *)

AllOfLength(L) == L \in Nat /\ \A a \in Stations : \A b \in Joined(a) : LengthAt(a, b) = L

Met(s, from) == {from} \cup s.visited

\* From s to u every station keeps what is known of it, and those that are new are
\* neighbours of current, L further away.
Spread(s, u, from, current, L) ==
    /\ \A x \in Met(s, from) : SameAt(s, u, x)
    /\ \A x \in u.visited \ Met(s, from) :
          x \in Open(current) /\ Improved(s, u, x, current, s.distance[current] + L)

LEMMA RelaxAllSpread ==
    ASSUME RowsWhole, NEW L, AllOfLength(L), NEW from \in Stations,
           NEW s, IsQueue(s, from, Stations), NEW current \in Met(s, from), s.distance[current] >= 0,
           \A x \in Met(s, from) : x \in Open(current) => s.distance[x] <= s.distance[current] + L,
           NEW u, u = RelaxAll(s, current)
    PROVE  Spread(s, u, from, current, L)
<1> DEFINE n == NeighbourCount(current)
           c == s.distance[current]
           K == Met(s, from)
           N(j) == Neighbour(current, j - 1)
           Good(t) == IsQueue(t, from, Stations) /\ s.visited \subseteq t.visited /\ Spread(s, t, from, current, L)
           G == [k \in 0..n |-> {t \in Searches : Good(t)}]
<1>1. current \in Stations /\ n \in Nat /\ s \in Searches /\ c \in Int /\ c >= 0 /\ L \in Nat
  BY DEF RowsWhole, IsQueue, Searches, AllOfLength, Met
<1>2. Good(s)
  <2>1. \A x : SameAt(s, s, x)
    BY DEF SameAt
  <2> QED
    BY <2>1 DEF Spread, Met
<1>3. \A x \in K : x \in Stations /\ s.distance[x] >= 0 /\ s.distance[x] \in Int
  BY <1>1 DEF IsQueue, Searches, Met
<1>4. ASSUME NEW k \in 1..n, NEW t \in Searches, Good(t) PROVE Good(Relax(t, current, c, k))
  <2> DEFINE r == Relax(t, current, c, k)
             b == N(k)
             d == c + LengthAt(current, b)
  <2>1. /\ b \in Stations /\ b \in Joined(current) /\ d \in Int /\ c <= d /\ r \in Searches
        /\ Overrun(t) \/ b \notin Open(current) => r = t
        /\ ~Overrun(t) /\ b \in Open(current) => LookedAt(t, r, b, current, d)
    BY ONLY RowsWhole, <1>1, t \in Searches, k \in 1..n, RelaxDoes
  <2>2. d = c + L /\ d >= 0
    <3>1. LengthAt(current, b) = L
      BY <1>1, <2>1 DEF AllOfLength
    <3> QED
      BY <1>1, <2>1, <3>1
  <2>3. IsQueue(t, from, Stations) /\ s.visited \subseteq t.visited /\ Spread(s, t, from, current, L)
    BY <1>4
  <2> HIDE DEF r, d, b
  <2>4. CASE Overrun(t) \/ b \notin Open(current)
    BY <1>4, <2>1, <2>4 DEF r
  <2>5. CASE ~Overrun(t) /\ b \in Open(current)
    <3>1. LookedAt(t, r, b, current, d)
      BY <2>1, <2>5
    <3>2. IsQueue(r, from, Stations) /\ t.visited \subseteq r.visited
      BY ONLY <1>1, <2>1, <2>2, <2>3, <2>5, <3>1, from \in Stations, LookedAtQueue DEF Grown
    <3>3. r.visited = t.visited \cup {b} /\ \A x \in Stations : x # b => SameAt(t, r, x)
      BY <3>1 DEF LookedAt
    <3>4. IF t.distance[b] = -1 \/ t.distance[b] > d THEN Improved(t, r, b, current, d) ELSE SameAt(t, r, b)
      BY <3>1 DEF LookedAt
    <3>5. /\ \A x \in K : SameAt(s, t, x)
          /\ \A x \in t.visited \ K : x \in Open(current) /\ Improved(s, t, x, current, d)
      BY <2>2, <2>3 DEF Spread
    <3>6. b \in K \/ b \in t.visited => SameAt(t, r, b)
      <4>1. CASE b \in K
        <5>1. t.distance[b] = s.distance[b] /\ s.distance[b] >= 0 /\ s.distance[b] \in Int
          BY <1>3, <3>5, <4>1 DEF SameAt
        <5>2. s.distance[b] <= d
          BY <2>2, <2>5, <4>1
        <5>3. ~(t.distance[b] = -1 \/ t.distance[b] > d)
          BY <2>1, <5>1, <5>2
        <5> QED
          BY <3>4, <5>3
      <4>2. CASE b \in t.visited \ K
        <5>1. t.distance[b] = d
          BY <3>5, <4>2 DEF Improved
        <5>2. ~(t.distance[b] = -1 \/ t.distance[b] > d)
          BY <2>1, <2>2, <5>1
        <5> QED
          BY <3>4, <5>2
      <4> QED
        BY <4>1, <4>2
    <3>7. b \notin K /\ b \notin t.visited => Improved(t, r, b, current, d)
      <4> SUFFICES ASSUME b \notin K, b \notin t.visited PROVE Improved(t, r, b, current, d)
        OBVIOUS
      <4>1. b \in Stations \ {from}
        BY <2>1 DEF Met
      <4>2. t.distance[b] = -1
        BY <2>3, <4>1 DEF IsQueue
      <4> QED
        BY <3>4, <4>2
    <3>8. ASSUME NEW x \in K PROVE SameAt(s, r, x)
      <4>1. SameAt(t, r, x)
        BY <1>3, <3>3, <3>6
      <4>2. SameAt(s, t, x)
        BY <3>5
      <4> QED
        BY <4>1, <4>2 DEF SameAt
    <3>9. ASSUME NEW x \in r.visited \ K PROVE x \in Open(current) /\ Improved(s, r, x, current, d)
      <4>0. t.shortest_path_length[current] = s.shortest_path_length[current]
        BY <3>5 DEF SameAt
      <4>1. CASE x \in t.visited
        <5>1. x \in Open(current) /\ Improved(s, t, x, current, d)
          BY <3>5, <3>9, <4>1
        <5>2. SameAt(t, r, x)
          <6>1. x \in Stations
            BY <2>3, <4>1 DEF IsQueue
          <6> QED
            BY <3>3, <3>6, <4>1, <6>1
        <5> QED
          BY <5>1, <5>2 DEF SameAt, Improved
      <4>2. CASE x \notin t.visited
        <5>1. x = b
          BY <3>3, <3>9, <4>2
        <5>2. Improved(t, r, b, current, d)
          BY <3>7, <3>9, <4>2, <5>1
        <5> QED
          BY <2>5, <4>0, <5>1, <5>2 DEF Improved
      <4> QED
        BY <4>1, <4>2
    <3>10. Spread(s, r, from, current, L)
      BY <2>2, <3>8, <3>9 DEF Spread
    <3> QED
      BY <2>3, <3>2, <3>10 DEF r
  <2> QED
    BY <2>4, <2>5
<1> HIDE DEF Good
<1>5. s \in G[0]
  BY <1>1, <1>2
<1>6. RelaxLeads(G, n, s, current)
  <2> SUFFICES ASSUME NEW k \in 1..n, NEW t \in G[k - 1] PROVE Relax(t, current, c, k) \in G[k]
    BY DEF RelaxLeads
  <2>1. k - 1 \in 0..n /\ k \in 0..n
    BY <1>1
  <2>2. t \in Searches /\ Good(t)
    BY <2>1
  <2>3. Good(Relax(t, current, c, k))
    BY <1>4, <2>2
  <2>4. Relax(t, current, c, k) \in Searches
    BY <2>3 DEF Good, IsQueue
  <2> QED
    BY <2>1, <2>3, <2>4
<1> HIDE DEF G
<1>7. u \in G[n]
  BY ONLY <1>1, <1>5, <1>6, u = RelaxAll(s, current), RelaxAllBy
<1>8. Good(u)
  BY <1>1, <1>7 DEF G
<1> QED
  BY <1>8 DEF Good

\* The entries of the queue but the second one from itself may get.
Real(s, from, j) == j = 1 \/ s.visiting_order[j] # from

DistanceAt(s, j) == s.distance[s.visiting_order[j]]

\* The queue is in the order of the distances, and none in it is more than one
\* connection further away than the next one to be visited.
InOrder(s, from, L, i) ==
    /\ \A j, k \in 1..Turns(s) :
          Real(s, from, j) /\ Real(s, from, k) /\ j <= k => DistanceAt(s, j) <= DistanceAt(s, k)
    /\ \A j, k \in 1..Turns(s) :
          j > i /\ Real(s, from, j) => DistanceAt(s, k) <= DistanceAt(s, j) + L

\* No neighbour of the first i stations is more than one connection further away.
Passed(s, L, i) ==
    \A j \in 1..Turns(s) : j <= i => \A x \in Open(s.visiting_order[j]) : s.distance[x] <= DistanceAt(s, j) + L

\* Every station was reached over an open connection from its previous one.
Linked(s, from, L) ==
    /\ s.shortest_path_length[from] = 0
    /\ \A x \in s.visited \ {from} :
          LET p == s.previous_station[x]
          IN  /\ p \in Met(s, from) /\ x \in Open(p)
              /\ s.distance[x] = s.distance[p] + L
              /\ s.shortest_path_length[x] = s.shortest_path_length[p] + 1

\* What the first i turns have come to, if the search got that far.
Breadth(s, from, L, i) ==
    /\ IsQueue(s, from, Stations) /\ Done(s, i)
    /\ \/ Overrun(s)
       \/ InOrder(s, from, L, i) /\ Passed(s, L, i) /\ Linked(s, from, L)

LEMMA StationsClosed == Closed(Stations)
BY DEF Closed, Open, Joined

LEMMA StartBreadth ==
    ASSUME NEW from \in Stations, NEW to \in Stations, to # from, NEW L \in Nat
    PROVE  Breadth(Start(from, to), from, L, 0)
<1> DEFINE s == Start(from, to)
<1>1. IsQueue(s, from, Stations) /\ Done(s, 0)
  BY StartQueue
<1>2. s.visiting_order = <<from>> /\ s.visited = {} /\ s.shortest_path_length = [x \in Stations |-> 0]
  BY DEF Start
<1>3. Turns(s) = 1 /\ s.distance[from] = 0
  BY <1>1, <1>2 DEF Turns, IsQueue
<1> HIDE DEF s
<1>4. \A j \in 1..1 : j = 1
  OBVIOUS
<1>5. DistanceAt(s, 1) = 0
  BY <1>2, <1>3 DEF DistanceAt
<1>6. InOrder(s, from, L, 0)
  BY <1>3, <1>4, <1>5 DEF InOrder
<1>7. Passed(s, L, 0)
  BY <1>3 DEF Passed
<1>8. Linked(s, from, L)
  BY <1>2 DEF Linked
<1> QED
  BY <1>1, <1>6, <1>7, <1>8 DEF Breadth, s

\* What the turn for current made of the queue.
LEMMA SpreadEntries ==
    ASSUME NEW from \in Stations, NEW s, IsQueue(s, from, Stations), NEW u, IsQueue(u, from, Stations),
           Grown(s, u), NEW current, NEW L, Spread(s, u, from, current, L)
    PROVE  /\ \A k \in 1..Turns(u) : k <= Turns(s) => /\ DistanceAt(u, k) = DistanceAt(s, k)
                                                      /\ (Real(u, from, k) <=> Real(s, from, k))
                                                      /\ u.visiting_order[k] = s.visiting_order[k]
                                                      /\ u.visiting_order[k] \in Met(s, from)
           /\ \A k \in 1..Turns(u) : k > Turns(s) =>
                 /\ u.visiting_order[k] \notin s.visited
                 /\ ~Real(u, from, k) => DistanceAt(u, k) = 0
                 /\ Real(u, from, k) => /\ u.visiting_order[k] \in Open(current)
                                        /\ DistanceAt(u, k) = s.distance[current] + L
<1> DEFINE v == s.visiting_order
           w == u.visiting_order
<1>1. Turns(s) \in Nat /\ Turns(u) \in Nat /\ Turns(s) >= 1 /\ v[1] = from /\ w[1] = from
  <2>1. v \in Seq(Stations) /\ w \in Seq(Stations)
    BY DEF IsQueue, Searches
  <2>2. Turns(s) \in Nat /\ Turns(u) \in Nat
    BY <2>1 DEF Turns
  <2> QED
    BY <2>2 DEF IsQueue
<1>2. /\ \A j \in 2..Turns(s) : v[j] \in s.visited
      /\ \A x \in s.visited : \E j \in 2..Turns(s) : v[j] = x
      /\ \A j \in 2..Turns(u) : w[j] \in u.visited
      /\ \A i, j \in 2..Turns(u) : w[i] = w[j] => i = j
      /\ u.distance[from] = 0
  BY DEF IsQueue
<1>3. Turns(s) <= Turns(u) /\ \A j \in 1..Turns(s) : w[j] = v[j]
  BY DEF Grown
<1>4. ASSUME NEW k \in 1..Turns(u), k <= Turns(s)
      PROVE  /\ DistanceAt(u, k) = DistanceAt(s, k) /\ (Real(u, from, k) <=> Real(s, from, k))
             /\ w[k] = v[k] /\ w[k] \in Met(s, from)
  <2>1. k \in 1..Turns(s) /\ w[k] = v[k]
    BY <1>1, <1>3, <1>4
  <2>2. v[k] \in Met(s, from)
    <3>1. k = 1 \/ k \in 2..Turns(s)
      BY <1>1, <2>1
    <3> QED
      BY <1>1, <1>2, <3>1 DEF Met
  <2>3. u.distance[v[k]] = s.distance[v[k]]
    BY <2>2 DEF Spread, SameAt
  <2> QED
    BY <2>1, <2>2, <2>3 DEF DistanceAt, Real
<1>5. ASSUME NEW k \in 1..Turns(u), k > Turns(s)
      PROVE  /\ w[k] \notin s.visited
             /\ ~Real(u, from, k) => DistanceAt(u, k) = 0
             /\ Real(u, from, k) => w[k] \in Open(current) /\ DistanceAt(u, k) = s.distance[current] + L
  <2>1. k \in 2..Turns(u) /\ k # 1
    BY <1>1, <1>5
  <2>2. w[k] \notin s.visited
    <3> SUFFICES ASSUME w[k] \in s.visited PROVE FALSE
      OBVIOUS
    <3>1. PICK j \in 2..Turns(s) : v[j] = w[k]
      BY <1>2
    <3>2. j \in 2..Turns(u) /\ j \in 1..Turns(s) /\ j # k
      BY <1>1, <1>3, <1>5
    <3>3. w[j] = w[k]
      BY <1>3, <3>1, <3>2
    <3> QED
      BY <1>2, <2>1, <3>2, <3>3
  <2>3. ASSUME Real(u, from, k) PROVE w[k] \in Open(current) /\ DistanceAt(u, k) = s.distance[current] + L
    <3>1. w[k] \in u.visited \ Met(s, from)
      BY <1>2, <2>1, <2>2, <2>3 DEF Real, Met
    <3> QED
      BY <3>1 DEF Spread, Improved, DistanceAt
  <2>4. ~Real(u, from, k) => DistanceAt(u, k) = 0
    BY <1>2 DEF Real, DistanceAt
  <2> QED
    BY <2>2, <2>3, <2>4
<1> QED
  BY <1>4, <1>5

LEMMA VisitBreadth ==
    ASSUME RowsWhole, NEW L, AllOfLength(L), NEW from \in Stations, NEW i \in Nat \ {0},
           NEW s, Breadth(s, from, L, i - 1)
    PROVE  Breadth(Visit(s, i), from, L, i)
<1> DEFINE v == s.visiting_order
           u == Visit(s, i)
           w == u.visiting_order
           T == Turns(s)
           U == Turns(u)
<1>0. IsQueue(s, from, Stations) /\ Done(s, i - 1)
  BY DEF Breadth
<1>2. T \in Nat /\ s \in Searches /\ L \in Nat /\ i \in Nat /\ i >= 1
  BY <1>0 DEF IsQueue, Searches, Turns, AllOfLength
<1>3. IsQueue(u, from, Stations) /\ Done(u, i)
  BY <1>0, StationsClosed, VisitQueue
<1>o. ASSUME Overrun(s) PROVE Overrun(u)
  BY <1>o DEF Visit
<1>q. Overrun(u) => Breadth(u, from, L, i)
  <2> HIDE DEF u
  <2> QED
    BY <1>3 DEF Breadth
<1> SUFFICES ASSUME ~Overrun(u) PROVE Breadth(u, from, L, i)
  BY <1>q
<1>1. /\ IsQueue(s, from, Stations) /\ Done(s, i - 1) /\ InOrder(s, from, L, i - 1)
      /\ Passed(s, L, i - 1) /\ Linked(s, from, L) /\ ~Overrun(s)
  BY <1>o DEF Breadth
<1>4. CASE i > T
  <2>1. u = s
    BY <1>4 DEF Visit, Turns
  <2>2. \A j \in 1..T : j <= i - 1 /\ ~(j > i)
    BY <1>2, <1>4
  <2>3. InOrder(s, from, L, i)
    BY <1>1, <2>2 DEF InOrder
  <2>4. Passed(s, L, i)
    BY <1>1, <2>2 DEF Passed
  <2>5. Done(s, i)
    BY <1>3, <2>1
  <2>6. Breadth(s, from, L, i)
    BY <1>1, <2>3, <2>4, <2>5 DEF Breadth
  <2> QED
    BY <2>1, <2>6
<1>5. CASE ~(i > T)
  <2> DEFINE current == v[i]
             c == s.distance[current]
             K == Met(s, from)
  <2>1. i \in 1..T /\ u = RelaxAll(s, current)
    BY <1>1, <1>2, <1>5 DEF Visit, Turns
  <2>2. current \in Stations /\ c >= 0 /\ c \in Int
    BY <1>1, <2>1, QueuedStation
  <2>3. Grown(s, u)
    BY <1>1, <2>1, <2>2, StationsClosed, RelaxAllQueue
  <2>4. /\ T >= 1 /\ v[1] = from /\ s.distance[from] = 0 /\ s.distance \in [Stations -> Int]
        /\ \A j \in 2..T : v[j] \in s.visited
        /\ \A i1, j \in 2..T : v[i1] = v[j] => i1 = j
    BY <1>1 DEF IsQueue, Turns, Searches
  <2>5. \A x \in K : \E k \in 1..T : v[k] = x
    BY <1>1, QueueEntries DEF Met
  <2>6. current \in K
    <3>1. i = 1 \/ i \in 2..T
      BY <1>2, <2>1
    <3> QED
      BY <2>4, <3>1 DEF Met
  <2>o. /\ \A j, k \in 1..T : Real(s, from, j) /\ Real(s, from, k) /\ j <= k => DistanceAt(s, j) <= DistanceAt(s, k)
        /\ \A j, k \in 1..T : j > i - 1 /\ Real(s, from, j) => DistanceAt(s, k) <= DistanceAt(s, j) + L
    BY <1>1 DEF InOrder
  <2>p. \A j \in 1..T : j <= i - 1 => \A x \in Open(v[j]) : s.distance[x] <= DistanceAt(s, j) + L
    BY <1>1 DEF Passed
  <2>c. DistanceAt(s, i) = c
    BY DEF DistanceAt
  <2>a. \A k \in 1..T : DistanceAt(s, k) \in Int /\ DistanceAt(s, k) >= 0
    BY <1>1, QueuedStation DEF DistanceAt
  <2>7. Real(s, from, i) => \A k \in 1..T : DistanceAt(s, k) <= c + L
    <3>1. i > i - 1
      BY <1>2
    <3> QED
      BY ONLY <2>1, <2>o, <2>c, <3>1
  <2>8. ~Real(s, from, i) => current = from /\ c = 0 /\ 1 \in 1..T /\ 1 <= i - 1 /\ DistanceAt(s, 1) = 0
    <3>1. 1 \in 1..T /\ DistanceAt(s, 1) = 0
      BY <1>2, <2>4 DEF DistanceAt
    <3>2. i # 1 => 1 <= i - 1
      BY <1>2
    <3> QED
      BY <2>4, <3>1, <3>2 DEF Real
  <2>9. ASSUME NEW x \in K, x \in Open(current) PROVE s.distance[x] <= c + L
    <3>1. CASE Real(s, from, i)
      <4>1. PICK k \in 1..T : v[k] = x
        BY <2>5
      <4> QED
        BY <2>7, <3>1, <4>1 DEF DistanceAt
    <3>2. CASE ~Real(s, from, i)
      <4>1. x \in Open(v[1]) /\ c = 0
        BY <2>4, <2>8, <2>9, <3>2
      <4>2. s.distance[x] <= DistanceAt(s, 1) + L
        BY <2>8, <2>p, <3>2, <4>1
      <4> QED
        BY <2>8, <3>2, <4>1, <4>2
    <3> QED
      BY <3>1, <3>2
  <2>10. Spread(s, u, from, current, L)
    BY ONLY RowsWhole, AllOfLength(L), from \in Stations, <1>1, <2>1, <2>2, <2>6, <2>9, RelaxAllSpread
  <2>11. /\ \A k \in 1..U : k <= T => /\ DistanceAt(u, k) = DistanceAt(s, k)
                                      /\ (Real(u, from, k) <=> Real(s, from, k))
                                      /\ w[k] = v[k] /\ w[k] \in K
         /\ \A k \in 1..U : k > T => /\ w[k] \notin s.visited
                                     /\ ~Real(u, from, k) => DistanceAt(u, k) = 0
                                     /\ Real(u, from, k) => w[k] \in Open(current) /\ DistanceAt(u, k) = c + L
    BY ONLY from \in Stations, <1>1, <1>3, <2>3, <2>10, SpreadEntries
  <2>12. U \in Nat /\ T <= U
    BY <1>3, <2>3 DEF IsQueue, Searches, Turns, Grown
  <2>13. \A k \in 1..U : DistanceAt(u, k) \in Int /\ DistanceAt(u, k) >= 0
    BY <1>3, QueuedStation DEF DistanceAt
  <2>14. ASSUME NEW k \in 1..U, k > T, Real(u, from, k) PROVE Real(s, from, i)
    <3> SUFFICES ASSUME ~Real(s, from, i) PROVE FALSE
      OBVIOUS
    <3>1. Open(v[1]) \subseteq s.visited /\ current = v[1]
      BY <1>1, <2>4, <2>8 DEF Done
    <3>2. w[k] \in Open(current) /\ w[k] \notin s.visited
      BY <2>11, <2>14
    <3> QED
      BY <3>1, <3>2
  <2> DEFINE E(k) == DistanceAt(s, k)
             F(k) == DistanceAt(u, k)
  <2> HIDE DEF u, v, w, T, U, current, c, K
  <2>15. ASSUME NEW j \in 1..U, NEW k \in 1..U, Real(u, from, j), Real(u, from, k), j <= k
         PROVE  F(j) <= F(k)
    <3>1. CASE k <= T
      <4>1. j \in 1..T /\ k \in 1..T
        BY <1>2, <2>12, <2>15, <3>1
      <4>2. Real(s, from, j) /\ Real(s, from, k) /\ F(j) = E(j) /\ F(k) = E(k)
        BY <1>2, <2>11, <2>12, <2>15, <3>1
      <4> QED
        BY <2>o, <2>15, <4>1, <4>2
    <3>2. CASE k > T
      <4>1. F(k) = c + L /\ Real(s, from, i)
        BY <2>11, <2>14, <2>15, <3>2
      <4>2. CASE j <= T
        <5>1. j \in 1..T /\ F(j) = E(j)
          BY <1>2, <2>11, <2>12, <4>2
        <5> QED
          BY <2>7, <4>1, <5>1
      <4>3. CASE j > T
        <5>1. F(j) = c + L
          BY <2>11, <2>15, <4>3
        <5> QED
          BY <2>13, <4>1, <5>1
      <4> QED
        BY <1>2, <2>12, <4>2, <4>3
    <3> QED
      BY <1>2, <2>12, <3>1, <3>2
  <2>16. ASSUME NEW j \in 1..U, j > i, Real(u, from, j) PROVE c <= F(j) /\ (Real(s, from, i) => c + L <= F(j) + L)
    <3>1. CASE Real(s, from, i)
      <4>1. i \in 1..U /\ i <= T
        BY <1>2, <2>1, <2>12
      <4>2. Real(u, from, i) /\ F(i) = c
        BY <2>11, <2>c, <4>1, <3>1
      <4>3. i <= j
        BY <1>2, <2>12, <2>16
      <4>4. F(i) <= F(j)
        BY <2>15, <2>16, <4>1, <4>2, <4>3
      <4>5. F(j) \in Int /\ c \in Int
        BY <2>2, <2>13
      <4> QED
        BY <1>2, <4>2, <4>4, <4>5
    <3>2. CASE ~Real(s, from, i)
      BY <2>8, <2>13, <3>2
    <3> QED
      BY <3>1, <3>2
  <2>17. ASSUME NEW j \in 1..U, NEW k \in 1..U, j > i, Real(u, from, j) PROVE F(k) <= F(j) + L
    <3>1. F(j) \in Int /\ F(k) \in Int /\ F(j) >= 0 /\ c <= F(j)
      BY <2>13, <2>16, <2>17
    <3>2. CASE k <= T
      <4>1. k \in 1..T /\ F(k) = E(k)
        BY <1>2, <2>11, <2>12, <3>2
      <4>2. CASE j <= T
        <5>1. j \in 1..T /\ F(j) = E(j) /\ Real(s, from, j) /\ j > i - 1
          BY <1>2, <2>11, <2>12, <2>17, <4>2
        <5> QED
          BY <2>o, <4>1, <5>1
      <4>3. CASE j > T
        <5>1. F(j) = c + L /\ Real(s, from, i)
          BY <2>11, <2>14, <2>17, <4>3
        <5>2. E(k) <= c + L
          BY <2>7, <4>1, <5>1
        <5> QED
          BY <1>2, <2>2, <3>1, <4>1, <5>1, <5>2
      <4> QED
        BY <1>2, <2>12, <4>2, <4>3
    <3>3. CASE k > T
      <4>1. CASE Real(u, from, k)
        <5>1. F(k) = c + L
          BY <2>11, <3>3, <4>1
        <5> QED
          BY <1>2, <2>2, <3>1, <5>1
      <4>2. CASE ~Real(u, from, k)
        <5>1. F(k) = 0
          BY <2>11, <3>3, <4>2
        <5> QED
          BY <1>2, <3>1, <5>1
      <4> QED
        BY <4>1, <4>2
    <3> QED
      BY <1>2, <2>12, <3>2, <3>3
  <2>18. InOrder(u, from, L, i)
    BY <2>15, <2>17 DEF InOrder, U
  <2>s. /\ \A x \in K : SameAt(s, u, x)
        /\ \A x \in u.visited \ K : x \in Open(current) /\ Improved(s, u, x, current, c + L)
    BY <2>10 DEF Spread, K, c
  <2>19. ASSUME NEW j \in 1..U, j <= i, NEW x \in Open(w[j]) PROVE u.distance[x] <= F(j) + L
    <3>1. j <= T /\ j \in 1..T
      BY <1>2, <2>1, <2>12, <2>19
    <3>2. w[j] = v[j] /\ F(j) = E(j)
      BY <2>11, <3>1
    <3>3. CASE j # i
      <4>1. j <= i - 1
        BY <1>2, <2>12, <2>19, <3>3
      <4>2. x \in s.visited
        BY <1>1, <2>19, <3>1, <3>2, <4>1 DEF Done, T, v
      <4>3. u.distance[x] = s.distance[x]
        BY <2>s, <4>2 DEF K, Met, SameAt
      <4> QED
        BY <2>p, <2>19, <3>1, <3>2, <4>1, <4>3
    <3>4. CASE j = i
      <4>1. x \in Open(current) /\ F(j) = c
        BY <2>c, <2>19, <3>2, <3>4 DEF current
      <4>2. x \in u.visited
        BY <1>3, <2>19 DEF Done, U, w
      <4>3. CASE x \in K
        BY <2>9, <2>s, <4>1, <4>3 DEF SameAt
      <4>4. CASE x \notin K
        <5>1. u.distance[x] = c + L
          BY <2>s, <4>2, <4>4 DEF Improved
        <5> QED
          BY <1>2, <2>2, <4>1, <5>1
      <4> QED
        BY <4>3, <4>4
    <3> QED
      BY <3>3, <3>4
  <2>20. Passed(u, L, i)
    BY <2>19 DEF Passed, U, w
  <2>21. Linked(u, from, L)
    <3>0. /\ s.shortest_path_length[from] = 0
          /\ \A x \in s.visited \ {from} :
                LET p == s.previous_station[x]
                IN  /\ p \in K /\ x \in Open(p)
                    /\ s.distance[x] = s.distance[p] + L
                    /\ s.shortest_path_length[x] = s.shortest_path_length[p] + 1
      BY <1>1 DEF Linked, K
    <3>1. u.shortest_path_length[from] = 0
      BY <2>s, <3>0 DEF K, Met, SameAt
    <3>2. K \subseteq Met(u, from)
      BY <2>3 DEF Grown, K, Met
    <3>3. ASSUME NEW x \in u.visited \ {from}
          PROVE  LET p == u.previous_station[x]
                 IN  /\ p \in Met(u, from) /\ x \in Open(p)
                     /\ u.distance[x] = u.distance[p] + L
                     /\ u.shortest_path_length[x] = u.shortest_path_length[p] + 1
      <4>1. CASE x \in s.visited
        <5> DEFINE p == s.previous_station[x]
        <5>1. /\ p \in K /\ x \in Open(p) /\ s.distance[x] = s.distance[p] + L
              /\ s.shortest_path_length[x] = s.shortest_path_length[p] + 1
          BY <3>0, <3>3, <4>1
        <5>2. SameAt(s, u, x) /\ SameAt(s, u, p)
          BY <2>s, <4>1, <5>1 DEF K, Met
        <5> QED
          BY <3>2, <5>1, <5>2 DEF SameAt
      <4>2. CASE x \notin s.visited
        <5>1. x \in Open(current) /\ Improved(s, u, x, current, c + L)
          BY <2>s, <3>3, <4>2 DEF K, Met
        <5>2. SameAt(s, u, current) /\ current \in K
          BY <2>6, <2>s
        <5> QED
          BY <3>2, <5>1, <5>2 DEF SameAt, Improved, c
      <4> QED
        BY <4>1, <4>2
    <3> QED
      BY <3>1, <3>3 DEF Linked
  <2> QED
    BY <1>3, <2>18, <2>20, <2>21 DEF Breadth, u
<1> QED
  BY <1>4, <1>5

LEMMA SearchBreadth ==
    ASSUME RowsWhole, NEW L, AllOfLength(L), NEW from \in Stations, NEW to \in Stations, to # from,
           NEW s, s = Search(from, to)
    PROVE  Breadth(s, from, L, MAX)
<1> DEFINE n == MAX
           G == [k \in 0..n |-> {t \in Searches : Breadth(t, from, L, k)}]
<1>1. n \in Nat /\ L \in Nat
  BY Sizes DEF AllOfLength
<1>2. Start(from, to) \in G[0]
  <2>1. Breadth(Start(from, to), from, L, 0)
    BY <1>1, StartBreadth
  <2> QED
    BY <1>1, <2>1 DEF Breadth, IsQueue
<1>3. SearchLeads(G, n)
  <2> SUFFICES ASSUME NEW k \in 1..n, NEW t \in G[k - 1] PROVE Visit(t, k) \in G[k]
    BY DEF SearchLeads
  <2>1. k - 1 \in 0..n /\ k \in 0..n /\ k \in Nat \ {0}
    BY <1>1
  <2>2. Breadth(t, from, L, k - 1)
    BY <2>1
  <2>3. Breadth(Visit(t, k), from, L, k)
    BY <2>1, <2>2, VisitBreadth
  <2> QED
    BY <2>1, <2>3 DEF Breadth, IsQueue
<1> HIDE DEF G
<1>4. s \in G[n]
  BY <1>1, <1>2, <1>3, SearchBy
<1> QED
  BY <1>1, <1>4 DEF G

-----------------------------------------------------------------------------
(* The way found with connections of one length, against all walks.        *)

\* No walk is shorter than the distance the search ends with, if it does end.
LEMMA NoWalkShorter ==
    ASSUME RowsWhole, NEW L, AllOfLength(L), NEW from \in Stations, NEW s,
           Breadth(s, from, L, MAX), ~Overrun(s)
    PROVE  \A p \in Walks(from) : p[1] \in Met(s, from) /\ s.distance[p[1]] <= p[2]
<1> DEFINE K == Met(s, from)
           Good(W) == \A p \in W : p[1] \in K /\ s.distance[p[1]] <= p[2]
           G == [i \in 0..Row |-> {W \in SUBSET (Stations \X Nat) : Good(W)}]
<1>0. Row \in Nat /\ L \in Nat
  BY Sizes DEF AllOfLength
<1>1. IsQueue(s, from, Stations) /\ Done(s, MAX) /\ Passed(s, L, MAX)
  BY DEF Breadth
<1>2. s.distance[from] = 0 /\ s.distance \in [Stations -> Int] /\ K \subseteq Stations
  BY <1>1 DEF IsQueue, Searches, Met
<1>3. ASSUME NEW a \in K, NEW x \in Open(a) PROVE x \in K /\ s.distance[x] <= s.distance[a] + L
  <2>1. x \in s.visited
    BY <1>1, <1>3, SearchedAll DEF Met
  <2>2. PICK j \in 1..Turns(s) : s.visiting_order[j] = a
    <3>1. \A y \in {from} \cup s.visited : \E j \in 1..Turns(s) : s.visiting_order[j] = y
      BY ONLY <1>1, from \in Stations, QueueEntries
    <3> QED
      BY <3>1 DEF Met
  <2>3. j <= MAX
    <3>1. Turns(s) \in Nat /\ MAX \in Nat
      BY <1>1, QueueBound, Sizes
    <3>2. Turns(s) <= MAX
      BY <3>1 DEF Overrun, Turns, MAX
    <3> QED
      BY <3>1, <3>2
  <2>4. s.distance[x] <= s.distance[a] + L
    BY <1>1, <1>3, <2>2, <2>3 DEF Passed, DistanceAt
  <2> QED
    BY <2>1, <2>4 DEF Met
<1>4. PICK w : WalksAre(w, from)
  BY WalksExist
<1>5. w[0] \in G[0]
  <2>1. w[0] = {<<from, 0>>} /\ w[0] \in SUBSET (Stations \X Nat)
    BY <1>0, <1>4 DEF WalksAre
  <2>2. from \in K
    BY DEF Met
  <2> HIDE DEF K
  <2>3. Good(w[0])
    BY <1>2, <2>1, <2>2
  <2> QED
    BY <1>0, <2>1, <2>3
<1> HIDE DEF K
<1>6. ASSUME NEW i \in 1..Row, w[i - 1] \in G[i - 1] PROVE w[i] \in G[i]
  <2>1. i - 1 \in 0..Row /\ i \in 0..Row
    BY <1>0
  <2>2. w[i] = Longer(w[i - 1], Edges) /\ w[i] \in SUBSET (Stations \X Nat) /\ w[i - 1] \in SUBSET (Stations \X Nat)
    BY <1>4, <2>1 DEF WalksAre
  <2>3. Good(w[i - 1])
    BY <1>6, <2>1
  <2>4. \A p \in w[i] : p \in w[i - 1] \/ \E q \in w[i - 1] : GoesOn(q, p)
    BY <2>2, LongerWalks
  <2>5. ASSUME NEW p \in w[i] PROVE p[1] \in K /\ s.distance[p[1]] <= p[2]
    <3>1. CASE p \in w[i - 1]
      BY <2>3, <3>1
    <3>2. CASE \E q \in w[i - 1] : GoesOn(q, p)
      <4>1. PICK q \in w[i - 1] : GoesOn(q, p)
        BY <3>2
      <4>2. q[1] \in K /\ s.distance[q[1]] <= q[2] /\ q[2] \in Nat
        BY <2>2, <2>3
      <4>3. p[1] \in Open(q[1]) /\ p[2] = q[2] + LengthAt(q[1], p[1])
        BY <4>1 DEF GoesOn
      <4>4. LengthAt(q[1], p[1]) = L
        BY <1>2, <4>2, <4>3 DEF AllOfLength, Open
      <4>5. p[1] \in K /\ s.distance[p[1]] <= s.distance[q[1]] + L
        BY <1>3, <4>2, <4>3
      <4>6. s.distance[p[1]] \in Int /\ s.distance[q[1]] \in Int
        BY <1>2, <4>2, <4>5
      <4> QED
        BY <1>0, <4>2, <4>3, <4>4, <4>5, <4>6
    <3> QED
      BY <2>4, <3>1, <3>2
  <2>6. Good(w[i])
    BY <2>5
  <2> QED
    BY <2>1, <2>2, <2>6
<1> HIDE DEF G
<1>7. \A i \in 0..Row : w[i] \in G[i]
  BY ONLY <1>0, <1>5, <1>6, StaysIn
<1>8. Good(Walks(from))
  BY <1>0, <1>4, <1>7 DEF G, WalksAre
<1> QED
  BY <1>8 DEF K

\* at[0], ..., at[n] lead over open connections from from on.
OnTheWay(at, n, s, from, L) ==
    /\ at[0] = from
    /\ \A k \in 0..n : at[k] \in Met(s, from) /\ s.shortest_path_length[at[k]] = k
    /\ \A k \in 1..n : at[k] \in Open(at[k - 1]) /\ s.distance[at[k]] = s.distance[at[k - 1]] + L

LEMMA WayIsOpen ==
    ASSUME NEW L, AllOfLength(L), NEW from \in Stations, NEW s, Breadth(s, from, L, MAX), ~Overrun(s),
           NEW to \in s.visited, to # from, NEW n, n = s.shortest_path_length[to],
           NEW at, LeadsBack(at, n, to, s)
    PROVE  OnTheWay(at, n, s, from, L) /\ n \in 0..Row
<1> DEFINE K == Met(s, from)
           spl == s.shortest_path_length
           prev == s.previous_station
<1>1. IsQueue(s, from, Stations) /\ Linked(s, from, L)
  BY DEF Breadth
<1>2. spl \in [Stations -> Nat] /\ s.visited \subseteq Stations /\ K \subseteq Stations
  BY <1>1 DEF IsQueue, Searches, Met
<1>3. n \in Nat
  BY <1>2
<1>4. /\ spl[from] = 0
      /\ \A x \in s.visited \ {from} : /\ prev[x] \in K /\ x \in Open(prev[x])
                                       /\ s.distance[x] = s.distance[prev[x]] + L
                                       /\ spl[x] = spl[prev[x]] + 1
  BY <1>1 DEF Linked
<1>5. at[n] = to /\ \A k \in 0..n - 1 : at[k] = prev[at[k + 1]]
  BY DEF LeadsBack
<1>6. spl[to] = n /\ to \in K
  BY DEF Met
<1>k. \A x \in K : x = from \/ x \in s.visited \ {from}
  BY DEF Met
<1> HIDE DEF K, spl, prev
<1>7. ASSUME NEW k \in 1..n, at[k] \in K, spl[at[k]] = k
      PROVE  /\ at[k - 1] \in K /\ spl[at[k - 1]] = k - 1
             /\ at[k] \in Open(at[k - 1]) /\ s.distance[at[k]] = s.distance[at[k - 1]] + L
  <2>1. at[k] # from
    BY <1>4, <1>7
  <2>2. k - 1 \in 0..n - 1 /\ (k - 1) + 1 = k
    BY <1>3
  <2>3. at[k - 1] = prev[at[k]]
    BY <1>5, <2>2
  <2>4. /\ at[k - 1] \in K /\ at[k] \in Open(at[k - 1]) /\ s.distance[at[k]] = s.distance[at[k - 1]] + L
        /\ spl[at[k]] = spl[at[k - 1]] + 1
    BY <1>4, <1>7, <1>k, <2>1, <2>3
  <2>5. spl[at[k - 1]] \in Nat
    BY <1>2, <2>4
  <2> QED
    BY <1>7, <2>4, <2>5
<1>8. \A k \in 0..n : at[k] \in K /\ spl[at[k]] = k
  <2> DEFINE Q == {j \in 0..n : at[n - j] \in K /\ spl[at[n - j]] = n - j}
  <2>1. 0 \in Q
    <3>1. n - 0 = n
      BY <1>3
    <3> QED
      BY <1>3, <1>5, <1>6, <3>1
  <2>2. ASSUME NEW j \in 1..n, j - 1 \in Q PROVE j \in Q
    <3>1. n - (j - 1) \in 1..n /\ n - (j - 1) - 1 = n - j /\ j \in 0..n
      BY <1>3
    <3>2. at[n - (j - 1)] \in K /\ spl[at[n - (j - 1)]] = n - (j - 1)
      BY <2>2
    <3>3. at[n - (j - 1) - 1] \in K /\ spl[at[n - (j - 1) - 1]] = n - (j - 1) - 1
      BY ONLY <1>7, <3>1, <3>2
    <3> QED
      BY <3>1, <3>3
  <2> HIDE DEF Q
  <2>3. \A j \in 0..n : j \in Q
    BY ONLY <1>3, <2>1, <2>2, UpTo
  <2>4. ASSUME NEW k \in 0..n PROVE at[k] \in K /\ spl[at[k]] = k
    <3>1. n - k \in 0..n /\ n - (n - k) = k
      BY <1>3
    <3>2. n - k \in Q
      BY <2>3, <3>1
    <3> QED
      BY <3>1, <3>2 DEF Q
  <2> QED
    BY <2>4
<1>9. at[0] = from
  <2>1. at[0] \in K /\ spl[at[0]] = 0
    BY <1>3, <1>8
  <2>2. ASSUME at[0] \in s.visited \ {from} PROVE FALSE
    <3>1. spl[prev[at[0]]] \in Nat /\ spl[at[0]] = spl[prev[at[0]]] + 1
      BY <1>2, <1>4, <2>2
    <3> QED
      BY <2>1, <3>1
  <2> QED
    BY <1>k, <2>1, <2>2
<1>10. \A k \in 1..n : at[k] \in Open(at[k - 1]) /\ s.distance[at[k]] = s.distance[at[k - 1]] + L
  <2>1. \A k \in 1..n : k \in 0..n
    BY <1>3
  <2> QED
    BY <1>7, <1>8, <2>1
<1>11. n \in 0..Row
  <2> DEFINE f == [k \in 0..n |-> at[k]]
             S == {at[k] : k \in 0..n}
  <2>1. S \in SUBSET Stations
    BY <1>2, <1>8
  <2>2. IsFiniteSet(0..n) /\ Cardinality(0..n) = n + 1
    <3>1. 0 \in Int /\ n \in Int
      BY <1>3
    <3>2. IsFiniteSet(0..n) /\ Cardinality(0..n) = IF 0 > n THEN 0 ELSE n - 0 + 1
      BY ONLY <3>1, FS_Interval
    <3> QED
      BY <1>3, <3>2
  <2>3. f \in Bijection(0..n, S)
    <3>1. f \in [0..n -> S]
      OBVIOUS
    <3>2. \A j, k \in 0..n : f[j] = f[k] => j = k
      BY <1>8
    <3>3. \A x \in S : \E k \in 0..n : f[k] = x
      OBVIOUS
    <3> HIDE DEF f, S
    <3> QED
      BY <3>1, <3>2, <3>3 DEF Bijection, Injection, Surjection, IsInjective
  <2>4. ExistsBijection(0..n, S)
    BY <2>3 DEF ExistsBijection
  <2>5. Cardinality(S) = n + 1
    BY <2>1, <2>2, <2>4, StationsFinite, FS_Bijection
  <2>6. Cardinality(S) <= MAX
    BY <2>1, StationsFinite
  <2>7. Row \in Nat /\ MAX = Row + 1
    BY Sizes
  <2> QED
    BY ONLY <1>3, <2>5, <2>6, <2>7
<1> QED
  BY <1>8, <1>9, <1>10, <1>11 DEF OnTheWay, K, spl

LEMMA WayIsWalk ==
    ASSUME RowsWhole, NEW L, AllOfLength(L), NEW from \in Stations, NEW s, IsQueue(s, from, Stations),
           NEW n \in 0..Row, NEW at, OnTheWay(at, n, s, from, L)
    PROVE  <<at[n], s.distance[at[n]]>> \in Walks(from)
<1> DEFINE p(i) == IF i <= n THEN <<at[i], s.distance[at[i]]>> ELSE <<at[n], s.distance[at[n]]>>
           f == [i \in 0..Row |-> p(i)]
<1>0. Row \in Nat /\ L \in Nat /\ n \in Nat /\ n <= Row
  BY Sizes DEF AllOfLength
<1>1. /\ at[0] = from /\ s.distance[from] = 0
      /\ \A k \in 0..n : at[k] \in Met(s, from)
      /\ \A k \in 1..n : at[k] \in Open(at[k - 1]) /\ s.distance[at[k]] = s.distance[at[k - 1]] + L
  BY DEF OnTheWay, IsQueue
<1>2. \A k \in 0..n : at[k] \in Stations /\ s.distance[at[k]] \in Nat
  <2>1. ASSUME NEW x \in Met(s, from) PROVE x \in Stations /\ s.distance[x] \in Nat
    BY DEF IsQueue, Searches, Met
  <2> QED
    BY <1>1, <2>1
<1>3. PICK w : WalksAre(w, from)
  BY WalksExist
<1>4. f[0] \in w[0]
  BY <1>0, <1>1, <1>3 DEF WalksAre
<1>5. ASSUME NEW i \in 1..Row, f[i - 1] \in w[i - 1] PROVE f[i] \in w[i]
  <2>1. i - 1 \in 0..Row /\ i \in 0..Row /\ f[i] = p(i) /\ f[i - 1] = p(i - 1)
    BY <1>0
  <2>2. w[i] = Longer(w[i - 1], Edges) /\ w[i - 1] \in SUBSET (Stations \X Nat)
    BY <1>3, <2>1 DEF WalksAre
  <2>3. w[i - 1] \subseteq w[i] /\ \A q \in w[i - 1], r \in Stations \X Nat : GoesOn(q, r) => r \in w[i]
    BY <2>2, LongerWalks
  <2>4. CASE i <= n
    <3> DEFINE q == <<at[i - 1], s.distance[at[i - 1]]>>
               r == <<at[i], s.distance[at[i]]>>
    <3>1. i \in 1..n /\ i \in 0..n /\ i - 1 \in 0..n /\ i - 1 <= n
      BY <1>0, <2>4
    <3>2. f[i] = r /\ f[i - 1] = q
      BY <2>1, <2>4, <3>1
    <3>3. at[i] \in Open(at[i - 1]) /\ s.distance[at[i]] = s.distance[at[i - 1]] + L
      BY <1>1, <3>1
    <3>4. LengthAt(at[i - 1], at[i]) = L
      BY <1>2, <3>1, <3>3 DEF AllOfLength, Open
    <3>5. GoesOn(q, r) /\ r \in Stations \X Nat
      BY <1>2, <3>1, <3>3, <3>4 DEF GoesOn
    <3> HIDE DEF q, r, f
    <3> QED
      BY <1>5, <2>3, <3>2, <3>5
  <2>5. CASE ~(i <= n)
    <3>1. f[i] = f[i - 1]
      <4>1. ~(i - 1 <= n) \/ i - 1 = n
        BY <1>0, <2>5
      <4> QED
        BY <2>1, <2>5, <4>1
    <3> HIDE DEF f
    <3> QED
      BY <1>5, <2>3, <3>1
  <2> QED
    BY <2>4, <2>5
<1>6. f[Row] = <<at[n], s.distance[at[n]]>>
  <2>1. Row \in 0..Row /\ (Row <= n => Row = n)
    BY <1>0
  <2>2. f[Row] = p(Row)
    BY <2>1
  <2> HIDE DEF f
  <2> QED
    BY <2>1, <2>2
<1> HIDE DEF f
<1>7. \A i \in 0..Row : f[i] \in w[i]
  BY ONLY <1>0, <1>4, <1>5, StaysIn
<1> QED
  BY <1>0, <1>3, <1>6, <1>7 DEF WalksAre

LEMMA WayHasLength ==
    ASSUME NEW L, AllOfLength(L), NEW from \in Stations, NEW s, IsQueue(s, from, Stations),
           NEW n \in Nat, NEW at, OnTheWay(at, n, s, from, L), NEW way, way = [k \in 1..n + 1 |-> at[k - 1]]
    PROVE  /\ way[1] = from /\ Len(way) = n + 1 /\ way[n + 1] = at[n]
           /\ LengthOf(way) = s.distance[at[n]]
<1> DEFINE d(i) == s.distance[at[i]]
           By(f) == f = [i \in 0..Len(way) - 1 |-> IF i = 0 THEN 0 ELSE f[i - 1] + LengthAt(way[i], way[i + 1])]
<1>1. /\ at[0] = from /\ d(0) = 0
      /\ \A k \in 0..n : at[k] \in Met(s, from)
      /\ \A k \in 1..n : at[k] \in Open(at[k - 1]) /\ d(k) = d(k - 1) + L
  BY DEF OnTheWay, IsQueue
<1>2. \A k \in 0..n : at[k] \in Stations
  <2>1. Met(s, from) \subseteq Stations
    BY DEF IsQueue, Searches, Met
  <2> QED
    BY <1>1, <2>1
<1>3. Len(way) = n + 1 /\ (n + 1) - 1 = n
  OBVIOUS
<1>4. way[1] = from /\ way[n + 1] = at[n]
  BY <1>1
<1>5. ASSUME NEW i \in 1..n PROVE LengthAt(way[i], way[i + 1]) = L
  <2>1. way[i] = at[i - 1] /\ way[i + 1] = at[i] /\ i - 1 \in 0..n
    OBVIOUS
  <2>2. at[i] \in Joined(at[i - 1]) /\ at[i - 1] \in Stations
    BY <1>1, <1>2, <2>1 DEF Open
  <2> HIDE DEF d
  <2> QED
    BY ONLY <2>1, <2>2, AllOfLength(L) DEF AllOfLength
<1>6. By([i \in 0..n |-> d(i)])
  <2> DEFINE f == [i \in 0..n |-> d(i)]
  <2>1. ASSUME NEW i \in 0..n PROVE f[i] = IF i = 0 THEN 0 ELSE f[i - 1] + LengthAt(way[i], way[i + 1])
    <3>1. CASE i = 0
      BY <1>1, <3>1
    <3>2. CASE i # 0
      <4>1. i \in 1..n /\ i - 1 \in 0..n
        BY <3>2
      <4> HIDE DEF d
      <4>2. f[i] = d(i) /\ f[i - 1] = d(i - 1)
        BY <4>1
      <4> HIDE DEF f
      <4> QED
        BY <1>1, <1>5, <3>2, <4>1, <4>2
    <3> QED
      BY <3>1, <3>2
  <2>2. f = [i \in 0..n |-> f[i]]
    OBVIOUS
  <2> HIDE DEF f
  <2>3. [i \in 0..n |-> f[i]] = [i \in 0..n |-> IF i = 0 THEN 0 ELSE f[i - 1] + LengthAt(way[i], way[i + 1])]
    BY <2>1
  <2>4. By(f)
    BY <1>3, <2>2, <2>3
  <2> QED
    BY <2>4 DEF f
<1> DEFINE g == CHOOSE g : By(g)
<1>7. By(g)
  BY <1>6
<1>8. LengthOf(way) = g[Len(way) - 1]
  BY DEF LengthOf
<1> HIDE DEF g, d
<1>9. g[0] = 0 /\ \A i \in 1..n : g[i] = g[i - 1] + L
  <2>1. g = [i \in 0..n |-> IF i = 0 THEN 0 ELSE g[i - 1] + LengthAt(way[i], way[i + 1])]
    BY <1>3, <1>7
  <2>2. 0 \in 0..n /\ \A i \in 1..n : i \in 0..n /\ i # 0
    OBVIOUS
  <2> QED
    BY ONLY <1>5, <2>1, <2>2
<1>10. \A i \in 0..n : g[i] = d(i)
  <2> DEFINE Q == {i \in 0..n : g[i] = d(i)}
  <2>1. 0 \in Q
    BY <1>1, <1>9
  <2>2. ASSUME NEW i \in 1..n, i - 1 \in Q PROVE i \in Q
    <3>1. g[i - 1] = d(i - 1) /\ i \in 0..n
      BY <2>2
    <3> QED
      BY <1>1, <1>9, <3>1
  <2> HIDE DEF Q
  <2>3. \A i \in 0..n : i \in Q
    BY ONLY n \in Nat, <2>1, <2>2, UpTo
  <2> QED
    BY <2>3 DEF Q
<1>11. LengthOf(way) = d(n)
  BY <1>3, <1>8, <1>10
<1> QED
  BY <1>3, <1>4, <1>11 DEF d

\* What Shortest chooses, where the least length to x is known.
LEMMA ShortestIs ==
    ASSUME NEW w \in SUBSET (Stations \X Nat), NEW x \in Stations, NEW d \in Nat, <<x, d>> \in w,
           \A v \in w : v[1] = x => d <= v[2]
    PROVE  Shortest(w, x) = d
<1> DEFINE Best(l) == <<x, l>> \in w /\ \A v \in w : v[1] = x => l <= v[2]
           D == {v[2] : v \in w}
           l0 == CHOOSE l \in D : Best(l)
<1>1. d \in D /\ Best(d)
  <2>1. <<x, d>>[2] = d
    OBVIOUS
  <2> QED
    BY <2>1
<1>2. l0 \in D /\ Best(l0)
  BY <1>1
<1>3. Shortest(w, x) = l0
  BY DEF Shortest
<1>4. l0 \in Nat
  BY <1>2
<1> HIDE DEF l0
<1>5. l0 <= d /\ d <= l0
  <2>1. <<x, d>>[1] = x /\ <<x, d>>[2] = d /\ <<x, l0>>[1] = x /\ <<x, l0>>[2] = l0
    OBVIOUS
  <2> QED
    BY <1>2, <2>1
<1> QED
  BY <1>3, <1>4, <1>5

LEMMA ShortestFound ==
    ASSUME TypeOK, RowsWhole, NEW L, AllOfLength(L), NEW from \in Known, NEW to \in Known \ {from},
           NEW way, way = find_shortest_way(from, to), way \notin {NoWay, Aborted}
    PROVE  way[1] = from /\ way[Len(way)] = to /\ LengthOf(way) = Shortest(Walks(from), to)
<1> DEFINE s == Search(from, to)
           n == s.shortest_path_length[to]
<1>1. from \in Stations /\ to \in Stations /\ to # from /\ to \in Known
  BY DEF Known
<1>2. Breadth(s, from, L, MAX)
  BY <1>1, SearchBreadth
<1>3. IsQueue(s, from, Stations) /\ s \in Searches
  BY <1>2 DEF Breadth, IsQueue
<1>4. /\ n \in Nat
      /\ Overrun(s) => way = Aborted
      /\ ~Overrun(s) /\ s.distance[to] = -1 => way = NoWay
      /\ ~Overrun(s) /\ s.distance[to] # -1 =>
            \E at : LeadsBack(at, n, to, s) /\ way = [k \in 1..n + 1 |-> at[k - 1]]
  BY <1>1, <1>3, WayFound
<1> HIDE DEF s, n
<1>5. PICK at : LeadsBack(at, n, to, s) /\ way = [k \in 1..n + 1 |-> at[k - 1]]
  BY <1>4
<1>r. ~Overrun(s)
  BY <1>4
<1>6. to \in s.visited
  <2>1. s.distance[to] # -1 /\ to \in Stations \ {from}
    BY <1>1, <1>4
  <2> QED
    BY <1>3, <2>1 DEF IsQueue
<1>7. n = s.shortest_path_length[to] /\ at[n] = to
  BY <1>5 DEF n, LeadsBack
<1>8. OnTheWay(at, n, s, from, L) /\ n \in 0..Row
  BY <1>1, <1>2, <1>r, <1>5, <1>6, <1>7, WayIsOpen
<1>9. <<to, s.distance[to]>> \in Walks(from)
  BY <1>1, <1>3, <1>7, <1>8, WayIsWalk
<1>10. way[1] = from /\ Len(way) = n + 1 /\ way[n + 1] = to /\ LengthOf(way) = s.distance[to]
  <2>1. /\ way[1] = from /\ Len(way) = n + 1 /\ way[n + 1] = at[n]
        /\ LengthOf(way) = s.distance[at[n]]
    BY ONLY AllOfLength(L), <1>1, <1>3, <1>4, <1>5, <1>8, WayHasLength
  <2> QED
    BY <1>7, <2>1
<1>11. \A v \in Walks(from) : v[1] = to => s.distance[to] <= v[2]
  BY <1>1, <1>2, <1>r, NoWalkShorter
<1>12. Walks(from) \in SUBSET (Stations \X Nat)
  <2>1. PICK w : WalksAre(w, from)
    BY <1>1, WalksExist
  <2>2. Row \in 0..Row
    BY Sizes
  <2> QED
    BY <2>1, <2>2 DEF WalksAre
<1>13. s.distance[to] \in Nat
  BY <1>9, <1>12
<1>14. Shortest(Walks(from), to) = s.distance[to]
  BY <1>1, <1>9, <1>11, <1>12, <1>13, ShortestIs
<1> QED
  BY <1>10, <1>14

\* railway_network_find_shortest_way, on the network that a first file without loops and
\* with lines of one length leaves: a way that it returns leads from the first station to the
\* second, and no walk of at most as many connections as there are other stations is
\* shorter, although no station is queued a second time.
THEOREM ShortestWhereEqual == Spec => []ShortestIfEqual
<1>1. RailwayInv /\ FileInv => ShortestIfEqual
  <2> SUFFICES ASSUME RailwayInv, FileInv, Whole, \A l, m \in ToSet(accepted) : l[3] = m[3],
                      NEW from \in Known, NEW to \in Known \ {from}, NEW way, way = find_shortest_way(from, to),
                      way \notin {NoWay, Aborted}
      PROVE  way[1] = from /\ way[Len(way)] = to /\ LengthOf(way) = Shortest(Walks(from), to)
    BY DEF ShortestIfEqual, AllWaysShortest
  <2>1. TypeOK /\ RowsWhole
    BY WholeRows DEF RailwayInv
  <2>2. \E L : AllOfLength(L)
    <3>1. \A a \in Stations : \A b \in Joined(a) : \E l \in ToSet(accepted) : l[3] = LengthAt(a, b)
      BY DEF FileInv
    <3>2. CASE ToSet(accepted) = {}
      <4>1. \A a \in Stations : Joined(a) = {}
        BY <3>1, <3>2
      <4>2. AllOfLength(0)
        BY <4>1 DEF AllOfLength
      <4> QED
        BY <4>2
    <3>3. CASE ToSet(accepted) # {}
      <4>1. PICK l \in ToSet(accepted) : TRUE
        BY <3>3
      <4>2. l[3] \in Nat
        <5>1. l \in Stations \X Stations \X (Length \ {0})
          BY <2>1, LineAssumption DEF TypeOK
        <5>2. Length \subseteq Nat
          BY DEF Length
        <5> QED
          BY ONLY <5>1, <5>2
      <4>3. AllOfLength(l[3])
        BY <3>1, <4>2 DEF AllOfLength
      <4> QED
        BY <4>3
    <3> QED
      BY <3>2, <3>3
  <2>3. PICK L : AllOfLength(L)
    BY <2>2
  <2> QED
    BY <2>1, <2>3, ShortestFound
<1> QED
  BY <1>1, FileKept, PTL
=============================================================================
