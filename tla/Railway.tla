------------------------------- MODULE Railway -------------------------------
(***************************************************************************)
(* RetakePrep/Trains-L3: a railway network in shared memory, filled from a *)
(* file by create_railway and searched by find_shortest_way.  The memory   *)
(* is never unlinked, so a load finds what earlier ones left.  Arrays are  *)
(* laid out as in the struct: a row that is too long runs into the next    *)
(* one, and the lengths, indexed a * MAX + b, run past their end into      *)
(* connection_destroyed and the names of the trains.                       *)
(***************************************************************************)
EXTENDS Integers, Sequences, FiniteSets, SequencesExt

CONSTANTS MAX_STATION_COUNT,
          StationCounts, Lines, \* what a file may hold, lines as <<a, b, length>>
          MaxLines, MaxLoads    \* bounds: lines of a file, files loaded

INVALID_STATION      == MAX_STATION_COUNT
MAX_CONNECTION_COUNT == ((MAX_STATION_COUNT - 1) * MAX_STATION_COUNT) \div 2
Stations             == 0..MAX_STATION_COUNT - 1
Length               == 0..65535    \* what a uint16_t holds

\* A station_idx and a count that has outgrown its row are uint8_t.
ASSUME SizeAssumption == MAX_STATION_COUNT \in 3..254
ASSUME BoundAssumption == MaxLines \in Nat /\ MaxLoads \in Nat
ASSUME LineAssumption == StationCounts \subseteq 0..255 /\ Lines \subseteq Stations \X Stations \X (Length \ {0})

VARIABLES station_count,
          cells,        \* neighbour_list row by row, then neighbour_count
          lengths,      \* connection_lengths and the memory behind it, as uint16_t
          loader,       \* "idle", "stations", "connections", "lines", "loaded", "failed"
          left,         \* lines still to be read
          loads,        \* files loaded so far
          accepted,     \* history: lines this load accepted, newest first
          spilled       \* history: a count has outgrown its row

vars == <<station_count, cells, lengths, loader, left, loads, accepted, spilled>>

Row          == MAX_STATION_COUNT - 1
Cell(a, k)   == a * Row + k
CountCell(a) == MAX_STATION_COUNT * Row + a
NeighbourCount(a)   == cells[CountCell(a)]
Neighbour(a, k)     == cells[Cell(a, k)]
convert_connection_to_idx(a, b) == a * MAX_STATION_COUNT + b

\* What the program reaches by its rows and counts, and by its lengths.
RowsAndCounts == 0..CountCell(MAX_STATION_COUNT - 1)
LengthIndices == 0..convert_connection_to_idx(MAX_STATION_COUNT - 1, MAX_STATION_COUNT - 1)

\* connection_destroyed[i] is a byte of the memory the long indices write to.
Destroyed(i) ==
    LET word == lengths[MAX_CONNECTION_COUNT + i \div 2]
    IN  (IF i % 2 = 0 THEN word % 256 ELSE word \div 256) # 0

Init ==
    /\ station_count = 0 /\ loader = "idle" /\ left = 0 /\ loads = 0 /\ accepted = <<>> /\ spilled = FALSE
    /\ cells = [i \in RowsAndCounts |-> 0]
    /\ lengths = [i \in LengthIndices |-> 0]

-----------------------------------------------------------------------------
(* create_railway                                                          *)

\* railway_network_init, on a new object or on the one left by an earlier load.
\* railway_network_destroy only unmaps.
NetworkInit ==
    /\ loader \in {"idle", "loaded", "failed"} /\ loads < MaxLoads
    /\ loads' = loads + 1
    /\ station_count' = 0 /\ accepted' = <<>>
    /\ cells' = [i \in DOMAIN cells |-> IF i < CountCell(0) THEN INVALID_STATION ELSE cells[i]]
    /\ loader' = "stations"
    /\ UNCHANGED <<lengths, left, spilled>>

ReadStations(n) ==
    /\ loader = "stations" /\ station_count' = n
    /\ loader' = IF n = 0 THEN "failed" ELSE "connections"
    /\ UNCHANGED <<cells, lengths, left, loads, accepted, spilled>>

ReadConnections(n) ==
    /\ loader = "connections"
    /\ IF n = 0 \/ station_count > MAX_STATION_COUNT
       THEN loader' = "failed" /\ UNCHANGED left
       ELSE loader' = "lines" /\ left' = n
    /\ UNCHANGED <<station_count, cells, lengths, loads, accepted, spilled>>

Refused(a, b) == a > station_count \/ b > station_count

connection_exists(a, b) == \E k \in 0..NeighbourCount(a) - 1 : Neighbour(a, k) = b

\* fault: two-way only in the lengths
StoreOneWay(a, b, length) ==
    /\ cells' = [cells EXCEPT ![Cell(a, NeighbourCount(a))] = b, ![CountCell(a)] = (@ + 1) % 256]
    /\ lengths' = [lengths EXCEPT ![convert_connection_to_idx(a, b)] = length,
                                  ![convert_connection_to_idx(b, a)] = length]

\* The stores of railway_network_add_connection.  For a = b both entries are the
\* same one and the count still grows by two.
Store(a, b, length) ==
    LET one == [cells EXCEPT ![Cell(a, NeighbourCount(a))] = b]
        two == [one EXCEPT ![Cell(b, one[CountCell(b)])] = a]
        counted == [two EXCEPT ![CountCell(a)] = (@ + 1) % 256]
    IN  /\ cells' = [counted EXCEPT ![CountCell(b)] = (@ + 1) % 256]
        /\ lengths' = [lengths EXCEPT ![convert_connection_to_idx(a, b)] = length,
                                      ![convert_connection_to_idx(b, a)] = length]

\* Bound: the mutexes behind neighbour_count are not modelled.
InModel(a) == Cell(a, NeighbourCount(a)) \in DOMAIN cells

\* fault: the loop is not left after the last line
ReadLineOn(a, b, length) ==
    /\ loader = "lines" /\ InModel(a) /\ InModel(b)
    /\ ~Refused(a, b) /\ ~connection_exists(a, b) /\ ~connection_exists(b, a)
    /\ Store(a, b, length)
    /\ spilled' = (spilled \/ \E x \in {a, b} : cells'[CountCell(x)] > Row)
    /\ accepted' = <<<<a, b, length>>>> \o accepted
    /\ left' = left - 1
    /\ UNCHANGED <<station_count, loader, loads>>

ReadLine(a, b, length) ==
    /\ loader = "lines" /\ InModel(a) /\ InModel(b)
    /\ IF Refused(a, b) \/ connection_exists(a, b) \/ connection_exists(b, a)
       THEN loader' = "failed" /\ UNCHANGED <<cells, lengths, left, accepted, spilled>>
       ELSE /\ Store(a, b, length)
            /\ spilled' = (spilled \/ \E x \in {a, b} : cells'[CountCell(x)] > Row)
            /\ accepted' = <<<<a, b, length>>>> \o accepted
            /\ left' = left - 1
            /\ loader' = IF left' = 0 THEN "loaded" ELSE "lines"
    /\ UNCHANGED <<station_count, loads>>

\* A number is missing, or it is INVALID_STATION or length 0.
BadLine ==
    /\ loader = "lines" /\ loader' = "failed"
    /\ UNCHANGED <<station_count, cells, lengths, left, loads, accepted, spilled>>

Next ==
    \/ NetworkInit \/ BadLine
    \/ \E n \in StationCounts : ReadStations(n)
    \/ \E n \in 0..MaxLines : ReadConnections(n)
    \/ \E l \in Lines : ReadLine(l[1], l[2], l[3])

Spec == Init /\ [][Next]_vars

-----------------------------------------------------------------------------
(* railway_network_find_shortest_way: nobody calls it, so it is asked of   *)
(* every network the loads leave.                                          *)

\* The last entry was queued past the end of visiting_order: the build stops there
\* (-fsanitize=address), so that nothing after it changes the search.
Overrun(s) == Len(s.visiting_order) > MAX_STATION_COUNT

\* fault: the distance is not compared
RelaxAlways(s, current, current_distance, k) ==
    LET n   == Neighbour(current, k - 1)
        idx == convert_connection_to_idx(current, n)
        t   == IF n \in s.visited THEN s
               ELSE [s EXCEPT !.visited = @ \cup {n}, !.visiting_order = Append(@, n)]
    IN  IF Overrun(s) \/ Destroyed(idx) THEN s
        ELSE [t EXCEPT !.distance[n] = current_distance + lengths[idx], !.previous_station[n] = current,
                       !.shortest_path_length[n] = s.shortest_path_length[current] + 1]

\* One neighbour of the station being visited, whose distance was read before.
Relax(s, current, current_distance, k) ==
    LET n   == Neighbour(current, k - 1)
        idx == convert_connection_to_idx(current, n)
        d   == current_distance + lengths[idx]
        t   == IF n \in s.visited THEN s
               ELSE [s EXCEPT !.visited = @ \cup {n}, !.visiting_order = Append(@, n)]
    IN  IF Overrun(s) \/ Destroyed(idx) THEN s
        ELSE IF s.distance[n] = -1 \/ s.distance[n] > d
        THEN [t EXCEPT !.distance[n] = d, !.previous_station[n] = current,
                       !.shortest_path_length[n] = s.shortest_path_length[current] + 1]
        ELSE t

\* The loop over the neighbours of one station.
RelaxAll(s, current) ==
    LET relaxed[k \in 0..NeighbourCount(current)] ==
            IF k = 0 THEN s ELSE Relax(relaxed[k - 1], current, s.distance[current], k)
    IN  relaxed[NeighbourCount(current)]

\* fault: the loop ends one entry early
VisitNotLast(s, i) ==
    IF Overrun(s) \/ i >= Len(s.visiting_order) THEN s ELSE RelaxAll(s, s.visiting_order[i])

\* The main loop's i-th turn, if the queue is that long.
Visit(s, i) ==
    IF Overrun(s) \/ i > Len(s.visiting_order) THEN s ELSE RelaxAll(s, s.visiting_order[i])

Start(from, to) ==
    [visiting_order |-> <<from>>, visited |-> {},
     distance |-> [x \in Stations |-> IF x = from /\ x # to THEN 0 ELSE -1],
     previous_station |-> [x \in Stations |-> INVALID_STATION],
     shortest_path_length |-> [x \in Stations |-> 0]]

Search(from, to) ==
    LET turn[i \in 0..MAX_STATION_COUNT] == IF i = 0 THEN Start(from, to) ELSE Visit(turn[i - 1], i)
    IN  turn[MAX_STATION_COUNT]

NoWay   == <<-1>>
Aborted == <<-2>>

\* The stations of the way that find_shortest_way puts into path as pairs; NoWay for -1,
\* Aborted if it does not return.
find_shortest_way(from, to) ==
    LET s == Search(from, to)
        n == s.shortest_path_length[to]
        at[k \in 0..n] == IF k = n THEN to ELSE s.previous_station[at[k + 1]]
    IN  IF from > station_count \/ to > station_count THEN NoWay
        ELSE IF Overrun(s) THEN Aborted
        ELSE IF s.distance[to] = -1 THEN NoWay
        ELSE [k \in 1..n + 1 |-> at[k - 1]]

-----------------------------------------------------------------------------
\* The types of the variables.
TypeOK ==
    /\ station_count \in 0..255
    /\ cells \in [RowsAndCounts -> 0..255]
    /\ lengths \in [LengthIndices -> Length]
    /\ loader \in {"idle", "stations", "connections", "lines", "loaded", "failed"}
    /\ left \in 0..MaxLines /\ loads \in 0..MaxLoads
    /\ ToSet(accepted) \subseteq Lines /\ spilled \in BOOLEAN

Joined(a) == {b \in Stations : \E l \in ToSet(accepted) : {l[1], l[2]} = {a, b}}

\* Whatever earlier loads left in neighbour_count, the entries of a row that are
\* not INVALID are the neighbours this load gave the station, each of them once, on
\* both sides (railway.h: "Neighbours are not sorted but are unique"), unless a row
\* has already run into the next one.
RowsHoldTheLoad ==
    ~spilled =>
        \A a \in Stations :
            LET real == {k \in 0..NeighbourCount(a) - 1 : Neighbour(a, k) # INVALID_STATION}
            IN  /\ {Neighbour(a, k) : k \in real} = Joined(a)
                /\ Cardinality(real) = Cardinality(Joined(a))

\* No row has holes: nothing was loaded before, and no station joined to itself.
Whole == loader = "loaded" /\ loads = 1 /\ \A l \in ToSet(accepted) : l[1] # l[2]

\* Reference: <<x, l>> for every x that some walk of length l reaches, over what
\* does not look destroyed and in fewer steps than there are stations.
LengthAt(a, b) == lengths[convert_connection_to_idx(a, b)]
Edges == {e \in Stations \X Stations :
            e[2] \in Joined(e[1]) /\ ~Destroyed(convert_connection_to_idx(e[1], e[2]))}
Longer(w, edges) ==
    w \cup UNION {{<<e[2], v[2] + LengthAt(e[1], e[2])>> : e \in {f \in edges : f[1] = v[1]}} : v \in w}
Walks(from) ==
    LET edges == Edges
        walks[i \in 0..Row] == IF i = 0 THEN {<<from, 0>>} ELSE Longer(walks[i - 1], edges)
    IN  walks[Row]

Reached(w)     == {v[1] : v \in w}
Shortest(w, x) == CHOOSE l \in {v[2] : v \in w} : <<x, l>> \in w /\ \A v \in w : v[1] = x => l <= v[2]

Known == {x \in Stations : x <= station_count}
LengthOf(way) ==
    LET length[i \in 0..Len(way) - 1] ==
            IF i = 0 THEN 0 ELSE length[i - 1] + LengthAt(way[i], way[i + 1])
    IN  length[Len(way) - 1]

\* The search runs past visiting_order exactly if every station there can be is reached
\* and a connection leads back to the first, which is never marked and queued once more;
\* otherwise a way is found exactly if there is one.
SearchFinds ==
    Whole => \A from \in Known :
        LET walks == Walks(from)
            full  == Reached(walks) = Stations /\ \E e \in Edges : e[2] = from
        IN  \A to \in Known \ {from} :
                LET way == find_shortest_way(from, to)
                IN  /\ way = Aborted <=> full
                    /\ ~full => (way # NoWay <=> to \in Reached(walks))

AllWaysShortest ==
    \A from \in Known :
        LET walks == Walks(from)
        IN  \A to \in Known \ {from} :
                LET way == find_shortest_way(from, to)
                IN  way \notin {NoWay, Aborted} => /\ way[1] = from /\ way[Len(way)] = to
                                                   /\ LengthOf(way) = Shortest(walks, to)

\* Where all lines are of one length a way that is returned leads from the first to the
\* second station and none is shorter, although a station is never queued again.
ShortestIfEqual ==
    Whole /\ (\A l, m \in ToSet(accepted) : l[3] = m[3]) => AllWaysShortest

\* railway.h: "Functions found shortest way in network between two stations", and
\* the path's "first element has starting station as given from index".
ShortestWay == Whole => AllWaysShortest
=============================================================================
