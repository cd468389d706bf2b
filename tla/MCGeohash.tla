----------------------------- MODULE MCGeohash -----------------------------
(***************************************************************************)
(* An instance of Geohash for TLC: a position in every cell of two         *)
(* characters; every corner of the cells of one character, with the points *)
(* beside it; precisions that are replaced; positions off the globe.       *)
(***************************************************************************)
EXTENDS Geohash

McHalf == 2^15
McMaxCuts == 15
McWidth == [n \in 0 .. McMaxCuts |-> 2^(16 - n)]

Middles == {k * 2^11 - 2^10 : k \in -15 .. 16}
Corners == {k * 2^13 + e : k \in -4 .. 4, e \in {-1, 0, 1}}
Few == {-Half, 0, 1, 12345, Half}

McCalls ==
    [lat : Middles, lng : Middles, precision : {2}]
        \cup [lat : Corners, lng : Corners, precision : {1}]
        \cup [lat : Few, lng : Few, precision : {-1, 0, 3, 5, 6, 13}]
=============================================================================
