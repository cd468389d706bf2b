------------------------------ MODULE Geohash ------------------------------
(***************************************************************************)
(* geohash.c.  The loops of geohash_encode and geohash_decode run one      *)
(* iteration a step: a position is encoded, the hash decoded, and the      *)
(* centre of the decoded box encoded again (which is what a client does    *)
(* that asks for a position /dump printed), or a neighbour decoded.        *)
(*                                                                         *)
(* Positions are integers on a grid fine enough for every midpoint of the  *)
(* bisection; the doubles of the code hold these midpoints exactly.  A     *)
(* hash is the sequence of its bits, five to a character: char_map, which  *)
(* names the 32 values of a character, is left out.                        *)
(***************************************************************************)
EXTENDS Integers, Sequences

CONSTANTS
    Half,       \* 90 degrees of latitude, 180 degrees of longitude
    MaxCuts,    \* how often an axis can be halved on this grid
    Width,      \* how wide that leaves it: a function of 0 .. MaxCuts
    Calls       \* what is encoded: [lat, lng, precision]

VARIABLES
    pc,         \* the loop that runs, or where it ended
    call,       \* the arguments of geohash_encode
    i,          \* iterations done
    box,        \* lat_interval and lng_interval
    hash,       \* the hash so far, or the one being decoded
    found,      \* the box that the first decoding found
    dir,        \* the direction of the neighbour, or "none"
    trail       \* ghost: the boxes the first encoding went through

vars == << pc, call, i, box, hash, found, dir, trail >>

(* A precision outside 1 .. 12 becomes 6. *)
Chars(precision) == IF precision < 1 \/ precision > 12 THEN 6 ELSE precision
Bits(c) == 5 * Chars(c.precision)

ASSUME HalvingAssumption ==
    /\ Half \in Nat \ {0} /\ MaxCuts \in Nat
    /\ Width \in [0 .. MaxCuts -> Nat \ {0}]
    /\ Width[0] = 2 * Half
    /\ \A n \in 0 .. MaxCuts - 1 : Width[n] = 2 * Width[n + 1]
    /\ Width[MaxCuts] % 2 = 0

ASSUME CallsAssumption ==
    /\ Calls \subseteq [lat : Int, lng : Int, precision : Int]
    /\ \A c \in Calls : Bits(c) <= 2 * MaxCuts

-----------------------------------------------------------------------------
(* Bit n (from 0) halves the longitude if n is even, else the latitude.    *)
AxisLatFirst(n) == IF n % 2 = 0 THEN "lat" ELSE "lng"    \* a mistake
Axis(n) == IF n % 2 = 0 THEN "lng" ELSE "lat"

Globe == [axis \in {"lat", "lng"} |-> [low |-> -Half, high |-> Half]]

(* One iteration of geohash_encode: the bit, and the half it stands for.   *)
(* The mistake: a position on a border goes up.                            *)
Mid(v) == (v.low + v.high) \div 2

BitAtLeast(b, axis, at) == IF at[axis] >= Mid(b[axis]) THEN 1 ELSE 0

Bit(b, axis, at) == IF at[axis] > Mid(b[axis]) THEN 1 ELSE 0

HalfOf(v, bit) == IF bit = 1 THEN [low |-> Mid(v), high |-> v.high]
                             ELSE [low |-> v.low, high |-> Mid(v)]
Halved(b, axis, bit) == [b EXCEPT ![axis] = HalfOf(@, bit)]

(* One iteration of geohash_decode, which halves the width instead. *)
Delta(v) == (v.high - v.low) \div 2

DescentOf(v, bit) == IF bit = 1 THEN [low |-> v.low + Delta(v), high |-> v.high]
                                ELSE [low |-> v.low, high |-> v.high - Delta(v)]
Descended(b, axis, bit) == [b EXCEPT ![axis] = DescentOf(@, bit)]

(* The mistake: the whole width is taken off. *)
CentreCorner(b) ==
    [axis \in {"lat", "lng"} |-> b[axis].high - (b[axis].high - b[axis].low)]

Centre(b) == [axis \in {"lat", "lng"} |-> b[axis].high - Delta(b[axis])]

-----------------------------------------------------------------------------
(* The tables of get_neighbor, with characters as values of char_map. *)
NORTH == 1
EAST == 2
SOUTH == 3
WEST == 4

even_neighbors ==
  << << 21, 0, 23, 2, 1, 4, 3, 6, 29, 8, 31, 10, 9, 12, 11, 14,
        5, 16, 7, 18, 17, 20, 19, 22, 13, 24, 15, 26, 25, 28, 27, 30 >>,
     << 10, 11, 0, 1, 14, 15, 4, 5, 2, 3, 8, 9, 6, 7, 12, 13,
        26, 27, 16, 17, 30, 31, 20, 21, 18, 19, 24, 25, 22, 23, 28, 29 >>,
     << 1, 4, 3, 6, 5, 16, 7, 18, 9, 12, 11, 14, 13, 24, 15, 26,
        17, 20, 19, 22, 21, 0, 23, 2, 25, 28, 27, 30, 29, 8, 31, 10 >>,
     << 2, 3, 8, 9, 6, 7, 12, 13, 10, 11, 0, 1, 14, 15, 4, 5,
        18, 19, 24, 25, 22, 23, 28, 29, 26, 27, 16, 17, 30, 31, 20, 21 >> >>

even_borders ==
  << {21, 23, 29, 31}, {10, 11, 14, 15, 26, 27, 30, 31},
     {0, 2, 8, 10}, {0, 1, 4, 5, 16, 17, 20, 21} >>

(* In a hash of odd length the axes change places, and so do the tables. *)
odd_neighbors == [d \in 1 .. 4 |-> even_neighbors[<< 2, 1, 4, 3 >>[d]]]
odd_borders == [d \in 1 .. 4 |-> even_borders[<< 2, 1, 4, 3 >>[d]]]

index_for_char(char, string) == CHOOSE n \in 0 .. 31 : string[n + 1] = char

CharAt(h, n) ==
    16 * h[5 * n - 4] + 8 * h[5 * n - 3] + 4 * h[5 * n - 2] + 2 * h[5 * n - 1]
       + h[5 * n]

BitsOf(char) ==
    << char \div 16, (char \div 8) % 2, (char \div 4) % 2, (char \div 2) % 2,
       char % 2 >>

(* Mistake: the parent cell is never changed. *)
get_neighborFlat(h, d) ==
    LET n == Len(h) \div 5
        table == IF n % 2 = 1 THEN odd_neighbors ELSE even_neighbors
    IN  {SubSeq(h, 1, 5 * (n - 1)) \o BitsOf(index_for_char(CharAt(h, n), table[d]))}

(* The hashes get_neighbor can return.  It recurs while the last character *)
(* lies on the border of its parent cell.  On the border of the globe it   *)
(* reaches the empty string, of which it reads the last character: it may  *)
(* then put nothing or any character in front.                             *)
get_neighbor(h, d) ==
    LET near[n \in 0 .. Len(h) \div 5] ==
          IF n = 0 THEN {<< >>} \cup {BitsOf(char) : char \in 0 .. 31}
          ELSE LET is_odd == n % 2 = 1
                   last   == CharAt(h, n)
                   border == IF is_odd THEN odd_borders ELSE even_borders
                   table  == IF is_odd THEN odd_neighbors ELSE even_neighbors
                   bases  == IF last \in border[d] THEN near[n - 1]
                             ELSE {SubSeq(h, 1, 5 * (n - 1))}
               IN  {base \o BitsOf(index_for_char(last, table[d])) : base \in bases}
    IN  near[Len(h) \div 5]

(* The eight neighbours; those at the corners are neighbours of neighbours. *)
geohash_neighbors(h) ==
    LET next(hashes, d) == UNION {get_neighbor(g, d) : g \in hashes}
        n == get_neighbor(h, NORTH)  e == get_neighbor(h, EAST)
        s == get_neighbor(h, SOUTH)  w == get_neighbor(h, WEST)
    IN  [N |-> n, NE |-> next(n, EAST), E |-> e, SE |-> next(e, SOUTH),
         S |-> s, SW |-> next(s, WEST), W |-> w, NW |-> next(w, NORTH)]

(* geohash_dimensions_for_precision, in units of the grid. *)
DimensionsEqual(precision) ==    \* a mistake: the axes get the same number of cuts
    [lat |-> Width[(precision * 5) \div 2], lng |-> Width[(precision * 5) \div 2]]

geohash_dimensions_for_precision(precision) ==
    [lat |-> Width[(precision * 5) \div 2],
     lng |-> Width[(precision * 5) \div 2 + (precision % 2)]]

-----------------------------------------------------------------------------
Init ==
    /\ pc = "encode" /\ call \in Calls
    /\ i = 0 /\ box = Globe /\ hash = << >>
    /\ found = Globe /\ dir = "none" /\ trail = << Globe >>

OnGlobe(c) == c.lat \in -Half .. Half /\ c.lng \in -Half .. Half

(* geohash_encode returns NULL for a position off the globe. *)
EncodeRefuses ==
    /\ pc = "encode" /\ ~OnGlobe(call)
    /\ pc' = "null"
    /\ UNCHANGED << call, i, box, hash, found, dir, trail >>

EncodeBit ==
    /\ pc = "encode" /\ OnGlobe(call) /\ i < Bits(call)
    /\ LET bit == Bit(box, Axis(i), call)
       IN  /\ hash' = Append(hash, bit)
           /\ box' = Halved(box, Axis(i), bit)
    /\ trail' = Append(trail, box')
    /\ i' = i + 1
    /\ UNCHANGED << pc, call, found, dir >>

(* A loop ends, and the decoding of the hash begins. *)
EncodeEnds ==
    /\ pc = "encode" /\ OnGlobe(call) /\ i = Bits(call)
    /\ pc' = "decode" /\ i' = 0 /\ box' = Globe
    /\ UNCHANGED << call, hash, found, dir, trail >>

DecodeBit ==
    /\ pc \in {"decode", "walk"} /\ i < Len(hash)
    /\ box' = Descended(box, Axis(i), hash[i + 1])
    /\ i' = i + 1
    /\ UNCHANGED << pc, call, hash, found, dir, trail >>

DecodeEnds ==
    /\ pc = "decode" /\ i = Len(hash)
    /\ pc' = "decoded" /\ found' = box
    /\ UNCHANGED << call, i, box, hash, dir, trail >>

(* From a decoded hash: its centre is encoded, or a neighbour decoded. *)
AgainBegins ==
    /\ pc = "decoded"
    /\ pc' = "again" /\ i' = 0 /\ box' = Globe
    /\ UNCHANGED << call, hash, found, dir, trail >>

(* The bit of the second encoding is compared, not stored. *)
AgainBit ==
    /\ pc = "again" /\ i < Bits(call)
    /\ LET bit == Bit(box, Axis(i), Centre(found))
       IN  /\ pc' = IF bit = hash[i + 1] THEN "again" ELSE "differs"
           /\ box' = Halved(box, Axis(i), bit)
    /\ i' = i + 1
    /\ UNCHANGED << call, hash, found, dir, trail >>

WalkBegins ==
    /\ pc = "decoded"
    /\ LET near == geohash_neighbors(hash)
       IN  \E d \in DOMAIN near : dir' = d /\ hash' \in near[d]
    /\ pc' = "walk" /\ i' = 0 /\ box' = Globe
    /\ UNCHANGED << call, found, trail >>

Next ==
    \/ EncodeRefuses \/ EncodeBit \/ EncodeEnds
    \/ DecodeBit \/ DecodeEnds
    \/ AgainBegins \/ AgainBit \/ WalkBegins

Spec == Init /\ [][Next]_vars

-----------------------------------------------------------------------------
(* Shapes of the variables.  On an axis halved n times the interval is      *)
(* Width[n] wide, in every loop.                                           *)
Cuts(axis, n) == IF axis = "lng" THEN (n + 1) \div 2 ELSE n \div 2

Offset ==    \* where a neighbour lies: [lat, lng], in cells
    [N |-> << 1, 0 >>, NE |-> << 1, 1 >>, E |-> << 0, 1 >>, SE |-> << -1, 1 >>,
     S |-> << -1, 0 >>, SW |-> << -1, -1 >>, W |-> << 0, -1 >>, NW |-> << 1, -1 >>]

IsBox(b) == b \in [{"lat", "lng"} -> [low : Int, high : Int]]

TypeOK ==
    /\ pc \in {"encode", "null", "decode", "decoded", "again", "differs", "walk"}
    /\ call \in Calls /\ i \in Nat
    /\ hash \in Seq({0, 1})
    /\ dir \in {"none"} \cup DOMAIN Offset
    /\ IsBox(box) /\ IsBox(found)
    /\ pc # "walk" =>
         /\ i <= Bits(call)
         /\ \A axis \in {"lat", "lng"} :
              box[axis].high - box[axis].low = Width[Cuts(axis, i)]

(* The box of a hash holds the position that was hashed (geohash_encode    *)
(* and geohash_decode agree on the order of the bits and of the axes).     *)
(* Boxes are closed to the north and east, but for the edge of the globe.  *)
Holds(b, at) ==
    \A axis \in {"lat", "lng"} :
        /\ \/ b[axis].low < at[axis]
           \/ b[axis].low = at[axis] /\ at[axis] = -Half
        /\ at[axis] <= b[axis].high

BoxHoldsPosition == pc = "decoded" => Holds(box, call)

(* The centre of the box, which /dump prints, has the hash of the box.     *)
CentreReturns == pc # "differs"

(* The box has the dimensions geohash_dimensions_for_precision gives.      *)
DimensionsAgree ==
    pc = "decoded" =>
        \A axis \in {"lat", "lng"} :
            box[axis].high - box[axis].low =
                geohash_dimensions_for_precision(Chars(call.precision))[axis]

(* Cells lie on a regular grid: a position's cell is found by one division *)
(* (the reference that the bisection of geohash_encode is checked against). *)
Column(x, n) == IF x = -Half THEN 0 ELSE (x + Half - 1) \div Width[n]

CellsFormGrid ==
    pc = "decoded" =>
        \A axis \in {"lat", "lng"} :
            LET n == Cuts(axis, Bits(call))
            IN  box[axis].low = Column(call[axis], n) * Width[n] - Half

(* A neighbour lies next to the cell, on the side it was asked for, and is *)
(* as large (the tables of get_neighbor, its recursion into the parent     *)
(* cell), except across the globe's edge.                                  *)
NeighbourTouches ==
    pc = "walk" /\ i = Len(hash) =>
        LET moved(v, k) == [low  |-> v.low + k * (v.high - v.low),
                            high |-> v.high + k * (v.high - v.low)]
            beside == [lat |-> moved(found.lat, Offset[dir][1]),
                       lng |-> moved(found.lng, Offset[dir][2])]
        IN  (\A axis \in {"lat", "lng"} :
                beside[axis].low >= -Half /\ beside[axis].high <= Half)
              => box = beside
=============================================================================
