---------------------------- MODULE Graph_proofs ----------------------------
(***************************************************************************)
(* Theorems about Graph for any width of int and any coordinates whose     *)
(* products it holds.                                                      *)
(***************************************************************************)
EXTENDS Graph, WellFoundedInduction, TLAPS

-----------------------------------------------------------------------------
(* Products. *)

LEMMA ProductNat == ASSUME NEW a \in Nat, NEW b \in Nat PROVE a * b \in Nat
  OBVIOUS

LEMMA ProductLe ==
  ASSUME NEW a \in Nat, NEW b \in Int, NEW c \in Int, b <= c
  PROVE  a * b <= a * c /\ b * a <= c * a
  OBVIOUS

LEMMA ProductLess ==
  ASSUME NEW a \in Nat, a # 0, NEW b \in Int, NEW c \in Int, b < c
  PROVE  a * b < a * c /\ b * a < c * a
  OBVIOUS

LEMMA ProductTells ==
  ASSUME NEW a \in Nat, NEW b \in Int, NEW c \in Int, a * b < a * c
  PROVE  b < c
  OBVIOUS

LEMMA SquareLe ==
  ASSUME NEW a \in Nat, NEW b \in Nat, a <= b
  PROVE  a * a <= b * b
  OBVIOUS

LEMMA SquareTells ==
  ASSUME NEW a \in Nat, NEW b \in Nat, a * a < b * b
  PROVE  a < b
  OBVIOUS

LEMMA TwoProducts ==
  ASSUME NEW a \in Int, NEW b \in Int
  PROVE  2 * (a * b) <= a * a + b * b
  OBVIOUS

-----------------------------------------------------------------------------
(* Numbers as int keeps and divides them, and roots. *)

LEMMA IntKeeps ==
  ASSUME NEW n \in Int, -IntLimit <= n, n < IntLimit
  PROVE  ToInt(n) = n
<1>1. IntLimit \in Nat /\ n + IntLimit \in 0 .. 2 * IntLimit - 1
  BY GraphAssumption
<1>2. (n + IntLimit) % (2 * IntLimit) = n + IntLimit
  BY <1>1
<1> QED
  BY <1>1, <1>2 DEF ToInt

LEMMA SqrtIs ==
  ASSUME NEW n \in Nat
  PROVE  /\ Sqrt(n) \in 0 .. n
         /\ Sqrt(n) * Sqrt(n) <= n /\ n < (Sqrt(n) + 1) * (Sqrt(n) + 1)
<1> DEFINE above == {k \in Nat : n < (k + 1) * (k + 1)}
<1>1. n \in above
  BY ProductNat
<1>2. \E k \in above : \A j \in above : ~(<<j, k>> \in OpToRel(<, Nat))
  BY <1>1, NatLessThanWellFounded, WFMin
<1>3. PICK r \in above : \A j \in above : ~(j < r)
  BY <1>2 DEF OpToRel
<1>4. r \in Nat /\ n < (r + 1) * (r + 1)
  BY <1>3
<1>5. r * r <= n
  <2>1. CASE r = 0
    BY <2>1
  <2>2. CASE r # 0
    <3>1. r - 1 \in Nat /\ r - 1 < r /\ r - 1 + 1 = r
      BY <1>4, <2>2
    <3>2. ~(n < r * r)
      BY <1>3, <3>1
    <3> QED
      BY <1>4, <3>2
  <2> QED
    BY <2>1, <2>2
<1>6. r \in 0 .. n
  <2>1. r <= r * r
    BY <1>4
  <2> QED
    BY <1>4, <1>5, <2>1
<1> QED
  BY <1>4, <1>5, <1>6 DEF Sqrt

LEMMA DivIs ==
  ASSUME NEW n \in Nat, NEW d \in Nat, d # 0
  PROVE  /\ n \div d \in Nat /\ (n \div d) * d <= n /\ n < ((n \div d) + 1) * d
         /\ n \div d <= n
  OBVIOUS

-----------------------------------------------------------------------------
(* A segment, as far as the lengths of its sides tell. *)

Sides(a, b, f) ==
  /\ a \in Nat /\ b \in Nat /\ f \in Nat /\ f # 0
  /\ f * f <= a * a + b * b /\ a * a + b * b < (f + 1) * (f + 1)

LEMMA SidesWithinLength ==
  ASSUME NEW a, NEW b, NEW f, Sides(a, b, f)
  PROVE  a <= f /\ b <= f /\ f <= a + b
<1>1. /\ a \in Nat /\ b \in Nat /\ f \in Nat
      /\ f * f <= a * a + b * b /\ a * a + b * b < (f + 1) * (f + 1)
      /\ a * a \in Nat /\ b * b \in Nat /\ a * b \in Nat
  BY ProductNat DEF Sides
<1>2. a < f + 1 /\ b < f + 1
  BY <1>1, SquareTells
<1>3. f <= a + b
  <2>1. (a + b) * (a + b) = a * a + 2 * (a * b) + b * b
    BY <1>1
  <2>2. ~((a + b) * (a + b) < f * f)
    BY <1>1, <2>1
  <2>3. a + b < f => (a + b) * (a + b) < f * f
    <3>1. a + b \in Nat
      BY <1>1
    <3> QED
      BY <1>1, <3>1
  <2> QED
    BY <1>1, <2>2, <2>3
<1> QED
  BY <1>1, <1>2, <1>3

(* A point in the box of the segment at u and v from its start, off the line by "off" lengths. *)
LEMMA OffInBox ==
  ASSUME NEW a \in Int, NEW b \in Int, NEW u \in Int, NEW v \in Int,
         IF a >= 0 THEN 0 <= u /\ u <= a ELSE a <= u /\ u <= 0,
         IF b >= 0 THEN 0 <= v /\ v <= b ELSE b <= v /\ v <= 0
  PROVE  /\ AbsOf(a * v - b * u) <= AbsOf(a) * AbsOf(b)
         /\ 2 * AbsOf(a * v - b * u) <= a * a + b * b
<1>1. CASE a >= 0 /\ b >= 0
  <2>1. 0 <= a * v /\ a * v <= a * b /\ 0 <= b * u /\ b * u <= a * b
    BY <1>1
  <2>2. 2 * (a * b) <= a * a + b * b
    BY TwoProducts
  <2> QED
    BY <1>1, <2>1, <2>2 DEF AbsOf
<1>2. CASE a >= 0 /\ b < 0
  <2>1. 0 >= a * v /\ a * v >= a * b /\ 0 >= b * u /\ b * u >= a * b
    BY <1>2
  <2>2. 2 * (a * (-b)) <= a * a + b * b
    BY TwoProducts
  <2> QED
    BY <1>2, <2>1, <2>2 DEF AbsOf
<1>3. CASE a < 0 /\ b >= 0
  <2>1. 0 >= a * v /\ a * v >= a * b /\ 0 >= b * u /\ b * u >= a * b
    BY <1>3
  <2>2. 2 * ((-a) * b) <= a * a + b * b
    BY TwoProducts
  <2> QED
    BY <1>3, <2>1, <2>2 DEF AbsOf
<1>4. CASE a < 0 /\ b < 0
  <2>1. 0 <= a * v /\ a * v <= a * b /\ 0 <= b * u /\ b * u <= a * b
    BY <1>4
  <2>2. 2 * ((-a) * (-b)) <= a * a + b * b
    BY TwoProducts
  <2> QED
    BY <1>4, <2>1, <2>2 DEF AbsOf
<1> QED
  BY <1>1, <1>2, <1>3, <1>4

(* Whether a point is near the line: "off" is its distance times the length, which is cut. *)
LEMMA CutDistance ==
  ASSUME NEW a \in Nat, NEW b \in Nat, NEW f, Sides(a, b, f),
         NEW off \in Nat, 2 * off <= a * a + b * b
  PROVE  /\ off * off <= 25 * (a * a + b * b) => off \div f <= 5
         /\ off \div f <= 5 => off * off < 36 * (a * a + b * b)
<1>1. /\ f \in Nat /\ f # 0 /\ f * f <= a * a + b * b /\ a * a + b * b < (f + 1) * (f + 1)
      /\ a * a + b * b \in Nat /\ off * off \in Nat /\ f * f \in Nat
  BY ProductNat DEF Sides
<1>2. off < 6 * f <=> off \div f <= 5
  BY <1>1
<1>3. ASSUME off * off <= 25 * (a * a + b * b) PROVE off < 6 * f
  <2>1. CASE f <= 4
    <3>1. (f + 1) * (f + 1) <= 12 * f
      BY <1>1, <2>1
    <3> QED
      BY <1>1, <3>1
  <2>2. CASE f > 4
    <3>1. off * off < (5 * f + 5) * (5 * f + 5)
      BY <1>1, <1>3
    <3>2. off < 5 * f + 5
      BY <1>1, <3>1, SquareTells
    <3> QED
      BY <1>1, <2>2, <3>2
  <2> QED
    BY <1>1, <2>1, <2>2
<1>4. ASSUME off < 6 * f PROVE off * off < 36 * (a * a + b * b)
  <2>1. off * off < (6 * f) * (6 * f)
    BY <1>1, <1>4
  <2>2. (6 * f) * (6 * f) = 36 * (f * f)
    BY <1>1
  <2> QED
    BY <1>1, <2>1, <2>2
<1> QED
  BY <1>2, <1>3, <1>4

-----------------------------------------------------------------------------
(* A move by d along a segment of length f: the sides' shares p and q of it. *)

IsShare(p, a, d, f) == p \in Nat /\ p * f <= a * d /\ a * d < (p + 1) * f

LEMMA ShareIs ==
  ASSUME NEW a \in Nat, NEW d \in Nat, NEW f \in Nat, f # 0, d <= f, a <= f,
         NEW p, IsShare(p, a, d, f)
  PROVE  p <= a /\ a - p <= f - d /\ (d = f => p = a)
<1>1. p \in Nat /\ p * f <= a * d /\ a * d < (p + 1) * f /\ a * d \in Nat
  BY ProductNat DEF IsShare
<1>2. p <= a
  <2>1. a * d <= a * f
    BY ProductLe
  <2>2. p * f < (a + 1) * f
    BY <1>1, <2>1
  <2> QED
    BY <1>1, <2>2, ProductTells
<1>3. a - p <= f - d
  <2>1. PICK k \in Nat : d = f - k
    OBVIOUS
  <2>2. a * k <= f * k
    BY ProductLe
  <2>3. a * d = a * f - a * k
    BY <2>1
  <2>4. a * f < (p + 1) * f + f * k
    BY <1>1, <2>2, <2>3
  <2>5. (p + 1) * f + f * k = (p + 1 + k) * f
    BY <1>1, <2>1
  <2>6. a < p + 1 + k
    BY <1>1, <2>4, <2>5, ProductTells
  <2> QED
    BY <1>1, <2>1, <2>6
<1> QED
  BY <1>1, <1>2, <1>3

(* The point stays near the line ... *)
LEMMA OffOneWay ==
  ASSUME NEW a \in Nat, NEW b \in Nat, NEW d \in Nat, NEW f \in Nat, f # 0,
         NEW p \in Nat, NEW q \in Nat, q * f <= b * d, a * d < (p + 1) * f
  PROVE  a * q - b * p <= b
<1>1. a * (q * f) <= a * (b * d) /\ b * (a * d) <= b * ((p + 1) * f)
  BY ProductNat, ProductLe
<1>2. /\ a * (q * f) = f * (a * q) /\ b * ((p + 1) * f) = f * (b * (p + 1))
      /\ a * (b * d) = b * (a * d)
  OBVIOUS
<1>3. ~(f * (b * (p + 1)) < f * (a * q))
  BY <1>1, <1>2
<1>4. ~(b * (p + 1) < a * q)
  BY <1>3, ProductLess
<1>5. b * (p + 1) = b * p + b /\ a * q \in Nat /\ b * p \in Nat
  BY ProductNat
<1> QED
  BY <1>4, <1>5

LEMMA ShareOff ==
  ASSUME NEW a \in Nat, NEW b \in Nat, NEW d \in Nat, NEW f, Sides(a, b, f), d <= f,
         NEW p, IsShare(p, a, d, f), NEW q, IsShare(q, b, d, f)
  PROVE  a * q - b * p <= f /\ b * p - a * q <= f
<1>1. /\ a <= f /\ b <= f /\ f \in Nat /\ f # 0
      /\ p \in Nat /\ p * f <= a * d /\ a * d < (p + 1) * f
      /\ q \in Nat /\ q * f <= b * d /\ b * d < (q + 1) * f
  BY SidesWithinLength DEF Sides, IsShare
<1>2. a * q - b * p <= b /\ b * p - a * q <= a
  BY <1>1, OffOneWay
<1>3. a * q \in Nat /\ b * p \in Nat
  BY <1>1, ProductNat
<1> QED
  BY <1>1, <1>2, <1>3

(* ... and has the distance from the start that it should have, give or take 2. *)
LEMMA ShareFar ==
  ASSUME NEW a \in Nat, NEW b \in Nat, NEW d \in Nat, NEW f, Sides(a, b, f), d <= f,
         NEW p, IsShare(p, a, d, f), NEW q, IsShare(q, b, d, f)
  PROVE  LET g == Sqrt(p * p + q * q) IN g \in Nat /\ g <= d /\ d <= g + 2
<1>1. /\ f \in Nat /\ f # 0
      /\ p \in Nat /\ p * f <= a * d /\ a * d < (p + 1) * f
      /\ q \in Nat /\ q * f <= b * d /\ b * d < (q + 1) * f
      /\ f * f <= a * a + b * b /\ a * a + b * b < (f + 1) * (f + 1)
  BY DEF Sides, IsShare
<1>2. PICK n \in Nat, l \in Nat : n = p * p + q * q /\ l = a * a + b * b
  BY <1>1, ProductNat
<1>3. PICK g \in Nat : g = Sqrt(p * p + q * q) /\ g * g <= n /\ n < (g + 1) * (g + 1)
  BY <1>2, SqrtIs
<1>4. g <= d
  <2>1. (p * f) * (p * f) <= (a * d) * (a * d) /\ (q * f) * (q * f) <= (b * d) * (b * d)
    BY <1>1, ProductNat, SquareLe
  <2>2. (f * f) * n <= (d * d) * l
    <3>1. /\ (p * f) * (p * f) = (f * f) * (p * p) /\ (q * f) * (q * f) = (f * f) * (q * q)
          /\ (a * d) * (a * d) = (d * d) * (a * a) /\ (b * d) * (b * d) = (d * d) * (b * b)
      BY <1>1
    <3>2. /\ (f * f) * n = (f * f) * (p * p) + (f * f) * (q * q)
          /\ (d * d) * l = (d * d) * (a * a) + (d * d) * (b * b)
      BY <1>1, <1>2
    <3> QED
      BY <1>1, <2>1, <3>1, <3>2
  <2>3. /\ f * f \in Nat /\ f * f # 0 /\ d * d \in Nat /\ (f + 1) * (f + 1) \in Nat
        /\ (d + 1) * (d + 1) \in Nat /\ d * f + d \in Nat /\ f * (d + 1) \in Nat
    BY <1>1, ProductNat
  <2>4. n < (d + 1) * (d + 1)
    <3>1. CASE d = 0
      <4>1. p = 0 /\ q = 0
        BY <1>1, <3>1
      <4> QED
        BY <1>2, <3>1, <4>1
    <3>2. CASE d # 0
      <4>1. d * d # 0
        BY <3>2
      <4>2. (d * d) * l < (d * d) * ((f + 1) * (f + 1))
        BY <1>1, <1>2, <2>3, <4>1, ProductLess
      <4>3. (d * d) * ((f + 1) * (f + 1)) = (d * f + d) * (d * f + d)
        BY <1>1
      <4>4. (d * f + d) * (d * f + d) <= (f * (d + 1)) * (f * (d + 1))
        <5>1. d * f + d <= f * (d + 1)
          BY <1>1
        <5> QED
          BY <2>3, <5>1, SquareLe
      <4>5. (f * (d + 1)) * (f * (d + 1)) = (f * f) * ((d + 1) * (d + 1))
        BY <1>1
      <4>6. PICK ff \in Nat, dd \in Nat : ff = f * f /\ dd = (d + 1) * (d + 1)
        BY <2>3
      <4>7. ff * n < ff * dd
        <5>1. /\ ff * n \in Nat /\ ff * dd \in Nat /\ (d * d) * l \in Nat
              /\ (d * f + d) * (d * f + d) \in Nat
          BY <2>3, ProductNat
        <5> QED
          BY <2>2, <2>3, <4>2, <4>3, <4>4, <4>5, <4>6, <5>1
      <4> QED
        BY <4>6, <4>7, ProductTells
    <3> QED
      BY <3>1, <3>2
  <2>5. g * g < (d + 1) * (d + 1) /\ d + 1 \in Nat
    BY <1>3, <2>3, <2>4, ProductNat
  <2>6. g < d + 1
    BY <2>5, SquareTells
  <2> QED
    BY <2>6
<1>5. d <= g + 2
  <2>1. SUFFICES ASSUME d > g + 2 PROVE FALSE
    OBVIOUS
  <2>2. PICK e \in Nat : d = e + 2 /\ g + 1 <= e
    <3>1. d - 2 \in Nat
      BY <2>1
    <3> QED
      BY <2>1, <3>1
  <2>3. n < e * e /\ e * e \in Nat
    <3>1. (g + 1) * (g + 1) <= e * e
      BY <2>2, SquareLe
    <3> QED
      BY <1>3, <3>1, ProductNat
  <2>4. (p + 1) * (p + 1) + (q + 1) * (q + 1) = n + 2 * (p + q) + 2
    BY <1>1, <1>2
  <2>5. 2 * (p + q) < 3 * e
    <3>1. PICK h \in Nat, z \in Nat : h = 2 * (p + q) /\ z = p * q
      BY <1>1, ProductNat
    <3>2. h * h = 4 * n + 8 * z
      BY <1>1, <1>2, <3>1
    <3>3. 2 * z <= n
      BY <1>1, <1>2, <3>1, TwoProducts
    <3>4. (3 * e) * (3 * e) = 9 * (e * e)
      OBVIOUS
    <3>5. h * h < (3 * e) * (3 * e)
      BY <2>3, <3>2, <3>3, <3>4
    <3> QED
      BY <3>1, <3>5, SquareTells
  <2>6. (p + 1) * (p + 1) + (q + 1) * (q + 1) >= d * d
    <3>1. /\ (a * d) * (a * d) <= ((p + 1) * f) * ((p + 1) * f)
          /\ (b * d) * (b * d) <= ((q + 1) * f) * ((q + 1) * f)
      BY <1>1, ProductNat, SquareLe
    <3>2. (d * d) * l <= (f * f) * ((p + 1) * (p + 1) + (q + 1) * (q + 1))
      <4>1. /\ ((p + 1) * f) * ((p + 1) * f) = (f * f) * ((p + 1) * (p + 1))
            /\ ((q + 1) * f) * ((q + 1) * f) = (f * f) * ((q + 1) * (q + 1))
            /\ (a * d) * (a * d) = (d * d) * (a * a) /\ (b * d) * (b * d) = (d * d) * (b * b)
        BY <1>1
      <4>2. /\ (f * f) * ((p + 1) * (p + 1) + (q + 1) * (q + 1))
                 = (f * f) * ((p + 1) * (p + 1)) + (f * f) * ((q + 1) * (q + 1))
            /\ (d * d) * l = (d * d) * (a * a) + (d * d) * (b * b)
        BY <1>1, <1>2
      <4>3. /\ (a * d) * (a * d) \in Nat /\ ((p + 1) * f) * ((p + 1) * f) \in Nat
            /\ (b * d) * (b * d) \in Nat /\ ((q + 1) * f) * ((q + 1) * f) \in Nat
        BY <1>1, ProductNat
      <4>4. (a * d) * (a * d) + (b * d) * (b * d)
              <= ((p + 1) * f) * ((p + 1) * f) + ((q + 1) * f) * ((q + 1) * f)
        BY <3>1, <4>3
      <4> QED
        BY <4>1, <4>2, <4>4
    <3>3. /\ f * f \in Nat /\ f * f # 0 /\ d * d \in Nat
          /\ (p + 1) * (p + 1) + (q + 1) * (q + 1) \in Nat
      BY <1>1, ProductNat
    <3>4. PICK ff \in Nat, dd \in Nat, s \in Nat :
            ff = f * f /\ dd = d * d /\ s = (p + 1) * (p + 1) + (q + 1) * (q + 1) /\ ff # 0
      BY <3>3
    <3>5. dd * ff <= dd * l
      BY <1>1, <1>2, <3>4, ProductLe
    <3>6. ff * dd <= ff * s
      BY <3>2, <3>4, <3>5
    <3>7. dd <= s
      BY <3>4, <3>6, ProductLess
    <3> QED
      BY <3>4, <3>7
  <2>7. d * d = e * e + 4 * e + 4
    BY <2>2
  <2> QED
    BY <1>1, <2>3, <2>4, <2>5, <2>6, <2>7
<1> QED
  BY <1>3, <1>4, <1>5

-----------------------------------------------------------------------------
(* Coordinates. *)

LEMMA ReachIs ==
  ASSUME NEW s \in Coord2D
  PROVE  /\ Reach \in Nat /\ MaxCoord - MinCoord <= Reach
         /\ -Reach <= MinCoord /\ MaxCoord <= Reach
<1>1. MinCoord \in Int /\ MaxCoord \in Int
  BY GraphAssumption
<1> QED
  BY <1>1 DEF Reach, Greatest, AbsOf

LEMMA CoordType ==
  ASSUME NEW s \in Coord2D
  PROVE  /\ s.x \in MinCoord .. MaxCoord /\ s.y \in MinCoord .. MaxCoord
         /\ s.x \in Int /\ -Reach <= s.x /\ s.x <= Reach
         /\ s.y \in Int /\ -Reach <= s.y /\ s.y <= Reach
         /\ Reach \in Nat /\ IntLimit \in Nat /\ Reach * Reach \in Nat
         /\ 2 * (Reach * Reach) < IntLimit
<1>1. /\ MinCoord \in Int /\ MaxCoord \in Int /\ IntLimit \in Nat
      /\ Reach \in Nat /\ -Reach <= MinCoord /\ MaxCoord <= Reach
  BY GraphAssumption, ReachIs
<1>2. s.x \in MinCoord .. MaxCoord /\ s.y \in MinCoord .. MaxCoord
  BY DEF Coord2D
<1>3. 2 * (Reach * Reach) < IntLimit
  BY <1>1, GraphAssumption
<1> QED
  BY <1>1, <1>2, <1>3, ProductNat

LEMMA CoordsApart ==
  ASSUME NEW s \in Coord2D, NEW e \in Coord2D
  PROVE  /\ e.x - s.x \in Int /\ -Reach <= e.x - s.x /\ e.x - s.x <= Reach
         /\ e.y - s.y \in Int /\ -Reach <= e.y - s.y /\ e.y - s.y <= Reach
<1>1. /\ MinCoord \in Int /\ MaxCoord \in Int
      /\ Reach \in Nat /\ MaxCoord - MinCoord <= Reach
  BY GraphAssumption, ReachIs
<1> QED
  BY <1>1, CoordType

LEMMA CoordEqual ==
  ASSUME NEW s \in Coord2D, NEW e \in Coord2D
  PROVE  s = e <=> e.x - s.x = 0 /\ e.y - s.y = 0
<1>1. s.x \in Int /\ s.y \in Int /\ e.x \in Int /\ e.y \in Int
  BY CoordType
<1>2. s = e <=> s.x = e.x /\ s.y = e.y
  BY DEF Coord2D
<1> QED
  BY <1>1, <1>2

(* A product of a difference of coordinates and a coordinate, or another difference. *)
LEMMA ProductFits ==
  ASSUME NEW a \in Int, NEW b \in Int, NEW m \in Nat,
         -m <= a, a <= m, -m <= b, b <= m
  PROVE  a * b \in Int /\ -(m * m) <= a * b /\ a * b <= m * m
<1>1. CASE a >= 0
  <2>1. a * b <= a * m /\ a * (-m) <= a * b /\ a * m <= m * m
    BY <1>1
  <2> QED
    BY <2>1
<1>2. CASE a < 0
  <2>1. (-a) * b <= (-a) * m /\ (-a) * (-m) <= (-a) * b /\ (-a) * m <= m * m
    BY <1>2
  <2> QED
    BY <2>1
<1> QED
  BY <1>1, <1>2

LEMMA SidesOf ==
  ASSUME NEW s \in Coord2D, NEW e \in Coord2D
  PROVE  LET a == AbsOf(e.x - s.x)
             b == AbsOf(e.y - s.y)
         IN  /\ a \in Nat /\ b \in Nat /\ a <= Reach /\ b <= Reach
             /\ a * a = (e.x - s.x) * (e.x - s.x) /\ b * b = (e.y - s.y) * (e.y - s.y)
             /\ SegmentDist(s, e) \in Nat /\ (SegmentDist(s, e) = 0 <=> s = e)
             /\ s # e => Sides(a, b, SegmentDist(s, e))
<1>1. PICK dx \in Int, dy \in Int : dx = e.x - s.x /\ dy = e.y - s.y
  BY CoordType
<1>2. PICK a \in Nat, b \in Nat : a = AbsOf(dx) /\ b = AbsOf(dy)
  BY DEF AbsOf
<1>3. a * a = dx * dx /\ b * b = dy * dy /\ a <= Reach /\ b <= Reach
  <2>1. /\ -Reach <= dx /\ dx <= Reach /\ -Reach <= dy /\ dy <= Reach
        /\ Reach \in Nat
    BY <1>1, CoordType, CoordsApart
  <2> QED
    BY <1>2, <2>1 DEF AbsOf
<1>4. PICK n \in Nat : n = dx * dx + dy * dy
  BY <1>3, ProductNat
<1>5. PICK f \in Nat : f = Sqrt(n) /\ f * f <= n /\ n < (f + 1) * (f + 1) /\ f <= n
  BY SqrtIs
<1>6. SegmentDist(s, e) = f
  BY <1>1, <1>4, <1>5 DEF SegmentDist
<1>7. (a = 0 /\ b = 0) <=> s = e
  BY <1>1, <1>2, CoordEqual DEF AbsOf
<1>8. n = 0 <=> a = 0 /\ b = 0
  <2>1. (a # 0 => a * a >= 1) /\ (b # 0 => b * b >= 1) /\ a * a \in Nat /\ b * b \in Nat
    BY ProductNat
  <2> QED
    BY <1>3, <1>4, <2>1
<1>9. f = 0 <=> n = 0
  BY <1>5
<1> QED
  BY <1>1, <1>2, <1>3, <1>4, <1>5, <1>6, <1>7, <1>8, <1>9 DEF Sides

(* Of a point in the segment's box, LineValue is its distance from the line, times the length:
   nothing overflows. *)
LEMMA LineValueIs ==
  ASSUME NEW s \in Coord2D, NEW e \in Coord2D, NEW j \in Coord2D, InBox(s, e, j)
  PROVE  LET off == (e.x - s.x) * (j.y - s.y) - (e.y - s.y) * (j.x - s.x)
         IN  /\ off \in Int /\ LineValue(s, e, j) = off
             /\ 2 * AbsOf(off) <= (e.x - s.x) * (e.x - s.x) + (e.y - s.y) * (e.y - s.y)
<1>1. PICK m \in Nat : m = Reach /\ m * m \in Nat /\ 2 * (m * m) < IntLimit /\ IntLimit \in Nat
  BY CoordType
<1>2. PICK dx \in Int, dy \in Int, u \in Int, v \in Int :
        dx = e.x - s.x /\ dy = e.y - s.y /\ u = j.x - s.x /\ v = j.y - s.y
  <2>1. e.x - s.x \in Int /\ e.y - s.y \in Int /\ j.x - s.x \in Int /\ j.y - s.y \in Int
    BY CoordType
  <2> QED
    BY <2>1
<1>3. /\ -m <= dx /\ dx <= m /\ -m <= dy /\ dy <= m
      /\ IF dx >= 0 THEN 0 <= u /\ u <= dx ELSE dx <= u /\ u <= 0
      /\ IF dy >= 0 THEN 0 <= v /\ v <= dy ELSE dy <= v /\ v <= 0
  <2>1. -m <= dx /\ dx <= m /\ -m <= dy /\ dy <= m
    BY <1>1, <1>2, CoordsApart
  <2> QED
    BY <1>2, <2>1, CoordType DEF InBox, Least, Greatest
<1>4. PICK off \in Int : off = dx * v - dy * u
  OBVIOUS
<1>5. AbsOf(off) <= AbsOf(dx) * AbsOf(dy) /\ 2 * AbsOf(off) <= dx * dx + dy * dy
  BY <1>3, <1>4, OffInBox
<1>6. -(m * m) <= off /\ off <= m * m
  <2>1. AbsOf(dx) \in Nat /\ AbsOf(dy) \in Nat /\ AbsOf(dx) <= m /\ AbsOf(dy) <= m
    BY <1>3 DEF AbsOf
  <2>2. AbsOf(dx) * AbsOf(dy) <= m * m
    BY <2>1, ProductFits
  <2>3. AbsOf(off) <= m * m
    BY <1>1, <1>5, <2>1, <2>2, ProductNat DEF AbsOf
  <2> QED
    BY <1>1, <2>3 DEF AbsOf
<1>7. PICK p1 \in Int, p2 \in Int, p3 \in Int, p4 \in Int :
        /\ p1 = (s.y - e.y) * j.x /\ p2 = (e.x - s.x) * j.y /\ p3 = s.x * e.y /\ p4 = e.x * s.y
        /\ -(m * m) <= p1 /\ p1 <= m * m /\ -(m * m) <= p2 /\ p2 <= m * m
        /\ -(m * m) <= p3 /\ p3 <= m * m /\ -(m * m) <= p4 /\ p4 <= m * m
  <2>1. /\ s.y - e.y \in Int /\ -m <= s.y - e.y /\ s.y - e.y <= m
        /\ e.x - s.x \in Int /\ -m <= e.x - s.x /\ e.x - s.x <= m
    BY <1>1, CoordsApart
  <2>2. \A c \in {s, e, j} : /\ c.x \in Int /\ -m <= c.x /\ c.x <= m
                             /\ c.y \in Int /\ -m <= c.y /\ c.y <= m
    BY <1>1, CoordType
  <2>3. /\ -(m * m) <= (s.y - e.y) * j.x /\ (s.y - e.y) * j.x <= m * m
        /\ -(m * m) <= (e.x - s.x) * j.y /\ (e.x - s.x) * j.y <= m * m
        /\ -(m * m) <= s.x * e.y /\ s.x * e.y <= m * m
        /\ -(m * m) <= e.x * s.y /\ e.x * s.y <= m * m
    BY <2>1, <2>2, ProductFits
  <2>4. /\ (s.y - e.y) * j.x \in Int /\ (e.x - s.x) * j.y \in Int
        /\ s.x * e.y \in Int /\ e.x * s.y \in Int
    BY <2>1, <2>2
  <2> QED
    BY <2>3, <2>4
<1>8. p1 + p2 + (p3 - p4) = off
  BY <1>2, <1>4, <1>7, CoordType
<1>9. LineValue(s, e, j) = off
  <2>1. ToInt(p1) = p1 /\ ToInt(p2) = p2 /\ ToInt(p3) = p3 /\ ToInt(p4) = p4
    BY <1>1, <1>7, IntKeeps
  <2>2. ToInt(p1 + p2) = p1 + p2 /\ ToInt(p3 - p4) = p3 - p4
    BY <1>1, <1>7, IntKeeps
  <2>3. ToInt(p1 + p2 + (p3 - p4)) = off
    BY <1>1, <1>6, <1>8, IntKeeps
  <2> QED
    BY <1>7, <2>1, <2>2, <2>3 DEF LineValue
<1> QED
  BY <1>2, <1>4, <1>5, <1>9

-----------------------------------------------------------------------------
(* OnSegment. *)

Off(s, e, j)   == (e.x - s.x) * (j.y - s.y) - (e.y - s.y) * (j.x - s.x)
Square(s, e)   == (e.x - s.x) * (e.x - s.x) + (e.y - s.y) * (e.y - s.y)

LEMMA OnSegmentJudges ==
  ASSUME NEW s \in Coord2D, NEW e \in Coord2D, NEW j \in Coord2D
  PROVE  /\ OnSegment(s, e, j) \in {"yes", "no", "trap"}
         /\ OnSegment(s, e, j) = "trap" <=> s = e /\ j = s
         /\ InBox(s, e, j) /\ s # e =>
              /\ OnSegment(s, e, j) = "yes" <=> AbsOf(Off(s, e, j)) \div SegmentDist(s, e) <= 5
              /\ Off(s, e, j) * Off(s, e, j) <= 25 * Square(s, e) => OnSegment(s, e, j) = "yes"
              /\ OnSegment(s, e, j) = "yes" =>
                   Off(s, e, j) * Off(s, e, j) < 36 * Square(s, e)
<1>1. OnSegment(s, e, j) \in {"yes", "no", "trap"}
  BY DEF OnSegment
<1>2. SegmentDist(s, e) = 0 <=> s = e
  BY SidesOf
<1>3. OnSegment(s, e, j) = "trap" <=> InBox(s, e, j) /\ s = e
  BY <1>2 DEF OnSegment
<1>4. s = e => (InBox(s, e, j) <=> j = s)
  <2> SUFFICES ASSUME s = e PROVE InBox(s, e, j) <=> j = s
    OBVIOUS
  <2>1. InBox(s, e, j) <=> j.x - s.x = 0 /\ j.y - s.y = 0
    BY CoordType DEF InBox, Least, Greatest
  <2> QED
    BY <2>1, CoordEqual
<1>5. ASSUME InBox(s, e, j), s # e
      PROVE  /\ OnSegment(s, e, j) = "yes" <=> AbsOf(Off(s, e, j)) \div SegmentDist(s, e) <= 5
             /\ Off(s, e, j) * Off(s, e, j) <= 25 * Square(s, e) => OnSegment(s, e, j) = "yes"
             /\ OnSegment(s, e, j) = "yes" =>
                  Off(s, e, j) * Off(s, e, j) < 36 * Square(s, e)
  <2>1. PICK off \in Int : off = Off(s, e, j) /\ LineValue(s, e, j) = off
                           /\ 2 * AbsOf(off) <= Square(s, e)
    BY <1>5, LineValueIs DEF Off, Square
  <2>2. PICK a \in Nat, b \in Nat, f \in Nat :
          f = SegmentDist(s, e) /\ Sides(a, b, f) /\ f # 0 /\ Square(s, e) = a * a + b * b
    BY <1>2, <1>5, SidesOf DEF Square
  <2>3. PICK far \in Nat : far = AbsOf(off) /\ far * far = off * off
    BY DEF AbsOf
  <2>4. /\ far * far <= 25 * (a * a + b * b) => far \div f <= 5
        /\ far \div f <= 5 => far * far < 36 * (a * a + b * b)
    BY <2>1, <2>2, <2>3, CutDistance
  <2>5. OnSegment(s, e, j) = "yes" <=> far \div f <= 5
    BY <1>5, <2>1, <2>2, <2>3 DEF OnSegment, MAX_DIST_ERROR
  <2> QED
    BY <2>1, <2>2, <2>3, <2>4, <2>5
<1> QED
  BY <1>1, <1>3, <1>4, <1>5

CallInv ==
  /\ start \in Coord2D /\ end \in Coord2D
  /\ \/ answer = "none"
     \/ coord \in Coord2D /\ answer = OnSegment(start, end, coord)
     \/ /\ answer = "moved" /\ delta \in 0 .. SegmentDist(start, end)
        /\ coord = SegmentMove(start, end, delta)

LEMMA CallInvariant == Spec => []CallInv
<1>1. Init => CallInv
  BY GraphAssumption DEF Init, CallInv
<1>2. CallInv /\ [Next]_vars => CallInv'
  BY DEF CallInv, Next, Judge, Move, vars
<1> QED
  BY <1>1, <1>2, PTL DEF Spec

LEMMA CallInvJudges == CallInv => OnSegmentIsNear
<1> SUFFICES ASSUME CallInv, answer \in {"yes", "no", "trap"} PROVE OnSegmentIsNear
  BY DEF OnSegmentIsNear
<1>1. /\ start \in Coord2D /\ end \in Coord2D /\ coord \in Coord2D
      /\ answer = OnSegment(start, end, coord)
  BY DEF CallInv
<1>2. PICK s \in Coord2D, e \in Coord2D, j \in Coord2D : s = start /\ e = end /\ j = coord
  BY <1>1
<1>3. Offset = Off(s, e, j) /\ Length2 = Square(s, e)
  BY <1>2 DEF Offset, Off, Length2, Square
<1>4. /\ answer = "trap" <=> s = e /\ j = s
      /\ InBox(s, e, j) /\ s # e =>
           /\ Off(s, e, j) * Off(s, e, j) <= 25 * Square(s, e) => answer = "yes"
           /\ answer = "yes" => Off(s, e, j) * Off(s, e, j) < 36 * Square(s, e)
  BY <1>1, <1>2, OnSegmentJudges
<1>5. MAX_DIST_ERROR * MAX_DIST_ERROR = 25 /\ (MAX_DIST_ERROR + 1) * (MAX_DIST_ERROR + 1) = 36
  BY DEF MAX_DIST_ERROR
<1> QED
  BY <1>2, <1>3, <1>4, <1>5 DEF OnSegmentIsNear

(* OnSegment, for any width of int and any coordinates whose products it holds: of the points in
   the segment's box it finds every one within MAX_DIST_ERROR of the line and none that is
   MAX_DIST_ERROR + 1 away, though it cuts the length and the quotient to int (graph.cpp:105); it
   divides by 0 for a segment that is a point, and only then. *)
THEOREM OnSegmentRight == Spec => []OnSegmentIsNear
  BY CallInvariant, CallInvJudges, PTL

-----------------------------------------------------------------------------
(* SegmentMove. *)

LEMMA ShareOf ==
  ASSUME NEW u \in Int, NEW d \in Nat, NEW f \in Nat, f # 0, AbsOf(u) * d < IntLimit
  PROVE  /\ Share(u, d, f) \in Int /\ IsShare(AbsOf(Share(u, d, f)), AbsOf(u), d, f)
         /\ IF u >= 0 THEN Share(u, d, f) >= 0 ELSE Share(u, d, f) <= 0
<1>1. PICK a \in Nat, n \in Nat : a = AbsOf(u) /\ n = a * d /\ n < IntLimit
  BY ProductNat DEF AbsOf
<1>2. IntLimit \in Nat /\ u * d = IF u >= 0 THEN n ELSE -n
  BY <1>1, GraphAssumption DEF AbsOf
<1>3. ToInt(u * d) = IF u >= 0 THEN n ELSE -n
  BY <1>1, <1>2, IntKeeps
<1>4. PICK q \in Nat : q = n \div f /\ q * f <= n /\ n < (q + 1) * f
  BY <1>1, DivIs
<1>5. Share(u, d, f) = IF u >= 0 THEN q ELSE -q
  <2>1. CASE u >= 0
    BY <1>1, <1>3, <1>4, <2>1 DEF Share, Quot
  <2>2. CASE u < 0 /\ n = 0
    <3>1. q = 0
      BY <1>4, <2>2
    <3> QED
      BY <1>3, <1>4, <2>2, <3>1 DEF Share, Quot
  <2>3. CASE u < 0 /\ n # 0
    <3>1. -n < 0 /\ -(-n) = n
      BY <1>1, <2>3
    <3> QED
      <4>1. ToInt(u * d) = -n
        BY <1>3, <2>3
      <4>2. Quot(-n, f) = -(n \div f)
        BY <3>1 DEF Quot
      <4> QED
        BY <1>4, <2>3, <4>1, <4>2 DEF Share
  <2> QED
    BY <1>1, <2>1, <2>2, <2>3
<1>6. AbsOf(Share(u, d, f)) = q
  BY <1>5 DEF AbsOf
<1> QED
  BY <1>1, <1>4, <1>5, <1>6 DEF IsShare

LEMMA NoMove ==
  ASSUME NEW s \in Coord2D
  PROVE  /\ SegmentMove(s, s, 0) = s /\ SegmentDist(s, s) = 0
         /\ CoordNearEqual(s, s)
<1>1. SegmentDist(s, s) = 0
  BY SidesOf
<1>2. s.x - s.x = 0 /\ s.y - s.y = 0 /\ ToInt(0) = 0
  BY CoordType, IntKeeps
<1>3. SegmentDistSquare(s, s) = 0
  BY <1>2 DEF SegmentDistSquare
<1> QED
  BY <1>1, <1>3 DEF SegmentMove, CoordNearEqual, MAX_DIST_ERROR

(* What a move by d adds to the start's coordinates. *)
LEMMA MovedBy ==
  ASSUME NEW s \in Coord2D, NEW e \in Coord2D, s # e, NEW d \in 0 .. SegmentDist(s, e)
  PROVE  \E wx, wy \in Int :
           LET c == SegmentMove(s, e, d)
               a == AbsOf(e.x - s.x)
               b == AbsOf(e.y - s.y)
               f == SegmentDist(s, e)
           IN  /\ c \in Coord2D /\ c.x = s.x + wx /\ c.y = s.y + wy
               /\ IsShare(AbsOf(wx), a, d, f) /\ IsShare(AbsOf(wy), b, d, f)
               /\ AbsOf(wx) <= a /\ AbsOf(wy) <= b
               /\ IF e.x - s.x >= 0 THEN wx >= 0 ELSE wx <= 0
               /\ IF e.y - s.y >= 0 THEN wy >= 0 ELSE wy <= 0
<1>1. PICK dx \in Int, dy \in Int : dx = e.x - s.x /\ dy = e.y - s.y
  BY CoordType
<1>2. PICK a \in Nat, b \in Nat, f \in Nat :
        /\ a = AbsOf(dx) /\ b = AbsOf(dy) /\ f = SegmentDist(s, e) /\ f # 0
        /\ a <= Reach /\ b <= Reach /\ Sides(a, b, f)
  BY <1>1, SidesOf
<1>3. d \in Nat /\ d <= f /\ a <= f /\ b <= f /\ f <= a + b
  BY <1>2, SidesWithinLength
<1>4. a * d < IntLimit /\ b * d < IntLimit
  <2>1. PICK m \in Nat : m = Reach /\ m * m \in Nat /\ 2 * (m * m) < IntLimit
    BY CoordType
  <2>2. a <= m /\ b <= m /\ d <= 2 * m /\ IntLimit \in Nat
    BY <1>2, <1>3, <2>1, GraphAssumption
  <2>3. \A c \in Nat : c <= m => c * d <= 2 * (m * m)
    <3> SUFFICES ASSUME NEW c \in Nat, c <= m PROVE c * d <= 2 * (m * m)
      OBVIOUS
    <3>1. c * d <= c * (2 * m) /\ c * (2 * m) <= m * (2 * m) /\ m * (2 * m) = 2 * (m * m)
      BY <1>3, <2>2, ProductLe
    <3>2. c * d \in Nat /\ c * (2 * m) \in Nat
      BY <1>3, ProductNat
    <3> QED
      BY <2>1, <3>1, <3>2
  <2> QED
    BY <1>3, <2>1, <2>2, <2>3, ProductNat
<1>5. PICK wx \in Int, wy \in Int :
        /\ wx = Share(dx, d, f) /\ IsShare(AbsOf(wx), a, d, f)
        /\ IF dx >= 0 THEN wx >= 0 ELSE wx <= 0
        /\ wy = Share(dy, d, f) /\ IsShare(AbsOf(wy), b, d, f)
        /\ IF dy >= 0 THEN wy >= 0 ELSE wy <= 0
  BY <1>2, <1>3, <1>4, ShareOf
<1>6. AbsOf(wx) <= a /\ AbsOf(wy) <= b
  BY <1>2, <1>3, <1>5, ShareIs
<1>7. /\ wx + s.x \in MinCoord .. MaxCoord /\ wy + s.y \in MinCoord .. MaxCoord
  <2>1. /\ IF dx >= 0 THEN 0 <= wx /\ wx <= dx ELSE dx <= wx /\ wx <= 0
        /\ IF dy >= 0 THEN 0 <= wy /\ wy <= dy ELSE dy <= wy /\ wy <= 0
    BY <1>2, <1>5, <1>6 DEF AbsOf
  <2>2. /\ MinCoord \in Int /\ MaxCoord \in Int
        /\ s.x \in MinCoord .. MaxCoord /\ s.x + dx \in MinCoord .. MaxCoord
        /\ s.y \in MinCoord .. MaxCoord /\ s.y + dy \in MinCoord .. MaxCoord
    <3>1. s.x + dx = e.x /\ s.y + dy = e.y
      BY <1>1, CoordType
    <3> QED
      BY <3>1, CoordType, GraphAssumption
  <2> QED
    BY <2>1, <2>2
<1>8. ToInt(wx + s.x) = wx + s.x /\ ToInt(wy + s.y) = wy + s.y
  <2>1. Reach \in Nat /\ Reach < IntLimit /\ IntLimit \in Nat
    <3>1. Reach <= Reach * Reach /\ Reach \in Nat
      BY CoordType
    <3> QED
      BY <3>1, CoordType
  <2>2. MinCoord \in Int /\ MaxCoord \in Int /\ -Reach <= MinCoord /\ MaxCoord <= Reach
    BY GraphAssumption, ReachIs
  <2> QED
    BY <1>7, <2>1, <2>2, IntKeeps
<1>9. SegmentMove(s, e, d) = [x |-> wx + s.x, y |-> wy + s.y]
  BY <1>1, <1>2, <1>5, <1>8 DEF SegmentMove
<1>10. PICK c \in Coord2D : c = SegmentMove(s, e, d) /\ c.x = s.x + wx /\ c.y = s.y + wy
  <2>1. [x |-> wx + s.x, y |-> wy + s.y] \in Coord2D
    BY <1>7 DEF Coord2D
  <2>2. wx + s.x = s.x + wx /\ wy + s.y = s.y + wy
    BY CoordType
  <2> QED
    BY <1>9, <2>1, <2>2
<1> QED
  BY <1>1, <1>2, <1>5, <1>6, <1>10

(* What MoveFollowsSegment says of a move. *)
MovesRight(s, e, d) ==
  LET c == SegmentMove(s, e, d)
  IN  /\ s # e => OnSegment(s, e, c) = "yes"
      /\ SegmentInRect(s, c, LeftTop(s, e), RightBottom(s, e))
      /\ AbsOf(SegmentDist(s, c) - d) <= 2
      /\ d = SegmentDist(s, e) => c = e
      /\ d + 3 >= SegmentDist(s, e) => CoordNearEqual(c, e)

LEMMA InItsRect ==
  ASSUME NEW s \in Coord2D, NEW e \in Coord2D, NEW c \in Coord2D, InBox(s, e, c)
  PROVE  SegmentInRect(s, c, LeftTop(s, e), RightBottom(s, e))
  BY CoordType DEF SegmentInRect, CoordInRect, LeftTop, RightBottom, InBox, Least, Greatest

LEMMA NearTheEnd ==
  ASSUME NEW c \in Coord2D, NEW e \in Coord2D, AbsOf(e.x - c.x) <= 3, AbsOf(e.y - c.y) <= 3
  PROVE  CoordNearEqual(c, e)
<1>1. PICK m \in Nat : m = Reach /\ m * m \in Nat /\ 2 * (m * m) < IntLimit /\ IntLimit \in Nat
  BY CoordType
<1>2. PICK a \in Nat, b \in Nat :
        /\ a = AbsOf(e.x - c.x) /\ a * a = (e.x - c.x) * (e.x - c.x) /\ a <= m
        /\ b = AbsOf(e.y - c.y) /\ b * b = (e.y - c.y) * (e.y - c.y) /\ b <= m
  BY <1>1, SidesOf
<1>3. PICK aa \in Nat, bb \in Nat : aa = a * a /\ bb = b * b
  BY ProductNat
<1>4. aa <= m * m /\ bb <= m * m /\ aa <= 9 /\ bb <= 9
  <2>1. a <= 3 /\ b <= 3
    BY <1>2
  <2>2. a * a <= 3 * 3 /\ b * b <= 3 * 3
    BY <2>1, SquareLe
  <2>3. a * a <= m * m /\ b * b <= m * m
    BY <1>2, SquareLe
  <2> QED
    BY <1>3, <2>2, <2>3
<1>5. ToInt(aa) = aa /\ ToInt(bb) = bb /\ ToInt(aa + bb) = aa + bb
  BY <1>1, <1>4, IntKeeps
<1>6. SegmentDistSquare(c, e) = aa + bb
  BY <1>2, <1>3, <1>5 DEF SegmentDistSquare
<1> QED
  BY <1>4, <1>6 DEF CoordNearEqual, MAX_DIST_ERROR

LEMMA SegmentMoves ==
  ASSUME NEW s \in Coord2D, NEW e \in Coord2D, NEW d \in 0 .. SegmentDist(s, e)
  PROVE  MovesRight(s, e, d)
<1>1. CASE s = e
  <2>1. SegmentDist(s, e) = 0 /\ d = 0 /\ SegmentMove(s, e, d) = s /\ CoordNearEqual(s, e)
    BY <1>1, NoMove
  <2>2. SegmentInRect(s, s, LeftTop(s, e), RightBottom(s, e))
    <3>1. InBox(s, e, s)
      BY CoordType DEF InBox, Least, Greatest
    <3> QED
      BY <3>1, InItsRect
  <2>3. AbsOf(0 - 0) <= 2
    BY DEF AbsOf
  <2> QED
    BY <1>1, <2>1, <2>2, <2>3, NoMove DEF MovesRight
<1>2. CASE s # e
  <2>1. PICK dx \in Int, dy \in Int : dx = e.x - s.x /\ dy = e.y - s.y
    BY CoordType
  <2>2. PICK a \in Nat, b \in Nat, f \in Nat :
          /\ a = AbsOf(dx) /\ b = AbsOf(dy) /\ f = SegmentDist(s, e) /\ f # 0 /\ Sides(a, b, f)
    BY <1>2, <2>1, SidesOf
  <2>3. PICK c \in Coord2D, wx \in Int, wy \in Int :
          /\ c = SegmentMove(s, e, d) /\ c.x = s.x + wx /\ c.y = s.y + wy
          /\ IsShare(AbsOf(wx), a, d, f) /\ IsShare(AbsOf(wy), b, d, f)
          /\ AbsOf(wx) <= a /\ AbsOf(wy) <= b
          /\ IF dx >= 0 THEN wx >= 0 ELSE wx <= 0
          /\ IF dy >= 0 THEN wy >= 0 ELSE wy <= 0
    BY <1>2, <2>1, <2>2, MovedBy
  <2>4. PICK p \in Nat, q \in Nat : p = AbsOf(wx) /\ q = AbsOf(wy)
    BY DEF AbsOf
  <2>5. d \in Nat /\ d <= f /\ a <= f /\ b <= f /\ IsShare(p, a, d, f) /\ IsShare(q, b, d, f)
    BY <2>2, <2>3, <2>4, SidesWithinLength
  <2>6. InBox(s, e, c)
    BY <2>1, <2>2, <2>3, CoordType DEF InBox, Least, Greatest, AbsOf
  <2>7. OnSegment(s, e, c) = "yes"
    <3>1. c.x - s.x = wx /\ c.y - s.y = wy
      BY <2>3, CoordType
    <3>2. PICK off \in Int : off = Off(s, e, c) /\ off = dx * wy - dy * wx
      BY <2>1, <3>1 DEF Off
    <3>3. off = a * q - b * p \/ off = b * p - a * q
      BY <2>2, <2>3, <2>4, <3>2 DEF AbsOf
    <3>4. AbsOf(off) <= f /\ AbsOf(off) \in Nat
      <4>1. a * q - b * p <= f /\ b * p - a * q <= f
        BY <2>2, <2>5, ShareOff
      <4> QED
        BY <3>3, <4>1 DEF AbsOf
    <3>5. AbsOf(off) \div f <= 5
      BY <2>2, <3>4
    <3> QED
      <4>1. AbsOf(Off(s, e, c)) \div SegmentDist(s, e) <= 5
        BY <2>2, <3>2, <3>5
      <4> QED
        BY <1>2, <2>6, <4>1, OnSegmentJudges
  <2>8. SegmentInRect(s, c, LeftTop(s, e), RightBottom(s, e))
    BY <2>6, InItsRect
  <2>9. AbsOf(SegmentDist(s, c) - d) <= 2
    <3>1. c.x - s.x = wx /\ c.y - s.y = wy /\ wx * wx = p * p /\ wy * wy = q * q
      BY <2>3, <2>4, CoordType DEF AbsOf
    <3>2. PICK g : g = SegmentDist(s, c) /\ g = Sqrt(p * p + q * q)
      BY <3>1 DEF SegmentDist
    <3>3. g \in Nat /\ g <= d /\ d <= g + 2
      BY <2>2, <2>5, <3>2, ShareFar
    <3> QED
      BY <2>5, <3>2, <3>3 DEF AbsOf
  <2>10. a - p <= f - d /\ b - q <= f - d /\ p <= a /\ q <= b /\ (d = f => p = a /\ q = b)
    BY <2>2, <2>5, ShareIs
  <2>11. AbsOf(e.x - c.x) = a - p /\ AbsOf(e.y - c.y) = b - q
    <3>1. e.x - c.x = dx - wx /\ e.y - c.y = dy - wy
      BY <2>1, <2>3, CoordType
    <3>2. AbsOf(dx - wx) = a - p /\ AbsOf(dy - wy) = b - q
      BY <2>2, <2>3, <2>4, <2>10 DEF AbsOf
    <3> QED
      BY <3>1, <3>2
  <2>12. d = f => c = e
    <3>1. d = f => AbsOf(e.x - c.x) = 0 /\ AbsOf(e.y - c.y) = 0
      BY <2>10, <2>11
    <3>2. e.x - c.x \in Int /\ e.y - c.y \in Int
      BY CoordType
    <3>3. d = f => e.x - c.x = 0 /\ e.y - c.y = 0
      BY <3>1, <3>2 DEF AbsOf
    <3> QED
      BY <3>3, CoordEqual
  <2>13. d + 3 >= f => CoordNearEqual(c, e)
    <3>1. d + 3 >= f => AbsOf(e.x - c.x) <= 3 /\ AbsOf(e.y - c.y) <= 3
      BY <2>5, <2>10, <2>11
    <3> QED
      BY <3>1, NearTheEnd
  <2> QED
    BY <2>2, <2>3, <2>7, <2>8, <2>9, <2>12, <2>13 DEF MovesRight
<1> QED
  BY <1>1, <1>2

LEMMA CallInvMoves == CallInv => MoveFollowsSegment
<1> SUFFICES ASSUME CallInv, answer = "moved" PROVE MoveFollowsSegment
  BY DEF MoveFollowsSegment
<1>1. /\ start \in Coord2D /\ end \in Coord2D /\ delta \in 0 .. SegmentDist(start, end)
      /\ coord = SegmentMove(start, end, delta)
  BY DEF CallInv, OnSegment
<1>2. MovesRight(start, end, delta)
  BY <1>1, SegmentMoves
<1> QED
  BY <1>1, <1>2 DEF MovesRight, MoveFollowsSegment

(* SegmentMove, for any width of int and any coordinates whose products it holds, whichever way
   the segment points: it divides what it has multiplied (graph.cpp:130), so that the point is
   on the segment for OnSegment and in the segment's rectangle, 2 at most from where it should
   be, at the end for the whole length, and near it for 3 less. *)
THEOREM SegmentMoveRight == Spec => []MoveFollowsSegment
  BY CallInvariant, CallInvMoves, PTL
=============================================================================
