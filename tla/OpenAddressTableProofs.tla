------------------------ MODULE OpenAddressTableProofs ------------------------
(***************************************************************************)
(* Why a table with tombstones is a map: where probing goes, what it finds *)
(* in a table that is searchable, and that storing and erasing keep it     *)
(* searchable; and what rehash leaves of that.                             *)
(***************************************************************************)
EXTENDS OpenAddressTable, FiniteSetTheorems, NaturalsInduction, WellFoundedInduction,
        TLAPS

(* The tables with values in V.                                            *)
Tables(V) == [Slots -> [state : SlotStates, key : Nat, value : V]]

NoKeyTwice(t) == \A r, s \in Occupied(t) : t[r].key = t[s].key => r = s

(* A search for key that has not found it yet gets as far as slot s.       *)
Passes(t, key, s) ==
    \E n \in Attempts :
        /\ ProbeAt(key, n) = s
        /\ \A i \in 0 .. n - 1 : /\ t[ProbeAt(key, i)].state # "EMPTY"
                                 /\ ProbeAt(key, i) # s

(* The invariant of the table: between a key's home and the slot it is     *)
(* stored in there has been no EMPTY slot since it was stored.             *)
Searchable(t) ==
    /\ NoKeyTwice(t)
    /\ \A s \in Occupied(t) : Passes(t, t[s].key, s)

(* The map with key bound to value, and the map without key.               *)
Entered(map, key, value) ==
    [k \in DOMAIN map \cup {key} |-> IF k = key THEN value ELSE map[k]]
Removed(map, key) == [k \in DOMAIN map \ {key} |-> map[k]]

-----------------------------------------------------------------------------

(* Probing stays in the table.                                             *)
LEMMA ProbeInSlots ==
    ASSUME NEW key \in Nat, NEW n \in Attempts
    PROVE  ProbeAt(key, n) \in Slots
  <1> USE TableAssumption
  <1>1. Capacity \in Nat /\ Capacity > 0 /\ n \in Nat
    BY DEF Attempts, ProbeLength
  <1>2. Hash(key) \in Nat
    BY <1>1 DEF Hash
  <1>3. \A j \in Int : j % Capacity \in 0 .. Capacity - 1
    BY <1>1
  <1>4. CASE Probing = "linear"
    BY <1>1, <1>2, <1>3, <1>4 DEF ProbeAt, Slots
  <1>5. CASE Probing # "linear"
    <2>1. n * (n + 1) \in Int
      BY <1>1
    <2>2. (n * (n + 1)) \div 2 \in Int
      BY <2>1
    <2>3. Hash(key) + (n * (n + 1)) \div 2 \in Int
      BY <1>2, <2>2
    <2>4. QED
      BY <1>3, <1>5, <2>3 DEF ProbeAt, Slots
  <1>6. QED
    BY <1>4, <1>5

LEMMA EarlierAttempts == \A n \in Attempts : n \in Nat /\ (0 .. n - 1) \subseteq Attempts
  BY TableAssumption DEF Attempts, ProbeLength

-----------------------------------------------------------------------------
(* Arithmetic of powers of two.                                            *)

(* Every set of numbers has a least one: induction, for a prover that      *)
(* cannot instantiate an induction principle.                              *)
LEMMA LeastNumber ==
    ASSUME NEW T, T \subseteq Nat, T # {}
    PROVE  \E n \in T : \A m \in T : n <= m
<1>1. PICK n \in T : \A m \in T : ~ (<<m, n>> \in OpToRel(<, Nat))
  BY NatLessThanWellFounded, WFMin, Zenon
<1>2. \A m \in T : ~ (m < n)
  BY <1>1 DEF OpToRel
<1> QED BY <1>2

(* Division with remainder.                                                *)
LEMMA Quotient ==
    ASSUME NEW a \in Int, NEW c \in Nat \ {0}
    PROVE  /\ a % c \in 0 .. c - 1
           /\ a \div c \in Int
           /\ a = c * (a \div c) + (a % c)
OBVIOUS

LEMMA Remainder ==
    ASSUME NEW c \in Nat \ {0}, NEW q \in Int, NEW r \in 0 .. c - 1
    PROVE  (c * q + r) % c = r
<1> DEFINE a == c * q + r
           p == a \div c
<1>1. a \in Int /\ c * q \in Int /\ r \in Int /\ 0 <= r /\ r < c
  OBVIOUS
<1>2. a % c \in 0 .. c - 1 /\ p \in Int /\ a = c * p + (a % c)
  BY <1>1, Quotient
<1>3. c * (q - p) = (a % c) - r
  <2>1. c * (q - p) = c * q - c * p
    BY <1>2
  <2>2. c * p \in Int
    BY <1>2
  <2> QED BY <1>1, <1>2, <2>1, <2>2
<1>4. q - p = 0
  <2>1. q - p \in Int
    BY <1>2
  <2>2. -c < c * (q - p) /\ c * (q - p) < c
    BY <1>1, <1>2, <1>3
  <2>3. ASSUME NEW d \in Int, d >= 1
        PROVE  c * d >= c
    <3>1. c * d = c * (d - 1) + c
      OBVIOUS
    <3>2. c * (d - 1) \in Nat
      BY <2>3
    <3> QED BY <3>1, <3>2
  <2>4. ASSUME NEW d \in Int, d <= -1
        PROVE  c * d <= -c
    <3>1. -d \in Int /\ -d >= 1 /\ c * (-d) = -(c * d) /\ c * d \in Int
      BY <2>4
    <3>2. c * (-d) >= c
      BY <2>3, <3>1
    <3> QED BY <3>1, <3>2
  <2>5. q - p >= 1 \/ q - p <= -1 \/ q - p = 0
    BY <2>1
  <2> QED BY <2>1, <2>2, <2>3, <2>4, <2>5
<1>5. q = p
  BY <1>2, <1>4
<1> QED BY <1>1, <1>2, <1>5

LEMMA Multiple ==
    ASSUME NEW a \in Int, NEW c \in Nat \ {0}
    PROVE  a % c = 0 <=> \E q \in Int : a = c * q
<1>1. ASSUME NEW q \in Int, a = c * q
      PROVE  a % c = 0
  <2>1. 0 \in 0 .. c - 1 /\ a = c * q + 0
    BY <1>1
  <2> QED BY <2>1, Remainder
<1>2. ASSUME a % c = 0
      PROVE  \E q \in Int : a = c * q
  <2>1. a \div c \in Int /\ a = c * (a \div c)
    BY <1>2, Quotient
  <2> QED BY <2>1
<1> QED BY <1>1, <1>2

(* An odd factor leaves the product even only if the other is even...      *)
LEMMA EvenFactor ==
    ASSUME NEW x \in Nat, NEW y \in Nat, NEW r \in Int, x % 2 = 1, x * y = 2 * r
    PROVE  \E w \in Nat : y = 2 * w
<1>1. y % 2 = 0
  <2> SUFFICES ASSUME y % 2 # 0
               PROVE  FALSE
    OBVIOUS
  <2>1. x = 2 * (x \div 2) + 1 /\ y = 2 * (y \div 2) + 1
    OBVIOUS
  <2> DEFINE u == x \div 2
             v == y \div 2
  <2>2. u \in Nat /\ v \in Nat /\ x = 2 * u + 1 /\ y = 2 * v + 1
    BY <2>1
  <2> HIDE DEF u, v
  <2>3. x * y = 2 * (2 * (u * v) + u + v) + 1
    BY <2>2
  <2>4. 2 * (u * v) + u + v \in Int
    BY <2>2
  <2>5. \A i, j \in Int : 2 * i # 2 * j + 1
    OBVIOUS
  <2> QED BY <2>3, <2>4, <2>5
<1>2. y = 2 * (y \div 2)
  BY <1>1
<1> QED BY <1>2

(* What fails where OddOut fails for n.                                    *)
OddStaysIn(n, x, y, z) == x % 2 = 1 /\ x * y = n * z /\ \A p \in Nat : y # n * p

OddStays(n) == \E x, y, z \in Nat : OddStaysIn(n, x, y, z)

(* ...and divides a power of two out of a product for the other factor.    *)
LEMMA OddOut ==
    ASSUME NEW c \in Nat \ {0}, PowerOfTwo(c),
           NEW a \in Nat, a % 2 = 1, NEW b \in Nat, NEW q \in Nat, a * b = c * q
    PROVE  \E p \in Nat : b = c * p
<1> DEFINE Wrong == {n \in Nat \ {0} : PowerOfTwo(n) /\ OddStays(n)}
<1> SUFFICES ASSUME Wrong # {}
             PROVE  FALSE
  <2>1. ~OddStays(c)
    OBVIOUS
  <2>2. ~OddStaysIn(c, a, b, q)
    BY <2>1 DEF OddStays
  <2> QED BY <2>2 DEF OddStaysIn
<1>1. Wrong \subseteq Nat
  OBVIOUS
<1> HIDE DEF Wrong
<1>2. PICK n \in Wrong : \A m \in Wrong : n <= m
  BY <1>1, LeastNumber
<1> USE DEF Wrong
<1>3. n \in Nat /\ n # 0 /\ PowerOfTwo(n) /\ OddStays(n)
  OBVIOUS
<1> HIDE DEF Wrong
<1>4. PICK x \in Nat, y \in Nat, z \in Nat : OddStaysIn(n, x, y, z)
  BY <1>3 DEF OddStays
<1>04. x % 2 = 1 /\ x * y = n * z /\ \A p \in Nat : y # n * p
  BY <1>4 DEF OddStaysIn
<1>5. n # 1
  <2> SUFFICES ASSUME n = 1
               PROVE  FALSE
    OBVIOUS
  <2>1. y = 1 * y
    OBVIOUS
  <2> QED BY <1>04, <2>1
<1>6. n % 2 = 0
  <2>1. n = n * 1 /\ n \in Nat \ {0} /\ n \in Int /\ n \in 1 .. n
    BY <1>3
  <2>2. n % n = 0
    BY <2>1, Multiple
  <2> QED BY <1>3, <1>5, <2>1, <2>2 DEF PowerOfTwo
<1>7. PICK m \in Nat : n = 2 * m
  <2>1. n = 2 * (n \div 2)
    BY <1>3, <1>6
  <2> QED BY <1>3, <2>1
<1>8. m # 0 /\ m < n
  BY <1>3, <1>7
<1>9. PowerOfTwo(m)
  <2> SUFFICES ASSUME NEW d \in 1 .. m, m % d = 0
               PROVE  d = 1 \/ d % 2 = 0
    BY DEF PowerOfTwo
  <2>0. d \in Nat \ {0} /\ m \in Int
    OBVIOUS
  <2>1. PICK k \in Int : m = d * k
    BY <2>0, Multiple
  <2>2. n = d * (2 * k) /\ 2 * k \in Int /\ n \in Int
    BY <1>3, <1>7, <2>0, <2>1
  <2>3. n % d = 0
    BY <2>0, <2>2, Multiple
  <2>4. d \in 1 .. n
    BY <1>3, <1>8, <2>0
  <2> QED BY <1>3, <2>3, <2>4 DEF PowerOfTwo
<1>10. PICK w \in Nat : y = 2 * w
  <2>1. x * y = 2 * (m * z) /\ m * z \in Int
    BY <1>04, <1>7
  <2> QED BY <1>04, <2>1, EvenFactor
<1>11. x * w = m * z
  <2>1. 2 * (x * w) = 2 * (m * z)
    BY <1>04, <1>7, <1>10
  <2>2. x * w \in Int /\ m * z \in Int
    OBVIOUS
  <2> QED BY <2>1, <2>2
<1>12. ~OddStays(m)
  <2>1. m \notin Wrong
    BY <1>2, <1>3, <1>8
  <2> QED BY <1>8, <1>9, <2>1 DEF Wrong
<1>13. PICK p \in Nat : w = m * p
  <2>1. ~OddStaysIn(m, x, w, z)
    BY <1>12 DEF OddStays
  <2> QED BY <1>04, <1>11, <2>1 DEF OddStaysIn
<1>14. y = n * p
  BY <1>7, <1>10, <1>13
<1> QED BY <1>04, <1>14

-----------------------------------------------------------------------------
(* Where probing goes.                                                     *)

(* 1 + 2 + ... + n: how far quadratic probing has gone after n attempts.   *)
Triangle(n) == (n * (n + 1)) \div 2

LEMMA OddOutTwice ==
    ASSUME NEW a \in Nat, a % 2 = 1, NEW b \in Nat, NEW q \in Nat,
           a * b = 2 * (Capacity * q)
    PROVE  \E p \in Nat : b = 2 * (Capacity * p)
<1>1. PowerOfTwo(Capacity) /\ Capacity \in Nat \ {0}
  BY TableAssumption
<1> DEFINE r == Capacity * q
<1>2. r \in Nat /\ r \in Int /\ a * b = 2 * r
  BY <1>1
<1> HIDE DEF r
<1>3. PICK w \in Nat : b = 2 * w
  BY <1>2, EvenFactor, Zenon
<1> USE DEF r
<1>4. a * w = Capacity * q
  <2>1. 2 * (a * w) = 2 * (Capacity * q)
    BY <1>3
  <2>2. a * w \in Int
    OBVIOUS
  <2> QED BY <1>2, <2>1, <2>2
<1>5. \E p \in Nat : w = Capacity * p
  BY <1>1, <1>4, OddOut
<1> QED BY <1>3, <1>5

(* Halving in Triangle loses nothing.                                      *)
LEMMA TriangleIsHalf ==
    ASSUME NEW n \in Nat
    PROVE  Triangle(n) \in Nat /\ n * (n + 1) = 2 * Triangle(n)
<1>1. \E w \in Nat : n * (n + 1) = 2 * w
  <2>1. PICK k \in Nat : n = 2 * k \/ n = 2 * k + 1
    <3>1. n \div 2 \in Nat /\ (n = 2 * (n \div 2) \/ n = 2 * (n \div 2) + 1)
      OBVIOUS
    <3> QED BY <3>1
  <2>2. CASE n = 2 * k
    <3>1. n * (n + 1) = 2 * (k * (n + 1)) /\ k * (n + 1) \in Nat
      BY <2>2
    <3> QED BY <3>1
  <2>3. CASE n = 2 * k + 1
    <3>1. n * (n + 1) = 2 * (n * (k + 1)) /\ n * (k + 1) \in Nat
      BY <2>3
    <3> QED BY <3>1
  <2> QED BY <2>1, <2>2, <2>3
<1>2. PICK w \in Nat : n * (n + 1) = 2 * w
  BY <1>1
<1>3. (2 * w) \div 2 = w
  OBVIOUS
<1> QED BY <1>2, <1>3 DEF Triangle

LEMMA TriangleNext ==
    ASSUME NEW n \in Nat
    PROVE  Triangle(n + 1) = Triangle(n) + n + 1
<1>1. /\ Triangle(n) \in Nat /\ Triangle(n + 1) \in Nat
      /\ n * (n + 1) = 2 * Triangle(n)
      /\ (n + 1) * (n + 1 + 1) = 2 * Triangle(n + 1)
  BY TriangleIsHalf
<1>2. (n + 1) * (n + 1 + 1) = n * (n + 1) + 2 * (n + 1)
  OBVIOUS
<1> QED BY <1>1, <1>2

(* The steps between two attempts come to a multiple of the capacity only  *)
(* if the attempts are far apart: of their distance and of their sum plus  *)
(* one, one is odd, so the other is a multiple of twice the capacity.      *)
LEMMA TriangleGap ==
    ASSUME NEW i \in Nat, NEW j \in Nat, i < j, NEW q \in Int,
           Triangle(j) - Triangle(i) = Capacity * q
    PROVE  i + j + 1 >= 2 * Capacity \/ j - i >= 2 * Capacity
<1> DEFINE a == j - i
           b == i + j + 1
<1>1. Capacity \in Nat /\ Capacity > 0
  BY TableAssumption
<1>2. a \in Nat /\ b \in Nat /\ a > 0 /\ b > 0
  OBVIOUS
<1>3. a * b = 2 * (Capacity * q)
  <2>1. a * b = j * (j + 1) - i * (i + 1)
    OBVIOUS
  <2>2. /\ Triangle(i) \in Nat /\ i * (i + 1) = 2 * Triangle(i)
        /\ Triangle(j) \in Nat /\ j * (j + 1) = 2 * Triangle(j)
    BY TriangleIsHalf
  <2> QED BY <2>1, <2>2
<1>4. a * b > 0 /\ a * b \in Nat
  BY <1>2
<1>5. q \in Nat
  <2> SUFFICES ASSUME q <= -1
               PROVE  FALSE
    OBVIOUS
  <2>1. Capacity * (-q) \in Nat /\ Capacity * (-q) = -(Capacity * q) /\ Capacity * q \in Int
    BY <1>1
  <2> QED BY <1>3, <1>4, <2>1
<1>6. a % 2 = 1 \/ b % 2 = 1
  <2>1. a + b = 2 * j + 1
    OBVIOUS
  <2> QED BY <1>2, <2>1
<1>7. ASSUME NEW x \in Nat, NEW p \in Nat, x > 0, x = 2 * (Capacity * p)
      PROVE  x >= 2 * Capacity
  <2>1. p # 0
    <3> SUFFICES ASSUME p = 0
                 PROVE  FALSE
      OBVIOUS
    <3>1. Capacity * p = 0
      BY <1>1
    <3> QED BY <1>7, <3>1
  <2>2. Capacity * p = Capacity + Capacity * (p - 1) /\ Capacity * (p - 1) \in Nat
    BY <1>1, <2>1
  <2> QED BY <1>1, <1>7, <2>2
<1> HIDE DEF a, b
<1>8. CASE a % 2 = 1
  <2>1. PICK p \in Nat : b = 2 * (Capacity * p)
    BY <1>2, <1>3, <1>5, <1>8, OddOutTwice
  <2>2. b >= 2 * Capacity
    BY <1>2, <1>7, <2>1
  <2> QED BY <2>2 DEF b
<1>9. CASE b % 2 = 1
  <2>0. b * a = 2 * (Capacity * q)
    BY <1>2, <1>3
  <2>1. PICK p \in Nat : a = 2 * (Capacity * p)
    BY <1>2, <2>0, <1>5, <1>9, OddOutTwice
  <2>2. a >= 2 * Capacity
    BY <1>2, <1>7, <2>1
  <2> QED BY <2>2 DEF a
<1> QED BY <1>6, <1>8, <1>9

LEMMA HashInSlots ==
    ASSUME NEW key \in Nat
    PROVE  Hash(key) \in Slots /\ Hash(key) \in Nat /\ Hash(key) < Capacity
BY TableAssumption DEF Hash, Slots

(* Two slots reached after steps in all, and after more steps in all.      *)
LEMMA SameSlot ==
    ASSUME NEW h \in Nat, NEW x \in Nat, NEW y \in Nat,
           (h + x) % Capacity = (h + y) % Capacity
    PROVE  \E q \in Int : y - x = Capacity * q
<1>1. Capacity \in Nat \ {0} /\ h + x \in Int /\ h + y \in Int
  BY TableAssumption
<1> DEFINE a == (h + x) \div Capacity
           b == (h + y) \div Capacity
           r == (h + x) % Capacity
<1>2. /\ h + x = Capacity * a + r /\ a \in Int /\ r \in Int
      /\ h + y = Capacity * b + r /\ b \in Int
  <2>1. h + x = Capacity * a + r /\ a \in Int /\ r \in 0 .. Capacity - 1
    BY ONLY <1>1, Quotient
  <2>2. h + y = Capacity * b + ((h + y) % Capacity) /\ b \in Int
    BY ONLY <1>1, Quotient
  <2> QED BY <1>1, <2>1, <2>2
<1> HIDE DEF a, b, r
<1>3. y - x = Capacity * (b - a)
  <2>1. y - x = Capacity * b - Capacity * a
    <3>1. Capacity * b \in Int /\ Capacity * a \in Int
      BY <1>1, <1>2
    <3> QED BY <1>2, <3>1
  <2> QED BY <1>1, <1>2, <2>1
<1> QED BY <1>2, <1>3

(* Two attempts of quadratic probing at one slot are far apart.            *)
LEMMA QuadraticApart ==
    ASSUME Probing # "linear", NEW key \in Nat, NEW i \in Nat, NEW j \in Nat, i < j,
           ProbeAt(key, i) = ProbeAt(key, j)
    PROVE  i + j + 1 >= 2 * Capacity \/ j - i >= 2 * Capacity
<1>1. Hash(key) \in Nat /\ Triangle(i) \in Nat /\ Triangle(j) \in Nat
  BY HashInSlots, TriangleIsHalf
<1>2. (Hash(key) + Triangle(i)) % Capacity = (Hash(key) + Triangle(j)) % Capacity
  BY DEF ProbeAt, Triangle
<1>3. PICK q \in Int : Triangle(j) - Triangle(i) = Capacity * q
  BY <1>1, <1>2, SameSlot
<1> QED BY <1>3, TriangleGap

(* The closed form of the n-th slot is what the loop of probe_for_slot_idx *)
(* computes one Probe::next after the other.                               *)
THEOREM ProbeNext ==
    ASSUME NEW key \in Nat, NEW n \in Nat
    PROVE  /\ ProbeAt(key, 0) = Hash(key)
           /\ ProbeAt(key, n + 1) =
                (ProbeAt(key, n) + (IF Probing = "linear" THEN 1 ELSE n + 1)) % Capacity
<1>1. Capacity \in Nat \ {0} /\ Hash(key) \in 0 .. Capacity - 1 /\ Hash(key) \in Nat
  BY TableAssumption, HashInSlots DEF Slots
<1>2. ASSUME NEW x \in Nat, NEW d \in Nat
      PROVE  (Hash(key) + (x + d)) % Capacity = (((Hash(key) + x) % Capacity) + d) % Capacity
  <2> DEFINE r == (Hash(key) + x) % Capacity
             p == (Hash(key) + x) \div Capacity
             t == (r + d) % Capacity
             v == (r + d) \div Capacity
  <2>1. Hash(key) + x = Capacity * p + r /\ p \in Int /\ r \in 0 .. Capacity - 1
    <3>1. Hash(key) + x \in Int
      BY <1>1
    <3> QED BY ONLY <1>1, <3>1, Quotient
  <2>2. r + d \in Int
    BY <1>1, <2>1
  <2>3. r + d = Capacity * v + t /\ v \in Int /\ t \in 0 .. Capacity - 1
    BY ONLY <1>1, <2>2, Quotient
  <2> HIDE DEF p, r, t, v
  <2>4. Hash(key) + (x + d) = Capacity * (p + v) + t
    <3> DEFINE P == Capacity * p
               V == Capacity * v
               h == Hash(key)
    <3>1. Capacity * (p + v) = P + V
      BY <1>1, <2>1, <2>3
    <3>2. /\ P \in Int /\ V \in Int /\ r \in Int /\ t \in Int /\ h \in Int
          /\ h + x = P + r /\ r + d = V + t
      BY <1>1, <2>1, <2>3
    <3> HIDE DEF P, V, h
    <3>3. h + (x + d) = P + V + t
      BY <3>2
    <3> QED BY <3>1, <3>3 DEF h
  <2>5. p + v \in Int
    BY <2>1, <2>3
  <2>6. (Hash(key) + (x + d)) % Capacity = t
    BY <1>1, <2>3, <2>4, <2>5, Remainder
  <2> QED BY <2>6 DEF t, r
<1>3. CASE Probing = "linear"
  <2>1. ProbeAt(key, 0) = Hash(key)
    <3>1. Hash(key) = Capacity * 0 + Hash(key) /\ Hash(key) + 0 = Hash(key)
      BY <1>1
    <3>2. Hash(key) % Capacity = Hash(key)
      BY <1>1, <3>1, Remainder
    <3> QED BY <1>3, <3>1, <3>2 DEF ProbeAt
  <2>2. (Hash(key) + (n + 1)) % Capacity = (((Hash(key) + n) % Capacity) + 1) % Capacity
    BY <1>2
  <2> QED BY <1>3, <2>1, <2>2 DEF ProbeAt
<1>4. CASE Probing # "linear"
  <2>0. \A m : ProbeAt(key, m) = (Hash(key) + Triangle(m)) % Capacity
    BY <1>4 DEF ProbeAt, Triangle
  <2>1. ProbeAt(key, 0) = Hash(key)
    <3>1. Triangle(0) = 0
      BY DEF Triangle
    <3>2. Hash(key) = Capacity * 0 + Hash(key) /\ Hash(key) + 0 = Hash(key)
      BY <1>1
    <3>3. Hash(key) % Capacity = Hash(key)
      BY <1>1, <3>2, Remainder
    <3> QED BY <2>0, <3>1, <3>2, <3>3
  <2>2. Triangle(n) \in Nat /\ Triangle(n + 1) = Triangle(n) + (n + 1)
    BY TriangleIsHalf, TriangleNext
  <2>3. (Hash(key) + (Triangle(n) + (n + 1))) % Capacity
           = (((Hash(key) + Triangle(n)) % Capacity) + (n + 1)) % Capacity
    <3> DEFINE d == n + 1
    <3>1. d \in Nat
      OBVIOUS
    <3> HIDE DEF d
    <3>2. (Hash(key) + (Triangle(n) + d)) % Capacity
             = (((Hash(key) + Triangle(n)) % Capacity) + d) % Capacity
      BY <1>2, <2>2, <3>1
    <3> QED BY <3>2 DEF d
  <2> QED BY <1>4, <2>0, <2>1, <2>2, <2>3
<1> QED BY <1>3, <1>4

(* The loop ends when it is back at the key's own slot, and that is after  *)
(* ProbeLength attempts and not before.                                    *)
THEOREM ProbeCycle ==
    ASSUME NEW key \in Nat
    PROVE  /\ ProbeAt(key, ProbeLength) = Hash(key)
           /\ \A n \in 1 .. ProbeLength - 1 : ProbeAt(key, n) # Hash(key)
<1>1. Capacity \in Nat \ {0} /\ Hash(key) \in 0 .. Capacity - 1 /\ Hash(key) \in Nat
  BY TableAssumption, HashInSlots DEF Slots
<1>2. ASSUME NEW q \in Int
      PROVE  (Hash(key) + Capacity * q) % Capacity = Hash(key)
  <2>1. Hash(key) + Capacity * q = Capacity * q + Hash(key)
    BY <1>1
  <2> QED BY <1>1, <2>1, Remainder
<1>3. CASE Probing = "linear"
  <2>1. ProbeAt(key, ProbeLength) = Hash(key)
    <3>1. Capacity * 1 = Capacity
      BY <1>1
    <3>2. (Hash(key) + Capacity) % Capacity = Hash(key)
      BY <1>2, <3>1
    <3> QED BY <1>3, <3>2 DEF ProbeAt, ProbeLength
  <2>2. ASSUME NEW n \in 1 .. Capacity - 1, ProbeAt(key, n) = Hash(key)
        PROVE  FALSE
    <3>0. n \in Nat /\ n > 0 /\ n < Capacity
      BY <1>1
    <3>1. (Hash(key) + 0) % Capacity = (Hash(key) + n) % Capacity
      BY <1>3, <2>2, ProbeNext DEF ProbeAt
    <3>2. PICK q \in Int : n - 0 = Capacity * q
      BY <1>1, <3>0, <3>1, SameSlot
    <3>3. q > 0 => Capacity * q >= Capacity
      <4>1. q > 0 => Capacity * q = Capacity + Capacity * (q - 1) /\ Capacity * (q - 1) \in Nat
        BY <1>1
      <4> QED BY <1>1, <4>1
    <3>4. q <= 0 => Capacity * q <= 0
      <4>1. q <= 0 => Capacity * q = - (Capacity * (-q)) /\ Capacity * (-q) \in Nat
        BY <1>1
      <4> QED BY <4>1
    <3> QED BY <3>0, <3>2, <3>3, <3>4, <1>1
  <2> QED BY <1>3, <2>1, <2>2 DEF ProbeLength
<1>4. CASE Probing # "linear"
  <2> DEFINE last == 2 * Capacity - 1
  <2>1. ProbeAt(key, last) = Hash(key)
    <3>1. last \in Nat /\ last + 1 = 2 * Capacity
      BY <1>1
    <3>2. last * (last + 1) = 2 * (Capacity * last)
      BY <1>1, <3>1
    <3>3. Triangle(last) = Capacity * last /\ last \in Int
      <4>1. Capacity * last \in Nat /\ Triangle(last) \in Nat
            /\ last * (last + 1) = 2 * Triangle(last)
        BY <1>1, <3>1, TriangleIsHalf
      <4> HIDE DEF last
      <4> QED BY <3>1, <3>2, <4>1
    <3> HIDE DEF last
    <3>4. ProbeAt(key, last) = (Hash(key) + Triangle(last)) % Capacity
      BY <1>4 DEF ProbeAt, Triangle
    <3> QED BY <1>2, <3>3, <3>4
  <2>2. ASSUME NEW n \in 1 .. last - 1, ProbeAt(key, n) = Hash(key)
        PROVE  FALSE
    <3>1. n \in Nat /\ 0 < n /\ n + 1 < 2 * Capacity
      BY <1>1
    <3>2. ProbeAt(key, 0) = ProbeAt(key, n)
      BY <2>2, ProbeNext
    <3>3. 0 + n + 1 >= 2 * Capacity \/ n - 0 >= 2 * Capacity
      BY <1>4, <3>1, <3>2, QuadraticApart
    <3> QED BY <1>1, <3>1, <3>3
  <2> QED BY <1>4, <2>1, <2>2 DEF ProbeLength
<1> QED BY <1>3, <1>4

(* A search looks at every slot before it gives up.                        *)
LEMMA ProbeEverywhere ==
    ASSUME NEW key \in Nat, NEW s \in Slots
    PROVE  \E n \in Attempts : ProbeAt(key, n) = s
<1>1. Capacity \in Nat /\ Capacity > 0
  BY TableAssumption
<1>2. \A n \in Slots : n \in Attempts /\ n \in Nat /\ n < Capacity
  BY <1>1 DEF Slots, Attempts, ProbeLength
<1> DEFINE probe == [n \in Slots |-> ProbeAt(key, n)]
<1>3. ASSUME NEW i \in Slots, NEW j \in Slots, i < j, ProbeAt(key, i) = ProbeAt(key, j)
      PROVE  FALSE
  <2>0. /\ i \in Nat /\ j \in Nat /\ j < Capacity
        /\ i + j + 1 < 2 * Capacity /\ j - i < 2 * Capacity
    BY <1>1, <1>2, <1>3
  <2>1. CASE Probing # "linear"
    BY <1>1, <1>3, <2>0, <2>1, QuadraticApart
  <2>2. CASE Probing = "linear"
    <3>1. (Hash(key) + i) % Capacity = (Hash(key) + j) % Capacity
      BY <1>3, <2>2 DEF ProbeAt
    <3>2. PICK q \in Int : j - i = Capacity * q
      BY <2>0, <3>1, HashInSlots, SameSlot
    <3>3. q > 0 => Capacity * q >= Capacity
      <4>1. q > 0 => Capacity * q = Capacity + Capacity * (q - 1) /\ Capacity * (q - 1) \in Nat
        BY <1>1
      <4> QED BY <1>1, <4>1
    <3>4. q <= 0 => Capacity * q <= 0
      <4>1. q <= 0 => Capacity * q = - (Capacity * (-q)) /\ Capacity * (-q) \in Nat
        BY <1>1
      <4> QED BY <4>1
    <3> QED BY <1>1, <1>3, <2>0, <3>2, <3>3, <3>4
  <2> QED BY <2>1, <2>2
<1>4. probe \in [Slots -> Slots]
  BY <1>2, ProbeInSlots
<1>5. probe \in Injection(Slots, Slots)
  <2>1. \A i, j \in Slots : probe[i] = probe[j] => i = j
    BY <1>2, <1>3
  <2> QED BY <1>4, <2>1 DEF Injection, IsInjective
<1>6. IsFiniteSet(Slots)
  BY <1>1, FS_Interval DEF Slots
<1>7. probe \in Surjection(Slots, Slots)
  BY <1>5, <1>6, FS_Injection
<1>8. PICK n \in Slots : probe[n] = s
  BY <1>7 DEF Surjection
<1> QED BY <1>2, <1>8

-----------------------------------------------------------------------------
(* What a search finds.                                                    *)

(* A search for a stored key ends on its slot.                             *)
LEMMA StoredKeyIsFound ==
    ASSUME NEW V, NEW t \in Tables(V), Searchable(t), NEW s \in Occupied(t)
    PROVE  ProbedSlots(t, t[s].key) = {s}
  <1> DEFINE key == t[s].key
  <1>1. key \in Nat /\ Matches(t, key, s)
    BY DEF Tables, Occupied, Matches
  <1>2. PICK n \in Attempts :
           /\ ProbeAt(key, n) = s
           /\ \A i \in 0 .. n - 1 : /\ t[ProbeAt(key, i)].state # "EMPTY"
                                    /\ ProbeAt(key, i) # s
    BY DEF Searchable, Passes
  <1>3. \A i \in Attempts : Matches(t, key, ProbeAt(key, i)) => ProbeAt(key, i) = s
    BY <1>1, ProbeInSlots DEF Searchable, NoKeyTwice, Matches, Occupied
  <1>4. \A i \in 0 .. n - 1 : i \in Attempts
    BY EarlierAttempts
  <1>5. n \in Stops(t, key)
    BY <1>1, <1>2, <1>3, <1>4 DEF Stops
  <1>6. \A m \in Stops(t, key) : m = n
    <2> SUFFICES ASSUME NEW m \in Stops(t, key), m # n
                 PROVE  FALSE
      OBVIOUS
    <2>1. m \in Attempts /\ m \in Int /\ n \in Int /\ m >= 0 /\ n >= 0
      BY DEF Stops, Attempts
    <2>2. CASE m < n
      BY <1>2, <1>3, <2>1, <2>2 DEF Stops
    <2>3. CASE n < m
      BY <1>1, <1>2, <2>1, <2>3 DEF Stops
    <2>4. QED
      BY <2>1, <2>2, <2>3
  <1>7. {m \in Stops(t, key) : Matches(t, key, ProbeAt(key, m))} = {n}
    BY <1>1, <1>2, <1>5, <1>6
  <1>8. QED
    BY <1>2, <1>7 DEF ProbedSlots

(* A search that does not end on the key ends on a slot in which the key   *)
(* can be stored, and the key is stored nowhere.                           *)
LEMMA AbsentKeyHasRoom ==
    ASSUME NEW V, NEW t \in Tables(V), Searchable(t), NEW key \in Nat,
           NEW s \in ProbedSlots(t, key), ~Matches(t, key, s)
    PROVE  /\ s \in Slots /\ t[s].state # "OCCUPIED"
           /\ key \notin StoredKeys(t)
           /\ Passes(t, key, s)
  <1>1. key \notin StoredKeys(t)
    BY StoredKeyIsFound DEF StoredKeys, Matches, Occupied
  <1>2. \E n \in Attempts :
           /\ ProbeAt(key, n) = s
           /\ t[s].state # "OCCUPIED"
           /\ \A i \in 0 .. n - 1 : /\ t[ProbeAt(key, i)].state # "EMPTY"
                                    /\ ProbeAt(key, i) # s
    <2>1. CASE \E n \in FirstTombstones(t, key) : ProbeAt(key, n) = s
      BY <2>1 DEF FirstTombstones
    <2>2. CASE \E n \in Stops(t, key) : ProbeAt(key, n) = s
      BY <2>2 DEF Stops
    <2>3. QED
      BY <2>1, <2>2 DEF ProbedSlots
  <1>3. QED
    BY <1>1, <1>2, ProbeInSlots DEF Passes

(* A search for a key that is stored nowhere does not end on the key.      *)
LEMMA MatchIsStored ==
    ASSUME NEW V, NEW t \in Tables(V), NEW key \in Nat, NEW s \in ProbedSlots(t, key)
    PROVE  /\ s \in Slots
           /\ Matches(t, key, s) => s \in Occupied(t) /\ t[s].key = key
  <1>1. s \in Slots
    BY ProbeInSlots DEF ProbedSlots, Stops, FirstTombstones
  <1>2. QED
    BY <1>1 DEF Matches, Occupied

-----------------------------------------------------------------------------
(* The table as a map.                                                     *)

LEMMA EmptyTableSearchable ==
    ASSUME NEW V, NEW v \in V
    PROVE  /\ EmptyTable(v) \in Tables(V)
           /\ Searchable(EmptyTable(v))
           /\ Occupied(EmptyTable(v)) = {}
  BY DEF EmptyTable, Tables, Searchable, NoKeyTwice, Occupied, SlotStates

(* Whichever occupied slot the CHOOSE of Stored takes, it is the key's.    *)
LEMMA StoredValue ==
    ASSUME NEW t, NoKeyTwice(t)
    PROVE  \A s \in Occupied(t) : Stored(t)[t[s].key] = t[s].value
  <1> TAKE s \in Occupied(t)
  <1> DEFINE r == CHOOSE r \in Occupied(t) : t[r].key = t[s].key
  <1>1. r \in Occupied(t) /\ t[r].key = t[s].key
    OBVIOUS
  <1>2. r = s
    BY <1>1 DEF NoKeyTwice
  <1>3. t[s].key \in StoredKeys(t)
    BY DEF StoredKeys
  <1>4. QED
    BY <1>2, <1>3 DEF Stored

(* Storing a key where probing says.                                       *)
LEMMA FillStores ==
    ASSUME NEW V, NEW t \in Tables(V), Searchable(t), NEW key \in Nat,
           NEW s \in ProbedSlots(t, key), NEW value \in V
    PROVE  /\ Filled(t, s, key, value) \in Tables(V)
           /\ Searchable(Filled(t, s, key, value))
           /\ Stored(Filled(t, s, key, value)) = Entered(Stored(t), key, value)
  <1> DEFINE u == Filled(t, s, key, value)
  <1>1. s \in Slots
    BY MatchIsStored
  <1>2. /\ u \in Tables(V)
        /\ u[s] = [state |-> "OCCUPIED", key |-> key, value |-> value]
        /\ \A r \in Slots \ {s} : u[r] = t[r]
    BY <1>1 DEF Filled, Tables, SlotStates
  <1>3. Occupied(u) = Occupied(t) \cup {s}
    BY <1>1, <1>2 DEF Occupied
  <1>4. \A r \in Occupied(t) : t[r].key = key => r = s
    <2>1. CASE Matches(t, key, s)
      BY <2>1, MatchIsStored DEF Searchable, NoKeyTwice
    <2>2. CASE ~Matches(t, key, s)
      BY <2>2, AbsentKeyHasRoom DEF StoredKeys
    <2>3. QED
      BY <2>1, <2>2
  <1>5. NoKeyTwice(u)
    BY <1>2, <1>3, <1>4 DEF NoKeyTwice, Searchable, Occupied
  <1>6. Passes(t, key, s)
    <2>1. CASE Matches(t, key, s)
      BY <2>1, MatchIsStored DEF Searchable
    <2>2. CASE ~Matches(t, key, s)
      BY <2>2, AbsentKeyHasRoom
    <2>3. QED
      BY <2>1, <2>2
  <1>7. ASSUME NEW k \in Nat, NEW r \in Slots, Passes(t, k, r)
        PROVE  Passes(u, k, r)
    <2>1. PICK n \in Attempts :
             /\ ProbeAt(k, n) = r
             /\ \A i \in 0 .. n - 1 : /\ t[ProbeAt(k, i)].state # "EMPTY"
                                      /\ ProbeAt(k, i) # r
      BY <1>7 DEF Passes
    <2>2. \A i \in 0 .. n - 1 : i \in Attempts
      BY EarlierAttempts
    <2>3. \A i \in 0 .. n - 1 : u[ProbeAt(k, i)].state # "EMPTY"
      BY <1>2, <2>1, <2>2, ProbeInSlots
    <2>4. QED
      BY <2>1, <2>3 DEF Passes
  <1>8. ASSUME NEW r \in Occupied(u)
        PROVE  Passes(u, u[r].key, r)
    <2>1. CASE r = s
      BY <1>1, <1>2, <1>6, <1>7, <2>1
    <2>2. CASE r # s
      <3>1. r \in Occupied(t) /\ r \in Slots /\ u[r].key = t[r].key /\ t[r].key \in Nat
        BY <1>2, <1>3, <2>2 DEF Occupied, Tables
      <3>2. QED
        BY <1>7, <3>1 DEF Searchable
    <2>3. QED
      BY <2>1, <2>2
  <1>9. StoredKeys(u) = StoredKeys(t) \cup {key}
    BY <1>1, <1>2, <1>3, <1>4, MatchIsStored, AbsentKeyHasRoom DEF StoredKeys, Occupied, Matches
  <1>10. \A k \in StoredKeys(u) :
            Stored(u)[k] = IF k = key THEN value ELSE Stored(t)[k]
    <2> TAKE k \in StoredKeys(u)
    <2>1. PICK r \in Occupied(u) : u[r].key = k
      BY DEF StoredKeys
    <2>2. Stored(u)[k] = u[r].value
      BY <1>5, <2>1, StoredValue
    <2>3. CASE r = s
      BY <1>2, <2>1, <2>2, <2>3
    <2>4. CASE r # s
      <3>1. r \in Occupied(t) /\ u[r] = t[r]
        BY <1>2, <1>3, <2>4 DEF Occupied
      <3>2. k # key /\ Stored(t)[k] = t[r].value
        BY <1>4, <2>1, <2>4, <3>1, StoredValue DEF Searchable
      <3>3. QED
        BY <2>2, <3>1, <3>2
    <2>5. QED
      BY <2>3, <2>4
  <1>11. Stored(u) = [k \in StoredKeys(u) |-> Stored(u)[k]]
    BY DEF Stored
  <1>12. DOMAIN Stored(t) = StoredKeys(t)
    BY DEF Stored
  <1>13. Stored(u) = Entered(Stored(t), key, value)
    <2> HIDE DEF u, Stored
    <2>1. QED
      BY <1>9, <1>10, <1>11, <1>12 DEF Entered
  <1>14. QED
    BY <1>2, <1>5, <1>8, <1>13 DEF Searchable

(* Changing the value in a slot that search has found.                     *)
LEMMA ChangeStores ==
    ASSUME NEW V, NEW t \in Tables(V), Searchable(t), NEW s \in Occupied(t),
           NEW value \in V
    PROVE  /\ [t EXCEPT ![s].value = value] \in Tables(V)
           /\ Searchable([t EXCEPT ![s].value = value])
           /\ Stored([t EXCEPT ![s].value = value]) =
                [Stored(t) EXCEPT ![t[s].key] = value]
  <1>1. [t EXCEPT ![s].value = value] = Filled(t, s, t[s].key, value)
    <2>1. t[s] \in [state : SlotStates, key : Nat, value : V] /\ t[s].state = "OCCUPIED"
      BY DEF Tables, Occupied
    <2>2. [t[s] EXCEPT !.value = value] =
            [state |-> "OCCUPIED", key |-> t[s].key, value |-> value]
      BY <2>1
    <2>3. QED
      BY <2>2 DEF Filled
  <1>2. t[s].key \in Nat /\ s \in ProbedSlots(t, t[s].key)
    BY StoredKeyIsFound DEF Tables, Occupied
  <1>3. t[s].key \in StoredKeys(t)
    BY DEF StoredKeys
  <1>4. [Stored(t) EXCEPT ![t[s].key] = value] = Entered(Stored(t), t[s].key, value)
    <2>1. Stored(t) = [k \in StoredKeys(t) |-> Stored(t)[k]]
      BY DEF Stored
    <2>2. DOMAIN Stored(t) = StoredKeys(t) /\ StoredKeys(t) \cup {t[s].key} = StoredKeys(t)
      BY <1>3 DEF Stored
    <2> HIDE DEF Stored
    <2>3. QED
      BY <2>1, <2>2 DEF Entered
  <1>5. /\ Filled(t, s, t[s].key, value) \in Tables(V)
        /\ Searchable(Filled(t, s, t[s].key, value))
        /\ Stored(Filled(t, s, t[s].key, value)) = Entered(Stored(t), t[s].key, value)
    BY <1>2, FillStores, Zenon
  <1>6. QED
    BY <1>1, <1>4, <1>5

(* Erasing the entry in a slot that search has found.                      *)
LEMMA BuryErases ==
    ASSUME NEW V, NEW t \in Tables(V), Searchable(t), NEW s \in Occupied(t)
    PROVE  /\ Buried(t, s) \in Tables(V)
           /\ Buried(t, s)[s].value = t[s].value
           /\ Searchable(Buried(t, s))
           /\ Stored(Buried(t, s)) = Removed(Stored(t), t[s].key)
  <1> DEFINE u == Buried(t, s)
  <1>1. /\ u \in Tables(V)
        /\ s \in Slots /\ u[s].state = "TOMBSTONE" /\ u[s].value = t[s].value
        /\ \A r \in Slots \ {s} : u[r] = t[r]
    BY DEF Buried, Tables, Occupied, SlotStates
  <1>2. Occupied(u) = Occupied(t) \ {s}
    BY <1>1 DEF Occupied
  <1>3. NoKeyTwice(u)
    BY <1>1, <1>2 DEF NoKeyTwice, Searchable, Occupied
  <1>4. ASSUME NEW r \in Occupied(u)
        PROVE  Passes(u, u[r].key, r)
    <2>1. r \in Occupied(t) /\ r \in Slots /\ u[r].key = t[r].key /\ t[r].key \in Nat
      BY <1>1, <1>2 DEF Occupied, Tables
    <2>2. PICK n \in Attempts :
             /\ ProbeAt(t[r].key, n) = r
             /\ \A i \in 0 .. n - 1 : /\ t[ProbeAt(t[r].key, i)].state # "EMPTY"
                                      /\ ProbeAt(t[r].key, i) # r
      BY <2>1 DEF Passes, Searchable
    <2>3. \A i \in 0 .. n - 1 : u[ProbeAt(t[r].key, i)].state # "EMPTY"
      BY <1>1, <2>1, <2>2, ProbeInSlots, EarlierAttempts
    <2>4. QED
      BY <2>1, <2>2, <2>3 DEF Passes
  <1>5. StoredKeys(u) = StoredKeys(t) \ {t[s].key}
    BY <1>1, <1>2 DEF StoredKeys, Searchable, NoKeyTwice, Occupied
  <1>6. \A k \in StoredKeys(u) : Stored(u)[k] = Stored(t)[k]
    <2> TAKE k \in StoredKeys(u)
    <2>1. PICK r \in Occupied(u) : u[r].key = k
      BY DEF StoredKeys
    <2>2. r \in Occupied(t) /\ u[r] = t[r]
      BY <1>1, <1>2 DEF Occupied
    <2>3. QED
      BY <1>3, <2>1, <2>2, StoredValue DEF Searchable
  <1>7. Stored(u) = [k \in StoredKeys(u) |-> Stored(u)[k]]
    BY DEF Stored
  <1>8. DOMAIN Stored(t) = StoredKeys(t)
    BY DEF Stored
  <1>9. Stored(u) = Removed(Stored(t), t[s].key)
    <2> HIDE DEF u, Stored
    <2>1. QED
      BY <1>5, <1>6, <1>7, <1>8 DEF Removed
  <1>10. QED
    BY <1>1, <1>3, <1>4, <1>9 DEF Searchable

-----------------------------------------------------------------------------
(* When the table is full.                                                 *)

LEMMA SlotsCounted == IsFiniteSet(Slots) /\ Cardinality(Slots) = Capacity
  <1>1. Capacity \in Nat /\ Capacity > 0
    BY TableAssumption
  <1>2. QED
    BY <1>1, FS_Interval DEF Slots

(* Distinct slots hold distinct keys, so there are as many of either.      *)
LEMMA StoredKeysCounted ==
    ASSUME NEW t, NoKeyTwice(t)
    PROVE  /\ IsFiniteSet(Occupied(t)) /\ IsFiniteSet(StoredKeys(t))
           /\ Cardinality(StoredKeys(t)) = Cardinality(Occupied(t))
  <1>1. IsFiniteSet(Slots)
    BY SlotsCounted
  <1>2. IsFiniteSet(Occupied(t))
    BY <1>1, FS_Subset DEF Occupied
  <1> DEFINE f == [s \in Occupied(t) |-> t[s].key]
  <1>3. f \in Bijection(Occupied(t), StoredKeys(t))
    BY DEF Bijection, Injection, IsInjective, Surjection, StoredKeys, NoKeyTwice
  <1>4. ExistsBijection(Occupied(t), StoredKeys(t))
    BY <1>3 DEF ExistsBijection
  <1>5. QED
    BY <1>2, <1>4, FS_Bijection

(* As long as there is a slot that is not occupied there are fewer keys    *)
(* than slots.                                                             *)
LEMMA RoomLeft ==
    ASSUME NEW t, NoKeyTwice(t), NEW s \in Slots, t[s].state # "OCCUPIED"
    PROVE  Cardinality(StoredKeys(t)) < Capacity
  <1>1. IsFiniteSet(Slots) /\ Cardinality(Slots) = Capacity
    BY SlotsCounted
  <1>2. IsFiniteSet(Slots \ {s}) /\ Cardinality(Slots \ {s}) = Capacity - 1
    BY <1>1, FS_RemoveElement
  <1>3. Occupied(t) \in SUBSET (Slots \ {s})
    BY DEF Occupied
  <1>4. Cardinality(Occupied(t)) <= Capacity - 1
    BY <1>2, <1>3, FS_Subset
  <1>5. Cardinality(Occupied(t)) \in Nat
    BY StoredKeysCounted, FS_CardinalityType
  <1>6. QED
    BY <1>4, <1>5, StoredKeysCounted, TableAssumption

(* A search looks at every slot before it gives up, so there are as many   *)
(* keys as slots when it does, and the one looked for is not one.          *)
LEMMA SaturatedIsFull ==
    ASSUME NEW V, NEW t \in Tables(V), NoKeyTwice(t), NEW key \in Nat,
           Saturated(t, key)
    PROVE  /\ key \notin StoredKeys(t)
           /\ Cardinality(StoredKeys(t)) = Capacity
  <1>1. \A s \in Slots : t[s].state = "OCCUPIED" /\ t[s].key # key
    BY ProbeEverywhere DEF Saturated, Matches
  <1>2. Occupied(t) = Slots
    BY <1>1 DEF Occupied
  <1>3. Cardinality(Slots) = Capacity
    BY SlotsCounted
  <1>4. QED
    BY <1>1, <1>2, <1>3, StoredKeysCounted DEF StoredKeys

-----------------------------------------------------------------------------
(* Rehashing.                                                              *)

(* Keys and values stored, wherever they are.                              *)
Entries(t) == {<<t[s].key, t[s].value>> : s \in Occupied(t)}

(* Keys and values in the slots, looked at or not.                         *)
Contents(t) == {<<t[s].key, t[s].value>> : s \in Slots}

LEMMA FirstFreeIsFree ==
    ASSUME NEW V, NEW t \in Tables(V), NEW key \in Nat, NEW s \in Slots,
           t[s].state # "OCCUPIED"
    PROVE  LET i == FirstFree(t, key)
           IN  /\ i \in Attempts
               /\ t[ProbeAt(key, i)].state # "OCCUPIED"
               /\ \A j \in 0 .. i - 1 : t[ProbeAt(key, j)].state = "OCCUPIED"
<1> DEFINE Free == {i \in Attempts : t[ProbeAt(key, i)].state # "OCCUPIED"}
<1>1. Free # {}
  BY ProbeEverywhere
<1>2. Free \subseteq Nat
  BY EarlierAttempts
<1> HIDE DEF Free
<1>3. PICK i \in Free : \A j \in Free : i <= j
  BY <1>1, <1>2, LeastNumber
<1> USE DEF Free
<1>4. \A j \in 0 .. i - 1 : j \in Attempts /\ ~(i <= j)
  BY EarlierAttempts
<1>5. \A j \in 0 .. i - 1 : t[ProbeAt(key, j)].state = "OCCUPIED"
  BY <1>3, <1>4
<1> QED BY <1>5 DEF FirstFree

(* Where rehash puts the entry of slot s.                                  *)
LEMMA ReinsertedIs ==
    ASSUME NEW V, NEW t \in Tables(V), NEW s \in Slots, t[s].state = "OCCUPIED"
    PROVE  \E n \in Attempts :
             LET key == t[s].key
                 home == ProbeAt(key, n)
             IN  /\ home \in Slots
                 /\ home = s \/ t[home].state # "OCCUPIED"
                 /\ \A j \in 0 .. n - 1 : /\ ProbeAt(key, j) # s
                                          /\ t[ProbeAt(key, j)].state = "OCCUPIED"
                 /\ Reinserted(t, s) = [x \in Slots |->
                       IF x = home THEN t[s]
                       ELSE IF x = s THEN [t[s] EXCEPT !.state = "EMPTY"]
                       ELSE t[x]]
<1> DEFINE key == t[s].key
           without == [t EXCEPT ![s].state = "EMPTY"]
           n == FirstFree(without, key)
           home == ProbeAt(key, n)
<1>1. t[s] \in [state : SlotStates, key : Nat, value : V]
  BY DEF Tables
<1>2. key \in Nat
  BY <1>1
<1>3. /\ without \in Tables(V) /\ without[s].state = "EMPTY"
      /\ \A x \in Slots \ {s} : without[x] = t[x]
      /\ without[s] = [t[s] EXCEPT !.state = "EMPTY"]
  <2>1. [t[s] EXCEPT !.state = "EMPTY"] \in [state : SlotStates, key : Nat, value : V]
    BY <1>1 DEF SlotStates
  <2> QED BY <1>1, <2>1 DEF Tables
<1> HIDE DEF without
<1>4. /\ n \in Attempts
      /\ without[home].state # "OCCUPIED"
      /\ \A j \in 0 .. n - 1 : without[ProbeAt(key, j)].state = "OCCUPIED"
  <2>1. without \in Tables(V) /\ without[s].state # "OCCUPIED" /\ key \in Nat
    BY <1>2, <1>3
  <2> HIDE DEF key
  <2> QED BY <2>1, FirstFreeIsFree
<1>5. Reinserted(t, s) = [without EXCEPT ![home] = t[s]]
  BY DEF Reinserted, without
<1> HIDE DEF n
<1>6. home \in Slots /\ \A j \in 0 .. n - 1 : ProbeAt(key, j) \in Slots
  BY <1>2, <1>4, ProbeInSlots, EarlierAttempts
<1>7. \A j \in 0 .. n - 1 : /\ ProbeAt(key, j) # s
                            /\ t[ProbeAt(key, j)].state = "OCCUPIED"
  BY <1>3, <1>4, <1>6
<1>8. home = s \/ t[home].state # "OCCUPIED"
  BY <1>3, <1>4, <1>6
<1> HIDE DEF home, key
<1>9. Reinserted(t, s) = [x \in Slots |->
                       IF x = home THEN t[s]
                       ELSE IF x = s THEN [t[s] EXCEPT !.state = "EMPTY"]
                       ELSE t[x]]
  <2> DEFINE moved == [without EXCEPT ![home] = t[s]]
             target == [x \in Slots |->
                       IF x = home THEN t[s]
                       ELSE IF x = s THEN [t[s] EXCEPT !.state = "EMPTY"]
                       ELSE t[x]]
  <2>1. DOMAIN without = Slots
    BY <1>3 DEF Tables
  <2>2. moved = [x \in Slots |-> moved[x]]
    BY <2>1
  <2>3. \A x \in Slots : moved[x] = IF x = home THEN t[s] ELSE without[x]
    BY <2>1
  <2>4. ASSUME NEW x \in Slots
        PROVE  moved[x] = target[x]
    <3>1. CASE x = home
      BY <2>3, <3>1
    <3>2. CASE x # home /\ x = s
      <4>1. moved[x] = without[s]
        BY <2>3, <3>2
      <4>2. without[s] = [t[s] EXCEPT !.state = "EMPTY"]
        BY <1>3
      <4>3. target[x] = [t[s] EXCEPT !.state = "EMPTY"]
        BY <3>2
      <4> QED BY ONLY <4>1, <4>2, <4>3
    <3>3. CASE x # home /\ x # s
      BY <1>3, <2>3, <3>3
    <3> QED BY <3>1, <3>2, <3>3
  <2> QED BY <1>5, <2>2, <2>4
<1> QED BY <1>4, <1>6, <1>7, <1>8, <1>9 DEF home, key

(* One step of rehash moves one entry, and loses and forges none.          *)
LEMMA ReinsertedKeeps ==
    ASSUME NEW V, NEW t \in Tables(V), NEW s \in Slots
    PROVE  /\ Entries(Reinserted(t, s)) = Entries(t)
           /\ Reinserted(t, s) \in Tables(V)
           /\ Contents(Reinserted(t, s)) \subseteq Contents(t)
<1>1. CASE t[s].state # "OCCUPIED"
  BY <1>1 DEF Reinserted
<1>2. CASE t[s].state = "OCCUPIED"
  <2>1. PICK n \in Attempts :
           /\ ProbeAt(t[s].key, n) \in Slots
           /\ ProbeAt(t[s].key, n) = s \/ t[ProbeAt(t[s].key, n)].state # "OCCUPIED"
           /\ Reinserted(t, s) = [x \in Slots |->
                 IF x = ProbeAt(t[s].key, n) THEN t[s]
                 ELSE IF x = s THEN [t[s] EXCEPT !.state = "EMPTY"]
                 ELSE t[x]]
    BY <1>2, ReinsertedIs
  <2> DEFINE home == ProbeAt(t[s].key, n)
             after == Reinserted(t, s)
             Record == [state : SlotStates, key : Nat, value : V]
  <2>2. /\ home \in Slots /\ (home = s \/ t[home].state # "OCCUPIED")
        /\ after[home] = t[s]
        /\ s # home => after[s] = [t[s] EXCEPT !.state = "EMPTY"]
        /\ \A x \in Slots \ {home, s} : after[x] = t[x]
    BY <2>1
  <2>3. t[s] \in Record /\ [t[s] EXCEPT !.state = "EMPTY"] \in Record
    BY DEF Tables, SlotStates
  <2>03. LET r == [t[s] EXCEPT !.state = "EMPTY"]
         IN  r.state = "EMPTY" /\ r.key = t[s].key /\ r.value = t[s].value
    BY <2>3
  <2>4. after \in Tables(V)
    BY <2>1, <2>3 DEF Tables
  <2>5. Contents(after) \subseteq Contents(t)
    <3>1. ASSUME NEW x \in Slots
          PROVE  \E y \in Slots : after[x].key = t[y].key /\ after[x].value = t[y].value
      BY <2>2, <2>03
    <3> HIDE DEF after
    <3> QED BY <3>1 DEF Contents
  <2> HIDE DEF home, after
  <2>6. Occupied(after) = (Occupied(t) \ {s}) \cup {home}
    BY <1>2, <2>2, <2>03 DEF Occupied
  <2>7. \A x \in Occupied(t) \ {s} : x # home /\ after[x] = t[x]
    BY <2>2 DEF Occupied
  <2>8. s \in Occupied(t)
    BY <1>2 DEF Occupied
  <2>9. Entries(after) = Entries(t)
    <3>1. ASSUME NEW x \in Occupied(t)
          PROVE  \E y \in Occupied(after) : after[y] = t[x]
      BY <2>2, <2>6, <2>7
    <3>2. ASSUME NEW y \in Occupied(after)
          PROVE  \E x \in Occupied(t) : after[y] = t[x]
      BY <2>2, <2>6, <2>7, <2>8
    <3> QED BY <3>1, <3>2 DEF Entries
  <2> QED BY <2>4, <2>5, <2>9 DEF after
<1> QED BY <1>1, <1>2

(* The tables that rehash goes through up to slot n.                       *)
RehashSteps(t, f, n) ==
    f = [s \in 0 .. n |-> IF s = 0 THEN Cleared(t) ELSE Reinserted(f[s - 1], s - 1)]

LEMMA RehashStepsExist ==
    ASSUME NEW t, NEW n \in Nat
    PROVE  \E f : RehashSteps(t, f, n)
<1> DEFINE Bad == {m \in Nat : ~ \E f : RehashSteps(t, f, m)}
<1> SUFFICES ASSUME Bad # {}
             PROVE  FALSE
  OBVIOUS
<1>1. Bad \subseteq Nat
  OBVIOUS
<1> HIDE DEF Bad
<1>2. PICK m \in Bad : \A k \in Bad : m <= k
  BY <1>1, LeastNumber
<1> USE DEF Bad
<1>3. m # 0
  <2> DEFINE f == [s \in 0 .. 0 |-> Cleared(t)]
  <2>1. RehashSteps(t, f, 0)
    BY DEF RehashSteps
  <2> QED BY <2>1
<1>4. PICK f : RehashSteps(t, f, m - 1)
  <2>1. m - 1 \in Nat /\ ~(m <= m - 1)
    BY <1>3
  <2> QED BY <1>2, <2>1
<1> DEFINE g == [s \in 0 .. m |->
                   IF s = 0 THEN Cleared(t) ELSE Reinserted(f[s - 1], s - 1)]
<1>5. \A s \in 0 .. m - 1 : f[s] = g[s]
  BY <1>3, <1>4 DEF RehashSteps
<1>6. \A s \in 0 .. m : s # 0 => f[s - 1] = g[s - 1]
  BY <1>3, <1>5
<1>7. RehashSteps(t, g, m)
  BY <1>6 DEF RehashSteps
<1> QED BY <1>7

LEMMA RehashedIs ==
    ASSUME NEW t
    PROVE  \E after : /\ after[0] = Cleared(t)
                      /\ \A s \in Slots : after[s + 1] = Reinserted(after[s], s)
                      /\ Rehashed(t) = after[Capacity]
<1> DEFINE after == CHOOSE f : RehashSteps(t, f, Capacity)
<1>1. Capacity \in Nat
  BY TableAssumption
<1>2. RehashSteps(t, after, Capacity)
  BY <1>1, RehashStepsExist
<1>3. Rehashed(t) = after[Capacity]
  BY DEF Rehashed, RehashSteps
<1> HIDE DEF after
<1>4. after[0] = Cleared(t)
  BY <1>1, <1>2 DEF RehashSteps
<1>5. ASSUME NEW s \in Slots
      PROVE  after[s + 1] = Reinserted(after[s], s)
  <2>1. s + 1 \in 0 .. Capacity /\ s + 1 # 0 /\ (s + 1) - 1 = s
    BY <1>1 DEF Slots
  <2> QED BY <1>2, <2>1 DEF RehashSteps
<1> QED BY <1>3, <1>4, <1>5

(* Induction over the slots.                                               *)
LEMMA Upwards ==
    ASSUME NEW S, 0 \in S, \A s \in Slots : s \in S => s + 1 \in S
    PROVE  Capacity \in S
<1>1. Capacity \in Nat
  BY TableAssumption
<1> DEFINE Missing == {n \in 0 .. Capacity : n \notin S}
<1> SUFFICES ASSUME Missing # {}
             PROVE  FALSE
  BY <1>1
<1>2. Missing \subseteq Nat
  OBVIOUS
<1> HIDE DEF Missing
<1>3. PICK n \in Missing : \A m \in Missing : n <= m
  BY <1>2, LeastNumber
<1> USE DEF Missing
<1>4. n # 0 /\ n - 1 \in Slots /\ n - 1 \in 0 .. Capacity /\ (n - 1) + 1 = n /\ ~(n <= n - 1)
  BY <1>1 DEF Slots
<1>5. n - 1 \in S
  BY <1>3, <1>4
<1> QED BY <1>4, <1>5

LEMMA ClearedKeeps ==
    ASSUME NEW V, NEW t \in Tables(V)
    PROVE  /\ Cleared(t) \in Tables(V)
           /\ Occupied(Cleared(t)) = Occupied(t)
           /\ Entries(Cleared(t)) = Entries(t)
           /\ Contents(Cleared(t)) \subseteq Contents(t)
<1>1. ASSUME NEW s \in Slots
      PROVE  /\ Cleared(t)[s] \in [state : SlotStates, key : Nat, value : V]
             /\ Cleared(t)[s].key = t[s].key /\ Cleared(t)[s].value = t[s].value
             /\ Cleared(t)[s].state = "OCCUPIED" <=> t[s].state = "OCCUPIED"
  <2>1. t[s] \in [state : SlotStates, key : Nat, value : V]
    BY DEF Tables
  <2> QED BY <2>1 DEF Cleared, SlotStates
<1>2. Cleared(t) = [s \in Slots |-> Cleared(t)[s]]
  BY DEF Cleared
<1>3. Cleared(t) \in Tables(V)
  BY <1>1, <1>2 DEF Tables
<1> HIDE DEF Cleared
<1>4. Occupied(Cleared(t)) = Occupied(t)
  BY <1>1 DEF Occupied
<1>5. Occupied(t) \subseteq Slots
  BY DEF Occupied
<1> QED BY <1>1, <1>3, <1>4, <1>5 DEF Entries, Contents

(* rehash loses no entry and makes up none, wherever it puts them.         *)
THEOREM RehashKeepsEntries ==
    ASSUME NEW V, NEW t \in Tables(V)
    PROVE  /\ Rehashed(t) \in Tables(V)
           /\ Entries(Rehashed(t)) = Entries(t)
           /\ Contents(Rehashed(t)) \subseteq Contents(t)
<1>1. PICK after : /\ after[0] = Cleared(t)
                   /\ \A s \in Slots : after[s + 1] = Reinserted(after[s], s)
                   /\ Rehashed(t) = after[Capacity]
  BY RehashedIs
<1> DEFINE Kept(u) == /\ u \in Tables(V)
                      /\ Entries(u) = Entries(t)
                      /\ Contents(u) \subseteq Contents(t)
           S == {s \in 0 .. Capacity : Kept(after[s])}
<1>2. Capacity \in Nat /\ Capacity > 0
  BY TableAssumption
<1>3. 0 \in S
  BY <1>1, <1>2, ClearedKeeps
<1>4. ASSUME NEW s \in Slots, s \in S
      PROVE  s + 1 \in S
  <2>1. /\ Entries(Reinserted(after[s], s)) = Entries(after[s])
        /\ Reinserted(after[s], s) \in Tables(V)
        /\ Contents(Reinserted(after[s], s)) \subseteq Contents(after[s])
    BY <1>4, ReinsertedKeeps
  <2>2. s + 1 \in 0 .. Capacity
    BY <1>2 DEF Slots
  <2> QED BY <1>1, <1>4, <2>1, <2>2
<1> HIDE DEF S
<1>5. Capacity \in S
  BY <1>3, <1>4, Upwards
<1> QED BY <1>1, <1>5 DEF S

-----------------------------------------------------------------------------
(* Linear probing: between the home of an entry that has not wrapped       *)
(* around and its slot there is no EMPTY slot.                             *)
Sheltered(t) ==
    \A s \in Occupied(t) : \A x \in Hash(t[s].key) .. s : t[x].state # "EMPTY"

(* What rehash has made so below slot n.                                   *)
Settled(t, n) ==
    \A s \in Occupied(t) :
        s < n => \A x \in Hash(t[s].key) .. s : t[x].state = "OCCUPIED"

(* Slots from home up are probed one after the other.                      *)
LEMMA LinearProbe ==
    ASSUME Probing = "linear", NEW key \in Nat
    PROVE  /\ \A x \in Hash(key) .. Capacity - 1 :
                 /\ x - Hash(key) \in Attempts
                 /\ ProbeAt(key, x - Hash(key)) = x
           /\ \A n \in Attempts : Hash(key) <= ProbeAt(key, n) =>
                 ProbeAt(key, n) = Hash(key) + n
<1>1. Capacity \in Nat /\ Capacity > 0 /\ Hash(key) \in Nat /\ Hash(key) < Capacity
  BY TableAssumption, HashInSlots
<1>2. \A y \in 0 .. Capacity - 1 : y % Capacity = y
  BY <1>1
<1>3. \A y \in Capacity .. 2 * Capacity - 1 : y % Capacity = y - Capacity
  <2> TAKE y \in Capacity .. 2 * Capacity - 1
  <2>1. y = Capacity * 1 + (y - Capacity) /\ y - Capacity \in 0 .. Capacity - 1
    BY <1>1
  <2> QED BY <1>1, <2>1, Remainder
<1>4. ASSUME NEW x \in Hash(key) .. Capacity - 1
      PROVE  /\ x - Hash(key) \in Attempts
             /\ ProbeAt(key, x - Hash(key)) = x
  <2>1. /\ x - Hash(key) \in 0 .. Capacity - 1 /\ Hash(key) + (x - Hash(key)) = x
        /\ x \in 0 .. Capacity - 1
    BY <1>1
  <2>2. ProbeAt(key, x - Hash(key)) = (Hash(key) + (x - Hash(key))) % Capacity
    BY DEF ProbeAt
  <2> QED BY <1>2, <2>1, <2>2 DEF Attempts, ProbeLength
<1>5. ASSUME NEW n \in Attempts, Hash(key) <= ProbeAt(key, n)
      PROVE  ProbeAt(key, n) = Hash(key) + n
  <2>1. n \in 0 .. Capacity - 1 /\ ProbeAt(key, n) = (Hash(key) + n) % Capacity
    BY DEF ProbeAt, Attempts, ProbeLength
  <2>2. CASE Hash(key) + n < Capacity
    BY <1>1, <1>2, <2>1, <2>2
  <2>3. CASE Hash(key) + n >= Capacity
    BY <1>1, <1>3, <1>5, <2>1, <2>3
  <2> QED BY <1>1, <2>1, <2>2, <2>3
<1> QED BY <1>4, <1>5

LEMMA ReinsertedSettles ==
    ASSUME Probing = "linear", NEW V, NEW t \in Tables(V), NEW s \in Slots, Settled(t, s)
    PROVE  Settled(Reinserted(t, s), s + 1)
<1>1. s \in Nat /\ Occupied(t) \subseteq Nat
  BY TableAssumption DEF Slots, Occupied
<1>2. CASE t[s].state # "OCCUPIED"
  BY <1>1, <1>2 DEF Reinserted, Settled, Occupied
<1>3. CASE t[s].state = "OCCUPIED"
  <2> DEFINE key == t[s].key
             u == Reinserted(t, s)
  <2>1. key \in Nat
    BY DEF Tables
  <2>2. PICK n \in Attempts :
           /\ ProbeAt(key, n) \in Slots
           /\ ProbeAt(key, n) = s \/ t[ProbeAt(key, n)].state # "OCCUPIED"
           /\ \A j \in 0 .. n - 1 : /\ ProbeAt(key, j) # s
                                    /\ t[ProbeAt(key, j)].state = "OCCUPIED"
           /\ u = [x \in Slots |->
                 IF x = ProbeAt(key, n) THEN t[s]
                 ELSE IF x = s THEN [t[s] EXCEPT !.state = "EMPTY"]
                 ELSE t[x]]
    BY <1>3, ReinsertedIs
  <2> DEFINE home == ProbeAt(key, n)
  <2>3. /\ home \in Slots /\ u[home] = t[s]
        /\ s # home => u[s] = [t[s] EXCEPT !.state = "EMPTY"]
        /\ \A x \in Slots \ {home, s} : u[x] = t[x]
    BY <2>2
  <2>4. t[s] \in [state : SlotStates, key : Nat, value : V]
    BY DEF Tables
  <2>5. s # home => u[s].state = "EMPTY"
    BY <2>3, <2>4
  <2> SUFFICES ASSUME NEW r \in Occupied(u), r < s + 1,
                      NEW x \in Hash(u[r].key) .. r
               PROVE  u[x].state = "OCCUPIED"
    BY DEF Settled
  <2>6. r \in Slots /\ r \in Nat /\ u[r].state = "OCCUPIED"
    BY TableAssumption DEF Occupied, Slots
  <2> HIDE DEF u, home
  <2>7. CASE r = home
    <3>1. u[r].key = key
      BY <2>3, <2>7 DEF key
    <3> HIDE DEF key
    <3>2. Hash(key) \in Nat /\ n \in Nat /\ Capacity \in Nat
      BY <2>1, HashInSlots, EarlierAttempts, TableAssumption
    <3>3. x \in Hash(key) .. home /\ home < Capacity
      BY <2>6, <2>7, <3>1, <3>2 DEF Slots
    <3>4. home = Hash(key) + n
      BY <2>1, <2>6, <2>7, <3>2, <3>3, LinearProbe DEF home
    <3>5. CASE x = home
      BY <1>3, <2>3, <3>5
    <3>6. CASE x # home
      <4>1. x - Hash(key) \in 0 .. n - 1 /\ x \in Hash(key) .. Capacity - 1 /\ x \in Slots
        BY <2>6, <2>7, <3>2, <3>3, <3>4, <3>6 DEF Slots
      <4>2. ProbeAt(key, x - Hash(key)) = x
        BY <2>1, <4>1, LinearProbe
      <4>3. x # s /\ t[x].state = "OCCUPIED"
        BY <2>2, <4>1, <4>2
      <4> QED BY <2>3, <3>6, <4>1, <4>3
    <3> QED BY <3>5, <3>6
  <2>8. CASE r # home
    <3>1. r # s
      BY <2>5, <2>6, <2>8
    <3>2. u[r] = t[r] /\ r \in Occupied(t) /\ r < s
      BY <1>1, <2>3, <2>6, <2>8, <3>1 DEF Occupied
    <3>3. t[r].key \in Nat
      BY <2>6 DEF Tables
    <3>4. t[x].state = "OCCUPIED" /\ x < s /\ x \in Slots
      BY <1>1, <2>6, <3>2, <3>3, HashInSlots, TableAssumption DEF Settled, Slots
    <3> QED BY <1>3, <1>1, <2>3, <3>4
  <2> QED BY <2>7, <2>8
<1> QED BY <1>2, <1>3

LEMMA RehashShelters ==
    ASSUME Probing = "linear", NEW V, NEW t \in Tables(V)
    PROVE  Sheltered(Rehashed(t))
<1>1. PICK after : /\ after[0] = Cleared(t)
                   /\ \A s \in Slots : after[s + 1] = Reinserted(after[s], s)
                   /\ Rehashed(t) = after[Capacity]
  BY RehashedIs
<1> DEFINE S == {s \in 0 .. Capacity : after[s] \in Tables(V) /\ Settled(after[s], s)}
<1>2. Capacity \in Nat /\ Capacity > 0
  BY TableAssumption
<1>3. 0 \in S
  <2>1. \A u : Settled(u, 0)
    BY DEF Settled, Occupied, Slots
  <2> QED BY <1>1, <1>2, <2>1, ClearedKeeps
<1>4. ASSUME NEW s \in Slots, s \in S
      PROVE  s + 1 \in S
  <2>1. /\ Reinserted(after[s], s) \in Tables(V)
        /\ Settled(Reinserted(after[s], s), s + 1)
    BY <1>4, ReinsertedKeeps, ReinsertedSettles
  <2>2. s + 1 \in 0 .. Capacity
    BY <1>2 DEF Slots
  <2> QED BY <1>1, <1>4, <2>1, <2>2
<1> HIDE DEF S
<1>5. Capacity \in S
  BY <1>3, <1>4, Upwards
<1>6. Settled(Rehashed(t), Capacity)
  BY <1>1, <1>5 DEF S
<1>7. \A s \in Slots : s < Capacity
  BY <1>2 DEF Slots
<1> QED BY <1>6, <1>7 DEF Settled, Sheltered, Occupied

LEMMA FillShelters ==
    ASSUME Probing = "linear", NEW V, NEW t \in Tables(V), Sheltered(t),
           NEW key \in Nat, NEW s \in ProbedSlots(t, key), NEW value \in V
    PROVE  Sheltered(Filled(t, s, key, value))
<1> DEFINE u == Filled(t, s, key, value)
<1>1. s \in Slots
  BY MatchIsStored
<1>2. /\ u[s] = [state |-> "OCCUPIED", key |-> key, value |-> value]
      /\ \A r \in Slots \ {s} : u[r] = t[r]
  BY <1>1 DEF Filled, Tables
<1>3. PICK n \in Attempts :
         /\ ProbeAt(key, n) = s
         /\ \A i \in 0 .. n - 1 : t[ProbeAt(key, i)].state # "EMPTY"
  BY DEF ProbedSlots, Stops, FirstTombstones
<1>4. Capacity \in Nat /\ Slots \subseteq Nat /\ n \in Nat
  BY TableAssumption, EarlierAttempts DEF Slots
<1>5. \A r \in Slots : t[r].key \in Nat
  BY DEF Tables
<1> SUFFICES ASSUME NEW r \in Occupied(u), NEW x \in Hash(u[r].key) .. r
             PROVE  u[x].state # "EMPTY"
  BY DEF Sheltered
<1>6. r \in Slots /\ u[r].state = "OCCUPIED"
  BY DEF Occupied
<1> HIDE DEF u
<1>7. u[r].key \in Nat
  BY <1>2, <1>5, <1>6
<1>8. Hash(u[r].key) \in Nat /\ x \in Slots /\ x <= r /\ x \in Hash(u[r].key) .. Capacity - 1
  BY <1>4, <1>6, <1>7, HashInSlots DEF Slots
<1>9. CASE x = s
  BY <1>2, <1>9
<1>10. CASE x # s /\ r = s
  <2>1. u[r].key = key
    BY <1>2, <1>10
  <2>2. s = Hash(key) + n
    BY <1>3, <1>4, <1>6, <1>8, <1>10, <2>1, LinearProbe
  <2>3. x - Hash(key) \in 0 .. n - 1
    BY <1>4, <1>6, <1>8, <1>10, <2>1, <2>2
  <2>4. ProbeAt(key, x - Hash(key)) = x
    BY <1>8, <2>1, LinearProbe
  <2> QED BY <1>2, <1>3, <1>8, <1>10, <2>3, <2>4
<1>11. CASE x # s /\ r # s
  <2>1. r \in Occupied(t) /\ u[r] = t[r]
    BY <1>2, <1>6, <1>11 DEF Occupied
  <2>2. t[x].state # "EMPTY"
    BY <2>1 DEF Sheltered
  <2> QED BY <1>2, <1>8, <1>11, <2>2
<1> QED BY <1>9, <1>10, <1>11

LEMMA BuryShelters ==
    ASSUME NEW V, NEW t \in Tables(V), Sheltered(t), NEW s \in Occupied(t)
    PROVE  Sheltered(Buried(t, s)) /\ Buried(t, s) \in Tables(V)
<1> DEFINE u == Buried(t, s)
<1>1. /\ u \in Tables(V)
      /\ s \in Slots /\ u[s].state = "TOMBSTONE"
      /\ \A r \in Slots \ {s} : u[r] = t[r]
  BY DEF Buried, Tables, Occupied, SlotStates
<1> SUFFICES ASSUME NEW r \in Occupied(u), NEW x \in Hash(u[r].key) .. r
             PROVE  u[x].state # "EMPTY"
  BY <1>1 DEF Sheltered
<1>2. r \in Slots /\ r # s /\ r \in Occupied(t) /\ u[r] = t[r]
  BY <1>1 DEF Occupied
<1>3. t[r].key \in Nat
  BY <1>2 DEF Tables
<1>4. x \in Slots
  BY <1>2, <1>3, HashInSlots, TableAssumption DEF Slots
<1>5. t[x].state # "EMPTY"
  BY <1>2 DEF Sheltered
<1> HIDE DEF u
<1> QED BY <1>1, <1>4, <1>5

(* A search for the key of an entry that has not wrapped around finds it,  *)
(* or a double of it in front.                                             *)
LEMMA ShelteredIsFound ==
    ASSUME Probing = "linear", NEW V, NEW t \in Tables(V), Sheltered(t),
           NEW s \in Occupied(t), Hash(t[s].key) <= s
    PROVE  \E r \in ProbedSlots(t, t[s].key) : Matches(t, t[s].key, r)
<1> DEFINE key == t[s].key
<1>1. key \in Nat /\ Matches(t, key, s) /\ s \in Slots
  BY DEF Tables, Occupied, Matches
<1>2. Capacity \in Nat /\ s \in Nat /\ s < Capacity /\ Hash(key) \in Nat
  BY <1>1, HashInSlots, TableAssumption DEF Slots
<1> DEFINE Hits == {n \in Attempts : Matches(t, key, ProbeAt(key, n))}
           last == s - Hash(key)
<1>3. last \in Hits /\ last \in Nat
  <2>1. s \in Hash(key) .. Capacity - 1
    BY <1>2
  <2> QED BY <1>1, <1>2, <2>1, LinearProbe
<1>4. Hits \subseteq Nat
  BY EarlierAttempts
<1> HIDE DEF Hits
<1>5. PICK n \in Hits : \A m \in Hits : n <= m
  BY <1>3, <1>4, LeastNumber
<1>6. n \in Attempts /\ n \in Nat /\ n <= last /\ Matches(t, key, ProbeAt(key, n))
  BY <1>3, <1>4, <1>5 DEF Hits
<1>7. ASSUME NEW i \in 0 .. n - 1
      PROVE  ~Matches(t, key, ProbeAt(key, i)) /\ t[ProbeAt(key, i)].state # "EMPTY"
  <2>1. i \in Attempts /\ i \in Nat /\ ~(n <= i)
    BY <1>6, EarlierAttempts
  <2>2. ~Matches(t, key, ProbeAt(key, i))
    BY <1>5, <2>1 DEF Hits
  <2>3. /\ Hash(key) + i \in Hash(key) .. s /\ Hash(key) + i \in Hash(key) .. Capacity - 1
        /\ (Hash(key) + i) - Hash(key) = i
    BY <1>2, <1>6, <2>1
  <2>4. ProbeAt(key, i) = Hash(key) + i
    <3> DEFINE x == Hash(key) + i
    <3>1. ProbeAt(key, x - Hash(key)) = x
      BY <1>1, <2>3, LinearProbe
    <3> QED BY <2>3, <3>1
  <2>5. t[Hash(key) + i].state # "EMPTY"
    BY <2>3 DEF Sheltered
  <2> QED BY <2>2, <2>4, <2>5
<1>8. n \in Stops(t, key)
  BY <1>6, <1>7 DEF Stops
<1> QED BY <1>6, <1>8 DEF ProbedSlots
===============================================================================
