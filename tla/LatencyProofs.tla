----------------------------- MODULE LatencyProofs -----------------------------
(***************************************************************************)
(* The ring of latency samples holds the last of them, and the reported    *)
(* quantiles are theirs, for every capacity, all quantiles and however the *)
(* counter moves.                                                          *)
(***************************************************************************)
EXTENDS Latency, FiniteSetTheorems, NaturalsInduction, WellFoundedInduction, TLAPS

(* Two samples in one slot are at least a whole ring apart.                *)
LEMMA SlotsApart ==
    ASSUME NEW a \in Nat, NEW b \in Nat, a < b, Slot(a) = Slot(b)
    PROVE  b - a >= Window
  <1>1. /\ a = Window * (a \div Window) + (a % Window)
        /\ b = Window * (b \div Window) + (b % Window)
        /\ a \div Window \in Int /\ b \div Window \in Int
    BY LatencyAssumption
  <1> DEFINE x == a \div Window
             y == b \div Window
  <1>2. x \in Int /\ y \in Int /\ Window \in Nat /\ b - a = Window * y - Window * x
    BY <1>1, LatencyAssumption DEF Slot
  <1> HIDE DEF x, y
  <1>3. Window * y - Window * x = Window * (y - x)
    BY <1>2
  <1>4. CASE y - x <= 0
    <2>1. Window * (y - x) <= 0
      BY <1>2, <1>4
    <2>2. QED
      BY <1>2, <1>3, <2>1
  <1>5. CASE y - x >= 1
    <2>1. Window * (y - x) >= Window
      BY <1>2, <1>5
    <2>2. QED
      BY <1>2, <1>3, <2>1
  <1>6. QED
    BY <1>2, <1>4, <1>5

LEMMA SlotInRing ==
    ASSUME NEW n \in Nat
    PROVE  Slot(n) \in 0 .. Window - 1
  BY LatencyAssumption DEF Slot

LEMMA TimesInRange ==
    ASSUME NEW n \in Int
    PROVE  n % TscRange \in Times
  BY LatencyAssumption DEF Times

(* The types of counter and ring; what is reported is left out.            *)
RingTyped ==
    /\ tsc \in Times
    /\ t0 \in Times \cup {NoScope}
    /\ buffer \in [0 .. Window - 1 -> Times]
    /\ size \in Nat
    /\ recorded \in Seq(Times)

Inv == RingTyped /\ LastSamplesKept

(* A new sample takes the place of the one that leaves the window.         *)
LEMMA PushKeepsLast ==
    ASSUME Inv, NEW sample \in Times, Push(sample), recorded' = Append(recorded, sample)
    PROVE  LastSamplesKept'
  <1>1. /\ size \in Nat /\ Len(recorded) = size /\ recorded \in Seq(Times)
        /\ buffer \in [0 .. Window - 1 -> Times] /\ Window \in Nat \ {0}
    BY LatencyAssumption DEF Inv, RingTyped, LastSamplesKept
  <1>2. /\ size' = size + 1 /\ Len(recorded') = size + 1
        /\ recorded'[size + 1] = sample
        /\ \A n \in 1 .. size : recorded'[n] = recorded[n]
    BY <1>1 DEF Push
  <1>3. buffer'[Slot(size)] = sample
    BY <1>1, SlotInRing DEF Push
  <1>4. ASSUME NEW n \in 1 .. size + 1, n > size + 1 - Window
        PROVE  buffer'[(n - 1) % Window] = recorded'[n]
    <2>1. CASE n = size + 1
      BY <1>1, <1>2, <1>3, <2>1 DEF Slot
    <2>2. CASE n # size + 1
      <3>1. n \in 1 .. size /\ n > size - Window /\ n - 1 \in Nat /\ n - 1 < size
            /\ size - (n - 1) < Window
        BY <1>1, <1>4, <2>2
      <3>2. Slot(n - 1) # Slot(size)
        BY <1>1, <3>1, SlotsApart
      <3>3. buffer'[Slot(n - 1)] = buffer[Slot(n - 1)]
        BY <1>1, <3>1, <3>2, SlotInRing DEF Push
      <3>4. buffer[Slot(n - 1)] = recorded[n]
        BY <1>1, <3>1 DEF Inv, LastSamplesKept, Last, Slot
      <3>5. QED
        BY <1>2, <3>1, <3>3, <3>4 DEF Slot
    <2>3. QED
      BY <2>1, <2>2
  <1>5. \A n \in Last' : n \in 1 .. size + 1 /\ n > size + 1 - Window
    BY <1>1, <1>2 DEF Last
  <1>6. QED
    BY <1>2, <1>4, <1>5 DEF LastSamplesKept

LEMMA PushTyped ==
    ASSUME RingTyped, NEW sample \in Times, Push(sample)
    PROVE  buffer' \in [0 .. Window - 1 -> Times] /\ size' \in Nat
  <1>1. buffer \in [0 .. Window - 1 -> Times] /\ size \in Nat
    BY DEF RingTyped
  <1>2. buffer' = [buffer EXCEPT ![Slot(size)] = sample] /\ size' = size + 1
    BY DEF Push
  <1>3. size' \in Nat
    BY <1>1, <1>2
  <1>4. [buffer EXCEPT ![Slot(size)] = sample] \in [0 .. Window - 1 -> Times]
    <2> HIDE DEF Times
    <2>1. QED
      BY <1>1
  <1>5. QED
    BY <1>2, <1>3, <1>4

LEMMA InitInv == Init => Inv
  <1> SUFFICES ASSUME Init PROVE Inv
    OBVIOUS
  <1>1. 0 \in Times
    BY LatencyAssumption DEF Times
  <1>2. RingTyped
    BY <1>1 DEF Init, RingTyped
  <1>3. Last = {}
    BY LatencyAssumption DEF Init, Last
  <1>4. QED
    BY <1>2, <1>3 DEF Init, Inv, LastSamplesKept

LEMMA NextInv == Inv /\ [Next]_vars => Inv'
  <1> SUFFICES ASSUME Inv, [Next]_vars PROVE Inv'
    OBVIOUS
  <1>1. ASSUME Rdtsc
        PROVE  tsc' \in Times
    <2>1. PICK d \in Steps : tsc' = (tsc + d) % TscRange
      BY <1>1 DEF Rdtsc
    <2>2. tsc + d \in Int
      BY LatencyAssumption DEF Inv, RingTyped, Times
    <2>3. QED
      BY <2>1, <2>2, TimesInRange
  <1>2. CASE RecordScope
    BY <1>1, <1>2 DEF RecordScope, Inv, RingTyped, LastSamplesKept, Last
  <1>3. CASE EndScope
    <2> DEFINE sample == Elapsed(t0, tsc')
    <2>1. tsc' \in Times /\ t0 \in Int /\ tsc' \in Int
      BY <1>1, <1>3 DEF EndScope, Inv, RingTyped, Times, NoScope
    <2>2. sample \in Times
      BY <2>1, TimesInRange DEF Elapsed
    <2>3. Push(sample) /\ recorded' = Append(recorded, sample) /\ t0' = NoScope
      BY <1>3 DEF EndScope
    <2> HIDE DEF sample
    <2>4. LastSamplesKept'
      BY <2>2, <2>3, PushKeepsLast
    <2>5. RingTyped'
      <3>1. buffer' \in [0 .. Window - 1 -> Times] /\ size' \in Nat
        BY <2>2, <2>3, PushTyped DEF Inv
      <3>2. recorded' \in Seq(Times)
        BY <2>2, <2>3 DEF Inv, RingTyped
      <3>3. QED
        BY <2>1, <2>3, <3>1, <3>2 DEF RingTyped
    <2>6. QED
      BY <2>4, <2>5 DEF Inv
  <1>4. CASE Report
    BY <1>4 DEF Report, Inv, RingTyped, LastSamplesKept, Last
  <1>5. CASE UNCHANGED vars
    BY <1>5 DEF vars, Inv, RingTyped, LastSamplesKept, Last
  <1>6. QED
    BY <1>2, <1>3, <1>4, <1>5 DEF Next

(* The window never holds anything but the last samples, for any capacity, *)
(* width of the counter and number of samples.                             *)
THEOREM WindowHoldsTheLast == Spec => []LastSamplesKept
  <1>1. Inv => LastSamplesKept
    BY DEF Inv
  <1>2. QED
    BY <1>1, InitInv, NextInv, PTL DEF Spec

-----------------------------------------------------------------------------
(* Sorting.                                                                *)

(* Induction: every set of numbers has a least one.                        *)
LEMMA LeastNumber ==
    ASSUME NEW T, T \subseteq Nat, T # {}
    PROVE  \E n \in T : \A m \in T : n <= m
  <1>1. PICK n \in T : \A m \in T : ~ (<<m, n>> \in OpToRel(<, Nat))
    BY NatLessThanWellFounded, WFMin, Zenon
  <1>2. \A m \in T : ~ (m < n)
    BY <1>1 DEF OpToRel
  <1>3. QED
    BY <1>2

(* p puts n numbers in order.                                              *)
Sorts(p, v, n) ==
    /\ p \in [1 .. n -> 1 .. n]
    /\ \A i, j \in 1 .. n : p[i] = p[j] => i = j
    /\ \A i, j \in 1 .. n : i < j => v[p[i]] <= v[p[j]]

(* Insertion: one more number goes before the first that is greater.       *)
LEMMA Inserting ==
    ASSUME NEW n \in Nat \ {0}, NEW v \in [1 .. n -> Int], NEW q, Sorts(q, v, n - 1)
    PROVE  \E p : Sorts(p, v, n)
  <1> DEFINE Places == {k \in 1 .. n : k = n \/ v[q[k]] > v[n]}
  <1>1. Places # {} /\ Places \subseteq Nat
    <2>1. n \in Places
      OBVIOUS
    <2>2. QED
      BY <2>1
  <1> HIDE DEF Places
  <1>2. PICK k \in Places : \A i \in Places : k <= i
    BY <1>1, LeastNumber
  <1> USE DEF Places
  <1>3. k \in 1 .. n /\ (k = n \/ v[q[k]] > v[n])
    OBVIOUS
  <1>4. \A i \in 1 .. k - 1 : ~(v[q[i]] > v[n])
    BY <1>2, <1>3
  <1> HIDE DEF Places
  <1>5. \A i \in 1 .. n - 1 : q[i] \in 1 .. n - 1 /\ v[q[i]] \in Int
    <2>1. \A i \in 1 .. n - 1 : q[i] \in 1 .. n - 1
      BY DEF Sorts
    <2>2. \A i \in 1 .. n - 1 : i \in 1 .. n
      OBVIOUS
    <2>3. QED
      BY <2>1, <2>2
  <1>6. v[n] \in Int
    OBVIOUS
  <1> DEFINE p == [i \in 1 .. n |-> IF i < k THEN q[i] ELSE IF i = k THEN n ELSE q[i - 1]]
  <1>7. \A i \in 1 .. n : /\ i < k => i \in 1 .. n - 1 /\ p[i] = q[i]
                          /\ i = k => p[i] = n
                          /\ i > k => i - 1 \in 1 .. n - 1 /\ p[i] = q[i - 1]
    BY <1>3
  <1>8. p \in [1 .. n -> 1 .. n]
    BY <1>3, <1>5
  <1> HIDE DEF p
  <1>9. ASSUME NEW i \in 1 .. n, NEW j \in 1 .. n, i < j
        PROVE  p[i] # p[j] /\ v[p[i]] <= v[p[j]]
    <2>1. CASE j < k
      <3>1. i \in 1 .. n - 1 /\ j \in 1 .. n - 1 /\ i # j
            /\ p[i] = q[i] /\ p[j] = q[j]
        BY <1>3, <1>7, <1>9, <2>1
      <3>2. q[i] # q[j] /\ v[q[i]] <= v[q[j]]
        BY <1>9, <3>1 DEF Sorts
      <3>3. QED
        BY <3>1, <3>2
    <2>2. CASE j = k
      <3>1. i \in 1 .. n - 1 /\ i \in 1 .. k - 1 /\ p[i] = q[i] /\ p[j] = n
        BY <1>3, <1>7, <1>9, <2>2
      <3>2. q[i] \in 1 .. n - 1 /\ v[q[i]] \in Int /\ ~(v[q[i]] > v[n])
        BY <1>4, <1>5, <3>1
      <3>3. QED
        BY <1>6, <3>1, <3>2
    <2>3. CASE i < k /\ j > k
      <3>1. i \in 1 .. n - 1 /\ j - 1 \in 1 .. n - 1 /\ i < j - 1
            /\ p[i] = q[i] /\ p[j] = q[j - 1] /\ i # j - 1
        BY <1>3, <1>7, <2>3
      <3>2. q[i] # q[j - 1] /\ v[q[i]] <= v[q[j - 1]]
        BY <3>1 DEF Sorts
      <3>3. QED
        BY <3>1, <3>2
    <2>4. CASE i = k
      <3>1. j - 1 \in 1 .. n - 1 /\ p[j] = q[j - 1] /\ p[i] = n /\ k \in 1 .. n - 1
        BY <1>3, <1>7, <1>9, <2>4
      <3>2. v[q[k]] > v[n]
        BY <1>3, <3>1
      <3>3. v[q[k]] <= v[q[j - 1]]
        <4>1. CASE k = j - 1
          BY <1>5, <3>1, <4>1
        <4>2. CASE k < j - 1
          BY <3>1, <4>2 DEF Sorts
        <4>3. QED
          BY <1>9, <2>4, <3>1, <4>1, <4>2
      <3>4. QED
        BY <1>5, <1>6, <3>1, <3>2, <3>3
    <2>5. CASE i > k
      <3>1. i - 1 \in 1 .. n - 1 /\ j - 1 \in 1 .. n - 1 /\ i - 1 < j - 1
            /\ p[i] = q[i - 1] /\ p[j] = q[j - 1]
        BY <1>3, <1>7, <1>9, <2>5
      <3>2. QED
        BY <3>1 DEF Sorts
    <2>6. QED
      BY <1>3, <1>9, <2>1, <2>2, <2>3, <2>4, <2>5
  <1>10. \A i, j \in 1 .. n : p[i] = p[j] => i = j
    <2>1. \A i, j \in 1 .. n : i < j \/ j < i \/ i = j
      OBVIOUS
    <2>2. QED
      BY <1>9, <2>1
  <1>11. QED
    BY <1>8, <1>9, <1>10 DEF Sorts

LEMMA SortingPermutation ==
    ASSUME NEW n \in Nat, NEW v \in [1 .. n -> Int]
    PROVE  \E p : Sorts(p, v, n)
  <1> DEFINE Bad == {m \in Nat : \E w \in [1 .. m -> Int] : ~ \E p : Sorts(p, w, m)}
  <1> SUFFICES ASSUME Bad # {}
               PROVE  FALSE
    OBVIOUS
  <1>1. Bad \subseteq Nat
    OBVIOUS
  <1> HIDE DEF Bad
  <1>2. PICK m \in Bad : \A k \in Bad : m <= k
    BY <1>1, LeastNumber
  <1> USE DEF Bad
  <1>3. PICK w \in [1 .. m -> Int] : ~ \E p : Sorts(p, w, m)
    OBVIOUS
  <1>4. m \in Nat
    OBVIOUS
  <1>5. m # 0
    <2> DEFINE none == [i \in 1 .. 0 |-> 0]
    <2>1. Sorts(none, w, 0)
      BY DEF Sorts
    <2>2. QED
      BY <1>3, <2>1
  <1>6. PICK q : Sorts(q, w, m - 1)
    <2> DEFINE u == [i \in 1 .. m - 1 |-> w[i]]
    <2>1. u \in [1 .. m - 1 -> Int]
      BY <1>4
    <2>2. m - 1 \in Nat /\ ~(m <= m - 1)
      BY <1>4, <1>5
    <2>3. m - 1 \notin Bad
      BY <1>2, <2>2
    <2>4. PICK q : Sorts(q, u, m - 1)
      BY <2>1, <2>2, <2>3
    <2>5. \A i \in 1 .. m - 1 : q[i] \in 1 .. m - 1 /\ u[q[i]] = w[q[i]]
      BY <2>4 DEF Sorts
    <2>6. Sorts(q, w, m - 1)
      <3> HIDE DEF u
      <3>1. QED
        BY <2>4, <2>5 DEF Sorts
    <2>7. QED
      BY <2>6
  <1> HIDE DEF Bad
  <1>7. QED
    BY <1>3, <1>4, <1>5, <1>6, Inserting

LEMMA SignedTimes ==
    ASSUME NEW t \in Times
    PROVE  /\ Signed(t) \in Int /\ t \in Int
           /\ t < TscRange \div 2 => Signed(t) = t
           /\ t >= TscRange \div 2 <=> Signed(t) < 0
  BY LatencyAssumption DEF Signed, Times

LEMMA SortedIs ==
    ASSUME NEW n \in Nat, NEW s \in [1 .. n -> Times]
    PROVE  /\ InOrder(Sorted(s))
           /\ \E p \in Bijection(1 .. n, 1 .. n) : Sorted(s) = [i \in 1 .. n |-> s[p[i]]]
  <1> DEFINE D == DOMAIN s
             permutations == {p \in [D -> D] : \A i, j \in D : p[i] = p[j] => i = j}
             Candidates == {[i \in D |-> s[p[i]]] : p \in permutations}
             v == [i \in 1 .. n |-> Signed(s[i])]
  <1>1. D = 1 .. n
    OBVIOUS
  <1>2. v \in [1 .. n -> Int]
    BY SignedTimes
  <1>3. PICK p : Sorts(p, v, n)
    BY <1>2, SortingPermutation
  <1>4. p \in permutations
    BY <1>1, <1>3 DEF Sorts
  <1> DEFINE r == [i \in D |-> s[p[i]]]
  <1>5. r \in Candidates
    BY <1>4
  <1>6. InOrder(r)
    BY <1>1, <1>3 DEF InOrder, Sorts
  <1>7. Sorted(s) \in Candidates /\ InOrder(Sorted(s))
    <2>1. Sorted(s) = CHOOSE results \in Candidates : InOrder(results)
      BY DEF Sorted
    <2> HIDE DEF Candidates, r
    <2>2. QED
      BY <1>5, <1>6, <2>1
  <1>8. PICK q \in permutations : Sorted(s) = [i \in D |-> s[q[i]]]
    BY <1>7
  <1>9. q \in Injection(1 .. n, 1 .. n)
    BY <1>1 DEF Injection, IsInjective
  <1>10. q \in Bijection(1 .. n, 1 .. n)
    BY <1>9, FS_Interval, FS_Injection DEF Bijection
  <1>11. QED
    BY <1>1, <1>7, <1>8, <1>10

(* The places of S at which g holds something of A.                        *)
Holding(S, g, A) == {x \in S : g[x] \in A}

(* Renaming the places does not change how many hold something of A.       *)
LEMMA CountThrough ==
    ASSUME NEW S, NEW T, NEW g, NEW h, NEW A, IsFiniteSet(S),
           NEW f \in Bijection(S, T), \A x \in S : g[x] = h[f[x]]
    PROVE  Cardinality(Holding(S, g, A)) = Cardinality(Holding(T, h, A))
  <1> DEFINE SA == {x \in S : g[x] \in A}
             TA == {y \in T : h[y] \in A}
             fA == [x \in SA |-> f[x]]
  <1>1. f \in [S -> T] /\ (\A x, y \in S : f[x] = f[y] => x = y)
        /\ \A y \in T : \E x \in S : f[x] = y
    BY DEF Bijection, Injection, IsInjective, Surjection
  <1>2. fA \in [SA -> TA]
    BY <1>1
  <1>3. fA \in Bijection(SA, TA)
    BY <1>1, <1>2 DEF Bijection, Injection, IsInjective, Surjection
  <1>4. IsFiniteSet(SA)
    BY FS_Subset
  <1> HIDE DEF SA, TA, fA
  <1>5. ExistsBijection(SA, TA)
    BY <1>3 DEF ExistsBijection
  <1>6. Cardinality(TA) = Cardinality(SA)
    BY <1>4, <1>5, FS_Bijection
  <1>7. QED
    BY <1>6 DEF SA, TA, Holding

-----------------------------------------------------------------------------
(* The report.                                                             *)

(* floor(c * a / b) is at most c for a quantile a / b.                     *)
LEMMA RankInRange ==
    ASSUME NEW c \in Nat, NEW q \in Quantiles
    PROVE  (c * q[1]) \div q[2] \in 0 .. c
  <1>1. q[1] \in Nat /\ q[2] \in Nat /\ q[1] < q[2] /\ q[2] > 0
    BY LatencyAssumption
  <1> DEFINE a == q[1]
             b == q[2]
             x == c * a
             r == x \div b
  <1>2. a \in Nat /\ b \in Nat /\ a < b /\ b > 0
    BY <1>1
  <1> HIDE DEF a, b
  <1>3. x \in Nat
    BY <1>2
  <1>4. x <= c * b
    <2>1. c * b = x + c * (b - a) /\ c * (b - a) \in Nat
      BY <1>2
    <2>2. QED
      BY <1>3, <2>1
  <1> HIDE DEF x
  <1>5. r \in Nat /\ b * r <= x
    BY <1>2, <1>3
  <1> HIDE DEF r
  <1>6. r <= c
    <2> SUFFICES ASSUME r >= c + 1
                 PROVE  FALSE
      BY <1>5
    <2>1. b * r = b * c + b * (r - c) /\ b * (r - c) = b * (r - c - 1) + b
      BY <1>2, <1>5
    <2>2. b * (r - c - 1) \in Nat /\ b * c = c * b /\ b * c \in Nat
      BY <1>2, <1>5
    <2>3. QED
      BY <1>2, <1>3, <1>4, <1>5, <2>1, <2>2
  <1>7. QED
    BY <1>5, <1>6 DEF a, b, r, x

(* The samples of the window and the slots of the ring are the same.       *)
LEMMA WindowIsTheRing ==
    ASSUME Inv
    PROVE  /\ IsFiniteSet(Last) /\ Cardinality(Last) = Count /\ Count \in Nat
           /\ \E f \in Bijection(Last, 1 .. Count) :
                 \A n \in Last : recorded[n] = buffer[f[n] - 1]
  <1>1. /\ size \in Nat /\ Len(recorded) = size /\ Window \in Nat \ {0}
        /\ \A n \in Last : buffer[(n - 1) % Window] = recorded[n]
    BY LatencyAssumption DEF Inv, RingTyped, LastSamplesKept
  <1>2. Count \in Nat /\ Count <= Window /\ Count <= size
        /\ (Count = size \/ Count = Window)
    BY <1>1 DEF Count
  <1>3. Last = size - Count + 1 .. size
    BY <1>1 DEF Last, Count
  <1>4. IsFiniteSet(Last) /\ Cardinality(Last) = Count
    <2>1. size - Count + 1 \in Int /\ size \in Int
      BY <1>1, <1>2
    <2>2. size - (size - Count + 1) + 1 = Count
      BY <1>1, <1>2
    <2>3. QED
      BY <1>1, <1>2, <1>3, <2>1, <2>2, FS_Interval
  <1> DEFINE f == [n \in Last |-> Slot(n - 1) + 1]
  <1>5. ASSUME NEW n \in Last
        PROVE  /\ n \in Nat /\ n - 1 \in Nat /\ n <= size /\ n > size - Count
               /\ f[n] \in 1 .. Count
               /\ recorded[n] = buffer[f[n] - 1]
    <2>1. n \in Nat /\ n - 1 \in Nat /\ n <= size /\ n > size - Count
      BY <1>1, <1>2, <1>3
    <2>2. Slot(n - 1) \in 0 .. Window - 1
      BY <2>1, SlotInRing
    <2>3. Slot(n - 1) \in 0 .. Count - 1
      <3>1. CASE Count = Window
        BY <2>2, <3>1
      <3>2. CASE Count = size /\ Count < Window
        <4>1. n - 1 \in 0 .. Window - 1 /\ n - 1 \in 0 .. Count - 1
          BY <1>1, <1>2, <2>1, <3>2
        <4>2. \A j \in 0 .. Window - 1 : j % Window = j
          BY <1>1
        <4>3. QED
          BY <4>1, <4>2 DEF Slot
      <3>3. QED
        BY <1>1, <1>2, <3>1, <3>2
    <2>4. (f[n] - 1) = (n - 1) % Window
      BY <2>2 DEF Slot
    <2>5. QED
      BY <1>1, <1>2, <2>1, <2>3, <2>4
  <1>6. f \in [Last -> 1 .. Count]
    BY <1>5
  <1>7. ASSUME NEW m \in Last, NEW n \in Last, m < n
        PROVE  f[m] # f[n]
    <2> SUFFICES ASSUME f[m] = f[n]
                 PROVE  FALSE
      OBVIOUS
    <2>1. /\ m - 1 \in Nat /\ n - 1 \in Nat /\ m - 1 < n - 1
          /\ (n - 1) - (m - 1) < Window
      <3>1. /\ m \in Nat /\ m - 1 \in Nat /\ m > size - Count
            /\ n \in Nat /\ n - 1 \in Nat /\ n <= size
        BY <1>5
      <3>2. QED
        BY <1>1, <1>2, <1>7, <3>1
    <2>2. Slot(m - 1) = Slot(n - 1)
      BY <2>1, SlotInRing
    <2>3. (n - 1) - (m - 1) >= Window
      BY <2>1, <2>2, SlotsApart
    <2>4. QED
      BY <1>1, <2>1, <2>3
  <1> HIDE DEF f
  <1>8. \A m, n \in Last : f[m] = f[n] => m = n
    <2>1. \A m, n \in Last : m < n \/ n < m \/ m = n
      BY <1>5
    <2>2. QED
      BY <1>7, <2>1
  <1>9. f \in Injection(Last, 1 .. Count)
    BY <1>6, <1>8 DEF Injection, IsInjective
  <1>10. IsFiniteSet(1 .. Count) /\ Cardinality(1 .. Count) = Count
    BY <1>2, FS_Interval
  <1>11. f \in Bijection(Last, 1 .. Count)
    BY <1>4, <1>9, <1>10, FS_Injection DEF Bijection
  <1>12. QED
    BY <1>2, <1>4, <1>5, <1>11

(* What is reported are the samples of the window in order.                *)
LEMMA Reporting ==
    ASSUME Inv, Report
    PROVE  \E r : /\ r \in [1 .. Count -> Times]
                  /\ InOrder(r)
                  /\ Count \in Nat /\ Count > 0 /\ Cardinality(Last) = Count
                  /\ \A q \in Quantiles :
                        LET rank == ((Count - 1) * q[1]) \div q[2]
                        IN  rank \in 0 .. Count - 1 /\ report'[q] = r[rank + 1]
                  /\ \A A : Cardinality(Holding(Last, recorded, A))
                              = Cardinality(Holding(1 .. Count, r, A))
                  /\ \A i \in 1 .. Count : \E n \in Last : recorded[n] = r[i]
  <1>1. Count \in Nat /\ Count > 0 /\ Cardinality(Last) = Count /\ IsFiniteSet(Last)
    BY WindowIsTheRing DEF Report
  <1>2. PICK f \in Bijection(Last, 1 .. Count) :
           \A n \in Last : recorded[n] = buffer[f[n] - 1]
    BY WindowIsTheRing
  <1> DEFINE s == [i \in 1 .. Count |-> buffer[i - 1]]
             r == Sorted(s)
  <1>3. s \in [1 .. Count -> Times]
    <2>1. \A i \in 1 .. Count : i - 1 \in 0 .. Window - 1
      BY LatencyAssumption DEF Count, Inv, RingTyped
    <2>2. QED
      BY <2>1 DEF Inv, RingTyped
  <1>4. report' = [q \in Quantiles |-> r[Index(q) + 1]]
    BY DEF Report
  <1> HIDE DEF r
  <1>5. PICK p \in Bijection(1 .. Count, 1 .. Count) : r = [i \in 1 .. Count |-> s[p[i]]]
    BY <1>1, <1>3, SortedIs DEF r
  <1>6. InOrder(r)
    BY <1>1, <1>3, SortedIs DEF r
  <1>7. /\ p \in [1 .. Count -> 1 .. Count] /\ f \in [Last -> 1 .. Count]
        /\ \A i \in 1 .. Count : \E n \in Last : f[n] = i
    BY <1>2, <1>5 DEF Bijection, Injection, Surjection
  <1>8. r \in [1 .. Count -> Times]
    BY <1>3, <1>5, <1>7
  <1>9. ASSUME NEW q \in Quantiles
        PROVE  LET rank == ((Count - 1) * q[1]) \div q[2]
               IN  rank \in 0 .. Count - 1 /\ report'[q] = r[rank + 1]
    <2>1. Count - 1 \in Nat
      BY <1>1
    <2>2. ((Count - 1) * q[1]) \div q[2] \in 0 .. Count - 1
      BY <2>1, RankInRange
    <2>3. QED
      BY <1>4, <2>2 DEF Index
  <1>10. \A n \in Last : recorded[n] = s[f[n]]
    BY <1>2, <1>7
  <1>11. ASSUME NEW A
         PROVE  Cardinality(Holding(Last, recorded, A))
                   = Cardinality(Holding(1 .. Count, r, A))
    <2> HIDE DEF s
    <2>1. Cardinality(Holding(Last, recorded, A)) = Cardinality(Holding(1 .. Count, s, A))
      BY <1>1, <1>2, <1>10, CountThrough
    <2>2. \A i \in 1 .. Count : r[i] = s[p[i]]
      BY <1>5
    <2>3. IsFiniteSet(1 .. Count)
      BY <1>1, FS_Interval
    <2>4. Cardinality(Holding(1 .. Count, r, A)) = Cardinality(Holding(1 .. Count, s, A))
      <3> DEFINE D == 1 .. Count
      <3>1. p \in Bijection(D, D) /\ IsFiniteSet(D) /\ \A i \in D : r[i] = s[p[i]]
        BY <2>2, <2>3
      <3> HIDE DEF D
      <3>2. Cardinality(Holding(D, r, A)) = Cardinality(Holding(D, s, A))
        BY <3>1, CountThrough
      <3>3. QED
        BY <3>2 DEF D
    <2>5. QED
      BY <2>1, <2>4
  <1>12. \A i \in 1 .. Count : \E n \in Last : recorded[n] = r[i]
    <2> HIDE DEF s
    <2>1. QED
      BY <1>5, <1>7, <1>10
  <1>13. QED
    BY <1>1, <1>6, <1>8, <1>9, <1>11, <1>12

(* Counting in a sequence that is in order up to k and from k on.          *)
LEMMA CountBelow ==
    ASSUME NEW c \in Nat, NEW k \in 1 .. c, NEW S \in SUBSET (1 .. c)
    PROVE  /\ Cardinality(S) \in Nat
           /\ (\A i \in S : i < k) => Cardinality(S) <= k - 1
           /\ (\A i \in 1 .. k : i \in S) => Cardinality(S) >= k
  <1>1. IsFiniteSet(S) /\ Cardinality(S) \in Nat
    <2>1. 1 \in Int /\ c \in Int
      OBVIOUS
    <2>2. IsFiniteSet(1 .. c)
      BY <2>1, FS_Interval
    <2>3. QED
      BY <2>2, FS_Subset, FS_CardinalityType
  <1>2. ASSUME \A i \in S : i < k
        PROVE  Cardinality(S) <= k - 1
    <2>1. S \in SUBSET (1 .. k - 1)
      BY <1>2
    <2>2. k - 1 \in Int /\ IsFiniteSet(1 .. k - 1) /\ Cardinality(1 .. k - 1) = k - 1
      <3>1. k - 1 \in Int /\ (1 > k - 1 => k - 1 = 0) /\ (k - 1) - 1 + 1 = k - 1
        OBVIOUS
      <3>2. QED
        BY <3>1, FS_Interval
    <2>3. QED
      BY <2>1, <2>2, FS_Subset
  <1>3. ASSUME \A i \in 1 .. k : i \in S
        PROVE  Cardinality(S) >= k
    <2>1. (1 .. k) \in SUBSET S
      BY <1>3
    <2>2. Cardinality(1 .. k) = k
      <3>1. k \in Int /\ ~(1 > k) /\ k - 1 + 1 = k
        OBVIOUS
      <3>2. QED
        BY <3>1, FS_Interval
    <2>3. Cardinality(1 .. k) <= Cardinality(S)
      BY <1>1, <2>1, FS_Subset
    <2>4. QED
      BY <1>1, <2>2, <2>3
  <1>4. QED
    BY <1>1, <1>2, <1>3

LEMMA ReportRight ==
    ASSUME Inv, Report
    PROVE  QuantilesOfTheLast' /\ BackwardSamplesShow'
  <1>1. PICK r :
           /\ r \in [1 .. Count -> Times]
           /\ InOrder(r)
           /\ Count \in Nat /\ Count > 0 /\ Cardinality(Last) = Count
           /\ \A q \in Quantiles :
                 LET rank == ((Count - 1) * q[1]) \div q[2]
                 IN  rank \in 0 .. Count - 1 /\ report'[q] = r[rank + 1]
           /\ \A A : Cardinality(Holding(Last, recorded, A))
                       = Cardinality(Holding(1 .. Count, r, A))
           /\ \A i \in 1 .. Count : \E n \in Last : recorded[n] = r[i]
    BY Reporting
  <1>2. recorded' = recorded /\ Last' = Last /\ Backward' = Backward
    BY DEF Report, Last, Backward
  <1>3. Last \subseteq Nat /\ \A n \in Last : recorded[n] \in Times
    BY DEF Inv, RingTyped, Last
  <1> DEFINE Late == {t \in Times : t >= TscRange \div 2}
  <1>4. Backward = Holding(Last, recorded, Late)
    BY <1>3 DEF Backward, Holding
  <1>5. \A i, j \in 1 .. Count : i <= j => Signed(r[i]) <= Signed(r[j])
    <2>1. \A i \in 1 .. Count : Signed(r[i]) \in Int
      BY <1>1, SignedTimes
    <2>2. QED
      BY <1>1, <2>1 DEF InOrder
  <1>6. ASSUME NEW q \in Quantiles, Backward = {}
        PROVE  LET rank == ((Cardinality(Last) - 1) * q[1]) \div q[2]
               IN  /\ \E n \in Last : recorded[n] = report'[q]
                   /\ Cardinality({n \in Last : recorded[n] < report'[q]}) <= rank
                   /\ rank < Cardinality({n \in Last : recorded[n] <= report'[q]})
    <2> DEFINE rank == ((Count - 1) * q[1]) \div q[2]
               k == rank + 1
               Below == {t \in Times : t < r[k]}
               UpTo == {t \in Times : t <= r[k]}
    <2>1. rank \in 0 .. Count - 1 /\ report'[q] = r[k]
      BY <1>1
    <2> HIDE DEF rank
    <2>2. k \in 1 .. Count /\ rank = k - 1 /\ rank \in Int
      BY <1>1, <2>1
    <2>3. ASSUME NEW i \in 1 .. Count
          PROVE  r[i] \in Times /\ r[i] \in Int /\ Signed(r[i]) = r[i]
      <3>1. PICK n \in Last : recorded[n] = r[i]
        BY <1>1
      <3>2. r[i] \in Times /\ r[i] \in Int
        BY <1>1, SignedTimes
      <3>3. ~(r[i] >= TscRange \div 2)
        BY <1>6, <3>1 DEF Backward
      <3>4. TscRange \div 2 \in Int
        BY LatencyAssumption
      <3>5. QED
        BY <3>2, <3>3, <3>4, SignedTimes
    <2>4. \A i, j \in 1 .. Count : i <= j => r[i] <= r[j]
      BY <1>5, <2>3
    <2>5. Cardinality(Holding(1 .. Count, r, Below)) <= rank
      <3> DEFINE S == Holding(1 .. Count, r, Below)
      <3>1. \A i \in S : i < k
        BY <2>2, <2>3, <2>4 DEF Holding
      <3>2. S \in SUBSET (1 .. Count)
        BY DEF Holding
      <3> HIDE DEF S, k
      <3>3. Cardinality(S) <= k - 1
        BY <1>1, <2>2, <3>1, <3>2, CountBelow
      <3>4. QED
        BY <2>2, <3>3 DEF S
    <2>6. rank < Cardinality(Holding(1 .. Count, r, UpTo))
      <3> DEFINE S == Holding(1 .. Count, r, UpTo)
      <3>1. ASSUME NEW i \in 1 .. k
            PROVE  i \in S
        <4>1. i \in 1 .. Count /\ i <= k
          BY <1>1, <2>2
        <4>2. r[i] \in Times /\ r[i] <= r[k]
          BY <2>2, <2>3, <2>4, <4>1
        <4>3. QED
          BY <4>1, <4>2 DEF Holding
      <3>2. S \in SUBSET (1 .. Count)
        BY DEF Holding
      <3> HIDE DEF S, k
      <3>3. Cardinality(S) >= k /\ Cardinality(S) \in Nat
        BY <1>1, <2>2, <3>1, <3>2, CountBelow
      <3>4. QED
        BY <2>2, <3>3 DEF S
    <2>7. /\ {n \in Last : recorded[n] < r[k]} = Holding(Last, recorded, Below)
          /\ {n \in Last : recorded[n] <= r[k]} = Holding(Last, recorded, UpTo)
      BY <1>3 DEF Holding
    <2>8. \E n \in Last : recorded[n] = r[k]
      BY <1>1, <2>2
    <2> HIDE DEF Below, UpTo, k
    <2>9. /\ Cardinality(Holding(Last, recorded, Below)) <= rank
          /\ rank < Cardinality(Holding(Last, recorded, UpTo))
      BY <1>1, <2>5, <2>6
    <2>10. Cardinality(Last) = Count
      BY <1>1
    <2>11. QED
      BY <2>1, <2>7, <2>8, <2>9, <2>10 DEF rank
  <1>7. ASSUME NEW q \in Quantiles
        PROVE  report'[q] >= TscRange \div 2
                  <=> ((Cardinality(Last) - 1) * q[1]) \div q[2] < Cardinality(Backward)
    <2> DEFINE rank == ((Count - 1) * q[1]) \div q[2]
               k == rank + 1
               S == Holding(1 .. Count, r, Late)
    <2>1. rank \in 0 .. Count - 1 /\ report'[q] = r[k]
      BY <1>1
    <2>2. Cardinality(Backward) = Cardinality(S)
      BY <1>1, <1>4
    <2> HIDE DEF rank
    <2>3. k \in 1 .. Count /\ rank = k - 1 /\ rank \in Int
      BY <1>1, <2>1
    <2>4. \A i \in 1 .. Count : /\ Signed(r[i]) \in Int
                                /\ r[i] >= TscRange \div 2 <=> Signed(r[i]) < 0
                                /\ i \in S <=> Signed(r[i]) < 0
      BY <1>1, SignedTimes DEF Holding
    <2>5. S \in SUBSET (1 .. Count)
      BY DEF Holding
    <2> HIDE DEF S, k
    <2>6. Cardinality(S) \in Nat
      BY <1>1, <2>3, <2>5, CountBelow
    <2>7. CASE Signed(r[k]) < 0
      <3>1. \A i \in 1 .. k : i \in S
        BY <1>1, <1>5, <2>3, <2>4, <2>7
      <3>2. Cardinality(S) >= k
        BY <1>1, <2>3, <2>5, <3>1, CountBelow
      <3>3. r[k] >= TscRange \div 2 /\ rank < Cardinality(S)
        BY <2>3, <2>4, <2>6, <2>7, <3>2
      <3>4. QED
        BY <1>1, <2>1, <2>2, <3>3 DEF rank
    <2>8. CASE ~(Signed(r[k]) < 0)
      <3>1. \A i \in S : i < k
        <4> SUFFICES ASSUME NEW i \in S, k <= i
                     PROVE  FALSE
          BY <2>3, <2>5
        <4>1. Signed(r[k]) <= Signed(r[i]) /\ Signed(r[i]) < 0
          BY <1>5, <2>3, <2>4, <2>5
        <4>2. QED
          BY <2>3, <2>4, <2>5, <2>8, <4>1
      <3>2. Cardinality(S) <= k - 1
        BY <1>1, <2>3, <2>5, <3>1, CountBelow
      <3>3. ~(r[k] >= TscRange \div 2) /\ ~(rank < Cardinality(S))
        BY <2>3, <2>4, <2>6, <2>8, <3>2
      <3>4. QED
        BY <1>1, <2>1, <2>2, <3>3 DEF rank
    <2>9. QED
      BY <2>7, <2>8
  <1> HIDE DEF Late
  <1>8. QuantilesOfTheLast'
    BY <1>2, <1>6 DEF QuantilesOfTheLast
  <1>9. BackwardSamplesShow'
    BY <1>2, <1>7 DEF BackwardSamplesShow
  <1>10. QED
    BY <1>8, <1>9

-----------------------------------------------------------------------------

(* Nothing is recorded any more after a report.                            *)
ReportInv ==
    /\ Inv
    /\ report # << >> => t0 = NoScope
    /\ QuantilesOfTheLast
    /\ BackwardSamplesShow

LEMMA ReportsRight == Spec => []ReportInv
  <1>1. Init => ReportInv
    BY InitInv DEF Init, ReportInv, QuantilesOfTheLast, BackwardSamplesShow
  <1>2. ReportInv /\ [Next]_vars => ReportInv'
    <2> SUFFICES ASSUME ReportInv, [Next]_vars
                 PROVE  ReportInv'
      OBVIOUS
    <2>1. Inv /\ Inv'
      BY NextInv DEF ReportInv
    <2>2. CASE RecordScope \/ EndScope
      <3>1. report' = << >>
        BY <2>2 DEF RecordScope, EndScope, ReportInv
      <3>2. QED
        BY <2>1, <3>1 DEF ReportInv, QuantilesOfTheLast, BackwardSamplesShow
    <2>3. CASE Report
      BY <2>1, <2>3, ReportRight DEF Report, ReportInv
    <2>4. CASE UNCHANGED vars
      BY <2>1, <2>4
      DEF vars, ReportInv, QuantilesOfTheLast, BackwardSamplesShow, Last, Backward
    <2>5. QED
      BY <2>2, <2>3, <2>4 DEF Next
  <1>3. QED
    BY <1>1, <1>2, PTL DEF Spec

(* Without a counter that goes back, every reported quantile is one of the *)
(* samples of the window and has its rank among them.                      *)
THEOREM QuantilesAreRight == Spec => []QuantilesOfTheLast
  <1>1. ReportInv => QuantilesOfTheLast
    BY DEF ReportInv
  <1>2. QED
    BY <1>1, ReportsRight, PTL

(* A counter that went back shows in those quantiles whose rank the broken *)
(* samples reach, and in no others.                                        *)
THEOREM BackwardShows == Spec => []BackwardSamplesShow
  <1>1. ReportInv => BackwardSamplesShow
    BY DEF ReportInv
  <1>2. QED
    BY <1>1, ReportsRight, PTL
================================================================================
