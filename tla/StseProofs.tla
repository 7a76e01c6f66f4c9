------------------------------ MODULE StseProofs ------------------------------
(***************************************************************************)
(* Proofs about the serialisation library, for any set of types whose data *)
(* members lie in their objects and apart, and any lists of them.          *)
(***************************************************************************)
EXTENDS Messages, FiniteSetTheorems, SequenceTheorems, NaturalsInduction, WellFoundedInduction, TLAPS

-----------------------------------------------------------------------------
(* Recursion and induction, over numbers and over types.                   *)

LEMMA LeastNumber ==
    ASSUME NEW T, T \subseteq Nat, T # {}
    PROVE  \E n \in T : \A m \in T : n <= m
<1>1. PICK n \in T : \A m \in T : ~ (<<m, n>> \in OpToRel(<, Nat))
  BY NatLessThanWellFounded, WFMin, Zenon
<1>2. \A m \in T : ~ (m < n)
  BY <1>1 DEF OpToRel
<1> QED BY <1>2

(* What holds at zero and carries over to the next number.                 *)
LEMMA UpTo ==
    ASSUME NEW n \in Nat, NEW T, 0 \in T,
           \A i \in 1 .. n : i - 1 \in T => i \in T
    PROVE  \A i \in 0 .. n : i \in T
<1> SUFFICES ASSUME \E i \in 0 .. n : i \notin T
             PROVE  FALSE
  OBVIOUS
<1> DEFINE Bad == {i \in 0 .. n : i \notin T}
<1>1. Bad \subseteq Nat /\ Bad # {}
  OBVIOUS
<1>2. PICK i \in Bad : \A j \in Bad : i <= j
  <2> HIDE DEF Bad
  <2> QED BY <1>1, LeastNumber
<1>3. i # 0
  OBVIOUS
<1>4. i - 1 \in 0 .. n /\ ~(i <= i - 1)
  BY <1>3
<1>5. i - 1 \in T
  BY <1>2, <1>4
<1> QED BY <1>3, <1>5

(* Elements of one size, one behind the other.                             *)
LEMMA Strides ==
    ASSUME NEW size \in Nat, NEW n \in Nat
    PROVE  /\ \A i \in 1 .. n : size * (i - 1) \in Nat /\ size * (i - 1) + size <= n * size
           /\ \A i, j \in 1 .. n : i < j => size * (i - 1) + size <= size * (j - 1)
<1>1. ASSUME NEW a \in Nat, NEW b \in Nat, a <= b
      PROVE  size * a \in Nat /\ size * b \in Nat /\ size * a <= size * b
  <2>1. PICK d \in Nat : b = a + d
    <3>1. b - a \in Nat /\ b = a + (b - a)
      BY <1>1
    <3> QED BY <3>1
  <2>2. size * b = size * a + size * d
    BY <2>1
  <2>3. size * a \in Nat /\ size * d \in Nat
    OBVIOUS
  <2> QED BY <2>2, <2>3
<1>2. \A i \in 1 .. n : i - 1 \in Nat /\ i \in Nat /\ size * (i - 1) + size = size * i
  OBVIOUS
<1>3. n * size = size * n
  OBVIOUS
<1>4. ASSUME NEW i \in 1 .. n
      PROVE  size * (i - 1) \in Nat /\ size * (i - 1) + size <= n * size
  <2>1. i - 1 \in Nat /\ i \in Nat /\ i - 1 <= i /\ i <= n
    OBVIOUS
  <2>2. size * (i - 1) \in Nat /\ size * i <= size * n
    BY <1>1, <2>1
  <2> QED BY <1>2, <1>3, <2>2
<1>5. ASSUME NEW i \in 1 .. n, NEW j \in 1 .. n, i < j
      PROVE  size * (i - 1) + size <= size * (j - 1)
  <2>1. i \in Nat /\ j - 1 \in Nat /\ i <= j - 1
    BY <1>5
  <2>2. size * i <= size * (j - 1)
    BY <1>1, <2>1
  <2> QED BY <1>2, <2>2
<1> QED BY <1>4, <1>5

(* The steps of a recursion over the numbers up to n.                      *)
Iterable(V, base, n, step) ==
    base \in V /\ n \in Nat /\ step \in [1 .. n -> [V -> V]]

Iterated(V, base, n, step, f) ==
    /\ f \in [0 .. n -> V]
    /\ f[0] = base
    /\ \A i \in 1 .. n : f[i] = step[i][f[i - 1]]

(* A function that is computed number by number.                           *)
LEMMA Iterate ==
    ASSUME NEW V, NEW base, NEW n, NEW step, Iterable(V, base, n, step)
    PROVE  \E f : Iterated(V, base, n, step, f)
<1> base \in V /\ n \in Nat /\ step \in [1 .. n -> [V -> V]]
  BY DEF Iterable
<1> DEFINE Partial(k) == \E f : Iterated(V, base, k, step, f)
      T == {k \in 0 .. n : Partial(k)}
<1>1. 0 \in T
  <2>1. [i \in 0 .. 0 |-> base] \in [0 .. 0 -> V]
    OBVIOUS
  <2>2. Iterated(V, base, 0, step, [i \in 0 .. 0 |-> base])
    BY <2>1 DEF Iterated
  <2> QED BY <2>2
<1>2. ASSUME NEW k \in 1 .. n, k - 1 \in T
      PROVE  k \in T
  <2>01. PICK f : Iterated(V, base, k - 1, step, f)
    BY <1>2
  <2>1. /\ f \in [0 .. k - 1 -> V]
        /\ f[0] = base /\ \A i \in 1 .. k - 1 : f[i] = step[i][f[i - 1]]
    BY <2>01 DEF Iterated
  <2> DEFINE g == [i \in 0 .. k |-> IF i = k THEN step[k][f[k - 1]] ELSE f[i]]
  <2>2. step[k] \in [V -> V] /\ f[k - 1] \in V
    BY <2>1
  <2>3. g \in [0 .. k -> V]
    BY <2>1, <2>2
  <2>4. g[0] = base /\ \A i \in 1 .. k : g[i] = step[i][g[i - 1]]
    BY <2>1
  <2>5. Partial(k)
    <3> HIDE DEF g
    <3>1. Iterated(V, base, k, step, g)
      BY <2>3, <2>4 DEF Iterated
    <3> QED BY <3>1
  <2> HIDE DEF g, Partial
  <2> QED BY <2>5
<1>3. \A k \in 0 .. n : k \in T
  <2> HIDE DEF T
  <2>1. \A k \in 1 .. n : k - 1 \in T => k \in T
    BY <1>2
  <2> QED BY <1>1, <2>1, UpTo
<1>4. n \in T
  <2> HIDE DEF T
  <2> QED BY <1>3
<1> QED BY <1>4

(* What holds of every type all parts of which have it holds of all types. *)
LEMMA TypeInduction ==
    ASSUME NEW T,
           \A t \in Types : (\A p \in PartTypes(t) : p \in T) => t \in T
    PROVE  \A t \in Types : t \in T
<1> SUFFICES ASSUME \E t \in Types : t \notin T
             PROVE  FALSE
  OBVIOUS
<1> DEFINE Bad == {t.depth : t \in {u \in Types : u \notin T}}
<1>1. Bad \subseteq Nat /\ Bad # {}
  BY TypesAssumption DEF LaidOut
<1>2. PICK n \in Bad : \A m \in Bad : n <= m
  <2> HIDE DEF Bad
  <2> QED BY <1>1, LeastNumber
<1>3. PICK t \in Types : t \notin T /\ n = t.depth
  OBVIOUS
<1>4. ASSUME NEW p \in PartTypes(t)
      PROVE  p \in T
  <2>1. p \in Types /\ p.depth < t.depth /\ p.depth \in Nat /\ t.depth \in Nat
    BY TypesAssumption DEF LaidOut
  <2> QED BY <1>2, <1>3, <2>1
<1> QED BY <1>3, <1>4

(* The steps of a recursion over types look at the parts only.             *)
LooksAtParts(V, step) ==
    \A t \in Types : \A f, g \in [Types -> V] :
        (\A p \in PartTypes(t) : f[p] = g[p]) => step[t][f] = step[t][g]

TypeSteps(V, step) ==
    V # {} /\ step \in [Types -> [[Types -> V] -> V]] /\ LooksAtParts(V, step)

Computed(V, step, f) ==
    f \in [Types -> V] /\ \A t \in Types : f[t] = step[t][f]

(* A function computed for every type from what it is for the parts.       *)
LEMMA TypeRecursion ==
    ASSUME NEW V, NEW step, TypeSteps(V, step)
    PROVE  \E f : Computed(V, step, f)
<1> LooksAtParts(V, step) /\ step \in [Types -> [[Types -> V] -> V]]
  BY DEF TypeSteps
<1> PICK some \in V : TRUE
  BY DEF TypeSteps
<1> DEFINE Fits(computed, n) ==
             \A t \in Types : t.depth < n => computed[t] = step[t][computed]
(* Up to some depth there is one ... *)
<1>1. \A k \in Nat : \E f \in [Types -> V] : Fits(f, k)
  <2> DEFINE T == {k \in Nat : \E f \in [Types -> V] : Fits(f, k)}
  <2>1. 0 \in T
    <3>1. [t \in Types |-> some] \in [Types -> V]
      OBVIOUS
    <3>2. Fits([t \in Types |-> some], 0)
      BY TypesAssumption DEF LaidOut
    <3> QED BY <3>1, <3>2
  <2>2. ASSUME NEW k \in Nat, k \in T
        PROVE  k + 1 \in T
    <3>1. PICK f \in [Types -> V] : Fits(f, k)
      BY <2>2
    <3> DEFINE g == [t \in Types |-> step[t][f]]
    <3>2. g \in [Types -> V]
      OBVIOUS
    <3>3. ASSUME NEW t \in Types, t.depth < k + 1
          PROVE  g[t] = step[t][g]
      <4>1. \A p \in PartTypes(t) : p \in Types /\ p.depth < k
        BY <3>3, TypesAssumption DEF LaidOut
      <4>2. \A p \in PartTypes(t) : f[p] = g[p]
        BY <3>1, <4>1
      <4>3. g[t] = step[t][f]
        OBVIOUS
      <4> HIDE DEF g
      <4> QED BY <3>2, <4>2, <4>3 DEF LooksAtParts
    <3>4. Fits(g, k + 1)
      BY <3>3
    <3> HIDE DEF g
    <3> QED BY <3>2, <3>4
  <2>3. ASSUME NEW k \in Nat
        PROVE  k \in T
    <3> HIDE DEF T
    <3>1. \A i \in 1 .. k : i - 1 \in T => i \in T
      <4> SUFFICES ASSUME NEW i \in 1 .. k, i - 1 \in T
                   PROVE  i \in T
        OBVIOUS
      <4>1. i - 1 \in Nat /\ (i - 1) + 1 = i
        OBVIOUS
      <4> QED BY <4>1, <2>2
    <3>2. \A i \in 0 .. k : i \in T
      BY <2>1, <3>1, UpTo
    <3> QED BY <3>2
  <2> QED BY <2>3
(* ... it is unique ... *)
<1>2. \A k, l \in Nat : \A f, g \in [Types -> V] :
        k <= l /\ Fits(f, k) /\ Fits(g, l) => \A t \in Types : t.depth < k => f[t] = g[t]
  <2> TAKE k, l \in Nat
  <2> TAKE f, g \in [Types -> V]
  <2> HAVE k <= l /\ Fits(f, k) /\ Fits(g, l)
  <2> DEFINE T == {t \in Types : t.depth < k => f[t] = g[t]}
  <2>1. ASSUME NEW t \in Types, \A p \in PartTypes(t) : p \in T
        PROVE  t \in T
    <3> SUFFICES ASSUME t.depth < k
                 PROVE  f[t] = g[t]
      OBVIOUS
    <3>1. t.depth \in Nat /\ \A p \in PartTypes(t) : p.depth \in Nat /\ p.depth < k
      BY TypesAssumption DEF LaidOut
    <3>2. \A p \in PartTypes(t) : f[p] = g[p]
      BY <2>1, <3>1
    <3>3. f[t] = step[t][f] /\ g[t] = step[t][g]
      BY <3>1
    <3> QED BY <3>2, <3>3 DEF LooksAtParts
  <2>2. \A t \in Types : t \in T
    <3> HIDE DEF T
    <3> QED BY <2>1, TypeInduction
  <2> QED BY <2>2
(* ... and deep enough for each type. *)
<1> DEFINE at(t) == CHOOSE f \in [Types -> V] : Fits(f, t.depth + 1)
           whole == [t \in Types |-> at(t)[t]]
<1>3. ASSUME NEW t \in Types
      PROVE  at(t) \in [Types -> V] /\ Fits(at(t), t.depth + 1)
  <2>1. t.depth + 1 \in Nat
    BY TypesAssumption DEF LaidOut
  <2>2. \E f \in [Types -> V] : Fits(f, t.depth + 1)
    BY <1>1, <2>1
  <2> HIDE DEF Fits
  <2> QED BY <2>2
<1>4. whole \in [Types -> V]
  <2> HIDE DEF at
  <2> QED BY <1>3
<1>5. ASSUME NEW t \in Types
      PROVE  whole[t] = step[t][whole]
  <2> HIDE DEF at
  <2>1. whole[t] = step[t][at(t)]
    BY <1>3, TypesAssumption DEF LaidOut
  <2>2. ASSUME NEW p \in PartTypes(t)
        PROVE  at(t)[p] = whole[p]
    <3>1. p \in Types /\ p.depth \in Nat /\ t.depth \in Nat /\ p.depth < t.depth
      BY TypesAssumption DEF LaidOut
    <3>2. p.depth + 1 \in Nat /\ t.depth + 1 \in Nat /\ p.depth + 1 <= t.depth + 1
      BY <3>1
    <3>3. \A s \in Types : s.depth < p.depth + 1 => at(p)[s] = at(t)[s]
      <4>1. /\ at(p) \in [Types -> V] /\ Fits(at(p), p.depth + 1)
            /\ at(t) \in [Types -> V] /\ Fits(at(t), t.depth + 1)
        BY <1>3, <3>1
      <4> HIDE DEF Fits
      <4> QED BY <1>2, <3>2, <4>1
    <3>4. at(p)[p] = at(t)[p]
      BY <3>1, <3>3
    <3> QED BY <3>1, <3>4
  <2> HIDE DEF whole
  <2> QED BY <1>3, <1>4, <2>1, <2>2 DEF LooksAtParts
<1> HIDE DEF whole
<1>6. Computed(V, step, whole)
  BY <1>4, <1>5 DEF Computed
<1> QED BY <1>6

(* The sums of the first sizes, one after another.                         *)
LEMMA TotalFunction ==
    ASSUME NEW m \in Nat, NEW sizes \in [1 .. m -> Nat]
    PROVE  \E f \in [0 .. m -> Nat] :
              /\ f[0] = 0
              /\ \A i \in 1 .. m : f[i] = f[i - 1] + sizes[i]
              /\ \A n \in 0 .. m : Total(sizes, n) = f[n]
<1> DEFINE step == [i \in 1 .. m |-> [x \in Nat |-> x + sizes[i]]]
<1>1. Iterable(Nat, 0, m, step)
  BY DEF Iterable
<1>02. PICK f : Iterated(Nat, 0, m, step, f)
  <2> HIDE DEF step
  <2> QED BY <1>1, Iterate
<1>2. /\ f \in [0 .. m -> Nat]
      /\ f[0] = 0 /\ \A i \in 1 .. m : f[i] = step[i][f[i - 1]]
  <2> HIDE DEF step
  <2> QED BY <1>02 DEF Iterated
<1>3. f[0] = 0 /\ \A i \in 1 .. m : f[i] = f[i - 1] + sizes[i]
  <2>1. \A i \in 1 .. m : f[i - 1] \in Nat
    BY <1>2
  <2> QED BY <1>2, <2>1
<1>4. ASSUME NEW n \in 0 .. m
      PROVE  Total(sizes, n) = f[n]
  <2> DEFINE sum == CHOOSE s : s = [i \in 0 .. n |-> IF i = 0 THEN 0 ELSE s[i - 1] + sizes[i]]
  <2>1. Total(sizes, n) = sum[n]
    BY DEF Total
  <2>2. [i \in 0 .. n |-> f[i]]
          = [i \in 0 .. n |-> IF i = 0 THEN 0 ELSE [j \in 0 .. n |-> f[j]][i - 1] + sizes[i]]
    BY <1>3
  <2>03. sum = [i \in 0 .. n |-> IF i = 0 THEN 0 ELSE sum[i - 1] + sizes[i]]
    BY <2>2
  <2> HIDE DEF sum
  <2>3. sum[0] = 0 /\ \A i \in 1 .. n : sum[i] = sum[i - 1] + sizes[i]
    <3>1. \A i \in 0 .. n : sum[i] = IF i = 0 THEN 0 ELSE sum[i - 1] + sizes[i]
      BY <2>03
    <3> QED BY <3>1
  <2>003. n \in Nat /\ 1 .. n \subseteq 1 .. m
    OBVIOUS
  <2> DEFINE T == {i \in 0 .. n : sum[i] = f[i]}
  <2>4. 0 \in T
    BY <1>3, <2>3
  <2>5. \A i \in 1 .. n : i - 1 \in T => i \in T
    BY <1>3, <2>003, <2>3
  <2>6. n \in T
    <3> HIDE DEF T
    <3>9. \A i \in 0 .. n : i \in T
      BY <2>003, <2>4, <2>5, UpTo
    <3> QED BY <3>9
  <2> QED BY <2>1, <2>6
<1> QED BY <1>2, <1>3, <1>4

LEMMA TotalSteps ==
    ASSUME NEW m \in Nat, NEW sizes \in [1 .. m -> Nat]
    PROVE  /\ Total(sizes, 0) = 0
           /\ \A n \in 0 .. m : Total(sizes, n) \in Nat
           /\ \A n \in 1 .. m : Total(sizes, n) = Total(sizes, n - 1) + sizes[n]
<1>1. PICK f \in [0 .. m -> Nat] :
        /\ f[0] = 0
        /\ \A i \in 1 .. m : f[i] = f[i - 1] + sizes[i]
        /\ \A n \in 0 .. m : Total(sizes, n) = f[n]
  BY TotalFunction
<1>2. \A n \in 1 .. m : n \in 0 .. m /\ n - 1 \in 0 .. m
  OBVIOUS
<1>3. 0 \in 0 .. m
  OBVIOUS
<1> QED BY <1>1, <1>2, <1>3

LEMMA TotalGrows ==
    ASSUME NEW m \in Nat, NEW sizes \in [1 .. m -> Nat],
           NEW n \in 0 .. m, NEW k \in 0 .. n
    PROVE  Total(sizes, k) <= Total(sizes, n)
<1> DEFINE T == {i \in 0 .. n : i < k \/ Total(sizes, k) <= Total(sizes, i)}
<1>1. \A i \in 0 .. m : Total(sizes, i) \in Nat
  BY TotalSteps
<1>01. n \in Nat /\ 1 .. n \subseteq 1 .. m
  OBVIOUS
<1>2. 0 \in T
  BY <1>1
<1>3. ASSUME NEW i \in 1 .. n, i - 1 \in T
      PROVE  i \in T
  <2>1. Total(sizes, i) = Total(sizes, i - 1) + sizes[i] /\ sizes[i] \in Nat
    BY <1>01, TotalSteps
  <2>2. i - 1 \in 0 .. m /\ i \in 0 .. m
    OBVIOUS
  <2>3. CASE i - 1 < k /\ i # k
    BY <2>2, <2>3
  <2>4. CASE i = k
    <3>1. Total(sizes, i) \in Nat
      BY <1>1, <2>2
    <3>2. Total(sizes, k) <= Total(sizes, i)
      BY <2>4, <3>1
    <3> QED BY <3>2
  <2>5. CASE Total(sizes, k) <= Total(sizes, i - 1)
    <3>1. k \in 0 .. m
      OBVIOUS
    <3>2. Total(sizes, k) \in Nat /\ Total(sizes, i - 1) \in Nat
      BY <1>1, <2>2, <3>1
    <3>3. Total(sizes, k) <= Total(sizes, i)
      BY <2>1, <2>5, <3>2
    <3> QED BY <3>3
  <2>6. i - 1 < k \/ Total(sizes, k) <= Total(sizes, i - 1)
    BY <1>3
  <2>7. (i - 1 < k /\ i # k) \/ i = k \/ Total(sizes, k) <= Total(sizes, i - 1)
    BY <2>6
  <2> HIDE DEF T
  <2> QED BY <2>3, <2>4, <2>5, <2>7
<1>4. n \in T
  <2> HIDE DEF T
  <2>1. \A i \in 1 .. n : i - 1 \in T => i \in T
    BY <1>3
  <2>9. \A i \in 0 .. n : i \in T
    BY <1>01, <1>2, <2>1, UpTo
  <2> QED BY <2>9
<1> QED BY <1>4

(* Parts of a sequence of sequences, put one behind the other.             *)
LEMMA FlattenSeqSteps ==
    ASSUME NEW S, NEW n \in Nat, NEW parts \in [1 .. n -> Seq(S)]
    PROVE  \E f \in [0 .. n -> Seq(S)] :
              /\ f[0] = << >>
              /\ \A i \in 1 .. n : f[i] = f[i - 1] \o parts[i]
              /\ FlattenSeq(parts) = f[n]
<1>1. parts \in Seq(Seq(S)) /\ Len(parts) = n
  OBVIOUS
<1> DEFINE step == [i \in 1 .. n |-> [s \in Seq(S) |-> s \o parts[i]]]
<1>2. Iterable(Seq(S), << >>, n, step)
  BY DEF Iterable
<1>3. PICK f : Iterated(Seq(S), << >>, n, step, f)
  <2> HIDE DEF step
  <2> QED BY <1>2, Iterate
<1>4. /\ f \in [0 .. n -> Seq(S)]
      /\ f[0] = << >> /\ \A i \in 1 .. n : f[i] = step[i][f[i - 1]]
  <2> HIDE DEF step
  <2> QED BY <1>3 DEF Iterated
<1>5. f[0] = << >> /\ \A i \in 1 .. n : f[i] = f[i - 1] \o parts[i]
  <2>1. \A i \in 1 .. n : f[i - 1] \in Seq(S)
    BY <1>4
  <2> QED BY <1>4, <2>1
<1> HIDE DEF step
<1>6. CASE n = 0
  <2>1. FlattenSeq(parts) = parts /\ parts = << >>
    BY <1>1, <1>6 DEF FlattenSeq
  <2> QED BY <1>4, <1>5, <1>6, <2>1
<1>7. CASE n # 0
  <2> DEFINE flat == CHOOSE s : s = [i \in 1 .. n |->
                        IF i = 1 THEN parts[i] ELSE s[i - 1] \o parts[i]]
  <2>1. FlattenSeq(parts) = flat[n]
    BY <1>1, <1>7 DEF FlattenSeq
  <2>2. f[1] = parts[1]
    <3>1. 1 \in 1 .. n /\ 1 - 1 = 0
      BY <1>7
    <3>2. f[1] = << >> \o parts[1] /\ parts[1] \in Seq(S)
      BY <1>5, <3>1
    <3> QED BY <3>2
  <2>3. [i \in 1 .. n |-> f[i]]
          = [i \in 1 .. n |-> IF i = 1 THEN parts[i]
                              ELSE [j \in 1 .. n |-> f[j]][i - 1] \o parts[i]]
    <3>1. \A i \in 1 .. n : i # 1 => i - 1 \in 1 .. n
      OBVIOUS
    <3>2. \A i \in 1 .. n : i # 1 => [j \in 1 .. n |-> f[j]][i - 1] = f[i - 1]
      BY <3>1
    <3>3. \A i \in 1 .. n : i # 1 => f[i] = [j \in 1 .. n |-> f[j]][i - 1] \o parts[i]
      BY <1>5, <3>2
    <3> QED BY <2>2, <3>3
  <2>4. flat = [i \in 1 .. n |-> IF i = 1 THEN parts[i] ELSE flat[i - 1] \o parts[i]]
    BY <2>3
  <2> HIDE DEF flat
  <2>5. \A i \in 1 .. n : flat[i] = IF i = 1 THEN parts[i] ELSE flat[i - 1] \o parts[i]
    BY <2>4
  <2> DEFINE T == {i \in 0 .. n : i # 0 => flat[i] = f[i]}
  <2>6. 0 \in T
    OBVIOUS
  <2>7. ASSUME NEW i \in 1 .. n, i - 1 \in T
        PROVE  i \in T
    <3>1. CASE i = 1
      BY <2>2, <2>5, <3>1
    <3>2. CASE i # 1
      <4>1. i - 1 # 0 /\ flat[i - 1] = f[i - 1]
        BY <2>7, <3>2
      <4>2. flat[i] = flat[i - 1] \o parts[i] /\ f[i] = f[i - 1] \o parts[i]
        BY <1>5, <2>5, <3>2
      <4>3. flat[i] = f[i]
        BY <4>1, <4>2
      <4> QED BY <4>3
    <3> QED BY <3>1, <3>2
  <2>8. n \in T
    <3> HIDE DEF T
    <3>1. \A i \in 1 .. n : i - 1 \in T => i \in T
      BY <2>7
    <3>2. \A i \in 0 .. n : i \in T
      BY <2>6, <3>1, UpTo
    <3> QED BY <3>2
  <2> QED BY <1>4, <1>5, <1>7, <2>1, <2>8
<1> QED BY <1>6, <1>7

LEMMA FlattenSeqIs ==
    ASSUME NEW S, NEW n \in Nat, NEW parts \in [1 .. n -> Seq(S)]
    PROVE  /\ FlattenSeq(parts) \in Seq(S)
           /\ Range(FlattenSeq(parts)) = UNION {Range(parts[i]) : i \in 1 .. n}
<1>1. PICK f \in [0 .. n -> Seq(S)] :
        /\ f[0] = << >>
        /\ \A i \in 1 .. n : f[i] = f[i - 1] \o parts[i]
        /\ FlattenSeq(parts) = f[n]
  BY FlattenSeqSteps
<1> DEFINE T == {k \in 0 .. n : Range(f[k]) = UNION {Range(parts[j]) : j \in 1 .. k}}
<1>2. 0 \in T
  <2>1. Range(f[0]) = {}
    BY <1>1 DEF Range
  <2>2. 1 .. 0 = {}
    OBVIOUS
  <2> QED BY <2>1, <2>2
<1>3. ASSUME NEW i \in 1 .. n, i - 1 \in T
      PROVE  i \in T
  <2>1. /\ f[i] = f[i - 1] \o parts[i]
        /\ f[i - 1] \in Seq(S) /\ parts[i] \in Seq(S)
    <3>1. i - 1 \in 0 .. n
      OBVIOUS
    <3> QED BY <1>1, <3>1
  <2>2. Range(f[i]) = Range(f[i - 1]) \cup Range(parts[i])
    BY <2>1, RangeConcatenation
  <2>3. 1 .. i = (1 .. i - 1) \cup {i}
    OBVIOUS
  <2>4. UNION {Range(parts[j]) : j \in 1 .. i}
          = (UNION {Range(parts[j]) : j \in 1 .. i - 1}) \cup Range(parts[i])
    BY <2>3
  <2>5. Range(f[i - 1]) = UNION {Range(parts[j]) : j \in 1 .. i - 1}
    BY <1>3
  <2>6. Range(f[i]) = UNION {Range(parts[j]) : j \in 1 .. i}
    BY <2>2, <2>4, <2>5
  <2>7. i \in 0 .. n
    OBVIOUS
  <2> QED BY <2>6, <2>7, Zenon
<1>4. n \in T
  <2> HIDE DEF T
  <2>1. \A i \in 1 .. n : i - 1 \in T => i \in T
    BY <1>3
  <2>2. \A i \in 0 .. n : i \in T
    BY <1>2, <2>1, UpTo
  <2> QED BY <2>2
<1> QED BY <1>1, <1>4

-----------------------------------------------------------------------------
(* Byte ranges, and the bytes in them.                                     *)

Ranges == [struct_offset : Nat, wire_offset : Nat, count : Nat]

(* A byte moved: its offsets in the object and in the buffer.              *)
ByteMoves == [memory : Nat, wire : Nat]

BytesIn(r) ==
    {[memory |-> r.struct_offset + k, wire |-> r.wire_offset + k] : k \in 0 .. r.count - 1}

BytesOf(ranges) == UNION {BytesIn(ranges[i]) : i \in DOMAIN ranges}

LEMMA MergedBytes ==
    ASSUME NEW last \in Ranges, NEW r \in Ranges, Continues(r, last)
    PROVE  /\ [last EXCEPT !.count = @ + r.count] \in Ranges
           /\ BytesIn([last EXCEPT !.count = @ + r.count]) = BytesIn(last) \cup BytesIn(r)
<1> DEFINE both == [last EXCEPT !.count = @ + r.count]
           byte(a, k) == [memory |-> a.struct_offset + k, wire |-> a.wire_offset + k]
<1>1. /\ both.struct_offset = last.struct_offset /\ both.wire_offset = last.wire_offset
      /\ both.count = last.count + r.count
      /\ last.count \in Nat /\ r.count \in Nat
      /\ last.struct_offset \in Nat /\ last.wire_offset \in Nat
      /\ r.struct_offset = last.struct_offset + last.count
      /\ r.wire_offset = last.wire_offset + last.count
  BY DEF Ranges, Continues
<1>01. both \in Ranges
  BY DEF Ranges
<1>2. ASSUME NEW k \in 0 .. both.count - 1
      PROVE  \/ k \in 0 .. last.count - 1 /\ byte(both, k) = byte(last, k)
             \/ /\ k - last.count \in 0 .. r.count - 1
                /\ byte(both, k) = byte(r, k - last.count)
  <2> HIDE DEF both
  <2> QED BY <1>1
<1>3. ASSUME NEW k \in 0 .. last.count - 1
      PROVE  k \in 0 .. both.count - 1 /\ byte(both, k) = byte(last, k)
  <2> HIDE DEF both
  <2> QED BY <1>1
<1>4. ASSUME NEW k \in 0 .. r.count - 1
      PROVE  /\ last.count + k \in 0 .. both.count - 1
             /\ byte(both, last.count + k) = byte(r, k)
  <2> HIDE DEF both
  <2> QED BY <1>1
<1>5. /\ BytesIn(both) = {byte(both, k) : k \in 0 .. both.count - 1}
      /\ BytesIn(last) = {byte(last, k) : k \in 0 .. last.count - 1}
      /\ BytesIn(r) = {byte(r, k) : k \in 0 .. r.count - 1}
  BY DEF BytesIn
<1> HIDE DEF both, byte
<1>6. BytesIn(both) = BytesIn(last) \cup BytesIn(r)
  BY <1>2, <1>3, <1>4, <1>5
<1> QED BY <1>01, <1>6 DEF both

LEMMA CompressedBytes ==
    ASSUME NEW ranges \in Seq(Ranges), NEW r \in Ranges
    PROVE  /\ Compressed(ranges, r) \in Seq(Ranges)
           /\ BytesOf(Compressed(ranges, r)) = BytesOf(ranges) \cup BytesIn(r)
<1> DEFINE n == Len(ranges)
<1>1. CASE n > 0 /\ Continues(r, ranges[n])
  <2> DEFINE merged == [ranges[n] EXCEPT !.count = @ + r.count]
  <2>1. Compressed(ranges, r) = [ranges EXCEPT ![n] = merged]
    BY <1>1 DEF Compressed
  <2>2. n \in 1 .. Len(ranges) /\ ranges[n] \in Ranges
    BY <1>1
  <2>3. merged \in Ranges /\ BytesIn(merged) = BytesIn(ranges[n]) \cup BytesIn(r)
    BY <1>1, <2>2, MergedBytes
  <2> HIDE DEF merged
  <2>5. Compressed(ranges, r) \in Seq(Ranges)
    <3>1. ranges \in [1 .. n -> Ranges] /\ n \in Nat
      OBVIOUS
    <3> HIDE DEF n
    <3>2. [ranges EXCEPT ![n] = merged] \in [1 .. n -> Ranges]
      BY <2>3, <3>1
    <3> QED BY <2>1, <3>1, <3>2
  <2>6. /\ DOMAIN Compressed(ranges, r) = DOMAIN ranges /\ n \in DOMAIN ranges
        /\ \A i \in DOMAIN ranges :
              Compressed(ranges, r)[i] = IF i = n THEN merged ELSE ranges[i]
    BY <2>1, <2>2
  <2>7. BytesOf(Compressed(ranges, r)) = BytesOf(ranges) \cup BytesIn(r)
    <3>1. \A b : b \in BytesOf(Compressed(ranges, r))
                  <=> \E i \in DOMAIN ranges : b \in BytesIn(IF i = n THEN merged ELSE ranges[i])
      <4> HIDE DEF n
      <4> QED BY <2>6 DEF BytesOf
    <3>2. \A b : b \in BytesOf(ranges) <=> \E i \in DOMAIN ranges : b \in BytesIn(ranges[i])
      BY DEF BytesOf
    <3> HIDE DEF n
    <3> QED BY <2>3, <2>6, <3>1, <3>2
  <2> QED BY <2>5, <2>7
<1>2. CASE ~(n > 0 /\ Continues(r, ranges[n]))
  <2>1. Compressed(ranges, r) = Append(ranges, r)
    BY <1>2 DEF Compressed
  <2>2. Append(ranges, r) \in Seq(Ranges)
    OBVIOUS
  <2>3. /\ DOMAIN Append(ranges, r) = DOMAIN ranges \cup {n + 1}
        /\ \A i \in DOMAIN ranges : Append(ranges, r)[i] = ranges[i]
        /\ Append(ranges, r)[n + 1] = r
    OBVIOUS
  <2>4. BytesOf(Append(ranges, r)) = BytesOf(ranges) \cup BytesIn(r)
    <3>1. \A b : b \in BytesOf(Append(ranges, r))
                  <=> \E i \in DOMAIN Append(ranges, r) : b \in BytesIn(Append(ranges, r)[i])
      BY DEF BytesOf
    <3>2. \A b : b \in BytesOf(ranges) <=> \E i \in DOMAIN ranges : b \in BytesIn(ranges[i])
      BY DEF BytesOf
    <3>3. \A b : (\E i \in DOMAIN Append(ranges, r) : b \in BytesIn(Append(ranges, r)[i]))
                  <=> \/ \E i \in DOMAIN ranges : b \in BytesIn(ranges[i])
                      \/ b \in BytesIn(r)
      BY <2>3, Zenon
    <3> QED BY <3>1, <3>2, <3>3
  <2> QED BY <2>1, <2>2, <2>4
<1> QED BY <1>1, <1>2

(* Merging ranges loses and adds no byte.                                  *)
LEMMA CompressLayoutKeepsBytes ==
    ASSUME NEW ranges \in Seq(Ranges)
    PROVE  /\ CompressLayout(ranges) \in Seq(Ranges)
           /\ BytesOf(CompressLayout(ranges)) = BytesOf(ranges)
<1> DEFINE n == Len(ranges)
           step == [i \in 1 .. n |-> [s \in Seq(Ranges) |-> Compressed(s, ranges[i])]]
<1>1. n \in Nat /\ DOMAIN ranges = 1 .. n /\ \A i \in 1 .. n : ranges[i] \in Ranges
  OBVIOUS
<1> HIDE DEF n
<1>2. \A i \in 1 .. n : \A s \in Seq(Ranges) : Compressed(s, ranges[i]) \in Seq(Ranges)
  BY <1>1, CompressedBytes
<1>3. Iterable(Seq(Ranges), << >>, n, step)
  BY <1>1, <1>2 DEF Iterable
<1>4. PICK f : Iterated(Seq(Ranges), << >>, n, step, f)
  <2> HIDE DEF step
  <2> QED BY <1>3, Iterate
<1>5. f \in [0 .. n -> Seq(Ranges)] /\ f[0] = << >>
  BY <1>4 DEF Iterated
<1>6. \A i \in 1 .. n : f[i] = Compressed(f[i - 1], ranges[i])
  <2>1. \A i \in 1 .. n : f[i] = step[i][f[i - 1]]
    <3> HIDE DEF step
    <3> QED BY <1>4 DEF Iterated
  <2>2. \A i \in 1 .. n : f[i - 1] \in Seq(Ranges)
    BY <1>1, <1>5
  <2> QED BY <2>1, <2>2
<1> HIDE DEF step
<1> DEFINE done == CHOOSE d : d = [i \in 0 .. n |->
                      IF i = 0 THEN << >> ELSE Compressed(d[i - 1], ranges[i])]
<1>7. CompressLayout(ranges) = done[n]
  BY DEF CompressLayout, n
<1>8. f = [i \in 0 .. n |-> IF i = 0 THEN << >> ELSE Compressed(f[i - 1], ranges[i])]
  BY <1>1, <1>5, <1>6
<1>9. done = [i \in 0 .. n |-> IF i = 0 THEN << >> ELSE Compressed(done[i - 1], ranges[i])]
  BY <1>8
<1> HIDE DEF done
<1>10. done[0] = << >> /\ \A i \in 1 .. n : done[i] = Compressed(done[i - 1], ranges[i])
  <2>1. \A i \in 0 .. n : done[i] = IF i = 0 THEN << >> ELSE Compressed(done[i - 1], ranges[i])
    BY <1>9
  <2> QED BY <1>1, <2>1
<1> DEFINE first(i) == UNION {BytesIn(ranges[j]) : j \in 1 .. i}
           T == {i \in 0 .. n : done[i] \in Seq(Ranges) /\ BytesOf(done[i]) = first(i)}
<1>11. 0 \in T
  <2>1. BytesOf(<< >>) = {} /\ first(0) = {} /\ << >> \in Seq(Ranges)
    BY DEF BytesOf
  <2>2. 0 \in 0 .. n
    BY <1>1
  <2> HIDE DEF first
  <2> QED BY <1>10, <2>1, <2>2
<1>12. ASSUME NEW i \in 1 .. n, i - 1 \in T
       PROVE  i \in T
  <2>1. /\ done[i] \in Seq(Ranges)
        /\ BytesOf(done[i]) = first(i - 1) \cup BytesIn(ranges[i])
    <3> HIDE DEF first
    <3> QED BY <1>1, <1>10, <1>12, CompressedBytes
  <2>2. first(i) = first(i - 1) \cup BytesIn(ranges[i])
    <3>1. 1 .. i = (1 .. i - 1) \cup {i}
      BY <1>1
    <3> QED BY <3>1
  <2>3. i \in 0 .. n
    BY <1>1
  <2> HIDE DEF first
  <2> QED BY <2>1, <2>2, <2>3
<1>13. \A i \in 0 .. n : i \in T
  <2> HIDE DEF T
  <2>1. \A i \in 1 .. n : i - 1 \in T => i \in T
    BY <1>12
  <2> QED BY <1>1, <1>11, <2>1, UpTo
<1>14. n \in T
  <2> HIDE DEF T
  <2> QED BY <1>1, <1>13
<1>15. first(n) = BytesOf(ranges)
  BY <1>1 DEF BytesOf
<1> HIDE DEF first
<1> QED BY <1>7, <1>14, <1>15

LEMMA FlatMovesAre ==
    ASSUME NEW t \in Types, Enumerate[t] \in Seq(Ranges)
    PROVE  /\ FlatMoves(t) \in Seq(ByteMoves)
           /\ Range(FlatMoves(t)) = BytesOf(Enumerate[t])
<1> DEFINE layout == ByteLayoutOf(t)
           n == Len(layout)
           move(r, k) == [memory |-> r.struct_offset + k - 1, wire |-> r.wire_offset + k - 1]
           moves == [i \in DOMAIN layout |-> LET r == layout[i]
                                             IN  [k \in 1 .. r.count |-> move(r, k)]]
<1>1. layout \in Seq(Ranges) /\ BytesOf(layout) = BytesOf(Enumerate[t])
  BY CompressLayoutKeepsBytes DEF ByteLayoutOf
<1>2. FlatMoves(t) = FlattenSeq(moves)
  BY DEF FlatMoves
<1> HIDE DEF layout
<1>3. n \in Nat /\ DOMAIN layout = 1 .. n /\ \A i \in 1 .. n : layout[i] \in Ranges
  BY <1>1
<1> HIDE DEF n
<1>4. ASSUME NEW i \in 1 .. n
      PROVE  /\ moves[i] \in Seq(ByteMoves)
             /\ Range(moves[i]) = BytesIn(layout[i])
  <2> DEFINE r == layout[i]
  <2>1. r.struct_offset \in Nat /\ r.wire_offset \in Nat /\ r.count \in Nat
    BY <1>3 DEF Ranges
  <2>2. moves[i] = [k \in 1 .. r.count |-> move(r, k)]
    BY <1>3
  <2> HIDE DEF r, moves
  <2>3. \A k \in 1 .. r.count : move(r, k) \in ByteMoves
    BY <2>1 DEF ByteMoves
  <2>4. moves[i] \in Seq(ByteMoves)
    BY <2>1, <2>2, <2>3
  <2>5. Range(moves[i]) = {move(r, k) : k \in 1 .. r.count}
    BY <2>2 DEF Range
  <2>6. ASSUME NEW k \in 1 .. r.count
        PROVE  k - 1 \in 0 .. r.count - 1
               /\ move(r, k) = [memory |-> r.struct_offset + (k - 1), wire |-> r.wire_offset + (k - 1)]
    BY <2>1
  <2>7. ASSUME NEW k \in 0 .. r.count - 1
        PROVE  k + 1 \in 1 .. r.count
               /\ move(r, k + 1) = [memory |-> r.struct_offset + k, wire |-> r.wire_offset + k]
    BY <2>1
  <2>8. {move(r, k) : k \in 1 .. r.count} = BytesIn(r)
    <3> HIDE DEF move
    <3> QED BY <2>6, <2>7 DEF BytesIn
  <2> QED BY <2>4, <2>5, <2>8 DEF r
<1>5. moves \in [1 .. n -> Seq(ByteMoves)]
  <2>1. DOMAIN moves = 1 .. n /\ moves = [i \in 1 .. n |-> moves[i]]
    BY <1>3
  <2> HIDE DEF moves
  <2> QED BY <1>4, <2>1
<1> HIDE DEF moves
<1>6. /\ FlattenSeq(moves) \in Seq(ByteMoves)
      /\ Range(FlattenSeq(moves)) = UNION {Range(moves[i]) : i \in 1 .. n}
  BY <1>3, <1>5, FlattenSeqIs
<1>7. UNION {Range(moves[i]) : i \in 1 .. n} = BytesOf(layout)
  <2>1. BytesOf(layout) = UNION {BytesIn(layout[i]) : i \in 1 .. n}
    BY <1>3 DEF BytesOf
  <2> QED BY <1>4, <2>1
<1> QED BY <1>1, <1>2, <1>6, <1>7

-----------------------------------------------------------------------------
(* What the functions over types are for each kind of type.                *)

LEMMA TypeParts ==
    ASSUME NEW t \in Types
    PROVE  /\ t.kind \in {"scalar", "container", "aggregate"} /\ t.size \in Nat
           /\ t.kind = "scalar" => t.size > 0 /\ t.pointer \in BOOLEAN
           /\ t.kind = "container" =>
                 /\ t.value_type \in PartTypes(t) /\ t.value_type \in Types
                 /\ t.length \in Nat /\ t.value_type.size \in Nat
                 /\ t.length * t.value_type.size <= t.size
           /\ t.kind = "aggregate" =>
                 /\ Len(t.members) \in Nat /\ DOMAIN t.members = 1 .. Len(t.members)
                 /\ \A i \in 1 .. Len(t.members) :
                       /\ t.members[i].type \in PartTypes(t) /\ t.members[i].type \in Types
                       /\ t.members[i].type.size \in Nat
                       /\ t.members[i].offset_of \in Nat /\ t.members[i].offset \in Nat
                       /\ t.members[i].offset_of <= t.members[i].offset
                       /\ t.members[i].offset + t.members[i].type.size <= t.size
<1>1. t.kind \in {"scalar", "container", "aggregate"} /\ t.size \in Nat
  BY TypesAssumption DEF LaidOut
<1>2. t.kind = "scalar" => t.size > 0 /\ t.pointer \in BOOLEAN
  BY TypesAssumption DEF LaidOut
<1>3. \A p \in PartTypes(t) : p \in Types /\ p.size \in Nat
  BY TypesAssumption DEF LaidOut
<1>4. CASE t.kind = "container"
  <2>1. PartTypes(t) = {t.value_type}
    BY <1>4 DEF PartTypes
  <2>2. t.length \in Nat /\ t.length * t.value_type.size <= t.size
    BY <1>4, TypesAssumption DEF LaidOut
  <2> QED BY <1>1, <1>3, <1>4, <2>1, <2>2
<1>5. CASE t.kind = "aggregate"
  <2>1. PartTypes(t) = {t.members[i].type : i \in DOMAIN t.members}
    BY <1>5 DEF PartTypes
  <2>2. /\ t.members \in Seq(DataMembers)
        /\ \A i \in DOMAIN t.members :
              /\ t.members[i].offset_of <= t.members[i].offset
              /\ t.members[i].offset + t.members[i].type.size <= t.size
    BY <1>5, TypesAssumption DEF LaidOut
  <2>3. \A i \in DOMAIN t.members : t.members[i] \in DataMembers
    BY <2>2
  <2>4. \A i \in DOMAIN t.members :
           t.members[i].offset_of \in Nat /\ t.members[i].offset \in Nat
    BY <2>3 DEF DataMembers
  <2>5. Len(t.members) \in Nat /\ DOMAIN t.members = 1 .. Len(t.members)
    BY <2>2
  <2>6. \A i \in 1 .. Len(t.members) : t.members[i].type \in PartTypes(t)
    BY <2>1, <2>5
  <2> QED BY <1>1, <1>3, <1>5, <2>2, <2>4, <2>5, <2>6
<1> QED BY <1>1, <1>2, <1>4, <1>5

(* The room the members of an aggregate take up in the buffer.             *)
MemberSizes(t) ==
    [i \in DOMAIN t.members |->
        IF NonSkipped(t.members[i]) THEN RawSize[t.members[i].type] ELSE 0]

LEMMA RawSizeIs ==
    /\ \A t \in Types : RawSize[t] \in Nat
    /\ \A t \in Types :
          /\ t.kind = "scalar" => RawSize[t] = t.size
          /\ t.kind = "container" => RawSize[t] = t.length * RawSize[t.value_type]
          /\ t.kind = "aggregate" => RawSize[t] = Total(MemberSizes(t), Len(t.members))
<1> DEFINE sizes(g, t) == [i \in DOMAIN t.members |->
                             IF NonSkipped(t.members[i]) THEN g[t.members[i].type] ELSE 0]
           body(g, t) == CASE t.kind = "scalar" -> t.size
                           [] t.kind = "container" -> t.length * g[t.value_type]
                           [] t.kind = "aggregate" -> Total(sizes(g, t), Len(t.members))
           step == [t \in Types |-> [g \in [Types -> Nat] |-> body(g, t)]]
<1>1. ASSUME NEW t \in Types, NEW g, \A p \in PartTypes(t) : g[p] \in Nat
      PROVE  body(g, t) \in Nat
  <2>1. CASE t.kind = "scalar"
    BY <2>1, TypeParts
  <2>2. CASE t.kind = "container"
    <3>1. t.length \in Nat /\ g[t.value_type] \in Nat
      BY <1>1, <2>2, TypeParts
    <3> QED BY <2>2, <3>1
  <2>3. CASE t.kind = "aggregate"
    <3>1. sizes(g, t) \in [1 .. Len(t.members) -> Nat] /\ Len(t.members) \in Nat
      BY <1>1, <2>3, TypeParts
    <3>2. Total(sizes(g, t), Len(t.members)) \in Nat
      <4> HIDE DEF sizes
      <4> QED BY <3>1, TotalSteps
    <3> QED BY <2>3, <3>2
  <2> QED BY <2>1, <2>2, <2>3, TypeParts
<1>2. ASSUME NEW t \in Types, NEW f, NEW g, \A p \in PartTypes(t) : f[p] = g[p]
      PROVE  body(f, t) = body(g, t)
  <2>1. CASE t.kind = "scalar"
    BY <2>1
  <2>2. CASE t.kind = "container"
    BY <1>2, <2>2, TypeParts
  <2>3. CASE t.kind = "aggregate"
    <3>1. sizes(f, t) = sizes(g, t)
      BY <1>2, <2>3, TypeParts
    <3> HIDE DEF sizes
    <3> QED BY <2>3, <3>1
  <2> QED BY <2>1, <2>2, <2>3, TypeParts
<1> HIDE DEF body
<1>3. TypeSteps(Nat, step)
  <2>1. \A t \in Types : \A g \in [Types -> Nat] : body(g, t) \in Nat
    BY <1>1, TypesAssumption DEF LaidOut
  <2>2. step \in [Types -> [[Types -> Nat] -> Nat]]
    BY <2>1
  <2>3. LooksAtParts(Nat, step)
    BY <1>2 DEF LooksAtParts
  <2> HIDE DEF step
  <2>4. Nat # {}
    OBVIOUS
  <2> QED BY <2>2, <2>3, <2>4 DEF TypeSteps
<1>4. PICK f : Computed(Nat, step, f)
  <2> HIDE DEF step
  <2> QED BY <1>3, TypeRecursion
<1>5. f = [t \in Types |-> body(f, t)]
  BY <1>4 DEF Computed
<1>6. RawSize = [t \in Types |-> body(RawSize, t)]
  BY <1>5 DEF RawSize, body
<1>7. \A t \in Types : RawSize[t] = body(RawSize, t)
  BY <1>6
<1> DEFINE T == {t \in Types : RawSize[t] \in Nat}
<1>8. ASSUME NEW t \in Types, \A p \in PartTypes(t) : p \in T
      PROVE  t \in T
  BY <1>1, <1>7, <1>8
<1>9. \A t \in Types : t \in T
  <2> HIDE DEF T
  <2> QED BY <1>8, TypeInduction
<1>10. ASSUME NEW t \in Types
       PROVE  /\ t.kind = "scalar" => RawSize[t] = t.size
              /\ t.kind = "container" => RawSize[t] = t.length * RawSize[t.value_type]
              /\ t.kind = "aggregate" => RawSize[t] = Total(MemberSizes(t), Len(t.members))
  BY <1>7 DEF body, MemberSizes
<1> QED BY <1>9, <1>10

LEMMA MemberSizesAre ==
    ASSUME NEW t \in Types, t.kind = "aggregate"
    PROVE  /\ Len(t.members) \in Nat /\ DOMAIN t.members = 1 .. Len(t.members)
           /\ MemberSizes(t) \in [1 .. Len(t.members) -> Nat]
           /\ \A i \in 1 .. Len(t.members) :
                 MemberSizes(t)[i] = IF NonSkipped(t.members[i])
                                     THEN RawSize[t.members[i].type] ELSE 0
<1>1. /\ Len(t.members) \in Nat /\ DOMAIN t.members = 1 .. Len(t.members)
      /\ \A i \in 1 .. Len(t.members) : t.members[i].type \in Types
  BY TypeParts
<1>2. \A i \in 1 .. Len(t.members) : RawSize[t.members[i].type] \in Nat
  BY <1>1, RawSizeIs
<1> QED BY <1>1, <1>2 DEF MemberSizes

(* In the buffer the members of an aggregate lie one behind the other.     *)
LEMMA WireBeforeIs ==
    ASSUME NEW t \in Types, t.kind = "aggregate"
    PROVE  /\ \A j \in 1 .. Len(t.members) :
                 /\ WireBefore(t, j) \in Nat
                 /\ WireBefore(t, j) + MemberSizes(t)[j] <= RawSize[t]
           /\ \A i, j \in 1 .. Len(t.members) :
                 i < j => WireBefore(t, i) + MemberSizes(t)[i] <= WireBefore(t, j)
<1> DEFINE n == Len(t.members)
           sizes == MemberSizes(t)
<1>1. n \in Nat /\ sizes \in [1 .. n -> Nat]
  BY MemberSizesAre
<1>2. RawSize[t] = Total(sizes, n)
  BY RawSizeIs
<1>3. \A j \in 1 .. n : WireBefore(t, j) = Total(sizes, j - 1)
  BY DEF WireBefore, MemberSizes
<1> HIDE DEF n, sizes
<1>4. \A j \in 0 .. n : Total(sizes, j) \in Nat
  BY <1>1, TotalSteps
<1>5. \A j \in 1 .. n : Total(sizes, j) = Total(sizes, j - 1) + sizes[j]
  BY <1>1, TotalSteps
<1>6. ASSUME NEW i \in 0 .. n, NEW j \in 0 .. n, i <= j
      PROVE  Total(sizes, i) <= Total(sizes, j)
  <2>1. i \in 0 .. j
    BY <1>1, <1>6
  <2> QED BY <1>1, <2>1, TotalGrows
<1>7. ASSUME NEW j \in 1 .. n
      PROVE  /\ WireBefore(t, j) \in Nat
             /\ WireBefore(t, j) + sizes[j] <= RawSize[t]
  <2>1. j - 1 \in 0 .. n /\ j \in 0 .. n /\ n \in 0 .. n /\ j <= n
    BY <1>1
  <2> QED BY <1>2, <1>3, <1>4, <1>5, <1>6, <2>1
<1>8. ASSUME NEW i \in 1 .. n, NEW j \in 1 .. n, i < j
      PROVE  WireBefore(t, i) + sizes[i] <= WireBefore(t, j)
  <2>1. i \in 0 .. n /\ j - 1 \in 0 .. n /\ i <= j - 1
    BY <1>1, <1>8
  <2> QED BY <1>3, <1>5, <1>6, <2>1
<1> QED BY <1>7, <1>8 DEF n, sizes

(* The bytes moved for a part, in the object it is part of.                *)
ShiftedMoves(moves, memory, wire_offset) ==
    {[memory |-> memory + m.memory, wire |-> wire_offset + m.wire] : m \in moves}

LEMMA PlacedIs ==
    ASSUME NEW ranges \in Seq(Ranges), NEW a \in Nat, NEW b \in Nat
    PROVE  /\ Placed(ranges, a, b) \in Seq(Ranges)
           /\ BytesOf(Placed(ranges, a, b)) = ShiftedMoves(BytesOf(ranges), a, b)
<1> DEFINE placed(r) == [struct_offset |-> a + r.struct_offset,
                         wire_offset |-> b + r.wire_offset, count |-> r.count]
<1>1. Placed(ranges, a, b) = [i \in DOMAIN ranges |-> placed(ranges[i])]
  BY DEF Placed
<1>2. \A r \in Ranges : placed(r) \in Ranges
  BY DEF Ranges
<1>3. \A i \in DOMAIN ranges : ranges[i] \in Ranges
  OBVIOUS
<1>4. ASSUME NEW r \in Ranges
      PROVE  BytesIn(placed(r)) = ShiftedMoves(BytesIn(r), a, b)
  <2>1. r.struct_offset \in Nat /\ r.wire_offset \in Nat /\ r.count \in Nat
    BY DEF Ranges
  <2> DEFINE byte(k) == [memory |-> r.struct_offset + k, wire |-> r.wire_offset + k]
             shifted(k) == [memory |-> (a + r.struct_offset) + k, wire |-> (b + r.wire_offset) + k]
  <2>2. \A k \in 0 .. r.count - 1 :
           shifted(k) = [memory |-> a + byte(k).memory, wire |-> b + byte(k).wire]
    BY <2>1
  <2>3. BytesIn(placed(r)) = {shifted(k) : k \in 0 .. r.count - 1}
    BY DEF BytesIn
  <2>4. BytesIn(r) = {byte(k) : k \in 0 .. r.count - 1}
    BY DEF BytesIn
  <2> HIDE DEF byte, shifted
  <2> QED BY <2>2, <2>3, <2>4 DEF ShiftedMoves
<1> HIDE DEF placed
<1>5. Placed(ranges, a, b) \in Seq(Ranges)
  <2>1. ranges \in [1 .. Len(ranges) -> Ranges] /\ Len(ranges) \in Nat
    OBVIOUS
  <2>2. Placed(ranges, a, b) \in [1 .. Len(ranges) -> Ranges]
    BY <1>1, <1>2, <2>1
  <2> QED BY <2>1, <2>2
<1>6. BytesOf(Placed(ranges, a, b)) = UNION {BytesIn(placed(ranges[i])) : i \in DOMAIN ranges}
  BY <1>1 DEF BytesOf
<1>7. UNION {ShiftedMoves(BytesIn(ranges[i]), a, b) : i \in DOMAIN ranges}
        = ShiftedMoves(UNION {BytesIn(ranges[i]) : i \in DOMAIN ranges}, a, b)
  BY DEF ShiftedMoves
<1>8. BytesOf(Placed(ranges, a, b)) = UNION {ShiftedMoves(BytesIn(ranges[i]), a, b) : i \in DOMAIN ranges}
  BY <1>3, <1>4, <1>6
<1> QED BY <1>5, <1>7, <1>8 DEF BytesOf

LEMMA MovedIs ==
    ASSUME NEW moves \in Seq(ByteMoves), NEW a \in Nat, NEW b \in Nat
    PROVE  /\ Moved(moves, a, b) \in Seq(ByteMoves)
           /\ Range(Moved(moves, a, b)) = ShiftedMoves(Range(moves), a, b)
<1>1. moves \in [1 .. Len(moves) -> ByteMoves] /\ Len(moves) \in Nat
  OBVIOUS
<1>2. \A m \in ByteMoves : [memory |-> a + m.memory, wire |-> b + m.wire] \in ByteMoves
  BY DEF ByteMoves
<1>3. Moved(moves, a, b) \in [1 .. Len(moves) -> ByteMoves]
  BY <1>1, <1>2 DEF Moved
<1>4. Range(Moved(moves, a, b)) = ShiftedMoves(Range(moves), a, b)
  BY DEF Moved, Range, ShiftedMoves
<1> QED BY <1>1, <1>3, <1>4

(* The bytes of sequences of ranges put one behind the other.              *)
LEMMA FlattenedBytes ==
    ASSUME NEW n \in Nat, NEW parts \in [1 .. n -> Seq(Ranges)]
    PROVE  /\ FlattenSeq(parts) \in Seq(Ranges)
           /\ BytesOf(FlattenSeq(parts)) = UNION {BytesOf(parts[i]) : i \in 1 .. n}
<1>1. /\ FlattenSeq(parts) \in Seq(Ranges)
      /\ Range(FlattenSeq(parts)) = UNION {Range(parts[i]) : i \in 1 .. n}
  BY FlattenSeqIs
<1>2. \A s : BytesOf(s) = UNION {BytesIn(r) : r \in Range(s)}
  BY DEF BytesOf, Range
<1>3. BytesOf(FlattenSeq(parts))
        = UNION {BytesIn(r) : r \in UNION {Range(parts[i]) : i \in 1 .. n}}
  BY <1>1, <1>2
<1>4. UNION {BytesIn(r) : r \in UNION {Range(parts[i]) : i \in 1 .. n}}
        = UNION {UNION {BytesIn(r) : r \in Range(parts[i])} : i \in 1 .. n}
  OBVIOUS
<1> QED BY <1>1, <1>2, <1>3, <1>4

(* A stretch of bytes.                                                     *)
LEMMA Bytes ==
    ASSUME NEW first \in Nat, NEW count \in Nat
    PROVE  /\ IsFiniteSet(first .. first + count - 1)
           /\ Cardinality(first .. first + count - 1) = count
<1> DEFINE last == first + count - 1
<1>1. first \in Int /\ last \in Int /\ (first > last <=> count = 0) /\ last - first + 1 = count
  OBVIOUS
<1> HIDE DEF last
<1>2. /\ IsFiniteSet(first .. last)
      /\ Cardinality(first .. last) = IF first > last THEN 0 ELSE last - first + 1
  BY <1>1, FS_Interval
<1>3. IsFiniteSet(first .. last) /\ Cardinality(first .. last) = count
  BY <1>1, <1>2
<1> QED BY <1>3 DEF last

(* An object does not take up more room in the buffer than in memory.      *)
LEMMA RawSizeFits == \A t \in Types : RawSize[t] <= t.size
<1> DEFINE T == {t \in Types : RawSize[t] <= t.size}
<1>1. ASSUME NEW t \in Types, \A p \in PartTypes(t) : p \in T
      PROVE  RawSize[t] <= t.size
  <2>1. CASE t.kind = "scalar"
    BY <2>1, RawSizeIs, TypeParts
  <2>2. CASE t.kind = "container"
    <3> DEFINE l == t.length
               r == RawSize[t.value_type]
               s == t.value_type.size
    <3>1. l \in Nat /\ s \in Nat /\ r \in Nat /\ r <= s
      BY <1>1, <2>2, TypeParts, RawSizeIs
    <3>2. RawSize[t] = l * r /\ l * s <= t.size /\ t.size \in Nat
      BY <2>2, TypeParts, RawSizeIs
    <3> HIDE DEF l, r, s
    <3>3. l * r <= l * s
      BY <3>1
    <3>4. l * r \in Nat /\ l * s \in Nat
      BY <3>1
    <3> QED BY <3>2, <3>3, <3>4
  <2>3. CASE t.kind = "aggregate"
    <3> DEFINE n == Len(t.members)
               room(i) == t.members[i].offset .. t.members[i].offset + t.members[i].type.size - 1
               rooms(k) == UNION {room(i) : i \in 1 .. k}
               sizes == MemberSizes(t)
    <3>1. /\ n \in Nat /\ DOMAIN t.members = 1 .. n
          /\ \A i \in 1 .. n :
                /\ t.members[i].type \in PartTypes(t) /\ t.members[i].type \in Types
                /\ t.members[i].type.size \in Nat /\ t.members[i].offset \in Nat
                /\ t.members[i].offset + t.members[i].type.size <= t.size
      BY <2>3, TypeParts
    <3>2. \A i, j \in 1 .. n :
             i # j => \/ t.members[i].offset + t.members[i].type.size <= t.members[j].offset
                      \/ t.members[j].offset + t.members[j].type.size <= t.members[i].offset
      BY <2>3, <3>1, TypesAssumption DEF LaidOut
    <3>3. /\ sizes \in [1 .. n -> Nat]
          /\ \A i \in 1 .. n : sizes[i] <= t.members[i].type.size
      <4>1. \A i \in 1 .. n : RawSize[t.members[i].type] <= t.members[i].type.size
        BY <1>1, <3>1
      <4> QED BY <2>3, <3>1, <4>1, MemberSizesAre
    <3>4. \A i \in 1 .. n : /\ IsFiniteSet(room(i))
                            /\ Cardinality(room(i)) = t.members[i].type.size
      <4> SUFFICES ASSUME NEW i \in 1 .. n
                   PROVE  /\ IsFiniteSet(room(i))
                          /\ Cardinality(room(i)) = t.members[i].type.size
        OBVIOUS
      <4> DEFINE a == t.members[i].offset
                 b == t.members[i].type.size
      <4>1. a \in Nat /\ b \in Nat
        BY <3>1
      <4> HIDE DEF a, b
      <4>2. IsFiniteSet(a .. a + b - 1) /\ Cardinality(a .. a + b - 1) = b
        BY <4>1, Bytes
      <4> QED BY <4>2 DEF a, b
    <3>5. ASSUME NEW i \in 1 .. n, NEW j \in 1 .. n, i # j
          PROVE  room(i) \cap room(j) = {}
      <4> DEFINE a == t.members[i].offset
                 b == t.members[i].type.size
                 c == t.members[j].offset
                 d == t.members[j].type.size
      <4>1. a \in Nat /\ b \in Nat /\ c \in Nat /\ d \in Nat
        BY <3>1
      <4>2. a + b <= c \/ c + d <= a
        BY <3>2, <3>5
      <4>3. room(i) = a .. a + b - 1 /\ room(j) = c .. c + d - 1
        OBVIOUS
      <4> HIDE DEF a, b, c, d, room
      <4> QED BY <4>1, <4>2, <4>3
    <3>6. ASSUME NEW i \in 1 .. n
          PROVE  room(i) \subseteq 0 .. t.size - 1
      <4> DEFINE a == t.members[i].offset
                 b == t.members[i].type.size
      <4>1. a \in Nat /\ b \in Nat /\ t.size \in Nat /\ a + b <= t.size
        BY <3>1, TypeParts
      <4>3. room(i) = a .. a + b - 1
        OBVIOUS
      <4> HIDE DEF a, b, room
      <4> QED BY <4>1, <4>3
    <3> HIDE DEF n, room, sizes
    <3> DEFINE S == {k \in 0 .. n : /\ IsFiniteSet(rooms(k))
                                    /\ Total(sizes, k) <= Cardinality(rooms(k))}
    <3>7. 0 \in S
      <4>1. rooms(0) = {}
        OBVIOUS
      <4>2. IsFiniteSet(rooms(0)) /\ Cardinality(rooms(0)) = 0
        BY <4>1, FS_EmptySet
      <4>3. Total(sizes, 0) = 0 /\ 0 \in 0 .. n
        BY <3>1, <3>3, TotalSteps
      <4> HIDE DEF rooms
      <4> QED BY <4>2, <4>3
    <3>8. ASSUME NEW k \in 1 .. n, k - 1 \in S
          PROVE  k \in S
      <4>1. rooms(k) = rooms(k - 1) \cup room(k)
        <5>1. 1 .. k = (1 .. k - 1) \cup {k}
          BY <3>1
        <5> QED BY <5>1
      <4>2. rooms(k - 1) \cap room(k) = {}
        <5>1. \A i \in 1 .. k - 1 : i \in 1 .. n /\ i # k
          BY <3>1
        <5>2. \A i \in 1 .. k - 1 : room(i) \cap room(k) = {}
          BY <3>5, <5>1
        <5> QED BY <5>2
      <4> HIDE DEF rooms
      <4>3. IsFiniteSet(rooms(k - 1)) /\ Total(sizes, k - 1) <= Cardinality(rooms(k - 1))
        BY <3>8
      <4>5. Cardinality(rooms(k - 1)) \in Nat
        BY <4>3, FS_CardinalityType
      <4>4. /\ IsFiniteSet(rooms(k))
            /\ Cardinality(rooms(k)) = Cardinality(rooms(k - 1)) + Cardinality(room(k))
        <5>1. IsFiniteSet(room(k)) /\ Cardinality(room(k)) \in Nat
          BY <3>4, FS_CardinalityType
        <5>2. /\ IsFiniteSet(rooms(k))
              /\ Cardinality(rooms(k)) = Cardinality(rooms(k - 1)) + Cardinality(room(k))
                                         - Cardinality(rooms(k - 1) \cap room(k))
          BY <4>1, <4>3, <5>1, FS_Union
        <5>3. Cardinality(rooms(k - 1) \cap room(k)) = 0
          BY <4>2, FS_EmptySet
        <5> QED BY <4>5, <5>1, <5>2, <5>3
      <4>6. Total(sizes, k) = Total(sizes, k - 1) + sizes[k] /\ Total(sizes, k - 1) \in Nat
        <5>1. k - 1 \in 0 .. n
          BY <3>1
        <5> QED BY <3>1, <3>3, <5>1, TotalSteps
      <4>7. sizes[k] \in Nat /\ sizes[k] <= t.members[k].type.size /\ t.members[k].type.size \in Nat
        BY <3>1, <3>3
      <4>8. Total(sizes, k) <= Cardinality(rooms(k))
        BY <3>4, <4>3, <4>4, <4>5, <4>6, <4>7
      <4>9. k \in 0 .. n
        BY <3>1
      <4> QED BY <4>4, <4>8, <4>9
    <3>9. n \in S
      <4> HIDE DEF S
      <4>1. \A k \in 1 .. n : k - 1 \in S => k \in S
        BY <3>8
      <4>2. \A k \in 0 .. n : k \in S
        BY <3>1, <3>7, <4>1, UpTo
      <4> QED BY <3>1, <4>2
    <3>10. Cardinality(rooms(n)) <= t.size
      <4>1. rooms(n) \subseteq 0 .. t.size - 1
        BY <3>6
      <4>2. t.size \in Nat
        BY TypeParts
      <4>3. IsFiniteSet(0 .. t.size - 1) /\ Cardinality(0 .. t.size - 1) = t.size
        <5>1. 0 \in Nat /\ 0 + t.size - 1 = t.size - 1
          BY <4>2
        <5>2. IsFiniteSet(0 .. 0 + t.size - 1) /\ Cardinality(0 .. 0 + t.size - 1) = t.size
          BY <4>2, Bytes
        <5> QED BY <5>1, <5>2
      <4> HIDE DEF rooms
      <4> QED BY <4>1, <4>3, FS_Subset
    <3>11. RawSize[t] = Total(sizes, n)
      BY <2>3, RawSizeIs DEF n, sizes
    <3>12. Total(sizes, n) \in Nat /\ Cardinality(rooms(n)) \in Nat /\ t.size \in Nat
      <4> HIDE DEF rooms
      <4>1. IsFiniteSet(rooms(n))
        BY <3>9
      <4>2. n \in 0 .. n
        BY <3>1
      <4> QED BY <3>1, <3>3, <4>1, <4>2, TotalSteps, FS_CardinalityType, TypeParts
    <3> HIDE DEF rooms
    <3> QED BY <3>9, <3>10, <3>11, <3>12
  <2> QED BY <2>1, <2>2, <2>3, TypeParts
<1>2. \A t \in Types : t \in T
  <2> HIDE DEF T
  <2>1. \A t \in Types : (\A p \in PartTypes(t) : p \in T) => t \in T
    BY <1>1 DEF T
  <2> QED BY <2>1, TypeInduction
<1> QED BY <1>2

(* The bytes in the ranges of a type.                                      *)
FlatBytes(t) == BytesOf(Enumerate[t])

(* Members that are copied.                                                *)
Copies(t) == {j \in 1 .. Len(t.members) : Serializable(t.members[j])}

LEMMA EnumerateIs ==
    /\ \A t \in Types : Enumerate[t] \in Seq(Ranges)
    /\ \A t \in Types :
          /\ t.kind = "scalar" =>
                FlatBytes(t) = {[memory |-> k, wire |-> k] : k \in 0 .. t.size - 1}
          /\ t.kind = "container" =>
                FlatBytes(t) = UNION {ShiftedMoves(FlatBytes(t.value_type),
                                         t.value_type.size * (i - 1), t.value_type.size * (i - 1)) :
                                         i \in 1 .. t.length}
          /\ t.kind = "aggregate" =>
                FlatBytes(t) = UNION {ShiftedMoves(FlatBytes(t.members[j].type),
                                         t.members[j].offset_of, WireBefore(t, j)) :
                                         j \in Copies(t)}
<1> DEFINE element(g, t, i) == Placed(g[t.value_type], t.value_type.size * (i - 1),
                                      t.value_type.size * (i - 1))
           elements(g, t) == [i \in 1 .. t.length |-> element(g, t, i)]
           member(g, t, j) == IF Serializable(t.members[j])
                              THEN Placed(g[t.members[j].type], t.members[j].offset_of,
                                          WireBefore(t, j))
                              ELSE << >>
           members(g, t) == [j \in DOMAIN t.members |-> member(g, t, j)]
           body(g, t) ==
              CASE t.kind = "scalar" ->
                      <<[struct_offset |-> 0, wire_offset |-> 0, count |-> RawSize[t]]>>
                [] t.kind = "container" -> FlattenSeq(elements(g, t))
                [] t.kind = "aggregate" -> FlattenSeq(members(g, t))
           step == [t \in Types |-> [g \in [Types -> Seq(Ranges)] |-> body(g, t)]]
<1>1. ASSUME NEW t \in Types, t.kind = "container",
             NEW g, \A p \in PartTypes(t) : g[p] \in Seq(Ranges)
      PROVE  /\ t.length \in Nat /\ elements(g, t) \in [1 .. t.length -> Seq(Ranges)]
             /\ \A i \in 1 .. t.length :
                   BytesOf(elements(g, t)[i])
                     = ShiftedMoves(BytesOf(g[t.value_type]), t.value_type.size * (i - 1),
                                    t.value_type.size * (i - 1))
  <2>1. t.length \in Nat /\ t.value_type.size \in Nat /\ g[t.value_type] \in Seq(Ranges)
    BY <1>1, TypeParts
  <2>2. \A i \in 1 .. t.length : t.value_type.size * (i - 1) \in Nat
    BY <2>1
  <2>3. \A i \in 1 .. t.length :
           /\ element(g, t, i) \in Seq(Ranges)
           /\ BytesOf(element(g, t, i))
                = ShiftedMoves(BytesOf(g[t.value_type]), t.value_type.size * (i - 1),
                               t.value_type.size * (i - 1))
    BY <2>1, <2>2, PlacedIs
  <2> HIDE DEF element
  <2> QED BY <2>1, <2>3
<1>2. ASSUME NEW t \in Types, t.kind = "aggregate",
             NEW g, \A p \in PartTypes(t) : g[p] \in Seq(Ranges)
      PROVE  /\ Len(t.members) \in Nat
             /\ members(g, t) \in [1 .. Len(t.members) -> Seq(Ranges)]
             /\ \A j \in 1 .. Len(t.members) :
                   BytesOf(members(g, t)[j])
                     = IF j \in Copies(t)
                       THEN ShiftedMoves(BytesOf(g[t.members[j].type]), t.members[j].offset_of,
                                         WireBefore(t, j))
                       ELSE {}
  <2>1. Len(t.members) \in Nat /\ DOMAIN t.members = 1 .. Len(t.members)
    BY <1>2, TypeParts
  <2>2. ASSUME NEW j \in 1 .. Len(t.members)
        PROVE  /\ member(g, t, j) \in Seq(Ranges)
               /\ BytesOf(member(g, t, j))
                     = IF j \in Copies(t)
                       THEN ShiftedMoves(BytesOf(g[t.members[j].type]), t.members[j].offset_of,
                                         WireBefore(t, j))
                       ELSE {}
    <3>1. g[t.members[j].type] \in Seq(Ranges) /\ t.members[j].offset_of \in Nat
      BY <1>2, TypeParts
    <3>2. WireBefore(t, j) \in Nat
      BY <1>2, WireBeforeIs
    <3>3. BytesOf(<< >>) = {} /\ << >> \in Seq(Ranges)
      BY DEF BytesOf
    <3> QED BY <3>1, <3>2, <3>3, PlacedIs DEF Copies
  <2> HIDE DEF member
  <2> QED BY <2>1, <2>2
<1>3. ASSUME NEW t \in Types, t.kind = "scalar"
      PROVE  /\ <<[struct_offset |-> 0, wire_offset |-> 0, count |-> RawSize[t]]>> \in Seq(Ranges)
             /\ BytesOf(<<[struct_offset |-> 0, wire_offset |-> 0, count |-> RawSize[t]]>>)
                  = {[memory |-> k, wire |-> k] : k \in 0 .. t.size - 1}
  <2> DEFINE r == [struct_offset |-> 0, wire_offset |-> 0, count |-> RawSize[t]]
  <2>1. RawSize[t] = t.size /\ t.size \in Nat
    BY <1>3, RawSizeIs, TypeParts
  <2>2. r \in Ranges
    BY <2>1 DEF Ranges
  <2>3. BytesIn(r) = {[memory |-> k, wire |-> k] : k \in 0 .. t.size - 1}
    BY <2>1 DEF BytesIn
  <2> HIDE DEF r
  <2>4. <<r>> \in Seq(Ranges) /\ BytesOf(<<r>>) = BytesIn(r)
    BY <2>2 DEF BytesOf
  <2> QED BY <2>3, <2>4 DEF r
<1>4. ASSUME NEW t \in Types, NEW g, \A p \in PartTypes(t) : g[p] \in Seq(Ranges)
      PROVE  body(g, t) \in Seq(Ranges)
  <2>1. CASE t.kind = "scalar"
    BY <1>3, <2>1
  <2>2. CASE t.kind = "container"
    <3>1. FlattenSeq(elements(g, t)) \in Seq(Ranges)
      <4> HIDE DEF elements
      <4> QED BY <1>1, <1>4, <2>2, FlattenedBytes
    <3> QED BY <2>2, <3>1
  <2>3. CASE t.kind = "aggregate"
    <3>1. FlattenSeq(members(g, t)) \in Seq(Ranges)
      <4> HIDE DEF members
      <4> QED BY <1>2, <1>4, <2>3, FlattenedBytes
    <3> QED BY <2>3, <3>1
  <2> QED BY <2>1, <2>2, <2>3, TypeParts
<1>5. ASSUME NEW t \in Types, NEW f, NEW g, \A p \in PartTypes(t) : f[p] = g[p]
      PROVE  body(f, t) = body(g, t)
  <2>1. CASE t.kind = "scalar"
    BY <2>1
  <2>2. CASE t.kind = "container"
    <3>1. f[t.value_type] = g[t.value_type]
      BY <1>5, <2>2, TypeParts
    <3> QED BY <2>2, <3>1
  <2>3. CASE t.kind = "aggregate"
    <3>1. \A j \in DOMAIN t.members : f[t.members[j].type] = g[t.members[j].type]
      BY <1>5, <2>3, TypeParts
    <3>2. members(f, t) = members(g, t)
      BY <3>1
    <3> HIDE DEF members
    <3> QED BY <2>3, <3>2
  <2> QED BY <2>1, <2>2, <2>3, TypeParts
<1> HIDE DEF body
<1>6. TypeSteps(Seq(Ranges), step)
  <2>1. \A t \in Types : \A g \in [Types -> Seq(Ranges)] : body(g, t) \in Seq(Ranges)
    BY <1>4, TypesAssumption DEF LaidOut
  <2>2. step \in [Types -> [[Types -> Seq(Ranges)] -> Seq(Ranges)]]
    BY <2>1
  <2>3. LooksAtParts(Seq(Ranges), step)
    BY <1>5 DEF LooksAtParts
  <2> HIDE DEF step
  <2>4. << >> \in Seq(Ranges)
    OBVIOUS
  <2> QED BY <2>2, <2>3, <2>4 DEF TypeSteps
<1>7. PICK f : Computed(Seq(Ranges), step, f)
  <2> HIDE DEF step
  <2> QED BY <1>6, TypeRecursion
<1>8. f = [t \in Types |-> body(f, t)]
  BY <1>7 DEF Computed
<1>9. Enumerate = [t \in Types |-> body(Enumerate, t)]
  BY <1>8 DEF Enumerate, body
<1>10. \A t \in Types : Enumerate[t] = body(Enumerate, t)
  BY <1>9
<1> DEFINE T == {t \in Types : Enumerate[t] \in Seq(Ranges)}
<1>11. ASSUME NEW t \in Types, \A p \in PartTypes(t) : p \in T
       PROVE  t \in T
  BY <1>4, <1>10, <1>11
<1>12. \A t \in Types : t \in T
  <2> HIDE DEF T
  <2> QED BY <1>11, TypeInduction
<1>13. ASSUME NEW t \in Types
       PROVE  \A p \in PartTypes(t) : Enumerate[p] \in Seq(Ranges)
  BY <1>12, TypesAssumption DEF LaidOut
<1>14. ASSUME NEW t \in Types, t.kind = "scalar"
       PROVE  FlatBytes(t) = {[memory |-> k, wire |-> k] : k \in 0 .. t.size - 1}
  BY <1>3, <1>10, <1>14 DEF FlatBytes, body
<1>15. ASSUME NEW t \in Types, t.kind = "container"
       PROVE  FlatBytes(t) = UNION {ShiftedMoves(FlatBytes(t.value_type),
                                       t.value_type.size * (i - 1), t.value_type.size * (i - 1)) :
                                       i \in 1 .. t.length}
  <2>1. Enumerate[t] = FlattenSeq(elements(Enumerate, t))
    BY <1>10, <1>15 DEF body
  <2> HIDE DEF elements
  <2>2. BytesOf(Enumerate[t]) = UNION {BytesOf(elements(Enumerate, t)[i]) : i \in 1 .. t.length}
    BY <1>1, <1>13, <1>15, <2>1, FlattenedBytes
  <2> QED BY <1>1, <1>13, <1>15, <2>2 DEF FlatBytes
<1>16. ASSUME NEW t \in Types, t.kind = "aggregate"
       PROVE  FlatBytes(t) = UNION {ShiftedMoves(FlatBytes(t.members[j].type),
                                       t.members[j].offset_of, WireBefore(t, j)) :
                                       j \in Copies(t)}
  <2>1. Enumerate[t] = FlattenSeq(members(Enumerate, t))
    BY <1>10, <1>16 DEF body
  <2> HIDE DEF members
  <2> DEFINE n == Len(t.members)
             bytes(j) == BytesOf(members(Enumerate, t)[j])
             shifted(j) == ShiftedMoves(FlatBytes(t.members[j].type),
                                        t.members[j].offset_of, WireBefore(t, j))
  <2>2. FlatBytes(t) = UNION {bytes(j) : j \in 1 .. n}
    BY <1>2, <1>13, <1>16, <2>1, FlattenedBytes DEF FlatBytes
  <2>3. \A j \in 1 .. n : bytes(j) = IF j \in Copies(t) THEN shifted(j) ELSE {}
    BY <1>2, <1>13, <1>16 DEF FlatBytes
  <2>4. Copies(t) \subseteq 1 .. n
    BY DEF Copies
  <2> HIDE DEF n, bytes, shifted
  <2>5. FlatBytes(t) = UNION {shifted(j) : j \in Copies(t)}
    BY <2>2, <2>3, <2>4
  <2> QED BY <2>5 DEF shifted
<1> QED BY <1>12, <1>14, <1>15, <1>16

(* The bytes a call moves for a type.                                      *)
MoveSet(t, how) == Range(Moves[t][how])

ScalarMoves(size, how) ==
    {[memory |-> k, wire |-> IF how = "swapped" THEN size - 1 - k ELSE k] : k \in 0 .. size - 1}

LEMMA FlattenedMoves ==
    ASSUME NEW n \in Nat, NEW parts \in [1 .. n -> Seq(ByteMoves)]
    PROVE  /\ FlattenSeq(parts) \in Seq(ByteMoves)
           /\ Range(FlattenSeq(parts)) = UNION {Range(parts[i]) : i \in 1 .. n}
BY FlattenSeqIs

LEMMA ScalarMovesAre ==
    ASSUME NEW t \in Types, t.kind = "scalar", NEW how
    PROVE  LET moves == [k \in 1 .. t.size |->
                    [memory |-> k - 1,
                     wire |-> IF how = "swapped" THEN t.size - k ELSE k - 1]]
           IN  moves \in Seq(ByteMoves) /\ Range(moves) = ScalarMoves(t.size, how)
<1> DEFINE n == t.size
           move(k) == [memory |-> k - 1, wire |-> IF how = "swapped" THEN n - k ELSE k - 1]
           byte(k) == [memory |-> k, wire |-> IF how = "swapped" THEN n - 1 - k ELSE k]
           moves == [k \in 1 .. n |-> move(k)]
<1>1. n \in Nat
  BY TypeParts
<1> HIDE DEF n
<1>2. \A k \in 1 .. n : move(k) \in ByteMoves
  BY <1>1 DEF ByteMoves
<1>3. \A k \in 1 .. n : k - 1 \in 0 .. n - 1 /\ move(k) = byte(k - 1)
  BY <1>1
<1>4. \A k \in 0 .. n - 1 : k + 1 \in 1 .. n /\ move(k + 1) = byte(k)
  BY <1>1
<1>5. ScalarMoves(n, how) = {byte(k) : k \in 0 .. n - 1}
  BY DEF ScalarMoves
<1> HIDE DEF move, byte
<1>6. moves \in Seq(ByteMoves)
  BY <1>1, <1>2
<1>7. Range(moves) = {move(k) : k \in 1 .. n}
  BY DEF Range
<1>8. Range(moves) = ScalarMoves(n, how)
  BY <1>3, <1>4, <1>5, <1>7
<1> QED BY <1>6, <1>8 DEF moves, move, n

LEMMA MovesAre ==
    /\ \A t \in Types : \A how \in Hows : Moves[t][how] \in Seq(ByteMoves)
    /\ \A t \in Types : \A how \in Hows :
          /\ Flat(t, how) => MoveSet(t, how) = FlatBytes(t)
          /\ ~Flat(t, how) /\ t.kind = "scalar" => MoveSet(t, how) = ScalarMoves(t.size, how)
          /\ ~Flat(t, how) /\ t.kind = "container" =>
                MoveSet(t, how) = UNION {ShiftedMoves(MoveSet(t.value_type, how),
                                            t.value_type.size * (i - 1), RawSize[t.value_type] * (i - 1)) :
                                            i \in 1 .. t.length}
          /\ ~Flat(t, how) /\ t.kind = "aggregate" =>
                MoveSet(t, how) = UNION {ShiftedMoves(MoveSet(t.members[j].type, how),
                                            t.members[j].offset, WireBefore(t, j)) :
                                            j \in Copies(t)}
<1> DEFINE V == [Hows -> Seq(ByteMoves)]
           scalar(t, how) == [k \in 1 .. t.size |->
                    [memory |-> k - 1,
                     wire |-> IF how = "swapped" THEN t.size - k ELSE k - 1]]
           element(g, t, how, i) == Moved(g[t.value_type][how], t.value_type.size * (i - 1),
                                          RawSize[t.value_type] * (i - 1))
           elements(g, t, how) == [i \in 1 .. t.length |-> element(g, t, how, i)]
           member(g, t, how, j) == IF Serializable(t.members[j])
                                   THEN Moved(g[t.members[j].type][how], t.members[j].offset,
                                              WireBefore(t, j))
                                   ELSE << >>
           members(g, t, how) == [j \in DOMAIN t.members |-> member(g, t, how, j)]
           moves(g, t, how) ==
              CASE Flat(t, how) -> FlatMoves(t)
                [] ~Flat(t, how) /\ t.kind = "scalar" -> scalar(t, how)
                [] ~Flat(t, how) /\ t.kind = "container" -> FlattenSeq(elements(g, t, how))
                [] ~Flat(t, how) /\ t.kind = "aggregate" -> FlattenSeq(members(g, t, how))
           body(g, t) == [how \in Hows |-> moves(g, t, how)]
           step == [t \in Types |-> [g \in [Types -> V] |-> body(g, t)]]
<1>1. ASSUME NEW t \in Types, t.kind = "container", NEW how \in Hows,
             NEW g, \A p \in PartTypes(t) : g[p] \in V
      PROVE  /\ t.length \in Nat /\ elements(g, t, how) \in [1 .. t.length -> Seq(ByteMoves)]
             /\ \A i \in 1 .. t.length :
                   Range(elements(g, t, how)[i])
                     = ShiftedMoves(Range(g[t.value_type][how]), t.value_type.size * (i - 1),
                                    RawSize[t.value_type] * (i - 1))
  <2>1. /\ t.length \in Nat /\ t.value_type.size \in Nat /\ RawSize[t.value_type] \in Nat
        /\ g[t.value_type][how] \in Seq(ByteMoves)
    BY <1>1, TypeParts, RawSizeIs
  <2>2. \A i \in 1 .. t.length : /\ t.value_type.size * (i - 1) \in Nat
                                 /\ RawSize[t.value_type] * (i - 1) \in Nat
    BY <2>1, Strides
  <2>3. \A i \in 1 .. t.length :
           /\ element(g, t, how, i) \in Seq(ByteMoves)
           /\ Range(element(g, t, how, i))
                = ShiftedMoves(Range(g[t.value_type][how]), t.value_type.size * (i - 1),
                               RawSize[t.value_type] * (i - 1))
    BY <2>1, <2>2, MovedIs
  <2> HIDE DEF element
  <2> QED BY <2>1, <2>3
<1>2. ASSUME NEW t \in Types, t.kind = "aggregate", NEW how \in Hows,
             NEW g, \A p \in PartTypes(t) : g[p] \in V
      PROVE  /\ Len(t.members) \in Nat
             /\ members(g, t, how) \in [1 .. Len(t.members) -> Seq(ByteMoves)]
             /\ \A j \in 1 .. Len(t.members) :
                   Range(members(g, t, how)[j])
                     = IF j \in Copies(t)
                       THEN ShiftedMoves(Range(g[t.members[j].type][how]), t.members[j].offset,
                                         WireBefore(t, j))
                       ELSE {}
  <2>1. Len(t.members) \in Nat /\ DOMAIN t.members = 1 .. Len(t.members)
    BY <1>2, TypeParts
  <2>2. ASSUME NEW j \in 1 .. Len(t.members)
        PROVE  /\ member(g, t, how, j) \in Seq(ByteMoves)
               /\ Range(member(g, t, how, j))
                     = IF j \in Copies(t)
                       THEN ShiftedMoves(Range(g[t.members[j].type][how]), t.members[j].offset,
                                         WireBefore(t, j))
                       ELSE {}
    <3>1. g[t.members[j].type][how] \in Seq(ByteMoves) /\ t.members[j].offset \in Nat
      BY <1>2, TypeParts
    <3>2. WireBefore(t, j) \in Nat
      BY <1>2, WireBeforeIs
    <3>3. Range(<< >>) = {} /\ << >> \in Seq(ByteMoves)
      BY DEF Range
    <3> QED BY <3>1, <3>2, <3>3, MovedIs DEF Copies
  <2> HIDE DEF member
  <2> QED BY <2>1, <2>2
<1>3. ASSUME NEW t \in Types, t.kind = "scalar", NEW how
      PROVE  scalar(t, how) \in Seq(ByteMoves) /\ Range(scalar(t, how)) = ScalarMoves(t.size, how)
  BY <1>3, ScalarMovesAre
<1>4. ASSUME NEW t \in Types, NEW g, \A p \in PartTypes(t) : g[p] \in V, NEW how \in Hows
      PROVE  moves(g, t, how) \in Seq(ByteMoves)
  <2>1. CASE Flat(t, how)
    <3>1. FlatMoves(t) \in Seq(ByteMoves)
      BY EnumerateIs, FlatMovesAre
    <3> QED BY <2>1, <3>1
  <2>2. CASE ~Flat(t, how) /\ t.kind = "scalar"
    <3>1. scalar(t, how) \in Seq(ByteMoves)
      BY <1>3, <2>2
    <3> HIDE DEF scalar
    <3> QED BY <2>2, <3>1
  <2>3. CASE ~Flat(t, how) /\ t.kind = "container"
    <3>1. FlattenSeq(elements(g, t, how)) \in Seq(ByteMoves)
      <4> HIDE DEF elements, V
      <4> QED BY <1>1, <1>4, <2>3, FlattenedMoves
    <3> QED BY <2>3, <3>1
  <2>4. CASE ~Flat(t, how) /\ t.kind = "aggregate"
    <3>1. FlattenSeq(members(g, t, how)) \in Seq(ByteMoves)
      <4> HIDE DEF members, V
      <4> QED BY <1>2, <1>4, <2>4, FlattenedMoves
    <3> QED BY <2>4, <3>1
  <2> QED BY <2>1, <2>2, <2>3, <2>4, TypeParts
<1>5. ASSUME NEW t \in Types, NEW f, NEW g, \A p \in PartTypes(t) : f[p] = g[p]
      PROVE  body(f, t) = body(g, t)
  <2> SUFFICES ASSUME NEW how \in Hows
               PROVE  moves(f, t, how) = moves(g, t, how)
    OBVIOUS
  <2>1. CASE t.kind = "scalar"
    BY <2>1
  <2>2. CASE t.kind = "container"
    <3>1. f[t.value_type] = g[t.value_type]
      BY <1>5, <2>2, TypeParts
    <3> QED BY <2>2, <3>1
  <2>3. CASE t.kind = "aggregate"
    <3>1. \A j \in DOMAIN t.members : f[t.members[j].type] = g[t.members[j].type]
      BY <1>5, <2>3, TypeParts
    <3>2. members(f, t, how) = members(g, t, how)
      BY <3>1
    <3> HIDE DEF members
    <3> QED BY <2>3, <3>2
  <2> QED BY <2>1, <2>2, <2>3, TypeParts
<1>6. ASSUME NEW t \in Types, NEW g, \A p \in PartTypes(t) : g[p] \in V
      PROVE  body(g, t) \in V
  <2> HIDE DEF moves
  <2> QED BY <1>4, <1>6
<1> HIDE DEF body, V
<1>7. TypeSteps(V, step)
  <2>1. \A t \in Types : \A g \in [Types -> V] : body(g, t) \in V
    BY <1>6, TypesAssumption DEF LaidOut
  <2>2. step \in [Types -> [[Types -> V] -> V]]
    BY <2>1
  <2>3. LooksAtParts(V, step)
    BY <1>5 DEF LooksAtParts
  <2> HIDE DEF step
  <2>4. [how \in Hows |-> << >>] \in V
    BY DEF V
  <2> QED BY <2>2, <2>3, <2>4 DEF TypeSteps
<1>8. PICK f : Computed(V, step, f)
  <2> HIDE DEF step
  <2> QED BY <1>7, TypeRecursion
<1>9. f = [t \in Types |-> body(f, t)]
  BY <1>8 DEF Computed
<1>10. Moves = [t \in Types |-> body(Moves, t)]
  BY <1>9 DEF Moves, body
<1>11. \A t \in Types : Moves[t] = body(Moves, t)
  BY <1>10
<1> DEFINE T == {t \in Types : Moves[t] \in V}
<1>12. ASSUME NEW t \in Types, \A p \in PartTypes(t) : p \in T
       PROVE  t \in T
  BY <1>6, <1>11, <1>12
<1>13. \A t \in Types : t \in T
  <2> HIDE DEF T
  <2> QED BY <1>12, TypeInduction
<1>14. \A t \in Types : \A p \in PartTypes(t) : Moves[p] \in V
  BY <1>13, TypesAssumption DEF LaidOut
<1>15. \A t \in Types : \A how \in Hows : Moves[t][how] = moves(Moves, t, how)
  <2> HIDE DEF moves
  <2> QED BY <1>11 DEF body
<1>16. ASSUME NEW t \in Types, NEW how \in Hows, Flat(t, how)
       PROVE  MoveSet(t, how) = FlatBytes(t)
  <2>1. Moves[t][how] = FlatMoves(t)
    BY <1>15, <1>16
  <2> QED BY <2>1, EnumerateIs, FlatMovesAre DEF MoveSet, FlatBytes
<1>17. ASSUME NEW t \in Types, NEW how \in Hows, ~Flat(t, how), t.kind = "scalar"
       PROVE  MoveSet(t, how) = ScalarMoves(t.size, how)
  <2>1. Moves[t][how] = scalar(t, how)
    BY <1>15, <1>17
  <2> QED BY <1>3, <1>17, <2>1 DEF MoveSet
<1>18. ASSUME NEW t \in Types, NEW how \in Hows, ~Flat(t, how), t.kind = "container"
       PROVE  MoveSet(t, how) = UNION {ShiftedMoves(MoveSet(t.value_type, how),
                                          t.value_type.size * (i - 1), RawSize[t.value_type] * (i - 1)) :
                                          i \in 1 .. t.length}
  <2>1. Moves[t][how] = FlattenSeq(elements(Moves, t, how))
    BY <1>15, <1>18
  <2> HIDE DEF elements
  <2>2. MoveSet(t, how) = UNION {Range(elements(Moves, t, how)[i]) : i \in 1 .. t.length}
    BY <1>1, <1>14, <1>18, <2>1, FlattenedMoves DEF MoveSet
  <2> QED BY <1>1, <1>14, <1>18, <2>2 DEF MoveSet
<1>19. ASSUME NEW t \in Types, NEW how \in Hows, ~Flat(t, how), t.kind = "aggregate"
       PROVE  MoveSet(t, how) = UNION {ShiftedMoves(MoveSet(t.members[j].type, how),
                                          t.members[j].offset, WireBefore(t, j)) :
                                          j \in Copies(t)}
  <2>1. Moves[t][how] = FlattenSeq(members(Moves, t, how))
    BY <1>15, <1>19
  <2> HIDE DEF members
  <2> DEFINE n == Len(t.members)
             bytes(j) == Range(members(Moves, t, how)[j])
             shifted(j) == ShiftedMoves(MoveSet(t.members[j].type, how),
                                        t.members[j].offset, WireBefore(t, j))
  <2>2. MoveSet(t, how) = UNION {bytes(j) : j \in 1 .. n}
    BY <1>2, <1>14, <1>19, <2>1, FlattenedMoves DEF MoveSet
  <2>3. \A j \in 1 .. n : bytes(j) = IF j \in Copies(t) THEN shifted(j) ELSE {}
    BY <1>2, <1>14, <1>19 DEF MoveSet
  <2>4. Copies(t) \subseteq 1 .. n
    BY DEF Copies
  <2> HIDE DEF n, bytes, shifted
  <2>5. MoveSet(t, how) = UNION {shifted(j) : j \in Copies(t)}
    BY <2>2, <2>3, <2>4
  <2> QED BY <2>5 DEF shifted
<1>20. \A t \in Types : \A how \in Hows : Moves[t][how] \in Seq(ByteMoves)
  BY <1>13 DEF V
<1> HIDE DEF T
<1> QED BY <1>16, <1>17, <1>18, <1>19, <1>20

LEMMA HasPointerMemberIs ==
    /\ \A t \in Types : HasPointerMember[t] \in BOOLEAN
    /\ \A t \in Types :
          /\ t.kind = "scalar" => HasPointerMember[t] = t.pointer
          /\ t.kind = "container" => HasPointerMember[t] = HasPointerMember[t.value_type]
          /\ t.kind = "aggregate" =>
                HasPointerMember[t] = \E j \in 1 .. Len(t.members) :
                                          HasPointerMember[t.members[j].type]
<1> DEFINE body(g, t) == CASE t.kind = "scalar" -> t.pointer
                           [] t.kind = "container" -> g[t.value_type]
                           [] t.kind = "aggregate" ->
                                 \E j \in DOMAIN t.members : g[t.members[j].type]
           step == [t \in Types |-> [g \in [Types -> BOOLEAN] |-> body(g, t)]]
<1>1. ASSUME NEW t \in Types, NEW g, \A p \in PartTypes(t) : g[p] \in BOOLEAN
      PROVE  body(g, t) \in BOOLEAN
  <2>1. CASE t.kind = "scalar"
    BY <2>1, TypeParts
  <2>2. CASE t.kind = "container"
    BY <1>1, <2>2, TypeParts
  <2>3. CASE t.kind = "aggregate"
    BY <2>3
  <2> QED BY <2>1, <2>2, <2>3, TypeParts
<1>2. ASSUME NEW t \in Types, NEW f, NEW g, \A p \in PartTypes(t) : f[p] = g[p]
      PROVE  body(f, t) = body(g, t)
  <2>1. CASE t.kind = "scalar"
    BY <2>1
  <2>2. CASE t.kind = "container"
    BY <1>2, <2>2, TypeParts
  <2>3. CASE t.kind = "aggregate"
    <3>1. \A j \in DOMAIN t.members : f[t.members[j].type] = g[t.members[j].type]
      BY <1>2, <2>3, TypeParts
    <3>2. (\E j \in DOMAIN t.members : f[t.members[j].type])
            = (\E j \in DOMAIN t.members : g[t.members[j].type])
      BY <3>1
    <3> QED BY <2>3, <3>2
  <2> QED BY <2>1, <2>2, <2>3, TypeParts
<1> HIDE DEF body
<1>3. TypeSteps(BOOLEAN, step)
  <2>1. \A t \in Types : \A g \in [Types -> BOOLEAN] : body(g, t) \in BOOLEAN
    BY <1>1, TypesAssumption DEF LaidOut
  <2>2. step \in [Types -> [[Types -> BOOLEAN] -> BOOLEAN]]
    BY <2>1
  <2>3. LooksAtParts(BOOLEAN, step)
    BY <1>2 DEF LooksAtParts
  <2> HIDE DEF step
  <2>4. FALSE \in BOOLEAN
    OBVIOUS
  <2> QED BY <2>2, <2>3, <2>4 DEF TypeSteps
<1>4. PICK f : Computed(BOOLEAN, step, f)
  <2> HIDE DEF step
  <2> QED BY <1>3, TypeRecursion
<1>5. f = [t \in Types |-> body(f, t)]
  BY <1>4 DEF Computed
<1>6. HasPointerMember = [t \in Types |-> body(HasPointerMember, t)]
  BY <1>5 DEF HasPointerMember, body
<1>7. \A t \in Types : HasPointerMember[t] = body(HasPointerMember, t)
  BY <1>6
<1> DEFINE T == {t \in Types : HasPointerMember[t] \in BOOLEAN}
<1>8. ASSUME NEW t \in Types, \A p \in PartTypes(t) : p \in T
      PROVE  t \in T
  BY <1>1, <1>7, <1>8
<1>9. \A t \in Types : t \in T
  <2> HIDE DEF T
  <2> QED BY <1>8, TypeInduction
<1>10. ASSUME NEW t \in Types
       PROVE  /\ t.kind = "scalar" => HasPointerMember[t] = t.pointer
              /\ t.kind = "container" => HasPointerMember[t] = HasPointerMember[t.value_type]
              /\ t.kind = "aggregate" =>
                    HasPointerMember[t] = \E j \in 1 .. Len(t.members) :
                                              HasPointerMember[t.members[j].type]
  <2>1. t.kind = "aggregate" => DOMAIN t.members = 1 .. Len(t.members)
    BY TypeParts
  <2> QED BY <1>7, <2>1 DEF body
<1> QED BY <1>9, <1>10

LEMMA MisplacedIs ==
    /\ \A t \in Types : Misplaced[t] \in BOOLEAN
    /\ \A t \in Types :
          /\ t.kind = "scalar" => ~Misplaced[t]
          /\ t.kind = "container" =>
                (Misplaced[t] <=> \/ t.length > 0 /\ Misplaced[t.value_type]
                                  \/ /\ t.length > 1
                                     /\ t.value_type.size # RawSize[t.value_type]
                                     /\ Fields(t.value_type) # << >>)
          /\ t.kind = "aggregate" =>
                (Misplaced[t] <=> \E j \in Copies(t) :
                                     LET m == t.members[j]
                                     IN  /\ Fields(m.type) # << >>
                                         /\ Misplaced[m.type] \/ m.offset_of # m.offset)
<1> DEFINE element(g, t) == \/ t.length > 0 /\ g[t.value_type]
                            \/ /\ t.length > 1
                               /\ t.value_type.size # RawSize[t.value_type]
                               /\ Fields(t.value_type) # << >>
           member(g, m) == /\ Serializable(m) /\ Fields(m.type) # << >>
                           /\ g[m.type] \/ m.offset_of # m.offset
           body(g, t) == CASE t.kind = "scalar" -> FALSE
                           [] t.kind = "container" -> element(g, t)
                           [] t.kind = "aggregate" ->
                                 \E j \in DOMAIN t.members : member(g, t.members[j])
           step == [t \in Types |-> [g \in [Types -> BOOLEAN] |-> body(g, t)]]
<1>1. ASSUME NEW t \in Types, NEW g, \A p \in PartTypes(t) : g[p] \in BOOLEAN
      PROVE  body(g, t) \in BOOLEAN
  <2> HIDE DEF member
  <2>1. CASE t.kind = "scalar"
    BY <2>1
  <2>2. CASE t.kind = "container"
    BY <1>1, <2>2, TypeParts
  <2>3. CASE t.kind = "aggregate"
    BY <2>3
  <2> QED BY <2>1, <2>2, <2>3, TypeParts
<1>2. ASSUME NEW t \in Types, NEW f, NEW g, \A p \in PartTypes(t) : f[p] = g[p]
      PROVE  body(f, t) = body(g, t)
  <2>1. CASE t.kind = "scalar"
    BY <2>1
  <2>2. CASE t.kind = "container"
    <3>1. f[t.value_type] = g[t.value_type]
      BY <1>2, <2>2, TypeParts
    <3>2. element(f, t) = element(g, t)
      BY <3>1
    <3> HIDE DEF element, member
    <3> QED BY <2>2, <3>2
  <2>3. CASE t.kind = "aggregate"
    <3>1. \A j \in DOMAIN t.members : f[t.members[j].type] = g[t.members[j].type]
      BY <1>2, <2>3, TypeParts
    <3>2. \A j \in DOMAIN t.members : member(f, t.members[j]) = member(g, t.members[j])
      BY <3>1
    <3> HIDE DEF element, member
    <3>3. (\E j \in DOMAIN t.members : member(f, t.members[j]))
            = (\E j \in DOMAIN t.members : member(g, t.members[j]))
      BY <3>2
    <3> QED BY <2>3, <3>3
  <2> QED BY <2>1, <2>2, <2>3, TypeParts
<1> HIDE DEF body
<1>3. TypeSteps(BOOLEAN, step)
  <2>1. \A t \in Types : \A g \in [Types -> BOOLEAN] : body(g, t) \in BOOLEAN
    BY <1>1, TypesAssumption DEF LaidOut
  <2>2. step \in [Types -> [[Types -> BOOLEAN] -> BOOLEAN]]
    BY <2>1
  <2>3. LooksAtParts(BOOLEAN, step)
    BY <1>2 DEF LooksAtParts
  <2> HIDE DEF step
  <2>4. FALSE \in BOOLEAN
    OBVIOUS
  <2> QED BY <2>2, <2>3, <2>4 DEF TypeSteps
<1>4. PICK f : Computed(BOOLEAN, step, f)
  <2> HIDE DEF step
  <2> QED BY <1>3, TypeRecursion
<1>5. f = [t \in Types |-> body(f, t)]
  BY <1>4 DEF Computed
<1>6. Misplaced = [t \in Types |-> body(Misplaced, t)]
  BY <1>5 DEF Misplaced, body
<1>7. \A t \in Types : Misplaced[t] = body(Misplaced, t)
  BY <1>6
<1> DEFINE T == {t \in Types : Misplaced[t] \in BOOLEAN}
<1>8. ASSUME NEW t \in Types, \A p \in PartTypes(t) : p \in T
      PROVE  t \in T
  BY <1>1, <1>7, <1>8
<1>9. \A t \in Types : t \in T
  <2> HIDE DEF T
  <2> QED BY <1>8, TypeInduction
<1>10. ASSUME NEW t \in Types, t.kind = "scalar"
       PROVE  ~Misplaced[t]
  BY <1>7, <1>10 DEF body
<1>11. ASSUME NEW t \in Types, t.kind = "container"
       PROVE  Misplaced[t] <=> element(Misplaced, t)
  <2> HIDE DEF element
  <2>1. Misplaced[t] = element(Misplaced, t)
    BY <1>7, <1>11 DEF body
  <2> QED BY <2>1
<1>12. ASSUME NEW t \in Types, t.kind = "aggregate"
       PROVE  Misplaced[t] <=> \E j \in Copies(t) :
                                  LET m == t.members[j]
                                  IN  /\ Fields(m.type) # << >>
                                      /\ Misplaced[m.type] \/ m.offset_of # m.offset
  <2>1. Misplaced[t] = \E j \in DOMAIN t.members : member(Misplaced, t.members[j])
    <3> HIDE DEF member
    <3> QED BY <1>7, <1>12 DEF body
  <2>2. DOMAIN t.members = 1 .. Len(t.members)
    BY <1>12, TypeParts
  <2>3. (\E j \in DOMAIN t.members : member(Misplaced, t.members[j]))
          <=> \E j \in Copies(t) :
                LET m == t.members[j]
                IN  /\ Fields(m.type) # << >>
                    /\ Misplaced[m.type] \/ m.offset_of # m.offset
    BY <2>2 DEF Copies
  <2> QED BY <2>1, <2>3
<1> QED BY <1>9, <1>10, <1>11, <1>12

LEMMA AssignedIs ==
    /\ \A t \in Types : Assigned[t] \in SUBSET Nat
    /\ \A t \in Types :
          /\ t.kind = "scalar" /\ t.pointer => Assigned[t] = {}
          /\ ~HasPointerMember[t] => Assigned[t] = 0 .. t.size - 1
          /\ HasPointerMember[t] /\ t.kind = "container" =>
                Assigned[t] = UNION {Shifted(Assigned[t.value_type], t.value_type.size * (i - 1)) :
                                        i \in 1 .. t.length}
          /\ HasPointerMember[t] /\ t.kind = "aggregate" =>
                Assigned[t] = UNION {Shifted(Assigned[t.members[j].type], t.members[j].offset) :
                                        j \in Copies(t)}
<1> DEFINE elements(g, t) == UNION {Shifted(g[t.value_type], t.value_type.size * (i - 1)) :
                                       i \in 1 .. t.length}
           members(g, t) == UNION {Shifted(g[t.members[j].type], t.members[j].offset) :
                                       j \in {k \in DOMAIN t.members : Serializable(t.members[k])}}
           body(g, t) ==
              CASE t.kind = "scalar" /\ t.pointer -> {}
                [] ~(t.kind = "scalar" /\ t.pointer) /\ Flat(t, "bit_cast") -> 0 .. t.size - 1
                [] ~Flat(t, "bit_cast") /\ t.kind = "container" -> elements(g, t)
                [] ~Flat(t, "bit_cast") /\ t.kind = "aggregate" -> members(g, t)
           step == [t \in Types |-> [g \in [Types -> SUBSET Nat] |-> body(g, t)]]
<1>0. ASSUME NEW t \in Types
      PROVE  /\ Flat(t, "bit_cast") <=> ~HasPointerMember[t]
             /\ t.kind = "scalar" => (Flat(t, "bit_cast") <=> ~t.pointer)
  BY HasPointerMemberIs, TypeParts DEF Flat
<1>1. ASSUME NEW t \in Types, NEW g, \A p \in PartTypes(t) : g[p] \in SUBSET Nat
      PROVE  body(g, t) \in SUBSET Nat
  <2>1. CASE t.kind = "scalar"
    <3>1. 0 .. t.size - 1 \in SUBSET Nat
      BY TypeParts
    <3> HIDE DEF elements, members
    <3> QED BY <1>0, <2>1, <3>1
  <2>2. CASE t.kind = "container"
    <3>1. 0 .. t.size - 1 \in SUBSET Nat
      BY TypeParts
    <3>2. \A i \in 1 .. t.length : t.value_type.size * (i - 1) \in Nat
      BY <2>2, TypeParts, Strides
    <3>3. g[t.value_type] \in SUBSET Nat
      BY <1>1, <2>2, TypeParts
    <3>4. elements(g, t) \in SUBSET Nat
      BY <3>2, <3>3 DEF Shifted
    <3> HIDE DEF elements, members
    <3> QED BY <2>2, <3>1, <3>4
  <2>3. CASE t.kind = "aggregate"
    <3>1. 0 .. t.size - 1 \in SUBSET Nat
      BY TypeParts
    <3>2. \A j \in DOMAIN t.members : t.members[j].offset \in Nat /\ g[t.members[j].type] \in SUBSET Nat
      BY <1>1, <2>3, TypeParts
    <3>3. members(g, t) \in SUBSET Nat
      BY <3>2 DEF Shifted
    <3> HIDE DEF elements, members
    <3> QED BY <2>3, <3>1, <3>3
  <2> QED BY <2>1, <2>2, <2>3, TypeParts
<1>2. ASSUME NEW t \in Types, NEW f, NEW g, \A p \in PartTypes(t) : f[p] = g[p]
      PROVE  body(f, t) = body(g, t)
  <2>1. CASE t.kind = "scalar"
    <3> HIDE DEF elements, members
    <3> QED BY <1>0, <2>1
  <2>2. CASE t.kind = "container"
    <3>1. f[t.value_type] = g[t.value_type]
      BY <1>2, <2>2, TypeParts
    <3>2. elements(f, t) = elements(g, t)
      BY <3>1
    <3> HIDE DEF elements, members
    <3> QED BY <2>2, <3>2
  <2>3. CASE t.kind = "aggregate"
    <3>1. \A j \in DOMAIN t.members : f[t.members[j].type] = g[t.members[j].type]
      BY <1>2, <2>3, TypeParts
    <3>2. members(f, t) = members(g, t)
      BY <3>1
    <3> HIDE DEF elements, members
    <3> QED BY <2>3, <3>2
  <2> QED BY <2>1, <2>2, <2>3, TypeParts
<1> HIDE DEF body
<1>3. TypeSteps(SUBSET Nat, step)
  <2>1. \A t \in Types : \A g \in [Types -> SUBSET Nat] : body(g, t) \in SUBSET Nat
    BY <1>1, TypesAssumption DEF LaidOut
  <2>2. step \in [Types -> [[Types -> SUBSET Nat] -> SUBSET Nat]]
    BY <2>1
  <2>3. LooksAtParts(SUBSET Nat, step)
    BY <1>2 DEF LooksAtParts
  <2> HIDE DEF step
  <2>4. {} \in SUBSET Nat
    OBVIOUS
  <2> QED BY <2>2, <2>3, <2>4 DEF TypeSteps
<1>4. PICK f : Computed(SUBSET Nat, step, f)
  <2> HIDE DEF step
  <2> QED BY <1>3, TypeRecursion
<1>5. f = [t \in Types |-> body(f, t)]
  BY <1>4 DEF Computed
<1>6. Assigned = [t \in Types |-> body(Assigned, t)]
  BY <1>5 DEF Assigned, body
<1>7. \A t \in Types : Assigned[t] = body(Assigned, t)
  BY <1>6
<1> DEFINE T == {t \in Types : Assigned[t] \in SUBSET Nat}
<1>8. ASSUME NEW t \in Types, \A p \in PartTypes(t) : p \in T
      PROVE  t \in T
  BY <1>1, <1>7, <1>8
<1>9. \A t \in Types : t \in T
  <2> HIDE DEF T
  <2> QED BY <1>8, TypeInduction
<1>10. ASSUME NEW t \in Types
       PROVE  /\ t.kind = "scalar" /\ t.pointer => Assigned[t] = {}
              /\ ~HasPointerMember[t] => Assigned[t] = 0 .. t.size - 1
              /\ HasPointerMember[t] /\ t.kind = "container" => Assigned[t] = elements(Assigned, t)
              /\ HasPointerMember[t] /\ t.kind = "aggregate" => Assigned[t] = members(Assigned, t)
  <2> HIDE DEF elements, members
  <2>1. Assigned[t] = body(Assigned, t)
    BY <1>7
  <2>2. HasPointerMember[t] /\ t.kind = "scalar" => t.pointer
    BY HasPointerMemberIs
  <2> QED BY <1>0, <2>1, <2>2 DEF body
<1>11. ASSUME NEW t \in Types, t.kind = "aggregate"
       PROVE  {k \in DOMAIN t.members : Serializable(t.members[k])} = Copies(t)
  BY <1>11, TypeParts DEF Copies
<1> QED BY <1>9, <1>10, <1>11

LEMMA ScalarBytesAre ==
    /\ \A t \in Types : \A pointer \in BOOLEAN : ScalarBytes[t][pointer] \in SUBSET Nat
    /\ \A t \in Types : \A pointer \in BOOLEAN :
          /\ t.kind = "scalar" =>
                ScalarBytes[t][pointer] = IF t.pointer = pointer THEN 0 .. t.size - 1 ELSE {}
          /\ t.kind = "container" =>
                ScalarBytes[t][pointer]
                  = UNION {Shifted(ScalarBytes[t.value_type][pointer], t.value_type.size * (i - 1)) :
                              i \in 1 .. t.length}
          /\ t.kind = "aggregate" =>
                ScalarBytes[t][pointer]
                  = UNION {Shifted(ScalarBytes[t.members[j].type][pointer], t.members[j].offset) :
                              j \in 1 .. Len(t.members)}
<1> DEFINE V == [BOOLEAN -> SUBSET Nat]
           elements(g, t, p) == UNION {Shifted(g[t.value_type][p], t.value_type.size * (i - 1)) :
                                          i \in 1 .. t.length}
           members(g, t, p) == UNION {Shifted(g[t.members[j].type][p], t.members[j].offset) :
                                          j \in DOMAIN t.members}
           bytes(g, t, p) ==
              CASE t.kind = "scalar" -> IF t.pointer = p THEN 0 .. t.size - 1 ELSE {}
                [] t.kind = "container" -> elements(g, t, p)
                [] t.kind = "aggregate" -> members(g, t, p)
           body(g, t) == [p \in BOOLEAN |-> bytes(g, t, p)]
           step == [t \in Types |-> [g \in [Types -> V] |-> body(g, t)]]
<1>1. ASSUME NEW t \in Types, NEW g, \A p \in PartTypes(t) : g[p] \in V
      PROVE  body(g, t) \in V
  <2> SUFFICES ASSUME NEW p \in BOOLEAN
               PROVE  bytes(g, t, p) \in SUBSET Nat
    OBVIOUS
  <2>1. CASE t.kind = "scalar"
    <3>1. 0 .. t.size - 1 \in SUBSET Nat
      BY TypeParts
    <3> HIDE DEF elements, members
    <3> QED BY <2>1, <3>1
  <2>2. CASE t.kind = "container"
    <3>1. \A i \in 1 .. t.length : t.value_type.size * (i - 1) \in Nat
      BY <2>2, TypeParts, Strides
    <3>2. g[t.value_type][p] \in SUBSET Nat
      BY <1>1, <2>2, TypeParts
    <3>3. elements(g, t, p) \in SUBSET Nat
      BY <3>1, <3>2 DEF Shifted
    <3> HIDE DEF elements, members
    <3> QED BY <2>2, <3>3
  <2>3. CASE t.kind = "aggregate"
    <3>1. \A j \in DOMAIN t.members :
             t.members[j].offset \in Nat /\ g[t.members[j].type][p] \in SUBSET Nat
      BY <1>1, <2>3, TypeParts
    <3>2. members(g, t, p) \in SUBSET Nat
      BY <3>1 DEF Shifted
    <3> HIDE DEF elements, members
    <3> QED BY <2>3, <3>2
  <2> QED BY <2>1, <2>2, <2>3, TypeParts
<1>2. ASSUME NEW t \in Types, NEW f, NEW g, \A p \in PartTypes(t) : f[p] = g[p]
      PROVE  body(f, t) = body(g, t)
  <2> SUFFICES ASSUME NEW p \in BOOLEAN
               PROVE  bytes(f, t, p) = bytes(g, t, p)
    OBVIOUS
  <2>1. CASE t.kind = "scalar"
    BY <2>1
  <2>2. CASE t.kind = "container"
    <3>1. f[t.value_type] = g[t.value_type]
      BY <1>2, <2>2, TypeParts
    <3>2. elements(f, t, p) = elements(g, t, p)
      BY <3>1
    <3> HIDE DEF elements, members
    <3> QED BY <2>2, <3>2
  <2>3. CASE t.kind = "aggregate"
    <3>1. \A j \in DOMAIN t.members : f[t.members[j].type] = g[t.members[j].type]
      BY <1>2, <2>3, TypeParts
    <3>2. members(f, t, p) = members(g, t, p)
      BY <3>1
    <3> HIDE DEF elements, members
    <3> QED BY <2>3, <3>2
  <2> QED BY <2>1, <2>2, <2>3, TypeParts
<1> HIDE DEF body, V
<1>3. TypeSteps(V, step)
  <2>1. \A t \in Types : \A g \in [Types -> V] : body(g, t) \in V
    BY <1>1, TypesAssumption DEF LaidOut
  <2>2. step \in [Types -> [[Types -> V] -> V]]
    BY <2>1
  <2>3. LooksAtParts(V, step)
    BY <1>2 DEF LooksAtParts
  <2> HIDE DEF step
  <2>4. [p \in BOOLEAN |-> {}] \in V
    BY DEF V
  <2> QED BY <2>2, <2>3, <2>4 DEF TypeSteps
<1>4. PICK f : Computed(V, step, f)
  <2> HIDE DEF step
  <2> QED BY <1>3, TypeRecursion
<1>5. f = [t \in Types |-> body(f, t)]
  BY <1>4 DEF Computed
<1>6. ScalarBytes = [t \in Types |-> body(ScalarBytes, t)]
  BY <1>5 DEF ScalarBytes, body
<1>7. \A t \in Types : ScalarBytes[t] = body(ScalarBytes, t)
  BY <1>6
<1> DEFINE T == {t \in Types : ScalarBytes[t] \in V}
<1>8. ASSUME NEW t \in Types, \A p \in PartTypes(t) : p \in T
      PROVE  t \in T
  BY <1>1, <1>7, <1>8
<1>9. \A t \in Types : t \in T
  <2> HIDE DEF T
  <2> QED BY <1>8, TypeInduction
<1>10. \A t \in Types : \A p \in BOOLEAN : ScalarBytes[t][p] = bytes(ScalarBytes, t, p)
  <2> HIDE DEF bytes
  <2> QED BY <1>7 DEF body
<1>11. ASSUME NEW t \in Types, NEW p \in BOOLEAN
       PROVE  /\ t.kind = "scalar" =>
                    ScalarBytes[t][p] = IF t.pointer = p THEN 0 .. t.size - 1 ELSE {}
              /\ t.kind = "container" => ScalarBytes[t][p] = elements(ScalarBytes, t, p)
              /\ t.kind = "aggregate" => ScalarBytes[t][p] = members(ScalarBytes, t, p)
  <2> HIDE DEF elements, members
  <2> QED BY <1>10
<1>12. ASSUME NEW t \in Types, t.kind = "aggregate"
       PROVE  DOMAIN t.members = 1 .. Len(t.members)
  BY <1>12, TypeParts
<1>13. \A t \in Types : \A p \in BOOLEAN : ScalarBytes[t][p] \in SUBSET Nat
  BY <1>9 DEF V
<1> QED BY <1>11, <1>12, <1>13

-----------------------------------------------------------------------------
(* The moves of an object, put together from those of its parts.           *)

(* Moves between an object of so many bytes and so many in the buffer.     *)
InRoom(moves, size, raw) ==
    \A m \in moves : m \in ByteMoves /\ m.memory < size /\ m.wire < raw

(* No two bytes have the same source, and none the same target.            *)
OneToOne(moves) == \A m, n \in moves : m.memory = n.memory <=> m.wire = n.wire

Memory(moves) == {m.memory : m \in moves}

Assembled(I, moves, at, wire_at) ==
    UNION {ShiftedMoves(moves[i], at[i], wire_at[i]) : i \in I}

(* Offsets of parts of so many bytes that lie apart and within some room.  *)
Apart(I, at, sizes, room) ==
    /\ room \in Nat
    /\ \A i \in I : at[i] \in Nat /\ sizes[i] \in Nat /\ at[i] + sizes[i] <= room
    /\ \A i, j \in I : i # j => at[i] + sizes[i] <= at[j] \/ at[j] + sizes[j] <= at[i]

LEMMA InWhichPart ==
    ASSUME NEW I, NEW at, NEW sizes, NEW room, Apart(I, at, sizes, room),
           NEW i \in I, NEW j \in I, NEW x \in Nat, NEW y \in Nat,
           x < sizes[i], y < sizes[j], at[i] + x = at[j] + y
    PROVE  i = j /\ x = y
<1>1. /\ at[i] \in Nat /\ sizes[i] \in Nat /\ at[j] \in Nat /\ sizes[j] \in Nat
      /\ i # j => at[i] + sizes[i] <= at[j] \/ at[j] + sizes[j] <= at[i]
  BY DEF Apart
<1>2. i = j
  BY <1>1
<1> QED BY <1>1, <1>2

LEMMA AssembledIs ==
    ASSUME NEW I, NEW moves, NEW at, NEW wire_at, NEW sizes, NEW raws, NEW size, NEW raw,
           Apart(I, at, sizes, size), Apart(I, wire_at, raws, raw),
           \A i \in I : InRoom(moves[i], sizes[i], raws[i]) /\ OneToOne(moves[i])
    PROVE  /\ InRoom(Assembled(I, moves, at, wire_at), size, raw)
           /\ OneToOne(Assembled(I, moves, at, wire_at))
<1> DEFINE shifted(i, m) == [memory |-> at[i] + m.memory, wire |-> wire_at[i] + m.wire]
<1>1. \A x \in Assembled(I, moves, at, wire_at) : \E i \in I : \E m \in moves[i] : x = shifted(i, m)
  BY DEF Assembled, ShiftedMoves
<1>2. ASSUME NEW i \in I, NEW m \in moves[i]
      PROVE  /\ m.memory \in Nat /\ m.wire \in Nat
             /\ m.memory < sizes[i] /\ m.wire < raws[i]
             /\ at[i] \in Nat /\ sizes[i] \in Nat /\ at[i] + sizes[i] <= size
             /\ wire_at[i] \in Nat /\ raws[i] \in Nat /\ wire_at[i] + raws[i] <= raw
             /\ size \in Nat /\ raw \in Nat
  BY DEF Apart, InRoom, ByteMoves
<1>3. ASSUME NEW x \in Assembled(I, moves, at, wire_at)
      PROVE  x \in ByteMoves /\ x.memory < size /\ x.wire < raw
  <2>01. PICK i \in I : \E m \in moves[i] : x = shifted(i, m)
    BY <1>1
  <2>1. PICK m \in moves[i] : x = shifted(i, m)
    BY <2>01
  <2>2. x.memory = at[i] + m.memory /\ x.wire = wire_at[i] + m.wire
    BY <2>1
  <2>3. x \in ByteMoves
    BY <1>2, <2>1 DEF ByteMoves
  <2> QED BY <1>2, <2>2, <2>3
<1>4. ASSUME NEW x \in Assembled(I, moves, at, wire_at),
             NEW y \in Assembled(I, moves, at, wire_at)
      PROVE  x.memory = y.memory <=> x.wire = y.wire
  <2>01. PICK i \in I : \E m \in moves[i] : x = shifted(i, m)
    BY <1>1
  <2>1. PICK m \in moves[i] : x = shifted(i, m)
    BY <2>01
  <2>02. PICK j \in I : \E n \in moves[j] : y = shifted(j, n)
    BY <1>1
  <2>2. PICK n \in moves[j] : y = shifted(j, n)
    BY <2>02
  <2>3. /\ x.memory = at[i] + m.memory /\ x.wire = wire_at[i] + m.wire
        /\ y.memory = at[j] + n.memory /\ y.wire = wire_at[j] + n.wire
    BY <2>1, <2>2
  <2>4. /\ m.memory \in Nat /\ m.wire \in Nat /\ n.memory \in Nat /\ n.wire \in Nat
        /\ m.memory < sizes[i] /\ m.wire < raws[i] /\ n.memory < sizes[j] /\ n.wire < raws[j]
    BY <1>2
  <2>5. ASSUME x.memory = y.memory
        PROVE  x.wire = y.wire
    <3>1. i = j /\ m.memory = n.memory
      BY <2>3, <2>4, <2>5, InWhichPart
    <3>2. m.wire = n.wire
      BY <3>1 DEF OneToOne
    <3> QED BY <2>3, <3>1, <3>2
  <2>6. ASSUME x.wire = y.wire
        PROVE  x.memory = y.memory
    <3>1. i = j /\ m.wire = n.wire
      BY <2>3, <2>4, <2>6, InWhichPart
    <3>2. m.memory = n.memory
      BY <3>1 DEF OneToOne
    <3> QED BY <2>3, <3>1, <3>2
  <2> QED BY <2>5, <2>6
<1>5. InRoom(Assembled(I, moves, at, wire_at), size, raw)
  BY <1>3 DEF InRoom
<1>6. OneToOne(Assembled(I, moves, at, wire_at))
  BY <1>4 DEF OneToOne
<1> QED BY <1>5, <1>6

LEMMA ShiftedMemory ==
    ASSUME NEW moves, NEW at, NEW wire_at
    PROVE  Memory(ShiftedMoves(moves, at, wire_at)) = Shifted(Memory(moves), at)
<1>1. ASSUME NEW m \in moves
      PROVE  [memory |-> at + m.memory, wire |-> wire_at + m.wire].memory = at + m.memory
  OBVIOUS
<1>2. Memory(ShiftedMoves(moves, at, wire_at))
        = {[memory |-> at + m.memory, wire |-> wire_at + m.wire].memory : m \in moves}
  BY DEF Memory, ShiftedMoves
<1>3. Shifted(Memory(moves), at) = {at + m.memory : m \in moves}
  BY DEF Memory, Shifted
<1> QED BY <1>1, <1>2, <1>3

LEMMA AssembledMemory ==
    ASSUME NEW I, NEW moves, NEW others, NEW at, NEW wire_at, NEW others_at,
           \A i \in I : Memory(moves[i]) = Memory(others[i])
    PROVE  Memory(Assembled(I, moves, at, wire_at)) = Memory(Assembled(I, others, at, others_at))
<1>1. ASSUME NEW M, NEW w
      PROVE  Memory(Assembled(I, M, at, w)) = UNION {Shifted(Memory(M[i]), at[i]) : i \in I}
  <2>1. Memory(Assembled(I, M, at, w)) = UNION {Memory(ShiftedMoves(M[i], at[i], w[i])) : i \in I}
    BY DEF Memory, Assembled
  <2>2. \A i \in I : Memory(ShiftedMoves(M[i], at[i], w[i])) = Shifted(Memory(M[i]), at[i])
    BY ShiftedMemory
  <2> QED BY <2>1, <2>2
<1>2. UNION {Shifted(Memory(moves[i]), at[i]) : i \in I}
        = UNION {Shifted(Memory(others[i]), at[i]) : i \in I}
  OBVIOUS
<1> QED BY <1>1, <1>2

(* Where the elements of a container and the members of an aggregate lie.  *)
ElementsAt(t, stride) == [i \in 1 .. t.length |-> stride * (i - 1)]
MembersAt(t) == [j \in Copies(t) |-> t.members[j].offset]
MembersOnWire(t) == [j \in Copies(t) |-> WireBefore(t, j)]

LEMMA ElementsLieApart ==
    ASSUME NEW t \in Types, t.kind = "container"
    PROVE  /\ Apart(1 .. t.length, ElementsAt(t, t.value_type.size),
                    [i \in 1 .. t.length |-> t.value_type.size], t.size)
           /\ Apart(1 .. t.length, ElementsAt(t, RawSize[t.value_type]),
                    [i \in 1 .. t.length |-> RawSize[t.value_type]], RawSize[t])
<1> DEFINE n == t.length
           s == t.value_type.size
           r == RawSize[t.value_type]
<1>1. n \in Nat /\ s \in Nat /\ r \in Nat /\ n * s <= t.size /\ t.size \in Nat
  BY TypeParts, RawSizeIs
<1>2. RawSize[t] = n * r /\ RawSize[t] \in Nat
  BY RawSizeIs
<1> HIDE DEF n, s, r
<1>3. ASSUME NEW size \in Nat, NEW room \in Nat, n * size <= room
      PROVE  Apart(1 .. n, [i \in 1 .. n |-> size * (i - 1)], [i \in 1 .. n |-> size], room)
  <2>1. /\ \A i \in 1 .. n : size * (i - 1) \in Nat /\ size * (i - 1) + size <= n * size
        /\ \A i, j \in 1 .. n : i < j => size * (i - 1) + size <= size * (j - 1)
    BY <1>1, Strides
  <2>2. n * size \in Nat
    BY <1>1
  <2>3. \A i \in 1 .. n : size * (i - 1) + size <= room
    BY <1>3, <2>1, <2>2
  <2>4. \A i, j \in 1 .. n : i # j => i < j \/ j < i
    OBVIOUS
  <2> QED BY <2>1, <2>3, <2>4 DEF Apart
<1>4. Apart(1 .. n, [i \in 1 .. n |-> s * (i - 1)], [i \in 1 .. n |-> s], t.size)
  BY <1>1, <1>3
<1>5. Apart(1 .. n, [i \in 1 .. n |-> r * (i - 1)], [i \in 1 .. n |-> r], RawSize[t])
  <2>1. n * r <= RawSize[t]
    BY <1>2
  <2> QED BY <1>1, <1>2, <1>3, <2>1
<1> QED BY <1>4, <1>5 DEF ElementsAt, n, s, r

LEMMA MembersLieApart ==
    ASSUME NEW t \in Types, t.kind = "aggregate"
    PROVE  /\ Apart(Copies(t), MembersAt(t), [j \in Copies(t) |-> t.members[j].type.size], t.size)
           /\ Apart(Copies(t), MembersOnWire(t), [j \in Copies(t) |-> RawSize[t.members[j].type]],
                    RawSize[t])
<1> DEFINE n == Len(t.members)
           I == Copies(t)
<1>1. /\ DOMAIN t.members = 1 .. n
      /\ \A i \in 1 .. n :
            /\ t.members[i].type \in Types /\ t.members[i].type.size \in Nat
            /\ t.members[i].offset \in Nat
            /\ t.members[i].offset + t.members[i].type.size <= t.size
  BY TypeParts
<1>2. I \subseteq 1 .. n /\ \A j \in I : NonSkipped(t.members[j])
  BY DEF Copies, Serializable, NonSkipped
<1>3. \A i, j \in 1 .. n :
         i # j => \/ t.members[i].offset + t.members[i].type.size <= t.members[j].offset
                  \/ t.members[j].offset + t.members[j].type.size <= t.members[i].offset
  BY <1>1, TypesAssumption DEF LaidOut
<1>4. t.size \in Nat /\ RawSize[t] \in Nat
  BY TypeParts, RawSizeIs
<1>5. \A j \in I : MemberSizes(t)[j] = RawSize[t.members[j].type] /\ RawSize[t.members[j].type] \in Nat
  BY <1>1, <1>2, MemberSizesAre, RawSizeIs
<1>6. /\ \A j \in I : /\ WireBefore(t, j) \in Nat
                      /\ WireBefore(t, j) + RawSize[t.members[j].type] <= RawSize[t]
      /\ \A i, j \in I : i < j => WireBefore(t, i) + RawSize[t.members[i].type] <= WireBefore(t, j)
  BY <1>2, <1>5, WireBeforeIs
<1>7. \A i, j \in I : i # j => i < j \/ j < i
  BY <1>2
<1> HIDE DEF n, I
<1>8. Apart(I, [j \in I |-> t.members[j].offset], [j \in I |-> t.members[j].type.size], t.size)
  BY <1>1, <1>2, <1>3, <1>4 DEF Apart
<1>9. Apart(I, [j \in I |-> WireBefore(t, j)], [j \in I |-> RawSize[t.members[j].type]], RawSize[t])
  BY <1>4, <1>5, <1>6, <1>7 DEF Apart
<1> QED BY <1>8, <1>9 DEF MembersAt, MembersOnWire, I

-----------------------------------------------------------------------------
(* Visiting the fields.                                                    *)

(* A call moves each byte on the wire of an object, and no other, to a     *)
(* byte of its own in the room the object has in the buffer.               *)
Sound(t, how) ==
    /\ InRoom(MoveSet(t, how), t.size, RawSize[t])
    /\ OneToOne(MoveSet(t, how))
    /\ Memory(MoveSet(t, how)) = OnWire(t)

LEMMA FieldsAreMoved ==
    ASSUME NEW t
    PROVE  /\ OnWire(t) = Memory(MoveSet(t, "fields")) /\ Range(Fields(t)) = MoveSet(t, "fields")
           /\ "fields" \in Hows /\ ~Flat(t, "fields") /\ "swapped" \in Hows /\ ~Flat(t, "swapped")
BY DEF OnWire, Memory, Fields, MoveSet, Hows, Flat

(* The moves of the elements of a container, and of the members of an      *)
(* aggregate.                                                              *)
ElementMoves(t, how) == [i \in 1 .. t.length |-> MoveSet(t.value_type, how)]
MemberMoves(t, how) == [j \in Copies(t) |-> MoveSet(t.members[j].type, how)]

LEMMA MovesAreAssembled ==
    ASSUME NEW t \in Types, NEW how \in Hows, ~Flat(t, how)
    PROVE  /\ t.kind = "container" =>
                 MoveSet(t, how) = Assembled(1 .. t.length, ElementMoves(t, how),
                                             ElementsAt(t, t.value_type.size),
                                             ElementsAt(t, RawSize[t.value_type]))
           /\ t.kind = "aggregate" =>
                 MoveSet(t, how) = Assembled(Copies(t), MemberMoves(t, how),
                                             MembersAt(t), MembersOnWire(t))
<1>1. ASSUME t.kind = "container"
      PROVE  MoveSet(t, how) = Assembled(1 .. t.length, ElementMoves(t, how),
                                         ElementsAt(t, t.value_type.size),
                                         ElementsAt(t, RawSize[t.value_type]))
  <2>1. MoveSet(t, how) = UNION {ShiftedMoves(MoveSet(t.value_type, how),
                                    t.value_type.size * (i - 1), RawSize[t.value_type] * (i - 1)) :
                                    i \in 1 .. t.length}
    BY <1>1, MovesAre
  <2> QED BY <2>1 DEF Assembled, ElementMoves, ElementsAt
<1>2. ASSUME t.kind = "aggregate"
      PROVE  MoveSet(t, how) = Assembled(Copies(t), MemberMoves(t, how),
                                         MembersAt(t), MembersOnWire(t))
  <2>1. MoveSet(t, how) = UNION {ShiftedMoves(MoveSet(t.members[j].type, how),
                                    t.members[j].offset, WireBefore(t, j)) : j \in Copies(t)}
    BY <1>2, MovesAre
  <2> QED BY <2>1 DEF Assembled, MemberMoves, MembersAt, MembersOnWire
<1> QED BY <1>1, <1>2

LEMMA ScalarsAreSound ==
    ASSUME NEW t \in Types, t.kind = "scalar", NEW how \in Hows, ~Flat(t, how)
    PROVE  Sound(t, how)
<1> DEFINE n == t.size
           goesTo(k) == IF how = "swapped" THEN n - 1 - k ELSE k
           byte(k) == [memory |-> k, wire |-> goesTo(k)]
<1>1. n \in Nat /\ RawSize[t] = n
  BY TypeParts, RawSizeIs
<1>2. MoveSet(t, how) = {byte(k) : k \in 0 .. n - 1}
  BY MovesAre DEF ScalarMoves
<1>3. MoveSet(t, "fields") = {[memory |-> k, wire |-> k] : k \in 0 .. n - 1}
  <2>1. MoveSet(t, "fields") = ScalarMoves(n, "fields")
    BY FieldsAreMoved, MovesAre
  <2> QED BY <2>1 DEF ScalarMoves
<1> HIDE DEF n
<1>4. \A k \in 0 .. n - 1 : goesTo(k) \in Nat /\ goesTo(k) < n /\ k \in Nat /\ k < n
  BY <1>1
<1>5. \A k, l \in 0 .. n - 1 : goesTo(k) = goesTo(l) <=> k = l
  BY <1>1
<1> HIDE DEF goesTo
<1>6. InRoom(MoveSet(t, how), n, n)
  BY <1>2, <1>4 DEF InRoom, ByteMoves
<1>7. OneToOne(MoveSet(t, how))
  BY <1>2, <1>5 DEF OneToOne
<1>08. \A k \in 0 .. n - 1 : byte(k).memory = k
  OBVIOUS
<1> HIDE DEF byte
<1>8. Memory(MoveSet(t, how)) = 0 .. n - 1
  BY <1>2, <1>08 DEF Memory
<1>9. OnWire(t) = 0 .. n - 1
  <2> DEFINE field(k) == [memory |-> k, wire |-> k]
  <2>1. \A k \in 0 .. n - 1 : field(k).memory = k
    OBVIOUS
  <2>2. MoveSet(t, "fields") = {field(k) : k \in 0 .. n - 1}
    BY <1>3
  <2> HIDE DEF field
  <2>3. Memory(MoveSet(t, "fields")) = 0 .. n - 1
    BY <2>1, <2>2 DEF Memory
  <2> QED BY <2>3, FieldsAreMoved
<1> QED BY <1>1, <1>6, <1>7, <1>8, <1>9 DEF Sound, n

LEMMA PartsMakeSound ==
    ASSUME NEW t \in Types, NEW how \in Hows, ~Flat(t, how),
           t.kind = "container" /\ t.length > 0 => Sound(t.value_type, how),
           t.kind = "aggregate" => \A j \in Copies(t) : Sound(t.members[j].type, how)
    PROVE  Sound(t, how)
<1>1. CASE t.kind = "scalar"
  BY <1>1, ScalarsAreSound
<1>2. CASE t.kind = "container"
  <2> DEFINE I == 1 .. t.length
             at == ElementsAt(t, t.value_type.size)
             wire_at == ElementsAt(t, RawSize[t.value_type])
             sizes == [i \in I |-> t.value_type.size]
             raws == [i \in I |-> RawSize[t.value_type]]
             M == ElementMoves(t, how)
             F == ElementMoves(t, "fields")
  <2>1. Apart(I, at, sizes, t.size) /\ Apart(I, wire_at, raws, RawSize[t])
    BY <1>2, ElementsLieApart
  <2>2. /\ MoveSet(t, how) = Assembled(I, M, at, wire_at)
        /\ MoveSet(t, "fields") = Assembled(I, F, at, wire_at)
    BY <1>2, MovesAreAssembled, FieldsAreMoved
  <2>3. t.length \in Nat
    BY <1>2, TypeParts
  <2>4. \A i \in I : Sound(t.value_type, how)
    BY <1>2, <2>3
  <2>5. \A i \in I : /\ InRoom(M[i], sizes[i], raws[i]) /\ OneToOne(M[i])
                     /\ Memory(M[i]) = Memory(F[i])
    BY <2>4, FieldsAreMoved DEF Sound, ElementMoves
  <2> HIDE DEF I, at, wire_at, sizes, raws, M, F
  <2>6. /\ InRoom(Assembled(I, M, at, wire_at), t.size, RawSize[t])
        /\ OneToOne(Assembled(I, M, at, wire_at))
    BY <2>1, <2>5, AssembledIs
  <2>7. Memory(Assembled(I, M, at, wire_at)) = Memory(Assembled(I, F, at, wire_at))
    BY <2>5, AssembledMemory
  <2> QED BY <2>2, <2>6, <2>7, FieldsAreMoved DEF Sound
<1>3. CASE t.kind = "aggregate"
  <2> DEFINE I == Copies(t)
             at == MembersAt(t)
             wire_at == MembersOnWire(t)
             sizes == [j \in I |-> t.members[j].type.size]
             raws == [j \in I |-> RawSize[t.members[j].type]]
             M == MemberMoves(t, how)
             F == MemberMoves(t, "fields")
  <2>1. Apart(I, at, sizes, t.size) /\ Apart(I, wire_at, raws, RawSize[t])
    BY <1>3, MembersLieApart
  <2>2. /\ MoveSet(t, how) = Assembled(I, M, at, wire_at)
        /\ MoveSet(t, "fields") = Assembled(I, F, at, wire_at)
    BY <1>3, MovesAreAssembled, FieldsAreMoved
  <2>5. \A i \in I : /\ InRoom(M[i], sizes[i], raws[i]) /\ OneToOne(M[i])
                     /\ Memory(M[i]) = Memory(F[i])
    BY <1>3, FieldsAreMoved DEF Sound, MemberMoves
  <2> HIDE DEF I, at, wire_at, sizes, raws, M, F
  <2>6. /\ InRoom(Assembled(I, M, at, wire_at), t.size, RawSize[t])
        /\ OneToOne(Assembled(I, M, at, wire_at))
    BY <2>1, <2>5, AssembledIs
  <2>7. Memory(Assembled(I, M, at, wire_at)) = Memory(Assembled(I, F, at, wire_at))
    BY <2>5, AssembledMemory
  <2> QED BY <2>2, <2>6, <2>7, FieldsAreMoved DEF Sound
<1> QED BY <1>1, <1>2, <1>3, TypeParts

(* Whichever way the bytes of the scalars go.                              *)
LEMMA VisitingIsSound ==
    \A t \in Types : Sound(t, "fields") /\ Sound(t, "swapped")
<1> DEFINE T == {t \in Types : Sound(t, "fields") /\ Sound(t, "swapped")}
<1>1. ASSUME NEW t \in Types, \A p \in PartTypes(t) : p \in T
      PROVE  t \in T
  <2>1. t.kind = "container" => t.value_type \in T
    BY <1>1, TypeParts
  <2>2. ASSUME t.kind = "aggregate", NEW j \in Copies(t)
        PROVE  t.members[j].type \in T
    <3>1. j \in 1 .. Len(t.members)
      BY DEF Copies
    <3> QED BY <1>1, <2>2, <3>1, TypeParts
  <2>3. ASSUME NEW how \in {"fields", "swapped"}
        PROVE  Sound(t, how)
    <3>1. how \in Hows /\ ~Flat(t, how)
      BY FieldsAreMoved
    <3>2. /\ t.kind = "container" => Sound(t.value_type, how)
          /\ t.kind = "aggregate" => \A j \in Copies(t) : Sound(t.members[j].type, how)
      BY <2>1, <2>2
    <3> QED BY <3>1, <3>2, PartsMakeSound
  <2> QED BY <2>3
<1>2. \A t \in Types : t \in T
  <2> HIDE DEF T
  <2> QED BY <1>1, TypeInduction
<1> QED BY <1>2

-----------------------------------------------------------------------------
(* Copying flat.  Each byte that is moved when the fields are visited has  *)
(* a twin in the layout, which is never further on in memory and never     *)
(* further back in the buffer; the type is misplaced if one of them lies   *)
(* somewhere else.                                                         *)

Twins(B, fields, flat) ==
    /\ fields = {b.field : b \in B} /\ flat = {b.flat : b \in B}
    /\ \A b \in B : /\ b.field \in ByteMoves /\ b.flat \in ByteMoves
                    /\ b.flat.memory <= b.field.memory /\ b.field.wire <= b.flat.wire
    /\ \A b, c \in B : b.field = c.field => b = c

Displaced(B) == \E b \in B : b.flat # b.field

(* Parts that are placed, in the layout, where they are not.               *)
Replaced(I, at, flat_at, wire_at, flat_wire_at) ==
    \A i \in I : /\ at[i] \in Nat /\ flat_at[i] \in Nat /\ flat_at[i] <= at[i]
                 /\ wire_at[i] \in Nat /\ flat_wire_at[i] \in Nat
                 /\ wire_at[i] <= flat_wire_at[i]

DisplacedParts(I, B, at, flat_at, wire_at, flat_wire_at) ==
    \E i \in I : \E b \in B[i] :
       b.flat # b.field \/ flat_at[i] # at[i] \/ flat_wire_at[i] # wire_at[i]

Shift(m, a, w) == [memory |-> a + m.memory, wire |-> w + m.wire]

LEMMA AssembledTwins ==
    ASSUME NEW I, NEW B, NEW fields, NEW flats, NEW at, NEW flat_at,
           NEW wire_at, NEW flat_wire_at, NEW sizes, NEW raws, NEW size,
           Apart(I, at, sizes, size), Replaced(I, at, flat_at, wire_at, flat_wire_at),
           \A i \in I : Twins(B[i], fields[i], flats[i]) /\ InRoom(fields[i], sizes[i], raws[i])
    PROVE  \E C : /\ Twins(C, Assembled(I, fields, at, wire_at),
                           Assembled(I, flats, flat_at, flat_wire_at))
                  /\ Displaced(C) <=> DisplacedParts(I, B, at, flat_at, wire_at, flat_wire_at)
<1> DEFINE twin(i, b) == [field |-> Shift(b.field, at[i], wire_at[i]),
                          flat |-> Shift(b.flat, flat_at[i], flat_wire_at[i])]
           C == UNION {{twin(i, b) : b \in B[i]} : i \in I}
<1>1. ASSUME NEW i \in I, NEW b \in B[i]
      PROVE  /\ twin(i, b).field.memory = at[i] + b.field.memory
             /\ twin(i, b).field.wire = wire_at[i] + b.field.wire
             /\ twin(i, b).flat.memory = flat_at[i] + b.flat.memory
             /\ twin(i, b).flat.wire = flat_wire_at[i] + b.flat.wire
             /\ twin(i, b).field = Shift(b.field, at[i], wire_at[i])
             /\ twin(i, b).flat = Shift(b.flat, flat_at[i], flat_wire_at[i])
  BY DEF Shift
<1>2. ASSUME NEW i \in I, NEW b \in B[i]
      PROVE  /\ b.field.memory \in Nat /\ b.field.wire \in Nat
             /\ b.flat.memory \in Nat /\ b.flat.wire \in Nat
             /\ b.flat.memory <= b.field.memory /\ b.field.wire <= b.flat.wire
             /\ b.field \in ByteMoves /\ b.flat \in ByteMoves
             /\ b.field.memory < sizes[i]
             /\ at[i] \in Nat /\ flat_at[i] \in Nat /\ flat_at[i] <= at[i]
             /\ wire_at[i] \in Nat /\ flat_wire_at[i] \in Nat /\ wire_at[i] <= flat_wire_at[i]
  <2>1. /\ b.field \in ByteMoves /\ b.flat \in ByteMoves
        /\ b.flat.memory <= b.field.memory /\ b.field.wire <= b.flat.wire
        /\ b.field \in fields[i]
    BY DEF Twins
  <2>2. b.field.memory < sizes[i]
    BY <2>1 DEF InRoom
  <2> QED BY <2>1, <2>2 DEF ByteMoves, Replaced
<1>3. ASSUME NEW i \in I, NEW b \in B[i]
      PROVE  twin(i, b).flat # twin(i, b).field <=>
                b.flat # b.field \/ flat_at[i] # at[i] \/ flat_wire_at[i] # wire_at[i]
  <2>1. twin(i, b).flat = twin(i, b).field <=>
           /\ flat_at[i] + b.flat.memory = at[i] + b.field.memory
           /\ flat_wire_at[i] + b.flat.wire = wire_at[i] + b.field.wire
    BY <1>1 DEF Shift
  <2>2. /\ flat_at[i] + b.flat.memory = at[i] + b.field.memory
           <=> flat_at[i] = at[i] /\ b.flat.memory = b.field.memory
        /\ flat_wire_at[i] + b.flat.wire = wire_at[i] + b.field.wire
           <=> flat_wire_at[i] = wire_at[i] /\ b.flat.wire = b.field.wire
    <3> DEFINE fm == b.flat.memory
               m == b.field.memory
               fw == b.flat.wire
               w == b.field.wire
    <3>1. fm \in Nat /\ m \in Nat /\ fw \in Nat /\ w \in Nat /\ fm <= m /\ w <= fw
      BY <1>2
    <3> HIDE DEF fm, m, fw, w
    <3>2. /\ flat_at[i] + fm = at[i] + m <=> flat_at[i] = at[i] /\ fm = m
          /\ flat_wire_at[i] + fw = wire_at[i] + w <=> flat_wire_at[i] = wire_at[i] /\ fw = w
      BY <1>2, <3>1
    <3> QED BY <3>2 DEF fm, m, fw, w
  <2>3. b.flat = b.field <=> b.flat.memory = b.field.memory /\ b.flat.wire = b.field.wire
    BY <1>2 DEF ByteMoves
  <2> QED BY <2>1, <2>2, <2>3
<1>4. ASSUME NEW i \in I, NEW b \in B[i], NEW j \in I, NEW c \in B[j],
             twin(i, b).field = twin(j, c).field
      PROVE  twin(i, b) = twin(j, c)
  <2>1. /\ at[i] + b.field.memory = at[j] + c.field.memory
        /\ wire_at[i] + b.field.wire = wire_at[j] + c.field.wire
    BY <1>1, <1>4
  <2>2. i = j /\ b.field.memory = c.field.memory
    BY <1>2, <2>1, InWhichPart
  <2>3. b.field.wire = c.field.wire
    <3>1. b.field.wire \in Nat /\ c.field.wire \in Nat /\ wire_at[i] \in Nat
      BY <1>2
    <3> QED BY <2>1, <2>2, <3>1
  <2>4. b.field = c.field
    BY <1>2, <2>2, <2>3 DEF ByteMoves
  <2>5. b = c
    BY <2>2, <2>4 DEF Twins
  <2> QED BY <2>2, <2>5
<1>5. ASSUME NEW i \in I, NEW b \in B[i]
      PROVE  /\ twin(i, b).field \in ByteMoves /\ twin(i, b).flat \in ByteMoves
             /\ twin(i, b).flat.memory <= twin(i, b).field.memory
             /\ twin(i, b).field.wire <= twin(i, b).flat.wire
  <2>1. Shift(b.field, at[i], wire_at[i]) \in ByteMoves
    BY <1>2 DEF ByteMoves, Shift
  <2>2. Shift(b.flat, flat_at[i], flat_wire_at[i]) \in ByteMoves
    BY <1>2 DEF ByteMoves, Shift
  <2> QED BY <1>1, <1>2, <2>1, <2>2
<1>6. Assembled(I, fields, at, wire_at) = UNION {{twin(i, b).field : b \in B[i]} : i \in I}
  <2>1. \A i \in I : fields[i] = {b.field : b \in B[i]}
    BY DEF Twins
  <2>2. \A i \in I : ShiftedMoves(fields[i], at[i], wire_at[i]) = {twin(i, b).field : b \in B[i]}
    BY <2>1, <1>1 DEF ShiftedMoves, Shift
  <2> HIDE DEF twin
  <2> QED BY <2>2 DEF Assembled
<1>7. Assembled(I, flats, flat_at, flat_wire_at) = UNION {{twin(i, b).flat : b \in B[i]} : i \in I}
  <2>1. \A i \in I : flats[i] = {b.flat : b \in B[i]}
    BY DEF Twins
  <2>2. \A i \in I : ShiftedMoves(flats[i], flat_at[i], flat_wire_at[i])
                       = {twin(i, b).flat : b \in B[i]}
    BY <2>1, <1>1 DEF ShiftedMoves, Shift
  <2> HIDE DEF twin
  <2> QED BY <2>2 DEF Assembled
<1> HIDE DEF twin
<1>8. \A c \in C : \E i \in I : \E b \in B[i] : c = twin(i, b)
  OBVIOUS
<1>9. \A i \in I : \A b \in B[i] : twin(i, b) \in C
  OBVIOUS
<1>10. /\ Assembled(I, fields, at, wire_at) = {c.field : c \in C}
       /\ Assembled(I, flats, flat_at, flat_wire_at) = {c.flat : c \in C}
  <2> HIDE DEF C
  <2> QED BY <1>6, <1>7, <1>8, <1>9
<1> HIDE DEF C
<1>11. /\ \A c \in C : /\ c.field \in ByteMoves /\ c.flat \in ByteMoves
                       /\ c.flat.memory <= c.field.memory /\ c.field.wire <= c.flat.wire
       /\ \A c, d \in C : c.field = d.field => c = d
  <2>1. ASSUME NEW c \in C
        PROVE  /\ c.field \in ByteMoves /\ c.flat \in ByteMoves
               /\ c.flat.memory <= c.field.memory /\ c.field.wire <= c.flat.wire
    <3>01. PICK i \in I : \E b \in B[i] : c = twin(i, b)
      BY <1>8
    <3>1. PICK b \in B[i] : c = twin(i, b)
      BY <3>01
    <3> QED BY <1>5, <3>1
  <2>2. ASSUME NEW c \in C, NEW d \in C, c.field = d.field
        PROVE  c = d
    <3>01. PICK i \in I : \E b \in B[i] : c = twin(i, b)
      BY <1>8
    <3>1. PICK b \in B[i] : c = twin(i, b)
      BY <3>01
    <3>02. PICK j \in I : \E b1 \in B[j] : d = twin(j, b1)
      BY <1>8
    <3>2. PICK b1 \in B[j] : d = twin(j, b1)
      BY <3>02
    <3> QED BY <1>4, <2>2, <3>1, <3>2
  <2> QED BY <2>1, <2>2
<1>12. Displaced(C) <=> \E i \in I : \E b \in B[i] : twin(i, b).flat # twin(i, b).field
  BY <1>8, <1>9 DEF Displaced
<1>13. Twins(C, Assembled(I, fields, at, wire_at), Assembled(I, flats, flat_at, flat_wire_at))
  BY <1>10, <1>11 DEF Twins
<1>14. Displaced(C) <=> DisplacedParts(I, B, at, flat_at, wire_at, flat_wire_at)
  BY <1>3, <1>12 DEF DisplacedParts
<1> QED BY <1>13, <1>14

(* Bytes with displaced twins are not those of the fields: none can stand  *)
(* in for the one whose place in the buffer is the first to be empty.      *)
LEMMA DisplacedDiffer ==
    ASSUME NEW B, NEW fields, NEW flat, Twins(B, fields, flat), OneToOne(fields)
    PROVE  flat # fields <=> Displaced(B)
<1>1. ASSUME NEW b \in B
      PROVE  /\ b.field \in fields /\ b.flat \in flat
             /\ b.field \in ByteMoves /\ b.flat \in ByteMoves
             /\ b.field.memory \in Nat /\ b.field.wire \in Nat
             /\ b.flat.memory \in Nat /\ b.flat.wire \in Nat
             /\ b.field.wire <= b.flat.wire
  BY DEF Twins, ByteMoves
<1>2. ASSUME ~Displaced(B)
      PROVE  flat = fields
  BY <1>2 DEF Displaced, Twins
<1>3. ASSUME Displaced(B), flat = fields
      PROVE  FALSE
  <2> DEFINE W == {b.field.wire : b \in {c \in B : c.field.wire < c.flat.wire}}
  <2>1. CASE W # {}
    <3>1. W \subseteq Nat
      BY <1>1
    <3>2. PICK w \in W : \A v \in W : w <= v
      <4> HIDE DEF W
      <4> QED BY <2>1, <3>1, LeastNumber
    <3>3. PICK b \in B : w = b.field.wire /\ b.field.wire < b.flat.wire
      OBVIOUS
    <3>4. PICK c \in B : c.flat = b.field
      BY <1>1, <1>3 DEF Twins
    <3>5. c.field.wire <= w /\ c.field.wire \in Nat /\ w \in Nat
      BY <1>1, <3>3, <3>4
    <3>6. ~(c.field.wire < c.flat.wire)
      <4>1. ASSUME c.field.wire < c.flat.wire
            PROVE  FALSE
        <5>1. c.field.wire \in W
          BY <4>1
        <5> HIDE DEF W
        <5>2. w <= c.field.wire
          BY <3>2, <5>1
        <5> QED BY <3>3, <3>4, <3>5, <4>1, <5>2
      <4> QED BY <4>1
    <3>7. c.field.wire = b.field.wire
      BY <3>3, <3>4, <3>5, <3>6
    <3>8. c.field = b.field
      <4>1. c.field.memory = b.field.memory
        BY <1>1, <3>7 DEF OneToOne
      <4> QED BY <1>1, <3>7, <4>1 DEF ByteMoves
    <3>9. c = b
      BY <3>8 DEF Twins
    <3> QED BY <1>1, <3>3, <3>4, <3>9
  <2>2. CASE W = {}
    <3>1. \A b \in B : b.field.wire = b.flat.wire
      BY <1>1, <2>2
    <3>2. PICK b \in B : b.flat # b.field
      BY <1>3 DEF Displaced
    <3>3. b.flat.memory = b.field.memory
      BY <1>1, <1>3, <3>1 DEF OneToOne
    <3>4. b.flat = b.field
      BY <1>1, <3>1, <3>3 DEF ByteMoves
    <3> QED BY <3>2, <3>4
  <2> QED BY <2>1, <2>2
<1> QED BY <1>2, <1>3

LEMMA FieldsAreEmpty ==
    ASSUME NEW t \in Types
    PROVE  Fields(t) = << >> <=> MoveSet(t, "fields") = {}
<1>1. Moves[t]["fields"] \in Seq(ByteMoves)
  BY MovesAre, FieldsAreMoved
<1>2. ASSUME NEW s \in Seq(ByteMoves)
      PROVE  s = << >> <=> Range(s) = {}
  <2>1. s = << >> => Range(s) = {}
    BY DEF Range
  <2>2. ASSUME s # << >>
        PROVE  s[1] \in Range(s)
    <3>1. 1 \in DOMAIN s
      BY <2>2
    <3> QED BY <3>1 DEF Range
  <2> QED BY <2>1, <2>2
<1> QED BY <1>1, <1>2 DEF Fields, MoveSet

(* Twins of the bytes of a type.                                           *)
TwinsFor(B, t) ==
    /\ Twins(B, MoveSet(t, "fields"), FlatBytes(t))
    /\ Misplaced[t] <=> Displaced(B)

LEMMA ScalarTwins ==
    ASSUME NEW t \in Types, t.kind = "scalar"
    PROVE  \E B : TwinsFor(B, t)
<1> DEFINE byte(k) == [memory |-> k, wire |-> k]
           twin(k) == [field |-> byte(k), flat |-> byte(k)]
           B == {twin(k) : k \in 0 .. t.size - 1}
<1>1. MoveSet(t, "fields") = {byte(k) : k \in 0 .. t.size - 1}
  <2>1. MoveSet(t, "fields") = ScalarMoves(t.size, "fields")
    BY FieldsAreMoved, MovesAre
  <2> QED BY <2>1 DEF ScalarMoves
<1>2. FlatBytes(t) = {byte(k) : k \in 0 .. t.size - 1}
  BY EnumerateIs
<1>3. \A k \in 0 .. t.size - 1 : byte(k) \in ByteMoves /\ byte(k).memory = k /\ byte(k).wire = k
  BY TypeParts DEF ByteMoves
<1>03. \A k \in 0 .. t.size - 1 : k <= k
  BY TypeParts
<1> HIDE DEF byte
<1>003. \A k \in 0 .. t.size - 1 : twin(k).field = byte(k) /\ twin(k).flat = byte(k)
  OBVIOUS
<1> HIDE DEF twin
<1>4. {b.field : b \in B} = {twin(k).field : k \in 0 .. t.size - 1}
  OBVIOUS
<1>5. {b.flat : b \in B} = {twin(k).flat : k \in 0 .. t.size - 1}
  OBVIOUS
<1>6. MoveSet(t, "fields") = {b.field : b \in B} /\ FlatBytes(t) = {b.flat : b \in B}
  BY <1>1, <1>2, <1>003, <1>4, <1>5
<1>7. \A b \in B : \E k \in 0 .. t.size - 1 : b = twin(k)
  OBVIOUS
<1> HIDE DEF B
<1>8. \A b \in B : /\ b.field \in ByteMoves /\ b.flat \in ByteMoves
                   /\ b.flat.memory <= b.field.memory /\ b.field.wire <= b.flat.wire
                   /\ b.flat = b.field
  BY <1>3, <1>03, <1>003, <1>7
<1>9. \A b, c \in B : b.field = c.field => b = c
  BY <1>3, <1>003, <1>7
<1>10. Twins(B, MoveSet(t, "fields"), FlatBytes(t))
  BY <1>6, <1>8, <1>9 DEF Twins
<1>11. ~Misplaced[t] /\ ~Displaced(B)
  BY <1>8, MisplacedIs DEF Displaced
<1> QED BY <1>10, <1>11 DEF TwinsFor

LEMMA ContainerTwins ==
    ASSUME NEW t \in Types, t.kind = "container", NEW B, TwinsFor(B, t.value_type)
    PROVE  \E C : TwinsFor(C, t)
<1> DEFINE v == t.value_type
           I == 1 .. t.length
           at == ElementsAt(t, v.size)
           wire_at == ElementsAt(t, RawSize[v])
           sizes == [i \in I |-> v.size]
           raws == [i \in I |-> RawSize[v]]
           F == ElementMoves(t, "fields")
           flats == [i \in I |-> FlatBytes(v)]
           Bs == [i \in I |-> B]
<1>1. Apart(I, at, sizes, t.size)
  BY ElementsLieApart
<1>2. v \in Types /\ t.length \in Nat /\ v.size \in Nat /\ RawSize[v] \in Nat /\ RawSize[v] <= v.size
  BY TypeParts, RawSizeIs, RawSizeFits
<1>3. /\ MoveSet(t, "fields") = Assembled(I, F, at, wire_at)
      /\ FlatBytes(t) = Assembled(I, flats, at, at)
  <2>1. MoveSet(t, "fields") = Assembled(I, F, at, wire_at)
    BY MovesAreAssembled, FieldsAreMoved
  <2>2. FlatBytes(t) = UNION {ShiftedMoves(FlatBytes(v), v.size * (i - 1), v.size * (i - 1)) :
                                 i \in 1 .. t.length}
    BY EnumerateIs
  <2> HIDE DEF v
  <2>3. FlatBytes(t) = Assembled(I, flats, at, at)
    BY <2>2 DEF Assembled, ElementsAt
  <2> QED BY <2>1, <2>3 DEF v
<1>4. \A i \in I : Twins(Bs[i], F[i], flats[i]) /\ InRoom(F[i], sizes[i], raws[i])
  BY <1>2, VisitingIsSound DEF TwinsFor, ElementMoves, Sound
<1>5. ASSUME NEW i \in I
      PROVE  /\ at[i] \in Nat /\ wire_at[i] \in Nat /\ wire_at[i] <= at[i]
             /\ at[i] # wire_at[i] <=> i # 1 /\ v.size # RawSize[v]
  <2> DEFINE s == v.size
             r == RawSize[v]
             k == i - 1
  <2>1. s \in Nat /\ r \in Nat /\ r <= s /\ k \in Nat /\ (k = 0 <=> i = 1)
    BY <1>2
  <2>2. at[i] = s * k /\ wire_at[i] = r * k
    BY DEF ElementsAt
  <2> HIDE DEF s, r, k, at, wire_at
  <2>3. PICK d \in Nat : s = r + d
    <3>1. s - r \in Nat /\ s = r + (s - r)
      BY <2>1
    <3> QED BY <3>1
  <2>4. s * k = r * k + d * k /\ r * k \in Nat /\ s * k \in Nat /\ d * k \in Nat
    BY <2>1, <2>3
  <2>5. d * k = 0 <=> d = 0 \/ k = 0
    <3>1. d # 0 /\ k # 0 => d * k > 0
      BY <2>1
    <3> QED BY <2>1, <3>1
  <2>6. s # r <=> d # 0
    BY <2>1, <2>3
  <2> HIDE DEF v
  <2>7. r * k <= s * k /\ (s * k # r * k <=> i # 1 /\ s # r)
    BY <2>1, <2>4, <2>5, <2>6
  <2> QED BY <2>2, <2>4, <2>7 DEF s, r
<1>6. Replaced(I, at, at, wire_at, at)
  <2> HIDE DEF v, I, at, wire_at
  <2>1. \A i \in I : at[i] \in Nat /\ wire_at[i] \in Nat /\ wire_at[i] <= at[i] /\ at[i] <= at[i]
    BY <1>5
  <2> QED BY <2>1 DEF Replaced
<1>7. PICK C : /\ Twins(C, Assembled(I, F, at, wire_at), Assembled(I, flats, at, at))
               /\ Displaced(C) <=> DisplacedParts(I, Bs, at, at, wire_at, at)
  <2> HIDE DEF v, I, at, wire_at, sizes, raws, F, flats, Bs
  <2> QED BY <1>1, <1>4, <1>6, AssembledTwins
<1>8. Displaced(C) <=>
         \E i \in I : \E b \in B : b.flat # b.field \/ at[i] # wire_at[i]
  <2> HIDE DEF v, I, at, wire_at
  <2>1. \A i \in I : Bs[i] = B
    OBVIOUS
  <2> HIDE DEF Bs
  <2> QED BY <1>7, <2>1 DEF DisplacedParts
<1>9. Fields(v) # << >> <=> B # {}
  <2>1. MoveSet(v, "fields") = {b.field : b \in B}
    BY DEF TwinsFor, Twins
  <2> QED BY <1>2, <2>1, FieldsAreEmpty
<1>10. Misplaced[v] <=> \E b \in B : b.flat # b.field
  BY DEF TwinsFor, Displaced
<1>11. Misplaced[t] <=> \/ t.length > 0 /\ Misplaced[v]
                        \/ t.length > 1 /\ v.size # RawSize[v] /\ Fields(v) # << >>
  BY MisplacedIs
<1>12. Misplaced[t] <=> Displaced(C)
  <2> HIDE DEF v, at, wire_at
  <2>1. ASSUME Displaced(C)
        PROVE  Misplaced[t]
    <3>1. PICK i \in I : \E b \in B : b.flat # b.field \/ at[i] # wire_at[i]
      BY <1>8, <2>1
    <3>2. t.length > 0
      BY <1>2, <3>1
    <3>3. CASE at[i] # wire_at[i]
      <4>1. i # 1 /\ v.size # RawSize[v]
        BY <1>5, <3>3
      <4>2. t.length > 1
        BY <1>2, <4>1
      <4> QED BY <1>9, <1>11, <3>1, <4>1, <4>2
    <3>4. CASE \E b \in B : b.flat # b.field
      BY <1>10, <1>11, <3>2, <3>4
    <3> QED BY <3>1, <3>3, <3>4
  <2>2. ASSUME t.length > 0, Misplaced[v]
        PROVE  Displaced(C)
    <3>1. 1 \in I
      BY <1>2, <2>2
    <3> HIDE DEF I
    <3> QED BY <1>8, <1>10, <2>2, <3>1
  <2>3. ASSUME t.length > 1, v.size # RawSize[v], Fields(v) # << >>
        PROVE  Displaced(C)
    <3>1. 2 \in I /\ 2 # 1
      BY <1>2, <2>3
    <3> HIDE DEF I
    <3>2. at[2] # wire_at[2] /\ B # {}
      BY <1>5, <1>9, <2>3, <3>1
    <3> QED BY <1>8, <3>1, <3>2
  <2> QED BY <1>11, <2>1, <2>2, <2>3
<1>13. Twins(C, MoveSet(t, "fields"), FlatBytes(t))
  BY <1>3, <1>7
<1> QED BY <1>12, <1>13 DEF TwinsFor

LEMMA AggregateTwins ==
    ASSUME NEW t \in Types, t.kind = "aggregate", NEW B,
           \A j \in Copies(t) : TwinsFor(B[j], t.members[j].type)
    PROVE  \E C : TwinsFor(C, t)
<1> DEFINE I == Copies(t)
           at == MembersAt(t)
           flat_at == [j \in I |-> t.members[j].offset_of]
           wire_at == MembersOnWire(t)
           sizes == [j \in I |-> t.members[j].type.size]
           raws == [j \in I |-> RawSize[t.members[j].type]]
           F == MemberMoves(t, "fields")
           flats == [j \in I |-> FlatBytes(t.members[j].type)]
<1>1. Apart(I, at, sizes, t.size) /\ Apart(I, wire_at, raws, RawSize[t])
  BY MembersLieApart
<1>2. \A j \in I : /\ t.members[j].type \in Types
                   /\ t.members[j].offset_of \in Nat /\ t.members[j].offset \in Nat
                   /\ t.members[j].offset_of <= t.members[j].offset
  BY TypeParts DEF Copies
<1>3. /\ MoveSet(t, "fields") = Assembled(I, F, at, wire_at)
      /\ FlatBytes(t) = Assembled(I, flats, flat_at, wire_at)
  <2>1. MoveSet(t, "fields") = Assembled(I, F, at, wire_at)
    BY MovesAreAssembled, FieldsAreMoved
  <2>2. FlatBytes(t) = UNION {ShiftedMoves(FlatBytes(t.members[j].type),
                                 t.members[j].offset_of, WireBefore(t, j)) : j \in Copies(t)}
    BY EnumerateIs
  <2>3. FlatBytes(t) = Assembled(I, flats, flat_at, wire_at)
    BY <2>2 DEF Assembled, MembersOnWire
  <2> QED BY <2>1, <2>3
<1>4. \A j \in I : Twins(B[j], F[j], flats[j]) /\ InRoom(F[j], sizes[j], raws[j])
  BY <1>2, VisitingIsSound DEF TwinsFor, MemberMoves, Sound
<1>5. \A j \in I : /\ at[j] \in Nat /\ flat_at[j] \in Nat /\ flat_at[j] <= at[j]
                   /\ flat_at[j] # at[j] <=> t.members[j].offset_of # t.members[j].offset
  BY <1>2 DEF MembersAt
<1>6. Replaced(I, at, flat_at, wire_at, wire_at)
  <2> HIDE DEF I, at, flat_at, wire_at, raws
  <2>1. \A j \in I : wire_at[j] \in Nat /\ wire_at[j] <= wire_at[j]
    BY <1>1 DEF Apart
  <2> QED BY <1>5, <2>1 DEF Replaced
<1>7. PICK C : /\ Twins(C, Assembled(I, F, at, wire_at), Assembled(I, flats, flat_at, wire_at))
               /\ Displaced(C) <=> DisplacedParts(I, B, at, flat_at, wire_at, wire_at)
  <2> HIDE DEF I, at, flat_at, wire_at, sizes, raws, F, flats
  <2> QED BY <1>1, <1>4, <1>6, AssembledTwins
<1>8. ASSUME NEW j \in I
      PROVE  /\ Fields(t.members[j].type) # << >> <=> B[j] # {}
             /\ Misplaced[t.members[j].type] <=> \E b \in B[j] : b.flat # b.field
  <2>1. TwinsFor(B[j], t.members[j].type)
    OBVIOUS
  <2>2. MoveSet(t.members[j].type, "fields") = {b.field : b \in B[j]}
    BY <2>1 DEF TwinsFor, Twins
  <2>02. MoveSet(t.members[j].type, "fields") = {} <=> B[j] = {}
    BY <2>2
  <2>3. Fields(t.members[j].type) # << >> <=> B[j] # {}
    BY <1>2, <2>02, FieldsAreEmpty
  <2>4. Misplaced[t.members[j].type] <=> \E b \in B[j] : b.flat # b.field
    BY <2>1 DEF TwinsFor, Displaced
  <2> QED BY <2>3, <2>4
<1>9. Misplaced[t] <=> \E j \in I : /\ Fields(t.members[j].type) # << >>
                                    /\ \/ Misplaced[t.members[j].type]
                                       \/ t.members[j].offset_of # t.members[j].offset
  BY MisplacedIs
<1>10. Misplaced[t] <=> Displaced(C)
  <2> HIDE DEF I, at, flat_at, wire_at
  <2>1. Displaced(C) <=> \E j \in I : \E b \in B[j] : b.flat # b.field \/ flat_at[j] # at[j]
    BY <1>7 DEF DisplacedParts
  <2> QED BY <1>5, <1>8, <1>9, <2>1
<1>11. Twins(C, MoveSet(t, "fields"), FlatBytes(t))
  BY <1>3, <1>7
<1> QED BY <1>10, <1>11 DEF TwinsFor

LEMMA TwinsExist == \A t \in Types : \E B : TwinsFor(B, t)
<1> DEFINE T == {t \in Types : \E B : TwinsFor(B, t)}
<1>1. ASSUME NEW t \in Types, \A p \in PartTypes(t) : p \in T
      PROVE  \E B : TwinsFor(B, t)
  <2>1. CASE t.kind = "scalar"
    BY <2>1, ScalarTwins
  <2>2. CASE t.kind = "container"
    <3>1. t.value_type \in T
      BY <1>1, <2>2, TypeParts
    <3> QED BY <2>2, <3>1, ContainerTwins
  <2>3. CASE t.kind = "aggregate"
    <3> DEFINE B == [j \in Copies(t) |-> CHOOSE C : TwinsFor(C, t.members[j].type)]
    <3>1. ASSUME NEW j \in Copies(t)
          PROVE  TwinsFor(B[j], t.members[j].type)
      <4>1. j \in 1 .. Len(t.members)
        BY DEF Copies
      <4>2. \E C : TwinsFor(C, t.members[j].type)
        BY <1>1, <2>3, <4>1, TypeParts
      <4> QED BY <4>2
    <3> HIDE DEF B
    <3> QED BY <2>3, <3>1, AggregateTwins
  <2> QED BY <2>1, <2>2, <2>3, TypeParts
<1>2. \A t \in Types : t \in T
  <2> HIDE DEF T
  <2>1. \A t \in Types : (\A p \in PartTypes(t) : p \in T) => t \in T
    BY <1>1 DEF T
  <2> QED BY <2>1, TypeInduction
<1> QED BY <1>2

LEMMA MisplacedIsSeen ==
    ASSUME NEW t \in Types
    PROVE  /\ FlatBytes(t) # MoveSet(t, "fields") <=> Misplaced[t]
           /\ Misplaced[t] => Fields(t) # << >>
<1>1. PICK B : TwinsFor(B, t)
  BY TwinsExist
<1>2. OneToOne(MoveSet(t, "fields"))
  BY VisitingIsSound DEF Sound
<1>3. FlatBytes(t) # MoveSet(t, "fields") <=> Misplaced[t]
  BY <1>1, <1>2, DisplacedDiffer DEF TwinsFor
<1>4. Misplaced[t] => MoveSet(t, "fields") # {}
  BY <1>1 DEF TwinsFor, Twins, Displaced
<1> QED BY <1>3, <1>4, FieldsAreEmpty

(* An object of a type that is not misplaced is moved the same way by all  *)
(* calls that do not swap bytes.                                           *)
LEMMA FlatIsSound ==
    \A t \in Types : ~Misplaced[t] => Sound(t, "flat") /\ Sound(t, "bit_cast")
<1>1. ASSUME NEW t \in Types, NEW how \in {"flat", "bit_cast"}, ~Misplaced[t], Flat(t, how)
      PROVE  Sound(t, how)
  <2>1. how \in Hows
    BY DEF Hows
  <2>2. MoveSet(t, how) = MoveSet(t, "fields")
    BY <1>1, <2>1, MovesAre, MisplacedIsSeen
  <2> QED BY <2>2, VisitingIsSound DEF Sound
<1> DEFINE T == {t \in Types : ~Misplaced[t] => Sound(t, "bit_cast")}
<1>2. ASSUME NEW t \in Types, \A p \in PartTypes(t) : p \in T, ~Misplaced[t], ~Flat(t, "bit_cast")
      PROVE  Sound(t, "bit_cast")
  <2>1. ASSUME t.kind = "container", t.length > 0
        PROVE  Sound(t.value_type, "bit_cast")
    <3>1. ~Misplaced[t.value_type]
      BY <1>2, <2>1, MisplacedIs
    <3>2. t.value_type \in T
      BY <1>2, <2>1, TypeParts
    <3> QED BY <3>1, <3>2
  <2>2. ASSUME t.kind = "aggregate", NEW j \in Copies(t)
        PROVE  Sound(t.members[j].type, "bit_cast")
    <3>1. j \in 1 .. Len(t.members)
      BY DEF Copies
    <3>2. t.members[j].type \in T /\ t.members[j].type \in Types
      BY <1>2, <2>2, <3>1, TypeParts
    <3>3. ~Misplaced[t.members[j].type]
      BY <1>2, <2>2, <3>2, MisplacedIs, MisplacedIsSeen
    <3> QED BY <3>2, <3>3
  <2>3. "bit_cast" \in Hows
    BY DEF Hows
  <2> QED BY <1>2, <2>1, <2>2, <2>3, PartsMakeSound
<1>3. \A t \in Types : t \in T
  <2>1. \A t \in Types : (\A p \in PartTypes(t) : p \in T) => t \in T
    BY <1>1, <1>2
  <2> HIDE DEF T
  <2> QED BY <2>1, TypeInduction
<1>4. \A t \in Types : ~Misplaced[t] => Sound(t, "flat")
  BY <1>1 DEF Flat
<1> QED BY <1>3, <1>4

-----------------------------------------------------------------------------
(* The bytes of an object that are not on the wire.                        *)

Elements(t) == 1 .. t.length
Members(t) == 1 .. Len(t.members)
SizesOf(t) == [j \in Members(t) |-> t.members[j].type.size]
OffsetsOf(t) == [j \in Members(t) |-> t.members[j].offset]

(* All members lie apart, those that are left out, too.                    *)
LEMMA AllMembersLieApart ==
    ASSUME NEW t \in Types, t.kind = "aggregate"
    PROVE  Apart(Members(t), OffsetsOf(t), SizesOf(t), t.size) /\ Copies(t) \subseteq Members(t)
<1>1. /\ DOMAIN t.members = Members(t)
      /\ \A i \in Members(t) :
            /\ t.members[i].type.size \in Nat /\ t.members[i].offset \in Nat
            /\ t.members[i].offset + t.members[i].type.size <= t.size
  BY TypeParts DEF Members
<1>2. \A i, j \in Members(t) :
         i # j => \/ t.members[i].offset + t.members[i].type.size <= t.members[j].offset
                  \/ t.members[j].offset + t.members[j].type.size <= t.members[i].offset
  BY <1>1, TypesAssumption DEF LaidOut
<1>3. t.size \in Nat
  BY TypeParts
<1>4. Copies(t) \subseteq Members(t)
  BY DEF Copies, Members
<1>5. Apart(Members(t), OffsetsOf(t), SizesOf(t), t.size)
  BY <1>1, <1>2, <1>3 DEF Apart, OffsetsOf, SizesOf
<1> QED BY <1>4, <1>5

(* Offsets in parts, in the object they are parts of.                      *)
Spread(I, offsets, at) == UNION {Shifted(offsets[i], at[i]) : i \in I}

Within(offsets, size) == \A o \in offsets : o \in Nat /\ o < size

LEMMA SpreadIs ==
    ASSUME NEW I, NEW offsets, NEW at, NEW sizes, NEW room, Apart(I, at, sizes, room),
           \A i \in I : Within(offsets[i], sizes[i])
    PROVE  Within(Spread(I, offsets, at), room)
<1> SUFFICES ASSUME NEW o \in Spread(I, offsets, at)
             PROVE  o \in Nat /\ o < room
  BY DEF Within
<1>1. PICK i \in I : \E x \in offsets[i] : o = at[i] + x
  BY DEF Spread, Shifted
<1>2. PICK x \in offsets[i] : o = at[i] + x
  BY <1>1
<1>3. x \in Nat /\ x < sizes[i]
  BY DEF Within
<1>4. at[i] \in Nat /\ sizes[i] \in Nat /\ at[i] + sizes[i] <= room /\ room \in Nat
  BY DEF Apart
<1> QED BY <1>2, <1>3, <1>4

LEMMA SpreadApart ==
    ASSUME NEW I, NEW J, J \subseteq I, NEW offsets, NEW others, NEW at, NEW others_at, NEW sizes,
           NEW room, Apart(I, at, sizes, room),
           \A i \in I : Within(offsets[i], sizes[i]),
           \A j \in J : /\ Within(others[j], sizes[j]) /\ offsets[j] \cap others[j] = {}
                        /\ others_at[j] = at[j]
    PROVE  Spread(I, offsets, at) \cap Spread(J, others, others_at) = {}
<1> SUFFICES ASSUME NEW o \in Spread(I, offsets, at), o \in Spread(J, others, others_at)
             PROVE  FALSE
  OBVIOUS
<1>1. PICK i \in I : \E x \in offsets[i] : o = at[i] + x
  BY DEF Spread, Shifted
<1>2. PICK x \in offsets[i] : o = at[i] + x
  BY <1>1
<1>3. PICK j \in J : \E y \in others[j] : o = others_at[j] + y
  BY DEF Spread, Shifted
<1>4. PICK y \in others[j] : o = at[j] + y
  BY <1>3
<1>5. x \in Nat /\ x < sizes[i] /\ y \in Nat /\ y < sizes[j]
  BY DEF Within
<1>6. i = j /\ x = y
  <2>1. j \in I /\ at[i] + x = at[j] + y
    BY <1>2, <1>4
  <2> QED BY <1>5, <2>1, InWhichPart
<1> QED BY <1>6

(* What the sets of bytes of an object are made of.                        *)
LEMMA PointersAreSpread ==
    ASSUME NEW t \in Types, NEW pointer \in BOOLEAN
    PROVE  /\ t.kind = "container" =>
                 ScalarBytes[t][pointer]
                    = Spread(Elements(t), [i \in Elements(t) |-> ScalarBytes[t.value_type][pointer]],
                             ElementsAt(t, t.value_type.size))
           /\ t.kind = "aggregate" =>
                 ScalarBytes[t][pointer]
                    = Spread(Members(t), [j \in Members(t) |-> ScalarBytes[t.members[j].type][pointer]],
                             OffsetsOf(t))
<1>1. ASSUME t.kind = "container"
      PROVE  ScalarBytes[t][pointer]
                = Spread(Elements(t), [i \in Elements(t) |-> ScalarBytes[t.value_type][pointer]],
                         ElementsAt(t, t.value_type.size))
  <2>1. ScalarBytes[t][pointer]
           = UNION {Shifted(ScalarBytes[t.value_type][pointer], t.value_type.size * (i - 1)) :
                       i \in Elements(t)}
    BY <1>1, ScalarBytesAre DEF Elements
  <2> QED BY <2>1 DEF Spread, ElementsAt, Elements
<1>2. ASSUME t.kind = "aggregate"
      PROVE  ScalarBytes[t][pointer]
                = Spread(Members(t), [j \in Members(t) |-> ScalarBytes[t.members[j].type][pointer]],
                         OffsetsOf(t))
  <2>1. ScalarBytes[t][pointer]
           = UNION {Shifted(ScalarBytes[t.members[j].type][pointer], t.members[j].offset) :
                       j \in Members(t)}
    BY <1>2, ScalarBytesAre DEF Members
  <2> QED BY <2>1 DEF Spread, OffsetsOf
<1> QED BY <1>1, <1>2

LEMMA AssignedIsSpread ==
    ASSUME NEW t \in Types, HasPointerMember[t]
    PROVE  /\ t.kind = "container" =>
                 Assigned[t] = Spread(Elements(t), [i \in Elements(t) |-> Assigned[t.value_type]],
                                      ElementsAt(t, t.value_type.size))
           /\ t.kind = "aggregate" =>
                 Assigned[t] = Spread(Copies(t), [j \in Copies(t) |-> Assigned[t.members[j].type]],
                                      MembersAt(t))
<1>1. ASSUME t.kind = "container"
      PROVE  Assigned[t] = Spread(Elements(t), [i \in Elements(t) |-> Assigned[t.value_type]],
                                  ElementsAt(t, t.value_type.size))
  <2>1. Assigned[t] = UNION {Shifted(Assigned[t.value_type], t.value_type.size * (i - 1)) :
                                i \in Elements(t)}
    BY <1>1, AssignedIs DEF Elements
  <2> QED BY <2>1 DEF Spread, ElementsAt, Elements
<1>2. ASSUME t.kind = "aggregate"
      PROVE  Assigned[t] = Spread(Copies(t), [j \in Copies(t) |-> Assigned[t.members[j].type]],
                                  MembersAt(t))
  <2>1. Assigned[t] = UNION {Shifted(Assigned[t.members[j].type], t.members[j].offset) :
                                j \in Copies(t)}
    BY <1>2, AssignedIs
  <2> QED BY <2>1 DEF Spread, MembersAt
<1> QED BY <1>1, <1>2

(* The scalars of an object lie in it.                                     *)
LEMMA ScalarsLieInside ==
    ASSUME NEW pointer \in BOOLEAN
    PROVE  \A t \in Types : Within(ScalarBytes[t][pointer], t.size)
<1> DEFINE T == {t \in Types : Within(ScalarBytes[t][pointer], t.size)}
<1>1. ASSUME NEW t \in Types, \A p \in PartTypes(t) : p \in T
      PROVE  Within(ScalarBytes[t][pointer], t.size)
  <2>1. CASE t.kind = "scalar"
    BY <2>1, ScalarBytesAre, TypeParts DEF Within
  <2>2. CASE t.kind = "container"
    <3> DEFINE I == Elements(t)
               at == ElementsAt(t, t.value_type.size)
               sizes == [i \in I |-> t.value_type.size]
               offsets == [i \in I |-> ScalarBytes[t.value_type][pointer]]
    <3>1. Apart(I, at, sizes, t.size)
      BY <2>2, ElementsLieApart DEF Elements
    <3>2. \A i \in I : Within(offsets[i], sizes[i])
      BY <1>1, <2>2, TypeParts
    <3>3. ScalarBytes[t][pointer] = Spread(I, offsets, at)
      BY <2>2, PointersAreSpread
    <3> HIDE DEF I, at, sizes, offsets
    <3> QED BY <3>1, <3>2, <3>3, SpreadIs
  <2>3. CASE t.kind = "aggregate"
    <3> DEFINE I == Members(t)
               at == OffsetsOf(t)
               sizes == SizesOf(t)
               offsets == [j \in I |-> ScalarBytes[t.members[j].type][pointer]]
    <3>1. Apart(I, at, sizes, t.size)
      BY <2>3, AllMembersLieApart
    <3>2. \A i \in I : Within(offsets[i], sizes[i])
      BY <1>1, <2>3, TypeParts DEF Members, SizesOf
    <3>3. ScalarBytes[t][pointer] = Spread(I, offsets, at)
      BY <2>3, PointersAreSpread
    <3> HIDE DEF I, at, sizes, offsets
    <3> QED BY <3>1, <3>2, <3>3, SpreadIs
  <2> QED BY <2>1, <2>2, <2>3, TypeParts
<1>2. \A t \in Types : t \in T
  <2>1. \A t \in Types : (\A p \in PartTypes(t) : p \in T) => t \in T
    BY <1>1
  <2> HIDE DEF T
  <2> QED BY <2>1, TypeInduction
<1> QED BY <1>2

(* Nothing is assigned to pointers, and nothing outside the object.        *)
LEMMA PointersAreNotAssigned ==
    \A t \in Types : Within(Assigned[t], t.size) /\ PointerBytes(t) \cap Assigned[t] = {}
<1> DEFINE T == {t \in Types : Within(Assigned[t], t.size) /\ PointerBytes(t) \cap Assigned[t] = {}}
           N == {t \in Types : ~HasPointerMember[t] => PointerBytes(t) = {}}
<1>1. \A t \in Types : t \in N
  <2>1. ASSUME NEW t \in Types, \A p \in PartTypes(t) : p \in N, ~HasPointerMember[t]
        PROVE  PointerBytes(t) = {}
    <3>1. CASE t.kind = "scalar"
      BY <2>1, <3>1, HasPointerMemberIs, ScalarBytesAre DEF PointerBytes
    <3>2. CASE t.kind = "container"
      <4>1. PointerBytes(t.value_type) = {}
        BY <2>1, <3>2, HasPointerMemberIs, TypeParts
      <4>2. PointerBytes(t) = Spread(Elements(t), [i \in Elements(t) |-> PointerBytes(t.value_type)],
                                     ElementsAt(t, t.value_type.size))
        BY <3>2, PointersAreSpread DEF PointerBytes
      <4> QED BY <4>1, <4>2 DEF Spread, Shifted
    <3>3. CASE t.kind = "aggregate"
      <4>1. \A j \in Members(t) : PointerBytes(t.members[j].type) = {}
        BY <2>1, <3>3, HasPointerMemberIs, TypeParts DEF Members
      <4>2. PointerBytes(t) = Spread(Members(t), [j \in Members(t) |-> PointerBytes(t.members[j].type)],
                                     OffsetsOf(t))
        BY <3>3, PointersAreSpread DEF PointerBytes
      <4> QED BY <4>1, <4>2 DEF Spread, Shifted
    <3> QED BY <3>1, <3>2, <3>3, TypeParts
  <2>2. \A t \in Types : (\A p \in PartTypes(t) : p \in N) => t \in N
    BY <2>1
  <2> HIDE DEF N
  <2> QED BY <2>2, TypeInduction
<1>2. \A t \in Types : Within(PointerBytes(t), t.size)
  BY ScalarsLieInside DEF PointerBytes
<1>3. ASSUME NEW t \in Types, \A p \in PartTypes(t) : p \in T
      PROVE  Within(Assigned[t], t.size) /\ PointerBytes(t) \cap Assigned[t] = {}
  <2>1. CASE ~HasPointerMember[t]
    <3>1. Assigned[t] = 0 .. t.size - 1 /\ t.size \in Nat /\ PointerBytes(t) = {}
      BY <1>1, <2>1, AssignedIs, TypeParts
    <3> QED BY <3>1 DEF Within
  <2>2. CASE HasPointerMember[t] /\ t.kind = "scalar"
    <3>1. Assigned[t] = {}
      BY <2>2, HasPointerMemberIs, AssignedIs
    <3> QED BY <3>1 DEF Within
  <2>3. CASE HasPointerMember[t] /\ t.kind = "container"
    <3> DEFINE I == Elements(t)
               at == ElementsAt(t, t.value_type.size)
               sizes == [i \in I |-> t.value_type.size]
               pointers == [i \in I |-> PointerBytes(t.value_type)]
               assigned == [i \in I |-> Assigned[t.value_type]]
    <3>1. Apart(I, at, sizes, t.size)
      BY <2>3, ElementsLieApart DEF Elements
    <3>2. t.value_type \in T /\ t.value_type \in Types
      BY <1>3, <2>3, TypeParts
    <3>3. \A i \in I : /\ Within(assigned[i], sizes[i]) /\ Within(pointers[i], sizes[i])
                       /\ pointers[i] \cap assigned[i] = {}
      BY <1>2, <3>2
    <3>4. PointerBytes(t) = Spread(I, pointers, at) /\ Assigned[t] = Spread(I, assigned, at)
      BY <2>3, PointersAreSpread, AssignedIsSpread DEF PointerBytes
    <3> HIDE DEF I, at, sizes, pointers, assigned
    <3>5. Within(Spread(I, assigned, at), t.size)
      BY <3>1, <3>3, SpreadIs
    <3>6. Spread(I, pointers, at) \cap Spread(I, assigned, at) = {}
      BY <3>1, <3>3, SpreadApart
    <3> QED BY <3>4, <3>5, <3>6
  <2>4. CASE HasPointerMember[t] /\ t.kind = "aggregate"
    <3> DEFINE I == Members(t)
               J == Copies(t)
               at == OffsetsOf(t)
               copied_at == MembersAt(t)
               sizes == SizesOf(t)
               copied == [j \in J |-> t.members[j].type.size]
               pointers == [j \in I |-> PointerBytes(t.members[j].type)]
               assigned == [j \in J |-> Assigned[t.members[j].type]]
    <3>1. Apart(I, at, sizes, t.size) /\ J \subseteq I /\ Apart(J, copied_at, copied, t.size)
      BY <2>4, AllMembersLieApart, MembersLieApart
    <3>2. \A j \in I : t.members[j].type \in T /\ t.members[j].type \in Types
      BY <1>3, <2>4, TypeParts DEF Members
    <3>3. \A i \in I : Within(pointers[i], sizes[i])
      BY <1>2, <3>2 DEF SizesOf
    <3>4. \A j \in J : /\ Within(assigned[j], copied[j]) /\ pointers[j] \cap assigned[j] = {}
                       /\ copied[j] = sizes[j] /\ copied_at[j] = at[j]
      BY <3>1, <3>2 DEF SizesOf, OffsetsOf, MembersAt
    <3>5. PointerBytes(t) = Spread(I, pointers, at) /\ Assigned[t] = Spread(J, assigned, copied_at)
      BY <2>4, PointersAreSpread, AssignedIsSpread DEF PointerBytes
    <3> HIDE DEF I, J, at, sizes, copied_at, copied, pointers, assigned
    <3>6. Within(Spread(J, assigned, copied_at), t.size)
      BY <3>1, <3>4, SpreadIs
    <3>7. Spread(I, pointers, at) \cap Spread(J, assigned, copied_at) = {}
      BY <3>1, <3>3, <3>4, SpreadApart
    <3> QED BY <3>5, <3>6, <3>7
  <2> QED BY <2>1, <2>2, <2>3, <2>4, TypeParts
<1>4. \A t \in Types : t \in T
  <2>1. \A t \in Types : (\A p \in PartTypes(t) : p \in T) => t \in T
    BY <1>3
  <2> HIDE DEF T
  <2> QED BY <2>1, TypeInduction
<1> QED BY <1>4

-----------------------------------------------------------------------------
(* The calls.                                                              *)

LEMMA GreatestIsOne ==
    ASSUME NEW n \in Nat, NEW S, S \subseteq 1 .. n, S # {}
    PROVE  Max(S) \in S
<1> DEFINE D == {n - k : k \in S}
<1>1. D \subseteq Nat /\ D # {}
  OBVIOUS
<1>2. PICK d \in D : \A e \in D : d <= e
  <2> HIDE DEF D
  <2> QED BY <1>1, LeastNumber
<1>3. PICK m \in S : d = n - m
  OBVIOUS
<1>4. \A k \in S : m >= k
  <2> TAKE k \in S
  <2>1. n - m <= n - k /\ k \in Nat /\ m \in Nat
    BY <1>2, <1>3
  <2> QED BY <2>1
<1>5. \E x \in S : \A y \in S : x >= y
  BY <1>4
<1> QED BY <1>5 DEF Max

(* A copied place holds one of the bytes that were copied to it.           *)
LEMMA CopiedIs ==
    ASSUME NEW memory, NEW n \in Nat, NEW places, DOMAIN places = 1 .. n, NEW bytes,
           NEW a \in DOMAIN memory
    PROVE  \/ /\ \A k \in 1 .. n : places[k] # a
              /\ Copied(memory, places, bytes)[a] = memory[a]
           \/ \E k \in 1 .. n : places[k] = a /\ Copied(memory, places, bytes)[a] = bytes[k]
<1> DEFINE there == {k \in DOMAIN places : places[k] = a}
<1>1. Copied(memory, places, bytes)[a] = IF there = {} THEN memory[a] ELSE bytes[Max(there)]
  BY DEF Copied
<1>2. CASE there = {}
  BY <1>1, <1>2
<1>3. CASE there # {}
  <2>1. there \subseteq 1 .. n
    OBVIOUS
  <2> HIDE DEF there
  <2>2. Max(there) \in there
    BY <1>3, <2>1, GreatestIsOne
  <2>3. Copied(memory, places, bytes)[a] = bytes[Max(there)]
    BY <1>1, <1>3
  <2>4. Max(there) \in 1 .. n /\ places[Max(there)] = a
    BY <2>2 DEF there
  <2> QED BY <2>3, <2>4
<1> QED BY <1>2, <1>3

(* Where the objects lie in the buffer.                                    *)
LEMMA SerialSizes ==
    ASSUME NEW types \in Seq(Types)
    PROVE  /\ SerialSizeOf(types, 0) = 0
           /\ \A n \in 0 .. Len(types) : SerialSizeOf(types, n) \in Nat
           /\ \A n \in 1 .. Len(types) :
                 /\ RawSize[types[n]] \in Nat
                 /\ SerialSizeOf(types, n) = SerialSizeOf(types, n - 1) + RawSize[types[n]]
           /\ \A k, n \in 0 .. Len(types) : k <= n => SerialSizeOf(types, k) <= SerialSizeOf(types, n)
<1> DEFINE m == Len(types)
           sizes == [i \in DOMAIN types |-> RawSize[types[i]]]
<1>1. m \in Nat /\ sizes \in [1 .. m -> Nat] /\ \A i \in 1 .. m : sizes[i] = RawSize[types[i]]
  BY RawSizeIs
<1>2. \A n : SerialSizeOf(types, n) = Total(sizes, n)
  BY DEF SerialSizeOf
<1> HIDE DEF m, sizes
<1>3. /\ Total(sizes, 0) = 0
      /\ \A n \in 0 .. m : Total(sizes, n) \in Nat
      /\ \A n \in 1 .. m : Total(sizes, n) = Total(sizes, n - 1) + sizes[n]
  BY <1>1, TotalSteps
<1>4. ASSUME NEW k \in 0 .. m, NEW n \in 0 .. m, k <= n
      PROVE  Total(sizes, k) <= Total(sizes, n)
  <2>1. k \in 0 .. n
    BY <1>1, <1>4
  <2> QED BY <1>1, <2>1, TotalGrows
<1>5. \A n \in 1 .. m : sizes[n] \in Nat
  BY <1>1
<1>6. /\ SerialSizeOf(types, 0) = 0
      /\ \A n \in 0 .. m : SerialSizeOf(types, n) \in Nat
      /\ \A n \in 1 .. m : /\ RawSize[types[n]] \in Nat
                           /\ SerialSizeOf(types, n) = SerialSizeOf(types, n - 1) + RawSize[types[n]]
      /\ \A k, n \in 0 .. m : k <= n => SerialSizeOf(types, k) <= SerialSizeOf(types, n)
  BY <1>1, <1>2, <1>3, <1>4, <1>5
<1> QED BY <1>6 DEF m

(* The shape of the state: where the cursor stands is how much room the    *)
(* objects before the next one have in the buffer.                         *)
Typed ==
    /\ args \in ArgLists /\ args \in Seq(Types)
    /\ endianness \in {"native", "foreign"} /\ evaluated \in {"run time", "constant"}
    /\ stage \in {"serialize", "deserialize"}
    /\ next \in 1 .. Len(args) + 1
    /\ cursor = SerialSizeOf(args, next - 1)
    /\ DOMAIN wire = 0 .. MemorySize - 1
    /\ DOMAIN parsed = 1 .. Len(args)
    /\ \A i \in 1 .. Len(args) : DOMAIN parsed[i] = 0 .. args[i].size - 1

Serialized(i) == stage = "deserialize" \/ i < next

Deserialized(i) == stage = "deserialize" /\ i < next

(* What is in the buffer comes from the wire bytes of objects, and those   *)
(* of the objects that are serialised are all there.                       *)
WireHolds ==
    /\ \A a \in DOMAIN wire :
          \/ wire[a] = Initially
          \/ \E i \in 1 .. Len(args) : \E o \in OnWire(args[i]) : wire[a] = <<i, o>>
    /\ \A i \in 1 .. Len(args) :
          Serialized(i) =>
             \A m \in MoveSet(args[i], How) :
                wire[SerialSizeOf(args, i - 1) + m.wire] = <<i, m.memory>>

(* The bytes of an object, once it is read, and until then.                *)
ReadBack(i, o) ==
    IF o \in OnWire(args[i]) THEN <<i, o>>
    ELSE IF How = "bit_cast" /\ o \in Assigned[args[i]] THEN Zero ELSE Initially

ObjectsHold ==
    \A i \in 1 .. Len(args) : \A o \in DOMAIN parsed[i] :
        parsed[i][o] = IF Deserialized(i) THEN ReadBack(i, o) ELSE Initially

Inv == Typed /\ (WellPlaced => WireHolds /\ ObjectsHold)

LEMMA TypedArgs ==
    ASSUME Typed
    PROVE  /\ args \in Seq(Types) /\ Len(args) \in Nat /\ DOMAIN args = 1 .. Len(args)
           /\ \A i \in 1 .. Len(args) : args[i] \in Types
<1>1. args \in Seq(Types)
  <2> USE DEF Typed
  <2> QED BY Zenon
<1> QED BY <1>1

(* The calls move what they should if the types are well placed.           *)
LEMMA CallsAreSound ==
    ASSUME Typed, WellPlaced
    PROVE  How \in Hows /\ \A i \in 1 .. Len(args) : args[i] \in Types /\ Sound(args[i], How)
<1>1. DOMAIN args = 1 .. Len(args) /\ \A i \in 1 .. Len(args) : args[i] \in Types
  BY TypedArgs
<1>2. CASE endianness = "foreign"
  <2>1. How = "swapped"
    BY <1>2 DEF How
  <2> QED BY <1>1, <2>1, VisitingIsSound DEF Hows
<1>3. CASE endianness # "foreign"
  <2>1. How \in {"flat", "bit_cast"}
    BY <1>3 DEF How
  <2>2. \A i \in 1 .. Len(args) : ~Misplaced[args[i]]
    BY <1>1, <1>3 DEF WellPlaced
  <2> QED BY <1>1, <2>1, <2>2, FlatIsSound DEF Hows
<1> QED BY <1>2, <1>3

(* Where each byte of an object goes in the buffer.                        *)
LEMMA MovesStayInRoom ==
    ASSUME Typed, WellPlaced, NEW i \in 1 .. Len(args), NEW m \in MoveSet(args[i], How)
    PROVE  /\ m.memory \in Nat /\ m.wire \in Nat /\ SerialSizeOf(args, i - 1) \in Nat
           /\ SerialSizeOf(args, i) \in Nat
           /\ SerialSizeOf(args, i - 1) + m.wire < SerialSizeOf(args, i)
           /\ SerialSizeOf(args, i - 1) + m.wire \in 0 .. MemorySize - 1
           /\ m.memory \in OnWire(args[i]) /\ m.memory < args[i].size
<1>1. /\ InRoom(MoveSet(args[i], How), args[i].size, RawSize[args[i]])
      /\ Memory(MoveSet(args[i], How)) = OnWire(args[i])
  BY CallsAreSound DEF Sound
<1>2. /\ m.memory \in Nat /\ m.wire \in Nat /\ m.wire < RawSize[args[i]]
      /\ m.memory < args[i].size /\ m.memory \in OnWire(args[i])
  BY <1>1 DEF InRoom, ByteMoves, Memory
<1> DEFINE before == SerialSizeOf(args, i - 1)
           after == SerialSizeOf(args, i)
           all == SerialSizeOf(args, Len(args))
           raw == RawSize[args[i]]
<1>3. /\ before \in Nat /\ after \in Nat /\ all \in Nat /\ raw \in Nat /\ after = before + raw
      /\ after <= all
  <2>1. args \in Seq(Types) /\ Len(args) \in Nat
    BY TypedArgs
  <2>2. i - 1 \in 0 .. Len(args) /\ i \in 0 .. Len(args) /\ Len(args) \in 0 .. Len(args) /\ i <= Len(args)
    BY <2>1
  <2> QED BY <2>1, <2>2, SerialSizes
<1>4. all <= MemorySize
  <2>1. SerialSize(args) <= MemorySize
    BY ArgListsAssumption DEF Typed
  <2> QED BY <2>1 DEF SerialSize
<1>5. MemorySize \in Nat
  BY MemoryAssumption
<1> HIDE DEF before, after, all, raw
<1>6. m.wire < raw
  BY <1>2 DEF raw
<1>7. before + m.wire < after /\ before + m.wire \in 0 .. MemorySize - 1
  BY <1>2, <1>3, <1>4, <1>5, <1>6
<1> QED BY <1>2, <1>3, <1>7 DEF before, after

(* What serialize does to the buffer.                                      *)
LEMMA SerializeNextIs ==
    ASSUME Typed, SerializeNext
    PROVE  /\ next \in 1 .. Len(args) /\ cursor' = SerialSizeOf(args, next)
           /\ DOMAIN wire' = DOMAIN wire
           /\ args[next] \in Types
           /\ WellPlaced =>
                 \A a \in DOMAIN wire :
                    \/ /\ \A m \in MoveSet(args[next], How) : a # cursor + m.wire
                       /\ wire'[a] = wire[a]
                    \/ \E m \in MoveSet(args[next], How) :
                          a = cursor + m.wire /\ wire'[a] = <<next, m.memory>>
<1> DEFINE s == Moves[args[next]][How]
           places == [k \in DOMAIN s |-> cursor + s[k].wire]
           bytes == [k \in DOMAIN s |-> <<next, s[k].memory>>]
<1>1. next \in 1 .. Len(args) /\ args[next] \in Types
  <2>1. next \in 1 .. Len(args) + 1 /\ next <= Len(args)
    BY DEF Typed, SerializeNext
  <2> QED BY <2>1, TypedArgs
<1>2. wire' = Copied(wire, places, bytes)
  BY DEF SerializeNext
<1>3. DOMAIN wire' = DOMAIN wire
  BY <1>2 DEF Copied
<1>4. cursor' = SerialSizeOf(args, next)
  <2>1. cursor = SerialSizeOf(args, next - 1) /\ args \in Seq(Types)
    BY TypedArgs DEF Typed
  <2>2. cursor' = cursor + RawSize[args[next]]
    BY DEF SerializeNext, Advance
  <2> QED BY <1>1, <2>1, <2>2, SerialSizes
<1>5. ASSUME WellPlaced, NEW a \in DOMAIN wire
      PROVE  \/ /\ \A m \in MoveSet(args[next], How) : a # cursor + m.wire
                /\ wire'[a] = wire[a]
             \/ \E m \in MoveSet(args[next], How) :
                   a = cursor + m.wire /\ wire'[a] = <<next, m.memory>>
  <2>1. s \in Seq(ByteMoves)
    BY <1>1, <1>5, CallsAreSound, MovesAre
  <2> DEFINE n == Len(s)
  <2>2. n \in Nat /\ DOMAIN s = 1 .. n
    BY <2>1
  <2>3. MoveSet(args[next], How) = {s[k] : k \in 1 .. n}
    BY <2>2 DEF MoveSet, Range
  <2>4. DOMAIN places = 1 .. n /\ \A k \in 1 .. n : /\ places[k] = cursor + s[k].wire
                                                    /\ bytes[k] = <<next, s[k].memory>>
    BY <2>2
  <2> HIDE DEF s, n, places, bytes
  <2>5. \/ (\A k \in 1 .. n : places[k] # a) /\ wire'[a] = wire[a]
        \/ \E k \in 1 .. n : places[k] = a /\ wire'[a] = bytes[k]
    BY <1>2, <2>2, <2>4, CopiedIs
  <2> QED BY <2>3, <2>4, <2>5
<1> QED BY <1>1, <1>3, <1>4, <1>5

(* What deserialize does to the object.                                    *)
LEMMA DeserializeNextIs ==
    ASSUME Typed, DeserializeNext
    PROVE  /\ next \in 1 .. Len(args) /\ cursor' = SerialSizeOf(args, next)
           /\ DOMAIN parsed' = DOMAIN parsed /\ DOMAIN parsed'[next] = DOMAIN parsed[next]
           /\ args[next] \in Types
           /\ \A i \in 1 .. Len(args) : i # next => parsed'[i] = parsed[i]
           /\ WellPlaced =>
                 \A o \in DOMAIN parsed[next] :
                    \/ /\ \A m \in MoveSet(args[next], How) : o # m.memory
                       /\ parsed'[next][o] = IF How = "bit_cast" /\ o \in Assigned[args[next]]
                                             THEN Zero ELSE parsed[next][o]
                    \/ \E m \in MoveSet(args[next], How) :
                          o = m.memory /\ parsed'[next][o] = wire[cursor + m.wire]
<1> DEFINE s == Moves[args[next]][How]
           places == [k \in DOMAIN s |-> s[k].memory]
           bytes == [k \in DOMAIN s |-> wire[cursor + s[k].wire]]
           assigned == IF How = "bit_cast" THEN Assigned[args[next]] ELSE {}
           object == [o \in DOMAIN parsed[next] |-> IF o \in assigned THEN Zero ELSE parsed[next][o]]
<1>1. next \in 1 .. Len(args) /\ args[next] \in Types /\ DOMAIN parsed = 1 .. Len(args)
  <2>1. next \in 1 .. Len(args) + 1 /\ next <= Len(args) /\ DOMAIN parsed = 1 .. Len(args)
    BY DEF Typed, DeserializeNext
  <2> QED BY <2>1, TypedArgs
<1>2. parsed' = [parsed EXCEPT ![next] = Copied(object, places, bytes)]
  BY DEF DeserializeNext
<1>3. /\ DOMAIN parsed' = DOMAIN parsed
      /\ parsed'[next] = Copied(object, places, bytes)
      /\ \A i \in 1 .. Len(args) : i # next => parsed'[i] = parsed[i]
  <2> HIDE DEF object, places, bytes
  <2> QED BY <1>1, <1>2
<1>4. DOMAIN object = DOMAIN parsed[next] /\ DOMAIN parsed'[next] = DOMAIN parsed[next]
  BY <1>3 DEF Copied
<1>5. cursor' = SerialSizeOf(args, next)
  <2>1. cursor = SerialSizeOf(args, next - 1) /\ args \in Seq(Types)
    BY TypedArgs DEF Typed
  <2>2. cursor' = cursor + RawSize[args[next]]
    BY DEF DeserializeNext, Advance
  <2> QED BY <1>1, <2>1, <2>2, SerialSizes
<1>6. ASSUME WellPlaced, NEW o \in DOMAIN parsed[next]
      PROVE  \/ /\ \A m \in MoveSet(args[next], How) : o # m.memory
                /\ parsed'[next][o] = IF How = "bit_cast" /\ o \in Assigned[args[next]]
                                      THEN Zero ELSE parsed[next][o]
             \/ \E m \in MoveSet(args[next], How) :
                   o = m.memory /\ parsed'[next][o] = wire[cursor + m.wire]
  <2>1. s \in Seq(ByteMoves)
    BY <1>1, <1>6, CallsAreSound, MovesAre
  <2> DEFINE n == Len(s)
  <2>2. n \in Nat /\ DOMAIN s = 1 .. n
    BY <2>1
  <2>3. MoveSet(args[next], How) = {s[k] : k \in 1 .. n}
    BY <2>2 DEF MoveSet, Range
  <2>4. DOMAIN places = 1 .. n /\ \A k \in 1 .. n : /\ places[k] = s[k].memory
                                                    /\ bytes[k] = wire[cursor + s[k].wire]
    BY <2>2
  <2>5. object[o] = IF How = "bit_cast" /\ o \in Assigned[args[next]] THEN Zero ELSE parsed[next][o]
    OBVIOUS
  <2>6. o \in DOMAIN object
    OBVIOUS
  <2> HIDE DEF s, n, places, bytes, object
  <2>7. \/ (\A k \in 1 .. n : places[k] # o) /\ parsed'[next][o] = object[o]
        \/ \E k \in 1 .. n : places[k] = o /\ parsed'[next][o] = bytes[k]
    BY <1>3, <2>2, <2>4, <2>6, CopiedIs
  <2> QED BY <2>3, <2>4, <2>5, <2>7
<1> QED BY <1>1, <1>3, <1>4, <1>5, <1>6

-----------------------------------------------------------------------------
(* The invariant.                                                          *)

LEMMA InitInv == Init => Inv
<1> SUFFICES ASSUME Init
             PROVE  Inv
  OBVIOUS
<1>1. args \in ArgLists
  BY DEF Init
<1>2. args \in Seq(Types)
  BY <1>1, ArgListsAssumption
<1>3. /\ endianness \in {"native", "foreign"} /\ evaluated \in {"run time", "constant"}
      /\ stage = "serialize" /\ next = 1 /\ cursor = 0
  BY DEF Init
<1>4. Len(args) \in Nat /\ DOMAIN args = 1 .. Len(args)
  BY <1>2
<1>03. stage = "serialize" /\ next = 1 /\ cursor = 0
  BY <1>3
<1>5. cursor = SerialSizeOf(args, next - 1)
  <2>1. SerialSizeOf(args, 0) = 0 /\ 1 - 1 = 0
    BY <1>2, SerialSizes
  <2> QED BY <1>03, <2>1
<1>6. /\ DOMAIN wire = 0 .. MemorySize - 1
      /\ \A a \in DOMAIN wire : wire[a] = Initially
  BY DEF Init
<1>7. /\ DOMAIN parsed = 1 .. Len(args)
      /\ \A i \in 1 .. Len(args) : /\ DOMAIN parsed[i] = 0 .. args[i].size - 1
                                   /\ \A o \in DOMAIN parsed[i] : parsed[i][o] = Initially
  <2>1. parsed = [i \in DOMAIN args |-> [o \in 0 .. args[i].size - 1 |-> Initially]]
    BY DEF Init
  <2> QED BY <1>4, <2>1
<1>8. next \in 1 .. Len(args) + 1
  <2>1. 1 \in 1 .. Len(args) + 1
    BY <1>4
  <2> QED BY <1>03, <2>1
<1>9. Typed
  BY <1>1, <1>2, <1>3, <1>5, <1>6, <1>7, <1>8 DEF Typed
<1>10. WireHolds
  <2>1. \A i \in 1 .. Len(args) : ~Serialized(i)
    <3>1. \A i \in 1 .. Len(args) : ~(i < 1)
      BY <1>4
    <3>2. stage # "deserialize"
      BY <1>03
    <3> QED BY <1>03, <3>1, <3>2 DEF Serialized
  <2> QED BY <1>6, <2>1 DEF WireHolds
<1>11. ObjectsHold
  <2>1. \A i \in 1 .. Len(args) : ~Deserialized(i)
    BY <1>3 DEF Deserialized
  <2> QED BY <1>7, <2>1 DEF ObjectsHold
<1> QED BY <1>9, <1>10, <1>11 DEF Inv

(* What never changes.                                                     *)
LEMMA CallsStay ==
    ASSUME UNCHANGED callVars
    PROVE  /\ args' = args /\ endianness' = endianness /\ evaluated' = evaluated
           /\ How' = How /\ Initially' = Initially /\ WellPlaced' = WellPlaced
BY DEF callVars, How, Initially, WellPlaced

LEMMA SerializeNextInv ==
    ASSUME Inv, SerializeNext
    PROVE  Inv'
<1>0. Typed /\ UNCHANGED callVars /\ stage = "serialize" /\ stage' = stage /\ parsed' = parsed
      /\ next' = next + 1
  BY DEF Inv, SerializeNext
<1>1. /\ args' = args /\ endianness' = endianness /\ evaluated' = evaluated
      /\ How' = How /\ Initially' = Initially /\ WellPlaced' = WellPlaced
  BY <1>0, CallsStay
<1>2. /\ next \in 1 .. Len(args) /\ cursor' = SerialSizeOf(args, next)
      /\ DOMAIN wire' = DOMAIN wire
  BY <1>0, SerializeNextIs
<1>3. Len(args) \in Nat
  BY <1>0, TypedArgs
<1>4. Typed'
  <2>1. next' \in 1 .. Len(args) + 1 /\ next' - 1 = next
    BY <1>0, <1>2, <1>3
  <2>2. cursor' = SerialSizeOf(args, next' - 1)
    BY <1>2, <2>1
  <2> QED BY <1>0, <1>1, <1>2, <2>1, <2>2 DEF Typed
<1>5. ASSUME WellPlaced
      PROVE  WireHolds' /\ ObjectsHold'
  <2>1. WireHolds /\ ObjectsHold
    BY <1>5 DEF Inv
  <2>2. \A i \in 1 .. Len(args) : /\ Serialized(i)' <=> i = next \/ Serialized(i)
                                  /\ Serialized(i) <=> i < next
                                  /\ ~Deserialized(i)' /\ ~Deserialized(i)
    BY <1>0, <1>2, <1>3 DEF Serialized, Deserialized
  <2>3. /\ OneToOne(MoveSet(args[next], How)) /\ Memory(MoveSet(args[next], How)) = OnWire(args[next])
    BY <1>0, <1>2, <1>5, CallsAreSound DEF Sound
  <2>4. \A a \in DOMAIN wire :
           \/ /\ \A m \in MoveSet(args[next], How) : a # cursor + m.wire
              /\ wire'[a] = wire[a]
           \/ \E m \in MoveSet(args[next], How) :
                 a = cursor + m.wire /\ wire'[a] = <<next, m.memory>>
    BY <1>0, <1>5, SerializeNextIs
  <2>5. cursor = SerialSizeOf(args, next - 1) /\ DOMAIN wire = 0 .. MemorySize - 1
    BY <1>0 DEF Typed
  <2>6. ASSUME NEW a \in DOMAIN wire
        PROVE  \/ wire'[a] = Initially
               \/ \E i \in 1 .. Len(args) : \E o \in OnWire(args[i]) : wire'[a] = <<i, o>>
    <3>1. CASE wire'[a] = wire[a]
      BY <2>1, <3>1 DEF WireHolds
    <3>2. CASE \E m \in MoveSet(args[next], How) : wire'[a] = <<next, m.memory>>
      <4>1. PICK m \in MoveSet(args[next], How) : wire'[a] = <<next, m.memory>>
        BY <3>2
      <4>2. m.memory \in OnWire(args[next])
        BY <2>3 DEF Memory
      <4> QED BY <1>2, <4>1, <4>2
    <3> QED BY <2>4, <3>1, <3>2
  <2>7. ASSUME NEW i \in 1 .. Len(args), i = next \/ Serialized(i), NEW m \in MoveSet(args[i], How)
        PROVE  wire'[SerialSizeOf(args, i - 1) + m.wire] = <<i, m.memory>>
    <3> DEFINE a == SerialSizeOf(args, i - 1) + m.wire
    <3>1. /\ m.memory \in Nat /\ m.wire \in Nat /\ SerialSizeOf(args, i - 1) \in Nat
          /\ SerialSizeOf(args, i) \in Nat /\ a < SerialSizeOf(args, i) /\ a \in DOMAIN wire
      BY <1>0, <1>5, <2>5, MovesStayInRoom
    <3>2. CASE i = next
      <4>1. ~(\A n \in MoveSet(args[next], How) : a # cursor + n.wire)
        BY <2>5, <3>2
      <4>2. PICK n \in MoveSet(args[next], How) : a = cursor + n.wire /\ wire'[a] = <<next, n.memory>>
        BY <2>4, <3>1, <4>1
      <4>3. n.wire = m.wire
        <5>1. n.wire \in Nat /\ a = cursor + m.wire /\ cursor \in Nat
          BY <1>0, <1>2, <1>5, <2>5, <3>1, <3>2, MovesStayInRoom
        <5> HIDE DEF a
        <5> QED BY <3>1, <4>2, <5>1
      <4>4. n.memory = m.memory
        BY <2>3, <3>2, <4>3 DEF OneToOne
      <4> QED BY <3>2, <4>2, <4>4
    <3>3. CASE i # next
      <4>1. i < next /\ Serialized(i)
        BY <2>2, <2>7, <3>3
      <4>2. wire[a] = <<i, m.memory>>
        BY <2>1, <4>1 DEF WireHolds
      <4>3. a < cursor /\ cursor \in Nat /\ a \in Nat
        <5>1. i \in 0 .. Len(args) /\ next - 1 \in 0 .. Len(args) /\ i <= next - 1
          BY <1>2, <1>3, <4>1
        <5>2. args \in Seq(Types)
          BY <1>0, TypedArgs
        <5>3. SerialSizeOf(args, i) <= cursor /\ cursor \in Nat
          BY <2>5, <5>1, <5>2, SerialSizes
        <5>4. a \in Nat
          BY <3>1
        <5> HIDE DEF a
        <5> QED BY <3>1, <5>3, <5>4
      <4>4. \A n \in MoveSet(args[next], How) : n.wire \in Nat
        BY <1>0, <1>2, <1>5, MovesStayInRoom
      <4>5. \A n \in MoveSet(args[next], How) : a # cursor + n.wire
        <5> HIDE DEF a
        <5> QED BY <4>3, <4>4
      <4> HIDE DEF a
      <4>6. wire'[a] = wire[a]
        BY <2>4, <3>1, <4>5
      <4> QED BY <4>2, <4>6 DEF a
    <3> QED BY <3>2, <3>3
  <2>8. WireHolds'
    BY <1>1, <1>2, <2>2, <2>6, <2>7 DEF WireHolds
  <2>9. ObjectsHold'
    BY <1>0, <1>1, <2>1, <2>2 DEF ObjectsHold
  <2> QED BY <2>8, <2>9
<1> QED BY <1>1, <1>4, <1>5 DEF Inv

LEMMA HandOverInv ==
    ASSUME Inv, HandOver
    PROVE  Inv'
<1>0. /\ Typed /\ UNCHANGED callVars /\ stage = "serialize" /\ stage' = "deserialize"
      /\ next > Len(args) /\ next' = 1 /\ cursor' = 0 /\ parsed' = parsed /\ wire' = wire
  BY DEF Inv, HandOver
<1>1. /\ args' = args /\ endianness' = endianness /\ evaluated' = evaluated
      /\ How' = How /\ Initially' = Initially /\ WellPlaced' = WellPlaced
  BY <1>0, CallsStay
<1>2. args \in Seq(Types) /\ Len(args) \in Nat
  BY <1>0, TypedArgs
<1>3. Typed'
  <2>1. next' \in 1 .. Len(args) + 1 /\ next' - 1 = 0
    BY <1>0, <1>2
  <2>2. cursor' = SerialSizeOf(args, next' - 1)
    BY <1>0, <1>2, <2>1, SerialSizes
  <2> QED BY <1>0, <1>1, <2>1, <2>2 DEF Typed
<1>4. ASSUME WellPlaced
      PROVE  WireHolds' /\ ObjectsHold'
  <2>1. WireHolds /\ ObjectsHold
    BY <1>4 DEF Inv
  <2>2. \A i \in 1 .. Len(args) : Serialized(i) /\ Serialized(i)'
                                  /\ ~Deserialized(i)' /\ ~Deserialized(i)
    <3>1. next \in 1 .. Len(args) + 1
      BY <1>0 DEF Typed
    <3> QED BY <1>0, <1>2, <3>1 DEF Serialized, Deserialized
  <2>3. WireHolds'
    BY <1>0, <1>1, <2>1, <2>2 DEF WireHolds
  <2>4. ObjectsHold'
    BY <1>0, <1>1, <2>1, <2>2 DEF ObjectsHold
  <2> QED BY <2>3, <2>4
<1> QED BY <1>1, <1>3, <1>4 DEF Inv

LEMMA DeserializeNextInv ==
    ASSUME Inv, DeserializeNext
    PROVE  Inv'
<1>0. Typed /\ UNCHANGED callVars /\ stage = "deserialize" /\ stage' = stage /\ wire' = wire
      /\ next' = next + 1
  BY DEF Inv, DeserializeNext
<1>1. /\ args' = args /\ endianness' = endianness /\ evaluated' = evaluated
      /\ How' = How /\ Initially' = Initially /\ WellPlaced' = WellPlaced
  BY <1>0, CallsStay
<1>2. /\ next \in 1 .. Len(args) /\ cursor' = SerialSizeOf(args, next)
      /\ DOMAIN parsed' = DOMAIN parsed /\ DOMAIN parsed'[next] = DOMAIN parsed[next]
      /\ \A i \in 1 .. Len(args) : i # next => parsed'[i] = parsed[i]
  BY <1>0, DeserializeNextIs
<1>3. Len(args) \in Nat
  BY <1>0, TypedArgs
<1>4. Typed'
  <2>1. next' \in 1 .. Len(args) + 1 /\ next' - 1 = next
    BY <1>0, <1>2, <1>3
  <2>2. cursor' = SerialSizeOf(args, next' - 1)
    BY <1>2, <2>1
  <2>3. \A i \in 1 .. Len(args) : DOMAIN parsed'[i] = 0 .. args[i].size - 1
    BY <1>0, <1>2 DEF Typed
  <2> QED BY <1>0, <1>1, <1>2, <2>1, <2>2, <2>3 DEF Typed
<1>5. ASSUME WellPlaced
      PROVE  WireHolds' /\ ObjectsHold'
  <2>1. WireHolds /\ ObjectsHold
    BY <1>5 DEF Inv
  <2>2. \A i \in 1 .. Len(args) : /\ Serialized(i) /\ Serialized(i)'
                                  /\ Deserialized(i)' <=> i = next \/ Deserialized(i)
                                  /\ Deserialized(i) <=> i < next
    BY <1>0, <1>2, <1>3 DEF Serialized, Deserialized
  <2>3. Memory(MoveSet(args[next], How)) = OnWire(args[next])
    BY <1>0, <1>2, <1>5, CallsAreSound DEF Sound
  <2>4. \A o \in DOMAIN parsed[next] :
           \/ /\ \A m \in MoveSet(args[next], How) : o # m.memory
              /\ parsed'[next][o] = IF How = "bit_cast" /\ o \in Assigned[args[next]]
                                    THEN Zero ELSE parsed[next][o]
           \/ \E m \in MoveSet(args[next], How) :
                 o = m.memory /\ parsed'[next][o] = wire[cursor + m.wire]
    BY <1>0, <1>5, DeserializeNextIs
  <2>5. cursor = SerialSizeOf(args, next - 1)
    BY <1>0 DEF Typed
  <2>6. ASSUME NEW o \in DOMAIN parsed[next]
        PROVE  parsed'[next][o] = ReadBack(next, o)
    <3>1. CASE \E m \in MoveSet(args[next], How) :
                  o = m.memory /\ parsed'[next][o] = wire[cursor + m.wire]
      <4>1. PICK m \in MoveSet(args[next], How) :
                  o = m.memory /\ parsed'[next][o] = wire[cursor + m.wire]
        BY <3>1
      <4>2. wire[SerialSizeOf(args, next - 1) + m.wire] = <<next, m.memory>>
        BY <1>2, <2>1, <2>2 DEF WireHolds
      <4>3. o \in OnWire(args[next])
        BY <2>3, <4>1 DEF Memory
      <4> QED BY <2>5, <4>1, <4>2, <4>3 DEF ReadBack
    <3>2. CASE /\ \A m \in MoveSet(args[next], How) : o # m.memory
               /\ parsed'[next][o] = IF How = "bit_cast" /\ o \in Assigned[args[next]]
                                     THEN Zero ELSE parsed[next][o]
      <4>1. o \notin OnWire(args[next])
        BY <2>3, <3>2 DEF Memory
      <4>2. ~Deserialized(next)
        BY <1>2, <2>2
      <4>3. parsed[next][o] = Initially
        BY <1>2, <2>1, <4>2 DEF ObjectsHold
      <4> QED BY <3>2, <4>1, <4>3 DEF ReadBack
    <3> QED BY <2>4, <3>1, <3>2
  <2>7. WireHolds'
    BY <1>0, <1>1, <2>1, <2>2 DEF WireHolds
  <2>8. ASSUME NEW i \in 1 .. Len(args), NEW o \in DOMAIN parsed'[i]
        PROVE  parsed'[i][o] = IF Deserialized(i)' THEN ReadBack(i, o) ELSE Initially
    <3>1. CASE i = next
      BY <1>2, <2>2, <2>6, <3>1
    <3>2. CASE i # next
      BY <1>2, <2>1, <2>2, <3>2 DEF ObjectsHold
    <3> QED BY <3>1, <3>2
  <2>9. ObjectsHold'
    BY <1>1, <2>8 DEF ObjectsHold, ReadBack
  <2> QED BY <2>7, <2>9
<1> QED BY <1>1, <1>4, <1>5 DEF Inv

LEMMA StutterInv ==
    ASSUME Inv, UNCHANGED vars
    PROVE  Inv'
<1>1. /\ UNCHANGED callVars /\ stage' = stage /\ next' = next /\ cursor' = cursor
      /\ wire' = wire /\ parsed' = parsed
  BY DEF vars
<1>2. /\ args' = args /\ endianness' = endianness /\ evaluated' = evaluated
      /\ How' = How /\ Initially' = Initially /\ WellPlaced' = WellPlaced
  BY <1>1, CallsStay
<1>3. Typed' = Typed
  BY <1>1, <1>2 DEF Typed
<1>4. \A i : Serialized(i)' = Serialized(i) /\ Deserialized(i)' = Deserialized(i)
  BY <1>1 DEF Serialized, Deserialized
<1>5. WireHolds' = WireHolds
  BY <1>1, <1>2, <1>4 DEF WireHolds
<1>6. ObjectsHold' = ObjectsHold
  BY <1>1, <1>2, <1>4 DEF ObjectsHold, ReadBack
<1> QED BY <1>2, <1>3, <1>5, <1>6 DEF Inv

(* The state has its shape, what is on the wire are bytes of objects at    *)
(* their places, and what is read are these bytes and no others.           *)
THEOREM InvHolds == Spec => []Inv
<1>1. Init => Inv
  BY InitInv
<1>2. Inv /\ [Next]_vars => Inv'
  <2> SUFFICES ASSUME Inv, [Next]_vars
               PROVE  Inv'
    OBVIOUS
  <2>1. CASE SerializeNext
    BY <2>1, SerializeNextInv
  <2>2. CASE HandOver
    BY <2>2, HandOverInv
  <2>3. CASE DeserializeNext
    BY <2>3, DeserializeNextInv
  <2>4. CASE Returned
    BY <2>4, StutterInv DEF Returned
  <2>5. CASE UNCHANGED vars
    BY <2>5, StutterInv
  <2> QED BY <2>1, <2>2, <2>3, <2>4, <2>5 DEF Next
<1> QED BY <1>1, <1>2, PTL DEF Spec

-----------------------------------------------------------------------------
(* The properties.                                                         *)

LEMMA ObjectsLieInside ==
    ASSUME NEW t \in Types
    PROVE  \A o \in OnWire(t) : o \in 0 .. t.size - 1
<1>1. InRoom(MoveSet(t, "fields"), t.size, RawSize[t]) /\ OnWire(t) = Memory(MoveSet(t, "fields"))
  BY VisitingIsSound, FieldsAreMoved DEF Sound
<1>2. \A o \in OnWire(t) : o \in Nat /\ o < t.size
  BY <1>1 DEF InRoom, Memory, ByteMoves
<1>3. t.size \in Nat
  BY TypeParts
<1> QED BY <1>2, <1>3

(* The layout that is computed at compile time moves just the bytes, and   *)
(* to just the places, that the visit of the fields does, unless the type  *)
(* is misplaced; and then it never does.                                   *)
THEOREM OnlyMisplacedTypesDisagreeHolds == Spec => []OnlyMisplacedTypesDisagree
<1>1. Typed => OnlyMisplacedTypesDisagree
  <2> SUFFICES ASSUME Typed, NEW i \in DOMAIN args
               PROVE  Range(FlatMoves(args[i])) # Range(Fields(args[i])) <=> Misplaced[args[i]]
    BY DEF OnlyMisplacedTypesDisagree
  <2> DEFINE t == args[i]
  <2>1. t \in Types
    BY TypedArgs
  <2> HIDE DEF t
  <2>2. Range(FlatMoves(t)) = FlatBytes(t)
    BY <2>1, EnumerateIs, FlatMovesAre DEF FlatBytes
  <2>3. Range(FlatMoves(t)) # Range(Fields(t)) <=> Misplaced[t]
    BY <2>1, <2>2, FieldsAreMoved, MisplacedIsSeen
  <2> QED BY <2>3 DEF t
<1> QED BY <1>1, InvHolds, PTL DEF Inv

(* serialize writes between the old and the new write_ptr only.            *)
THEOREM WritesItsOwnBytesHolds == Spec => WritesItsOwnBytes
<1>1. Inv /\ [Next]_vars =>
         (WellPlaced => \A a \in DOMAIN wire : wire'[a] # wire[a] => cursor <= a /\ a < cursor')
  <2> SUFFICES ASSUME Inv, [Next]_vars, WellPlaced, NEW a \in DOMAIN wire, wire'[a] # wire[a]
               PROVE  cursor <= a /\ a < cursor'
    OBVIOUS
  <2>1. CASE SerializeNext
    <3>1. /\ Typed /\ next \in 1 .. Len(args) /\ cursor' = SerialSizeOf(args, next)
          /\ cursor = SerialSizeOf(args, next - 1)
      BY <2>1, SerializeNextIs DEF Inv, Typed
    <3>2. PICK m \in MoveSet(args[next], How) : a = cursor + m.wire
      BY <2>1, <3>1, SerializeNextIs
    <3>3. m.wire \in Nat /\ cursor \in Nat /\ cursor + m.wire < cursor'
      BY <3>1, MovesStayInRoom
    <3> QED BY <3>2, <3>3
  <2>2. CASE ~SerializeNext
    BY <2>2 DEF Next, HandOver, DeserializeNext, Returned, vars
  <2> QED BY <2>1, <2>2
<1> QED BY <1>1, InvHolds, PTL DEF Spec, WritesItsOwnBytes

(* After the last call the cursor is at the end of the buffer and, when    *)
(* that was a deserialize, all objects have the bytes that were sent.      *)
THEOREM RoundTripHolds == Spec => []RoundTrip
<1>1. Inv => RoundTrip
  <2> SUFFICES ASSUME Inv, WellPlaced, next > Len(args)
               PROVE  /\ cursor = SerialSize(args)
                      /\ stage = "deserialize" =>
                            \A i \in DOMAIN args : \A o \in OnWire(args[i]) : parsed[i][o] = <<i, o>>
    BY DEF RoundTrip
  <2>1. Typed /\ WireHolds /\ ObjectsHold
    BY DEF Inv
  <2>2. /\ next - 1 = Len(args) /\ Len(args) \in Nat /\ DOMAIN args = 1 .. Len(args)
        /\ \A i \in 1 .. Len(args) : i < next
    <3>1. next \in 1 .. Len(args) + 1
      BY <2>1 DEF Typed
    <3>2. Len(args) \in Nat /\ DOMAIN args = 1 .. Len(args)
      BY <2>1, TypedArgs
    <3> QED BY <3>1, <3>2
  <2>3. cursor = SerialSize(args)
    BY <2>1, <2>2 DEF Typed, SerialSize
  <2>4. ASSUME stage = "deserialize", NEW i \in DOMAIN args, NEW o \in OnWire(args[i])
        PROVE  parsed[i][o] = <<i, o>>
    <3>1. Deserialized(i) /\ i \in 1 .. Len(args)
      BY <2>2, <2>4 DEF Deserialized
    <3>2. o \in DOMAIN parsed[i]
      <4>1. args[i] \in Types /\ DOMAIN parsed[i] = 0 .. args[i].size - 1
        BY <2>1, <3>1, TypedArgs DEF Typed
      <4> QED BY <4>1, ObjectsLieInside
    <3> QED BY <2>1, <3>1, <3>2 DEF ObjectsHold, ReadBack
  <2> QED BY <2>3, <2>4
<1> QED BY <1>1, InvHolds, PTL

(* What is ignored or skipped is never in the buffer; in the objects that  *)
(* are read it keeps its value, or is zero if they are assigned as a       *)
(* whole, which no pointer ever is.                                        *)
THEOREM RestOfObjectHolds == Spec => []RestOfObject
<1>1. Inv => RestOfObject
  <2> DEFINE flat(i) == /\ stage = "deserialize" /\ i < next
                        /\ evaluated = "constant" /\ endianness = "native"
  <2> SUFFICES ASSUME Inv, WellPlaced, NEW i \in DOMAIN args, NEW o \in LeftOut(args[i])
               PROVE  /\ <<i, o>> \notin Range(wire)
                      /\ ~flat(i) \/ o \in PointerBytes(args[i]) => parsed[i][o] = Initially
                      /\ flat(i) /\ ~HasPointerMember[args[i]] => parsed[i][o] = Zero
    BY DEF RestOfObject
  <2>1. Typed /\ WireHolds /\ ObjectsHold
    BY DEF Inv
  <2>2. args[i] \in Types /\ i \in 1 .. Len(args) /\ DOMAIN parsed[i] = 0 .. args[i].size - 1
    BY <2>1, TypedArgs DEF Typed
  <2>3. o \notin OnWire(args[i]) /\ o \in 0 .. args[i].size - 1
    <3>1. Within(ScalarBytes[args[i]][TRUE], args[i].size) /\ Within(ScalarBytes[args[i]][FALSE], args[i].size)
      BY <2>2, ScalarsLieInside
    <3>2. o \in Nat /\ o < args[i].size /\ args[i].size \in Nat
      BY <2>2, <3>1, TypeParts DEF LeftOut, Within
    <3> QED BY <3>2 DEF LeftOut
  <2>4. <<i, o>> \notin Range(wire)
    <3>1. ASSUME NEW a \in DOMAIN wire, wire[a] = <<i, o>>
          PROVE  FALSE
      <4>1. Initially # <<i, o>>
        BY <2>2 DEF Initially, Zero, Old
      <4>2. PICK j \in 1 .. Len(args) : \E p \in OnWire(args[j]) : wire[a] = <<j, p>>
        BY <2>1, <3>1, <4>1 DEF WireHolds
      <4> QED BY <2>3, <3>1, <4>2
    <3> QED BY <3>1 DEF Range
  <2>5. parsed[i][o] = IF Deserialized(i) /\ How = "bit_cast" /\ o \in Assigned[args[i]]
                       THEN Zero ELSE Initially
    BY <2>1, <2>2, <2>3 DEF ObjectsHold, ReadBack
  <2>6. Deserialized(i) /\ How = "bit_cast" <=> flat(i)
    <3>1. endianness \in {"native", "foreign"}
      BY <2>1 DEF Typed
    <3> QED BY <3>1 DEF How, Deserialized
  <2>7. o \in PointerBytes(args[i]) => o \notin Assigned[args[i]]
    BY <2>2, PointersAreNotAssigned
  <2>8. ~HasPointerMember[args[i]] => o \in Assigned[args[i]]
    BY <2>2, <2>3, AssignedIs
  <2> HIDE DEF flat
  <2> QED BY <2>4, <2>5, <2>6, <2>7, <2>8
<1> QED BY <1>1, InvHolds, PTL

-----------------------------------------------------------------------------
(* Sums and products of parts of a sequence of numbers.                    *)

LEMMA ProductSteps ==
    ASSUME NEW m \in Nat, NEW numbers \in [1 .. m -> Nat]
    PROVE  /\ Product(numbers, 0) = 1
           /\ \A n \in 0 .. m : Product(numbers, n) \in Nat
           /\ \A n \in 1 .. m : Product(numbers, n) = Product(numbers, n - 1) * numbers[n]
<1> DEFINE step == [i \in 1 .. m |-> [x \in Nat |-> x * numbers[i]]]
<1>1. Iterable(Nat, 1, m, step)
  BY DEF Iterable
<1>2. PICK f : Iterated(Nat, 1, m, step, f)
  <2> HIDE DEF step
  <2> QED BY <1>1, Iterate
<1>3. /\ f \in [0 .. m -> Nat]
      /\ f[0] = 1 /\ \A i \in 1 .. m : f[i] = step[i][f[i - 1]]
  <2> HIDE DEF step
  <2> QED BY <1>2 DEF Iterated
<1>4. f[0] = 1 /\ \A i \in 1 .. m : f[i] = f[i - 1] * numbers[i]
  <2>1. \A i \in 1 .. m : f[i - 1] \in Nat
    BY <1>3
  <2> QED BY <1>3, <2>1
<1> HIDE DEF step
<1>5. ASSUME NEW n \in 0 .. m
      PROVE  Product(numbers, n) = f[n]
  <2> DEFINE product == CHOOSE p : p = [i \in 0 .. n |-> IF i = 0 THEN 1 ELSE p[i - 1] * numbers[i]]
  <2>1. Product(numbers, n) = product[n]
    BY DEF Product
  <2>2. [i \in 0 .. n |-> f[i]]
          = [i \in 0 .. n |-> IF i = 0 THEN 1 ELSE [j \in 0 .. n |-> f[j]][i - 1] * numbers[i]]
    BY <1>4
  <2>3. product = [i \in 0 .. n |-> IF i = 0 THEN 1 ELSE product[i - 1] * numbers[i]]
    BY <2>2
  <2> HIDE DEF product
  <2>4. product[0] = 1 /\ \A i \in 1 .. n : product[i] = product[i - 1] * numbers[i]
    <3>1. \A i \in 0 .. n : product[i] = IF i = 0 THEN 1 ELSE product[i - 1] * numbers[i]
      BY <2>3
    <3> QED BY <3>1
  <2>5. n \in Nat /\ 1 .. n \subseteq 1 .. m
    OBVIOUS
  <2> DEFINE T == {i \in 0 .. n : product[i] = f[i]}
  <2>6. 0 \in T
    BY <1>4, <2>4
  <2>7. \A i \in 1 .. n : i - 1 \in T => i \in T
    BY <1>4, <2>4, <2>5
  <2>8. n \in T
    <3> HIDE DEF T
    <3>1. \A i \in 0 .. n : i \in T
      BY <2>5, <2>6, <2>7, UpTo
    <3> QED BY <2>5, <3>1
  <2> QED BY <2>1, <2>8
<1>6. \A n \in 1 .. m : n \in 0 .. m /\ n - 1 \in 0 .. m
  OBVIOUS
<1>7. 0 \in 0 .. m
  OBVIOUS
<1> QED BY <1>3, <1>4, <1>5, <1>6, <1>7

(* numbers is first, with rest behind it.                                  *)
Joined(numbers, first, m, rest, n) ==
    /\ m \in Nat /\ n \in Nat
    /\ numbers \in [1 .. m + n -> Nat] /\ first \in [1 .. m -> Nat] /\ rest \in [1 .. n -> Nat]
    /\ \A i \in 1 .. m : numbers[i] = first[i]
    /\ \A i \in 1 .. n : numbers[m + i] = rest[i]

LEMMA TotalJoined ==
    ASSUME NEW numbers, NEW first, NEW m, NEW rest, NEW n, Joined(numbers, first, m, rest, n)
    PROVE  Total(numbers, m + n) = Total(first, m) + Total(rest, n)
<1>1. /\ m \in Nat /\ n \in Nat /\ m + n \in Nat
      /\ numbers \in [1 .. m + n -> Nat] /\ first \in [1 .. m -> Nat] /\ rest \in [1 .. n -> Nat]
      /\ \A i \in 1 .. m : numbers[i] = first[i]
      /\ \A i \in 1 .. n : numbers[m + i] = rest[i]
  BY DEF Joined
<1>2. /\ \A i \in 0 .. m : Total(first, i) \in Nat
      /\ \A i \in 0 .. n : Total(rest, i) \in Nat
      /\ Total(numbers, 0) = 0 /\ Total(first, 0) = 0 /\ Total(rest, 0) = 0
      /\ \A i \in 1 .. m + n : Total(numbers, i) = Total(numbers, i - 1) + numbers[i]
      /\ \A i \in 1 .. m : Total(first, i) = Total(first, i - 1) + first[i]
      /\ \A i \in 1 .. n : Total(rest, i) = Total(rest, i - 1) + rest[i]
  BY <1>1, TotalSteps
<1> DEFINE T == {i \in 0 .. m : Total(numbers, i) = Total(first, i)}
           U == {i \in 0 .. n : Total(numbers, m + i) = Total(first, m) + Total(rest, i)}
<1>3. m \in T
  <2>1. 0 \in T
    BY <1>1, <1>2
  <2>2. \A i \in 1 .. m : i - 1 \in T => i \in T
    BY <1>1, <1>2
  <2> HIDE DEF T
  <2>3. \A i \in 0 .. m : i \in T
    BY <1>1, <2>1, <2>2, UpTo
  <2> QED BY <1>1, <2>3
<1>4. n \in U
  <2>1. 0 \in U
    <3>1. Total(first, m) \in Nat /\ m + 0 = m
      BY <1>1, <1>2
    <3> QED BY <1>1, <1>2, <1>3, <3>1
  <2>2. ASSUME NEW i \in 1 .. n, i - 1 \in U
        PROVE  i \in U
    <3>1. m + i \in 1 .. m + n /\ (m + i) - 1 = m + (i - 1) /\ i \in 0 .. n
      BY <1>1
    <3>2. Total(numbers, m + i) = Total(numbers, m + (i - 1)) + rest[i]
      BY <1>1, <1>2, <3>1
    <3>3. Total(numbers, m + (i - 1)) = Total(first, m) + Total(rest, i - 1)
      BY <2>2
    <3>4. Total(first, m) \in Nat /\ Total(rest, i - 1) \in Nat /\ rest[i] \in Nat
      BY <1>1, <1>2
    <3>5. Total(numbers, m + i) = Total(first, m) + (Total(rest, i - 1) + rest[i])
      BY <3>2, <3>3, <3>4
    <3>6. Total(numbers, m + i) = Total(first, m) + Total(rest, i)
      BY <1>2, <3>5
    <3> QED BY <3>1, <3>6
  <2> HIDE DEF U
  <2>3. \A i \in 1 .. n : i - 1 \in U => i \in U
    BY <2>2
  <2>4. \A i \in 0 .. n : i \in U
    BY <1>1, <2>1, <2>3, UpTo
  <2> QED BY <1>1, <2>4
<1> QED BY <1>4

LEMMA ProductJoined ==
    ASSUME NEW numbers, NEW first, NEW m, NEW rest, NEW n, Joined(numbers, first, m, rest, n)
    PROVE  Product(numbers, m + n) = Product(first, m) * Product(rest, n)
<1>1. /\ m \in Nat /\ n \in Nat /\ m + n \in Nat
      /\ numbers \in [1 .. m + n -> Nat] /\ first \in [1 .. m -> Nat] /\ rest \in [1 .. n -> Nat]
      /\ \A i \in 1 .. m : numbers[i] = first[i]
      /\ \A i \in 1 .. n : numbers[m + i] = rest[i]
  BY DEF Joined
<1>2. /\ \A i \in 0 .. m : Product(first, i) \in Nat
      /\ \A i \in 0 .. n : Product(rest, i) \in Nat
      /\ Product(numbers, 0) = 1 /\ Product(first, 0) = 1 /\ Product(rest, 0) = 1
      /\ \A i \in 1 .. m + n : Product(numbers, i) = Product(numbers, i - 1) * numbers[i]
      /\ \A i \in 1 .. m : Product(first, i) = Product(first, i - 1) * first[i]
      /\ \A i \in 1 .. n : Product(rest, i) = Product(rest, i - 1) * rest[i]
  BY <1>1, ProductSteps
<1>3. \A a, b, c \in Nat : (a * b) * c = a * (b * c)
  OBVIOUS
<1> DEFINE T == {i \in 0 .. m : Product(numbers, i) = Product(first, i)}
           U == {i \in 0 .. n : Product(numbers, m + i) = Product(first, m) * Product(rest, i)}
<1>4. m \in T
  <2>1. 0 \in T
    BY <1>1, <1>2
  <2>2. \A i \in 1 .. m : i - 1 \in T => i \in T
    <3>1. \A i \in 1 .. m : i \in 1 .. m + n
      BY <1>1
    <3> QED BY <1>1, <1>2, <3>1
  <2> HIDE DEF T
  <2>3. \A i \in 0 .. m : i \in T
    BY <1>1, <2>1, <2>2, UpTo
  <2> QED BY <1>1, <2>3
<1>5. n \in U
  <2>1. 0 \in U
    <3>1. Product(first, m) \in Nat /\ m + 0 = m
      BY <1>1, <1>2
    <3>2. Product(first, m) * 1 = Product(first, m)
      BY <3>1
    <3> QED BY <1>1, <1>2, <1>4, <3>1, <3>2
  <2>2. ASSUME NEW i \in 1 .. n, i - 1 \in U
        PROVE  i \in U
    <3>1. m + i \in 1 .. m + n /\ (m + i) - 1 = m + (i - 1) /\ i \in 0 .. n
      BY <1>1
    <3>2. Product(numbers, m + i) = Product(numbers, m + (i - 1)) * rest[i]
      BY <1>1, <1>2, <3>1
    <3>3. Product(numbers, m + (i - 1)) = Product(first, m) * Product(rest, i - 1)
      BY <2>2
    <3>4. Product(first, m) \in Nat /\ Product(rest, i - 1) \in Nat /\ rest[i] \in Nat
      BY <1>1, <1>2
    <3>5. Product(numbers, m + i) = Product(first, m) * (Product(rest, i - 1) * rest[i])
      BY <1>3, <3>2, <3>3, <3>4
    <3>6. Product(numbers, m + i) = Product(first, m) * Product(rest, i)
      BY <1>2, <3>5
    <3> QED BY <3>1, <3>6
  <2> HIDE DEF U
  <2>3. \A i \in 1 .. n : i - 1 \in U => i \in U
    BY <2>2
  <2>4. \A i \in 0 .. n : i \in U
    BY <1>1, <2>1, <2>3, UpTo
  <2> QED BY <1>1, <2>4
<1> QED BY <1>5

LEMMA ProductOfOnes ==
    ASSUME NEW n \in Nat, NEW numbers \in [1 .. n -> Nat], \A i \in 1 .. n : numbers[i] = 1
    PROVE  Product(numbers, n) = 1
<1> DEFINE T == {i \in 0 .. n : Product(numbers, i) = 1}
<1>1. 0 \in T
  BY ProductSteps
<1>2. \A i \in 1 .. n : i - 1 \in T => i \in T
  <2>1. \A i \in 1 .. n : Product(numbers, i) = Product(numbers, i - 1) * numbers[i]
    BY ProductSteps
  <2> QED BY <2>1
<1> HIDE DEF T
<1>3. \A i \in 0 .. n : i \in T
  BY <1>1, <1>2, UpTo
<1> QED BY <1>3 DEF T

(* Every number times the same factor.                                     *)
LEMMA TotalTimes ==
    ASSUME NEW n \in Nat, NEW numbers \in [1 .. n -> Nat], NEW factor \in Nat,
           NEW multiples \in [1 .. n -> Nat],
           \A i \in 1 .. n : multiples[i] = factor * numbers[i]
    PROVE  Total(multiples, n) = factor * Total(numbers, n)
<1> DEFINE T == {i \in 0 .. n : Total(multiples, i) = factor * Total(numbers, i)}
<1>1. /\ Total(numbers, 0) = 0 /\ Total(multiples, 0) = 0
      /\ \A i \in 0 .. n : Total(numbers, i) \in Nat
      /\ \A i \in 1 .. n : Total(numbers, i) = Total(numbers, i - 1) + numbers[i]
      /\ \A i \in 1 .. n : Total(multiples, i) = Total(multiples, i - 1) + multiples[i]
  BY TotalSteps
<1>2. 0 \in T
  BY <1>1
<1>3. \A a, b \in Nat : factor * a + factor * b = factor * (a + b)
  OBVIOUS
<1>4. \A i \in 1 .. n : i - 1 \in T => i \in T
  BY <1>1, <1>3
<1> HIDE DEF T
<1>5. \A i \in 0 .. n : i \in T
  BY <1>2, <1>4, UpTo
<1> QED BY <1>5 DEF T

LEMMA TotalOfEqual ==
    ASSUME NEW n \in Nat, NEW number \in Nat, NEW numbers \in [1 .. n -> Nat],
           \A i \in 1 .. n : numbers[i] = number
    PROVE  Total(numbers, n) = n * number
<1> DEFINE T == {i \in 0 .. n : Total(numbers, i) = i * number}
<1>1. /\ Total(numbers, 0) = 0
      /\ \A i \in 1 .. n : Total(numbers, i) = Total(numbers, i - 1) + numbers[i]
  BY TotalSteps
<1>2. 0 \in T
  BY <1>1
<1>3. \A i \in 1 .. n : (i - 1) * number + number = i * number
  OBVIOUS
<1>4. \A i \in 1 .. n : i - 1 \in T => i \in T
  BY <1>1, <1>3
<1> HIDE DEF T
<1>5. \A i \in 0 .. n : i \in T
  BY <1>2, <1>4, UpTo
<1> QED BY <1>5 DEF T

-----------------------------------------------------------------------------
(* The lines of schemas.                                                   *)

Lines == [depth : Nat, bytes : Nat, type : Types]

(* How often a line stands for what is in the line it is enclosed by.      *)
Factor(lines, i, j) ==
    IF /\ lines[i].type.kind = "container"
       /\ \A k \in i + 1 .. j : lines[k].depth > lines[i].depth
    THEN lines[i].type.length ELSE 1

Factors(lines, j) == [i \in 1 .. j - 1 |-> Factor(lines, i, j)]

Weight(lines, j) ==
    IF lines[j].type.kind = "scalar" THEN lines[j].bytes * Times(lines, j) ELSE 0

Weights(lines) == [j \in 1 .. Len(lines) |-> Weight(lines, j)]

LEMMA LineIs ==
    ASSUME NEW lines \in Seq(Lines)
    PROVE  /\ Len(lines) \in Nat /\ DOMAIN lines = 1 .. Len(lines)
           /\ \A i \in 1 .. Len(lines) :
                 /\ lines[i] \in Lines /\ lines[i].depth \in Nat /\ lines[i].bytes \in Nat
                 /\ lines[i].type \in Types
                 /\ lines[i].type.kind = "container" => lines[i].type.length \in Nat
<1>1. Len(lines) \in Nat /\ DOMAIN lines = 1 .. Len(lines)
      /\ \A i \in 1 .. Len(lines) : lines[i] \in Lines
  OBVIOUS
<1>2. \A i \in 1 .. Len(lines) :
         lines[i].depth \in Nat /\ lines[i].bytes \in Nat /\ lines[i].type \in Types
  BY <1>1 DEF Lines
<1>3. \A i \in 1 .. Len(lines) : lines[i].type.kind = "container" => lines[i].type.length \in Nat
  BY <1>2, TypeParts
<1> QED BY <1>1, <1>2, <1>3

LEMMA WeightsAre ==
    ASSUME NEW lines \in Seq(Lines)
    PROVE  /\ \A j \in 1 .. Len(lines) :
                 /\ j - 1 \in Nat /\ Factors(lines, j) \in [1 .. j - 1 -> Nat]
                 /\ Times(lines, j) = Product(Factors(lines, j), j - 1)
                 /\ Times(lines, j) \in Nat /\ Weight(lines, j) \in Nat
           /\ Weights(lines) \in [1 .. Len(lines) -> Nat]
           /\ BytesListed(lines) = Total(Weights(lines), Len(lines))
           /\ BytesListed(lines) \in Nat
<1>1. ASSUME NEW j \in 1 .. Len(lines)
      PROVE  /\ j - 1 \in Nat /\ Factors(lines, j) \in [1 .. j - 1 -> Nat]
             /\ Times(lines, j) = Product(Factors(lines, j), j - 1)
             /\ Times(lines, j) \in Nat /\ Weight(lines, j) \in Nat
  <2>1. j - 1 \in Nat /\ \A i \in 1 .. j - 1 : i \in 1 .. Len(lines)
    BY LineIs
  <2>2. \A i \in 1 .. j - 1 : Factor(lines, i, j) \in Nat
    BY <2>1, LineIs DEF Factor
  <2>3. Factors(lines, j) \in [1 .. j - 1 -> Nat]
    BY <2>2 DEF Factors
  <2>4. Times(lines, j) = Product(Factors(lines, j), j - 1)
    BY DEF Times, Factors, Factor
  <2>5. Times(lines, j) \in Nat
    <3>1. j - 1 \in 0 .. j - 1
      BY <2>1
    <3> QED BY <2>1, <2>3, <2>4, <3>1, ProductSteps
  <2>6. Weight(lines, j) \in Nat
    BY <2>5, LineIs DEF Weight
  <2> QED BY <2>1, <2>3, <2>4, <2>5, <2>6
<1>2. Weights(lines) \in [1 .. Len(lines) -> Nat]
  BY <1>1 DEF Weights
<1>3. BytesListed(lines) = Total(Weights(lines), Len(lines))
  <2>1. DOMAIN lines = 1 .. Len(lines)
    BY LineIs
  <2> QED BY <2>1 DEF BytesListed, Weights, Weight
<1>4. BytesListed(lines) \in Nat
  <2>1. Len(lines) \in Nat /\ Len(lines) \in 0 .. Len(lines)
    BY LineIs
  <2> QED BY <1>2, <1>3, <2>1, TotalSteps
<1> QED BY <1>1, <1>2, <1>3, <1>4

(* Indenting all lines changes nothing about what they stand for.          *)
LEMMA IndentedIs ==
    ASSUME NEW lines \in Seq(Lines)
    PROVE  /\ Indented(lines) \in Seq(Lines) /\ Len(Indented(lines)) = Len(lines)
           /\ \A i \in 1 .. Len(lines) : Indented(lines)[i].depth = lines[i].depth + 1
           /\ BytesListed(Indented(lines)) = BytesListed(lines)
<1> DEFINE n == Len(lines)
           indented == Indented(lines)
           further(l) == [l EXCEPT !.depth = @ + 1]
<1>1. n \in Nat /\ DOMAIN lines = 1 .. n /\ \A i \in 1 .. n : lines[i] \in Lines
  BY LineIs
<1> HIDE DEF n
<1>2. \A l \in Lines : /\ further(l) \in Lines /\ further(l).depth = l.depth + 1
                       /\ further(l).bytes = l.bytes /\ further(l).type = l.type
  BY DEF Lines
<1>3. indented = [i \in 1 .. n |-> further(lines[i])]
  BY <1>1 DEF Indented
<1> HIDE DEF indented, further
<1>4. indented \in [1 .. n -> Lines]
  BY <1>1, <1>2, <1>3
<1>5. indented \in Seq(Lines) /\ Len(indented) = n
  BY <1>1, <1>4
<1>6. \A i \in 1 .. n : /\ indented[i].depth = lines[i].depth + 1
                        /\ indented[i].bytes = lines[i].bytes /\ indented[i].type = lines[i].type
  BY <1>1, <1>2, <1>3
<1>7. ASSUME NEW j \in 1 .. n
      PROVE  Weight(indented, j) = Weight(lines, j)
  <2>1. ASSUME NEW i \in 1 .. j - 1
        PROVE  Factor(indented, i, j) = Factor(lines, i, j)
    <3>1. i \in 1 .. n /\ \A k \in i + 1 .. j : k \in 1 .. n
      BY <1>1
    <3>2. \A k \in i + 1 .. j : indented[k].depth > indented[i].depth <=> lines[k].depth > lines[i].depth
      <4>1. \A k \in 1 .. n : lines[k].depth \in Nat
        BY LineIs DEF n
      <4> QED BY <1>6, <3>1, <4>1
    <3> QED BY <1>6, <3>1, <3>2 DEF Factor
  <2>2. Factors(indented, j) = Factors(lines, j)
    BY <2>1 DEF Factors
  <2>3. /\ Times(indented, j) = Product(Factors(indented, j), j - 1)
        /\ Times(lines, j) = Product(Factors(lines, j), j - 1)
    BY <1>5, WeightsAre DEF n
  <2> QED BY <1>6, <2>2, <2>3 DEF Weight
<1>8. Weights(indented) = Weights(lines)
  BY <1>5, <1>7 DEF Weights, n
<1>9. BytesListed(indented) = BytesListed(lines)
  BY <1>5, <1>8, WeightsAre DEF n
<1> QED BY <1>5, <1>6, <1>9 DEF n, indented

(* Lines put behind others.                                                *)
LEMMA LinesBehind ==
    ASSUME NEW before \in Seq(Lines), NEW lines \in Seq(Lines)
    PROVE  /\ before \o lines \in Seq(Lines)
           /\ Len(before \o lines) = Len(before) + Len(lines)
           /\ \A j \in 1 .. Len(before) :
                 /\ (before \o lines)[j] = before[j]
                 /\ Weight(before \o lines, j) = Weight(before, j)
           /\ \A j \in 1 .. Len(lines) :
                 /\ (before \o lines)[Len(before) + j] = lines[j]
                 /\ \A i \in 1 .. j - 1 :
                       Factor(before \o lines, Len(before) + i, Len(before) + j) = Factor(lines, i, j)
<1> DEFINE m == Len(before)
           n == Len(lines)
           all == before \o lines
<1>1. /\ m \in Nat /\ n \in Nat /\ all \in Seq(Lines) /\ Len(all) = m + n
      /\ \A j \in 1 .. m : all[j] = before[j]
      /\ \A j \in 1 .. n : all[m + j] = lines[j]
  <2>1. all \in Seq(Lines) /\ Len(all) = m + n /\ m \in Nat /\ n \in Nat
    OBVIOUS
  <2>2. \A j \in 1 .. m : all[j] = before[j]
    OBVIOUS
  <2>3. \A j \in 1 .. n : all[m + j] = lines[j]
    OBVIOUS
  <2> QED BY <2>1, <2>2, <2>3
<1> HIDE DEF m, n, all
<1>2. ASSUME NEW j \in 1 .. m
      PROVE  Weight(all, j) = Weight(before, j)
  <2>1. \A k \in 1 .. j : all[k] = before[k]
    BY <1>1
  <2>2. ASSUME NEW i \in 1 .. j - 1
        PROVE  Factor(all, i, j) = Factor(before, i, j)
    <3>1. i \in 1 .. j /\ \A k \in i + 1 .. j : k \in 1 .. j
      BY <1>1
    <3>2. \A k \in i + 1 .. j : all[k].depth > all[i].depth <=> before[k].depth > before[i].depth
      BY <2>1, <3>1
    <3> QED BY <2>1, <3>1, <3>2 DEF Factor
  <2>3. Factors(all, j) = Factors(before, j)
    BY <2>2 DEF Factors
  <2>4. j \in 1 .. Len(all) /\ j \in 1 .. Len(before)
    BY <1>1 DEF m
  <2>5. Times(all, j) = Times(before, j)
    BY <1>1, <2>3, <2>4, WeightsAre
  <2>6. j \in 1 .. j
    BY <1>1
  <2> QED BY <2>1, <2>5, <2>6 DEF Weight
<1>3. ASSUME NEW j \in 1 .. n, NEW i \in 1 .. j - 1
      PROVE  Factor(all, m + i, m + j) = Factor(lines, i, j)
  <2>1. i \in 1 .. n /\ \A k \in i + 1 .. j : k \in 1 .. n
    BY <1>1
  <2>2. (\A k \in (m + i) + 1 .. m + j : all[k].depth > all[m + i].depth)
           <=> \A k \in i + 1 .. j : lines[k].depth > lines[i].depth
    <3>1. ASSUME \A k \in (m + i) + 1 .. m + j : all[k].depth > all[m + i].depth,
                 NEW k \in i + 1 .. j
          PROVE  lines[k].depth > lines[i].depth
      <4>1. m + k \in (m + i) + 1 .. m + j
        BY <1>1
      <4>2. all[m + k].depth > all[m + i].depth
        BY <3>1, <4>1
      <4> QED BY <1>1, <2>1, <4>2
    <3>2. ASSUME \A k \in i + 1 .. j : lines[k].depth > lines[i].depth,
                 NEW k \in (m + i) + 1 .. m + j
          PROVE  all[k].depth > all[m + i].depth
      <4>1. k - m \in i + 1 .. j /\ m + (k - m) = k
        BY <1>1
      <4>2. lines[k - m].depth > lines[i].depth
        BY <3>2, <4>1
      <4>3. all[m + (k - m)] = lines[k - m] /\ all[m + i] = lines[i]
        BY <1>1, <2>1, <4>1
      <4> QED BY <4>1, <4>2, <4>3
    <3> QED BY <3>1, <3>2
  <2>3. all[m + i] = lines[i]
    BY <1>1, <2>1
  <2> QED BY <2>2, <2>3 DEF Factor
<1> QED BY <1>1, <1>2, <1>3 DEF m, n, all

(* What the lines behind stand for, if they are multiplied by some factor. *)
LEMMA BytesBehind ==
    ASSUME NEW before \in Seq(Lines), NEW lines \in Seq(Lines), NEW factor \in Nat,
           \A j \in 1 .. Len(lines) :
              Times(before \o lines, Len(before) + j) = factor * Times(lines, j)
    PROVE  BytesListed(before \o lines) = BytesListed(before) + factor * BytesListed(lines)
<1> DEFINE m == Len(before)
           n == Len(lines)
           all == before \o lines
           multiples == [j \in 1 .. n |-> factor * Weight(lines, j)]
<1>1. /\ all \in Seq(Lines) /\ Len(all) = m + n
      /\ \A j \in 1 .. m : Weight(all, j) = Weight(before, j)
      /\ \A j \in 1 .. n : all[m + j] = lines[j]
  BY LinesBehind
<1>2. /\ m \in Nat /\ n \in Nat
      /\ \A j \in 1 .. n : lines[j].bytes \in Nat
  BY LineIs
<1>3. \A j \in 1 .. n : Weight(lines, j) \in Nat /\ Times(lines, j) \in Nat
  BY WeightsAre
<1>4. \A j \in 1 .. n : Weight(all, m + j) = factor * Weight(lines, j)
  <2> HIDE DEF m, n, all
  <2> SUFFICES ASSUME NEW j \in 1 .. n
               PROVE  Weight(all, m + j) = factor * Weight(lines, j)
    OBVIOUS
  <2>1. Times(all, m + j) = factor * Times(lines, j) /\ all[m + j] = lines[j]
    BY <1>1 DEF m, n, all
  <2> DEFINE bytes == lines[j].bytes
             times == Times(lines, j)
  <2>2. bytes \in Nat /\ times \in Nat
    BY <1>2, <1>3
  <2>3. CASE lines[j].type.kind = "scalar"
    <3>1. Weight(all, m + j) = bytes * (factor * times) /\ Weight(lines, j) = bytes * times
      BY <2>1, <2>3 DEF Weight
    <3> HIDE DEF bytes, times
    <3>2. bytes * (factor * times) = factor * (bytes * times)
      BY <2>2
    <3> QED BY <3>1, <3>2
  <2>4. CASE lines[j].type.kind # "scalar"
    BY <2>1, <2>4 DEF Weight
  <2> QED BY <2>3, <2>4
<1>5. multiples \in [1 .. n -> Nat]
  BY <1>3
<1> HIDE DEF m, n, all
<1>6. Joined(Weights(all), Weights(before), m, multiples, n)
  <2>1. Weights(all) \in [1 .. m + n -> Nat] /\ Weights(before) \in [1 .. m -> Nat]
    BY <1>1, WeightsAre DEF m
  <2>2. \A j \in 1 .. m : Weights(all)[j] = Weights(before)[j]
    <3>1. \A j \in 1 .. m : j \in 1 .. Len(all)
      BY <1>1, <1>2
    <3> QED BY <1>1, <3>1 DEF Weights, m
  <2>3. \A j \in 1 .. n : Weights(all)[m + j] = multiples[j]
    <3>1. \A j \in 1 .. n : m + j \in 1 .. Len(all)
      BY <1>1, <1>2
    <3> QED BY <1>4, <3>1 DEF Weights
  <2> QED BY <1>2, <1>5, <2>1, <2>2, <2>3 DEF Joined
<1>7. Total(multiples, n) = factor * Total(Weights(lines), n)
  <2>1. Weights(lines) \in [1 .. n -> Nat]
    BY WeightsAre DEF n
  <2>2. \A j \in 1 .. n : multiples[j] = factor * Weights(lines)[j]
    BY DEF Weights, n
  <2> HIDE DEF multiples
  <2> QED BY <1>2, <1>5, <2>1, <2>2, TotalTimes
<1>8. Total(Weights(all), m + n) = Total(Weights(before), m) + Total(multiples, n)
  BY <1>6, TotalJoined
<1>9. /\ BytesListed(all) = Total(Weights(all), m + n)
      /\ BytesListed(before) = Total(Weights(before), m)
      /\ BytesListed(lines) = Total(Weights(lines), n)
  BY <1>1, WeightsAre DEF m, n
<1>10. BytesListed(all) = BytesListed(before) + factor * BytesListed(lines)
  BY <1>7, <1>8, <1>9
<1> QED BY <1>10 DEF all

(* Lines that do not enclose those behind them.                            *)
LEMMA LinesAddUp ==
    ASSUME NEW before \in Seq(Lines), NEW lines \in Seq(Lines),
           \A i \in 1 .. Len(before) :
              \/ before[i].type.kind # "container"
              \/ Len(lines) > 0 => lines[1].depth <= before[i].depth
    PROVE  BytesListed(before \o lines) = BytesListed(before) + BytesListed(lines)
<1> DEFINE m == Len(before)
           n == Len(lines)
           all == before \o lines
<1>1. /\ all \in Seq(Lines) /\ Len(all) = m + n
      /\ \A j \in 1 .. m : all[j] = before[j]
      /\ \A j \in 1 .. n : /\ all[m + j] = lines[j]
                           /\ \A i \in 1 .. j - 1 : Factor(all, m + i, m + j) = Factor(lines, i, j)
  BY LinesBehind
<1>2. /\ m \in Nat /\ n \in Nat
      /\ \A j \in 1 .. m : before[j].depth \in Nat
      /\ \A j \in 1 .. n : lines[j].depth \in Nat
  BY LineIs
<1>3. \A i \in 1 .. m : \/ before[i].type.kind # "container"
                        \/ n > 0 => lines[1].depth <= before[i].depth
  OBVIOUS
<1> HIDE DEF m, n, all
<1>4. ASSUME NEW j \in 1 .. n
      PROVE  Times(all, m + j) = 1 * Times(lines, j)
  <2> DEFINE ones == [i \in 1 .. m |-> 1]
  <2>1. ASSUME NEW i \in 1 .. m
        PROVE  Factor(all, i, m + j) = 1
    <3>1. CASE before[i].type.kind # "container"
      BY <1>1, <3>1 DEF Factor
    <3>2. CASE lines[1].depth <= before[i].depth
      <4>1. m + 1 \in i + 1 .. m + j /\ 1 \in 1 .. n
        BY <1>2
      <4>2. all[m + 1] = lines[1] /\ all[i] = before[i]
        BY <1>1, <4>1
      <4>3. ~(all[m + 1].depth > all[i].depth)
        BY <1>2, <3>2, <4>1, <4>2
      <4> QED BY <4>1, <4>3 DEF Factor
    <3>3. n > 0
      BY <1>2
    <3> QED BY <1>3, <3>1, <3>2, <3>3
  <2>2. /\ j - 1 \in Nat /\ m + (j - 1) = (m + j) - 1
        /\ m + j \in 1 .. Len(all) /\ j \in 1 .. Len(lines)
    BY <1>1, <1>2 DEF n
  <2>3. /\ Factors(all, m + j) \in [1 .. (m + j) - 1 -> Nat]
        /\ Times(all, m + j) = Product(Factors(all, m + j), (m + j) - 1)
    BY <1>1, <2>2, WeightsAre
  <2>4. /\ Factors(lines, j) \in [1 .. j - 1 -> Nat]
        /\ Times(lines, j) = Product(Factors(lines, j), j - 1) /\ Times(lines, j) \in Nat
    BY <2>2, WeightsAre
  <2>5. Joined(Factors(all, m + j), ones, m, Factors(lines, j), j - 1)
    <3>1. \A i \in 1 .. m : i \in 1 .. (m + j) - 1
      BY <1>2
    <3>2. \A i \in 1 .. m : Factors(all, m + j)[i] = ones[i]
      BY <2>1, <3>1 DEF Factors
    <3>3. \A i \in 1 .. j - 1 : m + i \in 1 .. (m + j) - 1
      BY <1>2
    <3>4. \A i \in 1 .. j - 1 : Factors(all, m + j)[m + i] = Factors(lines, j)[i]
      BY <1>1, <3>3 DEF Factors
    <3>5. ones \in [1 .. m -> Nat]
      OBVIOUS
    <3>6. Factors(all, m + j) \in [1 .. m + (j - 1) -> Nat]
      BY <2>2, <2>3
    <3> HIDE DEF ones
    <3> QED BY <1>2, <2>2, <2>4, <3>2, <3>4, <3>5, <3>6 DEF Joined
  <2>6. Product(ones, m) = 1
    <3>1. ones \in [1 .. m -> Nat] /\ \A i \in 1 .. m : ones[i] = 1
      OBVIOUS
    <3> HIDE DEF ones
    <3> QED BY <1>2, <3>1, ProductOfOnes
  <2> HIDE DEF ones
  <2>7. Product(Factors(all, m + j), m + (j - 1)) = Product(ones, m) * Product(Factors(lines, j), j - 1)
    BY <2>5, ProductJoined
  <2> QED BY <2>2, <2>3, <2>4, <2>6, <2>7
<1>5. BytesListed(all) = BytesListed(before) + 1 * BytesListed(lines)
  <2>1. 1 \in Nat
    OBVIOUS
  <2> QED BY <1>4, <2>1, BytesBehind DEF m, n, all
<1>6. BytesListed(lines) \in Nat
  BY WeightsAre
<1> QED BY <1>5, <1>6 DEF all

(* The lines below that of a container stand for that in each element.     *)
LEMMA LinesEnclosed ==
    ASSUME NEW head \in Lines, head.type.kind = "container", NEW lines \in Seq(Lines),
           \A j \in 1 .. Len(lines) : lines[j].depth > head.depth
    PROVE  BytesListed(<<head>> \o lines) = head.type.length * BytesListed(lines)
<1> DEFINE n == Len(lines)
           before == <<head>>
           all == before \o lines
           length == head.type.length
<1>1. /\ before \in Seq(Lines) /\ Len(before) = 1 /\ before[1] = head /\ 1 \in 1 .. Len(before)
  OBVIOUS
<1>2. length \in Nat
  BY <1>1, LineIs
<1> HIDE DEF before, length
<1>3. /\ all \in Seq(Lines) /\ Len(all) = 1 + n /\ all[1] = head
      /\ \A j \in 1 .. n : /\ all[1 + j] = lines[j]
                           /\ \A i \in 1 .. j - 1 : Factor(all, 1 + i, 1 + j) = Factor(lines, i, j)
  <2>1. /\ all \in Seq(Lines) /\ Len(all) = Len(before) + n
        /\ \A j \in 1 .. Len(before) : all[j] = before[j]
        /\ \A j \in 1 .. n :
              /\ all[Len(before) + j] = lines[j]
              /\ \A i \in 1 .. j - 1 :
                    Factor(all, Len(before) + i, Len(before) + j) = Factor(lines, i, j)
    BY <1>1, LinesBehind
  <2> HIDE DEF n, all
  <2>2. all[1] = head
    BY <1>1, <2>1
  <2>3. ASSUME NEW j \in 1 .. n
        PROVE  /\ all[1 + j] = lines[j]
               /\ \A i \in 1 .. j - 1 : Factor(all, 1 + i, 1 + j) = Factor(lines, i, j)
    BY <1>1, <2>1
  <2> QED BY <1>1, <2>1, <2>2, <2>3
<1>4. n \in Nat
  BY LineIs
<1>5. \A j \in 1 .. n : lines[j].depth > head.depth
  OBVIOUS
<1> HIDE DEF n, all
<1>6. ASSUME NEW j \in 1 .. n
      PROVE  Times(all, 1 + j) = length * Times(lines, j)
  <2> DEFINE first == [i \in 1 .. 1 |-> length]
  <2>1. Factor(all, 1, 1 + j) = length
    <3>1. ASSUME NEW k \in 1 + 1 .. 1 + j
          PROVE  all[k].depth > all[1].depth
      <4>1. k - 1 \in 1 .. n /\ 1 + (k - 1) = k
        BY <1>4
      <4> QED BY <1>3, <1>5, <4>1
    <3> QED BY <1>3, <3>1 DEF Factor, length
  <2>2. /\ j - 1 \in Nat /\ 1 + (j - 1) = (1 + j) - 1
        /\ 1 + j \in 1 .. Len(all) /\ j \in 1 .. Len(lines)
    BY <1>3, <1>4 DEF n
  <2>3. /\ Factors(all, 1 + j) \in [1 .. (1 + j) - 1 -> Nat]
        /\ Times(all, 1 + j) = Product(Factors(all, 1 + j), (1 + j) - 1)
    BY <1>3, <2>2, WeightsAre
  <2>4. /\ Factors(lines, j) \in [1 .. j - 1 -> Nat]
        /\ Times(lines, j) = Product(Factors(lines, j), j - 1)
    BY <2>2, WeightsAre
  <2>5. first \in [1 .. 1 -> Nat] /\ first[1] = length
    BY <1>2
  <2>6. Joined(Factors(all, 1 + j), first, 1, Factors(lines, j), j - 1)
    <3>1. 1 \in 1 .. (1 + j) - 1
      BY <2>2
    <3>2. Factors(all, 1 + j)[1] = first[1]
      BY <2>1, <2>5, <3>1 DEF Factors
    <3>3. \A i \in 1 .. j - 1 : 1 + i \in 1 .. (1 + j) - 1
      BY <1>4
    <3>4. \A i \in 1 .. j - 1 : Factors(all, 1 + j)[1 + i] = Factors(lines, j)[i]
      BY <1>3, <3>3 DEF Factors
    <3>5. Factors(all, 1 + j) \in [1 .. 1 + (j - 1) -> Nat] /\ 1 \in Nat
      BY <2>2, <2>3
    <3> HIDE DEF first
    <3>6. \A i \in 1 .. 1 : Factors(all, 1 + j)[i] = first[i]
      BY <3>2
    <3> QED BY <2>2, <2>4, <2>5, <3>4, <3>5, <3>6 DEF Joined
  <2>7. Product(first, 1) = length
    <3> HIDE DEF first
    <3>1. 1 \in 1 .. 1 /\ 1 \in Nat /\ 1 - 1 = 0
      OBVIOUS
    <3>2. Product(first, 0) = 1 /\ Product(first, 1) = Product(first, 1 - 1) * first[1]
      BY <2>5, <3>1, ProductSteps
    <3> QED BY <1>2, <2>5, <3>1, <3>2
  <2> HIDE DEF first
  <2>8. Product(Factors(all, 1 + j), 1 + (j - 1)) = Product(first, 1) * Product(Factors(lines, j), j - 1)
    BY <2>6, ProductJoined
  <2> QED BY <2>2, <2>3, <2>4, <2>7, <2>8
<1>7. BytesListed(all) = BytesListed(before) + length * BytesListed(lines)
  BY <1>1, <1>2, <1>6, BytesBehind DEF n, all
<1>8. BytesListed(before) = 0
  <2>1. Weights(before) \in [1 .. 1 -> Nat] /\ BytesListed(before) = Total(Weights(before), 1)
    BY <1>1, WeightsAre
  <2>2. Weights(before)[1] = 0
    BY <1>1 DEF Weights, Weight
  <2>3. Total(Weights(before), 0) = 0
        /\ Total(Weights(before), 1) = Total(Weights(before), 1 - 1) + Weights(before)[1]
    <3>1. 1 \in 1 .. 1 /\ 1 \in Nat
      OBVIOUS
    <3> QED BY <2>1, <3>1, TotalSteps
  <2> QED BY <2>1, <2>2, <2>3
<1>9. length * BytesListed(lines) \in Nat
  BY <1>2, WeightsAre
<1> QED BY <1>7, <1>8, <1>9 DEF all, before, length

(* What a schema is made of.                                               *)
HeadLine(t) == [depth |-> 0, bytes |-> RawSize[t], type |-> t]

MemberLines(t) ==
    [j \in DOMAIN t.members |->
        IF Listed(t.members[j]) THEN Indented(Schema[t.members[j].type]) ELSE << >>]

LEMMA SchemaIs ==
    /\ \A t \in Types : HeadLine(t) \in Lines /\ Schema[t] \in Seq(Lines)
    /\ \A t \in Types :
          /\ t.kind = "scalar" => Schema[t] = <<HeadLine(t)>>
          /\ t.kind = "container" => Schema[t] = <<HeadLine(t)>> \o Indented(Schema[t.value_type])
          /\ t.kind = "aggregate" => Schema[t] = <<HeadLine(t)>> \o FlattenSeq(MemberLines(t))
<1> DEFINE member(g, t, j) == IF Listed(t.members[j]) THEN Indented(g[t.members[j].type]) ELSE << >>
           members(g, t) == [j \in DOMAIN t.members |-> member(g, t, j)]
           below(g, t) == CASE t.kind = "scalar" -> << >>
                            [] t.kind = "container" -> Indented(g[t.value_type])
                            [] t.kind = "aggregate" -> FlattenSeq(members(g, t))
           body(g, t) == <<HeadLine(t)>> \o below(g, t)
           step == [t \in Types |-> [g \in [Types -> Seq(Lines)] |-> body(g, t)]]
<1>1. \A t \in Types : HeadLine(t) \in Lines
  BY RawSizeIs DEF HeadLine, Lines
<1>2. ASSUME NEW t \in Types, NEW g, \A p \in PartTypes(t) : g[p] \in Seq(Lines)
      PROVE  body(g, t) \in Seq(Lines)
  <2>1. CASE t.kind = "scalar"
    BY <1>1, <2>1
  <2>2. CASE t.kind = "container"
    <3>1. g[t.value_type] \in Seq(Lines)
      BY <1>2, <2>2, TypeParts
    <3>2. Indented(g[t.value_type]) \in Seq(Lines)
      BY <3>1, IndentedIs
    <3> QED BY <1>1, <2>2, <3>2
  <2>3. CASE t.kind = "aggregate"
    <3>1. /\ Len(t.members) \in Nat /\ DOMAIN t.members = 1 .. Len(t.members)
          /\ \A j \in 1 .. Len(t.members) : g[t.members[j].type] \in Seq(Lines)
      BY <1>2, <2>3, TypeParts
    <3>2. << >> \in Seq(Lines)
      OBVIOUS
    <3>3. \A j \in 1 .. Len(t.members) : member(g, t, j) \in Seq(Lines)
      BY <3>1, <3>2, IndentedIs
    <3> HIDE DEF member
    <3>4. members(g, t) \in [1 .. Len(t.members) -> Seq(Lines)]
      BY <3>1, <3>3
    <3> HIDE DEF members
    <3>5. FlattenSeq(members(g, t)) \in Seq(Lines)
      BY <3>1, <3>4, FlattenSeqIs
    <3> QED BY <1>1, <2>3, <3>5
  <2> QED BY <2>1, <2>2, <2>3, TypeParts
<1>3. ASSUME NEW t \in Types, NEW f, NEW g, \A p \in PartTypes(t) : f[p] = g[p]
      PROVE  body(f, t) = body(g, t)
  <2>1. CASE t.kind = "scalar"
    BY <2>1
  <2>2. CASE t.kind = "container"
    <3>1. f[t.value_type] = g[t.value_type]
      BY <1>3, <2>2, TypeParts
    <3> QED BY <2>2, <3>1
  <2>3. CASE t.kind = "aggregate"
    <3>1. \A j \in DOMAIN t.members : f[t.members[j].type] = g[t.members[j].type]
      BY <1>3, <2>3, TypeParts
    <3>2. members(f, t) = members(g, t)
      BY <3>1
    <3> HIDE DEF members
    <3> QED BY <2>3, <3>2
  <2> QED BY <2>1, <2>2, <2>3, TypeParts
<1> HIDE DEF body
<1>4. TypeSteps(Seq(Lines), step)
  <2>1. \A t \in Types : \A g \in [Types -> Seq(Lines)] : body(g, t) \in Seq(Lines)
    BY <1>2, TypesAssumption DEF LaidOut
  <2>2. step \in [Types -> [[Types -> Seq(Lines)] -> Seq(Lines)]]
    BY <2>1
  <2>3. LooksAtParts(Seq(Lines), step)
    BY <1>3 DEF LooksAtParts
  <2> HIDE DEF step
  <2>4. << >> \in Seq(Lines)
    OBVIOUS
  <2> QED BY <2>2, <2>3, <2>4 DEF TypeSteps
<1>5. PICK f : Computed(Seq(Lines), step, f)
  <2> HIDE DEF step
  <2> QED BY <1>4, TypeRecursion
<1>6. f = [t \in Types |-> body(f, t)]
  BY <1>5 DEF Computed
<1>7. Schema = [t \in Types |-> body(Schema, t)]
  BY <1>6 DEF Schema, body, HeadLine
<1>8. \A t \in Types : Schema[t] = body(Schema, t)
  BY <1>7
<1> DEFINE T == {t \in Types : Schema[t] \in Seq(Lines)}
<1>9. ASSUME NEW t \in Types, \A p \in PartTypes(t) : p \in T
      PROVE  t \in T
  BY <1>2, <1>8, <1>9
<1>10. \A t \in Types : t \in T
  <2> HIDE DEF T
  <2> QED BY <1>9, TypeInduction
<1>11. ASSUME NEW t \in Types
       PROVE  /\ t.kind = "scalar" => Schema[t] = <<HeadLine(t)>>
              /\ t.kind = "container" => Schema[t] = <<HeadLine(t)>> \o Indented(Schema[t.value_type])
              /\ t.kind = "aggregate" => Schema[t] = <<HeadLine(t)>> \o FlattenSeq(MemberLines(t))
  <2>1. Schema[t] = <<HeadLine(t)>> \o below(Schema, t)
    BY <1>8 DEF body
  <2>2. members(Schema, t) = MemberLines(t)
    BY DEF MemberLines
  <2> HIDE DEF members
  <2>3. <<HeadLine(t)>> \o << >> = <<HeadLine(t)>>
    OBVIOUS
  <2> QED BY <2>1, <2>2, <2>3
<1> QED BY <1>1, <1>10, <1>11

(* The first line is the only one that is not indented.                    *)
LEMMA SchemaBegins ==
    ASSUME NEW t \in Types
    PROVE  Len(Schema[t]) > 0 /\ Schema[t][1].depth = 0
<1>1. \E lines \in Seq(Lines) : Schema[t] = <<HeadLine(t)>> \o lines
  <2>1. CASE t.kind = "scalar"
    <3>1. <<HeadLine(t)>> = <<HeadLine(t)>> \o << >> /\ << >> \in Seq(Lines)
      OBVIOUS
    <3> QED BY <2>1, <3>1, SchemaIs
  <2>2. CASE t.kind = "container"
    <3>1. Indented(Schema[t.value_type]) \in Seq(Lines)
      BY <2>2, TypeParts, SchemaIs, IndentedIs
    <3> QED BY <2>2, <3>1, SchemaIs
  <2>3. CASE t.kind = "aggregate"
    <3>1. Len(t.members) \in Nat /\ MemberLines(t) \in [1 .. Len(t.members) -> Seq(Lines)]
      <4>1. /\ Len(t.members) \in Nat /\ DOMAIN t.members = 1 .. Len(t.members)
            /\ \A j \in 1 .. Len(t.members) : Schema[t.members[j].type] \in Seq(Lines)
        BY <2>3, TypeParts, SchemaIs
      <4>2. \A j \in 1 .. Len(t.members) : Indented(Schema[t.members[j].type]) \in Seq(Lines)
        BY <4>1, IndentedIs
      <4>3. << >> \in Seq(Lines)
        OBVIOUS
      <4> QED BY <4>1, <4>2, <4>3 DEF MemberLines
    <3>2. FlattenSeq(MemberLines(t)) \in Seq(Lines)
      BY <3>1, FlattenSeqIs
    <3> QED BY <2>3, <3>2, SchemaIs
  <2> QED BY <2>1, <2>2, <2>3, TypeParts
<1>2. PICK lines \in Seq(Lines) : Schema[t] = <<HeadLine(t)>> \o lines
  BY <1>1
<1>3. Len(Schema[t]) > 0 /\ Schema[t][1] = HeadLine(t)
  BY <1>2
<1> QED BY <1>3 DEF HeadLine

(* Lines of members: all of them are indented, but the first of each       *)
(* member only once.                                                       *)
Block(lines) ==
    /\ \A j \in 1 .. Len(lines) : lines[j].depth >= 1
    /\ Len(lines) > 0 => lines[1].depth = 1

LEMMA BlocksAddUp ==
    ASSUME NEW n \in Nat, NEW blocks \in [1 .. n -> Seq(Lines)], \A i \in 1 .. n : Block(blocks[i])
    PROVE  BytesListed(FlattenSeq(blocks)) = Total([i \in 1 .. n |-> BytesListed(blocks[i])], n)
<1> DEFINE sizes == [i \in 1 .. n |-> BytesListed(blocks[i])]
<1>1. PICK f \in [0 .. n -> Seq(Lines)] :
        /\ f[0] = << >>
        /\ \A i \in 1 .. n : f[i] = f[i - 1] \o blocks[i]
        /\ FlattenSeq(blocks) = f[n]
  BY FlattenSeqSteps
<1>2. /\ sizes \in [1 .. n -> Nat] /\ Total(sizes, 0) = 0
      /\ \A i \in 1 .. n : Total(sizes, i) = Total(sizes, i - 1) + sizes[i]
  <2>1. \A i \in 1 .. n : BytesListed(blocks[i]) \in Nat
    BY WeightsAre
  <2>2. sizes \in [1 .. n -> Nat]
    BY <2>1
  <2> HIDE DEF sizes
  <2> QED BY <2>2, TotalSteps
<1> DEFINE T == {i \in 0 .. n : /\ \A j \in 1 .. Len(f[i]) : f[i][j].depth >= 1
                                /\ BytesListed(f[i]) = Total(sizes, i)}
<1>3. 0 \in T
  <2>1. << >> \in Seq(Lines) /\ Len(<< >>) = 0
    OBVIOUS
  <2>2. BytesListed(<< >>) = Total(Weights(<< >>), 0) /\ Weights(<< >>) \in [1 .. 0 -> Nat]
    BY <2>1, WeightsAre
  <2>3. BytesListed(<< >>) = 0
    BY <2>2, TotalSteps
  <2> HIDE DEF sizes
  <2> QED BY <1>1, <1>2, <2>1, <2>3
<1>4. ASSUME NEW i \in 1 .. n, i - 1 \in T
      PROVE  i \in T
  <2> HIDE DEF sizes
  <2> DEFINE before == f[i - 1]
             lines == blocks[i]
  <2>1. f[i] = before \o lines /\ before \in Seq(Lines) /\ lines \in Seq(Lines)
    <3>1. i - 1 \in 0 .. n
      OBVIOUS
    <3>2. before \in Seq(Lines) /\ lines \in Seq(Lines)
      BY <1>1, <3>1
    <3> QED BY <1>1, <3>2
  <2>2. /\ \A j \in 1 .. Len(before) : before[j].depth >= 1
        /\ BytesListed(before) = Total(sizes, i - 1)
    BY <1>4
  <2>3. Block(lines) /\ sizes[i] = BytesListed(lines)
    BY DEF sizes
  <2> HIDE DEF before, lines
  <2>4. BytesListed(before \o lines) = BytesListed(before) + BytesListed(lines)
    <3>1. \A j \in 1 .. Len(before) : Len(lines) > 0 => lines[1].depth <= before[j].depth
      <4>1. \A j \in 1 .. Len(before) : before[j].depth \in Nat
        BY <2>1, LineIs
      <4> QED BY <2>2, <2>3, <4>1 DEF Block
    <3> QED BY <2>1, <3>1, LinesAddUp
  <2>5. \A j \in 1 .. Len(f[i]) : f[i][j].depth >= 1
    <3>1. /\ Len(f[i]) = Len(before) + Len(lines)
          /\ \A j \in 1 .. Len(before) : f[i][j] = before[j]
          /\ \A j \in 1 .. Len(lines) : f[i][Len(before) + j] = lines[j]
      BY <2>1, LinesBehind
    <3>2. Len(before) \in Nat /\ Len(lines) \in Nat
      BY <2>1, LineIs
    <3> SUFFICES ASSUME NEW j \in 1 .. Len(f[i])
                 PROVE  f[i][j].depth >= 1
      OBVIOUS
    <3>3. CASE j \in 1 .. Len(before)
      BY <2>2, <3>1, <3>3
    <3>4. CASE j \notin 1 .. Len(before)
      <4>1. j - Len(before) \in 1 .. Len(lines) /\ Len(before) + (j - Len(before)) = j
        BY <3>1, <3>2, <3>4
      <4>2. f[i][Len(before) + (j - Len(before))] = lines[j - Len(before)]
        BY <3>1, <4>1
      <4>3. lines[j - Len(before)].depth >= 1
        BY <2>3, <4>1 DEF Block
      <4> QED BY <4>1, <4>2, <4>3
    <3> QED BY <3>3, <3>4
  <2>6. BytesListed(f[i]) = Total(sizes, i)
    BY <1>2, <2>1, <2>2, <2>3, <2>4
  <2> QED BY <2>5, <2>6
<1>5. n \in T
  <2> HIDE DEF T
  <2>1. \A i \in 1 .. n : i - 1 \in T => i \in T
    BY <1>4
  <2>2. \A i \in 0 .. n : i \in T
    BY <1>3, <2>1, UpTo
  <2> QED BY <2>2
<1> QED BY <1>1, <1>5

-----------------------------------------------------------------------------
(* How many bytes are on the wire.                                         *)

LEMMA WithinIsFinite ==
    ASSUME NEW offsets, NEW size \in Nat, Within(offsets, size)
    PROVE  IsFiniteSet(offsets) /\ Cardinality(offsets) \in Nat
<1>1. offsets \in SUBSET (0 .. size - 1)
  BY DEF Within
<1>2. IsFiniteSet(0 .. size - 1)
  BY FS_Interval
<1>3. IsFiniteSet(offsets)
  BY <1>1, <1>2, FS_Subset
<1> QED BY <1>3, FS_CardinalityType

LEMMA ShiftedCardinality ==
    ASSUME NEW offsets, NEW size \in Nat, Within(offsets, size), NEW at \in Nat
    PROVE  /\ IsFiniteSet(Shifted(offsets, at))
           /\ Cardinality(Shifted(offsets, at)) = Cardinality(offsets)
<1> DEFINE shift == [o \in offsets |-> at + o]
<1>1. \A o \in offsets : o \in Nat
  BY DEF Within
<1>2. shift \in [offsets -> Shifted(offsets, at)]
  BY DEF Shifted
<1>3. \A o, p \in offsets : shift[o] = shift[p] => o = p
  BY <1>1
<1>4. \A s \in Shifted(offsets, at) : \E o \in offsets : shift[o] = s
  BY DEF Shifted
<1> HIDE DEF shift
<1>5. shift \in Bijection(offsets, Shifted(offsets, at))
  BY <1>2, <1>3, <1>4 DEF Bijection, Injection, IsInjective, Surjection
<1>6. ExistsBijection(offsets, Shifted(offsets, at))
  BY <1>5 DEF ExistsBijection
<1>7. IsFiniteSet(offsets)
  BY WithinIsFinite
<1> QED BY <1>6, <1>7, FS_Bijection

(* Offsets in parts that lie apart are as many in the whole.               *)
SpreadSizes(I, offsets, n) ==
    [i \in 1 .. n |-> IF i \in I THEN Cardinality(offsets[i]) ELSE 0]

LEMMA SpreadCardinality ==
    ASSUME NEW n \in Nat, NEW I, I \subseteq 1 .. n, NEW offsets, NEW at, NEW sizes, NEW room,
           Apart(I, at, sizes, room), \A i \in I : Within(offsets[i], sizes[i])
    PROVE  Cardinality(Spread(I, offsets, at)) = Total(SpreadSizes(I, offsets, n), n)
<1> DEFINE numbers == SpreadSizes(I, offsets, n)
           upTo(k) == Spread({i \in I : i <= k}, offsets, at)
           T == {k \in 0 .. n : IsFiniteSet(upTo(k)) /\ Cardinality(upTo(k)) = Total(numbers, k)}
<1>0. \A i \in I : i \in Nat /\ 1 <= i /\ i <= n
  <2>1. \A i \in I : i \in 1 .. n
    OBVIOUS
  <2> QED BY <2>1
<1>1. \A i \in I : /\ sizes[i] \in Nat /\ at[i] \in Nat
                   /\ IsFiniteSet(Shifted(offsets[i], at[i]))
                   /\ Cardinality(Shifted(offsets[i], at[i])) = Cardinality(offsets[i])
                   /\ Cardinality(offsets[i]) \in Nat
  <2>1. \A i \in I : sizes[i] \in Nat /\ at[i] \in Nat
    BY DEF Apart
  <2> QED BY <2>1, ShiftedCardinality, WithinIsFinite
<1>2. numbers \in [1 .. n -> Nat]
  BY <1>1 DEF SpreadSizes
<1>3. \A k \in 1 .. n : numbers[k] = IF k \in I THEN Cardinality(offsets[k]) ELSE 0
  BY DEF SpreadSizes
<1> HIDE DEF numbers
<1>4. /\ Total(numbers, 0) = 0
      /\ \A k \in 0 .. n : Total(numbers, k) \in Nat
      /\ \A k \in 1 .. n : Total(numbers, k) = Total(numbers, k - 1) + numbers[k]
  BY <1>2, TotalSteps
<1>5. 0 \in T
  <2>1. {i \in I : i <= 0} = {}
    <3>1. \A i \in I : ~ (i <= 0)
      BY <1>0
    <3> QED BY <3>1
  <2>2. upTo(0) = {}
    BY <2>1 DEF Spread
  <2> QED BY <1>4, <2>2, FS_EmptySet
<1>6. ASSUME NEW k \in 1 .. n, k - 1 \in T
      PROVE  k \in T
  <2>1. IsFiniteSet(upTo(k - 1)) /\ Cardinality(upTo(k - 1)) = Total(numbers, k - 1)
    BY <1>6
  <2>2. CASE k \notin I
    <3>1. {i \in I : i <= k} = {i \in I : i <= k - 1}
      <4>1. \A i \in I : i <= k <=> i <= k - 1
        BY <1>0, <2>2
      <4> QED BY <4>1
    <3>2. Total(numbers, k) = Total(numbers, k - 1)
      <4>1. k - 1 \in 0 .. n
        OBVIOUS
      <4> QED BY <1>3, <1>4, <2>2, <4>1
    <3> QED BY <2>1, <3>1, <3>2
  <2>3. CASE k \in I
    <3> DEFINE own == Shifted(offsets[k], at[k])
    <3>1. {i \in I : i <= k} = {i \in I : i <= k - 1} \cup {k}
      <4>1. \A i \in I : i <= k <=> i <= k - 1 \/ i = k
        BY <1>0
      <4>2. k <= k
        OBVIOUS
      <4> QED BY <2>3, <4>1, <4>2
    <3>2. upTo(k) = upTo(k - 1) \cup own
      BY <3>1 DEF Spread
    <3>3. upTo(k - 1) \cap own = {}
      <4> SUFFICES ASSUME NEW o \in upTo(k - 1), o \in own
                   PROVE  FALSE
        OBVIOUS
      <4>1. PICK i \in {j \in I : j <= k - 1} : \E x \in offsets[i] : o = at[i] + x
        BY DEF Spread, Shifted
      <4>2. PICK x \in offsets[i] : o = at[i] + x
        BY <4>1
      <4>3. PICK y \in offsets[k] : o = at[k] + y
        BY DEF Shifted
      <4>4. x \in Nat /\ x < sizes[i] /\ y \in Nat /\ y < sizes[k] /\ i \in I
        BY <2>3, <4>1 DEF Within
      <4>5. i = k
        BY <2>3, <4>2, <4>3, <4>4, InWhichPart
      <4> QED BY <4>1, <4>5
    <3>4. IsFiniteSet(own) /\ Cardinality(own) = numbers[k]
      BY <1>1, <1>3, <2>3
    <3> HIDE DEF own, upTo
    <3>5. /\ IsFiniteSet(upTo(k))
          /\ Cardinality(upTo(k)) = Cardinality(upTo(k - 1)) + Cardinality(own) - Cardinality({})
      BY <2>1, <3>2, <3>3, <3>4, FS_Union
    <3>6. Cardinality({}) = 0
      BY FS_EmptySet
    <3>7. Total(numbers, k) = Total(numbers, k - 1) + numbers[k]
      BY <1>4
    <3>8. Total(numbers, k - 1) \in Nat /\ numbers[k] \in Nat
      <4>1. k - 1 \in 0 .. n
        OBVIOUS
      <4> QED BY <1>2, <1>4, <4>1
    <3>9. Cardinality(upTo(k)) = Total(numbers, k)
      BY <2>1, <3>4, <3>5, <3>6, <3>7, <3>8
    <3> QED BY <3>5, <3>9
  <2> QED BY <2>2, <2>3
<1>7. n \in T
  <2> HIDE DEF T
  <2>1. \A k \in 1 .. n : k - 1 \in T => k \in T
    BY <1>6
  <2>2. \A k \in 0 .. n : k \in T
    BY <1>5, <2>1, UpTo
  <2> QED BY <2>2
<1>8. {i \in I : i <= n} = I
  BY <1>0
<1> QED BY <1>7, <1>8 DEF numbers

(* The bytes on the wire of the parts of an object are spread over it.     *)
LEMMA OnWireIs ==
    ASSUME NEW t \in Types
    PROVE  /\ Within(OnWire(t), t.size)
           /\ t.kind = "scalar" => OnWire(t) = 0 .. t.size - 1
           /\ t.kind = "container" =>
                 OnWire(t) = Spread(Elements(t), [i \in Elements(t) |-> OnWire(t.value_type)],
                                    ElementsAt(t, t.value_type.size))
           /\ t.kind = "aggregate" =>
                 OnWire(t) = Spread(Copies(t), [j \in Copies(t) |-> OnWire(t.members[j].type)],
                                    MembersAt(t))
<1>1. /\ OnWire(t) = Memory(MoveSet(t, "fields"))
      /\ "fields" \in Hows /\ ~Flat(t, "fields")
  BY FieldsAreMoved
<1>2. Within(OnWire(t), t.size)
  <2>1. InRoom(MoveSet(t, "fields"), t.size, RawSize[t])
    BY VisitingIsSound DEF Sound
  <2>2. \A m \in MoveSet(t, "fields") : m.memory \in Nat /\ m.memory < t.size
    BY <2>1 DEF InRoom, ByteMoves
  <2> QED BY <1>1, <2>2 DEF Within, Memory
<1>3. ASSUME t.kind = "scalar"
      PROVE  OnWire(t) = 0 .. t.size - 1
  <2> DEFINE field(k) == [memory |-> k, wire |-> k]
  <2>1. \A k \in 0 .. t.size - 1 : field(k).memory = k
    OBVIOUS
  <2>2. MoveSet(t, "fields") = ScalarMoves(t.size, "fields")
    BY <1>1, <1>3, MovesAre
  <2>3. MoveSet(t, "fields") = {field(k) : k \in 0 .. t.size - 1}
    BY <2>2 DEF ScalarMoves
  <2> HIDE DEF field
  <2> QED BY <1>1, <2>1, <2>3 DEF Memory
<1>4. ASSUME NEW I, NEW moves, NEW at, NEW wire_at,
             MoveSet(t, "fields") = Assembled(I, moves, at, wire_at)
      PROVE  OnWire(t) = Spread(I, [i \in I |-> Memory(moves[i])], at)
  <2>1. OnWire(t) = UNION {Memory(ShiftedMoves(moves[i], at[i], wire_at[i])) : i \in I}
    BY <1>1, <1>4 DEF Memory, Assembled
  <2>2. \A i \in I : Memory(ShiftedMoves(moves[i], at[i], wire_at[i])) = Shifted(Memory(moves[i]), at[i])
    BY ShiftedMemory
  <2>3. OnWire(t) = UNION {Shifted(Memory(moves[i]), at[i]) : i \in I}
    BY <2>1, <2>2
  <2> QED BY <2>3 DEF Spread
<1>5. ASSUME t.kind = "container"
      PROVE  OnWire(t) = Spread(Elements(t), [i \in Elements(t) |-> OnWire(t.value_type)],
                                ElementsAt(t, t.value_type.size))
  <2> DEFINE moves == ElementMoves(t, "fields")
  <2>1. MoveSet(t, "fields") = Assembled(1 .. t.length, moves, ElementsAt(t, t.value_type.size),
                                         ElementsAt(t, RawSize[t.value_type]))
    BY <1>1, <1>5, MovesAreAssembled
  <2>2. \A i \in 1 .. t.length : Memory(moves[i]) = OnWire(t.value_type)
    BY FieldsAreMoved DEF ElementMoves
  <2>3. [i \in 1 .. t.length |-> Memory(moves[i])] = [i \in Elements(t) |-> OnWire(t.value_type)]
    BY <2>2 DEF Elements
  <2> HIDE DEF moves
  <2>4. OnWire(t) = Spread(1 .. t.length, [i \in 1 .. t.length |-> Memory(moves[i])],
                           ElementsAt(t, t.value_type.size))
    BY <1>4, <2>1
  <2> QED BY <2>3, <2>4 DEF Elements
<1>6. ASSUME t.kind = "aggregate"
      PROVE  OnWire(t) = Spread(Copies(t), [j \in Copies(t) |-> OnWire(t.members[j].type)],
                                MembersAt(t))
  <2> DEFINE moves == MemberMoves(t, "fields")
  <2>1. MoveSet(t, "fields") = Assembled(Copies(t), moves, MembersAt(t), MembersOnWire(t))
    BY <1>1, <1>6, MovesAreAssembled
  <2>2. \A j \in Copies(t) : Memory(moves[j]) = OnWire(t.members[j].type)
    BY FieldsAreMoved DEF MemberMoves
  <2>3. [j \in Copies(t) |-> Memory(moves[j])] = [j \in Copies(t) |-> OnWire(t.members[j].type)]
    BY <2>2
  <2> HIDE DEF moves
  <2>4. OnWire(t) = Spread(Copies(t), [j \in Copies(t) |-> Memory(moves[j])], MembersAt(t))
    BY <1>4, <2>1
  <2> QED BY <2>3, <2>4
<1> QED BY <1>2, <1>3, <1>5, <1>6

(* The lines of a schema count the bytes that are on the wire.             *)
LEMMA SchemaCounts ==
    \A t \in Types : Cardinality(OnWire(t)) = BytesListed(Schema[t])
<1> DEFINE T == {t \in Types : Cardinality(OnWire(t)) = BytesListed(Schema[t])}
<1>1. ASSUME NEW t \in Types, \A p \in PartTypes(t) : p \in T
      PROVE  Cardinality(OnWire(t)) = BytesListed(Schema[t])
  <2> DEFINE head == HeadLine(t)
  <2>1. /\ head \in Lines /\ head.depth = 0 /\ head.type = t /\ head.bytes = RawSize[t]
        /\ <<head>> \in Seq(Lines) /\ Len(<<head>>) = 1 /\ <<head>>[1] = head
    BY SchemaIs DEF HeadLine
  <2>2. BytesListed(<<head>>) = IF t.kind = "scalar" THEN RawSize[t] ELSE 0
    <3> DEFINE first == <<head>>
    <3>1. first \in Seq(Lines) /\ Len(first) = 1 /\ first[1] = head
      BY <2>1
    <3> HIDE DEF first, head
    <3>2. 1 \in 1 .. 1 /\ 1 \in Nat /\ 1 - 1 = 0
      OBVIOUS
    <3>3. /\ Weights(first) \in [1 .. 1 -> Nat] /\ BytesListed(first) = Total(Weights(first), 1)
          /\ Factors(first, 1) \in [1 .. 0 -> Nat] /\ Times(first, 1) = Product(Factors(first, 1), 0)
      BY <3>1, <3>2, WeightsAre
    <3>4. Times(first, 1) = 1
      BY <3>3, ProductSteps
    <3>5. Weights(first)[1] = IF t.kind = "scalar" THEN RawSize[t] ELSE 0
      <4>1. RawSize[t] \in Nat
        BY RawSizeIs
      <4>2. Weight(first, 1) = IF t.kind = "scalar" THEN RawSize[t] * 1 ELSE 0
        BY <2>1, <3>1, <3>4 DEF Weight
      <4> QED BY <3>1, <3>2, <4>1, <4>2 DEF Weights
    <3>6. Total(Weights(first), 0) = 0
          /\ Total(Weights(first), 1) = Total(Weights(first), 1 - 1) + Weights(first)[1]
      BY <3>2, <3>3, TotalSteps
    <3>7. Weights(first)[1] \in Nat
      BY <3>2, <3>3
    <3>8. BytesListed(first) = IF t.kind = "scalar" THEN RawSize[t] ELSE 0
      BY <3>2, <3>3, <3>5, <3>6, <3>7
    <3> QED BY <3>8 DEF first
  <2>3. CASE t.kind = "scalar"
    <3>1. Schema[t] = <<head>>
      BY <2>3, SchemaIs
    <3>2. OnWire(t) = 0 .. t.size - 1 /\ t.size \in Nat /\ RawSize[t] = t.size
      BY <2>3, OnWireIs, TypeParts, RawSizeIs
    <3>3. Cardinality(0 .. t.size - 1) = t.size
      BY <3>2, FS_Interval
    <3> HIDE DEF head
    <3> QED BY <2>2, <2>3, <3>1, <3>2, <3>3
  <2>4. CASE t.kind = "container"
    <3> DEFINE element == t.value_type
               lines == Indented(Schema[element])
               n == t.length
               offsets == [i \in Elements(t) |-> OnWire(element)]
               sizes == [i \in Elements(t) |-> element.size]
               at == ElementsAt(t, element.size)
               number == Cardinality(OnWire(element))
    <3>1. /\ element \in Types /\ element.size \in Nat /\ n \in Nat
          /\ number = BytesListed(Schema[element])
      BY <1>1, <2>4, TypeParts
    <3>2. Schema[t] = <<head>> \o lines
      BY <2>4, SchemaIs
    <3>3. /\ lines \in Seq(Lines) /\ Len(lines) = Len(Schema[element])
          /\ \A i \in 1 .. Len(Schema[element]) : lines[i].depth = Schema[element][i].depth + 1
          /\ BytesListed(lines) = number /\ Schema[element] \in Seq(Lines)
      BY <3>1, SchemaIs, IndentedIs
    <3>4. Apart(Elements(t), at, sizes, t.size) /\ Elements(t) \subseteq 1 .. n
      BY <2>4, ElementsLieApart DEF Elements
    <3>5. \A i \in Elements(t) : Within(offsets[i], sizes[i])
      BY <3>1, OnWireIs
    <3>6. OnWire(t) = Spread(Elements(t), offsets, at)
      BY <2>4, OnWireIs
    <3>7. number \in Nat
      BY <3>1, OnWireIs, WithinIsFinite
    <3> DEFINE numbers == SpreadSizes(Elements(t), offsets, n)
    <3>8. numbers \in [1 .. n -> Nat] /\ \A i \in 1 .. n : numbers[i] = number
      BY <3>7 DEF SpreadSizes, Elements
    <3> HIDE DEF head, element, lines, n, offsets, sizes, at, number
    <3>9. Cardinality(OnWire(t)) = Total(numbers, n)
      BY <3>1, <3>4, <3>5, <3>6, SpreadCardinality
    <3> HIDE DEF numbers
    <3>10. Total(numbers, n) = n * number
      BY <3>1, <3>7, <3>8, TotalOfEqual
    <3>11. \A j \in 1 .. Len(lines) : lines[j].depth > head.depth
      <4>1. \A j \in 1 .. Len(lines) : Schema[element][j].depth \in Nat
        BY <3>3, LineIs
      <4> QED BY <2>1, <3>3, <4>1
    <3>12. BytesListed(<<head>> \o lines) = n * BytesListed(lines)
      <4>1. head.type.kind = "container" /\ head.type.length = n
        BY <2>1, <2>4 DEF n
      <4> QED BY <2>1, <3>3, <3>11, <4>1, LinesEnclosed
    <3> QED BY <3>2, <3>3, <3>9, <3>10, <3>12
  <2>5. CASE t.kind = "aggregate"
    <3> DEFINE n == Len(t.members)
               blocks == MemberLines(t)
               offsets == [j \in Copies(t) |-> OnWire(t.members[j].type)]
               sizes == [j \in Copies(t) |-> t.members[j].type.size]
               below == FlattenSeq(blocks)
    <3>1. /\ n \in Nat /\ DOMAIN t.members = 1 .. n
          /\ \A j \in 1 .. n : /\ t.members[j].type \in Types /\ t.members[j].type.size \in Nat
                               /\ Cardinality(OnWire(t.members[j].type))
                                    = BytesListed(Schema[t.members[j].type])
      BY <1>1, <2>5, TypeParts
    <3>2. ASSUME NEW j \in 1 .. n
          PROVE  /\ blocks[j] \in Seq(Lines) /\ Block(blocks[j])
                 /\ BytesListed(blocks[j])
                      = IF j \in Copies(t) THEN Cardinality(OnWire(t.members[j].type)) ELSE 0
      <4>1. CASE j \in Copies(t)
        <5> DEFINE lines == Schema[t.members[j].type]
        <5>1. blocks[j] = Indented(lines)
          BY <3>1, <4>1 DEF MemberLines, Listed, Copies
        <5>2. lines \in Seq(Lines) /\ Len(lines) > 0 /\ lines[1].depth = 0
          BY <3>1, SchemaIs, SchemaBegins
        <5>3. \A i \in 1 .. Len(lines) : lines[i].depth \in Nat
          BY <5>2, LineIs
        <5>4. Cardinality(OnWire(t.members[j].type)) = BytesListed(lines)
          BY <3>1
        <5> HIDE DEF lines
        <5>5. /\ Indented(lines) \in Seq(Lines) /\ Len(Indented(lines)) = Len(lines)
              /\ \A i \in 1 .. Len(lines) : Indented(lines)[i].depth = lines[i].depth + 1
              /\ BytesListed(Indented(lines)) = BytesListed(lines)
          BY <5>2, IndentedIs
        <5>6. Block(Indented(lines))
          <6>1. 1 \in 1 .. Len(lines)
            BY <5>2
          <6>2. Indented(lines)[1].depth = 1
            BY <5>2, <5>5, <6>1
          <6> QED BY <5>3, <5>5, <6>2 DEF Block
        <5> QED BY <4>1, <5>1, <5>4, <5>5, <5>6
      <4>2. CASE j \notin Copies(t)
        <5>1. blocks[j] = << >>
          BY <3>1, <4>2 DEF MemberLines, Listed, Copies
        <5>2. << >> \in Seq(Lines) /\ Len(<< >>) = 0
          OBVIOUS
        <5>3. Block(<< >>)
          BY <5>2 DEF Block
        <5>4. BytesListed(<< >>) = 0
          <6>1. BytesListed(<< >>) = Total(Weights(<< >>), 0) /\ Weights(<< >>) \in [1 .. 0 -> Nat]
            BY <5>2, WeightsAre
          <6> QED BY <6>1, TotalSteps
        <5> QED BY <4>2, <5>1, <5>2, <5>3, <5>4
      <4> QED BY <4>1, <4>2
    <3>3. Schema[t] = <<head>> \o below
      BY <2>5, SchemaIs
    <3>4. /\ Apart(Copies(t), MembersAt(t), sizes, t.size) /\ Copies(t) \subseteq 1 .. n
          /\ \A j \in Copies(t) : Within(offsets[j], sizes[j])
          /\ OnWire(t) = Spread(Copies(t), offsets, MembersAt(t))
      <4>1. Copies(t) \subseteq 1 .. n
        BY DEF Copies
      <4>2. \A j \in Copies(t) : Within(offsets[j], sizes[j])
        BY <3>1, <4>1, OnWireIs
      <4> QED BY <2>5, <4>1, <4>2, MembersLieApart, OnWireIs
    <3>5. blocks \in [1 .. n -> Seq(Lines)]
      <4>1. DOMAIN blocks = 1 .. n /\ blocks = [j \in DOMAIN blocks |-> blocks[j]]
        BY <3>1 DEF MemberLines
      <4> HIDE DEF blocks, n
      <4> QED BY <3>2, <4>1
    <3>6. SpreadSizes(Copies(t), offsets, n) = [j \in 1 .. n |-> BytesListed(blocks[j])]
      <4>1. \A j \in Copies(t) : offsets[j] = OnWire(t.members[j].type)
        OBVIOUS
      <4> HIDE DEF blocks, offsets, n
      <4> QED BY <3>2, <4>1 DEF SpreadSizes
    <3> HIDE DEF head, n, blocks, offsets, sizes
    <3>7. Cardinality(OnWire(t)) = Total(SpreadSizes(Copies(t), offsets, n), n)
      BY <3>1, <3>4, SpreadCardinality
    <3>8. BytesListed(below) = Total([j \in 1 .. n |-> BytesListed(blocks[j])], n)
      BY <3>1, <3>2, <3>5, BlocksAddUp
    <3>9. below \in Seq(Lines)
      BY <3>1, <3>5, FlattenSeqIs
    <3> HIDE DEF below
    <3>10. BytesListed(<<head>> \o below) = BytesListed(<<head>>) + BytesListed(below)
      <4>1. \A i \in 1 .. Len(<<head>>) : <<head>>[i].type.kind # "container"
        BY <2>1, <2>5
      <4> QED BY <2>1, <3>9, <4>1, LinesAddUp
    <3>11. BytesListed(<<head>>) = 0 /\ BytesListed(below) \in Nat
      BY <2>2, <2>5, <3>9, WeightsAre
    <3> QED BY <3>3, <3>6, <3>7, <3>8, <3>10, <3>11
  <2> QED BY <2>3, <2>4, <2>5, TypeParts
<1>2. \A t \in Types : t \in T
  <2>1. \A t \in Types : (\A p \in PartTypes(t) : p \in T) => t \in T
    BY <1>1
  <2> HIDE DEF T
  <2> QED BY <2>1, TypeInduction
<1> QED BY <1>2

(* For every object that is serialised the scalars its schema lists, each  *)
(* as often as there are elements of the containers it is in, are just as  *)
(* many bytes as are copied.                                               *)
THEOREM SchemaTellsWhatIsCopiedHolds == Spec => []SchemaTellsWhatIsCopied
<1>1. ASSUME Inv
      PROVE  SchemaTellsWhatIsCopied
  <2>1. Typed
    BY <1>1 DEF Inv
  <2>2. DOMAIN args = 1 .. Len(args) /\ \A i \in 1 .. Len(args) : args[i] \in Types
    BY <2>1, TypedArgs
  <2> QED BY <2>2, SchemaCounts DEF SchemaTellsWhatIsCopied
<1> QED BY <1>1, InvHolds, PTL

-----------------------------------------------------------------------------
(* Types as compilers lay them out.                                        *)

LEMMA AlignedIs ==
    ASSUME NEW offset \in Nat, NEW alignment \in Nat \ {0}
    PROVE  Aligned(offset, alignment) \in Nat /\ offset <= Aligned(offset, alignment)
<1> DEFINE x == offset + alignment - 1
           q == x \div alignment
           r == x % alignment
<1>1. x \in Nat /\ alignment \in Nat /\ alignment > 0
  OBVIOUS
<1>2. x = alignment * q + r /\ q \in Nat /\ r \in 0 .. alignment - 1
  <2> HIDE DEF x
  <2> QED BY <1>1
<1>3. Aligned(offset, alignment) = q * alignment
  BY DEF Aligned
<1>4. q * alignment = alignment * q /\ q * alignment \in Nat
  <2> HIDE DEF q
  <2> QED BY <1>1, <1>2
<1>5. x = offset + alignment - 1
  OBVIOUS
<1> HIDE DEF x, q, r
<1> DEFINE product == q * alignment
<1>6. x = product + r /\ product \in Nat
  BY <1>2, <1>4
<1> HIDE DEF product
<1>7. offset <= product
  BY <1>1, <1>2, <1>5, <1>6
<1> QED BY <1>3, <1>6, <1>7 DEF product

(* The greatest of the numbers f[1], ..., f[n] and a least one.            *)
LEMMA GreatestIs ==
    ASSUME NEW n \in Nat, NEW f \in [1 .. n -> Nat], NEW least \in Nat
    PROVE  LET S == {f[i] : i \in 1 .. n} \cup {least}
           IN  Max(S) \in Nat /\ Max(S) >= least /\ \A i \in 1 .. n : f[i] <= Max(S)
<1> DEFINE S == {f[i] : i \in 1 .. n} \cup {least}
           bound == Total(f, n) + least
           D == {bound - x : x \in S}
<1>1. S \subseteq Nat /\ least \in S /\ \A i \in 1 .. n : f[i] \in S
  OBVIOUS
<1>2. bound \in Nat /\ \A x \in S : x <= bound
  <2>1. Total(f, n) \in Nat
    BY TotalSteps
  <2>2. ASSUME NEW i \in 1 .. n
        PROVE  f[i] <= Total(f, n)
    <3>1. i - 1 \in 0 .. n /\ i \in 0 .. n
      OBVIOUS
    <3>2. /\ Total(f, i - 1) \in Nat /\ Total(f, i) \in Nat
          /\ Total(f, i) = Total(f, i - 1) + f[i]
      BY <3>1, TotalSteps
    <3>3. Total(f, i) <= Total(f, n)
      <4>1. n \in 0 .. n
        OBVIOUS
      <4> QED BY <3>1, <4>1, TotalGrows
    <3> QED BY <2>1, <3>2, <3>3
  <2> QED BY <2>1, <2>2
<1> HIDE DEF S, bound
<1>3. D \subseteq Nat /\ D # {}
  BY <1>1, <1>2
<1>4. PICK d \in D : \A e \in D : d <= e
  <2> HIDE DEF D
  <2> QED BY <1>3, LeastNumber
<1>5. PICK m \in S : d = bound - m
  OBVIOUS
<1>6. \A x \in S : m >= x
  <2> SUFFICES ASSUME NEW x \in S
               PROVE  m >= x
    OBVIOUS
  <2>1. bound - m <= bound - x
    BY <1>4, <1>5
  <2> QED BY <1>1, <1>2, <2>1
<1>7. Max(S) \in S /\ \A x \in S : Max(S) >= x
  BY <1>6 DEF Max
<1>8. Max(S) \in Nat /\ Max(S) >= least /\ \A i \in 1 .. n : f[i] <= Max(S)
  BY <1>1, <1>7
<1> QED BY <1>8 DEF S

(* Types whose objects can be put somewhere.                               *)
Alignable(t) == t.align \in Nat \ {0}

LEMMA EndsIs ==
    ASSUME NEW n \in Nat, NEW parts \in [1 .. n -> Types], \A i \in 1 .. n : Alignable(parts[i])
    PROVE  /\ Ends(parts) \in [0 .. n -> Nat] /\ Ends(parts)[0] = 0
           /\ \A i \in 1 .. n : Ends(parts)[i - 1] + parts[i].size <= Ends(parts)[i]
           /\ \A i \in 0 .. n : \A j \in 0 .. i : Ends(parts)[j] <= Ends(parts)[i]
<1>1. Len(parts) = n
  OBVIOUS
<1>2. ASSUME NEW i \in 1 .. n, NEW x \in Nat
      PROVE  /\ Aligned(x, parts[i].align) + parts[i].size \in Nat
             /\ x + parts[i].size <= Aligned(x, parts[i].align) + parts[i].size
  <2>1. parts[i].size \in Nat /\ parts[i].align \in Nat \ {0}
    BY TypeParts DEF Alignable
  <2>2. Aligned(x, parts[i].align) \in Nat /\ x <= Aligned(x, parts[i].align)
    BY <2>1, AlignedIs
  <2> QED BY <2>1, <2>2
<1> DEFINE step == [i \in 1 .. n |-> [x \in Nat |-> Aligned(x, parts[i].align) + parts[i].size]]
<1>3. Iterable(Nat, 0, n, step)
  BY <1>2 DEF Iterable
<1>4. PICK f : Iterated(Nat, 0, n, step, f)
  <2> HIDE DEF step
  <2> QED BY <1>3, Iterate
<1>5. f \in [0 .. n -> Nat] /\ f[0] = 0 /\ \A i \in 1 .. n : f[i] = step[i][f[i - 1]]
  <2> HIDE DEF step
  <2> QED BY <1>4 DEF Iterated
<1>6. \A i \in 1 .. n : f[i - 1] \in Nat /\ f[i] = Aligned(f[i - 1], parts[i].align) + parts[i].size
  <2>1. \A i \in 1 .. n : f[i - 1] \in Nat
    BY <1>5
  <2> QED BY <1>5, <2>1
<1> DEFINE end == CHOOSE e : e = [i \in 0 .. n |->
                     IF i = 0 THEN 0 ELSE Aligned(e[i - 1], parts[i].align) + parts[i].size]
<1>7. Ends(parts) = end
  BY <1>1 DEF Ends
<1>8. f = [i \in 0 .. n |->
              IF i = 0 THEN 0 ELSE Aligned(f[i - 1], parts[i].align) + parts[i].size]
  <2>1. \A i \in 0 .. n : i # 0 => i \in 1 .. n
    OBVIOUS
  <2>2. \A i \in 0 .. n : f[i] = IF i = 0 THEN 0
                                 ELSE Aligned(f[i - 1], parts[i].align) + parts[i].size
    BY <1>5, <1>6, <2>1
  <2> QED BY <1>5, <2>2
<1>9. end = [i \in 0 .. n |->
                IF i = 0 THEN 0 ELSE Aligned(end[i - 1], parts[i].align) + parts[i].size]
  BY <1>8
<1> HIDE DEF end
<1>10. end[0] = 0 /\ \A i \in 1 .. n : end[i] = Aligned(end[i - 1], parts[i].align) + parts[i].size
  <2>1. \A i \in 0 .. n : end[i] = IF i = 0 THEN 0
                                   ELSE Aligned(end[i - 1], parts[i].align) + parts[i].size
    BY <1>9
  <2> QED BY <2>1
<1> DEFINE T == {i \in 0 .. n : end[i] \in Nat /\ \A j \in 0 .. i : end[j] \in Nat /\ end[j] <= end[i]}
<1>11. 0 \in T
  BY <1>10
<1>12. ASSUME NEW i \in 1 .. n, i - 1 \in T
       PROVE  i \in T
  <2>1. end[i - 1] \in Nat /\ \A j \in 0 .. i - 1 : end[j] \in Nat /\ end[j] <= end[i - 1]
    BY <1>12
  <2>2. parts[i].size \in Nat
    BY TypeParts
  <2>3. end[i] \in Nat /\ end[i - 1] + parts[i].size <= end[i]
    BY <1>2, <1>10, <2>1
  <2>4. end[i - 1] <= end[i]
    BY <2>1, <2>2, <2>3
  <2>5. \A j \in 0 .. i : j \in 0 .. i - 1 \/ j = i
    OBVIOUS
  <2>6. \A j \in 0 .. i : end[j] \in Nat /\ end[j] <= end[i]
    BY <2>1, <2>3, <2>4, <2>5
  <2> QED BY <2>3, <2>6
<1>13. \A i \in 0 .. n : i \in T
  <2> HIDE DEF T
  <2>1. \A i \in 1 .. n : i - 1 \in T => i \in T
    BY <1>12
  <2> QED BY <1>11, <2>1, UpTo
<1>14. /\ end \in [0 .. n -> Nat]
       /\ \A i \in 0 .. n : \A j \in 0 .. i : end[j] <= end[i]
  BY <1>9, <1>13
<1>15. \A i \in 1 .. n : end[i - 1] + parts[i].size <= end[i]
  <2>1. \A i \in 1 .. n : end[i - 1] \in Nat
    BY <1>14
  <2> QED BY <1>2, <1>10, <2>1
<1> QED BY <1>7, <1>10, <1>14, <1>15

(* Data members between two offsets of an object, apart from each other.   *)
Stowed(members, first, end, depth) ==
    /\ members \in Seq(DataMembers)
    /\ \A i \in 1 .. Len(members) :
          /\ members[i].offset_of <= members[i].offset
          /\ first <= members[i].offset
          /\ members[i].offset + members[i].type.size <= end
          /\ members[i].type.depth < depth
    /\ \A i, j \in 1 .. Len(members) :
          i # j => \/ members[i].offset + members[i].type.size <= members[j].offset
                   \/ members[j].offset + members[j].type.size <= members[i].offset

LEMMA MemberIs ==
    ASSUME NEW m \in DataMembers
    PROVE  /\ m.type \in Types /\ m.type.size \in Nat /\ m.type.depth \in Nat
           /\ m.offset_of \in Nat /\ m.offset \in Nat
           /\ m.mark \in {"none", "ignore", "skip"}
<1>1. m.type \in Types /\ m.offset_of \in Nat /\ m.offset \in Nat /\ m.mark \in {"none", "ignore", "skip"}
  BY DEF DataMembers
<1> QED BY <1>1, TypesAssumption DEF LaidOut

LEMMA StowedBehind ==
    ASSUME NEW first \in Nat, NEW middle \in Nat, NEW end \in Nat, first <= middle, middle <= end,
           NEW depth, NEW before, NEW behind,
           Stowed(before, first, middle, depth), Stowed(behind, middle, end, depth)
    PROVE  Stowed(before \o behind, first, end, depth)
<1> DEFINE all == before \o behind
           a == Len(before)
           b == Len(behind)
<1>1. before \in Seq(DataMembers) /\ behind \in Seq(DataMembers)
  BY DEF Stowed
<1>2. /\ all \in Seq(DataMembers) /\ a \in Nat /\ b \in Nat /\ Len(all) = a + b
      /\ \A i \in 1 .. a : all[i] = before[i] /\ before[i] \in DataMembers
      /\ \A i \in a + 1 .. a + b :
            /\ all[i] = behind[i - a] /\ i - a \in 1 .. b /\ behind[i - a] \in DataMembers
  BY <1>1
<1> HIDE DEF all, a, b
<1>3. ASSUME NEW i \in 1 .. a
      PROVE  /\ all[i].offset_of <= all[i].offset /\ first <= all[i].offset
             /\ all[i].offset + all[i].type.size <= middle
             /\ all[i].type.depth < depth /\ all[i] \in DataMembers
  BY <1>2 DEF Stowed, a
<1>4. ASSUME NEW i \in a + 1 .. a + b
      PROVE  /\ all[i].offset_of <= all[i].offset /\ middle <= all[i].offset
             /\ all[i].offset + all[i].type.size <= end
             /\ all[i].type.depth < depth /\ all[i] \in DataMembers
  <2>1. all[i] = behind[i - a] /\ i - a \in 1 .. b /\ behind[i - a] \in DataMembers
    BY <1>2
  <2> QED BY <2>1 DEF Stowed, b
<1>5. \A i \in 1 .. a + b : i \in 1 .. a \/ i \in a + 1 .. a + b
  BY <1>2
<1>6. ASSUME NEW i \in 1 .. a + b
      PROVE  /\ all[i].offset_of <= all[i].offset /\ first <= all[i].offset
             /\ all[i].offset + all[i].type.size <= end
             /\ all[i].type.depth < depth
             /\ all[i].offset \in Nat /\ all[i].type.size \in Nat
  <2>1. CASE i \in 1 .. a
    <3>1. all[i].offset \in Nat /\ all[i].type.size \in Nat
      BY <1>3, <2>1, MemberIs
    <3> QED BY <1>3, <2>1, <3>1
  <2>2. CASE i \in a + 1 .. a + b
    <3>1. all[i].offset \in Nat /\ all[i].type.size \in Nat
      BY <1>4, <2>2, MemberIs
    <3> QED BY <1>4, <2>2, <3>1
  <2> QED BY <1>5, <2>1, <2>2
<1>7. ASSUME NEW i \in 1 .. a + b, NEW j \in 1 .. a + b, i # j
      PROVE  \/ all[i].offset + all[i].type.size <= all[j].offset
             \/ all[j].offset + all[j].type.size <= all[i].offset
  <2>1. CASE i \in 1 .. a /\ j \in 1 .. a
    BY <1>2, <1>7, <2>1 DEF Stowed, a
  <2>2. CASE i \in a + 1 .. a + b /\ j \in a + 1 .. a + b
    <3>1. /\ all[i] = behind[i - a] /\ i - a \in 1 .. b
          /\ all[j] = behind[j - a] /\ j - a \in 1 .. b /\ i - a # j - a
      BY <1>2, <1>7, <2>2
    <3> QED BY <3>1 DEF Stowed, b
  <2>3. CASE i \in 1 .. a /\ j \in a + 1 .. a + b
    BY <1>3, <1>4, <1>6, <2>3
  <2>4. CASE i \in a + 1 .. a + b /\ j \in 1 .. a
    BY <1>3, <1>4, <1>6, <2>4
  <2> QED BY <1>5, <2>1, <2>2, <2>3, <2>4
<1>8. Stowed(all, first, end, depth)
  BY <1>2, <1>6, <1>7 DEF Stowed
<1> QED BY <1>8 DEF all

(* The members of a base, where the base is put.                           *)
LEMMA InheritedIs ==
    ASSUME NEW base \in Types, base.kind = "aggregate", NEW offset \in Nat,
           NEW end \in Nat, offset + base.size <= end,
           NEW depth \in Nat, base.depth < depth
    PROVE  Stowed(Inherited(base, offset), offset, end, depth)
<1> DEFINE members == base.members
           n == Len(members)
           all == Inherited(base, offset)
<1>1. /\ members \in Seq(DataMembers) /\ n \in Nat /\ DOMAIN members = 1 .. n
      /\ base.size \in Nat /\ base.depth \in Nat
      /\ \A i \in 1 .. n : members[i] \in DataMembers
  BY TypesAssumption DEF LaidOut
<1>2. ASSUME NEW i \in 1 .. n
      PROVE  /\ members[i].offset_of <= members[i].offset
             /\ members[i].offset + members[i].type.size <= base.size
             /\ members[i].type.depth < base.depth
             /\ members[i].type \in Types /\ members[i].type.size \in Nat
             /\ members[i].type.depth \in Nat
             /\ members[i].offset_of \in Nat /\ members[i].offset \in Nat
  <2>1. members[i].type \in PartTypes(base)
    BY <1>1 DEF PartTypes
  <2>2. members[i].type.depth < base.depth
    BY <2>1, TypesAssumption DEF LaidOut
  <2>3. /\ members[i].offset_of <= members[i].offset
        /\ members[i].offset + members[i].type.size <= base.size
    BY <1>1, TypesAssumption DEF LaidOut
  <2> QED BY <1>1, <2>2, <2>3, MemberIs
<1>3. all = [i \in 1 .. n |-> [members[i] EXCEPT !.offset = @ + offset]]
  BY <1>1 DEF Inherited
<1>4. ASSUME NEW i \in 1 .. n
      PROVE  /\ all[i] \in DataMembers /\ all[i].type = members[i].type
             /\ all[i].offset_of = members[i].offset_of
             /\ all[i].offset = members[i].offset + offset
  <2>1. members[i] \in [type : Types, mark : {"none", "ignore", "skip"}, offset_of : Nat, offset : Nat]
    BY <1>1 DEF DataMembers
  <2>2. all[i] = [members[i] EXCEPT !.offset = @ + offset]
    BY <1>3
  <2> HIDE DEF all, members
  <2> QED BY <2>1, <2>2 DEF DataMembers
<1>5. all \in Seq(DataMembers) /\ Len(all) = n
  <2> HIDE DEF all, members, n
  <2>1. all = [i \in 1 .. n |-> all[i]]
    BY <1>3
  <2>2. all \in [1 .. n -> DataMembers]
    BY <1>4, <2>1
  <2> QED BY <1>1, <2>2
<1>6. ASSUME NEW i \in 1 .. n
      PROVE  /\ all[i].offset_of <= all[i].offset /\ offset <= all[i].offset
             /\ all[i].offset + all[i].type.size <= end
             /\ all[i].type.depth < depth
  <2> HIDE DEF all, members, n
  <2>1. /\ all[i].type = members[i].type
        /\ all[i].offset_of = members[i].offset_of
        /\ all[i].offset = members[i].offset + offset
    BY <1>4
  <2> DEFINE o == members[i].offset
             d == members[i].offset_of
             s == members[i].type.size
  <2>2. o \in Nat /\ d \in Nat /\ s \in Nat /\ d <= o /\ o + s <= base.size
    BY <1>2
  <2>3. members[i].type.depth < depth
    BY <1>1, <1>2
  <2>4. all[i].offset = o + offset /\ all[i].offset_of = d /\ all[i].type.size = s
    BY <2>1
  <2> HIDE DEF o, d, s
  <2>5. d <= o + offset /\ offset <= o + offset /\ o + offset + s <= end
    BY <1>1, <2>2
  <2> QED BY <2>1, <2>3, <2>4, <2>5
<1>7. ASSUME NEW i \in 1 .. n, NEW j \in 1 .. n, i # j
      PROVE  \/ all[i].offset + all[i].type.size <= all[j].offset
             \/ all[j].offset + all[j].type.size <= all[i].offset
  <2>1. \/ members[i].offset + members[i].type.size <= members[j].offset
        \/ members[j].offset + members[j].type.size <= members[i].offset
    BY <1>1, <1>7, TypesAssumption DEF LaidOut
  <2> HIDE DEF all, members, n
  <2> QED BY <1>2, <1>4, <2>1
<1> HIDE DEF all, members, n
<1>8. Stowed(all, offset, end, depth)
  BY <1>5, <1>6, <1>7 DEF Stowed
<1> QED BY <1>8 DEF all

(* Types that can be added to the others, and be put in objects.           *)
CanBeAdded(t) == LaidOut(t) /\ Alignable(t)

Bases == {t \in Types : t.kind = "aggregate"}

Declarations == [type : Types, mark : {"none", "ignore", "skip"}]

AllParts(bases, members) == bases \o [i \in DOMAIN members |-> members[i].type]

LEMMA AllPartsAre ==
    ASSUME NEW bases \in Seq(Bases), NEW members \in Seq(Declarations)
    PROVE  LET parts == AllParts(bases, members)
               n == Len(bases) + Len(members)
           IN  /\ Len(bases) \in Nat /\ Len(members) \in Nat
               /\ parts \in [1 .. n -> Types] /\ Len(parts) = n /\ DOMAIN parts = 1 .. n
               /\ \A k \in 1 .. Len(bases) : parts[k] = bases[k] /\ bases[k] \in Bases
               /\ \A i \in 1 .. Len(members) :
                     parts[Len(bases) + i] = members[i].type /\ members[i] \in Declarations
<1> DEFINE own == [i \in DOMAIN members |-> members[i].type]
           b == Len(bases)
           m == Len(members)
<1>1. b \in Nat /\ m \in Nat /\ DOMAIN members = 1 .. m
      /\ \A i \in 1 .. m : members[i] \in Declarations /\ members[i].type \in Types
  <2>1. \A d \in Declarations : d.type \in Types
    BY DEF Declarations
  <2> HIDE DEF Declarations, own
  <2>2. b \in Nat /\ m \in Nat /\ DOMAIN members = 1 .. m
    OBVIOUS
  <2>3. \A i \in 1 .. m : members[i] \in Declarations
    OBVIOUS
  <2> QED BY <2>1, <2>2, <2>3
<1>2. own \in Seq(Types) /\ Len(own) = m /\ \A i \in 1 .. m : own[i] = members[i].type
  <2> HIDE DEF b
  <2>1. own \in [1 .. m -> Types]
    BY <1>1
  <2> QED BY <1>1, <2>1
<1>3. bases \in Seq(Types) /\ \A k \in 1 .. b : bases[k] \in Bases
  BY DEF Bases
<1> HIDE DEF own, b, m
<1> DEFINE parts == bases \o own
<1>4. /\ parts \in Seq(Types) /\ Len(parts) = b + m
      /\ \A k \in 1 .. b : parts[k] = bases[k]
      /\ \A i \in 1 .. m : parts[b + i] = own[i]
  <2>1. Len(bases) = b
    BY DEF b
  <2>2. /\ parts \in Seq(Types) /\ Len(parts) = b + m
        /\ \A i \in 1 .. b + m : parts[i] = IF i <= b THEN bases[i] ELSE own[i - b]
    BY <1>2, <1>3, <2>1, ConcatProperties
  <2> HIDE DEF parts
  <2>3. \A k \in 1 .. b : parts[k] = bases[k]
    BY <1>1, <2>2
  <2>4. \A i \in 1 .. m : parts[b + i] = own[i]
    <3> SUFFICES ASSUME NEW i \in 1 .. m
                 PROVE  parts[b + i] = own[i]
      OBVIOUS
    <3>1. b + i \in 1 .. b + m /\ ~ (b + i <= b) /\ (b + i) - b = i
      BY <1>1
    <3>2. parts[b + i] = own[(b + i) - b]
      BY <1>1, <2>2, <3>1
    <3> QED BY <3>1, <3>2
  <2> QED BY <2>2, <2>3, <2>4
<1> HIDE DEF parts
<1>5. parts \in [1 .. b + m -> Types] /\ DOMAIN parts = 1 .. b + m
  BY <1>4
<1>6. AllParts(bases, members) = parts
  BY DEF AllParts, parts, own
<1> QED BY <1>1, <1>2, <1>3, <1>4, <1>5, <1>6 DEF b, m

(* A class whose bases and members lie one behind the other, each aligned  *)
(* and perhaps with padding before it, is a type as TypesAssumption has it.*)
LEMMA AggregateIsLaidOut ==
    ASSUME NEW bases \in Seq(Bases), NEW members \in Seq(Declarations),
           \A t \in Types : Alignable(t)
    PROVE  CanBeAdded(Aggregate(bases, members))
<1> DEFINE parts == AllParts(bases, members)
           b == Len(bases)
           m == Len(members)
           n == b + m
           end == Ends(parts)
           start(i) == end[i] - parts[i].size
           align == Max({parts[i].align : i \in DOMAIN parts} \cup {1})
           depth == 1 + Max({parts[i].depth : i \in DOMAIN parts} \cup {0})
           size == IF parts = << >> THEN 1 ELSE Aligned(end[Len(parts)], align)
           inherited == [k \in DOMAIN bases |-> Inherited(bases[k], start(k))]
           own == [i \in DOMAIN members |->
                     [type |-> members[i].type, mark |-> members[i].mark,
                      offset_of |-> start(b + i), offset |-> start(b + i)]]
           all == FlattenSeq(inherited) \o own
           whole == [kind |-> "aggregate", size |-> size, align |-> align, depth |-> depth,
                     members |-> all]
<1>1. Aggregate(bases, members) = whole
  BY DEF Aggregate, AllParts
<1>2. /\ b \in Nat /\ m \in Nat /\ n \in Nat /\ Len(parts) = n /\ DOMAIN parts = 1 .. n
      /\ parts \in [1 .. n -> Types]
      /\ \A k \in 1 .. b : parts[k] = bases[k] /\ bases[k] \in Bases
      /\ \A i \in 1 .. m : parts[b + i] = members[i].type /\ members[i] \in Declarations
  BY AllPartsAre
<1>3. DOMAIN bases = 1 .. b /\ DOMAIN members = 1 .. m
  OBVIOUS
<1> HIDE DEF parts, b, m
<1>4. \A i \in 1 .. n : /\ parts[i] \in Types /\ parts[i].size \in Nat /\ parts[i].depth \in Nat
                        /\ parts[i].align \in Nat \ {0} /\ Alignable(parts[i])
  <2>1. \A i \in 1 .. n : parts[i] \in Types
    BY <1>2
  <2> QED BY <2>1, TypesAssumption DEF LaidOut, Alignable
<1>5. /\ end \in [0 .. n -> Nat] /\ end[0] = 0
      /\ \A i \in 1 .. n : end[i - 1] + parts[i].size <= end[i]
      /\ \A i \in 0 .. n : \A j \in 0 .. i : end[j] <= end[i]
  <2> HIDE DEF n
  <2> QED BY <1>2, <1>4, EndsIs
<1>6. align \in Nat \ {0}
  <2> DEFINE f == [i \in 1 .. n |-> parts[i].align]
  <2>1. f \in [1 .. n -> Nat] /\ {f[i] : i \in 1 .. n} = {parts[i].align : i \in DOMAIN parts}
    BY <1>2, <1>4
  <2> HIDE DEF f, n
  <2>2. Max({f[i] : i \in 1 .. n} \cup {1}) \in Nat /\ Max({f[i] : i \in 1 .. n} \cup {1}) >= 1
    BY <1>2, <2>1, GreatestIs
  <2>3. align = Max({f[i] : i \in 1 .. n} \cup {1})
    BY <2>1
  <2> HIDE DEF align
  <2> QED BY <2>2, <2>3
<1>7. depth \in Nat /\ \A i \in 1 .. n : parts[i].depth < depth
  <2> DEFINE f == [i \in 1 .. n |-> parts[i].depth]
             greatest == Max({f[i] : i \in 1 .. n} \cup {0})
  <2>1. /\ f \in [1 .. n -> Nat] /\ {f[i] : i \in 1 .. n} = {parts[i].depth : i \in DOMAIN parts}
        /\ \A i \in 1 .. n : f[i] = parts[i].depth
    BY <1>2, <1>4
  <2>2. depth = 1 + greatest
    BY <2>1
  <2> HIDE DEF f, n
  <2>3. greatest \in Nat /\ \A i \in 1 .. n : f[i] <= greatest
    BY <1>2, <2>1, GreatestIs
  <2> HIDE DEF greatest, depth
  <2>4. \A i \in 1 .. n : parts[i].depth \in Nat
    BY <1>4
  <2> QED BY <2>1, <2>2, <2>3, <2>4
<1>8. \A i \in 1 .. n : /\ start(i) \in Nat /\ end[i - 1] <= start(i)
                        /\ start(i) + parts[i].size = end[i]
  <2> SUFFICES ASSUME NEW i \in 1 .. n
               PROVE  /\ start(i) \in Nat /\ end[i - 1] <= start(i)
                      /\ start(i) + parts[i].size = end[i]
    OBVIOUS
  <2>1. i \in 0 .. n /\ i - 1 \in 0 .. n
    BY <1>2
  <2>2. end[i] \in Nat /\ end[i - 1] \in Nat /\ end[i - 1] + parts[i].size <= end[i]
    BY <1>5, <2>1
  <2>3. parts[i].size \in Nat
    BY <1>4
  <2> HIDE DEF end
  <2> QED BY <2>2, <2>3
<1>9. end[n] \in Nat /\ size \in Nat /\ end[n] <= size
  <2>1. end[n] \in Nat
    BY <1>2, <1>5
  <2>2. CASE parts = << >>
    <3>1. n = 0
      BY <1>2, <2>2
    <3> QED BY <1>5, <2>2, <3>1
  <2>3. CASE parts # << >>
    <3>1. size = Aligned(end[n], align)
      BY <1>2, <2>3
    <3> HIDE DEF size, align, end
    <3> QED BY <1>6, <2>1, <3>1, AlignedIs
  <2> QED BY <2>1, <2>2, <2>3
<1> HIDE DEF align, depth, size, n
<1>10. Stowed(FlattenSeq(inherited), 0, end[b], depth)
  <2>1. ASSUME NEW k \in 1 .. b
        PROVE  Stowed(inherited[k], end[k - 1], end[k], depth) /\ inherited[k] \in Seq(DataMembers)
    <3>1. k \in 1 .. n /\ k - 1 \in 0 .. n /\ k \in 0 .. n
      BY <1>2 DEF n
    <3>2. bases[k] \in Types /\ bases[k].kind = "aggregate" /\ parts[k] = bases[k]
      BY <1>2 DEF Bases
    <3>3. /\ start(k) \in Nat /\ end[k - 1] <= start(k) /\ start(k) + bases[k].size = end[k]
          /\ end[k] \in Nat /\ end[k - 1] \in Nat /\ bases[k].depth < depth
          /\ bases[k].size \in Nat
      BY <1>4, <1>5, <1>7, <1>8, <3>1, <3>2
    <3>4. inherited[k] = Inherited(bases[k], start(k))
      BY <1>3
    <3> HIDE DEF inherited, start, end
    <3>5. start(k) + bases[k].size <= end[k]
      BY <3>3
    <3>6. Stowed(inherited[k], start(k), end[k], depth)
      BY <1>7, <3>2, <3>3, <3>4, <3>5, InheritedIs
    <3>7. Stowed(<< >>, end[k - 1], start(k), depth)
      BY DEF Stowed
    <3>8. start(k) <= end[k]
      BY <3>3
    <3>9. Stowed(<< >> \o inherited[k], end[k - 1], end[k], depth)
      BY <3>3, <3>6, <3>7, <3>8, StowedBehind
    <3>10. inherited[k] \in Seq(DataMembers)
      BY <3>6 DEF Stowed
    <3>11. << >> \o inherited[k] = inherited[k]
      BY <3>10
    <3> QED BY <3>9, <3>10, <3>11
  <2>2. inherited \in [1 .. b -> Seq(DataMembers)]
    <3>1. inherited = [k \in 1 .. b |-> inherited[k]]
      BY <1>3
    <3> HIDE DEF inherited
    <3> QED BY <2>1, <3>1
  <2> HIDE DEF inherited, start, end
  <2>3. PICK f \in [0 .. b -> Seq(DataMembers)] :
          /\ f[0] = << >>
          /\ \A k \in 1 .. b : f[k] = f[k - 1] \o inherited[k]
          /\ FlattenSeq(inherited) = f[b]
    <3> HIDE DEF DataMembers
    <3>1. b \in Nat
      BY <1>2
    <3> QED BY <2>2, <3>1, FlattenSeqSteps, Zenon
  <2> DEFINE T == {k \in 0 .. b : Stowed(f[k], 0, end[k], depth)}
  <2>4. 0 \in T
    <3>1. Stowed(<< >>, 0, end[0], depth)
      BY DEF Stowed
    <3> QED BY <1>2, <2>3, <3>1
  <2>5. ASSUME NEW k \in 1 .. b, k - 1 \in T
        PROVE  k \in T
    <3>1. k \in 1 .. n /\ k - 1 \in 0 .. n /\ k \in 0 .. n /\ k \in 0 .. b /\ k - 1 \in 0 .. k
      BY <1>2 DEF n
    <3>2. end[k - 1] \in Nat /\ end[k] \in Nat /\ end[k - 1] <= end[k] /\ 0 <= end[k - 1]
      BY <1>5, <3>1
    <3>3. Stowed(f[k - 1], 0, end[k - 1], depth) /\ Stowed(inherited[k], end[k - 1], end[k], depth)
      BY <2>1, <2>5
    <3>4. Stowed(f[k - 1] \o inherited[k], 0, end[k], depth)
      BY <3>2, <3>3, StowedBehind
    <3> QED BY <2>3, <3>1, <3>4
  <2>6. b \in T
    <3> HIDE DEF T
    <3>1. \A k \in 1 .. b : k - 1 \in T => k \in T
      BY <2>5
    <3>2. \A k \in 0 .. b : k \in T
      BY <1>2, <2>4, <3>1, UpTo
    <3> QED BY <1>2, <3>2
  <2> QED BY <2>3, <2>6
<1>11. Stowed(own, end[b], end[n], depth)
  <2>1. ASSUME NEW i \in 1 .. m
        PROVE  /\ b + i \in 1 .. n /\ b + i \in 0 .. n /\ (b + i) - 1 \in 0 .. n
               /\ own[i].type = members[i].type /\ own[i].mark = members[i].mark
               /\ own[i].offset_of = start(b + i) /\ own[i].offset = start(b + i)
               /\ own[i] = [type |-> members[i].type, mark |-> members[i].mark,
                            offset_of |-> start(b + i), offset |-> start(b + i)]
               /\ parts[b + i] = members[i].type
               /\ members[i].type \in Types /\ members[i].mark \in {"none", "ignore", "skip"}
    <3>1. b + i \in 1 .. n /\ b + i \in 0 .. n /\ (b + i) - 1 \in 0 .. n
      BY <1>2 DEF n
    <3>2. own[i] = [type |-> members[i].type, mark |-> members[i].mark,
                    offset_of |-> start(b + i), offset |-> start(b + i)]
      BY <1>3
    <3>3. parts[b + i] = members[i].type /\ members[i] \in Declarations
      BY <1>2
    <3>4. members[i].type \in Types /\ members[i].mark \in {"none", "ignore", "skip"}
      BY <3>3 DEF Declarations
    <3> HIDE DEF own, start
    <3> QED BY <3>1, <3>2, <3>3, <3>4
  <2>01. ASSUME NEW i \in 1 .. m
         PROVE  b + i \in 1 .. n /\ b + i \in 0 .. n /\ (b + i) - 1 \in 0 .. n
    BY <1>2 DEF n
  <2>02. ASSUME NEW k \in 1 .. n
         PROVE  /\ start(k) \in Nat /\ parts[k].size \in Nat
                /\ end[k - 1] \in Nat /\ end[k] \in Nat
                /\ end[k - 1] <= start(k)
                /\ start(k) + parts[k].size = end[k]
                /\ parts[k].depth < depth
    <3> HIDE DEF own, start, end
    <3>1. k \in 0 .. n /\ k - 1 \in 0 .. n
      BY <1>2
    <3> QED BY <1>4, <1>5, <1>7, <1>8, <3>1
  <2>2. ASSUME NEW i \in 1 .. m
        PROVE  /\ own[i] \in DataMembers /\ own[i].type = parts[b + i]
               /\ own[i].offset_of = own[i].offset /\ own[i].offset = start(b + i)
               /\ start(b + i) \in Nat /\ parts[b + i].size \in Nat
               /\ end[(b + i) - 1] \in Nat /\ end[b + i] \in Nat
               /\ end[(b + i) - 1] <= start(b + i)
               /\ start(b + i) + parts[b + i].size = end[b + i]
               /\ parts[b + i].depth < depth
    <3> HIDE DEF own, start, end
    <3>1. b + i \in 1 .. n
      BY <2>01
    <3>2. /\ start(b + i) \in Nat /\ parts[b + i].size \in Nat
          /\ end[(b + i) - 1] \in Nat /\ end[b + i] \in Nat
          /\ end[(b + i) - 1] <= start(b + i)
          /\ start(b + i) + parts[b + i].size = end[b + i]
          /\ parts[b + i].depth < depth
      BY <2>02, <3>1
    <3>3. /\ own[i] = [type |-> members[i].type, mark |-> members[i].mark,
                       offset_of |-> start(b + i), offset |-> start(b + i)]
          /\ members[i].type \in Types /\ members[i].mark \in {"none", "ignore", "skip"}
      BY <2>1
    <3>4. own[i] \in DataMembers
      BY <3>2, <3>3 DEF DataMembers
    <3>5. own[i].type = parts[b + i] /\ own[i].offset_of = own[i].offset
          /\ own[i].offset = start(b + i)
      BY <2>1
    <3> QED BY <3>2, <3>4, <3>5
  <2>3. own \in Seq(DataMembers) /\ Len(own) = m
    <3>1. own = [i \in 1 .. m |-> own[i]]
      BY <1>3
    <3> HIDE DEF own
    <3>2. own \in [1 .. m -> DataMembers]
      BY <2>2, <3>1
    <3> QED BY <1>2, <3>2
  <2> HIDE DEF own, start, end
  <2>4. ASSUME NEW i \in 1 .. m
        PROVE  end[b] <= end[(b + i) - 1] /\ end[b + i] <= end[n] /\ end[b] \in Nat
    <3>1. b \in 0 .. (b + i) - 1 /\ b + i \in 0 .. n /\ (b + i) - 1 \in 0 .. n /\ n \in 0 .. n
          /\ b \in 0 .. n
      BY <1>2 DEF n
    <3> QED BY <1>5, <3>1
  <2>5. ASSUME NEW i \in 1 .. m, NEW j \in 1 .. m, i < j
        PROVE  own[i].offset + own[i].type.size <= own[j].offset
    <3>1. b + i \in 0 .. (b + j) - 1 /\ (b + j) - 1 \in 0 .. n
      BY <1>2, <2>5 DEF n
    <3>2. end[b + i] <= end[(b + j) - 1]
      BY <1>5, <3>1
    <3>3. own[i].offset + own[i].type.size = end[b + i] /\ end[b + i] \in Nat
      BY <2>2
    <3>4. end[(b + j) - 1] <= own[j].offset /\ end[(b + j) - 1] \in Nat /\ own[j].offset \in Nat
      BY <2>2
    <3> QED BY <3>2, <3>3, <3>4
  <2>6. ASSUME NEW i \in 1 .. m
        PROVE  /\ own[i].offset_of <= own[i].offset /\ end[b] <= own[i].offset
               /\ own[i].offset + own[i].type.size <= end[n]
               /\ own[i].type.depth < depth
    <3>1. own[i].offset_of = own[i].offset /\ own[i].offset \in Nat
      BY <2>2
    <3>2. own[i].offset + own[i].type.size = end[b + i]
      BY <2>2
    <3>3. end[(b + i) - 1] <= own[i].offset /\ end[(b + i) - 1] \in Nat
      BY <2>2
    <3>4. own[i].type.depth < depth
      BY <2>2
    <3> QED BY <2>4, <3>1, <3>2, <3>3, <3>4
  <2>7. ASSUME NEW i \in 1 .. m, NEW j \in 1 .. m, i # j
        PROVE  \/ own[i].offset + own[i].type.size <= own[j].offset
               \/ own[j].offset + own[j].type.size <= own[i].offset
    <3>1. i < j \/ j < i
      BY <2>7
    <3> QED BY <2>5, <3>1
  <2> QED BY <2>3, <2>6, <2>7 DEF Stowed
<1>12. Stowed(all, 0, end[n], depth)
  <2>1. b \in 0 .. n /\ n \in 0 .. n
    BY <1>2 DEF n
  <2>2. end[b] \in Nat /\ end[n] \in Nat /\ 0 <= end[b] /\ end[b] <= end[n]
    BY <1>2, <1>5, <2>1
  <2> HIDE DEF own, inherited, end
  <2> QED BY <1>10, <1>11, <2>2, StowedBehind
<1> HIDE DEF all, end
<1>13. /\ all \in Seq(DataMembers) /\ DOMAIN all = 1 .. Len(all)
       /\ \A i \in 1 .. Len(all) :
             /\ all[i].offset_of <= all[i].offset
             /\ all[i].offset + all[i].type.size <= size
             /\ all[i].type \in Types /\ all[i].type.depth < depth
       /\ \A i, j \in 1 .. Len(all) :
             i # j => \/ all[i].offset + all[i].type.size <= all[j].offset
                      \/ all[j].offset + all[j].type.size <= all[i].offset
  <2>1. all \in Seq(DataMembers) /\ DOMAIN all = 1 .. Len(all)
    BY <1>12 DEF Stowed
  <2>2. ASSUME NEW i \in 1 .. Len(all)
        PROVE  /\ all[i].offset_of <= all[i].offset
               /\ all[i].offset + all[i].type.size <= size
               /\ all[i].type \in Types /\ all[i].type.depth < depth
    <3>1. all[i] \in DataMembers
      BY <2>1
    <3>2. all[i].type \in Types /\ all[i].type.size \in Nat /\ all[i].offset \in Nat
      BY <3>1, MemberIs
    <3>3. /\ all[i].offset_of <= all[i].offset
          /\ all[i].offset + all[i].type.size <= end[n]
          /\ all[i].type.depth < depth
      BY <1>12 DEF Stowed
    <3> QED BY <1>9, <3>2, <3>3
  <2>3. \A i, j \in 1 .. Len(all) :
           i # j => \/ all[i].offset + all[i].type.size <= all[j].offset
                    \/ all[j].offset + all[j].type.size <= all[i].offset
    BY <1>12 DEF Stowed
  <2> QED BY <2>1, <2>2, <2>3
<1>14. /\ whole.kind = "aggregate" /\ whole.size = size /\ whole.align = align
       /\ whole.depth = depth /\ whole.members = all
  OBVIOUS
<1> HIDE DEF whole
<1>15. PartTypes(whole) = {all[i].type : i \in 1 .. Len(all)}
  BY <1>13, <1>14 DEF PartTypes
<1>16. LaidOut(whole)
  BY <1>7, <1>9, <1>13, <1>14, <1>15 DEF LaidOut
<1>17. Alignable(whole)
  BY <1>6, <1>14 DEF Alignable
<1> QED BY <1>1, <1>16, <1>17 DEF CanBeAdded

(* What TypesAssumption asks of the types is true of all that are built by *)
(* Scalar, Pointer, StaticContainer and Aggregate: the types made of those *)
(* there are, in the way a compiler lays them out, may be among them.      *)
THEOREM LayoutsAreAsAssumed ==
    ASSUME \A t \in Types : Alignable(t)
    PROVE  /\ \A size \in Nat \ {0} : CanBeAdded(Scalar(size)) /\ CanBeAdded(Pointer(size))
           /\ \A t \in Types : \A length \in Nat : CanBeAdded(StaticContainer(t, length))
           /\ \A bases \in Seq(Bases) : \A members \in Seq(Declarations) :
                 CanBeAdded(Aggregate(bases, members))
<1>1. ASSUME NEW size \in Nat \ {0}
      PROVE  CanBeAdded(Scalar(size)) /\ CanBeAdded(Pointer(size))
  <2>1. CanBeAdded(Scalar(size))
    BY DEF CanBeAdded, LaidOut, Alignable, Scalar, PartTypes
  <2>2. CanBeAdded(Pointer(size))
    BY DEF CanBeAdded, LaidOut, Alignable, Scalar, Pointer, PartTypes
  <2> QED BY <2>1, <2>2
<1>2. ASSUME NEW t \in Types, NEW length \in Nat
      PROVE  CanBeAdded(StaticContainer(t, length))
  <2> DEFINE all == StaticContainer(t, length)
  <2>1. /\ all.kind = "container" /\ all.size = length * t.size /\ all.align = t.align
        /\ all.depth = t.depth + 1 /\ all.value_type = t /\ all.length = length
    BY DEF StaticContainer
  <2>2. t.size \in Nat /\ t.depth \in Nat /\ Alignable(t)
    BY TypesAssumption DEF LaidOut
  <2> HIDE DEF all
  <2>3. PartTypes(all) = {t}
    BY <2>1 DEF PartTypes
  <2>4. all.size \in Nat /\ all.length * all.value_type.size <= all.size
    BY <2>1, <2>2
  <2>5. LaidOut(all)
    BY <2>1, <2>2, <2>3, <2>4 DEF LaidOut
  <2> QED BY <2>1, <2>2, <2>5 DEF CanBeAdded, Alignable, all
<1> QED BY <1>1, <1>2, AggregateIsLaidOut

-----------------------------------------------------------------------------
(* The types of the program.                                               *)

LEMMA WithoutBases ==
    ASSUME NEW n \in Nat, NEW members, Len(members) = n, DOMAIN members = 1 .. n
    PROVE  LET t == Aggregate(<< >>, members)
           IN  /\ t.kind = "aggregate" /\ Len(t.members) = n
               /\ \A i \in 1 .. n : /\ t.members[i].type = members[i].type
                                    /\ t.members[i].mark = members[i].mark
                                    /\ t.members[i].offset_of = t.members[i].offset
<1> DEFINE parts == << >> \o [i \in DOMAIN members |-> members[i].type]
           start(i) == Ends(parts)[i] - parts[i].size
           own == [i \in DOMAIN members |->
                     [type |-> members[i].type, mark |-> members[i].mark,
                      offset_of |-> start(Len(<< >>) + i), offset |-> start(Len(<< >>) + i)]]
           inherited == [b \in DOMAIN << >> |-> Inherited(<< >>[b], start(b))]
<1>1. /\ Aggregate(<< >>, members).kind = "aggregate"
      /\ Aggregate(<< >>, members).members = FlattenSeq(inherited) \o own
  BY DEF Aggregate
<1>2. FlattenSeq(inherited) = << >>
  <2>1. inherited = << >>
    OBVIOUS
  <2> HIDE DEF inherited
  <2> QED BY <2>1 DEF FlattenSeq
<1>3. /\ DOMAIN own = 1 .. n
      /\ \A i \in 1 .. n : /\ own[i].type = members[i].type /\ own[i].mark = members[i].mark
                           /\ own[i].offset_of = own[i].offset
  <2> HIDE DEF start
  <2> QED OBVIOUS
<1>4. << >> \o own = own /\ Len(own) = n
  <2>1. own \in Seq({own[i] : i \in 1 .. n}) /\ Len(own) = n
    <3>1. own = [i \in 1 .. n |-> own[i]]
      BY <1>3
    <3> HIDE DEF own
    <3>2. own \in [1 .. n -> {own[i] : i \in 1 .. n}]
      BY <3>1
    <3> QED BY <3>2
  <2> HIDE DEF own
  <2> QED BY <2>1
<1> HIDE DEF own, inherited
<1> QED BY <1>1, <1>2, <1>3, <1>4

(* A type without bases is placed as well as its members are.              *)
LEMMA AggregateWellPlaced ==
    ASSUME NEW n \in Nat, NEW members, Len(members) = n, DOMAIN members = 1 .. n,
           Aggregate(<< >>, members) \in Types,
           \A i \in 1 .. n : members[i].type \in Types => ~Misplaced[members[i].type]
    PROVE  ~Misplaced[Aggregate(<< >>, members)]
<1> DEFINE t == Aggregate(<< >>, members)
<1>1. /\ t.kind = "aggregate" /\ Len(t.members) = n
      /\ \A i \in 1 .. n : /\ t.members[i].type = members[i].type
                           /\ t.members[i].offset_of = t.members[i].offset
  BY WithoutBases
<1>2. t \in Types
  OBVIOUS
<1> HIDE DEF t
<1>3. \A i \in 1 .. n : t.members[i].type \in Types
  BY <1>1, <1>2, TypeParts
<1>4. \A i \in Copies(t) : i \in 1 .. n
  BY <1>1 DEF Copies
<1>5. ~Misplaced[t]
  BY <1>1, <1>2, <1>3, <1>4, MisplacedIs
<1> QED BY <1>5 DEF t

LEMMA ScalarWellPlaced ==
    ASSUME NEW size, Scalar(size) \in Types
    PROVE  ~Misplaced[Scalar(size)]
<1>1. Scalar(size).kind = "scalar"
  BY DEF Scalar
<1> QED BY <1>1, MisplacedIs

LEMMA ShortStringWellPlaced ==
    ASSUME NEW n, ShortString(n) \in Types
    PROVE  ~Misplaced[ShortString(n)]
<1> DEFINE t == ShortString(n)
<1>1. t.kind = "container" /\ t.value_type = Scalar(1) /\ t.length = n /\ t \in Types
  BY DEF ShortString, StaticContainer
<1> HIDE DEF t
<1>2. t.value_type \in Types /\ ~Misplaced[Scalar(1)]
  BY <1>1, TypeParts, ScalarWellPlaced
<1>3. RawSize[Scalar(1)] = Scalar(1).size
  <2>1. Scalar(1).kind = "scalar" /\ Scalar(1) \in Types
    BY <1>1, <1>2 DEF Scalar
  <2> QED BY <2>1, RawSizeIs
<1>4. ~Misplaced[t]
  BY <1>1, <1>2, <1>3, MisplacedIs
<1> QED BY <1>4 DEF t

(* An aggregate of one member.                                             *)
LEMMA WrapperWellPlaced ==
    ASSUME NEW part, Aggregate(<< >>, <<Plain(part)>>) \in Types,
           part \in Types => ~Misplaced[part]
    PROVE  ~Misplaced[Aggregate(<< >>, <<Plain(part)>>)]
<1> DEFINE members == <<Plain(part)>>
<1>1. Len(members) = 1 /\ DOMAIN members = 1 .. 1 /\ members[1].type = part
  BY DEF Plain
<1>2. Aggregate(<< >>, members) \in Types
  OBVIOUS
<1> HIDE DEF members
<1>3. \A i \in 1 .. 1 : members[i].type = part
  BY <1>1
<1>4. ~Misplaced[Aggregate(<< >>, members)]
  BY <1>1, <1>2, <1>3, AggregateWellPlaced
<1> QED BY <1>4 DEF members

(* The members of messages.                                                *)
FieldTypes ==
    {Scalar(size) : size \in {1, 2, 4, 8}} \cup {BigEndian(size) : size \in {2, 4, 8}}
    \cup {ShortString(n) : n \in {4, 8}} \cup {Timestamp}

MessageFields == [type : FieldTypes, mark : {"none", "ignore"}]

LEMMA FieldsWellPlaced == \A t \in FieldTypes : t \in Types => ~Misplaced[t]
<1>1. \A size \in {1, 2, 4, 8} : Scalar(size) \in Types => ~Misplaced[Scalar(size)]
  BY ScalarWellPlaced
<1>2. Timestamp \in Types => ~Misplaced[Timestamp]
  <2>1. StaticContainer(Scalar(1), 6) \in Types => ~Misplaced[StaticContainer(Scalar(1), 6)]
    BY ShortStringWellPlaced DEF ShortString
  <2> QED BY <2>1, WrapperWellPlaced DEF Timestamp
<1>3. \A size \in {2, 4, 8} : BigEndian(size) \in Types => ~Misplaced[BigEndian(size)]
  BY ScalarWellPlaced, WrapperWellPlaced DEF BigEndian
<1>4. \A n \in {4, 8} : ShortString(n) \in Types => ~Misplaced[ShortString(n)]
  BY ShortStringWellPlaced
<1> QED BY <1>1, <1>2, <1>3, <1>4 DEF FieldTypes

LEMMA MessageIs ==
    \A t \in MessageTypes : \E fields \in Seq(MessageFields) : t = Aggregate(<< >>, fields)
<1>1. \A t \in FieldTypes : Plain(t) \in MessageFields /\ Ignored(t) \in MessageFields
  BY DEF Plain, Ignored, MessageFields
<1>2. /\ \A size \in {1, 2, 4, 8} : Scalar(size) \in FieldTypes
      /\ \A size \in {2, 4, 8} : BigEndian(size) \in FieldTypes
      /\ \A n \in {4, 8} : ShortString(n) \in FieldTypes
      /\ Timestamp \in FieldTypes
  BY DEF FieldTypes
<1>3. /\ MessageType \in FieldTypes /\ TradeSide \in FieldTypes
      /\ Stock \in FieldTypes /\ MPID \in FieldTypes
      /\ LocateCode \in FieldTypes /\ TrackingNum \in FieldTypes
      /\ ReferenceNum \in FieldTypes /\ NumShares4 \in FieldTypes /\ Price4 \in FieldTypes
  <2> HIDE DEF FieldTypes
  <2> QED BY <1>2 DEF MessageType, TradeSide, Stock, MPID, LocateCode, TrackingNum, ReferenceNum,
                      NumShares4, Price4
<1> DEFINE Built(t) == \E fields \in Seq(MessageFields) : t = Aggregate(<< >>, fields)
<1>03. \A fields \in Seq(MessageFields) : Built(Aggregate(<< >>, fields))
  OBVIOUS
<1> HIDE DEF Built
<1>4. Built(PacketSize)
  <2>1. <<Plain(Scalar(2))>> \in Seq(MessageFields)
    BY <1>1, <1>2, <1>3
  <2> QED BY <1>03, <2>1 DEF PacketSize, BigEndian
<1>5. Built(HeaderView)
  <2>1. <<Plain(MessageType), Plain(LocateCode),
           Ignored(TrackingNum), Ignored(Timestamp)>> \in Seq(MessageFields)
    BY <1>1, <1>2, <1>3
  <2> QED BY <1>03, <2>1 DEF HeaderView
<1>6. Built(AddOrderMessage)
  <2>1. <<Plain(ReferenceNum), Plain(TradeSide), Plain(NumShares4),
           Plain(Stock), Plain(Price4)>> \in Seq(MessageFields)
    BY <1>1, <1>2, <1>3
  <2> QED BY <1>03, <2>1 DEF AddOrderMessage
<1>7. Built(AddOrderMPIDMessage)
  <2>1. <<Plain(ReferenceNum), Plain(TradeSide), Plain(NumShares4),
           Plain(Stock), Plain(Price4), Ignored(MPID)>> \in Seq(MessageFields)
    BY <1>1, <1>2, <1>3
  <2> QED BY <1>03, <2>1 DEF AddOrderMPIDMessage
<1>8. Built(OrderExecutedMessage)
  <2>1. <<Plain(ReferenceNum), Plain(NumShares4),
           Ignored(ReferenceNum)>> \in Seq(MessageFields)
    BY <1>1, <1>2, <1>3
  <2> QED BY <1>03, <2>1 DEF OrderExecutedMessage
<1>9. Built(OrderExecutedWithPriceMessage)
  <2>1. <<Plain(ReferenceNum), Plain(NumShares4),
           Ignored(ReferenceNum), Ignored(Scalar(1)), Ignored(Price4)>> \in Seq(MessageFields)
    BY <1>1, <1>2, <1>3
  <2> QED BY <1>03, <2>1 DEF OrderExecutedWithPriceMessage
<1>10. Built(OrderCancelMessage)
  <2>1. <<Plain(ReferenceNum), Plain(NumShares4)>> \in Seq(MessageFields)
    BY <1>1, <1>2, <1>3
  <2> QED BY <1>03, <2>1 DEF OrderCancelMessage
<1>11. Built(OrderDeleteMessage)
  <2>1. <<Plain(ReferenceNum)>> \in Seq(MessageFields)
    BY <1>1, <1>2, <1>3
  <2> QED BY <1>03, <2>1 DEF OrderDeleteMessage
<1>12. Built(OrderReplaceMessage)
  <2>1. <<Plain(ReferenceNum), Plain(ReferenceNum),
           Plain(NumShares4), Plain(Price4)>> \in Seq(MessageFields)
    BY <1>1, <1>2, <1>3
  <2> QED BY <1>03, <2>1 DEF OrderReplaceMessage
<1>13. \A t \in MessageTypes : Built(t)
  BY <1>4, <1>5, <1>6, <1>7, <1>8, <1>9, <1>10, <1>11, <1>12 DEF MessageTypes
<1> QED BY <1>13 DEF Built

LEMMA MessagesWellPlaced == \A t \in MessageTypes : t \in Types => ~Misplaced[t]
<1> SUFFICES ASSUME NEW t \in MessageTypes, t \in Types
             PROVE  ~Misplaced[t]
  OBVIOUS
<1>1. PICK fields \in Seq(MessageFields) : t = Aggregate(<< >>, fields)
  BY MessageIs
<1>2. /\ Len(fields) \in Nat /\ DOMAIN fields = 1 .. Len(fields)
      /\ \A i \in 1 .. Len(fields) : fields[i].type \in FieldTypes
  <2>1. \A f \in MessageFields : f.type \in FieldTypes
    BY DEF MessageFields
  <2> HIDE DEF MessageFields
  <2>2. /\ Len(fields) \in Nat /\ DOMAIN fields = 1 .. Len(fields)
        /\ \A i \in 1 .. Len(fields) : fields[i] \in MessageFields
    OBVIOUS
  <2> QED BY <2>1, <2>2
<1>3. \A i \in 1 .. Len(fields) : fields[i].type \in Types => ~Misplaced[fields[i].type]
  BY <1>2, FieldsWellPlaced
<1> QED BY <1>1, <1>2, <1>3, AggregateWellPlaced

(* What is promised of them.                                               *)
AllMessages == \A i \in DOMAIN args : args[i] \in MessageTypes

MessagesCopied ==
    AllMessages =>
        /\ \A i \in DOMAIN args : Range(FlatMoves(args[i])) = Range(Fields(args[i]))
        /\ next > Len(args) =>
              /\ cursor = SerialSize(args)
              /\ stage = "deserialize" =>
                    \A i \in DOMAIN args : \A o \in OnWire(args[i]) : parsed[i][o] = <<i, o>>

(* The messages of the program, whichever are serialised together, are     *)
(* copied the same way flat and field by field, and are deserialised into  *)
(* what was serialised, with the buffer used up.                           *)
THEOREM MessagesRoundTrip == Spec => []MessagesCopied
<1>1. Inv /\ OnlyMisplacedTypesDisagree /\ RoundTrip => MessagesCopied
  <2> SUFFICES ASSUME Inv, OnlyMisplacedTypesDisagree, RoundTrip, AllMessages
               PROVE  MessagesCopied
    BY DEF MessagesCopied
  <2>1. \A i \in DOMAIN args : args[i] \in Types
    BY TypedArgs DEF Inv
  <2>2. \A i \in DOMAIN args : ~Misplaced[args[i]]
    BY <2>1, MessagesWellPlaced DEF AllMessages
  <2>3. WellPlaced
    BY <2>2 DEF WellPlaced
  <2>4. \A i \in DOMAIN args : Range(FlatMoves(args[i])) = Range(Fields(args[i]))
    BY <2>2 DEF OnlyMisplacedTypesDisagree
  <2> QED BY <2>3, <2>4 DEF RoundTrip, MessagesCopied
<1> QED BY <1>1, InvHolds, OnlyMisplacedTypesDisagreeHolds, RoundTripHolds, PTL

=============================================================================
