--------------------------- MODULE SceneFrameProofs ---------------------------
(***************************************************************************)
(* Proofs about module SceneFrame, for any scenes, views, clicks and moves *)
(* and any size of a slice, whatever tree BuildTlas gives and whatever     *)
(* RaycastScene answers.                                                   *)
(*                                                                         *)
(* A list of numbers is known when it is known to rise and which numbers   *)
(* it has (AscendsOnce): what the culling jobs found, strung together, is  *)
(* what one job would have found.  Two functions have the same bag when a  *)
(* bijection leads from one to the other (BagSame): the sort is one, and   *)
(* so is the way from a command to its instance in a batch.                *)
(***************************************************************************)
EXTENDS SceneFrame, FiniteSetTheorems, SequenceTheorems, WellFoundedInduction, TLAPS

-----------------------------------------------------------------------------
(***************************************************************************)
(* Numbers                                                                 *)
(***************************************************************************)

\* A set of numbers that is not empty has a least one.
LEMMA FirstNumber ==
  ASSUME NEW S \in SUBSET Nat, S # {}
  PROVE  \E m \in S : \A k \in S : m <= k
<1>1. PICK m \in S : \A k \in S : <<k, m>> \notin OpToRel(<, Nat)
  BY WFMin, NatLessThanWellFounded, Zenon
<1>2. \A k \in S : ~ (k < m)
  BY <1>1, Zenon DEF OpToRel
<1> QED
  BY <1>2

\* A set that holds 0 and with every number the next one holds all.
LEMMA Steps ==
  ASSUME NEW n \in Nat, NEW S, 0 \in S, \A i \in 0 .. n - 1 : i \in S => i + 1 \in S
  PROVE  0 .. n \subseteq S
<1>1. SUFFICES ASSUME {i \in 0 .. n : i \notin S} # {} PROVE FALSE
  OBVIOUS
<1>2. PICK m \in {i \in 0 .. n : i \notin S} : \A k \in {i \in 0 .. n : i \notin S} : m <= k
  <2>1. {i \in 0 .. n : i \notin S} \in SUBSET Nat
    OBVIOUS
  <2> QED
    BY <1>1, <2>1, FirstNumber
<1>3. m - 1 \in 0 .. n - 1 /\ m - 1 \in S
  BY <1>2
<1> QED
  BY <1>2, <1>3

\* The values that a recursive function takes from 0 to n.
Follows(f, n, start, next) == f[0] = start /\ \A i \in 0 .. n - 1 : f[i + 1] = next[i + 1][f[i]]

\* A function of steps has the recursive function that it describes.
LEMMA Unrolling ==
  ASSUME NEW n \in Nat, NEW S, NEW start \in S, NEW next \in [1 .. n -> [S -> S]]
  PROVE  \E f \in [0 .. n -> S] : Follows(f, n, start, next)
<1> DEFINE Far == {k \in 0 .. n : \E f \in [0 .. k -> S] : Follows(f, k, start, next)}
<1>1. 0 \in Far
  <2>1. [i \in 0 .. 0 |-> start] \in [0 .. 0 -> S]
    OBVIOUS
  <2>2. Follows([i \in 0 .. 0 |-> start], 0, start, next)
    BY DEF Follows
  <2> QED
    BY <2>1, <2>2
<1>2. ASSUME NEW k \in 0 .. n - 1, k \in Far
      PROVE  k + 1 \in Far
  <2>1. PICK f \in [0 .. k -> S] : Follows(f, k, start, next)
    BY <1>2
  <2> DEFINE g == [i \in 0 .. k + 1 |-> IF i = k + 1 THEN next[k + 1][f[k]] ELSE f[i]]
  <2>2. next[k + 1][f[k]] \in S
    OBVIOUS
  <2>3. g \in [0 .. k + 1 -> S]
    BY <2>2
  <2>4. g[0] = start /\ \A i \in 0 .. k : g[i + 1] = next[i + 1][g[i]]
    BY <2>1 DEF Follows
  <2> HIDE DEF g
  <2>5. Follows(g, k + 1, start, next)
    <3>1. (k + 1) - 1 = k
      OBVIOUS
    <3> QED
      BY <2>4, <3>1 DEF Follows
  <2> QED
    BY <2>3, <2>5
<1>3. 0 .. n \subseteq Far
  <2> HIDE DEF Far
  <2> QED
    BY <1>1, <1>2, Steps
<1> QED
  BY <1>3

\* A set of numbers with a bound that is not empty has a greatest one.
LEMMA LastNumber ==
  ASSUME NEW S \in SUBSET Nat, NEW n \in Nat, S # {}, \A k \in S : k <= n
  PROVE  \E m \in S : \A k \in S : k <= m
<1> DEFINE T == {n - k : k \in S}
<1>0. \A k \in S : k \in Nat /\ n - k \in Nat
  OBVIOUS
<1>1. T \in SUBSET Nat /\ T # {}
  BY <1>0
<1>2. PICK d \in T : \A e \in T : d <= e
  BY <1>1, FirstNumber
<1>3. PICK m \in S : d = n - m
  OBVIOUS
<1>4. \A k \in S : n - k \in T /\ k \in Nat
  OBVIOUS
<1> QED
  BY <1>2, <1>3, <1>4

LEMMA MaxIs ==
  ASSUME NEW n \in Nat, NEW S \in SUBSET (0 .. n), S # {}
  PROVE  Max(S) \in S /\ \A k \in S : k <= Max(S)
<1>1. S \in SUBSET Nat /\ \A k \in S : k <= n
  OBVIOUS
<1>2. \E m \in S : \A k \in S : k <= m
  BY <1>1, LastNumber
<1>3. \E m \in S : \A k \in S : m >= k
  BY <1>1, <1>2
<1>4. Max(S) \in S /\ \A k \in S : Max(S) >= k
  BY <1>3 DEF Max
<1> QED
  BY <1>1, <1>4

LEMMA MinIs ==
  ASSUME NEW a \in Int, NEW b \in Int
  PROVE  Min({a, b}) = IF a <= b THEN a ELSE b
BY DEF Min

-----------------------------------------------------------------------------
(***************************************************************************)
(* Places in an order                                                      *)
(***************************************************************************)

LEMMA InjectionIs ==
  ASSUME NEW S, NEW T, NEW f \in [S -> T], \A x, y \in S : f[x] = f[y] => x = y
  PROVE  f \in Injection(S, T)
BY DEF Injection, IsInjective

LEMMA BijectionIs ==
  ASSUME NEW S, NEW T, NEW f \in [S -> T], \A x, y \in S : f[x] = f[y] => x = y,
         \A z \in T : \E x \in S : f[x] = z
  PROVE  f \in Bijection(S, T)
BY InjectionIs DEF Bijection, Surjection

\* below[x] is what comes before x in an order of all of S.
Orders(S, below) ==
    /\ below \in [S -> SUBSET S]
    /\ \A x \in S : x \notin below[x]
    /\ \A x, y \in S : y \in below[x] => below[y] \subseteq below[x]
    /\ \A x, y \in S : x = y \/ x \in below[y] \/ y \in below[x]

\* Counting what comes before them numbers the n elements from 0 on.
Numbers(S, n, below) ==
    /\ n \in Nat
    /\ \A x \in S : Cardinality(below[x]) \in 0 .. n - 1
    /\ \A x, y \in S : Cardinality(below[x]) < Cardinality(below[y]) <=> x \in below[y]
    /\ \A x, y \in S : Cardinality(below[x]) = Cardinality(below[y]) => x = y
    /\ \A k \in 0 .. n - 1 : \E x \in S : Cardinality(below[x]) = k

LEMMA PlacesAre ==
  ASSUME NEW S, IsFiniteSet(S), NEW below, Orders(S, below)
  PROVE  Numbers(S, Cardinality(S), below)
<1> DEFINE n == Cardinality(S)
           place == [x \in S |-> Cardinality(below[x])]
<1>1. n \in Nat
  BY FS_CardinalityType
<1>2. ASSUME NEW x \in S
      PROVE  IsFiniteSet(below[x]) /\ Cardinality(below[x]) \in 0 .. n - 1
  <2>1. below[x] \in SUBSET S /\ x \notin below[x]
    BY DEF Orders
  <2>2. /\ IsFiniteSet(below[x]) /\ Cardinality(below[x]) <= n
        /\ n = Cardinality(below[x]) => S = below[x]
    BY <2>1, FS_Subset
  <2>3. Cardinality(below[x]) \in Nat
    BY <2>2, FS_CardinalityType
  <2> QED
    BY <1>1, <2>1, <2>2, <2>3
<1>3. ASSUME NEW x \in S, NEW y \in S, x \in below[y]
      PROVE  Cardinality(below[x]) < Cardinality(below[y])
  <2>1. below[x] \in SUBSET below[y] /\ x \in below[y] /\ x \notin below[x]
    BY <1>3 DEF Orders
  <2>2. /\ Cardinality(below[x]) <= Cardinality(below[y])
        /\ Cardinality(below[y]) = Cardinality(below[x]) => below[y] = below[x]
    BY <1>2, <2>1, FS_Subset
  <2> QED
    BY <1>1, <1>2, <2>1, <2>2
<1>4. \A x, y \in S : x = y \/ x \in below[y] \/ y \in below[x]
  BY DEF Orders
<1>5. \A x \in S : Cardinality(below[x]) \in Nat
  BY <1>1, <1>2
<1>6. \A x, y \in S : Cardinality(below[x]) < Cardinality(below[y]) <=> x \in below[y]
  BY <1>3, <1>4, <1>5
<1>7. \A x, y \in S : Cardinality(below[x]) = Cardinality(below[y]) => x = y
  BY <1>3, <1>4, <1>5
<1>8. place \in Injection(S, 0 .. n - 1)
  <2>1. place \in [S -> 0 .. n - 1]
    BY <1>2
  <2>2. \A x, y \in S : place[x] = place[y] => x = y
    BY <1>7
  <2> HIDE DEF place, n
  <2> QED
    BY <2>1, <2>2, InjectionIs
<1>9. IsFiniteSet(0 .. n - 1) /\ Cardinality(0 .. n - 1) = n
  BY <1>1, FS_Interval
<1>10. place \in Surjection(S, 0 .. n - 1)
  <2> HIDE DEF place
  <2> QED
    BY <1>8, <1>9, FS_Injection
<1>11. \A k \in 0 .. n - 1 : \E x \in S : Cardinality(below[x]) = k
  BY <1>10 DEF Surjection
<1> QED
  BY <1>1, <1>2, <1>6, <1>7, <1>11 DEF Numbers

\* The list has the numbers of S, each once, in rising order.
Ascends(list, S) ==
    /\ list \in Seq(S)
    /\ \A i, j \in 1 .. Len(list) : i < j => list[i] < list[j]
    /\ \A x \in S : \E i \in 1 .. Len(list) : list[i] = x

LEMMA NumbersOrdered ==
  ASSUME NEW S \in SUBSET Nat
  PROVE  Orders(S, [x \in S |-> {y \in S : y < x}])
<1> DEFINE below == [x \in S |-> {y \in S : y < x}]
<1>1. below \in [S -> SUBSET S]
  OBVIOUS
<1>2. \A x, y \in S : (y \in below[x] <=> y < x) /\ x \in Nat
  OBVIOUS
<1>3. \A x, y \in S : below[x] \subseteq S /\ (y \in below[x] => below[y] \subseteq below[x])
  <2> HIDE DEF below
  <2>1. \A x \in S : below[x] \subseteq S
    BY <1>1
  <2>2. ASSUME NEW x \in S, NEW y \in S, y \in below[x], NEW z \in below[y] PROVE z \in below[x]
    <3>1. z \in S
      BY <2>1
    <3> QED
      BY <1>2, <2>2, <3>1
  <2> QED
    BY <2>1, <2>2
<1> HIDE DEF below
<1>4. Orders(S, below)
  <2>1. ASSUME NEW x \in S PROVE x \notin below[x]
    <3>1. (x \in below[x] <=> x < x) /\ x \in Nat
      BY <1>2
    <3> QED
      BY <3>1
  <2>2. \A x, y \in S : x = y \/ x \in below[y] \/ y \in below[x]
    BY <1>2
  <2> QED
    BY <1>1, <1>3, <2>1, <2>2 DEF Orders
<1> QED
  BY <1>4 DEF below

LEMMA RisingIs ==
  ASSUME NEW S \in SUBSET Nat, IsFiniteSet(S)
  PROVE  Ascends(Rising(S), S) /\ Len(Rising(S)) = Cardinality(S)
<1>0. PICK below : below = [x \in S |-> {y \in S : y < x}]
  OBVIOUS
<1>1. Orders(S, below)
  BY <1>0, NumbersOrdered
<1>2. PICK n : n = Cardinality(S)
  OBVIOUS
<1>2a. Numbers(S, n, below)
  <2>1. Numbers(S, Cardinality(S), below)
    BY <1>1, PlacesAre
  <2> QED
    BY <1>2, <2>1
<1>2b. \A k \in 0 .. n - 1 : \E x \in S : Cardinality(below[x]) = k
  BY <1>2a DEF Numbers
<1>2c. \A x, y \in S : Cardinality(below[x]) = Cardinality(below[y]) => x = y
  BY <1>2a DEF Numbers
<1> DEFINE r == Rising(S)
<1>3. \A x \in S : below[x] = {y \in S : y < x}
  BY <1>0
<1>4. r = [k \in 1 .. n |-> CHOOSE x \in S : Cardinality({y \in S : y < x}) = k - 1]
  BY <1>2 DEF Rising
<1>5. ASSUME NEW k \in 1 .. n
      PROVE  r[k] \in S /\ Cardinality(below[r[k]]) = k - 1
  <2>1. PICK j \in 0 .. n - 1 : j = k - 1
    BY <1>2a DEF Numbers
  <2>1a. \E x \in S : Cardinality(below[x]) = k - 1
    BY <1>2b, <2>1
  <2>2. \E x \in S : Cardinality({y \in S : y < x}) = k - 1
    BY <1>3, <2>1a
  <2>3. r[k] = CHOOSE x \in S : Cardinality({y \in S : y < x}) = k - 1
    BY <1>4
  <2>4. r[k] \in S /\ Cardinality({y \in S : y < r[k]}) = k - 1
    <3> HIDE DEF r
    <3> QED
      BY <2>2, <2>3
  <2> QED
    BY <1>3, <2>4
<1>6. r \in [1 .. n -> S]
  BY <1>4, <1>5
<1>7. r \in Seq(S) /\ Len(r) = n
  <2> HIDE DEF r
  <2> QED
    BY <1>2a, <1>6 DEF Numbers
<1> HIDE DEF r
<1>8. ASSUME NEW i \in 1 .. n, NEW j \in 1 .. n, i < j PROVE r[i] < r[j]
  <2>1. r[i] \in S /\ r[j] \in S /\ Cardinality(below[r[i]]) < Cardinality(below[r[j]])
    BY <1>2a, <1>5, <1>8 DEF Numbers
  <2>2. r[i] \in below[r[j]]
    BY <1>2a, <2>1 DEF Numbers
  <2> QED
    BY <1>3, <2>1, <2>2
<1>9. ASSUME NEW x \in S PROVE \E i \in 1 .. n : r[i] = x
  <2>1. Cardinality(below[x]) + 1 \in 1 .. n /\ (Cardinality(below[x]) + 1) - 1 = Cardinality(below[x])
    BY <1>2a DEF Numbers
  <2>1a. PICK i \in 1 .. n : i - 1 = Cardinality(below[x])
    BY <2>1
  <2>2. r[i] = x
    <3>1. r[i] \in S /\ Cardinality(below[r[i]]) = Cardinality(below[x])
      BY <1>5, <2>1a
    <3> QED
      BY <1>2c, <3>1
  <2> QED
    BY <2>1, <2>2
<1>10. Ascends(r, S)
  BY <1>7, <1>8, <1>9 DEF Ascends
<1> QED
  BY <1>2, <1>7, <1>10 DEF r

\* There is only one such list.
LEMMA AscendsOnce ==
  ASSUME NEW S \in SUBSET Nat, NEW list, Ascends(list, S)
  PROVE  IsFiniteSet(S) /\ list = Rising(S)
<1> DEFINE n == Len(list)
           below == [x \in S |-> {y \in S : y < x}]
<1>1. n \in Nat /\ list \in [1 .. n -> S] /\ DOMAIN list = 1 .. n
  BY DEF Ascends
<1>2. \A i, j \in 1 .. n : i < j => list[i] < list[j]
  BY DEF Ascends
<1>3. \A x \in S : \E i \in 1 .. n : list[i] = x
  BY DEF Ascends
<1> HIDE DEF n
<1>4. \A i, j \in 1 .. n : list[i] \in Nat /\ (list[i] < list[j] <=> i < j) /\ (list[i] = list[j] => i = j)
  <2>1. \A i \in 1 .. n : list[i] \in Nat
    BY <1>1
  <2> QED
    BY <1>1, <1>2, <2>1
<1>5. list \in Surjection(1 .. n, S) /\ list \in Injection(1 .. n, S)
  <2>1. list \in Surjection(1 .. n, S)
    BY <1>1, <1>3 DEF Surjection
  <2>2. list \in Injection(1 .. n, S)
    BY <1>1, <1>4, InjectionIs
  <2> QED
    BY <2>1, <2>2
<1>6. IsFiniteSet(1 .. n) /\ Cardinality(1 .. n) = n
  BY <1>1, FS_Interval
<1>7. IsFiniteSet(S) /\ Cardinality(S) = n
  BY <1>5, <1>6, FS_Surjection
<1>8. ASSUME NEW k \in 1 .. n
      PROVE  Cardinality({y \in S : y < list[k]}) = k - 1
  <2> DEFINE T == {y \in S : y < list[k]}
             f == [i \in 1 .. k - 1 |-> list[i]]
  <2>1. k \in Nat /\ \A i \in 1 .. k - 1 : i \in 1 .. n /\ i < k
    BY <1>1
  <2>2. f \in [1 .. k - 1 -> T]
    BY <1>1, <1>4, <2>1
  <2>3. \A i, j \in 1 .. k - 1 : f[i] = f[j] => i = j
    BY <1>4, <2>1
  <2>4. ASSUME NEW y \in T PROVE \E i \in 1 .. k - 1 : f[i] = y
    <3>1. PICK i \in 1 .. n : list[i] = y
      BY <1>3
    <3>2. i < k
      BY <1>4, <3>1
    <3> QED
      BY <1>1, <3>1, <3>2
  <2>5. f \in Bijection(1 .. k - 1, T)
    <3> HIDE DEF f, T
    <3> QED
      BY <2>2, <2>3, <2>4, BijectionIs
  <2>6. IsFiniteSet(1 .. k - 1) /\ Cardinality(1 .. k - 1) = k - 1
    BY <2>1, FS_Interval
  <2> HIDE DEF T, f
  <2>7. Cardinality(T) = Cardinality(1 .. k - 1)
    BY <2>5, <2>6, FS_Bijection DEF ExistsBijection
  <2> QED
    BY <2>6, <2>7 DEF T
<1>9. \A x, y \in S : Cardinality(below[x]) = Cardinality(below[y]) => x = y
  <2>1. Orders(S, below)
    BY NumbersOrdered
  <2> HIDE DEF below
  <2>2. Numbers(S, Cardinality(S), below)
    BY <1>7, <2>1, PlacesAre
  <2> QED
    BY <2>2 DEF Numbers
<1>10. ASSUME NEW k \in 1 .. n
       PROVE  list[k] = CHOOSE x \in S : Cardinality({y \in S : y < x}) = k - 1
  <2>1. list[k] \in S /\ Cardinality({y \in S : y < list[k]}) = k - 1
    BY <1>1, <1>8
  <2>2. \A x \in S : Cardinality({y \in S : y < x}) = k - 1 => x = list[k]
    BY <1>9, <2>1
  <2> QED
    BY <2>1, <2>2
<1>11. list = [k \in 1 .. n |-> CHOOSE x \in S : Cardinality({y \in S : y < x}) = k - 1]
  <2>1. list = [k \in 1 .. n |-> list[k]]
    BY <1>1
  <2> QED
    BY <1>10, <2>1
<1> QED
  BY <1>7, <1>11 DEF Rising

-----------------------------------------------------------------------------
(***************************************************************************)
(* Lists strung together                                                   *)
(***************************************************************************)

\* FlattenSeq appends the n lists one by one.
Strung(seqs, n, A) ==
    \E f \in [0 .. n -> Seq(A)] :
       /\ f[0] = <<>>
       /\ \A i \in 0 .. n - 1 : f[i + 1] = f[i] \o seqs[i + 1]
       /\ FlattenSeq(seqs) = f[n]

LEMMA FlattenSteps ==
  ASSUME NEW A, NEW n \in Nat, NEW seqs \in Seq(Seq(A)), Len(seqs) = n
  PROVE  Strung(seqs, n, A)
<1> DEFINE next == [i \in 1 .. n |-> [list \in Seq(A) |-> list \o seqs[i]]]
           Is(f) == f = [i \in 1 .. n |-> IF i = 1 THEN seqs[i] ELSE f[i - 1] \o seqs[i]]
<1>1. \A i \in 1 .. n : seqs[i] \in Seq(A)
  OBVIOUS
<1>2. <<>> \in Seq(A)
  BY EmptySeq
<1>3. PICK f \in [0 .. n -> Seq(A)] : Follows(f, n, <<>>, next)
  <2>1. \A i \in 1 .. n, list \in Seq(A) : list \o seqs[i] \in Seq(A)
    BY <1>1, ConcatProperties
  <2>2. next \in [1 .. n -> [Seq(A) -> Seq(A)]]
    BY <2>1
  <2> HIDE DEF next
  <2> QED
    BY <1>2, <2>2, Unrolling
<1>4. ASSUME NEW i \in 0 .. n - 1 PROVE f[i + 1] = f[i] \o seqs[i + 1]
  <2>1. i + 1 \in 1 .. n /\ i \in 0 .. n
    OBVIOUS
  <2>2. f[i + 1] = next[i + 1][f[i]]
    BY <1>3 DEF Follows
  <2>3. f[i] \in Seq(A)
    BY <2>1
  <2> QED
    BY <2>1, <2>2, <2>3
<1>5. f[0] = <<>>
  BY <1>3 DEF Follows
<1> HIDE DEF next
<1>6. CASE n = 0
  <2>1. FlattenSeq(seqs) = seqs /\ seqs = <<>>
    BY <1>6, EmptySeq DEF FlattenSeq
  <2> QED
    BY <1>4, <1>5, <1>6, <2>1 DEF Strung
<1>7. CASE n # 0
  <2>1. \E g : Is(g)
    <3> DEFINE g == [i \in 1 .. n |-> f[i]]
    <3>1. ASSUME NEW i \in 1 .. n
          PROVE  g[i] = IF i = 1 THEN seqs[i] ELSE g[i - 1] \o seqs[i]
      <4>1. i - 1 \in 0 .. n - 1 /\ (i - 1) + 1 = i
        OBVIOUS
      <4>2. f[i] = f[i - 1] \o seqs[i]
        BY <1>4, <4>1
      <4>3. i = 1 => f[i] = seqs[i]
        <5>1. <<>> \o seqs[i] = seqs[i]
          BY <1>1, ConcatEmptySeq
        <5>2. i = 1 => i - 1 = 0
          OBVIOUS
        <5> QED
          BY <1>5, <4>2, <5>1, <5>2
      <4>4. i # 1 => i - 1 \in 1 .. n
        OBVIOUS
      <4> QED
        BY <4>2, <4>3, <4>4
    <3>2. g = [i \in 1 .. n |-> g[i]]
      OBVIOUS
    <3> HIDE DEF g
    <3>3. Is(g)
      BY <3>1, <3>2
    <3> QED
      BY <3>3
  <2>2. PICK g : Is(g) /\ FlattenSeq(seqs) = g[n]
    <3>1. FlattenSeq(seqs) = (CHOOSE g : Is(g))[n]
      BY <1>7 DEF FlattenSeq
    <3> HIDE DEF Is
    <3> QED
      BY <2>1, <3>1
  <2>3. g[n] = f[n]
    <3> DEFINE U == {k \in 0 .. n : k = 0 \/ g[k] = f[k]}
    <3>1. 0 \in U
      OBVIOUS
    <3>2. ASSUME NEW k \in 0 .. n - 1, k \in U PROVE k + 1 \in U
      <4>1. k + 1 \in 1 .. n /\ k + 1 \in 0 .. n /\ (k + 1) - 1 = k /\ (k + 1 = 1 <=> k = 0)
        OBVIOUS
      <4>2. g[k + 1] = IF k + 1 = 1 THEN seqs[k + 1] ELSE g[k] \o seqs[k + 1]
        BY <2>2, <4>1
      <4>3. f[k + 1] = f[k] \o seqs[k + 1]
        BY <1>4
      <4>4. <<>> \o seqs[k + 1] = seqs[k + 1]
        BY <1>1, <4>1, ConcatEmptySeq
      <4> QED
        BY <1>5, <3>2, <4>1, <4>2, <4>3, <4>4
    <3>3. n \in U
      <4> HIDE DEF U
      <4>1. 0 .. n \subseteq U
        BY <3>1, <3>2, Steps
      <4> QED
        BY <4>1
    <3> QED
      BY <1>7, <3>3
  <2> QED
    BY <1>4, <1>5, <2>2, <2>3 DEF Strung
<1> QED
  BY <1>6, <1>7

LEMMA FlattenType ==
  ASSUME NEW A, NEW seqs \in Seq(Seq(A))
  PROVE  FlattenSeq(seqs) \in Seq(A)
<1>1. PICK n \in Nat : Len(seqs) = n
  OBVIOUS
<1>2. PICK f \in [0 .. n -> Seq(A)] :
            /\ f[0] = <<>>
            /\ \A i \in 0 .. n - 1 : f[i + 1] = f[i] \o seqs[i + 1]
            /\ FlattenSeq(seqs) = f[n]
  <2>1. Strung(seqs, n, A)
    BY <1>1, FlattenSteps
  <2> QED
    BY <2>1 DEF Strung
<1>3. n \in 0 .. n
  OBVIOUS
<1> QED
  BY <1>2, <1>3

\* A list after one whose numbers are all smaller.
LEMMA AscendsOn ==
  ASSUME NEW S \in SUBSET Nat, NEW T \in SUBSET Nat, NEW a, NEW b,
         Ascends(a, S), Ascends(b, T), \A x \in S, y \in T : x < y
  PROVE  Ascends(a \o b, S \cup T)
<1>1. a \in Seq(S) /\ b \in Seq(T) /\ a \in Seq(S \cup T) /\ b \in Seq(S \cup T)
  BY SeqMonotonic DEF Ascends
<1>2. PICK m \in Nat, n \in Nat : m = Len(a) /\ n = Len(b)
  BY <1>1
<1>3. /\ a \o b \in Seq(S \cup T)
      /\ Len(a \o b) = m + n
      /\ \A i \in 1 .. m + n : (a \o b)[i] = IF i <= m THEN a[i] ELSE b[i - m]
  BY <1>1, <1>2, ConcatProperties
<1> DEFINE c == a \o b
<1> HIDE DEF c
<1>4. \A i \in 1 .. m : a[i] \in S /\ a[i] \in Nat
  BY <1>1, <1>2, ElementOfSeq
<1>5. \A i \in 1 .. n : b[i] \in T /\ b[i] \in Nat
  BY <1>1, <1>2, ElementOfSeq
<1>6. \A i \in 1 .. m + n : c[i] = IF i <= m THEN a[i] ELSE b[i - m]
  BY <1>3 DEF c
<1>7. ASSUME NEW i \in 1 .. m + n, NEW j \in 1 .. m + n, i < j PROVE c[i] < c[j]
  <2>1. CASE j <= m
    <3>1. i \in 1 .. m /\ j \in 1 .. m
      BY <1>7, <2>1
    <3>2. a[i] < a[j]
      BY <1>2, <1>7, <3>1 DEF Ascends
    <3> QED
      BY <1>6, <3>1, <3>2
  <2>2. CASE i <= m /\ m < j
    <3>1. i \in 1 .. m /\ j - m \in 1 .. n
      BY <2>2
    <3>2. c[i] = a[i] /\ c[j] = b[j - m]
      BY <1>6, <2>2
    <3> QED
      BY <1>4, <1>5, <3>1, <3>2
  <2>3. CASE m < i
    <3>1. i - m \in 1 .. n /\ j - m \in 1 .. n /\ i - m < j - m /\ ~(i <= m) /\ ~(j <= m)
      BY <1>7, <2>3
    <3>2. b[i - m] < b[j - m]
      BY <1>2, <3>1 DEF Ascends
    <3> QED
      BY <1>6, <3>1, <3>2
  <2> QED
    BY <1>7, <2>1, <2>2, <2>3
<1>8. ASSUME NEW x \in S \cup T PROVE \E i \in 1 .. m + n : c[i] = x
  <2>1. CASE x \in S
    <3>1. PICK i \in 1 .. m : a[i] = x
      BY <1>2, <2>1 DEF Ascends
    <3>2. i \in 1 .. m + n /\ i <= m
      OBVIOUS
    <3> QED
      BY <1>6, <3>1, <3>2
  <2>2. CASE x \in T
    <3>1. PICK i \in 1 .. n : b[i] = x
      BY <1>2, <2>2 DEF Ascends
    <3>2. i + m \in 1 .. m + n /\ ~(i + m <= m) /\ (i + m) - m = i
      OBVIOUS
    <3> QED
      BY <1>6, <3>1, <3>2
  <2> QED
    BY <2>1, <2>2
<1> QED
  BY <1>3, <1>7, <1>8 DEF Ascends, c

\* The numbers of P cut in slices, each in rising order, and strung together.
LEMMA SlicesJoin ==
  ASSUME NEW P \in SUBSET Nat, NEW n \in Nat, NEW cut \in [0 .. n -> Nat],
         cut[0] = 0, \A i \in 0 .. n - 1 : cut[i] <= cut[i + 1],
         \A s \in P : 0 < s /\ s <= cut[n],
         NEW seqs \in [1 .. n -> Seq(P)],
         \A i \in 1 .. n : seqs[i] = Rising({s \in P : cut[i - 1] < s /\ s <= cut[i]})
  PROVE  FlattenSeq(seqs) = Rising(P)
<1> DEFINE Slice(i) == {s \in P : cut[i - 1] < s /\ s <= cut[i]}
           Upto(k) == {s \in P : s <= cut[k]}
<1>1. ASSUME NEW i \in 1 .. n PROVE Ascends(seqs[i], Slice(i)) /\ seqs[i] \in Seq(P)
  <2>1. Slice(i) \in SUBSET Nat /\ Slice(i) \in SUBSET P
    OBVIOUS
  <2>2. i - 1 \in 0 .. n /\ i \in 0 .. n
    OBVIOUS
  <2>3. \A s \in Slice(i) : s <= cut[i] /\ cut[i] \in Nat
    BY <2>2
  <2> HIDE DEF Slice
  <2>4. IsFiniteSet(Slice(i))
    <3>1. cut[i] \in Nat
      BY <2>2
    <3> QED
      BY <2>1, <2>3, <3>1, FS_BoundedSetOfNaturals
  <2>5. seqs[i] = Rising(Slice(i))
    BY DEF Slice
  <2>6. Ascends(seqs[i], Slice(i))
    BY <2>1, <2>4, <2>5, RisingIs
  <2> QED
    BY <2>1, <2>6, SeqMonotonic DEF Ascends
<1>2. seqs \in Seq(Seq(P)) /\ Len(seqs) = n
  OBVIOUS
<1>3. PICK f \in [0 .. n -> Seq(P)] :
            /\ f[0] = <<>>
            /\ \A i \in 0 .. n - 1 : f[i + 1] = f[i] \o seqs[i + 1]
            /\ FlattenSeq(seqs) = f[n]
  <2>1. Strung(seqs, n, P)
    BY <1>2, FlattenSteps
  <2> QED
    BY <2>1 DEF Strung
<1> DEFINE T == {k \in 0 .. n : Ascends(f[k], Upto(k))}
<1>4. 0 \in T
  <2>1. Upto(0) = {}
    <3>1. \A s \in P : s \in Nat /\ 0 < s
      OBVIOUS
    <3>2. \A s \in P : ~ (s <= 0)
      BY <3>1
    <3> QED
      BY <3>2
  <2>1a. 0 \in 0 .. n
    OBVIOUS
  <2>2. Ascends(<<>>, {})
    <3>1. <<>> \in Seq({}) /\ Len(<<>>) = 0
      BY EmptySeq
    <3> QED
      BY <3>1 DEF Ascends
  <2> HIDE DEF Upto
  <2> QED
    BY <1>3, <2>1, <2>1a, <2>2
<1>5. ASSUME NEW k \in 0 .. n - 1, k \in T PROVE k + 1 \in T
  <2>1. k + 1 \in 1 .. n /\ k + 1 \in 0 .. n /\ k \in 0 .. n /\ (k + 1) - 1 = k
    OBVIOUS
  <2>2. cut[k] \in Nat /\ cut[k + 1] \in Nat /\ cut[k] <= cut[k + 1]
    BY <2>1
  <2>3. Slice(k + 1) = {s \in P : cut[k] < s /\ s <= cut[k + 1]}
    BY <2>1
  <2>4. Upto(k) \cup Slice(k + 1) = Upto(k + 1)
    <3>1. \A s \in P : s <= cut[k + 1] <=> s <= cut[k] \/ (cut[k] < s /\ s <= cut[k + 1])
      BY <2>2
    <3>2. \A s : /\ s \in Upto(k) <=> s \in P /\ s <= cut[k]
                 /\ s \in Slice(k + 1) <=> s \in P /\ cut[k] < s /\ s <= cut[k + 1]
                 /\ s \in Upto(k + 1) <=> s \in P /\ s <= cut[k + 1]
      BY <2>3
    <3> HIDE DEF Upto, Slice
    <3> QED
      BY <3>1, <3>2
  <2>5. \A x \in Upto(k), y \in Slice(k + 1) : x < y
    BY <2>2, <2>3
  <2>6. Upto(k) \in SUBSET Nat /\ Slice(k + 1) \in SUBSET Nat
    OBVIOUS
  <2> HIDE DEF Upto, Slice
  <2>7. Ascends(f[k], Upto(k))
    BY <1>5
  <2>8. Ascends(seqs[k + 1], Slice(k + 1))
    BY <1>1, <2>1
  <2>9. Ascends(f[k] \o seqs[k + 1], Upto(k) \cup Slice(k + 1))
    BY <2>5, <2>6, <2>7, <2>8, AscendsOn
  <2> QED
    BY <1>3, <2>1, <2>4, <2>9
<1>6. 0 .. n \subseteq T
  <2> HIDE DEF T
  <2> QED
    BY <1>4, <1>5, Steps
<1>7. Ascends(f[n], P)
  <2>1. n \in T
    BY <1>6
  <2>2. Upto(n) = P
    OBVIOUS
  <2> HIDE DEF Upto
  <2> QED
    BY <2>1, <2>2
<1> QED
  BY <1>3, <1>7, AscendsOnce
-----------------------------------------------------------------------------
(***************************************************************************)
(* Bags, the sort and the runs of equal commands                           *)
(***************************************************************************)

\* The bijection h pairs places of f and g that have the same value.
Paired(f, g, h, D, E, V) ==
    /\ IsFiniteSet(D)
    /\ f \in [D -> V] /\ g \in [E -> V] /\ h \in Bijection(D, E)
    /\ \A x \in D : f[x] = g[h[x]]

LEMMA BagSame ==
  ASSUME NEW f, NEW g, NEW h, NEW D, NEW E, NEW V, Paired(f, g, h, D, E, V)
  PROVE  AsBag(f) = AsBag(g)
<1>0. /\ IsFiniteSet(D)
      /\ f \in [D -> V] /\ g \in [E -> V] /\ h \in Bijection(D, E)
      /\ \A x \in D : f[x] = g[h[x]]
  BY DEF Paired
<1>1. /\ h \in [D -> E]
      /\ \A x, y \in D : h[x] = h[y] => x = y
      /\ \A z \in E : \E x \in D : h[x] = z
  BY <1>0 DEF Bijection, Injection, Surjection, IsInjective
<1>2. Range(f) = Range(g)
  <2>1. DOMAIN f = D /\ DOMAIN g = E
    BY <1>0
  <2>2. Range(f) = {f[x] : x \in D} /\ Range(g) = {g[z] : z \in E}
    BY <2>1 DEF Range
  <2>3. \A v \in Range(f) : v \in Range(g)
    BY <1>0, <1>1, <2>2
  <2>4. \A v \in Range(g) : v \in Range(f)
    BY <1>0, <1>1, <2>2
  <2> QED
    BY <2>3, <2>4
<1>3. ASSUME NEW v
      PROVE  Cardinality({i \in D : f[i] = v}) = Cardinality({j \in E : g[j] = v})
  <2> DEFINE F == {i \in D : f[i] = v}
             G == {j \in E : g[j] = v}
             k == [i \in F |-> h[i]]
  <2>1. k \in [F -> G]
    BY <1>0, <1>1
  <2>2. \A x, y \in F : k[x] = k[y] => x = y
    BY <1>0, <1>1
  <2>3. \A z \in G : \E x \in F : k[x] = z
    BY <1>0, <1>1
  <2>4. F \subseteq D
    OBVIOUS
  <2> HIDE DEF F, G, k
  <2>5. k \in Bijection(F, G)
    BY <2>1, <2>2, <2>3, BijectionIs
  <2>6. IsFiniteSet(F)
    BY <1>0, <2>4, FS_Subset
  <2>7. Cardinality(F) = Cardinality(G)
    BY <2>5, <2>6, FS_Bijection DEF ExistsBijection
  <2> QED
    BY <2>7 DEF F, G
<1>4. DOMAIN f = D /\ DOMAIN g = E
  BY <1>0
<1>5. AsBag(f) = [v \in Range(f) |-> Cardinality({i \in D : f[i] = v})]
  BY <1>4 DEF AsBag
<1>6. AsBag(g) = [v \in Range(g) |-> Cardinality({j \in E : g[j] = v})]
  BY <1>4 DEF AsBag
<1> QED
  BY <1>2, <1>3, <1>5, <1>6

\* The sort puts each command in one place.
Permuted(list, q, n) ==
    \E p \in Bijection(1 .. n, 1 .. n) : list = [k \in 1 .. n |-> q[p[k]]]

LEMMA SortedIs ==
  ASSUME NEW q, NEW n \in Nat, Len(q) = n, \A i \in 1 .. n : Key(q[i]) \in Int, NEW down
  PROVE  Permuted(Sorted(q, down), q, n)
<1> DEFINE Before(i, j) == \/ Key(q[i]) < Key(q[j])
                           \/ Key(q[i]) = Key(q[j]) /\ IF down THEN j < i ELSE i < j
           at(k) == CHOOSE i \in 1 .. n : 1 + Cardinality({j \in 1 .. n : Before(j, i)}) = k
           p == [k \in 1 .. n |-> at(k)]
<1>1. PICK below : below = [i \in 1 .. n |-> {j \in 1 .. n : Before(j, i)}]
  OBVIOUS
<1>2. \A i \in 1 .. n : below[i] = {j \in 1 .. n : Before(j, i)}
  BY <1>1
<1>3. Orders(1 .. n, below)
  <2>1. below \in [1 .. n -> SUBSET (1 .. n)]
    BY <1>1
  <2>2. \A i \in 1 .. n : i \notin below[i]
    BY <1>2
  <2>3. \A i, j, k \in 1 .. n : Before(j, i) /\ Before(k, j) => Before(k, i)
    OBVIOUS
  <2>4. \A i, j \in 1 .. n : i = j \/ Before(i, j) \/ Before(j, i)
    OBVIOUS
  <2>5. \A i, j \in 1 .. n : j \in below[i] <=> Before(j, i)
    BY <1>2
  <2> HIDE DEF Before
  <2>6. ASSUME NEW i \in 1 .. n, NEW j \in below[i], NEW k \in below[j] PROVE k \in below[i]
    <3>1. j \in 1 .. n
      BY <2>1
    <3>2. k \in 1 .. n
      BY <2>1, <3>1
    <3> QED
      BY <2>3, <2>5, <3>1, <3>2
  <2>7. \A i, j \in 1 .. n : i = j \/ i \in below[j] \/ j \in below[i]
    BY <2>4, <2>5
  <2> QED
    BY <2>1, <2>2, <2>6, <2>7 DEF Orders
<1>4. IsFiniteSet(1 .. n) /\ Cardinality(1 .. n) = n
  BY FS_Interval
<1>5. /\ \A i \in 1 .. n : Cardinality(below[i]) \in 0 .. n - 1
      /\ \A i, j \in 1 .. n : Cardinality(below[i]) = Cardinality(below[j]) => i = j
      /\ \A k \in 0 .. n - 1 : \E i \in 1 .. n : Cardinality(below[i]) = k
  <2>1. Numbers(1 .. n, Cardinality(1 .. n), below)
    BY <1>3, <1>4, PlacesAre
  <2> QED
    BY <1>4, <2>1 DEF Numbers
<1>6. Sorted(q, down) = [k \in 1 .. n |-> q[p[k]]]
  BY DEF Sorted
<1>7. \A k \in 1 .. n : p[k] = CHOOSE i \in 1 .. n : 1 + Cardinality(below[i]) = k
  BY <1>2
<1>7a. p = [k \in 1 .. n |-> at(k)] /\ \A k \in 1 .. n : p[k] = at(k)
  <2> HIDE DEF at
  <2> QED
    OBVIOUS
<1> HIDE DEF p, at, Before
<1>8. ASSUME NEW k \in 1 .. n PROVE p[k] \in 1 .. n /\ 1 + Cardinality(below[p[k]]) = k
  <2>1. PICK m \in 0 .. n - 1 : 1 + m = k
    OBVIOUS
  <2>2. \E i \in 1 .. n : 1 + Cardinality(below[i]) = k
    BY <1>5, <2>1
  <2> QED
    BY <1>7, <2>2
<1>9. p \in [1 .. n -> 1 .. n]
  BY <1>7a, <1>8
<1>10. \A j, k \in 1 .. n : p[j] = p[k] => j = k
  BY <1>8
<1>11. ASSUME NEW i \in 1 .. n PROVE \E k \in 1 .. n : p[k] = i
  <2>1. PICK k \in 1 .. n : k = 1 + Cardinality(below[i])
    BY <1>5
  <2>1a. Cardinality(below[p[k]]) \in Nat /\ Cardinality(below[i]) \in Nat
    BY <1>5, <1>8
  <2>1b. 1 + Cardinality(below[p[k]]) = 1 + Cardinality(below[i])
    BY <1>8, <2>1
  <2>2. Cardinality(below[p[k]]) = Cardinality(below[i])
    BY <2>1a, <2>1b
  <2> QED
    BY <1>5, <1>8, <2>2
<1>12. p \in Bijection(1 .. n, 1 .. n)
  BY <1>9, <1>10, <1>11, BijectionIs
<1> QED
  BY <1>6, <1>12 DEF Permuted

\* The instances of the draws are the commands, one by one.
OneByOne(q, staged, n) == [k \in 1 .. n |-> [mesh |-> q[k].mesh, data |-> staged[k]]]

LEMMA InstancesAre ==
  ASSUME NEW q, NEW n \in Nat, Len(q) = n, NEW staged, NEW skinned
  PROVE  AsBag(Instances(q, staged, skinned)) = AsBag(OneByOne(q, staged, n))
<1>1. PICK T : T = {k \in 1 .. n : k = 1 \/ ~Same(q[k - 1], q[k], skinned)}
  OBVIOUS
<1>2. T \in SUBSET Nat /\ T \subseteq 1 .. n /\ IsFiniteSet(T)
  <2>1. T \in SUBSET (1 .. n) /\ IsFiniteSet(1 .. n)
    BY <1>1, FS_Interval
  <2>2. IsFiniteSet(T)
    BY <2>1, FS_Subset
  <2>3. 1 .. n \subseteq Nat
    OBVIOUS
  <2> QED
    BY <2>1, <2>2, <2>3
<1>3. PICK s : s = Rising(T)
  OBVIOUS
<1>4. Ascends(s, T)
  BY <1>2, <1>3, RisingIs
<1>5. PICK m \in Nat : Len(s) = m
  BY <1>4 DEF Ascends
<1>6. /\ \A b \in 1 .. m : s[b] \in T /\ s[b] \in 1 .. n
      /\ \A b, c \in 1 .. m : b < c => s[b] < s[c]
      /\ \A k \in T : \E b \in 1 .. m : s[b] = k
  <2>1. s \in Seq(T) /\ Len(s) = m
    BY <1>4, <1>5 DEF Ascends
  <2>2. \A b \in 1 .. m : s[b] \in T
    BY <2>1, ElementOfSeq
  <2>3. \A b, c \in 1 .. m : b < c => s[b] < s[c]
    BY <1>4, <1>5 DEF Ascends
  <2>4. \A k \in T : \E b \in 1 .. m : s[b] = k
    BY <1>4, <1>5 DEF Ascends
  <2> QED
    BY <1>2, <2>2, <2>3, <2>4
<1>7. PICK end : end = [b \in 1 .. m |-> IF b = m THEN n ELSE s[b + 1] - 1]
  OBVIOUS
<1>8. /\ \A b \in 1 .. m : end[b] \in s[b] .. n
      /\ \A b, c \in 1 .. m : b < c => end[b] < s[c]
  <2>1. ASSUME NEW b \in 1 .. m, b # m PROVE b + 1 \in 1 .. m /\ b < b + 1
    BY <2>1
  <2>2. ASSUME NEW b \in 1 .. m PROVE end[b] \in s[b] .. n
    <3>1. CASE b = m
      BY <1>6, <1>7, <3>1
    <3>2. CASE b # m
      <4>1. s[b + 1] \in 1 .. n /\ s[b] < s[b + 1] /\ s[b] \in 1 .. n
        BY <1>6, <2>1, <3>2
      <4>2. end[b] = s[b + 1] - 1
        BY <1>7, <3>2
      <4> QED
        BY <4>1, <4>2
    <3> QED
      BY <3>1, <3>2
  <2>3. ASSUME NEW b \in 1 .. m, NEW c \in 1 .. m, b < c PROVE end[b] < s[c]
    <3>1. b # m /\ (b + 1 = c \/ b + 1 < c)
      BY <2>3
    <3>2. s[b + 1] \in 1 .. n /\ s[c] \in 1 .. n /\ s[b + 1] <= s[c]
      BY <1>6, <2>1, <3>1
    <3>3. end[b] = s[b + 1] - 1
      BY <1>7, <3>1
    <3> QED
      BY <3>2, <3>3
  <2> QED
    BY <2>2, <2>3
<1> DEFINE In(k, b) == s[b] <= k /\ k <= end[b]
<1>9. ASSUME NEW k \in 1 .. n PROVE \E b \in 1 .. m : In(k, b)
  <2> DEFINE U == {t \in T : t <= k}
  <2>1. 1 \in T /\ 1 <= k /\ k \in Nat
    BY <1>1
  <2>2. U \in SUBSET Nat /\ U # {} /\ (\A t \in U : t <= k)
    <3>1. 1 \in U
      BY <2>1
    <3>2. U \subseteq T /\ \A t \in U : t <= k
      OBVIOUS
    <3> HIDE DEF U
    <3> QED
      BY <1>2, <3>1, <3>2
  <2>3. PICK t \in U : \A u \in U : u <= t
    <3> HIDE DEF U
    <3> QED
      BY <2>1, <2>2, LastNumber
  <2>4. PICK b \in 1 .. m : s[b] = t
    BY <1>6, <2>3
  <2>5. s[b] <= k
    BY <2>3, <2>4
  <2>6. k <= end[b]
    <3>1. CASE b = m
      BY <1>7, <3>1
    <3>2. CASE b # m
      <4>1. b + 1 \in 1 .. m /\ b < b + 1
        BY <3>2
      <4>2. s[b + 1] \in T /\ s[b + 1] \in 1 .. n /\ s[b] < s[b + 1] /\ s[b] \in 1 .. n
        BY <1>6, <4>1
      <4>3. ~ (s[b + 1] <= k)
        BY <2>3, <2>4, <4>2
      <4>4. end[b] = s[b + 1] - 1
        BY <1>7, <3>2
      <4> QED
        BY <4>2, <4>3, <4>4
    <3> QED
      BY <3>1, <3>2
  <2> QED
    BY <2>5, <2>6
<1>10. ASSUME NEW k \in 1 .. n, NEW b \in 1 .. m, NEW c \in 1 .. m, In(k, b), In(k, c)
       PROVE  b = c
  <2>1. s[b] \in 1 .. n /\ s[c] \in 1 .. n /\ end[b] \in s[b] .. n /\ end[c] \in s[c] .. n
    BY <1>6, <1>8
  <2>2. ~ (b < c) /\ ~ (c < b)
    BY <1>8, <1>10, <2>1
  <2> QED
    BY <2>2
<1>11. ASSUME NEW b \in 1 .. m, NEW k \in 1 .. n, In(k, b) PROVE q[k].mesh = q[s[b]].mesh
  <2> DEFINE U == {i \in 0 .. k - s[b] : q[s[b] + i].mesh = q[s[b]].mesh}
  <2>1. s[b] \in 1 .. n /\ end[b] \in s[b] .. n /\ k - s[b] \in Nat
    BY <1>6, <1>8, <1>11
  <2>2. 0 \in U
    BY <2>1
  <2>3. ASSUME NEW i \in 0 .. k - s[b] - 1, i \in U PROVE i + 1 \in U
    <3>1. PICK j \in 1 .. n : j = s[b] + i + 1 /\ s[b] < j /\ j <= end[b] /\ j - 1 = s[b] + i
      <4>1. s[b] + i + 1 <= k /\ s[b] + i + 1 \in 1 .. n
        BY <2>1
      <4>2. s[b] < s[b] + i + 1 /\ (s[b] + i + 1) - 1 = s[b] + i /\ s[b] + i + 1 <= end[b]
        BY <1>11, <2>1, <4>1
      <4> QED
        BY <4>1, <4>2
    <3>2. j \notin T
      <4>1. SUFFICES ASSUME NEW c \in 1 .. m, s[c] = j PROVE FALSE
        BY <1>6
      <4>2. s[c] \in 1 .. n
        BY <1>6
      <4>3. CASE c < b
        <5>1. s[c] < s[b]
          BY <1>6, <4>3
        <5> QED
          BY <2>1, <3>1, <4>1, <4>2, <5>1
      <4>4. CASE b < c
        <5>1. end[b] < s[c]
          BY <1>8, <4>4
        <5> QED
          BY <2>1, <3>1, <4>1, <4>2, <5>1
      <4>5. CASE b = c
        BY <2>1, <3>1, <4>1, <4>5
      <4> QED
        BY <4>3, <4>4, <4>5
    <3>3. q[j - 1].mesh = q[j].mesh
      BY <1>1, <3>2 DEF Same
    <3>4. i + 1 \in 0 .. k - s[b] /\ s[b] + (i + 1) = j
      BY <2>1, <3>1
    <3> QED
      BY <2>3, <3>1, <3>3, <3>4
  <2>4. 0 .. k - s[b] \subseteq U
    <3> HIDE DEF U
    <3> QED
      BY <2>1, <2>2, <2>3, Steps
  <2>5. k - s[b] \in 0 .. k - s[b] /\ s[b] + (k - s[b]) = k
    BY <2>1
  <2> QED
    BY <2>4, <2>5
<1>12. PICK batches : batches = Batches(q, skinned)
  OBVIOUS
<1>13. batches = [b \in 1 .. m |-> [first |-> s[b], count |-> end[b] - s[b] + 1]]
  BY <1>1, <1>3, <1>5, <1>7, <1>12 DEF Batches
<1>14. /\ Len(batches) = m
       /\ \A b \in 1 .. m : batches[b].first = s[b] /\ batches[b].count = end[b] - s[b] + 1
  BY <1>13
<1>15. PICK D : D = UNION {{b} \X (0 .. batches[b].count - 1) : b \in 1 .. m}
  OBVIOUS
<1>16. /\ \A x \in D : x = <<x[1], x[2]>> /\ x[1] \in 1 .. m /\ x[2] \in 0 .. end[x[1]] - s[x[1]]
       /\ \A b \in 1 .. m : \A i \in 0 .. end[b] - s[b] : <<b, i>> \in D
  <2>1. \A b \in 1 .. m : 0 .. batches[b].count - 1 = 0 .. end[b] - s[b]
    <3>1. ASSUME NEW b \in 1 .. m PROVE (end[b] - s[b] + 1) - 1 = end[b] - s[b]
      BY <1>6, <1>8
    <3> QED
      BY <1>14, <3>1
  <2>2. \A x : x \in D <=> \E b \in 1 .. m : x \in {b} \X (0 .. end[b] - s[b])
    BY <1>15, <2>1
  <2> QED
    BY <2>2
<1> DEFINE run(k) == CHOOSE b \in 1 .. m : In(k, b)
           h == [k \in 1 .. n |-> <<run(k), k - s[run(k)]>>]
<1>17. \A k \in 1 .. n : run(k) \in 1 .. m /\ In(k, run(k))
  BY <1>9
<1>18. \A k \in 1 .. n : h[k] = <<run(k), k - s[run(k)]>>
  OBVIOUS
<1> HIDE DEF run
<1>19. ASSUME NEW k \in 1 .. n PROVE k - s[run(k)] \in 0 .. end[run(k)] - s[run(k)]
  <2>1. run(k) \in 1 .. m /\ In(k, run(k))
    BY <1>17
  <2>2. s[run(k)] \in 1 .. n /\ end[run(k)] \in s[run(k)] .. n
    BY <1>6, <1>8, <2>1
  <2> QED
    BY <2>1, <2>2
<1>20. h \in [1 .. n -> D]
  BY <1>16, <1>17, <1>19
<1> HIDE DEF h
<1>21. \A k \in 1 .. n : s[run(k)] + (k - s[run(k)]) = k
  BY <1>6, <1>17
<1>22. \A j, k \in 1 .. n : h[j] = h[k] => j = k
  BY <1>18, <1>21
<1>23. ASSUME NEW x \in D PROVE \E k \in 1 .. n : h[k] = x
  <2>1. x = <<x[1], x[2]>> /\ x[1] \in 1 .. m /\ x[2] \in 0 .. end[x[1]] - s[x[1]]
    BY <1>16
  <2>2. s[x[1]] \in 1 .. n /\ end[x[1]] \in s[x[1]] .. n
    BY <1>6, <1>8, <2>1
  <2>3. PICK k \in 1 .. n : k = s[x[1]] + x[2]
    BY <2>1, <2>2
  <2>4. In(k, x[1]) /\ k - s[x[1]] = x[2]
    BY <2>1, <2>2, <2>3
  <2>5. run(k) = x[1]
    <3> HIDE DEF In
    <3> QED
      BY <1>10, <1>17, <2>1, <2>4
  <2>6. h[k] = x
    BY <1>18, <2>1, <2>4, <2>5
  <2> QED
    BY <2>6
<1>24. h \in Bijection(1 .. n, D)
  BY <1>20, <1>22, <1>23, BijectionIs
<1> DEFINE f == [k \in 1 .. n |-> [mesh |-> q[k].mesh, data |-> staged[k]]]
           V == {f[k] : k \in 1 .. n}
           g == [p \in D |-> [mesh |-> q[batches[p[1]].first].mesh,
                              data |-> staged[batches[p[1]].first + p[2]]]]
<1>25. ASSUME NEW k \in 1 .. n PROVE h[k] \in D /\ f[k] = g[h[k]]
  <2>1. h[k] \in D /\ h[k] = <<run(k), k - s[run(k)]>> /\ run(k) \in 1 .. m /\ In(k, run(k))
    BY <1>17, <1>18, <1>20
  <2>2. batches[run(k)].first = s[run(k)] /\ s[run(k)] + (k - s[run(k)]) = k
    BY <1>14, <1>21, <2>1
  <2>3. q[s[run(k)]].mesh = q[k].mesh
    <3> HIDE DEF In
    <3> QED
      BY <1>11, <2>1
  <2>4. h[k][1] = run(k) /\ h[k][2] = k - s[run(k)]
    BY <2>1
  <2> QED
    BY <2>1, <2>2, <2>3, <2>4
<1>26. f \in [1 .. n -> V]
  OBVIOUS
<1>27. g \in [D -> V]
  <2>1. \A x \in D : \E k \in 1 .. n : h[k] = x
    BY <1>23
  <2>2. \A k \in 1 .. n : g[h[k]] \in V
    <3> HIDE DEF g, f
    <3> QED
      BY <1>25
  <2>3. \A x \in D : g[x] \in V
    <3> HIDE DEF g, V
    <3> QED
      BY <2>1, <2>2
  <2> HIDE DEF V
  <2> QED
    BY <2>3
<1>28. Instances(q, staged, skinned) = g
  BY <1>12, <1>14, <1>15 DEF Instances
<1>29. IsFiniteSet(1 .. n)
  BY FS_Interval
<1> HIDE DEF f, g, V
<1>30. AsBag(f) = AsBag(g)
  <2>1. \A k \in 1 .. n : f[k] = g[h[k]]
    BY <1>25
  <2> QED
    <3>1. Paired(f, g, h, 1 .. n, D, V)
      BY <1>24, <1>26, <1>27, <1>29, <2>1 DEF Paired
    <3> QED
      BY <3>1, BagSame
<1> QED
  BY <1>28, <1>30 DEF f, OneByOne

\* At the places M of f, which p moves to W, are the values of g.
Moved(f, g, p, M, W, V, n) ==
    /\ p \in Bijection(1 .. n, 1 .. n)
    /\ W \subseteq 1 .. n /\ M = {k \in 1 .. n : p[k] \in W}
    /\ f \in [M -> V] /\ g \in [W -> V]
    /\ \A k \in M : f[k] = g[p[k]]

LEMMA PermutedBag ==
  ASSUME NEW n \in Nat, NEW f, NEW g, NEW p, NEW M, NEW W, NEW V, Moved(f, g, p, M, W, V, n)
  PROVE  AsBag(f) = AsBag(g)
<1>0. /\ p \in Bijection(1 .. n, 1 .. n)
      /\ W \subseteq 1 .. n /\ M = {k \in 1 .. n : p[k] \in W}
      /\ f \in [M -> V] /\ g \in [W -> V]
      /\ \A k \in M : f[k] = g[p[k]]
  BY DEF Moved
<1>1. /\ p \in [1 .. n -> 1 .. n]
      /\ \A x, y \in 1 .. n : p[x] = p[y] => x = y
      /\ \A z \in 1 .. n : \E x \in 1 .. n : p[x] = z
  BY <1>0 DEF Bijection, Injection, Surjection, IsInjective
<1>2. PICK h : h = [k \in M |-> p[k]]
  OBVIOUS
<1>3. h \in [M -> W] /\ \A k \in M : h[k] = p[k]
  BY <1>0, <1>2
<1>4. \A x, y \in M : h[x] = h[y] => x = y
  BY <1>0, <1>1, <1>3
<1>5. \A z \in W : \E x \in M : h[x] = z
  <2>1. SUFFICES ASSUME NEW z \in W PROVE \E x \in M : h[x] = z
    OBVIOUS
  <2>2. PICK x \in 1 .. n : p[x] = z
    BY <1>0, <1>1
  <2>3. x \in M
    BY <1>0, <2>2
  <2> QED
    BY <1>3, <2>2, <2>3
<1>6. h \in Bijection(M, W)
  BY <1>3, <1>4, <1>5, BijectionIs
<1>7. IsFiniteSet(M)
  <2>1. M \subseteq 1 .. n /\ IsFiniteSet(1 .. n)
    BY <1>0, FS_Interval
  <2> QED
    BY <2>1, FS_Subset
<1>8. \A k \in M : f[k] = g[h[k]]
  BY <1>0, <1>3
<1> QED
  <2>1. Paired(f, g, h, M, W, V)
    BY <1>0, <1>6, <1>7, <1>8 DEF Paired
  <2> QED
    BY <2>1, BagSame

-----------------------------------------------------------------------------
(***************************************************************************)
(* The scans                                                               *)
(***************************************************************************)

\* LastOf is the last place where a scan meets s, 0 if it does not.
LEMMA LastOfIs ==
  ASSUME NEW scan, NEW n \in Nat, Len(scan) = n, NEW s
  PROVE  /\ LastOf(scan, s) \in 0 .. n
         /\ LastOf(scan, s) # 0 => scan[LastOf(scan, s)][2] = s
         /\ LastOf(scan, s) = 0 => \A k \in 1 .. n : scan[k][2] # s
<1> DEFINE S == {0} \cup {k \in 1 .. n : scan[k][2] = s}
<1>1. LastOf(scan, s) = Max(S)
  BY DEF LastOf
<1>2. S \in SUBSET (0 .. n) /\ S # {}
  OBVIOUS
<1> HIDE DEF S
<1>3. Max(S) \in S /\ \A k \in S : k <= Max(S)
  BY <1>2, MaxIs
<1>4. \A k \in 1 .. n : scan[k][2] = s => k \in S
  BY DEF S
<1>5. \A k \in S : k \in 0 .. n /\ (k # 0 => scan[k][2] = s)
  BY DEF S
<1> QED
  BY <1>1, <1>3, <1>4, <1>5

\* What a scan meets: entities that were found, and submeshes of their ranges.
LEMMA ScanIs ==
  ASSUME NEW found, NEW n \in Nat,
         scene.entities \in Seq([placed : BOOLEAN, skin : BOOLEAN, first : Nat, count : Nat]),
         \A e \in Ents \cap found :
            scene.entities[e].first .. scene.entities[e].first + scene.entities[e].count - 1
               \subseteq 1 .. n
  PROVE  Scan(found) \in Seq((Ents \cap found) \X (1 .. n))
<1> DEFINE A == (Ents \cap found) \X (1 .. n)
           at(e) == scene.entities[e]
           some(e) == [i \in 1 .. at(e).count |-> <<e, at(e).first + i - 1>>]
           lists == [e \in Ents |-> IF e \notin found THEN <<>> ELSE some(e)]
<1>1. PICK m \in Nat : Len(scene.entities) = m /\ Ents = 1 .. m
  BY DEF Ents
<1>2. \A e \in Ents : at(e).first \in Nat /\ at(e).count \in Nat
  <2>1. \A e \in Ents : at(e) \in [placed : BOOLEAN, skin : BOOLEAN, first : Nat, count : Nat]
    BY ElementOfSeq DEF Ents
  <2> QED
    BY <2>1
<1>3. ASSUME NEW e \in Ents, e \in found PROVE some(e) \in Seq(A)
  <2>1. PICK first \in Nat, count \in Nat : first = at(e).first /\ count = at(e).count
    BY <1>2
  <2>2. first .. first + count - 1 \subseteq 1 .. n
    BY <1>3, <2>1
  <2>3. \A i \in 1 .. count : first + i - 1 \in 1 .. n
    <3>1. \A i \in 1 .. count : first + i - 1 \in first .. first + count - 1
      OBVIOUS
    <3> QED
      BY <2>2, <3>1
  <2>4. \A i \in 1 .. count : <<e, first + i - 1>> \in A
    BY <1>3, <2>3
  <2>5. some(e) = [i \in 1 .. count |-> <<e, first + i - 1>>]
    BY <2>1
  <2> HIDE DEF A, some
  <2> QED
    <3>1. PICK list : list = [i \in 1 .. count |-> <<e, first + i - 1>>]
      OBVIOUS
    <3>2. list \in [1 .. count -> A]
      BY <2>4, <3>1
    <3>3. list \in Seq(A)
      BY <3>2
    <3> QED
      BY <2>5, <3>1, <3>3
<1>4. <<>> \in Seq(A)
  BY EmptySeq
<1>5. lists \in Seq(Seq(A))
  <2>1. \A e \in Ents : (IF e \notin found THEN <<>> ELSE some(e)) \in Seq(A)
    BY <1>3, <1>4
  <2> HIDE DEF A, some
  <2> QED
    BY <1>1, <2>1
<1>6. Scan(found) = FlattenSeq(lists)
  BY DEF Scan
<1> HIDE DEF A, lists
<1>7. FlattenSeq(lists) \in Seq(A)
  BY <1>5, FlattenType
<1> QED
  BY <1>6, <1>7 DEF A

-----------------------------------------------------------------------------
(***************************************************************************)
(* The invariant                                                           *)
(***************************************************************************)

Phases == {"frame", "cull", "submit", "draw", "halted"}

RigShape ==
    rig = [M |-> rig.M, blob |-> rig.blob, box |-> rig.box, skinBlob |-> rig.skinBlob,
           visible |-> rig.visible, leaves |-> rig.leaves, tlas |-> rig.tlas]

\* What a scan pushes for its k-th submesh.
StaticBlob(k) ==
    LET s == Static[k][2]
    IN [M |-> pos[Static[k][1]] + scene.stat[s].local, mat |-> scene.stat[s].mat]
SkinnedBlob(k) ==
    LET s == Skinned[k][2]
    IN [M |-> pos[Skinned[k][1]] + scene.skin[s].local, mat |-> scene.skin[s].mat]

\* From the update to the draw the arrays are those of the scans.
Synced ==
    phase \in {"cull", "submit", "draw"} =>
       /\ raw = [k \in 1 .. Len(Static) |-> StaticBlob(k)]
       /\ anmRaw = [k \in 1 .. Len(Skinned) |-> SkinnedBlob(k)]
       /\ \A s \in 1 .. Total :
             /\ rig.blob[s] = BlobOf(Static, s)
             /\ LastOf(Static, s) # 0 =>
                   rig.M[s] = pos[Static[LastOf(Static, s)][1]] + scene.stat[s].local
       /\ \A s \in 1 .. Len(scene.skin) : rig.skinBlob[s] = BlobOf(Skinned, s)

\* While the jobs run nothing is visible yet, and each slice is still to be
\* culled or has what passes of it.
Cutting ==
    phase = "cull" =>
       /\ rig.visible = <<>> /\ rig.tlas = <<>>
       /\ slices \in [1 .. SliceCount -> Seq(Nat)]
       /\ \A i \in 1 .. SliceCount :
             slices[i] = Todo \/ slices[i] = Rising({s \in SliceOf(i) : Passes(s)})

\* The queues hold a command for each visible submesh and for each animated one.
Queued ==
    LET Anim == Scan(Animated) IN
    phase = "draw" =>
       /\ queue = [v \in 1 .. Len(rig.visible) |->
             LET s == rig.visible[v] IN
             [mesh |-> scene.stat[s].mesh, mat |-> scene.stat[s].mat, blob |-> rig.blob[s],
              selected |-> scene.stat[s].ent = selection.entity]]
       /\ anmQueue = IF Total = 0 THEN <<>> ELSE
             [k \in 1 .. Len(Anim) |->
                LET s == Anim[k][2] IN
                [mesh |-> scene.skin[s].mesh, mat |-> scene.skin[s].mat,
                 blob |-> rig.skinBlob[s], selected |-> FALSE]]

FrameInv ==
    /\ scene \in Scenes
    /\ phase \in Phases
    /\ RigShape
    /\ Synced
    /\ Cutting
    /\ Queued
    /\ VisibleExactly
    /\ InstancesOwn

\* What the arrays of a scene are.
Arrays ==
    /\ Total \in Nat /\ Len(scene.skin) \in Nat /\ Len(Static) \in Nat /\ Len(Skinned) \in Nat
    /\ Static \in Seq((Ents \cap Placed) \X (1 .. Total))
    /\ Skinned \in Seq((Ents \cap (Placed \cap Animated)) \X (1 .. Len(scene.skin)))
    /\ Scan(Animated) \in Seq((Ents \cap Animated) \X (1 .. Len(scene.skin)))
    /\ \A s \in 1 .. Total : scene.stat[s].mesh \in Geometry /\ scene.stat[s].mat \in Nat
    /\ \A s \in 1 .. Len(scene.skin) :
          /\ scene.skin[s] \in Range(scene.skin)
          /\ scene.skin[s].mesh \in Geometry /\ scene.skin[s].mat \in Nat

LEMMA ArraysAre == scene \in Scenes => Arrays
<1> SUFFICES ASSUME scene \in Scenes PROVE Arrays
  OBVIOUS
<1>1. /\ scene.entities \in Seq([placed : BOOLEAN, skin : BOOLEAN, first : Nat, count : Nat])
      /\ scene.stat \in Seq([ent : Nat, mesh : Geometry, mat : Nat, local : Int,
                             hull : BOOLEAN, tris : Seq(Triangles)])
      /\ scene.skin \in Seq([ent : Nat, mesh : Geometry, mat : Nat, local : Int])
      /\ \A e \in Ents :
            LET range == scene.entities[e].first
                            .. scene.entities[e].first + scene.entities[e].count - 1
            IN /\ range \subseteq 1 .. Total
               /\ scene.entities[e].skin => range \subseteq 1 .. Len(scene.skin)
  BY ScenesAssumption DEF Ents, Total
<1>2. PICK n \in Nat, m \in Nat : n = Total /\ m = Len(scene.skin)
  BY <1>1 DEF Total
<1>3. Static \in Seq((Ents \cap Placed) \X (1 .. n))
  <2>1. \A e \in Ents \cap Placed :
           scene.entities[e].first .. scene.entities[e].first + scene.entities[e].count - 1
              \subseteq 1 .. n
    BY <1>1, <1>2
  <2> QED
    BY <1>1, <2>1, ScanIs DEF Static
<1>4. ASSUME NEW found, found \subseteq Animated
      PROVE  Scan(found) \in Seq((Ents \cap found) \X (1 .. m))
  <2>1. \A e \in Ents \cap found :
           scene.entities[e].first .. scene.entities[e].first + scene.entities[e].count - 1
              \subseteq 1 .. m
    BY <1>1, <1>2, <1>4 DEF Animated
  <2> QED
    BY <1>1, <2>1, ScanIs
<1>5. Skinned \in Seq((Ents \cap (Placed \cap Animated)) \X (1 .. m))
  BY <1>4 DEF Skinned
<1>6. Scan(Animated) \in Seq((Ents \cap Animated) \X (1 .. m))
  BY <1>4
<1>7. ASSUME NEW s \in 1 .. n PROVE scene.stat[s].mesh \in Geometry /\ scene.stat[s].mat \in Nat
  <2>1. scene.stat[s] \in [ent : Nat, mesh : Geometry, mat : Nat, local : Int,
                           hull : BOOLEAN, tris : Seq(Triangles)]
    BY <1>1, <1>2, ElementOfSeq DEF Total
  <2> QED
    BY <2>1
<1>8. ASSUME NEW s \in 1 .. m
      PROVE  /\ scene.skin[s] \in Range(scene.skin)
             /\ scene.skin[s].mesh \in Geometry /\ scene.skin[s].mat \in Nat
  <2>1. scene.skin[s] \in [ent : Nat, mesh : Geometry, mat : Nat, local : Int]
    BY <1>1, <1>2, ElementOfSeq
  <2>2. DOMAIN scene.skin = 1 .. m
    BY <1>1, <1>2
  <2>3. scene.skin[s] \in Range(scene.skin)
    BY <2>2 DEF Range
  <2> QED
    BY <2>1, <2>3
<1>9. Len(Static) \in Nat /\ Len(Skinned) \in Nat
  BY <1>3, <1>5
<1> QED
  BY <1>2, <1>3, <1>5, <1>6, <1>7, <1>8, <1>9 DEF Arrays

\* A scene stays what it is.
LEMMA SceneStays ==
  scene' = scene =>
     /\ Total' = Total /\ Ents' = Ents /\ SliceCount' = SliceCount
     /\ Placed' = Placed /\ Animated' = Animated /\ Static' = Static /\ Skinned' = Skinned
     /\ Scan(Animated)' = Scan(Animated)
     /\ \A s : (Lost(s) <=> Lost(s)') /\ Owners(s)' = Owners(s) /\ LastOf(Static, s)' = LastOf(Static, s)
     /\ \A s : LastOf(Skinned, s)' = LastOf(Skinned, s)
     /\ \A i : SliceOf(i)' = SliceOf(i)
<1> SUFFICES ASSUME scene' = scene
    PROVE /\ Total' = Total /\ Ents' = Ents /\ SliceCount' = SliceCount
          /\ Placed' = Placed /\ Animated' = Animated /\ Static' = Static /\ Skinned' = Skinned
          /\ Scan(Animated)' = Scan(Animated)
          /\ \A s : (Lost(s) <=> Lost(s)') /\ Owners(s)' = Owners(s) /\ LastOf(Static, s)' = LastOf(Static, s)
          /\ \A s : LastOf(Skinned, s)' = LastOf(Skinned, s)
          /\ \A i : SliceOf(i)' = SliceOf(i)
  OBVIOUS
<1>1. Total' = Total /\ Ents' = Ents
  BY DEF Total, Ents
<1>2. SliceCount' = SliceCount /\ \A i : SliceOf(i)' = SliceOf(i)
  BY <1>1 DEF SliceCount, SliceOf
<1>3. Placed' = Placed /\ Animated' = Animated
  BY <1>1 DEF Placed, Animated
<1>4. \A found : Scan(found)' = Scan(found)
  BY <1>1 DEF Scan
<1>5. Static' = Static
  BY <1>3, <1>4 DEF Static
<1>6. Skinned' = Skinned
  BY <1>3, <1>4 DEF Skinned
<1>7. Scan(Animated)' = Scan(Animated)
  BY <1>1, <1>3 DEF Scan
<1>8. \A s : Owners(s)' = Owners(s)
  BY <1>5 DEF Owners
<1>9. \A s : Lost(s) <=> Lost(s)'
  BY <1>8 DEF Lost
<1>10. \A s : LastOf(Static, s)' = LastOf(Static, s)
  BY <1>5 DEF LastOf
<1>11. \A s : LastOf(Skinned, s)' = LastOf(Skinned, s)
  BY <1>6 DEF LastOf
<1> QED
  BY <1>1, <1>2, <1>3, <1>5, <1>6, <1>7, <1>8, <1>9, <1>10, <1>11

-----------------------------------------------------------------------------
(***************************************************************************)
(* The steps                                                               *)
(***************************************************************************)

LEMMA InitFrame == Init => FrameInv
<1> SUFFICES ASSUME Init PROVE FrameInv
  OBVIOUS
<1>1. /\ scene \in Scenes /\ phase = "frame" /\ shown = NothingShown
      /\ rig.visible = <<>> /\ rig.tlas = <<>>
  BY DEF Init
<1>2. RigShape
  BY DEF Init, RigShape
<1>3. VisibleExactly
  BY <1>1 DEF VisibleExactly
<1>4. InstancesOwn
  <2>1. Len(rig.visible) = 0
    BY <1>1, EmptySeq
  <2>2. \A S : Drawn(S) = EmptyBag
    <3>1. ASSUME NEW S PROVE Drawn(S) = EmptyBag
      <4>1. PICK f : f = [v \in {v \in 1 .. Len(rig.visible) : rig.visible[v] \in S} |->
                [mesh |-> scene.stat[rig.visible[v]].mesh, data |-> OwnData(rig.visible[v])]]
        OBVIOUS
      <4>2. DOMAIN f = {}
        BY <2>1, <4>1
      <4>3. Range(f) = {}
        BY <4>2 DEF Range
      <4>4. AsBag(f) = [x \in {} |-> 1]
        BY <4>3 DEF AsBag
      <4> QED
        BY <4>1, <4>4 DEF Drawn, EmptyBag, SetToBag
    <3> QED
      BY <3>1
  <2>3. shown.stat = EmptyBag /\ shown.outline = EmptyBag /\ shown.skin = EmptyBag
    BY <1>1 DEF NothingShown
  <2>4. BagToSet(shown.skin) = {}
    BY <2>3 DEF BagToSet, EmptyBag, SetToBag
  <2> QED
    BY <2>2, <2>3, <2>4 DEF InstancesOwn
<1> QED
  BY <1>1, <1>2, <1>3, <1>4 DEF FrameInv, Phases, Synced, Cutting, Queued

\* While a frame has not begun: an entity moves, or there is a click.
LEMMA FrameWaits ==
  ASSUME FrameInv, phase = "frame",
         UNCHANGED <<scene, phase, selection, rig, raw, shown>>
  PROVE  FrameInv'
<1>1. scene' \in Scenes /\ phase' = "frame" /\ RigShape'
  BY DEF FrameInv, RigShape
<1>2. VisibleExactly'
  BY <1>1 DEF FrameInv, VisibleExactly
<1>3. \A S : Drawn(S)' = Drawn(S)
  <2>1. \A s : OwnData(s)' = OwnData(s)
    BY SceneStays DEF OwnData
  <2> QED
    BY <2>1 DEF Drawn
<1>4. InstancesOwn'
  BY <1>3, SceneStays DEF FrameInv, InstancesOwn
<1> QED
  BY <1>1, <1>2, <1>4 DEF FrameInv, Phases, Synced, Cutting, Queued

\* The arrays of the frame stay as they are until it is drawn.
LEMMA SyncedStays ==
  ASSUME Synced, UNCHANGED <<scene, pos, raw, anmRaw>>,
         rig'.M = rig.M, rig'.blob = rig.blob, rig'.skinBlob = rig.skinBlob,
         phase' \in {"cull", "submit", "draw"} => phase \in {"cull", "submit", "draw"}
  PROVE  Synced'
<1> SUFFICES ASSUME phase' \in {"cull", "submit", "draw"} PROVE Synced'
  BY DEF Synced
<1>1. \A k : StaticBlob(k)' = StaticBlob(k) /\ SkinnedBlob(k)' = SkinnedBlob(k)
  BY SceneStays DEF StaticBlob, SkinnedBlob
<1>2. \A s : BlobOf(Static, s)' = BlobOf(Static, s) /\ BlobOf(Skinned, s)' = BlobOf(Skinned, s)
  BY SceneStays DEF BlobOf
<1>3. /\ raw = [k \in 1 .. Len(Static) |-> StaticBlob(k)]
      /\ anmRaw = [k \in 1 .. Len(Skinned) |-> SkinnedBlob(k)]
      /\ \A s \in 1 .. Total :
            /\ rig.blob[s] = BlobOf(Static, s)
            /\ LastOf(Static, s) # 0 =>
                  rig.M[s] = pos[Static[LastOf(Static, s)][1]] + scene.stat[s].local
      /\ \A s \in 1 .. Len(scene.skin) : rig.skinBlob[s] = BlobOf(Skinned, s)
  BY DEF Synced
<1>4. raw' = [k \in 1 .. Len(Static)' |-> StaticBlob(k)']
  BY <1>1, <1>3, SceneStays
<1>5. anmRaw' = [k \in 1 .. Len(Skinned)' |-> SkinnedBlob(k)']
  BY <1>1, <1>3, SceneStays
<1>6. \A s \in 1 .. Total' : rig'.blob[s] = BlobOf(Static, s)'
  BY <1>2, <1>3, SceneStays
<1>7. \A s \in 1 .. Total' : LastOf(Static, s)' # 0 =>
         rig'.M[s] = pos'[Static'[LastOf(Static, s)'][1]] + scene'.stat[s].local
  BY <1>3, SceneStays
<1>8. \A s \in 1 .. Len(scene'.skin) : rig'.skinBlob[s] = BlobOf(Skinned, s)'
  BY <1>2, <1>3, SceneStays
<1> QED
  BY <1>4, <1>5, <1>6, <1>7, <1>8 DEF Synced

LEMMA VisibleStays ==
  ASSUME VisibleExactly, UNCHANGED <<scene, pos, view, rig>>,
         phase' \in {"submit", "draw"} => phase \in {"submit", "draw"},
         phase' # "cull" => phase # "cull",
         phase' \in {"cull", "submit", "draw"} => phase \in {"cull", "submit", "draw"},
         phase' = "halted" => phase = "halted"
  PROVE  VisibleExactly'
<1>1. \A s : Passes(s)' <=> Passes(s)
  BY DEF Passes
<1>2. {s \in 1 .. Total : Passes(s)}' = {s \in 1 .. Total : Passes(s)}
  BY <1>1, SceneStays
<1>3. phase' \in {"submit", "draw"} => rig'.visible = Rising({s \in 1 .. Total : Passes(s)}')
  BY <1>2 DEF VisibleExactly
<1>4. phase' # "cull" => /\ (rig'.tlas = <<>>) <=> (rig'.visible = <<>>)
                         /\ rig'.visible # <<>> => rig'.leaves = rig'.visible
  BY DEF VisibleExactly
<1>5. phase' \in {"cull", "submit", "draw"} =>
         \A s \in 1 .. Total' : Owners(s)' = {scene'.stat[s].ent} =>
             rig'.M[s] = pos'[scene'.stat[s].ent] + scene'.stat[s].local
  BY SceneStays DEF VisibleExactly
<1>6. phase' = "halted" => (\E s \in 1 .. Total' : Lost(s)') \/ ~(Animated' \subseteq Placed')
  BY SceneStays DEF VisibleExactly
<1> QED
  BY <1>3, <1>4, <1>5, <1>6 DEF VisibleExactly

\* A submesh is lost if no scan has met it; else its blob is one of an owner.
LEMMA OwnersAre ==
  ASSUME Arrays, NEW s
  PROVE  /\ Lost(s) <=> LastOf(Static, s) = 0
         /\ LastOf(Static, s) # 0 =>
               /\ LastOf(Static, s) \in 1 .. Len(Static)
               /\ Static[LastOf(Static, s)][2] = s
               /\ Static[LastOf(Static, s)][1] \in Owners(s)
<1>1. PICK n \in Nat : n = Len(Static)
  BY DEF Arrays
<1>2. DOMAIN Static = 1 .. n
  BY <1>1 DEF Arrays
<1>3. Range(Static) = {Static[k] : k \in 1 .. n}
  BY <1>2 DEF Range
<1>4. /\ LastOf(Static, s) \in 0 .. n
      /\ LastOf(Static, s) # 0 => Static[LastOf(Static, s)][2] = s
      /\ LastOf(Static, s) = 0 => \A k \in 1 .. n : Static[k][2] # s
  BY <1>1, LastOfIs
<1>5. \A x : x \in Owners(s) <=> \E k \in 1 .. n : Static[k][2] = s /\ x = Static[k][1]
  BY <1>3 DEF Owners
<1>6. LastOf(Static, s) # 0 => LastOf(Static, s) \in 1 .. n /\ Static[LastOf(Static, s)][1] \in Owners(s)
  BY <1>4, <1>5
<1>7. LastOf(Static, s) = 0 => Owners(s) = {}
  BY <1>4, <1>5
<1> QED
  BY <1>1, <1>4, <1>6, <1>7 DEF Lost

LEMMA UpdateFrame ==
  ASSUME FrameInv, Update
  PROVE  FrameInv'
<1>1. Arrays /\ scene \in Scenes
  BY ArraysAre DEF FrameInv
<1>2. /\ scene' = scene /\ pos' = pos /\ phase' = "cull"
      /\ slices' = [i \in 1 .. SliceCount |-> Todo]
      /\ raw' = [k \in 1 .. Len(Static) |->
             LET s == Static[k][2] IN
             [M |-> pos[Static[k][1]] + scene.stat[s].local, mat |-> scene.stat[s].mat]]
      /\ anmRaw' = [k \in 1 .. Len(Skinned) |->
             LET s == Skinned[k][2] IN
             [M |-> pos[Skinned[k][1]] + scene.skin[s].local, mat |-> scene.skin[s].mat]]
  BY DEF Update
<1>3. rig' = [M |-> [s \in 1 .. Total |-> SyncedM(s)],
              blob |-> [s \in 1 .. Total |-> BlobOf(Static, s)],
              box |-> [s \in 1 .. Total |-> SyncedBox(s)],
              skinBlob |-> [s \in 1 .. Len(scene.skin) |-> BlobOf(Skinned, s)],
              visible |-> <<>>, leaves |-> rig.leaves, tlas |-> <<>>]
  BY DEF Update, Cleared, FrameInv, RigShape
<1>4. RigShape'
  BY <1>3 DEF RigShape
<1>5. /\ rig'.visible = <<>> /\ rig'.tlas = <<>>
      /\ \A s \in 1 .. Total : /\ rig'.M[s] = SyncedM(s)
                               /\ rig'.blob[s] = BlobOf(Static, s)
      /\ \A s \in 1 .. Len(scene.skin) : rig'.skinBlob[s] = BlobOf(Skinned, s)
  BY <1>3
<1>6. \A s \in 1 .. Total : LastOf(Static, s) # 0 =>
         rig'.M[s] = pos[Static[LastOf(Static, s)][1]] + scene.stat[s].local
  BY <1>5 DEF SyncedM
<1>7. Synced'
  <2>1. \A s : BlobOf(Static, s)' = BlobOf(Static, s) /\ BlobOf(Skinned, s)' = BlobOf(Skinned, s)
    BY <1>2, SceneStays DEF BlobOf
  <2>2. \A k : /\ StaticBlob(k)' = [M |-> pos[Static[k][1]] + scene.stat[Static[k][2]].local,
                                    mat |-> scene.stat[Static[k][2]].mat]
               /\ SkinnedBlob(k)' = [M |-> pos[Skinned[k][1]] + scene.skin[Skinned[k][2]].local,
                                     mat |-> scene.skin[Skinned[k][2]].mat]
    BY <1>2, SceneStays DEF StaticBlob, SkinnedBlob
  <2>3. raw' = [k \in 1 .. Len(Static)' |-> StaticBlob(k)']
    BY <1>2, <2>2, SceneStays
  <2>4. anmRaw' = [k \in 1 .. Len(Skinned)' |-> SkinnedBlob(k)']
    BY <1>2, <2>2, SceneStays
  <2>5. \A s \in 1 .. Total' : rig'.blob[s] = BlobOf(Static, s)'
    BY <1>2, <1>5, <2>1, SceneStays
  <2>6. \A s \in 1 .. Total' : LastOf(Static, s)' # 0 =>
           rig'.M[s] = pos'[Static'[LastOf(Static, s)'][1]] + scene'.stat[s].local
    BY <1>2, <1>6, SceneStays
  <2>7. \A s \in 1 .. Len(scene'.skin) : rig'.skinBlob[s] = BlobOf(Skinned, s)'
    BY <1>2, <1>5, <2>1
  <2> QED
    BY <2>3, <2>4, <2>5, <2>6, <2>7 DEF Synced
<1>8. Cutting'
  <2>1. Todo \in Seq(Nat)
    BY DEF Todo
  <2>2. /\ slices' \in [1 .. SliceCount -> Seq(Nat)]
        /\ \A i \in 1 .. SliceCount : slices'[i] = Todo
    BY <1>2, <2>1
  <2>3. SliceCount' = SliceCount
    BY <1>2, SceneStays
  <2>4. Todo' = Todo
    BY DEF Todo
  <2> QED
    BY <1>5, <2>2, <2>3, <2>4 DEF Cutting
<1>9. VisibleExactly'
  <2>1. ASSUME NEW s \in 1 .. Total', Owners(s)' = {scene'.stat[s].ent}
        PROVE  rig'.M[s] = pos'[scene'.stat[s].ent] + scene'.stat[s].local
    <3>1. s \in 1 .. Total /\ Owners(s) = {scene.stat[s].ent}
      BY <1>2, <2>1, SceneStays
    <3>2. LastOf(Static, s) # 0
      BY <1>1, <3>1, OwnersAre DEF Lost
    <3>3. Static[LastOf(Static, s)][1] = scene.stat[s].ent
      BY <1>1, <3>1, <3>2, OwnersAre
    <3> QED
      BY <1>2, <1>6, <3>1, <3>2, <3>3
  <2> QED
    BY <1>2, <2>1 DEF VisibleExactly
<1> QED
  BY <1>1, <1>2, <1>4, <1>7, <1>8, <1>9 DEF FrameInv, Phases, Queued, InstancesOwn

LEMMA CullFrame ==
  ASSUME FrameInv, NEW i \in 1 .. SliceCount, Cull(i)
  PROVE  FrameInv'
<1>1. /\ phase = "cull" /\ phase' = "cull" /\ UNCHANGED <<scene, pos, rig, raw, anmRaw, view>>
      /\ slices' = [slices EXCEPT ![i] = Rising({s \in SliceOf(i) : Passes(s)})]
  BY DEF Cull
<1>2. RigShape' /\ Synced' /\ VisibleExactly' /\ scene' \in Scenes
  BY <1>1, SyncedStays, VisibleStays DEF FrameInv, RigShape
<1>3. Cutting'
  <2>1. Total \in Nat
    BY ArraysAre DEF FrameInv, Arrays
  <2>2. ASSUME NEW j \in 1 .. SliceCount, SliceCount \in Nat
        PROVE  Rising({s \in SliceOf(j) : Passes(s)}) \in Seq(Nat)
    <3>1. (j - 1) * Grain + 1 \in Nat /\ j * Grain \in Nat
      <4>1. Grain \in Nat /\ j - 1 \in Nat /\ j \in Nat
        BY <2>2, SizesAssumption
      <4> QED
        BY <4>1
    <3> DEFINE a == (j - 1) * Grain + 1
               b == Min({j * Grain, Total})
               S == {s \in SliceOf(j) : Passes(s)}
    <3>2. a \in Nat /\ b \in Nat /\ SliceOf(j) = a .. b
      BY <2>1, <3>1, MinIs DEF SliceOf
    <3>3. S \in SUBSET (a .. b) /\ IsFiniteSet(a .. b) /\ a .. b \subseteq Nat
      <4> HIDE DEF a, b
      <4> QED
        BY <3>2, FS_Interval
    <3> HIDE DEF a, b, S
    <3>4. IsFiniteSet(S) /\ S \in SUBSET Nat
      BY <3>3, FS_Subset
    <3>5. Rising(S) \in Seq(S)
      BY <3>4, RisingIs DEF Ascends
    <3>6. Rising(S) \in Seq(Nat)
      BY <3>4, <3>5, SeqMonotonic
    <3> QED
      BY <3>6 DEF S
  <2>3. SliceCount \in Nat
    BY <2>1, SizesAssumption DEF SliceCount
  <2>4. /\ rig.visible = <<>> /\ rig.tlas = <<>>
        /\ slices \in [1 .. SliceCount -> Seq(Nat)]
        /\ \A j \in 1 .. SliceCount :
              slices[j] = Todo \/ slices[j] = Rising({s \in SliceOf(j) : Passes(s)})
    BY <1>1 DEF FrameInv, Cutting
  <2>5. slices' \in [1 .. SliceCount -> Seq(Nat)]
    BY <1>1, <2>2, <2>3, <2>4
  <2>6. \A j \in 1 .. SliceCount :
              slices'[j] = Todo \/ slices'[j] = Rising({s \in SliceOf(j) : Passes(s)})
    BY <1>1, <2>4
  <2>7. \A j : {s \in SliceOf(j) : Passes(s)}' = {s \in SliceOf(j) : Passes(s)}
    <3>1. \A s : Passes(s)' <=> Passes(s)
      BY <1>1 DEF Passes
    <3>2. \A j : SliceOf(j)' = SliceOf(j)
      BY <1>1, SceneStays
    <3> QED
      BY <3>1, <3>2
  <2>8. SliceCount' = SliceCount /\ Todo' = Todo
    BY <1>1, SceneStays DEF Todo
  <2>9. \A j \in 1 .. SliceCount' :
              slices'[j] = Todo' \/ slices'[j] = Rising({s \in SliceOf(j) : Passes(s)}')
    BY <2>6, <2>7, <2>8
  <2> QED
    BY <1>1, <2>4, <2>5, <2>8, <2>9 DEF Cutting
<1> QED
  BY <1>1, <1>2, <1>3 DEF FrameInv, Phases, Queued, InstancesOwn

\* The slices reach to the last submesh.
LEMMA SlicesReach ==
  ASSUME NEW t \in Nat, NEW g \in Nat \ {0}
  PROVE  /\ (t + g - 1) \div g \in Nat
         /\ ((t + g - 1) \div g) * g >= t
<1>1. PICK d \in Int : d = (t + g - 1) \div g
  OBVIOUS
<1>2. d * g <= t + g - 1 /\ t + g - 1 < d * g + g
  BY <1>1
<1>3. d \in Nat
  BY <1>1
<1>4. d * g \in Int
  BY <1>1
<1>5. d * g >= t
  BY <1>2, <1>4
<1> QED
  BY <1>1, <1>3, <1>5

LEMMA ConsolidateFrame ==
  ASSUME FrameInv, Consolidate
  PROVE  FrameInv'
<1>1. /\ phase = "cull" /\ phase' = "submit"
      /\ UNCHANGED <<scene, pos, selection, raw, anmRaw, view, slices>>
      /\ \A i \in 1 .. SliceCount : slices[i] # Todo
  BY DEF Consolidate
<1>2. PICK visible : visible = FlattenSeq(slices)
  OBVIOUS
<1>3. rig' = IF visible = <<>> THEN rig
             ELSE [rig EXCEPT !.visible = visible, !.leaves = visible,
                              !.tlas = <<BuildTlas(Groups(visible), scene.flat)>>]
  BY <1>2 DEF Consolidate
<1>4. PICK P : P = {s \in 1 .. Total : Passes(s)}
  OBVIOUS
<1>5. visible = Rising(P)
  <2>1. Total \in Nat
    BY ArraysAre DEF FrameInv, Arrays
  <2>2. PICK n \in Nat : n = SliceCount /\ n * Grain >= Total
    BY <2>1, SizesAssumption, SlicesReach DEF SliceCount
  <2>3. P \in SUBSET Nat /\ \A s \in P : 0 < s /\ s <= Total
    BY <1>4, <2>1
  <2>4. PICK cut : cut = [i \in 0 .. n |-> i * Grain]
    OBVIOUS
  <2>5. Grain \in Nat
    BY SizesAssumption
  <2>6. \A i \in Nat : i * Grain \in Nat /\ (i + 1) * Grain = i * Grain + Grain
    BY <2>5
  <2>7. cut \in [0 .. n -> Nat] /\ cut[0] = 0 /\ cut[n] >= Total
    BY <2>2, <2>4, <2>5, <2>6
  <2>8. \A i \in 0 .. n - 1 : cut[i] <= cut[i + 1]
    <3>1. SUFFICES ASSUME NEW i \in 0 .. n - 1 PROVE cut[i] <= cut[i + 1]
      OBVIOUS
    <3>2. cut[i] = i * Grain /\ cut[i + 1] = (i + 1) * Grain /\ i \in Nat
      BY <2>4
    <3>3. (i + 1) * Grain = i * Grain + Grain /\ i * Grain \in Nat
      BY <2>6, <3>2
    <3> QED
      BY <2>5, <3>2, <3>3
  <2>9. \A s \in P : 0 < s /\ s <= cut[n]
    BY <2>1, <2>3, <2>7
  <2>10. ASSUME NEW i \in 1 .. n
         PROVE  {s \in SliceOf(i) : Passes(s)} = {s \in P : cut[i - 1] < s /\ s <= cut[i]}
    <3>1. PICK a \in Nat, b \in Nat : a = cut[i - 1] /\ b = cut[i] /\ a = (i - 1) * Grain /\ b = i * Grain
      <4>1. i - 1 \in 0 .. n /\ i \in 0 .. n
        OBVIOUS
      <4> QED
        BY <2>4, <2>7, <4>1
    <3>2. SliceOf(i) = a + 1 .. (IF b <= Total THEN b ELSE Total)
      BY <2>1, <3>1, MinIs DEF SliceOf
    <3>3. \A s : s \in SliceOf(i) <=> s \in 1 .. Total /\ a < s /\ s <= b
      BY <2>1, <3>2
    <3> QED
      BY <1>4, <3>1, <3>3
  <2>11. /\ slices \in [1 .. n -> Seq(Nat)]
         /\ \A i \in 1 .. n : slices[i] = Rising({s \in SliceOf(i) : Passes(s)})
    BY <1>1, <2>2 DEF FrameInv, Cutting
  <2>12. \A i \in 1 .. n : slices[i] = Rising({s \in P : cut[i - 1] < s /\ s <= cut[i]})
    BY <2>10, <2>11
  <2>13. slices \in [1 .. n -> Seq(P)]
    <3>1. ASSUME NEW i \in 1 .. n PROVE slices[i] \in Seq(P)
      <4>1. PICK S : S = {s \in P : cut[i - 1] < s /\ s <= cut[i]}
        OBVIOUS
      <4>2. P \subseteq 1 .. Total /\ IsFiniteSet(1 .. Total)
        BY <1>4, <2>1, FS_Interval
      <4>3. S \subseteq P /\ S \in SUBSET Nat
        BY <2>3, <4>1
      <4>4. IsFiniteSet(S)
        <5>1. S \subseteq 1 .. Total
          BY <4>2, <4>3
        <5> QED
          BY <4>2, <5>1, FS_Subset
      <4>5. Rising(S) \in Seq(S)
        BY <4>3, <4>4, RisingIs DEF Ascends
      <4>6. Rising(S) \in Seq(P)
        BY <4>3, <4>5, SeqMonotonic
      <4> QED
        BY <2>12, <4>1, <4>6
    <3> QED
      BY <2>11, <3>1
  <2> QED
    BY <1>2, <2>3, <2>7, <2>8, <2>9, <2>12, <2>13, SlicesJoin
<1>6. /\ rig.visible = <<>> /\ rig.tlas = <<>> /\ RigShape /\ Synced
  BY <1>1 DEF FrameInv, Cutting
<1>7. /\ rig'.visible = visible
      /\ (rig'.tlas = <<>>) <=> (visible = <<>>)
      /\ visible # <<>> => rig'.leaves = visible
      /\ rig'.M = rig.M /\ rig'.blob = rig.blob /\ rig'.skinBlob = rig.skinBlob
      /\ RigShape'
  <2>1. CASE visible = <<>>
    BY <1>3, <1>6, <2>1 DEF RigShape
  <2>2. CASE visible # <<>>
    <3>0. \A x : <<x>> # <<>>
      OBVIOUS
    <3>1. PICK tree : tree = <<BuildTlas(Groups(visible), scene.flat)>> /\ tree # <<>>
      BY <3>0
    <3>2. rig' = [M |-> rig.M, blob |-> rig.blob, box |-> rig.box, skinBlob |-> rig.skinBlob,
                  visible |-> visible, leaves |-> visible, tlas |-> tree]
      BY <1>3, <1>6, <2>2, <3>1 DEF RigShape
    <3> QED
      BY <2>2, <3>1, <3>2 DEF RigShape
  <2> QED
    BY <2>1, <2>2
<1>8. Synced'
  BY <1>1, <1>6, <1>7, SyncedStays
<1>9. VisibleExactly'
  <2>1. \A s : Passes(s)' <=> Passes(s)
    BY <1>1 DEF Passes
  <2>2. {s \in 1 .. Total : Passes(s)}' = P
    BY <1>1, <1>4, <2>1, SceneStays
  <2>3. \A s \in 1 .. Total' : Owners(s)' = {scene'.stat[s].ent} =>
             rig'.M[s] = pos'[scene'.stat[s].ent] + scene'.stat[s].local
    BY <1>1, <1>7, SceneStays DEF FrameInv, VisibleExactly
  <2> QED
    BY <1>1, <1>5, <1>7, <2>2, <2>3 DEF VisibleExactly
<1> QED
  BY <1>1, <1>7, <1>8, <1>9 DEF FrameInv, Phases, Cutting, Queued, InstancesOwn

LEMMA SubmitFrame ==
  ASSUME FrameInv, Submit
  PROVE  FrameInv'
<1>1. /\ phase = "submit" /\ phase' = "draw"
      /\ UNCHANGED <<scene, pos, selection, rig, raw, anmRaw, view, slices, shown>>
  BY DEF Submit
<1>2. RigShape' /\ Synced' /\ VisibleExactly' /\ scene' \in Scenes
  BY <1>1, SyncedStays, VisibleStays DEF FrameInv, RigShape
<1>3. Queued'
  <2>1. /\ queue' = [v \in 1 .. Len(rig'.visible) |->
              LET s == rig'.visible[v] IN
              [mesh |-> scene'.stat[s].mesh, mat |-> scene'.stat[s].mat, blob |-> rig'.blob[s],
               selected |-> scene'.stat[s].ent = selection'.entity]]
        /\ anmQueue' = IF Total' = 0 THEN <<>> ELSE
              [k \in 1 .. Len(Scan(Animated)') |->
                 LET s == Scan(Animated)'[k][2] IN
                 [mesh |-> scene'.skin[s].mesh, mat |-> scene'.skin[s].mat,
                  blob |-> rig'.skinBlob[s], selected |-> FALSE]]
    BY <1>1, SceneStays DEF Submit
  <2> QED
    BY <2>1 DEF Queued
<1> QED
  BY <1>1, <1>2, <1>3 DEF FrameInv, Phases, Cutting, InstancesOwn

LEMMA KeyIs ==
  ASSUME NEW c, c.mat \in Nat, c.mesh \in Geometry
  PROVE  Key(c) \in Int
<1>1. PICK v \in Nat, i \in Nat, m \in Nat : v = c.mesh.vtx /\ i = c.mesh.idx /\ m = c.mat
  BY DEF Geometry
<1>2. PICK w \in Nat \ {0} : w = KeyMod
  BY SizesAssumption
<1>3. v % w \in Int /\ i % w \in Int
  OBVIOUS
<1>4. (m * w + (v % w)) * w + (i % w) \in Int
  BY <1>3
<1> QED
  BY <1>1, <1>2, <1>4 DEF Key

\* The blob of a submesh is its own, if it is not lost.
LEMMA BlobsAre ==
  ASSUME FrameInv, phase = "draw", NEW s \in 1 .. Total
  PROVE  /\ raw[rig.blob[s] + 1] = OwnData(s)
         /\ rig.blob[s] >= Len(raw) => Lost(s)
<1>1. Arrays
  BY ArraysAre DEF FrameInv
<1>2. PICK n \in Nat : n = Len(Static)
  BY <1>1 DEF Arrays
<1>3. raw = [k \in 1 .. n |-> StaticBlob(k)]
  BY <1>2 DEF FrameInv, Synced
<1>4. Len(raw) = n
  BY <1>3
<1>5. /\ rig.blob[s] = BlobOf(Static, s)
      /\ LastOf(Static, s) # 0 =>
            rig.M[s] = pos[Static[LastOf(Static, s)][1]] + scene.stat[s].local
  BY DEF FrameInv, Synced
<1>6. CASE Lost(s)
  <2>1. rig.blob[s] = 0
    BY <1>1, <1>5, <1>6, OwnersAre DEF BlobOf
  <2> QED
    BY <1>6, <2>1 DEF OwnData
<1>7. CASE ~ Lost(s)
  <2>1. PICK l \in 1 .. n : l = LastOf(Static, s) /\ l # 0 /\ Static[l][2] = s
    BY <1>1, <1>2, <1>7, OwnersAre
  <2>2. rig.blob[s] = l - 1 /\ (l - 1) + 1 = l
    BY <1>5, <2>1 DEF BlobOf
  <2>3. raw[l] = [M |-> pos[Static[l][1]] + scene.stat[s].local, mat |-> scene.stat[s].mat]
    BY <1>3, <2>1 DEF StaticBlob
  <2>4. raw[l] = [M |-> rig.M[s], mat |-> scene.stat[s].mat]
    BY <1>5, <2>1, <2>3
  <2>5. ~ (rig.blob[s] >= Len(raw))
    BY <1>4, <2>1, <2>2
  <2> QED
    BY <1>7, <2>2, <2>4, <2>5 DEF OwnData
<1> QED
  BY <1>6, <1>7

\* So are those of the animated submeshes, if all that are animated are placed.
LEMMA SkinnedBlobsAre ==
  ASSUME FrameInv, phase = "draw", Animated \subseteq Placed,
         NEW k \in 1 .. Len(Scan(Animated))
  PROVE  LET s == Scan(Animated)[k][2] IN
         /\ s \in 1 .. Len(scene.skin)
         /\ anmRaw[rig.skinBlob[s] + 1].mat = scene.skin[s].mat
         /\ ~ (rig.skinBlob[s] >= Len(anmRaw))
<1>1. Arrays
  BY ArraysAre DEF FrameInv
<1>2. Skinned = Scan(Animated)
  <2>1. Placed \cap Animated = Animated
    OBVIOUS
  <2> QED
    BY <2>1 DEF Skinned
<1>3. PICK n \in Nat, m \in Nat : n = Len(Skinned) /\ m = Len(scene.skin)
  BY <1>1 DEF Arrays
<1>4. PICK s : s = Skinned[k][2]
  OBVIOUS
<1>5. k \in 1 .. n /\ s \in 1 .. m
  <2>1. Skinned \in Seq((Ents \cap (Placed \cap Animated)) \X (1 .. m)) /\ k \in 1 .. Len(Skinned)
    BY <1>1, <1>2, <1>3 DEF Arrays
  <2>2. Skinned[k] \in (Ents \cap (Placed \cap Animated)) \X (1 .. m)
    BY <2>1, ElementOfSeq
  <2> QED
    BY <1>3, <1>4, <2>1, <2>2
<1>6. anmRaw = [j \in 1 .. n |-> SkinnedBlob(j)] /\ rig.skinBlob[s] = BlobOf(Skinned, s)
  BY <1>3, <1>5 DEF FrameInv, Synced
<1>7. Len(anmRaw) = n
  BY <1>6
<1>8. PICK l \in 1 .. n : l = LastOf(Skinned, s) /\ l # 0 /\ Skinned[l][2] = s
  BY <1>3, <1>4, <1>5, LastOfIs
<1>9. rig.skinBlob[s] = l - 1 /\ (l - 1) + 1 = l
  BY <1>6, <1>8 DEF BlobOf
<1>10. anmRaw[l].mat = scene.skin[s].mat
  BY <1>6, <1>8 DEF SkinnedBlob
<1>11. ~ (rig.skinBlob[s] >= Len(anmRaw))
  BY <1>7, <1>8, <1>9
<1> QED
  BY <1>2, <1>3, <1>4, <1>5, <1>9, <1>10, <1>11

LEMMA DrawFrame ==
  ASSUME FrameInv, Draw
  PROVE  FrameInv'
<1>1. Arrays /\ phase = "draw"
  BY ArraysAre DEF FrameInv, Draw
<1>2. UNCHANGED <<scene, pos, pending, selection, rig, raw, anmRaw, view, slices>>
  BY DEF Draw
<1>3. PICK down \in BOOLEAN :
         LET q == Sorted(queue, down)
             a == Sorted(anmQueue, down)
             staged == Staged(q, raw)
             marked == {k \in 1 .. Len(q) : q[k].selected}
         IN IF \/ \E k \in 1 .. Len(q) : q[k].blob >= Len(raw)
               \/ \E k \in 1 .. Len(a) : a[k].blob >= Len(anmRaw)
            THEN phase' = "halted" /\ UNCHANGED shown
            ELSE /\ phase' = "frame"
                 /\ shown' =
                      [stat    |-> AsBag(Instances(q, staged, FALSE)),
                       skin    |-> AsBag(Instances(a, Staged(a, anmRaw), TRUE)),
                       outline |-> AsBag([k \in marked |-> [mesh |-> q[k].mesh, data |-> staged[k]]])]
  BY DEF Draw
<1>4. PICK q, a, staged, stagedSkin :
         /\ q = Sorted(queue, down) /\ a = Sorted(anmQueue, down)
         /\ staged = Staged(q, raw) /\ stagedSkin = Staged(a, anmRaw)
  OBVIOUS
<1> DEFINE Stops == \/ \E k \in 1 .. Len(q) : q[k].blob >= Len(raw)
                    \/ \E k \in 1 .. Len(a) : a[k].blob >= Len(anmRaw)
           marked == {k \in 1 .. Len(q) : q[k].selected}
<1>5. /\ Stops => phase' = "halted"
      /\ ~Stops => /\ phase' = "frame"
                   /\ shown' =
                        [stat    |-> AsBag(Instances(q, staged, FALSE)),
                         skin    |-> AsBag(Instances(a, stagedSkin, TRUE)),
                         outline |-> AsBag([k \in marked |-> [mesh |-> q[k].mesh, data |-> staged[k]]])]
  BY <1>3, <1>4

(* The commands of the static submeshes. *)
<1>6. PICK vis : vis = rig.visible
  OBVIOUS
<1>7. vis \in Seq(1 .. Total)
  <2>1. Total \in Nat /\ vis = Rising({s \in 1 .. Total : Passes(s)})
    BY <1>1, <1>6 DEF FrameInv, VisibleExactly, Arrays
  <2>2. PICK P : P = {s \in 1 .. Total : Passes(s)}
    OBVIOUS
  <2>3. P \subseteq 1 .. Total /\ IsFiniteSet(1 .. Total) /\ 1 .. Total \subseteq Nat
    BY <2>1, <2>2, FS_Interval
  <2>4. IsFiniteSet(P) /\ P \in SUBSET Nat
    BY <2>3, FS_Subset
  <2>5. Rising(P) \in Seq(P)
    BY <2>4, RisingIs DEF Ascends
  <2> QED
    BY <2>1, <2>2, <2>3, <2>5, SeqMonotonic
<1>8. PICK n \in Nat : n = Len(vis)
  BY <1>7
<1>9. \A v \in 1 .. n : vis[v] \in 1 .. Total
  BY <1>7, <1>8, ElementOfSeq
<1>10. queue = [v \in 1 .. n |->
          [mesh |-> scene.stat[vis[v]].mesh, mat |-> scene.stat[vis[v]].mat,
           blob |-> rig.blob[vis[v]],
           selected |-> scene.stat[vis[v]].ent = selection.entity]]
  BY <1>1, <1>6, <1>8 DEF FrameInv, Queued
<1>11. /\ Len(queue) = n
       /\ \A v \in 1 .. n : /\ queue[v].mesh = scene.stat[vis[v]].mesh
                            /\ queue[v].mat = scene.stat[vis[v]].mat
                            /\ queue[v].blob = rig.blob[vis[v]]
                            /\ queue[v].selected = (scene.stat[vis[v]].ent = selection.entity)
  BY <1>10
<1>12. PICK p \in Bijection(1 .. n, 1 .. n) : q = [k \in 1 .. n |-> queue[p[k]]]
  <2>1. ASSUME NEW v \in 1 .. n PROVE Key(queue[v]) \in Int
    BY <1>1, <1>9, <1>11, KeyIs DEF Arrays
  <2>2. Permuted(q, queue, n)
    BY <1>4, <1>11, <2>1, SortedIs
  <2> QED
    BY <2>2 DEF Permuted
<1>13. /\ Len(q) = n
       /\ \A k \in 1 .. n : p[k] \in 1 .. n /\ q[k] = queue[p[k]]
  BY <1>12 DEF Bijection, Injection
<1>14. ASSUME NEW k \in 1 .. n
       PROVE  /\ q[k].mesh = scene.stat[vis[p[k]]].mesh
              /\ q[k].selected = (scene.stat[vis[p[k]]].ent = selection.entity)
              /\ staged[k] = OwnData(vis[p[k]])
              /\ q[k].blob >= Len(raw) => Lost(vis[p[k]])
              /\ vis[p[k]] \in 1 .. Total
  <2>1. staged[k] = raw[q[k].blob + 1]
    BY <1>4, <1>13 DEF Staged
  <2>2. vis[p[k]] \in 1 .. Total /\ q[k].blob = rig.blob[vis[p[k]]]
    BY <1>9, <1>11, <1>13
  <2>3. /\ raw[rig.blob[vis[p[k]]] + 1] = OwnData(vis[p[k]])
        /\ rig.blob[vis[p[k]]] >= Len(raw) => Lost(vis[p[k]])
    BY <1>1, <2>2, BlobsAre
  <2> QED
    BY <1>11, <1>13, <2>1, <2>2, <2>3
<1>15. ASSUME NEW S, NEW M, M = {k \in 1 .. n : vis[p[k]] \in S}
       PROVE  AsBag([k \in M |-> [mesh |-> q[k].mesh, data |-> staged[k]]]) = Drawn(S)
  <2> DEFINE W == {v \in 1 .. n : vis[v] \in S}
             f == [k \in M |-> [mesh |-> q[k].mesh, data |-> staged[k]]]
             g == [v \in W |-> [mesh |-> scene.stat[vis[v]].mesh, data |-> OwnData(vis[v])]]
             V == {g[v] : v \in W}
  <2>1. W \in SUBSET (1 .. n) /\ M = {k \in 1 .. n : p[k] \in W} /\ \A k \in M : p[k] \in W
    BY <1>13, <1>15
  <2>2. \A k \in M : f[k] = g[p[k]]
    BY <1>14, <1>15, <2>1
  <2>3. g \in [W -> V]
    OBVIOUS
  <2>4. f \in [M -> V]
    <3>1. \A k \in M : g[p[k]] \in V
      BY <2>1
    <3>2. \A k \in M : f[k] \in V
      <4> HIDE DEF f, g, V
      <4> QED
        BY <2>2, <3>1
    <3> HIDE DEF V
    <3> QED
      BY <3>2
  <2>5. Drawn(S) = AsBag(g)
    BY <1>6, <1>8 DEF Drawn
  <2> HIDE DEF f, g, V, W
  <2>6. AsBag(f) = AsBag(g)
    <3>1. Moved(f, g, p, M, W, V, n)
      BY <2>1, <2>2, <2>3, <2>4 DEF Moved
    <3> QED
      BY <3>1, PermutedBag
  <2> QED
    BY <2>5, <2>6 DEF f
<1>16. AsBag(Instances(q, staged, FALSE)) = Drawn(1 .. Total)
  <2>1. 1 .. n = {k \in 1 .. n : vis[p[k]] \in 1 .. Total}
    BY <1>14
  <2>2. AsBag([k \in 1 .. n |-> [mesh |-> q[k].mesh, data |-> staged[k]]]) = Drawn(1 .. Total)
    BY <1>15, <2>1
  <2> QED
    <3>1. AsBag(Instances(q, staged, FALSE)) = AsBag(OneByOne(q, staged, n))
      BY <1>13, InstancesAre
    <3> QED
      BY <2>2, <3>1 DEF OneByOne
<1>17. AsBag([k \in marked |-> [mesh |-> q[k].mesh, data |-> staged[k]]])
          = Drawn({s \in 1 .. Total : scene.stat[s].ent = selection.entity})
  <2>1. PICK S : S = {s \in 1 .. Total : scene.stat[s].ent = selection.entity}
    OBVIOUS
  <2>2. marked = {k \in 1 .. n : vis[p[k]] \in S}
    BY <1>13, <1>14, <2>1
  <2> HIDE DEF marked
  <2>3. AsBag([k \in marked |-> [mesh |-> q[k].mesh, data |-> staged[k]]]) = Drawn(S)
    BY <1>15, <2>2
  <2> QED
    BY <2>1, <2>3

(* The commands of the animated ones. *)
<1>18. PICK anim : anim = Scan(Animated)
  OBVIOUS
<1>19. anim \in Seq((Ents \cap Animated) \X (1 .. Len(scene.skin)))
  BY <1>1, <1>18 DEF Arrays
<1>20. PICK m \in Nat : /\ m <= Len(anim)
                        /\ anmQueue = [k \in 1 .. m |->
                              LET s == anim[k][2] IN
                              [mesh |-> scene.skin[s].mesh, mat |-> scene.skin[s].mat,
                               blob |-> rig.skinBlob[s], selected |-> FALSE]]
  <2>1. anmQueue = IF Total = 0 THEN <<>> ELSE
             [k \in 1 .. Len(anim) |->
                LET s == anim[k][2] IN
                [mesh |-> scene.skin[s].mesh, mat |-> scene.skin[s].mat,
                 blob |-> rig.skinBlob[s], selected |-> FALSE]]
    BY <1>1, <1>18 DEF FrameInv, Queued
  <2>2. Len(anim) \in Nat
    BY <1>19
  <2>3. CASE Total = 0
    <3>1. anmQueue = [k \in 1 .. 0 |->
                LET s == anim[k][2] IN
                [mesh |-> scene.skin[s].mesh, mat |-> scene.skin[s].mat,
                 blob |-> rig.skinBlob[s], selected |-> FALSE]]
      BY <2>1, <2>3
    <3>2. 0 \in Nat /\ 0 <= Len(anim)
      BY <2>2
    <3> QED
      BY <3>1, <3>2
  <2>4. CASE Total # 0
    BY <2>1, <2>2, <2>4
  <2> QED
    BY <2>3, <2>4
<1>21. Len(anim) \in Nat /\ \A k \in 1 .. m : k \in 1 .. Len(anim) /\ anim[k][2] \in 1 .. Len(scene.skin)
  <2>1. Len(anim) \in Nat /\ \A k \in 1 .. m : k \in 1 .. Len(anim)
    BY <1>19, <1>20
  <2>2. \A k \in 1 .. m : anim[k] \in (Ents \cap Animated) \X (1 .. Len(scene.skin))
    BY <1>19, <2>1, ElementOfSeq
  <2> QED
    BY <2>1, <2>2
<1>22. /\ Len(anmQueue) = m
       /\ \A k \in 1 .. m : /\ anmQueue[k].mesh = scene.skin[anim[k][2]].mesh
                            /\ anmQueue[k].mat = scene.skin[anim[k][2]].mat
                            /\ anmQueue[k].blob = rig.skinBlob[anim[k][2]]
  BY <1>20
<1>23. PICK r \in Bijection(1 .. m, 1 .. m) : a = [k \in 1 .. m |-> anmQueue[r[k]]]
  <2>1. ASSUME NEW k \in 1 .. m PROVE Key(anmQueue[k]) \in Int
    BY <1>1, <1>21, <1>22, KeyIs DEF Arrays
  <2>2. Permuted(a, anmQueue, m)
    BY <1>4, <1>22, <2>1, SortedIs
  <2> QED
    BY <2>2 DEF Permuted
<1>24. /\ Len(a) = m
       /\ \A k \in 1 .. m : r[k] \in 1 .. m /\ a[k] = anmQueue[r[k]]
  BY <1>23 DEF Bijection, Injection
<1>25. ASSUME Animated \subseteq Placed, NEW k \in 1 .. m
       PROVE  /\ anim[r[k]][2] \in 1 .. Len(scene.skin)
              /\ a[k].mesh = scene.skin[anim[r[k]][2]].mesh
              /\ stagedSkin[k].mat = scene.skin[anim[r[k]][2]].mat
              /\ ~ (a[k].blob >= Len(anmRaw))
  <2>1. stagedSkin[k] = anmRaw[a[k].blob + 1]
    BY <1>4, <1>24 DEF Staged
  <2>2. r[k] \in 1 .. m /\ r[k] \in 1 .. Len(anim) /\ a[k].blob = rig.skinBlob[anim[r[k]][2]]
    BY <1>21, <1>22, <1>24
  <2>3. /\ anmRaw[rig.skinBlob[anim[r[k]][2]] + 1].mat = scene.skin[anim[r[k]][2]].mat
        /\ ~ (rig.skinBlob[anim[r[k]][2]] >= Len(anmRaw))
    BY <1>1, <1>18, <1>25, <2>2, SkinnedBlobsAre
  <2> QED
    BY <1>21, <1>22, <1>24, <2>1, <2>2, <2>3
<1>26. ASSUME Animated \subseteq Placed, NEW inst \in BagToSet(AsBag(Instances(a, stagedSkin, TRUE)))
       PROVE  \E sub \in Range(scene.skin) : inst.mesh = sub.mesh /\ inst.data.mat = sub.mat
  <2>1. PICK f : f = OneByOne(a, stagedSkin, m)
    OBVIOUS
  <2>2. AsBag(f) = AsBag(Instances(a, stagedSkin, TRUE))
    BY <1>24, <2>1, InstancesAre
  <2>3. inst \in Range(f)
    <3>1. DOMAIN AsBag(f) = Range(f)
      BY DEF AsBag
    <3> QED
      BY <1>26, <2>2, <3>1 DEF BagToSet
  <2>4. PICK k \in 1 .. m : inst = [mesh |-> a[k].mesh, data |-> stagedSkin[k]]
    BY <2>1, <2>3 DEF Range, OneByOne
  <2>5. PICK s \in 1 .. Len(scene.skin) : /\ inst.mesh = scene.skin[s].mesh
                                         /\ inst.data.mat = scene.skin[s].mat
    BY <1>25, <1>26, <2>4
  <2>6. scene.skin[s] \in Range(scene.skin)
    BY <1>1 DEF Arrays
  <2> QED
    BY <2>5, <2>6

(* The step. *)
<1>27. RigShape' /\ scene' \in Scenes /\ phase' \in {"frame", "halted"}
  BY <1>2, <1>5 DEF FrameInv, RigShape
<1>28. VisibleExactly'
  <2>1. Stops => (\E s \in 1 .. Total : Lost(s)) \/ ~(Animated \subseteq Placed)
    <3>1. CASE \E k \in 1 .. Len(q) : q[k].blob >= Len(raw)
      BY <1>13, <1>14, <3>1
    <3>2. CASE \E k \in 1 .. Len(a) : a[k].blob >= Len(anmRaw)
      BY <1>24, <1>25, <3>2
    <3> QED
      BY <3>1, <3>2
  <2>2. phase' = "halted" => (\E s \in 1 .. Total' : Lost(s)') \/ ~(Animated' \subseteq Placed')
    BY <1>2, <1>5, <2>1, SceneStays
  <2>3. /\ (rig'.tlas = <<>>) <=> (rig'.visible = <<>>)
        /\ rig'.visible # <<>> => rig'.leaves = rig'.visible
    BY <1>1, <1>2 DEF FrameInv, VisibleExactly
  <2> QED
    BY <1>27, <2>2, <2>3 DEF VisibleExactly
<1>29. InstancesOwn'
  <2>1. SUFFICES ASSUME phase' = "frame" PROVE InstancesOwn'
    BY DEF InstancesOwn
  <2>2. /\ shown'.stat = Drawn(1 .. Total)
        /\ shown'.outline = Drawn({s \in 1 .. Total : scene.stat[s].ent = selection.entity})
        /\ shown'.skin = AsBag(Instances(a, stagedSkin, TRUE))
    <3>1. ~Stops
      BY <1>5, <2>1
    <3> DEFINE outline == AsBag([k \in marked |-> [mesh |-> q[k].mesh, data |-> staged[k]]])
    <3>2. shown' = [stat    |-> AsBag(Instances(q, staged, FALSE)),
                    skin    |-> AsBag(Instances(a, stagedSkin, TRUE)),
                    outline |-> outline]
      BY <1>5, <3>1
    <3>3. outline = Drawn({s \in 1 .. Total : scene.stat[s].ent = selection.entity})
      BY <1>17
    <3> HIDE DEF outline
    <3> QED
      BY <1>16, <3>2, <3>3
  <2>3. \A S : Drawn(S)' = Drawn(S)
    <3>1. \A s : OwnData(s)' = OwnData(s)
      BY <1>2, SceneStays DEF OwnData
    <3> QED
      BY <1>2, <3>1 DEF Drawn
  <2>4. /\ shown'.stat = Drawn(1 .. Total)'
        /\ shown'.outline = Drawn({s \in 1 .. Total : scene.stat[s].ent = selection.entity})'
    BY <1>2, <2>2, <2>3, SceneStays
  <2>5. ASSUME Animated' \subseteq Placed', NEW inst \in BagToSet(shown'.skin)
        PROVE  \E sub \in Range(scene'.skin) : inst.mesh = sub.mesh /\ inst.data.mat = sub.mat
    BY <1>2, <1>26, <2>2, <2>5, SceneStays
  <2> QED
    BY <2>4, <2>5 DEF InstancesOwn
<1> QED
  BY <1>27, <1>28, <1>29 DEF FrameInv, Phases, Synced, Cutting, Queued

LEMMA StutterFrame ==
  ASSUME FrameInv, UNCHANGED vars
  PROVE  FrameInv'
<1>1. UNCHANGED <<scene, pos, phase, pending, selection, rig, raw, anmRaw, view, slices,
                  queue, anmQueue, shown>>
  BY DEF vars
<1>2. RigShape' /\ Synced' /\ VisibleExactly' /\ scene' \in Scenes /\ phase' \in Phases
  BY <1>1, SyncedStays, VisibleStays DEF FrameInv, RigShape
<1>3. InstancesOwn'
  <2>1. \A S : Drawn(S)' = Drawn(S)
    <3>1. \A s : OwnData(s)' = OwnData(s)
      BY <1>1, SceneStays DEF OwnData
    <3> QED
      BY <1>1, <3>1 DEF Drawn
  <2> QED
    BY <1>1, <2>1, SceneStays DEF FrameInv, InstancesOwn
<1>4. Cutting'
  <2>1. \A j : {s \in SliceOf(j) : Passes(s)}' = {s \in SliceOf(j) : Passes(s)}
    <3>1. \A s : Passes(s)' <=> Passes(s)
      BY <1>1 DEF Passes
    <3>2. \A j : SliceOf(j)' = SliceOf(j)
      BY <1>1, SceneStays
    <3> QED
      BY <3>1, <3>2
  <2>2. SliceCount' = SliceCount /\ Todo' = Todo
    BY <1>1, SceneStays DEF Todo
  <2>3. SUFFICES ASSUME phase = "cull" PROVE Cutting'
    BY <1>1 DEF Cutting
  <2>4. /\ rig.visible = <<>> /\ rig.tlas = <<>>
        /\ slices \in [1 .. SliceCount -> Seq(Nat)]
        /\ \A j \in 1 .. SliceCount :
              slices[j] = Todo \/ slices[j] = Rising({s \in SliceOf(j) : Passes(s)})
    BY <2>3 DEF FrameInv, Cutting
  <2>5. \A j \in 1 .. SliceCount' :
              slices'[j] = Todo' \/ slices'[j] = Rising({s \in SliceOf(j) : Passes(s)}')
    BY <1>1, <2>1, <2>2, <2>4
  <2> QED
    BY <1>1, <2>2, <2>4, <2>5 DEF Cutting
<1>5. Queued'
  <2>1. SUFFICES ASSUME phase = "draw" PROVE Queued'
    BY <1>1 DEF Queued
  <2>2. /\ queue = [v \in 1 .. Len(rig.visible) |->
              LET s == rig.visible[v] IN
              [mesh |-> scene.stat[s].mesh, mat |-> scene.stat[s].mat, blob |-> rig.blob[s],
               selected |-> scene.stat[s].ent = selection.entity]]
        /\ anmQueue = IF Total = 0 THEN <<>> ELSE
              [k \in 1 .. Len(Scan(Animated)) |->
                 LET s == Scan(Animated)[k][2] IN
                 [mesh |-> scene.skin[s].mesh, mat |-> scene.skin[s].mat,
                  blob |-> rig.skinBlob[s], selected |-> FALSE]]
    BY <2>1 DEF FrameInv, Queued
  <2> QED
    BY <1>1, <2>2, SceneStays DEF Queued
<1> QED
  BY <1>2, <1>3, <1>4, <1>5 DEF FrameInv

-----------------------------------------------------------------------------
(***************************************************************************)
(* The theorems                                                            *)
(***************************************************************************)

\* Whatever the scenes, the views, the rays and the size of a slice, the
\* frame keeps its invariant (scene_layer.cpp, on_update to on_submit, and
\* ScenePass::execute).
THEOREM FrameInvariant == Spec => []FrameInv
<1>1. FrameInv /\ [Next]_vars => FrameInv'
  <2> SUFFICES ASSUME FrameInv, [Next]_vars PROVE FrameInv'
    OBVIOUS
  <2>1. CASE Move
    BY <2>1, FrameWaits DEF Move
  <2>2. CASE Click
    BY <2>2, FrameWaits DEF Click
  <2>3. CASE Update
    BY <2>3, UpdateFrame
  <2>4. CASE \E i \in 1 .. SliceCount : Cull(i)
    BY <2>4, CullFrame
  <2>5. CASE Consolidate
    BY <2>5, ConsolidateFrame
  <2>6. CASE Submit
    BY <2>6, SubmitFrame
  <2>7. CASE Draw
    BY <2>7, DrawFrame
  <2>8. CASE UNCHANGED vars
    BY <2>8, StutterFrame
  <2> QED
    BY <2>1, <2>2, <2>3, <2>4, <2>5, <2>6, <2>7, <2>8 DEF Next
<1> QED
  BY <1>1, InitFrame, PTL DEF Spec

\* What is drawn is what passes the culling, each submesh once and in the
\* order of the arrays, however the jobs are cut and whenever they end; its
\* matrix is that of its entity as the frame began, a tree exists for it as
\* long as it may be picked, and only a model without a transform stops the
\* pass (SceneLayer::cull, consolidate, and the get_raw of the pass).
THEOREM FrameVisibleExactly == Spec => []VisibleExactly
<1>1. FrameInv => VisibleExactly
  BY DEF FrameInv
<1> QED
  BY <1>1, FrameInvariant, PTL

\* The pass draws every visible submesh once with the matrix and the material
\* that are its own, whatever order the sort leaves and however commands are
\* joined to instanced draws (RenderQueue::sort, push_staged, ScenePass).
THEOREM FrameInstancesOwn == Spec => []InstancesOwn
<1>1. FrameInv => InstancesOwn
  BY DEF FrameInv
<1> QED
  BY <1>1, FrameInvariant, PTL
=============================================================================
