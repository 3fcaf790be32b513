-------------------------- MODULE AssetImportProofs --------------------------
(***************************************************************************)
(* The importer, for every set of paths, images, sizes and documents that  *)
(* AssetImport assumes, and for every sequence of imports:                 *)
(*  - Importing, the inductive invariant of the import: the slots that are *)
(*    settled in this import, the materials and models filed so far, and   *)
(*    what may have stopped it.  From it: the banks agree, materials are   *)
(*    complete, the reasons to stop, and, as a filed model is ImportModel  *)
(*    of its document, the trees, the joints and the tracks;               *)
(*  - Laid, that of the masses: the ranges of all meshes are apart.  From  *)
(*    it and the cursors within a mesh: the slices of submeshes are apart. *)
(*                                                                         *)
(* The loops of the importer are recursive functions.  The lemma Steps is  *)
(* induction over the numbers of a set, Unrolling turns a loop into the    *)
(* function of its steps; SumsAre (a counter), TakingIs (a filter),        *)
(* FlattenIs (lists end to end) and DroppedIs (the marks on the stack) say *)
(* what each of them computes.                                             *)
(***************************************************************************)
EXTENDS AssetImport, TLAPS, FiniteSetTheorems, SequenceTheorems, WellFoundedInduction

-----------------------------------------------------------------------------
(***************************************************************************)
(* Recursion on numbers                                                    *)
(***************************************************************************)

\* A set of numbers that is not empty has a least one.
LEMMA FirstNumber ==
  ASSUME NEW S \in SUBSET Nat, S # {}
  PROVE  \E m \in S : \A k \in S : m <= k
<1>1. PICK m \in S : \A k \in S : <<k, m>> \notin OpToRel(<, Nat)
  BY WFMin, NatLessThanWellFounded, Zenon
<1>2. \A k \in S : ~ (k < m)
  BY <1>1, Zenon DEF OpToRel
<1> QED
  BY <1>2

\* A set that holds 0 and with every number the next one holds all.
LEMMA Steps ==
  ASSUME NEW n \in Nat, NEW S, 0 \in S, \A i \in 0 .. n - 1 : i \in S => i + 1 \in S
  PROVE  0 .. n \subseteq S
<1>1. SUFFICES ASSUME {i \in 0 .. n : i \notin S} # {} PROVE FALSE
  OBVIOUS
<1>2. PICK m \in {i \in 0 .. n : i \notin S} : \A k \in {i \in 0 .. n : i \notin S} : m <= k
  <2>1. {i \in 0 .. n : i \notin S} \in SUBSET Nat
    OBVIOUS
  <2> QED
    BY <1>1, <2>1, FirstNumber
<1>3. m - 1 \in 0 .. n - 1 /\ m - 1 \in S
  BY <1>2
<1> QED
  BY <1>2, <1>3

\* The values that a recursive function takes from 0 to n.
Follows(f, n, start, next) == f[0] = start /\ \A i \in 0 .. n - 1 : f[i + 1] = next[i + 1][f[i]]

\* A function of steps has the recursive function that it describes.
LEMMA Unrolling ==
  ASSUME NEW n \in Nat, NEW S, NEW start \in S, NEW next \in [1 .. n -> [S -> S]]
  PROVE  \E f \in [0 .. n -> S] : Follows(f, n, start, next)
<1> DEFINE Far == {k \in 0 .. n : \E f \in [0 .. k -> S] : Follows(f, k, start, next)}
<1>1. 0 \in Far
  <2>1. [i \in 0 .. 0 |-> start] \in [0 .. 0 -> S]
    OBVIOUS
  <2>2. Follows([i \in 0 .. 0 |-> start], 0, start, next)
    BY DEF Follows
  <2> QED
    BY <2>1, <2>2
<1>2. ASSUME NEW k \in 0 .. n - 1, k \in Far
      PROVE  k + 1 \in Far
  <2>1. PICK f \in [0 .. k -> S] : Follows(f, k, start, next)
    BY <1>2
  <2> DEFINE g == [i \in 0 .. k + 1 |-> IF i = k + 1 THEN next[k + 1][f[k]] ELSE f[i]]
  <2>2. next[k + 1][f[k]] \in S
    OBVIOUS
  <2>3. g \in [0 .. k + 1 -> S]
    BY <2>2
  <2>4. g[0] = start /\ \A i \in 0 .. k : g[i + 1] = next[i + 1][g[i]]
    BY <2>1 DEF Follows
  <2> HIDE DEF g
  <2>5. Follows(g, k + 1, start, next)
    <3>1. (k + 1) - 1 = k
      OBVIOUS
    <3> QED
      BY <2>4, <3>1 DEF Follows
  <2> QED
    BY <2>3, <2>5
<1>3. 0 .. n \subseteq Far
  <2> HIDE DEF Far
  <2> QED
    BY <1>1, <1>2, Steps
<1> QED
  BY <1>3

-----------------------------------------------------------------------------
(***************************************************************************)
(* Counters and lists                                                      *)
(***************************************************************************)

LEMMA SumsAre ==
  ASSUME NEW nums \in Seq(Nat)
  PROVE  /\ Sums(nums) \in [0 .. Len(nums) -> Nat]
         /\ Sums(nums)[0] = 0
         /\ \A i \in 0 .. Len(nums) - 1 : Sums(nums)[i + 1] = Sums(nums)[i] + nums[i + 1]
<1> DEFINE n == Len(nums)
           next == [i \in 1 .. n |-> [sum \in Nat |-> sum + nums[i]]]
           Is(f) == f = [i \in 0 .. n |-> IF i = 0 THEN 0 ELSE f[i - 1] + nums[i]]
<1>1. n \in Nat /\ nums \in [1 .. n -> Nat]
  OBVIOUS
<1>2. PICK f \in [0 .. n -> Nat] : Follows(f, n, 0, next)
  <2>1. next \in [1 .. n -> [Nat -> Nat]]
    BY <1>1
  <2> HIDE DEF next, n
  <2> QED
    BY <1>1, <2>1, Unrolling
<1>3. f[0] = 0 /\ \A i \in 1 .. n : f[i] = f[i - 1] + nums[i]
  <2>1. ASSUME NEW i \in 0 .. n - 1 PROVE f[i + 1] = f[i] + nums[i + 1]
    <3>1. i + 1 \in 1 .. n /\ f[i] \in Nat
      BY <1>1
    <3>2. f[i + 1] = next[i + 1][f[i]]
      BY <1>2 DEF Follows
    <3> QED
      BY <3>1, <3>2
  <2>2. \A i \in 1 .. n : i - 1 \in 0 .. n - 1 /\ (i - 1) + 1 = i
    BY <1>1
  <2>3. f[0] = 0
    BY <1>2 DEF Follows
  <2> HIDE DEF n, next
  <2> QED
    BY <2>1, <2>2, <2>3
<1>4. Is(f)
  <2> HIDE DEF n
  <2> QED
    BY <1>1, <1>3
<1>5. Is(Sums(nums))
  <2>1. Sums(nums) = CHOOSE g : Is(g)
    BY DEF Sums
  <2> HIDE DEF Is
  <2> QED
    BY <1>4, <2>1
<1>6. Sums(nums) = f
  <2> DEFINE g == Sums(nums)
             Same == {i \in 0 .. n : g[i] = f[i]}
  <2>1. g = [i \in 0 .. n |-> IF i = 0 THEN 0 ELSE g[i - 1] + nums[i]]
    BY <1>5
  <2> HIDE DEF g, n, next
  <2>2. 0 \in Same
    BY <1>1, <1>3, <2>1
  <2>3. ASSUME NEW i \in 0 .. n - 1, i \in Same PROVE i + 1 \in Same
    <3>1. i + 1 \in 1 .. n /\ (i + 1) - 1 = i
      BY <1>1
    <3>2. g[i + 1] = g[i] + nums[i + 1]
      BY <1>1, <2>1, <3>1
    <3> QED
      BY <1>1, <1>3, <2>3, <3>1, <3>2
  <2>4. 0 .. n \subseteq Same
    <3> HIDE DEF Same
    <3> QED
      BY <1>1, <2>2, <2>3, Steps
  <2>5. g = f
    BY <2>1, <2>4
  <2> QED
    BY <2>5 DEF g
<1>7. \A i \in 0 .. n - 1 : f[i + 1] = f[i] + nums[i + 1]
  <2> HIDE DEF n, next
  <2>1. \A i \in 0 .. n - 1 : i + 1 \in 1 .. n /\ (i + 1) - 1 = i
    BY <1>1
  <2> QED
    BY <1>3, <2>1
<1> QED
  BY <1>2, <1>3, <1>6, <1>7

\* What has been counted before j is not less than what was before i, and a
\* thing between them.
LEMMA SumsGrow ==
  ASSUME NEW nums \in Seq(Nat), NEW i \in 0 .. Len(nums), NEW j \in 0 .. Len(nums)
  PROVE  /\ i <= j => Sums(nums)[i] <= Sums(nums)[j]
         /\ i < j => Sums(nums)[i] + nums[i + 1] <= Sums(nums)[j]
<1> DEFINE n == Len(nums)
           f == Sums(nums)
           From(k) == {m \in 0 .. n : k <= m => f[k] <= f[m]}
<1>1. n \in Nat /\ nums \in [1 .. n -> Nat] /\ f \in [0 .. n -> Nat]
  BY SumsAre
<1>2. \A m \in 0 .. n - 1 : f[m + 1] = f[m] + nums[m + 1]
  BY SumsAre
<1>3. ASSUME NEW k \in 0 .. n PROVE 0 .. n \subseteq From(k)
  <2> HIDE DEF f, n
  <2>1. 0 \in From(k)
    BY <1>1
  <2>2. ASSUME NEW m \in 0 .. n - 1, m \in From(k) PROVE m + 1 \in From(k)
    <3>1. m + 1 \in 1 .. n /\ f[m + 1] = f[m] + nums[m + 1] /\ f[m] \in Nat /\ f[m + 1] \in Nat
          /\ nums[m + 1] \in Nat /\ f[k] \in Nat
      BY <1>1, <1>2
    <3> QED
      BY <2>2, <3>1
  <2> HIDE DEF From
  <2> QED
    BY <1>1, <2>1, <2>2, Steps
<1>4. i <= j => f[i] <= f[j]
  BY <1>3
<1>5. i < j => f[i] + nums[i + 1] <= f[j]
  <2>0. i \in 0 .. n /\ j \in 0 .. n
    OBVIOUS
  <2> HIDE DEF f, n
  <2> SUFFICES ASSUME i < j PROVE f[i] + nums[i + 1] <= f[j]
    OBVIOUS
  <2>1. i + 1 \in 0 .. n /\ i \in 0 .. n - 1 /\ i + 1 <= j
    BY <1>1, <2>0
  <2>2. j \in From(i + 1)
    BY <1>3, <2>0, <2>1
  <2> QED
    BY <1>2, <2>1, <2>2
<1> QED
  BY <1>4, <1>5

LEMMA TotalIs ==
  ASSUME NEW nums \in Seq(Nat)
  PROVE  Total(nums) \in Nat /\ Total(nums) = Sums(nums)[Len(nums)]
<1>1. Len(nums) \in 0 .. Len(nums)
  OBVIOUS
<1> QED
  BY <1>1, SumsAre DEF Total

\* h gives for each element of the list its place among the first k of seq,
\* and the list has those in S, in their order.
Picks(list, seq, k, S, h) ==
    /\ h \in [1 .. Len(list) -> 1 .. k]
    /\ \A i, j \in 1 .. Len(list) : i < j => h[i] < h[j]
    /\ \A i \in 1 .. Len(list) : list[i] = seq[h[i]] /\ seq[h[i]] \in S
    /\ \A m \in 1 .. k : seq[m] \in S => \E i \in 1 .. Len(list) : h[i] = m

LEMMA PicksOneMore ==
  ASSUME NEW A, NEW seq \in Seq(A), NEW S, NEW k \in 0 .. Len(seq) - 1,
         NEW list \in Seq(A), NEW h, Picks(list, seq, k, S, h),
         NEW more, more = IF seq[k + 1] \in S THEN Append(list, seq[k + 1]) ELSE list
  PROVE  more \in Seq(A) /\ \E g : Picks(more, seq, k + 1, S, g)
<1>1. k \in Nat /\ k + 1 \in 1 .. Len(seq) /\ seq[k + 1] \in A /\ Len(list) \in Nat
  OBVIOUS
<1>2. CASE seq[k + 1] \notin S
  <2>1. more = list
    BY <1>2
  <2>2. Picks(more, seq, k + 1, S, h)
    <3>1. \A m \in 1 .. k + 1 : m = k + 1 \/ m \in 1 .. k
      BY <1>1
    <3>2. 1 .. k \subseteq 1 .. k + 1
      BY <1>1
    <3>3. h \in [1 .. Len(list) -> 1 .. k + 1]
      BY <3>2 DEF Picks
    <3> QED
      BY <1>2, <2>1, <3>1, <3>3 DEF Picks
  <2> QED
    BY <2>1, <2>2
<1>3. CASE seq[k + 1] \in S
  <2> DEFINE l == Len(list)
             g == [i \in 1 .. l + 1 |-> IF i = l + 1 THEN k + 1 ELSE h[i]]
  <2>1. more = Append(list, seq[k + 1])
    BY <1>3
  <2>2. more \in Seq(A) /\ Len(more) = l + 1 /\ more[l + 1] = seq[k + 1]
        /\ \A i \in 1 .. l : more[i] = list[i]
    BY <1>1, <2>1
  <2>3. \A i \in 1 .. l + 1 : i = l + 1 \/ i \in 1 .. l
    BY <1>1
  <2>4. g[l + 1] = k + 1 /\ \A i \in 1 .. l : g[i] = h[i] /\ h[i] \in 1 .. k
    BY <1>1 DEF Picks
  <2>5. DOMAIN g = 1 .. l + 1 /\ g = [i \in 1 .. l + 1 |-> g[i]]
    OBVIOUS
  <2> HIDE DEF g, l
  <2>6. g \in [1 .. l + 1 -> 1 .. k + 1]
    <3>1. \A i \in 1 .. l + 1 : g[i] \in 1 .. k + 1
      BY <1>1, <2>3, <2>4
    <3> QED
      BY <2>5, <3>1
  <2>7. \A i, j \in 1 .. l + 1 : i < j => g[i] < g[j]
    <3>1. \A i, j \in 1 .. l : i < j => h[i] < h[j]
      BY DEF Picks, l
    <3>2. \A i \in 1 .. l + 1 : ~ (l + 1 < i)
      BY <1>1 DEF l
    <3>3. l \in Nat
      BY <1>1 DEF l
    <3> QED
      BY <1>1, <2>3, <2>4, <3>1, <3>2, <3>3
  <2>8. \A i \in 1 .. l + 1 : more[i] = seq[g[i]] /\ seq[g[i]] \in S
    BY <1>3, <2>2, <2>3, <2>4 DEF Picks, l
  <2>9. \A m \in 1 .. k + 1 : seq[m] \in S => \E i \in 1 .. l + 1 : g[i] = m
    <3>1. \A m \in 1 .. k + 1 : m = k + 1 \/ m \in 1 .. k
      BY <1>1
    <3>2. l + 1 \in 1 .. l + 1 /\ 1 .. l \subseteq 1 .. l + 1
      BY <1>1 DEF l
    <3>3. \A m \in 1 .. k : seq[m] \in S => \E i \in 1 .. l : h[i] = m
      BY DEF Picks, l
    <3> QED
      BY <2>4, <3>1, <3>2, <3>3
  <2>10. Picks(more, seq, k + 1, S, g)
    BY <2>2, <2>6, <2>7, <2>8, <2>9 DEF Picks
  <2> QED
    BY <2>2, <2>10
<1> QED
  BY <1>2, <1>3

LEMMA TakingIs ==
  ASSUME NEW A, NEW seq \in Seq(A), NEW S
  PROVE  Taking(seq, S) \in Seq(A) /\ \E h : Picks(Taking(seq, S), seq, Len(seq), S, h)
<1> DEFINE n == Len(seq)
           next == [i \in 1 .. n |-> [list \in Seq(A) |->
                       IF seq[i] \in S THEN Append(list, seq[i]) ELSE list]]
           Is(f) == f = [i \in 0 .. n |->
                       IF i = 0 THEN <<>>
                       ELSE IF seq[i] \in S THEN Append(f[i - 1], seq[i]) ELSE f[i - 1]]
<1>1. n \in Nat /\ \A i \in 1 .. n : seq[i] \in A
  OBVIOUS
<1>2. <<>> \in Seq(A)
  OBVIOUS
<1>3. PICK f \in [0 .. n -> Seq(A)] : Follows(f, n, <<>>, next)
  <2>1. ASSUME NEW i \in 1 .. n, NEW list \in Seq(A)
        PROVE  (IF seq[i] \in S THEN Append(list, seq[i]) ELSE list) \in Seq(A)
    BY <1>1
  <2>2. next \in [1 .. n -> [Seq(A) -> Seq(A)]]
    BY <2>1
  <2> HIDE DEF next, n
  <2> QED
    BY <1>1, <1>2, <2>2, Unrolling
<1>4. ASSUME NEW i \in 0 .. n - 1
      PROVE  f[i + 1] = IF seq[i + 1] \in S THEN Append(f[i], seq[i + 1]) ELSE f[i]
  <2>1. i + 1 \in 1 .. n /\ f[i] \in Seq(A)
    BY <1>1
  <2>2. f[i + 1] = next[i + 1][f[i]]
    BY <1>3 DEF Follows
  <2> QED
    BY <2>1, <2>2
<1>5. f[0] = <<>>
  BY <1>3 DEF Follows
<1>6. \E g : Is(g)
  <2> HIDE DEF n, next
  <2>1. ASSUME NEW i \in 1 .. n
        PROVE  f[i] = IF seq[i] \in S THEN Append(f[i - 1], seq[i]) ELSE f[i - 1]
    <3>1. i - 1 \in 0 .. n - 1 /\ (i - 1) + 1 = i
      BY <1>1
    <3> QED
      BY <1>4, <3>1
  <2>2. \A i \in 0 .. n : i = 0 \/ i \in 1 .. n
    BY <1>1
  <2>3. Is(f)
    BY <1>5, <2>1, <2>2
  <2> QED
    BY <2>3
<1>7. PICK g : Is(g) /\ Taking(seq, S) = g[n]
  <2>1. Taking(seq, S) = (CHOOSE g : Is(g))[n]
    BY DEF Taking
  <2> HIDE DEF Is
  <2> QED
    BY <1>6, <2>1
<1> DEFINE T == {k \in 0 .. n : g[k] \in Seq(A) /\ \E h : Picks(g[k], seq, k, S, h)}
<1> HIDE DEF next
<1>8. 0 \in T
  <2>1. g[0] = <<>>
    BY <1>1, <1>7
  <2>2. Picks(<<>>, seq, 0, S, <<>>)
    BY DEF Picks
  <2> QED
    BY <1>1, <1>2, <2>1, <2>2
<1>9. ASSUME NEW k \in 0 .. n - 1, k \in T PROVE k + 1 \in T
  <2>1. k + 1 \in 1 .. n /\ k + 1 \in 0 .. n /\ (k + 1) - 1 = k /\ k + 1 # 0
    BY <1>1
  <2>2. g[k + 1] = IF seq[k + 1] \in S THEN Append(g[k], seq[k + 1]) ELSE g[k]
    BY <1>7, <2>1
  <2>3. PICK h : Picks(g[k], seq, k, S, h)
    BY <1>9
  <2>4. g[k + 1] \in Seq(A) /\ \E j : Picks(g[k + 1], seq, k + 1, S, j)
    BY <1>9, <2>2, <2>3, PicksOneMore
  <2> QED
    BY <2>1, <2>4
<1>10. n \in T
  <2> HIDE DEF T
  <2>1. 0 .. n \subseteq T
    BY <1>1, <1>8, <1>9, Steps
  <2> QED
    BY <1>1, <2>1
<1> QED
  BY <1>7, <1>10

LEMMA FunctionIsSeq ==
  ASSUME NEW n \in Nat, NEW A, NEW f \in [1 .. n -> A]
  PROVE  f \in Seq(A) /\ Len(f) = n
OBVIOUS

\* p is the first of the places I, or 0.
LEMMA LeastOf ==
  ASSUME NEW n \in Nat, NEW I \in SUBSET (1 .. n), NEW p, p = IF I # {} THEN Min(I) ELSE 0
  PROVE  /\ p \in 0 .. n
         /\ p = 0 <=> I = {}
         /\ p # 0 => p \in I /\ \A k \in I : p <= k
<1>1. CASE I = {}
  BY <1>1
<1>2. CASE I # {}
  <2>1. I \in SUBSET Nat
    OBVIOUS
  <2>2. \E m \in I : \A k \in I : m <= k
    BY <1>2, <2>1, FirstNumber
  <2>3. Min(I) \in I /\ \A k \in I : Min(I) <= k
    BY <2>2 DEF Min
  <2>4. p = Min(I)
    BY <1>2
  <2>5. p \in I /\ \A k \in I : p <= k
    BY <2>3, <2>4
  <2>6. p \in 1 .. n
    BY <2>5
  <2> QED
    BY <1>2, <2>5, <2>6
<1> QED
  BY <1>1, <1>2

\* The list of the numbers in S, in their order.
Ascending(list, n, S) ==
    /\ list \in Seq(1 .. n)
    /\ \A i, j \in 1 .. Len(list) : i < j => list[i] < list[j]
    /\ \A i \in 1 .. Len(list) : list[i] \in S
    /\ \A m \in 1 .. n : m \in S => \E i \in 1 .. Len(list) : list[i] = m

LEMMA TakingNumbers ==
  ASSUME NEW A, NEW seq \in Seq(A), NEW S
  PROVE  Ascending(Taking(Numbers(seq), S), Len(seq), S)
<1> DEFINE n == Len(seq)
           numbers == Numbers(seq)
           list == Taking(numbers, S)
<1>1. n \in Nat /\ numbers \in [1 .. n -> 1 .. n] /\ \A k \in 1 .. n : numbers[k] = k
  BY DEF Numbers
<1> HIDE DEF n, numbers
<1>2. numbers \in Seq(1 .. n) /\ Len(numbers) = n
  BY <1>1, FunctionIsSeq
<1>3. list \in Seq(1 .. n) /\ \E h : Picks(list, numbers, n, S, h)
  BY <1>2, TakingIs
<1> HIDE DEF list
<1>4. PICK h : Picks(list, numbers, n, S, h)
  BY <1>3
<1>5. \A i \in 1 .. Len(list) : h[i] \in 1 .. n /\ list[i] = h[i] /\ h[i] \in S
  BY <1>1, <1>4 DEF Picks
<1>6. \A i, j \in 1 .. Len(list) : i < j => h[i] < h[j]
  BY <1>4 DEF Picks
<1>7. \A m \in 1 .. n : m \in S => \E i \in 1 .. Len(list) : h[i] = m
  BY <1>1, <1>4 DEF Picks
<1>8. Ascending(list, n, S)
  BY <1>3, <1>5, <1>6, <1>7 DEF Ascending
<1> QED
  BY <1>8 DEF list, numbers, n

\* No number is in such a list twice.
LEMMA AscendingOnce ==
  ASSUME NEW n \in Nat, NEW S, NEW list, Ascending(list, n, S)
  PROVE  /\ Len(list) \in Nat
         /\ \A i, j \in 1 .. Len(list) : list[i] = list[j] => i = j
<1>1. list \in Seq(1 .. n) /\ Len(list) \in Nat /\ \A i \in 1 .. Len(list) : list[i] \in 1 .. n
  BY DEF Ascending
<1>2. \A i, j \in 1 .. Len(list) : i < j => list[i] < list[j]
  BY DEF Ascending
<1> QED
  BY <1>1, <1>2

\* p is the first place of v in the list, or 0.
Place(list, v) == SelectInSeq(list, LAMBDA k : k = v)

LEMMA PlaceIs ==
  ASSUME NEW A, NEW list \in Seq(A), NEW v
  PROVE  /\ Place(list, v) \in 0 .. Len(list)
         /\ Place(list, v) = 0 <=> v \notin Range(list)
         /\ Place(list, v) # 0 => list[Place(list, v)] = v
<1> DEFINE I == {i \in 1 .. Len(list) : list[i] = v}
<1>1. Place(list, v) = IF I # {} THEN Min(I) ELSE 0
  BY DEF Place, SelectInSeq
<1>2. Len(list) \in Nat /\ I \in SUBSET (1 .. Len(list))
  OBVIOUS
<1>3. v \notin Range(list) <=> I = {}
  BY RangeEquality
<1> DEFINE p == Place(list, v)
<1> HIDE DEF I
<1>4. p \in 0 .. Len(list) /\ (p = 0 <=> I = {}) /\ (p # 0 => p \in I)
  BY <1>1, <1>2, LeastOf
<1> QED
  BY <1>3, <1>4 DEF I

\* The number of m in an ascending list is its place.
LEMMA PlaceAscending ==
  ASSUME NEW n \in Nat, NEW S, NEW list, Ascending(list, n, S)
  PROVE  /\ \A m : Place(list, m) \in 0 .. Len(list)
         /\ \A m \in 1 .. n : Place(list, m) = 0 <=> m \notin S
         /\ \A m : Place(list, m) # 0 => list[Place(list, m)] = m
         /\ \A i \in 1 .. Len(list) : Place(list, list[i]) = i
<1>1. list \in Seq(1 .. n) /\ Len(list) \in Nat
  BY DEF Ascending
<1>2. \A m : /\ Place(list, m) \in 0 .. Len(list)
             /\ Place(list, m) = 0 <=> m \notin Range(list)
             /\ Place(list, m) # 0 => list[Place(list, m)] = m
  BY <1>1, PlaceIs
<1>3. Range(list) = {list[i] : i \in 1 .. Len(list)}
  BY <1>1, RangeEquality
<1>4. \A m \in 1 .. n : m \in Range(list) <=> m \in S
  BY <1>1, <1>3 DEF Ascending
<1>5. ASSUME NEW i \in 1 .. Len(list) PROVE Place(list, list[i]) = i
  <2>1. Place(list, list[i]) \in 1 .. Len(list) /\ list[Place(list, list[i])] = list[i]
    BY <1>1, <1>2, <1>3
  <2> QED
    BY <2>1, AscendingOnce
<1> QED
  BY <1>2, <1>4, <1>5

\* What the list that strings all lists of seqs together has at each place.
LEMMA FlattenIs ==
  ASSUME NEW A, NEW seqs \in Seq(Seq(A)), NEW lens \in Seq(Nat), Len(lens) = Len(seqs),
         \A i \in 1 .. Len(seqs) : lens[i] = Len(seqs[i])
  PROVE  /\ FlattenSeq(seqs) \in Seq(A)
         /\ Len(FlattenSeq(seqs)) = Total(lens)
         /\ \A i \in 1 .. Len(seqs) : \A j \in 1 .. Len(seqs[i]) :
               FlattenSeq(seqs)[Sums(lens)[i - 1] + j] = seqs[i][j]
<1> DEFINE n == Len(seqs)
           next == [i \in 1 .. n |-> [list \in Seq(A) |-> list \o seqs[i]]]
           Is(f) == f = [i \in 1 .. n |-> IF i = 1 THEN seqs[i] ELSE f[i - 1] \o seqs[i]]
<1>0. n \in Nat
  OBVIOUS
<1>1. \A i \in 1 .. n : seqs[i] \in Seq(A) /\ Len(seqs[i]) \in Nat
  OBVIOUS
<1>2. <<>> \in Seq(A) /\ Len(<<>>) = 0
  BY EmptySeq
<1>3. lens \in Seq(Nat) /\ Len(lens) = n /\ \A i \in 1 .. n : lens[i] = Len(seqs[i])
  OBVIOUS
<1>4. PICK f \in [0 .. n -> Seq(A)] : Follows(f, n, <<>>, next)
  <2>1. \A i \in 1 .. n, list \in Seq(A) : list \o seqs[i] \in Seq(A)
    BY <1>0, <1>1, ConcatProperties
  <2>2. next \in [1 .. n -> [Seq(A) -> Seq(A)]]
    BY <2>1
  <2> HIDE DEF next, n
  <2> QED
    BY <1>0, <1>1, <1>2, <2>2, Unrolling
<1>5. ASSUME NEW i \in 0 .. n - 1 PROVE f[i + 1] = f[i] \o seqs[i + 1]
  <2>1. i + 1 \in 1 .. n /\ i \in 0 .. n
    BY <1>0
  <2>3. f[i] \in Seq(A)
    BY <2>1
  <2>2. f[i + 1] = next[i + 1][f[i]]
    BY <1>4 DEF Follows
  <2> QED
    BY <2>1, <2>2, <2>3
<1>6. f[0] = <<>>
  BY <1>4 DEF Follows
<1> HIDE DEF next
<1>7. CASE n = 0
  <2>1. FlattenSeq(seqs) = seqs /\ seqs = <<>>
    BY <1>7, EmptySeq DEF FlattenSeq
  <2>2. Total(lens) = 0
    BY <1>0, <1>3, <1>7, SumsAre DEF Total
  <2> QED
    BY <1>0, <1>1, <1>2, <1>3, <1>7, <2>1, <2>2
<1>8. CASE n # 0
  <2> DEFINE s == Sums(lens)
  <2>1. \E g : Is(g)
    <3> DEFINE g == [i \in 1 .. n |-> f[i]]
    <3>1. ASSUME NEW i \in 1 .. n
          PROVE  g[i] = IF i = 1 THEN seqs[i] ELSE g[i - 1] \o seqs[i]
      <4>1. i - 1 \in 0 .. n - 1 /\ (i - 1) + 1 = i
        BY <1>0, <1>1
      <4>2. f[i] = f[i - 1] \o seqs[i]
        BY <1>5, <4>1
      <4>3. i = 1 => f[i] = seqs[i]
        <5>1. <<>> \o seqs[i] = seqs[i]
          BY <1>0, <1>1, ConcatEmptySeq
        <5>2. i = 1 => i - 1 = 0
          OBVIOUS
        <5> QED
          BY <1>6, <4>2, <5>1, <5>2
      <4>4. i # 1 => i - 1 \in 1 .. n
        BY <1>0, <1>1
      <4> HIDE DEF n
      <4> QED
        BY <4>2, <4>3, <4>4
    <3>2. g = [i \in 1 .. n |-> g[i]]
      OBVIOUS
    <3> HIDE DEF g, n
    <3>3. Is(g)
      BY <3>1, <3>2
    <3> QED
      BY <3>3
  <2>2. PICK g : Is(g) /\ FlattenSeq(seqs) = g[n]
    <3>1. FlattenSeq(seqs) = (CHOOSE g : Is(g))[n]
      BY <1>8 DEF FlattenSeq
    <3> HIDE DEF Is
    <3> QED
      BY <2>1, <3>1
  <2>3. s[0] = 0 /\ s \in [0 .. n -> Nat] /\ \A i \in 0 .. n - 1 : s[i + 1] = s[i] + lens[i + 1]
    BY <1>3, SumsAre
  <2> HIDE DEF n, s
  <2> DEFINE Good(k) == /\ f[k] \in Seq(A) /\ Len(f[k]) = s[k]
                        /\ \A i \in 1 .. k : \A j \in 1 .. Len(seqs[i]) :
                              f[k][s[i - 1] + j] = seqs[i][j]
             T == {k \in 0 .. n : Good(k)}
  <2>4. 0 \in T
    BY <1>0, <1>1, <1>2, <1>6, <2>3
  <2>5. ASSUME NEW k \in 0 .. n - 1, k \in T PROVE k + 1 \in T
    <3>1. k + 1 \in 1 .. n /\ k + 1 \in 0 .. n /\ k \in 0 .. n /\ k \in Nat
      BY <1>0, <1>1
    <3>2. f[k + 1] = f[k] \o seqs[k + 1] /\ f[k] \in Seq(A) /\ Len(f[k]) = s[k]
      BY <1>5, <2>5
    <3>3. seqs[k + 1] \in Seq(A)
      BY <1>0, <1>1, <3>1
    <3> DEFINE a == f[k]
               b == seqs[k + 1]
    <3>4. /\ f[k + 1] \in Seq(A)
          /\ Len(f[k + 1]) = s[k] + Len(b)
          /\ \A m \in 1 .. s[k] + Len(b) :
                f[k + 1][m] = IF m <= s[k] THEN a[m] ELSE b[m - s[k]]
      <4>1. f[k + 1] = a \o b /\ a \in Seq(A) /\ b \in Seq(A) /\ Len(a) = s[k]
        BY <3>2, <3>3
      <4> HIDE DEF a, b
      <4>2. /\ a \o b \in Seq(A)
            /\ Len(a \o b) = Len(a) + Len(b)
            /\ \A m \in 1 .. Len(a) + Len(b) :
                  (a \o b)[m] = IF m <= Len(a) THEN a[m] ELSE b[m - Len(a)]
        BY <4>1, ConcatProperties
      <4> QED
        BY <4>1, <4>2, Zenon
    <3>5. Len(f[k + 1]) = s[k + 1] /\ s[k] \in Nat /\ lens[k + 1] = Len(seqs[k + 1])
      BY <1>3, <2>3, <3>1, <3>2, <3>4
    <3>6. ASSUME NEW i \in 1 .. k + 1, NEW j \in 1 .. Len(seqs[i])
          PROVE  f[k + 1][s[i - 1] + j] = seqs[i][j]
      <4>1. CASE i = k + 1
        <5>1. i - 1 = k
          BY <3>1, <4>1
        <5>2. s[k] \in Nat /\ Len(b) \in Nat /\ j \in 1 .. Len(b)
          BY <1>1, <3>1, <3>5, <4>1
        <5>3. s[k] + j \in 1 .. s[k] + Len(b) /\ ~ (s[k] + j <= s[k]) /\ (s[k] + j) - s[k] = j
          <6>1. \A x, y, z \in Nat : z >= 1 /\ z <= y =>
                   x + z \in 1 .. x + y /\ ~ (x + z <= x) /\ (x + z) - x = z
            OBVIOUS
          <6>2. PICK x, y, z \in Nat : x = s[k] /\ y = Len(b) /\ z = j /\ z >= 1 /\ z <= y
            <7> HIDE DEF b
            <7> QED
              BY <5>2
          <6>3. x + z \in 1 .. x + y /\ ~ (x + z <= x) /\ (x + z) - x = z
            BY <6>1, <6>2
          <6> HIDE DEF b
          <6> QED
            BY <6>2, <6>3, Zenon
        <5>4. f[k + 1][s[k] + j] = b[j]
          BY <3>4, <5>3
        <5> QED
          BY <4>1, <5>1, <5>4
      <4>2. CASE i # k + 1
        <5>1. i \in 1 .. k /\ i - 1 \in 0 .. n - 1 /\ (i - 1) + 1 = i /\ i \in 1 .. n /\ i \in 0 .. n
          BY <1>0, <1>1, <3>1, <4>2
        <5>2. f[k][s[i - 1] + j] = seqs[i][j]
          BY <2>5, <5>1
        <5>3. s[i] = s[i - 1] + Len(seqs[i])
          BY <1>3, <2>3, <5>1
        <5>4. s[i] <= s[k]
          <6>1. Len(lens) = n
            BY <1>3
          <6>2. i <= k
            BY <5>1
          <6> QED
            BY <1>3, <3>1, <5>1, <6>1, <6>2, SumsGrow DEF s
        <5>5. s[i - 1] \in Nat /\ j \in Nat /\ j >= 1 /\ j <= Len(seqs[i]) /\ Len(seqs[i]) \in Nat
          <6>1. i - 1 \in 0 .. n
            BY <1>0, <5>1
          <6>2. s[i - 1] \in Nat
            BY <2>3, <6>1
          <6>3. Len(seqs[i]) \in Nat
            BY <1>1, <5>1
          <6> QED
            BY <6>2, <6>3
        <5>6. s[k] \in Nat /\ Len(b) \in Nat /\ s[i] \in Nat
          BY <1>1, <2>3, <3>1, <3>5, <5>1
        <5>7. \A x, y, z, w, c \in Nat : x = y + z /\ x <= w /\ j >= 1 /\ j <= z /\ j \in Nat
                  => y + j \in 1 .. w + c /\ y + j <= w
          OBVIOUS
        <5>8. s[i - 1] + j \in 1 .. s[k] + Len(b) /\ s[i - 1] + j <= s[k]
          <6> HIDE DEF b
          <6> QED
            BY <5>3, <5>4, <5>5, <5>6, <5>7
        <5>9. f[k + 1][s[i - 1] + j] = a[s[i - 1] + j]
          BY <3>4, <5>8
        <5> QED
          BY <5>2, <5>9
      <4> QED
        BY <4>1, <4>2
    <3> QED
      BY <3>1, <3>4, <3>5, <3>6
  <2>6. n \in T
    <3> HIDE DEF T
    <3>1. 0 .. n \subseteq T
      BY <1>0, <1>1, <2>4, <2>5, Steps
    <3> QED
      BY <1>0, <1>1, <3>1
  <2>7. g[n] = f[n]
    <3> DEFINE U == {k \in 0 .. n : k = 0 \/ g[k] = f[k]}
    <3>1. 0 \in U
      BY <1>0, <1>1
    <3>2. ASSUME NEW k \in 0 .. n - 1, k \in U PROVE k + 1 \in U
      <4>1. k + 1 \in 1 .. n /\ k + 1 \in 0 .. n /\ (k + 1) - 1 = k /\ (k + 1 = 1 <=> k = 0)
        BY <1>0, <1>1
      <4>2. g[k + 1] = IF k + 1 = 1 THEN seqs[k + 1] ELSE g[k] \o seqs[k + 1]
        BY <2>2, <4>1
      <4>3. f[k + 1] = f[k] \o seqs[k + 1]
        BY <1>5
      <4>4. <<>> \o seqs[k + 1] = seqs[k + 1]
        BY <1>0, <1>1, <4>1, ConcatEmptySeq
      <4> QED
        BY <1>6, <3>2, <4>1, <4>2, <4>3, <4>4
    <3>3. n \in U
      <4> HIDE DEF U
      <4>1. 0 .. n \subseteq U
        BY <1>0, <1>1, <3>1, <3>2, Steps
      <4> QED
        BY <1>0, <1>1, <4>1
    <3> QED
      BY <1>8, <3>3
  <2>8. Total(lens) = s[n]
    BY <1>3 DEF Total, s
  <2>9. Good(n)
    BY <2>6
  <2>10. FlattenSeq(seqs) = f[n]
    BY <2>2, <2>7
  <2>11. /\ FlattenSeq(seqs) \in Seq(A) /\ Len(FlattenSeq(seqs)) = Total(lens)
         /\ \A i \in 1 .. n : \A j \in 1 .. Len(seqs[i]) :
               FlattenSeq(seqs)[s[i - 1] + j] = seqs[i][j]
    BY <2>8, <2>9, <2>10
  <2> QED
    BY <1>3, <2>11 DEF n, s
<1> QED
  BY <1>7, <1>8

-----------------------------------------------------------------------------
(***************************************************************************)
(* The invariant                                                           *)
(***************************************************************************)

\* What a bank of images may hold.
Sized(bank) ==
    /\ DOMAIN bank \subseteq Keys
    /\ \A key \in DOMAIN bank : bank[key] \in Sizes /\ (key \in Images => bank[key] # 0)

Typed ==
    /\ files \in Contents
    /\ disk \in [Images -> Sizes]
    /\ gltfs \subseteq Paths

\* A material has textures of its document only.
Textured ==
    \A k \in DOMAIN materials :
        \E path \in Paths : \E i \in 1 .. Len(files[path].materials) :
            /\ k = <<path, i>>
            /\ Range(materials[k]) \subseteq Images \cup
                  {<<path, files[path].materials[i].mr, files[path].materials[i].ao>>}

\* A model is what its document says.
Filed ==
    \A path \in DOMAIN models :
        /\ path \in Paths
        /\ models[path] = ImportModel(files[path])
        /\ ~ Overruns(files[path])

Working == {"ormh", "alb", "nrm", "emi", "file"}

\* An import has all materials before the one at hand.
Tasked ==
    task # Idle =>
        /\ task = [step |-> task.step, path |-> task.path, mat |-> task.mat, bound |-> task.bound]
        /\ task.step \in Working \cup {"find"}
        /\ task.path \in Paths
        /\ task.mat \in Nat \ {0}
        /\ \A m \in 1 .. task.mat - 1 : <<task.path, m>> \in DOMAIN materials

\* The slots that a material at this step has been through.
Done == [ormh |-> {}, alb |-> {}, nrm |-> {"alb"}, emi |-> {"alb", "nrm"},
         file |-> {"alb", "nrm", "emi"}]

\* A slot that is through has its image or will not have it in this import.
Settled(slot) ==
    IF Material[slot] \in DOMAIN images
    THEN slot \in DOMAIN task.bound /\ task.bound[slot] = Material[slot]
    ELSE /\ slot \notin DOMAIN task.bound
         /\ Material[slot] = NoTex \/ disk[Material[slot]] = 0

OrmhSettled ==
    IF Material.mr = NoTex /\ Material.ao = NoTex
    THEN "ormh" \notin DOMAIN task.bound
    ELSE "ormh" \in DOMAIN task.bound /\ task.bound.ormh = OrmhKey

\* The two sources of the ORMH image do not fit.
Unfit ==
    /\ task.step = "file" /\ task.bound = <<>>
    /\ OrmhKey \notin DOMAIN images
    /\ {Material.mr, Material.ao} \subseteq DOMAIN images
    /\ images[Material.mr] # images[Material.ao]

Halfway ==
    task.step \in Working =>
        /\ task.mat <= Len(Doc.materials)
        /\ DOMAIN task.bound \subseteq {"ormh"} \cup Done[task.step]
        /\ Range(task.bound) \subseteq Images \cup {OrmhKey}
        /\ task.step = "ormh" => task.bound = <<>>
        /\ \/ task.step = "ormh"
           \/ OrmhSettled /\ \A slot \in Done[task.step] : Settled(slot)
           \/ Unfit

Halted ==
    halted # NoTex =>
        /\ halted \in Paths
        /\ \/ Overruns(files[halted])
           \/ halted \in DOMAIN models /\ (Jointless(halted) \/ Flat(halted))

Importing ==
    /\ Typed /\ ImportInv /\ Textured /\ Filed /\ Tasked /\ Halfway /\ Halted

-----------------------------------------------------------------------------
(***************************************************************************)
(* Banks                                                                   *)
(***************************************************************************)

LEMMA KeysApart ==
  /\ NoTex \notin Keys
  /\ \A path \in Paths, mr, ao \in Images \cup {NoTex} :
        <<path, mr, ao>> \in Keys /\ <<path, mr, ao>> \notin Images
BY KeysAssumption DEF Keys

\* The textures of a material.
LEMMA DocumentOf ==
  ASSUME files \in Contents, NEW path \in Paths
  PROVE  /\ Len(files[path].materials) \in Nat
         /\ Parsed(files[path]) /\ Usable(files[path])
         /\ \A i \in 1 .. Len(files[path].materials) :
               /\ \A slot \in {"mr", "ao", "alb", "nrm", "emi"} :
                     files[path].materials[i][slot] \in Images \cup {NoTex}
               /\ files[path].materials[i].mr \in Images \cup {NoTex}
               /\ files[path].materials[i].ao \in Images \cup {NoTex}
<1>1. /\ files[path].materials \in Seq(Materials)
      /\ Parsed(files[path]) /\ Usable(files[path])
  BY DocsAssumption
<1>2. \A i \in 1 .. Len(files[path].materials) : files[path].materials[i] \in Materials
  BY <1>1, ElementOfSeq
<1>3. Len(files[path].materials) \in Nat
  BY <1>1, LenProperties
<1> QED
  BY <1>1, <1>2, <1>3 DEF Materials

\* More is in the bank, and nothing else has changed.
Grown(bank, more) ==
    DOMAIN bank \subseteq DOMAIN more /\ \A k \in DOMAIN bank : more[k] = bank[k]

LEMMA GrownTwice ==
  ASSUME NEW bank, NEW more, NEW most, Grown(bank, more), Grown(more, most)
  PROVE  Grown(bank, most)
BY DEF Grown

LEMMA FetchIs ==
  ASSUME NEW bank, NEW key \in Images \cup {NoTex}, Sized(bank), disk \in [Images -> Sizes]
  PROVE  /\ Sized(Fetch(bank, key)) /\ Grown(bank, Fetch(bank, key))
         /\ \A k \in DOMAIN Fetch(bank, key) :
               k \in DOMAIN bank \/ (k \in Images /\ disk[k] # 0)
         /\ key \in DOMAIN Fetch(bank, key) \/ key = NoTex \/ disk[key] = 0
<1>1. CASE key = NoTex \/ key \in DOMAIN bank \/ disk[key] = 0
  <2>1. Fetch(bank, key) = bank
    BY <1>1 DEF Fetch
  <2> QED
    BY <1>1, <2>1 DEF Grown
<1>2. CASE key # NoTex /\ key \notin DOMAIN bank /\ disk[key] # 0
  <2>1. Fetch(bank, key) = Put(bank, key, disk[key]) /\ key \in Images /\ disk[key] \in Sizes
    BY <1>2 DEF Fetch
  <2>2. key \in Keys
    BY <2>1 DEF Keys
  <2> DEFINE more == Put(bank, key, disk[key])
  <2>3. DOMAIN more = DOMAIN bank \cup {key} /\ more[key] = disk[key]
        /\ \A k \in DOMAIN bank : more[k] = bank[k]
    BY <1>2 DEF Put
  <2> HIDE DEF more
  <2>4. Sized(more)
    BY <1>2, <2>1, <2>2, <2>3 DEF Sized
  <2>5. Grown(bank, more)
    BY <2>3 DEF Grown
  <2>6. Fetch(bank, key) = more
    BY <2>1 DEF more
  <2> QED
    BY <1>2, <2>1, <2>3, <2>4, <2>5, <2>6
<1> QED
  BY <1>1, <1>2

\* Filing an image under the key of a pair.
LEMMA OrmhIs ==
  ASSUME NEW bank, NEW key \in Keys \ Images, NEW size \in Sizes, Sized(bank), key \notin DOMAIN bank
  PROVE  /\ Sized(Put(bank, key, size)) /\ Grown(bank, Put(bank, key, size))
         /\ DOMAIN Put(bank, key, size) = DOMAIN bank \cup {key}
<1> DEFINE more == Put(bank, key, size)
<1>1. DOMAIN more = DOMAIN bank \cup {key} /\ more[key] = size
      /\ \A k \in DOMAIN bank : more[k] = bank[k]
  BY DEF Put
<1> HIDE DEF more
<1>2. Sized(more) /\ Grown(bank, more)
  BY <1>1 DEF Sized, Grown
<1> QED
  BY <1>1, <1>2 DEF more

-----------------------------------------------------------------------------
(***************************************************************************)
(* Steps of an import                                                      *)
(***************************************************************************)

LEMMA IdleIs == Idle.step = "idle"
BY DEF Idle

\* What is at hand while a material is made.
LEMMA AtWork ==
  ASSUME Typed, Tasked, Halfway, task.step \in Working
  PROVE  /\ task # Idle /\ task.path \in Paths
         /\ task.mat \in 1 .. Len(Doc.materials)
         /\ \A slot \in {"mr", "ao", "alb", "nrm", "emi"} : Material[slot] \in Images \cup {NoTex}
         /\ Material.mr \in Images \cup {NoTex} /\ Material.ao \in Images \cup {NoTex}
         /\ OrmhKey \in Keys \ Images
<1>1. task # Idle
  BY IdleIs DEF Working
<1>2. task.path \in Paths /\ task.mat \in Nat \ {0} /\ task.mat <= Len(Doc.materials)
  BY <1>1 DEF Tasked, Halfway
<1>3. files \in Contents
  BY DEF Typed
<1>4. Len(Doc.materials) \in Nat
  BY <1>2, <1>3, DocumentOf DEF Doc
<1>5. task.mat \in 1 .. Len(Doc.materials)
  BY <1>2, <1>4
<1>6. /\ \A slot \in {"mr", "ao", "alb", "nrm", "emi"} : Material[slot] \in Images \cup {NoTex}
      /\ Material.mr \in Images \cup {NoTex} /\ Material.ao \in Images \cup {NoTex}
  BY <1>2, <1>3, <1>5, DocumentOf DEF Material, Doc
<1>7. OrmhKey \in Keys \ Images
  BY <1>2, <1>6, KeysApart DEF OrmhKey
<1> QED
  BY <1>1, <1>2, <1>5, <1>6, <1>7

\* The task goes on with the same material.
LEMMA GoesOn ==
  ASSUME Tasked, task # Idle, NEW s \in Working, NEW b, GoOn(s, b),
         UNCHANGED <<files, materials>>
  PROVE  /\ task' # Idle /\ Tasked'
         /\ task'.step = s /\ task'.bound = b /\ task'.path = task.path /\ task'.mat = task.mat
         /\ Doc' = Doc /\ Material' = Material /\ OrmhKey' = OrmhKey
         /\ MaterialKey' = MaterialKey
<1>1. /\ task = [step |-> task.step, path |-> task.path, mat |-> task.mat, bound |-> task.bound]
      /\ task.path \in Paths /\ task.mat \in Nat \ {0}
      /\ \A m \in 1 .. task.mat - 1 : <<task.path, m>> \in DOMAIN materials
  BY DEF Tasked
<1>2. task' = [step |-> s, path |-> task.path, mat |-> task.mat, bound |-> b]
  BY <1>1 DEF GoOn
<1>3. task'.step = s /\ task'.bound = b /\ task'.path = task.path /\ task'.mat = task.mat
  BY <1>2
<1>4. task' # Idle
  BY <1>3, IdleIs DEF Working
<1>5. task' = [step |-> task'.step, path |-> task'.path, mat |-> task'.mat, bound |-> task'.bound]
  BY <1>2, <1>3
<1>6. Tasked'
  BY <1>1, <1>3, <1>5 DEF Tasked
<1>7. Doc' = Doc /\ Material' = Material /\ OrmhKey' = OrmhKey /\ MaterialKey' = MaterialKey
  BY <1>3 DEF Doc, Material, OrmhKey, MaterialKey
<1> QED
  BY <1>3, <1>4, <1>6, <1>7

\* The next material is looked up.
LEMMA GoesToNext ==
  ASSUME Typed, Tasked, task # Idle, NextMaterial, UNCHANGED files,
         DOMAIN materials \cup {MaterialKey} \subseteq DOMAIN materials'
  PROVE  /\ task' # Idle /\ Tasked' /\ Halfway'
         /\ task'.bound = <<>> /\ task'.path = task.path
<1>1. /\ task = [step |-> task.step, path |-> task.path, mat |-> task.mat, bound |-> task.bound]
      /\ task.path \in Paths /\ task.mat \in Nat \ {0}
      /\ \A m \in 1 .. task.mat - 1 : <<task.path, m>> \in DOMAIN materials
  BY DEF Tasked
<1>2. task' = [step |-> "find", path |-> task.path, mat |-> task.mat + 1, bound |-> <<>>]
  BY <1>1 DEF NextMaterial
<1>3. task'.step = "find" /\ task'.bound = <<>> /\ task'.path = task.path
      /\ task'.mat = task.mat + 1
  BY <1>2
<1>4. task' # Idle /\ Halfway'
  BY <1>3, IdleIs DEF Working, Halfway
<1>5. \A m \in 1 .. task'.mat - 1 : <<task'.path, m>> \in DOMAIN materials'
  <2>1. \A m \in 1 .. task'.mat - 1 : m \in 1 .. task.mat - 1 \/ m = task.mat
    BY <1>1, <1>3
  <2> QED
    BY <1>1, <1>3, <2>1 DEF MaterialKey
<1>6. task' = [step |-> task'.step, path |-> task'.path, mat |-> task'.mat, bound |-> task'.bound]
  BY <1>2, <1>3
<1>7. Tasked'
  BY <1>1, <1>3, <1>5, <1>6 DEF Tasked
<1> QED
  BY <1>3, <1>4, <1>7

\* The banks still agree when nothing but images has been added.
LEMMA ImagesGrow ==
  ASSUME ImportInv, UNCHANGED <<files, gltfs, materials, models, forged>>,
         Sized(images'), Grown(images, images'),
         task' # Idle => task'.path \in gltfs /\ Range(task'.bound) \subseteq DOMAIN images'
  PROVE  ImportInv'
BY DEF ImportInv, Sized, Grown

\* What no step of an import changes.
LEMMA Settling ==
  ASSUME Typed, Textured, Filed, UNCHANGED <<files, disk, gltfs, materials, models>>
  PROVE  Typed' /\ Textured' /\ Filed'
<1>1. Typed'
  BY DEF Typed
<1>2. Textured'
  BY DEF Textured
<1>3. Filed'
  BY DEF Filed
<1> QED
  BY <1>1, <1>2, <1>3

LEMMA HaltedKept ==
  ASSUME halted = NoTex, UNCHANGED halted
  PROVE  Halted'
BY DEF Halted

LEMMA RewriteKeeps ==
  ASSUME Importing, halted = NoTex, Rewrite
  PROVE  Importing'
<1> USE DEF Importing
<1>1. task = Idle /\ UNCHANGED <<files, gltfs, images, materials, models, task, forged, mass, halted>>
  BY DEF Rewrite, banks
<1>2. Typed'
  BY <1>1 DEF Typed, Rewrite
<1>3. ImportInv'
  BY <1>1 DEF ImportInv
<1>4. Textured' /\ Filed'
  BY <1>1 DEF Textured, Filed
<1>5. Tasked'
  BY <1>1 DEF Tasked
<1>6. Halfway'
  BY <1>1, IdleIs DEF Halfway, Working
<1>7. Halted'
  BY <1>1, HaltedKept
<1> QED
  BY <1>2, <1>3, <1>4, <1>5, <1>6, <1>7

LEMMA RequestKeeps ==
  ASSUME Importing, halted = NoTex, NEW path \in Paths, Request(path)
  PROVE  Importing'
<1> USE DEF Importing
<1>1. task = Idle /\ UNCHANGED <<files, disk, images, materials, models, forged, halted>>
  BY DEF Request
<1>2. CASE UNCHANGED <<gltfs, task>>
  <2>1. Typed' /\ Textured' /\ Filed'
    BY <1>1, <1>2, Settling
  <2>2. ImportInv'
    BY <1>1, <1>2 DEF ImportInv
  <2>3. Tasked'
    BY <1>1, <1>2 DEF Tasked
  <2>4. Halfway'
    BY <1>1, <1>2, IdleIs DEF Halfway, Working
  <2>5. Halted'
    BY <1>1, HaltedKept
  <2> QED
    BY <2>1, <2>2, <2>3, <2>4, <2>5
<1>3. CASE /\ gltfs' = gltfs \cup {path}
           /\ task' = [step |-> "find", path |-> path, mat |-> 1, bound |-> <<>>]
  <2>1. task'.step = "find" /\ task'.path = path /\ task'.mat = 1 /\ task'.bound = <<>>
    BY <1>3
  <2>2. Typed'
    BY <1>1, <1>3 DEF Typed
  <2>3. Textured' /\ Filed'
    BY <1>1 DEF Textured, Filed
  <2>4. ImportInv'
    <3>1. Range(task'.bound) = {}
      BY <2>1 DEF Range
    <3> QED
      BY <1>1, <1>3, <2>1, <3>1 DEF ImportInv
  <2>5. Tasked'
    <3>1. task' = [step |-> task'.step, path |-> task'.path, mat |-> task'.mat, bound |-> task'.bound]
      BY <1>3, <2>1
    <3>2. 1 .. task'.mat - 1 = {}
      BY <2>1
    <3> QED
      BY <2>1, <3>1, <3>2 DEF Tasked
  <2>6. Halfway'
    BY <2>1 DEF Halfway, Working
  <2>7. Halted'
    BY <1>1, HaltedKept
  <2> QED
    BY <2>2, <2>3, <2>4, <2>5, <2>6, <2>7
<1> QED
  BY <1>2, <1>3 DEF Request

LEMMA FindMaterialKeeps ==
  ASSUME Importing, halted = NoTex, FindMaterial
  PROVE  Importing'
<1> USE DEF Importing
<1>1. /\ task.step = "find" /\ task.mat <= Len(Doc.materials)
      /\ UNCHANGED <<files, disk, gltfs, images, materials, models, forged, mass, halted>>
  BY DEF FindMaterial, banks, At
<1>2. task # Idle
  BY <1>1, IdleIs
<1>3. Typed' /\ Textured' /\ Filed' /\ Halted'
  BY <1>1, Settling, HaltedKept
<1>4. task.path \in gltfs
  BY <1>2 DEF ImportInv
<1>5. ASSUME task' # Idle, task'.path = task.path, task'.bound = <<>>
      PROVE  ImportInv'
  <2>1. Range(task'.bound) = {}
    BY <1>5 DEF Range
  <2> QED
    BY <1>1, <1>4, <1>5, <2>1 DEF ImportInv
<1>6. CASE MaterialKey \in DOMAIN materials /\ NextMaterial
  BY <1>1, <1>2, <1>3, <1>5, <1>6, GoesToNext
<1>7. CASE GoOn("ormh", <<>>)
  <2>1. "ormh" \in Working
    BY DEF Working
  <2>2. /\ task' # Idle /\ Tasked'
        /\ task'.step = "ormh" /\ task'.bound = <<>> /\ task'.path = task.path
        /\ task'.mat = task.mat /\ Doc' = Doc
    BY <1>1, <1>2, <1>7, <2>1, GoesOn
  <2>3. Halfway'
    <3>1. DOMAIN task'.bound = {} /\ Range(task'.bound) = {}
      BY <2>2 DEF Range
    <3> QED
      BY <1>1, <2>2, <3>1 DEF Halfway
  <2> QED
    BY <1>3, <1>5, <2>2, <2>3
<1> QED
  BY <1>6, <1>7 DEF FindMaterial

\* The banks when the images may have grown and the material goes on.
LEMMA GoesOnKeeps ==
  ASSUME Importing, halted = NoTex, task.step \in Working, NEW s \in Working, NEW b, GoOn(s, b),
         UNCHANGED <<files, disk, gltfs, materials, models, forged, halted>>,
         Sized(images'), Grown(images, images'), Range(b) \subseteq DOMAIN images'
  PROVE  /\ Typed' /\ ImportInv' /\ Textured' /\ Filed' /\ Tasked' /\ Halted'
         /\ task'.step = s /\ task'.bound = b /\ task'.mat = task.mat
         /\ Doc' = Doc /\ Material' = Material /\ OrmhKey' = OrmhKey
<1> USE DEF Importing
<1>1. task # Idle
  BY AtWork
<1>2. /\ task' # Idle /\ Tasked'
      /\ task'.step = s /\ task'.bound = b /\ task'.path = task.path /\ task'.mat = task.mat
      /\ Doc' = Doc /\ Material' = Material /\ OrmhKey' = OrmhKey
  BY <1>1, GoesOn
<1>3. Typed' /\ Textured' /\ Filed' /\ Halted'
  BY Settling, HaltedKept
<1>4. task.path \in gltfs
  BY <1>1 DEF ImportInv
<1>5. ImportInv'
  BY <1>2, <1>4, ImagesGrow
<1> QED
  BY <1>2, <1>3, <1>5

LEMMA SizedNow == ASSUME ImportInv PROVE Sized(images) /\ Grown(images, images)
BY DEF ImportInv, Sized, Grown

\* The ORMH slot is the first to be bound.
LEMMA WithOrmhIs ==
  ASSUME task.bound = <<>>
  PROVE  /\ DOMAIN WithOrmh = {"ormh"} /\ WithOrmh["ormh"] = OrmhKey
         /\ Range(WithOrmh) = {OrmhKey}
BY DEF WithOrmh, Put, Range

LEMMA NoOrmhKeeps ==
  ASSUME Importing, halted = NoTex, NoOrmh
  PROVE  Importing'
<1> USE DEF Importing
<1>1. /\ task.step = "ormh" /\ {Material.mr, Material.ao} = {NoTex} /\ GoOn("alb", <<>>)
      /\ UNCHANGED <<files, disk, gltfs, images, materials, models, forged, halted>>
  BY DEF NoOrmh, At, banks
<1>2. "ormh" \in Working /\ "alb" \in Working /\ task.step \in Working
  BY <1>1 DEF Working
<1>3. Range(<<>>) = {} /\ DOMAIN <<>> = {}
  BY DEF Range
<1>4. Sized(images') /\ Grown(images, images')
  BY <1>1, SizedNow
<1>5. /\ Typed' /\ ImportInv' /\ Textured' /\ Filed' /\ Tasked' /\ Halted'
      /\ task'.step = "alb" /\ task'.bound = <<>> /\ task'.mat = task.mat
      /\ Doc' = Doc /\ Material' = Material /\ OrmhKey' = OrmhKey
  BY <1>1, <1>2, <1>3, <1>4, GoesOnKeeps
<1>6. Halfway'
  <2>1. OrmhSettled'
    BY <1>1, <1>3, <1>5 DEF OrmhSettled
  <2>3. Done["alb"] = {}
    BY DEF Done
  <2>4. task.mat <= Len(Doc.materials)
    BY <1>2 DEF Halfway
  <2> QED
    BY <1>3, <1>5, <2>1, <2>3, <2>4 DEF Halfway
<1> QED
  BY <1>5, <1>6

\* The image that is made or known is bound.
LEMMA OrmhBound ==
  ASSUME Importing, halted = NoTex, task.step = "ormh", {Material.mr, Material.ao} # {NoTex},
         GoOn("alb", WithOrmh),
         UNCHANGED <<files, disk, gltfs, materials, models, forged, halted>>,
         Sized(images'), Grown(images, images'), OrmhKey \in DOMAIN images'
  PROVE  Importing'
<1> USE DEF Importing
<1>1. "ormh" \in Working /\ "alb" \in Working /\ task.step \in Working
  BY DEF Working
<1>2. task.bound = <<>> /\ task.mat <= Len(Doc.materials)
  BY <1>1 DEF Halfway
<1>3. /\ DOMAIN WithOrmh = {"ormh"} /\ WithOrmh["ormh"] = OrmhKey
      /\ Range(WithOrmh) = {OrmhKey}
  BY <1>2, WithOrmhIs
<1> DEFINE b == WithOrmh
<1> HIDE DEF b
<1>4. Range(b) \subseteq DOMAIN images' /\ GoOn("alb", b)
  BY <1>3 DEF b
<1>5. /\ Typed' /\ ImportInv' /\ Textured' /\ Filed' /\ Tasked' /\ Halted'
      /\ task'.step = "alb" /\ task'.bound = b /\ task'.mat = task.mat
      /\ Doc' = Doc /\ Material' = Material /\ OrmhKey' = OrmhKey
  BY <1>1, <1>4, GoesOnKeeps
<1>6. Halfway'
  <2>1. ~ (Material.mr = NoTex /\ Material.ao = NoTex)
    OBVIOUS
  <2>2. OrmhSettled'
    BY <1>3, <1>5, <2>1 DEF OrmhSettled, b
  <2>3. Done["alb"] = {}
    BY DEF Done
  <2>4. DOMAIN b = {"ormh"} /\ Range(b) = {OrmhKey}
    BY <1>3 DEF b
  <2> QED
    BY <1>2, <1>5, <2>2, <2>3, <2>4 DEF Halfway
<1> QED
  BY <1>5, <1>6

LEMMA KnownOrmhKeeps ==
  ASSUME Importing, halted = NoTex, KnownOrmh
  PROVE  Importing'
<1>1. /\ task.step = "ormh" /\ {Material.mr, Material.ao} # {NoTex}
      /\ GoOn("alb", WithOrmh) /\ OrmhKey \in DOMAIN images
      /\ UNCHANGED <<files, disk, gltfs, images, materials, models, forged, halted>>
  BY DEF KnownOrmh, At, banks
<1>2. Sized(images') /\ Grown(images, images') /\ OrmhKey \in DOMAIN images'
  BY <1>1, SizedNow DEF Importing
<1> QED
  BY <1>1, <1>2, OrmhBound

LEMMA MakeOrmhKeeps ==
  ASSUME Importing, halted = NoTex, MakeOrmh
  PROVE  Importing'
<1> USE DEF Importing
<1> DEFINE first == Fetch(images, Material.mr)
           bank == Fetch(first, Material.ao)
           mr == SizeIn(bank, Material.mr)
           ao == SizeIn(bank, Material.ao)
           size == IF mr > 0 THEN mr ELSE ao
<1>1. /\ task.step = "ormh" /\ {Material.mr, Material.ao} # {NoTex}
      /\ OrmhKey \notin DOMAIN images
      /\ IF mr > 0 /\ ao > 0 /\ mr # ao
         THEN images' = bank /\ GoOn("file", <<>>)
         ELSE images' = Put(bank, OrmhKey, size) /\ GoOn("alb", WithOrmh)
      /\ UNCHANGED <<files, disk, gltfs, materials, models, forged, halted>>
  BY DEF MakeOrmh, At
<1>2. "ormh" \in Working /\ "file" \in Working /\ task.step \in Working
  BY <1>1 DEF Working
<1>3. /\ Material.mr \in Images \cup {NoTex} /\ Material.ao \in Images \cup {NoTex}
      /\ OrmhKey \in Keys \ Images
  BY <1>2, AtWork
<1>4. disk \in [Images -> Sizes]
  BY DEF Typed
<1>5. /\ Sized(first) /\ Grown(images, first)
      /\ \A k \in DOMAIN first : k \in DOMAIN images \/ k \in Images
  BY <1>3, <1>4, SizedNow, FetchIs
<1>6. /\ Sized(bank) /\ Grown(first, bank)
      /\ \A k \in DOMAIN bank : k \in DOMAIN first \/ k \in Images
  <2> HIDE DEF first
  <2> QED
    BY <1>3, <1>4, <1>5, FetchIs
<1> HIDE DEF first, bank
<1>7. Grown(images, bank)
  BY <1>5, <1>6, GrownTwice
<1>8. OrmhKey \notin DOMAIN bank
  BY <1>1, <1>3, <1>5, <1>6
<1>9. CASE mr > 0 /\ ao > 0 /\ mr # ao
  <2>1. images' = bank /\ GoOn("file", <<>>)
    BY <1>1, <1>9
  <2>2. {Material.mr, Material.ao} \subseteq DOMAIN bank /\ bank[Material.mr] # bank[Material.ao]
    BY <1>9 DEF SizeIn
  <2>3. Range(<<>>) = {} /\ DOMAIN <<>> = {}
    BY DEF Range
  <2>4. /\ Typed' /\ ImportInv' /\ Textured' /\ Filed' /\ Tasked' /\ Halted'
        /\ task'.step = "file" /\ task'.bound = <<>> /\ task'.mat = task.mat
        /\ Doc' = Doc /\ Material' = Material /\ OrmhKey' = OrmhKey
    BY <1>1, <1>2, <1>6, <1>7, <2>1, <2>3, GoesOnKeeps
  <2>5. Unfit'
    BY <1>8, <2>1, <2>2, <2>4 DEF Unfit
  <2>6. task.mat <= Len(Doc.materials)
    BY <1>2 DEF Halfway
  <2>7. Halfway'
    BY <2>3, <2>4, <2>5, <2>6 DEF Halfway
  <2> QED
    BY <2>4, <2>7
<1>10. CASE ~ (mr > 0 /\ ao > 0 /\ mr # ao)
  <2>1. images' = Put(bank, OrmhKey, size) /\ GoOn("alb", WithOrmh)
    BY <1>1, <1>10
  <2>2. size \in Sizes
    <3>1. \A key \in Images \cup {NoTex} : SizeIn(bank, key) \in Sizes
      BY <1>6, SizesAssumption DEF SizeIn, Sized
    <3> QED
      BY <1>3, <3>1
  <2> HIDE DEF size
  <2>3. Sized(images') /\ Grown(bank, images') /\ OrmhKey \in DOMAIN images'
    <3>1. /\ Sized(Put(bank, OrmhKey, size)) /\ Grown(bank, Put(bank, OrmhKey, size))
          /\ DOMAIN Put(bank, OrmhKey, size) = DOMAIN bank \cup {OrmhKey}
      BY <1>3, <1>6, <1>8, <2>2, OrmhIs
    <3> QED
      BY <2>1, <3>1
  <2>4. Grown(images, images')
    BY <1>7, <2>3, GrownTwice
  <2> QED
    BY <1>1, <2>1, <2>3, <2>4, OrmhBound
<1> QED
  BY <1>9, <1>10

\* The step after a slot has been through one slot more.
LEMMA AfterIs ==
  ASSUME NEW slot \in DOMAIN After
  PROVE  /\ slot \in {"alb", "nrm", "emi"} /\ slot \in Working /\ After[slot] \in Working
         /\ After[slot] # "ormh" /\ slot # "ormh" /\ slot # "file"
         /\ Done[After[slot]] = Done[slot] \cup {slot} /\ slot \notin Done[slot]
         /\ "ormh" \notin Done[slot]
BY DEF After, Working, Done

LEMMA AssignTexKeeps ==
  ASSUME Importing, halted = NoTex, NEW slot \in DOMAIN After, AssignTex(slot)
  PROVE  Importing'
<1> USE DEF Importing
<1> DEFINE key == Material[slot]
           bank == Fetch(images, key)
           b == IF key \in DOMAIN images' THEN Put(task.bound, slot, key) ELSE task.bound
<1>1. /\ task.step = slot /\ images' = bank /\ GoOn(After[slot], b)
      /\ UNCHANGED <<files, disk, gltfs, materials, models, forged, halted>>
  BY DEF AssignTex, At
<1>2. /\ slot \in {"alb", "nrm", "emi"} /\ task.step \in Working /\ After[slot] \in Working
      /\ After[slot] # "ormh" /\ slot # "ormh" /\ slot # "file"
      /\ Done[After[slot]] = Done[slot] \cup {slot} /\ slot \notin Done[slot]
      /\ "ormh" \notin Done[slot]
  BY <1>1, AfterIs
<1>3. key \in Images \cup {NoTex} /\ task # Idle
  BY <1>2, AtWork
<1>4. disk \in [Images -> Sizes]
  BY DEF Typed
<1>5. /\ Sized(images') /\ Grown(images, images')
      /\ \A k \in DOMAIN images' : k \in DOMAIN images \/ (k \in Images /\ disk[k] # 0)
      /\ key \in DOMAIN images' \/ key = NoTex \/ disk[key] = 0
  <2> HIDE DEF key
  <2> QED
    BY <1>1, <1>3, <1>4, SizedNow, FetchIs
<1>6. /\ task.mat <= Len(Doc.materials)
      /\ DOMAIN task.bound \subseteq {"ormh"} \cup Done[slot]
      /\ Range(task.bound) \subseteq Images \cup {OrmhKey}
      /\ OrmhSettled /\ \A s \in Done[slot] : Settled(s)
  BY <1>1, <1>2 DEF Halfway, Unfit
<1>7. Range(task.bound) \subseteq DOMAIN images
  BY <1>3 DEF ImportInv
<1>8. NoTex \notin DOMAIN images'
  BY <1>5, KeysApart DEF Sized
<1> HIDE DEF key, bank
<1>9. /\ key \in DOMAIN images' => DOMAIN b = DOMAIN task.bound \cup {slot} /\ b[slot] = key
      /\ key \notin DOMAIN images' => b = task.bound
      /\ \A s \in DOMAIN task.bound : s # slot => b[s] = task.bound[s]
      /\ slot \notin DOMAIN task.bound
  BY <1>2, <1>6 DEF Put
<1>10. Range(b) \subseteq Range(task.bound) \cup ({key} \cap DOMAIN images')
  <2> HIDE DEF b
  <2>1. CASE key \in DOMAIN images'
    BY <1>9, <2>1 DEF Range
  <2>2. CASE key \notin DOMAIN images'
    BY <1>9, <2>2
  <2> QED
    BY <2>1, <2>2
<1> HIDE DEF b
<1>11. Range(b) \subseteq DOMAIN images'
  BY <1>5, <1>7, <1>10 DEF Grown
<1>12. /\ Typed' /\ ImportInv' /\ Textured' /\ Filed' /\ Tasked' /\ Halted'
       /\ task'.step = After[slot] /\ task'.bound = b /\ task'.mat = task.mat
       /\ Doc' = Doc /\ Material' = Material /\ OrmhKey' = OrmhKey
  BY <1>1, <1>2, <1>5, <1>11, GoesOnKeeps
<1>13. OrmhSettled'
  BY <1>2, <1>6, <1>9, <1>12 DEF OrmhSettled
<1>14. ASSUME NEW s \in Done[slot] PROVE Settled(s)'
  <2>1. s # slot /\ Settled(s)
    BY <1>2, <1>6
  <2>2. CASE Material[s] \in DOMAIN images
    <3>1. s \in DOMAIN task.bound /\ task.bound[s] = Material[s] /\ Material[s] \in DOMAIN images'
      BY <1>5, <2>1, <2>2 DEF Settled, Grown
    <3>2. s \in DOMAIN b /\ b[s] = Material[s]
      BY <1>9, <2>1, <3>1
    <3> QED
      BY <1>12, <3>1, <3>2 DEF Settled
  <2>3. CASE Material[s] \notin DOMAIN images
    <3>1. s \notin DOMAIN task.bound /\ (Material[s] = NoTex \/ disk[Material[s]] = 0)
      BY <2>1, <2>3 DEF Settled
    <3>2. Material[s] \notin DOMAIN images'
      BY <1>5, <1>8, <2>3, <3>1
    <3>3. s \notin DOMAIN b
      BY <1>9, <2>1, <3>1
    <3> QED
      BY <1>1, <1>12, <3>1, <3>2, <3>3 DEF Settled
  <2> QED
    BY <2>2, <2>3
<1>15. Settled(slot)'
  <2>1. CASE key \in DOMAIN images'
    BY <1>9, <1>12, <2>1 DEF Settled, key
  <2>2. CASE key \notin DOMAIN images'
    BY <1>1, <1>5, <1>9, <1>12, <2>2 DEF Settled, key
  <2> QED
    BY <2>1, <2>2
<1>16. DOMAIN b \subseteq {"ormh"} \cup Done[After[slot]]
  BY <1>2, <1>6, <1>9
<1>17. Range(b) \subseteq Images \cup {OrmhKey}
  BY <1>3, <1>6, <1>8, <1>10
<1>18. Halfway'
  <2>1. \A s \in Done[After[slot]] : Settled(s)'
    BY <1>2, <1>14, <1>15
  <2> QED
    BY <1>2, <1>6, <1>12, <1>13, <1>16, <1>17, <2>1 DEF Halfway
<1> QED
  BY <1>12, <1>18

LEMMA FileMaterialKeeps ==
  ASSUME Importing, halted = NoTex, FileMaterial
  PROVE  Importing'
<1> USE DEF Importing
<1>1. /\ task.step = "file" /\ materials' = Put(materials, MaterialKey, task.bound) /\ NextMaterial
      /\ UNCHANGED <<files, disk, gltfs, images, models, forged, halted>>
  BY DEF FileMaterial, At
<1>2. task.step \in Working
  BY <1>1 DEF Working
<1>3. task # Idle /\ task.path \in Paths /\ task.mat \in 1 .. Len(Doc.materials)
  BY <1>2, AtWork
<1>4. /\ DOMAIN materials' = DOMAIN materials \cup {MaterialKey}
      /\ materials'[MaterialKey] = task.bound
      /\ \A k \in DOMAIN materials : k # MaterialKey => materials'[k] = materials[k]
  BY <1>1 DEF Put
<1>5. Tasked' /\ Halfway' /\ task'.bound = <<>> /\ task'.path = task.path
  BY <1>1, <1>3, <1>4, GoesToNext
<1>6. Typed' /\ Halted'
  BY <1>1, HaltedKept DEF Typed
<1>7. Range(task.bound) \subseteq DOMAIN images /\ task.path \in gltfs
  BY <1>3 DEF ImportInv
<1>8. ImportInv'
  <2>1. \A m \in DOMAIN materials' : Range(materials'[m]) \subseteq DOMAIN images
    BY <1>4, <1>7 DEF ImportInv
  <2>2. Range(task'.bound) = {}
    BY <1>5 DEF Range
  <2> QED
    BY <1>1, <1>4, <1>5, <1>7, <2>1, <2>2 DEF ImportInv
<1>9. Textured'
  <2>1. Range(task.bound) \subseteq Images \cup {OrmhKey}
    BY <1>2 DEF Halfway
  <2>2. /\ MaterialKey = <<task.path, task.mat>>
        /\ task.mat \in 1 .. Len(files[task.path].materials)
        /\ OrmhKey = <<task.path, files[task.path].materials[task.mat].mr,
                                  files[task.path].materials[task.mat].ao>>
    BY <1>3 DEF MaterialKey, Doc, OrmhKey, Material
  <2>3. ASSUME NEW k \in DOMAIN materials'
        PROVE  \E path \in Paths : \E i \in 1 .. Len(files[path].materials) :
                  /\ k = <<path, i>>
                  /\ Range(materials'[k]) \subseteq Images \cup
                        {<<path, files[path].materials[i].mr, files[path].materials[i].ao>>}
    <3>1. CASE k = MaterialKey
      BY <1>3, <1>4, <2>1, <2>2, <3>1
    <3>2. CASE k # MaterialKey
      BY <1>4, <3>2 DEF Textured
    <3> QED
      BY <3>1, <3>2
  <2> QED
    BY <1>1, <2>3 DEF Textured
<1>10. Filed'
  BY <1>1 DEF Filed
<1> QED
  BY <1>5, <1>6, <1>8, <1>9, <1>10

\* The import is over.
LEMMA Ends ==
  ASSUME task' = Idle
  PROVE  Tasked' /\ Halfway'
BY IdleIs DEF Tasked, Halfway, Working

LEMMA RejectModelKeeps ==
  ASSUME Importing, halted = NoTex, RejectModel
  PROVE  Importing'
<1> USE DEF Importing
<1>1. /\ task' = Idle
      /\ UNCHANGED <<files, disk, gltfs, images, materials, models, forged, halted>>
  BY DEF RejectModel, banks
<1>2. Tasked' /\ Halfway'
  BY <1>1, Ends
<1>3. Typed' /\ Textured' /\ Filed' /\ Halted'
  BY <1>1, Settling, HaltedKept
<1>4. ImportInv'
  BY <1>1 DEF ImportInv
<1> QED
  BY <1>2, <1>3, <1>4

LEMMA FileModelKeeps ==
  ASSUME Importing, halted = NoTex, FileModel
  PROVE  Importing'
<1> USE DEF Importing
<1>1. /\ task.step = "find" /\ task.mat > Len(Doc.materials) /\ ~ Overruns(Doc)
      /\ models' = Put(models, task.path, ImportModel(Doc)) /\ task' = Idle
      /\ UNCHANGED <<files, disk, gltfs, images, materials, forged, halted>>
  BY DEF FileModel, AllMaterials, At
<1>2. Tasked' /\ Halfway'
  BY <1>1, Ends
<1>3. task # Idle
  BY <1>1, IdleIs
<1>4. /\ task.path \in Paths /\ task.mat \in Nat \ {0} /\ task.path \in gltfs
      /\ \A m \in 1 .. task.mat - 1 : <<task.path, m>> \in DOMAIN materials
  BY <1>3 DEF Tasked, ImportInv
<1>5. /\ DOMAIN models' = DOMAIN models \cup {task.path}
      /\ models'[task.path] = ImportModel(Doc)
      /\ \A k \in DOMAIN models : k # task.path => models'[k] = models[k]
  <2> DEFINE model == ImportModel(Doc)
  <2> HIDE DEF model
  <2>1. models' = Put(models, task.path, model)
    BY <1>1 DEF model
  <2>2. /\ DOMAIN models' = DOMAIN models \cup {task.path}
        /\ models'[task.path] = model
        /\ \A k \in DOMAIN models : k # task.path => models'[k] = models[k]
    BY <2>1 DEF Put
  <2> QED
    BY <2>2 DEF model
<1>6. Typed' /\ Textured' /\ Halted'
  BY <1>1, HaltedKept DEF Typed, Textured
<1>7. Filed'
  <2>1. \A path \in DOMAIN models' :
           path \in Paths /\ models'[path] = ImportModel(files[path]) /\ ~ Overruns(files[path])
    BY <1>1, <1>4, <1>5 DEF Filed, Doc
  <2> QED
    BY <1>1, <2>1 DEF Filed
<1>8. ImportInv'
  <2>1. Len(Doc.materials) \in Nat
    BY <1>4, DocumentOf DEF Typed, Doc
  <2>2. \A m \in 1 .. Len(files[task.path].materials) : <<task.path, m>> \in DOMAIN materials
    <3>1. \A m \in 1 .. Len(Doc.materials) : m \in 1 .. task.mat - 1
      BY <1>1, <1>4, <2>1
    <3> QED
      BY <1>4, <3>1 DEF Doc
  <2>3. \A path \in DOMAIN models' :
           path \in gltfs /\ \A m \in 1 .. Len(files[path].materials) :
                                 <<path, m>> \in DOMAIN materials
    BY <1>4, <1>5, <2>2 DEF ImportInv
  <2> QED
    BY <1>1, <1>5, <2>3 DEF ImportInv
<1> QED
  BY <1>2, <1>6, <1>7, <1>8

LEMMA OverwriteKeeps ==
  ASSUME Importing, halted = NoTex, Overwrite
  PROVE  Importing'
<1> USE DEF Importing
<1>1. /\ task.step = "find" /\ Overruns(Doc) /\ halted' = task.path /\ task' = Idle
      /\ UNCHANGED <<files, disk, gltfs, images, materials, models, forged>>
  BY DEF Overwrite, AllMaterials, At, banks
<1>2. Tasked' /\ Halfway'
  BY <1>1, Ends
<1>3. task # Idle /\ task.path \in Paths
  BY <1>1, IdleIs DEF Tasked
<1>4. Typed' /\ Textured' /\ Filed'
  BY <1>1, Settling
<1>5. ImportInv'
  BY <1>1 DEF ImportInv
<1>6. Overruns(files'[halted'])
  BY <1>1 DEF Doc
<1>7. Halted'
  BY <1>1, <1>3, <1>6 DEF Halted
<1> QED
  BY <1>2, <1>4, <1>5, <1>7

LEMMA ForgeKeeps ==
  ASSUME Importing, halted = NoTex, NEW path \in Paths, Forge(path)
  PROVE  Importing'
<1> USE DEF Importing
<1>1. /\ task = Idle /\ path \in DOMAIN models
      /\ UNCHANGED <<files, disk, gltfs, images, materials, models, task>>
  BY DEF Forge, banks
<1>2. Tasked' /\ Halfway'
  BY <1>1, Ends
<1>3. Typed' /\ Textured' /\ Filed'
  BY <1>1, Settling
<1>4. CASE (Jointless(path) \/ Flat(path)) /\ halted' = path /\ UNCHANGED <<forged, mass>>
  <2>1. ImportInv'
    BY <1>1, <1>4 DEF ImportInv
  <2>2. (Jointless(path) <=> Jointless(path)') /\ (Flat(path) <=> Flat(path)')
    BY <1>1 DEF Jointless, Flat, Textures
  <2>3. Halted'
    BY <1>1, <1>4, <2>2 DEF Halted, Jointless, Flat, Textures
  <2> QED
    BY <1>2, <1>3, <2>1, <2>3
<1>5. CASE /\ DOMAIN forged' = DOMAIN forged \cup {path} /\ UNCHANGED halted
  <2>1. ImportInv'
    BY <1>1, <1>5 DEF ImportInv
  <2>2. Halted'
    BY <1>5, HaltedKept
  <2> QED
    BY <1>2, <1>3, <2>1, <2>2
<1>6. \/ (Jointless(path) \/ Flat(path)) /\ halted' = path /\ UNCHANGED <<forged, mass>>
      \/ DOMAIN forged' = DOMAIN forged \cup {path} /\ UNCHANGED halted
  <2>1. \A fresh : DOMAIN Put(forged, path, fresh) = DOMAIN forged \cup {path}
    BY DEF Put
  <2> QED
    BY <2>1 DEF Forge
<1> QED
  BY <1>4, <1>5, <1>6

-----------------------------------------------------------------------------
(***************************************************************************)
(* What every import keeps                                                 *)
(***************************************************************************)

LEMMA ImportingAtFirst == Init => Importing
<1> SUFFICES ASSUME Init PROVE Importing
  OBVIOUS
<1>1. /\ files \in Contents /\ disk \in [Images -> Sizes] /\ gltfs = {} /\ task = Idle
      /\ DOMAIN images = {} /\ DOMAIN materials = {} /\ DOMAIN models = {} /\ DOMAIN forged = {}
      /\ halted = NoTex
  BY DEF Init
<1>2. Typed /\ ImportInv /\ Textured /\ Filed /\ Tasked /\ Halted
  BY <1>1 DEF Typed, ImportInv, Textured, Filed, Tasked, Halted
<1>3. Halfway
  BY <1>1, IdleIs DEF Halfway, Working
<1> QED
  BY <1>2, <1>3 DEF Importing

LEMMA ImportingKept == Importing /\ [Next]_vars => Importing'
<1> SUFFICES ASSUME Importing, [Next]_vars PROVE Importing'
  OBVIOUS
<1>1. CASE UNCHANGED vars
  <2> USE DEF Importing
  <2>1. UNCHANGED <<files, disk, gltfs, images, materials, models, task, forged, mass, halted>>
    BY <1>1 DEF vars, banks
  <2>2. Typed' /\ Textured' /\ Filed'
    BY <2>1, Settling
  <2>3. ImportInv'
    BY <2>1 DEF ImportInv
  <2>4. Tasked'
    BY <2>1 DEF Tasked
  <2>5. Doc' = Doc /\ Material' = Material /\ OrmhKey' = OrmhKey
    BY <2>1 DEF Doc, Material, OrmhKey
  <2>6. (OrmhSettled <=> OrmhSettled') /\ (Unfit <=> Unfit')
        /\ \A slot : Settled(slot) <=> Settled(slot)'
    BY <2>1, <2>5 DEF OrmhSettled, Unfit, Settled
  <2>7. Halfway'
    BY <2>1, <2>5, <2>6 DEF Halfway
  <2>8. Halted'
    BY <2>1 DEF Halted, Jointless, Flat, Textures
  <2> QED
    BY <2>2, <2>3, <2>4, <2>7, <2>8
<1>2. CASE Next
  <2>1. halted = NoTex /\ Running
    BY <1>2 DEF Next
  <2>2. CASE Rewrite
    BY <2>1, <2>2, RewriteKeeps
  <2>3. CASE \E path \in Paths : Request(path)
    BY <2>1, <2>3, RequestKeeps
  <2>4. CASE \E path \in Paths : Forge(path)
    BY <2>1, <2>4, ForgeKeeps
  <2>5. CASE FindMaterial
    BY <2>1, <2>5, FindMaterialKeeps
  <2>6. CASE NoOrmh
    BY <2>1, <2>6, NoOrmhKeeps
  <2>7. CASE KnownOrmh
    BY <2>1, <2>7, KnownOrmhKeeps
  <2>8. CASE MakeOrmh
    BY <2>1, <2>8, MakeOrmhKeeps
  <2>9. CASE \E slot \in DOMAIN After : AssignTex(slot)
    BY <2>1, <2>9, AssignTexKeeps
  <2>10. CASE FileMaterial
    BY <2>1, <2>10, FileMaterialKeeps
  <2>11. CASE RejectModel
    BY <2>1, <2>11, RejectModelKeeps
  <2>12. CASE FileModel
    BY <2>1, <2>12, FileModelKeeps
  <2>13. CASE Overwrite
    BY <2>1, <2>13, OverwriteKeeps
  <2> QED
    BY <2>1, <2>2, <2>3, <2>4, <2>5, <2>6, <2>7, <2>8, <2>9, <2>10, <2>11, <2>12, <2>13
       DEF Running
<1> QED
  BY <1>1, <1>2

\* The invariant that the properties of an import rest on: besides what the
\* banks have, the slots that the material at hand has been through.
THEOREM ImportingInvariant == Spec => []Importing
<1>1. Init => Importing
  BY ImportingAtFirst
<1>2. Importing /\ [Next]_vars => Importing'
  BY ImportingKept
<1> QED
  BY <1>1, <1>2, PTL DEF Spec

\* The banks of asset_keeper.cpp never refer to what they do not have.
THEOREM ImportBanksAgree == Spec => []ImportInv
<1>1. Importing => ImportInv
  BY DEF Importing
<1> QED
  BY <1>1, ImportingInvariant, PTL

\* make_gltf_material binds every texture that can be had and no other,
\* though the banks hold what imports have left that gave up.
THEOREM ImportMaterialsComplete == Spec => MaterialsComplete
<1> DEFINE Complete ==
      \A k \in DOMAIN materials' \ DOMAIN materials :
          LET m     == files[k[1]].materials[k[2]]
              bound == materials'[k]
              ormh  == <<k[1], m.mr, m.ao>>
          IN \/ /\ \A slot \in DOMAIN After :
                       IF m[slot] \in DOMAIN images
                       THEN slot \in DOMAIN bound /\ bound[slot] = m[slot]
                       ELSE slot \notin DOMAIN bound
                /\ IF m.mr = NoTex /\ m.ao = NoTex
                   THEN "ormh" \notin DOMAIN bound
                   ELSE "ormh" \in DOMAIN bound /\ bound.ormh = ormh
             \/ /\ bound = <<>> /\ ormh \notin DOMAIN images
                /\ {m.mr, m.ao} \subseteq DOMAIN images
                /\ images[m.mr] # images[m.ao]
<1>1. Importing /\ [Next]_vars => [Complete]_vars
  <2> SUFFICES ASSUME Importing, Next, NEW k \in DOMAIN materials' \ DOMAIN materials
               PROVE  LET m     == files[k[1]].materials[k[2]]
                          bound == materials'[k]
                          ormh  == <<k[1], m.mr, m.ao>>
                      IN \/ /\ \A slot \in DOMAIN After :
                                   IF m[slot] \in DOMAIN images
                                   THEN slot \in DOMAIN bound /\ bound[slot] = m[slot]
                                   ELSE slot \notin DOMAIN bound
                            /\ IF m.mr = NoTex /\ m.ao = NoTex
                               THEN "ormh" \notin DOMAIN bound
                               ELSE "ormh" \in DOMAIN bound /\ bound.ormh = ormh
                         \/ /\ bound = <<>> /\ ormh \notin DOMAIN images
                            /\ {m.mr, m.ao} \subseteq DOMAIN images
                            /\ images[m.mr] # images[m.ao]
    OBVIOUS
  <2>1. FileMaterial
    BY DEF Next, Running, Rewrite, Request, Forge, FindMaterial, NoOrmh, KnownOrmh, MakeOrmh,
           AssignTex, RejectModel, FileModel, Overwrite, banks
  <2>2. task.step = "file" /\ materials' = Put(materials, MaterialKey, task.bound)
    BY <2>1 DEF FileMaterial, At
  <2>3. k = MaterialKey /\ materials'[k] = task.bound
    BY <2>2 DEF Put
  <2>4. k[1] = task.path /\ k[2] = task.mat
    BY <2>3 DEF MaterialKey
  <2>5. files[k[1]].materials[k[2]] = Material /\ <<k[1], Material.mr, Material.ao>> = OrmhKey
    BY <2>4 DEF Material, Doc, OrmhKey
  <2>6. (OrmhSettled /\ \A slot \in {"alb", "nrm", "emi"} : Settled(slot)) \/ Unfit
    BY <2>2 DEF Importing, Halfway, Working, Done
  <2>7. CASE OrmhSettled /\ \A slot \in {"alb", "nrm", "emi"} : Settled(slot)
    <3>1. \A slot \in DOMAIN After :
             IF Material[slot] \in DOMAIN images
             THEN slot \in DOMAIN task.bound /\ task.bound[slot] = Material[slot]
             ELSE slot \notin DOMAIN task.bound
      BY <2>7, AfterIs DEF Settled
    <3>2. IF Material.mr = NoTex /\ Material.ao = NoTex
          THEN "ormh" \notin DOMAIN task.bound
          ELSE "ormh" \in DOMAIN task.bound /\ task.bound.ormh = OrmhKey
      BY <2>7 DEF OrmhSettled
    <3> QED
      BY <2>3, <2>5, <3>1, <3>2
  <2>8. CASE Unfit
    <3>1. /\ task.bound = <<>> /\ OrmhKey \notin DOMAIN images
          /\ {Material.mr, Material.ao} \subseteq DOMAIN images
          /\ images[Material.mr] # images[Material.ao]
      BY <2>8 DEF Unfit
    <3> QED
      BY <2>3, <2>5, <3>1
  <2> QED
    BY <2>6, <2>7, <2>8
<1>2. Importing /\ [Next]_vars => Importing'
  BY ImportingKept
<1>3. Init => Importing
  BY ImportingAtFirst
<1> QED
  BY <1>1, <1>2, <1>3, PTL DEF Spec, MaterialsComplete

-----------------------------------------------------------------------------
(***************************************************************************)
(* Primitives                                                              *)
(***************************************************************************)

\* If nothing is counted more than in the other list, neither is the sum.
LEMMA TotalsCompare ==
  ASSUME NEW a \in Seq(Nat), NEW b \in Seq(Nat), Len(a) = Len(b),
         \A i \in 1 .. Len(a) : a[i] <= b[i]
  PROVE  Total(a) <= Total(b)
<1> DEFINE n == Len(a)
           f == Sums(a)
           g == Sums(b)
           Below == {i \in 0 .. n : f[i] <= g[i]}
<1>1. n \in Nat /\ \A i \in 1 .. n : a[i] \in Nat /\ b[i] \in Nat /\ a[i] <= b[i]
  OBVIOUS
<1>2. /\ f \in [0 .. n -> Nat] /\ f[0] = 0
      /\ \A i \in 0 .. n - 1 : f[i + 1] = f[i] + a[i + 1]
  BY SumsAre
<1>3. /\ g \in [0 .. n -> Nat] /\ g[0] = 0
      /\ \A i \in 0 .. n - 1 : g[i + 1] = g[i] + b[i + 1]
  BY SumsAre
<1>4. Total(a) = f[n] /\ Total(b) = g[n]
  BY DEF Total
<1> HIDE DEF n, f, g
<1>5. 0 \in Below
  BY <1>1, <1>2, <1>3
<1>6. ASSUME NEW i \in 0 .. n - 1, i \in Below PROVE i + 1 \in Below
  <2>1. i + 1 \in 1 .. n /\ i + 1 \in 0 .. n /\ i \in 0 .. n
    BY <1>1
  <2>2. f[i] \in Nat /\ g[i] \in Nat /\ a[i + 1] \in Nat /\ b[i + 1] \in Nat
        /\ f[i] <= g[i] /\ a[i + 1] <= b[i + 1]
    BY <1>1, <1>2, <1>3, <1>6, <2>1
  <2>3. f[i + 1] <= g[i + 1]
    BY <1>2, <1>3, <2>2
  <2> QED
    BY <2>1, <2>3
<1>7. n \in Below
  <2> HIDE DEF Below
  <2>1. 0 .. n \subseteq Below
    BY <1>1, <1>5, <1>6, Steps
  <2> QED
    BY <1>1, <2>1
<1> QED
  BY <1>4, <1>7

\* A mesh of a document that can be imported.
Mesh(mesh) ==
    /\ mesh \in Seq(Primitives)
    /\ \A i \in 1 .. Len(mesh) : mesh[i].vtx > 0 /\ (mesh[i].kind \in Fans => mesh[i].idx > 2)

LEMMA MeshIs ==
  ASSUME NEW d, Parsed(d), Usable(d), NEW k \in 1 .. Len(d.meshes)
  PROVE  Mesh(d.meshes[k])
<1>1. d.meshes \in Seq(Seq(Primitives))
  BY DEF Parsed
<1>2. d.meshes[k] \in Seq(Primitives)
  BY <1>1, ElementOfSeq
<1>3. d.meshes[k] \in Range(d.meshes)
  BY <1>1, RangeEquality
<1>4. \A i \in 1 .. Len(d.meshes[k]) : d.meshes[k][i] \in Range(d.meshes[k])
  BY <1>2, RangeEquality
<1> QED
  BY <1>2, <1>3, <1>4 DEF Mesh, Usable

\* What is counted in a mesh.
LEMMA CountsAre ==
  ASSUME NEW mesh, Mesh(mesh)
  PROVE  /\ Len(mesh) \in Nat
         /\ VtxCounts(mesh) \in Seq(Nat) /\ Len(VtxCounts(mesh)) = Len(mesh)
         /\ IdxCounts(mesh) \in Seq(Nat) /\ Len(IdxCounts(mesh)) = Len(mesh)
         /\ WrittenCounts(mesh) \in Seq(Nat) /\ Len(WrittenCounts(mesh)) = Len(mesh)
         /\ \A i \in 1 .. Len(mesh) :
               /\ mesh[i].vtx \in Nat \ {0} /\ mesh[i].idx \in Nat /\ Written(mesh[i]) \in Nat
               /\ VtxCounts(mesh)[i] = mesh[i].vtx /\ IdxCounts(mesh)[i] = mesh[i].idx
               /\ WrittenCounts(mesh)[i] = Written(mesh[i])
<1> DEFINE n == Len(mesh)
<1>1. mesh \in Seq(Primitives)
  BY DEF Mesh
<1>2. n \in Nat
  BY <1>1, LenProperties
<1>3. ASSUME NEW i \in 1 .. n
      PROVE  mesh[i].vtx \in Nat \ {0} /\ mesh[i].idx \in Nat /\ Written(mesh[i]) \in Nat
  <2>1. mesh[i] \in Primitives
    BY <1>1, ElementOfSeq
  <2>2. mesh[i].vtx \in Nat /\ mesh[i].idx \in Nat
    BY <2>1 DEF Primitives
  <2>3. mesh[i].vtx > 0 /\ (mesh[i].kind \in Fans => mesh[i].idx > 2)
    BY DEF Mesh
  <2>4. Written(mesh[i]) \in Nat
    BY <2>2, <2>3 DEF Written, Fans
  <2> QED
    BY <2>2, <2>3, <2>4
<1>4. /\ VtxCounts(mesh) \in [1 .. n -> Nat] /\ IdxCounts(mesh) \in [1 .. n -> Nat]
      /\ WrittenCounts(mesh) \in [1 .. n -> Nat]
  BY <1>3 DEF VtxCounts, IdxCounts, WrittenCounts
<1>5. \A i \in 1 .. n : /\ VtxCounts(mesh)[i] = mesh[i].vtx /\ IdxCounts(mesh)[i] = mesh[i].idx
                        /\ WrittenCounts(mesh)[i] = Written(mesh[i])
  BY DEF VtxCounts, IdxCounts, WrittenCounts
<1> HIDE DEF n
<1>6. /\ VtxCounts(mesh) \in Seq(Nat) /\ Len(VtxCounts(mesh)) = n
      /\ IdxCounts(mesh) \in Seq(Nat) /\ Len(IdxCounts(mesh)) = n
      /\ WrittenCounts(mesh) \in Seq(Nat) /\ Len(WrittenCounts(mesh)) = n
  BY <1>2, <1>4, FunctionIsSeq
<1> QED
  BY <1>2, <1>3, <1>5, <1>6 DEF n

\* The meshes that are drawn are all but the occluder, in their order.
LEMMA VisualIs ==
  ASSUME NEW d, Parsed(d)
  PROVE  /\ Len(d.meshes) \in Nat
         /\ Ascending(Visual(d), Len(d.meshes), (1 .. Len(d.meshes)) \ {OccluderMesh(d)})
         /\ Visual(d) \in Seq(1 .. Len(d.meshes)) /\ Len(Visual(d)) \in Nat
         /\ Range(Visual(d)) \subseteq 1 .. Len(d.meshes)
<1>1. d.meshes \in Seq(Seq(Primitives))
  BY DEF Parsed
<1>2. Ascending(Visual(d), Len(d.meshes), (1 .. Len(d.meshes)) \ {OccluderMesh(d)})
  BY <1>1, TakingNumbers DEF Visual
<1>3. Visual(d) \in Seq(1 .. Len(d.meshes))
  BY <1>2 DEF Ascending
<1> QED
  BY <1>1, <1>2, <1>3, LenProperties, RangeOfSeq

\* The index array overruns for a strip of more than one triangle only.
LEMMA OverrunsOnlyFor ==
  ASSUME NEW d, Parsed(d), Usable(d), Overruns(d)
  PROVE  \E p \in UNION {Range(mesh) : mesh \in Range(d.meshes)} : p.kind \in Fans /\ p.idx > 3
<1>1. PICK k \in Range(Visual(d)) :
          Total(WrittenCounts(d.meshes[k])) > Total(IdxCounts(d.meshes[k]))
  BY DEF Overruns
<1>2. k \in 1 .. Len(d.meshes)
  BY VisualIs
<1> DEFINE mesh == d.meshes[k]
<1>3. Mesh(mesh)
  BY <1>2, MeshIs
<1>4. mesh \in Range(d.meshes) /\ Range(mesh) = {mesh[i] : i \in 1 .. Len(mesh)}
  <2>1. d.meshes \in Seq(Seq(Primitives)) /\ mesh \in Seq(Primitives)
    BY <1>3 DEF Parsed, Mesh
  <2> QED
    BY <1>2, <2>1, RangeEquality
<1>5. Total(WrittenCounts(mesh)) > Total(IdxCounts(mesh))
  BY <1>1
<1> HIDE DEF mesh
<1>6. PICK i \in 1 .. Len(mesh) : ~ (Written(mesh[i]) <= mesh[i].idx)
  <2>1. SUFFICES ASSUME \A i \in 1 .. Len(mesh) : Written(mesh[i]) <= mesh[i].idx
                 PROVE  FALSE
    OBVIOUS
  <2> DEFINE w == WrittenCounts(mesh)
             x == IdxCounts(mesh)
  <2>2. w \in Seq(Nat) /\ x \in Seq(Nat) /\ Len(w) = Len(x) /\ Len(w) = Len(mesh)
    BY <1>3, CountsAre
  <2>3. \A i \in 1 .. Len(w) : w[i] <= x[i]
    BY <1>3, <2>1, <2>2, CountsAre
  <2> HIDE DEF w, x
  <2>4. Total(w) <= Total(x)
    BY <2>2, <2>3, TotalsCompare
  <2>5. Total(w) \in Nat /\ Total(x) \in Nat
    BY <2>2, TotalIs
  <2> QED
    BY <1>5, <2>4, <2>5 DEF w, x
<1>7. mesh[i].idx \in Nat
  BY <1>3, CountsAre
<1>8. mesh[i].kind \in Fans /\ mesh[i].idx > 3
  BY <1>6, <1>7 DEF Written, Fans
<1> QED
  BY <1>4, <1>8

\* What a copy of the missing joints needs is a mesh.
LEMMA MeshesFromMeshes ==
  ASSUME NEW d, Parsed(d), d.meshes = <<>>
  PROVE  ImportModel(d).meshes = <<>>
<1>1. Len(d.meshes) = 0
  BY EmptySeq
<1>2. Visual(d) \in Seq(1 .. 0) /\ Len(Visual(d)) \in Nat
  BY <1>1, VisualIs
<1>3. Len(Visual(d)) = 0
  <2>1. Len(Visual(d)) # 0 => 1 \in 1 .. Len(Visual(d))
    BY <1>2
  <2>2. \A i \in 1 .. Len(Visual(d)) : Visual(d)[i] \in 1 .. 0
    BY <1>2, ElementOfSeq
  <2> QED
    BY <2>1, <2>2
<1>4. ImportModel(d).meshes = [v \in 1 .. Len(Visual(d)) |-> ImportMesh(d, v)]
  BY DEF ImportModel
<1> QED
  BY <1>3, <1>4

\* create_model and extract_mesh_indices stop for nothing but a long strip, a
\* skinned document with meshes, and an ORMH image without a size.
THEOREM ImportStopsOnlyFor == Spec => []StopsOnlyFor
<1>1. Importing => StopsOnlyFor
  <2> SUFFICES ASSUME Importing, halted # NoTex
               PROVE  LET d == files[halted] IN
                      \/ \E p \in UNION {Range(mesh) : mesh \in Range(d.meshes)} :
                            p.kind \in Fans /\ p.idx > 3
                      \/ Skinned(d) /\ d.meshes # <<>>
                      \/ \E m \in Range(d.materials) :
                            LET key == <<halted, m.mr, m.ao>>
                            IN key \in DOMAIN images /\ images[key] = 0
    BY DEF StopsOnlyFor
  <2> DEFINE d == files[halted]
  <2>1. /\ halted \in Paths
        /\ \/ Overruns(d)
           \/ halted \in DOMAIN models /\ (Jointless(halted) \/ Flat(halted))
    BY DEF Importing, Halted
  <2>2. files \in Contents
    BY DEF Importing, Typed
  <2>3. Parsed(d) /\ Usable(d)
    BY <2>1, <2>2, DocumentOf
  <2>4. CASE Overruns(d)
    BY <2>3, <2>4, OverrunsOnlyFor
  <2>5. CASE halted \in DOMAIN models /\ Jointless(halted)
    <3>1. models[halted] = ImportModel(d)
      BY <2>5 DEF Importing, Filed
    <3>2. d.meshes # <<>>
      BY <2>3, <2>5, <3>1, MeshesFromMeshes DEF Jointless
    <3> QED
      BY <2>5, <3>2 DEF Jointless
  <2>6. CASE halted \in DOMAIN models /\ Flat(halted)
    <3>1. PICK m \in 1 .. Len(d.materials) :
              \E key \in Range(materials[<<halted, m>>]) : images[key] = 0
      BY <2>6 DEF Flat, Textures
    <3>2. PICK key \in Range(materials[<<halted, m>>]) : images[key] = 0
      BY <3>1
    <3>3. <<halted, m>> \in DOMAIN materials
      BY <2>6, <3>1 DEF Importing, ImportInv
    <3>4. key \in DOMAIN images
      BY <3>2, <3>3 DEF Importing, ImportInv
    <3>5. key \notin Images
      BY <3>2, <3>4 DEF Importing, ImportInv
    <3>6. PICK path \in Paths : \E i \in 1 .. Len(files[path].materials) :
              /\ <<halted, m>> = <<path, i>>
              /\ Range(materials[<<halted, m>>]) \subseteq Images \cup
                    {<<path, files[path].materials[i].mr, files[path].materials[i].ao>>}
      BY <3>3 DEF Importing, Textured
    <3>7. key = <<halted, d.materials[m].mr, d.materials[m].ao>>
      <4>1. PICK i \in 1 .. Len(files[path].materials) :
                /\ <<halted, m>> = <<path, i>>
                /\ Range(materials[<<halted, m>>]) \subseteq Images \cup
                      {<<path, files[path].materials[i].mr, files[path].materials[i].ao>>}
        BY <3>6
      <4>2. path = halted /\ i = m
        BY <4>1
      <4> QED
        BY <3>2, <3>5, <4>1, <4>2
    <3>8. d.materials[m] \in Range(d.materials)
      <4>1. d.materials \in Seq(Materials)
        BY <2>1, <2>2, DocsAssumption
      <4> QED
        BY <4>1, RangeEquality
    <3> QED
      BY <3>2, <3>4, <3>7, <3>8
  <2> QED
    BY <2>1, <2>4, <2>5, <2>6
<1> QED
  BY <1>1, ImportingInvariant, PTL

-----------------------------------------------------------------------------
(***************************************************************************)
(* Ranges in the masses                                                    *)
(***************************************************************************)

Axes == {"vtx", "idx"}
Fill == [vtx : Nat, idx : Nat]
MeshesOf(path) == ImportModel(files[path]).meshes

\* What the meshes of a model take of a mass, and where each of them starts.
Takes(path, axis) ==
    IF axis = "vtx" THEN Vertices(MeshesOf(path)) ELSE Indices(MeshesOf(path))
Start(path, v, axis) == forged[path].base[v][axis]
End(path, v, axis) == Start(path, v, axis) + Takes(path, axis)[v]

\* The ranges of all meshes are apart and in what the mass is filled with.
Laid ==
    /\ mass \in [anim : Fill, scene : Fill, materials : Nat]
    /\ \A path \in DOMAIN forged :
          forged[path].base \in [1 .. Len(MeshesOf(path)) -> Fill]
    /\ \A path \in DOMAIN forged : \A v \in 1 .. Len(MeshesOf(path)), axis \in Axes :
          End(path, v, axis) <= mass[Kind(path)][axis]
    /\ \A path, other \in DOMAIN forged :
          \A v \in 1 .. Len(MeshesOf(path)), w \in 1 .. Len(MeshesOf(other)), axis \in Axes :
             <<path, v>> # <<other, w>> /\ Kind(path) = Kind(other)
                => \/ End(path, v, axis) <= Start(other, w, axis)
                   \/ End(other, w, axis) <= Start(path, v, axis)

\* The mesh of the document that is drawn as v.
Source(d, v) == d.meshes[Visual(d)[v]]

LEMMA SourceIs ==
  ASSUME NEW d, Parsed(d), Usable(d)
  PROVE  /\ Len(ImportModel(d).meshes) = Len(Visual(d)) /\ Len(Visual(d)) \in Nat
         /\ \A v \in 1 .. Len(Visual(d)) :
               /\ Visual(d)[v] \in 1 .. Len(d.meshes) /\ Visual(d)[v] \in Range(Visual(d))
               /\ Mesh(Source(d, v))
               /\ ImportModel(d).meshes[v] = ImportMesh(d, v)
<1>1. Visual(d) \in Seq(1 .. Len(d.meshes)) /\ Len(Visual(d)) \in Nat
  BY VisualIs
<1>2. ImportModel(d).meshes = [v \in 1 .. Len(Visual(d)) |-> ImportMesh(d, v)]
  BY DEF ImportModel
<1>3. ASSUME NEW v \in 1 .. Len(Visual(d))
      PROVE  /\ Visual(d)[v] \in 1 .. Len(d.meshes) /\ Visual(d)[v] \in Range(Visual(d))
             /\ Mesh(Source(d, v))
  <2>1. Visual(d)[v] \in 1 .. Len(d.meshes)
    BY <1>1, ElementOfSeq
  <2>2. Visual(d)[v] \in Range(Visual(d))
    BY <1>1, RangeEquality
  <2> QED
    BY <2>1, <2>2, MeshIs DEF Source
<1> QED
  BY <1>1, <1>2, <1>3

LEMMA ImportMeshIs ==
  ASSUME NEW d, NEW v
  PROVE  /\ ImportMesh(d, v).vtx_count = Total(VtxCounts(Source(d, v)))
         /\ ImportMesh(d, v).idx_count = Total(IdxCounts(Source(d, v)))
         /\ ImportMesh(d, v).submeshes = [i \in 1 .. Len(Source(d, v)) |-> ImportSubmesh(d, v, i)]
<1> DEFINE a == Total(VtxCounts(Source(d, v)))
           b == Total(IdxCounts(Source(d, v)))
           c == [i \in 1 .. Len(Source(d, v)) |-> ImportSubmesh(d, v, i)]
<1>1. ImportMesh(d, v) = [vtx_count |-> a, idx_count |-> b, submeshes |-> c]
  BY DEF ImportMesh, Source
<1> HIDE DEF a, b, c
<1>2. /\ ImportMesh(d, v).vtx_count = a /\ ImportMesh(d, v).idx_count = b
      /\ ImportMesh(d, v).submeshes = c
  BY <1>1
<1> QED
  BY <1>2 DEF a, b, c

\* What a mesh takes of the masses is a number.
LEMMA TakesAre ==
  ASSUME files \in Contents, NEW path \in Paths, NEW axis \in Axes
  PROVE  /\ Takes(path, axis) \in Seq(Nat)
         /\ Len(Takes(path, axis)) = Len(MeshesOf(path)) /\ Len(MeshesOf(path)) \in Nat
         /\ \A v \in 1 .. Len(MeshesOf(path)) :
               Takes(path, axis)[v] = IF axis = "vtx" THEN MeshesOf(path)[v].vtx_count
                                                      ELSE MeshesOf(path)[v].idx_count
<1> DEFINE d == files[path]
           n == Len(MeshesOf(path))
<1>1. Parsed(d) /\ Usable(d)
  BY DocumentOf
<1>2. n \in Nat /\ \A v \in 1 .. n : Mesh(Source(d, v)) /\ MeshesOf(path)[v] = ImportMesh(d, v)
  BY <1>1, SourceIs DEF MeshesOf
<1>3. ASSUME NEW v \in 1 .. n
      PROVE  MeshesOf(path)[v].vtx_count \in Nat /\ MeshesOf(path)[v].idx_count \in Nat
  <2>1. MeshesOf(path)[v].vtx_count = Total(VtxCounts(Source(d, v)))
        /\ MeshesOf(path)[v].idx_count = Total(IdxCounts(Source(d, v)))
    <3>1. MeshesOf(path)[v] = ImportMesh(d, v)
      BY <1>2
    <3>2. /\ ImportMesh(d, v).vtx_count = Total(VtxCounts(Source(d, v)))
          /\ ImportMesh(d, v).idx_count = Total(IdxCounts(Source(d, v)))
      BY ImportMeshIs
    <3> HIDE DEF d
    <3> QED
      BY <3>1, <3>2, Zenon
  <2>2. VtxCounts(Source(d, v)) \in Seq(Nat) /\ IdxCounts(Source(d, v)) \in Seq(Nat)
    BY <1>2, CountsAre
  <2> QED
    BY <2>1, <2>2, TotalIs
<1>4. Takes(path, axis) = [v \in 1 .. n |-> IF axis = "vtx" THEN MeshesOf(path)[v].vtx_count
                                                            ELSE MeshesOf(path)[v].idx_count]
  BY DEF Takes, Vertices, Indices, Axes
<1> HIDE DEF n
<1>5. Takes(path, axis) \in [1 .. n -> Nat]
  BY <1>3, <1>4
<1>6. Takes(path, axis) \in Seq(Nat) /\ Len(Takes(path, axis)) = n
  BY <1>2, <1>5, FunctionIsSeq
<1> QED
  BY <1>2, <1>4, <1>6 DEF n

LEMMA KindIs == \A path : Kind(path) \in {"anim", "scene"}
BY DEF Kind

\* A step that makes no model of its own leaves the ranges as they are.
LEMMA LaidKept ==
  ASSUME Laid, UNCHANGED <<files, forged, mass>>
  PROVE  Laid'
<1>1. \A p : MeshesOf(p)' = MeshesOf(p) /\ Kind(p)' = Kind(p)
            /\ \A axis : Takes(p, axis)' = Takes(p, axis)
  BY DEF MeshesOf, Takes, Vertices, Indices, Kind
<1>2. \A p, v, axis : Start(p, v, axis)' = Start(p, v, axis) /\ End(p, v, axis)' = End(p, v, axis)
  BY <1>1 DEF Start, End
<1> QED
  BY <1>1, <1>2 DEF Laid

LEMMA EndIs ==
  ASSUME Importing, Laid, NEW path \in DOMAIN forged, NEW v \in 1 .. Len(MeshesOf(path)),
         NEW axis \in Axes
  PROVE  /\ Start(path, v, axis) \in Nat /\ Takes(path, axis)[v] \in Nat
         /\ End(path, v, axis) \in Nat
         /\ End(path, v, axis) = Start(path, v, axis) + Takes(path, axis)[v]
         /\ End(path, v, axis) <= mass[Kind(path)][axis]
<1>1. path \in Paths /\ files \in Contents
  BY DEF Importing, Typed, ImportInv, Filed
<1>2. Takes(path, axis)[v] \in Nat
  BY <1>1, TakesAre, ElementOfSeq
<1>3. forged[path].base[v] \in Fill
  BY DEF Laid
<1>4. Start(path, v, axis) \in Nat
  BY <1>3 DEF Start, Fill, Axes
<1>5. End(path, v, axis) = Start(path, v, axis) + Takes(path, axis)[v]
  BY DEF End
<1>6. End(path, v, axis) <= mass[Kind(path)][axis]
  BY DEF Laid
<1> QED
  BY <1>2, <1>4, <1>5, <1>6

LEMMA ForgeLays ==
  ASSUME Importing, Laid, NEW path \in Paths, Forge(path)
  PROVE  Laid'
<1> DEFINE n == Len(MeshesOf(path))
           kind == Kind(path)
<1>1. path \in DOMAIN models /\ path \notin DOMAIN forged /\ UNCHANGED <<files, models>>
  BY DEF Forge, banks
<1>2. files \in Contents /\ \A p \in DOMAIN forged : p \in Paths
  BY DEF Importing, Typed, ImportInv, Filed
<1>3. models[path].meshes = MeshesOf(path)
  BY <1>1 DEF Importing, Filed, MeshesOf
<1>4. CASE UNCHANGED <<forged, mass>>
  BY <1>1, <1>4, LaidKept
<1>5. CASE /\ mass' = [mass EXCEPT ![Kind(path)] = MeshBase(path, n + 1),
                                   !.materials = @ + Len(files[path].materials)]
           /\ forged' = Put(forged, path,
                            [base |-> [v \in 1 .. n |-> MeshBase(path, v)],
                             ssbo |-> mass.materials])
  <2>1. n \in Nat /\ Len(files[path].materials) \in Nat
    BY <1>2, TakesAre, DocumentOf DEF Axes
  <2>2. kind \in {"anim", "scene"} /\ \A p : Kind(p)' = Kind(p)
    BY <1>1, KindIs DEF Kind
  <2>3. mass \in [anim : Fill, scene : Fill, materials : Nat]
    BY DEF Laid
  <2>4. \A k \in {"anim", "scene"}, axis \in Axes : mass[k][axis] \in Nat
    BY <2>3 DEF Fill, Axes
  <2> DEFINE sums(axis) == Sums(Takes(path, axis))
  <2>5. \A axis \in Axes : sums(axis) \in [0 .. n -> Nat]
    BY <1>2, TakesAre, SumsAre
  <2>6. ASSUME NEW v \in 1 .. n + 1
        PROVE  /\ MeshBase(path, v) \in Fill
               /\ \A axis \in Axes : MeshBase(path, v)[axis] = mass[kind][axis] + sums(axis)[v - 1]
    <3>1. MeshBase(path, v) = [vtx |-> mass[kind].vtx + sums("vtx")[v - 1],
                               idx |-> mass[kind].idx + sums("idx")[v - 1]]
      BY <1>3 DEF MeshBase, Takes
    <3>2. v - 1 \in 0 .. n
      BY <2>1
    <3>3. \A axis \in Axes : sums(axis)[v - 1] \in Nat /\ mass[kind][axis] \in Nat
      BY <2>2, <2>4, <2>5, <3>2
    <3> HIDE DEF sums, kind
    <3> QED
      BY <3>1, <3>3 DEF Fill, Axes
  <2>7. /\ mass' \in [anim : Fill, scene : Fill, materials : Nat]
        /\ mass'[kind] = MeshBase(path, n + 1)
        /\ \A k \in {"anim", "scene"} : k # kind => mass'[k] = mass[k]
    <3>1. n + 1 \in 1 .. n + 1
      BY <2>1
    <3>2. MeshBase(path, n + 1) \in Fill
      BY <2>6, <3>1
    <3> DEFINE top == MeshBase(path, n + 1)
    <3>3. mass' = [mass EXCEPT ![kind] = top, !.materials = @ + Len(files[path].materials)]
      BY <1>5
    <3>4. top \in Fill
      BY <3>2
    <3> HIDE DEF top, kind, n
    <3>5. kind = "anim" \/ kind = "scene"
      BY <2>2
    <3>6. mass.materials + Len(files[path].materials) \in Nat
      BY <2>1, <2>3
    <3>7. /\ mass' \in [anim : Fill, scene : Fill, materials : Nat]
          /\ mass'[kind] = top
          /\ \A k \in {"anim", "scene"} : k # kind => mass'[k] = mass[k]
      BY <2>3, <3>3, <3>4, <3>5, <3>6
    <3> QED
      BY <3>7 DEF top
  <2>8. ASSUME NEW axis \in Axes
        PROVE  mass'[kind][axis] = mass[kind][axis] + sums(axis)[n]
    <3>1. n + 1 \in 1 .. n + 1 /\ (n + 1) - 1 = n
      BY <2>1
    <3> QED
      BY <2>6, <2>7, <3>1
  <2>9. ASSUME NEW p \in DOMAIN forged', NEW axis \in Axes
        PROVE  /\ mass[Kind(p)][axis] \in Nat /\ mass'[Kind(p)][axis] \in Nat
               /\ mass[Kind(p)][axis] <= mass'[Kind(p)][axis]
    <3>1. Kind(p) \in {"anim", "scene"} /\ mass[Kind(p)][axis] \in Nat
      BY <2>4, KindIs
    <3>2. n \in 0 .. n /\ sums(axis)[n] \in Nat
      BY <2>1, <2>5
    <3> HIDE DEF sums, n, kind
    <3>3. CASE Kind(p) = kind
      BY <2>8, <3>1, <3>2, <3>3
    <3>4. CASE Kind(p) # kind
      BY <2>7, <3>1, <3>4
    <3> QED
      BY <3>3, <3>4
  <2>10. /\ DOMAIN forged' = DOMAIN forged \cup {path}
         /\ forged'[path].base = [v \in 1 .. n |-> MeshBase(path, v)]
         /\ \A p \in DOMAIN forged : forged'[p] = forged[p]
    <3> DEFINE fresh == [base |-> [v \in 1 .. n |-> MeshBase(path, v)], ssbo |-> mass.materials]
    <3>1. forged' = Put(forged, path, fresh)
      BY <1>5
    <3>2. fresh.base = [v \in 1 .. n |-> MeshBase(path, v)]
      OBVIOUS
    <3> HIDE DEF fresh, n
    <3>3. DOMAIN forged' = DOMAIN forged \cup {path} /\ forged'[path] = fresh
          /\ \A p \in DOMAIN forged : forged'[p] = forged[p]
      BY <1>1, <3>1 DEF Put
    <3> QED
      BY <3>2, <3>3
  <2>11. \A p : MeshesOf(p)' = MeshesOf(p) /\ \A axis : Takes(p, axis)' = Takes(p, axis)
    BY <1>1 DEF MeshesOf, Takes, Vertices, Indices
  <2>12. \A p \in DOMAIN forged : \A v, axis : Start(p, v, axis)' = Start(p, v, axis)
                                              /\ End(p, v, axis)' = End(p, v, axis)
    BY <2>10, <2>11 DEF Start, End
  <2>13. ASSUME NEW v \in 1 .. n, NEW axis \in Axes
         PROVE  /\ Start(path, v, axis)' = mass[kind][axis] + sums(axis)[v - 1]
                /\ End(path, v, axis)' = mass[kind][axis] + (sums(axis)[v - 1] + Takes(path, axis)[v])
                /\ sums(axis)[v - 1] \in Nat /\ Takes(path, axis)[v] \in Nat
                /\ mass[kind][axis] \in Nat
    <3>1. v \in 1 .. n + 1 /\ v - 1 \in 0 .. n
      BY <2>1
    <3>2. forged'[path].base[v] = MeshBase(path, v)
      BY <2>10
    <3>3. Start(path, v, axis)' = mass[kind][axis] + sums(axis)[v - 1]
      BY <2>6, <3>1, <3>2 DEF Start
    <3>4. sums(axis)[v - 1] \in Nat /\ mass[kind][axis] \in Nat
      BY <2>2, <2>4, <2>5, <3>1
    <3>5. Takes(path, axis)[v] \in Nat
      BY <1>2, TakesAre, ElementOfSeq
    <3>6. End(path, v, axis)' = Start(path, v, axis)' + Takes(path, axis)[v]
      BY <2>11 DEF End
    <3> HIDE DEF sums, kind, n
    <3> QED
      BY <3>3, <3>4, <3>5, <3>6
  <2>14. ASSUME NEW v \in 1 .. n, NEW w \in 0 .. n, v <= w, NEW axis \in Axes
         PROVE  sums(axis)[v - 1] + Takes(path, axis)[v] <= sums(axis)[w]
    <3>1. v - 1 \in 0 .. n /\ v - 1 < w /\ (v - 1) + 1 = v
      BY <2>1, <2>14
    <3>2. Takes(path, axis) \in Seq(Nat) /\ Len(Takes(path, axis)) = n
      BY <1>2, TakesAre
    <3> HIDE DEF n
    <3> QED
      BY <3>1, <3>2, SumsGrow
  <2>15. \A p \in DOMAIN forged' : forged'[p].base \in [1 .. Len(MeshesOf(p)) -> Fill]
    <3>1. [v \in 1 .. n |-> MeshBase(path, v)] \in [1 .. n -> Fill]
      <4>1. \A v \in 1 .. n : v \in 1 .. n + 1
        BY <2>1
      <4> QED
        BY <2>6, <4>1
    <3> QED
      BY <2>10, <3>1 DEF Laid
  <2>16. ASSUME NEW p \in DOMAIN forged', NEW v \in 1 .. Len(MeshesOf(p)), NEW axis \in Axes
         PROVE  End(p, v, axis)' <= mass'[Kind(p)][axis]
    <3>1. CASE p = path
      <4>1. n \in 0 .. n /\ v <= n /\ v \in 1 .. n
        BY <2>1, <3>1
      <4>2. sums(axis)[n] \in Nat
        BY <2>5, <4>1
      <4>3. sums(axis)[v - 1] + Takes(path, axis)[v] <= sums(axis)[n]
        BY <2>14, <4>1
      <4> HIDE DEF sums
      <4> QED
        BY <2>8, <2>13, <3>1, <4>1, <4>2, <4>3
    <3>2. CASE p # path
      <4>1. p \in DOMAIN forged
        BY <2>10, <3>2
      <4>2. End(p, v, axis) <= mass[Kind(p)][axis] /\ End(p, v, axis) \in Nat
        BY <4>1, EndIs
      <4> QED
        BY <2>9, <2>12, <4>1, <4>2
    <3> QED
      BY <3>1, <3>2
  <2> DEFINE Free(p, v, o, w, axis) == \/ End(p, v, axis)' <= Start(o, w, axis)'
                                       \/ End(o, w, axis)' <= Start(p, v, axis)'
  <2>17. ASSUME NEW p \in DOMAIN forged, NEW v \in 1 .. Len(MeshesOf(p)),
                NEW w \in 1 .. n, NEW axis \in Axes, Kind(p) = kind
         PROVE  End(p, v, axis)' <= Start(path, w, axis)'
    <3>1. End(p, v, axis) <= mass[kind][axis] /\ End(p, v, axis) \in Nat
      BY <2>17, EndIs
    <3> HIDE DEF sums, kind, n
    <3> QED
      BY <2>12, <2>13, <3>1
  <2>18. ASSUME NEW v \in 1 .. n, NEW w \in 1 .. n, v < w, NEW axis \in Axes
         PROVE  End(path, v, axis)' <= Start(path, w, axis)'
    <3>1. w - 1 \in 0 .. n /\ v <= w - 1
      BY <2>1, <2>18
    <3>2. sums(axis)[v - 1] + Takes(path, axis)[v] <= sums(axis)[w - 1]
      BY <2>14, <3>1
    <3> HIDE DEF sums, kind, n
    <3> QED
      BY <2>13, <3>2
  <2>19. ASSUME NEW p \in DOMAIN forged', NEW o \in DOMAIN forged',
                NEW v \in 1 .. Len(MeshesOf(p)), NEW w \in 1 .. Len(MeshesOf(o)), NEW axis \in Axes,
                <<p, v>> # <<o, w>>, Kind(p) = Kind(o)
         PROVE  Free(p, v, o, w, axis)
    <3>1. CASE p \in DOMAIN forged /\ o \in DOMAIN forged
      BY <2>12, <2>19, <3>1 DEF Laid
    <3>2. CASE p \in DOMAIN forged /\ o = path
      BY <2>17, <2>19, <3>2
    <3>3. CASE p = path /\ o \in DOMAIN forged
      BY <2>17, <2>19, <3>3
    <3>4. CASE p = path /\ o = path
      <4>1. v < w \/ w < v
        BY <2>1, <2>19, <3>4
      <4> QED
        BY <2>18, <3>4, <4>1
    <3> QED
      BY <2>10, <3>1, <3>2, <3>3, <3>4
  <2> HIDE DEF n, kind, sums
  <2> QED
    BY <2>2, <2>7, <2>11, <2>15, <2>16, <2>19 DEF Laid
<1> QED
  BY <1>3, <1>4, <1>5 DEF Forge

\* Where the primitives of a mesh start and end.
LEMMA CursorsAre ==
  ASSUME NEW mesh, Mesh(mesh), NEW i \in 1 .. Len(mesh)
  PROVE  /\ VtxCursor(mesh, i) \in Nat /\ IdxCursor(mesh, i) \in Nat
         /\ mesh[i].vtx \in Nat /\ Written(mesh[i]) \in Nat
         /\ VtxCursor(mesh, i) + mesh[i].vtx <= Total(VtxCounts(mesh))
         /\ IdxCursor(mesh, i) + Written(mesh[i]) <= Total(WrittenCounts(mesh))
         /\ \A j \in 1 .. Len(mesh) : i < j =>
               /\ VtxCursor(mesh, i) + mesh[i].vtx <= VtxCursor(mesh, j)
               /\ IdxCursor(mesh, i) + Written(mesh[i]) <= IdxCursor(mesh, j)
         /\ VtxCursor(mesh, i) = 0 <=> i = 1
<1> DEFINE n == Len(mesh)
           vtx == VtxCounts(mesh)
           wrt == WrittenCounts(mesh)
<1>1. /\ n \in Nat /\ vtx \in Seq(Nat) /\ Len(vtx) = n /\ wrt \in Seq(Nat) /\ Len(wrt) = n
      /\ \A k \in 1 .. n : /\ vtx[k] = mesh[k].vtx /\ wrt[k] = Written(mesh[k])
                           /\ mesh[k].vtx \in Nat \ {0} /\ Written(mesh[k]) \in Nat
  BY CountsAre
<1>2. /\ \A k : VtxCursor(mesh, k) = Sums(vtx)[k - 1] /\ IdxCursor(mesh, k) = Sums(wrt)[k - 1]
      /\ Total(vtx) = Sums(vtx)[n] /\ Total(wrt) = Sums(wrt)[n]
  BY <1>1 DEF VtxCursor, IdxCursor, Total
<1>3. i \in 1 .. n
  OBVIOUS
<1> HIDE DEF n, vtx, wrt
<1>4. /\ Sums(vtx) \in [0 .. n -> Nat] /\ Sums(wrt) \in [0 .. n -> Nat] /\ Sums(vtx)[0] = 0
  BY <1>1, SumsAre
<1>5. i - 1 \in 0 .. n /\ n \in 0 .. n /\ i - 1 < n /\ (i - 1) + 1 = i /\ 0 \in 0 .. n
  BY <1>1, <1>3
<1>6. \A j \in 0 .. n : i - 1 < j =>
         /\ Sums(vtx)[i - 1] + vtx[i] <= Sums(vtx)[j]
         /\ Sums(wrt)[i - 1] + wrt[i] <= Sums(wrt)[j]
  BY <1>1, <1>5, SumsGrow
<1>7. Sums(vtx)[i - 1] \in Nat /\ Sums(wrt)[i - 1] \in Nat
  BY <1>4, <1>5
<1>8. \A j \in 1 .. n : i < j => j - 1 \in 0 .. n /\ i - 1 < j - 1
  BY <1>1, <1>3
<1>9. Sums(vtx)[i - 1] = 0 <=> i = 1
  <2>1. CASE i = 1
    BY <1>4, <2>1
  <2>2. CASE i # 1
    <3>1. 0 < i - 1 /\ 1 \in 1 .. n /\ 0 + 1 = 1
      BY <1>1, <1>3, <2>2
    <3>2. Sums(vtx)[0] + vtx[1] <= Sums(vtx)[i - 1]
      <4>1. Sums(vtx)[0] + vtx[0 + 1] <= Sums(vtx)[i - 1]
        BY <1>1, <1>5, <3>1, SumsGrow
      <4> QED
        BY <3>1, <4>1
    <3>3. vtx[1] \in Nat \ {0}
      BY <1>1, <3>1
    <3> QED
      BY <1>4, <1>7, <2>2, <3>2, <3>3
  <2> QED
    BY <2>1, <2>2
<1>10. /\ VtxCursor(mesh, i) = Sums(vtx)[i - 1] /\ IdxCursor(mesh, i) = Sums(wrt)[i - 1]
       /\ vtx[i] = mesh[i].vtx /\ wrt[i] = Written(mesh[i])
       /\ mesh[i].vtx \in Nat /\ Written(mesh[i]) \in Nat
  BY <1>1, <1>2, <1>3
<1>11. \A j \in 1 .. n : i < j =>
          /\ VtxCursor(mesh, i) + mesh[i].vtx <= VtxCursor(mesh, j)
          /\ IdxCursor(mesh, i) + Written(mesh[i]) <= IdxCursor(mesh, j)
  <2> SUFFICES ASSUME NEW j \in 1 .. n, i < j
               PROVE  /\ VtxCursor(mesh, i) + mesh[i].vtx <= VtxCursor(mesh, j)
                      /\ IdxCursor(mesh, i) + Written(mesh[i]) <= IdxCursor(mesh, j)
    OBVIOUS
  <2>1. /\ Sums(vtx)[i - 1] + vtx[i] <= Sums(vtx)[j - 1]
        /\ Sums(wrt)[i - 1] + wrt[i] <= Sums(wrt)[j - 1]
    BY <1>6, <1>8
  <2>2. VtxCursor(mesh, j) = Sums(vtx)[j - 1] /\ IdxCursor(mesh, j) = Sums(wrt)[j - 1]
    BY <1>2
  <2> QED
    BY <1>10, <2>1, <2>2
<1>12. VtxCursor(mesh, i) + mesh[i].vtx <= Total(vtx)
       /\ IdxCursor(mesh, i) + Written(mesh[i]) <= Total(wrt)
  BY <1>2, <1>5, <1>6, <1>10
<1>13. VtxCursor(mesh, i) \in Nat /\ IdxCursor(mesh, i) \in Nat
       /\ (VtxCursor(mesh, i) = 0 <=> i = 1)
  BY <1>7, <1>9, <1>10
<1> QED
  BY <1>10, <1>11, <1>12, <1>13 DEF n, vtx, wrt

LEMMA Offset ==
  \A b, s, t, n \in Nat : s + t <= n =>
      b + s \in Nat /\ (b + s) + t \in Nat /\ b <= b + s /\ (b + s) + t <= b + n
OBVIOUS

\* A submesh lies in its mesh, after those before it; its indices are moved
\* unless it is a list or the first.
LEMMA SubmeshIs ==
  ASSUME NEW d, Parsed(d), Usable(d), ~ Overruns(d), NEW v \in 1 .. Len(Visual(d)),
         NEW i \in 1 .. Len(Source(d, v)), NEW sub, sub = ImportMesh(d, v).submeshes[i]
  PROVE  /\ Source(d, v)[i].vtx \in Nat /\ sub.vtx_base \in Nat
         /\ sub.idx_first \in Nat /\ sub.idx_count \in Nat
         /\ sub.vtx_base + Source(d, v)[i].vtx <= ImportMesh(d, v).vtx_count
         /\ sub.idx_first + sub.idx_count <= ImportMesh(d, v).idx_count
         /\ \A j \in 1 .. Len(Source(d, v)) : i < j =>
               /\ sub.vtx_base + Source(d, v)[i].vtx <= ImportMesh(d, v).submeshes[j].vtx_base
               /\ sub.idx_first + sub.idx_count <= ImportMesh(d, v).submeshes[j].idx_first
         /\ sub.shift = 0 <=> ~ (Source(d, v)[i].kind \in Fans /\ i > 1)
<1> DEFINE mesh == Source(d, v)
<1>1. Mesh(mesh) /\ Visual(d)[v] \in Range(Visual(d))
  BY SourceIs
<1>2. /\ ImportMesh(d, v).vtx_count = Total(VtxCounts(mesh))
      /\ ImportMesh(d, v).idx_count = Total(IdxCounts(mesh))
      /\ \A j \in 1 .. Len(mesh) : ImportMesh(d, v).submeshes[j] = ImportSubmesh(d, v, j)
  <2>1. /\ ImportMesh(d, v).vtx_count = Total(VtxCounts(mesh))
        /\ ImportMesh(d, v).idx_count = Total(IdxCounts(mesh))
        /\ ImportMesh(d, v).submeshes = [j \in 1 .. Len(mesh) |-> ImportSubmesh(d, v, j)]
    BY ImportMeshIs, Zenon
  <2> HIDE DEF mesh
  <2> QED
    BY <2>1
<1>3. \A j : /\ ImportSubmesh(d, v, j).vtx_base = VtxCursor(mesh, j)
             /\ ImportSubmesh(d, v, j).idx_first = IdxCursor(mesh, j)
             /\ ImportSubmesh(d, v, j).idx_count = Written(mesh[j])
             /\ ImportSubmesh(d, v, j).shift = Shift(mesh[j], VtxCursor(mesh, j))
  BY DEF ImportSubmesh, Source
<1>4. ~ (Total(WrittenCounts(mesh)) > Total(IdxCounts(mesh)))
  BY <1>1 DEF Overruns, Source
<1>5. i \in 1 .. Len(mesh) /\ sub = ImportSubmesh(d, v, i)
  BY <1>2
<1> HIDE DEF mesh
<1>6. Total(WrittenCounts(mesh)) \in Nat /\ Total(IdxCounts(mesh)) \in Nat /\ Len(mesh) \in Nat
  BY <1>1, CountsAre, TotalIs
<1>7. Total(WrittenCounts(mesh)) <= Total(IdxCounts(mesh))
  BY <1>4, <1>6
<1>8. /\ VtxCursor(mesh, i) \in Nat /\ IdxCursor(mesh, i) \in Nat
      /\ mesh[i].vtx \in Nat /\ Written(mesh[i]) \in Nat
      /\ VtxCursor(mesh, i) + mesh[i].vtx <= Total(VtxCounts(mesh))
      /\ IdxCursor(mesh, i) + Written(mesh[i]) <= Total(WrittenCounts(mesh))
      /\ \A j \in 1 .. Len(mesh) : i < j =>
            /\ VtxCursor(mesh, i) + mesh[i].vtx <= VtxCursor(mesh, j)
            /\ IdxCursor(mesh, i) + Written(mesh[i]) <= IdxCursor(mesh, j)
      /\ VtxCursor(mesh, i) = 0 <=> i = 1
  BY <1>1, <1>5, CursorsAre
<1>9. sub.idx_first + sub.idx_count <= ImportMesh(d, v).idx_count
  BY <1>2, <1>3, <1>5, <1>6, <1>7, <1>8
<1>10. sub.shift = 0 <=> ~ (mesh[i].kind \in Fans /\ i > 1)
  BY <1>3, <1>5, <1>6, <1>8 DEF Shift
<1>11. /\ mesh[i].vtx \in Nat /\ sub.vtx_base \in Nat
       /\ sub.idx_first \in Nat /\ sub.idx_count \in Nat
       /\ sub.vtx_base + mesh[i].vtx <= ImportMesh(d, v).vtx_count
       /\ \A j \in 1 .. Len(mesh) : i < j =>
             /\ sub.vtx_base + mesh[i].vtx <= ImportMesh(d, v).submeshes[j].vtx_base
             /\ sub.idx_first + sub.idx_count <= ImportMesh(d, v).submeshes[j].idx_first
  BY <1>2, <1>3, <1>5, <1>8
<1> QED
  BY <1>9, <1>10, <1>11 DEF mesh

LEMMA OccluderIs ==
  ASSUME NEW d, Parsed(d)
  PROVE  /\ OccluderNode(d) \in 0 .. Len(d.nodes) /\ Len(d.nodes) \in Nat
         /\ OccluderMesh(d) \in 0 .. Len(d.meshes)
<1>1. /\ d.nodes \in Seq([occluder : BOOLEAN, mesh : 0 .. Len(d.meshes),
                          children : Seq(1 .. Len(d.nodes))])
      /\ d.meshes \in Seq(Seq(Primitives))
  BY DEF Parsed
<1>2. Len(d.nodes) \in Nat /\ Len(d.meshes) \in Nat
  BY <1>1, LenProperties
<1> DEFINE I == {i \in 1 .. Len(d.nodes) : d.nodes[i].occluder}
<1>3. OccluderNode(d) = IF I # {} THEN Min(I) ELSE 0
  BY DEF OccluderNode, SelectInSeq
<1>4. OccluderNode(d) \in 0 .. Len(d.nodes)
  <2>1. I \in SUBSET (1 .. Len(d.nodes))
    OBVIOUS
  <2> HIDE DEF I
  <2> QED
    BY <1>2, <1>3, <2>1, LeastOf
<1>5. ASSUME NEW n \in 1 .. Len(d.nodes) PROVE d.nodes[n].mesh \in 0 .. Len(d.meshes)
  <2>1. d.nodes[n] \in [occluder : BOOLEAN, mesh : 0 .. Len(d.meshes),
                        children : Seq(1 .. Len(d.nodes))]
    BY <1>1, ElementOfSeq
  <2> QED
    BY <2>1
<1>6. OccluderMesh(d) \in 0 .. Len(d.meshes)
  BY <1>2, <1>4, <1>5 DEF OccluderMesh
<1> QED
  BY <1>2, <1>4, <1>6

\* The invariant of the ranges: those of all meshes are apart.
THEOREM LaidInvariant == Spec => []Laid
<1>1. Init => Laid
  <2> SUFFICES ASSUME Init PROVE Laid
    OBVIOUS
  <2>1. DOMAIN forged = {} /\ mass \in [anim : Fill, scene : Fill, materials : Nat]
    BY DEF Init, Fill
  <2> QED
    BY <2>1 DEF Laid
<1>2. Importing /\ Laid /\ [Next]_vars => Laid'
  <2> SUFFICES ASSUME Importing, Laid, [Next]_vars PROVE Laid'
    OBVIOUS
  <2>1. CASE \E path \in Paths : Forge(path)
    BY <2>1, ForgeLays
  <2>2. CASE UNCHANGED <<files, forged, mass>>
    BY <2>2, LaidKept
  <2>3. (\E path \in Paths : Forge(path)) \/ UNCHANGED <<files, forged, mass>>
    BY DEF Next, Running, Rewrite, Request, FindMaterial, NoOrmh, KnownOrmh, MakeOrmh,
           AssignTex, FileMaterial, RejectModel, FileModel, Overwrite, vars
  <2> QED
    BY <2>1, <2>2, <2>3
<1> QED
  BY <1>1, <1>2, ImportingInvariant, PTL DEF Spec

\* Every submesh has its vertices and indices for itself; its indices are
\* moved, once too often, as SlicesOwn says.
THEOREM ImportSlicesOwn == Spec => []SlicesOwn
<1>1. Importing /\ Laid => SlicesOwn
  <2> SUFFICES ASSUME Importing, Laid PROVE SlicesOwn
    OBVIOUS
  <2> DEFINE Slices == UNION {Placed(path) : path \in DOMAIN forged}
             Sub(x) == models[x.path].meshes[x.mesh].submeshes[x.sub]
             Prim(x) == files[x.path].meshes[Visual(files[x.path])[x.mesh]][x.sub]
             Base(x) == forged[x.path].base[x.mesh]
             First(x) == Base(x).vtx + Sub(x).vtx_base
             Vtx(x) == First(x) .. (First(x) + Prim(x).vtx) - 1
             Idx(x) == Base(x).idx + Sub(x).idx_first ..
                       (Base(x).idx + Sub(x).idx_first + Sub(x).idx_count) - 1
  <2>1. \A path \in DOMAIN models :
           /\ path \in Paths /\ models[path] = ImportModel(files[path]) /\ ~ Overruns(files[path])
           /\ Parsed(files[path]) /\ Usable(files[path])
    <3>1. files \in Contents
      BY DEF Importing, Typed
    <3>2. \A path \in DOMAIN models :
             path \in Paths /\ models[path] = ImportModel(files[path]) /\ ~ Overruns(files[path])
      BY DEF Importing, Filed
    <3> QED
      BY <3>1, <3>2, DocumentOf
  <2>2. DOMAIN forged \subseteq DOMAIN models
    BY DEF Importing, ImportInv
  \* What is known of a slice.
  <2> DEFINE Low(x, axis) == IF axis = "vtx" THEN First(x) ELSE Base(x).idx + Sub(x).idx_first
             High(x, axis) == IF axis = "vtx" THEN First(x) + Prim(x).vtx
                              ELSE Base(x).idx + Sub(x).idx_first + Sub(x).idx_count
             Lies(x) == /\ x.path \in DOMAIN forged
                        /\ x.mesh \in 1 .. Len(MeshesOf(x.path))
                        /\ x.sub \in 1 .. Len(Source(files[x.path], x.mesh))
                        /\ \A axis \in Axes :
                              /\ Low(x, axis) \in Nat /\ High(x, axis) \in Nat
                              /\ Start(x.path, x.mesh, axis) <= Low(x, axis)
                              /\ High(x, axis) <= End(x.path, x.mesh, axis)
                        /\ Sub(x).shift = 0 <=> ~ (Prim(x).kind \in Fans /\ x.sub > 1)
             After0(x, y) == \A axis \in Axes : High(x, axis) <= Low(y, axis)
  <2>3. ASSUME NEW x \in Slices
        PROVE  /\ Lies(x) /\ x = [path |-> x.path, mesh |-> x.mesh, sub |-> x.sub]
               /\ \A y \in Slices : x.path = y.path /\ x.mesh = y.mesh /\ x.sub < y.sub
                     => After0(x, y)
    <3>1. PICK path \in DOMAIN forged : x \in Placed(path)
      OBVIOUS
    <3>2. PICK v \in 1 .. Len(forged[path].base) :
              \E i \in 1 .. Len(models[path].meshes[v].submeshes) :
                  x = [path |-> path, mesh |-> v, sub |-> i]
      BY <3>1 DEF Placed
    <3>3. PICK i \in 1 .. Len(models[path].meshes[v].submeshes) :
              x = [path |-> path, mesh |-> v, sub |-> i]
      BY <3>2
    <3> DEFINE d == files[path]
    <3>4. x.path = path /\ x.mesh = v /\ x.sub = i
          /\ x = [path |-> x.path, mesh |-> x.mesh, sub |-> x.sub]
      BY <3>3
    <3>5. Parsed(d) /\ Usable(d) /\ ~ Overruns(d) /\ models[path].meshes = MeshesOf(path)
      BY <2>1, <2>2 DEF MeshesOf
    <3>6. v \in 1 .. Len(MeshesOf(path)) /\ v \in 1 .. Len(Visual(d))
          /\ MeshesOf(path)[v] = ImportMesh(d, v)
      <4>1. Len(forged[path].base) = Len(MeshesOf(path))
        <5>1. Len(MeshesOf(path)) \in Nat
          BY <3>5, SourceIs DEF MeshesOf
        <5> QED
          BY <5>1, FunctionIsSeq DEF Laid
      <4>2. v \in 1 .. Len(MeshesOf(path))
        BY <4>1
      <4>3. /\ Len(MeshesOf(path)) = Len(Visual(d))
            /\ \A w \in 1 .. Len(Visual(d)) : MeshesOf(path)[w] = ImportMesh(d, w)
        BY <3>5, SourceIs DEF MeshesOf
      <4> QED
        BY <4>2, <4>3
    <3> DEFINE mesh == Source(d, v)
    <3>7. /\ Len(ImportMesh(d, v).submeshes) = Len(mesh) /\ Len(mesh) \in Nat
      <4>1. Mesh(mesh)
        BY <3>5, <3>6, SourceIs
      <4>2. Len(mesh) \in Nat
        BY <4>1, CountsAre
      <4>3. ImportMesh(d, v).submeshes = [j \in 1 .. Len(mesh) |-> ImportSubmesh(d, v, j)]
        BY ImportMeshIs
      <4> HIDE DEF mesh
      <4> QED
        BY <4>2, <4>3
    <3>8. i \in 1 .. Len(mesh)
      BY <3>5, <3>6, <3>7
    <3>9. PICK sub : sub = ImportMesh(d, v).submeshes[i]
      OBVIOUS
    <3>10. Sub(x) = sub /\ Prim(x) = mesh[i] /\ Base(x) = forged[path].base[v]
      BY <3>4, <3>5, <3>6, <3>9 DEF Source
    <3>11. /\ mesh[i].vtx \in Nat /\ sub.vtx_base \in Nat
           /\ sub.idx_first \in Nat /\ sub.idx_count \in Nat
           /\ sub.vtx_base + mesh[i].vtx <= ImportMesh(d, v).vtx_count
           /\ sub.idx_first + sub.idx_count <= ImportMesh(d, v).idx_count
           /\ \A j \in 1 .. Len(mesh) : i < j =>
                 /\ sub.vtx_base + mesh[i].vtx <= ImportMesh(d, v).submeshes[j].vtx_base
                 /\ sub.idx_first + sub.idx_count <= ImportMesh(d, v).submeshes[j].idx_first
           /\ sub.shift = 0 <=> ~ (mesh[i].kind \in Fans /\ i > 1)
      BY <3>5, <3>6, <3>8, <3>9, SubmeshIs
    <3>12. /\ Start(path, v, "vtx") = Base(x).vtx /\ Start(path, v, "idx") = Base(x).idx
           /\ Base(x).vtx \in Nat /\ Base(x).idx \in Nat
      BY <3>6, <3>10, EndIs DEF Start, Axes
    <3>13. /\ End(path, v, "vtx") = Base(x).vtx + ImportMesh(d, v).vtx_count
           /\ End(path, v, "idx") = Base(x).idx + ImportMesh(d, v).idx_count
           /\ ImportMesh(d, v).vtx_count \in Nat /\ ImportMesh(d, v).idx_count \in Nat
      <4>1. /\ Takes(path, "vtx")[v] = ImportMesh(d, v).vtx_count
            /\ Takes(path, "idx")[v] = ImportMesh(d, v).idx_count
        <5>1. path \in Paths /\ files \in Contents
          BY <2>1, <2>2 DEF Importing, Typed
        <5>2. "vtx" \in Axes /\ "idx" \in Axes /\ "idx" # "vtx"
          BY DEF Axes
        <5> QED
          BY <3>6, <5>1, <5>2, TakesAre
      <4>2. /\ End(path, v, "vtx") = Start(path, v, "vtx") + Takes(path, "vtx")[v]
            /\ End(path, v, "idx") = Start(path, v, "idx") + Takes(path, "idx")[v]
            /\ Takes(path, "vtx")[v] \in Nat /\ Takes(path, "idx")[v] \in Nat
        BY <3>6, EndIs DEF Axes
      <4> QED
        BY <3>12, <4>1, <4>2
    <3>14. Lies(x)
      <4>1. /\ Low(x, "vtx") = Base(x).vtx + sub.vtx_base
            /\ High(x, "vtx") = (Base(x).vtx + sub.vtx_base) + mesh[i].vtx
            /\ Low(x, "idx") = Base(x).idx + sub.idx_first
            /\ High(x, "idx") = Base(x).idx + sub.idx_first + sub.idx_count
        BY <3>10
      <4>2. /\ Low(x, "vtx") \in Nat /\ High(x, "vtx") \in Nat
            /\ Low(x, "idx") \in Nat /\ High(x, "idx") \in Nat
            /\ Start(path, v, "vtx") <= Low(x, "vtx") /\ High(x, "vtx") <= End(path, v, "vtx")
            /\ Start(path, v, "idx") <= Low(x, "idx") /\ High(x, "idx") <= End(path, v, "idx")
        <5> DEFINE b == Base(x).vtx
                   c == Base(x).idx
        <5>1. /\ b + sub.vtx_base \in Nat /\ (b + sub.vtx_base) + mesh[i].vtx \in Nat
              /\ b <= b + sub.vtx_base
              /\ (b + sub.vtx_base) + mesh[i].vtx <= b + ImportMesh(d, v).vtx_count
          <6>1. /\ b \in Nat /\ sub.vtx_base \in Nat /\ mesh[i].vtx \in Nat
                /\ ImportMesh(d, v).vtx_count \in Nat
                /\ sub.vtx_base + mesh[i].vtx <= ImportMesh(d, v).vtx_count
            BY <3>11, <3>12, <3>13
          <6> HIDE DEF b, d, mesh
          <6> QED
            BY <6>1, Offset
        <5>2. /\ c + sub.idx_first \in Nat /\ (c + sub.idx_first) + sub.idx_count \in Nat
              /\ c <= c + sub.idx_first
              /\ (c + sub.idx_first) + sub.idx_count <= c + ImportMesh(d, v).idx_count
          <6>1. /\ c \in Nat /\ sub.idx_first \in Nat /\ sub.idx_count \in Nat
                /\ ImportMesh(d, v).idx_count \in Nat
                /\ sub.idx_first + sub.idx_count <= ImportMesh(d, v).idx_count
            BY <3>11, <3>12, <3>13
          <6> HIDE DEF c, d, mesh
          <6> QED
            BY <6>1, Offset
        <5>3. Start(path, v, "vtx") = b /\ Start(path, v, "idx") = c
          BY <3>12
        <5>4. /\ End(path, v, "vtx") = b + ImportMesh(d, v).vtx_count
              /\ End(path, v, "idx") = c + ImportMesh(d, v).idx_count
          BY <3>13
        <5>5. /\ Low(x, "vtx") = b + sub.vtx_base
              /\ High(x, "vtx") = (b + sub.vtx_base) + mesh[i].vtx
              /\ Low(x, "idx") = c + sub.idx_first
              /\ High(x, "idx") = (c + sub.idx_first) + sub.idx_count
          BY <4>1
        <5> HIDE DEF b, c, Low, High, mesh
        <5> QED
          BY <5>1, <5>2, <5>3, <5>4, <5>5
      <4> HIDE DEF Low, High
      <4>3. \A axis \in Axes :
               /\ Low(x, axis) \in Nat /\ High(x, axis) \in Nat
               /\ Start(x.path, x.mesh, axis) <= Low(x, axis)
               /\ High(x, axis) <= End(x.path, x.mesh, axis)
        BY <3>4, <4>2 DEF Axes
      <4>4. Sub(x).shift = 0 <=> ~ (Prim(x).kind \in Fans /\ x.sub > 1)
        BY <3>4, <3>10, <3>11
      <4> HIDE DEF Sub, Prim
      <4> QED
        BY <3>4, <3>6, <3>8, <4>3, <4>4
    <3>15. ASSUME NEW y \in Slices, x.path = y.path, x.mesh = y.mesh, x.sub < y.sub
           PROVE  After0(x, y)
      <4>1. y.sub \in 1 .. Len(mesh)
        <5>1. PICK o \in DOMAIN forged : y \in Placed(o)
          OBVIOUS
        <5>2. PICK w \in 1 .. Len(forged[o].base) :
                  \E j \in 1 .. Len(models[o].meshes[w].submeshes) :
                      y = [path |-> o, mesh |-> w, sub |-> j]
          BY <5>1 DEF Placed
        <5>3. PICK j \in 1 .. Len(models[o].meshes[w].submeshes) :
                  y = [path |-> o, mesh |-> w, sub |-> j]
          BY <5>2
        <5>4. y.path = o /\ y.mesh = w /\ y.sub = j
          BY <5>3
        <5>5. o = path /\ w = v
          BY <3>4, <3>15, <5>4
        <5> QED
          BY <3>5, <3>6, <3>7, <5>4, <5>5
      <4>2. /\ sub.vtx_base + mesh[i].vtx <= ImportMesh(d, v).submeshes[y.sub].vtx_base
            /\ sub.idx_first + sub.idx_count <= ImportMesh(d, v).submeshes[y.sub].idx_first
        BY <3>4, <3>11, <3>15, <4>1
      <4>3. PICK next : next = ImportMesh(d, v).submeshes[y.sub]
        OBVIOUS
      <4>4. next.vtx_base \in Nat /\ next.idx_first \in Nat
        BY <3>5, <3>6, <4>1, <4>3, SubmeshIs
      <4>5. Sub(y) = next /\ Base(y) = Base(x)
        BY <3>4, <3>5, <3>6, <3>15, <4>3
      <4>6. /\ High(x, "vtx") = (Base(x).vtx + sub.vtx_base) + mesh[i].vtx
            /\ High(x, "idx") = Base(x).idx + sub.idx_first + sub.idx_count
            /\ Low(y, "vtx") = Base(x).vtx + next.vtx_base
            /\ Low(y, "idx") = Base(x).idx + next.idx_first
        BY <3>10, <4>5
      <4>7. High(x, "vtx") <= Low(y, "vtx") /\ High(x, "idx") <= Low(y, "idx")
        <5> DEFINE b == Base(x).vtx
                   c == Base(x).idx
        <5>1. (b + sub.vtx_base) + mesh[i].vtx <= b + next.vtx_base
          <6> HIDE DEF b, mesh
          <6> QED
            BY <3>11, <3>12, <4>2, <4>3, <4>4, Offset DEF b
        <5>2. (c + sub.idx_first) + sub.idx_count <= c + next.idx_first
          <6> HIDE DEF c, mesh
          <6> QED
            BY <3>11, <3>12, <4>2, <4>3, <4>4, Offset DEF c
        <5>3. /\ High(x, "vtx") = (b + sub.vtx_base) + mesh[i].vtx
              /\ High(x, "idx") = (c + sub.idx_first) + sub.idx_count
              /\ Low(y, "vtx") = b + next.vtx_base
              /\ Low(y, "idx") = c + next.idx_first
          BY <4>6
        <5> HIDE DEF b, c, Low, High, mesh
        <5> QED
          BY <5>1, <5>2, <5>3
      <4> HIDE DEF Low, High
      <4> QED
        BY <4>7 DEF Axes
    <3> HIDE DEF Lies, After0
    <3> QED
      BY <3>4, <3>14, <3>15
  <2> HIDE DEF Slices, Low, High, After0, Sub, Prim, Base
  <2>4. \A x \in Slices, axis \in Axes :
           /\ Low(x, axis) \in Nat /\ High(x, axis) \in Nat
           /\ Start(x.path, x.mesh, axis) \in Nat /\ End(x.path, x.mesh, axis) \in Nat
           /\ Start(x.path, x.mesh, axis) <= Low(x, axis)
           /\ High(x, axis) <= End(x.path, x.mesh, axis)
           /\ mass[Kind(x.path)][axis] \in Nat
           /\ End(x.path, x.mesh, axis) <= mass[Kind(x.path)][axis]
    <3>1. \A k \in {"anim", "scene"}, axis \in Axes : mass[k][axis] \in Nat
      BY DEF Laid, Fill, Axes
    <3>2. \A path : Kind(path) \in {"anim", "scene"}
      BY KindIs
    <3> QED
      BY <2>3, <3>1, <3>2, EndIs
  <2>5. ASSUME NEW x \in Slices, NEW y \in Slices, x # y, Kind(x.path) = Kind(y.path),
               NEW axis \in Axes
        PROVE  High(x, axis) <= Low(y, axis) \/ High(y, axis) <= Low(x, axis)
    <3>1. CASE <<x.path, x.mesh>> # <<y.path, y.mesh>>
      <4>1. /\ x.path \in DOMAIN forged /\ x.mesh \in 1 .. Len(MeshesOf(x.path))
            /\ y.path \in DOMAIN forged /\ y.mesh \in 1 .. Len(MeshesOf(y.path))
        BY <2>3
      <4>2. \/ End(x.path, x.mesh, axis) <= Start(y.path, y.mesh, axis)
            \/ End(y.path, y.mesh, axis) <= Start(x.path, x.mesh, axis)
        BY <2>5, <3>1, <4>1 DEF Laid
      <4> QED
        BY <2>4, <4>2
    <3>2. CASE <<x.path, x.mesh>> = <<y.path, y.mesh>>
      <4>1. x.path = y.path /\ x.mesh = y.mesh /\ x.sub # y.sub
        BY <2>3, <2>5, <3>2
      <4>2. x.sub \in Int /\ y.sub \in Int
        <5>1. x.sub \in 1 .. Len(Source(files[x.path], x.mesh))
              /\ y.sub \in 1 .. Len(Source(files[y.path], y.mesh))
          BY <2>3
        <5> QED
          BY <5>1
      <4>3. x.sub < y.sub \/ y.sub < x.sub
        BY <4>1, <4>2
      <4>4. After0(x, y) \/ After0(y, x)
        BY <2>3, <4>1, <4>3
      <4> QED
        BY <4>4 DEF After0
    <3> QED
      BY <3>1, <3>2
  <2>6. ASSUME NEW x \in Slices
        PROVE  /\ Vtx(x) = Low(x, "vtx") .. High(x, "vtx") - 1
               /\ Idx(x) = Low(x, "idx") .. High(x, "idx") - 1
    <3>1. "idx" # "vtx"
      OBVIOUS
    <3>2. Low(x, "vtx") = First(x) /\ High(x, "vtx") = First(x) + Prim(x).vtx
      BY DEF Low, High
    <3>3. /\ Low(x, "idx") = Base(x).idx + Sub(x).idx_first
          /\ High(x, "idx") = Base(x).idx + Sub(x).idx_first + Sub(x).idx_count
      BY <3>1 DEF Low, High
    <3> HIDE DEF Low, High
    <3>4. PICK a, b : a = Low(x, "vtx") /\ b = High(x, "vtx")
      OBVIOUS
    <3>5. PICK c, e : c = Low(x, "idx") /\ e = High(x, "idx")
      OBVIOUS
    <3>6. Vtx(x) = a .. b - 1
      BY <3>2, <3>4, Zenon DEF Vtx
    <3>7. Idx(x) = c .. e - 1
      BY <3>3, <3>5, Zenon DEF Idx
    <3> QED
      BY <3>4, <3>5, <3>6, <3>7, Zenon
  <2> HIDE DEF Vtx, Idx
  <2>7. ASSUME NEW x \in Slices, NEW y \in Slices, x # y, Kind(x.path) = Kind(y.path)
        PROVE  Vtx(x) \cap Vtx(y) = {} /\ Idx(x) \cap Idx(y) = {}
    <3>1. \A a, b, c, e \in Nat : b <= c \/ e <= a => (a .. b - 1) \cap (c .. e - 1) = {}
      OBVIOUS
    <3>2. "vtx" \in Axes /\ "idx" \in Axes
      BY DEF Axes
    <3>3. \A axis \in Axes :
             /\ High(x, axis) <= Low(y, axis) \/ High(y, axis) <= Low(x, axis)
             /\ Low(x, axis) \in Nat /\ High(x, axis) \in Nat
             /\ Low(y, axis) \in Nat /\ High(y, axis) \in Nat
      BY <2>4, <2>5, <2>7
    <3>4. \A axis \in Axes : (Low(x, axis) .. High(x, axis) - 1)
                              \cap (Low(y, axis) .. High(y, axis) - 1) = {}
      BY <3>1, <3>3
    <3> QED
      BY <2>6, <3>2, <3>4
  <2>8. ASSUME NEW x \in Slices
        PROVE  /\ Vtx(x) \subseteq 0 .. mass[Kind(x.path)].vtx - 1
               /\ Idx(x) \subseteq 0 .. mass[Kind(x.path)].idx - 1
               /\ (Sub(x).shift = 0 <=> ~(Prim(x).kind \in Fans /\ x.sub > 1))
    <3>1. \A a, b, c, e \in Nat : b <= c /\ c <= e => a .. b - 1 \subseteq 0 .. e - 1
      OBVIOUS
    <3>2. "vtx" \in Axes /\ "idx" \in Axes
      BY DEF Axes
    <3>3. ASSUME NEW axis \in Axes
          PROVE  Low(x, axis) .. High(x, axis) - 1 \subseteq 0 .. mass[Kind(x.path)][axis] - 1
      <4>1. PICK a, b, c, e \in Nat : /\ a = Low(x, axis) /\ b = High(x, axis)
                                      /\ c = End(x.path, x.mesh, axis)
                                      /\ e = mass[Kind(x.path)][axis]
                                      /\ b <= c /\ c <= e
        BY <2>4
      <4>2. a .. b - 1 \subseteq 0 .. e - 1
        BY <3>1, <4>1
      <4> QED
        BY <4>1, <4>2, Zenon
    <3>5. Vtx(x) \subseteq 0 .. mass[Kind(x.path)].vtx - 1
      BY <2>6, <3>2, <3>3
    <3>6. Idx(x) \subseteq 0 .. mass[Kind(x.path)].idx - 1
      BY <2>6, <3>2, <3>3
    <3>4. Sub(x).shift = 0 <=> ~(Prim(x).kind \in Fans /\ x.sub > 1)
      BY <2>3
    <3> QED
      BY <3>4, <3>5, <3>6
  <2>9. ASSUME NEW path \in DOMAIN models, NEW i \in 1 .. Len(models[path].twin)
        PROVE  LET part == models[path].twin[i]
                   prim == files[path].meshes[OccluderMesh(files[path])][i]
               IN part.shift = part.base <=> (i = 1 \/ prim.kind \in Fans)
    <3> DEFINE d == files[path]
               k == OccluderMesh(d)
               mesh == d.meshes[k]
    <3>1. models[path].twin = Twin(d) /\ Parsed(d) /\ Usable(d)
      BY <2>1 DEF ImportModel
    <3>2. k # 0
      <4>1. SUFFICES ASSUME k = 0 PROVE FALSE
        OBVIOUS
      <4>2. models[path].twin = <<>>
        BY <3>1, <4>1 DEF Twin
      <4>3. Len(models[path].twin) = 0
        BY <4>2
      <4> QED
        BY <4>3
    <3>3. k \in 1 .. Len(d.meshes)
      <4>1. k \in 0 .. Len(d.meshes) /\ Len(d.meshes) \in Nat
        BY <3>1, OccluderIs, VisualIs
      <4> HIDE DEF k
      <4> QED
        BY <3>2, <4>1
    <3>4. Mesh(mesh)
      BY <3>1, <3>3, MeshIs
    <3>5. Twin(d) = [j \in 1 .. Len(mesh) |->
                        [base |-> VtxCursor(mesh, j), vtx |-> mesh[j].vtx,
                         shift |-> Shift(mesh[j], VtxCursor(mesh, j))]]
      BY <3>2 DEF Twin
    <3> HIDE DEF mesh
    <3>6. Len(mesh) \in Nat /\ Len(Twin(d)) = Len(mesh)
      BY <3>4, <3>5, CountsAre
    <3>7. i \in 1 .. Len(mesh)
      BY <3>1, <3>6
    <3>8. VtxCursor(mesh, i) \in Nat /\ (VtxCursor(mesh, i) = 0 <=> i = 1)
      BY <3>4, <3>7, CursorsAre
    <3>9. /\ models[path].twin[i].base = VtxCursor(mesh, i)
          /\ models[path].twin[i].shift = Shift(mesh[i], VtxCursor(mesh, i))
      BY <3>1, <3>5, <3>7
    <3>10. models[path].twin[i].shift = models[path].twin[i].base <=> (i = 1 \/ mesh[i].kind \in Fans)
      BY <3>8, <3>9 DEF Shift
    <3> QED
      BY <3>10 DEF mesh
  <2> QED
    BY <2>7, <2>8, <2>9 DEF SlicesOwn, Slices, Vtx, Idx, Sub, Prim, Base
<1> QED
  BY <1>1, ImportingInvariant, LaidInvariant, PTL

-----------------------------------------------------------------------------
(***************************************************************************)
(* Nodes                                                                   *)
(***************************************************************************)

\* The children of the node n.
Under(d, n) == Range(d.nodes[n].children)

LEMMA NodesAre ==
  ASSUME NEW d, Parsed(d)
  PROVE  /\ Len(d.nodes) \in Nat
         /\ d.nodes \in Seq([occluder : BOOLEAN, mesh : 0 .. Len(d.meshes),
                             children : Seq(1 .. Len(d.nodes))])
         /\ \A n \in 1 .. Len(d.nodes) :
               /\ d.nodes[n].occluder \in BOOLEAN
               /\ d.nodes[n].mesh \in 0 .. Len(d.meshes)
               /\ d.nodes[n].children \in Seq(1 .. Len(d.nodes))
               /\ Len(d.nodes[n].children) \in Nat
               /\ Under(d, n) \subseteq 1 .. Len(d.nodes)
<1> DEFINE Node == [occluder : BOOLEAN, mesh : 0 .. Len(d.meshes),
                    children : Seq(1 .. Len(d.nodes))]
<1>1. d.nodes \in Seq(Node)
  BY DEF Parsed
<1>2. Len(d.nodes) \in Nat
  BY <1>1, LenProperties
<1>3. ASSUME NEW n \in 1 .. Len(d.nodes)
      PROVE  /\ d.nodes[n].occluder \in BOOLEAN
             /\ d.nodes[n].mesh \in 0 .. Len(d.meshes)
             /\ d.nodes[n].children \in Seq(1 .. Len(d.nodes))
  <2>1. d.nodes[n] \in Node
    <3> HIDE DEF Node
    <3> QED
      BY <1>1, ElementOfSeq
  <2> QED
    BY <2>1
<1>4. ASSUME NEW n \in 1 .. Len(d.nodes)
      PROVE  /\ Len(d.nodes[n].children) \in Nat
             /\ Under(d, n) \subseteq 1 .. Len(d.nodes)
  <2>1. d.nodes[n].children \in Seq(1 .. Len(d.nodes))
    BY <1>3
  <2> QED
    BY <2>1, LenProperties, RangeOfSeq DEF Under
<1> QED
  BY <1>1, <1>2, <1>3, <1>4

LEMMA UnderIs ==
  ASSUME NEW d, Parsed(d), NEW n \in 1 .. Len(d.nodes), NEW m
  PROVE  m \in Under(d, n) <=> \E i \in 1 .. Len(d.nodes[n].children) :
                                  d.nodes[n].children[i] = m
<1>1. d.nodes[n].children \in Seq(1 .. Len(d.nodes))
  BY NodesAre
<1>2. Under(d, n) = {d.nodes[n].children[i] : i \in 1 .. Len(d.nodes[n].children)}
  BY <1>1, RangeEquality DEF Under
<1> QED
  BY <1>2

\* One step of the mark: to the children of the nodes of S.
Marking(d, S) == S \cup UNION {Under(d, n) : n \in S}

\* As long as a step marks another node there are more nodes marked than steps.
LEMMA MarksGrow ==
  ASSUME NEW d, Parsed(d), NEW S \in SUBSET (1 .. Len(d.nodes)), NEW k \in Nat,
         Marking(d, S) = S \/ Cardinality(S) > k
  PROVE  LET T == Marking(d, S)
         IN /\ T \in SUBSET (1 .. Len(d.nodes))
            /\ Marking(d, T) = T \/ Cardinality(T) > k + 1
<1> DEFINE N == Len(d.nodes)
           T == Marking(d, S)
<1>1. N \in Nat /\ \A n \in 1 .. N : Under(d, n) \subseteq 1 .. N
  BY NodesAre
<1>2. T \in SUBSET (1 .. N) /\ S \in SUBSET T
  BY <1>1 DEF Marking
<1> HIDE DEF T, N
<1>3. CASE T = S
  BY <1>2, <1>3 DEF T, N
<1>4. CASE T # S
  <2>1. IsFiniteSet(1 .. N)
    BY <1>1, FS_Interval
  <2>2. IsFiniteSet(T)
    BY <1>2, <2>1, FS_Subset
  <2>3. IsFiniteSet(S) /\ Cardinality(S) <= Cardinality(T) /\ Cardinality(S) # Cardinality(T)
    BY <1>2, <1>4, <2>2, FS_Subset
  <2>4. Cardinality(S) \in Nat /\ Cardinality(T) \in Nat
    BY <2>2, <2>3, FS_CardinalityType
  <2>5. Cardinality(S) > k
    BY <1>4 DEF T
  <2>6. Cardinality(T) > k + 1
    BY <2>3, <2>4, <2>5
  <2> QED
    BY <1>2, <2>6 DEF T, N
<1> QED
  BY <1>3, <1>4

\* What is dropped: the roots, and with a node its children; nothing else.
LEMMA DroppedIs ==
  ASSUME NEW d, Parsed(d)
  PROVE  /\ Dropped(d) \subseteq 1 .. Len(d.nodes)
         /\ DropRoots(d) \subseteq Dropped(d)
         /\ \A n \in Dropped(d) : Under(d, n) \subseteq Dropped(d)
         /\ \A n \in Dropped(d) : n \in DropRoots(d) \/ \E m \in Dropped(d) : n \in Under(d, m)
<1> DEFINE N == Len(d.nodes)
           Sets == SUBSET (1 .. N)
           roots == DropRoots(d)
           next == [i \in 1 .. N |-> [S \in Sets |-> Marking(d, S)]]
           Is(f) == f = [k \in 0 .. N |->
                        IF k = 0 THEN roots
                        ELSE f[k - 1] \cup UNION {Range(d.nodes[n].children) : n \in f[k - 1]}]
<1>1. N \in Nat /\ \A n \in 1 .. N : Under(d, n) \subseteq 1 .. N
  BY NodesAre
<1>2. roots \in Sets
  BY DEF DropRoots
<1>3. \A S \in Sets : Marking(d, S) \in Sets
  BY <1>1 DEF Marking
<1> HIDE DEF roots
<1>4. PICK f \in [0 .. N -> Sets] : Follows(f, N, roots, next)
  <2>1. next \in [1 .. N -> [Sets -> Sets]]
    BY <1>3
  <2> HIDE DEF next, N, Sets
  <2> QED
    BY <1>1, <1>2, <2>1, Unrolling
<1>5. f[0] = roots /\ \A i \in 0 .. N - 1 : f[i + 1] = Marking(d, f[i])
  <2>1. ASSUME NEW i \in 0 .. N - 1 PROVE f[i + 1] = Marking(d, f[i])
    <3>1. i + 1 \in 1 .. N /\ f[i] \in Sets
      BY <1>1
    <3>2. f[i + 1] = next[i + 1][f[i]]
      BY <1>4 DEF Follows
    <3> HIDE DEF Sets
    <3> QED
      BY <3>1, <3>2
  <2> QED
    BY <1>4, <2>1 DEF Follows
<1> HIDE DEF next, N, Sets
<1>6. Is(f)
  <2>1. ASSUME NEW k \in 0 .. N, k # 0
        PROVE  f[k] = f[k - 1] \cup UNION {Range(d.nodes[n].children) : n \in f[k - 1]}
    <3>1. k - 1 \in 0 .. N - 1 /\ (k - 1) + 1 = k
      BY <1>1, <2>1
    <3>2. f[k] = Marking(d, f[k - 1])
      BY <1>5, <3>1
    <3> QED
      BY <3>2 DEF Marking, Under
  <2>2. f = [k \in 0 .. N |-> f[k]]
    OBVIOUS
  <2>3. ASSUME NEW k \in 0 .. N
        PROVE  f[k] = IF k = 0 THEN roots
                      ELSE f[k - 1] \cup UNION {Range(d.nodes[n].children) : n \in f[k - 1]}
    BY <1>5, <2>1
  <2> QED
    BY <2>2, <2>3, Zenon
<1>7. PICK g : Is(g) /\ Dropped(d) = g[N]
  <2>1. Dropped(d) = (CHOOSE g : Is(g))[N]
    BY DEF Dropped, N, roots
  <2> HIDE DEF Is
  <2> QED
    BY <1>6, <2>1
<1>8. g[0] = roots /\ \A i \in 0 .. N - 1 : g[i + 1] = Marking(d, g[i])
  <2>1. g[0] = roots
    BY <1>1, <1>7
  <2>2. ASSUME NEW i \in 0 .. N - 1 PROVE g[i + 1] = Marking(d, g[i])
    <3>1. i + 1 \in 0 .. N /\ i + 1 # 0 /\ (i + 1) - 1 = i
      BY <1>1
    <3>2. g[i + 1] = g[(i + 1) - 1] \cup UNION {Range(d.nodes[n].children) : n \in g[(i + 1) - 1]}
      BY <1>7, <3>1
    <3> QED
      BY <3>1, <3>2, Zenon DEF Marking, Under
  <2> QED
    BY <2>1, <2>2
<1> HIDE DEF Is
<1> DEFINE Good(k) == /\ g[k] \in Sets /\ roots \subseteq g[k]
                      /\ \A n \in g[k] : n \in roots \/ \E m \in g[k] : n \in Under(d, m)
                      /\ Marking(d, g[k]) = g[k] \/ Cardinality(g[k]) > k
           T == {k \in 0 .. N : Good(k)}
<1>9. 0 \in T
  <2>1. Marking(d, roots) = roots \/ Cardinality(roots) > 0
    <3>1. CASE roots = {}
      BY <3>1 DEF Marking
    <3>2. CASE roots # {}
      <4>1. IsFiniteSet(1 .. N)
        BY <1>1, FS_Interval
      <4>2. IsFiniteSet(roots)
        BY <1>2, <4>1, FS_Subset DEF Sets
      <4>3. Cardinality(roots) \in Nat /\ Cardinality(roots) # 0
        BY <3>2, <4>2, FS_CardinalityType, FS_EmptySet
      <4> QED
        BY <4>3
    <3> QED
      BY <3>1, <3>2
  <2>2. 0 \in 0 .. N
    BY <1>1
  <2>3. Good(0)
    BY <1>2, <1>8, <2>1
  <2> HIDE DEF Good
  <2> QED
    BY <2>2, <2>3
<1>10. ASSUME NEW k \in 0 .. N - 1, k \in T PROVE k + 1 \in T
  <2>1. k \in Nat /\ k + 1 \in 0 .. N /\ Good(k) /\ g[k + 1] = Marking(d, g[k])
    BY <1>1, <1>8, <1>10
  <2>2. /\ g[k + 1] \in Sets
        /\ Marking(d, g[k + 1]) = g[k + 1] \/ Cardinality(g[k + 1]) > k + 1
    BY <2>1, MarksGrow DEF Sets, N
  <2>3. g[k] \subseteq g[k + 1] /\ \A n \in g[k + 1] \ g[k] : \E m \in g[k] : n \in Under(d, m)
    BY <2>1 DEF Marking
  <2>4. Good(k + 1)
    BY <2>1, <2>2, <2>3
  <2> HIDE DEF Good
  <2> QED
    BY <2>1, <2>4
<1>11. N \in T
  <2>1. 0 .. N \subseteq T
    <3> HIDE DEF T
    <3> QED
      BY <1>1, <1>9, <1>10, Steps
  <2>2. N \in 0 .. N
    BY <1>1
  <2> HIDE DEF T
  <2> QED
    BY <2>1, <2>2
<1>12. Good(N)
  <2> HIDE DEF Good
  <2> QED
    BY <1>11
<1>13. Marking(d, g[N]) = g[N]
  <2>1. IsFiniteSet(1 .. N) /\ Cardinality(1 .. N) = N
    BY <1>1, FS_Interval
  <2>2. Cardinality(g[N]) <= Cardinality(1 .. N) /\ IsFiniteSet(g[N])
    BY <1>12, <2>1, FS_Subset DEF Sets
  <2>3. Cardinality(g[N]) \in Nat
    BY <2>2, FS_CardinalityType
  <2> QED
    BY <1>1, <1>12, <2>1, <2>2, <2>3
<1>14. \A n \in g[N] : Under(d, n) \subseteq g[N]
  BY <1>13 DEF Marking
<1> QED
  BY <1>7, <1>12, <1>14 DEF roots, Sets, N

\* The nodes that are kept are those not dropped, in their order.
LEMMA KeptIs ==
  ASSUME NEW d, Parsed(d)
  PROVE  /\ Ascending(Kept(d), Len(d.nodes), (1 .. Len(d.nodes)) \ Dropped(d))
         /\ Kept(d) \in Seq(1 .. Len(d.nodes)) /\ Len(Kept(d)) \in Nat
         /\ Range(Kept(d)) = (1 .. Len(d.nodes)) \ Dropped(d)
         /\ Range(Kept(d)) = {Kept(d)[i] : i \in 1 .. Len(Kept(d))}
         /\ \A i \in 1 .. Len(Kept(d)) : Kept(d)[i] \in 1 .. Len(d.nodes)
         /\ \A n : NodeRemap(d, n) \in 0 .. Len(Kept(d))
         /\ \A n \in 1 .. Len(d.nodes) : NodeRemap(d, n) = 0 <=> n \in Dropped(d)
         /\ \A n : NodeRemap(d, n) # 0 => Kept(d)[NodeRemap(d, n)] = n
         /\ \A i \in 1 .. Len(Kept(d)) : NodeRemap(d, Kept(d)[i]) = i
<1> DEFINE N == Len(d.nodes)
           S == (1 .. N) \ Dropped(d)
<1>1. N \in Nat /\ d.nodes \in Seq([occluder : BOOLEAN, mesh : 0 .. Len(d.meshes),
                                    children : Seq(1 .. Len(d.nodes))])
  BY NodesAre
<1>2. Ascending(Kept(d), N, S)
  BY <1>1, TakingNumbers DEF Kept
<1> HIDE DEF N, S
<1>3. Kept(d) \in Seq(1 .. N) /\ Len(Kept(d)) \in Nat
  BY <1>2, LenProperties DEF Ascending
<1>4. Range(Kept(d)) = {Kept(d)[i] : i \in 1 .. Len(Kept(d))}
  BY <1>3, RangeEquality
<1>5. \A i \in 1 .. Len(Kept(d)) : Kept(d)[i] \in 1 .. N /\ Kept(d)[i] \in S
  BY <1>2, <1>3, ElementOfSeq DEF Ascending
<1>6. Range(Kept(d)) = S
  <2>1. \A m \in S : m \in 1 .. N
    BY DEF S
  <2> QED
    BY <1>2, <1>4, <1>5, <2>1 DEF Ascending
<1>7. \A n : NodeRemap(d, n) = Place(Kept(d), n)
  BY DEF NodeRemap, Place
<1>8. /\ \A n : Place(Kept(d), n) \in 0 .. Len(Kept(d))
      /\ \A n \in 1 .. N : Place(Kept(d), n) = 0 <=> n \notin S
      /\ \A n : Place(Kept(d), n) # 0 => Kept(d)[Place(Kept(d), n)] = n
      /\ \A i \in 1 .. Len(Kept(d)) : Place(Kept(d), Kept(d)[i]) = i
  BY <1>1, <1>2, PlaceAscending
<1>9. \A n \in 1 .. N : n \notin S <=> n \in Dropped(d)
  BY DEF S
<1> QED
  BY <1>2, <1>3, <1>4, <1>5, <1>6, <1>7, <1>8, <1>9 DEF N, S

\* The new numbers of the meshes that are drawn.
LEMMA MeshRemapIs ==
  ASSUME NEW d, Parsed(d), NEW k \in 1 .. Len(d.meshes)
  PROVE  /\ MeshRemap(d, k) \in 0 .. Len(Visual(d))
         /\ MeshRemap(d, k) = 0 <=> k = OccluderMesh(d)
         /\ MeshRemap(d, k) # 0 => Visual(d)[MeshRemap(d, k)] = k
<1> DEFINE S == (1 .. Len(d.meshes)) \ {OccluderMesh(d)}
<1>1. Len(d.meshes) \in Nat /\ Ascending(Visual(d), Len(d.meshes), S)
  BY VisualIs
<1>2. MeshRemap(d, k) = Place(Visual(d), k)
  BY DEF MeshRemap, Place
<1>3. k \notin S <=> k = OccluderMesh(d)
  OBVIOUS
<1> HIDE DEF S
<1> QED
  BY <1>1, <1>2, <1>3, PlaceAscending

\* The roots of what is dropped are the occluders and the nodes with their mesh.
LEMMA RootsAre ==
  ASSUME NEW d, Parsed(d), NEW n \in 1 .. Len(d.nodes)
  PROVE  n \in DropRoots(d) <=> d.nodes[n].occluder
                                \/ d.nodes[n].mesh \in {OccluderMesh(d)} \ {0}
<1>1. d.nodes[n].mesh \in 0 .. Len(d.meshes) /\ Len(d.meshes) \in Nat
  BY NodesAre, VisualIs
<1>2. CASE d.nodes[n].mesh = 0
  BY <1>2 DEF DropRoots
<1>3. CASE d.nodes[n].mesh # 0
  <2>1. d.nodes[n].mesh \in 1 .. Len(d.meshes)
    BY <1>1, <1>3
  <2>2. MeshRemap(d, d.nodes[n].mesh) = 0 <=> d.nodes[n].mesh = OccluderMesh(d)
    BY <2>1, MeshRemapIs
  <2> QED
    BY <1>3, <2>2 DEF DropRoots
<1> QED
  BY <1>2, <1>3

\* A node has one parent at most.
LEMMA ParentIs ==
  ASSUME NEW d, Parsed(d), NEW n
  PROVE  /\ Parent(d, n) \in 0 .. Len(d.nodes)
         /\ Parent(d, n) # 0 => n \in Under(d, Parent(d, n))
         /\ \A m \in 1 .. Len(d.nodes) : n \in Under(d, m) => Parent(d, n) = m
<1> DEFINE I == {m \in 1 .. Len(d.nodes) : n \in Under(d, m)}
           p == Parent(d, n)
<1>1. p = IF I # {} THEN Min(I) ELSE 0
  BY DEF Parent, SelectInSeq, Under
<1>2. Len(d.nodes) \in Nat
  BY NodesAre
<1>3. I \in SUBSET (1 .. Len(d.nodes))
  OBVIOUS
<1>4. p \in 0 .. Len(d.nodes) /\ (p = 0 <=> I = {}) /\ (p # 0 => p \in I)
  <2> HIDE DEF I, p
  <2> QED
    BY <1>1, <1>2, <1>3, LeastOf
<1> HIDE DEF p
<1>5. ASSUME NEW m \in 1 .. Len(d.nodes), n \in Under(d, m) PROVE p = m
  <2>1. p \in 1 .. Len(d.nodes) /\ n \in Under(d, p)
    BY <1>4, <1>5
  <2>2. PICK i \in 1 .. Len(d.nodes[m].children) : d.nodes[m].children[i] = n
    BY <1>5, UnderIs
  <2>3. PICK j \in 1 .. Len(d.nodes[p].children) : d.nodes[p].children[j] = n
    BY <2>1, UnderIs
  <2> QED
    BY <2>1, <2>2, <2>3 DEF Parsed
<1> QED
  BY <1>4, <1>5 DEF p

\* A node is kept if it is no root of what is dropped and its parent, if it
\* has one, is kept.
LEMMA KeptWithParent ==
  ASSUME NEW d, Parsed(d), NEW n \in 1 .. Len(d.nodes)
  PROVE  n \in Range(Kept(d)) <=> n \notin DropRoots(d) /\ Parent(d, n) \in Range(Kept(d)) \cup {0}
<1> DEFINE p == Parent(d, n)
<1>1. Len(d.nodes) \in Nat /\ p \in 0 .. Len(d.nodes)
  BY NodesAre, ParentIs
<1>2. Range(Kept(d)) = (1 .. Len(d.nodes)) \ Dropped(d)
  BY KeptIs
<1>3. CASE n \in Dropped(d)
  <2>1. SUFFICES ASSUME n \notin DropRoots(d) PROVE p \notin Range(Kept(d)) \cup {0}
    BY <1>2, <1>3
  <2>2. PICK m \in Dropped(d) : n \in Under(d, m)
    BY <1>3, <2>1, DroppedIs
  <2>3. m \in 1 .. Len(d.nodes)
    BY DroppedIs
  <2>4. p = m
    BY <2>2, <2>3, ParentIs
  <2> QED
    BY <1>1, <1>2, <2>3, <2>4
<1>4. CASE n \notin Dropped(d)
  <2>1. n \notin DropRoots(d)
    BY <1>4, DroppedIs
  <2>2. p # 0 => p \notin Dropped(d)
    <3> SUFFICES ASSUME p # 0, p \in Dropped(d) PROVE FALSE
      OBVIOUS
    <3>1. n \in Under(d, p)
      BY ParentIs
    <3> QED
      BY <1>4, <3>1, DroppedIs
  <2>3. p = 0 \/ p \in Range(Kept(d))
    <3> HIDE DEF p
    <3> QED
      BY <1>1, <1>2, <2>2
  <2> QED
    BY <1>2, <1>4, <2>1, <2>3
<1> QED
  BY <1>3, <1>4

\* The children of a node that are kept, each once.
LEMMA KeptChildrenAre ==
  ASSUME NEW d, Parsed(d), NEW n \in 1 .. Len(d.nodes)
  PROVE  LET kids == KeptChildren(d, n)
         IN /\ kids \in Seq(1 .. Len(d.nodes)) /\ Len(kids) \in Nat
            /\ \A i \in 1 .. Len(kids) : kids[i] \in Under(d, n) \cap Range(Kept(d))
            /\ \A m \in Under(d, n) \cap Range(Kept(d)) : \E i \in 1 .. Len(kids) : kids[i] = m
            /\ \A i, j \in 1 .. Len(kids) : kids[i] = kids[j] => i = j
<1> DEFINE all == d.nodes[n].children
           S == Range(Kept(d))
           kids == KeptChildren(d, n)
<1>1. /\ all \in Seq(1 .. Len(d.nodes)) /\ Len(all) \in Nat
      /\ \A m : m \in Under(d, n) <=> \E i \in 1 .. Len(all) : all[i] = m
  <2>1. all \in Seq(1 .. Len(d.nodes)) /\ Len(all) \in Nat
    BY NodesAre
  <2>2. ASSUME NEW m PROVE m \in Under(d, n) <=> \E i \in 1 .. Len(all) : all[i] = m
    BY UnderIs
  <2> HIDE DEF all
  <2> QED
    BY <2>1, <2>2
<1>2. \A i, j \in 1 .. Len(all) : all[i] = all[j] => i = j
  BY DEF Parsed
<1>3. kids = Taking(all, S)
  BY DEF KeptChildren
<1> HIDE DEF all, S, kids
<1>4. kids \in Seq(1 .. Len(d.nodes)) /\ \E h : Picks(kids, all, Len(all), S, h)
  BY <1>1, <1>3, TakingIs
<1>5. Len(kids) \in Nat
  BY <1>4, LenProperties
<1>6. PICK h : Picks(kids, all, Len(all), S, h)
  BY <1>4
<1>7. \A i \in 1 .. Len(kids) : h[i] \in 1 .. Len(all) /\ kids[i] = all[h[i]] /\ all[h[i]] \in S
  BY <1>6 DEF Picks
<1>8. \A i \in 1 .. Len(kids) : kids[i] \in Under(d, n) \cap S
  BY <1>1, <1>7
<1>9. ASSUME NEW m \in Under(d, n) \cap S PROVE \E i \in 1 .. Len(kids) : kids[i] = m
  <2>1. PICK k \in 1 .. Len(all) : all[k] = m
    BY <1>1
  <2>2. PICK i \in 1 .. Len(kids) : h[i] = k
    BY <1>6, <2>1 DEF Picks
  <2> QED
    BY <1>7, <2>1, <2>2
<1>10. ASSUME NEW i \in 1 .. Len(kids), NEW j \in 1 .. Len(kids), kids[i] = kids[j]
       PROVE  i = j
  <2>1. h[i] = h[j]
    BY <1>2, <1>7, <1>10
  <2>2. ~ (i < j) /\ ~ (j < i)
    <3>1. h[i] \in 1 .. Len(all) /\ h[j] \in 1 .. Len(all)
      BY <1>7
    <3>2. ~ (h[i] < h[j]) /\ ~ (h[j] < h[i])
      BY <1>1, <2>1, <3>1
    <3> QED
      BY <1>6, <3>2 DEF Picks
  <2> QED
    BY <1>5, <2>2
<1> QED
  BY <1>4, <1>5, <1>8, <1>9, <1>10 DEF kids, S

\* The new numbers of the children of the new node n.
Kids(d, n) ==
    LET kids == KeptChildren(d, Kept(d)[n])
    IN [c \in 1 .. Len(kids) |-> NodeRemap(d, kids[c])]

LEMMA KidsAre ==
  ASSUME NEW d, Parsed(d), NEW n \in 1 .. Len(Kept(d))
  PROVE  /\ Kids(d, n) \in Seq(0 .. Len(Kept(d)))
         /\ Len(Kids(d, n)) = Len(KeptChildren(d, Kept(d)[n]))
         /\ Len(Kids(d, n)) \in Nat
         /\ Kids(d, n) \in [1 .. Len(Kids(d, n)) -> 0 .. Len(Kept(d))]
         /\ \A c \in 1 .. Len(Kids(d, n)) :
               Kids(d, n)[c] = NodeRemap(d, KeptChildren(d, Kept(d)[n])[c])
<1> DEFINE kids == KeptChildren(d, Kept(d)[n])
<1>1. Len(kids) \in Nat
  BY KeptIs, KeptChildrenAre
<1>2. Kids(d, n) = [c \in 1 .. Len(kids) |-> NodeRemap(d, kids[c])]
  BY DEF Kids
<1>3. \A m : NodeRemap(d, m) \in 0 .. Len(Kept(d))
  BY KeptIs
<1> HIDE DEF kids
<1>4. Kids(d, n) \in [1 .. Len(kids) -> 0 .. Len(Kept(d))]
  BY <1>2, <1>3
<1>5. Kids(d, n) \in Seq(0 .. Len(Kept(d))) /\ Len(Kids(d, n)) = Len(kids)
  BY <1>1, <1>4, FunctionIsSeq
<1>6. \A c \in 1 .. Len(kids) : Kids(d, n)[c] = NodeRemap(d, kids[c])
  BY <1>2
<1> QED
  BY <1>1, <1>4, <1>5, <1>6 DEF kids

\* In the array of children those of a node are at child_first.
LEMMA KidsInPlace ==
  ASSUME NEW d, Parsed(d), NEW n \in 1 .. Len(Kept(d)), NEW first, NEW count,
         first = Sums(ChildCounts(d))[n - 1], count = Len(KeptChildren(d, Kept(d)[n]))
  PROVE  SubSeq(NodeChildIdxs(d), first + 1, first + count) = Kids(d, n)
<1> DEFINE N == Len(Kept(d))
           A == 0 .. N
           seqs == [m \in 1 .. N |-> Kids(d, m)]
           lens == ChildCounts(d)
           flat == NodeChildIdxs(d)
<1>1. N \in Nat
  BY KeptIs
<1>2. flat = FlattenSeq(seqs)
  BY DEF NodeChildIdxs, Kids
<1>3. /\ \A m \in 1 .. N : Kids(d, m) \in Seq(A) /\ Len(Kids(d, m)) \in Nat
      /\ \A m \in 1 .. N : Len(Kids(d, m)) = Len(KeptChildren(d, Kept(d)[m]))
  BY KidsAre
<1>4. seqs \in [1 .. N -> Seq(A)]
  BY <1>3
<1>5. lens = [m \in 1 .. N |-> Len(Kids(d, m))]
  <2>1. lens = [m \in 1 .. N |-> Len(KeptChildren(d, Kept(d)[m]))]
    BY DEF ChildCounts
  <2> HIDE DEF lens, N
  <2> QED
    BY <1>3, <2>1
<1>6. \A m \in 1 .. N : seqs[m] = Kids(d, m)
  OBVIOUS
<1> HIDE DEF N, A, seqs, lens, flat
<1>7. seqs \in Seq(Seq(A)) /\ Len(seqs) = N
  BY <1>1, <1>4, FunctionIsSeq
<1>8. lens \in Seq(Nat) /\ Len(lens) = N /\ \A m \in 1 .. N : lens[m] = Len(seqs[m])
  <2>1. lens \in [1 .. N -> Nat]
    BY <1>3, <1>5
  <2> QED
    BY <1>1, <1>5, <1>6, <2>1, FunctionIsSeq
<1>9. \A m \in 1 .. N : \A c \in 1 .. Len(seqs[m]) : flat[Sums(lens)[m - 1] + c] = seqs[m][c]
  <2>1. Len(lens) = Len(seqs) /\ \A m \in 1 .. Len(seqs) : lens[m] = Len(seqs[m])
    BY <1>7, <1>8
  <2>2. \A m \in 1 .. Len(seqs) : \A c \in 1 .. Len(seqs[m]) :
           FlattenSeq(seqs)[Sums(lens)[m - 1] + c] = seqs[m][c]
    BY <1>7, <1>8, <2>1, FlattenIs
  <2> QED
    BY <1>2, <1>7, <2>2
<1>10. first \in Nat /\ count \in Nat /\ n \in 1 .. N /\ count = Len(Kids(d, n))
  <2>1. n \in 1 .. N /\ n - 1 \in 0 .. N
    BY <1>1 DEF N
  <2>2. Sums(lens) \in [0 .. N -> Nat]
    BY <1>8, SumsAre
  <2> QED
    BY <1>3, <2>1, <2>2 DEF lens
<1> DEFINE kids == Kids(d, n)
           part == SubSeq(flat, first + 1, first + count)
<1>11. /\ kids \in Seq(A) /\ Len(kids) = count
       /\ \A c \in 1 .. count : flat[first + c] = kids[c] /\ kids[c] \in A
  <2>1. kids \in Seq(A) /\ Len(kids) = count /\ seqs[n] = kids
    BY <1>3, <1>6, <1>10
  <2>2. \A c \in 1 .. count : flat[first + c] = kids[c]
    BY <1>9, <1>10, <2>1 DEF lens
  <2> HIDE DEF kids
  <2>3. \A c \in 1 .. count : kids[c] \in A
    BY <2>1, ElementOfSeq
  <2> QED
    BY <2>1, <2>2, <2>3
<1> HIDE DEF kids
<1>12. /\ part \in Seq(A) /\ Len(part) = count
       /\ \A c \in 1 .. count : part[c] = flat[first + c]
  <2> DEFINE a == first + 1
             b == first + count
  <2>1. a \in Int /\ b \in Int /\ b - a + 1 = count
    BY <1>10
  <2>2. \A i \in a .. b : flat[i] \in A
    <3> SUFFICES ASSUME NEW i \in a .. b PROVE flat[i] \in A
      OBVIOUS
    <3>1. i - first \in 1 .. count /\ first + (i - first) = i
      BY <1>10
    <3> QED
      BY <1>11, <3>1
  <2>3. /\ SubSeq(flat, a, b) \in Seq(A)
        /\ Len(SubSeq(flat, a, b)) = IF a <= b THEN b - a + 1 ELSE 0
        /\ \A i \in 1 .. b - a + 1 : SubSeq(flat, a, b)[i] = flat[a + i - 1]
    <3> HIDE DEF a, b
    <3> QED
      BY <2>1, <2>2, SubSeqProperties
  <2>4. Len(part) = count
    BY <1>10, <2>1, <2>3
  <2>5. ASSUME NEW c \in 1 .. count PROVE part[c] = flat[first + c]
    <3>1. c \in 1 .. b - a + 1 /\ a + c - 1 = first + c
      BY <1>10
    <3> HIDE DEF a, b
    <3>2. SubSeq(flat, a, b)[c] = flat[first + c]
      BY <2>3, <3>1
    <3> QED
      BY <3>2 DEF a, b
  <2> QED
    BY <2>3, <2>4, <2>5
<1> HIDE DEF part
<1>13. part = kids
  BY <1>11, <1>12, SeqEqual
<1> QED
  BY <1>13 DEF part, kids, flat

\* The fields of a new node.
LEMMA ImportNodeIs ==
  ASSUME NEW d, NEW n
  PROVE  /\ ImportNode(d, n).trs = Kept(d)[n]
         /\ ImportNode(d, n).mesh =
               IF d.nodes[Kept(d)[n]].mesh = 0 THEN 0 ELSE MeshRemap(d, d.nodes[Kept(d)[n]].mesh)
         /\ ImportNode(d, n).parent =
               IF Parent(d, Kept(d)[n]) = 0 THEN 0 ELSE NodeRemap(d, Parent(d, Kept(d)[n]))
         /\ ImportNode(d, n).child_first = Sums(ChildCounts(d))[n - 1]
         /\ ImportNode(d, n).child_count = Len(KeptChildren(d, Kept(d)[n]))
<1> DEFINE a == Kept(d)[n]
           b == IF d.nodes[a].mesh = 0 THEN 0 ELSE MeshRemap(d, d.nodes[a].mesh)
           c == IF Parent(d, a) = 0 THEN 0 ELSE NodeRemap(d, Parent(d, a))
           e == Sums(ChildCounts(d))[n - 1]
           f == Len(KeptChildren(d, a))
<1>1. ImportNode(d, n) = [trs |-> a, mesh |-> b, parent |-> c, child_first |-> e, child_count |-> f]
  BY DEF ImportNode
<1> HIDE DEF a, b, c, e, f
<1>2. /\ ImportNode(d, n).trs = a /\ ImportNode(d, n).mesh = b /\ ImportNode(d, n).parent = c
      /\ ImportNode(d, n).child_first = e /\ ImportNode(d, n).child_count = f
  BY <1>1
<1> QED
  BY <1>2 DEF a, b, c, e, f

LEMMA ImportNodesAre ==
  ASSUME NEW d, Parsed(d)
  PROVE  /\ Len(ImportModel(d).nodes) = Len(Kept(d))
         /\ \A n \in 1 .. Len(Kept(d)) : ImportModel(d).nodes[n] = ImportNode(d, n)
         /\ ImportModel(d).node_child_idxs = NodeChildIdxs(d)
<1>1. Len(Kept(d)) \in Nat
  BY KeptIs
<1>2. ImportModel(d).nodes = [n \in 1 .. Len(Kept(d)) |-> ImportNode(d, n)]
  BY DEF ImportModel
<1>3. ImportModel(d).node_child_idxs = NodeChildIdxs(d)
  BY DEF ImportModel
<1>4. Len(ImportModel(d).nodes) = Len(Kept(d))
  <2> DEFINE N == Len(Kept(d))
  <2> HIDE DEF N
  <2>1. N \in Nat /\ ImportModel(d).nodes = [n \in 1 .. N |-> ImportNode(d, n)]
    BY <1>1, <1>2 DEF N
  <2> QED
    BY <2>1 DEF N
<1> QED
  BY <1>2, <1>3, <1>4

\* A new node and its relatives.
LEMMA NodeFaithful ==
  ASSUME NEW d, Parsed(d), NEW n \in 1 .. Len(Kept(d))
  PROVE  LET node   == ImportNode(d, n)
             parent == node.parent
             New    == 1 .. Len(Kept(d))
         IN /\ parent \in 0 .. Len(Kept(d))
            /\ parent = 0 => Parent(d, Kept(d)[n]) = 0
            /\ parent # 0 => /\ Parent(d, Kept(d)[n]) = Kept(d)[parent]
                             /\ n \in Range(Kids(d, parent))
            /\ \A k \in Range(Kids(d, n)) : k \in New /\ ImportNode(d, k).parent = n
            /\ IsInjective(Kids(d, n))
            /\ node.mesh = 0 => d.nodes[Kept(d)[n]].mesh = 0
            /\ node.mesh # 0 => Visual(d)[node.mesh] = d.nodes[Kept(d)[n]].mesh
<1> DEFINE old == Kept(d)[n]
           up == Parent(d, old)
           parent == ImportNode(d, n).parent
           mesh == d.nodes[old].mesh
<1>1. old \in 1 .. Len(d.nodes) /\ old \in Range(Kept(d)) /\ Len(Kept(d)) \in Nat
  BY KeptIs
<1>2. parent = IF up = 0 THEN 0 ELSE NodeRemap(d, up)
  BY ImportNodeIs
<1>3. up \in Range(Kept(d)) \cup {0} /\ old \notin DropRoots(d) /\ up \in 0 .. Len(d.nodes)
      /\ (up # 0 => old \in Under(d, up))
  BY <1>1, KeptWithParent, ParentIs
<1>4. ASSUME up # 0
      PROVE  /\ parent \in 1 .. Len(Kept(d)) /\ up = Kept(d)[parent]
             /\ n \in Range(Kids(d, parent))
  <2>1. up \in Range(Kept(d)) /\ up \in 1 .. Len(d.nodes) /\ up \notin Dropped(d)
    <3>1. up \in Range(Kept(d))
      BY <1>3, <1>4
    <3> QED
      BY <3>1, KeptIs
  <2>2. /\ NodeRemap(d, up) \in 0 .. Len(Kept(d)) /\ NodeRemap(d, up) # 0
        /\ Kept(d)[NodeRemap(d, up)] = up
    BY <2>1, KeptIs
  <2>3. parent \in 1 .. Len(Kept(d)) /\ up = Kept(d)[parent]
    BY <1>1, <1>2, <1>4, <2>2
  <2> HIDE DEF parent
  <2>4. PICK c \in 1 .. Len(KeptChildren(d, up)) : KeptChildren(d, up)[c] = old
    BY <1>1, <1>3, <1>4, <2>1, KeptChildrenAre
  <2>5. /\ c \in 1 .. Len(Kids(d, parent))
        /\ Kids(d, parent)[c] = NodeRemap(d, KeptChildren(d, Kept(d)[parent])[c])
    BY <2>3, <2>4, KidsAre
  <2>6. NodeRemap(d, old) = n
    BY KeptIs
  <2>7. Kids(d, parent)[c] = n
    BY <2>3, <2>4, <2>5, <2>6
  <2>8. Range(Kids(d, parent)) = {Kids(d, parent)[i] : i \in 1 .. Len(Kids(d, parent))}
    <3>1. Kids(d, parent) \in Seq(0 .. Len(Kept(d)))
      BY <2>3, KidsAre
    <3> QED
      BY <3>1, RangeEquality
  <2> QED
    BY <2>3, <2>5, <2>7, <2>8
<1>5. ASSUME NEW c \in 1 .. Len(Kids(d, n))
      PROVE  /\ c \in 1 .. Len(KeptChildren(d, old))
             /\ Kids(d, n)[c] \in 1 .. Len(Kept(d))
             /\ Kept(d)[Kids(d, n)[c]] = KeptChildren(d, old)[c]
             /\ KeptChildren(d, old)[c] \in Under(d, old)
  <2>1. c \in 1 .. Len(KeptChildren(d, old)) /\ Kids(d, n)[c] = NodeRemap(d, KeptChildren(d, old)[c])
    BY KidsAre
  <2> DEFINE kid == KeptChildren(d, old)[c]
  <2>2. kid \in Under(d, old) \cap Range(Kept(d))
    BY <1>1, <2>1, KeptChildrenAre
  <2> HIDE DEF kid, old
  <2>3. kid \in 1 .. Len(d.nodes) /\ kid \notin Dropped(d)
    BY <2>2, KeptIs
  <2>4. /\ NodeRemap(d, kid) \in 0 .. Len(Kept(d)) /\ NodeRemap(d, kid) # 0
        /\ Kept(d)[NodeRemap(d, kid)] = kid
    BY <2>3, KeptIs
  <2> QED
    BY <1>1, <2>1, <2>2, <2>4 DEF kid
<1>6. ASSUME NEW k \in Range(Kids(d, n))
      PROVE  k \in 1 .. Len(Kept(d)) /\ ImportNode(d, k).parent = n
  <2>1. Range(Kids(d, n)) = {Kids(d, n)[i] : i \in 1 .. Len(Kids(d, n))}
    BY KidsAre, RangeEquality
  <2>2. PICK c \in 1 .. Len(Kids(d, n)) : Kids(d, n)[c] = k
    BY <2>1
  <2>3. k \in 1 .. Len(Kept(d)) /\ Kept(d)[k] \in Under(d, old)
    BY <1>5, <2>2
  <2>4. Parent(d, Kept(d)[k]) = old
    BY <1>1, <2>3, ParentIs
  <2>5. old # 0 /\ NodeRemap(d, old) = n
    <3>1. NodeRemap(d, old) = n
      BY KeptIs
    <3> HIDE DEF old
    <3> QED
      BY <1>1, <3>1
  <2>6. ImportNode(d, k).parent = IF Parent(d, Kept(d)[k]) = 0 THEN 0
                                  ELSE NodeRemap(d, Parent(d, Kept(d)[k]))
    BY ImportNodeIs
  <2> HIDE DEF old
  <2> QED
    BY <2>3, <2>4, <2>5, <2>6
<1>7. IsInjective(Kids(d, n))
  <2>1. \A i, j \in 1 .. Len(Kids(d, n)) : Kids(d, n)[i] = Kids(d, n)[j] => i = j
    <3> SUFFICES ASSUME NEW i \in 1 .. Len(Kids(d, n)), NEW j \in 1 .. Len(Kids(d, n)),
                        Kids(d, n)[i] = Kids(d, n)[j]
                 PROVE  i = j
      OBVIOUS
    <3>1. /\ KeptChildren(d, old)[i] = KeptChildren(d, old)[j]
          /\ i \in 1 .. Len(KeptChildren(d, old)) /\ j \in 1 .. Len(KeptChildren(d, old))
      BY <1>5
    <3> QED
      BY <1>1, <3>1, KeptChildrenAre
  <2>2. DOMAIN Kids(d, n) = 1 .. Len(Kids(d, n))
    BY KidsAre
  <2> QED
    BY <2>1, <2>2 DEF IsInjective
<1>8. /\ ImportNode(d, n).mesh = 0 => mesh = 0
      /\ ImportNode(d, n).mesh # 0 => Visual(d)[ImportNode(d, n).mesh] = mesh
  <2>1. ImportNode(d, n).mesh = IF mesh = 0 THEN 0 ELSE MeshRemap(d, mesh)
    BY ImportNodeIs
  <2>2. mesh \in 0 .. Len(d.meshes) /\ Len(d.meshes) \in Nat
    BY <1>1, NodesAre, VisualIs
  <2>3. mesh # 0 => mesh # OccluderMesh(d)
    BY <1>1, <1>3, RootsAre
  <2> HIDE DEF mesh, old
  <2>4. mesh # 0 => MeshRemap(d, mesh) # 0 /\ Visual(d)[MeshRemap(d, mesh)] = mesh
    <3> SUFFICES ASSUME mesh # 0
                 PROVE  MeshRemap(d, mesh) # 0 /\ Visual(d)[MeshRemap(d, mesh)] = mesh
      OBVIOUS
    <3>1. mesh \in 1 .. Len(d.meshes)
      BY <2>2
    <3> QED
      BY <2>3, <3>1, MeshRemapIs
  <2> QED
    BY <2>1, <2>4
<1>9. /\ parent \in 0 .. Len(Kept(d))
      /\ parent = 0 => up = 0
      /\ parent # 0 => up = Kept(d)[parent] /\ n \in Range(Kids(d, parent))
  <2>1. CASE up = 0
    BY <1>1, <1>2, <2>1
  <2>2. CASE up # 0
    <3>1. parent \in 1 .. Len(Kept(d)) /\ up = Kept(d)[parent] /\ n \in Range(Kids(d, parent))
      BY <1>4, <2>2
    <3> HIDE DEF parent, up
    <3> QED
      BY <1>1, <2>2, <3>1
  <2> QED
    BY <2>1, <2>2
<1> HIDE DEF parent, up, mesh
<1> QED
  BY <1>6, <1>7, <1>8, <1>9 DEF parent, up, mesh, old

\* The nodes of every model are those of its document without the trees of
\* the occluder.
THEOREM ImportTreeFaithful == Spec => []TreeFaithful
<1>1. Importing => TreeFaithful
  <2> SUFFICES ASSUME Importing, NEW path \in DOMAIN models
      PROVE LET d     == files[path]
                model == models[path]
                old(n) == model.nodes[n].trs
                New   == 1 .. Len(model.nodes)
                kept  == {old(n) : n \in New}
                Cut(n) == d.nodes[n].occluder
                          \/ d.nodes[n].mesh \in {OccluderMesh(d)} \ {0}
                kids(n) == SubSeq(model.node_child_idxs, model.nodes[n].child_first + 1,
                                  model.nodes[n].child_first + model.nodes[n].child_count)
            IN /\ \A n \in 2 .. Len(model.nodes) : old(n - 1) < old(n)
               /\ \A n \in 1 .. Len(d.nodes) :
                     n \in kept <=> ~Cut(n) /\ Parent(d, n) \in kept \cup {0}
               /\ \A n \in New :
                     LET parent == model.nodes[n].parent IN
                     /\ IF parent = 0 THEN Parent(d, old(n)) = 0
                        ELSE Parent(d, old(n)) = old(parent) /\ n \in Range(kids(parent))
                     /\ \A k \in Range(kids(n)) : model.nodes[k].parent = n
                     /\ IsInjective(kids(n))
                     /\ IF model.nodes[n].mesh = 0 THEN d.nodes[old(n)].mesh = 0
                        ELSE Visual(d)[model.nodes[n].mesh] = d.nodes[old(n)].mesh
    BY DEF TreeFaithful
  <2> DEFINE d     == files[path]
             model == models[path]
             old(n) == model.nodes[n].trs
             New   == 1 .. Len(model.nodes)
             kept  == {old(n) : n \in New}
             Cut(n) == d.nodes[n].occluder
                       \/ d.nodes[n].mesh \in {OccluderMesh(d)} \ {0}
             kids(n) == SubSeq(model.node_child_idxs, model.nodes[n].child_first + 1,
                               model.nodes[n].child_first + model.nodes[n].child_count)
             N == Len(Kept(d))
  <2>1. Parsed(d) /\ model = ImportModel(d)
    <3>1. files \in Contents
      BY DEF Importing, Typed
    <3>2. path \in Paths /\ models[path] = ImportModel(files[path])
      BY DEF Importing, Filed
    <3> QED
      BY <3>1, <3>2, DocumentOf
  <2>2. /\ Len(model.nodes) = N /\ N \in Nat
        /\ \A n \in 1 .. N : model.nodes[n] = ImportNode(d, n)
        /\ model.node_child_idxs = NodeChildIdxs(d)
    BY <2>1, ImportNodesAre, KeptIs
  <2>3. New = 1 .. N
    BY <2>2
  <2>4. ASSUME NEW n \in 1 .. N
        PROVE  /\ old(n) = Kept(d)[n]
               /\ model.nodes[n].parent = ImportNode(d, n).parent
               /\ model.nodes[n].mesh = ImportNode(d, n).mesh
               /\ kids(n) = Kids(d, n)
    <3> HIDE DEF model
    <3>1. model.nodes[n] = ImportNode(d, n)
      BY <2>2
    <3>2. /\ ImportNode(d, n).trs = Kept(d)[n]
          /\ ImportNode(d, n).child_first = Sums(ChildCounts(d))[n - 1]
          /\ ImportNode(d, n).child_count = Len(KeptChildren(d, Kept(d)[n]))
      BY ImportNodeIs
    <3> DEFINE first == ImportNode(d, n).child_first
               count == ImportNode(d, n).child_count
    <3>3. SubSeq(NodeChildIdxs(d), first + 1, first + count) = Kids(d, n)
      <4> HIDE DEF first, count
      <4> QED
        BY <2>1, <3>2, KidsInPlace DEF first, count
    <3>4. kids(n) = SubSeq(NodeChildIdxs(d), first + 1, first + count)
      BY <2>2, <3>1, Zenon
    <3>5. kids(n) = Kids(d, n)
      <4> HIDE DEF first, count, kids
      <4> QED
        BY <3>3, <3>4
    <3>6. /\ old(n) = Kept(d)[n]
          /\ model.nodes[n].parent = ImportNode(d, n).parent
          /\ model.nodes[n].mesh = ImportNode(d, n).mesh
      BY <3>1, <3>2, Zenon
    <3> QED
      BY <3>5, <3>6
  <2> HIDE DEF d, model, old, kids, N
  <2>5. kept = Range(Kept(d))
    <3>1. kept = {Kept(d)[n] : n \in 1 .. N}
      BY <2>3, <2>4
    <3>2. Range(Kept(d)) = {Kept(d)[i] : i \in 1 .. N}
      BY <2>1, KeptIs DEF N
    <3> QED
      BY <3>1, <3>2
  <2>6. ASSUME NEW n \in 2 .. Len(model.nodes)
        PROVE  old(n - 1) < old(n)
    <3>1. n \in 1 .. N /\ n - 1 \in 1 .. N /\ n - 1 < n
      BY <2>2
    <3>2. Kept(d)[n - 1] < Kept(d)[n]
      BY <2>1, <3>1, KeptIs DEF Ascending, N
    <3> QED
      BY <2>4, <3>1, <3>2
  <2>7. ASSUME NEW n \in 1 .. Len(d.nodes)
        PROVE  n \in kept <=> ~Cut(n) /\ Parent(d, n) \in kept \cup {0}
    <3>1. n \in DropRoots(d) <=> Cut(n)
      BY <2>1, RootsAre
    <3>2. n \in Range(Kept(d)) <=> n \notin DropRoots(d) /\ Parent(d, n) \in Range(Kept(d)) \cup {0}
      BY <2>1, KeptWithParent
    <3> HIDE DEF kept, Cut
    <3> QED
      BY <2>5, <3>1, <3>2
  <2>8. ASSUME NEW n \in New
        PROVE  LET parent == model.nodes[n].parent IN
               /\ IF parent = 0 THEN Parent(d, old(n)) = 0
                  ELSE Parent(d, old(n)) = old(parent) /\ n \in Range(kids(parent))
               /\ \A k \in Range(kids(n)) : model.nodes[k].parent = n
               /\ IsInjective(kids(n))
               /\ IF model.nodes[n].mesh = 0 THEN d.nodes[old(n)].mesh = 0
                  ELSE Visual(d)[model.nodes[n].mesh] = d.nodes[old(n)].mesh
    <3> DEFINE parent == ImportNode(d, n).parent
               mesh == ImportNode(d, n).mesh
    <3>1. n \in 1 .. N /\ n \in 1 .. Len(Kept(d))
      BY <2>3 DEF N
    <3>2. /\ parent \in 0 .. N
          /\ parent = 0 => Parent(d, Kept(d)[n]) = 0
          /\ parent # 0 => /\ Parent(d, Kept(d)[n]) = Kept(d)[parent]
                           /\ n \in Range(Kids(d, parent))
          /\ \A k \in Range(Kids(d, n)) : k \in 1 .. N /\ ImportNode(d, k).parent = n
          /\ IsInjective(Kids(d, n))
          /\ mesh = 0 => d.nodes[Kept(d)[n]].mesh = 0
          /\ mesh # 0 => Visual(d)[mesh] = d.nodes[Kept(d)[n]].mesh
      BY <2>1, <3>1, NodeFaithful DEF N
    <3>3. /\ old(n) = Kept(d)[n] /\ model.nodes[n].parent = parent
          /\ model.nodes[n].mesh = mesh /\ kids(n) = Kids(d, n)
      BY <2>4, <3>1
    <3> HIDE DEF parent, mesh, New
    <3>4. parent # 0 => parent \in 1 .. N /\ old(parent) = Kept(d)[parent]
                        /\ kids(parent) = Kids(d, parent)
      <4> SUFFICES ASSUME parent # 0
          PROVE parent \in 1 .. N /\ old(parent) = Kept(d)[parent] /\ kids(parent) = Kids(d, parent)
        OBVIOUS
      <4>1. parent \in 1 .. N
        BY <2>2, <3>2
      <4> QED
        BY <2>4, <4>1
    <3>5. \A k \in Range(kids(n)) : model.nodes[k].parent = n
      <4> SUFFICES ASSUME NEW k \in Range(Kids(d, n)) PROVE model.nodes[k].parent = n
        BY <3>3
      <4>1. k \in 1 .. N /\ ImportNode(d, k).parent = n
        BY <3>2
      <4> QED
        BY <2>4, <4>1
    <3> QED
      BY <3>2, <3>3, <3>4, <3>5
  <2> QED
    BY <2>6, <2>7, <2>8 DEF d, model, old, kids
<1> QED
  BY <1>1, ImportingInvariant, PTL

-----------------------------------------------------------------------------
(***************************************************************************)
(* Skins and animations                                                    *)
(***************************************************************************)

\* If all numbers up to r are listed, each is at its own place.
LEMMA AscendingFull ==
  ASSUME NEW n \in Nat, NEW S, NEW list, Ascending(list, n, S),
         NEW r \in 1 .. n, 1 .. r \subseteq S
  PROVE  r \in 1 .. Len(list) /\ list[r] = r
<1>1. /\ Len(list) \in Nat
      /\ \A i \in 1 .. Len(list) : list[i] \in 1 .. n
      /\ \A i, j \in 1 .. Len(list) : i < j => list[i] < list[j]
      /\ \A m \in 1 .. n : m \in S => \E i \in 1 .. Len(list) : list[i] = m
  BY LenProperties, ElementOfSeq DEF Ascending
<1> DEFINE T == {i \in 0 .. r : i = 0 \/ (i \in 1 .. Len(list) /\ list[i] = i)}
<1>2. 0 \in T
  OBVIOUS
<1>3. ASSUME NEW i \in 0 .. r - 1, i \in T PROVE i + 1 \in T
  <2>1. i + 1 \in 1 .. r /\ i + 1 \in 1 .. n /\ i + 1 \in S
    OBVIOUS
  <2>2. PICK p \in 1 .. Len(list) : list[p] = i + 1
    BY <1>1, <2>1
  <2>3. i < p
    BY <1>1, <1>3, <2>2
  <2>4. i + 1 \in 1 .. Len(list)
    BY <1>1, <2>3
  <2>5. i < list[i + 1]
    BY <1>1, <1>3, <2>4
  <2>6. list[i + 1] <= i + 1
    BY <1>1, <2>2, <2>3, <2>4
  <2>7. list[i + 1] = i + 1
    BY <1>1, <2>4, <2>5, <2>6
  <2> QED
    BY <2>1, <2>4, <2>7
<1>4. 0 .. r \subseteq T
  <2> HIDE DEF T
  <2> QED
    BY <1>2, <1>3, Steps
<1> QED
  BY <1>4

\* A joint has the rest matrix of its node, and names it if no node before it
\* has been dropped.
LEMMA JointIs ==
  ASSUME NEW d, Parsed(d), NEW n \in Range(Kept(d))
  PROVE  /\ ImportJoint(d, n).rest = n
         /\ 1 .. n \subseteq Range(Kept(d)) => /\ ImportJoint(d, n).node \in 1 .. Len(Kept(d))
                                               /\ Kept(d)[ImportJoint(d, n).node] = n
<1> DEFINE new == NodeRemap(d, n)
<1>1. ImportJoint(d, n).node = NodeRemap(d, new) /\ ImportJoint(d, n).rest = Kept(d)[new]
  BY DEF ImportJoint
<1>2. n \in 1 .. Len(d.nodes) /\ n \notin Dropped(d)
  BY KeptIs
<1>3. new # 0 /\ Kept(d)[new] = n
  BY <1>2, KeptIs
<1>4. ASSUME 1 .. n \subseteq Range(Kept(d))
      PROVE  NodeRemap(d, new) = n /\ n \in 1 .. Len(Kept(d)) /\ Kept(d)[n] = n
  <2> DEFINE S == (1 .. Len(d.nodes)) \ Dropped(d)
  <2>1. Ascending(Kept(d), Len(d.nodes), S) /\ 1 .. n \subseteq S /\ Len(d.nodes) \in Nat
    BY <1>4, KeptIs, NodesAre
  <2> HIDE DEF S
  <2>2. n \in 1 .. Len(Kept(d)) /\ Kept(d)[n] = n
    BY <1>2, <2>1, AscendingFull
  <2>3. NodeRemap(d, Kept(d)[n]) = n
    BY <2>2, KeptIs
  <2> QED
    BY <2>2, <2>3
<1> QED
  BY <1>1, <1>3, <1>4

\* The channels of the nodes that are kept, the first one of a node, and the
\* channels that open a track.
Channels(d, clip) == Taking(clip, {ch \in Range(clip) : ch.node \in Range(Kept(d))})
FirstOf(list, n) == SelectInSeq(list, LAMBDA ch : ch.node = n)
Tracks(list) == Taking(Numbers(list), {i \in 1 .. Len(list) : FirstOf(list, list[i].node) = i})

LEMMA FirstOfIs ==
  ASSUME NEW A, NEW list \in Seq(A), NEW n
  PROVE  /\ FirstOf(list, n) \in 0 .. Len(list)
         /\ FirstOf(list, n) # 0 => list[FirstOf(list, n)].node = n
         /\ \A i \in 1 .. Len(list) : list[i].node = n => FirstOf(list, n) # 0
<1> DEFINE I == {i \in 1 .. Len(list) : list[i].node = n}
           p == FirstOf(list, n)
<1>1. p = IF I # {} THEN Min(I) ELSE 0
  BY DEF FirstOf, SelectInSeq
<1>2. Len(list) \in Nat /\ I \in SUBSET (1 .. Len(list))
  OBVIOUS
<1>3. p \in 0 .. Len(list) /\ (p = 0 <=> I = {}) /\ (p # 0 => p \in I)
  <2> HIDE DEF I, p
  <2> QED
    BY <1>1, <1>2, LeastOf
<1> HIDE DEF p
<1> QED
  BY <1>3 DEF p

LEMMA TracksAre ==
  ASSUME NEW A, NEW list \in Seq(A)
  PROVE  LET tracks == Tracks(list)
         IN /\ Len(tracks) \in Nat
            /\ \A t \in 1 .. Len(tracks) : tracks[t] \in 1 .. Len(list)
            /\ \A s, t \in 1 .. Len(tracks) :
                  list[tracks[s]].node = list[tracks[t]].node => s = t
            /\ \A i \in 1 .. Len(list) :
                  \E t \in 1 .. Len(tracks) : list[tracks[t]].node = list[i].node
<1> DEFINE tracks == Tracks(list)
           S == {i \in 1 .. Len(list) : FirstOf(list, list[i].node) = i}
<1>1. Ascending(tracks, Len(list), S) /\ Len(list) \in Nat
  BY TakingNumbers, LenProperties DEF Tracks
<1> HIDE DEF tracks
<1>2. /\ tracks \in Seq(1 .. Len(list))
      /\ \A t \in 1 .. Len(tracks) : tracks[t] \in S
      /\ \A m \in 1 .. Len(list) : m \in S => \E t \in 1 .. Len(tracks) : tracks[t] = m
  BY <1>1 DEF Ascending
<1>3. /\ Len(tracks) \in Nat
      /\ \A s, t \in 1 .. Len(tracks) : tracks[s] = tracks[t] => s = t
  <2> HIDE DEF S
  <2> QED
    BY <1>1, AscendingOnce
<1>4. \A t \in 1 .. Len(tracks) :
         tracks[t] \in 1 .. Len(list) /\ FirstOf(list, list[tracks[t]].node) = tracks[t]
  BY <1>2
<1>5. ASSUME NEW s \in 1 .. Len(tracks), NEW t \in 1 .. Len(tracks),
             list[tracks[s]].node = list[tracks[t]].node
      PROVE  s = t
  <2>1. tracks[s] = tracks[t]
    BY <1>4, <1>5
  <2> QED
    BY <1>3, <2>1
<1>6. ASSUME NEW i \in 1 .. Len(list)
      PROVE  \E t \in 1 .. Len(tracks) : list[tracks[t]].node = list[i].node
  <2>1. PICK f : f = FirstOf(list, list[i].node)
    OBVIOUS
  <2>2. f \in 0 .. Len(list) /\ f # 0 /\ list[f].node = list[i].node
    BY <2>1, FirstOfIs
  <2>3. f \in 1 .. Len(list) /\ f \in S
    BY <1>1, <2>1, <2>2
  <2>4. PICK t \in 1 .. Len(tracks) : tracks[t] = f
    BY <1>2, <2>3
  <2> QED
    BY <2>2, <2>4
<1> QED
  BY <1>3, <1>4, <1>5, <1>6 DEF tracks

\* A clip has one track for each node with a channel that is kept.
LEMMA ClipIs ==
  ASSUME NEW d, Parsed(d), NEW A, NEW clip \in Seq(A)
  PROVE  LET new == ImportClip(d, clip)
         IN /\ Range(new) = {new[t] : t \in 1 .. Len(new)}
            /\ \A t \in 1 .. Len(new) : new[t].node \in 1 .. Len(Kept(d))
            /\ \A s, t \in 1 .. Len(new) : new[s].node = new[t].node => s = t
            /\ \A ch \in Range(clip) : ch.node \in Range(Kept(d)) =>
                  \E t \in 1 .. Len(new) : Kept(d)[new[t].node] = ch.node
<1> DEFINE new == ImportClip(d, clip)
           list == Channels(d, clip)
           tracks == Tracks(list)
           S == {ch \in Range(clip) : ch.node \in Range(Kept(d))}
           LastOf(n, target) == SelectLastInSeq(list, LAMBDA ch : ch.node = n /\ ch.target = target)
           Keys0(n, target) == IF LastOf(n, target) = 0 THEN 0 ELSE list[LastOf(n, target)].keys
           Track(t) == [node |-> NodeRemap(d, list[tracks[t]].node),
                        times |-> list[tracks[t]].keys,
                        translations |-> Keys0(list[tracks[t]].node, "translation"),
                        rotations |-> Keys0(list[tracks[t]].node, "rotation")]
<1>1. new = [t \in 1 .. Len(tracks) |-> Track(t)]
  BY DEF ImportClip, Channels, Tracks, FirstOf
<1>2. list \in Seq(A) /\ \E h : Picks(list, clip, Len(clip), S, h)
  BY TakingIs DEF Channels
<1>3. Range(clip) = {clip[i] : i \in 1 .. Len(clip)}
  BY RangeEquality
<1> HIDE DEF list
<1>4. PICK h : Picks(list, clip, Len(clip), S, h)
  BY <1>2
<1>5. \A i \in 1 .. Len(list) : list[i].node \in Range(Kept(d))
  BY <1>4 DEF Picks
<1>6. ASSUME NEW ch \in Range(clip), ch.node \in Range(Kept(d))
      PROVE  \E i \in 1 .. Len(list) : list[i] = ch
  <2>1. PICK m \in 1 .. Len(clip) : clip[m] = ch
    BY <1>3
  <2>2. PICK i \in 1 .. Len(list) : h[i] = m
    BY <1>4, <1>6, <2>1 DEF Picks
  <2>3. list[i] = clip[h[i]]
    BY <1>4 DEF Picks
  <2> QED
    BY <2>1, <2>2, <2>3
<1>7. /\ Len(tracks) \in Nat
      /\ \A t \in 1 .. Len(tracks) : tracks[t] \in 1 .. Len(list)
      /\ \A s, t \in 1 .. Len(tracks) : list[tracks[s]].node = list[tracks[t]].node => s = t
      /\ \A i \in 1 .. Len(list) :
            \E t \in 1 .. Len(tracks) : list[tracks[t]].node = list[i].node
  BY <1>2, TracksAre
<1> HIDE DEF tracks, S, LastOf, Keys0, new
<1>8. Len(new) = Len(tracks) /\ DOMAIN new = 1 .. Len(new)
      /\ \A t \in 1 .. Len(tracks) : new[t].node = NodeRemap(d, list[tracks[t]].node)
  <2>1. \A t \in 1 .. Len(tracks) : new[t] = Track(t)
    BY <1>1
  <2>2. \A t : Track(t).node = NodeRemap(d, list[tracks[t]].node)
    OBVIOUS
  <2> HIDE DEF Track
  <2>3. DOMAIN new = 1 .. Len(tracks)
    BY <1>1
  <2>4. Len(new) = Len(tracks)
    <3> DEFINE n == Len(tracks)
    <3>1. n \in Nat /\ new = [t \in 1 .. n |-> Track(t)]
      BY <1>1, <1>7
    <3> HIDE DEF n
    <3>2. Len(new) = n
      BY <3>1
    <3> QED
      BY <3>2 DEF n
  <2> QED
    BY <2>1, <2>2, <2>3, <2>4
<1>9. \A n \in Range(Kept(d)) : NodeRemap(d, n) \in 1 .. Len(Kept(d))
                                /\ Kept(d)[NodeRemap(d, n)] = n
  <2> SUFFICES ASSUME NEW n \in Range(Kept(d))
      PROVE  NodeRemap(d, n) \in 1 .. Len(Kept(d)) /\ Kept(d)[NodeRemap(d, n)] = n
    OBVIOUS
  <2>1. n \in 1 .. Len(d.nodes) /\ n \notin Dropped(d)
    BY KeptIs
  <2>2. /\ NodeRemap(d, n) \in 0 .. Len(Kept(d)) /\ NodeRemap(d, n) # 0
        /\ Kept(d)[NodeRemap(d, n)] = n /\ Len(Kept(d)) \in Nat
    BY <2>1, KeptIs
  <2> QED
    BY <2>2
<1>10. ASSUME NEW t \in 1 .. Len(tracks)
       PROVE  /\ new[t].node \in 1 .. Len(Kept(d))
              /\ Kept(d)[new[t].node] = list[tracks[t]].node
  <2>1. list[tracks[t]].node \in Range(Kept(d))
    BY <1>5, <1>7
  <2> QED
    BY <1>8, <1>9, <2>1
<1>11. ASSUME NEW s \in 1 .. Len(tracks), NEW t \in 1 .. Len(tracks), new[s].node = new[t].node
       PROVE  s = t
  BY <1>7, <1>10, <1>11
<1>12. ASSUME NEW ch \in Range(clip), ch.node \in Range(Kept(d))
       PROVE  \E t \in 1 .. Len(tracks) : Kept(d)[new[t].node] = ch.node
  <2>1. PICK i \in 1 .. Len(list) : list[i] = ch
    BY <1>6, <1>12
  <2>2. PICK t \in 1 .. Len(tracks) : list[tracks[t]].node = list[i].node
    BY <1>7
  <2> QED
    BY <1>10, <2>1, <2>2
<1>13. Range(new) = {new[t] : t \in 1 .. Len(new)}
  BY <1>8 DEF Range
<1> QED
  BY <1>8, <1>10, <1>11, <1>12, <1>13 DEF new

\* In every model a skin has the matrices of its joints, a joint names its
\* node if none before it was dropped, and a clip has one track for each node
\* that its animation moves.
THEOREM ImportJointsAndTracks == Spec => []JointsAndTracks
<1>1. Importing => JointsAndTracks
  <2> SUFFICES ASSUME Importing, NEW path \in DOMAIN models
      PROVE LET d     == files[path]
                model == models[path]
                old(n) == model.nodes[n].trs
            IN /\ \A s \in 1 .. Len(d.skins) : \A j \in 1 .. Len(d.skins[s]) :
                     LET joint == model.skins[s][j] IN
                     /\ joint.rest = d.skins[s][j]
                     /\ 1 .. joint.rest \subseteq {old(n) : n \in 1 .. Len(model.nodes)}
                           => old(joint.node) = joint.rest
               /\ \A a \in 1 .. Len(d.anims) :
                     LET clip == model.clips[a] IN
                     /\ \A i, j \in 1 .. Len(clip) : clip[i].node = clip[j].node => i = j
                     /\ \A ch \in Range(d.anims[a]) :
                           (\E n \in 1 .. Len(model.nodes) : old(n) = ch.node) =>
                              \E t \in Range(clip) : old(t.node) = ch.node
    BY DEF JointsAndTracks
  <2> DEFINE d     == files[path]
             model == models[path]
             old(n) == model.nodes[n].trs
             N == Len(Kept(d))
  <2>1. Parsed(d) /\ Usable(d) /\ model = ImportModel(d)
    <3>1. files \in Contents
      BY DEF Importing, Typed
    <3>2. path \in Paths /\ models[path] = ImportModel(files[path])
      BY DEF Importing, Filed
    <3> QED
      BY <3>1, <3>2, DocumentOf
  <2>2. /\ Len(model.nodes) = N /\ N \in Nat
        /\ \A n \in 1 .. N : model.nodes[n] = ImportNode(d, n)
    BY <2>1, ImportNodesAre, KeptIs
  <2>3. \A n \in 1 .. N : old(n) = Kept(d)[n]
    BY <2>2, ImportNodeIs
  <2>4. /\ model.skins = [s \in 1 .. Len(d.skins) |->
                            [j \in 1 .. Len(d.skins[s]) |-> ImportJoint(d, d.skins[s][j])]]
        /\ model.clips = [a \in 1 .. Len(d.anims) |-> ImportClip(d, d.anims[a])]
    BY <2>1 DEF ImportModel
  <2> HIDE DEF d, model, N, old
  <2>5. {old(n) : n \in 1 .. Len(model.nodes)} = Range(Kept(d))
    <3>1. Range(Kept(d)) = {Kept(d)[i] : i \in 1 .. N}
      BY <2>1, KeptIs DEF N
    <3> QED
      BY <2>2, <2>3, <3>1
  <2>6. ASSUME NEW s \in 1 .. Len(d.skins), NEW j \in 1 .. Len(d.skins[s])
        PROVE  LET joint == model.skins[s][j] IN
               /\ joint.rest = d.skins[s][j]
               /\ 1 .. joint.rest \subseteq {old(n) : n \in 1 .. Len(model.nodes)}
                     => old(joint.node) = joint.rest
    <3>1. model.skins[s][j] = ImportJoint(d, d.skins[s][j])
      BY <2>4
    <3>2. d.skins[s][j] \in Range(Kept(d))
      <4>1. d.skins \in Seq(Seq(1 .. Len(d.nodes)))
        BY <2>1 DEF Parsed
      <4>2. d.skins[s] \in Seq(1 .. Len(d.nodes)) /\ d.skins[s] \in Range(d.skins)
        BY <4>1, ElementOfSeq, RangeEquality
      <4>3. d.skins[s][j] \in Range(d.skins[s])
        BY <4>2, RangeEquality
      <4> QED
        BY <2>1, <4>2, <4>3 DEF Usable
    <3>3. PICK n : n = d.skins[s][j]
      OBVIOUS
    <3>4. PICK joint : joint = ImportJoint(d, n)
      OBVIOUS
    <3>5. /\ joint.rest = n
          /\ 1 .. n \subseteq Range(Kept(d)) => joint.node \in 1 .. N /\ Kept(d)[joint.node] = n
      BY <2>1, <3>2, <3>3, <3>4, JointIs DEF N
    <3>6. model.skins[s][j] = joint
      BY <3>1, <3>3, <3>4
    <3>7. 1 .. joint.rest \subseteq {old(k) : k \in 1 .. Len(model.nodes)}
             => old(joint.node) = joint.rest
      BY <2>3, <2>5, <3>5
    <3> QED
      BY <3>3, <3>5, <3>6, <3>7
  <2>7. ASSUME NEW a \in 1 .. Len(d.anims)
        PROVE  LET clip == model.clips[a] IN
               /\ \A i, j \in 1 .. Len(clip) : clip[i].node = clip[j].node => i = j
               /\ \A ch \in Range(d.anims[a]) :
                     (\E n \in 1 .. Len(model.nodes) : old(n) = ch.node) =>
                        \E t \in Range(clip) : old(t.node) = ch.node
    <3> DEFINE Channel == [node : 1 .. Len(d.nodes), target : STRING, keys : Nat]
    <3>1. d.anims[a] \in Seq(Channel)
      <4>1. d.anims \in Seq(Seq(Channel))
        BY <2>1 DEF Parsed
      <4> HIDE DEF Channel
      <4> QED
        BY <4>1, ElementOfSeq
    <3> HIDE DEF Channel
    <3>2. PICK clip : clip = model.clips[a]
      OBVIOUS
    <3>3. clip = ImportClip(d, d.anims[a])
      BY <2>4, <3>2
    <3>4. /\ Range(clip) = {clip[t] : t \in 1 .. Len(clip)}
          /\ \A t \in 1 .. Len(clip) : clip[t].node \in 1 .. N
          /\ \A i, j \in 1 .. Len(clip) : clip[i].node = clip[j].node => i = j
          /\ \A ch \in Range(d.anims[a]) : ch.node \in Range(Kept(d)) =>
                \E t \in 1 .. Len(clip) : Kept(d)[clip[t].node] = ch.node
      BY <2>1, <3>1, <3>3, ClipIs DEF N
    <3>5. ASSUME NEW ch \in Range(d.anims[a]),
                 NEW n \in 1 .. Len(model.nodes), old(n) = ch.node
          PROVE  \E t \in Range(clip) : old(t.node) = ch.node
      <4>1. ch.node \in Range(Kept(d))
        BY <2>5, <3>5
      <4>2. PICK t \in 1 .. Len(clip) : Kept(d)[clip[t].node] = ch.node
        BY <3>4, <4>1
      <4>3. old(clip[t].node) = ch.node
        BY <2>3, <3>4, <4>2
      <4> QED
        BY <3>4, <4>3
    <3> QED
      BY <3>2, <3>4, <3>5
  <2> QED
    BY <2>6, <2>7 DEF d, model, old
<1> QED
  BY <1>1, ImportingInvariant, PTL

==============================================================================
