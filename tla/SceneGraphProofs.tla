--------------------------- MODULE SceneGraphProofs ---------------------------
(***************************************************************************)
(* What instantiate_scene leaves to HierarchySystem, for every scene of at *)
(* most MaxDocs documents: child lists that end, and that hold exactly the *)
(* children where the documents are well formed.  And what the systems     *)
(* make of that: world matrices that are the paths of the graph after a    *)
(* frame, or after as many as the graph has links.                         *)
(*                                                                         *)
(* The matrices are recursive functions of the graph.  The provers cannot  *)
(* use an induction theorem about an operator, so the lemma Induction is   *)
(* about a set of numbers, and Recursion about a function of steps.        *)
(***************************************************************************)
EXTENDS SceneGraph, TLAPS, FiniteSetTheorems, WellFoundedInduction

-----------------------------------------------------------------------------
(***************************************************************************)
(* Numbers and lists                                                       *)
(***************************************************************************)

LEMMA LeastNumber ==
  ASSUME NEW T \in SUBSET Nat, T # {}
  PROVE  \E m \in T : \A k \in T : m <= k
<1>1. PICK m \in T : \A k \in T : <<k, m>> \notin OpToRel(<, Nat)
  BY WFMin, NatLessThanWellFounded, Zenon
<1>2. \A k \in T : ~ (k < m)
  BY <1>1, Zenon DEF OpToRel
<1> QED
  BY <1>2

LEMMA GreatestNumber ==
  ASSUME NEW n \in Nat, NEW T \in SUBSET (0 .. n), T # {}
  PROVE  \E m \in T : \A k \in T : k <= m
<1> DEFINE U == {n - k : k \in T}
<1>1. U \in SUBSET Nat /\ U # {}
  OBVIOUS
<1>2. PICK u \in U : \A v \in U : u <= v
  BY <1>1, LeastNumber
<1>3. PICK m \in T : u = n - m
  BY <1>2
<1>4. \A k \in T : n - m <= n - k
  BY <1>2, <1>3
<1> QED
  BY <1>4

\* e is at the place i of the list and at no later one.
LastAt(list, e, i) ==
    /\ i \in 1 .. Len(list)
    /\ list[i] = e
    /\ \A j \in i + 1 .. Len(list) : list[j] # e

LEMMA SuccessorIs ==
  ASSUME NEW list \in Seq(Entities), NEW e \in {list[i] : i \in 1 .. Len(list)}
  PROVE  \E i : /\ LastAt(list, e, i)
                /\ Successor(list, e) = IF i = Len(list) THEN NoEntity ELSE list[i + 1]
<1> DEFINE T == {i \in 1 .. Len(list) : list[i] = e}
<1>1. T \in SUBSET (0 .. Len(list)) /\ T # {} /\ Len(list) \in Nat
  OBVIOUS
<1>2. PICK m \in T : \A k \in T : k <= m
  BY <1>1, GreatestNumber
<1>3. LastAt(list, e, m)
  BY <1>1, <1>2 DEF LastAt
<1> DEFINE last == CHOOSE i \in 1 .. Len(list) :
                       list[i] = e /\ \A j \in i + 1 .. Len(list) : list[j] # e
<1>4. LastAt(list, e, last)
  BY <1>3 DEF LastAt
<1>5. Successor(list, e) = IF last = Len(list) THEN NoEntity ELSE list[last + 1]
  BY DEF Successor
<1> QED
  BY <1>4, <1>5

\* Induction, over a set of numbers.
LEMMA Induction ==
  ASSUME NEW n \in Nat, NEW T, 0 \in T, \A i \in 1 .. n : i - 1 \in T => i \in T
  PROVE  0 .. n \subseteq T
<1> DEFINE Bad == {i \in 0 .. n : i \notin T}
<1> SUFFICES ASSUME Bad # {} PROVE FALSE
  OBVIOUS
<1>1. PICK m \in Bad : \A k \in Bad : m <= k
  <2>1. Bad \in SUBSET Nat
    OBVIOUS
  <2> QED
    BY <2>1, LeastNumber
<1>2. m \in 1 .. n /\ m - 1 \in 0 .. n /\ m - 1 \notin Bad
  BY <1>1
<1> QED
  BY <1>1, <1>2

\* f is the function that recursion on a number defines.
Recursive(f, n, base, step) == f[0] = base /\ \A i \in 1 .. n : f[i] = step[i][f[i - 1]]

LEMMA Recursion ==
  ASSUME NEW n \in Nat, NEW S, NEW base \in S, NEW step \in [1 .. n -> [S -> S]]
  PROVE  \E f \in [0 .. n -> S] : Recursive(f, n, base, step)
<1> USE DEF Recursive
<1> DEFINE Upto(k) == {f \in [0 .. k -> S] : Recursive(f, k, base, step)}
           T == {k \in 0 .. n : Upto(k) # {}}
<1>1. 0 \in T
  <2>1. [i \in 0 .. 0 |-> base] \in Upto(0)
    OBVIOUS
  <2> QED
    BY <2>1
<1>2. ASSUME NEW k \in 1 .. n, k - 1 \in T PROVE k \in T
  <2>1. PICK f \in Upto(k - 1) : TRUE
    BY <1>2
  <2>2. PICK g : g = [i \in 0 .. k |-> IF i = k THEN step[k][f[k - 1]] ELSE f[i]]
    OBVIOUS
  <2>3. \A i \in 0 .. k - 1 : g[i] = f[i]
    BY <2>2
  <2>4. g[k] = step[k][f[k - 1]] /\ g[k] \in S
    BY <2>1, <2>2
  <2>5. g \in [0 .. k -> S]
    BY <2>1, <2>2, <2>4
  <2>6. g[0] = base /\ \A i \in 1 .. k : g[i] = step[i][g[i - 1]]
    BY <2>1, <2>3, <2>4
  <2>7. g \in Upto(k)
    BY <2>5, <2>6
  <2> QED
    BY <2>7
<1>3. 0 .. n \subseteq T
  <2> HIDE DEF T
  <2> QED
    BY <1>1, <1>2, Induction
<1>4. n \in T
  BY <1>3
<1> QED
  BY <1>4

LEMMA NoEntityApart == NoEntity \notin Entities /\ 0 \in Entities
  BY MaxDocsAssumption DEF NoEntity, Entities

-----------------------------------------------------------------------------
(***************************************************************************)
(* The invariant                                                           *)
(***************************************************************************)

Types ==
    /\ docs \in Scenes
    /\ phase \in {"make", "components", "parents", "children", "siblings", "run"}
    /\ at \in Nat \ {0}
    /\ \A g \in DOMAIN entityOf : entityOf[g] \in Entities
    /\ parent \in [Entities -> Entities \cup {NoEntity}]
    /\ firstChild \in [Entities -> Entities \cup {NoEntity}]
    /\ nextSibling \in [Entities -> Entities \cup {NoEntity}]
    /\ \A q \in DOMAIN children : children[q] \in Seq(Entities)
    /\ unlinked \subseteq DOMAIN children

\* Entities are numbered in the order in which they are made, one for a guid.
Numbered ==
    /\ phase = "make" =>
           /\ IsFiniteSet(DOMAIN entityOf)
           /\ Cardinality(DOMAIN entityOf) < at
           /\ \A g \in DOMAIN entityOf : entityOf[g] \in 0 .. Cardinality(DOMAIN entityOf) - 1
    /\ WellFormed =>
           /\ \A g, h \in DOMAIN entityOf : entityOf[g] = entityOf[h] => g = h
           /\ \A i \in DOMAIN docs : phase # "make" \/ i < at => docs[i].guid \in DOMAIN entityOf

\* Nothing is listed before the fourth pass, and nothing linked before the last.
InOrder ==
    /\ phase \in {"make", "components", "parents"} => DOMAIN children = {}
    /\ phase \in {"make", "components", "parents", "children"} =>
           \A e \in Entities : firstChild[e] = NoEntity /\ nextSibling[e] = NoEntity
    /\ phase = "children" => unlinked = DOMAIN children
    /\ phase = "run" => unlinked = {}

\* An entity with a parent is that of a document.
Parented ==
    /\ \A e \in Entities : parent[e] # NoEntity =>
           \E i \in DOMAIN docs : docs[i].guid \in DOMAIN entityOf /\ entityOf[docs[i].guid] = e
    /\ WellFormed => \A e \in Entities : parent[e] # e

IsListed(i) ==
    /\ docs[i].guid \in DOMAIN entityOf
    /\ parent[entityOf[docs[i].guid]] \in DOMAIN children
    /\ \E j \in 1 .. Len(children[parent[entityOf[docs[i].guid]]]) :
           children[parent[entityOf[docs[i].guid]]][j] = entityOf[docs[i].guid]

\* A list holds children of one parent, and every child there is is in one.
Listed ==
    /\ \A q \in DOMAIN children :
           /\ Len(children[q]) >= 1
           /\ \A i \in 1 .. Len(children[q]) : parent[children[q][i]] = q
    /\ \A i \in DOMAIN docs :
           phase \in {"siblings", "run"} \/ (phase = "children" /\ i < at) => IsListed(i)
    /\ WellFormed =>
           \A q \in DOMAIN children : \A i, j \in 1 .. Len(children[q]) :
               children[q][i] = children[q][j] => i = j
    /\ WellFormed /\ phase = "children" =>
           \A q \in DOMAIN children : \A i \in 1 .. Len(children[q]) :
               \E d \in DOMAIN docs : d < at /\ docs[d].guid \in DOMAIN entityOf
                                        /\ children[q][i] = entityOf[docs[d].guid]

\* A link leads to what follows in the list it was made from.
Linked ==
    /\ \A e \in Entities : nextSibling[e] # NoEntity =>
           /\ parent[e] \in DOMAIN children
           /\ e \in {children[parent[e]][i] : i \in 1 .. Len(children[parent[e]])}
           /\ nextSibling[e] = Successor(children[parent[e]], e)
    /\ \A p \in Entities : firstChild[p] # NoEntity =>
           p \in DOMAIN children /\ firstChild[p] = children[p][1]
    /\ phase \in {"siblings", "run"} =>
           \A q \in DOMAIN children \ unlinked :
               /\ q # NoEntity => firstChild[q] = children[q][1]
               /\ \A i \in 1 .. Len(children[q]) : children[q][i] # q =>
                      nextSibling[children[q][i]] = Successor(children[q], children[q][i])

GraphInv ==
    /\ Types
    /\ Numbered
    /\ InOrder
    /\ Parented
    /\ Listed
    /\ Linked

\* What the documents are, for the provers.
LEMMA DocsAre ==
  ASSUME Types
  PROVE  /\ Len(docs) \in Nat /\ Len(docs) <= MaxDocs /\ DOMAIN docs = 1 .. Len(docs)
         /\ \A i \in DOMAIN docs : docs[i].guid \in Nat /\ docs[i].parent \in Nat
<1>1. docs \in Seq(Docs) /\ Len(docs) <= MaxDocs
  BY ScenesAssumption DEF Types
<1>2. \A i \in DOMAIN docs : docs[i] \in Docs
  BY <1>1
<1> QED
  BY <1>1, <1>2 DEF Docs

-----------------------------------------------------------------------------
(***************************************************************************)
(* Why it is enough                                                        *)
(***************************************************************************)

\* Along a link the last place in the list grows, so that no set of entities
\* can keep the walk inside.
LEMMA ListsEnd == GraphInv => ChildListsEnd
<1> SUFFICES ASSUME GraphInv, NEW S \in (SUBSET Entities) \ {{}},
                    \A e \in S : nextSibling[e] \in S
             PROVE  FALSE
  BY DEF ChildListsEnd
<1>0. S \in SUBSET Entities /\ S # {}
  OBVIOUS
<1>1. PICK top \in S : TRUE
  BY <1>0
<1>2. PICK q : q = parent[top]
  OBVIOUS
<1>3. \A e \in S : nextSibling[e] # NoEntity
  BY <1>0, NoEntityApart
<1>4. q \in DOMAIN children
  BY <1>1, <1>2, <1>3 DEF GraphInv, Linked
<1>5. PICK list : list = children[q]
  OBVIOUS
<1>6. list \in Seq(Entities) /\ Len(list) \in Nat
  BY <1>4, <1>5 DEF GraphInv, Types
<1>7. \A i \in 1 .. Len(list) : parent[list[i]] = q
  BY <1>4, <1>5 DEF GraphInv, Listed
<1>8. \A e \in S : parent[e] = q =>
         /\ e \in {list[i] : i \in 1 .. Len(list)}
         /\ nextSibling[e] = Successor(list, e)
  BY <1>3, <1>5 DEF GraphInv, Linked
<1> DEFINE T == {i \in 1 .. Len(list) : list[i] \in S /\ LastAt(list, list[i], i)}
<1>9. \A e \in S : parent[e] = q => \E i \in T : list[i] = e /\ i < Len(list) /\ nextSibling[e] = list[i + 1]
  <2> SUFFICES ASSUME NEW e \in S, parent[e] = q
               PROVE  \E i \in T : list[i] = e /\ i < Len(list) /\ nextSibling[e] = list[i + 1]
    OBVIOUS
  <2>1. PICK i : /\ LastAt(list, e, i)
                 /\ Successor(list, e) = IF i = Len(list) THEN NoEntity ELSE list[i + 1]
    BY <1>6, <1>8, SuccessorIs
  <2>2. i # Len(list)
    BY <1>3, <1>8, <2>1
  <2> QED
    BY <1>6, <1>8, <2>1, <2>2 DEF LastAt
<1>10. T \in SUBSET (0 .. Len(list)) /\ T # {}
  BY <1>1, <1>2, <1>6, <1>9
<1>11. PICK m \in T : \A k \in T : k <= m
  BY <1>6, <1>10, GreatestNumber
<1>12. list[m] \in S /\ LastAt(list, list[m], m) /\ m \in 1 .. Len(list) /\ parent[list[m]] = q
  BY <1>7, <1>11
<1>13. PICK i \in T : list[i] = list[m] /\ i < Len(list) /\ nextSibling[list[m]] = list[i + 1]
  BY <1>9, <1>12
<1>14. i = m
  BY <1>6, <1>12, <1>13 DEF LastAt
<1>15. PICK e \in S : e = nextSibling[list[m]]
  BY <1>12
<1>16. e = list[m + 1] /\ m + 1 \in 1 .. Len(list) /\ parent[e] = q
  BY <1>6, <1>7, <1>13, <1>14, <1>15
<1>17. PICK k \in T : list[k] = e
  BY <1>9, <1>16
<1>18. k >= m + 1
  BY <1>6, <1>16, <1>17 DEF LastAt
<1> QED
  BY <1>6, <1>11, <1>12, <1>17, <1>18

\* What is reached from the top of a child list hangs there from below.
LEMMA ChainIsBelow ==
  ASSUME GraphInv, NEW p \in Entities
  PROVE  Chain(p) \subseteq {e \in Entities : parent[e] = p}
<1> DEFINE C == {e \in Entities : parent[e] = p}
<1>1. p # NoEntity
  BY NoEntityApart
<1>2. Closed(C)
  <2> SUFFICES ASSUME NEW e \in C, nextSibling[e] # NoEntity PROVE nextSibling[e] \in C
    BY DEF Closed
  <2>0. PICK list : list = children[p]
    OBVIOUS
  <2>1. /\ p \in DOMAIN children
        /\ e \in {list[i] : i \in 1 .. Len(list)}
        /\ nextSibling[e] = Successor(list, e)
    BY <2>0 DEF GraphInv, Linked
  <2>2. list \in Seq(Entities)
    BY <2>0, <2>1 DEF GraphInv, Types
  <2>3. PICK i : /\ LastAt(list, e, i)
                 /\ Successor(list, e) = IF i = Len(list) THEN NoEntity ELSE list[i + 1]
    BY <2>1, <2>2, SuccessorIs
  <2>4. i + 1 \in 1 .. Len(list) /\ nextSibling[e] = list[i + 1]
    BY <2>1, <2>2, <2>3 DEF LastAt
  <2>5. list[i + 1] \in Entities /\ parent[list[i + 1]] = p
    BY <2>0, <2>1, <2>2, <2>4 DEF GraphInv, Listed
  <2> QED
    BY <2>4, <2>5
<1>3. {firstChild[p]} \ {NoEntity} \subseteq C
  <2> SUFFICES ASSUME firstChild[p] # NoEntity PROVE firstChild[p] \in C
    OBVIOUS
  <2>1. p \in DOMAIN children /\ firstChild[p] = children[p][1]
    BY DEF GraphInv, Linked
  <2>2. children[p] \in Seq(Entities) /\ Len(children[p]) >= 1
    BY <2>1 DEF GraphInv, Types, Listed
  <2>3. 1 \in 1 .. Len(children[p])
    BY <2>2
  <2> QED
    BY <2>1, <2>2, <2>3 DEF GraphInv, Listed
<1> QED
  BY <1>2, <1>3 DEF Chain

LEMMA ListsComplete == GraphInv /\ phase = "run" => ChildrenAreListed
<1> SUFFICES ASSUME GraphInv, phase = "run", WellFormed, NEW p \in Entities
             PROVE  Chain(p) = {e \in Entities : parent[e] = p}
  BY DEF ChildrenAreListed
<1> DEFINE C == {e \in Entities : parent[e] = p}
<1>1. p # NoEntity
  BY NoEntityApart
<1>2. Chain(p) \subseteq C
  BY ChainIsBelow
<1>3. C \subseteq Chain(p)
  <2> SUFFICES ASSUME NEW e \in C, NEW S \in SUBSET Entities, Closed(S),
                      {firstChild[p]} \ {NoEntity} \subseteq S, e \notin S
               PROVE  FALSE
    BY DEF Chain
  <2>0. PICK list : list = children[p]
    OBVIOUS
  <2>1. PICK d \in DOMAIN docs : docs[d].guid \in DOMAIN entityOf /\ entityOf[docs[d].guid] = e
    BY <1>1 DEF GraphInv, Parented
  <2>2. IsListed(d)
    BY <2>1 DEF GraphInv, Listed
  <2>3. p \in DOMAIN children /\ \E j \in 1 .. Len(list) : list[j] = e
    BY <2>0, <2>1, <2>2 DEF IsListed
  <2>4. list \in Seq(Entities) /\ Len(list) \in Nat
    BY <2>0, <2>3 DEF GraphInv, Types
  <2>5. p \in DOMAIN children \ unlinked
    BY <2>3 DEF GraphInv, InOrder
  <2>6. /\ firstChild[p] = list[1]
        /\ \A i \in 1 .. Len(list) : list[i] # p => nextSibling[list[i]] = Successor(list, list[i])
    BY <1>1, <2>0, <2>5 DEF GraphInv, Linked
  <2> DEFINE T == {j \in 1 .. Len(list) : list[j] \notin S}
  <2>7. T \in SUBSET Nat /\ T # {}
    BY <2>3
  <2>8. PICK m \in T : \A k \in T : m <= k
    BY <2>7, LeastNumber
  <2>9. m # 1
    <3>1. list[1] \in Entities
      BY <2>3, <2>4
    <3> QED
      BY <2>6, <2>8, <3>1, NoEntityApart
  <2>10. PICK l \in 1 .. Len(list) : l + 1 = m /\ list[l] \in S
    <3>1. m - 1 \in 1 .. Len(list) /\ m - 1 \notin T
      BY <2>4, <2>8, <2>9
    <3> QED
      BY <2>4, <2>8, <3>1
  <2>11. list[l] # p
    <3>1. parent[list[l]] = p /\ list[l] \in Entities
      BY <2>0, <2>3, <2>4 DEF GraphInv, Listed
    <3> QED
      BY <3>1 DEF GraphInv, Parented
  <2>12. Successor(list, list[l]) = list[m]
    <3>1. PICK i : /\ LastAt(list, list[l], i)
                   /\ Successor(list, list[l])
                        = IF i = Len(list) THEN NoEntity ELSE list[i + 1]
      BY <2>4, SuccessorIs
    <3>2. i = l
      BY <2>0, <2>3, <3>1 DEF GraphInv, Listed, LastAt
    <3> QED
      BY <2>4, <2>8, <2>10, <3>1, <3>2
  <2>13. list[m] \in Entities /\ list[m] \notin S
    BY <2>4, <2>8
  <2> QED
    BY <2>6, <2>10, <2>11, <2>12, <2>13, NoEntityApart DEF Closed
<1> QED
  BY <1>2, <1>3

-----------------------------------------------------------------------------
(***************************************************************************)
(* The steps                                                               *)
(***************************************************************************)

LEMMA InitGraph == Init => GraphInv
<1> SUFFICES ASSUME Init PROVE GraphInv
  OBVIOUS
<1>1. DOMAIN entityOf = {} /\ DOMAIN children = {}
  BY DEF Init
<1>2. Types
  BY <1>1 DEF Init, Types
<1>3. Numbered
  <2>1. IsFiniteSet(DOMAIN entityOf) /\ Cardinality(DOMAIN entityOf) = 0
    BY <1>1, FS_EmptySet
  <2>2. at = 1 /\ \A i \in DOMAIN docs : ~ (i < at)
    BY <1>2, DocsAre DEF Init
  <2> QED
    BY <1>1, <2>1, <2>2 DEF Init, Numbered
<1>4. InOrder /\ Parented /\ Linked
  BY <1>1, NoEntityApart DEF Init, InOrder, Parented, Linked
<1>5. Listed
  BY <1>1 DEF Init, Listed
<1> QED
  BY <1>2, <1>3, <1>4, <1>5 DEF GraphInv

\* A step that leaves the documents, the lists and the links alone.
LEMMA QuietGraph ==
  ASSUME GraphInv,
         UNCHANGED <<docs, entityOf, children, unlinked, phase, at, linkVars>>
  PROVE  GraphInv'
<1>1. WellFormed' = WellFormed
  BY DEF WellFormed
<1> QED
  BY <1>1
     DEF GraphInv, Types, Numbered, InOrder, Parented, Listed, IsListed, Linked, linkVars

LEMMA MakeEntityGraph ==
  ASSUME GraphInv, MakeEntity
  PROVE  GraphInv'
<1>0. /\ phase = "make" /\ phase' = "make" /\ at' = at + 1 /\ at <= Len(docs)
      /\ UNCHANGED <<docs, children, unlinked, parent, firstChild, nextSibling>>
  BY DEF MakeEntity, InPass, linkVars
<1>1. at \in Nat \ {0} /\ at \in DOMAIN docs /\ Len(docs) <= MaxDocs /\ DOMAIN docs \subseteq Nat
  BY <1>0, DocsAre DEF GraphInv, Types
<1>2. PICK n : n = Cardinality(DOMAIN entityOf)
  OBVIOUS
<1>3. n \in Nat /\ n < at /\ IsFiniteSet(DOMAIN entityOf)
  BY <1>0, <1>2, FS_CardinalityType DEF GraphInv, Numbered
<1>4. \A g \in DOMAIN entityOf : entityOf[g] \in 0 .. n - 1
  BY <1>0, <1>2 DEF GraphInv, Numbered
<1>5. n \in Entities
  BY <1>0, <1>1, <1>3, DocsAre, MaxDocsAssumption DEF Entities, GraphInv
<1>6. WellFormed' <=> WellFormed
  BY <1>0 DEF WellFormed
<1> DEFINE guid == docs[at].guid
<1>7. CASE guid = NoGuid \/ Known(guid)
  <2>1. entityOf' = entityOf
    BY <1>7 DEF MakeEntity
  <2>2. Types'
    BY <1>0, <2>1 DEF GraphInv, Types
  <2>3. Numbered'
    <3>1. /\ IsFiniteSet(DOMAIN entityOf')
          /\ Cardinality(DOMAIN entityOf') < at'
          /\ \A g \in DOMAIN entityOf' : entityOf'[g] \in 0 .. Cardinality(DOMAIN entityOf') - 1
      BY <1>0, <1>1, <1>2, <1>3, <1>4, <2>1
    <3>2. ASSUME WellFormed, NEW i \in DOMAIN docs, i < at + 1
          PROVE  docs[i].guid \in DOMAIN entityOf
      <4>1. CASE i = at
        BY <1>1, <1>7, <3>2, <4>1 DEF WellFormed, Known
      <4>2. CASE i < at
        BY <1>0, <3>2, <4>2 DEF GraphInv, Numbered
      <4> QED
        BY <1>1, <3>2, <4>1, <4>2
    <3> QED
      BY <1>0, <1>6, <2>1, <3>1, <3>2 DEF GraphInv, Numbered
  <2>4. InOrder' /\ Parented' /\ Linked'
    BY <1>0, <1>6, <2>1 DEF GraphInv, InOrder, Parented, Linked
  <2>5. Listed'
    BY <1>0, <1>6, <2>1 DEF GraphInv, InOrder, Listed
  <2> QED
    BY <2>2, <2>3, <2>4, <2>5 DEF GraphInv
<1>8. CASE ~ (guid = NoGuid \/ Known(guid))
  <2>1. /\ DOMAIN entityOf' = DOMAIN entityOf \cup {guid}
        /\ guid \notin DOMAIN entityOf
        /\ entityOf'[guid] = n
        /\ \A g \in DOMAIN entityOf : entityOf'[g] = entityOf[g]
    BY <1>2, <1>8 DEF MakeEntity, With, Known
  <2>2. IsFiniteSet(DOMAIN entityOf') /\ Cardinality(DOMAIN entityOf') = n + 1
    BY <1>2, <1>3, <2>1, FS_AddElement
  <2> HIDE DEF guid
  <2>3. Types'
    BY <1>0, <1>5, <2>1 DEF GraphInv, Types
  <2>4. Numbered'
    <3>0. PICK c : c = Cardinality(DOMAIN entityOf')
      OBVIOUS
    <3>1. \A g \in DOMAIN entityOf' : entityOf'[g] \in 0 .. c - 1
      BY <1>3, <1>4, <2>1, <2>2, <3>0
    <3>2. ASSUME WellFormed, NEW g \in DOMAIN entityOf', NEW h \in DOMAIN entityOf',
                 entityOf'[g] = entityOf'[h]
          PROVE  g = h
      <4>1. \A k \in DOMAIN entityOf : entityOf'[k] # n
        BY <1>3, <1>4, <2>1
      <4>2. g = guid <=> h = guid
        BY <2>1, <3>2, <4>1
      <4> QED
        BY <2>1, <3>2, <4>2 DEF GraphInv, Numbered
    <3>3. ASSUME WellFormed, NEW i \in DOMAIN docs, i < at + 1
          PROVE  docs[i].guid \in DOMAIN entityOf'
      <4>1. CASE i = at
        BY <2>1, <4>1 DEF guid
      <4>2. CASE i < at
        BY <1>0, <2>1, <3>3, <4>2 DEF GraphInv, Numbered
      <4> QED
        BY <1>1, <3>3, <4>1, <4>2
    <3>4. c < at'
      BY <1>0, <1>1, <1>3, <2>2, <3>0
    <3>5. phase' = "make" =>
            /\ IsFiniteSet(DOMAIN entityOf')
            /\ Cardinality(DOMAIN entityOf') < at'
            /\ \A g \in DOMAIN entityOf' : entityOf'[g] \in 0 .. Cardinality(DOMAIN entityOf') - 1
      BY <2>2, <3>0, <3>1, <3>4
    <3> QED
      BY <1>0, <1>6, <3>2, <3>3, <3>5 DEF Numbered
  <2>5. InOrder' /\ Linked'
    BY <1>0, <1>6 DEF GraphInv, InOrder, Linked
  <2>6. Parented'
    BY <1>0, <1>6, <2>1 DEF GraphInv, Parented
  <2>7. Listed'
    BY <1>0, <1>6 DEF GraphInv, InOrder, Listed
  <2> QED
    BY <2>3, <2>4, <2>5, <2>6, <2>7 DEF GraphInv
<1> QED
  BY <1>7, <1>8

LEMMA NextPassGraph ==
  ASSUME GraphInv,
         \/ NextPass("make", "components")
         \/ NextPass("components", "parents")
         \/ NextPass("parents", "children")
         \/ NextPass("children", "siblings")
  PROVE  GraphInv'
<1>0. /\ at > Len(docs) /\ at' = 1
      /\ UNCHANGED <<docs, entityOf, children, unlinked, parent, firstChild, nextSibling>>
      /\ \/ phase = "make" /\ phase' = "components"
         \/ phase = "components" /\ phase' = "parents"
         \/ phase = "parents" /\ phase' = "children"
         \/ phase = "children" /\ phase' = "siblings"
  BY DEF NextPass, loadVars, linkVars
<1>1. /\ \A i \in DOMAIN docs : i < at /\ ~ (i < 1)
  BY <1>0, DocsAre DEF GraphInv, Types
<1>2. WellFormed' <=> WellFormed
  BY <1>0 DEF WellFormed
<1>3. Types'
  BY <1>0 DEF GraphInv, Types
<1>4. Numbered'
  BY <1>0, <1>1, <1>2 DEF GraphInv, Numbered
<1>5. InOrder'
  BY <1>0 DEF GraphInv, InOrder, Types
<1>6. Parented'
  BY <1>0, <1>2 DEF GraphInv, Parented
<1>7. Listed'
  <2>1. \A i \in DOMAIN docs : IsListed(i)' <=> IsListed(i)
    BY <1>0 DEF IsListed
  <2>2. \A i \in DOMAIN docs' : phase' \in {"siblings", "run"} \/ (phase' = "children" /\ i < at')
           => IsListed(i)'
    BY <1>0, <1>1, <2>1 DEF GraphInv, Listed
  <2>3. WellFormed' /\ phase' = "children" => DOMAIN children' = {}
    BY <1>0 DEF GraphInv, InOrder
  <2> QED
    BY <1>0, <1>2, <2>2, <2>3 DEF GraphInv, Listed
<1>8. Linked'
  BY <1>0 DEF GraphInv, InOrder, Linked
<1> QED
  BY <1>3, <1>4, <1>5, <1>6, <1>7, <1>8 DEF GraphInv

LEMMA AttachComponentsGraph ==
  ASSUME GraphInv, AttachComponents
  PROVE  GraphInv'
<1>0. /\ phase = "components" /\ phase' = phase /\ at' = at + 1
      /\ UNCHANGED <<docs, entityOf, children, unlinked, parent, firstChild, nextSibling>>
  BY DEF AttachComponents, InPass, linkVars
<1>1. WellFormed' <=> WellFormed
  BY <1>0 DEF WellFormed
<1>2. Types' /\ Numbered' /\ InOrder' /\ Parented' /\ Linked'
  BY <1>0, <1>1 DEF GraphInv, Types, Numbered, InOrder, Parented, Linked
<1>3. Listed'
  BY <1>0, <1>1 DEF GraphInv, Listed
<1> QED
  BY <1>2, <1>3 DEF GraphInv

LEMMA LinkParentGraph ==
  ASSUME GraphInv, LinkParent
  PROVE  GraphInv'
<1>0. /\ phase = "parents" /\ phase' = phase /\ at' = at + 1 /\ at \in Nat \ {0}
      /\ at \in DOMAIN docs
      /\ UNCHANGED <<docs, entityOf, children, unlinked>>
  BY DocsAre DEF LinkParent, InPass, loadVars, GraphInv, Types
<1>1. WellFormed' <=> WellFormed
  BY <1>0 DEF WellFormed
<1>2. CASE ~ Known(docs[at].guid)
  <2>1. UNCHANGED <<parent, firstChild, nextSibling>>
    BY <1>2 DEF LinkParent, linkVars
  <2>2. Types' /\ Numbered' /\ InOrder' /\ Parented' /\ Linked'
    BY <1>0, <1>1, <2>1 DEF GraphInv, Types, Numbered, InOrder, Parented, Linked
  <2>3. Listed'
    BY <1>0, <1>1, <2>1 DEF GraphInv, Listed
  <2> QED
    BY <2>2, <2>3 DEF GraphInv
<1>3. CASE Known(docs[at].guid)
  <2>0. PICK e : e = entityOf[docs[at].guid]
    OBVIOUS
  <2>1. e \in Entities
    BY <1>3, <2>0 DEF GraphInv, Types, Known
  <2>2. PICK p : p = IF Known(docs[at].parent) THEN entityOf[docs[at].parent] ELSE NoEntity
    OBVIOUS
  <2>3. p \in Entities \cup {NoEntity}
    BY <2>2 DEF GraphInv, Types, Known
  <2>4. /\ parent' = [parent EXCEPT ![e] = p]
        /\ firstChild' = [firstChild EXCEPT ![e] = NoEntity]
        /\ nextSibling' = [nextSibling EXCEPT ![e] = NoEntity]
    BY <1>3, <2>0, <2>2 DEF LinkParent
  <2>5. Types'
    BY <1>0, <2>1, <2>3, <2>4 DEF GraphInv, Types
  <2>6. Numbered'
    BY <1>0, <1>1 DEF GraphInv, Numbered
  <2>7. InOrder'
    BY <1>0, <2>4 DEF GraphInv, InOrder, Types
  <2>8. Parented'
    <3>1. WellFormed => p # e
      <4> SUFFICES ASSUME WellFormed, p = e PROVE FALSE
        OBVIOUS
      <4>1. Known(docs[at].parent) /\ entityOf[docs[at].parent] = e
        BY <2>1, <2>2, NoEntityApart
      <4>2. docs[at].parent = docs[at].guid
        BY <1>3, <2>0, <4>1 DEF GraphInv, Numbered, Known
      <4> QED
        BY <1>0, <4>2 DEF WellFormed
    <3>2. \A x \in Entities : parent'[x] = IF x = e THEN p ELSE parent[x]
      BY <2>4 DEF GraphInv, Types
    <3>3. docs[at].guid \in DOMAIN entityOf
      BY <1>3 DEF Known
    <3> QED
      BY <1>0, <1>1, <2>0, <3>1, <3>2, <3>3 DEF GraphInv, Parented
  <2>9. DOMAIN children' = {}
    BY <1>0 DEF GraphInv, InOrder
  <2>10. Listed'
    BY <1>0, <2>9 DEF Listed
  <2>11. Linked'
    BY <1>0, <2>7 DEF InOrder, Linked
  <2> QED
    BY <2>5, <2>6, <2>7, <2>8, <2>10, <2>11 DEF GraphInv
<1> QED
  BY <1>2, <1>3

LEMMA ListChildGraph ==
  ASSUME GraphInv, ListChild
  PROVE  GraphInv'
<1>0. /\ phase = "children" /\ phase' = phase /\ at' = at + 1 /\ at \in Nat \ {0}
      /\ at \in DOMAIN docs /\ DOMAIN docs \subseteq Nat
      /\ UNCHANGED <<docs, parent, firstChild, nextSibling>>
  <2>1. /\ phase = "children" /\ phase' = phase /\ at' = at + 1 /\ at <= Len(docs)
        /\ UNCHANGED <<docs, parent, firstChild, nextSibling>>
    BY DEF ListChild, InPass, linkVars
  <2>2. at \in Nat \ {0}
    BY DEF GraphInv, Types
  <2> QED
    BY <2>1, <2>2, DocsAre DEF GraphInv
<1>1. WellFormed' <=> WellFormed
  BY <1>0 DEF WellFormed
<1>2. PICK guid : guid = docs[at].guid
  OBVIOUS
<1>3. PICK child : child = IF Known(guid) THEN entityOf[guid] ELSE 0
  OBVIOUS
<1>4. PICK q : q = parent[child]
  OBVIOUS
<1>5. PICK siblings : siblings = IF q \in DOMAIN children THEN children[q] ELSE <<>>
  OBVIOUS
<1>6. child \in Entities
  BY <1>3, NoEntityApart DEF GraphInv, Types, Known
<1>7. siblings \in Seq(Entities) /\ Len(siblings) \in Nat
  BY <1>5 DEF GraphInv, Types
<1>8. PICK list : list = Append(siblings, child)
  OBVIOUS
<1>9. /\ list \in Seq(Entities)
      /\ Len(list) = Len(siblings) + 1
      /\ \A i \in 1 .. Len(siblings) : list[i] = siblings[i]
      /\ list[Len(siblings) + 1] = child
  BY <1>6, <1>7, <1>8
<1>10. /\ entityOf' = With(entityOf, guid, child)
       /\ children' = With(children, q, list)
       /\ unlinked' = unlinked \cup {q}
  BY <1>2, <1>3, <1>4, <1>5, <1>8 DEF ListChild
<1>11. /\ DOMAIN entityOf' = DOMAIN entityOf \cup {guid}
       /\ entityOf'[guid] = child
       /\ \A g \in DOMAIN entityOf : entityOf'[g] = entityOf[g]
  BY <1>3, <1>10 DEF With, Known
<1>12. /\ DOMAIN children' = DOMAIN children \cup {q}
       /\ children'[q] = list
       /\ \A r \in DOMAIN children : r # q => children'[r] = children[r]
  BY <1>10 DEF With
<1>13. WellFormed => guid \in DOMAIN entityOf /\ child = entityOf[guid]
  BY <1>0, <1>2, <1>3 DEF GraphInv, Numbered, Known
<1>14. Types'
  BY <1>0, <1>6, <1>9, <1>10, <1>11, <1>12 DEF GraphInv, Types
<1>15. Numbered'
  BY <1>0, <1>1, <1>11, <1>13 DEF GraphInv, Numbered
<1>16. InOrder'
  BY <1>0, <1>10, <1>12 DEF GraphInv, InOrder
<1>17. Parented'
  BY <1>0, <1>1, <1>11 DEF GraphInv, Parented
<1>18. Listed'
  <2>1. ASSUME NEW r \in DOMAIN children'
        PROVE  /\ Len(children'[r]) >= 1
               /\ \A i \in 1 .. Len(children'[r]) : parent[children'[r][i]] = r
    <3>1. CASE r # q
      BY <1>12, <2>1, <3>1 DEF GraphInv, Listed
    <3>2. CASE r = q
      <4>1. \A i \in 1 .. Len(siblings) : parent[siblings[i]] = q
        BY <1>5 DEF GraphInv, Listed
      <4>2. \A i \in 1 .. Len(list) : i \in 1 .. Len(siblings) \/ i = Len(siblings) + 1
        BY <1>7, <1>9
      <4>3. \A i \in 1 .. Len(list) : parent[list[i]] = q
        BY <1>4, <1>9, <4>1, <4>2
      <4>4. Len(list) >= 1
        BY <1>7, <1>9
      <4> QED
        BY <1>12, <3>2, <4>3, <4>4
    <3> QED
      BY <3>1, <3>2
  <2>2. ASSUME NEW i \in DOMAIN docs, i < at + 1 PROVE IsListed(i)'
    <3>1. CASE i = at
      <4>1. Len(siblings) + 1 \in 1 .. Len(list)
        BY <1>7, <1>9
      <4> QED
        BY <1>0, <1>2, <1>4, <1>9, <1>11, <1>12, <3>1, <4>1 DEF IsListed
    <3>2. CASE i # at
      <4>1. i < at
        BY <1>0, <2>2, <3>2
      <4>2. IsListed(i)
        BY <1>0, <4>1 DEF GraphInv, Listed
      <4>3. PICK e : e = entityOf[docs[i].guid]
        OBVIOUS
      <4>4. /\ docs[i].guid \in DOMAIN entityOf' /\ entityOf'[docs[i].guid] = e
            /\ parent[e] \in DOMAIN children
            /\ \E j \in 1 .. Len(children[parent[e]]) : children[parent[e]][j] = e
        BY <1>11, <4>2, <4>3 DEF IsListed
      <4>5. CASE parent[e] = q
        <5>1. PICK j \in 1 .. Len(siblings) : siblings[j] = e
          BY <1>5, <4>4, <4>5
        <5>2. j \in 1 .. Len(list) /\ list[j] = e
          BY <1>7, <1>9, <5>1
        <5> QED
          BY <1>0, <1>12, <4>4, <4>5, <5>2 DEF IsListed
      <4>6. CASE parent[e] # q
        BY <1>0, <1>12, <4>4, <4>6 DEF IsListed
      <4> QED
        BY <4>5, <4>6
    <3> QED
      BY <3>1, <3>2
  <2>3. WellFormed =>
           \A i \in 1 .. Len(siblings) :
               \E d \in DOMAIN docs : d < at /\ docs[d].guid \in DOMAIN entityOf
                                        /\ siblings[i] = entityOf[docs[d].guid]
    BY <1>0, <1>5 DEF GraphInv, Listed
  <2>4. ASSUME WellFormed, NEW i \in 1 .. Len(siblings) PROVE siblings[i] # child
    <3>1. PICK d \in DOMAIN docs : d < at /\ docs[d].guid \in DOMAIN entityOf
                                      /\ siblings[i] = entityOf[docs[d].guid]
      BY <2>3, <2>4
    <3>2. docs[d].guid # guid
      BY <1>0, <1>2, <2>4, <3>1 DEF WellFormed
    <3> QED
      BY <1>13, <2>4, <3>1, <3>2 DEF GraphInv, Numbered
  <2>5. ASSUME WellFormed, NEW r \in DOMAIN children',
               NEW i \in 1 .. Len(children'[r]), NEW j \in 1 .. Len(children'[r]),
               children'[r][i] = children'[r][j]
        PROVE  i = j
    <3>1. CASE r # q
      BY <1>12, <2>5, <3>1 DEF GraphInv, Listed
    <3>2. CASE r = q
      <4>1. i \in 1 .. Len(list) /\ j \in 1 .. Len(list) /\ list[i] = list[j]
        BY <1>12, <2>5, <3>2
      <4>2. \A k \in 1 .. Len(list) : k \in 1 .. Len(siblings) \/ k = Len(siblings) + 1
        BY <1>7, <1>9
      <4>3. \A k, l \in 1 .. Len(siblings) : siblings[k] = siblings[l] => k = l
        BY <1>5, <2>5 DEF GraphInv, Listed
      <4> QED
        BY <1>9, <2>4, <2>5, <4>1, <4>2, <4>3
    <3> QED
      BY <3>1, <3>2
  <2>6. ASSUME WellFormed, NEW r \in DOMAIN children', NEW i \in 1 .. Len(children'[r])
        PROVE  \E d \in DOMAIN docs : d < at + 1 /\ docs[d].guid \in DOMAIN entityOf'
                                          /\ children'[r][i] = entityOf'[docs[d].guid]
    <3>1. CASE r # q
      <4>1. PICK d \in DOMAIN docs : d < at /\ docs[d].guid \in DOMAIN entityOf
                                      /\ children[r][i] = entityOf[docs[d].guid]
        BY <1>0, <1>12, <2>6, <3>1 DEF GraphInv, Listed
      <4>2. d < at + 1
        BY <1>0, <4>1
      <4> QED
        BY <1>11, <1>12, <2>6, <3>1, <4>1, <4>2
    <3>2. CASE r = q
      <4>1. i \in 1 .. Len(siblings) \/ i = Len(siblings) + 1
        BY <1>7, <1>9, <1>12, <3>2
      <4>2. CASE i = Len(siblings) + 1
        BY <1>0, <1>2, <1>9, <1>11, <1>12, <3>2, <4>2
      <4>3. CASE i \in 1 .. Len(siblings)
        <5>1. PICK d \in DOMAIN docs : d < at /\ docs[d].guid \in DOMAIN entityOf
                                      /\ siblings[i] = entityOf[docs[d].guid]
          BY <2>3, <2>6, <4>3
        <5>2. d < at + 1
          BY <1>0, <5>1
        <5> QED
          BY <1>9, <1>11, <1>12, <3>2, <4>3, <5>1, <5>2
      <4> QED
        BY <4>1, <4>2, <4>3
    <3> QED
      BY <3>1, <3>2
  <2>7. \A i \in DOMAIN docs' : phase' \in {"siblings", "run"} \/ (phase' = "children" /\ i < at')
           => IsListed(i)'
    BY <1>0, <2>2
  <2>8. \A r \in DOMAIN children' :
           /\ Len(children'[r]) >= 1
           /\ \A i \in 1 .. Len(children'[r]) : parent'[children'[r][i]] = r
    BY <1>0, <2>1
  <2>9. WellFormed' =>
           \A r \in DOMAIN children' : \A i, j \in 1 .. Len(children'[r]) :
               children'[r][i] = children'[r][j] => i = j
    BY <1>1, <2>5
  <2>10. WellFormed' =>
           \A r \in DOMAIN children' : \A i \in 1 .. Len(children'[r]) :
               \E d \in DOMAIN docs' : d < at' /\ docs'[d].guid \in DOMAIN entityOf'
                                        /\ children'[r][i] = entityOf'[docs'[d].guid]
    BY <1>0, <1>1, <2>6
  <2> QED
    BY <2>7, <2>8, <2>9, <2>10 DEF Listed
<1>19. Linked'
  <2>1. \A e \in Entities : nextSibling'[e] = NoEntity /\ firstChild'[e] = NoEntity
    BY <1>0 DEF GraphInv, InOrder
  <2> QED
    BY <1>0, <2>1 DEF Linked
<1> QED
  BY <1>14, <1>15, <1>16, <1>17, <1>18, <1>19 DEF GraphInv

LEMMA LinkSiblingsGraph ==
  ASSUME GraphInv, NEW p \in Entities \cup {NoEntity}, LinkSiblings(p)
  PROVE  GraphInv'
<1>0. /\ phase = "siblings" /\ phase' = phase /\ at' = at /\ p \in unlinked
      /\ unlinked' = unlinked \ {p}
      /\ UNCHANGED <<docs, entityOf, children, parent>>
  BY DEF LinkSiblings
<1>1. WellFormed' <=> WellFormed
  BY <1>0 DEF WellFormed
<1>2. PICK list : list = children[p]
  OBVIOUS
<1>3. p \in DOMAIN children /\ list \in Seq(Entities) /\ Len(list) \in Nat /\ Len(list) >= 1
  BY <1>0, <1>2 DEF GraphInv, Types, Listed
<1>4. \A i \in 1 .. Len(list) : list[i] \in Entities /\ parent[list[i]] = p
  BY <1>2, <1>3 DEF GraphInv, Listed
<1> DEFINE listed == {list[i] : i \in 1 .. Len(list)}
<1>5. /\ firstChild' = IF p = NoEntity THEN firstChild ELSE [firstChild EXCEPT ![p] = list[1]]
      /\ nextSibling' = [e \in Entities |->
            IF e \in listed \ {p} THEN Successor(list, e) ELSE nextSibling[e]]
  BY <1>2 DEF LinkSiblings
<1>6. \A e \in listed : Successor(list, e) \in Entities \cup {NoEntity}
  <2> SUFFICES ASSUME NEW e \in listed PROVE Successor(list, e) \in Entities \cup {NoEntity}
    OBVIOUS
  <2>1. PICK i : /\ LastAt(list, e, i)
                 /\ Successor(list, e) = IF i = Len(list) THEN NoEntity ELSE list[i + 1]
    BY <1>3, SuccessorIs
  <2>2. i # Len(list) => i + 1 \in 1 .. Len(list)
    BY <1>3, <2>1 DEF LastAt
  <2> QED
    BY <1>4, <2>1, <2>2
<1>7. \A e \in listed : e \in Entities /\ parent[e] = p
  BY <1>4
<1> HIDE DEF listed
<1>8. list[1] \in Entities
  BY <1>3
<1>9. Types'
  <2>1. firstChild' \in [Entities -> Entities \cup {NoEntity}]
    BY <1>5, <1>8 DEF GraphInv, Types
  <2>2. nextSibling' \in [Entities -> Entities \cup {NoEntity}]
    BY <1>5, <1>6 DEF GraphInv, Types
  <2> QED
    BY <1>0, <2>1, <2>2 DEF GraphInv, Types
<1>10. Numbered' /\ InOrder' /\ Parented'
  BY <1>0, <1>1 DEF GraphInv, Numbered, InOrder, Parented
<1>11. Listed'
  BY <1>0, <1>1 DEF GraphInv, Listed, IsListed
<1>12. \A e \in Entities :
          nextSibling'[e] = IF e \in listed \ {p} THEN Successor(list, e) ELSE nextSibling[e]
  BY <1>5
<1>13. \A x \in Entities : firstChild'[x] = IF x = p THEN list[1] ELSE firstChild[x]
  BY <1>5, NoEntityApart DEF GraphInv, Types
<1>14. Linked'
  <2>1. ASSUME NEW e \in Entities, nextSibling'[e] # NoEntity
        PROVE  /\ parent[e] \in DOMAIN children
               /\ e \in {children[parent[e]][i] : i \in 1 .. Len(children[parent[e]])}
               /\ nextSibling'[e] = Successor(children[parent[e]], e)
    <3>1. CASE e \in listed \ {p}
      <4>1. parent[e] = p /\ nextSibling'[e] = Successor(list, e)
        BY <1>7, <1>12, <3>1
      <4> QED
        BY <1>2, <1>3, <3>1, <4>1 DEF listed
    <3>2. CASE e \notin listed \ {p}
      BY <1>12, <2>1, <3>2 DEF GraphInv, Linked
    <3> QED
      BY <3>1, <3>2
  <2>2. \A x \in Entities : firstChild'[x] # NoEntity =>
           x \in DOMAIN children /\ firstChild'[x] = children[x][1]
    BY <1>2, <1>3, <1>13 DEF GraphInv, Linked
  <2>3. ASSUME NEW q \in DOMAIN children \ unlinked'
        PROVE  /\ q # NoEntity => firstChild'[q] = children[q][1]
               /\ \A i \in 1 .. Len(children[q]) : children[q][i] # q =>
                      nextSibling'[children[q][i]] = Successor(children[q], children[q][i])
    <3>1. CASE q = p
      <4>1. q # NoEntity => firstChild'[q] = children[q][1]
        BY <1>2, <1>13, <3>1
      <4>2. \A i \in 1 .. Len(list) : list[i] \in listed /\ list[i] \in Entities
        BY <1>4 DEF listed
      <4>3. \A i \in 1 .. Len(list) : list[i] # p => nextSibling'[list[i]] = Successor(list, list[i])
        BY <1>12, <4>2
      <4> QED
        BY <1>2, <3>1, <4>1, <4>3
    <3>2. CASE q # p
      <4>1. q \in DOMAIN children \ unlinked
        BY <1>0, <2>3, <3>2
      <4>2. /\ q # NoEntity => firstChild[q] = children[q][1]
            /\ \A i \in 1 .. Len(children[q]) : children[q][i] # q =>
                   nextSibling[children[q][i]] = Successor(children[q], children[q][i])
        BY <1>0, <4>1 DEF GraphInv, Linked
      <4>3. Len(children[q]) >= 1 /\ children[q] \in Seq(Entities)
        BY <4>1 DEF GraphInv, Types, Listed
      <4>4. \A i \in 1 .. Len(children[q]) : children[q][i] \in Entities /\ parent[children[q][i]] = q
        BY <4>1, <4>3 DEF GraphInv, Listed
      <4>5. \A i \in 1 .. Len(children[q]) : nextSibling'[children[q][i]] = nextSibling[children[q][i]]
        BY <1>7, <1>12, <3>2, <4>4
      <4>6. q # NoEntity => q \in Entities
        <5>1. 1 \in 1 .. Len(children[q])
          BY <4>3
        <5> QED
          BY <4>4, <5>1 DEF GraphInv, Types
      <4> QED
        BY <1>13, <3>2, <4>2, <4>5, <4>6
    <3> QED
      BY <3>1, <3>2
  <2> QED
    BY <1>0, <2>1, <2>2, <2>3 DEF Linked
<1> QED
  BY <1>9, <1>10, <1>11, <1>14 DEF GraphInv

LEMMA AttachGraph ==
  ASSUME GraphInv, Attach
  PROVE  GraphInv'
<1>0. /\ phase = "siblings" /\ phase' = "run" /\ unlinked = {}
      /\ UNCHANGED <<docs, entityOf, children, unlinked, at, parent, firstChild, nextSibling>>
  BY DEF Attach, loadVars, linkVars
<1>1. WellFormed' <=> WellFormed
  BY <1>0 DEF WellFormed
<1>2. Types' /\ Numbered' /\ InOrder' /\ Parented' /\ Linked'
  BY <1>0, <1>1 DEF GraphInv, Types, Numbered, InOrder, Parented, Linked
<1>3. Listed'
  BY <1>0, <1>1 DEF GraphInv, Listed, IsListed
<1> QED
  BY <1>2, <1>3 DEF GraphInv

LEMMA NextGraph == GraphInv /\ [Next]_vars => GraphInv'
<1> SUFFICES ASSUME GraphInv, [Next]_vars PROVE GraphInv'
  OBVIOUS
<1>1. CASE UNCHANGED vars
  BY <1>1, QuietGraph DEF vars, loadVars
<1>2. CASE MakeEntity
  BY <1>2, MakeEntityGraph
<1>3. CASE \/ NextPass("make", "components")
           \/ NextPass("components", "parents")
           \/ NextPass("parents", "children")
           \/ NextPass("children", "siblings")
  BY <1>3, NextPassGraph
<1>4. CASE AttachComponents
  BY <1>4, AttachComponentsGraph
<1>5. CASE LinkParent
  BY <1>5, LinkParentGraph
<1>6. CASE ListChild
  BY <1>6, ListChildGraph
<1>7. CASE \E p \in Entities \cup {NoEntity} : LinkSiblings(p)
  BY <1>7, LinkSiblingsGraph
<1>8. CASE Attach
  BY <1>8, AttachGraph
<1>9. CASE \E e \in Entities : Move(e)
  BY <1>9, QuietGraph DEF Move, loadVars
<1>10. CASE Frame
  BY <1>10, QuietGraph DEF Frame, loadVars
<1> QED
  BY <1>1, <1>2, <1>3, <1>4, <1>5, <1>6, <1>7, <1>8, <1>9, <1>10 DEF Next, Load

-----------------------------------------------------------------------------
(***************************************************************************)
(* Paths, and what the two systems make of the matrices                    *)
(***************************************************************************)

\* The entities that are drawn, what a matrix is made of, and whether the matrix
\* of an entity goes on from that of its parent.
Moving == {e \in Entities : InTransforms(e)}
Values == 0 .. MaxDocs + MaxMoves
Matrices == [Entities -> Seq(Values)]
HasAbove(e) == parent[e] # NoEntity /\ InTransforms(parent[e])

\* A rank of some entities: a parent among them comes before its children.
Ranks(S) ==
    {rank \in [S -> 0 .. Cardinality(S) - 1] :
        \A e \in S : parent[e] \in S => rank[parent[e]] < rank[e]}

LEMMA EntitiesFinite ==
  /\ IsFiniteSet(Entities) /\ Cardinality(Entities) = MaxDocs
  /\ \A S \in SUBSET Entities :
        /\ IsFiniteSet(S) /\ Cardinality(S) \in Nat /\ Cardinality(S) <= MaxDocs
        /\ S # Entities => Cardinality(S) < MaxDocs
<1>1. IsFiniteSet(Entities) /\ Cardinality(Entities) = MaxDocs
  BY FS_Interval, MaxDocsAssumption DEF Entities
<1>2. ASSUME NEW S \in SUBSET Entities
      PROVE  /\ IsFiniteSet(S) /\ Cardinality(S) \in Nat /\ Cardinality(S) <= MaxDocs
             /\ S # Entities => Cardinality(S) < MaxDocs
  <2>1. /\ IsFiniteSet(S) /\ Cardinality(S) <= Cardinality(Entities)
        /\ Cardinality(S) = Cardinality(Entities) => S = Entities
    BY <1>1, FS_Subset
  <2>2. Cardinality(S) \in Nat
    BY <2>1, FS_CardinalityType
  <2> QED
    BY <1>1, <2>1, <2>2, MaxDocsAssumption
<1> QED
  BY <1>1, <1>2

LEMMA RankExists ==
  ASSUME NoCycle, NEW S \in SUBSET Entities
  PROVE  Ranks(S) # {}
<1> DEFINE T == {n \in Nat : \A U \in SUBSET Entities : Cardinality(U) = n => Ranks(U) # {}}
<1>1. 0 \in T
  <2> SUFFICES ASSUME NEW U \in SUBSET Entities, Cardinality(U) = 0 PROVE Ranks(U) # {}
    OBVIOUS
  <2>1. U = {}
    BY EntitiesFinite, FS_EmptySet
  <2>2. [e \in U |-> 0] \in Ranks(U)
    BY <2>1 DEF Ranks
  <2> QED
    BY <2>2
<1>2. ASSUME NEW n \in 1 .. MaxDocs, n - 1 \in T PROVE n \in T
  <2> SUFFICES ASSUME NEW U \in SUBSET Entities, Cardinality(U) = n PROVE Ranks(U) # {}
    OBVIOUS
  <2>1. U # {}
    BY FS_EmptySet
  <2>2. PICK e \in U : parent[e] \notin U
    BY <2>1 DEF NoCycle
  <2>3. PICK V : V = U \ {e}
    OBVIOUS
  <2>4. V \in SUBSET Entities /\ Cardinality(V) = n - 1
    BY <2>3, EntitiesFinite, FS_RemoveElement
  <2>5. PICK rank : rank \in Ranks(V)
    BY <1>2, <2>4
  <2>6. rank \in [V -> 0 .. n - 2]
    BY <2>4, <2>5 DEF Ranks
  <2>7. PICK r : r = [x \in U |-> IF x = e THEN 0 ELSE rank[x] + 1]
    OBVIOUS
  <2>8. \A x \in V : rank[x] \in 0 .. n - 2 /\ r[x] = rank[x] + 1
    BY <2>3, <2>6, <2>7
  <2>9. r[e] = 0
    BY <2>7
  <2>10. r \in [U -> 0 .. n - 1]
    BY <2>3, <2>7, <2>8, <2>9
  <2>11. \A x \in U : parent[x] \in U => r[parent[x]] < r[x]
    <3> SUFFICES ASSUME NEW x \in U, parent[x] \in U PROVE r[parent[x]] < r[x]
      OBVIOUS
    <3>1. x \in V
      BY <2>2, <2>3
    <3>2. CASE parent[x] = e
      BY <2>8, <2>9, <3>1, <3>2
    <3>3. CASE parent[x] \in V
      BY <2>5, <2>8, <3>1, <3>3 DEF Ranks
    <3> QED
      BY <2>3, <3>2, <3>3
  <2>12. r \in Ranks(U)
    BY <2>10, <2>11 DEF Ranks
  <2> QED
    BY <2>12
<1>3. 0 .. MaxDocs \subseteq T
  <2> HIDE DEF T
  <2> QED
    BY <1>1, <1>2, Induction, MaxDocsAssumption
<1>4. Cardinality(S) \in 0 .. MaxDocs
  BY EntitiesFinite, MaxDocsAssumption
<1> QED
  BY <1>3, <1>4

\* What the systems rely on of the variables they work on.
WorldTypes ==
    /\ transforms \in Seq(Entities)
    /\ parent \in [Entities -> Entities \cup {NoEntity}]
    /\ local \in [Entities -> Values]
    /\ world \in Matrices

LEMMA AboveIs ==
  ASSUME WorldTypes, NEW e \in Entities, HasAbove(e)
  PROVE  parent[e] \in Moving
BY NoEntityApart DEF WorldTypes, HasAbove, Moving

\* The path of an entity ends with its own transform, and begins with the path
\* of its parent.
LEMMA PathIs ==
  ASSUME WorldTypes, NoCycle
  PROVE  \A e \in Entities :
            /\ Path(e) \in Seq(Values)
            /\ Path(e) = IF HasAbove(e) THEN Append(Path(parent[e]), local[e]) ELSE <<local[e]>>
<1> DEFINE longer(u, n) == [x \in Entities |->
                              IF n > 0 /\ parent[x] # NoEntity /\ InTransforms(parent[x])
                              THEN Append(u[parent[x]], local[x])
                              ELSE <<local[x]>>]
           base == [x \in Entities |-> <<local[x]>>]
           step == [n \in 1 .. MaxDocs |-> [u \in Matrices |-> longer(u, n)]]
           body(u) == [n \in 0 .. MaxDocs |-> longer(u[n - 1], n)]
           up == CHOOSE u : u = body(u)
<1>0. MaxDocs \in Nat /\ MaxDocs # 0
  BY MaxDocsAssumption
<1>1. base \in Matrices
  BY DEF WorldTypes, Matrices
<1>2. ASSUME NEW u \in Matrices, NEW n \in 1 .. MaxDocs PROVE longer(u, n) \in Matrices
  <2> SUFFICES ASSUME NEW x \in Entities, HasAbove(x) PROVE Append(u[parent[x]], local[x]) \in Seq(Values)
    BY DEF WorldTypes, Matrices, HasAbove
  <2>1. parent[x] \in Entities
    BY AboveIs DEF Moving
  <2>2. u[parent[x]] \in Seq(Values) /\ local[x] \in Values
    BY <2>1 DEF Matrices, WorldTypes
  <2> QED
    BY <2>2
<1>3. step \in [1 .. MaxDocs -> [Matrices -> Matrices]]
  BY <1>2
<1>4. \A n \in 1 .. MaxDocs, u \in Matrices : step[n][u] = longer(u, n)
  OBVIOUS
<1>5. \A u : longer(u, 0) = base
  OBVIOUS
<1> HIDE DEF base, step, longer
<1>6. PICK f \in [0 .. MaxDocs -> Matrices] :
         f[0] = base /\ \A n \in 1 .. MaxDocs : f[n] = step[n][f[n - 1]]
  <2>1. \E f \in [0 .. MaxDocs -> Matrices] : Recursive(f, MaxDocs, base, step)
    BY <1>0, <1>1, <1>3, Recursion
  <2> QED
    BY <2>1 DEF Recursive
<1>7. \A n \in 0 .. MaxDocs : f[n] = longer(f[n - 1], n)
  <2> SUFFICES ASSUME NEW n \in 0 .. MaxDocs PROVE f[n] = longer(f[n - 1], n)
    OBVIOUS
  <2>1. CASE n = 0
    BY <1>5, <1>6, <2>1
  <2>2. CASE n \in 1 .. MaxDocs
    <3>1. f[n - 1] \in Matrices
      BY <1>0, <2>2
    <3> QED
      BY <1>4, <1>6, <2>2, <3>1
  <2> QED
    BY <2>1, <2>2
<1>8. f = body(f)
  BY <1>7
<1>9. up = body(up)
  BY <1>8
<1>10. \A e \in Entities : Path(e) = up[MaxDocs][e]
  BY DEF Path, longer
<1> HIDE DEF up
<1>11. /\ \A e \in Entities : up[0][e] = <<local[e]>>
       /\ \A n \in 1 .. MaxDocs, e \in Entities :
            up[n][e] = IF HasAbove(e) THEN Append(up[n - 1][parent[e]], local[e]) ELSE <<local[e]>>
  <2>1. \A n \in 0 .. MaxDocs : up[n] = longer(up[n - 1], n)
    BY <1>9
  <2> HIDE DEF body
  <2>2. up[0] = base /\ \A n \in 1 .. MaxDocs : n > 0 /\ up[n] = longer(up[n - 1], n)
    BY <1>0, <1>5, <2>1
  <2>3. \A e \in Entities : up[0][e] = <<local[e]>>
    BY <2>2 DEF base
  <2>4. ASSUME NEW n \in 1 .. MaxDocs, NEW e \in Entities
        PROVE  up[n][e] = IF HasAbove(e) THEN Append(up[n - 1][parent[e]], local[e])
                                         ELSE <<local[e]>>
    <3>1. n > 0 /\ up[n] = longer(up[n - 1], n)
      BY <2>2
    <3> QED
      BY <3>1 DEF longer, HasAbove
  <2> QED
    BY <2>3, <2>4
<1> HIDE DEF body
<1>12. PICK rank : rank \in Ranks(Entities)
  BY RankExists
<1>13. /\ \A e \in Entities : rank[e] \in 0 .. MaxDocs - 1
       /\ \A e \in Entities : HasAbove(e) =>
             parent[e] \in Entities /\ rank[parent[e]] < rank[e]
  BY <1>12, AboveIs, EntitiesFinite DEF Ranks, Moving
<1> DEFINE T == {n \in 0 .. MaxDocs : \A e \in Entities :
                    rank[e] <= n => \A m \in n .. MaxDocs : up[m][e] = up[MaxDocs][e]}
<1>14. 0 \in T
  <2> SUFFICES ASSUME NEW e \in Entities, rank[e] <= 0, NEW m \in 0 .. MaxDocs
               PROVE  up[m][e] = up[MaxDocs][e]
    BY <1>0
  <2>1. ~ HasAbove(e)
    BY <1>13
  <2>2. \A k \in 0 .. MaxDocs : up[k][e] = <<local[e]>>
    <3>1. up[0][e] = <<local[e]>>
      BY <1>11
    <3>2. \A k \in 1 .. MaxDocs : up[k][e] = <<local[e]>>
      BY <1>11, <2>1
    <3> QED
      BY <1>0, <3>1, <3>2
  <2> QED
    BY <1>0, <2>2
<1>15. ASSUME NEW n \in 1 .. MaxDocs, n - 1 \in T PROVE n \in T
  <2> SUFFICES ASSUME NEW e \in Entities, rank[e] <= n, NEW m \in n .. MaxDocs
               PROVE  up[m][e] = up[MaxDocs][e]
    OBVIOUS
  <2>1. m \in 1 .. MaxDocs /\ MaxDocs \in 1 .. MaxDocs
    BY <1>0
  <2>2. CASE ~ HasAbove(e)
    BY <1>11, <2>1, <2>2
  <2>3. CASE HasAbove(e)
    <3>1. parent[e] \in Entities /\ rank[parent[e]] <= n - 1
      BY <1>13, <2>3
    <3>2. m - 1 \in n - 1 .. MaxDocs /\ MaxDocs - 1 \in n - 1 .. MaxDocs
      BY <2>1
    <3>3. up[m - 1][parent[e]] = up[MaxDocs - 1][parent[e]]
      BY <1>15, <3>1, <3>2
    <3> QED
      BY <1>11, <2>1, <2>3, <3>3
  <2> QED
    BY <2>2, <2>3
<1>16. 0 .. MaxDocs \subseteq T
  <2> HIDE DEF T
  <2> QED
    BY <1>0, <1>14, <1>15, Induction
<1>17. \A e \in Entities : up[MaxDocs - 1][e] = up[MaxDocs][e]
  <2>1. MaxDocs - 1 \in T /\ MaxDocs - 1 \in MaxDocs - 1 .. MaxDocs
    BY <1>0, <1>16
  <2> QED
    BY <1>13, <2>1
<1> HIDE DEF T
<1>18. \A e \in Entities :
          Path(e) = IF HasAbove(e) THEN Append(Path(parent[e]), local[e]) ELSE <<local[e]>>
  <2> SUFFICES ASSUME NEW e \in Entities
               PROVE  Path(e) = IF HasAbove(e) THEN Append(Path(parent[e]), local[e])
                                               ELSE <<local[e]>>
    OBVIOUS
  <2>1. HasAbove(e) => up[MaxDocs - 1][parent[e]] = Path(parent[e])
    BY <1>10, <1>13, <1>17
  <2>2. MaxDocs \in 1 .. MaxDocs
    BY <1>0
  <2> QED
    BY <1>10, <1>11, <2>1, <2>2
<1> DEFINE U == {n \in 0 .. MaxDocs : \A e \in Entities : up[n][e] \in Seq(Values)}
<1>19. 0 \in U
  <2>1. \A e \in Entities : <<local[e]>> \in Seq(Values)
    BY DEF WorldTypes
  <2>2. \A e \in Entities : up[0][e] = <<local[e]>>
    BY <1>11
  <2> QED
    BY <1>0, <2>1, <2>2
<1>20. ASSUME NEW n \in 1 .. MaxDocs, n - 1 \in U PROVE n \in U
  <2> SUFFICES ASSUME NEW e \in Entities PROVE up[n][e] \in Seq(Values)
    OBVIOUS
  <2>0. local[e] \in Values /\ <<local[e]>> \in Seq(Values)
    BY DEF WorldTypes
  <2>1. CASE HasAbove(e)
    <3>1. up[n - 1][parent[e]] \in Seq(Values)
      BY <1>13, <1>20, <2>1
    <3>2. Append(up[n - 1][parent[e]], local[e]) \in Seq(Values)
      BY <2>0, <3>1
    <3> QED
      BY <1>11, <2>1, <3>2
  <2>2. CASE ~ HasAbove(e)
    BY <1>11, <2>0, <2>2
  <2> QED
    BY <2>1, <2>2
<1>21. 0 .. MaxDocs \subseteq U
  <2> HIDE DEF U
  <2> QED
    BY <1>0, <1>19, <1>20, Induction
<1>22. \A e \in Entities : Path(e) \in Seq(Values)
  BY <1>0, <1>10, <1>21
<1> QED
  BY <1>18, <1>22

\* What TransformSystem makes of the matrices w: where a set of paths from the
\* top is right in w, it stays so, and what is right below it becomes so.
LEMMA TransformKeeps ==
  ASSUME WorldTypes, NEW w \in Matrices
  PROVE  /\ TransformUpdated(w) \in Matrices
         /\ NoCycle =>
              \A R \in SUBSET Moving :
                 (\A e \in R : w[e] = Path(e) /\ (HasAbove(e) => parent[e] \in R))
                   => \A e \in Moving : (HasAbove(e) => parent[e] \in R)
                         => TransformUpdated(w)[e] = Path(e)
<1> DEFINE N == Len(transforms)
           own(u, e) == IF parent[e] # NoEntity /\ InTransforms(parent[e])
                        THEN Append(u[parent[e]], local[e])
                        ELSE <<local[e]>>
           next(u, i) == [u EXCEPT ![transforms[i]] = own(u, transforms[i])]
           step == [i \in 1 .. N |-> [u \in Matrices |-> next(u, i)]]
           body(u) == [i \in 0 .. N |-> IF i = 0 THEN w ELSE next(u[i - 1], i)]
           after == CHOOSE u : u = body(u)
<1>0. N \in Nat /\ \A i \in 1 .. N : transforms[i] \in Entities
  BY DEF WorldTypes
<1>1. ASSUME NEW u \in Matrices, NEW e \in Entities PROVE own(u, e) \in Seq(Values)
  <2>0. local[e] \in Values
    BY DEF WorldTypes
  <2>1. CASE HasAbove(e)
    <3>1. u[parent[e]] \in Seq(Values)
      BY <2>1, AboveIs DEF Moving, Matrices
    <3> QED
      BY <2>0, <2>1, <3>1 DEF HasAbove
  <2> QED
    BY <2>0, <2>1 DEF HasAbove
<1>2. ASSUME NEW u \in Matrices, NEW i \in 1 .. N PROVE next(u, i) \in Matrices
  <2> HIDE DEF own
  <2> QED
    BY <1>0, <1>1 DEF Matrices
<1>3. step \in [1 .. N -> [Matrices -> Matrices]]
  BY <1>2
<1>4. \A i \in 1 .. N, u \in Matrices : step[i][u] = next(u, i)
  OBVIOUS
<1>5. TransformUpdated(w) = after[N]
  BY DEF TransformUpdated
<1> HIDE DEF step, next
<1>6. PICK f \in [0 .. N -> Matrices] :
         f[0] = w /\ \A i \in 1 .. N : f[i] = step[i][f[i - 1]]
  <2>1. \E f \in [0 .. N -> Matrices] : Recursive(f, N, w, step)
    BY <1>0, <1>3, Recursion
  <2> QED
    BY <2>1 DEF Recursive
<1>7. \A i \in 0 .. N : f[i] = IF i = 0 THEN w ELSE next(f[i - 1], i)
  <2> SUFFICES ASSUME NEW i \in 1 .. N PROVE f[i] = next(f[i - 1], i)
    BY <1>6
  <2>1. f[i - 1] \in Matrices
    BY <1>0, <1>6
  <2> QED
    BY <1>4, <1>6, <2>1
<1>8. f = body(f)
  BY <1>7
<1>9. after = body(after)
  BY <1>8
<1> HIDE DEF after
<1>10. after[0] = w /\ \A i \in 1 .. N : after[i] = next(after[i - 1], i)
  BY <1>0, <1>9
<1> HIDE DEF body, N
<1> DEFINE U == {i \in 0 .. N : after[i] \in Matrices}
<1>11. 0 \in U
  BY <1>0, <1>10
<1>12. \A i \in 1 .. N : i - 1 \in U => i \in U
  BY <1>2, <1>10
<1>13. 0 .. N \subseteq U
  <2> HIDE DEF U
  <2> QED
    BY <1>0, <1>11, <1>12, Induction
<1>14. \A i \in 0 .. N : after[i] \in Matrices
  BY <1>13
<1> HIDE DEF U
<1>15. ASSUME NoCycle, NEW R \in SUBSET Moving,
              \A e \in R : w[e] = Path(e) /\ (HasAbove(e) => parent[e] \in R),
              NEW e \in Moving, HasAbove(e) => parent[e] \in R
       PROVE  TransformUpdated(w)[e] = Path(e)
  <2>0. R \subseteq Entities /\ e \in Entities
    BY DEF Moving
  <2>1. ASSUME NEW u \in Matrices, NEW x \in Entities, HasAbove(x) => u[parent[x]] = Path(parent[x])
        PROVE  own(u, x) = Path(x)
    BY <1>15, <2>1, PathIs DEF HasAbove
  <2> HIDE DEF own
  <2> DEFINE T == {i \in 0 .. N : /\ \A x \in R : after[i][x] = Path(x)
                                  /\ (\E j \in 1 .. i : transforms[j] = e) => after[i][e] = Path(e)}
  <2>2. 0 \in T
    BY <1>0, <1>10, <1>15
  <2>3. ASSUME NEW i \in 1 .. N, i - 1 \in T PROVE i \in T
    <3>0. i - 1 \in 0 .. N /\ after[i - 1] \in Matrices
      BY <1>0, <1>14
    <3>1. after[i] = [after[i - 1] EXCEPT ![transforms[i]] = own(after[i - 1], transforms[i])]
      BY <1>10 DEF next
    <3>2. /\ \A x \in Entities : x # transforms[i] => after[i][x] = after[i - 1][x]
          /\ after[i][transforms[i]] = own(after[i - 1], transforms[i])
      BY <1>0, <3>0, <3>1 DEF Matrices
    <3>3. \A x \in R : after[i - 1][x] = Path(x)
      BY <2>3
    <3>4. ASSUME NEW x \in R PROVE after[i][x] = Path(x)
      <4>1. CASE x = transforms[i]
        <5>1. HasAbove(x) => after[i - 1][parent[x]] = Path(parent[x])
          BY <1>15, <3>3
        <5> QED
          BY <2>0, <2>1, <3>0, <3>2, <4>1, <5>1
      <4>2. CASE x # transforms[i]
        BY <2>0, <3>2, <3>3, <4>2
      <4> QED
        BY <4>1, <4>2
    <3>5. ASSUME NEW j \in 1 .. i, transforms[j] = e PROVE after[i][e] = Path(e)
      <4>1. CASE e = transforms[i]
        <5>1. HasAbove(e) => after[i - 1][parent[e]] = Path(parent[e])
          BY <1>15, <3>3
        <5> QED
          BY <2>0, <2>1, <3>0, <3>2, <4>1, <5>1
      <4>2. CASE e # transforms[i]
        <5>1. j \in 1 .. i - 1
          BY <3>5, <4>2
        <5>2. after[i - 1][e] = Path(e)
          BY <2>3, <3>5, <5>1
        <5> QED
          BY <2>0, <3>2, <4>2, <5>2
      <4> QED
        BY <4>1, <4>2
    <3> QED
      BY <3>4, <3>5
  <2>4. 0 .. N \subseteq T
    <3> HIDE DEF T
    <3> QED
      BY <1>0, <2>2, <2>3, Induction
  <2>5. N \in T
    BY <1>0, <2>4
  <2>6. \E j \in 1 .. N : transforms[j] = e
    BY DEF Moving, InTransforms, N
  <2> QED
    BY <1>5, <2>5, <2>6
<1>16. TransformUpdated(w) \in Matrices
  BY <1>0, <1>5, <1>14
<1> HIDE DEF own
<1> QED
  BY <1>15, <1>16

\* What HierarchySystem makes of the matrices w: those of the entities it comes
\* to are right, among them the roots, and everyone if every parent has a
\* transform and the lists are complete.
LEMMA HierarchyRights ==
  ASSUME GraphInv, WorldTypes, NEW w \in Matrices
  PROVE  /\ HierarchyUpdated(w) \in Matrices
         /\ NoCycle => \A e \in Entities :
               /\ HierarchyUpdated(w)[e] \in {w[e], Path(e)}
               /\ e \in Roots => HierarchyUpdated(w)[e] = Path(e)
         /\ NoCycle /\ ChildrenAreListed /\ WellFormed
               /\ (\A e \in Moving : parent[e] # NoEntity => parent[e] \in Moving)
               => \A e \in Moving : HierarchyUpdated(w)[e] = Path(e)
<1> DEFINE chain == [p \in Entities |-> Chain(p)]
           owner(u, e) == CHOOSE p \in DOMAIN u : e \in chain[p]
           below(u) == {e \in Entities : InTransforms(e) /\ \E p \in DOMAIN u : e \in chain[p]}
           next(u) == [e \in DOMAIN u \cup below(u) |->
                          IF e \in DOMAIN u THEN u[e]
                          ELSE Append(u[owner(u, e)], local[e])]
           base == [e \in Roots |-> <<local[e]>>]
           Right(u) == NoCycle => \A e \in DOMAIN u : u[e] = Path(e)
           Visits == {v \in UNION {[D -> Seq(Values)] : D \in SUBSET Moving} : Right(v)}
           step == [i \in 1 .. MaxDocs |-> [u \in Visits |-> next(u)]]
           body(u) == [i \in 0 .. MaxDocs |-> IF i = 0 THEN base ELSE next(u[i - 1])]
           visit == CHOOSE u : u = body(u)
<1>0. MaxDocs \in Nat /\ MaxDocs # 0
  BY MaxDocsAssumption
<1>1. \A u : u \in Visits <=> /\ u = [e \in DOMAIN u |-> u[e]]
                              /\ DOMAIN u \subseteq Moving
                              /\ \A e \in DOMAIN u : u[e] \in Seq(Values)
                              /\ Right(u)
  <2> HIDE DEF Right
  <2> QED
    OBVIOUS
<1> HIDE DEF Visits
<1>2. base \in Visits
  <2>1. \A e \in Roots : e \in Moving /\ local[e] \in Values /\ ~ HasAbove(e)
    BY DEF Roots, Moving, WorldTypes, HasAbove
  <2>2. \A e \in Roots : <<local[e]>> \in Seq(Values)
    BY <2>1
  <2>3. NoCycle => \A e \in Roots : <<local[e]>> = Path(e)
    BY <2>1, PathIs DEF Moving
  <2> QED
    BY <1>1, <2>1, <2>2, <2>3
<1>3. ASSUME NEW u \in Visits PROVE next(u) \in Visits
  <2>0. /\ DOMAIN u \subseteq Moving /\ Moving \subseteq Entities
        /\ \A e \in DOMAIN u : u[e] \in Seq(Values)
        /\ NoCycle => \A e \in DOMAIN u : u[e] = Path(e)
    <3>1. DOMAIN u \subseteq Moving /\ (\A e \in DOMAIN u : u[e] \in Seq(Values)) /\ Right(u)
      <4> HIDE DEF Right
      <4> QED
        BY <1>1
    <3> QED
      BY <3>1 DEF Moving
  <2>1. ASSUME NEW e \in below(u)
        PROVE  /\ e \in Moving /\ HasAbove(e) /\ parent[e] \in DOMAIN u
               /\ owner(u, e) = parent[e]
    <3>1. e \in Entities /\ InTransforms(e) /\ \E p \in DOMAIN u : e \in chain[p]
      OBVIOUS
    <3>2. owner(u, e) \in DOMAIN u /\ e \in chain[owner(u, e)]
      BY <3>1
    <3> HIDE DEF owner
    <3>3. owner(u, e) \in Entities /\ InTransforms(owner(u, e))
      BY <2>0, <3>2 DEF Moving
    <3>4. parent[e] = owner(u, e)
      BY <3>2, <3>3, ChainIsBelow
    <3> QED
      BY <3>1, <3>2, <3>3, <3>4, NoEntityApart DEF Moving, HasAbove
  <2>2. ASSUME NEW e \in DOMAIN u \cup below(u)
        PROVE  next(u)[e] \in Seq(Values) /\ (NoCycle => next(u)[e] = Path(e))
    <3>1. CASE e \in DOMAIN u
      BY <2>0, <3>1
    <3>2. CASE e \in below(u) /\ e \notin DOMAIN u
      <4>1. next(u)[e] = Append(u[parent[e]], local[e])
        BY <2>1, <3>2
      <4>2. local[e] \in Values /\ e \in Entities
        BY <2>0, <2>1, <3>2 DEF WorldTypes
      <4> HIDE DEF next, below
      <4>3. next(u)[e] \in Seq(Values)
        <5>1. u[parent[e]] \in Seq(Values)
          BY <2>0, <2>1, <3>2
        <5> QED
          BY <4>1, <4>2, <5>1
      <4>4. NoCycle => next(u)[e] = Path(e)
        BY <2>0, <2>1, <3>2, <4>1, <4>2, PathIs
      <4> QED
        BY <4>3, <4>4
    <3> QED
      BY <3>1, <3>2
  <2>3. /\ DOMAIN next(u) = DOMAIN u \cup below(u)
        /\ next(u) = [e \in DOMAIN next(u) |-> next(u)[e]]
    OBVIOUS
  <2> HIDE DEF next, below
  <2>4. DOMAIN next(u) \subseteq Moving
    BY <2>0, <2>1, <2>3
  <2> QED
    BY <1>1, <2>2, <2>3, <2>4
<1>4. step \in [1 .. MaxDocs -> [Visits -> Visits]]
  <2> HIDE DEF next
  <2> QED
    BY <1>3
<1>5. \A i \in 1 .. MaxDocs, u \in Visits : step[i][u] = next(u)
  <2> HIDE DEF next
  <2> QED
    OBVIOUS
<1>6. Visited(MaxDocs) = visit[MaxDocs]
  BY DEF Visited
<1>7. \A u : DOMAIN next(u) = DOMAIN u \cup below(u)
  OBVIOUS
<1> HIDE DEF step, next
<1>8. PICK f \in [0 .. MaxDocs -> Visits] :
         f[0] = base /\ \A i \in 1 .. MaxDocs : f[i] = step[i][f[i - 1]]
  <2> HIDE DEF base
  <2>1. \E f \in [0 .. MaxDocs -> Visits] : Recursive(f, MaxDocs, base, step)
    BY <1>0, <1>2, <1>4, Recursion
  <2> QED
    BY <2>1 DEF Recursive
<1>9. \A i \in 0 .. MaxDocs : f[i] = IF i = 0 THEN base ELSE next(f[i - 1])
  <2> SUFFICES ASSUME NEW i \in 1 .. MaxDocs PROVE f[i] = next(f[i - 1])
    BY <1>8
  <2>1. f[i - 1] \in Visits
    BY <1>0, <1>8
  <2> QED
    BY <1>5, <1>8, <2>1
<1>10. f = body(f)
  BY <1>9
<1>11. visit = body(visit)
  BY <1>10
<1> HIDE DEF visit
<1>12. visit[0] = base /\ \A i \in 1 .. MaxDocs : visit[i] = next(visit[i - 1])
  BY <1>0, <1>11
<1>13. DOMAIN base = Roots
  OBVIOUS
<1> HIDE DEF body, base
<1> DEFINE U == {i \in 0 .. MaxDocs : visit[i] \in Visits /\ Roots \subseteq DOMAIN visit[i]}
<1>14. 0 \in U
  BY <1>0, <1>2, <1>12, <1>13
<1>15. ASSUME NEW i \in 1 .. MaxDocs, i - 1 \in U PROVE i \in U
  <2>1. visit[i - 1] \in Visits /\ Roots \subseteq DOMAIN visit[i - 1]
    BY <1>15
  <2> HIDE DEF below
  <2>2. visit[i] \in Visits /\ Roots \subseteq DOMAIN visit[i]
    BY <1>3, <1>7, <1>12, <2>1
  <2> QED
    BY <2>2
<1>16. 0 .. MaxDocs \subseteq U
  <2> HIDE DEF U
  <2> QED
    BY <1>0, <1>14, <1>15, Induction
<1>17. \A i \in 0 .. MaxDocs : visit[i] \in Visits /\ Roots \subseteq DOMAIN visit[i]
  BY <1>16
<1> HIDE DEF U
<1> DEFINE all == visit[MaxDocs]
<1>18. /\ Roots \subseteq DOMAIN all /\ DOMAIN all \subseteq Entities
       /\ \A e \in DOMAIN all : all[e] \in Seq(Values)
       /\ NoCycle => \A e \in DOMAIN all : all[e] = Path(e)
  <2>1. all \in Visits /\ Roots \subseteq DOMAIN all
    BY <1>0, <1>17
  <2>2. DOMAIN all \subseteq Moving /\ (\A e \in DOMAIN all : all[e] \in Seq(Values)) /\ Right(all)
    <3> HIDE DEF Right
    <3> QED
      BY <1>1, <2>1
  <2> QED
    BY <2>1, <2>2 DEF Moving
<1>19. HierarchyUpdated(w) = [e \in Entities |-> IF e \in DOMAIN all THEN all[e] ELSE w[e]]
  BY <1>6 DEF HierarchyUpdated
<1>20. ASSUME NoCycle, ChildrenAreListed, WellFormed,
              \A e \in Moving : parent[e] # NoEntity => parent[e] \in Moving
       PROVE  Moving \subseteq DOMAIN all
  <2>0. /\ Moving \in SUBSET Entities /\ \A e \in Moving : InTransforms(e)
        /\ Cardinality(Moving) \in Nat /\ Cardinality(Moving) <= MaxDocs
    BY EntitiesFinite DEF Moving
  <2>1. PICK rank : rank \in Ranks(Moving)
    BY <1>20, <2>0, RankExists
  <2>2. /\ \A e \in Moving : rank[e] \in 0 .. MaxDocs - 1
        /\ \A e \in Moving : parent[e] \in Moving => rank[parent[e]] < rank[e]
    <3>1. rank \in [Moving -> 0 .. Cardinality(Moving) - 1]
      BY <2>1 DEF Ranks
    <3>2. \A e \in Moving : rank[e] \in 0 .. MaxDocs - 1
      BY <1>0, <2>0, <3>1
    <3> QED
      BY <2>1, <3>2 DEF Ranks
  <2> HIDE DEF below
  <2> DEFINE T == {i \in 0 .. MaxDocs : \A e \in Moving : rank[e] <= i => e \in DOMAIN visit[i]}
  <2>3. ASSUME NEW e \in Moving, e \notin Roots PROVE parent[e] \in Moving /\ e \in chain[parent[e]]
    <3>1. parent[e] \in Moving
      BY <1>20, <2>0, <2>3 DEF Roots
    <3>2. parent[e] \in Entities /\ e \in Chain(parent[e])
      BY <1>20, <2>0, <3>1 DEF ChildrenAreListed
    <3> QED
      BY <3>1, <3>2
  <2>4. 0 \in T
    <3> SUFFICES ASSUME NEW e \in Moving, rank[e] <= 0, e \notin Roots PROVE FALSE
      BY <1>0, <1>17
    <3>1. parent[e] \in Moving
      BY <2>3
    <3> QED
      BY <2>2, <3>1
  <2>5. ASSUME NEW i \in 1 .. MaxDocs, i - 1 \in T PROVE i \in T
    <3> SUFFICES ASSUME NEW e \in Moving, rank[e] <= i, e \notin Roots PROVE e \in DOMAIN visit[i]
      BY <1>17
    <3>1. parent[e] \in DOMAIN visit[i - 1]
      <4>1. parent[e] \in Moving
        BY <2>3
      <4>2. rank[parent[e]] \in Nat /\ rank[e] \in Nat /\ rank[parent[e]] < rank[e]
        BY <2>2, <4>1
      <4>3. rank[parent[e]] <= i - 1
        BY <4>2
      <4> QED
        BY <2>5, <4>1, <4>3
    <3>2. e \in below(visit[i - 1])
      BY <2>0, <2>3, <3>1 DEF below
    <3> QED
      BY <1>7, <1>12, <3>2
  <2>6. 0 .. MaxDocs \subseteq T
    <3> HIDE DEF T
    <3> QED
      BY <1>0, <2>4, <2>5, Induction
  <2>7. MaxDocs \in T
    BY <1>0, <2>6
  <2> QED
    BY <1>0, <2>2, <2>7
<1> HIDE DEF all
<1> QED
  BY <1>18, <1>19, <1>20 DEF Matrices, Moving, Roots

-----------------------------------------------------------------------------
(***************************************************************************)
(* The invariant of the world matrices                                     *)
(***************************************************************************)

\* The counters stay within their bounds, and nothing is still before it runs.
Counts ==
    /\ at <= Len(docs) + 1
    /\ source \in [Entities -> 0 .. MaxDocs]
    /\ moves \in 0 .. MaxMoves
    /\ still \in 0 .. MaxDocs
    /\ phase # "run" => still = 0

\* Guids are those of documents; a document's entity has the transform that
\* the document gives it, and a parent is one that some document names.
Named ==
    /\ \A g \in DOMAIN entityOf : \E j \in DOMAIN docs : docs[j].guid = g
    /\ WellFormed => \A i \in DOMAIN docs :
           /\ phase # "make" /\ (phase = "components" => i < at)
           /\ docs[i].transform /\ Known(docs[i].guid)
           => InTransforms(entityOf[docs[i].guid])
    /\ WellFormed => \A e \in Entities : parent[e] # NoEntity =>
           \E i, j \in DOMAIN docs :
               /\ docs[i].parent = docs[j].guid
               /\ Known(docs[j].guid) /\ entityOf[docs[j].guid] = parent[e]

\* Where every entity has a transform the first frame is right from the roots on.
Slack == IF Moving = Entities THEN 1 ELSE 0

\* Every frame without a move makes the matrices one link further down right.
Settling ==
    NoCycle /\ still > 0 =>
        \A rank \in Ranks(Moving) : \A e \in Moving :
            rank[e] < still + Slack => world[e] = Path(e)

WorldInv ==
    /\ WorldTypes
    /\ Counts
    /\ Named
    /\ WorldIsPath
    /\ Settling

\* In a well-formed scene a parent has a transform.
LEMMA RunParents ==
  ASSUME GraphInv, Named, WorldTypes, phase = "run", WellFormed,
         NEW e \in Entities, parent[e] # NoEntity
  PROVE  parent[e] \in Moving
<1>1. PICK i, j \in DOMAIN docs :
         /\ docs[i].parent = docs[j].guid
         /\ Known(docs[j].guid) /\ entityOf[docs[j].guid] = parent[e]
  BY DEF Named
<1>2. docs[j].transform
  BY <1>1 DEF WellFormed
<1>3. InTransforms(parent[e])
  BY <1>1, <1>2 DEF Named
<1> QED
  BY <1>3 DEF Moving, WorldTypes

LEMMA SettlesEnough == GraphInv /\ WorldInv => WorldSettles
<1> SUFFICES ASSUME GraphInv, WorldInv, still > 0, still >= MaxDocs - 1, NoCycle,
                    NEW e \in Entities, InTransforms(e)
             PROVE  world[e] = Path(e)
  BY DEF WorldSettles, AllOnPath
<1>1. e \in Moving /\ Moving \in SUBSET Entities
  BY DEF Moving
<1>2. PICK rank : rank \in Ranks(Moving)
  BY <1>1, RankExists
<1>3. rank \in [Moving -> 0 .. Cardinality(Moving) - 1]
  BY <1>2 DEF Ranks
<1>4. /\ Cardinality(Moving) \in Nat /\ Cardinality(Moving) <= MaxDocs
      /\ Moving # Entities => Cardinality(Moving) < MaxDocs
  BY <1>1, EntitiesFinite
<1>5. rank[e] < still + Slack
  <2>1. rank[e] \in 0 .. Cardinality(Moving) - 1
    BY <1>1, <1>3
  <2>2. still \in Nat /\ MaxDocs \in Nat
    BY MaxDocsAssumption DEF WorldInv, Counts
  <2>3. CASE Moving = Entities
    BY <1>4, <2>1, <2>2, <2>3 DEF Slack
  <2>4. CASE Moving # Entities
    BY <1>4, <2>1, <2>2, <2>4 DEF Slack
  <2> QED
    BY <2>3, <2>4
<1> QED
  BY <1>1, <1>2, <1>5 DEF WorldInv, Settling

LEMMA SceneTypes == GraphInv /\ WorldInv => TypeOK
<1> SUFFICES ASSUME GraphInv, WorldInv PROVE TypeOK
  OBVIOUS
<1>1. docs \in Seq(Docs) /\ Len(docs) <= MaxDocs /\ Len(docs) \in Nat
  BY ScenesAssumption DEF GraphInv, Types
<1>2. at \in 1 .. MaxDocs + 1
  BY <1>1, MaxDocsAssumption DEF GraphInv, Types, WorldInv, Counts
<1>3. DOMAIN children \cup unlinked \subseteq Entities \cup {NoEntity}
  <2> SUFFICES ASSUME NEW q \in DOMAIN children PROVE q \in Entities \cup {NoEntity}
    BY DEF GraphInv, Types
  <2>1. children[q] \in Seq(Entities) /\ Len(children[q]) >= 1
    BY DEF GraphInv, Types, Listed
  <2>2. 1 \in 1 .. Len(children[q]) /\ children[q][1] \in Entities
    BY <2>1
  <2>3. parent[children[q][1]] = q
    BY <2>2 DEF GraphInv, Listed
  <2> QED
    BY <2>2, <2>3 DEF GraphInv, Types
<1> QED
  BY <1>1, <1>2, <1>3 DEF TypeOK, GraphInv, Types, WorldInv, WorldTypes, Counts, Matrices, Values

-----------------------------------------------------------------------------
(***************************************************************************)
(* The steps of the world matrices                                         *)
(***************************************************************************)

LEMMA InitWorld == Init => WorldInv
<1> SUFFICES ASSUME Init PROVE WorldInv
  OBVIOUS
<1>1. MaxDocs \in Nat /\ MaxMoves \in Nat
  BY MaxDocsAssumption, MaxMovesAssumption
<1>2. WorldTypes
  BY <1>1 DEF Init, WorldTypes, Matrices, Values
<1>3. Counts
  <2>1. Len(docs) \in Nat
    BY InitGraph, DocsAre DEF GraphInv
  <2> QED
    BY <1>1, <2>1 DEF Init, Counts
<1>4. Named
  BY NoEntityApart DEF Init, Named
<1>5. WorldIsPath /\ Settling
  BY DEF Init, WorldIsPath, Settling
<1> QED
  BY <1>2, <1>3, <1>4, <1>5 DEF WorldInv

LEMMA MakeEntityWorld ==
  ASSUME GraphInv, WorldInv, MakeEntity
  PROVE  WorldInv'
<1>0. /\ phase = "make" /\ phase' = phase /\ at' = at + 1 /\ at <= Len(docs)
      /\ UNCHANGED <<docs, source, parent, transforms, local, world, moves, still>>
  BY DEF MakeEntity, InPass, linkVars, valueVars
<1>1. at \in DOMAIN docs /\ Len(docs) \in Nat /\ at \in Nat
  BY <1>0, DocsAre DEF GraphInv, Types
<1>2. WorldTypes' /\ Counts'
  BY <1>0, <1>1 DEF WorldInv, WorldTypes, Matrices, Counts
<1>3. still' = 0
  BY <1>0 DEF WorldInv, Counts
<1>4. WellFormed' <=> WellFormed
  BY <1>0 DEF WellFormed
<1>5. /\ DOMAIN entityOf' \subseteq DOMAIN entityOf \cup {docs[at].guid}
      /\ \A g \in DOMAIN entityOf : g \in DOMAIN entityOf' /\ entityOf'[g] = entityOf[g]
  BY DEF MakeEntity, With, Known
<1>6. Named'
  BY <1>0, <1>1, <1>4, <1>5 DEF WorldInv, Named, Known
<1>7. (WorldIsPath /\ Settling)'
  BY <1>3 DEF WorldIsPath, Settling
<1> QED
  BY <1>2, <1>6, <1>7 DEF WorldInv

LEMMA NextPassWorld ==
  ASSUME GraphInv, WorldInv,
         \/ NextPass("make", "components") \/ NextPass("components", "parents")
         \/ NextPass("parents", "children") \/ NextPass("children", "siblings")
  PROVE  WorldInv'
<1>0. /\ phase # "run" /\ phase' # "run" /\ at' = 1
      /\ phase' # "make" /\ (phase = "make" => phase' = "components")
      /\ (phase = "components" => at > Len(docs)) /\ (phase' = "components" => phase = "make")
      /\ UNCHANGED <<docs, entityOf, source, parent, transforms, local, world, moves, still>>
  BY DEF NextPass, loadVars, linkVars, valueVars
<1>1. Len(docs) \in Nat /\ DOMAIN docs = 1 .. Len(docs) /\ at \in Nat
  BY DocsAre DEF GraphInv, Types
<1>2. WorldTypes' /\ Counts'
  BY <1>0, <1>1 DEF WorldInv, WorldTypes, Matrices, Counts
<1>3. still' = 0
  BY <1>0 DEF WorldInv, Counts
<1>4. WellFormed' <=> WellFormed
  BY <1>0 DEF WellFormed
<1>5. Named'
  <2>1. ASSUME WellFormed, NEW i \in DOMAIN docs, phase' = "components" => i < 1,
               docs[i].transform, Known(docs[i].guid)
        PROVE  InTransforms(entityOf[docs[i].guid])
    <3>1. phase # "make" /\ (phase = "components" => i < at)
      BY <1>0, <1>1, <2>1
    <3> QED
      BY <2>1, <3>1 DEF WorldInv, Named
  <2> QED
    BY <1>0, <1>4, <2>1 DEF WorldInv, Named, Known, InTransforms
<1>6. (WorldIsPath /\ Settling)'
  BY <1>3 DEF WorldIsPath, Settling
<1> QED
  BY <1>2, <1>5, <1>6 DEF WorldInv

LEMMA AttachComponentsWorld ==
  ASSUME GraphInv, WorldInv, AttachComponents
  PROVE  WorldInv'
<1>0. /\ phase = "components" /\ phase' = phase /\ at' = at + 1 /\ at <= Len(docs)
      /\ UNCHANGED <<docs, entityOf, parent, moves, still>>
  BY DEF AttachComponents, InPass, linkVars
<1>1. /\ at \in DOMAIN docs /\ Len(docs) \in Nat /\ Len(docs) <= MaxDocs
      /\ at \in Nat \ {0} /\ DOMAIN docs = 1 .. Len(docs)
  BY <1>0, DocsAre DEF GraphInv, Types
<1>2. PICK e : e = entityOf[docs[at].guid]
  OBVIOUS
<1>3. Known(docs[at].guid) => e \in Entities
  BY <1>2 DEF GraphInv, Types, Known
<1>4. at \in Values /\ at \in 0 .. MaxDocs /\ <<at>> \in Seq(Values)
  BY <1>0, <1>1, MaxDocsAssumption, MaxMovesAssumption DEF Values
<1>5. still' = 0
  BY <1>0 DEF WorldInv, Counts
<1>6. WellFormed' <=> WellFormed
  BY <1>0 DEF WellFormed
<1>7. /\ transforms \in Seq(Entities)
      /\ Len(transforms) \in Nat
  BY DEF WorldInv, WorldTypes
<1>8. CASE Known(docs[at].guid)
  <2>1. /\ source' = [source EXCEPT ![e] = at]
        /\ docs[at].transform =>
              /\ transforms' = IF InTransforms(e) THEN transforms ELSE Append(transforms, e)
              /\ local' = [local EXCEPT ![e] = at]
              /\ world' = [world EXCEPT ![e] = <<at>>]
        /\ ~ docs[at].transform => UNCHANGED <<transforms, local, world>>
    BY <1>2, <1>8 DEF AttachComponents
  <2>2. WorldTypes'
    <3>1. CASE docs[at].transform
      <4>1. transforms' \in Seq(Entities)
        <5>1. transforms' = transforms \/ transforms' = Append(transforms, e)
          BY <2>1, <3>1
        <5>2. Append(transforms, e) \in Seq(Entities)
          BY <1>3, <1>7, <1>8
        <5> QED
          BY <1>7, <5>1, <5>2
      <4>2. local' \in [Entities -> Values]
        BY <1>4, <2>1, <3>1 DEF WorldInv, WorldTypes
      <4>3. world' \in Matrices
        BY <1>4, <2>1, <3>1 DEF WorldInv, WorldTypes, Matrices
      <4> QED
        BY <1>0, <4>1, <4>2, <4>3 DEF WorldInv, WorldTypes, Matrices
    <3>2. CASE ~ docs[at].transform
      BY <1>0, <2>1, <3>2 DEF WorldInv, WorldTypes, Matrices
    <3> QED
      BY <3>1, <3>2
  <2>3. Counts'
    BY <1>0, <1>1, <1>3, <1>4, <1>8, <2>1 DEF WorldInv, Counts
  <2>4. \A x : InTransforms(x) => InTransforms(x)'
    <3> SUFFICES ASSUME docs[at].transform, ~ InTransforms(e) PROVE \A x : InTransforms(x) => InTransforms(x)'
      BY <2>1 DEF InTransforms
    <3> QED
      BY <1>3, <1>7, <1>8, <2>1 DEF InTransforms
  <2>5. docs[at].transform => InTransforms(e)'
    <3> SUFFICES ASSUME docs[at].transform, ~ InTransforms(e) PROVE InTransforms(e)'
      BY <2>4
    <3>1. transforms' = Append(transforms, e)
      BY <2>1
    <3>2. Len(transforms) + 1 \in 1 .. Len(transforms') /\ transforms'[Len(transforms) + 1] = e
      BY <1>3, <1>7, <1>8, <3>1
    <3> QED
      BY <3>2 DEF InTransforms
  <2>6. ASSUME WellFormed, NEW i \in DOMAIN docs, i < at + 1,
               docs[i].transform, Known(docs[i].guid)
        PROVE  InTransforms(entityOf[docs[i].guid])'
    <3>1. CASE i = at
      BY <1>0, <1>2, <2>5, <2>6, <3>1 DEF InTransforms
    <3>2. CASE i < at
      BY <1>0, <2>4, <2>6, <3>2 DEF WorldInv, Named, InTransforms
    <3> QED
      BY <1>1, <2>6, <3>1, <3>2
  <2>7. Named'
    BY <1>0, <1>6, <2>6 DEF WorldInv, Named, Known, InTransforms
  <2> QED
    BY <1>5, <2>2, <2>3, <2>7 DEF WorldInv, WorldIsPath, Settling
<1>9. CASE ~ Known(docs[at].guid)
  <2>1. UNCHANGED <<source, transforms, local, world>>
    BY <1>9 DEF AttachComponents
  <2>2. WorldTypes' /\ Counts'
    BY <1>0, <1>1, <2>1 DEF WorldInv, WorldTypes, Matrices, Counts
  <2>3. \A i \in DOMAIN docs : i < at + 1 => i < at \/ i = at
    BY <1>1
  <2>4. Named'
    BY <1>0, <1>6, <1>9, <2>1, <2>3 DEF WorldInv, Named, Known, InTransforms
  <2> QED
    BY <1>5, <2>2, <2>4 DEF WorldInv, WorldIsPath, Settling
<1> QED
  BY <1>8, <1>9

LEMMA LinkParentWorld ==
  ASSUME GraphInv, WorldInv, LinkParent
  PROVE  WorldInv'
<1>0. /\ phase = "parents" /\ phase' = phase /\ at' = at + 1 /\ at <= Len(docs)
      /\ UNCHANGED <<docs, entityOf, source, transforms, local, world, moves, still>>
  BY DEF LinkParent, InPass, loadVars, valueVars
<1>1. at \in DOMAIN docs /\ Len(docs) \in Nat /\ at \in Nat \ {0}
  BY <1>0, DocsAre DEF GraphInv, Types
<1>2. GraphInv'
  BY LinkParentGraph
<1>3. WorldTypes' /\ Counts'
  BY <1>0, <1>1, <1>2 DEF WorldInv, WorldTypes, Matrices, Counts, GraphInv, Types
<1>4. still' = 0
  BY <1>0 DEF WorldInv, Counts
<1>5. WellFormed' <=> WellFormed
  BY <1>0 DEF WellFormed
<1>6. ASSUME NEW x \in Entities, parent'[x] # NoEntity, parent'[x] # parent[x]
      PROVE  Known(docs[at].parent) /\ parent'[x] = entityOf[docs[at].parent]
  <2>1. Known(docs[at].guid)
    BY <1>6 DEF LinkParent, linkVars
  <2>2. PICK e : e = entityOf[docs[at].guid]
    OBVIOUS
  <2>3. parent' = [parent EXCEPT ![e] = IF Known(docs[at].parent)
                                        THEN entityOf[docs[at].parent] ELSE NoEntity]
    BY <2>1, <2>2 DEF LinkParent
  <2> QED
    BY <1>6, <2>3 DEF WorldInv, WorldTypes
<1>7. ASSUME WellFormed, NEW x \in Entities, parent'[x] # NoEntity
      PROVE  \E i, j \in DOMAIN docs :
               /\ docs[i].parent = docs[j].guid
               /\ Known(docs[j].guid) /\ entityOf[docs[j].guid] = parent'[x]
  <2>1. CASE parent'[x] = parent[x]
    BY <1>7, <2>1 DEF WorldInv, Named
  <2>2. CASE parent'[x] # parent[x]
    <3>1. Known(docs[at].parent) /\ parent'[x] = entityOf[docs[at].parent]
      BY <1>6, <1>7, <2>2
    <3>2. PICK j \in DOMAIN docs : docs[j].guid = docs[at].parent
      BY <3>1 DEF WorldInv, Named, Known
    <3> QED
      BY <1>1, <3>1, <3>2
  <2> QED
    BY <2>1, <2>2
<1>8. Named'
  BY <1>0, <1>5, <1>7 DEF WorldInv, Named, Known, InTransforms
<1> QED
  BY <1>3, <1>4, <1>8 DEF WorldInv, WorldIsPath, Settling

LEMMA ListChildWorld ==
  ASSUME GraphInv, WorldInv, ListChild
  PROVE  WorldInv'
<1>0. /\ phase = "children" /\ phase' = phase /\ at' = at + 1 /\ at <= Len(docs)
      /\ UNCHANGED <<docs, source, parent, transforms, local, world, moves, still>>
  BY DEF ListChild, InPass, linkVars, valueVars
<1>1. at \in DOMAIN docs /\ Len(docs) \in Nat /\ at \in Nat \ {0}
  BY <1>0, DocsAre DEF GraphInv, Types
<1>2. WorldTypes' /\ Counts'
  BY <1>0, <1>1 DEF WorldInv, WorldTypes, Matrices, Counts
<1>3. still' = 0
  BY <1>0 DEF WorldInv, Counts
<1>4. WellFormed' <=> WellFormed
  BY <1>0 DEF WellFormed
<1>5. PICK guid, child : /\ guid = docs[at].guid
                         /\ child = IF Known(guid) THEN entityOf[guid] ELSE 0
  OBVIOUS
<1>6. /\ DOMAIN entityOf' = DOMAIN entityOf \cup {guid}
      /\ entityOf'[guid] = child
      /\ \A g \in DOMAIN entityOf : entityOf'[g] = entityOf[g]
  BY <1>5 DEF ListChild, With, Known
<1>7. WellFormed => DOMAIN entityOf' = DOMAIN entityOf
  BY <1>0, <1>1, <1>5, <1>6 DEF GraphInv, Numbered, Known
<1>8. Named'
  <2>1. \A g \in DOMAIN entityOf' : \E j \in DOMAIN docs : docs[j].guid = g
    BY <1>1, <1>5, <1>6 DEF WorldInv, Named
  <2> QED
    BY <1>0, <1>4, <1>6, <1>7, <2>1 DEF WorldInv, Named, Known, InTransforms
<1> QED
  BY <1>2, <1>3, <1>8 DEF WorldInv, WorldIsPath, Settling

\* A step that leaves what the names stand for alone.
LEMMA QuietNames ==
  ASSUME Named, phase # "make", phase # "components", phase' # "make", phase' # "components",
         UNCHANGED <<docs, entityOf, parent, transforms>>
  PROVE  Named'
<1>1. WellFormed' <=> WellFormed
  BY DEF WellFormed
<1> QED
  BY <1>1 DEF Named, Known, InTransforms

LEMMA LinkSiblingsWorld ==
  ASSUME GraphInv, WorldInv, NEW p \in Entities \cup {NoEntity}, LinkSiblings(p)
  PROVE  WorldInv'
<1>0. /\ phase = "siblings" /\ phase' = phase
      /\ UNCHANGED <<docs, entityOf, at, source, parent, transforms, local, world, moves, still>>
  BY DEF LinkSiblings, valueVars
<1>1. WorldTypes' /\ Counts'
  BY <1>0 DEF WorldInv, WorldTypes, Matrices, Counts
<1>2. Named'
  BY <1>0, QuietNames DEF WorldInv
<1>3. still' = 0
  BY <1>0 DEF WorldInv, Counts
<1> QED
  BY <1>1, <1>2, <1>3 DEF WorldInv, WorldIsPath, Settling

LEMMA AttachWorld ==
  ASSUME GraphInv, WorldInv, Attach
  PROVE  WorldInv'
<1>0. /\ phase = "siblings" /\ phase' = "run" /\ world' = TransformUpdated(world)
      /\ UNCHANGED <<docs, entityOf, at, source, parent, transforms, local, moves, still>>
  BY DEF Attach, loadVars, linkVars
<1>1. world' \in Matrices
  BY <1>0, TransformKeeps DEF WorldInv, WorldTypes
<1>2. WorldTypes' /\ Counts'
  BY <1>0, <1>1 DEF WorldInv, WorldTypes, Matrices, Counts
<1>3. Named'
  BY <1>0, QuietNames DEF WorldInv
<1>4. still' = 0
  BY <1>0 DEF WorldInv, Counts
<1> QED
  BY <1>2, <1>3, <1>4 DEF WorldInv, WorldIsPath, Settling

LEMMA MoveWorld ==
  ASSUME GraphInv, WorldInv, NEW e \in Entities, Move(e)
  PROVE  WorldInv'
<1>0. /\ phase = "run" /\ phase' = phase /\ moves < MaxMoves /\ moves' = moves + 1 /\ still' = 0
      /\ local' = [local EXCEPT ![e] = MaxDocs + moves + 1]
      /\ UNCHANGED <<docs, entityOf, at, source, parent, transforms, world>>
  BY DEF Move, loadVars, linkVars
<1>1. MaxDocs + moves + 1 \in Values /\ moves + 1 \in 0 .. MaxMoves /\ 0 \in 0 .. MaxDocs
  BY <1>0, MaxDocsAssumption, MaxMovesAssumption DEF WorldInv, Counts, Values
<1>2. WorldTypes' /\ Counts'
  BY <1>0, <1>1 DEF WorldInv, WorldTypes, Matrices, Counts
<1>3. Named'
  BY <1>0, QuietNames DEF WorldInv
<1> QED
  BY <1>0, <1>2, <1>3 DEF WorldInv, WorldIsPath, Settling

LEMMA FrameWorld ==
  ASSUME GraphInv, WorldInv, Frame
  PROVE  WorldInv'
<1> DEFINE h == HierarchyUpdated(world)
<1>0. /\ phase = "run" /\ phase' = phase
      /\ world' = TransformUpdated(h)
      /\ still' = IF still < MaxDocs THEN still + 1 ELSE still
      /\ UNCHANGED <<docs, entityOf, at, source, parent, transforms, local, moves>>
  BY DEF Frame, loadVars, linkVars
<1>1. /\ WorldTypes /\ Named /\ Counts /\ world \in Matrices
      /\ still \in 0 .. MaxDocs /\ MaxDocs \in Nat /\ MaxDocs # 0
  BY MaxDocsAssumption DEF WorldInv, WorldTypes, Counts
<1>2. h \in Matrices
  BY <1>1, HierarchyRights
<1>3. /\ NoCycle => \A e \in Entities :
            h[e] \in {world[e], Path(e)} /\ (e \in Roots => h[e] = Path(e))
      /\ NoCycle /\ WellFormed => \A e \in Moving : h[e] = Path(e)
  <2>1. ChildrenAreListed
    BY <1>0, ListsComplete
  <2>2. WellFormed => \A e \in Moving : parent[e] # NoEntity => parent[e] \in Moving
    BY <1>0, <1>1, RunParents DEF Moving
  <2> QED
    BY <1>1, <2>1, <2>2, HierarchyRights
<1> HIDE DEF h
<1>4. /\ world' \in Matrices
      /\ NoCycle => \A R \in SUBSET Moving :
            (\A e \in R : h[e] = Path(e) /\ (HasAbove(e) => parent[e] \in R))
               => \A e \in Moving : (HasAbove(e) => parent[e] \in R) => world'[e] = Path(e)
  BY <1>0, <1>1, <1>2, TransformKeeps
<1>5. WorldTypes' /\ Counts'
  BY <1>0, <1>1, <1>4 DEF WorldTypes, Matrices, Counts
<1>6. Named'
  BY <1>0, <1>1, QuietNames
<1>7. /\ WellFormed' <=> WellFormed
      /\ NoCycle' <=> NoCycle
      /\ Moving' = Moving /\ Slack' = Slack /\ Ranks(Moving)' = Ranks(Moving)
      /\ \A e \in Entities : InTransforms(e)' = InTransforms(e)
  BY <1>0 DEF WellFormed, NoCycle, Moving, Slack, Ranks, InTransforms
<1>8. \A e \in Entities : Path(e)' = Path(e)
  BY <1>0 DEF Path, InTransforms
<1>9. \A e \in Moving : e \in Entities /\ (HasAbove(e) => parent[e] \in Moving)
  BY <1>1, AboveIs DEF Moving
<1>10. ASSUME WellFormed, NoCycle, NEW e \in Moving PROVE world'[e] = Path(e)
  <2>1. \A x \in Moving : h[x] = Path(x) /\ (HasAbove(x) => parent[x] \in Moving)
    BY <1>3, <1>9, <1>10
  <2> QED
    BY <1>4, <1>9, <1>10, <2>1
<1>11. WorldIsPath'
  <2>1. \A e \in Entities : WellFormed /\ NoCycle /\ InTransforms(e) => world'[e] = Path(e)
    BY <1>10 DEF Moving
  <2> QED
    BY <1>7, <1>8, <2>1 DEF WorldIsPath, AllOnPath
<1>12. ASSUME NoCycle, NEW rank \in Ranks(Moving), NEW e \in Moving, rank[e] < still' + Slack
       PROVE  world'[e] = Path(e)
  <2>1. /\ rank \in [Moving -> 0 .. Cardinality(Moving) - 1]
        /\ \A x \in Moving : parent[x] \in Moving => rank[parent[x]] < rank[x]
    BY <1>12 DEF Ranks
  <2>2. Cardinality(Moving) \in Nat
    BY EntitiesFinite DEF Moving
  <2>3. \A x \in Moving : rank[x] \in Nat
    BY <2>1, <2>2
  <2>4. Slack \in {0, 1} /\ still \in Nat /\ still' \in Nat /\ still' <= still + 1
    BY <1>0, <1>1 DEF Slack
  <2> DEFINE R == {x \in Moving : rank[x] < still + Slack}
  <2>5. ASSUME NEW x \in R PROVE h[x] = Path(x)
    <3>1. CASE still = 0
      <4>1. Moving = Entities /\ rank[x] = 0
        BY <2>3, <2>4, <2>5, <3>1 DEF Slack
      <4>2. parent[x] = NoEntity
        BY <1>1, <2>1, <2>3, <2>5, <4>1 DEF WorldTypes
      <4>3. x \in Roots
        BY <2>5, <4>2 DEF Roots, Moving
      <4> QED
        BY <1>3, <1>12, <1>9, <4>3
    <3>2. CASE still # 0
      <4>1. world[x] = Path(x)
        BY <1>12, <2>4, <2>5, <3>2 DEF WorldInv, Settling
      <4> QED
        BY <1>3, <1>9, <1>12, <2>5, <4>1
    <3> QED
      BY <3>1, <3>2
  <2>6. \A x \in R : HasAbove(x) => parent[x] \in R
    <3> SUFFICES ASSUME NEW x \in R, HasAbove(x) PROVE parent[x] \in R
      OBVIOUS
    <3>1. parent[x] \in Moving
      BY <1>9
    <3>2. rank[parent[x]] < rank[x]
      BY <2>1, <3>1
    <3> QED
      BY <2>3, <2>4, <3>1, <3>2
  <2>7. HasAbove(e) => parent[e] \in R
    <3> SUFFICES ASSUME HasAbove(e) PROVE parent[e] \in R
      OBVIOUS
    <3>1. parent[e] \in Moving
      BY <1>9
    <3>2. rank[parent[e]] < rank[e]
      BY <2>1, <3>1
    <3> QED
      BY <1>12, <2>3, <2>4, <3>1, <3>2
  <2>8. R \in SUBSET Moving
    OBVIOUS
  <2> HIDE DEF R
  <2> QED
    BY <1>4, <1>12, <2>5, <2>6, <2>7, <2>8
<1>13. Settling'
  BY <1>7, <1>8, <1>9, <1>12 DEF Settling
<1> QED
  BY <1>5, <1>6, <1>11, <1>13 DEF WorldInv

LEMMA NextWorld == GraphInv /\ WorldInv /\ [Next]_vars => WorldInv'
<1> SUFFICES ASSUME GraphInv, WorldInv, [Next]_vars PROVE WorldInv'
  OBVIOUS
<1>1. CASE UNCHANGED vars
  <2>1. UNCHANGED <<docs, phase, at, entityOf, source, transforms, parent, local, world, moves, still>>
    BY <1>1 DEF vars, loadVars, linkVars, valueVars
  <2>2. /\ WellFormed' <=> WellFormed
        /\ NoCycle' <=> NoCycle
        /\ Moving' = Moving /\ Slack' = Slack /\ Ranks(Moving)' = Ranks(Moving)
        /\ \A e \in Entities : InTransforms(e)' = InTransforms(e)
    BY <2>1 DEF WellFormed, NoCycle, Moving, Slack, Ranks, InTransforms
  <2>3. \A e \in Entities : Path(e)' = Path(e)
    BY <2>1 DEF Path, InTransforms
  <2>4. WorldTypes' /\ Counts'
    BY <2>1 DEF WorldInv, WorldTypes, Counts, Matrices
  <2>5. Named'
    BY <2>1, <2>2 DEF WorldInv, Named, Known, InTransforms
  <2>6. WorldIsPath'
    BY <2>1, <2>2, <2>3 DEF WorldInv, WorldIsPath, AllOnPath
  <2>7. Settling'
    BY <2>1, <2>2, <2>3 DEF WorldInv, Settling, Moving
  <2> QED
    BY <2>4, <2>5, <2>6, <2>7 DEF WorldInv
<1>2. CASE MakeEntity
  BY <1>2, MakeEntityWorld
<1>3. CASE \/ NextPass("make", "components")
           \/ NextPass("components", "parents")
           \/ NextPass("parents", "children")
           \/ NextPass("children", "siblings")
  BY <1>3, NextPassWorld
<1>4. CASE AttachComponents
  BY <1>4, AttachComponentsWorld
<1>5. CASE LinkParent
  BY <1>5, LinkParentWorld
<1>6. CASE ListChild
  BY <1>6, ListChildWorld
<1>7. CASE \E p \in Entities \cup {NoEntity} : LinkSiblings(p)
  BY <1>7, LinkSiblingsWorld
<1>8. CASE Attach
  BY <1>8, AttachWorld
<1>9. CASE \E e \in Entities : Move(e)
  BY <1>9, MoveWorld
<1>10. CASE Frame
  BY <1>10, FrameWorld
<1> QED
  BY <1>1, <1>2, <1>3, <1>4, <1>5, <1>6, <1>7, <1>8, <1>9, <1>10 DEF Next, Load

-----------------------------------------------------------------------------
(***************************************************************************)
(* The theorems                                                            *)
(***************************************************************************)

\* In every step of the loader the lists hold children of one parent each, and
\* links lead along them.
THEOREM GraphInvariant == Spec => []GraphInv
  BY InitGraph, NextGraph, PTL DEF Spec

\* Whatever the documents of a scene are, its child lists end once it is
\* loaded, so that the loop of HierarchySystem does; and if the documents are
\* well formed, it comes to exactly the children of every entity.
THEOREM SceneChildListsRight == Spec => []ChildListsRight
<1>1. GraphInv => ChildListsRight
  BY ListsEnd, ListsComplete DEF ChildListsRight
<1> QED
  BY <1>1, GraphInvariant, PTL

\* The matrices have their types in every step, and what was right before the
\* last move is right as far down as the frames since have brought it.
THEOREM WorldInvariant == Spec => []WorldInv
  BY InitWorld, NextWorld, GraphInvariant, PTL DEF Spec

\* Every variable of the loader and of the systems keeps its type, whatever the
\* documents say: no entity is made beyond MaxDocs.
THEOREM SceneTypeCorrect == Spec => []TypeOK
  BY SceneTypes, GraphInvariant, WorldInvariant, PTL

\* After every frame of a well-formed scene every world matrix is the one that
\* the graph defines, whatever the order of the documents and of the rack.
THEOREM SceneWorldIsPath == Spec => []WorldIsPath
<1>1. WorldInv => WorldIsPath
  BY DEF WorldInv
<1> QED
  BY <1>1, WorldInvariant, PTL

\* Whatever the documents of a scene are, its matrices are right MaxDocs - 1
\* frames after the last move, if no entity is its own ancestor.
THEOREM SceneWorldSettles == Spec => []WorldSettles
  BY SettlesEnough, GraphInvariant, WorldInvariant, PTL
=============================================================================
