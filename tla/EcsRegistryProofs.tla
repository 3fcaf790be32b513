-------------------------- MODULE EcsRegistryProofs --------------------------
(***************************************************************************)
(* Proofs about module EcsRegistry, for any entities, components, values.  *)
(*                                                                         *)
(* RacksAgree is not inductive alone: a removal needs that no two slots of *)
(* a rack hold the same entity, which RacksAgree says, and that the vaults *)
(* are sequences; NoGhosts needs NumbersAgree, since a number is handed    *)
(* out again without a look at the racks.  RegistryInv joins the three.    *)
(***************************************************************************)
EXTENDS EcsRegistry, FiniteSetTheorems, TLAPS

\* Removing one value makes a dense vault one shorter: the last value stands
\* in the slot given up, every other one stays.
LEMMA RemovedIsShorter ==
    ASSUME NEW S, NEW dense \in Seq(S), NEW slot \in 1 .. Len(dense)
    PROVE  /\ Removed(dense, slot) \in Seq(S)
           /\ Len(Removed(dense, slot)) = Len(dense) - 1
           /\ \A s \in 1 .. Len(dense) - 1 :
                 Removed(dense, slot)[s]
                     = IF s = slot THEN dense[Len(dense)] ELSE dense[s]
  <1>1. Len(dense) \in Nat /\ Len(dense) - 1 \in Nat
    OBVIOUS
  <1>2. \A s \in 1 .. Len(dense) : dense[s] \in S
    OBVIOUS
  <1>3. Removed(dense, slot) \in [1 .. Len(dense) - 1 -> S]
    BY <1>1, <1>2 DEF Removed
  <1> QED
    BY <1>1, <1>3 DEF Removed

\* What one rack looks like after the entity is taken out of it.
Erased(c, e) ==
    /\ denseValues'[c] = Removed(denseValues[c], sparse[c][e])
    /\ denseEntities'[c] = Removed(denseEntities[c], sparse[c][e])
    /\ sparse'[c] = Unlinked(c, e)

\* Taking one entity out of a rack keeps its three vaults in agreement, and
\* takes the component from that entity alone.
LEMMA ErasedRackAgrees ==
    ASSUME TypeOK, NEW c \in Components, RackAgrees(c),
           NEW e \in Entities, Has(c, e), Erased(c, e)
    PROVE  /\ denseEntities'[c] \in Seq(Entities)
           /\ denseValues'[c] \in Seq(Values)
           /\ sparse'[c] \in [Entities -> Nat]
           /\ RackAgrees(c)'
           /\ \A x \in Entities : Has(c, x)' <=> Has(c, x) /\ x # e
  <1> DEFINE n == Len(denseEntities[c])
             slot == sparse[c][e]
             last == denseEntities[c][n]
  <1>1. /\ denseEntities[c] \in Seq(Entities)
        /\ denseValues[c] \in Seq(Values)
        /\ sparse[c] \in [Entities -> Nat]
        /\ n \in Nat
        /\ Len(denseValues[c]) = n
        /\ \A s \in 1 .. n : denseEntities[c][s] \in Entities
    BY DEF TypeOK, RackAgrees
  <1>2. slot \in 1 .. n /\ denseEntities[c][slot] = e
    BY DEF RackAgrees, Has
  <1>3. /\ denseEntities'[c] \in Seq(Entities)
        /\ Len(denseEntities'[c]) = n - 1
        /\ \A s \in 1 .. n - 1 :
              denseEntities'[c][s] = IF s = slot THEN last ELSE denseEntities[c][s]
    <2>1. denseEntities'[c] = Removed(denseEntities[c], slot)
      BY DEF Erased
    <2>2. denseEntities[c] \in Seq(Entities) /\ slot \in 1 .. Len(denseEntities[c])
      BY <1>1, <1>2
    <2>3. \A s \in 1 .. Len(denseEntities[c]) - 1 :
             Removed(denseEntities[c], slot)[s]
                 = IF s = slot THEN denseEntities[c][Len(denseEntities[c])]
                   ELSE denseEntities[c][s]
      BY <2>2, RemovedIsShorter
    <2>4. /\ Removed(denseEntities[c], slot) \in Seq(Entities)
          /\ Len(Removed(denseEntities[c], slot)) = Len(denseEntities[c]) - 1
      BY <2>2, RemovedIsShorter
    <2> QED
      BY <2>1, <2>3, <2>4
  <1>4. /\ denseValues'[c] \in Seq(Values)
        /\ Len(denseValues'[c]) = n - 1
    <2>1. denseValues'[c] = Removed(denseValues[c], slot)
      BY DEF Erased
    <2>2. denseValues[c] \in Seq(Values) /\ slot \in 1 .. Len(denseValues[c])
      BY <1>1, <1>2
    <2> QED
      BY <2>1, <2>2, <1>1, RemovedIsShorter
  <1>5. last \in Entities /\ sparse[c][last] = n
    BY <1>1, <1>2 DEF RackAgrees
  <1>6. \A x \in Entities :
           sparse'[c][x] = IF x = e THEN NoSlot
                           ELSE IF x = last THEN slot ELSE sparse[c][x]
    BY <1>1, <1>2 DEF Erased, Unlinked
  <1>0. \A x \in Entities :
           Has(c, x) => /\ sparse[c][x] \in 1 .. n
                        /\ denseEntities[c][sparse[c][x]] = x
    BY DEF RackAgrees
  <1>00. \A s \in 1 .. n : sparse[c][denseEntities[c][s]] = s
    BY DEF RackAgrees
  <1>7. sparse'[c] \in [Entities -> Nat]
    <2>1. \A x \in Entities : (IF x = e THEN NoSlot
                               ELSE IF x = last THEN slot ELSE sparse[c][x]) \in Nat
      BY <1>1, <1>2 DEF NoSlot
    <2> QED
      BY <2>1, <1>1 DEF Erased, Unlinked
  <1>8. \A x \in Entities : Has(c, x)' <=> Has(c, x) /\ x # e
    <2> SUFFICES ASSUME NEW x \in Entities
                 PROVE  Has(c, x)' <=> Has(c, x) /\ x # e
      OBVIOUS
    <2>1. Has(c, x)' <=> sparse'[c][x] # NoSlot
      BY DEF Has
    <2>2. Has(c, x) <=> sparse[c][x] # NoSlot
      BY DEF Has
    <2>3. slot # NoSlot /\ (x = last => sparse[c][x] # NoSlot)
      BY <1>1, <1>2, <1>5 DEF NoSlot
    <2> QED
      BY <1>6, <2>1, <2>2, <2>3
  <1> HIDE DEF n, slot, last
  <1>9. \A x \in Entities :
           Has(c, x)' => /\ sparse'[c][x] \in 1 .. n - 1
                         /\ denseEntities'[c][sparse'[c][x]] = x
    <2> SUFFICES ASSUME NEW x \in Entities, Has(c, x), x # e
                 PROVE  /\ sparse'[c][x] \in 1 .. n - 1
                        /\ denseEntities'[c][sparse'[c][x]] = x
      BY <1>8
    <2>1. sparse[c][x] \in 1 .. n /\ denseEntities[c][sparse[c][x]] = x
      BY <1>0
    <2>2. CASE x = last
      <3>1. sparse'[c][x] = slot
        BY <1>6, <2>2
      <3>2. slot # n
        BY <1>2, <2>2 DEF last
      <3>3. slot \in 1 .. n - 1
        BY <1>1, <1>2, <3>2
      <3> QED
        BY <1>3, <2>2, <3>1, <3>3
    <2>3. CASE x # last
      <3>1. sparse[c][x] # n
        BY <2>1, <2>3 DEF last
      <3>2. sparse[c][x] # slot
        BY <1>2, <2>1
      <3>3. sparse[c][x] \in 1 .. n - 1
        BY <1>1, <2>1, <3>1
      <3>4. sparse'[c][x] = sparse[c][x]
        BY <1>6, <2>3
      <3> QED
        BY <1>3, <2>1, <3>2, <3>3, <3>4
    <2> QED
      BY <2>2, <2>3
  <1>10. \A s \in 1 .. n - 1 : sparse'[c][denseEntities'[c][s]] = s
    <2> SUFFICES ASSUME NEW s \in 1 .. n - 1
                 PROVE  sparse'[c][denseEntities'[c][s]] = s
      OBVIOUS
    <2>1. s \in 1 .. n /\ s # n
      BY <1>1
    <2>2. denseEntities[c][s] \in Entities /\ sparse[c][denseEntities[c][s]] = s
      BY <1>1, <1>00, <2>1
    <2>3. CASE s = slot
      <3>1. denseEntities'[c][s] = last
        BY <1>3, <2>3
      <3>2. last # e
        BY <1>5, <2>1, <2>3 DEF slot
      <3> QED
        BY <1>5, <1>6, <2>3, <3>1, <3>2
    <2>4. CASE s # slot
      <3>1. denseEntities'[c][s] = denseEntities[c][s]
        BY <1>3, <2>4
      <3>2. denseEntities[c][s] # e
        BY <2>2, <2>4 DEF slot
      <3>3. denseEntities[c][s] # last
        BY <1>5, <2>1, <2>2
      <3> QED
        BY <1>6, <2>2, <3>1, <3>2, <3>3
    <2> QED
      BY <2>3, <2>4
  <1> QED
    BY <1>3, <1>4, <1>7, <1>8, <1>9, <1>10 DEF RackAgrees

-----------------------------------------------------------------------------
(***************************************************************************)
(* RegistryInv, one lemma per kind of step                                 *)
(***************************************************************************)

\* A step that leaves the racks alone keeps what is said of the racks.
LEMMA RacksUntouched ==
    ASSUME RegistryInv, UNCHANGED rackVars
    PROVE  /\ RacksAgree'
           /\ \A c \in Components, e \in Entities : Has(c, e)' <=> Has(c, e)
  BY DEF RegistryInv, RacksAgree, RackAgrees, Has, rackVars

\* A step that leaves the numbers alone keeps what is said of the numbers.
LEMMA NumbersUntouched ==
    ASSUME RegistryInv, UNCHANGED idVars
    PROVE  NumbersAgree'
  BY DEF RegistryInv, NumbersAgree, idVars

\* create_entity that takes a retired number.
LEMMA CreateRecycledKeepsInv ==
    ASSUME RegistryInv, CreateRecycled
    PROVE  RegistryInv'
  <1> DEFINE n == Len(recycled)
             e == recycled[n]
  <1>1. /\ recycled \in Seq(Entities) /\ n \in Nat /\ n >= 1
        /\ e \in Entities
        /\ alive \in [Entities -> BOOLEAN]
    BY DEF RegistryInv, TypeOK, CreateRecycled
  <1>2. /\ recycled' \in Seq(Entities)
        /\ Len(recycled') = n - 1
        /\ \A i \in 1 .. n - 1 : recycled'[i] = recycled[i]
    <2>1. recycled' = SubSeq(recycled, 1, n - 1)
      BY DEF CreateRecycled
    <2> HIDE DEF n
    <2>2. n - 1 \in 0 .. Len(recycled) /\ 1 \in Int
      BY <1>1 DEF n
    <2>3. Len(recycled') = n - 1 /\ \A i \in 1 .. n - 1 : recycled'[i] = recycled[i]
      BY <1>1, <2>1, <2>2
    <2>4. \A i \in 1 .. Len(recycled) : recycled[i] \in Entities
      BY <1>1
    <2>5. recycled' = [i \in 1 .. n - 1 |-> recycled[i]]
      BY <1>1, <2>1, <2>2
    <2>6. \A i \in 1 .. n - 1 : recycled[i] \in Entities
      BY <1>1, <2>2, <2>4
    <2>7. recycled' \in Seq(Entities)
      BY <1>1, <2>2, <2>5, <2>6
    <2> QED
      BY <2>3, <2>7
  <1>3. TypeOK'
    BY <1>1, <1>2 DEF RegistryInv, TypeOK, CreateRecycled, rackVars
  <1>4. RacksAgree'
    BY RacksUntouched DEF CreateRecycled
  <1>5. NoGhosts'
    BY RacksUntouched, <1>1 DEF RegistryInv, NoGhosts, CreateRecycled
  <1>6. NumbersAgree'
    <2>1. nextEntity' <= known'
      BY DEF RegistryInv, NumbersAgree, CreateRecycled
    <2>2. \A x \in Entities : alive'[x] => x < nextEntity'
      BY <1>1 DEF RegistryInv, NumbersAgree, CreateRecycled
    <2>3. \A i \in 1 .. n - 1 : recycled[i] < nextEntity /\ ~alive[recycled[i]]
                                  /\ recycled[i] # e /\ recycled[i] \in Entities
      BY <1>1 DEF RegistryInv, NumbersAgree
    <2>4. \A i \in 1 .. Len(recycled') :
             recycled'[i] < nextEntity' /\ ~alive'[recycled'[i]]
      BY <1>1, <1>2, <2>3 DEF CreateRecycled
    <2>5. \A i, j \in 1 .. Len(recycled') : recycled'[i] = recycled'[j] => i = j
      BY <1>1, <1>2 DEF RegistryInv, NumbersAgree
    <2> QED
      BY <2>1, <2>2, <2>4, <2>5 DEF NumbersAgree
  <1> QED
    BY <1>3, <1>4, <1>5, <1>6 DEF RegistryInv

\* create_entity that takes a number nobody had.
LEMMA CreateFreshKeepsInv ==
    ASSUME RegistryInv, CreateFresh
    PROVE  RegistryInv'
  <1>1. /\ alive \in [Entities -> BOOLEAN]
        /\ alive' \in [Entities -> BOOLEAN]
        /\ nextEntity \in Nat /\ known \in Nat /\ nextEntity <= known
        /\ nextEntity \in Entities
        /\ \A e \in Entities : e \in Int
    BY MaxEntitiesAssumption
       DEF RegistryInv, TypeOK, NumbersAgree, CreateFresh, Entities
  <1>2. \A e \in Entities : alive'[e] <=> alive[e] \/ e = nextEntity
    <2>1. \A e \in Entities : e \in known .. nextEntity => e = nextEntity
      BY <1>1
    <2>2. alive' = [e \in Entities |->
                       alive[e] \/ e = nextEntity \/ e \in known .. nextEntity]
      BY DEF CreateFresh
    <2> QED
      BY <2>1, <2>2
  <1>3. TypeOK'
    BY <1>1, MaxEntitiesAssumption
       DEF RegistryInv, TypeOK, CreateFresh, rackVars
  <1>4. RacksAgree'
    BY RacksUntouched DEF CreateFresh
  <1>5. NoGhosts'
    BY RacksUntouched, <1>2 DEF RegistryInv, NoGhosts, CreateFresh
  <1>6. NumbersAgree'
    <2>1. nextEntity' <= known'
      BY <1>1 DEF CreateFresh
    <2>2. \A e \in Entities : alive'[e] => e < nextEntity'
      BY <1>1, <1>2 DEF RegistryInv, NumbersAgree, CreateFresh
    <2>3. recycled' = <<>>
      BY DEF CreateFresh
    <2> QED
      BY <2>1, <2>2, <2>3 DEF NumbersAgree
  <1> QED
    BY <1>3, <1>4, <1>5, <1>6 DEF RegistryInv

\* reserve_entities.
LEMMA ReserveKeepsInv ==
    ASSUME RegistryInv, NEW capacity \in 1 .. MaxEntities, Reserve(capacity)
    PROVE  RegistryInv'
  <1>1. TypeOK'
    BY MaxEntitiesAssumption DEF RegistryInv, TypeOK, Reserve, rackVars
  <1>2. RacksAgree' /\ NoGhosts'
    BY RacksUntouched DEF RegistryInv, NoGhosts, Reserve
  <1>3. NumbersAgree'
    BY MaxEntitiesAssumption
       DEF RegistryInv, TypeOK, NumbersAgree, Reserve, Entities
  <1> QED
    BY <1>1, <1>2, <1>3 DEF RegistryInv

\* The first add of a component to a live entity.
LEMMA AddNewKeepsInv ==
    ASSUME RegistryInv, NEW c \in Components, NEW e \in Entities,
           NEW v \in Values, AddNew(c, e, v)
    PROVE  RegistryInv'
  <1> DEFINE n == Len(denseEntities[c])
  <1>1. /\ denseEntities[c] \in Seq(Entities) /\ n \in Nat
        /\ denseValues[c] \in Seq(Values) /\ Len(denseValues[c]) = n
        /\ sparse[c] \in [Entities -> Nat]
        /\ ~Has(c, e)
        /\ \A s \in 1 .. n : denseEntities[c][s] \in Entities
        /\ \A s \in 1 .. n : sparse[c][denseEntities[c][s]] = s
        /\ \A x \in Entities :
              Has(c, x) => /\ sparse[c][x] \in 1 .. n
                           /\ denseEntities[c][sparse[c][x]] = x
    BY DEF RegistryInv, TypeOK, RacksAgree, RackAgrees, AddNew
  <1>2. /\ denseEntities'[c] = Append(denseEntities[c], e)
        /\ denseValues'[c] = Append(denseValues[c], v)
        /\ \A x \in Entities :
              sparse'[c][x] = IF x = e THEN n + 1 ELSE sparse[c][x]
        /\ \A d \in Components \ {c} :
              /\ denseEntities'[d] = denseEntities[d]
              /\ denseValues'[d] = denseValues[d]
              /\ sparse'[d] = sparse[d]
    BY <1>1 DEF AddNew, RegistryInv, TypeOK
  <1>3. /\ denseEntities'[c] \in Seq(Entities) /\ Len(denseEntities'[c]) = n + 1
        /\ denseValues'[c] \in Seq(Values) /\ Len(denseValues'[c]) = n + 1
        /\ \A s \in 1 .. n + 1 :
              denseEntities'[c][s] = IF s = n + 1 THEN e ELSE denseEntities[c][s]
    BY <1>1, <1>2
  <1>4. sparse' \in [Components -> [Entities -> Nat]]
    BY <1>1 DEF AddNew, RegistryInv, TypeOK
  <1>5. TypeOK'
    BY <1>2, <1>3, <1>4 DEF AddNew, RegistryInv, TypeOK, idVars
  <1>6. \A d \in Components, x \in Entities :
           Has(d, x)' <=> Has(d, x) \/ (d = c /\ x = e)
    BY <1>1, <1>2 DEF Has, NoSlot
  <1> HIDE DEF n
  <1>7. RackAgrees(c)'
    <2>1. \A x \in Entities :
             Has(c, x)' => /\ sparse'[c][x] \in 1 .. n + 1
                           /\ denseEntities'[c][sparse'[c][x]] = x
      <3> SUFFICES ASSUME NEW x \in Entities, Has(c, x)'
                   PROVE  /\ sparse'[c][x] \in 1 .. n + 1
                          /\ denseEntities'[c][sparse'[c][x]] = x
        OBVIOUS
      <3>1. CASE x = e
        <4>1. sparse'[c][x] = n + 1 /\ n + 1 \in 1 .. n + 1
          BY <1>1, <1>2, <3>1
        <4> QED
          BY <1>3, <3>1, <4>1
      <3>2. CASE x # e
        <4>1. Has(c, x) /\ sparse'[c][x] = sparse[c][x]
          BY <1>2, <1>6, <3>2
        <4>2. sparse[c][x] \in 1 .. n /\ denseEntities[c][sparse[c][x]] = x
          BY <1>1, <4>1
        <4>3. sparse[c][x] \in 1 .. n + 1 /\ sparse[c][x] # n + 1
          BY <1>1, <4>2
        <4> QED
          BY <1>3, <4>1, <4>2, <4>3
      <3> QED
        BY <3>1, <3>2
    <2>2. \A s \in 1 .. n + 1 : sparse'[c][denseEntities'[c][s]] = s
      <3> SUFFICES ASSUME NEW s \in 1 .. n + 1
                   PROVE  sparse'[c][denseEntities'[c][s]] = s
        OBVIOUS
      <3>1. CASE s = n + 1
        BY <1>2, <1>3, <3>1
      <3>2. CASE s # n + 1
        <4>1. s \in 1 .. n /\ denseEntities'[c][s] = denseEntities[c][s]
          BY <1>1, <1>3, <3>2
        <4>2. sparse[c][denseEntities[c][s]] = s /\ s # NoSlot
          BY <1>1, <4>1 DEF NoSlot
        <4>3. denseEntities[c][s] \in Entities /\ denseEntities[c][s] # e
          BY <1>1, <4>1, <4>2 DEF Has
        <4> QED
          BY <1>2, <4>1, <4>2, <4>3
      <3> QED
        BY <3>1, <3>2
    <2> QED
      BY <1>3, <2>1, <2>2 DEF RackAgrees
  <1>8. RacksAgree'
    <2> SUFFICES ASSUME NEW d \in Components, d # c
                 PROVE  RackAgrees(d)'
      BY <1>7 DEF RacksAgree
    <2> QED
      BY <1>2 DEF RegistryInv, RacksAgree, RackAgrees, Has
  <1>9. NoGhosts'
    BY <1>6 DEF RegistryInv, NoGhosts, AddNew, idVars
  <1> QED
    BY <1>5, <1>8, <1>9, NumbersUntouched DEF RegistryInv, AddNew

\* An assignment to a component that is there.
LEMMA AssignKeepsInv ==
    ASSUME RegistryInv, NEW c \in Components, NEW e \in Entities,
           NEW v \in Values, Assign(c, e, v)
    PROVE  RegistryInv'
  <1>1. /\ denseValues[c] \in Seq(Values)
        /\ sparse[c][e] \in 1 .. Len(denseValues[c])
    BY DEF RegistryInv, TypeOK, RacksAgree, RackAgrees, Assign
  <1>2. [denseValues[c] EXCEPT ![sparse[c][e]] = v] \in Seq(Values)
        /\ Len([denseValues[c] EXCEPT ![sparse[c][e]] = v]) = Len(denseValues[c])
    BY <1>1
  <1>3. \A d \in Components :
           denseValues'[d] = IF d = c THEN [denseValues[c] EXCEPT ![sparse[c][e]] = v]
                             ELSE denseValues[d]
    BY DEF Assign, RegistryInv, TypeOK
  <1>4. denseValues' \in [Components -> Seq(Values)]
        /\ \A d \in Components : Len(denseValues'[d]) = Len(denseValues[d])
    BY <1>2, <1>3 DEF Assign, RegistryInv, TypeOK
  <1>5. TypeOK'
    BY <1>4 DEF Assign, RegistryInv, TypeOK, idVars
  <1>6. RacksAgree' /\ NoGhosts'
    BY <1>4 DEF Assign, RegistryInv, RacksAgree, RackAgrees, NoGhosts, Has, idVars
  <1> QED
    BY <1>5, <1>6, NumbersUntouched DEF RegistryInv, Assign

\* Racks that lose one entity, or stay as they are, keep their agreement.
LEMMA ErasingRacks ==
    ASSUME RegistryInv, NEW e \in Entities, NEW D \in SUBSET Components,
           \A c \in D : Has(c, e) /\ Erased(c, e),
           \A c \in Components \ D : /\ denseEntities'[c] = denseEntities[c]
                                     /\ denseValues'[c] = denseValues[c]
                                     /\ sparse'[c] = sparse[c],
           denseEntities' = [c \in Components |-> denseEntities'[c]],
           denseValues' = [c \in Components |-> denseValues'[c]],
           sparse' = [c \in Components |-> sparse'[c]]
    PROVE  /\ denseEntities' \in [Components -> Seq(Entities)]
           /\ denseValues' \in [Components -> Seq(Values)]
           /\ sparse' \in [Components -> [Entities -> Nat]]
           /\ RacksAgree'
           /\ \A c \in Components, x \in Entities :
                 Has(c, x)' <=> Has(c, x) /\ ~(c \in D /\ x = e)
  <1>1. ASSUME NEW c \in Components
        PROVE  /\ denseEntities'[c] \in Seq(Entities)
               /\ denseValues'[c] \in Seq(Values)
               /\ sparse'[c] \in [Entities -> Nat]
               /\ RackAgrees(c)'
               /\ \A x \in Entities :
                     Has(c, x)' <=> Has(c, x) /\ ~(c \in D /\ x = e)
    <2>1. CASE c \in D
      BY <2>1, ErasedRackAgrees DEF RegistryInv, RacksAgree
    <2>2. CASE c \notin D
      BY <2>2 DEF RegistryInv, TypeOK, RacksAgree, RackAgrees, Has
    <2> QED
      BY <2>1, <2>2
  <1> QED
    BY <1>1 DEF RacksAgree

\* remove<T>(e).
LEMMA RemoveErases ==
    ASSUME RegistryInv, NEW c \in Components, NEW e \in Entities, Remove(c, e)
    PROVE  /\ denseEntities' \in [Components -> Seq(Entities)]
           /\ denseValues' \in [Components -> Seq(Values)]
           /\ sparse' \in [Components -> [Entities -> Nat]]
           /\ RacksAgree'
           /\ \A d \in Components, x \in Entities :
                 Has(d, x)' <=> Has(d, x) /\ ~(d = c /\ x = e)
  <1>1. Has(c, e) /\ Erased(c, e)
    BY DEF Remove, Erased, RegistryInv, TypeOK
  <1>2. \A d \in Components \ {c} : /\ denseEntities'[d] = denseEntities[d]
                                    /\ denseValues'[d] = denseValues[d]
                                    /\ sparse'[d] = sparse[d]
    BY DEF Remove, RegistryInv, TypeOK
  <1>3. /\ denseEntities' = [d \in Components |-> denseEntities'[d]]
        /\ denseValues' = [d \in Components |-> denseValues'[d]]
        /\ sparse' = [d \in Components |-> sparse'[d]]
    BY DEF Remove, RegistryInv, TypeOK
  <1> DEFINE D == {c}
  <1>5. /\ D \in SUBSET Components
        /\ \A d \in D : Has(d, e) /\ Erased(d, e)
        /\ \A d \in Components \ D : /\ denseEntities'[d] = denseEntities[d]
                                      /\ denseValues'[d] = denseValues[d]
                                      /\ sparse'[d] = sparse[d]
    BY <1>1, <1>2
  <1>6. \A d : d \in D <=> d = c
    OBVIOUS
  <1> HIDE DEF D
  <1>7. /\ denseEntities' \in [Components -> Seq(Entities)]
        /\ denseValues' \in [Components -> Seq(Values)]
        /\ sparse' \in [Components -> [Entities -> Nat]]
        /\ RacksAgree'
        /\ \A d \in Components, x \in Entities :
              Has(d, x)' <=> Has(d, x) /\ ~(d \in D /\ x = e)
    BY <1>3, <1>5, ErasingRacks
  <1> QED
    BY <1>6, <1>7

LEMMA RemoveKeepsInv ==
    ASSUME RegistryInv, NEW c \in Components, NEW e \in Entities, Remove(c, e)
    PROVE  RegistryInv'
  <1>1. TypeOK'
    BY RemoveErases DEF Remove, RegistryInv, TypeOK, idVars
  <1>2. NoGhosts'
    BY RemoveErases DEF Remove, RegistryInv, NoGhosts, idVars
  <1> QED
    BY <1>1, <1>2, RemoveErases, NumbersUntouched DEF Remove, RegistryInv

\* destroy_entity(e) takes e out of every rack that has it.
LEMMA DestroyErases ==
    ASSUME RegistryInv, NEW e \in Entities, Destroy(e)
    PROVE  /\ denseEntities' \in [Components -> Seq(Entities)]
           /\ denseValues' \in [Components -> Seq(Values)]
           /\ sparse' \in [Components -> [Entities -> Nat]]
           /\ RacksAgree'
           /\ \A c \in Components, x \in Entities :
                 Has(c, x)' <=> Has(c, x) /\ x # e
  <1> DEFINE D == {c \in Components : Has(c, e)}
  <1>1. \A c \in D : Has(c, e) /\ Erased(c, e)
    BY DEF Destroy, Erased
  <1>2. \A c \in Components \ D : /\ denseEntities'[c] = denseEntities[c]
                                  /\ denseValues'[c] = denseValues[c]
                                  /\ sparse'[c] = sparse[c]
    BY DEF Destroy
  <1>3. /\ denseEntities' = [c \in Components |-> denseEntities'[c]]
        /\ denseValues' = [c \in Components |-> denseValues'[c]]
        /\ sparse' = [c \in Components |-> sparse'[c]]
    BY DEF Destroy
  <1>4. \A c \in Components : c \in D <=> Has(c, e)
    OBVIOUS
  <1>5. D \in SUBSET Components
    OBVIOUS
  <1> HIDE DEF D
  <1>6. /\ denseEntities' \in [Components -> Seq(Entities)]
        /\ denseValues' \in [Components -> Seq(Values)]
        /\ sparse' \in [Components -> [Entities -> Nat]]
        /\ RacksAgree'
        /\ \A c \in Components, x \in Entities :
              Has(c, x)' <=> Has(c, x) /\ ~(c \in D /\ x = e)
    BY <1>1, <1>2, <1>3, <1>5, ErasingRacks
  <1> QED
    BY <1>4, <1>6

LEMMA DestroyKeepsInv ==
    ASSUME RegistryInv, NEW e \in Entities, Destroy(e)
    PROVE  RegistryInv'
  <1> DEFINE n == Len(recycled)
  <1>1. /\ recycled \in Seq(Entities) /\ n \in Nat
        /\ alive \in [Entities -> BOOLEAN] /\ alive[e]
        /\ recycled' = Append(recycled, e)
        /\ alive' = [alive EXCEPT ![e] = FALSE]
        /\ nextEntity' = nextEntity /\ known' = known
    BY DEF RegistryInv, TypeOK, Destroy
  <1>2. /\ recycled' \in Seq(Entities) /\ Len(recycled') = n + 1
        /\ \A i \in 1 .. n + 1 : recycled'[i] = IF i = n + 1 THEN e ELSE recycled[i]
    BY <1>1
  <1>3. liveCount' \in Nat
    BY DEF RegistryInv, TypeOK, Destroy
  <1>4. TypeOK'
    BY <1>1, <1>2, <1>3, DestroyErases DEF RegistryInv, TypeOK
  <1>5. NoGhosts'
    BY <1>1, DestroyErases DEF RegistryInv, NoGhosts
  <1>6. NumbersAgree'
    <2>1. nextEntity' <= known' /\ \A x \in Entities : alive'[x] => x < nextEntity'
      BY <1>1 DEF RegistryInv, NumbersAgree
    <2>2. \A i \in 1 .. n : recycled[i] < nextEntity /\ ~alive[recycled[i]]
                              /\ recycled[i] # e /\ recycled[i] \in Entities
      BY <1>1 DEF RegistryInv, NumbersAgree
    <2>3. e < nextEntity /\ ~alive'[e]
      BY <1>1 DEF RegistryInv, NumbersAgree
    <2>4. \A i \in 1 .. n + 1 : recycled'[i] < nextEntity' /\ ~alive'[recycled'[i]]
      BY <1>1, <1>2, <2>2, <2>3
    <2>5. \A i, j \in 1 .. n : recycled[i] = recycled[j] => i = j
      BY DEF RegistryInv, NumbersAgree
    <2> HIDE DEF n
    <2>6. \A i, j \in 1 .. n + 1 : recycled'[i] = recycled'[j] => i = j
      BY <1>1, <1>2, <2>2, <2>5
    <2> QED
      BY <1>2, <2>1, <2>4, <2>6 DEF NumbersAgree
  <1> QED
    BY <1>4, <1>5, <1>6, DestroyErases DEF RegistryInv

\* clear_rack<T>() and clear().
LEMMA ClearRackKeepsInv ==
    ASSUME RegistryInv, NEW c \in Components, ClearRack(c)
    PROVE  RegistryInv'
  <1>1. TypeOK'
    BY DEF ClearRack, RegistryInv, TypeOK, idVars, NoSlot
  <1>2. \A d \in Components :
           \/ d # c /\ denseEntities'[d] = denseEntities[d]
              /\ denseValues'[d] = denseValues[d] /\ sparse'[d] = sparse[d]
           \/ d = c /\ denseEntities'[d] = <<>> /\ denseValues'[d] = <<>>
              /\ \A e \in Entities : sparse'[d][e] = NoSlot
    BY DEF ClearRack, RegistryInv, TypeOK
  <1>3. RacksAgree' /\ NoGhosts'
    BY <1>2 DEF ClearRack, RegistryInv, RacksAgree, RackAgrees, NoGhosts, Has, idVars
  <1> QED
    BY <1>1, <1>3, NumbersUntouched DEF RegistryInv, ClearRack

LEMMA ClearKeepsInv ==
    ASSUME Clear
    PROVE  RegistryInv'
  BY MaxEntitiesAssumption
     DEF Clear, RegistryInv, TypeOK, RacksAgree, RackAgrees, NoGhosts, NumbersAgree,
         Has, NoSlot

\* The racks, the live entities and the retired numbers agree in every
\* reachable state, whatever the sequence of operations.
THEOREM RegistryInvariant == Spec => []RegistryInv
  <1>1. Init => RegistryInv
    BY MaxEntitiesAssumption
       DEF Init, RegistryInv, TypeOK, RacksAgree, RackAgrees, NoGhosts,
           NumbersAgree, Has, NoSlot
  <1>2. RegistryInv /\ [Next]_vars => RegistryInv'
    <2> SUFFICES ASSUME RegistryInv, [Next]_vars
                 PROVE  RegistryInv'
      OBVIOUS
    <2>1. CASE CreateRecycled
      BY <2>1, CreateRecycledKeepsInv
    <2>2. CASE CreateFresh
      BY <2>2, CreateFreshKeepsInv
    <2>3. CASE \E capacity \in 1 .. MaxEntities : Reserve(capacity)
      BY <2>3, ReserveKeepsInv
    <2>4. CASE \E e \in Entities : Destroy(e)
      BY <2>4, DestroyKeepsInv
    <2>5. CASE \E c \in Components, e \in Entities : Remove(c, e)
      BY <2>5, RemoveKeepsInv
    <2>6. CASE \E c \in Components, e \in Entities, v \in Values :
                  AddNew(c, e, v) \/ Assign(c, e, v)
      BY <2>6, AddNewKeepsInv, AssignKeepsInv
    <2>7. CASE \E c \in Components : ClearRack(c)
      BY <2>7, ClearRackKeepsInv
    <2>8. CASE Clear
      BY <2>8, ClearKeepsInv
    <2>9. CASE UNCHANGED vars
      <3>1. UNCHANGED rackVars /\ UNCHANGED idVars
        BY <2>9 DEF vars
      <3> QED
        BY <3>1, RacksUntouched, NumbersUntouched
           DEF RegistryInv, TypeOK, NoGhosts, rackVars, idVars
    <2> QED
      BY <2>1, <2>2, <2>3, <2>4, <2>5, <2>6, <2>7, <2>8, <2>9 DEF Next
  <1> QED
    BY <1>1, <1>2, PTL DEF Spec

\* get<T>(e) reaches the value stored for e, for any racks and entities.
THEOREM RegistryRacksAgree == Spec => []RacksAgree
  BY RegistryInvariant, PTL DEF RegistryInv

\* A dead entity has no components, so a number used again inherits none.
THEOREM RegistryNoGhosts == Spec => []NoGhosts
  BY RegistryInvariant, PTL DEF RegistryInv

\* No two live entities share a number.
THEOREM RegistryNumbersAgree == Spec => []NumbersAgree
  BY RegistryInvariant, PTL DEF RegistryInv

-----------------------------------------------------------------------------
(***************************************************************************)
(* No number is lost.  The count needs that the live entities are finitely *)
(* many, and NumbersAgree: the number handed out was not alive.            *)
(***************************************************************************)

LEMMA FiniteNumbers == IsFiniteSet(Entities)
  BY FS_Interval, MaxEntitiesAssumption DEF Entities

\* One entity becomes alive and the count goes up: it is still the number of
\* live entities.
LEMMA CountOfOneMore ==
    ASSUME RegistryInv, NoNumberLost, NEW e \in Entities, ~alive[e],
           \A x \in Entities : alive'[x] <=> alive[x] \/ x = e,
           liveCount' = liveCount + 1
    PROVE  liveCount' = Cardinality({x \in Entities : alive'[x]})
  <1> DEFINE L == {x \in Entities : alive[x]}
  <1>1. IsFiniteSet(L)
    BY FiniteNumbers, FS_Subset
  <1>2. {x \in Entities : alive'[x]} = L \cup {e}
    OBVIOUS
  <1>3. e \notin L
    OBVIOUS
  <1>4. Cardinality(L \cup {e}) = Cardinality(L) + 1
    BY <1>1, <1>3, FS_AddElement
  <1> QED
    BY <1>2, <1>4 DEF NoNumberLost

LEMMA CreateRecycledLosesNone ==
    ASSUME RegistryInv, NoNumberLost, CreateRecycled
    PROVE  NoNumberLost'
  <1> DEFINE n == Len(recycled)
             e == recycled[n]
  <1>1. /\ recycled \in Seq(Entities) /\ n \in Nat /\ n >= 1
        /\ e \in Entities /\ ~alive[e]
        /\ alive \in [Entities -> BOOLEAN]
    BY DEF RegistryInv, TypeOK, NumbersAgree, CreateRecycled
  <1>2. \A x \in Entities : alive'[x] <=> alive[x] \/ x = e
    BY <1>1 DEF CreateRecycled
  <1>3. liveCount' = Cardinality({x \in Entities : alive'[x]})
    BY <1>1, <1>2, CountOfOneMore DEF CreateRecycled
  <1>4. Len(recycled') = n - 1 /\ \A i \in 1 .. n - 1 : recycled'[i] = recycled[i]
    <2>1. recycled' = SubSeq(recycled, 1, n - 1)
      BY DEF CreateRecycled
    <2> HIDE DEF n
    <2>2. n - 1 \in 0 .. Len(recycled) /\ 1 \in Int
      BY <1>1 DEF n
    <2> QED
      BY <1>1, <2>1, <2>2
  <1>5. nextEntity' = nextEntity /\ 0 .. nextEntity - 1 \subseteq Entities
    BY MaxEntitiesAssumption DEF CreateRecycled, RegistryInv, TypeOK, Entities
  <1>6. ASSUME NEW x \in 0 .. nextEntity - 1
        PROVE  alive'[x] \/ \E i \in 1 .. Len(recycled') : recycled'[i] = x
    <2>1. CASE alive[x] \/ x = e
      BY <1>2, <1>5, <2>1
    <2>2. CASE \E i \in 1 .. n : recycled[i] = x /\ x # e
      <3>1. PICK i \in 1 .. n : recycled[i] = x /\ x # e
        BY <2>2
      <3>2. i \in 1 .. n - 1
        BY <1>1, <3>1
      <3> QED
        BY <1>1, <1>4, <3>1, <3>2
    <2> QED
      BY <2>1, <2>2 DEF NoNumberLost
  <1> QED
    BY <1>3, <1>5, <1>6 DEF NoNumberLost

LEMMA CreateFreshLosesNone ==
    ASSUME RegistryInv, NoNumberLost, CreateFresh
    PROVE  NoNumberLost'
  <1>1. /\ alive \in [Entities -> BOOLEAN]
        /\ nextEntity \in Nat /\ known \in Nat /\ nextEntity <= known
        /\ nextEntity \in Entities /\ ~alive[nextEntity]
        /\ 0 .. nextEntity - 1 \subseteq Entities
        /\ \A e \in Entities : e \in Int
    BY MaxEntitiesAssumption
       DEF RegistryInv, TypeOK, NumbersAgree, CreateFresh, Entities
  <1>2. \A e \in Entities : alive'[e] <=> alive[e] \/ e = nextEntity
    <2>1. \A e \in Entities : e \in known .. nextEntity => e = nextEntity
      BY <1>1
    <2>2. alive' = [e \in Entities |->
                       alive[e] \/ e = nextEntity \/ e \in known .. nextEntity]
      BY DEF CreateFresh
    <2> QED
      BY <2>1, <2>2
  <1>3. liveCount' = Cardinality({x \in Entities : alive'[x]})
    BY <1>1, <1>2, CountOfOneMore DEF CreateFresh
  <1>4. \A x \in 0 .. nextEntity - 1 : alive[x]
    BY DEF NoNumberLost, CreateFresh
  <1>5. \A x \in 0 .. nextEntity' - 1 :
           x = nextEntity \/ x \in 0 .. nextEntity - 1
    BY <1>1 DEF CreateFresh
  <1>6. \A x \in 0 .. nextEntity' - 1 : alive'[x]
    BY <1>1, <1>2, <1>4, <1>5
  <1> QED
    BY <1>3, <1>6 DEF NoNumberLost

LEMMA DestroyLosesNone ==
    ASSUME RegistryInv, NoNumberLost, NEW e \in Entities, Destroy(e)
    PROVE  NoNumberLost'
  <1> DEFINE n == Len(recycled)
             L == {x \in Entities : alive[x]}
  <1>1. /\ recycled \in Seq(Entities) /\ n \in Nat
        /\ alive \in [Entities -> BOOLEAN] /\ alive[e]
        /\ recycled' = Append(recycled, e)
        /\ alive' = [alive EXCEPT ![e] = FALSE]
        /\ nextEntity' = nextEntity /\ 0 .. nextEntity - 1 \subseteq Entities
        /\ liveCount \in Nat
        /\ liveCount' = IF liveCount > 0 THEN liveCount - 1 ELSE liveCount
    BY MaxEntitiesAssumption DEF RegistryInv, TypeOK, Destroy, Entities
  <1>2. IsFiniteSet(L)
    BY FiniteNumbers, FS_Subset
  <1>3. {x \in Entities : alive'[x]} = L \ {e}
    BY <1>1
  <1>4. e \in L /\ L # {}
    BY <1>1
  <1>5. Cardinality(L \ {e}) = Cardinality(L) - 1
    BY <1>2, <1>4, FS_RemoveElement
  <1>6. liveCount = Cardinality(L) /\ liveCount # 0
    BY <1>2, <1>4, FS_EmptySet DEF NoNumberLost
  <1>7. liveCount' = Cardinality({x \in Entities : alive'[x]})
    <2>1. liveCount' = liveCount - 1
      BY <1>1, <1>6
    <2> QED
      BY <2>1, <1>3, <1>5, <1>6
  <1>8. Len(recycled') = n + 1 /\ recycled'[n + 1] = e
        /\ \A i \in 1 .. n : recycled'[i] = recycled[i]
    BY <1>1
  <1>9. ASSUME NEW x \in 0 .. nextEntity - 1
        PROVE  alive'[x] \/ \E i \in 1 .. Len(recycled') : recycled'[i] = x
    <2>1. CASE x = e
      BY <1>1, <1>8, <2>1
    <2>2. CASE alive[x] /\ x # e
      BY <1>1, <2>2
    <2>3. CASE \E i \in 1 .. n : recycled[i] = x
      BY <1>1, <1>8, <2>3
    <2> QED
      BY <2>1, <2>2, <2>3 DEF NoNumberLost
  <1> QED
    BY <1>1, <1>7, <1>9 DEF NoNumberLost

\* Reserving, and every operation on the racks, leaves the numbers alone.
LEMMA OthersLoseNone ==
    ASSUME NoNumberLost, UNCHANGED <<alive, recycled, nextEntity, liveCount>>
    PROVE  NoNumberLost'
  BY DEF NoNumberLost

LEMMA ClearLosesNone ==
    ASSUME Clear
    PROVE  NoNumberLost'
  <1>1. {x \in Entities : alive'[x]} = {}
    BY DEF Clear
  <1>2. nextEntity' = 0 /\ liveCount' = 0
    BY DEF Clear
  <1> QED
    BY <1>1, <1>2, FS_EmptySet DEF NoNumberLost

\* No number is lost, and entity_count() counts the live entities: every number
\* handed out since the last clear() is alive or waits to be used again.
THEOREM RegistryLosesNoNumber == Spec => []NoNumberLost
  <1>1. Init => NoNumberLost
    <2> SUFFICES ASSUME Init PROVE NoNumberLost
      OBVIOUS
    <2>1. {x \in Entities : alive[x]} = {} /\ nextEntity = 0 /\ liveCount = 0
      BY DEF Init
    <2> QED
      BY <2>1, FS_EmptySet DEF NoNumberLost
  <1>2. RegistryInv /\ NoNumberLost /\ [Next]_vars => NoNumberLost'
    <2> SUFFICES ASSUME RegistryInv, NoNumberLost, [Next]_vars
                 PROVE  NoNumberLost'
      OBVIOUS
    <2>1. CASE CreateRecycled
      BY <2>1, CreateRecycledLosesNone
    <2>2. CASE CreateFresh
      BY <2>2, CreateFreshLosesNone
    <2>3. CASE \E capacity \in 1 .. MaxEntities : Reserve(capacity)
      BY <2>3, OthersLoseNone DEF Reserve
    <2>4. CASE \E e \in Entities : Destroy(e)
      BY <2>4, DestroyLosesNone
    <2>5. CASE \E c \in Components, e \in Entities : Remove(c, e)
      BY <2>5, OthersLoseNone DEF Remove, idVars
    <2>6. CASE \E c \in Components, e \in Entities, v \in Values :
                  AddNew(c, e, v) \/ Assign(c, e, v)
      BY <2>6, OthersLoseNone DEF AddNew, Assign, idVars
    <2>7. CASE \E c \in Components : ClearRack(c)
      BY <2>7, OthersLoseNone DEF ClearRack, idVars
    <2>8. CASE Clear
      BY <2>8, ClearLosesNone
    <2>9. CASE UNCHANGED vars
      BY <2>9, OthersLoseNone DEF vars, idVars
    <2> QED
      BY <2>1, <2>2, <2>3, <2>4, <2>5, <2>6, <2>7, <2>8, <2>9 DEF Next
  <1> QED
    BY <1>1, <1>2, RegistryInvariant, PTL DEF Spec

-----------------------------------------------------------------------------
(***************************************************************************)
(* The registry implements EntityStore: what get() answers, step by step.  *)
(***************************************************************************)

\* Taking one entity out of a rack moves no value to another entity.
LEMMA ErasedRackValues ==
    ASSUME TypeOK, NEW c \in Components, RackAgrees(c),
           NEW e \in Entities, Has(c, e), Erased(c, e),
           NEW x \in Entities, x # e, Has(c, x)
    PROVE  Has(c, x)' /\ Get(c, x)' = Get(c, x)
  <1> DEFINE n == Len(denseValues[c])
             slot == sparse[c][e]
             last == denseEntities[c][n]
  <1>1. /\ denseValues[c] \in Seq(Values)
        /\ sparse[c] \in [Entities -> Nat]
        /\ n \in Nat
        /\ slot \in 1 .. n /\ denseEntities[c][slot] = e
        /\ sparse[c][x] \in 1 .. n /\ denseEntities[c][sparse[c][x]] = x
    BY DEF TypeOK, RackAgrees
  <1>2. Has(c, x)'
    BY ErasedRackAgrees
  <1>3. \A s \in 1 .. n - 1 :
           denseValues'[c][s] = IF s = slot THEN denseValues[c][n]
                                ELSE denseValues[c][s]
    <2>1. denseValues'[c] = Removed(denseValues[c], slot)
      BY DEF Erased
    <2>2. denseValues[c] \in Seq(Values) /\ slot \in 1 .. Len(denseValues[c])
      BY <1>1
    <2>3. \A s \in 1 .. Len(denseValues[c]) - 1 :
             Removed(denseValues[c], slot)[s]
                 = IF s = slot THEN denseValues[c][Len(denseValues[c])]
                   ELSE denseValues[c][s]
      BY <2>2, RemovedIsShorter
    <2> QED
      BY <2>1, <2>3
  <1>4. sparse'[c][x] = IF x = last THEN slot ELSE sparse[c][x]
    BY DEF Erased, Unlinked
  <1>5. Get(c, x) = denseValues[c][sparse[c][x]]
    BY DEF Get
  <1>6. Get(c, x)' = denseValues'[c][sparse'[c][x]]
    BY <1>2 DEF Get
  <1>7. x = last => sparse[c][x] = n
    <2>1. \A s \in 1 .. n : sparse[c][denseEntities[c][s]] = s
      BY DEF RackAgrees
    <2>2. n \in 1 .. n
      BY <1>1
    <2> QED
      BY <2>1, <2>2
  <1> HIDE DEF n, slot
  <1>8. CASE x = last
    <2>1. slot # n /\ slot \in 1 .. n - 1
      BY <1>1, <1>8
    <2> QED
      BY <1>2, <1>3, <1>4, <1>5, <1>6, <1>7, <1>8, <2>1
  <1>9. CASE x # last
    <2>1. sparse[c][x] # n /\ sparse[c][x] # slot
      BY <1>1, <1>9
    <2>2. sparse[c][x] \in 1 .. n - 1
      BY <1>1, <2>1
    <2> QED
      BY <1>2, <1>3, <1>4, <1>5, <1>6, <1>9, <2>1, <2>2
  <1> QED
    BY <1>8, <1>9

\* A step that leaves the racks alone leaves every answer of get() alone.
LEMMA GetUntouched ==
    ASSUME UNCHANGED rackVars
    PROVE  \A c \in Components, e \in Entities : Get(c, e)' = Get(c, e)
  BY DEF rackVars, Get, Has

\* The two sets of entity numbers are the same.
LEMMA SameEntities == Store!Entities = Entities
  BY DEF Store!Entities, Entities

\* Every step of the registry is a step of the store, or none.
THEOREM RegistryRefinesStore == Spec => ImplementsStore
  <1> USE SameEntities
  <1> DEFINE bLive == {e \in Entities : alive[e]}
             bComponent == [c \in Components |-> [e \in Entities |-> Get(c, e)]]
  <1>1. Init => Store!Init
    BY DEF Init, Store!Init, Store!Nothing, Get, Has
  <1>2. RegistryInv /\ RegistryInv' /\ [Next]_vars => [Store!Next]_(Store!vars)
    <2> SUFFICES ASSUME RegistryInv, RegistryInv', [Next]_vars
                 PROVE  [Store!Next]_(Store!vars)
      OBVIOUS
    <2>1. ASSUME UNCHANGED rackVars
          PROVE  bComponent' = bComponent
      BY <2>1, GetUntouched
    <2>2. ASSUME UNCHANGED idVars
          PROVE  bLive' = bLive
      BY <2>2 DEF idVars
    <2>3. CASE CreateRecycled
      <3> DEFINE e == recycled[Len(recycled)]
      <3>1. e \in Entities /\ ~alive[e]
        BY <2>3 DEF RegistryInv, TypeOK, NumbersAgree, CreateRecycled
      <3>2. bLive' = bLive \cup {e}
        BY <2>3, <3>1 DEF CreateRecycled, RegistryInv, TypeOK
      <3>3. \A c \in Components : Get(c, e) = Absent
        BY <3>1 DEF RegistryInv, NoGhosts, Get
      <3>4. bComponent' = bComponent
        BY <2>1, <2>3 DEF CreateRecycled
      <3>5. PICK x \in Entities : x = e
        BY <3>1
      <3> HIDE DEF e
      <3>6. Store!Create(x)
        BY <3>1, <3>2, <3>3, <3>4, <3>5 DEF Store!Create
      <3> QED
        BY <3>6 DEF Store!Next
    <2>4. CASE CreateFresh
      <3>1. nextEntity \in Entities /\ ~alive[nextEntity] /\ nextEntity <= known
            /\ known \in Nat /\ nextEntity \in Nat
        BY <2>4, MaxEntitiesAssumption
           DEF RegistryInv, TypeOK, NumbersAgree, CreateFresh, Entities
      <3>2. \A x \in Entities : x \in known .. nextEntity => x = nextEntity
        BY <3>1 DEF Entities
      <3>3. bLive' = bLive \cup {nextEntity}
        BY <2>4, <3>1, <3>2 DEF CreateFresh
      <3>4. \A c \in Components : Get(c, nextEntity) = Absent
        BY <3>1 DEF RegistryInv, NoGhosts, Get
      <3>5. bComponent' = bComponent
        BY <2>1, <2>4 DEF CreateFresh
      <3>6. PICK x \in Entities : x = nextEntity
        BY <3>1
      <3>7. Store!Create(x)
        BY <3>1, <3>3, <3>4, <3>5, <3>6 DEF Store!Create
      <3> QED
        BY <3>7 DEF Store!Next
    <2>5. CASE \E capacity \in 1 .. MaxEntities : Reserve(capacity)
      <3>1. bLive' = bLive /\ bComponent' = bComponent
        BY <2>1, <2>5 DEF Reserve
      <3> QED
        BY <3>1 DEF Store!vars
    <2>6. ASSUME NEW e \in Entities, Destroy(e)
          PROVE  Store!Next
      <3>1. bLive' = bLive \ {e} /\ e \in bLive
        BY <2>6 DEF Destroy, RegistryInv, TypeOK
      <3>2. \A c \in Components, x \in Entities :
               Get(c, x)' = IF x = e THEN Absent ELSE Get(c, x)
        <4> SUFFICES ASSUME NEW c \in Components, NEW x \in Entities
                     PROVE  Get(c, x)' = IF x = e THEN Absent ELSE Get(c, x)
          OBVIOUS
        <4>1. Has(c, x)' <=> Has(c, x) /\ x # e
          BY <2>6, DestroyErases
        <4>2. CASE ~Has(c, x) \/ x = e
          BY <4>1, <4>2 DEF Get
        <4>3. CASE Has(c, x) /\ x # e /\ Has(c, e)
          <5>1. Erased(c, e)
            BY <2>6, <4>3 DEF Destroy, Erased
          <5> QED
            BY <4>3, <5>1, ErasedRackValues DEF RegistryInv, RacksAgree
        <4>4. CASE Has(c, x) /\ x # e /\ ~Has(c, e)
          <5>1. denseValues'[c] = denseValues[c] /\ sparse'[c] = sparse[c]
            BY <2>6, <4>4 DEF Destroy
          <5> QED
            BY <4>1, <4>4, <5>1 DEF Get
        <4> QED
          BY <4>2, <4>3, <4>4
      <3>3. bComponent' = [c \in Components |-> [bComponent[c] EXCEPT ![e] = Absent]]
        BY <3>2
      <3>4. Store!Destroy(e)
        BY <3>1, <3>3 DEF Store!Destroy
      <3> QED
        BY <3>4 DEF Store!Next
    <2>7. ASSUME NEW c \in Components, NEW e \in Entities, Remove(c, e)
          PROVE  Store!Next
      <3>1. bLive' = bLive /\ e \in bLive
        BY <2>2, <2>7 DEF Remove, RegistryInv, NoGhosts
      <3>2. Erased(c, e) /\ Has(c, e)
        BY <2>7 DEF Remove, Erased, RegistryInv, TypeOK
      <3>3. \A d \in Components, x \in Entities :
               Get(d, x)' = IF d = c /\ x = e THEN Absent ELSE Get(d, x)
        <4> SUFFICES ASSUME NEW d \in Components, NEW x \in Entities
                     PROVE  Get(d, x)' = IF d = c /\ x = e THEN Absent ELSE Get(d, x)
          OBVIOUS
        <4>1. Has(d, x)' <=> Has(d, x) /\ ~(d = c /\ x = e)
          BY <2>7, RemoveErases
        <4>2. CASE ~Has(d, x) \/ (d = c /\ x = e)
          BY <4>1, <4>2 DEF Get
        <4>3. CASE Has(d, x) /\ d = c /\ x # e
          BY <3>2, <4>3, ErasedRackValues DEF RegistryInv, RacksAgree
        <4>4. CASE Has(d, x) /\ d # c
          <5>1. denseValues'[d] = denseValues[d] /\ sparse'[d] = sparse[d]
            BY <2>7, <4>4 DEF Remove, RegistryInv, TypeOK
          <5> QED
            BY <4>1, <4>4, <5>1 DEF Get
        <4> QED
          BY <4>2, <4>3, <4>4
      <3>4. bComponent' = [bComponent EXCEPT ![c][e] = Absent]
        BY <3>3
      <3>5. Store!Set(c, e, Absent)
        BY <3>1, <3>4 DEF Store!Set
      <3> QED
        BY <3>5 DEF Store!Next
    <2>8. ASSUME NEW c \in Components, NEW e \in Entities, NEW v \in Values,
                 AddNew(c, e, v)
          PROVE  Store!Next
      <3>1. bLive' = bLive /\ e \in bLive
        BY <2>2, <2>8 DEF AddNew
      <3>2. \A d \in Components, x \in Entities :
               Get(d, x)' = IF d = c /\ x = e THEN v ELSE Get(d, x)
        <4> SUFFICES ASSUME NEW d \in Components, NEW x \in Entities
                     PROVE  Get(d, x)' = IF d = c /\ x = e THEN v ELSE Get(d, x)
          OBVIOUS
        <4>1. /\ denseValues[c] \in Seq(Values)
              /\ sparse'[c] = [sparse[c] EXCEPT ![e] = Len(denseValues[c]) + 1]
              /\ denseValues'[c] = Append(denseValues[c], v)
              /\ sparse[c] \in [Entities -> Nat]
          BY <2>8 DEF AddNew, RegistryInv, TypeOK
        <4>2. CASE d = c /\ x = e
          BY <4>1, <4>2 DEF Get, Has, NoSlot
        <4>3. CASE d = c /\ x # e
          <5>1. sparse'[c][x] = sparse[c][x]
            BY <4>1, <4>3
          <5>2. Has(c, x) => sparse[c][x] \in 1 .. Len(denseValues[c])
            BY DEF RegistryInv, RacksAgree, RackAgrees
          <5> QED
            BY <4>1, <4>3, <5>1, <5>2 DEF Get, Has
        <4>4. CASE d # c
          BY <2>8, <4>4 DEF AddNew, RegistryInv, TypeOK, Get, Has
        <4> QED
          BY <4>2, <4>3, <4>4
      <3>3. bComponent' = [bComponent EXCEPT ![c][e] = v]
        BY <3>2
      <3>4. Store!Set(c, e, v)
        BY <3>1, <3>3 DEF Store!Set
      <3> QED
        BY <3>4 DEF Store!Next
    <2>9. ASSUME NEW c \in Components, NEW e \in Entities, NEW v \in Values,
                 Assign(c, e, v)
          PROVE  Store!Next
      <3>1. bLive' = bLive /\ e \in bLive
        BY <2>2, <2>9 DEF Assign, RegistryInv, NoGhosts
      <3>2. \A d \in Components, x \in Entities :
               Get(d, x)' = IF d = c /\ x = e THEN v ELSE Get(d, x)
        <4> SUFFICES ASSUME NEW d \in Components, NEW x \in Entities
                     PROVE  Get(d, x)' = IF d = c /\ x = e THEN v ELSE Get(d, x)
          OBVIOUS
        <4>1. /\ denseValues[c] \in Seq(Values)
              /\ denseValues'[c] = [denseValues[c] EXCEPT ![sparse[c][e]] = v]
              /\ sparse' = sparse
              /\ Has(c, e)
          BY <2>9 DEF Assign, RegistryInv, TypeOK
        <4>2. \A y \in Entities :
                 Has(c, y) => /\ sparse[c][y] \in 1 .. Len(denseValues[c])
                              /\ denseEntities[c][sparse[c][y]] = y
          BY DEF RegistryInv, RacksAgree, RackAgrees
        <4>3. CASE d = c /\ x = e
          BY <4>1, <4>2, <4>3 DEF Get, Has
        <4>4. CASE d = c /\ x # e
          <5>1. Has(c, x) => sparse[c][x] # sparse[c][e]
            BY <4>1, <4>2, <4>4
          <5> QED
            BY <4>1, <4>2, <4>4, <5>1 DEF Get, Has
        <4>5. CASE d # c
          BY <2>9, <4>5 DEF Assign, RegistryInv, TypeOK, Get, Has
        <4> QED
          BY <4>3, <4>4, <4>5
      <3>3. bComponent' = [bComponent EXCEPT ![c][e] = v]
        BY <3>2
      <3>4. Store!Set(c, e, v)
        BY <3>1, <3>3 DEF Store!Set
      <3> QED
        BY <3>4 DEF Store!Next
    <2>10. ASSUME NEW c \in Components, ClearRack(c)
           PROVE  Store!Next
      <3>1. bLive' = bLive
        BY <2>2, <2>10 DEF ClearRack
      <3>2. \A d \in Components, x \in Entities :
               Get(d, x)' = IF d = c THEN Absent ELSE Get(d, x)
        BY <2>10 DEF ClearRack, RegistryInv, TypeOK, Get, Has
      <3>3. bComponent' = [bComponent EXCEPT ![c] = Store!Nothing[c]]
        BY <3>2 DEF Store!Nothing
      <3>4. Store!ClearComponent(c)
        BY <3>1, <3>3 DEF Store!ClearComponent
      <3> QED
        BY <3>4 DEF Store!Next
    <2>11. CASE Clear
      <3>1. bLive' = {} /\ bComponent' = Store!Nothing
        BY <2>11 DEF Clear, Get, Has, Store!Nothing
      <3> QED
        BY <3>1 DEF Store!Clear, Store!Next
    <2>12. CASE UNCHANGED vars
      <3>1. UNCHANGED rackVars /\ UNCHANGED idVars
        BY <2>12 DEF vars
      <3> QED
        BY <3>1, <2>1, <2>2 DEF Store!vars
    <2> QED
      BY <2>3, <2>4, <2>5, <2>6, <2>7, <2>8, <2>9, <2>10, <2>11, <2>12 DEF Next
  <1> QED
    BY <1>1, <1>2, RegistryInvariant, PTL DEF Spec, ImplementsStore, Store!Spec

==============================================================================
