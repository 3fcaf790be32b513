--------------------------- MODULE AssetBankProofs ---------------------------
(***************************************************************************)
(* The store, for any number of slots and of objects in each: the free     *)
(* list and the magics say truly which slots are empty, create() never     *)
(* returns a handle twice, and a handle that lost its object never names   *)
(* another.                                                                *)
(*                                                                         *)
(* The bank, for any URIs, ids and hashes: it uses its store as a client   *)
(* may, each asset names an object of its own and no object is without     *)
(* one, a composite key whose hash belongs to no other URI finds its own   *)
(* asset, and a URI used alone keeps its own.                              *)
(*                                                                         *)
(* HandlesLive is not inductive alone: that an object is made where none   *)
(* is, and so is named by no asset yet, is what StoreInv says; and StoreInv*)
(* holds of the bank only as long as it destroys what it was given, which  *)
(* is AssetsKept.  OneEach and PlainOnce are what each kind of key has     *)
(* instead of an order: there is one asset only that a search could find.  *)
(***************************************************************************)
EXTENDS AssetBank, SequenceTheorems, WellFoundedInduction, TLAPS

-----------------------------------------------------------------------------
(***************************************************************************)
(* The store                                                               *)
(***************************************************************************)

\* A sequence without its last element.
LEMMA FrontOf ==
  ASSUME NEW S, NEW s \in Seq(S), s # <<>>
  PROVE  /\ Len(s) \in Nat \ {0}
         /\ SubSeq(s, 1, Len(s) - 1) \in Seq(S)
         /\ Len(SubSeq(s, 1, Len(s) - 1)) = Len(s) - 1
         /\ \A k \in 1 .. Len(s) - 1 : SubSeq(s, 1, Len(s) - 1)[k] = s[k]
<1>1. Len(s) \in Nat \ {0} /\ \A k \in 1 .. Len(s) : s[k] \in S
  BY EmptySeq
<1>2. Len(s) - 1 \in Int /\ \A k \in 1 .. Len(s) - 1 : s[k] \in S
  BY <1>1
<1>3. SubSeq(s, 1, Len(s) - 1) = [k \in 1 .. Len(s) - 1 |-> s[k]]
  BY <1>1
<1>4. [k \in 1 .. Len(s) - 1 |-> s[k]] \in [1 .. Len(s) - 1 -> S]
  BY <1>2
<1>5. Len([k \in 1 .. Len(s) - 1 |-> s[k]]) = Len(s) - 1
  BY <1>1
<1>6. [k \in 1 .. Len(s) - 1 |-> s[k]] \in Seq(S)
  BY <1>1, <1>4
<1>7. \A k \in 1 .. Len(s) - 1 : [j \in 1 .. Len(s) - 1 |-> s[j]][k] = s[k]
  OBVIOUS
<1> QED
  BY <1>1, <1>3, <1>5, <1>6, <1>7, Zenon

\* The number after an odd one is even.
LEMMA NextIsEven ==
  ASSUME NEW n \in Nat, n % 2 = 1
  PROVE  (n + 1) % 2 = 0
  BY SMT

LEMMA NextIsOdd ==
  ASSUME NEW n \in Nat, n % 2 # 1
  PROVE  (n + 1) % 2 = 1
  BY SMT

LEMMA InitStoreInv == Init => StoreInv
<1> SUFFICES ASSUME Init PROVE StoreInv
  OBVIOUS
<1>1. /\ magic \in Seq(0 .. MaxMagic) /\ active \in Seq(BOOLEAN)
      /\ freed \in Seq(1 .. MaxSlots)
      /\ Len(magic) = 0 /\ Len(active) = 0 /\ Len(freed) = 0
  BY EmptySeq DEF Init
<1> QED
  BY <1>1, MaxSlotsAssumption
     DEF Init, StoreInv, TypeOK, MagicParity, FreedAreEmpty, IssuedArePast

\* An object is made in the slot that was freed last.
LEMMA CreateInFreedStep ==
  ASSUME StoreInv, NEW h \in Handles, CreateInFreed(h)
  PROVE  StoreInv'
<1> USE MaxSlotsAssumption, MaxMagicAssumption DEF StoreInv, CreateInFreed
<1>0. /\ h.index \in 1 .. MaxSlots /\ h.magic \in 0 .. MaxMagic
      /\ Len(freed) \in Nat \ {0} /\ Len(magic) \in Nat
      /\ \A k \in 1 .. Len(freed) : freed[k] \in 1 .. MaxSlots
  BY FrontOf DEF TypeOK, Handles
<1>1. /\ h.index \in 1 .. Len(magic) /\ ~active[h.index]
      /\ magic[h.index] \in 0 .. MaxMagic
  BY <1>0, SMTT(30) DEF TypeOK, FreedAreEmpty
<1>2. /\ freed' \in Seq(1 .. MaxSlots)
      /\ Len(freed') = Len(freed) - 1
      /\ \A k \in 1 .. Len(freed') : freed'[k] = freed[k]
  BY FrontOf DEF TypeOK
<1>3. /\ magic' \in Seq(0 .. MaxMagic) /\ Len(magic') = Len(magic)
      /\ active' \in Seq(BOOLEAN) /\ Len(active') = Len(active)
  BY <1>0, <1>1, ExceptSeq DEF TypeOK
<1>4. \A i \in 1 .. Len(magic) :
         /\ i = h.index => magic'[i] = magic[i] + 1 /\ active'[i]
         /\ i # h.index => magic'[i] = magic[i] /\ (active'[i] <=> active[i])
  BY <1>0, <1>1 DEF TypeOK
<1>5. TypeOK'
  <2>1. \A i \in 1 .. Len(magic') : active'[i] => magic'[i] < MaxMagic
    BY <1>0, <1>1, <1>3, <1>4 DEF TypeOK
  <2> QED
    BY <1>2, <1>3, <2>1 DEF TypeOK
<1>6. MagicParity'
  <2> SUFFICES ASSUME NEW i \in 1 .. Len(magic)
               PROVE  active'[i] <=> magic'[i] % 2 = 1
    BY <1>3 DEF MagicParity
  <2>1. CASE i = h.index
    <3>1. magic[i] \in Nat /\ magic[i] % 2 # 1
      BY <2>1, <1>1 DEF MagicParity
    <3>2. (magic[i] + 1) % 2 = 1
      BY <3>1, NextIsOdd
    <3> QED
      BY <2>1, <3>2, <1>4
  <2>2. CASE i # h.index
    BY <2>2, <1>4 DEF MagicParity
  <2> QED
    BY <2>1, <2>2
<1>7. FreedAreEmpty'
  <2>1. \A j, k \in 1 .. Len(freed) : freed[j] = freed[k] => j = k
    BY DEF FreedAreEmpty
  <2>2. \A k \in 1 .. Len(freed') :
           /\ k \in 1 .. Len(freed) /\ freed'[k] = freed[k]
           /\ freed[k] # h.index
    BY <1>0, <1>2, <2>1
  <2>3. \A k \in 1 .. Len(freed') : freed'[k] <= Len(magic') /\ ~active'[freed'[k]]
    <3> SUFFICES ASSUME NEW k \in 1 .. Len(freed')
                 PROVE  freed'[k] <= Len(magic') /\ ~active'[freed'[k]]
      OBVIOUS
    <3>1. /\ freed[k] <= Len(magic) /\ ~active[freed[k]]
          /\ freed[k] \in 1 .. MaxSlots
      BY <2>2, <1>0 DEF FreedAreEmpty
    <3>2. freed[k] \in 1 .. Len(magic)
      BY <3>1, <1>0
    <3> QED
      BY <3>1, <3>2, <2>2, <1>3, <1>4
  <2>4. ASSUME NEW i \in 1 .. Len(magic'), ~active'[i]
        PROVE  \E k \in 1 .. Len(freed') : freed'[k] = i
    <3>1. i # h.index /\ i \in 1 .. Len(magic) /\ ~active[i]
      BY <2>4, <1>3, <1>4
    <3>2. PICK k \in 1 .. Len(freed) : freed[k] = i
      BY <3>1 DEF FreedAreEmpty
    <3>3. k \in 1 .. Len(freed')
      BY <3>1, <3>2, <1>0, <1>2
    <3> QED
      BY <3>2, <3>3, <1>2
  <2>5. \A j, k \in 1 .. Len(freed') : freed'[j] = freed'[k] => j = k
    BY <2>1, <2>2
  <2> QED
    BY <2>3, <2>4, <2>5 DEF FreedAreEmpty
<1>8. IssuedArePast'
  <2> SUFFICES ASSUME NEW g \in issued'
               PROVE  g.index <= Len(magic') /\ g.magic <= magic'[g.index]
    BY DEF IssuedArePast
  <2>1. CASE g = h
    BY <2>1, <1>0, <1>1, <1>3, <1>4
  <2>2. CASE g # h
    <3>1. g \in issued
      BY <2>2
    <3>2. /\ g.index \in 1 .. Len(magic) /\ g.magic \in Nat
          /\ g.magic <= magic[g.index] /\ magic[g.index] \in Nat
      BY <3>1, <1>0 DEF IssuedArePast, TypeOK, Handles
    <3> QED
      BY <1>3, <1>4, <3>2, SMTT(30)
  <2> QED
    BY <2>1, <2>2
<1> QED
  BY <1>5, <1>6, <1>7, <1>8

\* An object is made in a slot that is added for it.
LEMMA CreateInNewStep ==
  ASSUME StoreInv, NEW h \in Handles, CreateInNew(h)
  PROVE  StoreInv'
<1> USE MaxSlotsAssumption, MaxMagicAssumption DEF StoreInv, CreateInNew
<1>1. /\ Len(magic) \in Nat /\ Len(active) = Len(magic)
      /\ h.index = Len(magic) + 1 /\ h.magic = 1
      /\ Len(freed) = 0
  BY EmptySeq DEF TypeOK
<1>2. /\ magic' \in Seq(0 .. MaxMagic) /\ Len(magic') = Len(magic) + 1
      /\ \A i \in 1 .. Len(magic) : magic'[i] = magic[i]
      /\ magic'[Len(magic) + 1] = 1
  BY <1>1 DEF TypeOK
<1>3. /\ active' \in Seq(BOOLEAN) /\ Len(active') = Len(magic) + 1
      /\ \A i \in 1 .. Len(magic) : active'[i] <=> active[i]
      /\ active'[Len(magic) + 1]
  BY <1>1 DEF TypeOK
<1>4. TypeOK'
  BY <1>1, <1>2, <1>3 DEF TypeOK
<1>5. MagicParity'
  BY <1>1, <1>2, <1>3 DEF MagicParity
<1>6. FreedAreEmpty'
  BY <1>1, <1>2, <1>3 DEF FreedAreEmpty, TypeOK
<1>7. IssuedArePast'
  <2> SUFFICES ASSUME NEW g \in issued'
               PROVE  g.index <= Len(magic') /\ g.magic <= magic'[g.index]
    BY DEF IssuedArePast
  <2>1. CASE g = h
    BY <2>1, <1>1, <1>2
  <2>2. CASE g # h
    <3>1. g \in issued /\ g.index \in Nat \ {0}
      BY <2>2, <1>4 DEF TypeOK, Handles
    <3>2. g.index <= Len(magic) /\ g.magic <= magic[g.index]
      BY <3>1 DEF IssuedArePast
    <3> QED
      BY <1>1, <1>2, <3>1, <3>2
  <2> QED
    BY <2>1, <2>2
<1> QED
  BY <1>4, <1>5, <1>6, <1>7

\* The object that a handle names is destroyed.
LEMMA DestroyStep ==
  ASSUME StoreInv, NEW h \in issued \cup {Null}, Destroy(h)
  PROVE  StoreInv'
<1> USE MaxSlotsAssumption, MaxMagicAssumption DEF StoreInv, Destroy, Resolves
<1>1. /\ h.index \in 1 .. Len(magic) /\ active[h.index]
      /\ h.index \in Nat /\ h.index <= MaxSlots
      /\ h.magic = magic[h.index]
  BY DEF TypeOK
<1>2. /\ freed' \in Seq(1 .. MaxSlots)
      /\ Len(freed') = Len(freed) + 1
      /\ \A k \in 1 .. Len(freed) : freed'[k] = freed[k]
      /\ freed'[Len(freed) + 1] = h.index
  BY <1>1 DEF TypeOK
<1>3. /\ magic[h.index] \in 0 .. MaxMagic - 1
      /\ magic' = [magic EXCEPT ![h.index] = magic[h.index] + 1]
  BY <1>1 DEF TypeOK
<1>4. /\ magic' \in Seq(0 .. MaxMagic) /\ Len(magic') = Len(magic)
      /\ active' \in Seq(BOOLEAN) /\ Len(active') = Len(active)
  BY <1>1, <1>3, SMTT(30) DEF TypeOK
<1>5. \A i \in 1 .. Len(magic) :
         /\ i = h.index => magic'[i] = magic[i] + 1 /\ ~active'[i]
         /\ i # h.index => magic'[i] = magic[i] /\ (active'[i] <=> active[i])
  BY <1>1, <1>3, SMTT(30) DEF TypeOK
<1>6. TypeOK'
  <2>1. \A i \in 1 .. Len(magic') : active'[i] => magic'[i] < MaxMagic
    BY <1>4, <1>5 DEF TypeOK
  <2>2. activeCount' \in Int
    BY DEF TypeOK
  <2> QED
    BY <1>2, <1>4, <2>1, <2>2 DEF TypeOK
<1>7. MagicParity'
  <2> SUFFICES ASSUME NEW i \in 1 .. Len(magic)
               PROVE  active'[i] <=> magic'[i] % 2 = 1
    BY <1>4 DEF MagicParity
  <2>1. CASE i = h.index
    BY <2>1, <1>1, <1>3, <1>5, NextIsEven, SMTT(30) DEF MagicParity
  <2>2. CASE i # h.index
    BY <2>2, <1>5 DEF MagicParity
  <2> QED
    BY <2>1, <2>2
<1>8. FreedAreEmpty'
  <2>1. \A k \in 1 .. Len(freed) : freed[k] # h.index
    BY <1>1 DEF FreedAreEmpty
  <2>2. \A k \in 1 .. Len(freed') : freed'[k] <= Len(magic') /\ ~active'[freed'[k]]
    BY <1>1, <1>2, <1>4, <1>5, SMTT(30) DEF FreedAreEmpty, TypeOK
  <2>3. \A i \in 1 .. Len(magic') :
           ~active'[i] => \E k \in 1 .. Len(freed') : freed'[k] = i
    BY <1>2, <1>4, <1>5 DEF FreedAreEmpty, TypeOK
  <2>4. \A j, k \in 1 .. Len(freed') : freed'[j] = freed'[k] => j = k
    BY <1>2, <2>1 DEF FreedAreEmpty, TypeOK
  <2> QED
    BY <2>2, <2>3, <2>4 DEF FreedAreEmpty
<1>9. IssuedArePast'
  <2> SUFFICES ASSUME NEW g \in issued
               PROVE  g.index <= Len(magic') /\ g.magic <= magic'[g.index]
    BY DEF IssuedArePast
  <2>1. /\ g.index \in 1 .. Len(magic) /\ g.magic \in Nat
        /\ g.magic <= magic[g.index] /\ magic[g.index] \in Nat
    BY DEF IssuedArePast, TypeOK, Handles
  <2> QED
    BY <1>4, <1>5, <2>1, SMTT(30)
<1> QED
  BY <1>6, <1>7, <1>8, <1>9

LEMMA NextStoreInv == StoreInv /\ [Next]_vars => StoreInv'
<1> SUFFICES ASSUME StoreInv, [Next]_vars PROVE StoreInv'
  OBVIOUS
<1>1. ASSUME NEW h \in Handles, Create(h) PROVE StoreInv'
  BY <1>1, CreateInFreedStep, CreateInNewStep DEF Create
<1>2. ASSUME NEW h \in issued \cup {Null}, Destroy(h) PROVE StoreInv'
  BY <1>2, DestroyStep
<1>3. CASE UNCHANGED vars
  BY <1>3 DEF StoreInv, TypeOK, MagicParity, FreedAreEmpty, IssuedArePast,
              vars, storeVars
<1> QED
  BY <1>1, <1>2, <1>3 DEF Next, DestroyStale

\* The free list holds every empty slot once, a slot's magic is odd while an
\* object is in it, and no handle is ahead of its slot: construct() always
\* meets an empty slot, and size() ones that are taken.
THEOREM StoreInvariant == Spec => []StoreInv
  BY InitStoreInv, NextStoreInv, PTL DEF Spec

\* create() returns a handle that it has never returned, however often slots
\* were used: two objects are never mistaken for each other.
THEOREM StoreFreshHandles == Spec => FreshHandles
<1>1. StoreInv => \A h \in Handles : Create(h) => h \notin issued
  <2> SUFFICES ASSUME StoreInv, NEW h \in Handles, Create(h), h \in issued
               PROVE  FALSE
    OBVIOUS
  <2>0. Len(magic) \in Nat /\ h.index \in 1 .. MaxSlots /\ h.magic \in 0 .. MaxMagic
    BY DEF StoreInv, TypeOK, Handles
  <2>1. /\ h.index \in 1 .. Len(magic)
        /\ h.magic <= magic[h.index] /\ magic[h.index] \in Nat
    <3>1. h.index <= Len(magic) /\ h.magic <= magic[h.index]
      BY DEF StoreInv, IssuedArePast
    <3>2. magic \in Seq(0 .. MaxMagic)
      BY DEF StoreInv, TypeOK
    <3>3. h.index \in 1 .. Len(magic)
      BY <2>0, <3>1, MaxSlotsAssumption
    <3> QED
      BY <3>1, <3>2, <3>3, MaxMagicAssumption
  <2> QED
    <3>1. CASE CreateInFreed(h)
      BY <3>1, <2>0, <2>1 DEF CreateInFreed
    <3>2. CASE CreateInNew(h)
      <4>1. h.index = Len(magic) + 1
        BY <3>2 DEF CreateInNew
      <4> QED
        BY <4>1, <2>0, <2>1
    <3> QED
      BY <3>1, <3>2 DEF Create
<1> QED
  BY <1>1, StoreInvariant, PTL DEF FreshHandles

\* get() of a handle whose object is gone stays empty: neither the object that
\* took the slot nor any later one answers to it, or is destroyed through it.
THEOREM StoreStaleForEver == Spec => StaleForEver
<1>1. StoreInv /\ [Next]_vars =>
          [\A h \in issued : ~Resolves(h) => ~(Resolves(h)')]_vars
  <2> SUFFICES ASSUME StoreInv, Next, NEW h \in issued, ~Resolves(h), Resolves(h)'
               PROVE  FALSE
    OBVIOUS
  <2> USE DEF StoreInv
  <2>0. Len(magic) \in Nat /\ h.index \in 1 .. MaxSlots /\ h.magic \in 0 .. MaxMagic
    BY DEF TypeOK, Handles
  <2>1. /\ h.index \in 1 .. Len(magic)
        /\ h.magic <= magic[h.index] /\ magic[h.index] \in Nat
        /\ Len(active) = Len(magic)
    <3>1. h.index <= Len(magic) /\ h.magic <= magic[h.index]
      BY DEF IssuedArePast
    <3>2. magic \in Seq(0 .. MaxMagic) /\ Len(active) = Len(magic)
      BY DEF TypeOK
    <3>3. h.index \in 1 .. Len(magic)
      BY <2>0, <3>1, MaxSlotsAssumption
    <3> QED
      BY <3>1, <3>2, <3>3, MaxMagicAssumption
  <2>2. ASSUME NEW g \in Handles, CreateInFreed(g) PROVE FALSE
    BY <2>0, <2>1, <2>2 DEF CreateInFreed, Resolves, TypeOK, FreedAreEmpty
  <2>3. ASSUME NEW g \in Handles, CreateInNew(g) PROVE FALSE
    BY <2>0, <2>1, <2>3 DEF CreateInNew, Resolves, TypeOK
  <2>4. ASSUME NEW g \in issued \cup {Null}, Destroy(g) PROVE FALSE
    BY <2>0, <2>1, <2>4 DEF Destroy, Resolves, TypeOK
  <2>5. ASSUME UNCHANGED vars PROVE FALSE
    BY <2>5 DEF vars, storeVars, Resolves
  <2> QED
    BY <2>2, <2>3, <2>4, <2>5 DEF Next, Create, DestroyStale
<1> QED
  BY <1>1, StoreInvariant, PTL DEF Spec, StaleForEver

-----------------------------------------------------------------------------
(***************************************************************************)
(* What a search finds, and what an erasure leaves                         *)
(***************************************************************************)

\* A set of natural numbers that is not empty has a least member.
LEMMA LeastOf ==
  ASSUME NEW S, S \subseteq Nat, S # {}
  PROVE  \E m \in S : \A k \in S : m <= k
<1> DEFINE R == OpToRel(<, Nat)
<1>1. IsWellFoundedOn(R, Nat)
  BY NatLessThanWellFounded
<1> HIDE DEF R
<1>2. PICK m \in S : \A k \in S : ~(<<k, m>> \in R)
  BY <1>1, WFMin
<1>3. \A k \in S : k < m => <<k, m>> \in R
  BY DEF R, OpToRel
<1>4. \A k \in S : ~(k < m)
  BY <1>2, <1>3
<1> QED
  BY <1>4

LEMMA MinIsMember ==
  ASSUME NEW S, S \subseteq Nat, S # {}
  PROVE  SE!Min(S) \in S
BY LeastOf, Zenon DEF SE!Min

\* The first asset of a URI in s.
FirstOf(s, uri) ==
    LET I == {i \in 1 .. Len(s) : s[i].uri = uri}
    IN IF I # {} THEN SE!Min(I) ELSE 0

LEMMA FirstOfIs ==
  ASSUME NEW s, Len(s) \in Nat, NEW uri
  PROVE  /\ FirstOf(s, uri) # 0 =>
               FirstOf(s, uri) \in 1 .. Len(s) /\ s[FirstOf(s, uri)].uri = uri
         /\ FirstOf(s, uri) = 0 => \A i \in 1 .. Len(s) : s[i].uri # uri
<1> DEFINE I == {i \in 1 .. Len(s) : s[i].uri = uri}
           f == FirstOf(s, uri)
<1>0. f = IF I # {} THEN SE!Min(I) ELSE 0
  BY DEF FirstOf
<1>1. I \subseteq Nat /\ 0 \notin I
  OBVIOUS
<1>2. I # {} => SE!Min(I) \in I
  BY <1>1, MinIsMember
<1> HIDE DEF f
<1>3. I # {} => f \in I /\ f # 0
  BY <1>0, <1>1, <1>2
<1>4. I = {} => f = 0
  BY <1>0
<1>5. /\ f # 0 => f \in 1 .. Len(s) /\ s[f].uri = uri
      /\ f = 0 => \A i \in 1 .. Len(s) : s[i].uri # uri
  BY <1>3, <1>4
<1> QED
  BY <1>5 DEF f

\* find(uri) answers with an asset of the URI, or says that there is none.
LEMMA FoundUri ==
  ASSUME BankTypeOK, NEW uri
  PROVE  /\ FindUri(uri) # 0 => /\ FindUri(uri) \in 1 .. Len(assets)
                                /\ assets[FindUri(uri)].uri = uri
         /\ FindUri(uri) = 0 => \A i \in 1 .. Len(assets) : assets[i].uri # uri
<1>1. FindUri(uri) = FirstOf(assets, uri)
  BY DEF FindUri, FirstOf, SE!SelectInSeq
<1>2. Len(assets) \in Nat
  BY DEF BankTypeOK
<1> QED
  BY <1>1, <1>2, FirstOfIs

\* So does the search by hash.
LEMMA FoundHash ==
  ASSUME BankTypeOK, NEW hash
  PROVE  /\ FindHash(hash) # 0 => /\ FindHash(hash) \in 1 .. Len(assets)
                                  /\ assets[FindHash(hash)].hash = hash
         /\ FindHash(hash) = 0 =>
               \A i \in 1 .. Len(assets) : assets[i].hash # hash
<1> DEFINE I == {i \in 1 .. Len(assets) : assets[i].hash = hash}
<1>1. FindHash(hash) = IF I # {} THEN SE!Min(I) ELSE 0
  BY DEF FindHash, SE!SelectInSeq
<1>2. I \subseteq Nat /\ 0 \notin I
  BY DEF BankTypeOK
<1>3. I # {} => SE!Min(I) \in I
  BY <1>2, MinIsMember
<1>4. I # {} => FindHash(hash) \in I /\ FindHash(hash) # 0
  BY <1>1, <1>2, <1>3
<1>5. I = {} => FindHash(hash) = 0
  BY <1>1
<1> QED
  BY <1>4, <1>5

\* And the search by both.
LEMMA FoundBoth ==
  ASSUME BankTypeOK, NEW uri, NEW hash, FindBoth(uri, hash) # 0
  PROVE  /\ FindBoth(uri, hash) \in 1 .. Len(assets)
         /\ assets[FindBoth(uri, hash)].uri = uri
<1> DEFINE I == {i \in 1 .. Len(assets) :
                    assets[i].hash = hash /\ assets[i].uri = uri}
<1>1. FindBoth(uri, hash) = IF I # {} THEN SE!Min(I) ELSE 0
  BY DEF FindBoth, SE!SelectInSeq
<1>2. I \subseteq Nat
  BY DEF BankTypeOK
<1>3. I # {} => SE!Min(I) \in I
  BY <1>2, MinIsMember
<1>4. FindBoth(uri, hash) \in I
  BY <1>1, <1>3
<1> QED
  BY <1>4

\* erase(i): the later assets move down by one.
LEMMA RemovedAt ==
  ASSUME NEW S, NEW s \in Seq(S), NEW i \in 1 .. Len(s)
  PROVE  /\ SE!RemoveAt(s, i) \in Seq(S)
         /\ Len(SE!RemoveAt(s, i)) = Len(s) - 1
         /\ \A k \in 1 .. Len(s) - 1 :
               SE!RemoveAt(s, i)[k] = IF k < i THEN s[k] ELSE s[k + 1]
<1> DEFINE n == Len(s)
           a == SubSeq(s, 1, i - 1)
           b == SubSeq(s, i + 1, n)
<1>1. n \in Nat /\ i \in Nat /\ 1 <= i /\ i <= n
  OBVIOUS
<1>2. a = [k \in 1 .. i - 1 |-> s[k]] /\ b = [k \in 1 .. n - i |-> s[i + k]]
  <2> HIDE DEF n
  <2>1. 1 + (i - 1) - 1 = i - 1 /\ n - (i + 1) + 1 = n - i
    BY <1>1
  <2> QED
    BY <1>1, <2>1 DEF n
<1>3. a \in Seq(S) /\ Len(a) = i - 1
  BY <1>1, <1>2
<1>4. b \in Seq(S) /\ Len(b) = n - i
  BY <1>1, <1>2
<1>5. SE!RemoveAt(s, i) = a \o b
  BY DEF SE!RemoveAt
<1>6. /\ a \o b \in Seq(S) /\ Len(a \o b) = Len(a) + Len(b)
      /\ \A k \in 1 .. Len(a) + Len(b) :
            (a \o b)[k] = IF k <= Len(a) THEN a[k] ELSE b[k - Len(a)]
  <2> HIDE DEF a, b, n
  <2> QED
    BY <1>3, <1>4, ConcatProperties
<1>7. ASSUME NEW k \in 1 .. n - 1
      PROVE  (a \o b)[k] = IF k < i THEN s[k] ELSE s[k + 1]
  <2>1. (a \o b)[k] = IF k <= i - 1 THEN a[k] ELSE b[k - (i - 1)]
    <3> HIDE DEF a, b, n
    <3> QED
      BY <1>1, <1>3, <1>4, <1>6
  <2> HIDE DEF n
  <2>2. CASE k < i
    <3>1. k \in 1 .. i - 1
      BY <1>1, <2>2
    <3>2. a[k] = s[k]
      BY <1>2, <3>1
    <3> QED
      BY <2>1, <2>2, <3>1, <3>2, <1>1
  <2>3. CASE ~(k < i)
    <3>1. k - (i - 1) \in 1 .. n - i /\ i + (k - (i - 1)) = k + 1
      BY <1>1, <2>3
    <3>2. b[k - (i - 1)] = s[k + 1]
      BY <1>2, <3>1
    <3> QED
      BY <1>1, <2>1, <2>3, <3>2
  <2> QED
    BY <2>2, <2>3
<1>8. Len(a \o b) = n - 1
  <2> HIDE DEF a, b, n
  <2> QED
    BY <1>1, <1>3, <1>4, <1>6
<1> HIDE DEF a, b
<1> QED
  BY <1>5, <1>6, <1>7, <1>8

-----------------------------------------------------------------------------
(***************************************************************************)
(* What the store does to the handles of the assets                        *)
(***************************************************************************)

\* create() answers with a handle that named nothing, and leaves every handle
\* that names an object alone.
LEMMA StoreCreates ==
  ASSUME StoreInv, NEW h \in Handles, Create(h)
  PROVE  /\ ~Resolves(h) /\ Resolves(h)'
         /\ \A g \in Handles : Resolves(g) => Resolves(g)'
         /\ activeCount' = activeCount + 1
         /\ issued' = issued \cup {h}
<1> USE MaxSlotsAssumption, MaxMagicAssumption DEF StoreInv
<1>1. /\ Len(magic) \in Nat /\ Len(active) = Len(magic)
      /\ magic \in Seq(0 .. MaxMagic) /\ active \in Seq(BOOLEAN)
      /\ h.index \in 1 .. MaxSlots /\ h.magic \in 0 .. MaxMagic
  BY DEF TypeOK, Handles
<1>2. CASE CreateInFreed(h)
  <2>1. /\ Len(freed) \in Nat \ {0}
        /\ \A k \in 1 .. Len(freed) : freed[k] \in 1 .. MaxSlots
    BY <1>2, FrontOf DEF TypeOK, CreateInFreed
  <2>2. h.index \in 1 .. Len(magic) /\ ~active[h.index]
    BY <1>1, <1>2, <2>1 DEF FreedAreEmpty, CreateInFreed
  <2>3. /\ Len(magic') = Len(magic)
        /\ magic'[h.index] = h.magic /\ active'[h.index]
        /\ \A i \in 1 .. Len(magic) : i # h.index =>
              magic'[i] = magic[i] /\ active'[i] = active[i]
    BY <1>1, <1>2, <2>2 DEF CreateInFreed
  <2>4. \A g \in Handles : Resolves(g) => Resolves(g)'
    BY <2>2, <2>3 DEF Resolves
  <2>5. ~Resolves(h) /\ h.index \in 1 .. Len(magic')
    BY <2>2, <2>3 DEF Resolves
  <2>6. Resolves(h)'
    BY <2>3, <2>5 DEF Resolves
  <2> QED
    BY <1>2, <2>4, <2>5, <2>6 DEF CreateInFreed
<1>3. CASE CreateInNew(h)
  <2>1. h.index = Len(magic) + 1 /\ h.magic = 1
    BY <1>3 DEF CreateInNew
  <2>2. /\ Len(magic') = Len(magic) + 1
        /\ magic'[Len(magic) + 1] = 1
        /\ \A i \in 1 .. Len(magic) : magic'[i] = magic[i]
    BY <1>1, <1>3 DEF CreateInNew
  <2>4. /\ active'[Len(magic) + 1]
        /\ \A i \in 1 .. Len(magic) : active'[i] <=> active[i]
    BY <1>1, <1>3 DEF CreateInNew
  <2>3. \A g \in Handles : Resolves(g) => Resolves(g)'
    BY <1>1, <2>2, <2>4 DEF Resolves
  <2>5. ~Resolves(h) /\ Resolves(h)'
    BY <1>1, <2>1, <2>2, <2>4 DEF Resolves
  <2> QED
    BY <1>3, <2>3, <2>5 DEF CreateInNew
<1> QED
  BY <1>2, <1>3 DEF Create

\* destroy() takes the object from one handle alone.
LEMMA StoreDestroys ==
  ASSUME StoreInv, NEW h \in Handles, Destroy(h)
  PROVE  /\ \A g \in Handles : Resolves(g) /\ g # h => Resolves(g)'
         /\ activeCount' = activeCount - 1
         /\ issued' = issued
<1>1. /\ Len(magic) \in Nat /\ Len(active) = Len(magic)
      /\ magic \in Seq(0 .. MaxMagic) /\ active \in Seq(BOOLEAN)
      /\ h.index \in 1 .. Len(magic) /\ magic[h.index] = h.magic
  BY DEF StoreInv, TypeOK, Destroy, Resolves
<1>2. /\ Len(magic') = Len(magic)
      /\ \A i \in 1 .. Len(magic) : i # h.index =>
            magic'[i] = magic[i] /\ active'[i] = active[i]
  BY <1>1 DEF Destroy
<1>3. ASSUME NEW g \in Handles, Resolves(g), g # h PROVE Resolves(g)'
  <2>1. g.index \in 1 .. Len(magic) /\ g.magic = magic[g.index]
    BY <1>3 DEF Resolves
  <2>2. g.index # h.index
    <3>1. g.index = h.index => g.magic = h.magic
      BY <1>1, <2>1
    <3>2. g = [index |-> g.index, magic |-> g.magic]
          /\ h = [index |-> h.index, magic |-> h.magic]
      BY DEF Handles
    <3> QED
      BY <1>3, <3>1, <3>2
  <2> QED
    BY <1>2, <1>3, <2>1, <2>2 DEF Resolves
<1> QED
  BY <1>3 DEF Destroy

-----------------------------------------------------------------------------
(***************************************************************************)
(* The invariant of the bank                                               *)
(***************************************************************************)

\* The bank destroys nothing it was not given.
AssetsKept == \A i \in 1 .. Len(assets) : assets[i].handle \in issued

\* The hash of an asset is one of its URI.
HashesOwn ==
  \A i \in 1 .. Len(assets) :
     \E id \in Ids : assets[i].hash = Hash[assets[i].uri][id]

OneEach ==
  \A uri \in Uris \ PlainUris, id \in Ids :
     Alone(uri, id) =>
        \A i, j \in 1 .. Len(assets) :
           assets[i].hash = Hash[uri][id] /\ assets[j].hash = Hash[uri][id] => i = j

\* A URI that is used alone has one asset at most, under its own hash.
PlainOnce ==
  \A i \in 1 .. Len(assets) : assets[i].uri \in PlainUris =>
     /\ assets[i].hash = Hash[assets[i].uri][0]
     /\ \A j \in 1 .. Len(assets) : assets[j].uri = assets[i].uri => j = i

BankIInv == StoreInv /\ BankInv /\ AssetsKept /\ HashesOwn

\* A new object gets an asset of its own.
LEMMA GrowStep ==
  ASSUME BankIInv, NEW uri \in Uris, NEW id \in Ids, NEW h \in Handles,
         Create(h), assets' = Append(assets, Asset(uri, id, h))
  PROVE  BankIInv'
<1> DEFINE n == Len(assets)
<1>1. StoreInv'
  BY CreateInFreedStep, CreateInNewStep DEF Create, BankIInv
<1>2. /\ assets \in Seq(Assets)
      /\ n \in Nat
      /\ \A i \in 1 .. n : assets[i].handle \in Handles
  <2>1. assets \in Seq(Assets)
    BY DEF BankIInv, BankInv, BankTypeOK
  <2>2. \A i \in 1 .. n : assets[i] \in Assets
    BY <2>1
  <2> QED
    BY <2>1, <2>2 DEF Assets
<1>3. Asset(uri, id, h) \in Assets
  BY DEF Asset, Assets, Hashes
<1>4. /\ BankTypeOK' /\ Len(assets') = n + 1
      /\ \A i \in 1 .. n : assets'[i] = assets[i]
      /\ assets'[n + 1] = Asset(uri, id, h)
  BY <1>2, <1>3 DEF BankTypeOK
<1>5. Asset(uri, id, h).handle = h /\ Asset(uri, id, h).uri = uri
      /\ Asset(uri, id, h).hash = Hash[uri][id]
  BY DEF Asset
<1>6. /\ ~Resolves(h) /\ Resolves(h)'
      /\ \A g \in Handles : Resolves(g) => Resolves(g)'
      /\ activeCount' = activeCount + 1 /\ issued' = issued \cup {h}
  BY StoreCreates DEF BankIInv
<1>7. /\ \A i \in 1 .. n : Resolves(assets[i].handle)
      /\ \A i, j \in 1 .. n : assets[i].handle = assets[j].handle => i = j
      /\ n = activeCount
  BY DEF BankIInv, BankInv, HandlesLive
<1>8. \A i \in 1 .. n : assets[i].handle # h
  BY <1>6, <1>7
<1>9. HandlesLive'
  <2>1. ASSUME NEW i \in 1 .. n + 1 PROVE Resolves(assets[i].handle)'
    <3>1. CASE i = n + 1
      BY <1>4, <1>5, <1>6, <3>1
    <3>2. CASE i # n + 1
      <4>1. i \in 1 .. n
        BY <1>2, <3>2
      <4> QED
        BY <1>2, <1>4, <1>6, <1>7, <4>1
    <3> QED
      BY <3>1, <3>2
  <2>2. \A i, j \in 1 .. n + 1 : assets'[i].handle = assets'[j].handle => i = j
    <3> HIDE DEF n
    <3>1. \A i \in 1 .. n + 1 : i = n + 1 \/ i \in 1 .. n
      BY <1>2
    <3> QED
      BY <1>4, <1>5, <1>7, <1>8, <3>1
  <2> QED
    BY <1>4, <1>6, <1>7, <2>1, <2>2 DEF HandlesLive
<1>10. \A i \in 1 .. n + 1 : i = n + 1 \/ i \in 1 .. n
  BY <1>2
<1>11. AssetsKept'
  BY <1>4, <1>5, <1>6, <1>10 DEF AssetsKept, BankIInv
<1>12. HashesOwn'
  BY <1>4, <1>5, <1>10 DEF HashesOwn, BankIInv
<1> QED
  BY <1>1, <1>4, <1>9, <1>11, <1>12 DEF BankIInv, BankInv

\* The object of an asset goes with it.
LEMMA EraseStep ==
  ASSUME BankIInv, NEW i \in 1 .. Len(assets), Erase(i)
  PROVE  BankIInv' /\ (OneEach => OneEach')
<1> DEFINE n == Len(assets)
           h == assets[i].handle
           old(k) == IF k < i THEN k ELSE k + 1
<1>1. /\ assets \in Seq(Assets)
      /\ n \in Nat
      /\ \A k \in 1 .. n : assets[k].handle \in Handles
  <2>1. assets \in Seq(Assets)
    BY DEF BankIInv, BankInv, BankTypeOK
  <2>2. \A k \in 1 .. n : assets[k] \in Assets
    BY <2>1
  <2> QED
    BY <2>1, <2>2 DEF Assets
<1>2. h \in Handles /\ h \in issued /\ Destroy(h)
  BY <1>1 DEF Erase, BankIInv, AssetsKept
<1>3. StoreInv'
  BY <1>2, DestroyStep DEF BankIInv
<1>4. /\ BankTypeOK' /\ Len(assets') = n - 1
      /\ \A k \in 1 .. n - 1 : assets'[k] = assets[old(k)]
  <2>1. assets' = SE!RemoveAt(assets, i)
    BY DEF Erase, Without
  <2> QED
    BY <1>1, <2>1, RemovedAt DEF BankTypeOK
<1>5. /\ \A g \in Handles : Resolves(g) /\ g # h => Resolves(g)'
      /\ activeCount' = activeCount - 1 /\ issued' = issued
  BY <1>2, StoreDestroys DEF BankIInv
<1>6. /\ \A k \in 1 .. n : Resolves(assets[k].handle)
      /\ \A j, k \in 1 .. n : assets[j].handle = assets[k].handle => j = k
      /\ n = activeCount
  BY DEF BankIInv, BankInv, HandlesLive
<1>7. \A k \in 1 .. n - 1 : old(k) \in 1 .. n /\ old(k) # i
  BY <1>1
<1>8. \A j, k \in 1 .. n - 1 : old(j) = old(k) => j = k
  BY <1>1
<1> HIDE DEF old
<1>9. HandlesLive'
  <2>1. ASSUME NEW k \in 1 .. n - 1 PROVE Resolves(assets[k].handle)'
    <3>1. assets[old(k)].handle # h
      BY <1>6, <1>7
    <3> QED
      BY <1>1, <1>4, <1>5, <1>6, <1>7, <3>1
  <2>2. \A j, k \in 1 .. n - 1 : assets'[j].handle = assets'[k].handle => j = k
    BY <1>4, <1>6, <1>7, <1>8
  <2> QED
    BY <1>4, <1>5, <1>6, <2>1, <2>2 DEF HandlesLive
<1>10. AssetsKept'
  BY <1>4, <1>5, <1>7 DEF AssetsKept, BankIInv
<1>11. HashesOwn'
  <2> SUFFICES ASSUME NEW k \in 1 .. n - 1
               PROVE  \E id \in Ids : assets'[k].hash = Hash[assets'[k].uri][id]
    BY <1>4 DEF HashesOwn
  <2>1. PICK id \in Ids : assets[old(k)].hash = Hash[assets[old(k)].uri][id]
    BY <1>7 DEF HashesOwn, BankIInv
  <2>2. assets'[k] = assets[old(k)]
    BY <1>4
  <2> QED
    BY <2>1, <2>2
<1>12. OneEach => OneEach'
  <2> SUFFICES ASSUME OneEach, NEW uri \in Uris \ PlainUris, NEW id \in Ids,
                      Alone(uri, id), NEW j \in 1 .. n - 1, NEW k \in 1 .. n - 1,
                      assets'[j].hash = Hash[uri][id],
                      assets'[k].hash = Hash[uri][id]
               PROVE  j = k
    BY <1>4 DEF OneEach, Alone
  <2>1. /\ assets[old(j)].hash = Hash[uri][id]
        /\ assets[old(k)].hash = Hash[uri][id]
    BY <1>4
  <2> QED
    BY <1>7, <1>8, <2>1 DEF OneEach
<1> QED
  BY <1>3, <1>4, <1>9, <1>10, <1>11, <1>12 DEF BankIInv, BankInv
\* A composite key whose hash is its own gets no second asset: the search by
\* hash would have found the first.
LEMMA GrowKeepsOne ==
  ASSUME BankIInv, OneEach, NEW uri \in Uris, NEW id \in Ids, NEW h,
         assets' = Append(assets, Asset(uri, id, h)),
         uri \in PlainUris \/ UriAt(FindComposite(uri, id)) # uri
  PROVE  OneEach'
<1> DEFINE n == Len(assets)
<1>1. BankTypeOK /\ assets \in Seq(Assets) /\ n \in Nat
  BY DEF BankIInv, BankInv, BankTypeOK
<1>2. /\ Len(assets') = n + 1
      /\ \A i \in 1 .. n : assets'[i] = assets[i] /\ assets[i] \in Assets
      /\ assets'[n + 1].hash = Hash[uri][id]
  BY <1>1 DEF Asset
<1>3. SUFFICES ASSUME NEW u \in Uris \ PlainUris, NEW k \in Ids, Alone(u, k),
                      NEW i \in 1 .. n + 1, NEW j \in 1 .. n + 1,
                      assets'[i].hash = Hash[u][k], assets'[j].hash = Hash[u][k]
               PROVE  i = j
  BY <1>2 DEF OneEach, Alone
<1>4. CASE i \in 1 .. n /\ j \in 1 .. n
  BY <1>2, <1>3, <1>4 DEF OneEach
<1>5. ASSUME NEW m \in 1 .. n, assets[m].hash = Hash[u][k], Hash[uri][id] = Hash[u][k]
      PROVE  FALSE
  <2>1. u = uri /\ uri \notin PlainUris
    BY <1>3, <1>5 DEF Alone
  <2> DEFINE f == FindHash(Hash[uri][id])
  <2>2. f # 0 /\ f \in 1 .. n /\ assets[f].hash = Hash[u][k]
    BY <1>1, <1>5, FoundHash
  <2>3. PICK k2 \in Ids : assets[f].hash = Hash[assets[f].uri][k2]
    BY <2>2 DEF BankIInv, HashesOwn
  <2>4. assets[f].uri \in Uris
    BY <1>2, <2>2 DEF Assets
  <2>5. assets[f].uri = u
    BY <1>3, <2>2, <2>3, <2>4 DEF Alone
  <2>6. UriAt(FindComposite(uri, id)) = uri
    BY <2>1, <2>2, <2>5 DEF UriAt, FindComposite
  <2> QED
    BY <2>1, <2>6
<1>6. CASE i = n + 1 /\ j \in 1 .. n
  BY <1>2, <1>3, <1>5, <1>6
<1>7. CASE j = n + 1 /\ i \in 1 .. n
  BY <1>2, <1>3, <1>5, <1>7
<1>8. /\ i = n + 1 \/ i \in 1 .. n
      /\ j = n + 1 \/ j \in 1 .. n
  BY <1>1
<1> QED
  BY <1>4, <1>6, <1>7, <1>8

LEMMA BankNextKeeps ==
  ASSUME BankIInv, OneEach, [BankNext]_bankVars
  PROVE  BankIInv' /\ OneEach'
<1>0. BankTypeOK /\ 0 \in Ids /\ PlainUris \subseteq Uris
  BY IdsAssumption, PlainAssumption DEF BankIInv, BankInv
<1>1. ASSUME NEW uri \in Uris, NEW id \in Ids, NEW h \in Handles, Create(h),
             assets' = Append(assets, Asset(uri, id, h)),
             uri \in PlainUris \/ UriAt(FindComposite(uri, id)) # uri
      PROVE  BankIInv' /\ OneEach'
  BY <1>1, GrowStep, GrowKeepsOne
<1>2. ASSUME NEW i \in 1 .. Len(assets), Erase(i)
      PROVE  BankIInv' /\ OneEach'
  BY <1>2, EraseStep
<1>3. CASE UNCHANGED bankVars
  <2>1. /\ assets' = assets /\ magic' = magic /\ active' = active
        /\ freed' = freed /\ activeCount' = activeCount /\ issued' = issued
    BY <1>3 DEF bankVars, vars, storeVars
  <2>2. StoreInv'
    BY <2>1 DEF BankIInv, StoreInv, TypeOK, MagicParity, FreedAreEmpty, IssuedArePast
  <2>3. BankInv'
    BY <2>1 DEF BankIInv, BankInv, BankTypeOK, HandlesLive, Resolves
  <2>4. AssetsKept' /\ HashesOwn' /\ OneEach'
    BY <2>1 DEF BankIInv, AssetsKept, HashesOwn, OneEach, Alone
  <2> QED
    BY <2>2, <2>3, <2>4 DEF BankIInv
<1>4. ASSUME NEW uri \in PlainUris, Add(uri)
      PROVE  BankIInv' /\ OneEach'
  BY <1>0, <1>1, <1>3, <1>4 DEF Add
<1>5. ASSUME NEW uri \in Uris, NEW id \in Ids, AddComposite(uri, id)
      PROVE  BankIInv' /\ OneEach'
  BY <1>1, <1>3, <1>5 DEF AddComposite
<1>6. ASSUME NEW uri, Remove(uri)
      PROVE  BankIInv' /\ OneEach'
  BY <1>0, <1>2, <1>3, <1>6, FoundUri DEF Remove
<1>7. ASSUME NEW hash, RemoveHash(hash)
      PROVE  BankIInv' /\ OneEach'
  BY <1>0, <1>2, <1>3, <1>7, FoundHash DEF RemoveHash
<1>8. ASSUME NEW uri, NEW id, RemoveComposite(uri, id)
      PROVE  BankIInv' /\ OneEach'
  BY <1>0, <1>2, <1>3, <1>8, FoundBoth DEF RemoveComposite
<1> QED
  BY <1>0, <1>3, <1>4, <1>5, <1>6, <1>7, <1>8 DEF BankNext, KeyOperation

LEMMA BankInitInv == BankInit => BankIInv /\ OneEach /\ PlainOnce
<1> SUFFICES ASSUME BankInit PROVE BankIInv /\ OneEach /\ PlainOnce
  OBVIOUS
<1>1. StoreInv
  BY InitStoreInv DEF BankInit
<1>2. assets \in Seq(Assets) /\ Len(assets) = 0 /\ activeCount = 0
  BY EmptySeq DEF BankInit, Init
<1> QED
  BY <1>1, <1>2 DEF BankIInv, BankInv, BankTypeOK, HandlesLive, AssetsKept,
                    HashesOwn, OneEach, PlainOnce

\* A plain URI gets an asset only where it has none, and what is erased leaves
\* the others as they were.
LEMMA PlainOnceStep ==
  ASSUME BankIInv, PlainOnce, [BankNext]_bankVars
  PROVE  PlainOnce'
<1> DEFINE n == Len(assets)
<1>0. /\ BankTypeOK /\ assets \in Seq(Assets) /\ n \in Nat
      /\ \A i \in 1 .. n : assets[i] \in Assets
      /\ 0 \in Ids /\ PlainUris \subseteq Uris
  <2>1. assets \in Seq(Assets)
    BY DEF BankIInv, BankInv, BankTypeOK
  <2> QED
    BY <2>1, IdsAssumption, PlainAssumption DEF BankTypeOK
<1>1. ASSUME NEW uri \in Uris, NEW id \in Ids, NEW h \in Handles,
             assets' = Append(assets, Asset(uri, id, h)),
             uri \in PlainUris => id = 0 /\ FindUri(uri) = 0
      PROVE  PlainOnce'
  <2>1. /\ Len(assets') = n + 1
        /\ \A i \in 1 .. n : assets'[i] = assets[i]
        /\ assets'[n + 1].uri = uri /\ assets'[n + 1].hash = Hash[uri][id]
    BY <1>0, <1>1 DEF Asset
  <2>2. uri \in PlainUris => \A i \in 1 .. n : assets[i].uri # uri
    BY <1>0, <1>1, FoundUri
  <2>3. \A i \in 1 .. n + 1 : i = n + 1 \/ i \in 1 .. n
    BY <1>0
  <2> HIDE DEF n
  <2>4. ASSUME NEW i \in 1 .. n + 1, assets'[i].uri \in PlainUris
        PROVE  /\ assets'[i].hash = Hash[assets'[i].uri][0]
               /\ \A j \in 1 .. n + 1 : assets'[j].uri = assets'[i].uri => j = i
    <3>1. CASE i = n + 1
      BY <1>1, <2>1, <2>2, <2>3, <2>4, <3>1
    <3>2. CASE i \in 1 .. n
      BY <1>1, <2>1, <2>2, <2>3, <2>4, <3>2 DEF PlainOnce, n
    <3> QED
      BY <2>3, <3>1, <3>2
  <2> QED
    BY <2>1, <2>4 DEF PlainOnce
<1>2. ASSUME NEW i \in 1 .. n, Erase(i) PROVE PlainOnce'
  <2> DEFINE old(k) == IF k < i THEN k ELSE k + 1
  <2>1. /\ Len(assets') = n - 1
        /\ \A k \in 1 .. n - 1 : assets'[k] = assets[old(k)]
    <3>1. assets' = SE!RemoveAt(assets, i)
      BY <1>2 DEF Erase, Without
    <3> QED
      BY <1>0, <3>1, RemovedAt
  <2>2. \A j, k \in 1 .. n - 1 : old(k) \in 1 .. n /\ (old(j) = old(k) => j = k)
    BY <1>0, <1>2
  <2> HIDE DEF old
  <2> QED
    BY <2>1, <2>2 DEF PlainOnce
<1>3. CASE assets' = assets
  BY <1>3 DEF PlainOnce
<1>4. CASE UNCHANGED bankVars
  BY <1>3, <1>4 DEF bankVars
<1>5. ASSUME NEW uri \in PlainUris, Add(uri) PROVE PlainOnce'
  BY <1>0, <1>1, <1>4, <1>5 DEF Add
<1>6. ASSUME NEW uri \in Uris \ PlainUris, NEW id \in Ids, AddComposite(uri, id)
      PROVE  PlainOnce'
  BY <1>1, <1>4, <1>6 DEF AddComposite
<1>7. ASSUME NEW uri, Remove(uri) PROVE PlainOnce'
  BY <1>0, <1>2, <1>4, <1>7, FoundUri DEF Remove
<1>8. ASSUME NEW hash, RemoveHash(hash) PROVE PlainOnce'
  BY <1>0, <1>2, <1>4, <1>8, FoundHash DEF RemoveHash
<1>9. ASSUME NEW uri, NEW id, RemoveComposite(uri, id) PROVE PlainOnce'
  BY <1>0, <1>2, <1>4, <1>9, FoundBoth DEF RemoveComposite
<1> QED
  BY <1>4, <1>5, <1>6, <1>7, <1>8, <1>9 DEF BankNext, KeyOperation

LEMMA BankInvariant == BankSpec => [](BankIInv /\ OneEach /\ PlainOnce)
  BY BankInitInv, BankNextKeeps, PlainOnceStep, PTL DEF BankSpec

\* Each asset names an object of its own in the store, and the store holds no
\* object without an asset, whichever keys share a hash.
THEOREM BankHandlesLive == BankSpec => []BankInv
  BY BankInvariant, PTL DEF BankIInv

\* A composite key whose hash belongs to no other URI has one asset at most,
\* and a search for it finds that asset or nothing.
THEOREM BankKeysFindTheirOwn == BankSpec => []KeysFindTheirOwn
<1>1. BankIInv /\ OneEach => KeysFindTheirOwn
  <2> SUFFICES ASSUME BankIInv, OneEach,
                      NEW uri \in Uris \ PlainUris, NEW id \in Ids, Alone(uri, id)
               PROVE  /\ UriAt(FindComposite(uri, id)) \in {uri, NoUri}
                      /\ \A i, j \in 1 .. Len(assets) :
                            assets[i].hash = Hash[uri][id]
                              /\ assets[j].hash = Hash[uri][id] => i = j
    BY DEF KeysFindTheirOwn, Alone
  <2> DEFINE f == FindHash(Hash[uri][id])
  <2>1. BankTypeOK /\ \A i \in 1 .. Len(assets) : assets[i].uri \in Uris
    <3>1. BankTypeOK
      BY DEF BankIInv, BankInv
    <3>2. \A i \in 1 .. Len(assets) : assets[i] \in Assets
      BY <3>1 DEF BankTypeOK
    <3> QED
      BY <3>1, <3>2 DEF Assets
  <2>2. ASSUME f # 0 PROVE assets[f].uri = uri
    <3>1. f \in 1 .. Len(assets) /\ assets[f].hash = Hash[uri][id]
      BY <2>1, <2>2, FoundHash
    <3>2. \E k \in Ids : assets[f].hash = Hash[assets[f].uri][k]
      BY <3>1 DEF BankIInv, HashesOwn
    <3> QED
      BY <2>1, <3>1, <3>2 DEF Alone
  <2>3. UriAt(FindComposite(uri, id)) \in {uri, NoUri}
    BY <2>2 DEF UriAt, FindComposite
  <2> QED
    BY <2>3 DEF OneEach
<1> QED
  BY <1>1, BankInvariant, PTL

\* What find() answers, by the handle of the asset.
Found(uri) == IF FindUri(uri) = 0 THEN Null ELSE assets[FindUri(uri)].handle

\* The answer is the handle of any asset of the URI, for there is only one.
LEMMA FoundIs ==
  ASSUME BankTypeOK, PlainOnce, NEW uri \in PlainUris
  PROVE  /\ \A i \in 1 .. Len(assets) : assets[i].uri = uri => Found(uri) = assets[i].handle
         /\ (\A i \in 1 .. Len(assets) : assets[i].uri # uri) => Found(uri) = Null
<1>1. \A i \in 1 .. Len(assets) : assets[i].uri = uri => FindUri(uri) # 0 /\ FindUri(uri) = i
  BY FoundUri DEF PlainOnce
<1>2. (\A i \in 1 .. Len(assets) : assets[i].uri # uri) => FindUri(uri) = 0
  BY FoundUri
<1> QED
  BY <1>1, <1>2 DEF Found

\* For a URI that is used alone, whose hash no other key has, find() goes on to
\* answer as it did whatever is done to other URIs.
THEOREM BankOtherKeysUndisturbed == BankSpec => OtherKeysUndisturbed
<1>1. ASSUME BankIInv, PlainOnce, (BankIInv /\ PlainOnce)', [BankNext]_bankVars,
             NEW uri \in PlainUris, NEW o \in Uris, Alone(uri, 0), o # uri, KeyOperation(o)
      PROVE  Found(uri)' = Found(uri)
  <2> DEFINE n == Len(assets)
  <2>0. /\ BankTypeOK /\ BankTypeOK' /\ assets \in Seq(Assets) /\ n \in Nat
        /\ \A i \in 1 .. n : assets[i] \in Assets
        /\ 0 \in Ids /\ PlainUris \subseteq Uris
    <3>1. BankTypeOK /\ BankTypeOK' /\ assets \in Seq(Assets)
      BY <1>1 DEF BankIInv, BankInv, BankTypeOK
    <3> QED
      BY <3>1, IdsAssumption, PlainAssumption
  <2>1. /\ \A i \in 1 .. n : assets[i].uri = uri => Found(uri) = assets[i].handle
        /\ (\A i \in 1 .. n : assets[i].uri # uri) => Found(uri) = Null
    BY <1>1, <2>0, FoundIs
  <2>2. /\ \A i \in 1 .. Len(assets') : assets'[i].uri = uri => Found(uri)' = assets'[i].handle
        /\ (\A i \in 1 .. Len(assets') : assets'[i].uri # uri) => Found(uri)' = Null
    <3>1. /\ FindUri(uri)' # 0 => /\ FindUri(uri)' \in 1 .. Len(assets')
                                  /\ assets'[FindUri(uri)'].uri = uri
          /\ FindUri(uri)' = 0 => \A i \in 1 .. Len(assets') : assets'[i].uri # uri
      <4>1. FindUri(uri)' = FirstOf(assets', uri)
        BY DEF FindUri, FirstOf, SE!SelectInSeq
      <4>2. Len(assets') \in Nat
        BY <2>0 DEF BankTypeOK
      <4> QED
        BY <4>1, <4>2, FirstOfIs
    <3>2. Found(uri)' = IF FindUri(uri)' = 0 THEN Null ELSE assets'[FindUri(uri)'].handle
      BY DEF Found
    <3>3. \A i \in 1 .. Len(assets') : assets'[i].uri = uri =>
             FindUri(uri)' # 0 /\ FindUri(uri)' = i
      BY <1>1, <3>1 DEF PlainOnce
    <3> QED
      BY <3>1, <3>2, <3>3
  <2>3. CASE assets' = assets
    BY <2>1, <2>2, <2>3
  <2>4. ASSUME NEW other \in Uris \ {uri}, NEW id \in Ids, NEW h \in Handles,
               assets' = Append(assets, Asset(other, id, h))
        PROVE  Found(uri)' = Found(uri)
    <3>1. /\ Len(assets') = n + 1
          /\ \A i \in 1 .. n : assets'[i] = assets[i] /\ i \in 1 .. n + 1
          /\ assets'[n + 1].uri # uri
      BY <2>0, <2>4 DEF Asset
    <3>2. \A i \in 1 .. n + 1 : i = n + 1 \/ i \in 1 .. n
      BY <2>0
    <3> QED
      BY <2>1, <2>2, <3>1, <3>2
  <2>5. ASSUME NEW i \in 1 .. n, Erase(i), assets[i].uri # uri
        PROVE  Found(uri)' = Found(uri)
    <3> DEFINE old(k) == IF k < i THEN k ELSE k + 1
    <3>1. /\ Len(assets') = n - 1
          /\ \A k \in 1 .. n - 1 : assets'[k] = assets[old(k)]
      <4>1. assets' = SE!RemoveAt(assets, i)
        BY <2>5 DEF Erase, Without
      <4> QED
        BY <2>0, <4>1, RemovedAt
    <3>2. \A k \in 1 .. n - 1 : old(k) \in 1 .. n
      BY <2>0, <2>5
    <3>3. \A j \in 1 .. n : j # i => \E k \in 1 .. n - 1 : old(k) = j
      <4> SUFFICES ASSUME NEW j \in 1 .. n, j # i PROVE \E k \in 1 .. n - 1 : old(k) = j
        OBVIOUS
      <4>1. CASE j < i
        BY <2>0, <2>5, <4>1
      <4>2. CASE j > i
        <5>1. j - 1 \in 1 .. n - 1 /\ old(j - 1) = j
          BY <2>0, <2>5, <4>2
        <5> QED
          BY <5>1
      <4> QED
        BY <2>0, <4>1, <4>2
    <3> HIDE DEF old, n
    <3>4. CASE \E j \in 1 .. n : assets[j].uri = uri
      <4>1. PICK j \in 1 .. n : assets[j].uri = uri
        BY <3>4
      <4>2. PICK k \in 1 .. n - 1 : old(k) = j
        BY <2>5, <3>3, <4>1
      <4>3. assets'[k] = assets[j] /\ k \in 1 .. Len(assets')
        BY <3>1, <4>2
      <4>4. Found(uri)' = assets'[k].handle
        BY <2>2, <4>1, <4>3
      <4>5. Found(uri) = assets[j].handle
        BY <2>1, <4>1 DEF n
      <4> QED
        BY <4>3, <4>4, <4>5
    <3>5. CASE \A j \in 1 .. n : assets[j].uri # uri
      <4>1. \A k \in 1 .. Len(assets') : assets'[k].uri # uri
        BY <3>1, <3>2, <3>5
      <4> QED
        BY <2>1, <2>2, <3>5, <4>1 DEF n
    <3> QED
      BY <3>4, <3>5
  <2>6. ASSUME NEW id \in Ids, RemoveHash(Hash[o][id]) PROVE Found(uri)' = Found(uri)
    <3> DEFINE i == FindHash(Hash[o][id])
    <3>1. CASE i = 0
      BY <2>3, <2>6, <3>1 DEF RemoveHash, bankVars
    <3>2. CASE i # 0
      <4>1. i \in 1 .. n /\ assets[i].hash = Hash[o][id] /\ Erase(i)
        BY <2>0, <2>6, <3>2, FoundHash DEF RemoveHash
      <4>2. assets[i].uri # uri
        BY <1>1, <4>1 DEF PlainOnce, Alone
      <4> QED
        BY <2>5, <4>1, <4>2
    <3> QED
      BY <3>1, <3>2
  <2>7. CASE o \in PlainUris /\ Add(o)
    BY <1>1, <2>0, <2>3, <2>4, <2>7 DEF Add, bankVars
  <2>8. CASE Remove(o)
    <3>1. CASE FindUri(o) = 0
      BY <2>3, <2>8, <3>1 DEF Remove, bankVars
    <3>2. CASE FindUri(o) # 0
      <4>1. FindUri(o) \in 1 .. n /\ assets[FindUri(o)].uri = o
        BY <2>0, <3>2, FoundUri
      <4>2. Erase(FindUri(o))
        BY <2>8, <3>2 DEF Remove
      <4> QED
        BY <1>1, <2>5, <4>1, <4>2
    <3> QED
      BY <3>1, <3>2
  <2>9. ASSUME NEW id \in Ids, AddComposite(o, id) PROVE Found(uri)' = Found(uri)
    BY <1>1, <2>3, <2>4, <2>9 DEF AddComposite, bankVars
  <2>10. ASSUME NEW id \in Ids, RemoveComposite(o, id) PROVE Found(uri)' = Found(uri)
    BY <1>1, <2>0, <2>3, <2>5, <2>10, FoundBoth DEF RemoveComposite, bankVars
  <2> QED
    BY <1>1, <2>0, <2>6, <2>7, <2>8, <2>9, <2>10 DEF KeyOperation
<1> DEFINE Undisturbed == \A uri \in PlainUris, other \in Uris :
              Alone(uri, 0) /\ other # uri /\ KeyOperation(other) => Found(uri)' = Found(uri)
<1>2. BankIInv /\ PlainOnce /\ (BankIInv /\ PlainOnce)' /\ [BankNext]_bankVars
         => [Undisturbed]_bankVars
  BY <1>1
<1>3. [Undisturbed]_bankVars
        <=> [\A uri \in PlainUris, other \in Uris :
                Alone(uri, 0) /\ other # uri /\ KeyOperation(other) =>
                  LET HandleOf(i) == IF i = 0 THEN Null ELSE assets[i].handle
                  IN HandleOf(FindUri(uri))' = HandleOf(FindUri(uri))]_bankVars
  BY DEF Found
<1> HIDE DEF Undisturbed
<1> QED
  BY <1>2, <1>3, BankInvariant, PTL DEF BankSpec, OtherKeysUndisturbed

-----------------------------------------------------------------------------
(***************************************************************************)
(* The bank as a client of its store                                       *)
(***************************************************************************)

\* Everything the bank does with its store is something a client of a handle
\* store may do: it destroys only what it was given.
THEOREM BankUsesStore == BankSpec => Spec
<1>1. BankInit => Init
  BY DEF BankInit
<1>2. BankIInv /\ [BankNext]_bankVars => [Next]_vars
  <2> SUFFICES ASSUME BankIInv, [BankNext]_bankVars PROVE [Next]_vars
    OBVIOUS
  <2>0. BankTypeOK /\ \A i \in 1 .. Len(assets) : assets[i].handle \in issued
    BY DEF BankIInv, BankInv, AssetsKept
  <2>1. CASE UNCHANGED bankVars
    BY <2>1 DEF bankVars
  <2>2. ASSUME NEW h \in Handles, Create(h) PROVE Next
    BY <2>2 DEF Next
  <2>3. ASSUME NEW i \in 1 .. Len(assets), Erase(i) PROVE Next
    BY <2>0, <2>3 DEF Next, Erase
  <2>4. ASSUME NEW uri, Add(uri) PROVE [Next]_vars
    BY <2>1, <2>2, <2>4 DEF Add
  <2>5. ASSUME NEW uri, NEW id, AddComposite(uri, id) PROVE [Next]_vars
    BY <2>1, <2>2, <2>5 DEF AddComposite
  <2>6. ASSUME NEW uri, Remove(uri) PROVE [Next]_vars
    BY <2>0, <2>1, <2>3, <2>6, FoundUri DEF Remove
  <2>7. ASSUME NEW hash, RemoveHash(hash) PROVE [Next]_vars
    BY <2>0, <2>1, <2>3, <2>7, FoundHash DEF RemoveHash
  <2>8. ASSUME NEW uri, NEW id, RemoveComposite(uri, id) PROVE [Next]_vars
    BY <2>0, <2>1, <2>3, <2>8, FoundBoth DEF RemoveComposite
  <2> QED
    BY <2>1, <2>4, <2>5, <2>6, <2>7, <2>8 DEF BankNext, KeyOperation
<1> QED
  BY <1>1, <1>2, BankInvariant, PTL DEF BankSpec, Spec

\* So the store of a bank keeps its invariant, and a handle that a client of
\* the bank kept past the removal of its asset names nothing for ever.
THEOREM BankStoreInv == BankSpec => []StoreInv
  BY BankUsesStore, StoreInvariant, PTL

THEOREM BankStaleForEver == BankSpec => StaleForEver
  BY BankUsesStore, StoreStaleForEver, PTL
=============================================================================
