----------------------------- MODULE EcsRegistry -----------------------------
(***************************************************************************)
(* hpr::ecs::Registry (hpr/entity/ecs_registry.hpp): entity numbers that   *)
(* are recycled, and one rack per component type.  A rack keeps its values *)
(* dense in one vault, their entities in a second one at the same slots,   *)
(* and the slot of every entity in a sparse third one; a value is removed  *)
(* by moving the last one into its slot.                                   *)
(*                                                                         *)
(* Slots count from 1.  A sparse vault is as good as a total function:     *)
(* beyond its end, as at invalid_slot, an entity has no component.  The    *)
(* numbers in m_generation are never read, only its size is: `known`.      *)
(* Clients only give components to entities that are alive, as             *)
(* instantiate_scene does; the registry does not check it.                 *)
(***************************************************************************)
EXTENDS Integers, Sequences, FiniteSets

CONSTANTS
    MaxEntities,    \* bound: entities created between two clears
    Components,     \* the component types of the registry
    Values,         \* what a component can hold
    Absent          \* what get() answers for a component that is not there

ASSUME MaxEntitiesAssumption == MaxEntities \in Nat
ASSUME AbsentAssumption == Absent \notin Values

Entities == 0 .. MaxEntities - 1
NoSlot == 0         \* cfg::invalid_slot

VARIABLES
    denseEntities,  \* denseEntities[c]: dense_entities of rack c
    denseValues,    \* denseValues[c]: dense_values of rack c
    sparse,         \* sparse[c]: sparse_index of rack c
    alive,          \* m_alive
    known,          \* the size of m_alive and of m_generation
    recycled,       \* m_recycled
    nextEntity,     \* m_next_entity
    liveCount       \* m_live_count

rackVars == <<denseEntities, denseValues, sparse>>
idVars == <<alive, known, recycled, nextEntity, liveCount>>
vars == <<rackVars, idVars>>

Init ==
    /\ denseEntities = [c \in Components |-> <<>>]
    /\ denseValues = [c \in Components |-> <<>>]
    /\ sparse = [c \in Components |-> [e \in Entities |-> NoSlot]]
    /\ alive = [e \in Entities |-> FALSE]
    /\ known = 0
    /\ recycled = <<>>
    /\ nextEntity = 0
    /\ liveCount = 0

-----------------------------------------------------------------------------
(***************************************************************************)
(* Entity numbers                                                          *)
(***************************************************************************)

\* Mutant: a create_entity that empties the list for the one number it takes.
CreateRecycledDropAll ==
    /\ recycled # <<>>
    /\ recycled' = <<>>
    /\ alive' = [alive EXCEPT ![recycled[Len(recycled)]] = TRUE]
    /\ liveCount' = liveCount + 1
    /\ UNCHANGED <<rackVars, known, nextEntity>>

\* The number destroyed last is the first to be used again.
CreateRecycled ==
    /\ recycled # <<>>
    /\ recycled' = SubSeq(recycled, 1, Len(recycled) - 1)
    /\ alive' = [alive EXCEPT ![recycled[Len(recycled)]] = TRUE]
    /\ liveCount' = liveCount + 1
    /\ UNCHANGED <<rackVars, known, nextEntity>>

\* A vault that has to grow fills every new place with the mark of a live one.
CreateFresh ==
    /\ recycled = <<>>
    /\ nextEntity < MaxEntities
    /\ alive' = [e \in Entities |->
                    alive[e] \/ e = nextEntity \/ e \in known .. nextEntity]
    /\ known' = IF nextEntity >= known THEN nextEntity + 1 ELSE known
    /\ nextEntity' = nextEntity + 1
    /\ liveCount' = liveCount + 1
    /\ UNCHANGED <<rackVars, recycled>>

\* reserve_entities: the new places are marked dead.
Reserve(capacity) ==
    /\ capacity > known
    /\ known' = capacity
    /\ UNCHANGED <<rackVars, alive, recycled, nextEntity, liveCount>>

-----------------------------------------------------------------------------
(***************************************************************************)
(* Racks                                                                   *)
(***************************************************************************)

Has(c, e) == sparse[c][e] # NoSlot

Get(c, e) == IF Has(c, e) THEN denseValues[c][sparse[c][e]] ELSE Absent

\* Mutant: a removal that closes the gap by moving every later slot down.
RemovedShift(dense, slot) ==
    [s \in 1 .. Len(dense) - 1 |-> IF s < slot THEN dense[s] ELSE dense[s + 1]]

\* The last slot moves into the one that is given up.
Removed(dense, slot) ==
    [s \in 1 .. Len(dense) - 1 |->
        IF s = slot THEN dense[Len(dense)] ELSE dense[s]]

\* Mutant: a removal that forgets to tell the sparse vault of the move.
UnlinkedOnly(c, e) == [sparse[c] EXCEPT ![e] = NoSlot]

\* The sparse vault follows the value that moved; the entity itself is out.
Unlinked(c, e) ==
    LET last == denseEntities[c][Len(denseValues[c])] IN
    [x \in Entities |->
        IF x = e THEN NoSlot
        ELSE IF x = last THEN sparse[c][e] ELSE sparse[c][x]]

AddNew(c, e, v) ==
    /\ alive[e]
    /\ ~Has(c, e)
    /\ sparse' = [sparse EXCEPT ![c][e] = Len(denseValues[c]) + 1]
    /\ denseEntities' = [denseEntities EXCEPT ![c] = Append(@, e)]
    /\ denseValues' = [denseValues EXCEPT ![c] = Append(@, v)]
    /\ UNCHANGED idVars

\* An add to an entity that has the component assigns to it; so does a client
\* through the pointer of get() or the references that each() and scan() pass.
Assign(c, e, v) ==
    /\ Has(c, e)
    /\ denseValues' = [denseValues EXCEPT ![c][sparse[c][e]] = v]
    /\ UNCHANGED <<denseEntities, sparse, idVars>>

Remove(c, e) ==
    /\ Has(c, e)
    /\ denseValues' = [denseValues EXCEPT ![c] = Removed(@, sparse[c][e])]
    /\ denseEntities' = [denseEntities EXCEPT ![c] = Removed(@, sparse[c][e])]
    /\ sparse' = [sparse EXCEPT ![c] = Unlinked(c, e)]
    /\ UNCHANGED idVars

\* destroy_entity erases the entity from every rack, then retires its number.
Destroy(e) ==
    /\ e < known
    /\ alive[e]
    /\ denseValues' = [c \in Components |->
           IF Has(c, e) THEN Removed(denseValues[c], sparse[c][e])
           ELSE denseValues[c]]
    /\ denseEntities' = [c \in Components |->
           IF Has(c, e) THEN Removed(denseEntities[c], sparse[c][e])
           ELSE denseEntities[c]]
    /\ sparse' = [c \in Components |->
           IF Has(c, e) THEN Unlinked(c, e) ELSE sparse[c]]
    /\ alive' = [alive EXCEPT ![e] = FALSE]
    /\ recycled' = Append(recycled, e)
    /\ liveCount' = IF liveCount > 0 THEN liveCount - 1 ELSE liveCount
    /\ UNCHANGED <<known, nextEntity>>

ClearRack(c) ==
    /\ denseEntities' = [denseEntities EXCEPT ![c] = <<>>]
    /\ denseValues' = [denseValues EXCEPT ![c] = <<>>]
    /\ sparse' = [sparse EXCEPT ![c] = [e \in Entities |-> NoSlot]]
    /\ UNCHANGED idVars

Clear ==
    /\ denseEntities' = [c \in Components |-> <<>>]
    /\ denseValues' = [c \in Components |-> <<>>]
    /\ sparse' = [c \in Components |-> [e \in Entities |-> NoSlot]]
    /\ alive' = [e \in Entities |-> FALSE]
    /\ known' = 0
    /\ recycled' = <<>>
    /\ nextEntity' = 0
    /\ liveCount' = 0

Next ==
    \/ CreateRecycled
    \/ CreateFresh
    \/ \E capacity \in 1 .. MaxEntities : Reserve(capacity)
    \/ \E e \in Entities : Destroy(e)
    \/ \E c \in Components, e \in Entities :
          \/ Remove(c, e)
          \/ \E v \in Values : AddNew(c, e, v) \/ Assign(c, e, v)
    \/ \E c \in Components : ClearRack(c)
    \/ Clear

Spec == Init /\ [][Next]_vars

-----------------------------------------------------------------------------
(***************************************************************************)
(* Properties                                                              *)
(***************************************************************************)

\* Every variable has its type: the racks hold known entities and values.
TypeOK ==
    /\ denseEntities \in [Components -> Seq(Entities)]
    /\ denseValues \in [Components -> Seq(Values)]
    /\ sparse \in [Components -> [Entities -> Nat]]
    /\ alive \in [Entities -> BOOLEAN]
    /\ known \in 0 .. MaxEntities
    /\ recycled \in Seq(Entities)
    /\ nextEntity \in 0 .. MaxEntities
    /\ liveCount \in Nat

\* The two dense vaults have the same length, and the sparse one is the
\* inverse of dense_entities: after any sequence of adds, removals and
\* destructions, get<T>(e) reaches the value stored for e and no other.
RackAgrees(c) ==
    /\ Len(denseEntities[c]) = Len(denseValues[c])
    /\ \A e \in Entities :
          Has(c, e) => /\ sparse[c][e] \in 1 .. Len(denseEntities[c])
                       /\ denseEntities[c][sparse[c][e]] = e
    /\ \A s \in 1 .. Len(denseEntities[c]) : sparse[c][denseEntities[c][s]] = s

RacksAgree == \A c \in Components : RackAgrees(c)

\* Only live entities have components: a number that create_entity hands out
\* again does not inherit what its last owner had.
NoGhosts == \A c \in Components, e \in Entities : Has(c, e) => alive[e]

\* A number is alive, waiting to be used again, or was never handed out:
\* create_entity never returns the number of a live entity.
NumbersAgree ==
    /\ nextEntity <= known
    /\ \A e \in Entities : alive[e] => e < nextEntity
    /\ \A i \in 1 .. Len(recycled) :
          recycled[i] < nextEntity /\ ~alive[recycled[i]]
    /\ \A i, j \in 1 .. Len(recycled) : recycled[i] = recycled[j] => i = j

\* No number is lost: one handed out and not alive waits to be used again, and
\* entity_count() is the number of live ones.
NoNumberLost ==
    /\ \A e \in 0 .. nextEntity - 1 :
          alive[e] \/ \E i \in 1 .. Len(recycled) : recycled[i] = e
    /\ liveCount = Cardinality({e \in Entities : alive[e]})

\* The invariant of the proofs.
RegistryInv == TypeOK /\ RacksAgree /\ NoGhosts /\ NumbersAgree

Store == INSTANCE EntityStore
             WITH live <- {e \in Entities : alive[e]},
                  component <- [c \in Components |-> [e \in Entities |-> Get(c, e)]]

\* The registry is an entity store: each operation changes the entity and the
\* component it names, and nothing of any other entity.
ImplementsStore == Store!Spec
==============================================================================
