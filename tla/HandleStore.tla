----------------------------- MODULE HandleStore -----------------------------
(***************************************************************************)
(* hpr::res::HandleStore (hpr/resource/handle_store.hpp): objects in slots *)
(* that are used again, named by handles.  A handle holds the index of a   *)
(* slot and the magic the slot had when the object was made; making and    *)
(* destroying an object each add one to the magic, so that it is odd while *)
(* the slot is occupied.                                                   *)
(*                                                                         *)
(* Indices count from 1.  The magic has 32 bits in the code; MaxMagic      *)
(* bounds it here, so that what is shown holds for as long as no slot sees *)
(* 2^31 objects.                                                           *)
(***************************************************************************)
EXTENDS Integers, Sequences, FiniteSets

CONSTANTS
    MaxSlots,       \* bound: slots ever made
    MaxMagic        \* bound: the magic of a slot

ASSUME MaxSlotsAssumption == MaxSlots \in Nat
ASSUME MaxMagicAssumption == MaxMagic \in Nat \ {0, 1}

Handles == [index : 1 .. MaxSlots, magic : 0 .. MaxMagic]
Null == [index |-> 0, magic |-> 0]      \* Handle::null()

VARIABLES
    magic,          \* magic[i]: m_slots[i].magic
    active,         \* active[i]: m_slots[i].active
    freed,          \* m_freed
    activeCount,    \* m_active_count
    issued          \* history: the handles create() has returned

storeVars == <<magic, active, freed, activeCount>>
vars == <<storeVars, issued>>

Init ==
    /\ magic = <<>>
    /\ active = <<>>
    /\ freed = <<>>
    /\ activeCount = 0
    /\ issued = {}

\* Mutant: a get() that does not compare the magic.
ResolvesByIndex(h) ==
    /\ h.index \in 1 .. Len(magic)
    /\ active[h.index]

\* get(): the handle names the object that is in its slot now.
Resolves(h) ==
    /\ h.index \in 1 .. Len(magic)
    /\ active[h.index]
    /\ magic[h.index] = h.magic

\* Mutant: a create() that leaves the slot on the list.
CreateInFreedKeep(h) ==
    /\ freed # <<>>
    /\ h = [index |-> freed[Len(freed)], magic |-> magic[freed[Len(freed)]] + 1]
    /\ h.magic < MaxMagic
    /\ magic' = [magic EXCEPT ![h.index] = h.magic]
    /\ active' = [active EXCEPT ![h.index] = TRUE]
    /\ activeCount' = activeCount + 1
    /\ issued' = issued \cup {h}
    /\ UNCHANGED freed

\* create() in the slot freed last.
CreateInFreed(h) ==
    /\ freed # <<>>
    /\ h.index = freed[Len(freed)]
    /\ h.magic = magic[h.index] + 1
    /\ h.magic < MaxMagic
    /\ freed' = SubSeq(freed, 1, Len(freed) - 1)
    /\ magic' = [magic EXCEPT ![h.index] = h.magic]
    /\ active' = [active EXCEPT ![h.index] = TRUE]
    /\ activeCount' = activeCount + 1
    /\ issued' = issued \cup {h}

\* create() in a new slot.
CreateInNew(h) ==
    /\ freed = <<>>
    /\ Len(magic) < MaxSlots
    /\ h = [index |-> Len(magic) + 1, magic |-> 1]
    /\ magic' = Append(magic, 1)
    /\ active' = Append(active, TRUE)
    /\ activeCount' = activeCount + 1
    /\ issued' = issued \cup {h}
    /\ UNCHANGED freed

Create(h) == CreateInFreed(h) \/ CreateInNew(h)

\* destroy() of a handle that names an object.
Destroy(h) ==
    /\ Resolves(h)
    /\ magic' = [magic EXCEPT ![h.index] = @ + 1]
    /\ active' = [active EXCEPT ![h.index] = FALSE]
    /\ freed' = Append(freed, h.index)
    /\ activeCount' = activeCount - 1
    /\ UNCHANGED issued

\* destroy() of a stale handle, or of one this store never made.
DestroyStale(h) == ~Resolves(h) /\ UNCHANGED vars

\* Clients call destroy with any handle they were ever given.
Next ==
    \/ \E h \in Handles : Create(h)
    \/ \E h \in issued \cup {Null} : Destroy(h) \/ DestroyStale(h)

Spec == Init /\ [][Next]_vars

-----------------------------------------------------------------------------
(***************************************************************************)
(* Properties                                                              *)
(***************************************************************************)

\* Slots, free list and history have their types; the last magic a slot may
\* have is one of an empty slot.
TypeOK ==
    /\ Len(magic) <= MaxSlots
    /\ magic \in Seq(0 .. MaxMagic)
    /\ \A i \in 1 .. Len(magic) : active[i] => magic[i] < MaxMagic
    /\ active \in Seq(BOOLEAN)
    /\ Len(active) = Len(magic)
    /\ freed \in Seq(1 .. MaxSlots)
    /\ activeCount \in Int
    /\ issued \subseteq Handles

\* The magic of a slot is odd exactly while an object is in it.
MagicParity == \A i \in 1 .. Len(magic) : active[i] <=> magic[i] % 2 = 1

\* A slot is empty exactly when it stands in the free list, once: create()
\* never puts an object where one is (the assertion in Slot::construct).
FreedAreEmpty ==
    /\ \A k \in 1 .. Len(freed) : freed[k] <= Len(magic) /\ ~active[freed[k]]
    /\ \A i \in 1 .. Len(magic) :
          ~active[i] => \E k \in 1 .. Len(freed) : freed[k] = i
    /\ \A j, k \in 1 .. Len(freed) : freed[j] = freed[k] => j = k

\* Each slot has had, under its magics up to now, the objects it was asked for:
\* a handle that was given out names the object in its slot or an earlier one.
IssuedArePast ==
    \A h \in issued : h.index <= Len(magic) /\ h.magic <= magic[h.index]

\* The invariant on which the identity of handles rests.
StoreInv == TypeOK /\ MagicParity /\ FreedAreEmpty /\ IssuedArePast

\* Each handle names one object only: create() returns one it never returned.
FreshHandles == [][\A h \in Handles : Create(h) => h \notin issued]_vars

\* A handle that stopped naming its object never names another one.
StaleForEver ==
    [][\A h \in issued : ~Resolves(h) => ~(Resolves(h)')]_vars
==============================================================================
