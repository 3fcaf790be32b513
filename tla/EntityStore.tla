----------------------------- MODULE EntityStore -----------------------------
(***************************************************************************)
(* What hpr::ecs::Registry promises its clients: a set of live entities,   *)
(* and for each kind of component a partial map from live entities to      *)
(* values.  How racks lay the values out in memory is module EcsRegistry.  *)
(***************************************************************************)
EXTENDS Integers

CONSTANTS
    MaxEntities,    \* bound: entities ever created between two clears
    Components,     \* the component types of the registry
    Values,         \* what a component can hold
    Absent          \* the value of a component an entity does not have

Entities == 0 .. MaxEntities - 1

VARIABLES
    live,           \* the entities created and not destroyed
    component       \* component[c][e]: what component c of entity e holds

vars == <<live, component>>

Nothing == [c \in Components |-> [e \in Entities |-> Absent]]

\* Only entities are alive, and a component holds a value or nothing.
TypeOK ==
    /\ live \subseteq Entities
    /\ component \in [Components -> [Entities -> Values \cup {Absent}]]

Init == live = {} /\ component = Nothing

\* A new entity has no component, whoever had its number before.
Create(e) ==
    /\ e \notin live
    /\ \A c \in Components : component[c][e] = Absent
    /\ live' = live \cup {e}
    /\ UNCHANGED component

Destroy(e) ==
    /\ e \in live
    /\ live' = live \ {e}
    /\ component' = [c \in Components |-> [component[c] EXCEPT ![e] = Absent]]

Set(c, e, v) ==
    /\ e \in live
    /\ component' = [component EXCEPT ![c][e] = v]
    /\ UNCHANGED live

ClearComponent(c) ==
    /\ component' = [component EXCEPT ![c] = Nothing[c]]
    /\ UNCHANGED live

Clear == live' = {} /\ component' = Nothing

Next ==
    \/ \E e \in Entities : Create(e) \/ Destroy(e)
    \/ \E c \in Components, e \in Entities, v \in Values \cup {Absent} :
          Set(c, e, v)
    \/ \E c \in Components : ClearComponent(c)
    \/ Clear

Spec == Init /\ [][Next]_vars
==============================================================================
