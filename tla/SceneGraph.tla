----------------------------- MODULE SceneGraph -----------------------------
(***************************************************************************)
(* The transform graph: how instantiate_scene (hpr/scene/scene_core.hpp)   *)
(* turns the entity documents of a scene into parent, first-child and      *)
(* next-sibling links, and how HierarchySystem and TransformSystem         *)
(* (hpr/entity/systems_scene.hpp) derive world matrices from them in every *)
(* frame (LayerStack::on_update).                                          *)
(*                                                                         *)
(* The loader goes over the documents four times, one document a step.  A  *)
(* local transform is a number of its own, given when it is loaded or      *)
(* moved; a world matrix is the sequence of the local transforms that were *)
(* multiplied into it, outermost first.                                    *)
(***************************************************************************)
EXTENDS Integers, Sequences, FiniteSets

CONSTANTS
    Scenes,     \* the scenes: sequences of entity documents
    MaxDocs,    \* bound: documents of a scene
    MaxMoves    \* bound: changes of a local transform

NoGuid == 0             \* cfg::invalid_guid, of a missing or unreadable guid
NoEntity == -1          \* ecs::ctx::invalid_entity
Entities == 0 .. MaxDocs - 1

\* What the graph needs to know of a document.
Docs == [guid : Nat, parent : Nat, transform : BOOLEAN]

ASSUME MaxDocsAssumption == MaxDocs \in Nat \ {0}
ASSUME MaxMovesAssumption == MaxMoves \in Nat
ASSUME ScenesAssumption ==
    \A scene \in Scenes : scene \in Seq(Docs) /\ Len(scene) <= MaxDocs

VARIABLES
    docs,           \* scene_doc.entity_docs
    phase,          \* the pass of the loader, then "attach" and "run"
    at,             \* the document the pass is at
    entityOf,       \* guid_entity_map
    source,         \* source[e]: the document whose components e has, 0 for none
    transforms,     \* the entities with a TransformComponent, in rack order
    parent,         \* HierarchyComponent::parent
    children,       \* parent_children_map
    unlinked,       \* the keys of parent_children_map not gone over yet
    firstChild,     \* HierarchyComponent::first_child
    nextSibling,    \* HierarchyComponent::next_sibling
    local,          \* position, rotation and scale
    world,          \* mtx_W
    moves,          \* counts the changes of local transforms
    still           \* history: frames since anything moved, MaxDocs at most

loadVars == <<docs, entityOf, children, unlinked, source>>
linkVars == <<parent, firstChild, nextSibling>>
valueVars == <<transforms, local, world, moves, still>>
vars == <<loadVars, phase, at, linkVars, valueVars>>

InTransforms(e) == \E i \in 1 .. Len(transforms) : transforms[i] = e

Init ==
    /\ docs \in Scenes
    /\ phase = "make"
    /\ at = 1
    /\ entityOf = <<>>
    /\ source = [e \in Entities |-> 0]
    /\ transforms = <<>>
    /\ parent = [e \in Entities |-> NoEntity]
    /\ children = <<>>
    /\ unlinked = {}
    /\ firstChild = [e \in Entities |-> NoEntity]
    /\ nextSibling = [e \in Entities |-> NoEntity]
    /\ local = [e \in Entities |-> 0]
    /\ world = [e \in Entities |-> <<>>]
    /\ moves = 0
    /\ still = 0

-----------------------------------------------------------------------------
(***************************************************************************)
(* Loading                                                                 *)
(***************************************************************************)

InPass(name) == phase = name /\ at <= Len(docs)

NextPass(from, to) ==
    /\ phase = from /\ at > Len(docs)
    /\ phase' = to /\ at' = 1
    /\ UNCHANGED <<loadVars, linkVars, valueVars>>

Known(guid) == guid \in DOMAIN entityOf

\* f with the value v for k, whether or not it had one.
With(f, k, v) == [x \in DOMAIN f \cup {k} |-> IF x = k THEN v ELSE f[x]]

\* Mutant: entities are numbered from one.
MakeEntityFromOne ==
    /\ InPass("make")
    /\ entityOf' = IF docs[at].guid = NoGuid \/ Known(docs[at].guid) THEN entityOf
                   ELSE With(entityOf, docs[at].guid, Cardinality(DOMAIN entityOf) + 1)
    /\ at' = at + 1
    /\ UNCHANGED <<docs, children, unlinked, source, phase, linkVars, valueVars>>

\* First pass: an entity for every document with a guid of its own; the others
\* are warned about and skipped.
MakeEntity ==
    /\ InPass("make")
    /\ entityOf' = IF docs[at].guid = NoGuid \/ Known(docs[at].guid) THEN entityOf
                   ELSE With(entityOf, docs[at].guid, Cardinality(DOMAIN entityOf))
    /\ at' = at + 1
    /\ UNCHANGED <<docs, children, unlinked, source, phase, linkVars, valueVars>>

\* Second pass: the components of every document whose guid is known.
AttachComponents ==
    /\ InPass("components")
    /\ at' = at + 1
    /\ IF Known(docs[at].guid)
       THEN LET e == entityOf[docs[at].guid] IN
            /\ source' = [source EXCEPT ![e] = at]
            /\ IF docs[at].transform
               THEN /\ transforms' = IF InTransforms(e) THEN transforms
                                     ELSE Append(transforms, e)
                    /\ local' = [local EXCEPT ![e] = at]
                    /\ world' = [world EXCEPT ![e] = <<at>>]
               ELSE UNCHANGED <<transforms, local, world>>
       ELSE UNCHANGED <<source, transforms, local, world>>
    /\ UNCHANGED <<docs, entityOf, children, unlinked, phase, linkVars, moves, still>>

\* Third pass: the parent of every document whose guid is known.
LinkParent ==
    /\ InPass("parents")
    /\ at' = at + 1
    /\ IF Known(docs[at].guid)
       THEN LET e == entityOf[docs[at].guid] IN
            /\ parent' = [parent EXCEPT ![e] = IF Known(docs[at].parent)
                                               THEN entityOf[docs[at].parent]
                                               ELSE NoEntity]
            /\ firstChild' = [firstChild EXCEPT ![e] = NoEntity]
            /\ nextSibling' = [nextSibling EXCEPT ![e] = NoEntity]
       ELSE UNCHANGED linkVars
    /\ UNCHANGED <<loadVars, phase, valueVars>>

\* Fourth pass: guid_entity_map[guid] makes up entity 0 for an unknown guid.
ListChild ==
    /\ InPass("children")
    /\ LET guid == docs[at].guid
           child == IF Known(guid) THEN entityOf[guid] ELSE 0
           siblings == IF parent[child] \in DOMAIN children
                       THEN children[parent[child]] ELSE <<>>
       IN /\ entityOf' = With(entityOf, guid, child)
          /\ children' = With(children, parent[child], Append(siblings, child))
          /\ unlinked' = unlinked \cup {parent[child]}
    /\ at' = at + 1
    /\ UNCHANGED <<docs, source, phase, linkVars, valueVars>>

\* Mutant: the last sibling is linked back to the first.
SuccessorRound(list, e) ==
    LET last == CHOOSE i \in 1 .. Len(list) :
                    list[i] = e /\ \A j \in i + 1 .. Len(list) : list[j] # e
    IN list[(last % Len(list)) + 1]

\* What follows e in the list; of one that is listed twice, the last time.
Successor(list, e) ==
    LET last == CHOOSE i \in 1 .. Len(list) :
                    list[i] = e /\ \A j \in i + 1 .. Len(list) : list[j] # e
    IN IF last = Len(list) THEN NoEntity ELSE list[last + 1]

\* Last pass, one key of parent_children_map a step, in any order.
LinkSiblings(p) ==
    LET list == children[p]
        listed == {list[i] : i \in 1 .. Len(list)}
    IN /\ phase = "siblings" /\ p \in unlinked
       /\ unlinked' = unlinked \ {p}
       /\ firstChild' = IF p = NoEntity THEN firstChild
                        ELSE [firstChild EXCEPT ![p] = list[1]]
       /\ nextSibling' = [e \in Entities |->
              IF e \in listed \ {p} THEN Successor(list, e) ELSE nextSibling[e]]
       /\ UNCHANGED <<docs, entityOf, children, source, phase, at, parent, valueVars>>

-----------------------------------------------------------------------------
(***************************************************************************)
(* World matrices                                                          *)
(***************************************************************************)

\* A set of entities that next_sibling only leaves at the end of a list.
Closed(S) == \A e \in S : nextSibling[e] \in S \cup {NoEntity}

\* The children that HierarchySystem comes to in its loop over the list of p.
Chain(p) ==
    {e \in Entities : \A S \in SUBSET Entities :
        Closed(S) /\ {firstChild[p]} \ {NoEntity} \subseteq S => e \in S}

Roots == {e \in Entities : InTransforms(e) /\ parent[e] = NoEntity}

\* HierarchySystem: the world matrices of the entities it visits, those at
\* most n links below a root.  An entity without a transform is not visited,
\* and neither is what is below it.
Visited(n) ==
    LET chain == [p \in Entities |-> Chain(p)]
        visit[i \in 0 .. n] ==
            IF i = 0 THEN [e \in Roots |-> <<local[e]>>]
            ELSE LET above == visit[i - 1]
                     Owner(e) == CHOOSE p \in DOMAIN above : e \in chain[p]
                     below == {e \in Entities :
                                  InTransforms(e) /\ \E p \in DOMAIN above : e \in chain[p]}
                 IN [e \in DOMAIN above \cup below |->
                        IF e \in DOMAIN above THEN above[e]
                        ELSE Append(above[Owner(e)], local[e])]
    IN visit[n]

HierarchyUpdated(w) ==
    LET visited == Visited(MaxDocs)
    IN [e \in Entities |-> IF e \in DOMAIN visited THEN visited[e] ELSE w[e]]

\* TransformSystem: every entity, in the order of the rack, from what the
\* matrix of its parent is by then.
TransformUpdated(w) ==
    LET after[i \in 0 .. Len(transforms)] ==
            IF i = 0 THEN w
            ELSE LET before == after[i - 1]
                     e == transforms[i]
                     hasParent == parent[e] # NoEntity /\ InTransforms(parent[e])
                 IN [before EXCEPT ![e] =
                        IF hasParent THEN Append(before[parent[e]], local[e])
                        ELSE <<local[e]>>]
    IN after[Len(transforms)]

\* SceneLayer::on_attach runs TransformSystem alone.
Attach ==
    /\ phase = "siblings" /\ unlinked = {}
    /\ phase' = "run"
    /\ world' = TransformUpdated(world)
    /\ UNCHANGED <<loadVars, at, linkVars, transforms, local, moves, still>>

\* An edit command or the camera controller changes a local transform.
Move(e) ==
    /\ phase = "run"
    /\ InTransforms(e)
    /\ moves < MaxMoves
    /\ moves' = moves + 1
    /\ local' = [local EXCEPT ![e] = MaxDocs + moves + 1]
    /\ still' = 0
    /\ UNCHANGED <<loadVars, phase, at, linkVars, transforms, world>>

\* Mutant: a frame without HierarchySystem.
FrameTransformOnly ==
    /\ phase = "run"
    /\ world' = TransformUpdated(world)
    /\ still' = IF still < MaxDocs THEN still + 1 ELSE still
    /\ UNCHANGED <<loadVars, phase, at, linkVars, transforms, local, moves>>

\* Mutant: a frame without TransformSystem.
FrameHierarchyOnly ==
    /\ phase = "run"
    /\ world' = HierarchyUpdated(world)
    /\ still' = IF still < MaxDocs THEN still + 1 ELSE still
    /\ UNCHANGED <<loadVars, phase, at, linkVars, transforms, local, moves>>

\* The two systems run one after the other in LayerStack::on_update.
Frame ==
    /\ phase = "run"
    /\ world' = TransformUpdated(HierarchyUpdated(world))
    /\ still' = IF still < MaxDocs THEN still + 1 ELSE still
    /\ UNCHANGED <<loadVars, phase, at, linkVars, transforms, local, moves>>

Load ==
    \/ MakeEntity \/ NextPass("make", "components")
    \/ AttachComponents \/ NextPass("components", "parents")
    \/ LinkParent \/ NextPass("parents", "children")
    \/ ListChild \/ NextPass("children", "siblings")
    \/ \E p \in Entities \cup {NoEntity} : LinkSiblings(p)
    \/ Attach

Next ==
    \/ Load
    \/ \E e \in Entities : Move(e)
    \/ Frame

Spec == Init /\ [][Next]_vars

-----------------------------------------------------------------------------
(***************************************************************************)
(* Properties                                                              *)
(***************************************************************************)

\* Every variable has its type; an entity is below MaxDocs.
TypeOK ==
    /\ docs \in Seq(Docs)
    /\ phase \in {"make", "components", "parents", "children", "siblings", "run"}
    /\ at \in 1 .. MaxDocs + 1
    /\ \A guid \in DOMAIN entityOf : entityOf[guid] \in Entities
    /\ source \in [Entities -> 0 .. MaxDocs]
    /\ transforms \in Seq(Entities)
    /\ parent \in [Entities -> Entities \cup {NoEntity}]
    /\ DOMAIN children \cup unlinked \subseteq Entities \cup {NoEntity}
    /\ firstChild \in [Entities -> Entities \cup {NoEntity}]
    /\ nextSibling \in [Entities -> Entities \cup {NoEntity}]
    /\ local \in [Entities -> 0 .. MaxDocs + MaxMoves]
    /\ world \in [Entities -> Seq(0 .. MaxDocs + MaxMoves)]
    /\ moves \in 0 .. MaxMoves
    /\ still \in 0 .. MaxDocs

\* The documents are what a scene's author would write: each has a guid of its
\* own and another's for its parent, and the ones that others name as their
\* parent have a transform.
WellFormed ==
    \A i, j \in DOMAIN docs :
        /\ docs[i].guid # NoGuid
        /\ docs[i].parent # docs[i].guid
        /\ docs[i].guid = docs[j].guid => i = j
        /\ docs[i].parent = docs[j].guid => docs[j].transform

\* Once a well-formed scene is loaded, the child list of an entity holds its
\* children and no other: what is reached from the top is what hangs there
\* from below.
ChildrenAreListed ==
    WellFormed => \A p \in Entities : Chain(p) = {e \in Entities : parent[e] = p}

\* No child list comes back to where it was, whatever the documents say: the
\* loop over siblings in HierarchySystem ends.
ChildListsEnd ==
    \A S \in (SUBSET Entities) \ {{}} : \E e \in S : nextSibling[e] \notin S

\* What the last passes of instantiate_scene leave to the systems.
ChildListsRight == phase = "run" => ChildrenAreListed /\ ChildListsEnd

\* The matrix that the graph defines: the local transforms from the outermost
\* ancestor down to e, where an ancestor without a transform cuts the path.
Path(e) ==
    LET up[n \in 0 .. MaxDocs] ==
            [x \in Entities |->
                IF n > 0 /\ parent[x] # NoEntity /\ InTransforms(parent[x])
                THEN Append(up[n - 1][parent[x]], local[x])
                ELSE <<local[x]>>]
    IN up[MaxDocs][e]

AllOnPath == \A e \in Entities : InTransforms(e) => world[e] = Path(e)

\* Going up leads out of any set of entities: no entity is its own ancestor.
NoCycle == \A S \in (SUBSET Entities) \ {{}} : \E e \in S : parent[e] \notin S

\* After a frame every world matrix is the one the graph defines, in whatever
\* order well-formed documents name parents and children: no entity is drawn,
\* or picked, one frame behind the ancestor that moved it.
WorldIsPath == still > 0 /\ WellFormed /\ NoCycle => AllOnPath

\* The same in the end, for any documents without a cycle of parents: once
\* nothing moves, every matrix is right after as many frames as the deepest
\* path has links that HierarchySystem does not follow.
WorldSettles == still > 0 /\ still >= MaxDocs - 1 /\ NoCycle => AllOnPath

=============================================================================
