------------------------------ MODULE SceneFrame ------------------------------
(***************************************************************************)
(* A frame of the scene layer (hpr/layer/scene_layer.cpp) and of the scene *)
(* pass (hpr/render/render_passes.cpp): a click that waits is answered     *)
(* with the trees of the frame before, the arrays of the frame are         *)
(* cleared and filled from the entities, culling jobs sort out what is not *)
(* in sight, the rest gets a tree and goes into the draw queue; the pass   *)
(* sorts the queue, stages a blob per instance, and joins equal commands   *)
(* to instanced draws.                                                     *)
(*                                                                         *)
(* A scene is what instantiate_scene made:                                 *)
(*   [flat, entities : Seq([placed, skin, first, count]),                  *)
(*    stat : Seq([ent, mesh, mat, local, hull, tris]),                     *)
(*    skin : Seq([ent, mesh, mat, local])].                                *)
(* placed: the entity has a transform; skin: its range is one of the       *)
(* skinned arrays.  mesh is [vtx, idx, cnt]; local is the place of the     *)
(* node in the model.  Matrices are places on a line (Intervals).  A range *)
(* that ends past the arrays that a scan reads by it is left out: a        *)
(* skinned one that the scan over static models follows as well.           *)
(*                                                                         *)
(* How a tree is built and how a ray finds its way through it is not the   *)
(* frame's affair: they are parameters here, and ScenePick has them.       *)
(***************************************************************************)
EXTENDS Intervals, SequencesExt, Bags

CONSTANTS
    BuildTlas(_, _),        \* TlasBuilder::build, for the groups in sight
    RaycastScene(_, _, _),  \* raycast_scene, for a ray, a scene and its rig
    Scenes,
    Views,          \* what a camera may see: [out, behind], sets of submeshes
    Rays,           \* the rays of clicks
    Movers,         \* the entities that are moved, a bound
    Places,         \* where they may be moved to
    Grain,          \* job_grain (64)
    KeyMod          \* what is left of an index in a sort key (2^16, 2^24)

Geometry == [vtx : Nat, idx : Nat, cnt : Nat]
Triangles == [lo : Int, hi : Int, at : Int, cross : BOOLEAN]

ASSUME SizesAssumption == Grain \in Nat \ {0} /\ KeyMod \in Nat \ {0}
ASSUME ScenesAssumption ==
    \A sc \in Scenes :
        /\ sc.entities \in Seq([placed : BOOLEAN, skin : BOOLEAN, first : Nat, count : Nat])
        /\ sc.stat \in Seq([ent : Nat, mesh : Geometry, mat : Nat, local : Int,
                            hull : BOOLEAN, tris : Seq(Triangles)])
        /\ sc.skin \in Seq([ent : Nat, mesh : Geometry, mat : Nat, local : Int])
        /\ \A e \in 1 .. Len(sc.entities) :
              LET range == sc.entities[e].first .. sc.entities[e].first + sc.entities[e].count - 1
              IN /\ range \subseteq 1 .. Len(sc.stat)
                 /\ sc.entities[e].skin => range \subseteq 1 .. Len(sc.skin)

VARIABLES
    scene,
    pos,            \* mtx_W of the entities
    phase,          \* how far the frame is: frame, cull, submit, draw, halted
    pending,        \* m_pick_ctx: the ray of a click, or NoRay
    selection,      \* m_selection: [entity, submesh], 0 for none
    rig,            \* the arrays of the scene rig, see below
    raw, anmRaw,    \* the raw buffers of the blob masses
    view,           \* the camera of this frame
    slices,         \* what each culling job found, or Todo
    queue, anmQueue,
    shown           \* what the pass drew: [stat, skin, outline], bags

\* rig.M and rig.blob, rig.box: stat_mtxs_M, stat_ecs_blob_idxs and the boxes;
\* rig.skinBlob; rig.visible: stat_sbms_visible; rig.leaves: tlas_sbm_leaves;
\* rig.tlas: <<>> or <<the root>>.
vars == <<scene, pos, phase, pending, selection, rig, raw, anmRaw, view, slices,
          queue, anmQueue, shown>>

NoRay == [from |-> 0]
Todo == <<0>>
None == [entity |-> 0, submesh |-> 0]
NothingShown == [stat |-> EmptyBag, skin |-> EmptyBag, outline |-> EmptyBag]

\* The numbers of a set, in rising order.
Rising(S) == [k \in 1 .. Cardinality(S) |->
                 CHOOSE x \in S : Cardinality({y \in S : y < x}) = k - 1]

\* How often each value of a list, or of any function, occurs.
AsBag(list) == [x \in Range(list) |-> Cardinality({i \in DOMAIN list : list[i] = x})]

Total == Len(scene.stat)
Ents == 1 .. Len(scene.entities)

Init ==
    /\ scene \in Scenes
    /\ pos = [e \in Ents |-> 0]
    /\ phase = "frame" /\ pending = NoRay /\ selection = None
    /\ rig = [M |-> [s \in 1 .. Total |-> 0], blob |-> <<>>, box |-> <<>>, skinBlob |-> <<>>,
              visible |-> <<>>, leaves |-> <<>>, tlas |-> <<>>]
    /\ raw = <<>> /\ anmRaw = <<>>
    /\ view = [out |-> {}, behind |-> {}]
    /\ slices = <<>> /\ queue = <<>> /\ anmQueue = <<>>
    /\ shown = NothingShown

Move ==
    /\ phase = "frame"
    /\ \E e \in Ents \cap Movers : \E p \in Places \ {pos[e]} : pos' = [pos EXCEPT ![e] = p]
    /\ UNCHANGED <<scene, phase, pending, selection, rig, raw, anmRaw, view, slices,
                   queue, anmQueue, shown>>

Click ==
    /\ phase = "frame" /\ pending = NoRay
    /\ pending' \in Rays
    /\ UNCHANGED <<scene, pos, phase, selection, rig, raw, anmRaw, view, slices,
                   queue, anmQueue, shown>>

-----------------------------------------------------------------------------
(***************************************************************************)
(* on_update                                                               *)
(***************************************************************************)

\* process_raycast: in the arrays of the frame before.
Picked ==
    IF pending = NoRay THEN selection
    ELSE LET hit == RaycastScene(pending, scene, rig)
         IN IF hit.sbm = 0 THEN None
            ELSE [entity |-> scene.stat[hit.sbm].ent, submesh |-> hit.sbm]

\* The submeshes of some entities, as a scan meets them: <<entity, submesh>>.
Scan(found) ==
    FlattenSeq([e \in Ents |->
        IF e \notin found THEN <<>>
        ELSE [i \in 1 .. scene.entities[e].count |-> <<e, scene.entities[e].first + i - 1>>]])

LastOf(scan, s) == Max({0} \cup {k \in 1 .. Len(scan) : scan[k][2] = s})

\* The slot of the blob of s: the last one pushed; 0, the first of all, if
\* there is none.
BlobOf(scan, s) == IF LastOf(scan, s) = 0 THEN 0 ELSE LastOf(scan, s) - 1

\* clear_and_resize, sync_static_models, sync_skinned_models.  The scan of
\* the static ones does not ask for the absence of an animation.
Placed == {e \in Ents : scene.entities[e].placed}
Animated == {e \in Ents : scene.entities[e].skin}
Static == Scan(Placed)
Skinned == Scan(Placed \cap Animated)

SyncedM(s) ==
    IF LastOf(Static, s) = 0 THEN rig.M[s]
    ELSE pos[Static[LastOf(Static, s)][1]] + scene.stat[s].local

\* A box that nothing fills is a point at the origin; without a triangle it
\* is the place of the model.
SyncedBox(s) ==
    LET local == IF scene.stat[s].tris = <<>> THEN [lo |-> 0, hi |-> 0]
                 ELSE Box(scene.stat[s].tris)
    IN IF LastOf(Static, s) = 0 THEN [lo |-> 0, hi |-> 0]
       ELSE [lo |-> local.lo + SyncedM(s), hi |-> local.hi + SyncedM(s)]

\* Mutant: the nodes of the last tree are kept.
ClearedKeepTree == [rig EXCEPT !.visible = <<>>]

Cleared == [rig EXCEPT !.visible = <<>>, !.tlas = <<>>]

\* Mutant: what is left after the full slices is forgotten.
FullSlices == Total \div Grain

SliceCount == (Total + Grain - 1) \div Grain

Update ==
    /\ phase = "frame"
    /\ selection' = Picked /\ pending' = NoRay
    /\ rig' = [Cleared EXCEPT
           !.M = [s \in 1 .. Total |-> SyncedM(s)],
           !.box = [s \in 1 .. Total |-> SyncedBox(s)],
           !.blob = [s \in 1 .. Total |-> BlobOf(Static, s)],
           !.skinBlob = [s \in 1 .. Len(scene.skin) |-> BlobOf(Skinned, s)]]
    /\ raw' = [k \in 1 .. Len(Static) |->
           LET s == Static[k][2] IN
           [M |-> pos[Static[k][1]] + scene.stat[s].local, mat |-> scene.stat[s].mat]]
    /\ anmRaw' = [k \in 1 .. Len(Skinned) |->
           LET s == Skinned[k][2] IN
           [M |-> pos[Skinned[k][1]] + scene.skin[s].local, mat |-> scene.skin[s].mat]]
    /\ view' \in Views
    /\ slices' = [i \in 1 .. SliceCount |-> Todo]
    /\ phase' = "cull"
    /\ UNCHANGED <<scene, pos, queue, anmQueue, shown>>

\* cull: what is outside the frustum is left out, then what lies behind the
\* occluders, if it has a hull to test.
Passes(s) == s \notin view.out /\ ~(s \in view.behind /\ scene.stat[s].hull)

SliceOf(i) == (i - 1) * Grain + 1 .. Min({i * Grain, Total})

Cull(i) ==
    /\ phase = "cull" /\ slices[i] = Todo
    /\ slices' = [slices EXCEPT ![i] = Rising({s \in SliceOf(i) : Passes(s)})]
    /\ UNCHANGED <<scene, pos, phase, pending, selection, rig, raw, anmRaw, view,
                   queue, anmQueue, shown>>

\* build_bvh_tlas: one group for each run of one entity.
Starts(visible) ==
    Rising({v \in 1 .. Len(visible) :
               v = 1 \/ scene.stat[visible[v]].ent # scene.stat[visible[v - 1]].ent})
\* Mutant: the box of an entity is that of its first submesh in sight.
GroupsFirst(visible) ==
    LET at == Starts(visible)
        end(g) == IF g = Len(at) THEN Len(visible) ELSE at[g + 1] - 1
    IN [g \in 1 .. Len(at) |->
           [lo |-> rig.box[visible[at[g]]].lo, hi |-> rig.box[visible[at[g]]].hi,
            first |-> at[g], count |-> end(g) - at[g] + 1]]

Groups(visible) ==
    LET at == Starts(visible)
        end(g) == IF g = Len(at) THEN Len(visible) ELSE at[g + 1] - 1
        boxes(g) == [i \in 1 .. end(g) - at[g] + 1 |-> rig.box[visible[at[g] + i - 1]]]
    IN [g \in 1 .. Len(at) |->
           [lo |-> Box(boxes(g)).lo, hi |-> Box(boxes(g)).hi,
            first |-> at[g], count |-> end(g) - at[g] + 1]]

\* The latch of all slices; their results in the order of the slices.  With
\* nothing in sight there is no tree, and the leaves are those of before.
Consolidate ==
    LET visible == FlattenSeq(slices) IN
    /\ phase = "cull" /\ \A i \in 1 .. SliceCount : slices[i] # Todo
    /\ rig' = IF visible = <<>> THEN rig
              ELSE [rig EXCEPT !.visible = visible, !.leaves = visible,
                               !.tlas = <<BuildTlas(Groups(visible), scene.flat)>>]
    /\ phase' = "submit"
    /\ UNCHANGED <<scene, pos, pending, selection, raw, anmRaw, view, slices,
                   queue, anmQueue, shown>>

-----------------------------------------------------------------------------
(***************************************************************************)
(* on_submit, ScenePass::execute, clear_frame                              *)
(***************************************************************************)

\* A scene without static submeshes submits nothing, skinned ones neither.
Submit ==
    LET Anim == Scan(Animated) IN
    /\ phase = "submit"
    /\ queue' = [v \in 1 .. Len(rig.visible) |->
           LET s == rig.visible[v] IN
           [mesh |-> scene.stat[s].mesh, mat |-> scene.stat[s].mat, blob |-> rig.blob[s],
            selected |-> scene.stat[s].ent = selection.entity]]
    /\ anmQueue' = IF Total = 0 THEN <<>> ELSE
           [k \in 1 .. Len(Anim) |->
              LET s == Anim[k][2] IN
              [mesh |-> scene.skin[s].mesh, mat |-> scene.skin[s].mat,
               blob |-> rig.skinBlob[s], selected |-> FALSE]]
    /\ phase' = "draw"
    /\ UNCHANGED <<scene, pos, pending, selection, rig, raw, anmRaw, view, slices, shown>>

\* The sort key: the material, then what is left of the mesh.
Key(c) == (c.mat * KeyMod + (c.mesh.vtx % KeyMod)) * KeyMod + (c.mesh.idx % KeyMod)

\* RenderQueue::sort.  std::sort is not stable: equal keys may come in either
\* order.  A command comes after as many as are before it.
Sorted(q, down) ==
    LET Before(i, j) == \/ Key(q[i]) < Key(q[j])
                        \/ Key(q[i]) = Key(q[j]) /\ IF down THEN j < i ELSE i < j
        place(k) == 1 + Cardinality({j \in 1 .. Len(q) : Before(j, k)})
    IN [n \in 1 .. Len(q) |-> q[CHOOSE k \in 1 .. Len(q) : place(k) = n]]

\* Mutant: the blobs are drawn from where they were pushed.
StagedRaw(q, blobs) == blobs

\* push_staged: the blob of each command, in the order of the commands.
Staged(q, blobs) == [k \in 1 .. Len(q) |-> blobs[q[k].blob + 1]]

\* Commands that one draw can do, of the anim pass by the mesh alone.
Same(a, b, skinned) == a.mesh = b.mesh /\ (skinned \/ a.mat = b.mat)

\* Such commands that follow each other are one instanced draw.
Batches(q, skinned) ==
    LET starts == Rising({k \in 1 .. Len(q) : k = 1 \/ ~Same(q[k - 1], q[k], skinned)})
        end(b) == IF b = Len(starts) THEN Len(q) ELSE starts[b + 1] - 1
    IN [b \in 1 .. Len(starts) |-> [first |-> starts[b], count |-> end(b) - starts[b] + 1]]

\* Draw b has instances <<b, 0>>, <<b, 1>> ...; the shader reads the blob of
\* the first command plus the number of the instance.
Instances(q, staged, skinned) ==
    LET batches == Batches(q, skinned)
    IN [p \in UNION {{b} \X (0 .. batches[b].count - 1) : b \in 1 .. Len(batches)} |->
           [mesh |-> q[batches[p[1]].first].mesh, data |-> staged[batches[p[1]].first + p[2]]]]

\* get_raw asserts that the slot is in use.  The outline pass draws the
\* selected commands once more, one by one, from the same blobs.
Draw ==
    /\ phase = "draw"
    /\ \E down \in BOOLEAN :
         LET q == Sorted(queue, down)
             a == Sorted(anmQueue, down)
             staged == Staged(q, raw)
             marked == {k \in 1 .. Len(q) : q[k].selected}
         IN IF \/ \E k \in 1 .. Len(q) : q[k].blob >= Len(raw)
               \/ \E k \in 1 .. Len(a) : a[k].blob >= Len(anmRaw)
            THEN phase' = "halted" /\ UNCHANGED shown
            ELSE /\ phase' = "frame"
                 /\ shown' =
                      [stat    |-> AsBag(Instances(q, staged, FALSE)),
                       skin    |-> AsBag(Instances(a, Staged(a, anmRaw), TRUE)),
                       outline |-> AsBag([k \in marked |-> [mesh |-> q[k].mesh, data |-> staged[k]]])]
    /\ queue' = <<>> /\ anmQueue' = <<>>
    /\ UNCHANGED <<scene, pos, pending, selection, rig, raw, anmRaw, view, slices>>

Next ==
    \/ Move \/ Click \/ Update
    \/ \E i \in 1 .. SliceCount : Cull(i)
    \/ Consolidate \/ Submit \/ Draw

Spec == Init /\ [][Next]_vars

-----------------------------------------------------------------------------
(***************************************************************************)
(* Properties                                                              *)
(***************************************************************************)

\* The entities whose range holds submesh s of the static arrays; a submesh
\* is lost if there is none, as it happens to a model without a transform.
Owners(s) == {x[1] : x \in {y \in Range(Static) : y[2] = s}}
Lost(s) == Owners(s) = {}

\* What is drawn is what passes the culling, each submesh once and in the
\* order of the arrays, however the jobs are cut and whenever they end; its
\* matrix is that of its entity as the frame began; a tree exists for it as
\* long as it may be picked; and only a model without a transform stops the
\* pass: one whose submeshes are lost, or one that is animated.
VisibleExactly ==
    /\ phase \in {"submit", "draw"} =>
          rig.visible = Rising({s \in 1 .. Total : Passes(s)})
    /\ phase # "cull" => /\ (rig.tlas = <<>>) <=> (rig.visible = <<>>)
                         /\ rig.visible # <<>> => rig.leaves = rig.visible
    /\ phase \in {"cull", "submit", "draw"} =>
          \A s \in 1 .. Total : Owners(s) = {scene.stat[s].ent} =>
              rig.M[s] = pos[scene.stat[s].ent] + scene.stat[s].local
    /\ phase = "halted" => (\E s \in 1 .. Total : Lost(s)) \/ ~(Animated \subseteq Placed)

\* The bag of instances that the visible submeshes among S stand for: each
\* with the data that is its own, a lost one with that of the first blob.
OwnData(s) == IF Lost(s) THEN raw[1] ELSE [M |-> rig.M[s], mat |-> scene.stat[s].mat]
Drawn(S) ==
    AsBag([v \in {v \in 1 .. Len(rig.visible) : rig.visible[v] \in S} |->
              [mesh |-> scene.stat[rig.visible[v]].mesh, data |-> OwnData(rig.visible[v])]])

\* The pass draws every visible submesh once with the matrix and the material
\* that are its own, whatever order the sort leaves and however commands are
\* joined, and outlines those of the selection; a lost submesh is drawn with
\* the data of the first blob.
InstancesOwn ==
    phase = "frame" =>
       /\ shown.stat = Drawn(1 .. Total)
       /\ shown.outline = Drawn({s \in 1 .. Total : scene.stat[s].ent = selection.entity})
       /\ Animated \subseteq Placed =>
             \A inst \in BagToSet(shown.skin) : \E sub \in Range(scene.skin) :
                 inst.mesh = sub.mesh /\ inst.data.mat = sub.mat
==============================================================================
