------------------------------ MODULE GltfFlatten ------------------------------
(***************************************************************************)
(* What hpr::res::AssetKeeper::import_gltf_model                           *)
(* (hpr/resource/asset_keeper.cpp) makes of the geometry of a glTF         *)
(* document: the occluder is taken out, the primitives of a mesh go into   *)
(* one vertex and one index array, nodes are renumbered without those      *)
(* under an occluder, skins and animations follow the nodes.               *)
(*                                                                         *)
(* A document is                                                           *)
(*   [materials : Seq([mr, ao, alb, nrm, emi : a texture or none]),        *)
(*    meshes, nodes, skins and anims as in Parsed].                        *)
(* vtx and idx count the vertices and indices of a primitive; the          *)
(* attribute "opt" is tangents, both UVs and colours, "jnt" joints and     *)
(* weights; solid says that its points have a convex hull.  Numbers start  *)
(* at 1 and 0 is the code's 0xFFFFFFFF; positions in arrays start at 0.    *)
(***************************************************************************)
EXTENDS Integers, FiniteSets, SequencesExt

\* A counter that runs along nums: what it holds after the first i of them.
Sums(nums) ==
    LET sum[i \in 0 .. Len(nums)] == IF i = 0 THEN 0 ELSE sum[i - 1] + nums[i]
    IN sum
Total(nums) == Sums(nums)[Len(nums)]

\* A loop over seq that takes over the elements in S: SelectSeq, as a function
\* of the steps so that it can be reasoned about.
Taking(seq, S) ==
    LET list[i \in 0 .. Len(seq)] ==
            IF i = 0 THEN <<>>
            ELSE IF seq[i] \in S THEN Append(list[i - 1], seq[i]) ELSE list[i - 1]
    IN list[Len(seq)]
Numbers(seq) == [k \in 1 .. Len(seq) |-> k]

Fans == {"strip", "fan"}

-----------------------------------------------------------------------------
(***************************************************************************)
(* Meshes                                                                  *)
(***************************************************************************)

\* The first node named OCCLUDER ends the search, with a mesh or without.
OccluderNode(d) == SelectInSeq(d.nodes, LAMBDA n : n.occluder)
OccluderMesh(d) == IF OccluderNode(d) = 0 THEN 0 ELSE d.nodes[OccluderNode(d)].mesh

\* The meshes that are drawn, and mesh_remap: their new numbers.
Visual(d) == Taking(Numbers(d.meshes), (1 .. Len(d.meshes)) \ {OccluderMesh(d)})
MeshRemap(d, k) == SelectInSeq(Visual(d), LAMBDA v : v = k)

\* extract_mesh_indices: how many indices it writes,
Written(p) == CASE p.kind = "list"  -> p.idx
                [] p.kind \in Fans  -> 3 * (p.idx - 2)
                [] OTHER            -> 0
\* and what it has added to each of them.
Shift(p, vtx_cursor) == IF p.kind \in Fans THEN vtx_cursor ELSE 0

VtxCounts(mesh) == [i \in 1 .. Len(mesh) |-> mesh[i].vtx]
IdxCounts(mesh) == [i \in 1 .. Len(mesh) |-> mesh[i].idx]
WrittenCounts(mesh) == [i \in 1 .. Len(mesh) |-> Written(mesh[i])]

\* Mutant: the cursor moves past lists only.
VtxCursorLists(mesh, i) ==
    Sums([k \in 1 .. Len(mesh) |-> IF mesh[k].kind = "list" THEN mesh[k].vtx ELSE 0])[i - 1]

\* Where the cursors are before the primitive i.
VtxCursor(mesh, i) == Sums(VtxCounts(mesh))[i - 1]
IdxCursor(mesh, i) == Sums(WrittenCounts(mesh))[i - 1]

\* A primitive is taken if it has what any of the mesh has, a normal and a
\* material.  extract_vtx_accessors never finds joints or weights.
Active(mesh) == UNION {mesh[i].attrs : i \in 1 .. Len(mesh)}
Taken(mesh, p) ==
    /\ "nrm" \in p.attrs /\ Active(mesh) \subseteq p.attrs \ {"jnt"}
    /\ p.mat # 0

Rejected(d) == \E k \in Range(Visual(d)) : \E i \in 1 .. Len(d.meshes[k]) :
                  ~Taken(d.meshes[k], d.meshes[k][i])

\* allocate_mesh_memory counts the indices of the file, not those written.
Overruns(d) ==
    \E k \in Range(Visual(d)) :
        Total(WrittenCounts(d.meshes[k])) > Total(IdxCounts(d.meshes[k]))

\* The hulls, one for each primitive: compute_convex_hull calls its result
\* valid even if there is none, and what is filed then has no faces.
Hulls(d) == FlattenSeq([v \in 1 .. Len(Visual(d)) |->
    [i \in 1 .. Len(d.meshes[Visual(d)[v]]) |->
        [of |-> <<v, i>>, faces |-> d.meshes[Visual(d)[v]][i].solid]]])

ImportSubmesh(d, v, i) ==
    LET mesh == d.meshes[Visual(d)[v]] IN
    [vtx_base  |-> VtxCursor(mesh, i), idx_first |-> IdxCursor(mesh, i),
     idx_count |-> Written(mesh[i]),   mat       |-> mesh[i].mat,
     hull      |-> SelectInSeq(Hulls(d), LAMBDA h : h.of = <<v, i>>),
     shift     |-> Shift(mesh[i], VtxCursor(mesh, i))]

ImportMesh(d, v) ==
    LET mesh == d.meshes[Visual(d)[v]] IN
    [vtx_count |-> Total(VtxCounts(mesh)),
     idx_count |-> Total(IdxCounts(mesh)),
     submeshes |-> [i \in 1 .. Len(mesh) |-> ImportSubmesh(d, v, i)]]

\* The occluder's geometry: the parts of one slice, whose vertices start at
\* base and whose indices have had shift added.
Twin(d) ==
    IF OccluderMesh(d) = 0 THEN <<>>
    ELSE LET mesh == d.meshes[OccluderMesh(d)] IN
         [i \in 1 .. Len(mesh) |->
             [base |-> VtxCursor(mesh, i), vtx |-> mesh[i].vtx,
              shift |-> Shift(mesh[i], VtxCursor(mesh, i))]]

-----------------------------------------------------------------------------
(***************************************************************************)
(* Nodes, skins and animations                                             *)
(***************************************************************************)

\* Mutant: only the named nodes are roots of what is dropped.
DropRootsNamed(d) == {n \in 1 .. Len(d.nodes) : d.nodes[n].occluder}

DropRoots(d) ==
    {n \in 1 .. Len(d.nodes) :
        d.nodes[n].occluder \/ (d.nodes[n].mesh # 0
                                /\ MeshRemap(d, d.nodes[n].mesh) = 0)}

\* The stack hands the mark on to all descendants.
Dropped(d) ==
    LET reach[k \in 0 .. Len(d.nodes)] ==
            IF k = 0 THEN DropRoots(d)
            ELSE reach[k - 1] \cup
                 UNION {Range(d.nodes[n].children) : n \in reach[k - 1]}
    IN reach[Len(d.nodes)]

Kept(d) == Taking(Numbers(d.nodes), (1 .. Len(d.nodes)) \ Dropped(d))
NodeRemap(d, n) == SelectInSeq(Kept(d), LAMBDA k : k = n)

Parent(d, n) ==
    SelectInSeq(d.nodes, LAMBDA up : n \in Range(up.children))

KeptChildren(d, n) == Taking(d.nodes[n].children, Range(Kept(d)))
ChildCounts(d) == [n \in 1 .. Len(Kept(d)) |-> Len(KeptChildren(d, Kept(d)[n]))]

ImportNode(d, n) ==
    LET old == Kept(d)[n] IN
    [trs    |-> old,                     \* the matrix of that node
     mesh   |-> IF d.nodes[old].mesh = 0 THEN 0 ELSE MeshRemap(d, d.nodes[old].mesh),
     parent |-> IF Parent(d, old) = 0 THEN 0 ELSE NodeRemap(d, Parent(d, old)),
     child_first |-> Sums(ChildCounts(d))[n - 1],
     child_count |-> Len(KeptChildren(d, old))]

NodeChildIdxs(d) == FlattenSeq([n \in 1 .. Len(Kept(d)) |->
    LET kids == KeptChildren(d, Kept(d)[n])
    IN [c \in 1 .. Len(kids) |-> NodeRemap(d, kids[c])]])

\* Mutant: the rest matrix is looked up with the number mapped twice, too.
ImportJointTwice(d, old) ==
    LET new == NodeRemap(d, NodeRemap(d, old))
    IN [node |-> new, rest |-> IF new = 0 THEN 0 ELSE Kept(d)[new]]

\* The number of a joint is mapped twice; the rest matrix is that of the
\* first.  A dropped joint indexes past the nodes and is left out of the
\* documents, as is a first number past the end of the document.
ImportJoint(d, old) ==
    LET new == NodeRemap(d, old)
    IN [node |-> NodeRemap(d, new), rest |-> Kept(d)[new]]

\* One track per node; its times are those of the node's first channel.
ImportClip(d, clip) ==
    LET kept  == Taking(clip, {ch \in Range(clip) : ch.node \in Range(Kept(d))})
        First(n) == SelectInSeq(kept, LAMBDA ch : ch.node = n)
        Keys(n, target) ==
            LET last == SelectLastInSeq(kept, LAMBDA ch : ch.node = n /\ ch.target = target)
            IN IF last = 0 THEN 0 ELSE kept[last].keys
        tracks == Taking(Numbers(kept),
                         {i \in 1 .. Len(kept) : First(kept[i].node) = i})
    IN [t \in 1 .. Len(tracks) |->
           LET n == kept[tracks[t]].node IN
           [node |-> NodeRemap(d, n), times |-> kept[tracks[t]].keys,
            translations |-> Keys(n, "translation"), rotations |-> Keys(n, "rotation")]]

ImportModel(d) ==
    [meshes |-> [v \in 1 .. Len(Visual(d)) |-> ImportMesh(d, v)],
     hulls  |-> Hulls(d),
     twin   |-> Twin(d),
     nodes  |-> [n \in 1 .. Len(Kept(d)) |-> ImportNode(d, n)],
     node_child_idxs |-> NodeChildIdxs(d),
     skins  |-> [s \in 1 .. Len(d.skins) |->
                    [j \in 1 .. Len(d.skins[s]) |-> ImportJoint(d, d.skins[s][j])]],
     clips  |-> [a \in 1 .. Len(d.anims) |-> ImportClip(d, d.anims[a])]]

-----------------------------------------------------------------------------
(***************************************************************************)
(* Documents                                                               *)
(***************************************************************************)

Primitives ==
    [kind : STRING, vtx : Nat, idx : Nat, attrs : SUBSET {"pos", "nrm", "opt", "jnt"},
     mat : Nat, solid : BOOLEAN]

\* What parsing leaves: every number is one of the document, and no node is
\* a child twice.
Parsed(d) ==
    /\ d.meshes \in Seq(Seq(Primitives))
    /\ d.nodes \in Seq([occluder : BOOLEAN, mesh : 0 .. Len(d.meshes),
                        children : Seq(1 .. Len(d.nodes))])
    /\ d.skins \in Seq(Seq(1 .. Len(d.nodes)))
    /\ d.anims \in Seq(Seq([node : 1 .. Len(d.nodes), target : STRING, keys : Nat]))
    /\ \A m, n \in 1 .. Len(d.nodes) :
          \A i \in 1 .. Len(d.nodes[m].children), j \in 1 .. Len(d.nodes[n].children) :
              d.nodes[m].children[i] = d.nodes[n].children[j] => m = n /\ i = j

\* What the importer needs without a test: vertices with positions, whole
\* triangles, and joints that are not dropped.
Usable(d) ==
    /\ \A mesh \in Range(d.meshes) : \A p \in Range(mesh) :
          "pos" \in p.attrs /\ p.vtx > 0 /\ (p.kind \in Fans => p.idx > 2)
    /\ \A skin \in Range(d.skins) : Range(skin) \subseteq Range(Kept(d))
==============================================================================
