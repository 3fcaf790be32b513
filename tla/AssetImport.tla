----------------------------- MODULE AssetImport -----------------------------
(***************************************************************************)
(* hpr::res::AssetKeeper (hpr/resource/asset_keeper.cpp): a glTF document  *)
(* is parsed once, its materials and images are imported into banks that   *)
(* all documents share, its geometry is flattened (GltfFlatten) and the    *)
(* model is filed; then RenderForge::create_model                          *)
(* (hpr/render/render_forge.cpp) moves it into the vertex masses.  One     *)
(* thread does all of this, but an image file need not be tomorrow what it *)
(* is today, an import may give up half way, and what it has filed until   *)
(* then stays and meets the next import.                                   *)
(*                                                                         *)
(* A bank never loses an asset here (the keeper does not call remove), so  *)
(* an asset is its key: AssetBank.  An image is its size, 0 for the image  *)
(* of 0 x 0; a texture is the key of its image.                            *)
(***************************************************************************)
EXTENDS GltfFlatten

CONSTANTS
    Paths,          \* the paths asked for
    Contents,       \* functions from paths to documents, to start from
    Images,         \* the image files
    Sizes,          \* sizes of images; 0 is a file that cannot be decoded
    NoTex           \* no texture, or one whose image has no key

ASSUME KeysAssumption ==
    /\ NoTex \notin Images
    /\ (Images \cup {NoTex}) \cap (Paths \X (Images \cup {NoTex}) \X (Images \cup {NoTex})) = {}
ASSUME SizesAssumption == 0 \in Sizes /\ Sizes \subseteq Nat

Materials == [{"mr", "ao", "alb", "nrm", "emi"} -> Images \cup {NoTex}]

\* What the importer relies on.
ASSUME DocsAssumption ==
    \A content \in Contents, path \in Paths :
        /\ content[path].materials \in Seq(Materials)
        /\ Parsed(content[path]) /\ Usable(content[path])

VARIABLES
    files,          \* what the documents hold
    disk,           \* what decoding an image file gives at present
    gltfs,          \* m_gltf_bank
    images,         \* m_image_bank: key -> size
    materials,      \* m_material_template_bank: <<path, index>> -> slot -> key
    models,         \* m_model_bank and m_model_cache: path -> model
    task,           \* the import under way
    forged,         \* what create_model made: path -> ranges in the masses
    mass,           \* fill of the vertex, index and material buffers
    halted          \* the path whose model failed an assertion, or NoTex

banks == <<gltfs, images, materials, models>>
vars == <<files, disk, banks, task, forged, mass, halted>>

Idle == [step |-> "idle"]

Put(bank, key, val) ==
    [k \in DOMAIN bank \cup {key} |-> IF k = key THEN val ELSE bank[k]]

Init ==
    /\ files \in Contents
    /\ disk \in [Images -> Sizes]
    /\ gltfs = {} /\ images = <<>> /\ materials = <<>> /\ models = <<>>
    /\ task = Idle
    /\ forged = <<>>
    /\ mass = [anim  |-> [vtx |-> 0, idx |-> 0],
               scene |-> [vtx |-> 0, idx |-> 0], materials |-> 0]
    /\ halted = NoTex

\* Between two imports an image may be repaired, or lost.
Rewrite ==
    /\ task = Idle
    /\ \E k \in Images : \E s \in Sizes \ {disk[k]} : disk' = [disk EXCEPT ![k] = s]
    /\ UNCHANGED <<files, banks, task, forged, mass, halted>>

-----------------------------------------------------------------------------
(***************************************************************************)
(* import_gltf_model: the document and its materials                       *)
(***************************************************************************)

Doc == files[task.path]
Material == Doc.materials[task.mat]
MaterialKey == <<task.path, task.mat>>
At(step) == task.step = step

\* Only a path without a model is imported.  A document that cannot be
\* parsed is asked for again the next time; one that can stays in its bank.
Request(path) ==
    /\ task = Idle /\ path \notin DOMAIN models
    /\ \/ path \notin gltfs /\ UNCHANGED <<gltfs, task>>
       \/ /\ gltfs' = gltfs \cup {path}
          /\ task' = [step |-> "find", path |-> path, mat |-> 1, bound |-> <<>>]
    /\ UNCHANGED <<files, disk, images, materials, models, forged, mass, halted>>

GoOn(step, bound) == task' = [task EXCEPT !.step = step, !.bound = bound]
NextMaterial == task' = [task EXCEPT !.step = "find", !.mat = @ + 1, !.bound = <<>>]

\* A material that the bank has is not made again, even if a texture of it
\* was missing then.
FindMaterial ==
    /\ At("find") /\ task.mat <= Len(Doc.materials)
    /\ IF MaterialKey \in DOMAIN materials
       THEN NextMaterial
       ELSE GoOn("ormh", <<>>)
    /\ UNCHANGED <<files, disk, banks, forged, mass, halted>>

\* Mutant: an image that cannot be decoded is filed like any other.
FetchAny(bank, key) ==
    IF key = NoTex \/ key \in DOMAIN bank THEN bank ELSE Put(bank, key, disk[key])

\* import_gltf_image: what the bank holds after key was asked for.
Fetch(bank, key) ==
    IF key = NoTex \/ key \in DOMAIN bank THEN bank
    ELSE IF disk[key] = 0 THEN bank
    ELSE Put(bank, key, disk[key])

SizeIn(bank, key) == IF key \in DOMAIN bank THEN bank[key] ELSE 0

\* The key is made of the addresses of both textures, so of the document.
OrmhKey == <<task.path, Material.mr, Material.ao>>
WithOrmh == Put(task.bound, "ormh", OrmhKey)

NoOrmh ==
    /\ At("ormh") /\ {Material.mr, Material.ao} = {NoTex}
    /\ GoOn("alb", <<>>)
    /\ UNCHANGED <<files, disk, banks, forged, mass, halted>>

KnownOrmh ==
    /\ At("ormh") /\ {Material.mr, Material.ao} # {NoTex}
    /\ OrmhKey \in DOMAIN images
    /\ GoOn("alb", WithOrmh)
    /\ UNCHANGED <<files, disk, banks, forged, mass, halted>>

\* The image takes the size of one source.  Two sizes that differ end the
\* material; two sources that are missing make an image without a size.
MakeOrmh ==
    LET bank == Fetch(Fetch(images, Material.mr), Material.ao)
        mr   == SizeIn(bank, Material.mr)
        ao   == SizeIn(bank, Material.ao)
    IN /\ At("ormh") /\ {Material.mr, Material.ao} # {NoTex}
       /\ OrmhKey \notin DOMAIN images
       /\ IF mr > 0 /\ ao > 0 /\ mr # ao
          THEN images' = bank /\ GoOn("file", <<>>)
          ELSE /\ images' = Put(bank, OrmhKey, IF mr > 0 THEN mr ELSE ao)
               /\ GoOn("alb", WithOrmh)
       /\ UNCHANGED <<files, disk, gltfs, materials, models, forged, mass, halted>>

\* Mutant: the emissive texture is forgotten.
AfterThree == [alb |-> "nrm", nrm |-> "file", emi |-> "file"]

After == [alb |-> "nrm", nrm |-> "emi", emi |-> "file"]

\* Mutant: assign_tex sets the bit of a slot whose image is missing.
AssignTexAlways(slot) ==
    LET key == Material[slot]
    IN /\ At(slot)
       /\ images' = Fetch(images, key)
       /\ GoOn(After[slot], IF key = NoTex THEN task.bound ELSE Put(task.bound, slot, key))
       /\ UNCHANGED <<files, disk, gltfs, materials, models, forged, mass, halted>>

\* assign_tex: a slot is bound if its image is in the bank after all.
AssignTex(slot) ==
    LET key == Material[slot]
    IN /\ At(slot)
       /\ images' = Fetch(images, key)
       /\ GoOn(After[slot], IF key \in DOMAIN images' THEN Put(task.bound, slot, key)
                                                       ELSE task.bound)
       /\ UNCHANGED <<files, disk, gltfs, materials, models, forged, mass, halted>>

FileMaterial ==
    /\ At("file")
    /\ materials' = Put(materials, MaterialKey, task.bound)
    /\ NextMaterial
    /\ UNCHANGED <<files, disk, gltfs, images, models, forged, mass, halted>>

-----------------------------------------------------------------------------
(***************************************************************************)
(* import_gltf_model: the geometry; create_model                           *)
(***************************************************************************)

AllMaterials == At("find") /\ task.mat > Len(Doc.materials)

\* A mesh that is rejected ends the import; materials and images stay.
RejectModel ==
    /\ AllMaterials /\ Rejected(Doc) /\ ~Overruns(Doc)
    /\ task' = Idle
    /\ UNCHANGED <<files, disk, banks, forged, mass, halted>>

FileModel ==
    /\ AllMaterials /\ ~Rejected(Doc) /\ ~Overruns(Doc)
    /\ models' = Put(models, task.path, ImportModel(Doc))
    /\ task' = Idle
    /\ UNCHANGED <<files, disk, gltfs, images, materials, forged, mass, halted>>

\* A strip is written past the end of the index array.  What happens then is
\* up to the heap, or to the assertion of a list that follows: here, a stop.
Overwrite ==
    /\ AllMaterials /\ Overruns(Doc)
    /\ halted' = task.path
    /\ task' = Idle
    /\ UNCHANGED <<files, disk, banks, forged, mass>>

\* The mass a model goes to, for its vertices.
Skinned(d) == d.skins # <<>> /\ d.anims # <<>>
Kind(path) == IF Skinned(files[path]) THEN "anim" ELSE "scene"

Vertices(meshes) == [v \in 1 .. Len(meshes) |-> meshes[v].vtx_count]
Indices(meshes) == [v \in 1 .. Len(meshes) |-> meshes[v].idx_count]

\* VertexMass::push appends the arrays of one mesh after the other.
MeshBase(path, v) ==
    LET meshes == models[path].meshes IN
    [vtx |-> mass[Kind(path)].vtx + Sums(Vertices(meshes))[v - 1],
     idx |-> mass[Kind(path)].idx + Sums(Indices(meshes))[v - 1]]

\* What stops create_model: joints, which no import has, are copied for a
\* skinned mesh; and create_texture asserts a size.
Jointless(path) == Skinned(files[path]) /\ models[path].meshes # <<>>
Textures(path) ==
    UNION {Range(materials[<<path, m>>]) : m \in 1 .. Len(files[path].materials)}
Flat(path) == \E key \in Textures(path) : images[key] = 0

\* create_model.  Every material gets an instance of its own, in order.  The
\* copy of missing joints reads past the end of an empty array: it may fail
\* or not.
Forge(path) ==
    LET meshes == models[path].meshes IN
    /\ task = Idle
    /\ path \in DOMAIN models \ DOMAIN forged
    /\ \/ /\ Jointless(path) \/ Flat(path)
          /\ halted' = path
          /\ UNCHANGED <<forged, mass>>
       \/ /\ ~Flat(path)
          /\ mass' = [mass EXCEPT ![Kind(path)] = MeshBase(path, Len(meshes) + 1),
                                  !.materials = @ + Len(files[path].materials)]
          /\ forged' = Put(forged, path,
                 [base |-> [v \in 1 .. Len(meshes) |-> MeshBase(path, v)],
                  ssbo |-> mass.materials])
          /\ UNCHANGED halted
    /\ UNCHANGED <<files, disk, banks, task>>

Running ==
    \/ Rewrite
    \/ \E path \in Paths : Request(path) \/ Forge(path)
    \/ FindMaterial \/ NoOrmh \/ KnownOrmh \/ MakeOrmh
    \/ \E slot \in DOMAIN After : AssignTex(slot)
    \/ FileMaterial \/ RejectModel \/ FileModel \/ Overwrite

Next == halted = NoTex /\ Running

Spec == Init /\ [][Next]_vars

-----------------------------------------------------------------------------
(***************************************************************************)
(* Properties                                                              *)
(***************************************************************************)

Keys == Images \cup (Paths \X (Images \cup {NoTex}) \X (Images \cup {NoTex}))

\* The banks refer to each other and never to nothing: a slot that is bound
\* has its image, a model its document and all its materials, what is forged
\* its model.  Only an image made of two others can be without a size.
ImportInv ==
    /\ DOMAIN images \subseteq Keys
    /\ \A key \in DOMAIN images : images[key] \in Sizes /\ (key \in Images => images[key] # 0)
    /\ \A m \in DOMAIN materials : Range(materials[m]) \subseteq DOMAIN images
    /\ \A path \in DOMAIN models :
          path \in gltfs /\ \A m \in 1 .. Len(files[path].materials) :
                                <<path, m>> \in DOMAIN materials
    /\ DOMAIN forged \subseteq DOMAIN models
    /\ task # Idle => task.path \in gltfs /\ Range(task.bound) \subseteq DOMAIN images

\* A material is filed with every texture of the document whose image could
\* be had, and with no other, whatever earlier imports have left behind;
\* except that two ORMH sources of different sizes leave it with none.
MaterialsComplete ==
    [][\A k \in DOMAIN materials' \ DOMAIN materials :
          LET m     == files[k[1]].materials[k[2]]
              bound == materials'[k]
              ormh  == <<k[1], m.mr, m.ao>>
          IN \/ /\ \A slot \in DOMAIN After :
                       IF m[slot] \in DOMAIN images
                       THEN slot \in DOMAIN bound /\ bound[slot] = m[slot]
                       ELSE slot \notin DOMAIN bound
                /\ IF m.mr = NoTex /\ m.ao = NoTex
                   THEN "ormh" \notin DOMAIN bound
                   ELSE "ormh" \in DOMAIN bound /\ bound.ormh = ormh
             \/ /\ bound = <<>> /\ ormh \notin DOMAIN images
                /\ {m.mr, m.ao} \subseteq DOMAIN images
                /\ images[m.mr] # images[m.ao]]_vars

\* The program stops for a document with a strip of more than one triangle,
\* for a skinned one with meshes, and for one with an ORMH texture neither of
\* whose sources could be decoded; every other missing texture is replaced.
StopsOnlyFor ==
    halted # NoTex =>
        LET d == files[halted] IN
        \/ \E p \in UNION {Range(mesh) : mesh \in Range(d.meshes)} :
              p.kind \in Fans /\ p.idx > 3
        \/ Skinned(d) /\ d.meshes # <<>>
        \/ \E m \in Range(d.materials) :
              LET key == <<halted, m.mr, m.ao>>
              IN key \in DOMAIN images /\ images[key] = 0

\* The nodes of a model are those of the document without the trees of the
\* occluder, in their order: each has its matrix, its mesh, its parent and
\* its children, and is a child once.
TreeFaithful ==
    \A path \in DOMAIN models :
        LET d     == files[path]
            model == models[path]
            old(n) == model.nodes[n].trs
            New   == 1 .. Len(model.nodes)
            kept  == {old(n) : n \in New}
            Cut(n) == d.nodes[n].occluder
                      \/ d.nodes[n].mesh \in {OccluderMesh(d)} \ {0}
            kids(n) == SubSeq(model.node_child_idxs, model.nodes[n].child_first + 1,
                              model.nodes[n].child_first + model.nodes[n].child_count)
        IN /\ \A n \in 2 .. Len(model.nodes) : old(n - 1) < old(n)
           /\ \A n \in 1 .. Len(d.nodes) :
                 n \in kept <=> ~Cut(n) /\ Parent(d, n) \in kept \cup {0}
           /\ \A n \in New :
                 LET parent == model.nodes[n].parent IN
                 /\ IF parent = 0 THEN Parent(d, old(n)) = 0
                    ELSE Parent(d, old(n)) = old(parent) /\ n \in Range(kids(parent))
                 /\ \A k \in Range(kids(n)) : model.nodes[k].parent = n
                 /\ IsInjective(kids(n))
                 /\ IF model.nodes[n].mesh = 0 THEN d.nodes[old(n)].mesh = 0
                    ELSE Visual(d)[model.nodes[n].mesh] = d.nodes[old(n)].mesh

\* Skins and tracks name the nodes of the document that they named before:
\* a track always, a joint unless a node before it has been dropped.
JointsAndTracks ==
    \A path \in DOMAIN models :
        LET d     == files[path]
            model == models[path]
            old(n) == model.nodes[n].trs
        IN /\ \A s \in 1 .. Len(d.skins) : \A j \in 1 .. Len(d.skins[s]) :
                 LET joint == model.skins[s][j] IN
                 /\ joint.rest = d.skins[s][j]
                 /\ 1 .. joint.rest \subseteq {old(n) : n \in 1 .. Len(model.nodes)}
                       => old(joint.node) = joint.rest
           /\ \A a \in 1 .. Len(d.anims) :
                 LET clip == model.clips[a] IN
                 /\ \A i, j \in 1 .. Len(clip) : clip[i].node = clip[j].node => i = j
                 /\ \A ch \in Range(d.anims[a]) :
                       (\E n \in 1 .. Len(model.nodes) : old(n) = ch.node) =>
                          \E t \in Range(clip) : old(t.node) = ch.node

\* The submeshes of all models in a mass: no two share a vertex or an index,
\* and the indices of each name vertices of its own, unless it is a strip or
\* a fan after the first primitive, whose indices are moved twice.  In the
\* occluder it is the lists after the first whose indices are not moved.
Placed(path) ==
    UNION {{[path |-> path, mesh |-> v, sub |-> i] :
               i \in 1 .. Len(models[path].meshes[v].submeshes)} :
           v \in 1 .. Len(forged[path].base)}
SlicesOwn ==
    LET Slices == UNION {Placed(path) : path \in DOMAIN forged}
        Sub(x)  == models[x.path].meshes[x.mesh].submeshes[x.sub]
        Prim(x) == files[x.path].meshes[Visual(files[x.path])[x.mesh]][x.sub]
        Base(x) == forged[x.path].base[x.mesh]
        First(x) == Base(x).vtx + Sub(x).vtx_base
        Vtx(x)  == First(x) .. (First(x) + Prim(x).vtx) - 1
        Idx(x)  == Base(x).idx + Sub(x).idx_first ..
                   (Base(x).idx + Sub(x).idx_first + Sub(x).idx_count) - 1
    IN /\ \A x, y \in Slices :
             x # y /\ Kind(x.path) = Kind(y.path) =>
                Vtx(x) \cap Vtx(y) = {} /\ Idx(x) \cap Idx(y) = {}
       /\ \A x \in Slices :
             /\ Vtx(x) \subseteq 0 .. mass[Kind(x.path)].vtx - 1
             /\ Idx(x) \subseteq 0 .. mass[Kind(x.path)].idx - 1
             /\ (Sub(x).shift = 0 <=> ~(Prim(x).kind \in Fans /\ x.sub > 1))
       /\ \A path \in DOMAIN models : \A i \in 1 .. Len(models[path].twin) :
             LET part == models[path].twin[i]
                 prim == files[path].meshes[OccluderMesh(files[path])][i]
             IN part.shift = part.base <=> (i = 1 \/ prim.kind \in Fans)
==============================================================================
