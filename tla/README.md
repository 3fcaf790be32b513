# hyprie: a verification development

hyprie is a C++20 game engine: a frame loop over a stack of layers, an entity
registry with a transform graph, asset import, a work-stealing scheduler used
for culling, bounding volume trees for picking, and a renderer on top of sokol.
This directory holds TLA+ modules that model the parts of it whose correctness
depends on *order*: of atomic accesses, of calls, of documents in a file, of
layers in a frame, of arrays that index each other.  TLC checks them on small
instances, and TLAPS proves the central invariants for every instance.

Contents: 1 inventory; 2 modules and how they correspond to the code; 3 runs;
4 fairness; 5 proofs; 6 findings; 7 what is only model-checked, and what is not
modelled; 8 plan.

How to run: `tlc -config X.cfg M` for a pair in the table of section 3, and
`tlapm M.tla` for the modules named `...Proofs`.  All paths below are relative
to `src/hpr/`.


## 1. Inventory

There are two kinds of thread.  The *frame thread* runs everything: input,
layers, commands, events, import, submission (`runtime/engine.cpp`).  *Workers*
(`thread/scheduler.hpp`) run one kind of job: the slices of the culling work of
the frame that is being made.  Nothing is persisted; scene files, models and
images are read and never written.

| Component | State it keeps | Operations | Talks to |
|---|---|---|---|
| **Injection queue** `thread/mpmc_ring.hpp` | slots of a sequence and a value, `m_head`, `m_tail` | `push`, `pop` from any thread | scheduler |
| **Job latch** `thread/job_latch.hpp` | atomic counter, mutex, condition | `add`, `done`, `wait` | culling (owner), workers |
| **Scheduler** `thread/scheduler.hpp` | workers (thread, deque, mutex, condition, `has_work`), injection queue, `m_running`, cursor | `init`, `dispatch_range`, `submit`, `worker_loop`, `shutdown` | ring, latch, scene layer |
| **Entity registry** `entity/ecs_registry*.hpp` | racks (dense values, dense entities, sparse), alive flags, generations, free numbers | create, destroy, reserve, add, remove, get, scan, clear | every layer |
| **Handle store** `resource/handle_store.hpp` | pages of slots with a magic, free list, count | `create`, `destroy`, `get` | asset bank |
| **Asset bank** `resource/asset_bank.hpp` | list of (URI, hash, handle), handle store | add, find, remove by URI, hash, composite key | asset keeper |
| **Asset keeper** `resource/asset_keeper.cpp` | banks of glTF documents, images, materials, models | import of glTF and images | asset bank, forge |
| **Scene graph** `scene/scene_core.hpp`, `entity/systems_scene.hpp` | guid map, parent / first child / next sibling, local and world transforms | `instantiate_scene`; HierarchySystem and TransformSystem per frame | registry |
| **Scene layer** `layer/scene_layer.cpp` | scene rig (matrices, blob indices, boxes, leaves, tree), pick, selection, culling slices | actions, update (pick, sync, cull, group), commands, events, submit | scheduler, registry, BVH, renderer |
| **Layer stack, events, commands** `layer/layer_stack.hpp`, `event/event_queue.hpp` | layers in order, `EventQueue`, `CmdStream` | actions top to bottom, update, drain | all layers |
| **Gizmo, inspector, pick icons** `layer/gizmo_layer.*`, `edit_layer.*`, `stage_layer.*` | selected entity, copies of its transform, drag, icons of lights | drag, edit, pick | commands, events |
| **Bounding volumes, ray cast, hulls** `procgen/bvh_*`, `procgen/hull_*`, `scene/raycast*.hpp` | wide trees of quantized lanes, stacks | build, traverse | scene layer |
| **Render forge, hub, masses, passes, queues** `render/*` | vertex, index and material ranges, blob buffers, draw queues | create a model, push, sort, stage, batch, draw | sokol |
| **Input** `input/*` | edges and levels of keys and buttons, pointer | backend callbacks, mapping to actions | layers |
| **Camera** `scene/camera_controller.hpp` | view | update | scene layer |
| **Mesh generation** `procgen/*` | | straight-line generation | scene builder |
| **Tile and voxel fields** `scene/*_field.hpp` | chunks by hash of coordinates, dirty rectangles | edit, read | (use commented out) |
| **Scene files** `scene/scene_io*.hpp` | documents | parse | scene graph |
| **User interface, runtime, other layers, core** | widgets, frame order, debug drawing, log | | |

### What is hard, and what would make each part correct

* **Injection queue.**  Producers and consumers read a position and a sequence
  at different times; a value is a plain, non-atomic copy between the claim of a
  position and the publication of its sequence.  Correct: no two threads touch a
  slot's value at once; nothing is overwritten before it was taken; "empty" and
  "full" are answered only when true at some moment of the call; it is a bounded
  FIFO queue.
* **Job latch.**  The last decrement races the owner's test and sleep, and then
  the destruction of the latch, which is a local variable of the dispatch.
  Correct: a wait returns only after every job, a wakeup is not missed, a wait
  ends, nobody uses a dead latch.
* **Scheduler.**  Flags, notifications and the ring are three separate things,
  and notifications are given without the mutex; workers start while other
  workers' deques are still being constructed and are joined before, but not
  when, they are destroyed.  Correct: every slice is run exactly once before the
  frame reads the results; no job survives its frame; a queued job is always
  known to somebody; the frame and the shutdown come to an end.
* **Registry.**  Removal swaps the last component into the hole and repairs two
  indices; numbers are recycled.  Correct: a component is reached from its
  entity and no other, dead entities have none, a number has one live owner, no
  number is lost.
* **Handles and assets.**  A stale handle must not resolve to what now has its
  slot; assets are deduplicated by keys of three kinds in one list.  Correct: a
  handle names one object ever; a key has one asset; removing one key does not
  disturb another; find answers with what was asked for.
* **Import.**  Four banks refer to each other, an import gives up half way, and
  what it has filed until then meets the next import; nodes are renumbered with
  those under an occluder left out, and meshes, skins and animations have to
  follow; primitives of five kinds share arrays whose bases are sums.  Correct:
  no reference leads out of the banks, no material lacks a texture that could be
  had, every number means after renumbering what it meant before, no two
  submeshes share a vertex or an index.
* **Scene graph.**  Documents come in any order, with missing, repeated or
  unknown guids; systems of a frame follow the links and the order of a rack.
  Correct: child lists are exactly the children and end; world matrices are the
  product along the path in the frame after a change.
* **The frame of the scene.**  Matrices, blob indices, boxes, visible lists,
  leaves, draw commands and instances are parallel arrays, filled by scans that
  skip different entities, by jobs that end in any order, and reordered by an
  unstable sort; a click is answered from the arrays and trees of the frame
  before.  Correct: what is drawn is what passed the culling, each once, with
  its own matrix and material; a click selects what was drawn nearest.
* **Trees.**  Binned splits may fail to separate, wide nodes have a fixed number
  of lanes, their boxes are quantized outward to eight bits, and one of the 256
  values also means "empty".  Correct: the traversal finds the nearest triangle.
* **Editing.**  Click, drag, inspector, commands and events meet in one frame;
  actions are hidden from lower layers by whoever consumes them; picks are cast
  a frame later; copies of a transform live in two layers.  Correct: both
  editors hold the same entity, an edit changes the entity that is selected, a
  pick sees the picture that was clicked, a copy is stale only when the other
  editor wrote, a frame leaves nothing behind.

Each of these is listed with its line in the project file's hazards; the one
that no property covers says why.


## 2. Modules

    BoundedFifo <-- refined by -- MpmcRing <-- proofs -- RingAndLatchProofs
         ^                                                      |
         | INSTANCE (Ring)                                      |
     Scheduler -- INSTANCE (Latch) --> JobLatch <---- proofs ---+
         |   <-- proofs -- SchedulerProofs
         +-- refines --> JobDispatch                 (fork and join)

    EntityStore <-- refined by -- EcsRegistry <-- proofs -- EcsRegistryProofs

    HandleStore <-- EXTENDS -- AssetBank
         ^------- proofs -- AssetBankProofs ----^

    SceneGraph  <-- proofs -- SceneGraphProofs
    EditLoop    <-- proofs -- EditLoopProofs

    GltfFlatten <-- EXTENDS -- AssetImport <-- proofs -- AssetImportProofs
                                                     (documents to vertex masses)
    Intervals   <-- EXTENDS -- SceneFrame <-- proofs -- SceneFrameProofs
         ^                        ^                  (entities to pictures)
         |                        | EXTENDS
      WideBvh   <-- EXTENDS -- ScenePick             (pictures to picks)

An `MC...` module with one or more `.cfg` files instantiates each for TLC.

### MpmcRing, BoundedFifo — `thread/mpmc_ring.hpp`

One action per atomic access: reading the position, reading the slot's sequence,
the compare-exchange (which may fail spuriously, as `compare_exchange_weak` may)
and the store of the sequence; the plain copy of the value is a step between the
last two.  Two threads that may be in a copy of the same slot at once are a race,
whether or not their copies are steps of a model: `NoSlotRace` is about their
places in the code.  Tickets are unbounded numbers; the code's positions are 32
bits wide and compared through a signed difference.  The two agree as long as no
thread sleeps between its load and its compare-exchange while the others do 2^31
operations, since what is in flight stays within one lap (`WithinOneLap`, a part
of the proved invariant; the engine's ring has 2^15 slots).

`BoundedFifo` is the promise: a queue of at most the ring's capacity, from which
each value is taken once, whole, in the order in which the pushes took effect.
A pop's value is in the thread's hand before the slot is free again.  A push goes
to one slot, that of its ticket, and takes effect only if that very slot is free.
The promise has no tickets: `lag[t]` counts the pushes since that of the value in
t's hand, so the slot is taken (`SlotTaken`) when the queue is full or some hand's
lag is the capacity.  One slow copy thus refuses every push although the rest of
the ring may be empty.  When a pop may report "empty" is not part of the promise;
`AnswersAreHonest` says it, and that a refused push has found its slot taken.

### JobLatch — `thread/job_latch.hpp`, and its owner `layer/scene_layer.cpp` 681–685

Counter, mutex and condition step by step: `Add`, the fast path of `wait`, its
lock, test, sleep, block, wake (spurious too), unlock, and for `done` the
decrement, lock, notify, unlock.  `Destroy` is the end of the owner's scope, and
`Create` the latch of the next frame.  A worker still in `done()` when the latch
is destroyed is "late"; its next access is undefined behaviour, modelled as the
choice of going on or being lost.

### Scheduler, JobDispatch — `thread/scheduler.hpp`, `layer/scene_layer.cpp`

`frame` is the frame thread's place in `init`, `dispatch_range`, `wait` and
`shutdown`; `pc[w]` a worker's place in `worker_loop`.  The ring appears as the
`BoundedFifo` it implements: a push succeeds (`Push`) or is refused (`PushFails`)
by the state of its slot, so that a worker that pauses inside `pop` refuses jobs
of later laps, as in the code.  The latch appears as JobLatch itself (its actions
are the scheduler's, through INSTANCE).  Deques are "raw" before construction,
then "live", then "destroyed"; a steal from a raw or destroyed one is undefined
behaviour.  They are always empty, because the only call that fills one,
`submit`, has no caller; its code is not modelled.

`JobDispatch` is the promise: a frame forks slices, each slice is taken by one
worker and executed once, and the join comes after all.

### EcsRegistry, EntityStore — `entity/ecs_registry.hpp`, `ecs_registry_types.hpp`

Racks as three vaults per component type, as in the code, with swap-and-pop
removal; alive flags, recycled numbers, `known` for the length of the flags'
vector, which `reserve_entities` and `create_entity` grow differently.
`EntityStore` is the promise: a set of live entities and a partial function from
entities to values per component type.

### HandleStore, AssetBank — `resource/handle_store.hpp`, `asset_bank.hpp`

A slot has a magic that grows at every construction and destruction; a handle is
an index and a magic.  `AssetBank` adds the list of keys to that very store: its
operations call `Create` and `Destroy` as the code's do, and the hash is a
constant function, so that a run can make it collide.

### GltfFlatten, AssetImport — `resource/asset_keeper.cpp`, `render/render_forge.cpp`

`GltfFlatten` holds what the importer computes from a document, as operators:
which mesh is the occluder's, how primitives are laid out in vertex and index
arrays, how strips and fans become lists, how nodes are renumbered, how skins
and tracks follow.  `AssetImport` is the keeper: a document is parsed once, its
materials are found in the bank or imported with their images, which may fail to
decode, differ in size (the ORMH texture has two sources), or be different
tomorrow; each early return and each assertion is a step.  `create_model` then
appends the model to the vertex, index and material masses.

### SceneGraph — `scene/scene_core.hpp`, `entity/systems_scene.hpp`

The passes of `instantiate_scene` over the documents (make, components, parents,
children and siblings), a document a step, then HierarchySystem and
TransformSystem in every frame.  A world matrix is the *sequence* of local
transforms multiplied into it, so that a wrong order, a missing factor and a
stale one are all different values.  `parent_children_map` is gone over in any
order, as an unordered map may be.

### Intervals, WideBvh, SceneFrame, ScenePick — `procgen/bvh_*`, `scene/raycast.hpp`, `layer/scene_layer.cpp`, `render/render_passes.cpp`

`WideBvh` holds both tree builders (Morton codes, treelets, binned splits,
partition, collapse into wide nodes, quantization) and the traversal with its
order and early exits.  Geometry is that of one axis: a box is an interval, a
triangle an interval and the place where the ray's line crosses it (boxes are
those of `Intervals`); the two other axes have the extent one, or for flat scenes one and zero, which is what
the surface areas need to know.

`SceneFrame` is the frame around them.  A waiting click is answered with the
trees of the frame before; arrays are cleared and filled by the scans over
models, which skip what has no transform; submeshes are cut into slices of
`job_grain`, whose jobs end in any order (that this is a fork and join is
JobDispatch's promise); what passes frustum and depth is consolidated, grouped
into a tree and submitted; the pass sorts, stages a blob for each instance and
joins equal neighbours to one instanced draw.  The tests of frustum and depth
are a choice of the view; sort keys are cut short (`KeyMod`) so that unequal
commands tie, as the code's packed fields may.  Submeshes' boxes are those with
the node's matrix applied, as the code bakes them, and an instance is counted
from zero, as the shader (`scene.glsl` 42) expects.  Skinned submeshes are
handled as the frame's code handles them, although no import delivers one.

How a tree is built and how a ray goes through it are constant operators of
`SceneFrame` (`BuildTlas`, `RaycastScene`): of the tree the frame needs only that
there is one, and of the ray only which submesh it answers.  `ScenePick` brings
frame and trees together and holds what is said about picks; its run gives the
two constants the operators of `WideBvh`.

### EditLoop — `runtime/engine.cpp`, `layer/*`, `input/*`

`pc` walks one frame as `Engine::frame` does: input mapped to actions; actions
through debug, edit, gizmo, stage and scene layers until consumed; updates;
command stream; event queue; submission.  Between frames the mouse moves and its
button changes.  A transform has two fields, since the inspector changes one
field of its copy and writes all of it, and a drag changes another.  The geometry
of a hit and of a drag is a choice.  The view, the BVH and the icons of lights
are known by the picture they were made for.


## 3. Runs

| Run | Module, cfg | Bounds | What it shows |
|---|---|---|---|
| ring | MCMpmcRing | 3 threads, 2 values, 2 slots, 3 tickets | the inductive invariant of the proofs (`RingInv`), slot exclusion, honest empty and full; implements BoundedFifo |
| latch | MCJobLatch | 3 workers, 2 jobs at a time, any number of frames | `LatchInv`: waits for all, misses no signal; `WaitEnds` |
| latch_late | MCJobLatch, Late | 2 workers | **violated**: `done()` on a destroyed latch |
| scheduler | MCScheduler | 2 workers, 3 slices, 2 slots, start to shutdown, with fairness | no job outlives its frame and the ring has room for the jobs of one (`SchedulerInv`), none is stranded, no wild steal in service; implements JobDispatch; uses the latch as JobLatch allows; a hang has one of three causes, and no fourth |
| scheduler_oversleeps | MCScheduler, Sleep | 1 worker, 1 slice | **violated**: a lost notification hangs the frame |
| registry | MCEcsRegistry | 3 entities, 2 components, 2 values | racks, ghosts, numbers and counts agree; implements EntityStore |
| bank | MCAssetBank | 3 URIs, one plain, 2 ids, 4 slots, magic up to 5, two keys of one hash | the store under a bank: free list, parity, stale for ever; an object per asset and none without; a key finds its own; no disturbance of others |
| scene_graph | MCSceneGraph | every scene of 4 documents without a cycle of parents, well formed or not; 1 move | child lists end, and are exact where well formed; matrices right in every frame of a well-formed scene, and settling in any |
| edit_loop | MCEditLoop | 2 entities, 2 numbers per field, no bound on frames | the properties of editing |
| import | MCAssetImport | 2 documents, one of 20 kinds, that share 2 images of sizes 0 to 2, changed between imports | banks that refer to each other, complete materials, nodes and joints and tracks after renumbering, slices of the masses, and for what the program stops |
| frame | MCSceneFrame | 9 scenes of up to 10 submeshes, 3 views, 4 rays, 2 movers; trees of 4 lanes, 16 cells of quantization, 4 bins; slices of 4 | drawn is what is visible, with its own data; a click selects what was drawn, and the nearest of it |
| pick_face | MCSceneFrame, MCPickFace.cfg | 1 scene | **violated**: a real lane is filtered as an empty one |

### Why the bounds are enough

* *Ring.*  With two slots and three tickets a position laps the ring, so that a
  slow thread of one lap meets a fast one of the next; three threads are a
  producer, a consumer and one that interferes with either.  The proofs remove
  the bound.
* *Latch and scheduler.*  Two jobs at a time give a last and a not-last
  decrement; a third worker brings one left in `done()` from the frame before.
  Frames of up to two slices fit in the ring of two slots and one of three may
  not, so that a push fails when the workers are slow, as it would in a build
  without assertions; two workers give one that takes and one that is woken for
  nothing.  Frames are unbounded in number.  The proofs remove the bounds.
* *Registry.*  Three entities are a hole, the one that is moved into it and a
  bystander; two components tell a rack's operation from an entity's.
* *Bank.*  Four slots and magics of five let a slot be reused twice with others
  between.  Three URIs are one of the plain kind and two that can be confused;
  the hash makes one key of each collide.
* *Scene graph.*  With four documents a path has four links and a list of three
  siblings, or two lists of two; all orders of documents are in the family.
  The malformed ones have missing, repeated and unknown guids in any place, and
  a parent without a transform, which HierarchySystem does not follow.
* *Edit loop.*  Two entities are the old and the new selection; two values per
  field allow to tell whose write survived.  The state space is finite without a
  bound on frames.
* *Import.*  The kinds of the first document (`MCContents`) each bring about one
  way through the importer: each rejected mesh, strips before and after lists,
  the occluder above, below and beside what is kept with children before and
  after their parents, joints and tracks around it, and every slot of a material
  from one or two images.  Sizes 0, 1 and 2 are an image that cannot be decoded
  and two that differ.  Both documents may be imported again and again.
* *Frame.*  The scenes each force one way in which a tree is built or an array is
  filled: two levels of wide nodes (`Row`), equal centres (`Stack`, `Clump`: a
  cluster larger than a leaf), flat geometry (`FlatRow`), several submeshes with
  and without hull and triangles (`Meshes`), ranges of skinned arrays and
  entities without a transform (`Mixed`, `OnlySkinned`, `Unplaced`), a box with
  faces across the ray (`Face`).  Ten submeshes in slices of four leave a
  remainder of two.

Bounds and sizes, each a constant: `MaxTicket` (positions of the ring), `MaxJobs`
(jobs outstanding), `MaxSlices` (slices of a frame), `MaxEntities`, `MaxSlots`,
`MaxMagic`, `MaxDocs`, `MaxMoves`; `LevelBits`, `BucketLevels`, `TreeLevels`,
`Bins`, `Grid`, `Grain`, `KeyMod` have in the code the values that the modules'
comments give.  `HandleStore` stops a slot at `MaxMagic`, where the code's 32-bit
magic would go on and, after 2^32 steps, wrap: the uniqueness of handles is a
statement about less than a full cycle.

Deadlock is checked in every run but five.  A worker lost in a dead latch or a
dead deque stops what waits for it, and after a shutdown nothing is left to do
(latch and scheduler runs); an import or a frame may end in a failed assertion,
which `StopsOnlyFor` and `VisibleExactly` say when (import and frame runs).

### What the properties say that is easy to overlook

* `AnswersAreHonest` allows for one thread on its way: the ring says "empty"
  while the push of its oldest ticket has not published, and "full" while the pop
  of a lap ago has not released its slot.  No more is true.
* `RoomForJob` in `SchedulerInv`: a push finds the slot of its ticket taken, be it
  in a full ring or by one slow worker in a ring otherwise empty, only in a frame
  of more slices than the ring has slots, because the latch lets no job of an
  earlier frame keep its slot.  The engine's slices are far fewer than its 32768
  slots.
* `HangsOnlyByOversleeping` is the strongest liveness that this scheduler has: if
  the frame thread hangs, some worker is asleep although its flag is up, or was
  lost in undefined behaviour, or the ring refused a job.  `FrameReturns`, which
  would forbid the first, is violated (finding 2).
* `NoWildStealInService` says that undefined steals occur only in `init` and
  `shutdown`, never while frames are served.
* `KeysFindTheirOwn` holds of a key whose hash no other URI has.  `find_composite`
  compares the hash alone (`resource/asset_bank.hpp` 116–120), where
  `add_composite` and `remove_composite` compare the URI too; with two URIs of
  one hash it answers with either's asset, and the run shows the other properties
  under exactly such a collision.
* `WorldSettles` holds of malformed scenes what `WorldIsPath` holds of
  well-formed ones: a matrix may be late by as many frames as its path has links
  that HierarchySystem does not follow, but not wrong for ever.
* `WellFormed` is needed: of two documents with one guid the first pass skips the
  second, but the later passes look the guid up and give the entity of the first
  the components and the parent of the second (`scene/scene_core.hpp` 571–608).
* `CopiesCurrent` says when a copy of a transform is right: when only its owner
  has written since it was taken.  It does **not** say that the copies agree: an
  edit by one layer leaves the other's copy stale, and the next edit by the other
  writes the old values back.  Also, the copy of a new selection is taken before
  the commands of the same frame are applied.
* `DragEndsUnlessSwallowed`: a GizmoEnd that is consumed by a layer above, or
  that the gizmo does not reach because it returned for an earlier action of the
  same frame, leaves the drag on without a button; nothing else does.
* `StopsOnlyFor` is also a list of what this importer cannot do: a strip or fan
  of more than one triangle overruns its array, a skinned document with meshes
  fails in `create_model`, and an ORMH texture neither of whose sources decodes
  is filed without a size, on which the creation of its texture fails.
* `SlicesOwn` says of which primitives the indices are moved: strips and fans
  after the first of a mesh are moved twice, and in the occluder lists after the
  first are not moved at all.  `JointsAndTracks` holds of a joint unless a node
  before it was dropped, since its number is mapped twice.
* `MaterialsComplete` has the case of two ORMH sources of different sizes, which
  leaves a material with no texture at all, and speaks of the moment of import: a
  material filed while an image was missing keeps lacking it.
* `InstancesOwn` says what happens to a *lost* submesh, whose model has no
  transform: no scan writes its entry, the arrays are filled with zeros, and it
  is drawn with the first blob.
* `PickIsDrawn` compares a pick with the picture of the frame before, whatever
  has moved since; `PickNearest` leaves out a cluster that no split separates and
  that is too large for a leaf, and a lane taken for an empty one; without the
  latter condition it is `OnlyNullLanesFiltered` (finding 3).


## 4. Fairness

Safety properties need none.  Liveness is stated under:

* *Latch*: weak fairness of the owner inside `wait`, of each worker for a job it
  can finish (jobs are finite computations), and strong fairness of a worker's
  steps inside `done`.  The strong one is the mutex: a lock that is released
  again and again — which spurious wakeups of the owner may do — does not keep
  the same thread out for ever.  Nothing forces `Add`, `Create` or `Destroy`.
* *Scheduler*: weak fairness of the frame thread's steps, of the stopping steps
  and of each worker, strong fairness of a worker's `done`.  No fairness makes a
  frame begin or a shutdown be asked for, and none wakes a condition spuriously:
  the operating system promises to run threads, not to wake them.

Atomics are sequentially consistent steps in the models.  The code uses
acquire and release where a value is handed over, which is all that the models'
properties use: the sequence of a slot is stored with release and loaded with
acquire, and the latch's counter is decremented with acq_rel.  Reorderings
that weaker hardware might add between independent locations (`has_work` and the
ring's tail) are not modelled.


## 5. Proofs

Machine-checked by TLAPS, for every value of the constants, in eight modules.
Assumptions are the named ASSUMEs of the modules; TLC evaluates them in each run.

**The ring** (`RingAndLatchProofs`, first part; capacity of two or more; any number of threads
and tickets).  `RingInv` is inductive; it is the conjunction of

* `WithinOneLap`: head <= tail <= head + capacity;
* `QueuedSlots`, `FreeSlots`: what the sequence of a slot is, for a ticket that
  is queued, and for one that is not, depending on whether a thread still holds
  that ticket;
* `WriterTicket`, `ReaderTicket`, `TicketsUnique`: a thread in a copy has a
  ticket in the window, and no other thread has the same;
* `CheckedTurn`, `OvertakenTurn`: what a thread that compared the sequence, and
  has not yet done the compare-exchange, may rely on when the position has not
  moved, and when it has.

`WithinOneLap` is not inductive alone: a push claims a ticket because it has
*seen* a sequence, so the invariant has to carry what was seen to the moment of
the claim; that is `CheckedTurn`.  From it: `RingNoSlotRace`, `RingWithinOneLap`,
`RingAnswersAreHonest`.  `RingRefinesFifo` adds `ValuesInv` (what is queued and
what is carried out are values) and shows that a push is the queue's at its
compare-exchange, when its value is still in the thread's argument, and a pop at
its own, when its value is still in the slot; every other step stutters or
returns.

**The latch** (`RingAndLatchProofs`, second part).  `LatchInv` adds to the two properties that the
counter counts what is owed (`Counted`) and who holds the mutex (`HolderIs`):
a signal cannot fall between the owner's test and its sleep because the owner
holds the mutex there.  From it: `LatchWaitsForAll`, `LatchNeverMissesSignal`.

**The scheduler** (`SchedulerProofs`; any number of workers, slices and slots).
`ServiceInv` joins the latch's invariant with where the frame thread is, what is
in the ring and what workers carry.  The chain: `wait` returns only at a counter
of zero; the counter is the number of outstanding jobs; whatever is in the ring
or in a worker's hands is an outstanding slice of *this* frame, in one place
only; so after the wait there is none.  The ring has room for a job because the
value in its slot was pushed as many pushes ago as the ring has slots, and a slice
was pushed at most as many pushes ago as its number is behind the next
(`TicketsInv`).  `NoStrandedJob` is
inductive with it.  From it: `SchedulerInvariant`, `SchedulerStrandsNoJob`,
`SchedulerNoWildSteal`, and the refinements `SchedulerUsesLatch` (each step is
JobLatch's or leaves it alone) and `SchedulerRefinesDispatch` (fork and join).
`FrameThreadAssumption` says that the frame thread is no worker.

**The registry** (`EcsRegistryProofs`).  `RegistryInv` = types, `RacksAgree`,
`NoGhosts`, `NumbersAgree`, with a lemma per operation; the lemma of a removal is
the core, since one slot's removal changes the index of another entity.  From it:
`RegistryRacksAgree`, `RegistryNoGhosts`, `RegistryNumbersAgree`, and
`RegistryRefinesStore`: every operation is one operation of `EntityStore` or
leaves it as it is.  (`EntityStore` knows nothing of slots, so this says that
the shuffling in the racks cannot be observed.)  `RegistryLosesNoNumber` counts:
the set of live entities is finite and its size is what `entity_count()` says.

**The handle store** (`AssetBankProofs`, first part; any number of slots and of objects in
each).  `StoreInv` = types, `MagicParity` (a magic is odd while its slot is in
use), `FreedAreEmpty` (the free list holds each empty slot once) and
`IssuedArePast` (no handle is ahead of its slot).  The last is what makes the
identity of handles inductive: a new object's magic is above every magic its slot
has given out.  From it: `StoreFreshHandles`, `StoreStaleForEver`.

**The asset bank** (`AssetBankProofs`; any URIs, ids and hash function).
`BankUsesStore` shows that the bank is a client of the store as the store's own
theorems assume it, which lifts them (`BankStoreInv`, `BankStaleForEver`).
`BankIInv` adds that every asset's handle is one the store issued and that an
asset's hash is that of one of its own URIs; from it `BankHandlesLive` and
`BankKeysFindTheirOwn`.  `BankOtherKeysUndisturbed` needs `PlainOnce` besides: a
URI that is used alone, and whose hash no other key has, belongs to one asset at
most, so that it does not matter which one the linear scan of `find` meets first
after a removal has swapped the last asset into the gap.

**Child lists** (`SceneGraphProofs`; any scenes, well formed or not).  `GraphInv`
says, pass by pass, that a list holds children of one parent (`Listed`) and that
a link leads to what follows in its list (`Linked`); where the documents are
well formed, that guids, entities and places in lists correspond one to one.
`SceneChildListsRight`: along a link the last place in the list grows, so no set
of entities is closed under `next_sibling` and the loop of HierarchySystem ends;
and the first place that the walk would miss has a predecessor that it does not,
so the walk is complete.  Both arguments take a least or greatest number, from
the library's theorem on well-founded relations.

**World matrices** (`SceneGraphProofs`, second part).  `WorldInv` counts the
frames since the last move (`still`) and says in `Settling` what each of them
achieves: every entity has a rank, which grows from parent to child, and a frame
without a move makes the matrices of one more rank right.  A rank exists exactly
where no parents form a cycle (`NoCycle`; `RankExists` counts the ancestors of
each entity), and is at most the number of entities; this is `SceneWorldSettles`.
For `SceneWorldIsPath` one frame has to be enough: where documents are well
formed, whoever has a parent is in that parent's list (by `GraphInv` and
`Named`), so that HierarchySystem's recursion reaches it in the same frame;
`HierarchyRights` is the induction along that recursion.  `SceneTypeCorrect`
follows with the bound on what a matrix is made of.

**The import** (`AssetImportProofs`; any paths, images, sizes and documents).
`Importing` is inductive: what is filed is what its document says (`Filed`,
`Textured`); an import has every material before the one at hand (`Tasked`); and
in the middle of a material, each slot that is through has either its image or
the reason why it will not get one in this import (`Halfway`).  The last holds
only because images are not repaired or removed while an import runs, which is
why a material that is made is complete (`ImportMaterialsComplete`).  `Halted`
gives the four reasons to stop.  `Laid` is the invariant of the masses: the
ranges of the meshes of all models are apart, below the fill of their mass.
With the cursors inside a mesh it gives `ImportSlicesOwn`.

As a filed model is `ImportModel` of its document, the rest is about functions
of documents: what is kept (`DroppedIs`), how nodes are renumbered (`PlaceIs`),
that parents and children are renumbered alike (`KidsInPlace`), and joints and
tracks with them.  `DroppedIs` is the hardest: `mark_drops` walks down from the
occluders with a stack, and the lemma says that it drops exactly what is under
one.  Its loop is a function of the number of steps; either the marks are closed
when it ends, or every step has marked one more node, which there are not enough
of.  The loops are recursive functions over numbers, and what such a function
computes is proved by `Steps` (a set of numbers that has 0 and with each its
successor) and `Unrolling` (a loop is the function that its steps define).

Documents are assumed to be what parsing leaves (`Parsed`: indices inside their
arrays, no node the child of two, which cgltf validates) and what the importer
relies on without a test (`Usable`: positions, whole triangles, joints that are
not under an occluder); both are conjuncts of `DocsAssumption`, which TLC
evaluates for the documents of the run.

**Editing** (`EditLoopProofs`; any entities, values and hits).  `LoopInv` says
for each step of a frame what queues, copies, pick and pictures hold there; the
properties speak of one step each and none is inductive alone.  From it:
`LoopEditInv`, `LoopSelectionAgrees`, `LoopCopiesCurrent`, `LoopDragEnds`,
`LoopEditsHitSelection`, `LoopPickSeesWhatWasClicked`.  What a stream of commands
writes (`Written`) is defined without recursion, by the last command that writes
a field, so that it can be reasoned about.

**The frame of the scene** (`SceneFrameProofs`; any scenes that satisfy
`ScenesAssumption`, any views, clicks, moves and size of a slice; `BuildTlas` and
`RaycastScene` are arbitrary).  `FrameInv` = the shape of the rig, `Synced` (the
arrays are those of the scans, from the update to the draw), `Cutting` (a slice
is still to be culled or has what passes of it), `Queued` (the queues hold a
command for each visible submesh and each animated one), and the two properties.
They are not inductive alone: what the pass draws depends on blobs that were
written three steps ago, through indices that were written with them.

* For `FrameVisibleExactly` a list of numbers is determined by rising and by which
  numbers it has (`AscendsOnce`).  Each job's list rises and the slices follow
  each other, so the lists strung together rise (`AscendsOn`, `SlicesJoin`): they
  are what a single job over all submeshes would have found.
* For `FrameInstancesOwn` two lists have the same bag if a bijection leads from one
  to the other (`BagSame`).  The sort is one (`SortedIs`: a command's place is the
  number of commands before it, and no two have the same), and so is the way from
  a command to its instance in a batch (`InstancesAre`: the batches cover the
  queue without gap or overlap).  A blob is found where it was pushed because the
  last blob pushed for a submesh is the one whose slot is kept (`LastOfIs`).

`ScenesAssumption` says that the ranges of entities lie inside the arrays they
are used on.  `instantiate_scene` makes them so, except that the scan over static
models also follows the range of a skinned one, whose numbers are those of the
skinned arrays: where that ends past the static ones the code reads past its
arrays, and the scene is left out.


## 6. Findings

Where the code does not do what a line of it says.  Each has a run that TLC ends
with a counterexample.

1. **A latch used after its destruction** (`latch_late`).  `wait()` returns when
   the counter is zero, while the worker that made it zero has still to lock and
   notify; the latch is a local variable of the waiter.
2. **A lost notification** (`scheduler_oversleeps`).  `has_work` is stored and
   the condition notified without the mutex, between the worker's test and its
   sleep; if no other worker is awake, the job stays queued and the frame waits
   for ever.  The same in `shutdown`.
3. **A lane taken for an empty one** (`pick_face`).  The traversal "filters null
   lanes" by a quantized low end of 255 (`scene/raycast.hpp` 447–466), which
   `quantize_bounds` also gives to a lane that is flat on the far side of its
   node, such as the side of a box: it is never tested, and a click goes through.

Met on the way, and either stated as a condition of a property or outside of
them: what section 3 lists under "easy to overlook"; a hull that is called valid
for points without one (`procgen/hull_data.hpp` 64), whose index is then used as
an occludee's; the mass of animated models, which no call synchronises
(`render/render_forge.cpp` 107–120); bones that are computed and not staged.

What the proofs brought to light about properties that TLC had passed:

* A document alone in its scene (`MaxDocs = 1`) would have had to be settled
  before its first frame; `WorldSettles` now says `still > 0`.
* Matrices are right only where parents form no cycle.  The run had only scenes
  without one, so the property did not have to say so; now it does.
* `OtherKeysUndisturbed` spoke of fewer URIs than its comment; it is now about
  every URI that is used alone and whose hash is its own.
* A place in a model was bounded by three submeshes, the most of the run.
* The pass was said to stop only if some entity has no transform.  It is more
  precise, and `VisibleExactly` now says so, that a submesh is then in nobody's
  scan, or that the entity is animated: the submission of animated models does not
  ask for a transform as their synchronisation does, so that the blob of such a
  model is another's or none.  `InstancesOwn` has the same condition for what is
  drawn of animated models.

The template of the ring also accepts one slot, for which "published" and "free
for the next lap" are the same sequence and a push overwrites what no pop has
taken; the theorems about the ring therefore ask for two slots or more.  The
engine's ring has 32768.


## 7. Limits

*Only model-checked.*  All liveness (`WaitEnds`, `HangsOnlyByOversleeping`),
which the proof system cannot do under fairness; and what a click finds
(`PickIsDrawn`, `PickNearest`), since `ScenePick` extends `WideBvh`, whose trees
are RECURSIVE operators: those the proof system cannot reason about.

*Not modelled.*

* `Scheduler::submit` and non-empty deques: nothing calls it.  The deque is
  external and appears with its life time only.
* `LayerStack::transition_to` and the like: no caller.
* Resizing, of which only the edit layer hears; the camera's arithmetic; mouse
  capture, keys and the loss of focus.
* Lights and materials in the inspector, whose code is commented out; the lights'
  set, whose ambient is lost in the assignment that follows
  (`layer/scene_layer.cpp` 143).
* Scenes whose parents form a cycle: the code accepts them and multiplies
  matrices with those of the frame before, for ever; in the model, where a matrix
  is the sequence of its factors, they would grow without bound.  The run leaves
  them out.  The theorems do not: child lists are right for them too, and the
  properties of matrices say `NoCycle`.
* The matrices of a model's nodes, which are read before they are set where a
  child comes before its parent (`scene/scene_core.hpp` 367).
* Skinning: bone ranges and the order of bones (`layer/scene_layer.cpp` 357,
  432).  No mesh with joints gets through the importer (`StopsOnlyFor`).
* The Hi-Z raster and the tests of frustum and depth, which are a choice;
  quickhull, of which a document says only whether it finds a hull; the arithmetic
  of matrices and of floats altogether.
* The fixed stacks of the traversals, of 64 entries without a check
  (`scene/raycast.hpp` 294, 572), and rays against the gizmo's handles.
* Wrap-around of the ring's 32-bit positions (section 2).
* HDR images and images in memory; decoding, which is third-party.
* Mesh generation; tile and voxel fields (no client; a chunk is known by the hash
  of its coordinates alone); upload to the GPU, formats, tiles and fonts; passes
  without choices of their own; Nuklear, sokol and mtp, which are third-party.
* `imports/`, most of all Tracy, is vendored and makes up most of the lines of
  the repository.


## 8. Plan

Done, in this order: ring, latch, scheduler, registry, handles and assets, scene
graph, edit loop, import, trees and the frame of the scene; and the proofs of
section 5.  What would come next:

1. **Input** in the edit loop — capture by the right button, loss of focus,
   resize.  Property: a held button is one that is down while the window has the
   focus.
2. **Lights and node matrices** in the frame — the set of lights has the ambient
   that was set; a node's matrix is the product along its path.
3. **RenderForge** beyond `create_model` — caches keyed by handle,
   synchronisation of the masses.  Property: a cache never answers for a freed
   handle.
4. **Fields** — chunks, dirty rectangles, when a client exists.
5. Theorems about picks: what a builder and a traversal must promise for
   `PickIsDrawn` (a hit is a leaf of the tree whose triangle the ray meets), as
   assumptions on `BuildTlas` and `RaycastScene`, and the step from them to the
   property.
