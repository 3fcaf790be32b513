-------------------------------- MODULE WideBvh --------------------------------
(***************************************************************************)
(* The two trees a pick goes through: geo::BlasBuilder                     *)
(* (hpr/procgen/bvh_blas.cpp) over the triangles of a submesh, and         *)
(* geo::TlasBuilder (hpr/procgen/bvh_tlas.cpp) over the visible entities,  *)
(* and scn::raycast_scene (hpr/scene/raycast.hpp), which walks them.       *)
(*                                                                         *)
(* Geometry is that of the ray's own line, the x axis of the code: a box   *)
(* is an interval, a ray goes up or down from a point, a triangle is an    *)
(* interval and the place where the line crosses it.  The extent along the *)
(* two other axes is the same for all: one, or for flat geometry one and   *)
(* zero.  A node of a wide tree is [lo, hi, lanes]; a lane is              *)
(* [lo, hi, leaf, down], down being the node below or what a leaf holds.   *)
(* Lanes without content are left out; nodes are nested, not numbered.     *)
(***************************************************************************)
EXTENDS Intervals, SequencesExt, TLC

CONSTANTS
    LevelBits,      \* bits of a Morton code per level (3)
    BucketLevels,   \* levels of a code that choose a bucket (3)
    TreeLevels,     \* levels that are left for the treelets (7)
    Bins,           \* tlas_sah_bins_num, blas_sah_bins_num (16)
    Grid            \* quant_scale_8bit, and blas_null_lane (255)

ASSUME BvhAssumption ==
    /\ {LevelBits, BucketLevels, TreeLevels, Grid} \subseteq Nat \ {0}
    /\ Bins \in Nat /\ Bins > 1

Lanes == 2 ^ LevelBits

Node(lanes) == [lo |-> Box(lanes).lo, hi |-> Box(lanes).hi, lanes |-> lanes]
Branch(node) == [lo |-> node.lo, hi |-> node.hi, leaf |-> FALSE, down |-> node]

-----------------------------------------------------------------------------
(***************************************************************************)
(* The binary tree, split by the surface area heuristic                    *)
(*                                                                         *)
(* world.flat: the geometry has no extent along one of the other axes;     *)
(* world.tlas: which builder.  An item is a lane with its cost (in 1/10).  *)
(***************************************************************************)

\* compute_area, halved: the TLAS has none for a box without volume.
Area(x, world) ==
    IF world.tlas /\ (world.flat \/ x <= 0) THEN 0
    ELSE IF world.flat THEN Max({x, 0}) ELSE 2 * Max({x, 0}) + 1

Cost(items) == FoldLeft(LAMBDA sum, it : sum + it.cost, 0, items)

\* The bin of an item: by its centre, from the low end of the cluster.
BinOf(it, items) ==
    Min({Bins - 1, ((it.lo + it.hi - 2 * Box(items).lo) * Bins) \div (2 * Extent(items))})
Left(items, bin)  == SelectSeq(items, LAMBDA it : BinOf(it, items) <= bin)
Right(items, bin) == SelectSeq(items, LAMBDA it : BinOf(it, items) > bin)

\* eval_sah_split: the cost of a split, times the area of the cluster.
SplitCost(items, bin, world) ==
    LET side(part) == Area(Extent(part), world) * Cost(part)
    IN 10 * Area(Extent(items), world) + side(Left(items, bin)) + side(Right(items, bin))

Splits(items, world) ==
    IF Area(Extent(items), world) = 0 \/ Extent(items) = 0 THEN {}
    ELSE {bin \in 0 .. Bins - 2 : Left(items, bin) # <<>> /\ Right(items, bin) # <<>>}

BestSplit(items, world) ==
    CHOOSE bin \in Splits(items, world) : \A other \in Splits(items, world) :
        LET a == SplitCost(items, bin, world)
            b == SplitCost(items, other, world)
        IN a < b \/ (a = b /\ bin <= other)

\* A cluster stays whole if no split is cheaper than to test all of it.
Refused(items, world) ==
    \/ Splits(items, world) = {}
    \/ SplitCost(items, BestSplit(items, world), world)
          >= Area(Extent(items), world) * Cost(items)

\* partition_treelets, partition_tris: the k-th item of the left half that
\* belongs to the right changes places with the k-th last of the others.
Partition(items, bin) ==
    LET m        == Len(Left(items, bin))
        wrong(i) == IF i <= m THEN BinOf(items[i], items) > bin ELSE BinOf(items[i], items) <= bin
        low      == SelectSeq([i \in 1 .. m |-> i], wrong)
        high     == Reverse(SelectSeq([i \in 1 .. Len(items) |-> i],
                                      LAMBDA i : i > m /\ wrong(i)))
        from(i)  == CASE ~wrong(i) -> i
                      [] wrong(i) /\ i <= m -> high[SelectInSeq(low, LAMBDA j : j = i)]
                      [] wrong(i) /\ i > m  -> low[SelectInSeq(high, LAMBDA j : j = i)]
        moved    == [i \in 1 .. Len(items) |-> items[from(i)]]
    IN <<SubSeq(moved, 1, m), SubSeq(moved, m + 1, Len(items))>>

\* build_sah_bvh2_node.  kids is empty in a leaf, items anywhere else.
RECURSIVE Bvh2(_, _)
Bvh2(items, world) ==
    LET parts == Partition(items, BestSplit(items, world))
        whole == Len(items) <= Lanes \/ Refused(items, world)
    IN [lo    |-> Box(items).lo, hi |-> Box(items).hi,
        items |-> IF whole THEN items ELSE <<>>,
        kids  |-> IF whole THEN <<>>
                  ELSE <<Bvh2(parts[1], world), Bvh2(parts[2], world)>>]

-----------------------------------------------------------------------------
(***************************************************************************)
(* collapse_bvh2_bvh8: the wide tree                                       *)
(***************************************************************************)

Overlap(kids, i, world) ==
    LET common(j) == Min({kids[i].hi, kids[j].hi}) - Max({kids[i].lo, kids[j].lo})
    IN FoldLeft(LAMBDA sum, j : sum + IF j = i THEN 0 ELSE Area(common(j), world), 0,
                [j \in 1 .. Len(kids) |-> j])

Inner(kids) == {i \in 1 .. Len(kids) : kids[i].kids # <<>>}

\* The score is area / (1 + overlap); of equal ones the first is taken.
BestInner(kids, world) ==
    LET area(i) == 2 * Area(kids[i].hi - kids[i].lo, world)
        rest(i) == 1 + 2 * Overlap(kids, i, world)
    IN CHOOSE i \in Inner(kids) : \A j \in Inner(kids) :
          \/ area(i) * rest(j) > area(j) * rest(i)
          \/ (area(i) * rest(j) = area(j) * rest(i) /\ i <= j)

\* The best child gives its place to the last one; its own come at the end.
RECURSIVE Opened(_, _)
Opened(kids, world) ==
    IF Len(kids) >= Lanes \/ Inner(kids) = {} THEN kids
    ELSE LET i == BestInner(kids, world)
             others == Front([kids EXCEPT ![i] = Last(kids)])
         IN Opened(others \o kids[i].kids, world)

\* A leaf has as many lanes as a node has, however many items it was given.
RECURSIVE Collapse(_, _)
Collapse(tree, world) ==
    LET kids == Opened(tree.kids, world)
    IN [lo    |-> tree.lo, hi |-> tree.hi,
        lanes |-> IF tree.kids = <<>>
                  THEN SubSeq(tree.items, 1, Min({Lanes, Len(tree.items)}))
                  ELSE [i \in 1 .. Len(kids) |-> Branch(Collapse(kids[i], world))]]

-----------------------------------------------------------------------------
(***************************************************************************)
(* The tree of a submesh                                                   *)
(***************************************************************************)

\* BlasBuilder::build.  tris: the triangles, [lo, hi, at].
BlasTree(tris, flat) ==
    Bvh2([i \in 1 .. Len(tris) |->
             [lo |-> tris[i].lo, hi |-> tris[i].hi, leaf |-> TRUE, down |-> tris[i], cost |-> 12]],
         [flat |-> flat, tlas |-> FALSE])
Blas(tris, flat) == Collapse(BlasTree(tris, flat), [flat |-> flat, tlas |-> FALSE])

\* quantize_bounds: the low end of a lane is rounded down, the high end up.
QuantLo(node, lane) ==
    IF node.hi = node.lo THEN 0 ELSE ((lane.lo - node.lo) * Grid) \div (node.hi - node.lo)
QuantHi(node, lane) ==
    IF node.hi = node.lo THEN 0
    ELSE -(((node.lo - lane.hi) * Grid) \div (node.hi - node.lo))

-----------------------------------------------------------------------------
(***************************************************************************)
(* The tree of a frame                                                     *)
(***************************************************************************)

\* extract_morton_keys; expand_bits of the code mixes the three axes.
Code(group, groups) ==
    LET cells == Lanes ^ (BucketLevels + TreeLevels) IN
    IF Extent(groups) = 0 THEN 0
    ELSE Min({cells - 1, ((group.lo + group.hi - 2 * Box(groups).lo) * cells)
                            \div (2 * Extent(groups))})

\* The buckets and the radix sort of each: all keys in the order of their
\* codes, equal ones in the order in which they came.
SortKeys(groups) ==
    LET key(i) == [lo |-> groups[i].lo, hi |-> groups[i].hi, leaf |-> TRUE,
                   down |-> groups[i], code |-> Code(groups[i], groups), idx |-> i]
    IN SortSeq([i \in 1 .. Len(groups) |-> key(i)],
               LAMBDA a, b : a.code < b.code \/ (a.code = b.code /\ a.idx < b.idx))

Parts(keys, Of(_), parts) ==
    SelectSeq([p \in 1 .. parts |-> SelectSeq(keys, LAMBDA k : Of(k) = p - 1)],
              LAMBDA part : part # <<>>)

\* emit_morton_treelet: octants by the first level that tells some keys
\* apart; if no level does, chunks of equal length.
RECURSIVE Emit(_, _)
Emit(keys, level) ==
    LET octants(l) == Parts(keys, LAMBDA k : (k.code \div Lanes ^ l) % Lanes, Lanes)
        chunk      == (Len(keys) + Lanes - 1) \div Lanes
        at         == Max({l \in 0 .. level : Len(octants(l)) > 1} \cup {-1})
        parts      == IF at >= 0 THEN octants(at)
                      ELSE [c \in 1 .. (Len(keys) + chunk - 1) \div chunk |->
                               SubSeq(keys, (c - 1) * chunk + 1, Min({c * chunk, Len(keys)}))]
    IN IF Len(keys) <= Lanes THEN Node(keys)
       ELSE Node([p \in 1 .. Len(parts) |-> Branch(Emit(parts[p], Max({at - 1, -1})))])

\* The treelets of all populated buckets, as items of the top tree.
Treelets(groups) ==
    LET buckets == Parts(SortKeys(groups), LAMBDA k : k.code \div Lanes ^ TreeLevels,
                         Lanes ^ BucketLevels)
        treelet(keys) == Branch(Emit(keys, TreeLevels - 1))
    IN [b \in 1 .. Len(buckets) |->
           LET t == treelet(buckets[b])
           IN [lo |-> t.lo, hi |-> t.hi, leaf |-> FALSE, down |-> t.down,
               cost |-> 12 * Len(buckets[b])]]

\* TlasBuilder::build.  groups: for each entity in sight [lo, hi, first, count].
TlasTree(groups, flat) == Bvh2(Treelets(groups), [flat |-> flat, tlas |-> TRUE])
Tlas(groups, flat) == Collapse(TlasTree(groups, flat), [flat |-> flat, tlas |-> TRUE])

-----------------------------------------------------------------------------
(***************************************************************************)
(* raycast_scene                                                           *)
(***************************************************************************)

Infinity == 1000
NoHit == [dist |-> Infinity, sbm |-> 0]

\* Where a ray enters and leaves an interval, for r = [from, up].
Entry(r, lo, hi) == Max({IF r.up THEN lo - r.from ELSE r.from - hi, 0})
Exit(r, lo, hi)  == IF r.up THEN hi - r.from ELSE r.from - lo
Dist(r, at)      == IF r.up THEN at - r.from ELSE r.from - at

\* intersect_ray_triangle: strictly in front, and nearer than what was hit.
Struck(r, tri, sbm, hit) ==
    IF tri.cross /\ Dist(r, tri.at) > 0 /\ Dist(r, tri.at) < hit.dist
    THEN [dist |-> Dist(r, tri.at), sbm |-> sbm]
    ELSE hit

\* The lanes of a BLAS node that are entered, near ones first.  Distances are
\* in steps of the node's grid; a low end of Grid is taken for an empty lane.
LaneEntry(r, node, lane) ==
    LET at(q) == node.lo * Grid + q * (node.hi - node.lo)
        fine  == [r EXCEPT !.from = @ * Grid]
    IN Entry(fine, at(QuantLo(node, lane)), at(QuantHi(node, lane)))
LaneExit(r, node, lane) ==
    LET at(q) == node.lo * Grid + q * (node.hi - node.lo)
        fine  == [r EXCEPT !.from = @ * Grid]
    IN Exit(fine, at(QuantLo(node, lane)), at(QuantHi(node, lane)))

LaneHits(r, node, hit) ==
    LET near(i) == LaneEntry(r, node, node.lanes[i])
        entered(i) == /\ near(i) <= Min({LaneExit(r, node, node.lanes[i]), hit.dist * Grid})
                      /\ QuantLo(node, node.lanes[i]) # Grid
    IN SortSeq(SelectSeq([i \in 1 .. Len(node.lanes) |-> i], entered),
               LAMBDA i, j : near(i) < near(j) \/ (near(i) = near(j) /\ i < j))

\* One submesh: leaves are tested while they may be nearer, then the inner
\* lanes are pushed, the nearest last.
RECURSIVE TraceBlas(_, _, _, _)
TraceBlas(r, stack, sbm, hit) ==
    IF stack = <<>> THEN hit
    ELSE LET node  == Last(stack)
             lanes == LaneHits(r, node, hit)
             nearer(i, h) == LaneEntry(r, node, node.lanes[i]) < h.dist * Grid
             best  == FoldLeft(LAMBDA h, i : IF node.lanes[i].leaf /\ nearer(i, h)
                                             THEN Struck(r, node.lanes[i].down, sbm, h)
                                             ELSE h, hit, lanes)
             inner == SelectSeq(Reverse(lanes),
                                LAMBDA i : ~node.lanes[i].leaf /\ nearer(i, best))
         IN TraceBlas(r, Front(stack) \o [k \in 1 .. Len(inner) |-> node.lanes[inner[k]].down],
                      sbm, best)

\* The frame.  leaves: tlas_sbm_leaves; rays[s] is the ray in the space of
\* submesh s, roots[s] holds the root of its tree, if it has a triangle.
RECURSIVE TraceTlas(_, _, _, _, _, _)
TraceTlas(r, stack, leaves, rays, roots, hit) ==
    IF stack = <<>> THEN hit
    ELSE LET node  == Last(stack)
             lanes == SelectSeq(node.lanes, LAMBDA l :
                          Entry(r, l.lo, l.hi) <= Min({Exit(r, l.lo, l.hi), hit.dist}))
             held(l) == SubSeq(leaves, l.down.first, l.down.first + l.down.count - 1)
             sbms  == FlattenSeq([i \in 1 .. Len(lanes) |->
                                     IF lanes[i].leaf THEN held(lanes[i]) ELSE <<>>])
             best  == FoldLeft(LAMBDA h, s : TraceBlas(rays[s], roots[s], s, h), hit, sbms)
             inner == SelectSeq(lanes, LAMBDA l : ~l.leaf)
         IN TraceTlas(r, Front(stack) \o [k \in 1 .. Len(inner) |-> inner[k].down],
                      leaves, rays, roots, best)
==============================================================================
