------------------------------- MODULE ScenePick -------------------------------
(***************************************************************************)
(* The frame of the scene with the trees and the ray cast of WideBvh, and  *)
(* what a click on the picture of a frame selects.                         *)
(***************************************************************************)
EXTENDS SceneFrame, WideBvh

\* ingest_spatial_model: the tree of each submesh that has a triangle.
Roots(sc) == [s \in 1 .. Len(sc.stat) |->
    IF sc.stat[s].tris = <<>> THEN <<>> ELSE <<Blas(sc.stat[s].tris, sc.flat)>>]
RootsOf == [sc \in Scenes |-> Roots(sc)]

\* raycast_scene; the ray goes into the space of each submesh.
RayHit(r, sc, arrays) ==
    TraceTlas(r, arrays.tlas, arrays.leaves,
              [s \in 1 .. Len(sc.stat) |-> [r EXCEPT !.from = @ - arrays.M[s]]],
              RootsOf[sc], NoHit)

-----------------------------------------------------------------------------
(***************************************************************************)
(* Properties                                                              *)
(***************************************************************************)

\* What a click selects has been on the screen: the submesh was drawn in the
\* frame before, and the ray meets a triangle of it where it was drawn, even
\* if its entity has moved since.  Only a lost submesh is drawn elsewhere.
Picks == pending # NoRay /\ phase = "frame" /\ phase' = "cull"
PickIsDrawn ==
    [][Picks /\ selection' # None =>
          LET s == selection'.submesh
              shape == scene.stat[s]
          IN /\ selection'.entity = shape.ent
             /\ s \in Range(rig.visible)
             /\ Lost(s) \/ \E inst \in BagToSet(shown.stat), tri \in Range(shape.tris) :
                    /\ inst.mesh = shape.mesh
                    /\ tri.cross /\ Dist(pending, tri.at + inst.data.M) > 0]_vars

\* A leaf keeps all of its items.
RECURSIVE Fits(_)
Fits(tree) ==
    IF tree.kids = <<>> THEN Len(tree.items) <= Lanes
    ELSE \A k \in 1 .. Len(tree.kids) : Fits(tree.kids[k])

\* No lane is taken for an empty one.
RECURSIVE AllLanesSeen(_)
AllLanesSeen(node) ==
    \A i \in 1 .. Len(node.lanes) :
        /\ QuantLo(node, node.lanes[i]) # Grid
        /\ node.lanes[i].leaf \/ AllLanesSeen(node.lanes[i].down)

Solid(s) == scene.stat[s].tris # <<>>
FitsBlas == [sc \in Scenes |-> [s \in 1 .. Len(sc.stat) |->
                sc.stat[s].tris = <<>> \/ Fits(BlasTree(sc.stat[s].tris, sc.flat))]]
TreesFit ==
    /\ \A s \in Range(rig.visible) : ~Lost(s) /\ FitsBlas[scene][s]
    /\ rig.visible # <<>> => Fits(TlasTree(Groups(rig.visible), scene.flat))

\* Where the ray meets what was drawn.
Crossings(r) ==
    UNION {{<<Dist(r, tri.at + rig.M[s]), s>> : tri \in {t \in Range(scene.stat[s].tris) :
                t.cross /\ Dist(r, t.at + rig.M[s]) > 0}} : s \in Range(rig.visible)}

IsNearest(r, s) ==
    IF Crossings(r) = {} THEN s = 0
    ELSE \E x \in Crossings(r) : x[2] = s /\ \A y \in Crossings(r) : x[1] <= y[1]

\* The click selects the submesh of the nearest triangle on its ray, and none
\* only if there is no triangle, unless a cluster was not split and is too
\* large for a leaf, or a lane is taken for an empty one.
PickNearest ==
    [][Picks /\ TreesFit
       /\ (\A s \in Range(rig.visible) : Solid(s) => AllLanesSeen(RootsOf[scene][s][1]))
          => IsNearest(pending, selection'.submesh)]_vars

\* raycast_scene says "filter null lanes": a triangle on the ray is found if
\* no leaf had to drop it.
OnlyNullLanesFiltered ==
    [][Picks /\ TreesFit => IsNearest(pending, selection'.submesh)]_vars
==============================================================================
