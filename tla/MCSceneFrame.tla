----------------------------- MODULE MCSceneFrame -----------------------------
(* ScenePick on scenes that bring about each way in which a tree is built: a  *)
(* row long enough for two levels, entities with one centre, flat geometry,   *)
(* ranges that overlap, entities without a transform.                         *)
EXTENDS ScenePick

Single(n) == [placed |-> TRUE, skin |-> FALSE, first |-> n, count |-> 1]
Tri(lo, hi, at) == [lo |-> lo, hi |-> hi, at |-> at, cross |-> TRUE]
Miss(lo, hi) == [Tri(lo, hi, lo) EXCEPT !.cross = FALSE]
Mesh(vtx, idx) == [vtx |-> vtx, idx |-> idx, cnt |-> 3]
Sub(ent, mesh, mat, local, tris) ==
    [ent |-> ent, mesh |-> mesh, mat |-> mat, local |-> local, hull |-> TRUE, tris |-> tris]
Chip == <<Tri(0, 2, 1)>>

\* One entity for each place: the same chip, every other one of another material.
Line(places, flat) ==
    [flat |-> flat,
     entities |-> [e \in 1 .. Len(places) |-> Single(e)],
     stat |-> [s \in 1 .. Len(places) |-> Sub(s, Mesh(0, 0), s % 2, places[s], Chip)],
     skin |-> <<>>]

Row == Line([i \in 1 .. 10 |-> 5 * i], FALSE)
Stack == Line(<<7, 7, 7, 7, 7, 7>>, FALSE)
FlatRow == Line(<<0, 6, 12, 18, 24, 30>>, TRUE)

\* A long mesh with a second part, a mesh without a hull, one without triangles.
Meshes ==
    [flat |-> FALSE,
     entities |-> <<[Single(1) EXCEPT !.count = 2], Single(3), Single(4)>>,
     stat |-> <<Sub(1, Mesh(0, 0), 1, 0, <<Miss(0, 3), Tri(4, 6, 5), Tri(8, 9, 8), Miss(11, 14),
                                           Tri(16, 17, 17), Tri(19, 21, 20)>>),
                Sub(1, Mesh(3, 6), 2, 26, <<Tri(0, 2, 0)>>),
                [Sub(2, Mesh(2, 8), 1, 12, Chip) EXCEPT !.hull = FALSE],
                Sub(3, Mesh(0, 0), 1, 15, <<>>)>>,
     skin |-> <<>>]

\* More triangles in one place than a leaf has lanes.
Clump ==
    [flat |-> FALSE, entities |-> <<Single(1)>>,
     stat |-> <<Sub(1, Mesh(0, 0), 1, 12, <<Tri(0, 2, 1), Tri(0, 2, 0), Tri(0, 2, 2),
                                            Tri(0, 2, 1), Tri(0, 2, 2)>>)>>,
     skin |-> <<>>]

\* Entity 2 has no transform, the range of entity 3 is one of skinned arrays.
Mixed ==
    [flat |-> FALSE,
     entities |-> <<[Single(1) EXCEPT !.count = 2], [Single(3) EXCEPT !.placed = FALSE],
                    [Single(1) EXCEPT !.skin = TRUE]>>,
     stat |-> <<Sub(1, Mesh(0, 0), 1, 3, Chip), Sub(1, Mesh(2, 2), 1, 8, Chip),
                Sub(2, Mesh(0, 0), 1, 5, Chip)>>,
     skin |-> <<[ent |-> 3, mesh |-> Mesh(0, 0), mat |-> 2, local |-> 1]>>]

OnlySkinned ==
    [flat |-> FALSE, entities |-> <<[Single(1) EXCEPT !.count = 0, !.skin = TRUE]>>,
     stat |-> <<>>, skin |-> <<>>]
Unplaced == [Line(<<3>>, FALSE) EXCEPT !.entities[1].placed = FALSE]

\* Something in a box: the faces of the box across the line are flat.
Face ==
    [flat |-> FALSE, entities |-> <<Single(1), Single(2)>>,
     stat |-> <<Sub(1, Mesh(0, 0), 1, 4, <<Tri(0, 0, 0), Miss(0, 4), Tri(4, 4, 4)>>),
                Sub(2, Mesh(3, 6), 1, 5, Chip)>>,
     skin |-> <<>>]

MCScenes ==
    {Row, Stack, FlatRow, Meshes, Clump, Mixed, OnlySkinned, Unplaced, Face}
FaceScenes == {Face}
MCViews == {[out |-> {}, behind |-> {}], [out |-> {1, 6}, behind |-> {3}],
            [out |-> 1 .. 10, behind |-> {}]}
MCRays == {[from |-> 0 - 2, up |-> TRUE], [from |-> 60, up |-> FALSE],
           [from |-> 24, up |-> TRUE], [from |-> 16, up |-> FALSE]}
===============================================================================
