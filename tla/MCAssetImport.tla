---------------------------- MODULE MCAssetImport ----------------------------
\* Two documents that share their images, the second always the same, the
\* first one of several kinds of geometry and of materials.
EXTENDS AssetImport, TLC

CONSTANTS p, q, a, b

MCPaths == {p, q}
MCImages == {a, b}

Prim(kind, vtx, idx, attrs) ==
    [kind |-> kind, vtx |-> vtx, idx |-> idx, attrs |-> attrs, mat |-> 1,
     solid |-> vtx > 3]
Plain == {"pos", "nrm"}
List == Prim("list", 3, 3, Plain)
Big == Prim("list", 4, 6, Plain)
Strip == Prim("strip", 3, 3, Plain)
Mat(mr, ao, alb, nrm, emi) ==
    [mr |-> mr, ao |-> ao, alb |-> alb, nrm |-> nrm, emi |-> emi]
Bare == Mat(NoTex, NoTex, a, NoTex, NoTex)
Node(occluder, mesh, children) ==
    [occluder |-> occluder, mesh |-> mesh, children |-> children]
Doc0 == [materials |-> <<Bare>>, meshes |-> <<<<List, Big>>>>,
         nodes |-> <<Node(FALSE, 1, <<>>)>>, skins |-> <<>>, anims |-> <<>>]

\* Materials: all slots from two images, in all the ways that matter.
Textured == {[Doc0 EXCEPT !.materials = m] : m \in {
    <<Mat(a, b, a, b, NoTex), Mat(a, b, b, NoTex, a)>>,
    <<Mat(a, NoTex, b, NoTex, NoTex), Mat(NoTex, b, NoTex, a, b)>>}}

\* Meshes: a mesh that is rejected for a normal, an attribute that only some
\* have, joints or a material; strips, short and long.
Meshed == {[Doc0 EXCEPT !.meshes = m] : m \in {
    <<<<List, Strip, List>>, <<Big, List, Big>>>>,
    <<<<List>>, <<List, Prim("strip", 4, 4, Plain)>>>>,
    <<<<Big>>, <<Prim("list", 3, 3, {"pos"})>>>>,
    <<<<List, Prim("list", 3, 3, Plain \cup {"opt"})>>>>,
    <<<<Prim("list", 3, 3, Plain \cup {"jnt"})>>>>,
    <<<<Prim("points", 3, 0, Plain), List>>>>,
    <<<<[List EXCEPT !.mat = 0]>>>>}}

\* Trees of five nodes: node 1 over 2 and 3, node 3 over 4, node 5 alone, and
\* the same with the numbers of 1 and 4 exchanged so that a child comes first.
Trees == {<<<<2, 3>>, <<>>, <<4>>, <<>>, <<>>>>, <<<<>>, <<>>, <<1>>, <<2, 3>>, <<>>>>}
Treed == {[Doc0 EXCEPT !.meshes = <<<<List>>, <<List, List>>>>,
               !.nodes = [n \in 1 .. 5 |-> Node(n \in occluders,
                                               <<1, 2, 0, 2, 1>>[n], tree[n])]] :
          tree \in Trees, occluders \in {{1}, {3}, {2, 5}}}

\* A skin of two nodes and clips of two tracks, with an occluder before them,
\* after them, and on one of the animated nodes.
Clip == <<[node |-> 3, target |-> "translation", keys |-> 2],
          [node |-> 2, target |-> "rotation", keys |-> 1],
          [node |-> 3, target |-> "rotation", keys |-> 2]>>
Skinny(meshes, anims, occluder) ==
    [Doc0 EXCEPT !.meshes = meshes, !.skins = <<<<3, 4>>>>, !.anims = anims,
                 !.nodes = [n \in 1 .. 5 |-> Node(n = occluder, 0, <<>>)]]
Skins == {Skinny(<<>>, <<Clip>>, occluder) : occluder \in {1, 2, 5}}
         \cup {Skinny(<<<<List>>>>, anims, 5) : anims \in {<<>>, <<Clip>>}}

Second == [Doc0 EXCEPT !.materials = <<Mat(a, b, b, a, NoTex)>>]

MCContents ==
    {(p :> d) @@ (q :> Second) : d \in Textured \cup Meshed \cup Treed \cup Skins}
==============================================================================
