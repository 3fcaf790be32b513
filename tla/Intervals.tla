------------------------------- MODULE Intervals -------------------------------
(***************************************************************************)
(* The boxes of the ray cast and of the culling (hpr/procgen/bvh_tlas.cpp) *)
(* on the ray's own line: a box is an interval [lo, hi].                   *)
(***************************************************************************)
EXTENDS Integers, Sequences, FiniteSetsExt

Los(seq) == {seq[i].lo : i \in 1 .. Len(seq)}
His(seq) == {seq[i].hi : i \in 1 .. Len(seq)}
Box(seq) == [lo |-> Min(Los(seq)), hi |-> Max(His(seq))]
Extent(seq) == Box(seq).hi - Box(seq).lo
==============================================================================
