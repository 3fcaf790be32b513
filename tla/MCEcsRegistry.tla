---------------------------- MODULE MCEcsRegistry ----------------------------
\* Small registry for TLC: components and values are interchangeable.
EXTENDS EcsRegistry, TLC

Symmetry == Permutations(Components) \cup Permutations(Values)
==============================================================================
