---------------------------- MODULE MCSceneGraph ----------------------------
\* Every scene of MaxDocs documents, in two families.
EXTENDS SceneGraph

\* A scene has no cycle of parents: going up MaxDocs times leads out of it.
IsForest(up) ==
    \A g \in DOMAIN up :
        LET reach[n \in 0 .. MaxDocs] ==
                IF n = 0 THEN g
                ELSE IF reach[n - 1] \in DOMAIN up THEN up[reach[n - 1]] ELSE NoGuid
        IN reach[MaxDocs] \notin DOMAIN up

\* Every document has its number for a guid, and any of them has a transform.
\* MaxDocs + 1 is a guid that no document has.
Proper ==
    {[i \in 1 .. MaxDocs |-> [guid |-> i, parent |-> up[i], transform |-> i \in moving]] :
        up \in {f \in [1 .. MaxDocs -> 0 .. MaxDocs + 1] : IsForest(f)},
        moving \in SUBSET (1 .. MaxDocs)}

ProperScenes ==
    {scene \in Proper :
        \A i, j \in 1 .. MaxDocs : scene[j].parent = i => scene[i].transform}

\* Any: guids may be missing or repeated, and the second document may have
\* no transform.  Of two documents with a guid the later parent holds.
\* New guids come in the order of their numbers: which is which does not matter.
GuidLists ==
    {g \in [1 .. MaxDocs -> 0 .. MaxDocs - 1] :
        \A i \in 1 .. MaxDocs : g[i] <= 1 \/ \E j \in 1 .. i - 1 : g[j] >= g[i] - 1}

LastParent(guids, up) ==
    [g \in {guids[i] : i \in 1 .. MaxDocs} \ {NoGuid} |->
        up[CHOOSE i \in 1 .. MaxDocs :
               guids[i] = g /\ \A j \in i + 1 .. MaxDocs : guids[j] # g]]

AnyScenes ==
    {[i \in 1 .. MaxDocs |->
         [guid |-> x[1][i], parent |-> x[2][i], transform |-> i # x[3]]] :
        x \in {y \in GuidLists \X [1 .. MaxDocs -> 0 .. MaxDocs - 1] \X {0, 2} :
                  IsForest(LastParent(y[1], y[2]))}}

AllScenes == ProperScenes \cup AnyScenes
=============================================================================
