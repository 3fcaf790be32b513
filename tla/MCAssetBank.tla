----------------------------- MODULE MCAssetBank -----------------------------
\* Three URIs, one of them used without an id.
EXTENDS AssetBank

CONSTANTS a, b, c

MCUris == {a, b, c}
MCPlainUris == {c}
MCIds == {0, 1}

Number(uri, id) == 2 * (CASE uri = a -> 0 [] uri = b -> 1 [] uri = c -> 2) + id

\* Two URIs that get the same hash with id 1.
Colliding == [uri \in MCUris |-> [id \in MCIds |->
                 IF uri = b /\ id = 1 THEN Number(a, 1) ELSE Number(uri, id)]]
==============================================================================
