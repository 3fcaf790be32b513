------------------------------ MODULE AssetBank ------------------------------
(***************************************************************************)
(* hpr::res::AssetBank (hpr/resource/asset_bank.hpp): the list of assets   *)
(* that keeps an object from being loaded twice, over a HandleStore that   *)
(* keeps the objects.  An asset is known by the URI it came from, and by a *)
(* hash of that URI alone or of the URI and an id; both kinds of hash live *)
(* in one field, the hash with id 0 being the one of the URI alone.        *)
(*                                                                         *)
(* A hash is a member of a small set; Hash says which keys share one.  The *)
(* keys of a URI with two ids, and of two URIs, differ from those of a URI *)
(* with one id in how the hash is mixed only: an id stands for them too.   *)
(***************************************************************************)
EXTENDS HandleStore

CONSTANTS
    Uris,           \* the URIs asked for
    Ids,            \* the ids of composite keys; 0 is the URI alone
    Hash,           \* Hash[uri][id]: composite_hash_uri(uri, id)
    NoUri,          \* what nothing found has for a URI
    PlainUris       \* the URIs the clients use without an id

ASSUME IdsAssumption == 0 \in Ids /\ Ids \subseteq Nat
ASSUME NoUriAssumption == NoUri \notin Uris
ASSUME PlainAssumption == PlainUris \subseteq Uris

VARIABLE assets     \* m_assets; m_store is the HandleStore

Hashes == UNION {{Hash[uri][id] : id \in Ids} : uri \in Uris}

bankVars == <<assets, vars>>

BankInit == assets = <<>> /\ Init

Assets == [uri : Uris, hash : Hashes, handle : Handles]

Asset(uri, id, h) == [uri |-> uri, hash |-> Hash[uri][id], handle |-> h]

SE == INSTANCE SequencesExt

\* find(uri), and the search by hash that every composite key goes through.
FindUri(uri) == SE!SelectInSeq(assets, LAMBDA x : x.uri = uri)
FindHash(hash) == SE!SelectInSeq(assets, LAMBDA x : x.hash = hash)

FindBoth(uri, hash) ==
    SE!SelectInSeq(assets, LAMBDA x : x.hash = hash /\ x.uri = uri)

FindComposite(uri, id) == FindHash(Hash[uri][id])

\* The URI of the asset that was found, if any.
UriAt(i) == IF i = 0 THEN NoUri ELSE assets[i].uri

-----------------------------------------------------------------------------
(***************************************************************************)
(* Operations                                                              *)
(***************************************************************************)

\* add(uri): the asset that is there, or a new one.
Add(uri) ==
    \/ FindUri(uri) # 0 /\ UNCHANGED bankVars
    \/ /\ FindUri(uri) = 0
       /\ \E h \in Handles :
             /\ Create(h)
             /\ assets' = Append(assets, Asset(uri, 0, h))

\* Mutant: an add_composite() that does not look for the key.
AddCompositeAlways(uri, id) ==
    \E h \in Handles :
        /\ Create(h)
        /\ assets' = Append(assets, Asset(uri, id, h))

\* add_composite(uri, id): only the first asset of that hash is looked at.
AddComposite(uri, id) ==
    \/ UriAt(FindComposite(uri, id)) = uri /\ UNCHANGED bankVars
    \/ /\ UriAt(FindComposite(uri, id)) # uri
       /\ \E h \in Handles :
             /\ Create(h)
             /\ assets' = Append(assets, Asset(uri, id, h))

\* Mutant: an erase() of the last asset instead of the one asked for.
WithoutLast(i) == SubSeq(assets, 1, Len(assets) - 1)

\* m_assets.erase(i): the later assets move down.
Without(i) == SE!RemoveAt(assets, i)

\* Mutant: a removal that leaves the object in the store.
EraseOnly(i) == assets' = Without(i) /\ UNCHANGED vars

\* The object is destroyed, then its asset is erased.
Erase(i) ==
    /\ Destroy(assets[i].handle)
    /\ assets' = Without(i)

\* remove(uri) takes the first asset of the URI, whatever its hash.
Remove(uri) ==
    \/ FindUri(uri) = 0 /\ UNCHANGED bankVars
    \/ FindUri(uri) # 0 /\ Erase(FindUri(uri))

\* remove(uri_hash) takes the first asset of the hash, whatever its URI.
RemoveHash(hash) ==
    \/ FindHash(hash) = 0 /\ UNCHANGED bankVars
    \/ FindHash(hash) # 0 /\ Erase(FindHash(hash))

\* remove_composite(uri, id): the hash and the URI both have to match.
RemoveComposite(uri, id) ==
    LET i == FindBoth(uri, Hash[uri][id])
    IN \/ i = 0 /\ UNCHANGED bankVars
       \/ i # 0 /\ Erase(i)

\* The operations on the keys of a URI.  A client uses a URI alone, or always
\* with an id, and never both: that is how AssetKeeper keeps images and models
\* apart from materials.
KeyOperation(uri) ==
    \/ /\ uri \in PlainUris
       /\ Add(uri) \/ Remove(uri) \/ RemoveHash(Hash[uri][0])
    \/ /\ uri \notin PlainUris
       /\ \E id \in Ids : \/ AddComposite(uri, id) \/ RemoveComposite(uri, id)
                          \/ RemoveHash(Hash[uri][id])

BankNext == \E uri \in Uris : KeyOperation(uri)

BankSpec == BankInit /\ [][BankNext]_bankVars

-----------------------------------------------------------------------------
(***************************************************************************)
(* Properties                                                              *)
(***************************************************************************)

\* The assets are records of the keys in use.
BankTypeOK == assets \in Seq(Assets)

\* The handle of every asset names an object, no two assets share one, and no
\* object is left in the store without an asset: what find() returns can be
\* used, and nothing leaks.
HandlesLive ==
    /\ \A i \in 1 .. Len(assets) : Resolves(assets[i].handle)
    /\ \A i, j \in 1 .. Len(assets) : assets[i].handle = assets[j].handle => i = j
    /\ Len(assets) = activeCount

\* What the bank knows of the store is true in whatever order keys of both
\* kinds come and go, keys with the hash of another among them.
BankInv == BankTypeOK /\ HandlesLive

\* No other URI has a key of this hash.
Alone(uri, id) == \A other \in Uris \ {uri}, k \in Ids : Hash[other][k] # Hash[uri][id]

\* "Asset system with resource deduplication": a composite key that shares
\* its hash with no other URI has one asset at most, and find_composite()
\* answers with it or with nothing.  With two URIs of one hash neither is so.
KeysFindTheirOwn ==
    \A uri \in Uris \ PlainUris, id \in Ids :
        Alone(uri, id) =>
            /\ UriAt(FindComposite(uri, id)) \in {uri, NoUri}
            /\ \A i, j \in 1 .. Len(assets) :
                  assets[i].hash = Hash[uri][id] /\ assets[j].hash = Hash[uri][id] => i = j

\* What find() answers for a URI used alone, whose hash no other key has, is
\* changed by no operation on another URI.
OtherKeysUndisturbed ==
    [][\A uri \in PlainUris, other \in Uris :
          Alone(uri, 0) /\ other # uri /\ KeyOperation(other) =>
              LET HandleOf(i) == IF i = 0 THEN Null ELSE assets[i].handle
              IN HandleOf(FindUri(uri))' = HandleOf(FindUri(uri))]_bankVars
==============================================================================
