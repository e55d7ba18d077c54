------------------------ MODULE MCFlecsReplication ------------------------
(***************************************************************************)
(* Instances of the authority with one client.                               *)
(***************************************************************************)
EXTENDS FlecsReplication, TLC

CONSTANTS
    e1, e2,            \* entities
    health, tag,       \* a component, a tag
    low, high,         \* payloads
    plain, filtered,   \* profiles: tables; proxies with a net filter
    distance           \* the filter

MCNetworkIds == Entities \X (1 .. MaxLives)
MCSelectionOf ==
    [p \in Profiles |-> IF p = plain THEN [class |-> "Table", group |-> "Default"]
                        ELSE ProxySelection]
MCTraitsOf == [p \in Profiles |-> IF p = plain THEN NoTraits ELSE distance]
MCRevisions == 1 .. 2
ThreeRevisions == 1 .. 3
Empty == [x \in {} |-> x]
Symmetry == Permutations({e1, e2})
=============================================================================
