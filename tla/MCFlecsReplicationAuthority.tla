-------------------- MODULE MCFlecsReplicationAuthority --------------------
(***************************************************************************)
(* Instances of the authority: what entities, ids and profiles there are.    *)
(***************************************************************************)
EXTENDS FlecsReplicationAuthority, TLC

CONSTANTS
    e1, e2, e3,        \* entities
    health, tag, link, \* a component, a tag, a pair with e2
    owns,              \* a pair with a component as its target, and its payload
    low, high,         \* payloads
    plain, filtered, far, \* profiles: tables; proxies and tables with a filter
    distance           \* the filter

MCNetworkIds == Entities \X (1 .. MaxLives)
MCReferenceKeys == PairIds \X MCNetworkIds
MCKeys == (LocalIds \ PairIds) \cup (PairIds \X (MCNetworkIds \cup {NoIdentity}))
MCTargetOf == [k \in MCReferenceKeys |-> k[2]]
MCPairTarget == [x \in PairIds |-> e2]
MCSelectionOf ==
    [p \in Profiles |-> IF p = filtered THEN ProxySelection
                        ELSE [class |-> "Table", group |-> "Default"]]
MCTraitsOf == [p \in Profiles |-> IF p = plain THEN NoTraits ELSE distance]

\* Without pairs, the entities are interchangeable, and so are the payloads.
Symmetry == Permutations(Entities) \cup Permutations(Values)

OneRevision == {1}
TwoRevisions == 1 .. 2
ThreeRevisions == 1 .. 3
=============================================================================
