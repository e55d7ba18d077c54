---------------------- MODULE MCFlecsReplicationClient ----------------------
(***************************************************************************)
(* Two identities.  The source is published three times: with a component,   *)
(* then with a reference to the target as well, then without it.  The target *)
(* is published once; its removal may come before, after or instead.         *)
(***************************************************************************)
EXTENDS FlecsReplicationClient

CONSTANTS source, target,        \* identities
          health, tag, child,    \* a component, a tag, a pair with an entity
          low, high              \* payloads

MCNetworkIds == {source, target}
MCKeys == {health, tag, child}
MCReferenceKeys == {child}
MCTargetOf == [k \in {child} |-> target]
MCRevisions == 1 .. 3
MCValues == {low, high}

Entry(layout, value, revision) ==
    [layoutId      |-> layout,
     values        |-> [k \in MCKeys |->
                          IF k \in layout \ {tag} THEN value ELSE NoValue],
     stateRevision |-> revision]

MCPublished ==
    {<<source, Entry({health}, low, 1)>>,
     <<source, Entry({health, child}, high, 2)>>,
     <<source, Entry({health}, high, 3)>>,
     <<target, Entry({health}, low, 1)>>}
=============================================================================
