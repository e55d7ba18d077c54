----------------------- MODULE MCFlecsNetworkIdentity -----------------------
\* FlecsNetworkIdentity for TLC.  Three entities, so that the free stack holds
\* two slots while a third is in use; the entities are interchangeable.
EXTENDS FlecsNetworkIdentity, TLC

Symmetry == Permutations(Entities)

=============================================================================
