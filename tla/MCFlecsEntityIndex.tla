------------------------- MODULE MCFlecsEntityIndex -------------------------
\* FlecsEntityIndex for TLC: the first two ids, which are the range that
\* creating the second range creates, and the third.
EXTENDS FlecsEntityIndex

MCRanges == {[min |-> 1, max |-> 2], [min |-> 3, max |-> 3]}
=============================================================================
