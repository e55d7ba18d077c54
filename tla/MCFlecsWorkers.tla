--------------------------- MODULE MCFlecsWorkers ---------------------------
\* FlecsWorkers for TLC.  The number of threads is changed at will between
\* frames, between long-running threads and task threads too; frames, and the
\* operations of a frame, are not bounded.
EXTENDS FlecsWorkers
=============================================================================
