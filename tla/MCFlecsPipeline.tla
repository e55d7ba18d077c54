--------------------------- MODULE MCFlecsPipeline ---------------------------
\* FlecsPipeline for TLC: what systems may be.
EXTENDS FlecsPipeline

Term(id, src, inout) == [id |-> id, src |-> src, not |-> FALSE, inout |-> inout]
System(terms) == [terms |-> terms, multi_threaded |-> FALSE, immediate |-> FALSE]

A == <<"A">>
RA == <<"R", "A">>
RAny == <<"R", "*">>

\* One kind for each way in which a system's terms, threads and mode cut the schedule
MCSystemData ==
    [ reads |-> System(<<Term(A, "this", "default"), Term(RAny, "this", "none")>>),
      adds |-> System(<<Term(A, "any", "out"), Term(RAny, "fixed", "out")>>),
      tags |-> [System(<<Term(A, "this", "in"), [Term(RA, "this", "out") EXCEPT !.not = TRUE]>>)
                  EXCEPT !.multi_threaded = TRUE],
      everything |-> System(<<Term(RA, "fixed", "default"), Term(AnyId, "any", "inout"),
                              Term(A, "any", "default")>>),
      immediate |-> [System(<<Term(A, "any", "in")>>) EXCEPT !.immediate = TRUE] ]

MCKinds == DOMAIN MCSystemData
=============================================================================
