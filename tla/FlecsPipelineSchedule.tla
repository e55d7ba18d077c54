------------------------ MODULE FlecsPipelineSchedule ------------------------
(***************************************************************************)
(* How a pipeline's schedule is built (flecs_pipeline_build and the          *)
(* functions it calls, addons/pipeline/pipeline.c): the systems in order,    *)
(* cut into operations.  The systems of one operation run without a merge    *)
(* between them, so that none sees what another of them has staged.          *)
(*                                                                          *)
(* An id is a tuple: <<component>> or <<relationship, target>>; "*" in it is *)
(* EcsWildcard.  A term is a record of its id, its source ("this", an entity *)
(* that is "fixed", or "any" for none), whether it is negated, and inout.    *)
(***************************************************************************)
EXTENDS Integers, Sequences

CONSTANT SystemCount    \* systems are numbered in the order of the pipeline's query

ASSUME SystemCountAssumption == SystemCount \in Nat \ {0}

Systems == 1 .. SystemCount

Ids == Seq(STRING)
Terms == [id : Ids, src : {"this", "fixed", "any"}, not : BOOLEAN,
          inout : {"default", "none", "in", "out", "inout", "filter"}]
SystemRecords == [terms : Seq(Terms), multi_threaded : BOOLEAN, immediate : BOOLEAN]

AnyId == <<"*">>
IsWildcard(id) == \E k \in DOMAIN id : id[k] = "*"

\* ecs_id_match
Match(id, pattern) ==
    \/ pattern = AnyId
    \/ /\ Len(id) = Len(pattern)
       /\ \A k \in DOMAIN id : pattern[k] \in {"*", id[k]}

\* flecs_pipeline_get_write_state: may an id have been staged?  "written" is the
\* set of ids in the write state; AnyId in it is the write barrier.
Staged(written, id) ==
    \E w \in written :
        \/ w = AnyId \/ id = AnyId
        \/ ~IsWildcard(w) /\ Match(w, id)
        \/ Match(id, w)

\* A term without a source that says nothing is an id that the system is given.
Inout(t) ==
    IF t.inout # "default" THEN t.inout
    ELSE CASE t.src = "any" -> "none" [] t.src = "fixed" -> "in" [] t.src = "this" -> "inout"

\* Terms whose accesses are to the stage: what they write is staged, what they
\* read is read from the main storage.
IsStaging(t) == t.src # "this" \/ (t.not /\ Inout(t) = "out")
Writes(t) == Inout(t) \in {"out", "inout"}
Reads(t) == Inout(t) \in {"in", "inout"}

\* flecs_pipeline_set_write_state, which a term's write to the stage calls
SetWritten(written, t, active) ==
    IF IsStaging(t) /\ Writes(t) /\ active THEN written \cup {t.id} ELSE written

\* Mutant: what an inactive system would write counts.
CheckTermOfInactive(check, t, active) ==
    LET staged == Staged(check.written, t.id)
    IN  IF t.inout = "filter" THEN check
        ELSE IF t.src = "this" /\ staged THEN [check EXCEPT !.needs_merge = TRUE]
        ELSE [needs_merge |-> check.needs_merge \/ (IsStaging(t) /\ Reads(t) /\ staged),
              written |-> SetWritten(check.written, t, TRUE)]

\* flecs_pipeline_check_term
CheckTerm(check, t, active) ==
    LET staged == Staged(check.written, t.id)
    IN  IF t.inout = "filter" THEN check
        ELSE IF t.src = "this" /\ staged THEN [check EXCEPT !.needs_merge = TRUE]
        ELSE [needs_merge |-> check.needs_merge \/ (IsStaging(t) /\ Reads(t) /\ staged),
              written |-> SetWritten(check.written, t, active)]

\* One of the loops of flecs_pipeline_check_terms: over the terms whose source
\* is $this, or over the others
CheckedTerms(terms, active, start, this) ==
    LET check[n \in 0 .. Len(terms)] ==
            IF n = 0 THEN start
            ELSE IF this <=> terms[n].src = "this" THEN CheckTerm(check[n - 1], terms[n], active)
            ELSE check[n - 1]
    IN  check

\* flecs_pipeline_check_terms: $this terms first, so that what a system stages
\* itself does not make it wait for a merge.
CheckTerms(terms, active, written) ==
    LET start == [needs_merge |-> FALSE, written |-> written]
        first == CheckedTerms(terms, active, start, TRUE)[Len(terms)]
    IN  CheckedTerms(terms, active, first, FALSE)[Len(terms)]

\* The assertion of flecs_pipeline_build, after the write state was reset: a
\* system does not itself need the merge that would have to come before it.
NeedsNoMerge(system) == ~CheckTerms(system.terms, TRUE, {}).needs_merge

NoSchedule ==
    [systems |-> <<>>, ops |-> <<>>, written |-> {},
     first |-> TRUE, multi_threaded |-> FALSE, immediate |-> FALSE]

Operation(offset) == [offset |-> offset, count |-> 0, multi_threaded |-> FALSE, immediate |-> FALSE]

\* The write state after a merge before the system: its own writes alone.
WrittenAfter(system, active) ==
    IF active THEN CheckTerms(system.terms, TRUE, {}).written ELSE {}

\* Mutant: a system that is inactive causes no merge.
NeedsMergeIfActive(b, system, active, staged) ==
    active /\ ( \/ staged
                \/ system.immediate
                \/ ~b.first /\ <<b.multi_threaded, b.immediate>>
                                 # <<system.multi_threaded, system.immediate>> )

\* Why a merge comes before a system: it accesses what is staged, the way in
\* which systems are run changes, or immediate systems are being run.
NeedsMerge(b, system, active, staged) ==
    \/ staged
    \/ active /\ ~b.first /\ <<b.multi_threaded, b.immediate>>
                               # <<system.multi_threaded, system.immediate>>
    \/ IF active THEN system.immediate ELSE b.immediate

\* An operation without systems, which a merge before an inactive system left
\* behind, is used again.
NewOperation(b, needs_merge) ==
    b.ops = <<>> \/ (needs_merge /\ b.ops[Len(b.ops)].count > 0)

\* One more system in an operation; the first says how it is run.
Filled(op, mode) ==
    IF op.count > 0 THEN [op EXCEPT !.count = @ + 1]
    ELSE [op EXCEPT !.count = 1, !.multi_threaded = mode.multi_threaded,
                    !.immediate = mode.immediate]

\* One system of the pipeline's query (the loop's body)
AddSystem(b, s, system, active) ==
    LET check == CheckTerms(system.terms, active, b.written)
        needs_merge == NeedsMerge(b, system, active, check.needs_merge)
        ops == IF NewOperation(b, needs_merge) THEN Append(b.ops, Operation(Len(b.systems)))
               ELSE b.ops
        mode == IF active THEN system ELSE b
    IN  [systems |-> IF active THEN Append(b.systems, s) ELSE b.systems,
         ops |-> IF active THEN [ops EXCEPT ![Len(ops)] = Filled(@, system)] ELSE ops,
         written |-> IF needs_merge THEN WrittenAfter(system, active) ELSE check.written,
         first |-> b.first /\ ~active,
         multi_threaded |-> mode.multi_threaded,
         immediate |-> mode.immediate]

\* A merge before an inactive system at the end leaves an empty operation.
WithoutEmptyOperation(ops) ==
    IF Len(ops) > 1 /\ ops[Len(ops)].count = 0 THEN SubSeq(ops, 1, Len(ops) - 1) ELSE ops

\* The schedule after each system, of those that are enabled, which are active
\* unless they are tagged EcsEmpty
Schedules(sys, enabled, active) ==
    LET b[n \in 0 .. SystemCount] ==
            IF n = 0 THEN NoSchedule
            ELSE IF n \in enabled THEN AddSystem(b[n - 1], n, sys[n], n \in active)
            ELSE b[n - 1]
    IN  b

Build(sys, enabled, active) ==
    LET b == Schedules(sys, enabled, active)[SystemCount]
    IN  [systems |-> b.systems, ops |-> WithoutEmptyOperation(b.ops)]
=============================================================================
