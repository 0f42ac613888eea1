-------------------------- MODULE MCReviewEvidence --------------------------
(***************************************************************************)
(* Values for checking ReviewEvidence with TLC, and the boxes it starts     *)
(* from: one with a leak, one with jobs that differ, one whose code changed *)
(* after the services started.                                              *)
(***************************************************************************)
EXTENDS ReviewInvariant

\* The second value of a place is a short one; the gateway's holds a name.
MCShort == {v \in Secrets : v.n = 2}
MCNamed == {v \in Secrets : v.place = "gateway"}

MCReadable(sets) == \E down \in sets : readable = [p \in Readables |-> p \notin down]

\* The job that is as it should be.
One == CHOOSE j \in Jobs : TRUE
Whole == [declared |-> TRUE, disk |-> TRUE, loaded |-> TRUE, ran |-> TRUE]
MCJobs(rests) == \E rest \in rests : job = [j \in Jobs |-> IF j = One THEN Whole ELSE rest]

Undeclared == [Whole EXCEPT !.declared = FALSE]

WithLeak ==
    /\ MCReadable({{}, {"google"}, {"gateway"}}) /\ MCJobs({Whole})
    /\ changed = [f \in LoadedFiles |-> 0]
    /\ \E unit \in {"system", One}, v \in Secrets :
         /\ version = [p \in Places |-> IF p = v.place THEN v.n ELSE 1]
         /\ journal = <<Entry("system", None), Entry(unit, v)>>

Clean ==
    /\ version = [p \in Places |-> 1]
    /\ journal = <<Entry("system", None), Entry("system", None)>>

WithJobs ==
    /\ Clean /\ changed = [f \in LoadedFiles |-> 0]
    /\ MCReadable({{}, {"google"}, {"descriptions"}, {"directories"}})
    /\ MCJobs({Undeclared, [Whole EXCEPT !.loaded = FALSE], [Whole EXCEPT !.ran = FALSE]})

WithCode ==
    /\ Clean /\ changed \in [LoadedFiles -> 0 .. 2]
    /\ MCReadable({{}}) /\ MCJobs({Whole, Undeclared})

MCInit ==
    /\ WithLeak \/ WithJobs \/ WithCode
    /\ now = 2 /\ started = [s \in Services |-> 1]
    /\ behind = [s \in Services |-> {f \in LoadedFiles : changed[f] > 0}]
    /\ Init

MCSpec == MCInit /\ [][Next]_vars
=============================================================================
