-------------------------- MODULE ExecutorInvariant --------------------------
(***************************************************************************)
(* Inductive invariants of ApplyExecutor.  The first follows the criteria: *)
(* what is in force or logged was created by some run, and what two runs   *)
(* created under one name is set apart.  The second is about counts.       *)
(***************************************************************************)
EXTENDS ApplyExecutor

Logged == {log[n].res : n \in Lines}

\* A run has a criterion in hand from the live call to its line in the log,
\* and targets from its plan to its end.
HandOK ==
    \A r \in Runs :
        /\ run[r].pc \in {"idle", "asked", "checked", "planned", "live"} =>
              run[r].res = None
        /\ run[r].pc = "landed" => run[r].res \in Criteria
        /\ run[r].pc \notin {"planned", "live", "landed"} => run[r].todo = {}
        /\ Active(r) => run[r].day > 0

\* What an apply has before it are actions, and an undo applied lines.
TargetsOK ==
    \A r \in Runs : \A n \in run[r].todo :
        IF run[r].undo THEN n \in Lines /\ log[n].status = "applied"
                       ELSE n \in 1 .. Actions

\* An apply creates the criteria of its own change-set, and none that is still
\* before it: it creates no criterion twice.
TouchedOK ==
    \A r \in Runs :
        /\ run[r].pc \in {"idle", "asked", "checked", "planned"} => run[r].touched = {}
        /\ ~run[r].undo =>
              /\ \A c \in run[r].touched : c[1] = run[r].cid /\ c[2] \notin run[r].todo
              /\ run[r].pc = "landed" => run[r].res \in run[r].touched

RunsOK == TypeOK /\ HandOK /\ TargetsOK /\ TouchedOK

\* What is in force or logged was created by a run.
KnownIsMade == \A c \in account \cup Logged : \E p \in Runs : Made(p, c)

\* Between an apply's live call and its line, what it created is in force and
\* nobody else knows it...
FreshOK ==
    \A r \in Runs :
        run[r].pc = "landed" /\ ~run[r].undo =>
            Remade(run[r].res) \/ run[r].res \in account \ Logged

\* ... what was removed, logged or about to be, is gone for good...
GoneOK ==
    /\ \A r \in Runs :
          run[r].pc = "landed" /\ run[r].undo =>
              /\ run[r].res \in Logged
              /\ Remade(run[r].res) \/ run[r].res \notin account
    /\ \A n \in Lines :
          log[n].status = "undone" => Remade(log[n].res) \/ log[n].res \notin account

\* ... and an undo still has before it whatever it owes that is in force,
\* unless the name was issued again.
OwedOK ==
    \A r \in Runs :
        /\ run[r].pc \notin {"planned", "live", "landed"} => run[r].owed = {}
        /\ run[r].undo =>
              \A c \in run[r].owed :
                  /\ c \in Logged
                  /\ c \in account => Remade(c) \/ \E n \in run[r].todo : log[n].res = c

ExecInv ==
    /\ RunsOK
    /\ KnownIsMade
    /\ FreshOK
    /\ GoneOK
    /\ OwedOK
    /\ LogTellsTheAccount

-----------------------------------------------------------------------------
(***************************************************************************)
(* What a run did and says, and what overlapping runs may add.             *)
(***************************************************************************)
\* What a run changed is logged, but for what it has in hand, and a run that
\* sent nothing changed nothing.
HonestOK ==
    \A r \in Runs :
        LET said == NamesOf(run[r].cid, IF run[r].undo THEN "undone" ELSE "applied")
        IN  /\ run[r].pc \in {"idle", "asked", "checked", "planned"} => ~run[r].sent
            /\ run[r].pc = "live" => run[r].touched \subseteq said
            /\ run[r].pc = "live" /\ ~run[r].sent => run[r].touched = {}
            /\ run[r].pc = "landed" =>
                  run[r].sent /\ run[r].touched \subseteq said \cup {run[r].res}
            /\ run[r].pc # "ended" => run[r].exit = 4

ActiveRuns == {r \in Runs : Active(r)}

AtOnceOK == Cardinality(ActiveRuns) <= AtOnce

\* The applies of a day that passed the caps and are not over...
Admitted(d) ==
    {r \in Runs : /\ run[r].pc \in {"planned", "live", "landed"}
                 /\ ~run[r].undo /\ run[r].day = d}

\* ... and the actions they have not logged.
Unlogged(r) ==
    IF run[r].pc = "landed" THEN run[r].todo \cup {run[r].res[2]} ELSE run[r].todo

Owing(d) == {p \in Admitted(d) \X (1 .. Actions) : p[2] \in Unlogged(p[1])}

Claimed(d) ==
    {log[n].cid : n \in AppliedOn(d)} \cup {run[r].cid : r \in Admitted(d)}

\* The caps hold with what is owed counted in.
CapsOK ==
    \A d \in 1 .. MaxDay :
        /\ Cardinality(Claimed(d)) <= AppliesPerDay + AtOnce - 1
        /\ DayCount(d) + Cardinality(Owing(d)) <= ActionsPerDay + (AtOnce - 1) * Actions

CountInv == RunsOK /\ HonestOK /\ ExitsAreHonest /\ AtOnceOK /\ CapsOK
=============================================================================
