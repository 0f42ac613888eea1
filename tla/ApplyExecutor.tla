---------------------------- MODULE ApplyExecutor ----------------------------
(***************************************************************************)
(* apply-changeset.py for one client, as processes that may overlap: the   *)
(* kill switch, the daily caps and the undo list it reads from the audit   *)
(* log, the validate-only pass, and the live loop that changes the account *)
(* and logs each change before the next.  The broker serialises its own    *)
(* runs; a run started by hand, or a container that outlived its shell,    *)
(* shares nothing with them but the log and the account.                   *)
(*                                                                         *)
(* The mutator and the account are external.  An action of a change-set is *)
(* its index; what the mutator creates for it is a criterion, by name.     *)
(* The guards that read neither switch, log nor account (registry, snap-   *)
(* shot, approval, credential, allow list, package pin) are a refusal that *)
(* may happen; MutationRail models the approval.                           *)
(***************************************************************************)
EXTENDS Naturals, Sequences, FiniteSets

CONSTANTS
    Runs,           \* executions of apply-changeset.py, by container
    Cids,           \* change-set ids
    Actions,        \* number of actions in a change-set
    AppliesPerDay,  \* cap applies_per_client_day
    ActionsPerDay,  \* cap actions_per_client_day
    MaxDay,         \* bound: days the calendar advances
    AtOnce,         \* bound: executions at a time
    Reissued,       \* the actions that, repeated, bring back their old name
    None            \* "no criterion", "no run"

ASSUME ExecutorAssumption ==
    /\ Actions \in Nat \ {0}
    /\ AtOnce \in Nat \ {0}
    /\ MaxDay \in Nat \ {0}
    /\ {AppliesPerDay, ActionsPerDay} \subseteq Nat
    /\ Reissued \subseteq 1 .. Actions
    /\ IsFiniteSet(Runs) /\ IsFiniteSet(Cids) /\ Cids # {}

VARIABLES
    enabled,    \* the kill switch file control/mutation-enabled is there
    log,        \* log/<slug>.jsonl, in the order of its lines
    account,    \* criteria in force
    today,      \* the calendar
    run         \* the executions

vars == <<enabled, log, account, today, run>>

-----------------------------------------------------------------------------
(***************************************************************************)
(* Names, records and what is read from the log.                           *)
(***************************************************************************)
\* The criterion run r's mutator creates for action i of change-set c: the
\* account gives it a new name, or the one it always had.
Criterion(c, i, r) == <<c, i, IF i \in Reissued THEN None ELSE r>>

Criteria == Cids \X (1 .. Actions) \X (Runs \cup {None})

ASSUME NoneAssumption == None \notin Runs \cup Criteria

Record == [cid: Cids, res: Criteria, status: {"applied", "undone"},
           day: 1 .. MaxDay]

Lines == DOMAIN log

AppliedOn(d) == {n \in Lines : log[n].status = "applied" /\ log[n].day = d}

\* changeset_lib.day_counts: distinct applied change-sets, applied actions.
Applies(d) == Cardinality({log[n].cid : n \in AppliedOn(d)})

DayCount(d) == Cardinality(AppliedOn(d))

LinesOf(c, status) == {n \in Lines : log[n].cid = c /\ log[n].status = status}

NamesOf(c, status) == {log[n].res : n \in LinesOf(c, status)}

\* Mutant: the undo list is read like the caps, from the lines of the day.
UndoTargetsOfDay(c) ==
    {n \in LinesOf(c, "applied") : log[n].day = today}

\* _undo_targets: the applied lines no "undone" line of the change-set names.
UndoTargets(c) ==
    {n \in LinesOf(c, "applied") : log[n].res \notin NamesOf(c, "undone")}

RunStates == {"idle", "asked", "checked", "planned", "live", "landed",
              "ended", "dead"}

\* The exit status is 4, nothing attested, until a run chooses one.
\* `touched` and `owed` are history: what the run did to the account, and what
\* the log held as applied for its change-set when it read its undo list.
RunRecord == [pc: RunStates, undo: BOOLEAN, cid: Cids, day: 0 .. MaxDay,
              todo: SUBSET Nat, sent: BOOLEAN, res: Criteria \cup {None},
              exit: 0 .. 4,
              owed: SUBSET Criteria, touched: SUBSET Criteria]

FreeRun == [pc |-> "idle", undo |-> FALSE, cid |-> CHOOSE c \in Cids : TRUE,
            day |-> 0, todo |-> {}, sent |-> FALSE, res |-> None,
            exit |-> 4, owed |-> {}, touched |-> {}]

Active(r) == run[r].pc \notin {"idle", "ended", "dead"}

Advance(r, state) == run' = [run EXCEPT ![r].pc = state]

\* What a run remembered goes with it.
Leaves(r, state, code) ==
    run' = [run EXCEPT ![r].pc = state, ![r].exit = code,
                       ![r].day = 0, ![r].todo = {}, ![r].owed = {}]

Exits(r, code) == Leaves(r, "ended", code)

-----------------------------------------------------------------------------
Init ==
    /\ enabled = FALSE
    /\ log = <<>>
    /\ account = {}
    /\ today = 1
    /\ run = [r \in Runs |-> FreeRun]

\* The operator creates the switch file, or removes it.
Switch ==
    /\ enabled' = ~enabled
    /\ UNCHANGED <<log, account, today, run>>

NewDay ==
    /\ today < MaxDay
    /\ today' = today + 1
    /\ UNCHANGED <<enabled, log, account, run>>

\* main: the arguments are parsed and `now` is taken, once for the run.
Start(r) ==
    /\ run[r].pc = "idle"
    /\ Cardinality({q \in Runs : Active(q)}) < AtOnce
    /\ \E c \in Cids, undo \in BOOLEAN :
          run' = [run EXCEPT ![r].pc = "asked", ![r].undo = undo,
                             ![r].cid = c, ![r].day = today]
    /\ UNCHANGED <<enabled, log, account, today>>

\* Guard 1, which an undo passes over.
CheckSwitch(r) ==
    /\ run[r].pc = "asked"
    /\ IF run[r].undo \/ enabled THEN Advance(r, "checked") ELSE Exits(r, 2)
    /\ UNCHANGED <<enabled, log, account, today>>

\* Mutant: the caps are compared without the change-set about to be applied.
WithinCapsSoFar(d) ==
    /\ Applies(d) <= AppliesPerDay
    /\ DayCount(d) <= ActionsPerDay

WithinCaps(d) ==
    /\ Applies(d) + 1 <= AppliesPerDay
    /\ DayCount(d) + Actions <= ActionsPerDay

\* Guard 6: one reading of the log counts the run's day...
PlanApply(r) ==
    /\ run[r].pc = "checked"
    /\ ~run[r].undo
    /\ IF WithinCaps(run[r].day)
         THEN run' = [run EXCEPT ![r].pc = "planned", ![r].todo = 1 .. Actions]
         ELSE Exits(r, 2)
    /\ UNCHANGED <<enabled, log, account, today>>

\* ... or lists what there is to undo.
PlanUndo(r) ==
    /\ run[r].pc = "checked"
    /\ run[r].undo
    /\ IF UndoTargets(run[r].cid) # {}
         THEN run' = [run EXCEPT ![r].pc = "planned",
                                 ![r].todo = UndoTargets(run[r].cid),
                                 ![r].owed = NamesOf(run[r].cid, "applied")]
         ELSE Exits(r, 2)
    /\ UNCHANGED <<enabled, log, account, today>>

\* Any other guard of build_plan, or a validate-only call that fails.
Refuse(r) ==
    /\ run[r].pc \in {"asked", "checked", "planned"}
    /\ Exits(r, 2)
    /\ UNCHANGED <<enabled, log, account, today>>

\* Step 9: every action passed the validate-only call.
Validate(r) ==
    /\ run[r].pc = "planned"
    /\ Advance(r, "live")
    /\ UNCHANGED <<enabled, log, account, today>>

-----------------------------------------------------------------------------
(***************************************************************************)
(* Step 10, the live loop.                                                 *)
(***************************************************************************)
\* The action in hand: a change-set in its order, an undo the latest first.
InHand(r, n) ==
    /\ n \in run[r].todo
    /\ \A m \in run[r].todo : IF run[r].undo THEN m <= n ELSE n <= m

Target(r, n) ==
    IF run[r].undo THEN log[n].res ELSE Criterion(run[r].cid, n, r)

\* The account takes a criterion it has not, and gives up one it has.
Effective(r, c) == run[r].undo <=> c \in account

Changed(r, c) == IF run[r].undo THEN account \ {c} ELSE account \cup {c}

\* The mutator exits 0 and names the criterion.
Land(r) ==
    /\ run[r].pc = "live"
    /\ \E n \in run[r].todo :
          LET c == Target(r, n)
          IN  /\ InHand(r, n)
              /\ Effective(r, c)
              /\ account' = Changed(r, c)
              /\ run' = [run EXCEPT ![r].pc = "landed", ![r].sent = TRUE,
                                    ![r].res = c, ![r].todo = @ \ {n},
                                    ![r].touched = @ \cup {c}]
    /\ UNCHANGED <<enabled, log, today>>

\* A live call that does not succeed, and the exit status of the run: the
\* change may be in force.  `res` keeps what the run had in hand.
CallFails(r, sent, code) ==
    /\ run[r].pc = "live"
    /\ \E n \in run[r].todo, effect \in BOOLEAN :
          LET c == Target(r, n)
          IN  /\ InHand(r, n)
              /\ effect => Effective(r, c)
              /\ account' = IF effect THEN Changed(r, c) ELSE account
              /\ run' = [run EXCEPT ![r].pc = "ended", ![r].exit = code,
                                    ![r].day = 0, ![r].todo = {}, ![r].owed = {},
                                    ![r].sent = sent,
                                    ![r].res = IF effect THEN c ELSE None,
                                    ![r].touched = IF effect THEN @ \cup {c} ELSE @]
    /\ UNCHANGED <<enabled, log, today>>

\* The mutator fails, prints no JSON or an ill-formed name.
MutatorFails(r) == CallFails(r, TRUE, 3)

\* Mutant: any exception is taken for a refusal.
InvokeRefuses(r) == CallFails(r, run[r].sent, 2)

\* _invoke raises: the runner cannot be started, or subprocess.run fails once
\* the child has run (text=True: its output may not decode).  `landed` is set
\* when _invoke has returned, so the first call of a run exits with 2 whatever
\* the child did.
InvokeRaises(r) == CallFails(r, run[r].sent, IF run[r].sent THEN 3 ELSE 2)

\* Anything else raises, between two actions or after the last.
Raises(r) ==
    /\ run[r].pc = "live"
    /\ Exits(r, IF run[r].sent THEN 3 ELSE 2)
    /\ UNCHANGED <<enabled, log, account, today>>

Line(r) == [cid |-> run[r].cid, res |-> run[r].res, day |-> run[r].day,
            status |-> IF run[r].undo THEN "undone" ELSE "applied"]

\* append_log, before the next action.
AppendLog(r) ==
    /\ run[r].pc = "landed"
    /\ log' = Append(log, Line(r))
    /\ run' = [run EXCEPT ![r].pc = "live", ![r].res = None]
    /\ UNCHANGED <<enabled, account, today>>

\* Mutant: a failed write is noted and the loop goes on.
AppendLogSwallows(r) ==
    /\ run[r].pc = "landed"
    /\ run' = [run EXCEPT ![r].pc = "live", ![r].res = None]
    /\ UNCHANGED <<enabled, log, account, today>>

\* It raises, before or after the line reached the file.
AppendLogFails(r) ==
    /\ run[r].pc = "landed"
    /\ log' \in {log, Append(log, Line(r))}
    /\ Exits(r, 3)
    /\ UNCHANGED <<enabled, account, today>>

\* Step 11: nothing is left to do and the run record is printed.
Finish(r) ==
    /\ run[r].pc = "live"
    /\ run[r].todo = {}
    /\ Exits(r, 0)
    /\ UNCHANGED <<enabled, log, account, today>>

\* The container is killed.
Die(r) ==
    /\ Active(r)
    /\ Leaves(r, "dead", 4)
    /\ UNCHANGED <<enabled, log, account, today>>

Execute(r) ==
    \/ Start(r) \/ CheckSwitch(r) \/ PlanApply(r) \/ PlanUndo(r)
    \/ Refuse(r) \/ Validate(r)
    \/ Land(r) \/ MutatorFails(r) \/ InvokeRaises(r) \/ Raises(r)
    \/ AppendLog(r) \/ AppendLogFails(r) \/ Finish(r) \/ Die(r)

Next == Switch \/ NewDay \/ \E r \in Runs : Execute(r)

Spec == Init /\ [][Next]_vars

-----------------------------------------------------------------------------
(***************************************************************************)
(* Properties.                                                             *)
(***************************************************************************)
TypeOK ==
    /\ enabled \in BOOLEAN
    /\ log \in Seq(Record)
    /\ account \subseteq Criteria
    /\ today \in 1 .. MaxDay
    /\ run \in [Runs -> RunRecord]

\* The log stands for criterion c: it was applied, and not undone since.
InForce(c) ==
    \E n \in Lines : /\ log[n].res = c
                     /\ log[n].status = "applied"
                     /\ \A m \in Lines : log[m].res = c => m <= n

\* A run that has c in hand, or had when it died, exited with 3, or with 2 out
\* of its first live call, is the one place left to look for c.
Reported(r, c) == run[r].res = c

\* Run r created c.
Made(r, c) == ~run[r].undo /\ c \in run[r].touched

\* The account gave one name to two creations.
Remade(c) == \E p, q \in Runs : p # q /\ Made(p, c) /\ Made(q, c)

\* The audit log tells what is in force: every criterion on which the log and
\* the account differ is the one a run has in hand, or had in hand when it
\* failed (README.md, "Exit codes": "the audit log holds what applied").  Of a
\* name that was issued twice the log cannot tell which creation a line means,
\* when the runs overlap.
LogTellsTheAccount ==
    \A c \in Criteria :
        \/ c \in account <=> InForce(c)
        \/ \E r \in Runs : Reported(r, c)
        \/ Remade(c)

\* When an undo exits with 0, what its change-set had logged as applied when
\* the undo began is out of force, whatever ran at the same time and before
\* (README.md, "Exit codes": "--undo reverses it"), but for a criterion that was
\* created twice under one name: _undo_targets passes over it when an older
\* "undone" line has the name, and another run may create it again meanwhile.
UndoneInFull ==
    [][\A r \in Runs :
          run[r].undo /\ run[r].exit # 0 /\ run'[r].exit = 0 =>
              \A c \in run[r].owed \cap account' : Remade(c)']_vars

\* Exit 2 is a promise about the account, and exit 0 leaves nothing unlogged
\* (_refuse, PostMutationError).  The promise does not reach the change of a
\* first live call that _invoke did not return from; it covers every other
\* change the run made.
ExitsAreHonest ==
    \A r \in Runs :
        /\ run[r].exit = 2 => ~run[r].sent /\ run[r].touched \subseteq {run[r].res}
        /\ run[r].exit = 0 =>
              run[r].touched \subseteq
                  NamesOf(run[r].cid, IF run[r].undo THEN "undone" ELSE "applied")

\* The daily caps hold up to what the executions that overlap had not logged
\* yet when each of them read the log.
CapsHoldUpToOverlap ==
    \A d \in 1 .. MaxDay :
        /\ Applies(d) <= AppliesPerDay + AtOnce - 1
        /\ DayCount(d) <= ActionsPerDay + (AtOnce - 1) * Actions
=============================================================================
