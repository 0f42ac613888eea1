------------------------- MODULE ApplyExecutorProofs -------------------------
(***************************************************************************)
(* Proofs about ApplyExecutor, for every value of its constants.           *)
(***************************************************************************)
EXTENDS ExecutorInvariant, FiniteSetTheorems, TLAPS

\* What the mutator creates is a criterion.
LEMMA NamesAreCriteria ==
    ASSUME NEW c \in Cids, NEW i \in 1 .. Actions, NEW r \in Runs
    PROVE  Criterion(c, i, r) \in Criteria /\ Criterion(c, i, r) # None
<1>. Criterion(c, i, r) \in Criteria
  BY DEF Criterion, Criteria
<1>. QED
  BY NoneAssumption

\* What the target of the action in hand is.
LEMMA TargetIsCriterion ==
    ASSUME TypeOK, TargetsOK, NEW r \in Runs, NEW n \in run[r].todo
    PROVE  Target(r, n) \in Criteria /\ Target(r, n) # None
<1>1. CASE run[r].undo
  <2>1. log[n] \in Record
    BY <1>1 DEF TypeOK, TargetsOK, Lines
  <2>. QED
    BY <2>1, <1>1, NoneAssumption DEF Target, Record
<1>2. CASE ~run[r].undo
  <2>1. run[r].cid \in Cids /\ n \in 1 .. Actions
    BY <1>2 DEF TypeOK, TargetsOK, RunRecord
  <2>. QED
    BY <2>1, <1>2, NamesAreCriteria DEF Target
<1>. QED
  BY <1>1, <1>2

\* What append_log writes for a landed call is a log record.
LEMMA LineIsRecord ==
    ASSUME TypeOK, HandOK, NEW r \in Runs, run[r].pc = "landed"
    PROVE  Line(r) \in Record
BY DEF TypeOK, HandOK, Active, Line, Record, RunRecord

\* The names read out of the log are criteria.
LEMMA NamesAreLogged ==
    ASSUME TypeOK, NEW c, NEW s
    PROVE  NamesOf(c, s) \subseteq Criteria
<1>1. \A n \in Lines : log[n] \in Record
  BY DEF TypeOK, Lines
<1>2. \A n \in Lines : log[n].res \in Criteria
  BY <1>1 DEF Record
<1>. QED
  BY <1>2 DEF NamesOf, LinesOf

\* The undo list is a set of lines of the log.
LEMMA UndoTargetsAreLines ==
    ASSUME TypeOK, NEW c
    PROVE  UndoTargets(c) \subseteq Nat /\ UndoTargets(c) \subseteq Lines
<1>1. Lines \subseteq Nat
  BY DEF TypeOK, Lines
<1>. QED
  BY <1>1 DEF UndoTargets, LinesOf

\* What a step sets in the record of a run leaves it a run record.
LEMMA SetAsked ==
    ASSUME NEW f \in [Runs -> RunRecord], NEW r \in Runs, NEW p \in RunStates,
           NEW u \in BOOLEAN, NEW c \in Cids, NEW d \in 0 .. MaxDay
    PROVE  [f EXCEPT ![r].pc = p, ![r].undo = u, ![r].cid = c, ![r].day = d]
              \in [Runs -> RunRecord]
<1>. DEFINE g == [f EXCEPT ![r].pc = p, ![r].undo = u]
            h == [g EXCEPT ![r].cid = c, ![r].day = d]
<1>1. g \in [Runs -> RunRecord]
  BY ZenonT(20) DEF RunRecord
<1>2. h \in [Runs -> RunRecord]
  <2>. HIDE DEF g
  <2>. QED
    BY <1>1, ZenonT(20) DEF RunRecord
<1>. QED
  BY <1>2

\* Setting the state of a run.
LEMMA SetState ==
    ASSUME NEW f \in [Runs -> RunRecord], NEW r \in Runs, NEW p \in RunStates
    PROVE  [f EXCEPT ![r].pc = p] \in [Runs -> RunRecord]
BY DEF RunRecord

\* Ending a run with an exit status.
LEMMA SetLeft ==
    ASSUME NEW f \in [Runs -> RunRecord], NEW r \in Runs, NEW p \in RunStates,
           NEW e \in 0 .. 4
    PROVE  [f EXCEPT ![r].pc = p, ![r].exit = e,
                     ![r].day = 0, ![r].todo = {}, ![r].owed = {}]
              \in [Runs -> RunRecord]
<1>. DEFINE g == [f EXCEPT ![r].pc = p, ![r].exit = e]
            h == [g EXCEPT ![r].day = 0, ![r].todo = {}]
<1>0. 0 \in 0 .. MaxDay
  BY ExecutorAssumption
<1>1. g \in [Runs -> RunRecord]
  BY ZenonT(20) DEF RunRecord
<1>2. h \in [Runs -> RunRecord]
  <2>. HIDE DEF g
  <2>. QED
    BY <1>0, <1>1, ZenonT(20) DEF RunRecord
<1>3. [h EXCEPT ![r].owed = {}] \in [Runs -> RunRecord]
  <2>. HIDE DEF h
  <2>. QED
    BY <1>2, ZenonT(20) DEF RunRecord
<1>. QED
  BY <1>3

\* Planning an apply.
LEMMA SetPlan ==
    ASSUME NEW f \in [Runs -> RunRecord], NEW r \in Runs, NEW p \in RunStates,
           NEW t \in SUBSET Nat
    PROVE  [f EXCEPT ![r].pc = p, ![r].todo = t] \in [Runs -> RunRecord]
BY ZenonT(20) DEF RunRecord

\* Planning an undo.
LEMMA SetUndoPlan ==
    ASSUME NEW f \in [Runs -> RunRecord], NEW r \in Runs, NEW p \in RunStates,
           NEW t \in SUBSET Nat, NEW o \in SUBSET Criteria
    PROVE  [f EXCEPT ![r].pc = p, ![r].todo = t, ![r].owed = o]
              \in [Runs -> RunRecord]
<1>. DEFINE g == [f EXCEPT ![r].pc = p, ![r].todo = t]
<1>1. g \in [Runs -> RunRecord]
  BY ZenonT(20) DEF RunRecord
<1>2. [g EXCEPT ![r].owed = o] \in [Runs -> RunRecord]
  <2>. HIDE DEF g
  <2>. QED
    BY <1>1 DEF RunRecord
<1>. QED
  BY <1>2

\* Putting down what was in hand.
LEMMA SetHand ==
    ASSUME NEW f \in [Runs -> RunRecord], NEW r \in Runs, NEW p \in RunStates
    PROVE  [f EXCEPT ![r].pc = p, ![r].res = None] \in [Runs -> RunRecord]
BY ZenonT(20) DEF RunRecord

\* Every step of a run keeps every variable in its type.
LEMMA TypeStep ==
    ASSUME TypeOK, HandOK, TargetsOK, NEW r \in Runs, Execute(r)
    PROVE  TypeOK'
<1>. USE DEF TypeOK
<1>0. /\ run \in [Runs -> RunRecord] /\ today \in 0 .. MaxDay
      /\ 2 \in 0 .. 4 /\ 3 \in 0 .. 4 /\ 0 \in 0 .. 4 /\ 4 \in 0 .. 4
  BY ExecutorAssumption
<1>s. /\ "asked" \in RunStates /\ "checked" \in RunStates /\ "planned" \in RunStates
      /\ "live" \in RunStates /\ "landed" \in RunStates /\ "ended" \in RunStates
      /\ "dead" \in RunStates
  BY DEF RunStates
<1>a. CASE Start(r)
  <2>1. PICK c \in Cids, u \in BOOLEAN :
           run' = [run EXCEPT ![r].pc = "asked", ![r].undo = u,
                              ![r].cid = c, ![r].day = today]
    BY <1>a DEF Start
  <2>2. run' \in [Runs -> RunRecord]
    BY <2>1, <1>0, <1>s, SetAsked
  <2>. QED
    BY <2>2, <1>a DEF Start
<1>b. CASE CheckSwitch(r)
  <2>1. run' = [run EXCEPT ![r].pc = "checked"]
        \/ Leaves(r, "ended", 2)
    BY <1>b DEF CheckSwitch, Advance, Exits
  <2>2. run' \in [Runs -> RunRecord]
    <3>1. CASE run' = [run EXCEPT ![r].pc = "checked"]
      BY <3>1, <1>0, <1>s, SetState
    <3>2. CASE Leaves(r, "ended", 2)
      BY <3>2, <1>0, <1>s, SetLeft DEF Leaves
    <3>. QED
      BY <2>1, <3>1, <3>2
  <2>. QED
    BY <2>2, <1>b DEF CheckSwitch
<1>c. CASE PlanApply(r)
  <2>1. \/ run' = [run EXCEPT ![r].pc = "planned", ![r].todo = 1 .. Actions]
        \/ Leaves(r, "ended", 2)
    BY <1>c DEF PlanApply, Exits
  <2>2. 1 .. Actions \in SUBSET Nat
    OBVIOUS
  <2>3. run' \in [Runs -> RunRecord]
    <3>1. CASE run' = [run EXCEPT ![r].pc = "planned", ![r].todo = 1 .. Actions]
      BY <3>1, <2>2, <1>0, <1>s, SetPlan
    <3>2. CASE Leaves(r, "ended", 2)
      BY <3>2, <1>0, <1>s, SetLeft DEF Leaves
    <3>. QED
      BY <2>1, <3>1, <3>2
  <2>. QED
    BY <2>3, <1>c DEF PlanApply
<1>d. CASE PlanUndo(r)
  <2>1. UndoTargets(run[r].cid) \in SUBSET Nat
    BY UndoTargetsAreLines
  <2>2. NamesOf(run[r].cid, "applied") \in SUBSET Criteria
    BY NamesAreLogged
  <2>3. \/ run' = [run EXCEPT ![r].pc = "planned",
                                 ![r].todo = UndoTargets(run[r].cid),
                                 ![r].owed = NamesOf(run[r].cid, "applied")]
        \/ Leaves(r, "ended", 2)
    BY <1>d DEF PlanUndo, Exits
  <2>4. run' \in [Runs -> RunRecord]
    <3>1. CASE run' = [run EXCEPT ![r].pc = "planned",
                                   ![r].todo = UndoTargets(run[r].cid),
                                   ![r].owed = NamesOf(run[r].cid, "applied")]
      BY <3>1, <2>1, <2>2, <1>0, <1>s, SetUndoPlan
    <3>2. CASE Leaves(r, "ended", 2)
      BY <3>2, <1>0, <1>s, SetLeft DEF Leaves
    <3>. QED
      BY <2>3, <3>1, <3>2
  <2>. QED
    BY <2>4, <1>d DEF PlanUndo
<1>e. CASE Refuse(r)
  BY <1>e, <1>0, <1>s, SetLeft DEF Leaves, Refuse, Exits
<1>f. CASE Validate(r)
  BY <1>f, <1>0, <1>s, SetState DEF Validate, Advance
<1>g. CASE Land(r)
  <2>1. PICK n \in run[r].todo :
           /\ account' = Changed(r, Target(r, n))
           /\ run' = [run EXCEPT ![r].pc = "landed", ![r].sent = TRUE,
                         ![r].res = Target(r, n), ![r].todo = @ \ {n},
                         ![r].touched = @ \cup {Target(r, n)}]
    BY <1>g DEF Land
  <2>2. Target(r, n) \in Criteria
    BY TargetIsCriterion
  <2>. QED
    BY <1>g, <1>0, <1>s, <2>1, <2>2 DEF Land, Changed, RunRecord
<1>h. CASE MutatorFails(r) \/ InvokeRaises(r)
  <2>0. run[r].sent \in BOOLEAN
    BY DEF RunRecord
  <2>1. PICK s \in BOOLEAN, e \in 0 .. 4 : CallFails(r, s, e)
    BY <1>h, <1>0, <2>0 DEF MutatorFails, InvokeRaises
  <2>2. PICK n \in run[r].todo, effect \in BOOLEAN :
           /\ account' = IF effect THEN Changed(r, Target(r, n)) ELSE account
           /\ run' = [run EXCEPT ![r].pc = "ended", ![r].exit = e,
                         ![r].day = 0, ![r].todo = {}, ![r].owed = {},
                         ![r].sent = s,
                         ![r].res = IF effect THEN Target(r, n) ELSE None,
                         ![r].touched = IF effect THEN @ \cup {Target(r, n)} ELSE @]
    BY <2>1 DEF CallFails
  <2>3. PICK c, t : /\ c = IF effect THEN Target(r, n) ELSE None
                    /\ t = IF effect THEN run[r].touched \cup {Target(r, n)}
                                     ELSE run[r].touched
    OBVIOUS
  <2>4. Target(r, n) \in Criteria
    BY TargetIsCriterion
  <2>5. c \in Criteria \cup {None} /\ t \in SUBSET Criteria
    BY <2>3, <2>4, <1>0 DEF RunRecord
  <2>6. run' = [run EXCEPT ![r].pc = "ended", ![r].exit = e,
                           ![r].day = 0, ![r].todo = {}, ![r].owed = {},
                           ![r].sent = s, ![r].res = c, ![r].touched = t]
    BY <2>2, <2>3
  <2>7. run' \in [Runs -> RunRecord]
    <3>1. run \in [Runs -> RunRecord] /\ s \in BOOLEAN /\ e \in 0 .. 4
      BY <1>0, <2>1
    <3>. QED
      BY <2>5, <2>6, <3>1, <1>s DEF RunRecord
  <2>8. account' \subseteq Criteria
    BY <2>2, <2>4 DEF Changed
  <2>. QED
    BY <2>1, <2>7, <2>8 DEF CallFails
<1>i. CASE Raises(r)
  <2>1. PICK e \in 0 .. 4 : Leaves(r, "ended", e)
    BY <1>i, <1>0 DEF Raises, Exits
  <2>. QED
    BY <2>1, <1>i, <1>0, <1>s, SetLeft DEF Leaves, Raises
<1>j. CASE AppendLog(r)
  <2>1. log' \in Seq(Record)
    BY <1>j, LineIsRecord DEF AppendLog
  <2>. QED
    BY <1>j, <1>0, <1>s, <2>1, SetHand DEF AppendLog
<1>k. CASE AppendLogFails(r)
  <2>1. log' \in Seq(Record)
    BY <1>k, LineIsRecord DEF AppendLogFails
  <2>. QED
    BY <1>k, <1>0, <1>s, <2>1, SetLeft DEF Leaves, AppendLogFails, Exits
<1>m. CASE Finish(r)
  BY <1>m, <1>0, <1>s, SetLeft DEF Leaves, Finish, Exits
<1>l. CASE Die(r)
  BY <1>l, <1>0, <1>s, SetLeft DEF Die, Leaves
<1>. QED
  BY <1>a, <1>b, <1>c, <1>d, <1>e, <1>f, <1>g, <1>h, <1>i, <1>j, <1>k, <1>l, <1>m DEF Execute

-----------------------------------------------------------------------------
(***************************************************************************)
(* The steps of a run, by what they do to its record, to the log and to    *)
(* the account.                                                            *)
(***************************************************************************)
\* No other run changes, and run r stays the execution it is.
Same(r) ==
    /\ \A q \in Runs \ {r} : run'[q] = run[q]
    /\ run'[r].undo = run[r].undo
    /\ run'[r].cid = run[r].cid

\* It begins.
Begins(r) ==
    /\ log' = log /\ account' = account
    /\ \A q \in Runs \ {r} : run'[q] = run[q]
    /\ run[r].pc = "idle" /\ run'[r].pc = "asked"
    /\ Cardinality(ActiveRuns) < AtOnce
    /\ run'[r].day = today /\ run'[r].sent = run[r].sent
    /\ run'[r].todo = run[r].todo /\ run'[r].res = run[r].res
    /\ run'[r].owed = run[r].owed
    /\ run'[r].touched = run[r].touched /\ run'[r].exit = run[r].exit

\* It goes on without a call.
Goes(r) ==
    /\ log' = log /\ account' = account
    /\ Same(r)
    /\ \/ run[r].pc = "asked" /\ run'[r].pc = "checked"
       \/ run[r].pc = "planned" /\ run'[r].pc = "live"
    /\ run'[r].day = run[r].day /\ run'[r].sent = run[r].sent
    /\ run'[r].todo = run[r].todo /\ run'[r].res = run[r].res
    /\ run'[r].owed = run[r].owed
    /\ run'[r].touched = run[r].touched /\ run'[r].exit = run[r].exit

\* It passes the caps, or has something to undo.
Plans(r) ==
    /\ log' = log /\ account' = account
    /\ Same(r)
    /\ run[r].pc = "checked" /\ run'[r].pc = "planned"
    /\ ~run[r].undo => WithinCaps(run[r].day)
    /\ run'[r].day = run[r].day /\ run'[r].sent = run[r].sent
    /\ run'[r].todo = IF run[r].undo THEN UndoTargets(run[r].cid) ELSE 1 .. Actions
    /\ run[r].undo => run'[r].owed = NamesOf(run[r].cid, "applied")
    /\ run'[r].res = run[r].res
    /\ run'[r].touched = run[r].touched /\ run'[r].exit = run[r].exit

\* It ends or is killed, with no change and no line.
Stops(r) ==
    /\ log' = log /\ account' = account
    /\ Same(r)
    /\ Active(r) /\ run'[r].pc \in {"ended", "dead"}
    /\ run'[r].todo = {} /\ run'[r].owed = {}
    /\ run'[r].res = run[r].res /\ run'[r].touched = run[r].touched
    /\ run'[r].pc = "dead" => run'[r].exit = 4
    /\ run'[r].exit = 2 =>
          /\ run'[r].sent = run[r].sent
          /\ \/ run[r].pc \in {"asked", "checked", "planned"}
             \/ run[r].pc = "live" /\ ~run[r].sent
    /\ run'[r].exit = 0 => run[r].pc = "live" /\ run[r].todo = {}

\* A live call changes the account.
Acts(r, n) ==
    /\ log' = log /\ account' = Changed(r, Target(r, n))
    /\ Same(r)
    /\ run[r].pc = "live" /\ n \in run[r].todo
    /\ run'[r].res = Target(r, n)
    /\ run'[r].touched = run[r].touched \cup {Target(r, n)}
    /\ \/ /\ run'[r].pc = "landed" /\ run'[r].exit = run[r].exit
          /\ run'[r].day = run[r].day /\ run'[r].owed = run[r].owed
          /\ run'[r].todo = run[r].todo \ {n} /\ run'[r].sent
       \/ /\ run'[r].pc = "ended" /\ run'[r].exit \in {2, 3}
          /\ run'[r].todo = {} /\ run'[r].owed = {}
          /\ run'[r].exit = 2 => ~run[r].sent /\ ~run'[r].sent

\* A line is written, and the run goes on or ends with 3.
Writes(r) ==
    /\ log' = Append(log, Line(r)) /\ account' = account
    /\ Same(r)
    /\ run[r].pc = "landed"
    /\ run'[r].touched = run[r].touched /\ run'[r].sent = run[r].sent
    /\ \/ /\ run'[r].pc = "live" /\ run'[r].exit = run[r].exit
          /\ run'[r].res = None /\ run'[r].day = run[r].day
          /\ run'[r].todo = run[r].todo /\ run'[r].owed = run[r].owed
       \/ /\ run'[r].pc = "ended" /\ run'[r].exit = 3
          /\ run'[r].res = run[r].res
          /\ run'[r].todo = {} /\ run'[r].owed = {}

Quiet(r) == Begins(r) \/ Goes(r) \/ Plans(r) \/ Stops(r)

Kinds(r) == Quiet(r) \/ (\E n \in run[r].todo : Acts(r, n)) \/ Writes(r)

\* What a run that leaves does not change.
LEMMA Leaving ==
    ASSUME TypeOK, NEW r \in Runs, NEW p, NEW e, Leaves(r, p, e)
    PROVE  /\ Same(r)
           /\ run'[r].pc = p /\ run'[r].exit = e /\ run'[r].sent = run[r].sent
           /\ run'[r].todo = {} /\ run'[r].owed = {}
           /\ run'[r].res = run[r].res /\ run'[r].touched = run[r].touched
BY DEF Leaves, Same, TypeOK, RunRecord

\* A failing call changes the account, or the run just stops.
LEMMA FailingCall ==
    ASSUME RunsOK, NEW r \in Runs, NEW s \in BOOLEAN, NEW e \in {2, 3},
           CallFails(r, s, e), e = 2 => ~run[r].sent /\ ~s
    PROVE  Stops(r) \/ \E n \in run[r].todo : Acts(r, n)
<1>0. run \in [Runs -> RunRecord] /\ run[r].res = None
  BY DEF RunsOK, TypeOK, HandOK, CallFails
<1>1. PICK n \in run[r].todo, effect \in BOOLEAN :
         /\ account' = IF effect THEN Changed(r, Target(r, n)) ELSE account
         /\ run' = [run EXCEPT ![r].pc = "ended", ![r].exit = e,
                       ![r].day = 0, ![r].todo = {}, ![r].owed = {},
                       ![r].sent = s,
                       ![r].res = IF effect THEN Target(r, n) ELSE None,
                       ![r].touched = IF effect THEN @ \cup {Target(r, n)} ELSE @]
  BY DEF CallFails
<1>2. /\ Same(r) /\ run'[r].pc = "ended" /\ run'[r].exit = e /\ run'[r].sent = s
      /\ run'[r].todo = {} /\ run'[r].owed = {}
      /\ run'[r].res = IF effect THEN Target(r, n) ELSE None
      /\ run'[r].touched = IF effect THEN run[r].touched \cup {Target(r, n)}
                                     ELSE run[r].touched
  BY <1>0, <1>1 DEF Same, RunRecord
<1>3. run[r].pc = "live" /\ log' = log
  BY DEF CallFails
<1>4. CASE effect
  BY <1>1, <1>2, <1>3, <1>4 DEF Acts
<1>5. CASE ~effect
  BY <1>0, <1>1, <1>2, <1>3, <1>5 DEF Stops, Active, RunRecord
<1>. QED
  BY <1>4, <1>5

\* Every step of a run is one of these.
LEMMA StepKinds ==
    ASSUME RunsOK, NEW r \in Runs, Execute(r)
    PROVE  Kinds(r)
<1>0. run \in [Runs -> RunRecord] /\ TypeOK
  BY DEF RunsOK, TypeOK
<1>a. CASE Start(r)
  <2>1. PICK c, u : run' = [run EXCEPT ![r].pc = "asked", ![r].undo = u,
                                       ![r].cid = c, ![r].day = today]
    BY <1>a DEF Start
  <2>2. Begins(r)
    BY <1>0, <1>a, <2>1 DEF Start, Begins, ActiveRuns, RunRecord
  <2>. QED
    BY <2>2 DEF Kinds, Quiet
<1>b. CASE CheckSwitch(r)
  <2>1. CASE run[r].undo \/ enabled
    BY <1>0, <1>b, <2>1 DEF CheckSwitch, Advance, Kinds, Quiet, Goes, Same, RunRecord
  <2>2. CASE ~(run[r].undo \/ enabled)
    <3>1. Leaves(r, "ended", 2)
      BY <1>b, <2>2 DEF CheckSwitch, Exits
    <3>. QED
      BY <1>0, <1>b, <3>1, Leaving DEF CheckSwitch, Kinds, Quiet, Stops, Active
  <2>. QED
    BY <2>1, <2>2
<1>c. CASE PlanApply(r)
  <2>1. CASE WithinCaps(run[r].day)
    <3>1. run' = [run EXCEPT ![r].pc = "planned", ![r].todo = 1 .. Actions]
      BY <1>c, <2>1 DEF PlanApply
    <3>2. Plans(r)
      BY <1>0, <1>c, <2>1, <3>1 DEF PlanApply, Plans, Same, RunRecord
    <3>. QED
      BY <3>2 DEF Kinds, Quiet
  <2>2. CASE ~WithinCaps(run[r].day)
    <3>1. Leaves(r, "ended", 2)
      BY <1>c, <2>2 DEF PlanApply, Exits
    <3>. QED
      BY <1>0, <1>c, <3>1, Leaving DEF PlanApply, Kinds, Quiet, Stops, Active
  <2>. QED
    BY <2>1, <2>2
<1>d. CASE PlanUndo(r)
  <2>0. PICK t, o : t = UndoTargets(run[r].cid) /\ o = NamesOf(run[r].cid, "applied")
    OBVIOUS
  <2>1. CASE t # {}
    <3>1. run' = [run EXCEPT ![r].pc = "planned", ![r].todo = t, ![r].owed = o]
      BY <1>d, <2>0, <2>1 DEF PlanUndo
    <3>2. run[r].pc = "checked" /\ run[r].undo /\ log' = log /\ account' = account
      BY <1>d DEF PlanUndo
    <3>3. /\ Same(r) /\ run'[r].pc = "planned" /\ run'[r].todo = t /\ run'[r].owed = o
          /\ run'[r].res = run[r].res /\ run'[r].day = run[r].day
          /\ run'[r].sent = run[r].sent
          /\ run'[r].touched = run[r].touched /\ run'[r].exit = run[r].exit
      BY <1>0, <3>1 DEF Same, RunRecord
    <3>4. Plans(r)
      BY <2>0, <3>2, <3>3 DEF Plans
    <3>. QED
      BY <3>4 DEF Kinds, Quiet
  <2>2. CASE t = {}
    <3>1. Leaves(r, "ended", 2)
      BY <1>d, <2>0, <2>2 DEF PlanUndo, Exits
    <3>. QED
      BY <1>0, <1>d, <3>1, Leaving DEF PlanUndo, Kinds, Quiet, Stops, Active
  <2>. QED
    BY <2>1, <2>2
<1>e. CASE Refuse(r)
  BY <1>0, <1>e, Leaving DEF Refuse, Exits, Kinds, Quiet, Stops, Active
<1>f. CASE Validate(r)
  BY <1>0, <1>f DEF Validate, Advance, Kinds, Quiet, Goes, Same, RunRecord
<1>g. CASE Land(r)
  <2>1. PICK n \in run[r].todo :
           /\ account' = Changed(r, Target(r, n))
           /\ run' = [run EXCEPT ![r].pc = "landed", ![r].sent = TRUE,
                         ![r].res = Target(r, n), ![r].todo = @ \ {n},
                         ![r].touched = @ \cup {Target(r, n)}]
    BY <1>g DEF Land
  <2>2. /\ Same(r) /\ run'[r].pc = "landed" /\ run'[r].exit = run[r].exit
        /\ run'[r].day = run[r].day /\ run'[r].owed = run[r].owed
        /\ run'[r].todo = run[r].todo \ {n} /\ run'[r].sent
        /\ run'[r].res = Target(r, n)
        /\ run'[r].touched = run[r].touched \cup {Target(r, n)}
    BY <1>0, <2>1 DEF Same, RunRecord
  <2>3. Acts(r, n)
    BY <1>g, <2>1, <2>2 DEF Land, Acts
  <2>. QED
    BY <2>3 DEF Kinds
<1>h. CASE MutatorFails(r)
  <2>1. Stops(r) \/ \E n \in run[r].todo : Acts(r, n)
    <3>1. CallFails(r, TRUE, 3)
      BY <1>h DEF MutatorFails
    <3>2. 3 \in {2, 3} /\ 3 # 2
      OBVIOUS
    <3>. QED
      BY <3>1, <3>2, FailingCall
  <2>. QED
    BY <2>1 DEF Kinds, Quiet
<1>n. CASE InvokeRaises(r)
  <2>1. PICK s, e : /\ s = run[r].sent
                    /\ e = IF s THEN 3 ELSE 2
    OBVIOUS
  <2>2. s \in BOOLEAN /\ e \in {2, 3} /\ (e = 2 => ~s)
    BY <1>0, <2>1 DEF RunRecord
  <2>3. CallFails(r, s, e)
    BY <1>n, <2>1 DEF InvokeRaises
  <2>4. Stops(r) \/ \E n \in run[r].todo : Acts(r, n)
    BY <2>1, <2>2, <2>3, FailingCall
  <2>. QED
    BY <2>4 DEF Kinds, Quiet
<1>i. CASE Raises(r)
  <2>1. Leaves(r, "ended", IF run[r].sent THEN 3 ELSE 2)
    BY <1>i DEF Raises, Exits
  <2>2. /\ Same(r) /\ run'[r].pc = "ended" /\ run'[r].sent = run[r].sent
        /\ run'[r].exit = IF run[r].sent THEN 3 ELSE 2
        /\ run'[r].todo = {} /\ run'[r].owed = {}
        /\ run'[r].res = run[r].res /\ run'[r].touched = run[r].touched
    BY <1>0, <2>1, Leaving
  <2>. QED
    BY <1>0, <1>i, <2>2 DEF Raises, Kinds, Quiet, Stops, Active
<1>j. CASE AppendLog(r)
  BY <1>0, <1>j DEF AppendLog, Kinds, Writes, Same, RunRecord
<1>k. CASE AppendLogFails(r)
  <2>1. /\ Same(r) /\ run'[r].pc = "ended" /\ run'[r].sent = run[r].sent
        /\ run'[r].exit = 3
        /\ run'[r].todo = {} /\ run'[r].owed = {}
        /\ run'[r].res = run[r].res /\ run'[r].touched = run[r].touched
    BY <1>0, <1>k, Leaving DEF AppendLogFails, Exits
  <2>2. CASE log' = log
    BY <1>k, <2>1, <2>2 DEF AppendLogFails, Kinds, Quiet, Stops, Active
  <2>3. CASE log' = Append(log, Line(r))
    BY <1>k, <2>1, <2>3 DEF AppendLogFails, Kinds, Writes
  <2>. QED
    BY <1>k, <2>2, <2>3 DEF AppendLogFails
<1>m. CASE Finish(r)
  BY <1>0, <1>m, Leaving DEF Finish, Exits, Kinds, Quiet, Stops, Active
<1>l. CASE Die(r)
  BY <1>0, <1>l, Leaving DEF Die, Kinds, Quiet, Stops
<1>. QED
  BY <1>a, <1>b, <1>c, <1>d, <1>e, <1>f, <1>g, <1>h, <1>n, <1>i, <1>j, <1>k, <1>m, <1>l
  DEF Execute

-----------------------------------------------------------------------------
(***************************************************************************)
(* Lines appended to the log.                                              *)
(***************************************************************************)
\* What appending does to the lines of the log.
LEMMA AppendedLine ==
    ASSUME TypeOK, NEW e \in Record, log' = Append(log, e)
    PROVE  \E k \in Nat :
              /\ Lines' = Lines \cup {k} /\ Lines \subseteq Nat
              /\ \A m \in Lines : m < k /\ log'[m] = log[m]
              /\ log'[k] = e
<1>1. log \in Seq(Record) /\ Lines = 1 .. Len(log) /\ Len(log) \in Nat
  BY DEF TypeOK, Lines
<1>2. Lines' = 1 .. (Len(log) + 1)
  BY <1>1 DEF Lines
<1>3. \A m \in Lines : log'[m] = log[m]
  BY <1>1
<1>4. log'[Len(log) + 1] = e
  BY <1>1
<1>. QED
  BY <1>1, <1>2, <1>3, <1>4

\* It says nothing of the other criteria.
LEMMA AppendedInForce ==
    ASSUME TypeOK, NEW e \in Record, log' = Append(log, e)
    PROVE  /\ Logged' = Logged \cup {e.res}
           /\ \A c : c # e.res => (InForce(c)' <=> InForce(c))
<1>1. PICK k \in Nat :
         /\ Lines' = Lines \cup {k} /\ Lines \subseteq Nat
         /\ \A m \in Lines : m < k /\ log'[m] = log[m]
         /\ log'[k] = e
  BY AppendedLine
<1>2. Logged' = Logged \cup {e.res}
  BY <1>1 DEF Logged
<1>3. ASSUME NEW c, c # e.res
      PROVE  InForce(c)' <=> InForce(c)
  BY <1>1, <1>3 DEF InForce
<1>. QED
  BY <1>2, <1>3

\* A step of a run keeps the types and what each run has in hand and before it.
LEMMA RunsStep ==
    ASSUME RunsOK, NEW r \in Runs, Execute(r), Kinds(r)
    PROVE  RunsOK'
<1>1. TypeOK'
  BY TypeStep DEF RunsOK
<1>2. \A q \in Runs \ {r} : run'[q] = run[q]
  BY DEF Kinds, Quiet, Begins, Goes, Plans, Stops, Acts, Writes, Same
<1>3. \A n \in Lines : n \in Lines' /\ log'[n] = log[n]
  <2>1. CASE log' = log
    BY <2>1 DEF Lines
  <2>2. CASE Writes(r)
    <3>1. PICK e : e = Line(r)
      OBVIOUS
    <3>2. e \in Record /\ log' = Append(log, e)
      BY <2>2, <3>1, LineIsRecord DEF RunsOK, Writes
    <3>. QED
      BY <3>2, AppendedLine DEF RunsOK
  <2>. QED
    BY <2>1, <2>2 DEF Kinds, Quiet, Begins, Goes, Plans, Stops, Acts
<1>4. run[r] \in RunRecord
  BY DEF RunsOK, TypeOK
<1>5. HandOK'
  <2>1. run'[r].pc \in {"idle", "asked", "checked", "planned", "live"} => run'[r].res = None
    BY <1>4 DEF Kinds, Quiet, Begins, Goes, Plans, Stops, Acts, Writes, RunsOK, HandOK
  <2>2. run'[r].pc = "landed" => run'[r].res \in Criteria
    BY TargetIsCriterion DEF Kinds, Quiet, Begins, Goes, Plans, Stops, Acts, Writes, RunsOK
  <2>3. run'[r].pc \notin {"planned", "live", "landed"} => run'[r].todo = {}
    BY DEF Kinds, Quiet, Begins, Goes, Plans, Stops, Acts, Writes, RunsOK, HandOK
  <2>4. Active(r)' => run'[r].day > 0
    <3>1. today > 0
      BY ExecutorAssumption DEF RunsOK, TypeOK
    <3>. QED
      BY <3>1 DEF Kinds, Quiet, Begins, Goes, Plans, Stops, Acts, Writes, Active, RunsOK, HandOK
  <2>5. \A q \in Runs : q # r => (Active(q)' <=> Active(q))
    BY <1>2 DEF Active
  <2>. QED
    BY <1>2, <2>1, <2>2, <2>3, <2>4, <2>5 DEF RunsOK, HandOK
<1>6. TargetsOK'
  <2>1. ASSUME NEW q \in Runs, q # r, NEW n \in run'[q].todo
        PROVE  IF run'[q].undo THEN n \in Lines' /\ log'[n].status = "applied" ELSE n \in 1 .. Actions
    BY <1>2, <1>3, <2>1 DEF RunsOK, TargetsOK
  <2>2. ASSUME NEW n \in run'[r].todo
        PROVE  IF run'[r].undo THEN n \in Lines' /\ log'[n].status = "applied" ELSE n \in 1 .. Actions
    <3>1. CASE Begins(r) \/ Stops(r)
      BY <2>2, <3>1 DEF Begins, Stops, RunsOK, HandOK
    <3>2. CASE Plans(r)
      <4>1. \A m \in UndoTargets(run[r].cid) : m \in Lines /\ log[m].status = "applied"
        BY DEF UndoTargets, LinesOf
      <4>. QED
        BY <1>3, <2>2, <3>2, <4>1 DEF Plans, Same
    <3>3. CASE Goes(r) \/ (\E m \in run[r].todo : Acts(r, m)) \/ Writes(r)
      <4>1. n \in run[r].todo /\ run'[r].undo = run[r].undo
        BY <2>2, <3>3 DEF Goes, Acts, Writes, Same
      <4>. QED
        BY <1>3, <4>1 DEF RunsOK, TargetsOK
    <3>. QED
      BY <3>1, <3>2, <3>3 DEF Kinds, Quiet
  <2>. QED
    BY <2>1, <2>2 DEF TargetsOK
<1>7. TouchedOK'
  <2>1. ASSUME run'[r].pc \in {"idle", "asked", "checked", "planned"}
        PROVE  run'[r].touched = {}
    BY <2>1 DEF Kinds, Quiet, Begins, Goes, Plans, Stops, Acts, Writes, RunsOK, TouchedOK
  <2>2. ASSUME ~run'[r].undo
        PROVE  /\ \A c \in run'[r].touched : c[1] = run'[r].cid /\ c[2] \notin run'[r].todo
               /\ run'[r].pc = "landed" => run'[r].res \in run'[r].touched
    <3>1. CASE Begins(r) \/ Plans(r)
      BY <3>1 DEF Begins, Plans, RunsOK, TouchedOK
    <3>2. CASE Goes(r) \/ Stops(r) \/ Writes(r)
      <4>1. /\ ~run[r].undo /\ run'[r].cid = run[r].cid /\ run'[r].pc # "landed"
            /\ run'[r].touched = run[r].touched /\ run'[r].todo \subseteq run[r].todo
        BY <2>2, <3>2 DEF Goes, Stops, Writes, Same
      <4>. QED
        BY <4>1 DEF RunsOK, TouchedOK
    <3>3. ASSUME NEW n \in run[r].todo, Acts(r, n)
          PROVE  /\ \A c \in run'[r].touched : c[1] = run'[r].cid /\ c[2] \notin run'[r].todo
                 /\ run'[r].pc = "landed" => run'[r].res \in run'[r].touched
      <4>1. ~run[r].undo /\ run'[r].cid = run[r].cid
        BY <2>2, <3>3 DEF Acts, Same
      <4>2. Target(r, n)[1] = run[r].cid /\ Target(r, n)[2] = n
        BY <4>1 DEF Target, Criterion
      <4>3. \A c \in run[r].touched : c[1] = run[r].cid /\ c[2] \notin run[r].todo
        BY <4>1 DEF RunsOK, TouchedOK
      <4>4. run'[r].todo \subseteq run[r].todo \ {n}
        BY <3>3 DEF Acts
      <4>5. PICK t : t = Target(r, n)
        OBVIOUS
      <4>6. run'[r].touched = run[r].touched \cup {t} /\ run'[r].res = t
        BY <3>3, <4>5 DEF Acts
      <4>. QED
        BY <4>1, <4>2, <4>3, <4>4, <4>5, <4>6
    <3>. QED
      BY <3>1, <3>2, <3>3 DEF Kinds, Quiet
  <2>. QED
    BY <1>2, <2>1, <2>2 DEF RunsOK, TouchedOK
<1>. QED
  BY <1>1, <1>5, <1>6, <1>7 DEF RunsOK

\* The switch and the calendar change nothing of it.
LEMMA OutsideRuns ==
    ASSUME RunsOK, Switch \/ NewDay \/ UNCHANGED vars
    PROVE  RunsOK'
<1>1. log' = log /\ run' = run /\ account' = account
  BY DEF Switch, NewDay, vars
<1>2. enabled' \in BOOLEAN /\ today' \in 1 .. MaxDay
  <2>1. enabled \in BOOLEAN /\ today \in 1 .. MaxDay /\ MaxDay \in Nat
    BY ExecutorAssumption DEF RunsOK, TypeOK
  <2>2. CASE NewDay
    <3>1. today < MaxDay /\ today' = today + 1 /\ enabled' = enabled
      BY <2>2 DEF NewDay
    <3>. QED
      BY <2>1, <3>1
  <2>3. CASE Switch \/ UNCHANGED vars
    BY <2>1, <2>3 DEF Switch, vars
  <2>. QED
    BY <2>2, <2>3
<1>3. TypeOK'
  BY <1>1, <1>2 DEF RunsOK, TypeOK
<1>4. HandOK' /\ TargetsOK' /\ TouchedOK'
  BY <1>1 DEF RunsOK, HandOK, TargetsOK, TouchedOK, Active, Lines
<1>. QED
  BY <1>3, <1>4 DEF RunsOK

-----------------------------------------------------------------------------
(***************************************************************************)
(* The criteria.                                                           *)
(***************************************************************************)
\* Who created what stays known.
LEMMA MadeStays ==
    ASSUME RunsOK, NEW r \in Runs, Kinds(r)
    PROVE  /\ \A p \in Runs : \A c : Made(p, c) => Made(p, c)'
           /\ \A c : Remade(c) => Remade(c)'
<1>1. \A p \in Runs : \A c : Made(p, c) => Made(p, c)'
  <2>1. \A q \in Runs \ {r} : run'[q] = run[q]
    BY DEF Kinds, Quiet, Begins, Goes, Plans, Stops, Acts, Writes, Same
  <2>2. \/ run[r].touched = {}
        \/ run'[r].undo = run[r].undo /\ run[r].touched \subseteq run'[r].touched
    BY DEF Kinds, Quiet, Begins, Goes, Plans, Stops, Acts, Writes, Same, RunsOK, TouchedOK
  <2>. QED
    BY <2>1, <2>2 DEF Made
<1>. QED
  BY <1>1 DEF Remade

\* An apply that creates what is known already creates it anew.
LEMMA CreatedAnew ==
    ASSUME RunsOK, KnownIsMade, NEW r \in Runs, NEW n \in run[r].todo, Acts(r, n),
           ~run[r].undo, NEW t, t = Target(r, n)
    PROVE  Made(r, t)' /\ (t \in account \cup Logged => Remade(t)')
<1>1. Made(r, t)'
  BY DEF Acts, Same, Made
<1>2. ASSUME t \in account \cup Logged
      PROVE  Remade(t)'
  <2>1. PICK p \in Runs : Made(p, t)
    BY <1>2 DEF KnownIsMade
  <2>2. t[2] = n
    BY DEF Target, Criterion
  <2>3. t \notin run[r].touched
    BY <2>2 DEF RunsOK, TouchedOK
  <2>4. p # r
    BY <2>1, <2>3 DEF Made
  <2>5. Made(p, t)'
    BY <2>1, MadeStays DEF Kinds
  <2>. QED
    BY <1>1, <2>4, <2>5 DEF Remade
<1>. QED
  BY <1>1, <1>2

\* A step with no call and no line keeps what is said of the criteria.
LEMMA QuietKeeps ==
    ASSUME ExecInv, NEW r \in Runs, Quiet(r)
    PROVE  /\ KnownIsMade' /\ FreshOK' /\ GoneOK' /\ OwedOK' /\ LogTellsTheAccount'
<1>1. log' = log /\ account' = account /\ Lines' = Lines /\ Logged' = Logged
  BY DEF Quiet, Begins, Goes, Plans, Stops, Lines, Logged
<1>2. \A q \in Runs : q # r => run'[q] = run[q]
  BY DEF Quiet, Begins, Goes, Plans, Stops, Same
<1>3. /\ \A p \in Runs : \A c : Made(p, c) => Made(p, c)'
      /\ \A c : Remade(c) => Remade(c)'
  BY MadeStays DEF ExecInv, Kinds
<1>4. run'[r].pc # "landed" /\ run'[r].res = run[r].res
  BY DEF Quiet, Begins, Goes, Plans, Stops
<1>5. KnownIsMade'
  BY <1>1, <1>3 DEF ExecInv, KnownIsMade
<1>6. FreshOK'
  BY <1>1, <1>2, <1>3, <1>4 DEF ExecInv, FreshOK
<1>7. GoneOK'
  BY <1>1, <1>2, <1>3, <1>4 DEF ExecInv, GoneOK
<1>8. OwedOK'
  <2>1. ASSUME NEW q \in Runs, q # r
        PROVE  /\ run'[q].pc \notin {"planned", "live", "landed"} => run'[q].owed = {}
               /\ run'[q].undo =>
                     \A c \in run'[q].owed :
                        /\ c \in Logged
                        /\ c \in account => Remade(c)' \/ \E n \in run'[q].todo : log[n].res = c
    BY <1>2, <1>3, <2>1 DEF ExecInv, OwedOK
  <2>2. /\ run'[r].pc \notin {"planned", "live", "landed"} => run'[r].owed = {}
        /\ run'[r].undo =>
              \A c \in run'[r].owed :
                 /\ c \in Logged
                 /\ c \in account => Remade(c)' \/ \E n \in run'[r].todo : log[n].res = c
    <3>1. CASE Begins(r) \/ Stops(r)
      <4>1. run'[r].owed = {}
        BY <3>1 DEF Begins, Stops, ExecInv, OwedOK
      <4>. QED
        BY <4>1
    <3>2. CASE Goes(r)
      <4>1. /\ run'[r].undo = run[r].undo /\ run'[r].owed = run[r].owed
            /\ run'[r].todo = run[r].todo
            /\ run'[r].pc \notin {"planned", "live", "landed"} =>
                  run[r].pc \notin {"planned", "live", "landed"}
        BY <3>2 DEF Goes, Same
      <4>. QED
        BY <1>3, <4>1 DEF ExecInv, OwedOK
    <3>3. CASE Plans(r)
      <4>0. PICK d : d = run[r].cid
        OBVIOUS
      <4>1. /\ run'[r].pc = "planned" /\ run'[r].undo = run[r].undo
            /\ run[r].undo => /\ run'[r].todo = UndoTargets(d)
                              /\ run'[r].owed = NamesOf(d, "applied")
        BY <3>3, <4>0 DEF Plans, Same
      <4>2. ASSUME NEW c \in NamesOf(d, "applied")
            PROVE  /\ c \in Logged
                   /\ c \in account => Remade(c) \/ \E n \in UndoTargets(d) : log[n].res = c
        <5>1. PICK n \in LinesOf(d, "applied") : log[n].res = c
          BY <4>2 DEF NamesOf
        <5>2. n \in Lines
          BY DEF LinesOf
        <5>3. c \in account => Remade(c) \/ c \notin NamesOf(d, "undone")
          BY DEF ExecInv, GoneOK, NamesOf, LinesOf
        <5>. QED
          BY <5>1, <5>2, <5>3 DEF UndoTargets, Logged
      <4>. QED
        BY <1>3, <4>1, <4>2
    <3>. QED
      BY <3>1, <3>2, <3>3 DEF Quiet
  <2>. QED
    BY <2>1, <2>2, <1>1 DEF OwedOK
<1>9. LogTellsTheAccount'
  <2>1. \A c \in Criteria, q \in Runs : Reported(q, c) => Reported(q, c)'
    BY <1>2, <1>4 DEF Reported
  <2>2. \A c : InForce(c)' <=> InForce(c)
    BY <1>1 DEF InForce
  <2>. QED
    BY <1>1, <1>3, <2>1, <2>2 DEF ExecInv, LogTellsTheAccount
<1>. QED
  BY <1>5, <1>6, <1>7, <1>8, <1>9

\* A call that changes the account keeps it.
LEMMA ActKeeps ==
    ASSUME ExecInv, NEW r \in Runs, NEW n \in run[r].todo, Acts(r, n)
    PROVE  /\ KnownIsMade' /\ FreshOK' /\ GoneOK' /\ OwedOK' /\ LogTellsTheAccount'
<1>0. PICK t : t = Target(r, n)
  OBVIOUS
<1>1. log' = log /\ Lines' = Lines /\ Logged' = Logged
  BY DEF Acts, Lines, Logged
<1>2. \A q \in Runs : q # r => run'[q] = run[q]
  BY DEF Acts, Same
<1>3. /\ t \in Criteria /\ t # None
      /\ account' = IF run[r].undo THEN account \ {t} ELSE account \cup {t}
  BY <1>0, TargetIsCriterion DEF ExecInv, RunsOK, Acts, Changed
<1>4. /\ \A p \in Runs : \A c : Made(p, c) => Made(p, c)'
      /\ \A c : Remade(c) => Remade(c)'
  BY MadeStays DEF ExecInv, Kinds
<1>5. ~run[r].undo => Made(r, t)' /\ (t \in account \cup Logged => Remade(t)')
  BY <1>0, CreatedAnew DEF ExecInv
<1>6. run[r].undo => t \in Logged /\ t = log[n].res
  BY <1>0 DEF ExecInv, RunsOK, TargetsOK, Target, Logged
<1>7. /\ run[r].pc = "live" /\ run'[r].res = t /\ run'[r].undo = run[r].undo
      /\ \/ /\ run'[r].pc = "landed" /\ run'[r].owed = run[r].owed
            /\ run'[r].todo = run[r].todo \ {n}
         \/ run'[r].pc = "ended" /\ run'[r].owed = {}
  BY <1>0 DEF Acts, Same
\* What is in force and was not before, was created anew if it was in the log.
<1>8. \A c : c \in Logged /\ c \in account' => c \in account \/ Remade(c)'
  BY <1>3, <1>5
<1>9. KnownIsMade'
  BY <1>1, <1>3, <1>4, <1>5 DEF ExecInv, KnownIsMade
<1>10. FreshOK'
  <2>1. ASSUME NEW q \in Runs, q # r, run'[q].pc = "landed", ~run'[q].undo
        PROVE  Remade(run[q].res)' \/ run'[q].res \in account' \ Logged
    <3>1. Remade(run[q].res) \/ run[q].res \in account \ Logged
      BY <1>2, <2>1 DEF ExecInv, FreshOK
    <3>. QED
      BY <1>2, <1>3, <1>4, <1>6, <2>1, <3>1
  <2>2. run'[r].pc = "landed" /\ ~run'[r].undo =>
           Remade(run[r].res)' \/ run'[r].res \in account' \ Logged
    BY <1>3, <1>5, <1>7
  <2>. QED
    BY <2>1, <2>2, <1>1 DEF FreshOK
<1>11. GoneOK'
  <2>1. ASSUME NEW q \in Runs, run'[q].pc = "landed", run'[q].undo
        PROVE  /\ run'[q].res \in Logged
               /\ Remade(run[q].res)' \/ run'[q].res \notin account'
    <3>1. CASE q = r
      BY <1>3, <1>6, <1>7, <2>1, <3>1
    <3>2. CASE q # r
      <4>1. run[q].res \in Logged /\ (Remade(run[q].res) \/ run[q].res \notin account)
        BY <1>2, <2>1, <3>2 DEF ExecInv, GoneOK
      <4>. QED
        BY <1>2, <1>4, <1>8, <3>2, <4>1
    <3>. QED
      BY <3>1, <3>2
  <2>2. ASSUME NEW m \in Lines, log[m].status = "undone"
        PROVE  Remade(log[m].res)' \/ log[m].res \notin account'
    <3>1. log[m].res \in Logged
      BY DEF Logged
    <3>2. Remade(log[m].res) \/ log[m].res \notin account
      BY <2>2 DEF ExecInv, GoneOK
    <3>. QED
      BY <1>1, <1>4, <1>8, <3>1, <3>2
  <2>. QED
    BY <2>1, <2>2, <1>1 DEF GoneOK
<1>12. OwedOK'
  <2>1. ASSUME NEW q \in Runs, q # r
        PROVE  /\ run'[q].pc \notin {"planned", "live", "landed"} => run'[q].owed = {}
               /\ run'[q].undo =>
                     \A c \in run'[q].owed :
                        /\ c \in Logged
                        /\ c \in account' => Remade(c)' \/ \E m \in run'[q].todo : log[m].res = c
    BY <1>2, <1>4, <1>8, <2>1 DEF ExecInv, OwedOK
  <2>2. ASSUME run'[r].undo, NEW c \in run'[r].owed
        PROVE  /\ c \in Logged
               /\ c \in account' => Remade(c)' \/ \E m \in run'[r].todo : log[m].res = c
    <3>1. run[r].undo /\ c \in run[r].owed /\ run'[r].todo = run[r].todo \ {n}
      BY <1>7, <2>2
    <3>2. /\ c \in Logged
          /\ c \in account => Remade(c) \/ \E m \in run[r].todo : log[m].res = c
      BY <3>1 DEF ExecInv, OwedOK
    <3>3. c \in account' => c \in account /\ c # log[n].res
      BY <3>1, <1>3, <1>6
    <3>. QED
      BY <1>4, <3>1, <3>2, <3>3
  <2>3. run'[r].pc \notin {"planned", "live", "landed"} => run'[r].owed = {}
    BY <1>7
  <2>. QED
    BY <2>1, <2>2, <2>3, <1>1 DEF OwedOK
<1>13. LogTellsTheAccount'
  <2>1. \A c : InForce(c)' <=> InForce(c)
    BY <1>1 DEF InForce
  <2>2. Reported(r, t)'
    BY <1>7 DEF Reported
  <2>3. \A c \in Criteria, q \in Runs : Reported(q, c) => Reported(q, c)'
    <3>1. run[r].res = None
      BY <1>7 DEF ExecInv, RunsOK, HandOK
    <3>. QED
      BY <3>1, <1>2, NoneAssumption DEF Reported
  <2>4. \A c : c # t => (c \in account' <=> c \in account)
    BY <1>3
  <2>. QED
    BY <1>4, <2>1, <2>2, <2>3, <2>4 DEF ExecInv, LogTellsTheAccount
<1>. QED
  BY <1>9, <1>10, <1>11, <1>12, <1>13

\* Writing the line keeps it.
LEMMA LogKeeps ==
    ASSUME ExecInv, NEW r \in Runs, Writes(r)
    PROVE  /\ KnownIsMade' /\ FreshOK' /\ GoneOK' /\ OwedOK' /\ LogTellsTheAccount'
<1>0. PICK t, s : t = run[r].res /\ s = Line(r).status
  OBVIOUS
<1>1. /\ Line(r) \in Record /\ Line(r).res = t
      /\ s = IF run[r].undo THEN "undone" ELSE "applied"
  BY <1>0, LineIsRecord DEF Writes, ExecInv, RunsOK, Line
<1>2. PICK k \in Nat :
         /\ Lines' = Lines \cup {k} /\ Lines \subseteq Nat
         /\ \A m \in Lines : m < k /\ log'[m] = log[m]
         /\ log'[k].res = t /\ log'[k].status = s
  BY <1>0, <1>1, AppendedLine DEF Writes, ExecInv, RunsOK
<1>3. /\ Logged' = Logged \cup {t}
      /\ \A c : c # t => (InForce(c)' <=> InForce(c))
  BY <1>1, AppendedInForce DEF Writes, ExecInv, RunsOK
<1>4. \A c : c = t => (InForce(c)' <=> ~run[r].undo)
  <2>1. \A n \in Lines' : n \in Nat /\ n <= k /\ (k <= n => n = k)
    BY <1>2
  <2>2. k \in Lines'
    BY <1>2
  <2>. QED
    BY <1>1, <1>2, <2>1, <2>2 DEF InForce
<1>5. \A q \in Runs : q # r => run'[q] = run[q]
  BY DEF Writes, Same
<1>6. /\ run[r].pc = "landed" /\ run[r].res = t /\ account' = account
      /\ run'[r].undo = run[r].undo
      /\ \/ /\ run'[r].pc = "live" /\ run'[r].owed = run[r].owed
            /\ run'[r].todo = run[r].todo
         \/ run'[r].pc = "ended" /\ run'[r].owed = {} /\ run'[r].todo = {}
  BY <1>0 DEF Writes, Same
<1>7. /\ \A p \in Runs : \A c : Made(p, c) => Made(p, c)'
      /\ \A c : Remade(c) => Remade(c)'
  BY MadeStays DEF ExecInv, Kinds
<1>8. ~run[r].undo => Made(r, t) /\ (Remade(t) \/ t \in account \ Logged)
  BY <1>6 DEF ExecInv, FreshOK, RunsOK, TouchedOK, Made
<1>9. run[r].undo => t \in Logged /\ (Remade(t) \/ t \notin account)
  BY <1>6 DEF ExecInv, GoneOK
<1>10. KnownIsMade'
  BY <1>3, <1>6, <1>7, <1>8, <1>9 DEF ExecInv, KnownIsMade
<1>11. FreshOK'
  <2>1. SUFFICES ASSUME NEW q \in Runs, run'[q].pc = "landed", ~run'[q].undo
                 PROVE  Remade(run[q].res)' \/ run'[q].res \in account' \ Logged'
    BY DEF FreshOK
  <2>2. q # r /\ run'[q] = run[q]
    BY <1>5, <1>6, <2>1
  <2>3. PICK c : c = run[q].res
    OBVIOUS
  <2>4. Made(q, c) /\ (Remade(c) \/ c \in account \ Logged)
    BY <2>1, <2>2, <2>3 DEF ExecInv, FreshOK, RunsOK, TouchedOK, Made
  <2>5. c = t => Remade(c) \/ Remade(t)
    <3>1. CASE run[r].undo
      BY <1>9, <2>4, <3>1
    <3>2. CASE ~run[r].undo
      <4>1. c = t => Remade(c)
        BY <1>8, <2>2, <2>4, <3>2 DEF Remade
      <4>. QED
        BY <4>1
    <3>. QED
      BY <3>1, <3>2
  <2>. QED
    BY <1>3, <1>6, <1>7, <2>2, <2>3, <2>4, <2>5
<1>12. GoneOK'
  <2>1. ASSUME NEW q \in Runs, run'[q].pc = "landed", run'[q].undo
        PROVE  /\ run'[q].res \in Logged'
               /\ Remade(run[q].res)' \/ run'[q].res \notin account'
    <3>1. q # r /\ run'[q] = run[q]
      BY <1>5, <1>6, <2>1
    <3>2. run[q].res \in Logged /\ (Remade(run[q].res) \/ run[q].res \notin account)
      BY <2>1, <3>1 DEF ExecInv, GoneOK
    <3>. QED
      BY <1>3, <1>6, <1>7, <3>1, <3>2
  <2>2. ASSUME NEW m \in Lines', log'[m].status = "undone"
        PROVE  Remade(log[m].res)' \/ log'[m].res \notin account'
    <3>1. CASE m = k
      <4>1. run[r].undo
        BY <1>1, <1>2, <2>2, <3>1
      <4>. QED
        BY <1>2, <1>6, <1>7, <1>9, <3>1, <4>1
    <3>2. CASE m # k
      <4>1. m \in Lines /\ log'[m] = log[m]
        BY <1>2, <3>2
      <4>2. Remade(log[m].res) \/ log[m].res \notin account
        BY <2>2, <4>1 DEF ExecInv, GoneOK
      <4>. QED
        BY <1>6, <1>7, <4>1, <4>2
    <3>. QED
      BY <3>1, <3>2
  <2>. QED
    BY <2>1, <2>2 DEF GoneOK
<1>13. OwedOK'
  <2>1. \A q \in Runs : \A m \in run[q].todo :
           run[q].undo => log'[m].res = log[m].res
    BY <1>2 DEF ExecInv, RunsOK, TargetsOK
  <2>2. ASSUME NEW q \in Runs, run'[q].undo, NEW c \in run'[q].owed
        PROVE  /\ c \in Logged'
               /\ c \in account' => Remade(c)' \/ \E m \in run'[q].todo : log'[m].res = c
    <3>1. run[q].undo /\ c \in run[q].owed /\ run'[q].todo = run[q].todo
      BY <1>5, <1>6, <2>2
    <3>2. /\ c \in Logged
          /\ c \in account => Remade(c) \/ \E m \in run[q].todo : log[m].res = c
      BY <3>1 DEF ExecInv, OwedOK
    <3>. QED
      BY <1>3, <1>6, <1>7, <2>1, <3>1, <3>2
  <2>3. ASSUME NEW q \in Runs, run'[q].pc \notin {"planned", "live", "landed"}
        PROVE  run'[q].owed = {}
    BY <1>5, <1>6, <2>3 DEF ExecInv, OwedOK
  <2>. QED
    BY <2>2, <2>3 DEF OwedOK
<1>14. LogTellsTheAccount'
  <2>1. \A c \in Criteria : c = t => Remade(c) \/ (c \in account' <=> InForce(c)')
    BY <1>4, <1>6, <1>8, <1>9
  <2>2. \A c \in Criteria, q \in Runs :
           c # t /\ Reported(q, c) => Reported(q, c)'
    BY <1>5, <1>6 DEF Reported
  <2>. QED
    BY <2>1, <2>2, <1>3, <1>6, <1>7 DEF ExecInv, LogTellsTheAccount
<1>. QED
  BY <1>10, <1>11, <1>12, <1>13, <1>14

-----------------------------------------------------------------------------
(***************************************************************************)
(* The invariant about the criteria, and what follows from it.             *)
(***************************************************************************)
\* It holds initially.
LEMMA InitExecInv ==
    ASSUME Init
    PROVE  ExecInv
<1>1. log = <<>> /\ account = {} /\ Lines = {} /\ Logged = {}
  BY DEF Init, Lines, Logged
<1>2. /\ \A r \in Runs : /\ run[r].pc = "idle" /\ run[r].res = None
                         /\ run[r].todo = {} /\ run[r].owed = {}
                         /\ run[r].touched = {}
      /\ TypeOK
  <2>1. (CHOOSE c \in Cids : TRUE) \in Cids
    BY ExecutorAssumption
  <2>2. 0 \in 0 .. MaxDay /\ 1 \in 1 .. MaxDay /\ 4 \in 0 .. 4
    BY ExecutorAssumption
  <2>3. FreeRun \in RunRecord
    BY <2>1, <2>2 DEF FreeRun, RunRecord, RunStates
  <2>4. <<>> \in Seq(Record)
    OBVIOUS
  <2>. QED
    BY <2>2, <2>3, <2>4 DEF Init, TypeOK, FreeRun
<1>3. \A c : ~InForce(c)
  BY <1>1 DEF InForce
<1>4. RunsOK
  BY <1>2 DEF RunsOK, HandOK, TargetsOK, TouchedOK, Active
<1>. QED
  BY <1>1, <1>2, <1>3, <1>4 DEF ExecInv, KnownIsMade, FreshOK, GoneOK, OwedOK,
                                LogTellsTheAccount

\* Every step of a run keeps it.
LEMMA ExecuteKeeps ==
    ASSUME ExecInv, NEW r \in Runs, Execute(r)
    PROVE  ExecInv'
<1>1. Kinds(r)
  BY StepKinds DEF ExecInv
<1>2. RunsOK'
  BY <1>1, RunsStep DEF ExecInv
<1>. QED
  BY <1>1, <1>2, QuietKeeps, ActKeeps, LogKeeps DEF ExecInv, Kinds

\* The switch and the calendar touch nothing it is about.
LEMMA OutsideKeeps ==
    ASSUME ExecInv, Switch \/ NewDay \/ UNCHANGED vars
    PROVE  ExecInv'
<1>1. log' = log /\ account' = account /\ run' = run
  BY DEF Switch, NewDay, vars
<1>2. RunsOK'
  BY OutsideRuns DEF ExecInv
<1>3. Lines' = Lines /\ Logged' = Logged
  BY <1>1 DEF Lines, Logged
<1>4. \A c : /\ Remade(c)' <=> Remade(c)
             /\ InForce(c)' <=> InForce(c)
  BY <1>1, <1>3 DEF Remade, Made, InForce
<1>5. \A r \in Runs : \A c : /\ Reported(r, c)' <=> Reported(r, c)
                             /\ Made(r, c)' <=> Made(r, c)
  BY <1>1 DEF Reported, Made
<1>6. KnownIsMade' /\ LogTellsTheAccount'
  <2>1. KnownIsMade'
    BY <1>1, <1>3, <1>5 DEF ExecInv, KnownIsMade
  <2>2. LogTellsTheAccount'
    <3>1. SUFFICES ASSUME NEW c \in Criteria
                   PROVE  \/ c \in account' <=> InForce(c)'
                          \/ \E r \in Runs : Reported(r, c)'
                          \/ Remade(c)'
      BY DEF LogTellsTheAccount
    <3>2. \/ c \in account <=> InForce(c)
          \/ \E r \in Runs : Reported(r, c)
          \/ Remade(c)
      BY DEF ExecInv, LogTellsTheAccount
    <3>3. InForce(c)' <=> InForce(c)
      BY <1>4
    <3>4. CASE c \in account <=> InForce(c)
      BY <1>1, <3>3, <3>4
    <3>5. CASE \E r \in Runs : Reported(r, c)
      BY <1>5, <3>5
    <3>6. CASE Remade(c)
      BY <1>4, <3>6
    <3>. QED
      BY <3>2, <3>4, <3>5, <3>6
  <2>. QED
    BY <2>1, <2>2
<1>7. FreshOK' /\ GoneOK' /\ OwedOK'
  BY <1>1, <1>3, <1>4 DEF ExecInv, FreshOK, GoneOK, OwedOK
<1>. QED
  BY <1>2, <1>6, <1>7 DEF ExecInv

\* The invariant of ExecutorInvariant about the criteria holds in every
\* reachable state, whatever names the account gives.
THEOREM ExecInvAlways == Spec => []ExecInv
<1>1. Init => ExecInv
  BY InitExecInv
<1>2. ExecInv /\ [Next]_vars => ExecInv'
  BY ExecuteKeeps, OutsideKeeps DEF Next
<1>. QED
  BY <1>1, <1>2, PTL DEF Spec

\* The audit log and the account differ only on a criterion that a run has in
\* hand, or had in hand when it failed, and on one that was created twice under
\* one name: for any number of overlapping runs, change-sets and actions.
THEOREM LogTellsAlways == Spec => []LogTellsTheAccount
<1>1. ExecInv => LogTellsTheAccount
  BY DEF ExecInv
<1>2. Spec => []ExecInv
  BY ExecInvAlways
<1>. QED
  BY <1>1, <1>2, PTL

\* The exit status becomes 0 only in a live run that has nothing left to do, and
\* that step leaves the account as it is.
LEMMA ExitZero ==
    ASSUME ExecInv, [Next]_vars, NEW r \in Runs,
           run[r].exit # 0, run'[r].exit = 0
    PROVE  Stops(r)
<1>1. PICK q \in Runs : Execute(q)
  BY DEF Next, Switch, NewDay, vars
<1>2. Kinds(q)
  BY <1>1, StepKinds DEF ExecInv
<1>3. q = r
  BY <1>2 DEF Kinds, Quiet, Begins, Goes, Plans, Stops, Acts, Writes, Same
<1>. QED
  BY <1>2, <1>3 DEF Kinds, Quiet, Begins, Goes, Plans, Acts, Writes

\* An undo that exits with 0 has taken out of force all it owed, whatever ran
\* before it and beside it, but for what was created twice under one name.
THEOREM UndoneInFullAlways == Spec => UndoneInFull
<1>. DEFINE Step == \A r \in Runs :
               run[r].undo /\ run[r].exit # 0 /\ run'[r].exit = 0 =>
                   \A c \in run[r].owed \cap account' : Remade(c)'
<1>1. ExecInv /\ [Next]_vars => Step
  <2>. SUFFICES ASSUME ExecInv, [Next]_vars, NEW r \in Runs, run[r].undo,
                       run[r].exit # 0, run'[r].exit = 0
                PROVE  \A c \in run[r].owed \cap account' : Remade(c)'
    OBVIOUS
  <2>1. Stops(r)
    BY ExitZero
  <2>2. run[r].todo = {} /\ account' = account
    BY <2>1 DEF Stops
  <2>3. \A c \in run[r].owed \cap account : Remade(c)
    BY <2>2 DEF ExecInv, OwedOK
  <2>4. \A c : Remade(c) => Remade(c)'
    BY <2>1, MadeStays DEF ExecInv, Kinds, Quiet
  <2>. QED
    BY <2>2, <2>3, <2>4
<1>2. Spec => []ExecInv
  BY ExecInvAlways
<1>3. ExecInv /\ [Next]_vars => [Step]_vars
  BY <1>1
<1>. QED
  BY <1>2, <1>3, PTL DEF Spec, UndoneInFull

-----------------------------------------------------------------------------
(***************************************************************************)
(* What the log says only grows.                                           *)
(***************************************************************************)
\* What was logged for a change-set stays logged, and the line of run r is there.
LEMMA NamesGrow ==
    ASSUME TypeOK, HandOK, NEW r \in Runs, run[r].pc = "landed",
           log' = Append(log, Line(r))
    PROVE  /\ \A c, s : NamesOf(c, s) \subseteq NamesOf(c, s)'
           /\ \A c, s : /\ run[r].cid = c
                        /\ s = (IF run[r].undo THEN "undone" ELSE "applied")
                        => run[r].res \in NamesOf(c, s)'
<1>0. PICK e : e = Line(r)
  OBVIOUS
<1>1. e \in Record /\ log' = Append(log, e)
  BY <1>0, LineIsRecord
<1>2. PICK k \in Nat :
         /\ Lines' = Lines \cup {k} /\ Lines \subseteq Nat
         /\ \A m \in Lines : m < k /\ log'[m] = log[m]
         /\ log'[k] = e
  BY <1>1, AppendedLine
<1>3. \A c, s : NamesOf(c, s) \subseteq NamesOf(c, s)'
  BY <1>2 DEF NamesOf, LinesOf
<1>4. e.res = run[r].res /\ e.cid = run[r].cid
      /\ e.status = (IF run[r].undo THEN "undone" ELSE "applied")
  BY <1>0 DEF Line
<1>5. \A c, s : e.cid = c /\ e.status = s => e.res \in NamesOf(c, s)'
  BY <1>2 DEF NamesOf, LinesOf
<1>. QED
  BY <1>3, <1>4, <1>5

-----------------------------------------------------------------------------
(***************************************************************************)
(* The exit statuses.                                                      *)
(***************************************************************************)
\* The part of HonestOK and ExitsAreHonest that is about run r.
HonestRun(r, said) ==
    /\ run[r].pc \in {"idle", "asked", "checked", "planned"} => ~run[r].sent
    /\ run[r].pc = "live" => run[r].touched \subseteq said
    /\ run[r].pc = "live" /\ ~run[r].sent => run[r].touched = {}
    /\ run[r].pc = "landed" =>
          run[r].sent /\ run[r].touched \subseteq said \cup {run[r].res}
    /\ run[r].pc # "ended" => run[r].exit = 4
    /\ run[r].exit = 2 => ~run[r].sent /\ run[r].touched \subseteq {run[r].res}
    /\ run[r].exit = 0 => run[r].touched \subseteq said

Said(r) == NamesOf(run[r].cid, IF run[r].undo THEN "undone" ELSE "applied")

\* Both together, run by run.
LEMMA HonestByRun ==
    (HonestOK /\ ExitsAreHonest) <=> \A r \in Runs : HonestRun(r, Said(r))
BY DEF HonestOK, ExitsAreHonest, HonestRun, Said

\* A step of run r keeps it for a run q.
LEMMA HonestStep ==
    ASSUME RunsOK, NEW r \in Runs, Kinds(r),
           \A q \in Runs : HonestRun(q, Said(q))
    PROVE  \A q \in Runs : HonestRun(q, Said(q))'
<1>0. run[r] \in RunRecord
  BY DEF RunsOK, TypeOK
<1>1. ASSUME NEW q \in Runs, q # r
      PROVE  HonestRun(q, Said(q))'
  <2>1. run'[q] = run[q]
    BY <1>1 DEF Kinds, Quiet, Begins, Goes, Plans, Stops, Acts, Writes, Same
  <2>2. Said(q) \subseteq Said(q)'
    <3>1. CASE log' = log
      BY <2>1, <3>1 DEF Said, NamesOf, LinesOf, Lines
    <3>2. CASE Writes(r)
      <4>1. \A c, s : NamesOf(c, s) \subseteq NamesOf(c, s)'
        BY <3>2, NamesGrow DEF Writes, RunsOK
      <4>. QED
        BY <2>1, <4>1 DEF Said
    <3>. QED
      BY <3>1, <3>2 DEF Kinds, Quiet, Begins, Goes, Plans, Stops, Acts
  <2>3. PICK said : said = Said(q)
    OBVIOUS
  <2>. QED
    BY <2>1, <2>2 DEF HonestRun
<1>2. HonestRun(r, Said(r))'
  <2>1. CASE Begins(r)
    BY <2>1 DEF Begins, HonestRun
  <2>2. CASE Goes(r) \/ Plans(r) \/ Stops(r)
    <3>1. Said(r)' = Said(r)
      BY <2>2 DEF Goes, Plans, Stops, Same, Said, NamesOf, LinesOf, Lines
    <3>2. CASE Goes(r)
      BY <3>1, <3>2 DEF Goes, HonestRun, RunsOK, TouchedOK
    <3>3. CASE Plans(r)
      BY <3>1, <3>3 DEF Plans, HonestRun
    <3>4. CASE Stops(r)
      BY <1>0, <3>1, <3>4 DEF Stops, HonestRun, Active, RunRecord, RunsOK, TouchedOK
    <3>. QED
      BY <2>2, <3>2, <3>3, <3>4
  <2>3. ASSUME NEW n \in run[r].todo, Acts(r, n)
        PROVE  HonestRun(r, Said(r))'
    <3>1. Said(r)' = Said(r)
      BY <2>3 DEF Acts, Same, Said, NamesOf, LinesOf, Lines
    <3>. QED
      BY <2>3, <3>1 DEF Acts, HonestRun
  <2>4. CASE Writes(r)
    <3>1. /\ \A c, s : NamesOf(c, s) \subseteq NamesOf(c, s)'
          /\ \A c, s : /\ run[r].cid = c
                       /\ s = (IF run[r].undo THEN "undone" ELSE "applied")
                       => run[r].res \in NamesOf(c, s)'
      BY <2>4, NamesGrow DEF Writes, RunsOK
    <3>2. Said(r) \subseteq Said(r)' /\ run[r].res \in Said(r)'
      BY <2>4, <3>1 DEF Writes, Same, Said
    <3>3. /\ run[r].touched \subseteq Said(r) \cup {run[r].res}
          /\ run[r].exit = 4 /\ run[r].sent
      BY <2>4 DEF Writes, HonestRun
    <3>. QED
      BY <2>4, <3>2, <3>3 DEF Writes, HonestRun
  <2>. QED
    BY <2>1, <2>2, <2>3, <2>4 DEF Kinds, Quiet
<1>. QED
  BY <1>1, <1>2

-----------------------------------------------------------------------------
(***************************************************************************)
(* The daily caps.                                                         *)
(***************************************************************************)
\* No more runs are active at a time than may be.
LEMMA AtOnceStep ==
    ASSUME AtOnceOK, NEW r \in Runs, Kinds(r)
    PROVE  AtOnceOK'
<1>0. IsFiniteSet(ActiveRuns)
  BY FS_Subset, ExecutorAssumption DEF ActiveRuns
<1>1. \A q \in Runs \ {r} : run'[q] = run[q]
  BY DEF Kinds, Quiet, Begins, Goes, Plans, Stops, Acts, Writes, Same
<1>2. CASE Begins(r)
  <2>1. ActiveRuns' \subseteq ActiveRuns \cup {r}
    BY <1>1 DEF ActiveRuns, Active
  <2>2. IsFiniteSet(ActiveRuns \cup {r}) /\ Cardinality(ActiveRuns \cup {r}) <= AtOnce
    <3>1. Cardinality(ActiveRuns) < AtOnce
      BY <1>2 DEF Begins
    <3>2. /\ IsFiniteSet(ActiveRuns \cup {r})
          /\ \/ Cardinality(ActiveRuns \cup {r}) = Cardinality(ActiveRuns)
             \/ Cardinality(ActiveRuns \cup {r}) = Cardinality(ActiveRuns) + 1
      BY <1>0, FS_AddElement
    <3>3. Cardinality(ActiveRuns) \in Nat /\ AtOnce \in Nat
      BY <1>0, FS_CardinalityType, ExecutorAssumption
    <3>. QED
      BY <3>1, <3>2, <3>3
  <2>3. /\ Cardinality(ActiveRuns') <= Cardinality(ActiveRuns \cup {r})
        /\ Cardinality(ActiveRuns') \in Nat
    BY <2>1, <2>2, FS_Subset, FS_CardinalityType
  <2>. QED
    BY <2>2, <2>3, FS_CardinalityType, ExecutorAssumption DEF AtOnceOK
<1>3. CASE ~Begins(r)
  <2>1. Active(r)
    BY <1>3 DEF Kinds, Quiet, Goes, Plans, Stops, Acts, Writes, Active
  <2>2. ActiveRuns' \subseteq ActiveRuns
    BY <1>1, <2>1 DEF ActiveRuns, Active
  <2>3. /\ Cardinality(ActiveRuns') <= Cardinality(ActiveRuns)
        /\ Cardinality(ActiveRuns') \in Nat /\ Cardinality(ActiveRuns) \in Nat
    BY <1>0, <2>2, FS_Subset, FS_CardinalityType
  <2>. QED
    BY <2>3, ExecutorAssumption DEF AtOnceOK
<1>. QED
  BY <1>2, <1>3

\* What is counted is finite.
LEMMA CountsAreFinite ==
    ASSUME TypeOK, NEW d
    PROVE  /\ IsFiniteSet(Claimed(d)) /\ IsFiniteSet(Owing(d)) /\ IsFiniteSet(AppliedOn(d))
           /\ IsFiniteSet({log[n].cid : n \in AppliedOn(d)})
<1>1. Lines = 1 .. Len(log) /\ Len(log) \in Nat /\ \A n \in Lines : log[n] \in Record
  BY DEF TypeOK, Lines
<1>2. IsFiniteSet(Lines) /\ AppliedOn(d) \subseteq Lines
  BY <1>1, FS_Interval DEF AppliedOn
<1>3. IsFiniteSet(AppliedOn(d))
  BY <1>2, FS_Subset
<1>4. {log[n].cid : n \in AppliedOn(d)} \subseteq Cids
  BY <1>1, <1>2 DEF Record
<1>5. Claimed(d) \subseteq Cids
  BY <1>4 DEF Claimed, Admitted, TypeOK, RunRecord
<1>6. IsFiniteSet(1 .. Actions)
  BY FS_Interval, ExecutorAssumption
<1>7. IsFiniteSet(Runs \X (1 .. Actions))
  BY <1>6, FS_Product, ExecutorAssumption
<1>8. Owing(d) \subseteq Runs \X (1 .. Actions)
  BY DEF Owing, Admitted
<1>9. IsFiniteSet(Owing(d))
  BY <1>7, <1>8, FS_Subset
<1>10. /\ IsFiniteSet(Claimed(d))
       /\ IsFiniteSet({log[n].cid : n \in AppliedOn(d)})
  BY <1>4, <1>5, FS_Subset, ExecutorAssumption
<1>. QED
  BY <1>3, <1>9, <1>10

\* What a step that neither admits a run nor writes a line leaves to be counted.
LEMMA NothingMore ==
    ASSUME RunsOK, NEW r \in Runs, Kinds(r), ~Writes(r), Plans(r) => run[r].undo, NEW d
    PROVE  /\ AppliedOn(d)' = AppliedOn(d)
           /\ Claimed(d)' \subseteq Claimed(d) /\ Owing(d)' \subseteq Owing(d)
<1>1. log' = log /\ \A q \in Runs \ {r} : run'[q] = run[q]
  BY DEF Kinds, Quiet, Begins, Goes, Plans, Stops, Acts, Same
<1>2. AppliedOn(d)' = AppliedOn(d)
  BY <1>1 DEF AppliedOn, Lines
<1>3. r \in Admitted(d)' =>
         /\ r \in Admitted(d) /\ run'[r].cid = run[r].cid
         /\ Unlogged(r)' \subseteq Unlogged(r)
  <2>1. CASE Begins(r) \/ Plans(r) \/ Stops(r)
    BY <2>1 DEF Begins, Plans, Stops, Same, Admitted
  <2>2. CASE Goes(r)
    BY <2>2 DEF Goes, Same, Admitted, Unlogged
  <2>3. ASSUME NEW n \in run[r].todo, Acts(r, n)
        PROVE  r \in Admitted(d)' =>
                  /\ r \in Admitted(d) /\ run'[r].cid = run[r].cid
                  /\ Unlogged(r)' \subseteq Unlogged(r)
    <3>1. SUFFICES ASSUME r \in Admitted(d)'
                   PROVE  /\ r \in Admitted(d) /\ run'[r].cid = run[r].cid
                          /\ Unlogged(r)' \subseteq Unlogged(r)
      OBVIOUS
    <3>2. /\ run[r].pc = "live" /\ ~run[r].undo /\ run'[r].pc = "landed"
          /\ run'[r].todo = run[r].todo \ {n} /\ run'[r].res = Target(r, n)
      BY <2>3, <3>1 DEF Acts, Same, Admitted
    <3>3. Target(r, n)[2] = n
      BY <3>2 DEF Target, Criterion
    <3>4. Unlogged(r)' \subseteq Unlogged(r)
      BY <3>2, <3>3 DEF Unlogged
    <3>. QED
      BY <2>3, <3>1, <3>2, <3>4 DEF Acts, Same, Admitted
  <2>. QED
    BY <2>1, <2>2, <2>3 DEF Kinds, Quiet
<1>4. \A q \in Admitted(d)' :
         /\ q \in Admitted(d) /\ run'[q].cid = run[q].cid
         /\ Unlogged(q)' \subseteq Unlogged(q)
  BY <1>1, <1>3 DEF Admitted, Unlogged
<1>5. Claimed(d)' \subseteq Claimed(d)
  BY <1>1, <1>2, <1>4 DEF Claimed
<1>6. Owing(d)' \subseteq Owing(d)
  BY <1>4 DEF Owing
<1>. QED
  BY <1>2, <1>5, <1>6

\* The line of an apply was claimed and owed on its day, and is owed no more.
LEMMA LineWasOwed ==
    ASSUME RunsOK, NEW r \in Runs, Writes(r), NEW d \in 1 .. MaxDay
    PROVE  /\ Claimed(d)' \subseteq Claimed(d)
           /\ Owing(d)' \subseteq Owing(d)
           /\ \/ DayCount(d)' = DayCount(d)
              \/ /\ DayCount(d)' = DayCount(d) + 1
                 /\ \E p \in Owing(d) : p \notin Owing(d)'
<1>0. PICK e : e = Line(r)
  OBVIOUS
<1>1. e \in Record /\ log' = Append(log, e)
  BY <1>0, LineIsRecord DEF RunsOK, Writes
<1>2. PICK k \in Nat :
         /\ Lines' = Lines \cup {k} /\ Lines \subseteq Nat
         /\ \A m \in Lines : m < k /\ log'[m] = log[m]
         /\ log'[k] = e
  BY <1>1, AppendedLine DEF RunsOK
<1>3. /\ e.cid = run[r].cid /\ e.day = run[r].day
      /\ e.status = "applied" <=> ~run[r].undo
  BY <1>0 DEF Line
<1>4. AppliedOn(d)' = IF e.status = "applied" /\ e.day = d THEN AppliedOn(d) \cup {k}
                                                       ELSE AppliedOn(d)
  <2>1. \A n \in Lines' : n \in Lines \/ n = k
    BY <1>2
  <2>2. \A n \in Lines : n \in AppliedOn(d)' <=> n \in AppliedOn(d)
    BY <1>2 DEF AppliedOn
  <2>3. k \in AppliedOn(d)' <=> e.status = "applied" /\ e.day = d
    BY <1>2 DEF AppliedOn
  <2>4. AppliedOn(d) \subseteq Lines /\ AppliedOn(d)' \subseteq Lines \cup {k}
    BY <2>1 DEF AppliedOn
  <2>5. k \notin AppliedOn(d)
    BY <1>2 DEF AppliedOn
  <2>. QED
    BY <2>2, <2>3, <2>4, <2>5
<1>5. k \notin AppliedOn(d) /\ \A n \in AppliedOn(d) : log'[n] = log[n]
  <2>1. AppliedOn(d) \subseteq Lines
    BY DEF AppliedOn
  <2>2. k \notin Lines
    BY <1>2
  <2>. QED
    BY <1>2, <2>1, <2>2
<1>6. /\ Admitted(d)' \subseteq Admitted(d)
      /\ \A q \in Admitted(d)' : run'[q].cid = run[q].cid /\ Unlogged(q)' \subseteq Unlogged(q)
  BY DEF Writes, Same, Admitted, Unlogged
<1>7. e.status = "applied" /\ e.day = d => r \in Admitted(d)
  BY <1>3 DEF Writes, Admitted
<1>8. Claimed(d)' \subseteq Claimed(d)
  <2>1. ASSUME NEW n \in AppliedOn(d)'
        PROVE  log'[n].cid \in Claimed(d)
    <3>1. CASE n \in AppliedOn(d)
      BY <1>5, <3>1 DEF Claimed
    <3>2. CASE n \notin AppliedOn(d)
      BY <1>2, <1>3, <1>4, <1>7, <3>2 DEF Claimed
    <3>. QED
      BY <3>1, <3>2
  <2>. QED
    BY <1>6, <2>1 DEF Claimed
<1>9. Owing(d)' \subseteq Owing(d)
  BY <1>6 DEF Owing
<1>10. CASE ~(e.status = "applied" /\ e.day = d)
  BY <1>4, <1>8, <1>9, <1>10 DEF DayCount
<1>11. CASE e.status = "applied" /\ e.day = d
  <2>1. IsFiniteSet(AppliedOn(d)) /\ AppliedOn(d)' = AppliedOn(d) \cup {k}
    BY <1>4, <1>11, CountsAreFinite DEF RunsOK
  <2>2. DayCount(d)' = DayCount(d) + 1
    BY <1>5, <2>1, FS_AddElement DEF DayCount
  <2>3. PICK p : p = <<r, run[r].res[2]>>
    OBVIOUS
  <2>4. run[r].pc = "landed" /\ run[r].res \in Criteria /\ ~run[r].undo
    BY <1>3, <1>11 DEF Writes, RunsOK, HandOK
  <2>5. run[r].res[2] \in 1 .. Actions
    BY <2>4 DEF Criteria
  <2>6. run[r].res[2] \notin run[r].todo
    BY <2>4 DEF RunsOK, TouchedOK, Writes
  <2>7. p \in Owing(d)
    BY <1>7, <1>11, <2>3, <2>4, <2>5 DEF Owing, Unlogged
  <2>8. Unlogged(r)' \subseteq run[r].todo
    BY <2>4 DEF Writes, Unlogged
  <2>9. p \notin Owing(d)'
    BY <2>3, <2>6, <2>8 DEF Owing, Admitted, Writes, Unlogged
  <2>. QED
    BY <1>8, <1>9, <2>2, <2>7, <2>9
<1>. QED
  BY <1>10, <1>11

\* A step that admits nothing leaves the room there was.
LEMMA RoomKept ==
    ASSUME RunsOK, CapsOK, NEW r \in Runs, Kinds(r), Plans(r) => run[r].undo,
           NEW d \in 1 .. MaxDay
    PROVE  /\ Cardinality(Claimed(d)') <= AppliesPerDay + AtOnce - 1
           /\ DayCount(d)' + Cardinality(Owing(d)')
                 <= ActionsPerDay + (AtOnce - 1) * Actions
<1>1. /\ Claimed(d)' \subseteq Claimed(d) /\ Owing(d)' \subseteq Owing(d)
      /\ \/ DayCount(d)' = DayCount(d)
         \/ /\ DayCount(d)' = DayCount(d) + 1
            /\ \E p \in Owing(d) : p \notin Owing(d)'
  BY NothingMore, LineWasOwed DEF DayCount
<1>2. /\ IsFiniteSet(Claimed(d)) /\ IsFiniteSet(Owing(d)) /\ IsFiniteSet(AppliedOn(d))
      /\ DayCount(d) \in Nat
  BY CountsAreFinite, FS_CardinalityType DEF RunsOK, DayCount
<1>3. /\ Cardinality(Claimed(d)) <= AppliesPerDay + AtOnce - 1
      /\ DayCount(d) + Cardinality(Owing(d)) <= ActionsPerDay + (AtOnce - 1) * Actions
  BY DEF CapsOK
<1>4. /\ Cardinality(Claimed(d)') <= Cardinality(Claimed(d))
      /\ Cardinality(Claimed(d)') \in Nat /\ Cardinality(Claimed(d)) \in Nat
  BY <1>1, <1>2, FS_Subset, FS_CardinalityType
<1>5. /\ Cardinality(Owing(d)') <= Cardinality(Owing(d))
      /\ Cardinality(Owing(d)') \in Nat /\ Cardinality(Owing(d)) \in Nat
      /\ Cardinality(Owing(d)') = Cardinality(Owing(d)) => Owing(d)' = Owing(d)
  BY <1>1, <1>2, FS_Subset, FS_CardinalityType
<1>6. DayCount(d)' + Cardinality(Owing(d)') <= DayCount(d) + Cardinality(Owing(d))
  BY <1>1, <1>2, <1>5
<1>7. PICK a, b : a = AppliesPerDay + AtOnce - 1
                  /\ b = ActionsPerDay + (AtOnce - 1) * Actions
  OBVIOUS
<1>8. a \in Int /\ b \in Int /\ (DayCount(d)' \in Nat)
  BY <1>1, <1>2, <1>7, ExecutorAssumption
<1>. QED
  BY <1>2, <1>3, <1>4, <1>5, <1>6, <1>7, <1>8

\* Runs are as many as their change-sets or more.
LEMMA FewerChangeSets ==
    ASSUME NEW S, IsFiniteSet(S), NEW f
    PROVE  /\ IsFiniteSet({f[x].cid : x \in S})
           /\ Cardinality({f[x].cid : x \in S}) <= Cardinality(S)
<1>. DEFINE T == {f[x].cid : x \in S}
            g == [x \in S |-> f[x].cid]
<1>1. g \in Surjection(S, T)
  BY DEF Surjection
<1>. QED
  BY <1>1, FS_Surjection

\* A run that is admitted found room for all its change-set, and only those that
\* are active with it can be owing.
LEMMA RoomTaken ==
    ASSUME RunsOK, AtOnceOK', NEW r \in Runs, Plans(r), ~run[r].undo, run' \in [Runs -> RunRecord],
           NEW d, d = run[r].day
    PROVE  /\ Cardinality(Claimed(d)') <= AppliesPerDay + AtOnce - 1
           /\ DayCount(d)' + Cardinality(Owing(d)')
                 <= ActionsPerDay + (AtOnce - 1) * Actions
<1>1. PICK C, A, O, N, M :
         /\ C = {log[n].cid : n \in AppliedOn(d)} /\ A = Admitted(d)' /\ O = Owing(d)'
         /\ N = {run'[q].cid : q \in A} /\ M = Claimed(d)'
  OBVIOUS
<1>2. log' = log /\ WithinCaps(d)
  BY DEF Plans
<1>3. AppliedOn(d)' = AppliedOn(d) /\ M = C \cup N
  BY <1>1, <1>2 DEF AppliedOn, Lines, Claimed
<1>4. A \subseteq ActiveRuns' /\ IsFiniteSet(ActiveRuns')
  BY <1>1, FS_Subset, ExecutorAssumption DEF Admitted, ActiveRuns, Active
<1>5. IsFiniteSet(A) /\ Cardinality(A) \in Nat /\ Cardinality(A) <= AtOnce
  BY <1>4, FS_Subset, FS_CardinalityType, ExecutorAssumption DEF AtOnceOK
<1>6. IsFiniteSet(N) /\ Cardinality(N) <= Cardinality(A)
  BY <1>1, <1>5, FewerChangeSets
<1>7. IsFiniteSet(C) /\ Cardinality(C) + 1 <= AppliesPerDay
  BY <1>1, <1>2, CountsAreFinite DEF RunsOK, WithinCaps, Applies
<1>8. Cardinality(M) <= AppliesPerDay + AtOnce - 1
  <2>1. Cardinality(M) = Cardinality(C) + Cardinality(N) - Cardinality(C \cap N)
    BY <1>3, <1>6, <1>7, FS_Union
  <2>2. IsFiniteSet(C \cap N)
    BY <1>7, FS_Intersection
  <2>3. /\ Cardinality(C) \in Nat /\ Cardinality(N) \in Nat
        /\ Cardinality(C \cap N) \in Nat
    BY <1>6, <1>7, <2>2, FS_CardinalityType
  <2>. QED
    BY <1>5, <1>6, <1>7, <2>1, <2>3, ExecutorAssumption
<1>9. Cardinality(O) \in Nat /\ Cardinality(O) <= AtOnce * Actions
  <2>1. O \subseteq A \X (1 .. Actions)
    BY <1>1 DEF Owing
  <2>2. IsFiniteSet(1 .. Actions) /\ Cardinality(1 .. Actions) = Actions
    BY FS_Interval, ExecutorAssumption, SMTT(20)
  <2>3. /\ IsFiniteSet(A \X (1 .. Actions))
        /\ Cardinality(A \X (1 .. Actions)) = Cardinality(A) * Actions
    BY <1>5, <2>2, FS_Product
  <2>4. /\ Cardinality(O) \in Nat
        /\ Cardinality(O) <= Cardinality(A) * Actions
    BY <2>1, <2>3, FS_Subset, FS_CardinalityType
  <2>5. /\ Cardinality(A) * Actions <= AtOnce * Actions
        /\ Cardinality(A) * Actions \in Nat /\ AtOnce * Actions \in Nat
    BY <1>5, ExecutorAssumption
  <2>. QED
    BY <2>4, <2>5
<1>10. DayCount(d)' + Actions <= ActionsPerDay /\ (DayCount(d)' \in Nat)
  BY <1>2, <1>3, CountsAreFinite, FS_CardinalityType DEF RunsOK, WithinCaps, DayCount
<1>11. /\ (AtOnce - 1) * Actions = AtOnce * Actions - Actions
       /\ AtOnce * Actions \in Nat
  BY ExecutorAssumption
<1>12. DayCount(d)' + Cardinality(O) <= ActionsPerDay + (AtOnce - 1) * Actions
  BY <1>9, <1>10, <1>11, ExecutorAssumption
<1>. QED
  BY <1>1, <1>8, <1>12

\* A step of a run keeps the caps with what is owed.
LEMMA CapsStep ==
    ASSUME RunsOK, CapsOK, AtOnceOK', NEW r \in Runs, Kinds(r), run' \in [Runs -> RunRecord]
    PROVE  CapsOK'
<1>1. SUFFICES ASSUME NEW d \in 1 .. MaxDay
               PROVE  /\ Cardinality(Claimed(d)') <= AppliesPerDay + AtOnce - 1
                      /\ DayCount(d)' + Cardinality(Owing(d)')
                            <= ActionsPerDay + (AtOnce - 1) * Actions
  BY DEF CapsOK
<1>2. CASE Plans(r) => run[r].undo
  BY <1>2, RoomKept
<1>3. CASE Plans(r) /\ ~run[r].undo /\ d = run[r].day
  BY <1>3, RoomTaken
<1>4. CASE Plans(r) /\ ~run[r].undo /\ d # run[r].day
  <2>1. /\ log' = log /\ run'[r].day = run[r].day
        /\ run[r].pc = "checked"
        /\ \A q \in Runs \ {r} : run'[q] = run[q]
    BY <1>4 DEF Plans, Same
  <2>2. Admitted(d)' = Admitted(d) /\ \A q \in Admitted(d) : run'[q] = run[q]
    BY <1>4, <2>1 DEF Admitted
  <2>3. AppliedOn(d)' = AppliedOn(d)
    BY <2>1 DEF AppliedOn, Lines
  <2>4. Claimed(d)' = Claimed(d) /\ DayCount(d)' = DayCount(d)
    BY <2>1, <2>2, <2>3 DEF Claimed, DayCount
  <2>5. Owing(d)' = Owing(d)
    BY <2>2 DEF Owing, Unlogged
  <2>. QED
    BY <2>4, <2>5 DEF CapsOK
<1>. QED
  BY <1>2, <1>3, <1>4

-----------------------------------------------------------------------------
(***************************************************************************)
(* Both, for every reachable state.                                        *)
(***************************************************************************)
\* In the initial states nothing is counted or said.
LEMMA InitCountInv ==
    ASSUME Init
    PROVE  CountInv
<1>1. RunsOK
  BY InitExecInv DEF ExecInv
<1>2. /\ \A r \in Runs : /\ run[r].pc = "idle" /\ run[r].exit = 4
                         /\ run[r].touched = {} /\ ~run[r].sent
      /\ Lines = {}
  BY DEF Init, FreeRun, Lines
<1>3. HonestOK /\ ExitsAreHonest
  BY <1>2 DEF HonestOK, ExitsAreHonest
<1>4. ActiveRuns = {} /\ \A d : AppliedOn(d) = {} /\ Claimed(d) = {} /\ Owing(d) = {}
  BY <1>2 DEF ActiveRuns, Active, AppliedOn, Claimed, Admitted, Owing
<1>5. Cardinality({}) = 0
  BY FS_EmptySet
<1>6. AtOnceOK
  BY <1>4, <1>5, ExecutorAssumption DEF AtOnceOK
<1>7. 0 <= AppliesPerDay + AtOnce - 1 /\ 0 <= ActionsPerDay + (AtOnce - 1) * Actions
  <2>1. AtOnce - 1 \in Nat /\ Actions \in Nat
    BY ExecutorAssumption
  <2>2. (AtOnce - 1) * Actions \in Nat
    BY <2>1
  <2>. QED
    BY <2>1, <2>2, ExecutorAssumption
<1>8. CapsOK
  <2>1. \A d : /\ Cardinality(Claimed(d)) = 0 /\ Cardinality(Owing(d)) = 0
               /\ DayCount(d) = 0
    BY <1>4, <1>5 DEF DayCount
  <2>2. \A d : DayCount(d) + Cardinality(Owing(d)) = 0
    BY <2>1
  <2>. QED
    BY <1>7, <2>1, <2>2 DEF CapsOK
<1>. QED
  BY <1>1, <1>3, <1>6, <1>8 DEF CountInv

\* The switch and the calendar change nothing of it.
LEMMA OutsideCounts ==
    ASSUME CountInv, Switch \/ NewDay \/ UNCHANGED vars
    PROVE  HonestOK' /\ ExitsAreHonest' /\ AtOnceOK' /\ CapsOK'
<1>1. log' = log /\ run' = run
  BY DEF Switch, NewDay, vars
<1>2. /\ \A c, s : NamesOf(c, s)' = NamesOf(c, s)
      /\ \A d : AppliedOn(d)' = AppliedOn(d)
      /\ \A d : Admitted(d)' = Admitted(d)
      /\ \A r \in Runs : Unlogged(r)' = Unlogged(r)
      /\ ActiveRuns' = ActiveRuns
  BY <1>1 DEF NamesOf, LinesOf, Lines, AppliedOn, Admitted, Unlogged, ActiveRuns, Active
<1>3. \A r \in Runs : Said(r)' = Said(r)
  BY <1>1 DEF Said, NamesOf, LinesOf, Lines
<1>4. \A r \in Runs : HonestRun(r, Said(r))'
  BY <1>1, <1>3, HonestByRun DEF CountInv, HonestRun
<1>5. HonestOK' /\ ExitsAreHonest'
  BY <1>4 DEF HonestOK, ExitsAreHonest, HonestRun, Said
<1>6. AtOnceOK'
  BY <1>2 DEF CountInv, AtOnceOK
<1>7. \A d : /\ Claimed(d)' = Claimed(d) /\ Owing(d)' = Owing(d)
             /\ DayCount(d)' = DayCount(d)
  BY <1>1, <1>2 DEF Claimed, Owing, DayCount, Admitted
<1>8. CapsOK'
  BY <1>7 DEF CountInv, CapsOK
<1>. QED
  BY <1>5, <1>6, <1>8

\* Every step keeps it.
LEMMA CountStep ==
    ASSUME CountInv, [Next]_vars
    PROVE  CountInv'
<1>1. CASE Switch \/ NewDay \/ UNCHANGED vars
  BY <1>1, OutsideRuns, OutsideCounts DEF CountInv
<1>2. ASSUME NEW r \in Runs, Execute(r)
      PROVE  CountInv'
  <2>1. RunsOK' /\ Kinds(r)
    BY <1>2, RunsStep, StepKinds DEF CountInv
  <2>2. AtOnceOK'
    BY <2>1, AtOnceStep DEF CountInv
  <2>3. run' \in [Runs -> RunRecord]
    BY <2>1 DEF RunsOK, TypeOK
  <2>4. CapsOK'
    BY <2>1, <2>2, <2>3, CapsStep DEF CountInv
  <2>5. \A q \in Runs : HonestRun(q, Said(q))'
    BY <2>1, HonestByRun, HonestStep DEF CountInv
  <2>6. HonestOK' /\ ExitsAreHonest'
    BY <2>5 DEF HonestOK, ExitsAreHonest, HonestRun, Said
  <2>. QED
    BY <2>1, <2>2, <2>4, <2>6 DEF CountInv
<1>. QED
  BY <1>1, <1>2 DEF Next

\* The invariant holds in every reachable state.
THEOREM CountInvAlways == Spec => []CountInv
<1>1. Init => CountInv
  BY InitCountInv
<1>2. CountInv /\ [Next]_vars => CountInv'
  BY CountStep
<1>. QED
  BY <1>1, <1>2, PTL DEF Spec

\* An execution that exits with 2 changed nothing but, if it raised out of its
\* first live call, what that call did, and one that exits with 0 has every
\* change it made in the log, whatever runs beside it (apply-changeset.py).
THEOREM ExitsAreHonestAlways == Spec => []ExitsAreHonest
<1>1. CountInv => ExitsAreHonest
  BY DEF CountInv
<1>2. Spec => []CountInv
  BY CountInvAlways
<1>. QED
  BY <1>1, <1>2, PTL

\* The daily caps are exceeded by no more than what the executions active at a
\* time can add, for any caps and any number of them (apply-changeset.py, guard 6).
THEOREM CapsHoldAlways == Spec => []CapsHoldUpToOverlap
<1>1. CountInv => CapsHoldUpToOverlap
  <2>. SUFFICES ASSUME CountInv, NEW d \in 1 .. MaxDay
                PROVE  /\ Applies(d) <= AppliesPerDay + AtOnce - 1
                       /\ DayCount(d) <= ActionsPerDay + (AtOnce - 1) * Actions
    BY DEF CapsHoldUpToOverlap
  <2>1. /\ IsFiniteSet(Claimed(d)) /\ Cardinality(Owing(d)) \in Nat
        /\ DayCount(d) \in Nat
    BY CountsAreFinite, FS_CardinalityType DEF CountInv, RunsOK, DayCount
  <2>2. {log[n].cid : n \in AppliedOn(d)} \subseteq Claimed(d)
    BY DEF Claimed
  <2>3. /\ Applies(d) <= Cardinality(Claimed(d))
        /\ Applies(d) \in Nat /\ Cardinality(Claimed(d)) \in Nat
    BY <2>1, <2>2, FS_Subset, FS_CardinalityType DEF Applies
  <2>4. /\ Cardinality(Claimed(d)) <= AppliesPerDay + AtOnce - 1
        /\ DayCount(d) + Cardinality(Owing(d)) <= ActionsPerDay + (AtOnce - 1) * Actions
    BY DEF CountInv, CapsOK
  <2>5. AppliesPerDay + AtOnce - 1 \in Int
        /\ ActionsPerDay + (AtOnce - 1) * Actions \in Int
    BY ExecutorAssumption
  <2>. QED
    BY <2>1, <2>3, <2>4, <2>5
<1>2. Spec => []CountInv
  BY CountInvAlways
<1>. QED
  BY <1>1, <1>2, PTL
=============================================================================
