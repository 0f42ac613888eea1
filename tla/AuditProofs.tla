---------------------------- MODULE AuditProofs ----------------------------
(***************************************************************************)
(* Theorems about ClientAudit, for any set of runs and clients and any     *)
(* number of signals: what is stored is the run's own, what a run is told  *)
(* is true, and what is left when nobody holds the lock is excused.        *)
(*                                                                         *)
(* Every step turns one run, or none: first what a turn is, then which     *)
(* turn each action is, then the parts of AuditInv one by one.             *)
(***************************************************************************)
EXTENDS AuditInvariant, TLAPS

-----------------------------------------------------------------------------
(***************************************************************************)
(* Plans.                                                                  *)
(***************************************************************************)
LEMMA PlanIs ==
    /\ Len(Plan("audit")) = 6 /\ Len(Plan("figures")) = 3
    /\ Len(Plan("egress")) = 2 /\ Len(Plan("env")) = 1
    /\ Plan("audit")[1] = "collect" /\ Plan("audit")[2] = "snapshot" /\ Plan("audit")[3] = "read"
    /\ Plan("audit")[4] = "proxy" /\ Plan("audit")[5] = "draft"
    /\ Plan("audit")[6] = "vault-write"
    /\ Plan("figures")[1] = "collect" /\ Plan("figures")[2] = "read"
    /\ Plan("figures")[3] = "store"
    /\ Plan("egress")[1] = "proxy" /\ Plan("egress")[2] = "draft" /\ Plan("env")[1] = "draft"
<1>1. /\ Plan("audit") = <<"collect", "snapshot", "read", "proxy", "draft", "vault-write">>
      /\ Plan("figures") = <<"collect", "read", "store">>
      /\ Plan("egress") = <<"proxy", "draft">> /\ Plan("env") = <<"draft">>
  BY DEF Plan
<1>. QED
  BY <1>1

\* The step a run is at, by its mode and the position in its plan.
LEMMA CurrentIs ==
    ASSUME NEW r \in Runs, mode[r] \in Modes, step[r] \in 1 .. Len(Plan(mode[r]))
    PROVE  /\ Current(r) \in Steps
           /\ Current(r) = "collect" <=> mode[r] \in Reports /\ step[r] = 1
           /\ Current(r) = "read" <=> \/ mode[r] = "audit" /\ step[r] = 3
                                      \/ mode[r] = "figures" /\ step[r] = 2
           /\ Current(r) = "proxy" <=> \/ mode[r] = "audit" /\ step[r] = 4
                                       \/ mode[r] = "egress" /\ step[r] = 1
           /\ Current(r) = "draft" <=> \/ mode[r] = "audit" /\ step[r] = 5
                                       \/ mode[r] = "egress" /\ step[r] = 2
                                       \/ mode[r] = "env" /\ step[r] = 1
           /\ Current(r) = "vault-write" <=> mode[r] = "audit" /\ step[r] = 6
           /\ Current(r) = "store" <=> mode[r] = "figures" /\ step[r] = 3
<1>1. CASE mode[r] = "audit"
  <2>1. step[r] \in 1 .. 6
    BY <1>1, PlanIs
  <2>. QED
    BY <1>1, <2>1, PlanIs DEF Current, Steps, Reports
<1>2. CASE mode[r] = "figures"
  <2>1. step[r] \in 1 .. 3
    BY <1>2, PlanIs
  <2>. QED
    BY <1>2, <2>1, PlanIs DEF Current, Steps, Reports
<1>3. CASE mode[r] = "egress"
  <2>1. step[r] \in 1 .. 2
    BY <1>3, PlanIs
  <2>. QED
    BY <1>3, <2>1, PlanIs DEF Current, Steps, Reports
<1>4. CASE mode[r] = "env"
  <2>1. step[r] \in 1 .. 1
    BY <1>4, PlanIs
  <2>. QED
    BY <1>4, <2>1, PlanIs DEF Current, Steps, Reports
<1>. QED
  BY <1>1, <1>2, <1>3, <1>4 DEF Modes

-----------------------------------------------------------------------------
(***************************************************************************)
(* Turns.                                                                  *)
(***************************************************************************)
\* Run r gets to s, with this step, verdict and answer; the others stay.
Turn(r, s, n, v, a) ==
    \A q \in Runs :
        /\ pc'[q] = IF q = r THEN s ELSE pc[q]
        /\ step'[q] = IF q = r THEN n ELSE step[q]
        /\ verdict'[q] = IF q = r THEN v ELSE verdict[q]
        /\ answer'[q] = IF q = r THEN a ELSE answer[q]
        /\ mode'[q] = mode[q] /\ client'[q] = client[q]

\* It gets to s and nothing else of it changes.
Moves(r, s) == Turn(r, s, step[r], verdict[r], answer[r])

Closing == {"finally", "cleaning", "stopping", "unmasking", "unlocking"}

Starts(r) ==
    /\ At(r, "idle") /\ pc'[r] = "locking"
    /\ mode'[r] \in Modes /\ (mode'[r] \in Reports <=> client'[r] # None)
    /\ step'[r] = step[r] /\ verdict'[r] = verdict[r] /\ answer'[r] = answer[r]
    /\ \A q \in Runs \ {r} :
         /\ pc'[q] = pc[q] /\ step'[q] = step[q] /\ verdict'[q] = verdict[q]
         /\ answer'[q] = answer[q] /\ mode'[q] = mode[q] /\ client'[q] = client[q]

Declines(r) ==
    /\ pc[r] \in {"idle", "locking"}
    /\ \E a \in {None, "shown", "refused", "busy"} : Turn(r, "over", step[r], verdict[r], a)

Takes(r) == At(r, "locking") /\ Moves(r, "resetting") /\ lock = None /\ lock' = r

Enters(r) == At(r, "resetting") /\ Moves(r, "ready")

Begins(r) == At(r, "ready") /\ Moves(r, "working") /\ step[r] <= Len(Plan(mode[r]))

Waits(r) == At(r, "working") /\ Moves(r, "removing")

Nexts(r) ==
    /\ pc[r] \in {"working", "removing"}
    /\ \E v \in {verdict[r], "failed"} :
         /\ Turn(r, "ready", step[r] + 1, v, answer[r])
         /\ v = verdict[r] \/ mode[r] \in Probes

Concludes(r) ==
    /\ pc[r] \in InBody
    /\ \E v \in Verdicts :
         /\ Turn(r, "finally", step[r], v, answer[r])
         /\ v = "ok" => step[r] > Len(Plan(mode[r]))
         /\ v \in (Steps \ {"vault-write", "store"}) \cup {"isolation"} =>
              /\ mode[r] = "audit" => step[r] < 6 \/ (step[r] = 6 /\ At(r, "ready"))
              /\ mode[r] = "figures" => step[r] < 3 \/ (step[r] = 3 /\ archive[r] = None)

Closes(r) ==
    /\ pc[r] \in Closing \cup {"resetting"}
    /\ \E s \in Closing, v \in {verdict[r], "internal", "term"} :
         Turn(r, s, step[r], v, answer[r]) /\ (s = "cleaning" => mode[r] = "audit")

Unlocks(r) == At(r, "unlocking") /\ Moves(r, "answering") /\ lock' = None

Tells(r) ==
    \/ At(r, "locking") /\ Turn(r, "answering", step[r], "term", answer[r])
    \/ At(r, "answering") /\ Turn(r, "over", step[r], "term", answer[r])
    \/ /\ At(r, "answering")
       /\ \E a \in {None, verdict[r]} : Turn(r, "over", step[r], verdict[r], a)

Dies(r) ==
    /\ pc[r] \notin {"idle", "over", "dead"} /\ Moves(r, "dead")
    /\ lock' = IF lock = r THEN None ELSE lock

Stays == \A q \in Runs :
    /\ pc'[q] = pc[q] /\ step'[q] = step[q] /\ verdict'[q] = verdict[q]
    /\ answer'[q] = answer[q] /\ mode'[q] = mode[q] /\ client'[q] = client[q]

\* Those that leave the lock alone.
Inside(r) ==
    \/ Starts(r) \/ Declines(r) \/ Enters(r) \/ Begins(r) \/ Waits(r) \/ Nexts(r)
    \/ Concludes(r) \/ Closes(r) \/ Tells(r) \/ Stays

Turns(r) == (Inside(r) /\ UNCHANGED lock) \/ Takes(r) \/ Unlocks(r) \/ Dies(r)

RunStep(r) ==
    \/ Start(r) \/ Look(r) \/ Refuse(r) \/ Advance(r) \/ Work(r) \/ Term(r) \/ Kill(r)
    \/ OrphanWrites(r) \/ OrphanEnds(r)

\* The run of a step that has begun has a mode and a place in its plan.
LEMMA InPlan ==
    ASSUME AuditInv, NEW r \in Runs
    PROVE  /\ pc[r] \notin {"idle", "over"} => mode[r] \in Modes
           /\ pc[r] \in {"working", "removing"} => step[r] \in 1 .. Len(Plan(mode[r]))
           /\ pc[r] \notin {"idle", "over"} => step[r] <= Len(Plan(mode[r])) + 1
           /\ step[r] \in Nat /\ step[r] >= 1
<1>1. mode[r] \in Modes \cup {None} /\ (mode[r] = None => pc[r] \in {"idle", "over"})
  BY DEF AuditInv, TypeOK, RunOK, RunIs
<1>2. Len(Plan(mode[r])) \in Nat \ {0} \/ mode[r] \notin Modes
  BY PlanIs DEF Modes
<1>3. step[r] = 1 \/ step[r] \in 1 .. Len(Plan(mode[r])) + 1
  BY DEF AuditInv, TypeOK
<1>4. mode[r] = None => step[r] = 1
  BY DEF AuditInv, RunOK, RunIs
<1>5. pc[r] \in {"working", "removing"} => step[r] <= Len(Plan(mode[r]))
  BY DEF AuditInv, RunOK, RunIs
<1>6. step[r] \in Nat /\ step[r] >= 1
  BY <1>1, <1>2, <1>3, <1>4
<1>. QED
  BY <1>1, <1>2, <1>3, <1>5, <1>6

LEMMA TurnIs == ASSUME AuditInv, NEW r \in Runs, RunStep(r) PROVE Turns(r)
<1>. USE NoneAssumption
<1>0. /\ pc \in [Runs -> States] /\ mode \in [Runs -> Modes \cup {None}]
      /\ client \in [Runs -> Clients \cup {None}] /\ step \in [Runs -> Nat]
      /\ verdict \in [Runs -> Verdicts \cup {None}] /\ answer \in [Runs -> Answers \cup {None}]
      /\ term \in [Runs -> {"none", "held", "done"}]
  BY DEF AuditInv, TypeOK
<1>1. CASE Start(r)
  <2>1. Starts(r)
    BY <1>0, <1>1 DEF Start, Starts, Goto, At, Modes, Probes, Reports
  <2>. QED
    BY <1>1, <2>1 DEF Start, Turns, Inside, hostVars
<1>2. CASE Look(r) \/ Refuse(r) \/ Busy(r)
  <2>1. ASSUME NEW a \in {None, "shown", "refused", "busy"}, Goto(r, "over"),
               answer' = [answer EXCEPT ![r] = a], UNCHANGED <<mode, client, step, verdict>>
        PROVE  Turn(r, "over", step[r], verdict[r], a)
    BY <1>0, <2>1 DEF Turn, Goto
  <2>2. Refuse(r) /\ answer' = answer => answer' = [answer EXCEPT ![r] = None]
    BY <1>0 DEF Refuse, At, AuditInv, RunOK, RunIs
  <2>3. Declines(r)
    BY <1>2, <2>1, <2>2 DEF Look, Refuse, Busy, Declines, At
  <2>. QED
    BY <1>2, <2>3 DEF Look, Refuse, Busy, Turns, Inside, hostVars
<1>3. CASE TakeLock(r)
  BY <1>0, <1>3 DEF TakeLock, Takes, Turns, Moves, Turn, Goto, At
<1>4. CASE Reset(r)
  <2>1. Enters(r)
    BY <1>0, <1>4 DEF Reset, Enters, Moves, Turn, Goto, At
  <2>. QED
    BY <1>4, <2>1 DEF Reset, Turns, Inside
<1>5. CASE Begin(r)
  <2>1. Begins(r)
    BY <1>0, <1>5 DEF Begin, Unchecked, Begins, Moves, Turn, Goto, At
  <2>. QED
    BY <1>5, <2>1 DEF Begin, Turns, Inside, hostVars
<1>6. CASE StepTimesOut(r)
  <2>1. Waits(r)
    BY <1>0, <1>6 DEF StepTimesOut, Waits, Moves, Turn, Goto, At
  <2>. QED
    BY <1>6, <2>1 DEF StepTimesOut, Turns, Inside
<1>7. CASE Unlock(r)
  <2>1. lock = r
    BY <1>7 DEF Unlock, At, AuditInv, LockOK, Holding
  <2>. QED
    BY <1>0, <1>7, <2>1 DEF Unlock, Unlocks, Turns, Moves, Turn, Goto, At
<1>8. CASE Answer(r)
  <2>1. Tells(r)
    BY <1>0, <1>8 DEF Answer, Tells, Turn, Goto, At
  <2>. QED
    BY <1>8, <2>1 DEF Answer, Turns, Inside, hostVars
<1>9. CASE Kill(r)
  BY <1>0, <1>9 DEF Kill, Dies, Turns, Moves, Turn, Goto
<1>10. CASE \/ OrphanWrites(r) \/ OrphanEnds(r) \/ WriteVault(r)
            \/ WriteReport(r) \/ SyncReport(r) \/ LinkReport(r)
  <2>1. Stays
    BY <1>10
       DEF OrphanWrites, OrphanEnds, WriteVault, WriteReport, SyncReport, LinkReport, Stays, runVars
  <2>. QED
    BY <1>10, <2>1
       DEF OrphanWrites, OrphanEnds, WriteVault, WriteReport, SyncReport, LinkReport, Turns, Inside,
           hostVars
<1>11. CASE Mask(r)
  <2>1. mode[r] \in Modes
    BY <1>11, InPlan DEF Mask, At
  <2>2. Closes(r)
    BY <1>0, <1>11, <2>1 DEF Mask, Closes, Closing, Turn, Goto, At, Modes
  <2>. QED
    BY <1>11, <2>2 DEF Mask, Turns, Inside, hostVars
<1>19. CASE ResetRaises(r) \/ RemoveTransient(r) \/ StopProxy(r) \/ Unmask(r)
  <2>1. Closes(r)
    BY <1>0, <1>19
       DEF ResetRaises, RemoveTransient, StopProxy, Unmask, Closes, Closing, Turn, Goto, At
  <2>. QED
    BY <1>19, <2>1
       DEF ResetRaises, RemoveTransient, StopProxy, Unmask, Turns, Inside, hostVars
<1>12. CASE StepDone(r) \/ MeasureEnv(r) \/ MeasureEgress(r) \/ VaultWritten(r) \/ UnlinkTemporary(r)
  <2>1. Nexts(r)
    BY <1>0, <1>12
       DEF StepDone, MeasureEnv, MeasureEgress, VaultWritten, UnlinkTemporary, Nexts, NextStep,
           Measured, Doing, Turn, Goto, At, Probes
  <2>. QED
    BY <1>12, <2>1
       DEF StepDone, MeasureEnv, MeasureEgress, VaultWritten, UnlinkTemporary, Turns, Inside,
           hostVars
<1>13. ASSUME NEW v \in Verdicts, Turn(r, "finally", step[r], v, answer[r]), pc[r] \in InBody, UNCHANGED lock,
              v = "ok" => step[r] > Len(Plan(mode[r])),
              v \in (Steps \ {"vault-write", "store"}) \cup {"isolation"} =>
                /\ mode[r] = "audit" => step[r] < 6 \/ (step[r] = 6 /\ At(r, "ready"))
                /\ mode[r] = "figures" => step[r] < 3 \/ (step[r] = 3 /\ archive[r] = None)
       PROVE  Turns(r)
  BY <1>13 DEF Concludes, Turns, Inside
<1>17. ASSUME NEW v, Ends(r, v) PROVE Turn(r, "finally", step[r], v, answer[r])
  BY <1>0, <1>17 DEF Ends, Turn, Goto
<1>18. ASSUME pc[r] \in {"working", "removing"}, Ends(r, Current(r)), UNCHANGED lock
       PROVE  Turns(r)
  <2>1. mode[r] \in Modes /\ step[r] \in 1 .. Len(Plan(mode[r]))
    BY <1>18, InPlan
  <2>3. /\ mode[r] = "audit" => step[r] \in 1 .. 6
        /\ mode[r] = "figures" => step[r] \in 1 .. 3
    BY <2>1, PlanIs
  <2>4. /\ Current(r) \in Steps
        /\ Current(r) = "vault-write" <=> mode[r] = "audit" /\ step[r] = 6
        /\ Current(r) = "store" <=> mode[r] = "figures" /\ step[r] = 3
    BY <2>1, CurrentIs
  <2>2. /\ Current(r) \in Steps
        /\ Current(r) \notin {"vault-write", "store"} =>
             (mode[r] = "audit" => step[r] < 6) /\ (mode[r] = "figures" => step[r] < 3)
    BY <2>3, <2>4
  <2>. QED
    BY <2>2, <1>13, <1>17, <1>18 DEF InBody, Verdicts, Steps
<1>14. CASE CollectorsFailed(r) \/ DraftNamesOther(r) \/ Raises(r) \/ Finish(r) \/ StepFails(r)
            \/ StoreRefuses(r)
  <2>1. CASE CollectorsFailed(r)
    <3>1. step[r] = 2 /\ Ends(r, "collect") /\ UNCHANGED lock /\ pc[r] \in InBody
      BY <2>1 DEF CollectorsFailed, Collected, Unchecked, At, InBody, hostVars
    <3>. QED
      BY <3>1, <1>13, <1>17 DEF Verdicts, Steps
  <2>2. CASE DraftNamesOther(r)
    <3>1. /\ step[r] <= Len(Plan(mode[r])) /\ Current(r) = "vault-write" /\ At(r, "ready")
          /\ Ends(r, "isolation") /\ UNCHANGED lock
      BY <2>2 DEF DraftNamesOther, Unchecked, hostVars
    <3>2. mode[r] = "audit" /\ step[r] = 6
      BY <3>1, InPlan, CurrentIs, PlanIs DEF At, Modes
    <3>. QED
      BY <3>1, <3>2, <1>13, <1>17 DEF Verdicts, At, InBody
  <2>3. CASE Raises(r)
    BY <2>3, <1>13, <1>17 DEF Raises, Verdicts, Steps, At, InBody, hostVars
  <2>4. CASE Finish(r)
    <3>1. verdict[r] \in {None, "failed"}
      BY <2>4 DEF Finish, At, AuditInv, RunOK, RunIs, InBody
    <3>. QED
      BY <2>4, <3>1, <1>13, <1>17 DEF Finish, Verdicts, Steps, At, InBody, hostVars
  <2>5. CASE StepFails(r)
    <3>1. Ends(r, Current(r)) /\ UNCHANGED lock /\ At(r, "working")
      BY <2>5 DEF StepFails
    <3>. QED
      BY <3>1, <1>18 DEF At
  <2>6. CASE StoreRefuses(r)
    <3>1. /\ Ends(r, "isolation") /\ UNCHANGED lock /\ At(r, "working") /\ archive[r] = None
          /\ Current(r) = "store"
      BY <2>6 DEF StoreRefuses, Doing, hostVars
    <3>. QED
      BY <3>1, InPlan, CurrentIs, <1>13, <1>17 DEF At, InBody, Verdicts, Steps
  <2>. QED
    BY <1>14, <2>1, <2>2, <2>3, <2>4, <2>5, <2>6
<1>15. CASE RemoveNamed(r)
  <2>1. CASE mode[r] \in Probes
    <3>1. Nexts(r)
      BY <1>0, <1>15, <2>1 DEF RemoveNamed, Nexts, NextStep, Measured, Turn, Goto, At
    <3>. QED
      BY <1>15, <3>1 DEF RemoveNamed, Turns, Inside
  <2>2. CASE mode[r] \notin Probes
    <3>1. Ends(r, Current(r)) /\ UNCHANGED lock /\ At(r, "removing")
      BY <1>15, <2>2 DEF RemoveNamed
    <3>. QED
      BY <3>1, <1>18 DEF At
  <2>. QED
    BY <2>1, <2>2
<1>16. CASE Term(r)
  <2>1. CASE pc[r] \in {"cleaning", "stopping", "unmasking"}
    <3>1. Stays
      BY <1>0, <1>16, <2>1 DEF Term, Stays
    <3>. QED
      BY <1>16, <3>1 DEF Term, Turns, Inside
  <2>2. CASE pc[r] \notin {"cleaning", "stopping", "unmasking"}
    <3>1. /\ verdict' = [verdict EXCEPT ![r] = "term"]
          /\ UNCHANGED <<mode, client, step, answer, lock>>
          /\ Goto(r, CASE At(r, "locking") -> "answering"
                       [] At(r, "resetting") -> IF mode[r] \in Probes THEN "finally" ELSE "unlocking"
                       [] pc[r] \in {"ready", "working", "removing"} -> "finally"
                       [] pc[r] \in {"finally", "unlocking"} -> "unlocking"
                       [] At(r, "answering") -> "over")
          /\ pc[r] \notin {"idle", "over", "dead"}
      BY <1>16, <2>2 DEF Term
    <3>2. CASE pc[r] \in {"locking", "answering"}
      <4>0. /\ At(r, "locking") => Goto(r, "answering")
            /\ At(r, "answering") => Goto(r, "over")
        BY <3>1, <3>2 DEF At
      <4>1. Tells(r)
        BY <1>0, <3>1, <3>2, <4>0 DEF Tells, Turn, Goto, At
      <4>. QED
        BY <3>1, <4>1 DEF Turns, Inside
    <3>3. CASE pc[r] \in {"resetting", "finally", "unlocking"}
      <4>1. Closes(r)
        BY <1>0, <3>1, <3>3 DEF Closes, Closing, Turn, Goto, At
      <4>. QED
        BY <3>1, <4>1 DEF Turns, Inside
    <3>4. CASE pc[r] \in InBody
      <4>1. Goto(r, "finally")
        BY <3>1, <3>4 DEF At, InBody
      <4>2. Turn(r, "finally", step[r], "term", answer[r])
        BY <1>0, <3>1, <4>1 DEF Turn, Goto
      <4>. QED
        BY <3>1, <3>4, <4>2, <1>13 DEF Verdicts, Steps
    <3>. QED
      BY <1>0, <2>2, <3>1, <3>2, <3>3, <3>4 DEF States, InBody
  <2>. QED
    BY <2>1, <2>2
<1>. QED
  BY <1>1, <1>2, <1>3, <1>4, <1>5, <1>6, <1>7, <1>8, <1>9, <1>10, <1>11, <1>12, <1>14, <1>15, <1>16, <1>19
     DEF RunStep, Advance, Work

-----------------------------------------------------------------------------
(***************************************************************************)
(* The lock and the runs.                                                  *)
(***************************************************************************)
LEMMA LockKept == ASSUME AuditInv, NEW r \in Runs, Turns(r) PROVE LockOK'
<1>. USE NoneAssumption DEF Holding, InBody, Closing, At
<1>0. \A q \in Runs : pc[q] \in Holding <=> lock = q
  BY DEF AuditInv, LockOK
<1>1. CASE Inside(r) /\ UNCHANGED lock
  <2>1. \A q \in Runs : pc'[q] \in Holding <=> pc[q] \in Holding
    BY <1>1 DEF Inside, Starts, Declines, Enters, Begins, Waits, Nexts, Concludes, Closes, Tells,
                Stays, Moves, Turn
  <2>. QED
    BY <1>0, <1>1, <2>1 DEF LockOK
<1>2. CASE Takes(r)
  BY <1>0, <1>2 DEF LockOK, Takes, Moves, Turn
<1>3. CASE Unlocks(r)
  BY <1>0, <1>3 DEF LockOK, Unlocks, Moves, Turn
<1>4. CASE Dies(r)
  BY <1>0, <1>4 DEF LockOK, Dies, Moves, Turn
<1>. QED
  BY <1>1, <1>2, <1>3, <1>4 DEF Turns

LEMMA RunKept == ASSUME AuditInv, NEW r \in Runs, Turns(r) PROVE RunOK'
<1>. USE NoneAssumption DEF InBody, Closing, At, Early
<1>0. RunIs(r) /\ \A q \in Runs : RunIs(q)
  BY DEF AuditInv, RunOK
<1>1. /\ pc[r] \notin {"idle", "over"} => mode[r] \in Modes /\ step[r] <= Len(Plan(mode[r])) + 1
      /\ step[r] \in Nat /\ step[r] >= 1
      /\ pc[r] \in {"working", "removing"} => step[r] <= Len(Plan(mode[r]))
  BY InPlan DEF AuditInv, RunOK, RunIs
<1>2. None \notin {"ok", "failed", "internal", "term", "shown", "refused", "busy"} /\ None \notin Modes
  BY DEF Answers, Verdicts
<1>3. Len(Plan(mode[r])) \in Nat \/ mode[r] \notin Modes
  BY PlanIs DEF Modes
<1>4. ASSUME NEW q \in Runs, q # r PROVE RunIs(q)'
  <2>1. /\ pc'[q] = pc[q] /\ step'[q] = step[q] /\ verdict'[q] = verdict[q]
        /\ answer'[q] = answer[q] /\ mode'[q] = mode[q] /\ client'[q] = client[q]
    BY <1>4 DEF Turns, Inside, Starts, Declines, Takes, Enters, Begins, Waits, Nexts, Concludes,
                Closes, Unlocks, Tells, Dies, Stays, Moves, Turn
  <2>. QED
    BY <1>0, <2>1 DEF RunIs
<1>5. RunIs(r)'
  <2>1. CASE Starts(r)
    BY <1>0, <1>2, <2>1 DEF RunIs, Starts, Reports, Modes
  <2>2. CASE Declines(r)
    BY <1>0, <1>2, <2>2 DEF RunIs, Declines, Turn
  <2>3. CASE Takes(r) \/ Enters(r) \/ Begins(r) \/ Waits(r) \/ Unlocks(r) \/ Dies(r)
    BY <1>0, <1>1, <1>2, <2>3 DEF RunIs, Takes, Enters, Begins, Waits, Unlocks, Dies, Moves, Turn
  <2>4. CASE Nexts(r)
    BY <1>0, <1>1, <1>2, <2>4 DEF RunIs, Nexts, Turn
  <2>5. CASE Concludes(r)
    BY <1>0, <1>1, <1>2, <1>3, <2>5 DEF RunIs, Concludes, Turn
  <2>6. CASE Closes(r)
    BY <1>0, <1>1, <1>2, <2>6 DEF RunIs, Closes, Turn
  <2>7. CASE Tells(r)
    BY <1>0, <1>1, <1>2, <2>7 DEF RunIs, Tells, Turn
  <2>8. CASE Stays
    BY <1>0, <2>8 DEF RunIs, Stays
  <2>. QED
    BY <2>1, <2>2, <2>3, <2>4, <2>5, <2>6, <2>7, <2>8 DEF Turns, Inside
<1>. QED
  BY <1>4, <1>5 DEF RunOK

-----------------------------------------------------------------------------
(***************************************************************************)
(* The directories.                                                        *)
(***************************************************************************)
DataTyped == data \in [Clients -> [by : SUBSET Runs, bad : BOOLEAN]]
ReportsTyped == reports \in [Clients -> Content]
TransientTyped == transient \in [Clients -> Content \cup {None}]
DirsTyped == DataTyped /\ ReportsTyped /\ TransientTyped

\* What r writes in step s, in its client's directories and nowhere else.
DirsBy(r, s) ==
    \A d \in Clients :
        /\ \/ data'[d].by = data[d].by
           \/ d = client[r] /\ s = "collect" /\ data'[d].by = data[d].by \cup {r}
        /\ \/ reports'[d] = reports[d]
           \/ /\ d = client[r] /\ s = "read"
              /\ reports'[d].by = reports[d].by \cup data[d].by \cup {r}
        /\ \/ transient'[d] = transient[d]
           \/ /\ d = client[r] /\ s = "draft"
              /\ transient'[d] \in Content /\ transient'[d].by = reports[d].by \cup {r}

LEMMA WrittenBy ==
    ASSUME DirsTyped, NEW r \in Runs, client[r] \in Clients, NEW s, NEW names \in BOOLEAN,
           Wrote(r, s, names)
    PROVE  /\ DirsTyped' /\ DirsBy(r, s)
           /\ s = "read" => r \in reports'[client[r]].by
<1>. DEFINE c == client[r]
            rep == [by |-> reports[c].by \cup data[c].by \cup {r}, names |-> reports[c].names \/ names]
            dra == [by |-> reports[c].by \cup {r}, names |-> reports[c].names \/ names]
            dat == [data[c] EXCEPT !.by = @ \cup {r}]
<1>1. /\ data[c] \in [by : SUBSET Runs, bad : BOOLEAN] /\ reports[c] \in Content
      /\ reports[c].by \subseteq Runs /\ reports[c].names \in BOOLEAN /\ data[c].by \subseteq Runs
  BY DEF DirsTyped, DataTyped, ReportsTyped, Content
<1>2. rep \in Content /\ dra \in Content /\ rep.by = reports[c].by \cup data[c].by \cup {r}
      /\ dra.by = reports[c].by \cup {r}
  BY <1>1 DEF Content
<1>3. dat \in [by : SUBSET Runs, bad : BOOLEAN] /\ dat.by = data[c].by \cup {r}
  BY <1>1
<1>4. /\ data' = IF s = "collect" THEN [data EXCEPT ![c] = dat] ELSE data
      /\ reports' = IF s # "read" THEN reports ELSE [reports EXCEPT ![c] = rep]
      /\ transient' = IF s # "draft" THEN transient ELSE [transient EXCEPT ![c] = dra]
  BY DEF Wrote
<1>. HIDE DEF rep, dra, dat
<1>5. DataTyped' /\ \A d \in Clients : data'[d] = IF s = "collect" /\ d = c THEN dat ELSE data[d]
  BY <1>3, <1>4 DEF DirsTyped, DataTyped
<1>6. ReportsTyped' /\ \A d \in Clients : reports'[d] = IF s = "read" /\ d = c THEN rep ELSE reports[d]
  BY <1>2, <1>4 DEF DirsTyped, ReportsTyped
<1>7. /\ TransientTyped'
      /\ \A d \in Clients : transient'[d] = IF s = "draft" /\ d = c THEN dra ELSE transient[d]
  BY <1>2, <1>4 DEF DirsTyped, TransientTyped
<1>8. DirsBy(r, s)
  BY <1>2, <1>3, <1>5, <1>6, <1>7 DEF DirsBy
<1>. QED
  BY <1>2, <1>5, <1>6, <1>7, <1>8 DEF DirsTyped

\* Who writes is a run with a client that is at that step, or its container.
LEMMA HasClient ==
    ASSUME AuditInv, NEW r \in Runs, mode[r] \in Reports
    PROVE  client[r] \in Clients
BY DEF AuditInv, TypeOK, RunOK, RunIs

LEMMA StepWrites ==
    ASSUME AuditInv, NEW r \in Runs, StepDone(r) \/ StepFails(r)
    PROVE  /\ DirsTyped' /\ DirsBy(r, Current(r)) /\ mode[r] \in Reports
           /\ StepDone(r) /\ Current(r) = "read" => r \in reports'[client[r]].by
<1>0. DirsTyped
  BY DEF AuditInv, TypeOK, DirsTyped, DataTyped, ReportsTyped, TransientTyped
<1>1. mode[r] \in Modes /\ mode[r] \notin Probes /\ mode[r] \in Reports
  BY InPlan DEF StepDone, StepFails, At, Modes, Probes, Reports
<1>2. client[r] \in Clients
  BY <1>1, HasClient
<1>3. CASE \E names \in BOOLEAN : Wrote(r, Current(r), names)
  BY <1>0, <1>1, <1>2, <1>3, WrittenBy
<1>4. CASE UNCHANGED dirVars /\ StepFails(r) /\ ~StepDone(r)
  BY <1>0, <1>1, <1>4 DEF dirVars, DirsTyped, DataTyped, ReportsTyped, TransientTyped, DirsBy
<1>5. CASE /\ Current(r) = "collect" /\ UNCHANGED <<reports, transient>>
           /\ data' = [data EXCEPT ![client[r]] = [by |-> @.by \cup {r}, bad |-> TRUE]]
  <2>1. data[client[r]].by \subseteq Runs
    BY <1>0, <1>2 DEF DirsTyped, DataTyped
  <2>2. [by |-> data[client[r]].by \cup {r}, bad |-> TRUE] \in [by : SUBSET Runs, bad : BOOLEAN]
    BY <2>1
  <2>3. /\ DataTyped' /\ \A d \in Clients :
           data'[d] = IF d = client[r] THEN [by |-> data[d].by \cup {r}, bad |-> TRUE] ELSE data[d]
    BY <1>0, <1>2, <1>5, <2>2 DEF DirsTyped, DataTyped
  <2>4. DirsBy(r, Current(r))
    BY <1>5, <2>3 DEF DirsBy
  <2>. QED
    BY <1>0, <1>1, <1>5, <2>3, <2>4 DEF DirsTyped, ReportsTyped, TransientTyped
<1>6. StepDone(r) /\ StepFails(r) => FALSE
  <2>1. StepDone(r) => pc'[r] = "ready"
    BY DEF StepDone, NextStep, Goto, AuditInv, TypeOK
  <2>2. StepFails(r) => pc'[r] = "finally"
    BY DEF StepFails, Ends, Goto, AuditInv, TypeOK
  <2>. QED
    BY <2>1, <2>2
<1>. QED
  BY <1>3, <1>4, <1>5, <1>6 DEF StepDone, StepFails

LEMMA OrphanWrote ==
    ASSUME AuditInv, NEW r \in Runs, OrphanWrites(r)
    PROVE  DirsTyped' /\ DirsBy(r, orphan[r]) /\ mode[r] \in Reports /\ client[r] \in Clients
<1>1. DirsTyped /\ mode[r] \in Reports
  BY DEF AuditInv, TypeOK, DirsTyped, DataTyped, ReportsTyped, TransientTyped, OrphanWrites,
         OrphanOK
<1>2. client[r] \in Clients
  BY <1>1, HasClient
<1>. QED
  BY <1>1, <1>2, WrittenBy DEF OrphanWrites

LEMMA ResetFrame ==
    ASSUME AuditInv, NEW r \in Runs, Reset(r), mode[r] \in Reports
    PROVE  /\ DirsTyped' /\ client[r] \in Clients
           /\ \A d \in Clients :
                /\ data'[d].by = IF d = client[r] THEN {} ELSE data[d].by
                /\ reports'[d].by = IF d = client[r] THEN {} ELSE reports[d].by
                /\ transient'[d] = IF d = client[r] /\ mode[r] = "audit" THEN None ELSE transient[d]
           /\ orphan' \in [Runs -> Containers \cup {None}]
           /\ \A q \in Runs :
                orphan'[q] = IF /\ client[q] = client[r]
                                /\ orphan[q] \in {"collect", "read"}
                                     \cup (IF mode[r] = "audit" THEN {"draft"} ELSE {})
                             THEN None ELSE orphan[q]
           /\ excused' = IF mode[r] = "audit" THEN excused \ {client[r]} ELSE excused
<1>1. client[r] \in Clients
  BY HasClient
<1>2. DirsTyped /\ orphan \in [Runs -> Containers \cup {None}]
  BY DEF AuditInv, TypeOK, DirsTyped, DataTyped, ReportsTyped, TransientTyped
<1>3. /\ data' = [data EXCEPT ![client[r]] = [by |-> {}, bad |-> FALSE]]
      /\ reports' = [reports EXCEPT ![client[r]] = Nothing]
      /\ mode[r] = "audit" =>
           /\ transient' = [transient EXCEPT ![client[r]] = None]
           /\ orphan' = Survivors(client[r], Containers)
           /\ excused' = excused \ {client[r]}
      /\ mode[r] # "audit" =>
           orphan' = Survivors(client[r], {"collect", "read"}) /\ UNCHANGED <<transient, excused>>
  BY DEF Reset, Reports, Probes
<1>4. Nothing \in Content /\ Nothing.by = {}
  BY DEF Nothing, Content
<1>5. DataTyped' /\ \A d \in Clients : data'[d].by = IF d = client[r] THEN {} ELSE data[d].by
  BY <1>1, <1>2, <1>3 DEF DirsTyped, DataTyped
<1>6. ReportsTyped' /\ \A d \in Clients : reports'[d].by = IF d = client[r] THEN {} ELSE reports[d].by
  BY <1>1, <1>2, <1>3, <1>4 DEF DirsTyped, ReportsTyped
<1>7. /\ TransientTyped'
      /\ \A d \in Clients :
           transient'[d] = IF d = client[r] /\ mode[r] = "audit" THEN None ELSE transient[d]
  BY <1>1, <1>2, <1>3 DEF DirsTyped, TransientTyped
<1>8. /\ orphan' \in [Runs -> Containers \cup {None}]
      /\ \A q \in Runs :
           orphan'[q] = IF /\ client[q] = client[r]
                           /\ orphan[q] \in {"collect", "read"}
                                \cup (IF mode[r] = "audit" THEN {"draft"} ELSE {})
                        THEN None ELSE orphan[q]
  BY <1>2, <1>3 DEF Survivors, Containers
<1>. QED
  BY <1>1, <1>3, <1>5, <1>6, <1>7, <1>8 DEF DirsTyped

\* What the finally clause does to the transient draft.
LEMMA RemoveFrame ==
    ASSUME AuditInv, NEW r \in Runs, RemoveTransient(r)
    PROVE  /\ DirsTyped' /\ UNCHANGED <<data, reports>>
           /\ \A d \in Clients : transient'[d] \in {None, transient[d]}
           /\ client[r] \in Clients => transient'[client[r]] = None \/ client[r] \in excused'
           /\ excused \subseteq excused' /\ excused' \subseteq excused \cup {client[r]}
<1>1. DirsTyped
  BY DEF AuditInv, TypeOK, DirsTyped, DataTyped, ReportsTyped, TransientTyped
<1>. QED
  BY <1>1 DEF RemoveTransient, DirsTyped, DataTyped, ReportsTyped, TransientTyped

\* Nothing else touches the directories.
LEMMA DirsKept ==
    ASSUME AuditInv, NEW r \in Runs, RunStep(r)
    PROVE  \/ UNCHANGED dirVars
           \/ Reset(r) /\ mode[r] \in Reports
           \/ StepDone(r) \/ StepFails(r) \/ OrphanWrites(r) \/ RemoveTransient(r)
<1>1. Reset(r) => UNCHANGED dirVars \/ mode[r] \in Reports
  BY InPlan DEF Reset, At, Modes, Probes, Reports
<1>. QED
  BY <1>1
     DEF RunStep, Advance, Work, Start, Look, Refuse, TakeLock, Busy, ResetRaises, CollectorsFailed,
         DraftNamesOther, Begin, Raises, StepTimesOut, RemoveNamed, Finish, Mask, StopProxy, Unmask,
         Unlock, Answer, MeasureEnv, MeasureEgress, WriteVault, VaultWritten, StoreRefuses,
         WriteReport, SyncReport, LinkReport, UnlinkTemporary, Term, Kill, OrphanEnds, dirVars

-----------------------------------------------------------------------------
(***************************************************************************)
(* Types.                                                                  *)
(***************************************************************************)
RunTyped ==
    /\ pc \in [Runs -> States] /\ mode \in [Runs -> Modes \cup {None}]
    /\ client \in [Runs -> Clients \cup {None}] /\ step \in [Runs -> Nat]
    /\ verdict \in [Runs -> Verdicts \cup {None}] /\ answer \in [Runs -> Answers \cup {None}]
    /\ term \in [Runs -> {"none", "held", "done"}]

StepsTyped == \A r \in Runs : step[r] = 1 \/ step[r] \in 1 .. Len(Plan(mode[r])) + 1

StoreTyped ==
    /\ vault \in [Runs -> [by : SUBSET Runs, names : BOOLEAN, upto : 0 .. 4]]
    /\ archive \in [Runs -> Archived \cup {None}]

HostTyped ==
    /\ lock \in Runs \cup {None} /\ orphan \in [Runs -> Containers \cup {None}]
    /\ proxy \in BOOLEAN /\ excused \subseteq Clients \cup {"proxy"}
    /\ signals \in 0 .. MaxSignals

LEMMA TypeIs == TypeOK <=> RunTyped /\ StepsTyped /\ DirsTyped /\ StoreTyped /\ HostTyped
BY DEF TypeOK, RunTyped, StepsTyped, DirsTyped, DataTyped, ReportsTyped, TransientTyped, StoreTyped,
       HostTyped

LEMMA StepsKept == ASSUME AuditInv, NEW r \in Runs, Turns(r) PROVE StepsTyped'
<1>1. \A q \in Runs : step[q] = 1 \/ step[q] \in 1 .. Len(Plan(mode[q])) + 1
  BY DEF AuditInv, TypeOK
<1>2. RunOK' /\ RunOK
  BY RunKept DEF AuditInv
<1>3. ASSUME NEW q \in Runs PROVE step'[q] = 1 \/ step'[q] \in 1 .. Len(Plan(mode'[q])) + 1
  <2>1. CASE Starts(r)
    BY <1>1, <1>2, <2>1 DEF Starts, At, RunOK, RunIs, Early
  <2>2. CASE Nexts(r)
    <3>1. step[r] \in 1 .. Len(Plan(mode[r]))
      BY <2>2, InPlan DEF Nexts
    <3>2. Len(Plan(mode[r])) \in Nat
      BY <2>2, InPlan, PlanIs DEF Nexts, Modes
    <3>. QED
      BY <1>1, <2>2, <3>1, <3>2 DEF Nexts, Turn
  <2>3. CASE ~Starts(r) /\ ~Nexts(r)
    <3>1. step'[q] = step[q] /\ mode'[q] = mode[q]
      BY <2>3 DEF Turns, Inside, Declines, Takes, Enters, Begins, Waits, Concludes, Closes, Unlocks,
                  Tells, Dies, Stays, Moves, Turn
    <3>. QED
      BY <1>1, <3>1
  <2>. QED
    BY <2>1, <2>2, <2>3
<1>. QED
  BY <1>3 DEF StepsTyped

LEMMA RunTypedKept == ASSUME AuditInv, NEW r \in Runs, RunStep(r) PROVE RunTyped'
<1>0. RunTyped
  BY TypeIs DEF AuditInv
<1>. USE <1>0 DEF RunTyped, Goto, At
<1>1. CASE Start(r)
  <2>1. PICK m \in Modes : mode' = [mode EXCEPT ![r] = m]
    BY <1>1 DEF Start
  <2>2. \E c \in Clients \cup {None} : client' = [client EXCEPT ![r] = c]
    BY <1>1 DEF Start
  <2>. QED
    BY <1>1, <2>1, <2>2 DEF Start, States
<1>2. CASE Look(r) \/ Refuse(r) \/ Busy(r) \/ TakeLock(r) \/ Reset(r) \/ ResetRaises(r)
  BY <1>2 DEF Look, Refuse, Busy, TakeLock, Reset, ResetRaises, States, Answers, Verdicts
<1>3. CASE Begin(r) \/ StepTimesOut(r) \/ Unlock(r) \/ Kill(r)
  BY <1>3 DEF Begin, StepTimesOut, Unlock, Kill, States
<1>4. CASE Mask(r) \/ RemoveTransient(r) \/ StopProxy(r) \/ Unmask(r) \/ Answer(r)
  BY <1>4 DEF Mask, RemoveTransient, StopProxy, Unmask, Answer, States, Answers, Verdicts
<1>5. ASSUME NEW v \in Verdicts \cup {None}, Ends(r, v) PROVE RunTyped'
  BY <1>5 DEF Ends, States
<1>6. CASE CollectorsFailed(r) \/ DraftNamesOther(r) \/ Raises(r) \/ Finish(r) \/ StoreRefuses(r)
  BY <1>5, <1>6
     DEF CollectorsFailed, DraftNamesOther, Raises, Finish, StoreRefuses, Verdicts, Steps
<1>7. pc[r] \in {"working", "removing"} => Current(r) \in Verdicts
  BY InPlan, CurrentIs DEF Verdicts
<1>8. CASE StepFails(r)
  BY <1>5, <1>7, <1>8 DEF StepFails
<1>9. ASSUME NEW v \in Verdicts \cup {None}, NextStep(r),
             verdict' = [verdict EXCEPT ![r] = v] \/ verdict' = verdict,
             UNCHANGED <<mode, client, answer, term>>
      PROVE  RunTyped'
  BY <1>9 DEF NextStep, States
<1>10. CASE StepDone(r) \/ VaultWritten(r) \/ UnlinkTemporary(r) \/ MeasureEnv(r) \/ MeasureEgress(r)
  BY <1>9, <1>10
     DEF StepDone, VaultWritten, UnlinkTemporary, MeasureEnv, MeasureEgress, Measured, Verdicts
<1>11. CASE RemoveNamed(r)
  BY <1>5, <1>7, <1>9, <1>11 DEF RemoveNamed, Measured, Verdicts
<1>12. CASE Term(r)
  <2>1. CASE pc[r] \in {"cleaning", "stopping", "unmasking"}
    BY <1>12, <2>1 DEF Term
  <2>2. CASE pc[r] \notin {"cleaning", "stopping", "unmasking"}
    <3>1. \E s \in States : Goto(r, s)
      BY <1>12, <2>2 DEF Term, States
    <3>. QED
      BY <1>12, <2>2, <3>1 DEF Term, Verdicts
  <2>. QED
    BY <2>1, <2>2
<1>13. CASE \/ WriteVault(r) \/ WriteReport(r) \/ SyncReport(r) \/ LinkReport(r)
            \/ OrphanWrites(r) \/ OrphanEnds(r)
  BY <1>13 DEF WriteVault, WriteReport, SyncReport, LinkReport, OrphanWrites, OrphanEnds, runVars
<1>. QED
  BY <1>1, <1>2, <1>3, <1>4, <1>6, <1>8, <1>10, <1>11, <1>12, <1>13 DEF RunStep, Advance, Work

\* Only the last step of a run writes there.
LEMMA StoreKept ==
    ASSUME AuditInv, NEW r \in Runs, RunStep(r)
    PROVE  /\ StoreTyped'
           /\ \A q \in Runs \ {r} : vault'[q] = vault[q] /\ archive'[q] = archive[q]
           /\ \/ vault'[r] = vault[r] /\ archive'[r] = archive[r]
              \/ WriteVault(r) \/ WriteReport(r) \/ SyncReport(r) \/ LinkReport(r)
<1>0. StoreTyped
  BY TypeIs DEF AuditInv
<1>1. CASE WriteVault(r)
  <2>1. Doing(r, "vault-write") /\ vault[r].upto < 4 /\ UNCHANGED archive
    BY <1>1 DEF WriteVault
  <2>2. mode[r] = "audit" /\ pc[r] = "working"
    BY <2>1, InPlan, CurrentIs DEF Doing, At
  <2>3. client[r] \in Clients
    BY <2>2, HasClient DEF Reports
  <2>4. transient[client[r]] \in Content
    BY <2>1, <2>2, <2>3 DEF AuditInv, OwnOK, OwnIs, TypeOK, InBody, Reports
  <2>5. [by |-> transient[client[r]].by, names |-> transient[client[r]].names,
         upto |-> vault[r].upto + 1] \in [by : SUBSET Runs, names : BOOLEAN, upto : 0 .. 4]
    BY <1>0, <2>1, <2>4 DEF StoreTyped, Content
  <2>6. vault' = [vault EXCEPT ![r] = [by |-> transient[client[r]].by,
                    names |-> transient[client[r]].names, upto |-> vault[r].upto + 1]]
    BY <1>0, <1>1 DEF WriteVault, StoreTyped
  <2>. QED
    BY <1>0, <1>1, <2>1, <2>5, <2>6 DEF StoreTyped
<1>2. CASE WriteReport(r)
  <2>1. Doing(r, "store") /\ UNCHANGED vault
    BY <1>2 DEF WriteReport
  <2>2. mode[r] = "figures"
    BY <2>1, InPlan, CurrentIs DEF Doing, At
  <2>3. client[r] \in Clients
    BY <2>2, HasClient DEF Reports
  <2>4. reports[client[r]].by \subseteq Runs
    BY <2>3 DEF AuditInv, TypeOK, Content
  <2>5. /\ [by |-> reports[client[r]].by, file |-> "tmp", whole |-> FALSE] \in Archived
        /\ archive' = [archive EXCEPT ![r] =
                         [by |-> reports[client[r]].by, file |-> "tmp", whole |-> FALSE]]
    BY <1>2, <2>4 DEF WriteReport, Archived
  <2>. QED
    BY <1>0, <1>2, <2>1, <2>5, NoneAssumption DEF StoreTyped
<1>3. CASE SyncReport(r)
  <2>1. archive[r] \in Archived /\ UNCHANGED vault
    BY <1>0, <1>3 DEF SyncReport, StoreTyped
  <2>2. /\ [archive[r] EXCEPT !.whole = TRUE] \in Archived
        /\ [archive[r] EXCEPT !.whole = TRUE].by = archive[r].by
        /\ [archive[r] EXCEPT !.whole = TRUE].whole
    BY <2>1 DEF Archived
  <2>3. archive' = [archive EXCEPT ![r] = [archive[r] EXCEPT !.whole = TRUE]]
    BY <1>0, <1>3 DEF SyncReport, StoreTyped
  <2>4. SyncReport(r) /\ ~LinkReport(r)
    BY <1>3 DEF SyncReport, LinkReport
  <2>. QED
    BY <1>0, <2>1, <2>2, <2>3, <2>4, NoneAssumption DEF StoreTyped
<1>4. CASE LinkReport(r)
  <2>1. archive[r] \in Archived /\ archive[r].whole /\ UNCHANGED vault
    BY <1>0, <1>4 DEF LinkReport, StoreTyped
  <2>2. /\ [archive[r] EXCEPT !.file = "name"] \in Archived
        /\ [archive[r] EXCEPT !.file = "name"].by = archive[r].by
        /\ [archive[r] EXCEPT !.file = "name"].whole
        /\ [archive[r] EXCEPT !.file = "name"].file = "name"
    BY <2>1 DEF Archived
  <2>3. archive' = [archive EXCEPT ![r] = [archive[r] EXCEPT !.file = "name"]]
    BY <1>0, <1>4 DEF LinkReport, StoreTyped
  <2>. QED
    BY <1>0, <1>4, <2>1, <2>2, <2>3, NoneAssumption DEF StoreTyped
<1>5. CASE ~WriteVault(r) /\ ~WriteReport(r) /\ ~SyncReport(r) /\ ~LinkReport(r)
  <2>1. UNCHANGED storeVars
    BY <1>5
       DEF RunStep, Advance, Work, Start, Look, Refuse, TakeLock, Busy, Reset, ResetRaises,
           CollectorsFailed, DraftNamesOther, Begin, Raises, StepTimesOut, RemoveNamed, Finish,
           Mask, RemoveTransient, StopProxy, Unmask, Unlock, Answer, StepDone, MeasureEnv,
           MeasureEgress, StepFails, VaultWritten, StoreRefuses, UnlinkTemporary, Term, Kill,
           OrphanWrites, OrphanEnds, storeVars
  <2>. QED
    BY <1>0, <2>1 DEF storeVars, StoreTyped
<1>. QED
  BY <1>1, <1>2, <1>3, <1>4, <1>5

-----------------------------------------------------------------------------
(***************************************************************************)
(* Containers that outlive a run, and what is excused.                     *)
(***************************************************************************)
\* The container of r's step goes on without it, and that is noted.
Leaves(r) ==
    /\ pc[r] \in {"working", "removing"} /\ mode[r] \in Reports /\ Current(r) \in Containers
    /\ orphan' = [orphan EXCEPT ![r] = Current(r)]
    /\ excused \cup {client[r]} \subseteq excused'
    /\ pc'[r] \in {"finally", "dead"}

LEMMA OrphansIs ==
    ASSUME AuditInv, NEW r \in Runs, RunStep(r)
    PROVE  \/ UNCHANGED orphan /\ excused \subseteq excused'
           \/ UNCHANGED orphan /\ StopProxy(r) /\ excused \subseteq excused' \cup {"proxy"}
           \/ Reset(r) /\ mode[r] \in Reports
           \/ Leaves(r)
           \/ OrphanEnds(r) /\ UNCHANGED excused
<1>0. pc \in [Runs -> States]
  BY DEF AuditInv, TypeOK
<1>1. Orphaned(r) =>
        /\ pc[r] \in {"working", "removing"} /\ mode[r] \in Reports /\ Current(r) \in Containers
        /\ lock = r
  BY InPlan DEF Orphaned, Modes, Probes, Reports, AuditInv, LockOK, Holding, InBody
<1>2. CASE RemoveNamed(r)
  <2>1. CASE UNCHANGED <<orphan, excused>>
    BY <2>1
  <2>2. CASE /\ Orphaned(r) /\ orphan' = [orphan EXCEPT ![r] = Current(r)]
             /\ excused' = excused \cup {client[r]}
    <3>1. pc'[r] = "finally"
      BY <1>0, <1>1, <1>2, <2>2 DEF RemoveNamed, Ends, Goto, Probes, Reports
    <3>. QED
      BY <1>1, <2>2, <3>1 DEF Leaves
  <2>. QED
    BY <1>2, <2>1, <2>2 DEF RemoveNamed
<1>3. CASE Term(r)
  <2>1. CASE UNCHANGED orphan /\ excused \subseteq excused'
    BY <2>1
  <2>2. CASE ~(UNCHANGED orphan /\ excused \subseteq excused')
    <3>1. /\ Orphaned(r) /\ orphan' = [orphan EXCEPT ![r] = Current(r)]
          /\ excused' = excused \cup {client[r]}
      BY <1>3, <2>2 DEF Term
    <3>2. Goto(r, "finally")
      BY <1>1, <1>3, <3>1 DEF Term, At
    <3>. QED
      BY <1>0, <1>1, <3>1, <3>2 DEF Leaves, Goto
  <2>. QED
    BY <2>1, <2>2
<1>4. CASE Kill(r)
  <2>1. CASE Orphaned(r)
    <3>1. /\ orphan' = [orphan EXCEPT ![r] = Current(r)] /\ excused' = excused \cup LeftBy(r, proxy')
          /\ pc'[r] = "dead"
      BY <1>0, <1>1, <1>4, <2>1 DEF Kill, Goto
    <3>2. client[r] \in LeftBy(r, proxy')
      BY <1>1, <2>1 DEF LeftBy, Probes, Reports
    <3>. QED
      BY <1>1, <2>1, <3>1, <3>2 DEF Leaves
  <2>2. CASE ~Orphaned(r)
    BY <1>4, <2>2 DEF Kill
  <2>. QED
    BY <2>1, <2>2
<1>5. CASE StopProxy(r) \/ RemoveTransient(r) \/ OrphanEnds(r)
  BY <1>5 DEF StopProxy, RemoveTransient, OrphanEnds
<1>6. CASE Reset(r)
  BY <1>6, InPlan DEF Reset, At, Modes, Probes, Reports
<1>7. CASE ~(\/ RemoveNamed(r) \/ Term(r) \/ Kill(r) \/ StopProxy(r) \/ RemoveTransient(r)
             \/ OrphanEnds(r) \/ Reset(r))
  BY <1>7
     DEF RunStep, Advance, Work, Start, Look, Refuse, TakeLock, Busy, ResetRaises,
         CollectorsFailed, DraftNamesOther, Begin, Raises, StepTimesOut, Finish, Mask, Unmask,
         Unlock, Answer, StepDone, MeasureEnv, MeasureEgress, StepFails, WriteVault, VaultWritten,
         StoreRefuses, WriteReport, SyncReport, LinkReport, UnlinkTemporary, OrphanWrites,
         hostVars
<1>. QED
  BY <1>2, <1>3, <1>4, <1>5, <1>6, <1>7

LEMMA HostKept == ASSUME AuditInv, NEW r \in Runs, RunStep(r) PROVE HostTyped'
<1>. USE AuditAssumption
<1>0. HostTyped /\ client[r] \in Clients \cup {None}
  BY TypeIs DEF AuditInv, TypeOK
<1>1. orphan' \in [Runs -> Containers \cup {None}]
  <2>1. CASE Leaves(r)
    BY <1>0, <2>1 DEF Leaves, HostTyped
  <2>2. CASE Reset(r) /\ mode[r] \in Reports
    BY <2>2, ResetFrame
  <2>3. CASE OrphanEnds(r) \/ UNCHANGED orphan
    BY <1>0, <2>3 DEF OrphanEnds, HostTyped
  <2>. QED
    BY <2>1, <2>2, <2>3, OrphansIs
<1>2. lock' \in Runs \cup {None}
  BY <1>0, TurnIs DEF Turns, Takes, Unlocks, Dies, HostTyped
<1>3. signals' \in 0 .. MaxSignals
  <2>1. CASE Term(r) \/ Kill(r)
    BY <1>0, <2>1 DEF Term, Kill, HostTyped
  <2>2. CASE ~Term(r) /\ ~Kill(r)
    <3>1. UNCHANGED signals
      BY <2>2
         DEF RunStep, Advance, Work, Start, Look, Refuse, TakeLock, Busy, Reset, ResetRaises,
             CollectorsFailed, DraftNamesOther, Begin, Raises, StepTimesOut, RemoveNamed, Finish,
             Mask, RemoveTransient, StopProxy, Unmask, Unlock, Answer, StepDone, MeasureEnv,
             MeasureEgress, StepFails, WriteVault, VaultWritten, StoreRefuses, WriteReport,
             SyncReport, LinkReport, UnlinkTemporary, OrphanWrites, OrphanEnds, hostVars
    <3>. QED
      BY <1>0, <3>1 DEF HostTyped
  <2>. QED
    BY <2>1, <2>2
<1>4. proxy' \in BOOLEAN /\ excused' \subseteq Clients \cup {"proxy"}
  <2>1. mode[r] \in Reports => client[r] \in Clients
    BY HasClient
  <2>2. pc[r] \notin {"idle", "over"} /\ mode[r] \notin Probes => mode[r] \in Reports
    BY InPlan DEF Modes, Probes, Reports
  <2>3. Orphaned(r) => mode[r] \in Reports
    BY <2>2 DEF Orphaned
  <2>4. pc[r] \notin {"idle", "over"} =>
          \A up \in BOOLEAN : LeftBy(r, up) \subseteq Clients \cup {"proxy"}
    BY <2>1, <2>2 DEF LeftBy
  <2>5. At(r, "cleaning") => mode[r] \in Reports
    BY DEF At, AuditInv, RunOK, RunIs, Reports
  <2>6. CASE Reset(r) \/ RemoveTransient(r) \/ StopProxy(r)
    BY <1>0, <2>1, <2>5, <2>6 DEF HostTyped, Reset, RemoveTransient, StopProxy
  <2>7. CASE RemoveNamed(r)
    BY <1>0, <2>1, <2>3, <2>7 DEF HostTyped, RemoveNamed
  <2>8. CASE Term(r)
    BY <1>0, <2>1, <2>3, <2>4, <2>8 DEF HostTyped, Term, ProxyCutShort
  <2>9. CASE Kill(r)
    BY <1>0, <2>4, <2>9 DEF HostTyped, Kill, ProxyCutShort
  <2>10. CASE StepDone(r) \/ MeasureEgress(r) \/ StepFails(r) \/ StepTimesOut(r)
    BY <1>0, <2>10 DEF HostTyped, StepDone, MeasureEgress, StepFails, StepTimesOut, ProxyCutShort
  <2>11. CASE ~(\/ Reset(r) \/ RemoveTransient(r) \/ StopProxy(r) \/ RemoveNamed(r) \/ Term(r)
                \/ Kill(r) \/ StepDone(r) \/ MeasureEgress(r) \/ StepFails(r) \/ StepTimesOut(r))
    <3>1. UNCHANGED <<proxy, excused>>
      BY <2>11
         DEF RunStep, Advance, Work, Start, Look, Refuse, TakeLock, Busy, ResetRaises,
             CollectorsFailed, DraftNamesOther, Begin, Raises, StepTimesOut, Finish, Mask, Unmask,
             Unlock, Answer, MeasureEnv, WriteVault, VaultWritten, StoreRefuses, WriteReport,
             SyncReport, LinkReport, UnlinkTemporary, OrphanWrites, OrphanEnds, hostVars
    <3>. QED
      BY <1>0, <3>1 DEF HostTyped
  <2>. QED
    BY <2>6, <2>7, <2>8, <2>9, <2>10, <2>11
<1>. QED
  BY <1>1, <1>2, <1>3, <1>4 DEF HostTyped

-----------------------------------------------------------------------------
(***************************************************************************)
(* What is stored.                                                         *)
(***************************************************************************)
\* Who gets to its next step.
LEMMA NextsBy ==
    ASSUME AuditInv, NEW r \in Runs, RunStep(r), Nexts(r)
    PROVE  \/ StepDone(r) \/ MeasureEnv(r) \/ MeasureEgress(r) \/ VaultWritten(r) \/ UnlinkTemporary(r)
           \/ RemoveNamed(r) /\ mode[r] \in Probes
<1>1. pc[r] \in {"working", "removing"} /\ pc'[r] = "ready"
  BY DEF Nexts, Turn
<1>2. pc \in [Runs -> States]
  BY DEF AuditInv, TypeOK
<1>3. RemoveNamed(r) => mode[r] \in Probes
  BY <1>1, <1>2 DEF RemoveNamed, Ends, Goto
<1>. QED
  BY <1>1, <1>2, <1>3
     DEF RunStep, Advance, Work, Start, Look, Refuse, TakeLock, Busy, Reset, ResetRaises,
         CollectorsFailed, DraftNamesOther, Begin, Raises, StepTimesOut, Finish, Mask,
         RemoveTransient, StopProxy, Unmask, Unlock, Answer, StepFails, WriteVault, StoreRefuses,
         WriteReport, SyncReport, LinkReport, Term, Kill, OrphanWrites, OrphanEnds, Ends, Goto, At,
         runVars

\* The storing step is over when the writes are.
LEMMA LastStep ==
    ASSUME AuditInv, NEW r \in Runs, RunStep(r), Nexts(r)
    PROVE  /\ mode[r] = "audit" /\ step[r] = 6 => vault[r].upto = 4
           /\ mode[r] = "figures" /\ step[r] = 3 =>
                archive[r] # None /\ archive[r].file = "name"
<1>1. /\ Current(r) = "vault-write" <=> mode[r] = "audit" /\ step[r] = 6
      /\ Current(r) = "store" <=> mode[r] = "figures" /\ step[r] = 3
  BY InPlan, CurrentIs DEF Nexts
<1>. QED
  BY <1>1, NextsBy
     DEF StepDone, MeasureEnv, MeasureEgress, VaultWritten, UnlinkTemporary, Doing, Probes

LEMMA KeptKept == ASSUME AuditInv, NEW r \in Runs, RunStep(r) PROVE KeptOK'
<1>0. Turns(r) /\ RunIs(r) /\ KeptIs(r)
  BY TurnIs DEF AuditInv, RunOK, KeptOK
<1>1. /\ vault[r].upto \in 0 .. 4 /\ verdict[r] \in Verdicts \cup {None}
      /\ step[r] \in Nat /\ step[r] >= 1
      /\ pc[r] \notin {"idle", "over"} => mode[r] \in Modes
      /\ pc[r] \in {"working", "removing"} => step[r] \in 1 .. Len(Plan(mode[r]))
  BY InPlan DEF AuditInv, TypeOK
<1>2. \A q \in Runs \ {r} : vault'[q] = vault[q] /\ archive'[q] = archive[q]
  BY StoreKept
<1>3. ASSUME NEW q \in Runs, q # r PROVE KeptIs(q)'
  <2>1. /\ pc'[q] = pc[q] /\ step'[q] = step[q] /\ verdict'[q] = verdict[q]
        /\ mode'[q] = mode[q]
    BY <1>0, <1>3
       DEF Turns, Inside, Starts, Declines, Takes, Enters, Begins, Waits, Nexts, Concludes,
           Closes, Unlocks, Tells, Dies, Stays, Moves, Turn
  <2>2. KeptIs(q)
    BY DEF AuditInv, KeptOK
  <2>. QED
    BY <1>2, <1>3, <2>1, <2>2 DEF KeptIs
<1>. SUFFICES KeptIs(r)'
  BY <1>3 DEF KeptOK
<1>4. CASE WriteVault(r) \/ WriteReport(r) \/ SyncReport(r)
  <2>0. pc'[r] = pc[r] /\ step'[r] = step[r] /\ verdict'[r] = verdict[r] /\ mode'[r] = mode[r]
    BY <1>4 DEF WriteVault, WriteReport, SyncReport, runVars
  <2>1. At(r, "working") /\ (verdict[r] = None \/ (verdict[r] = "failed" /\ mode[r] \in Probes))
    BY <1>0, <1>4 DEF WriteVault, WriteReport, SyncReport, Doing, At, RunIs, InBody
  <2>2. verdict[r] \notin Steps \cup {"isolation"}
    BY <2>1, NoneAssumption DEF Steps, Answers, Verdicts
  <2>3. /\ Current(r) = "vault-write" <=> mode[r] = "audit" /\ step[r] = 6
        /\ Current(r) = "store" <=> mode[r] = "figures" /\ step[r] = 3
    BY <1>1, <2>1, CurrentIs DEF At
  <2>4. CASE WriteVault(r)
    <3>1. mode[r] = "audit" /\ step[r] = 6
      BY <2>3, <2>4 DEF WriteVault, Doing
    <3>2. transient[client[r]].by = {r} /\ ~transient[client[r]].names
      BY <2>1, <2>4, <3>1 DEF AuditInv, OwnOK, OwnIs, InBody, Reports, WriteVault, Doing, At
    <3>3. /\ archive'[r] = archive[r] /\ vault'[r].by = {r} /\ ~vault'[r].names
          /\ vault'[r].upto = vault[r].upto + 1
      <4>1. vault[r].upto < 4 /\ UNCHANGED archive
        BY <2>4 DEF WriteVault
      <4>2. /\ vault'[r].by = transient[client[r]].by /\ vault'[r].upto = vault[r].upto + 1
            /\ vault'[r].names = transient[client[r]].names
        BY <2>4 DEF WriteVault, AuditInv, TypeOK
      <4>. QED
        BY <3>2, <4>1, <4>2
    <3>. QED
      BY <1>0, <1>1, <2>0, <2>1, <2>2, <3>1, <3>3 DEF KeptIs, At
  <2>5. CASE WriteReport(r)
    <3>1. mode[r] = "figures" /\ step[r] = 3
      BY <2>3, <2>5 DEF WriteReport, Doing
    <3>2. reports[client[r]].by = {r}
      BY <2>1, <3>1 DEF AuditInv, OwnOK, OwnIs, InBody, Reports, At
    <3>3. /\ vault'[r] = vault[r] /\ archive'[r] = [by |-> {r}, file |-> "tmp", whole |-> FALSE]
      BY <2>5, <3>2 DEF WriteReport, AuditInv, TypeOK
    <3>4. archive'[r] # None
      <4>1. [by |-> {r}, file |-> "tmp", whole |-> FALSE] \in Archived
        BY DEF Archived
      <4>. QED
        BY <3>3, <4>1, NoneAssumption
    <3>. QED
      BY <1>0, <1>1, <2>0, <2>1, <2>2, <3>1, <3>3, <3>4 DEF KeptIs, At
  <2>6. CASE SyncReport(r)
    <3>1. mode[r] = "figures" /\ step[r] = 3 /\ archive[r] # None /\ archive[r] \in Archived
      BY <2>3, <2>6 DEF SyncReport, Doing, AuditInv, TypeOK
    <3>2. archive'[r] = [archive[r] EXCEPT !.whole = TRUE] /\ vault'[r] = vault[r]
      BY <2>6 DEF SyncReport, AuditInv, TypeOK
    <3>3. archive'[r] \in Archived /\ archive'[r].by = archive[r].by /\ archive'[r].whole
      BY <3>1, <3>2 DEF Archived
    <3>. QED
      BY <1>0, <1>1, <2>0, <2>1, <2>2, <3>1, <3>2, <3>3, NoneAssumption DEF KeptIs, At
  <2>. QED
    BY <1>4, <2>4, <2>5, <2>6
<1>5. CASE LinkReport(r)
  <2>1. /\ Doing(r, "store") /\ archive[r] # None
        /\ pc'[r] = pc[r] /\ step'[r] = step[r] /\ mode'[r] = mode[r] /\ verdict'[r] = verdict[r]
    BY <1>5 DEF LinkReport, runVars
  <2>2. mode[r] = "figures" /\ step[r] = 3 /\ verdict[r] = None
    BY <1>0, <1>1, <2>1, CurrentIs DEF Doing, At, RunIs, InBody, Probes
  <2>3. pc'[r] = "working" /\ step'[r] = 3
    BY <2>1, <2>2 DEF Doing, At
  <2>4. archive[r] \in Archived /\ archive[r].whole
    BY <1>5, <2>1 DEF LinkReport, AuditInv, TypeOK
  <2>5. archive'[r] = [archive[r] EXCEPT !.file = "name"] /\ vault'[r] = vault[r]
    BY <1>5 DEF LinkReport, AuditInv, TypeOK
  <2>6. /\ archive'[r] \in Archived /\ archive'[r].by = archive[r].by
        /\ archive'[r].file = "name" /\ archive'[r].whole
    BY <2>4, <2>5 DEF Archived
  <2>. QED
    BY <1>0, <2>1, <2>2, <2>3, <2>5, <2>6, NoneAssumption DEF KeptIs, Answers, Verdicts, Steps
<1>6. CASE vault'[r] = vault[r] /\ archive'[r] = archive[r] /\ ~LinkReport(r)
  <2>1. CASE Nexts(r)
    <3>1. PICK v \in {verdict[r], "failed"} : Turn(r, "ready", step[r] + 1, v, answer[r])
      BY <2>1 DEF Nexts
    <3>2. verdict[r] \notin Steps \cup {"isolation"}
      BY <1>0, <2>1, NoneAssumption DEF Nexts, RunIs, InBody, Steps, Answers, Verdicts
    <3>3. /\ mode[r] = "audit" /\ step[r] = 6 => vault[r].upto = 4
          /\ mode[r] = "figures" /\ step[r] = 3 => archive[r] # None /\ archive[r].file = "name"
      BY <1>6, <2>1, LastStep
    <3>4. v \notin Steps \cup {"isolation"}
      BY <3>2 DEF Steps
    <3>5. mode[r] = "audit" => step[r] \in 1 .. 6
      BY <1>1, <2>1, PlanIs DEF Nexts
    <3>6. mode[r] = "figures" => step[r] \in 1 .. 3
      BY <1>1, <2>1, PlanIs DEF Nexts
    <3>. QED
      BY <1>0, <1>1, <1>6, <3>1, <3>3, <3>4, <3>5, <3>6 DEF KeptIs, Turn
  <2>2. CASE Starts(r)
    BY <1>0, <1>1, <1>6, <2>2, NoneAssumption
       DEF KeptIs, Starts, RunIs, At, Early, Answers, Verdicts, Steps, Modes
  <2>3. CASE \/ Declines(r) \/ Takes(r) \/ Enters(r) \/ Begins(r) \/ Waits(r) \/ Unlocks(r)
             \/ Dies(r) \/ Stays
    <3>1. /\ step'[r] = step[r] /\ mode'[r] = mode[r] /\ verdict'[r] = verdict[r]
          /\ pc'[r] = "ready" => pc[r] = "ready" \/ step[r] = 1
      BY <1>0, <2>3
         DEF Declines, Takes, Enters, Begins, Waits, Unlocks, Dies, Stays, Moves, Turn, At, RunIs,
             Early
    <3>. QED
      BY <1>0, <1>6, <3>1 DEF KeptIs
  <2>4. CASE Concludes(r)
    <3>1. PICK v \in Verdicts :
             /\ Turn(r, "finally", step[r], v, answer[r])
             /\ v \in (Steps \ {"vault-write", "store"}) \cup {"isolation"} =>
                  /\ mode[r] = "audit" => step[r] < 6 \/ (step[r] = 6 /\ At(r, "ready"))
                  /\ mode[r] = "figures" => step[r] < 3 \/ (step[r] = 3 /\ archive[r] = None)
      BY <2>4 DEF Concludes
    <3>. QED
      BY <1>0, <1>1, <1>6, <3>1 DEF KeptIs, Turn, At
  <2>5. CASE Closes(r) \/ Tells(r)
    <3>1. /\ step'[r] = step[r] /\ mode'[r] = mode[r] /\ pc'[r] # "ready"
          /\ verdict'[r] \in {verdict[r], "internal", "term"}
      BY <2>5 DEF Closes, Closing, Tells, Turn
    <3>. QED
      BY <1>0, <1>6, <3>1 DEF KeptIs, Steps
  <2>. QED
    BY <1>0, <2>1, <2>2, <2>3, <2>4, <2>5 DEF Turns, Inside
<1>. QED
  BY <1>4, <1>5, <1>6, StoreKept

-----------------------------------------------------------------------------
(***************************************************************************)
(* Who writes in a client's directories.                                   *)
(***************************************************************************)
\* A step of one run leaves the others where they are.
LEMMA Bystander ==
    ASSUME NEW r \in Runs, Turns(r), NEW q \in Runs, q # r
    PROVE  /\ pc'[q] = pc[q] /\ step'[q] = step[q] /\ verdict'[q] = verdict[q]
           /\ answer'[q] = answer[q] /\ mode'[q] = mode[q] /\ client'[q] = client[q]
BY DEF Turns, Inside, Starts, Declines, Takes, Enters, Begins, Waits, Nexts, Concludes, Closes,
       Unlocks, Tells, Dies, Stays, Moves, Turn

\* No run goes back to before it had the lock, or tells what it would have told
\* then.
LEMMA NeverEarly ==
    ASSUME AuditInv, NEW r \in Runs, Turns(r), NEW q \in Runs, pc[q] \notin Early, Heard(q)
    PROVE  pc'[q] \notin Early /\ Heard(q)' /\ mode'[q] = mode[q] /\ client'[q] = client[q]
<1>1. CASE q # r
  BY <1>1, Bystander DEF Heard
<1>2. CASE q = r
  <2>1. verdict[r] \in Verdicts \cup {None} /\ None \notin {"refused", "busy", "shown"}
    BY NoneAssumption DEF AuditInv, TypeOK, Answers
  <2>2. verdict[r] \notin {"refused", "busy", "shown"}
    BY <2>1 DEF Verdicts, Steps
  <2>. QED
    BY <1>2, <2>1, <2>2
       DEF Turns, Inside, Starts, Declines, Takes, Enters, Begins, Waits, Nexts, Concludes, Closes,
           Closing, Unlocks, Tells, Dies, Stays, Moves, Turn, At, Early, Heard, InBody
<1>. QED
  BY <1>1, <1>2

\* Who is at work has not told anything.
LEMMA WorksUnheard ==
    ASSUME AuditInv, NEW r \in Runs, pc[r] \in InBody
    PROVE  pc[r] \notin Early /\ Heard(r)
<1>1. answer[r] = None
  BY DEF InBody, AuditInv, RunOK, RunIs
<1>. QED
  BY <1>1, NoneAssumption DEF InBody, Early, Heard, Answers

LEMMA TouchedKept == ASSUME AuditInv, NEW r \in Runs, RunStep(r) PROVE TouchedOK'
<1>0. Turns(r)
  BY TurnIs
<1>. SUFFICES ASSUME NEW q \in Runs, NEW c \in Clients, q \in data'[c].by \cup reports'[c].by
              PROVE  pc'[q] \notin Early /\ Heard(q)'
  BY DEF TouchedOK, Heard
<1>1. CASE q \in data[c].by \cup reports[c].by
  BY <1>0, <1>1, NeverEarly DEF AuditInv, TouchedOK
<1>2. CASE q \notin data[c].by \cup reports[c].by
  <2>1. ASSUME NEW s, DirsBy(r, s) PROVE q = r
    BY <1>2, <2>1 DEF DirsBy
  <2>2. CASE StepDone(r) \/ StepFails(r)
    <3>1. q = r /\ pc[r] \in InBody
      BY <2>1, <2>2, StepWrites DEF StepDone, StepFails, At, InBody
    <3>. QED
      BY <1>0, <3>1, WorksUnheard, NeverEarly
  <2>3. CASE OrphanWrites(r)
    <3>1. q = r /\ orphan[r] # None
      BY <2>1, <2>3, OrphanWrote DEF OrphanWrites
    <3>. QED
      BY <1>0, <3>1, NeverEarly DEF AuditInv, OrphanOK
  <2>4. CASE Reset(r) /\ mode[r] \in Reports
    BY <1>2, <2>4, ResetFrame
  <2>5. CASE RemoveTransient(r) \/ UNCHANGED dirVars
    BY <1>2, <2>5 DEF RemoveTransient, dirVars
  <2>. QED
    BY <2>2, <2>3, <2>4, <2>5, DirsKept
<1>. QED
  BY <1>1, <1>2

LEMMA OrphanKept == ASSUME AuditInv, NEW r \in Runs, RunStep(r) PROVE OrphanOK'
<1>0. Turns(r) /\ orphan \in [Runs -> Containers \cup {None}]
  BY TurnIs DEF AuditInv, TypeOK
<1>. SUFFICES ASSUME NEW q \in Runs, orphan'[q] # None
              PROVE  /\ pc'[q] \notin Early \cup InBody /\ Heard(q)'
                     /\ mode'[q] \in Reports /\ client'[q] \in excused'
  BY DEF OrphanOK, Heard
<1>1. CASE orphan[q] # None
  <2>1. /\ pc[q] \notin Early \cup InBody /\ Heard(q) /\ mode[q] \in Reports
        /\ client[q] \in excused
    BY <1>1 DEF AuditInv, OrphanOK
  <2>2. pc'[q] \notin Early /\ Heard(q)' /\ mode'[q] = mode[q] /\ client'[q] = client[q]
    BY <1>0, <2>1, NeverEarly
  <2>3. pc'[q] \notin InBody
    <3>1. CASE q # r
      BY <1>0, <2>1, <3>1, Bystander
    <3>2. CASE q = r
      BY <1>0, <2>1, <3>2
         DEF Turns, Inside, Starts, Declines, Takes, Enters, Begins, Waits, Nexts, Concludes,
             Closes, Closing, Unlocks, Tells, Dies, Stays, Moves, Turn, At, Early, InBody
    <3>. QED
      BY <3>1, <3>2
  <2>4. client[q] \in excused'
    <3>1. client[q] \in Clients
      BY <2>1, HasClient
    <3>2. CASE excused \subseteq excused' \cup {"proxy"}
      BY <2>1, <3>1, <3>2, NoneAssumption
    <3>3. CASE Reset(r) /\ mode[r] \in Reports
      <4>1. ~(mode[r] = "audit" /\ client[q] = client[r])
        BY <1>0, <1>1, <3>3, ResetFrame DEF Containers
      <4>. QED
        BY <2>1, <3>3, <4>1, ResetFrame
    <3>4. CASE Leaves(r)
      BY <2>1, <3>4 DEF Leaves
    <3>. QED
      BY <3>2, <3>3, <3>4, OrphansIs
  <2>. QED
    BY <2>1, <2>2, <2>3, <2>4
<1>2. CASE orphan[q] = None
  <2>1. q = r /\ Leaves(r)
    <3>1. CASE Reset(r) /\ mode[r] \in Reports
      BY <1>2, <3>1, ResetFrame
    <3>2. CASE Leaves(r)
      BY <1>0, <1>2, <3>2 DEF Leaves
    <3>3. CASE OrphanEnds(r) \/ UNCHANGED orphan
      BY <1>0, <1>2, <3>3 DEF OrphanEnds
    <3>. QED
      BY <3>1, <3>2, <3>3, OrphansIs
  <2>2. /\ pc[r] \in InBody /\ pc'[r] \in {"finally", "dead"} /\ mode[r] \in Reports
        /\ client[r] \in excused'
    BY <2>1 DEF Leaves, InBody
  <2>. QED
    BY <1>0, <2>1, <2>2, WorksUnheard, NeverEarly DEF Early, InBody
<1>. QED
  BY <1>1, <1>2

-----------------------------------------------------------------------------
(***************************************************************************)
(* What the run that holds the lock relies on.                             *)
(***************************************************************************)
\* While h holds the lock another run can only begin, be refused, answer, be
\* stopped where it waits, or have a container of its own go on.
LEMMA Beside ==
    ASSUME AuditInv, NEW r \in Runs, RunStep(r), NEW h \in Runs, lock = h, h # r
    PROVE  /\ pc[r] \notin Holding /\ lock' = h
           /\ ~Reset(r) /\ ~StepDone(r) /\ ~StepFails(r) /\ ~MeasureEgress(r)
           /\ ~RemoveTransient(r) /\ ~StopProxy(r) /\ ~Leaves(r)
           /\ pc'[h] = pc[h] /\ step'[h] = step[h] /\ verdict'[h] = verdict[h]
           /\ mode'[h] = mode[h] /\ client'[h] = client[h]
<1>1. Turns(r)
  BY TurnIs
<1>2. pc[r] \notin Holding
  BY DEF AuditInv, LockOK
<1>3. lock' = h
  BY <1>1, <1>2, NoneAssumption DEF Turns, Takes, Unlocks, Dies, At, Holding
<1>. QED
  BY <1>1, <1>2, <1>3, Bystander
     DEF Reset, StepDone, StepFails, MeasureEgress, RemoveTransient, StopProxy, Leaves, At, Holding,
         InBody

\* A step of a run that works, or gets to work.
LEMMA AtWork ==
    ASSUME AuditInv, NEW r \in Runs, RunStep(r), pc'[r] \in InBody
    PROVE  /\ \/ Reset(r) \/ Begin(r) \/ StepTimesOut(r) \/ Nexts(r)
              \/ /\ pc'[r] = pc[r] /\ step'[r] = step[r] /\ verdict'[r] = verdict[r]
                 /\ mode'[r] = mode[r] /\ UNCHANGED <<dirVars, proxy>>
           /\ mode'[r] = mode[r] /\ client'[r] = client[r]
           /\ ~StepFails(r) /\ ~OrphanWrites(r) /\ ~RemoveTransient(r) /\ ~StopProxy(r)
           /\ ~Leaves(r) /\ ~OrphanEnds(r)
<1>1. Turns(r) /\ pc \in [Runs -> States]
  BY TurnIs DEF AuditInv, TypeOK
<1>2. ~StepFails(r) /\ ~RemoveTransient(r) /\ ~StopProxy(r) /\ ~Leaves(r)
  BY <1>1 DEF StepFails, RemoveTransient, StopProxy, Leaves, Ends, Goto, InBody
<1>3. ~OrphanWrites(r) /\ ~OrphanEnds(r)
  BY DEF OrphanWrites, OrphanEnds, runVars, AuditInv, OrphanOK
<1>4. Enters(r) \/ Begins(r) \/ Waits(r) \/ Nexts(r) \/ (Stays /\ pc[r] \in InBody)
  BY <1>1
     DEF Turns, Inside, Starts, Declines, Takes, Enters, Begins, Waits, Nexts, Concludes, Closes,
         Closing, Unlocks, Tells, Dies, Stays, Moves, Turn, InBody
<1>5. Enters(r) => Reset(r)
  BY <1>1, <1>2, <1>3
     DEF Enters, Moves, Turn, At, RunStep, Advance, Work, Start, Look, Refuse, TakeLock, Busy,
         ResetRaises, CollectorsFailed, DraftNamesOther, Begin, Raises, StepTimesOut, RemoveNamed,
         Finish, Mask, Unmask, Unlock, Answer, StepDone, MeasureEnv, MeasureEgress, WriteVault,
         VaultWritten, StoreRefuses, WriteReport, SyncReport, LinkReport, UnlinkTemporary, Term,
         Kill, Unchecked, Doing, Goto
<1>6. Begins(r) => Begin(r)
  BY <1>1, <1>2, <1>3
     DEF Begins, Moves, Turn, At, RunStep, Advance, Work, Start, Look, Refuse, TakeLock, Busy,
         Reset, ResetRaises, CollectorsFailed, DraftNamesOther, Raises, StepTimesOut, RemoveNamed,
         Ends, Finish, Mask, Unmask, Unlock, Answer, StepDone, MeasureEnv, MeasureEgress,
         WriteVault, VaultWritten, StoreRefuses, WriteReport, SyncReport, LinkReport,
         UnlinkTemporary, Term, Kill, Unchecked, Doing, Goto
<1>7. Waits(r) => StepTimesOut(r)
  BY <1>1, <1>2, <1>3
     DEF Waits, Moves, Turn, At, RunStep, Advance, Work, Start, Look, Refuse, TakeLock, Busy,
         Reset, ResetRaises, CollectorsFailed, DraftNamesOther, Begin, Raises, RemoveNamed,
         NextStep, Ends, Finish, Mask, Unmask, Unlock, Answer, StepDone, MeasureEnv,
         MeasureEgress, WriteVault, VaultWritten, StoreRefuses, WriteReport, SyncReport,
         LinkReport, UnlinkTemporary, Term, Kill, Unchecked, Doing, Goto, runVars
<1>8. Stays /\ pc[r] \in InBody => UNCHANGED <<dirVars, proxy>>
  <2>1. SUFFICES ASSUME Stays, pc[r] \in InBody PROVE UNCHANGED <<dirVars, proxy>>
    OBVIOUS
  <2>2. pc'[r] = pc[r] /\ step'[r] = step[r]
    BY <2>1 DEF Stays
  <2>3. ~Reset(r) /\ ~StepDone(r) /\ ~MeasureEgress(r) /\ ~StepTimesOut(r) /\ ~Kill(r)
    BY <1>1, <2>1, <2>2
       DEF Reset, StepDone, MeasureEgress, StepTimesOut, Kill, NextStep, Goto, At, InBody
  <2>4. ~Term(r)
    <3>1. Term(r) => Goto(r, "finally")
      BY <2>1 DEF Term, At, InBody
    <3>. QED
      BY <1>1, <2>1, <2>2, <3>1 DEF Goto, InBody
  <2>. QED
    BY <1>2, <1>3, <2>1, <2>3, <2>4
       DEF RunStep, Advance, Work, Start, Look, Refuse, TakeLock, Busy, ResetRaises,
           CollectorsFailed, DraftNamesOther, Begin, Raises, RemoveNamed, Finish, Mask,
           Unmask, Unlock, Answer, MeasureEnv, WriteVault, VaultWritten, StoreRefuses, WriteReport,
           SyncReport, LinkReport, UnlinkTemporary, hostVars, storeVars, dirVars
<1>9. mode'[r] = mode[r] /\ client'[r] = client[r]
  BY <1>4 DEF Enters, Begins, Waits, Nexts, Stays, Moves, Turn
<1>. QED
  BY <1>2, <1>3, <1>4, <1>5, <1>6, <1>7, <1>8, <1>9 DEF Stays

LEMMA OwnKept == ASSUME AuditInv, NEW r \in Runs, RunStep(r) PROVE OwnOK'
<1>0. Turns(r)
  BY TurnIs
<1>. SUFFICES ASSUME NEW h \in Runs, pc'[h] \in InBody, mode'[h] \in Reports
              PROVE  OwnIs(h)'
  BY DEF OwnOK
<1>1. CASE h # r
  <2>1. /\ pc[h] \in InBody /\ mode[h] \in Reports /\ lock = h
        /\ client'[h] = client[h] /\ mode'[h] = mode[h] /\ step'[h] = step[h] /\ pc'[h] = pc[h]
    BY <1>0, <1>1, Bystander DEF AuditInv, LockOK, Holding
  <2>2. OwnIs(h) /\ client[h] \in Clients
    BY <2>1, HasClient DEF AuditInv, OwnOK
  <2>3. pc[r] \notin Holding /\ ~Leaves(r)
    BY <1>1, <2>1, Beside
  <2>4. Doing(h, "vault-write")' => Doing(h, "vault-write") /\ mode[h] = "audit"
    <3>1. Doing(h, "vault-write")' => Doing(h, "vault-write")
      BY <2>1 DEF Doing, At, Current
    <3>. QED
      BY <3>1, InPlan, CurrentIs DEF Doing, At
  <2>5. \A p \in Runs : orphan'[p] # None =>
          orphan'[p] = orphan[p] /\ client'[p] = client[p]
    <3>1. TAKE p \in Runs
    <3>2. orphan'[p] # None => orphan'[p] = orphan[p]
      <4>1. ~Reset(r)
        BY <2>3 DEF Reset, At, Holding
      <4>2. orphan \in [Runs -> Containers \cup {None}]
        BY DEF AuditInv, TypeOK
      <4>. QED
        BY <2>3, <4>1, <4>2, OrphansIs DEF OrphanEnds
    <3>3. orphan[p] # None => client'[p] = client[p]
      BY <1>0, NeverEarly DEF AuditInv, OrphanOK
    <3>. QED
      BY <3>2, <3>3
  <2>6. CASE OrphanWrites(r)
    <3>1. DirsBy(r, orphan[r]) /\ orphan[r] # None
      BY <2>6, OrphanWrote DEF OrphanWrites
    <3>2. CASE client[r] = client[h]
      <4>1. mode[h] = "figures" /\ orphan[r] = "draft"
        BY <2>2, <3>1, <3>2 DEF OwnIs
      <4>2. data'[client[h]].by = data[client[h]].by /\ reports'[client[h]] = reports[client[h]]
        BY <2>2, <3>1, <4>1 DEF DirsBy
      <4>. QED
        BY <2>1, <2>2, <2>4, <2>5, <4>1, <4>2 DEF OwnIs
    <3>3. CASE client[r] # client[h]
      <4>1. /\ data'[client[h]].by = data[client[h]].by /\ reports'[client[h]] = reports[client[h]]
            /\ transient'[client[h]] = transient[client[h]]
        BY <2>2, <3>1, <3>3 DEF DirsBy
      <4>. QED
        BY <2>1, <2>2, <2>4, <2>5, <4>1 DEF OwnIs
    <3>. QED
      BY <3>2, <3>3
  <2>7. CASE ~OrphanWrites(r)
    <3>1. UNCHANGED dirVars
      BY <1>1, <2>1, <2>7, DirsKept, Beside
    <3>. QED
      BY <2>1, <2>2, <2>4, <2>5, <3>1 DEF OwnIs, dirVars
  <2>. QED
    BY <2>6, <2>7
<1>2. CASE h = r
  <2>1. /\ mode'[r] = mode[r] /\ client'[r] = client[r] /\ mode[r] \in Reports
        /\ client[r] \in Clients /\ step[r] \in Nat
    BY <1>2, AtWork, HasClient, InPlan
  <2>2. \A p \in Runs : client'[p] = client[p] \/ orphan'[p] = None
    <3>1. ASSUME NEW p \in Runs PROVE client'[p] = client[p] \/ orphan'[p] = None
      <4>1. CASE orphan[p] # None
        BY <1>0, <4>1, NeverEarly DEF AuditInv, OrphanOK
      <4>2. CASE orphan[p] = None
        <5>1. orphan'[p] = None
          BY <1>2, <4>2, OrphansIs, AtWork, ResetFrame
        <5>. QED
          BY <5>1
      <4>. QED
        BY <4>1, <4>2
    <3>. QED
      BY <3>1
  <2>3. CASE Reset(r)
    <3>1. \A p \in Runs : orphan'[p] # None /\ client[p] = client[r] =>
            mode[r] = "figures" /\ orphan'[p] = "draft"
      <4>1. \A p \in Runs : orphan[p] \in Containers \cup {None}
        BY DEF AuditInv, TypeOK
      <4>. QED
        BY <2>1, <2>3, <4>1, ResetFrame DEF Containers, Reports
    <3>2. pc'[r] = "ready" /\ step'[r] = 1
      BY <2>3 DEF Reset, Goto, At, AuditInv, TypeOK, RunOK, RunIs, Early
    <3>3. /\ data'[client[r]].by = {} /\ reports'[client[r]].by = {}
          /\ mode[r] = "audit" => transient'[client[r]] = None
      BY <2>1, <2>3, ResetFrame
    <3>. QED
      BY <1>2, <2>1, <2>2, <3>1, <3>2, <3>3 DEF OwnIs, Doing, At
  <2>4. CASE ~Reset(r)
    <3>1. pc[r] \in InBody
      BY <1>2, <2>4, AtWork DEF Begin, StepTimesOut, Nexts, Unchecked, At, InBody
    <3>2. OwnIs(r)
      BY <2>1, <3>1 DEF AuditInv, OwnOK
    <3>3. \A p \in Runs : orphan'[p] # None => orphan'[p] = orphan[p]
      BY <1>2, <2>4, OrphansIs, AtWork
    <3>4. CASE StepDone(r)
      <4>1. /\ DirsBy(r, Current(r)) /\ pc'[r] = "ready" /\ step'[r] = step[r] + 1
            /\ Current(r) = "read" => r \in reports'[client[r]].by
            /\ Current(r) # "store" /\ pc[r] = "working"
        BY <3>4, StepWrites DEF StepDone, NextStep, Goto, At, AuditInv, TypeOK
      <4>2. /\ mode[r] = "figures" /\ step[r] = 2 => Current(r) = "read"
            /\ Current(r) = "draft" => mode[r] = "audit"
        BY <2>1, <4>1, InPlan, CurrentIs DEF Reports
      <4>3. /\ data'[client[r]].by \subseteq {r} /\ reports'[client[r]].by \subseteq {r}
            /\ r \in reports[client[r]].by => r \in reports'[client[r]].by
            /\ \/ transient'[client[r]] = transient[client[r]]
               \/ transient'[client[r]].by = {r}
        BY <2>1, <3>2, <4>1 DEF DirsBy, OwnIs
      <4>4. mode[r] = "figures" /\ step'[r] >= 3 => r \in reports'[client[r]].by
        <5>1. CASE step[r] = 2
          BY <4>1, <4>2, <5>1
        <5>2. CASE step[r] # 2
          BY <2>1, <3>2, <4>1, <4>3, <5>2 DEF OwnIs
        <5>. QED
          BY <5>1, <5>2
      <4>5. ~Doing(r, "vault-write")'
        BY <4>1 DEF Doing, At
      <4>. QED
        BY <1>2, <2>1, <2>2, <3>2, <3>3, <4>3, <4>4, <4>5 DEF OwnIs
    <3>5. CASE ~StepDone(r)
      <4>1. UNCHANGED dirVars
        BY <1>2, <2>4, <3>5, DirsKept, AtWork
      <4>2. Doing(r, "vault-write")' =>
              transient[client[r]] # None /\ ~transient[client[r]].names
        <5>1. CASE Begin(r)
          <6>1. Current(r)' = Current(r)
            BY <5>1 DEF Begin, Current
          <6>. QED
            BY <5>1, <6>1 DEF Begin, Doing
        <5>2. CASE StepTimesOut(r) \/ Nexts(r)
          <6>1. pc'[r] # "working"
            BY <5>2 DEF StepTimesOut, Nexts, Turn, Goto, AuditInv, TypeOK
          <6>. QED
            BY <6>1 DEF Doing, At
        <5>3. CASE pc'[r] = pc[r] /\ step'[r] = step[r] /\ mode'[r] = mode[r]
          <6>1. Doing(r, "vault-write")' => Doing(r, "vault-write")
            BY <5>3 DEF Doing, At, Current
          <6>. QED
            BY <3>2, <6>1 DEF OwnIs
        <5>. QED
          BY <1>2, <2>4, <5>1, <5>2, <5>3, AtWork
      <4>3. mode[r] = "figures" /\ step'[r] >= 3 => r \in reports[client[r]].by
        <5>1. CASE Nexts(r)
          <6>1. pc[r] \in {"working", "removing"} /\ step'[r] = step[r] + 1
            BY <5>1 DEF Nexts, Turn
          <6>2. CASE mode[r] = "figures" /\ step[r] = 2
            <7>1. Current(r) = "read"
              BY <6>1, <6>2, InPlan, CurrentIs
            <7>. QED
              BY <3>5, <5>1, <6>2, <7>1, NextsBy
                 DEF MeasureEnv, MeasureEgress, VaultWritten, UnlinkTemporary, RemoveNamed, Doing,
                     Probes
          <6>3. CASE ~(mode[r] = "figures" /\ step[r] = 2)
            BY <2>1, <3>2, <6>1, <6>3 DEF OwnIs
          <6>. QED
            BY <6>2, <6>3
        <5>2. CASE ~Nexts(r)
          <6>1. step'[r] = step[r]
            BY <1>2, <2>4, <5>2, AtWork DEF Begin, StepTimesOut
          <6>. QED
            BY <3>2, <6>1 DEF OwnIs
        <5>. QED
          BY <5>1, <5>2
      <4>. QED
        BY <1>2, <2>1, <2>2, <3>2, <3>3, <4>1, <4>2, <4>3 DEF OwnIs, dirVars
    <3>. QED
      BY <3>4, <3>5
  <2>. QED
    BY <2>3, <2>4
<1>. QED
  BY <1>1, <1>2

\* Only the clean-up stops the proxy.
LEMMA ProxyStays ==
    ASSUME AuditInv, NEW r \in Runs, RunStep(r), ~StopProxy(r), proxy
    PROVE  proxy'
BY DEF RunStep, Advance, Work, Start, Look, Refuse, TakeLock, Busy, Reset, ResetRaises,
       CollectorsFailed, DraftNamesOther, Begin, Raises, StepTimesOut, RemoveNamed, Finish, Mask,
       RemoveTransient, Unmask, Unlock, Answer, StepDone, MeasureEnv, MeasureEgress, StepFails,
       WriteVault, VaultWritten, StoreRefuses, WriteReport, SyncReport, LinkReport,
       UnlinkTemporary, Term, Kill, OrphanWrites, OrphanEnds, ProxyCutShort, hostVars

LEMMA ProxyKept == ASSUME AuditInv, NEW r \in Runs, RunStep(r) PROVE ProxyOK'
<1>0. Turns(r)
  BY TurnIs
<1>. SUFFICES ASSUME NEW h \in Runs, pc'[h] \in InBody PROVE ProxyIs(h)'
  BY DEF ProxyOK
<1>1. CASE h # r
  <2>1. /\ pc[h] \in InBody /\ lock = h /\ mode'[h] = mode[h] /\ step'[h] = step[h]
        /\ verdict'[h] = verdict[h]
    BY <1>0, <1>1, Bystander DEF AuditInv, LockOK, Holding
  <2>2. ProxyIs(h) /\ ~StopProxy(r)
    BY <1>1, <2>1, Beside DEF AuditInv, ProxyOK
  <2>. QED
    BY <2>1, <2>2, ProxyStays DEF ProxyIs
<1>2. CASE h = r
  <2>1. mode'[r] = mode[r] /\ ~StopProxy(r) /\ step[r] \in Nat
    BY <1>2, AtWork, InPlan
  <2>2. CASE Reset(r)
    <3>1. step'[r] = 1
      BY <2>2 DEF Reset, At, AuditInv, RunOK, RunIs, Early
    <3>. QED
      BY <1>2, <2>1, <3>1 DEF ProxyIs
  <2>3. CASE Nexts(r)
    <3>1. /\ pc[r] \in InBody /\ pc[r] \in {"working", "removing"} /\ step'[r] = step[r] + 1
          /\ verdict'[r] = None => verdict[r] = None
      BY <2>3, NoneAssumption DEF Nexts, Turn, InBody, Answers, Verdicts
    <3>2. ProxyIs(r)
      BY <3>1 DEF AuditInv, ProxyOK
    <3>3. Current(r) = "proxy" <=> \/ mode[r] = "audit" /\ step[r] = 4
                                   \/ mode[r] = "egress" /\ step[r] = 1
      BY <3>1, InPlan, CurrentIs
    <3>4. CASE mode[r] = "audit" /\ step[r] = 4
      BY <1>2, <2>1, <2>3, <3>3, <3>4, NextsBy
         DEF ProxyIs, StepDone, MeasureEnv, MeasureEgress, VaultWritten, UnlinkTemporary, Doing,
             Probes
    <3>5. CASE mode[r] = "egress" /\ step[r] = 1
      <4>1. MeasureEgress(r) \/ RemoveNamed(r)
        BY <2>3, <3>3, <3>5, NextsBy
           DEF StepDone, MeasureEnv, VaultWritten, UnlinkTemporary, Doing, Probes
      <4>2. verdict'[r] = None => MeasureEgress(r) /\ proxy'
        <5>1. RemoveNamed(r) => verdict'[r] = "failed"
          BY <3>5 DEF RemoveNamed, Measured, Probes, AuditInv, TypeOK
        <5>2. "failed" # None
          BY NoneAssumption DEF Answers, Verdicts
        <5>3. ASSUME MeasureEgress(r), verdict'[r] = None PROVE proxy'
          <6>1. PICK b \in BOOLEAN :
                  /\ Measured(r, b)
                  /\ proxy' \in IF Current(r) # "proxy" THEN {proxy} ELSE {TRUE, b \/ proxy}
            BY <5>3 DEF MeasureEgress
          <6>2. b
            BY <5>2, <5>3, <6>1 DEF Measured, AuditInv, TypeOK
          <6>. QED
            BY <3>3, <3>5, <6>1, <6>2
        <5>. QED
          BY <4>1, <5>1, <5>2, <5>3
      <4>. QED
        BY <1>2, <2>1, <3>5, <4>2 DEF ProxyIs
    <3>6. CASE ~(mode[r] = "audit" /\ step[r] = 4) /\ ~(mode[r] = "egress" /\ step[r] = 1)
      <4>1. /\ mode[r] = "audit" /\ step'[r] >= 5 => step[r] >= 5
            /\ mode[r] = "egress" /\ step'[r] >= 2 => step[r] >= 2
        BY <2>1, <3>1, <3>6
      <4>. QED
        BY <1>2, <2>1, <3>1, <3>2, <4>1, ProxyStays DEF ProxyIs
    <3>. QED
      BY <3>4, <3>5, <3>6
  <2>4. CASE ~Reset(r) /\ ~Nexts(r)
    <3>1. pc[r] \in InBody /\ step'[r] = step[r] /\ verdict'[r] = verdict[r]
      BY <1>2, <2>4, AtWork DEF Begin, StepTimesOut, Unchecked, At, InBody
    <3>2. ProxyIs(r)
      BY <3>1 DEF AuditInv, ProxyOK
    <3>. QED
      BY <1>2, <2>1, <3>1, <3>2, ProxyStays DEF ProxyIs
  <2>. QED
    BY <2>2, <2>3, <2>4
<1>. QED
  BY <1>1, <1>2

-----------------------------------------------------------------------------
(***************************************************************************)
(* What is left when nobody holds the lock.                                *)
(***************************************************************************)
\* The run that holds the lock goes on to its clean-up, or what it leaves is
\* excused.
LEMMA Cleans ==
    ASSUME AuditInv, NEW r \in Runs, RunStep(r), lock = r,
           pc[r] \in InBody \cup {"finally", "cleaning", "stopping"}
    PROVE  /\ \/ /\ lock' = r /\ mode'[r] = mode[r] /\ client'[r] = client[r]
                 /\ pc'[r] \in InBody \cup {"finally"} \/ pc'[r] = pc[r]
              \/ Mask(r) \/ RemoveTransient(r) \/ StopProxy(r)
              \/ excused' = excused \cup LeftBy(r, proxy') /\ UNCHANGED dirVars
<1>0. Turns(r) /\ pc \in [Runs -> States]
  BY TurnIs DEF AuditInv, TypeOK
<1>1. CASE pc[r] \in InBody
  <2>1. CASE Kill(r)
    BY <2>1 DEF Kill
  <2>2. CASE ~Kill(r)
    <3>1. ~Dies(r)
      BY <1>0, <1>1, <2>2
         DEF Dies, Moves, Turn, RunStep, Advance, Work, Start, Look, Refuse, TakeLock, Busy,
             Reset, ResetRaises, CollectorsFailed, DraftNamesOther, Begin, Raises, StepTimesOut,
             RemoveNamed, Finish, Mask, RemoveTransient, StopProxy, Unmask, Unlock, Answer,
             StepDone, MeasureEnv, MeasureEgress, StepFails, WriteVault, VaultWritten,
             StoreRefuses, WriteReport, SyncReport, LinkReport, UnlinkTemporary, Term,
             OrphanWrites, OrphanEnds, NextStep, Ends, Goto, At, Unchecked, Doing, InBody, runVars
    <3>. QED
      BY <1>0, <1>1, <3>1
         DEF Turns, Inside, Starts, Declines, Takes, Enters, Begins, Waits, Nexts, Concludes,
             Closes, Closing, Unlocks, Tells, Stays, Moves, Turn, At, InBody
  <2>. QED
    BY <2>1, <2>2
<1>2. CASE pc[r] \in {"finally", "cleaning", "stopping"}
  <2>1. CASE Kill(r)
    BY <2>1 DEF Kill
  <2>2. CASE Term(r)
    <3>1. CASE pc[r] = "finally"
      <4>1. UNCHANGED proxy
        BY <2>2, <3>1 DEF Term, ProxyCutShort, Doing, At
      <4>. QED
        BY <2>2, <3>1, <4>1 DEF Term, At, Orphaned
    <3>2. CASE pc[r] \in {"cleaning", "stopping"}
      BY <2>2, <3>2 DEF Term
    <3>. QED
      BY <1>2, <3>1, <3>2
  <2>3. CASE ~Kill(r) /\ ~Term(r) /\ ~Mask(r) /\ ~RemoveTransient(r) /\ ~StopProxy(r)
    <3>1. OrphanWrites(r) \/ OrphanEnds(r)
      BY <1>2, <2>3
         DEF RunStep, Advance, Work, Start, Look, Refuse, TakeLock, Busy, Reset, ResetRaises,
             CollectorsFailed, DraftNamesOther, Begin, Raises, StepTimesOut, RemoveNamed, Finish,
             Unmask, Unlock, Answer, StepDone, MeasureEnv, MeasureEgress, StepFails, WriteVault,
             VaultWritten, StoreRefuses, WriteReport, SyncReport, LinkReport, UnlinkTemporary, At,
             Unchecked, Doing
    <3>. QED
      BY <3>1 DEF OrphanWrites, OrphanEnds, runVars, hostVars
  <2>. QED
    BY <2>1, <2>2, <2>3
<1>. QED
  BY <1>1, <1>2

LEMMA ProxyRests ==
    ASSUME AuditInv, NEW r \in Runs, RunStep(r), proxy', "proxy" \notin excused'
    PROVE  \E h \in Runs : /\ lock' = h /\ mode'[h] \in {"audit", "egress"}
                           /\ pc'[h] \in InBody \cup {"finally", "cleaning", "stopping"}
<1>0. Turns(r)
  BY TurnIs
<1>1. CASE proxy
  <2>1. "proxy" \notin excused
    <3>1. CASE StopProxy(r)
      BY <1>1, <3>1 DEF StopProxy
    <3>2. CASE Reset(r) /\ mode[r] \in Reports
      BY <3>2, ResetFrame, NoneAssumption
    <3>. QED
      BY <3>1, <3>2, OrphansIs DEF Leaves
  <2>2. PICK h \in Runs : /\ lock = h /\ mode[h] \in {"audit", "egress"}
                          /\ pc[h] \in InBody \cup {"finally", "cleaning", "stopping"}
    BY <1>1, <2>1 DEF AuditInv, RestOK
  <2>3. CASE h # r
    BY <2>2, <2>3, Beside
  <2>4. CASE h = r
    <3>1. CASE /\ lock' = r /\ mode'[r] = mode[r]
               /\ pc'[r] \in InBody \cup {"finally"} \/ pc'[r] = pc[r]
      BY <2>2, <2>4, <3>1
    <3>2. CASE Mask(r)
      <4>1. lock' = r /\ mode'[r] = mode[r] /\ pc'[r] \in {"cleaning", "stopping"}
        BY <2>2, <2>4, <3>2 DEF Mask, hostVars, Goto, AuditInv, TypeOK
      <4>. QED
        BY <2>2, <2>4, <4>1
    <3>3. CASE RemoveTransient(r)
      <4>1. lock' = r /\ mode'[r] = mode[r] /\ pc'[r] = "stopping"
        BY <2>2, <2>4, <3>3 DEF RemoveTransient, Goto, AuditInv, TypeOK
      <4>. QED
        BY <2>2, <2>4, <4>1
    <3>4. CASE StopProxy(r)
      BY <3>4 DEF StopProxy
    <3>5. CASE excused' = excused \cup LeftBy(r, proxy')
      BY <1>1, <3>5 DEF LeftBy
    <3>. QED
      BY <2>2, <2>4, <3>1, <3>2, <3>3, <3>4, <3>5, Cleans
  <2>. QED
    BY <2>3, <2>4
<1>2. CASE ~proxy
  <2>1. \/ StepDone(r) \/ MeasureEgress(r) \/ StepFails(r)
        \/ StepTimesOut(r) \/ Term(r) \/ Kill(r)
    BY <1>2
       DEF RunStep, Advance, Work, Start, Look, Refuse, TakeLock, Busy, Reset, ResetRaises,
           CollectorsFailed, DraftNamesOther, Begin, Raises, RemoveNamed, Finish, Mask,
           RemoveTransient, StopProxy, Unmask, Unlock, Answer, MeasureEnv, WriteVault,
           VaultWritten, StoreRefuses, WriteReport, SyncReport, LinkReport, UnlinkTemporary,
           OrphanWrites, OrphanEnds, hostVars
  <2>2. Current(r) = "proxy" /\ pc[r] = "working"
    BY <1>2, <2>1
       DEF StepDone, MeasureEgress, StepFails, StepTimesOut, Term, Kill, ProxyCutShort, Doing, At
  <2>3. mode[r] \in {"audit", "egress"} /\ lock = r
    BY <2>2, InPlan, CurrentIs DEF AuditInv, LockOK, Holding, InBody
  <2>4. CASE Kill(r)
    BY <1>2, <2>3, <2>4 DEF Kill, LeftBy
  <2>5. CASE Term(r)
    <3>1. Goto(r, "finally") /\ UNCHANGED <<lock, mode>>
      BY <2>2, <2>5 DEF Term, At
    <3>. QED
      BY <2>3, <3>1 DEF Goto, AuditInv, TypeOK
  <2>6. CASE StepDone(r) \/ MeasureEgress(r) \/ StepFails(r) \/ StepTimesOut(r)
    <3>1. lock' = r /\ UNCHANGED mode
      BY <2>3, <2>6 DEF StepDone, MeasureEgress, StepFails, StepTimesOut, Ends
    <3>2. pc'[r] \in {"ready", "finally", "removing"}
      BY <2>6
         DEF StepDone, MeasureEgress, StepFails, StepTimesOut, NextStep, Ends, Goto, AuditInv,
             TypeOK
    <3>. QED
      BY <2>3, <3>1, <3>2 DEF InBody
  <2>. QED
    BY <2>1, <2>4, <2>5, <2>6
<1>. QED
  BY <1>1, <1>2 DEF AuditInv, TypeOK

LEMMA DraftRests ==
    ASSUME AuditInv, NEW r \in Runs, RunStep(r), NEW c \in Clients,
           transient'[c] # None, c \notin excused'
    PROVE  \E h \in Runs : /\ lock' = h /\ mode'[h] = "audit" /\ client'[h] = c
                           /\ pc'[h] \in InBody \cup {"finally", "cleaning"}
<1>0. Turns(r)
  BY TurnIs
<1>1. CASE transient[c] # None /\ c \notin excused
  <2>2. PICK h \in Runs : /\ lock = h /\ mode[h] = "audit" /\ client[h] = c
                          /\ pc[h] \in InBody \cup {"finally", "cleaning"}
    BY <1>1 DEF AuditInv, RestOK
  <2>3. CASE h # r
    BY <2>2, <2>3, Beside
  <2>4. CASE h = r
    <3>1. CASE /\ lock' = r /\ mode'[r] = mode[r] /\ client'[r] = client[r]
               /\ pc'[r] \in InBody \cup {"finally"} \/ pc'[r] = pc[r]
      BY <2>2, <2>4, <3>1
    <3>2. CASE Mask(r)
      <4>1. lock' = r /\ mode'[r] = mode[r] /\ client'[r] = client[r] /\ pc'[r] = "cleaning"
        BY <2>2, <2>4, <3>2 DEF Mask, hostVars, Goto, AuditInv, TypeOK
      <4>. QED
        BY <2>2, <2>4, <4>1
    <3>3. CASE RemoveTransient(r)
      BY <2>2, <2>4, <3>3, RemoveFrame
    <3>4. CASE StopProxy(r)
      BY <2>2, <2>4, <3>4 DEF StopProxy, At, InBody
    <3>5. CASE excused' = excused \cup LeftBy(r, proxy')
      BY <1>1, <2>2, <2>4, <3>5 DEF LeftBy, Probes
    <3>. QED
      BY <2>2, <2>4, <3>1, <3>2, <3>3, <3>4, <3>5, Cleans
  <2>. QED
    BY <2>3, <2>4
<1>2. CASE transient[c] # None /\ c \in excused
  <2>1. CASE StopProxy(r)
    BY <1>2, <2>1, OrphansIs, NoneAssumption DEF StopProxy
  <2>2. CASE Reset(r) /\ mode[r] \in Reports
    BY <1>2, <2>2, ResetFrame
  <2>3. CASE excused \subseteq excused'
    BY <1>2, <2>3
  <2>. QED
    BY <2>1, <2>2, <2>3, OrphansIs DEF Leaves
<1>3. CASE transient[c] = None
  <2>1. CASE StepDone(r) \/ StepFails(r)
    <3>1. DirsBy(r, Current(r)) /\ mode[r] \in Reports /\ pc[r] = "working"
      BY <2>1, StepWrites DEF StepDone, StepFails, At
    <3>2. Current(r) = "draft" /\ client[r] = c
      BY <1>3, <3>1 DEF DirsBy
    <3>3. mode[r] = "audit"
      BY <3>1, <3>2, InPlan, CurrentIs DEF Reports
    <3>4. lock = r /\ lock' = r /\ UNCHANGED <<mode, client>>
      BY <2>1, <3>1 DEF AuditInv, LockOK, Holding, InBody, StepDone, StepFails, Ends
    <3>5. pc'[r] \in {"ready", "finally"}
      BY <2>1 DEF StepDone, StepFails, NextStep, Ends, Goto, AuditInv, TypeOK
    <3>. QED
      BY <3>2, <3>3, <3>4, <3>5 DEF InBody
  <2>2. CASE OrphanWrites(r)
    <3>1. client[r] = c
      BY <1>3, <2>2, OrphanWrote DEF DirsBy
    <3>2. c \in excused'
      BY <2>2, <3>1 DEF OrphanWrites, AuditInv, OrphanOK, hostVars
    <3>. QED
      BY <3>2
  <2>3. CASE (Reset(r) /\ mode[r] \in Reports) \/ RemoveTransient(r) \/ UNCHANGED dirVars
    BY <1>3, <2>3, ResetFrame, RemoveFrame DEF dirVars
  <2>. QED
    BY <2>1, <2>2, <2>3, DirsKept
<1>. QED
  BY <1>1, <1>2, <1>3

-----------------------------------------------------------------------------
(***************************************************************************)
(* The theorems.                                                           *)
(***************************************************************************)
LEMMA InitAudit == Init => AuditInv
<1>. SUFFICES ASSUME Init PROVE AuditInv
  OBVIOUS
<1>. USE NoneAssumption, AuditAssumption DEF Init
<1>1. TypeOK
  <2>1. /\ pc \in [Runs -> States] /\ mode \in [Runs -> Modes \cup {None}]
        /\ client \in [Runs -> Clients \cup {None}] /\ step \in [Runs -> Nat]
        /\ verdict \in [Runs -> Verdicts \cup {None}]
        /\ answer \in [Runs -> Answers \cup {None}]
        /\ term \in [Runs -> {"none", "held", "done"}]
        /\ orphan \in [Runs -> Containers \cup {None}]
        /\ archive \in [Runs -> Archived \cup {None}]
    BY DEF States
  <2>2. \A r \in Runs : step[r] = 1 \/ step[r] \in 1 .. Len(Plan(mode[r])) + 1
    <3>1. \A r \in Runs : step[r] = 1
      OBVIOUS
    <3>. QED
      BY <3>1
  <2>3. data \in [Clients -> [by : SUBSET Runs, bad : BOOLEAN]]
    OBVIOUS
  <2>4. Nothing \in Content
    BY DEF Nothing, Content
  <2>5. reports \in [Clients -> Content] /\ transient \in [Clients -> Content \cup {None}]
    BY <2>4
  <2>6. vault \in [Runs -> [by : SUBSET Runs, names : BOOLEAN, upto : 0 .. 4]]
    <3>1. [by |-> {}, names |-> FALSE, upto |-> 0]
            \in [by : SUBSET Runs, names : BOOLEAN, upto : 0 .. 4]
      OBVIOUS
    <3>. QED
      BY <3>1
  <2>7. /\ lock \in Runs \cup {None} /\ proxy \in BOOLEAN
        /\ excused \subseteq Clients \cup {"proxy"}
    OBVIOUS
  <2>8. signals \in 0 .. MaxSignals
    <3>1. signals = 0
      OBVIOUS
    <3>. QED
      BY <3>1, AuditAssumption, SMT
  <2>. QED
    BY <2>1, <2>2, <2>3, <2>5, <2>6, <2>7, <2>8 DEF TypeOK
<1>2. LockOK /\ RunOK
  BY DEF LockOK, Holding, InBody, RunOK, RunIs, Reports, Modes, Answers, Verdicts, Early
<1>3. KeptOK
  <2>1. ASSUME NEW r \in Runs PROVE KeptIs(r)
    <3>1. /\ vault[r].upto = 0 /\ archive[r] = None /\ step[r] = 1 /\ pc[r] = "idle"
      OBVIOUS
    <3>. QED
      BY <3>1 DEF KeptIs
  <2>. QED
    BY <2>1 DEF KeptOK
<1>4. TouchedOK /\ OrphanOK
  BY DEF TouchedOK, OrphanOK, Nothing
<1>5. OwnOK /\ ProxyOK /\ RestOK
  BY DEF OwnOK, ProxyOK, InBody, RestOK
<1>. QED
  BY <1>1, <1>2, <1>3, <1>4, <1>5 DEF AuditInv

LEMMA NextAudit == AuditInv /\ [Next]_vars => AuditInv'
<1>. SUFFICES ASSUME AuditInv, [Next]_vars PROVE AuditInv'
  OBVIOUS
<1>1. CASE UNCHANGED vars
  BY <1>1 DEF AuditInv, vars, runVars, dirVars, storeVars, hostVars, TypeOK, LockOK, RunOK, RunIs,
              KeptOK, KeptIs, TouchedOK, OrphanOK, OwnOK, OwnIs, ProxyOK, ProxyIs, RestOK, Heard,
              Doing, At, Current
<1>2. ASSUME NEW r \in Runs, RunStep(r) PROVE AuditInv'
  <2>1. Turns(r)
    BY <1>2, TurnIs
  <2>2. TypeOK'
    <3>1. DirsTyped'
      <4>1. DirsTyped
        BY TypeIs DEF AuditInv
      <4>. QED
        BY <1>2, <4>1, DirsKept, StepWrites, OrphanWrote, ResetFrame, RemoveFrame
           DEF dirVars, DirsTyped, DataTyped, ReportsTyped, TransientTyped
    <3>2. RunTyped' /\ StepsTyped' /\ StoreTyped' /\ HostTyped'
      BY <1>2, <2>1, RunTypedKept, StepsKept, StoreKept, HostKept
    <3>. QED
      BY <3>1, <3>2
         DEF TypeOK, RunTyped, StepsTyped, DirsTyped, DataTyped, ReportsTyped, TransientTyped,
             StoreTyped, HostTyped
  <2>3. RestOK'
    BY <1>2, ProxyRests, DraftRests DEF RestOK
  <2>. QED
    BY <1>2, <2>1, <2>2, <2>3, LockKept, RunKept, KeptKept, TouchedKept, OrphanKept, OwnKept,
       ProxyKept DEF AuditInv
<1>. QED
  BY <1>1, <1>2 DEF Next, Over, RunStep

\* At every step of a run the lock, the shared directories and the proxy are as
\* the run takes them to be.
THEOREM AuditInvAlways == Spec => []AuditInv
<1>1. Init => AuditInv
  BY InitAudit
<1>2. AuditInv /\ [Next]_vars => AuditInv'
  BY NextAudit
<1>. QED
  BY <1>1, <1>2, PTL DEF Spec

\* What a run puts in a vault or in the archive was collected, read and drafted
\* by that run, whatever was killed before and whatever container went on.
THEOREM StoredIsOwnAlways == Spec => []StoredIsOwn
<1>1. AuditInv => StoredIsOwn
  BY DEF AuditInv, KeptOK, KeptIs, StoredIsOwn
<1>. QED
  BY <1>1, AuditInvAlways, PTL

\* "ok" is said only of what is stored and whole, and a run that was refused or
\* failed before its last step has stored nothing.
THEOREM AnswersAreTrueAlways == Spec => []AnswersAreTrue
<1>1. AuditInv => OkIsTrue
  <2>1. SUFFICES ASSUME AuditInv, NEW r \in Runs, answer[r] = "ok"
                 PROVE  /\ mode[r] = "audit" => vault[r].upto = 4
                        /\ mode[r] = "figures" => archive[r] # None /\ archive[r].file = "name"
    BY DEF OkIsTrue
  <2>2. step[r] = Len(Plan(mode[r])) + 1
    BY <2>1 DEF AuditInv, RunOK, RunIs
  <2>3. /\ mode[r] = "audit" => step[r] = 7
        /\ mode[r] = "figures" => step[r] = 4
    <3>1. Len(Plan("audit")) = 6 /\ Len(Plan("figures")) = 3
      BY PlanIs
    <3>2. mode[r] = "audit" => step[r] = Len(Plan("audit")) + 1
      BY <2>2
    <3>3. mode[r] = "figures" => step[r] = Len(Plan("figures")) + 1
      BY <2>2
    <3>4. mode[r] = "audit" => step[r] = 6 + 1
      BY <3>1, <3>2
    <3>5. mode[r] = "figures" => step[r] = 3 + 1
      BY <3>1, <3>3
    <3>. QED
      BY <3>4, <3>5, SMT
  <2>4. KeptIs(r)
    BY <2>1 DEF AuditInv, KeptOK
  <2>. QED
    BY <2>3, <2>4 DEF KeptIs
<1>2. AuditInv => ReasonIsTrue
  <2>1. SUFFICES ASSUME AuditInv, NEW r \in Runs
                 PROVE  /\ answer[r] \in {"refused", "busy"} =>
                             \A c \in Clients : r \notin data[c].by \cup reports[c].by
                        /\ verdict[r] \in (Steps \ {"vault-write", "store"}) \cup {"isolation"} =>
                             vault[r].upto = 0 /\ archive[r] = None
    BY DEF ReasonIsTrue
  <2>. QED
    BY <2>1 DEF AuditInv, TouchedOK, Heard, KeptOK, KeptIs
<1>3. AuditInv => ListedReportIsWhole
  BY DEF AuditInv, KeptOK, KeptIs, ListedReportIsWhole
<1>. QED
  BY <1>1, <1>2, <1>3, AuditInvAlways, PTL DEF AnswersAreTrue

\* The variables have their types, and no other run's clean-up takes the proxy
\* away from a drafter.
THEOREM LockInvAlways == Spec => []LockInv
<1>1. AuditInv => DrafterHasProxy
  <2>1. SUFFICES ASSUME AuditInv, NEW r \in Runs, Doing(r, "draft")
                 PROVE  /\ mode[r] = "audit" => proxy
                        /\ mode[r] = "egress" /\ verdict[r] = None => proxy
    BY DEF DrafterHasProxy
  <2>2. pc[r] = "working" /\ ProxyIs(r)
    BY <2>1 DEF Doing, At, AuditInv, ProxyOK, InBody
  <2>3. \/ mode[r] = "audit" /\ step[r] = 5
        \/ mode[r] = "egress" /\ step[r] = 2
        \/ mode[r] = "env"
    BY <2>1, <2>2, InPlan, CurrentIs DEF Doing
  <2>. QED
    BY <2>2, <2>3 DEF ProxyIs
<1>2. AuditInv => TypeOK
  BY DEF AuditInv
<1>. QED
  BY <1>1, <1>2, AuditInvAlways, PTL DEF LockInv

\* When nobody holds the lock the proxy is down and no draft is left, but for
\* what a kill or a failed clean-up left.
THEOREM AtRestAlways == Spec => []AtRest
<1>1. AuditInv => AtRest
  BY NoneAssumption DEF AuditInv, RestOK, AtRest
<1>. QED
  BY <1>1, AuditInvAlways, PTL

=============================================================================
