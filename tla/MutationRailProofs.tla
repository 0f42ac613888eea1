------------------------- MODULE MutationRailProofs -------------------------
(***************************************************************************)
(* Proofs about MutationRail, for every value of its constants: its        *)
(* safety, then that its answers are true, and that with one broker it     *)
(* implements RequestPromise.                                              *)
(***************************************************************************)
EXTENDS RailTruth, FiniteSetTheorems, TLAPS

-----------------------------------------------------------------------------
(***************************************************************************)
(* What the updates of a run record produce is a run record.               *)
(***************************************************************************)
\* Ending a run with an exit status.
LEMMA SetExit ==
    ASSUME NEW f \in [Runs -> RunRecord], NEW x \in Runs, NEW p \in RunStates,
           NEW e \in 0 .. 4
    PROVE  [f EXCEPT ![x].pc = p, ![x].exit = e] \in [Runs -> RunRecord]
BY DEF RunRecord

\* Ending a run with a number of landed actions and an exit status.
LEMMA SetLanded ==
    ASSUME NEW f \in [Runs -> RunRecord], NEW x \in Runs, NEW p \in RunStates,
           NEW n \in 0 .. Actions, NEW e \in 0 .. 4
    PROVE  [f EXCEPT ![x].pc = p, ![x].landed = n, ![x].exit = e] \in [Runs -> RunRecord]
<1>. DEFINE g == [f EXCEPT ![x].pc = p]
<1>1. g \in [Runs -> RunRecord]
  BY DEF RunRecord
<1>2. [g EXCEPT ![x].landed = n, ![x].exit = e] \in [Runs -> RunRecord]
  <2>. HIDE DEF g
  <2>. QED
    BY <1>1, ZenonT(20) DEF RunRecord
<1>. QED
  BY <1>2

\* Ending a run by an exception after a change nobody could read of.
LEMMA SetUnread ==
    ASSUME NEW f \in [Runs -> RunRecord], NEW x \in Runs, NEW p \in RunStates,
           NEW n \in 0 .. Actions, NEW e \in 0 .. 4
    PROVE  [f EXCEPT ![x].pc = p, ![x].landed = n, ![x].unread = TRUE, ![x].exit = e]
               \in [Runs -> RunRecord]
<1>. DEFINE g == [f EXCEPT ![x].pc = p, ![x].landed = n]
<1>1. g \in [Runs -> RunRecord]
  BY ZenonT(20) DEF RunRecord
<1>2. [g EXCEPT ![x].unread = TRUE, ![x].exit = e] \in [Runs -> RunRecord]
  <2>. HIDE DEF g
  <2>. QED
    BY <1>1, ZenonT(20) DEF RunRecord
<1>. QED
  BY <1>2

\* Ending a run with a number of logged actions and an exit status.
LEMMA SetLogged ==
    ASSUME NEW f \in [Runs -> RunRecord], NEW x \in Runs, NEW p \in RunStates,
           NEW n \in 0 .. Actions, NEW e \in 0 .. 4
    PROVE  [f EXCEPT ![x].pc = p, ![x].logged = n, ![x].exit = e] \in [Runs -> RunRecord]
BY ZenonT(20) DEF RunRecord

\* Letting a run through with a verified approval.
LEMMA SetTicket ==
    ASSUME NEW f \in [Runs -> RunRecord], NEW x \in Runs, NEW p \in RunStates,
           NEW t \in 0 .. MaxTickets, NEW h \in BOOLEAN
    PROVE  [f EXCEPT ![x].pc = p, ![x].ticket = t, ![x].held = h] \in [Runs -> RunRecord]
<1>. DEFINE g == [f EXCEPT ![x].pc = p]
<1>1. g \in [Runs -> RunRecord]
  BY DEF RunRecord
<1>2. [g EXCEPT ![x].ticket = t, ![x].held = h] \in [Runs -> RunRecord]
  <2>. HIDE DEF g
  <2>. QED
    BY <1>1, ZenonT(20) DEF RunRecord
<1>. QED
  BY <1>2

\* Every step of a run leaves it a run record.
LEMMA TypeRun ==
    ASSUME TypeOK, ProgressOK, NEW x \in Runs, RunStep(x)
    PROVE  run' \in [Runs -> RunRecord]
<1>1. /\ "loaded" \in RunStates /\ "ready" \in RunStates
      /\ "landed" \in RunStates /\ "done" \in RunStates
  BY DEF RunStates
<1>2. 0 \in 0 .. 4 /\ 1 \in 0 .. 4 /\ 2 \in 0 .. 4 /\ 3 \in 0 .. 4 /\ 4 \in 0 .. 4
  OBVIOUS
<1>3. run \in [Runs -> RunRecord] /\ Actions \in Nat
  BY RailAssumption DEF TypeOK
<1>a. CASE RefuseUsage(x)
  BY <1>a, <1>1, <1>2, <1>3, SetExit DEF RefuseUsage
<1>b. CASE LoadSnapshot(x)
  <2>. DEFINE v == snapshot[run[x].cid]
  <2>1. v \in Versions \cup {None}
    BY <1>b, <1>3 DEF LoadSnapshot, TypeOK, ProgressOK
  <2>2. run' = [run EXCEPT ![x].pc = "loaded", ![x].ver = v]
    BY <1>b DEF LoadSnapshot
  <2>. HIDE DEF v
  <2>. QED
    BY <2>1, <2>2, <1>1, <1>3, ZenonT(20) DEF RunRecord
<1>c. CASE VerifyApproval(x)
  <2>. DEFINE a == approval[run[x].cid]
              t == a.ticket
              h == (a.for # None)
  <2>1. run[x].cid \in Cids
    BY <1>c, <1>3 DEF VerifyApproval, ProgressOK
  <2>2. a \in Approval
    BY <1>c, <2>1 DEF VerifyApproval, Accepts, TypeOK
  <2>3. t \in 0 .. MaxTickets /\ h \in BOOLEAN
    BY <2>2 DEF Approval
  <2>4. run' = [run EXCEPT ![x].pc = "ready", ![x].ticket = t, ![x].held = h]
    BY <1>c DEF VerifyApproval
  <2>. HIDE DEF t, h
  <2>. QED
    BY <2>3, <2>4, <1>1, <1>3, SetTicket
<1>d. CASE RefusePreflight(x)
  <2>1. PICK e \in {2, 4} : run' = [run EXCEPT ![x].pc = "done", ![x].exit = e]
    BY <1>d DEF RefusePreflight, Exit
  <2>. QED
    BY <2>1, <1>1, <1>2, <1>3, SetExit
<1>e. CASE Land(x)
  <2>1. run[x].landed + 1 \in 0 .. Actions
    BY <1>e, <1>3 DEF Land, ProgressOK, RunRecord
  <2>. QED
    BY <2>1, <1>e, <1>1, <1>3 DEF Land, RunRecord
<1>f. CASE MutatorFails(x)
  <2>1. PICK n \in {run[x].landed, run[x].landed + 1}, e \in {3, 4} :
           run' = [run EXCEPT ![x].pc = "done", ![x].landed = n, ![x].exit = e]
    BY <1>f DEF MutatorFails
  <2>2. n \in 0 .. Actions
    BY <1>f, <1>3 DEF MutatorFails, ProgressOK, RunRecord
  <2>. QED
    BY <2>1, <2>2, <1>1, <1>2, <1>3, SetLanded
<1>j. CASE InvokeRaises(x)
  <2>1. PICK e \in {2, 4} : run' = [run EXCEPT ![x].pc = "done", ![x].landed = 1,
                                                ![x].unread = TRUE, ![x].exit = e]
    BY <1>j DEF InvokeRaises
  <2>2. 1 \in 0 .. Actions
    BY RailAssumption
  <2>. QED
    BY <2>1, <2>2, <1>1, <1>2, <1>3, SetUnread
<1>g. CASE AppendLog(x)
  <2>1. run[x].logged + 1 \in 0 .. Actions
    BY <1>g, <1>3 DEF AppendLog, ProgressOK, RunRecord
  <2>. QED
    BY <2>1, <1>g, <1>1, <1>2, <1>3 DEF AppendLog, RunRecord
<1>h. CASE AppendLogFails(x)
  <2>1. PICK n \in {run[x].logged, run[x].logged + 1}, e \in {3, 4} :
           run' = [run EXCEPT ![x].pc = "done", ![x].logged = n, ![x].exit = e]
    BY <1>h DEF AppendLogFails
  <2>2. n \in 0 .. Actions
    BY <1>h, <1>3 DEF AppendLogFails, ProgressOK, RunRecord
  <2>. QED
    BY <2>1, <2>2, <1>1, <1>2, <1>3, SetLogged
<1>i. CASE Die(x)
  BY <1>i, <1>1, <1>2, <1>3, SetExit DEF Die
<1>. QED
  BY <1>a, <1>b, <1>c, <1>d, <1>e, <1>f, <1>g, <1>h, <1>i, <1>j DEF RunStep

-----------------------------------------------------------------------------
(***************************************************************************)
(* Type correctness.                                                       *)
(***************************************************************************)
\* A step of the gateway keeps every variable in its type.
LEMMA TypeGateway ==
    ASSUME TypeOK, Gateway
    PROVE  TypeOK'
<1>. USE DEF TypeOK, storeVars, brokerVars, batchVars, handVars
<1>1. ASSUME NEW r \in Rids, NEW c \in Cids, Submit(r, c) PROVE TypeOK'
  BY <1>1 DEF Submit
<1>2. ASSUME NEW r \in Rids, Malformed(r) PROVE TypeOK'
  BY <1>2 DEF Malformed
<1>3. ASSUME NEW r \in Rids, Withdraw(r) PROVE TypeOK'
  BY <1>3 DEF Withdraw
<1>. QED
  BY <1>1, <1>2, <1>3 DEF Gateway

\* A run started for a request and a change-set is a run record.
LEMMA StartedRunType ==
    ASSUME NEW r \in Rids \cup {None}, NEW c \in Cids
    PROVE  StartedRun(r, c) \in RunRecord
<1>1. "free" \in RunStates /\ "started" \in RunStates
  BY DEF RunStates
<1>2. 0 \in 0 .. MaxTickets /\ 0 \in 0 .. Actions /\ 4 \in 0 .. 4 /\ FALSE \in BOOLEAN
  BY RailAssumption
<1>. QED
  BY <1>1, <1>2 DEF StartedRun, FreeRun, RunRecord

\* A step of the operator keeps every variable in its type.
LEMMA TypeOperator ==
    ASSUME TypeOK, TicketOK, Operator
    PROVE  TypeOK'
<1>. USE DEF TypeOK, spoolVars, storeVars, brokerVars, batchVars, handVars
<1>1. ASSUME NEW c \in Cids, NEW v \in Versions, WriteSnapshot(c, v) PROVE TypeOK'
  BY <1>1 DEF WriteSnapshot
<1>2. CASE WriteApproval
  <2>. DEFINE c == approving.cid
              a == FreshApproval(tickets + 1, approving.ver)
  <2>1. tickets + 1 \in 0 .. MaxTickets /\ tickets + 1 \in 1 .. MaxTickets
    BY <1>2, RailAssumption DEF WriteApproval, TicketOK
  <2>2. c \in Cids /\ a \in Approval
    BY <1>2, <2>1 DEF WriteApproval, FreshApproval, Approval
  <2>3. approval' = [approval EXCEPT ![c] = a]
    BY <1>2 DEF WriteApproval
  <2>. HIDE DEF c, a
  <2>4. approval' \in [Cids -> Approval \cup {None}]
    BY <2>2, <2>3
  <2>. QED
    BY <1>2, <2>1, <2>4 DEF WriteApproval
<1>3. ASSUME NEW x \in HandRuns, NEW c \in Cids, NEW r \in Rids \cup {None},
             StartByHand(x, c, r)
      PROVE  TypeOK'
  <2>1. run' \in [Runs -> RunRecord]
    BY <1>3, StartedRunType DEF StartByHand, Runs
  <2>. QED
    BY <1>3, <2>1 DEF StartByHand
<1>. QED
  BY <1>1, <1>2, <1>3 DEF Operator

\* So does a new day, and so does a step of a run.
LEMMA TypeWorld ==
    ASSUME TypeOK, ProgressOK, NewDay \/ \E x \in Runs : RunStep(x)
    PROVE  TypeOK'
<1>. USE DEF TypeOK, spoolVars, storeVars, brokerVars, batchVars, handVars
<1>1. CASE NewDay
  BY <1>1, RailAssumption DEF NewDay
<1>2. ASSUME NEW x \in Runs, RunStep(x) PROVE TypeOK'
  <2>1. run' \in [Runs -> RunRecord]
    BY <1>2, TypeRun
  <2>2. UNCHANGED <<spoolVars, storeVars, today, brokerVars>>
    BY <1>2 DEF RunStep, RefuseUsage, LoadSnapshot, VerifyApproval, RefusePreflight,
                Land, InvokeRaises, MutatorFails, AppendLog, AppendLogFails, Die
  <2>. QED
    BY <2>1, <2>2
<1>. QED
  BY <1>1, <1>2

\* The steps that read the spool keep every variable in its type.
LEMMA TypeDrain ==
    ASSUME TypeOK, NEW b \in Brokers, DrainStep(b)
    PROVE  TypeOK'
<1>. USE DEF TypeOK, spoolVars, storeVars, brokerVars, batchVars, handVars
<1>1. /\ "idle" \in BrokerStates /\ "parse" \in BrokerStates /\ "loop" \in BrokerStates
      /\ "locked" \in BrokerStates /\ "except" \in BrokerStates
  BY DEF BrokerStates
<1>2. CASE Scan(b)
  BY <1>1, <1>2 DEF Scan, Present
<1>3. CASE IdleDrain(b)
  BY <1>3 DEF IdleDrain, vars
<1>4. CASE CountPending(b)
  <2>1. Cardinality(ParsedIds(b)) \in Nat
    BY FS_Subset, FS_CardinalityType, RailAssumption DEF ParsedIds
  <2>. QED
    BY <1>1, <1>4, <2>1 DEF CountPending
<1>5. CASE EndDrain(b)
  BY <1>1, <1>5, RailAssumption DEF EndDrain, Rest, DropHand, NothingParsed
<1>6. ASSUME NEW r \in Rids, Parse(b, r) PROVE TypeOK'
  <2>1. names' \in [Brokers -> SUBSET Rids]
    BY <1>6 DEF Parse
  <2>2. CASE requests[r] \in Cids
    <3>1. parsed' = [parsed EXCEPT ![b][r] = requests[r]] /\ UNCHANGED rejected
      BY <1>6, <2>2 DEF Parse
    <3>2. parsed' \in [Brokers -> [Rids -> Cids \cup {None}]]
      BY <2>2, <3>1
    <3>. QED
      BY <1>6, <2>1, <3>1, <3>2 DEF Parse
  <2>3. CASE requests[r] \notin Cids
    <3>1. rejected' = [rejected EXCEPT ![b] = @ \cup {r}] /\ UNCHANGED parsed
      BY <1>6, <2>3 DEF Parse
    <3>. QED
      BY <1>6, <2>1, <3>1 DEF Parse
  <2>. QED
    BY <2>2, <2>3
<1>7. ASSUME NEW r \in Rids, TakeRejected(b, r) PROVE TypeOK'
  BY <1>1, <1>7 DEF TakeRejected
<1>8. ASSUME NEW r \in Rids, TakeRequest(b, r) PROVE TypeOK'
  BY <1>1, <1>8 DEF TakeRequest
<1>. QED
  BY <1>2, <1>3, <1>4, <1>5, <1>6, <1>7, <1>8 DEF DrainStep

\* So do the steps that decide and answer without an executor.
LEMMA TypeProcess ==
    ASSUME TypeOK, NEW b \in Brokers, ProcessStep(b)
    PROVE  TypeOK'
<1>. USE DEF TypeOK, spoolVars, storeVars, brokerVars, batchVars, handVars
<1>1. /\ {"idle", "loop", "unseen", "accepted", "burned", "answer", "except",
          "rejecting", "discard"} \subseteq BrokerStates
      /\ {"refused_replay", "refused_quota", "refused_request"} \subseteq Classes
  BY DEF BrokerStates, Classes, Refusals
<1>0. now[b] \in 0 .. MaxDay
  BY RailAssumption
<1>2. CASE RefuseReplay(b)
  BY <1>1, <1>2, ZenonT(20) DEF RefuseReplay, Leave, Decide
<1>3. CASE NotSeen(b)
  BY <1>1, <1>3 DEF NotSeen
<1>4. CASE RefuseQuota(b)
  BY <1>1, <1>4 DEF RefuseQuota, Decide
<1>5. CASE Accept(b)
  BY <1>1, <1>5 DEF Accept
<1>6. CASE ProcessRaises(b)
  BY <1>1, <1>6 DEF ProcessRaises, Leave
<1>7. CASE BurnId(b)
  <2>1. seen' \in [Rids -> 0 .. MaxDay]
    BY <1>7, <1>0 DEF BurnId
  <2>. QED
    BY <1>1, <1>7, <2>1 DEF BurnId
<1>8. CASE BurnRaises(b)
  <2>1. seen' \in [Rids -> 0 .. MaxDay]
    BY <1>8, <1>0 DEF BurnRaises
  <2>. QED
    BY <1>1, <1>8, <2>1 DEF BurnRaises, Leave
<1>9. CASE AnswerRefusal(b)
  BY <1>1, <1>9 DEF AnswerRefusal, SetResult, Leave
<1>10. CASE AnswerRaises(b)
  BY <1>1, <1>10 DEF AnswerRaises, Leave
<1>11. CASE CheckResult(b)
  BY <1>1, <1>11 DEF CheckResult
<1>12. CASE WriteRejection(b)
  BY <1>1, <1>12 DEF WriteRejection, SetResult
<1>13. CASE RejectionRaises(b)
  BY <1>1, <1>13, RailAssumption DEF RejectionRaises, Rest, DropHand, NothingParsed
<1>14. CASE Discard(b)
  BY <1>1, <1>14 DEF Discard, DropHand
<1>. QED
  BY <1>2, <1>3, <1>4, <1>5, <1>6, <1>7, <1>8, <1>9, <1>10, <1>11, <1>12, <1>13,
     <1>14 DEF ProcessStep

\* So do the steps that reserve, start an executor and record what it did.
LEMMA TypeExecute ==
    ASSUME TypeOK, HandOK, NEW b \in Brokers, ExecuteStep(b)
    PROVE  TypeOK'
<1>. USE DEF TypeOK, spoolVars, storeVars, brokerVars, batchVars, handVars
<1>1. /\ {"reserved", "waiting", "finish", "publish", "answer", "except",
          "discard"} \subseteq BrokerStates
      /\ "refused_approval" \in Classes
      /\ \A rc : ClassOf(rc) \in Classes
  BY DEF BrokerStates, Classes, Refusals, Denials, MayHaveModified, ClassOf
<1>2. ASSUME NEW c, approval[c] # None
      PROVE  [approval EXCEPT ![c].for = cur[b]] \in [Cids -> Approval \cup {None}]
  BY <1>2, ZenonT(20) DEF Approval
<1>3. ASSUME NEW c, approval[c] # None
      PROVE  [approval EXCEPT ![c].closed = TRUE] \in [Cids -> Approval \cup {None}]
  BY <1>3, ZenonT(20) DEF Approval
<1>4. CASE Reserve(b)
  BY <1>1, <1>2, <1>4 DEF Reserve, Reservable
<1>5. CASE ReserveRaises(b)
  <2>1. approval' \in [Cids -> Approval \cup {None}]
    BY <1>2, <1>5, ZenonT(20) DEF ReserveRaises, Reservable
  <2>. QED
    BY <1>1, <1>5, <2>1 DEF ReserveRaises, Decide
<1>6. CASE LaunchRaises(b)
  BY <1>1, <1>6 DEF LaunchRaises, Leave
<1>7. CASE CollectExit(b)
  BY <1>1, <1>7 DEF CollectExit, Classify
<1>8. CASE Timeout(b)
  BY <1>1, <1>8 DEF Timeout, Classify
<1>9. CASE ShellKilled(b)
  BY <1>1, <1>9 DEF ShellKilled, Classify
<1>10. CASE RecordOutcome(b)
  BY <1>1, <1>3, <1>10 DEF RecordOutcome, Reservable
<1>11. CASE RecordOutcomeFails(b)
  BY <1>1, <1>11 DEF RecordOutcomeFails
<1>12. CASE PublishOutcome(b)
  BY <1>1, <1>12 DEF PublishOutcome, SetResult, Leave
<1>13. ASSUME NEW x \in BrokerRuns, Launch(b, x) PROVE TypeOK'
  <2>1. cur[b] \in Rids /\ CurCid(b) \in Cids
    BY <1>13 DEF Launch, HandOK, Locked, CurCid
  <2>2. run' \in [Runs -> RunRecord] /\ x \in Runs
    BY <1>13, <2>1, StartedRunType DEF Launch, Runs
  <2>. QED
    BY <1>1, <1>13, <2>2 DEF Launch
<1>. QED
  BY <1>4, <1>5, <1>6, <1>7, <1>8, <1>9, <1>10, <1>11, <1>12, <1>13 DEF ExecuteStep

\* The death of a broker keeps every variable in its type.
LEMMA TypeCrash ==
    ASSUME TypeOK, NEW b \in Brokers, Crash(b)
    PROVE  TypeOK'
<1>1. "idle" \in BrokerStates
  BY DEF BrokerStates
<1>. QED
  BY <1>1, RailAssumption DEF Crash, Rest, DropHand, NothingParsed, TypeOK, spoolVars,
                              storeVars, brokerVars, batchVars, handVars

\* Every step of the rail keeps every variable in its type.
LEMMA TypeStep ==
    ASSUME TypeOK, HandOK, ProgressOK, TicketOK, [Next]_vars
    PROVE  TypeOK'
<1>1. CASE UNCHANGED vars
  BY <1>1 DEF TypeOK, vars, spoolVars, storeVars, brokerVars, batchVars, handVars
<1>. QED
  BY <1>1, TypeGateway, TypeOperator, TypeWorld, TypeDrain, TypeProcess, TypeExecute,
     TypeCrash DEF Next, BrokerStep

-----------------------------------------------------------------------------
(***************************************************************************)
(* The steps that leave the brokers alone, and those that leave the runs   *)
(* alone.                                                                  *)
(***************************************************************************)
\* The gateway, the operator, the calendar and the runs touch no broker.
LEMMA OutsideFrame ==
    ASSUME Gateway \/ Operator \/ NewDay \/ \E x \in Runs : RunStep(x)
    PROVE  UNCHANGED <<lock, pc, now, names, parsed, rejected, pending, cur, child,
                       verdict, crashes, seen>>
<1>. USE DEF spoolVars, storeVars, brokerVars, batchVars, handVars
<1>1. CASE Gateway
  BY <1>1 DEF Gateway, Submit, Malformed, Withdraw
<1>2. CASE Operator
  BY <1>2 DEF Operator, WriteSnapshot, WriteApproval, StartByHand
<1>3. CASE NewDay
  BY <1>3 DEF NewDay
<1>4. CASE \E x \in Runs : RunStep(x)
  BY <1>4 DEF RunStep, RefuseUsage, LoadSnapshot, VerifyApproval, RefusePreflight, Land,
              InvokeRaises, MutatorFails, AppendLog, AppendLogFails, Die
<1>. QED
  BY <1>1, <1>2, <1>3, <1>4

\* Of the brokers' steps, only Launch starts a run, only BurnId and BurnRaises
\* write the seen-set, only Reserve, ReserveRaises and RecordOutcome write an
\* approval.
LEMMA BrokerFrame ==
    ASSUME NEW b \in Brokers, BrokerStep(b) \/ Crash(b)
    PROVE  /\ UNCHANGED <<snapshot, tickets, approving>>
           /\ (~ \E x \in BrokerRuns : Launch(b, x)) => UNCHANGED run
           /\ ~BurnId(b) /\ ~BurnRaises(b) => UNCHANGED seen
           /\ ~Reserve(b) /\ ~ReserveRaises(b) /\ ~RecordOutcome(b) => UNCHANGED approval
<1>. USE DEF vars, spoolVars, storeVars, brokerVars, batchVars, handVars
<1>1. CASE DrainStep(b)
  BY <1>1 DEF DrainStep, Scan, IdleDrain, CountPending, EndDrain, Parse, TakeRejected,
              TakeRequest
<1>2. CASE ProcessStep(b)
  BY <1>2 DEF ProcessStep, RefuseReplay, NotSeen, RefuseQuota, Accept, ProcessRaises,
              BurnId, BurnRaises, AnswerRefusal, AnswerRaises, CheckResult,
              WriteRejection, RejectionRaises, Discard
<1>3. CASE ExecuteStep(b)
  BY <1>3 DEF ExecuteStep, Reserve, ReserveRaises, LaunchRaises, CollectExit, Timeout,
              ShellKilled, Classify, RecordOutcome, RecordOutcomeFails, PublishOutcome,
              Launch
<1>4. CASE Crash(b)
  BY <1>4 DEF Crash
<1>. QED
  BY <1>1, <1>2, <1>3, <1>4 DEF BrokerStep

\* What a broker's step does to the state of its own drain, whoever else is
\* running: it moves on inside the lock with the same request in hand, takes
\* the lock while it is free, or is outside the lock afterwards.
LEMMA LockStep ==
    ASSUME TypeOK, HandOK, NEW b \in Brokers, BrokerStep(b) \/ Crash(b)
    PROVE  /\ \A a \in Brokers \ {b} : pc'[a] = pc[a] /\ cur'[a] = cur[a]
                                       /\ now'[a] = now[a] /\ parsed'[a] = parsed[a]
           /\ \/ /\ pc[b] \in Locked /\ pc'[b] \in Locked
                 /\ lock' = lock /\ cur'[b] = cur[b] /\ parsed'[b] = parsed[b]
                 /\ now'[b] = now[b]
              \/ \E r \in Rids : TakeRequest(b, r)
              \/ /\ pc'[b] \notin Locked
                 /\ lock' = lock \/ lock = b
<1>. USE DEF TypeOK, vars, spoolVars, storeVars, brokerVars, batchVars, handVars
<1>1. CASE DrainStep(b)
  BY <1>1 DEF DrainStep, Scan, IdleDrain, CountPending, EndDrain, Parse, TakeRejected,
              TakeRequest, Rest, DropHand, Locked, HandOK
<1>2. CASE ProcessStep(b)
  BY <1>2 DEF ProcessStep, RefuseReplay, NotSeen, RefuseQuota, Accept, ProcessRaises,
              BurnId, BurnRaises, AnswerRefusal, AnswerRaises, CheckResult,
              WriteRejection, RejectionRaises, Discard, Rest, DropHand, Locked, HandOK,
              Leave, Decide
<1>3. CASE ExecuteStep(b)
  BY <1>3 DEF ExecuteStep, Reserve, ReserveRaises, LaunchRaises, CollectExit, Timeout,
              ShellKilled, Classify, RecordOutcome, RecordOutcomeFails, PublishOutcome,
              Launch, Locked, HandOK, Leave, Decide
<1>4. CASE Crash(b)
  BY <1>4 DEF Crash, Rest, DropHand, Locked
<1>. QED
  BY <1>1, <1>2, <1>3, <1>4 DEF BrokerStep

-----------------------------------------------------------------------------
(***************************************************************************)
(* The parts of the invariant.                                             *)
(***************************************************************************)
\* Only one broker is inside the client lock, and it keeps its request.
LEMMA HandStep ==
    ASSUME TypeOK, HandOK, [Next]_vars
    PROVE  HandOK'
<1>1. CASE UNCHANGED vars
  BY <1>1 DEF HandOK, vars, brokerVars, batchVars, handVars
<1>2. CASE Gateway \/ Operator \/ NewDay \/ \E x \in Runs : RunStep(x)
  BY <1>2, OutsideFrame DEF HandOK
<1>3. ASSUME NEW b \in Brokers, BrokerStep(b) \/ Crash(b) PROVE HandOK'
  <2>. SUFFICES ASSUME NEW a \in Brokers, pc'[a] \in Locked
                PROVE  lock' = a /\ cur'[a] \in Rids /\ parsed'[a][cur'[a]] \in Cids
    BY DEF HandOK
  <2>1. CASE \E r \in Rids : TakeRequest(b, r)
    <3>1. PICK r \in Rids : TakeRequest(b, r)
      BY <2>1
    <3>2. a = b
      BY <1>3, <3>1, LockStep, RailAssumption DEF TakeRequest, HandOK
    <3>. QED
      BY <3>1, <3>2 DEF TakeRequest, TypeOK, ParsedIds, batchVars
  <2>2. CASE ~ \E r \in Rids : TakeRequest(b, r)
    BY <1>3, <2>2, LockStep DEF HandOK
  <2>. QED
    BY <2>1, <2>2
<1>. QED
  BY <1>1, <1>2, <1>3 DEF Next

\* A run changes the account one action at a time and logs each before the next.
LEMMA ProgressStep ==
    ASSUME TypeOK, HandOK, ProgressOK, [Next]_vars
    PROVE  ProgressOK'
<1>0. run \in [Runs -> RunRecord] /\ Actions \in Nat \ {0}
  BY RailAssumption DEF TypeOK
<1>1. CASE UNCHANGED run
  BY <1>1 DEF ProgressOK
<1>2. ASSUME NEW x \in Runs, RunStep(x) PROVE ProgressOK'
  <2>. USE <1>0 DEF ProgressOK, RunRecord
  <2>1. CASE RefuseUsage(x)
    BY <2>1 DEF RefuseUsage
  <2>2. CASE LoadSnapshot(x)
    BY <2>2 DEF LoadSnapshot
  <2>3. CASE VerifyApproval(x)
    BY <2>3 DEF VerifyApproval
  <2>4. CASE RefusePreflight(x)
    BY <2>4 DEF RefusePreflight, Exit
  <2>5. CASE Land(x)
    BY <2>5 DEF Land
  <2>6. CASE MutatorFails(x) \/ InvokeRaises(x)
    BY <2>6 DEF MutatorFails, InvokeRaises
  <2>7. CASE AppendLog(x)
    BY <2>7 DEF AppendLog
  <2>8. CASE AppendLogFails(x)
    BY <2>8 DEF AppendLogFails
  <2>9. CASE Die(x)
    BY <2>9 DEF Die
  <2>. QED
    BY <1>2, <2>1, <2>2, <2>3, <2>4, <2>5, <2>6, <2>7, <2>8, <2>9 DEF RunStep
<1>3. ASSUME NEW x \in Runs, NEW r, NEW c \in Cids,
             run' = [run EXCEPT ![x] = StartedRun(r, c)]
      PROVE  ProgressOK'
  BY <1>0, <1>3 DEF ProgressOK, StartedRun, FreeRun
<1>4. CASE Gateway \/ Operator \/ NewDay
  <2>1. ASSUME NEW x \in HandRuns, NEW c \in Cids, NEW r \in Rids \cup {None},
               StartByHand(x, c, r)
        PROVE  ProgressOK'
    BY <2>1, <1>3 DEF StartByHand, Runs
  <2>2. CASE ~ \E x \in HandRuns, c \in Cids, r \in Rids \cup {None} : StartByHand(x, c, r)
    <3>1. UNCHANGED run
      BY <1>4, <2>2 DEF Gateway, Submit, Malformed, Withdraw, Operator, WriteSnapshot,
                        WriteApproval, NewDay
    <3>. QED
      BY <3>1, <1>1
  <2>. QED
    BY <2>1, <2>2
<1>5. ASSUME NEW b \in Brokers, BrokerStep(b) \/ Crash(b) PROVE ProgressOK'
  <2>1. ASSUME NEW x \in BrokerRuns, Launch(b, x) PROVE ProgressOK'
    <3>1. CurCid(b) \in Cids
      BY <2>1 DEF Launch, HandOK, Locked, CurCid
    <3>. QED
      BY <2>1, <3>1, <1>3 DEF Launch, Runs
  <2>. QED
    BY <1>5, <2>1, <1>1, BrokerFrame
<1>. QED
  BY <1>1, <1>2, <1>4, <1>5 DEF Next, vars

\* A step of a run is that run's alone, and changes neither its request nor
\* its change-set.
LEMMA RunKeeps ==
    ASSUME TypeOK, NEW x \in Runs, RunStep(x)
    PROVE  /\ run[x].pc # "free"
           /\ \A y \in Runs : /\ y # x => run'[y] = run[y]
                              /\ run'[y].pc = "free" <=> run[y].pc = "free"
                              /\ run'[y].rid = run[y].rid /\ run'[y].cid = run[y].cid
           /\ UNCHANGED <<approval, tickets, approving, seen>>
           /\ ~VerifyApproval(x) =>
                 run'[x].ticket = run[x].ticket /\ run'[x].held = run[x].held
<1>1. run \in [Runs -> RunRecord]
  BY DEF TypeOK
<1>. USE <1>1 DEF RunRecord, storeVars
<1>a. CASE RefuseUsage(x)
  BY <1>a DEF RefuseUsage
<1>b. CASE LoadSnapshot(x)
  BY <1>b DEF LoadSnapshot
<1>c. CASE VerifyApproval(x)
  BY <1>c DEF VerifyApproval
<1>d. CASE RefusePreflight(x)
  BY <1>d DEF RefusePreflight, Exit
<1>e. CASE Land(x)
  BY <1>e DEF Land
<1>f. CASE MutatorFails(x) \/ InvokeRaises(x)
  BY <1>f DEF MutatorFails, InvokeRaises
<1>g. CASE AppendLog(x)
  BY <1>g DEF AppendLog
<1>h. CASE AppendLogFails(x)
  BY <1>h DEF AppendLogFails
<1>i. CASE Die(x)
  BY <1>i DEF Die
<1>. QED
  BY <1>a, <1>b, <1>c, <1>d, <1>e, <1>f, <1>g, <1>h, <1>i DEF RunStep

\* How a broker comes to be anywhere between the replay check and the executor.
LEMMA WayIn ==
    ASSUME TypeOK, NEW b \in Brokers, BrokerStep(b) \/ Crash(b)
    PROVE  /\ pc'[b] = "unseen"   => NotSeen(b)
           /\ pc'[b] = "accepted" => Accept(b)
           /\ pc'[b] = "burned"   => BurnId(b)
           /\ pc'[b] = "reserved" => Reserve(b)
<1>. USE DEF TypeOK, vars, brokerVars
<1>1. CASE DrainStep(b)
  BY <1>1 DEF DrainStep, Scan, IdleDrain, CountPending, EndDrain, Parse, TakeRejected,
              TakeRequest, Rest
<1>2. CASE ProcessStep(b)
  BY <1>2 DEF ProcessStep, RefuseReplay, RefuseQuota, ProcessRaises, BurnRaises,
              AnswerRefusal, AnswerRaises, CheckResult, WriteRejection, RejectionRaises,
              Discard, Rest, Leave, Decide, NotSeen, Accept, BurnId
<1>3. CASE ExecuteStep(b)
  BY <1>3 DEF ExecuteStep, ReserveRaises, LaunchRaises, CollectExit, Timeout,
              ShellKilled, Classify, RecordOutcome, RecordOutcomeFails, PublishOutcome,
              Launch, Leave, Decide, Reserve
<1>4. CASE Crash(b)
  BY <1>4 DEF Crash, Rest
<1>. QED
  BY <1>1, <1>2, <1>3, <1>4 DEF BrokerStep

\* The ids are burned before they are executed, and executed once.
LEMMA BurnStep ==
    ASSUME TypeOK, HandOK, HandOK', BurnOK, OneRunPerRequest, [Next]_vars
    PROVE  BurnOK' /\ OneRunPerRequest'
<1>0. run \in [Runs -> RunRecord] /\ BrokerRuns \subseteq Runs
  BY DEF TypeOK, Runs
<1>1. ASSUME UNCHANGED <<pc, cur, seen>>,
             \A x \in BrokerRuns : /\ run'[x].pc = "free" <=> run[x].pc = "free"
                                   /\ run'[x].rid = run[x].rid
      PROVE  BurnOK' /\ OneRunPerRequest'
  BY <1>1 DEF BurnOK, Burned, OneRunPerRequest
<1>2. CASE UNCHANGED vars
  BY <1>2, <1>1 DEF vars, storeVars, brokerVars, handVars
<1>3. CASE Gateway \/ NewDay
  BY <1>3, <1>1, OutsideFrame DEF Gateway, Submit, Malformed, Withdraw, NewDay
<1>4. CASE Operator
  <2>1. \A x \in BrokerRuns : run'[x] = run[x]
    BY <1>4, <1>0, RailAssumption DEF Operator, WriteSnapshot, WriteApproval, StartByHand
  <2>. QED
    BY <1>4, <2>1, <1>1, OutsideFrame
<1>5. CASE \E x \in Runs : RunStep(x)
  BY <1>5, <1>0, <1>1, RunKeeps, OutsideFrame
<1>6. ASSUME NEW b \in Brokers, BrokerStep(b) \/ Crash(b)
      PROVE  BurnOK' /\ OneRunPerRequest'
  <2>1. \A a \in Brokers \ {b} : pc'[a] = pc[a] /\ cur'[a] = cur[a]
    BY <1>6, LockStep
  <2>2. pc[b] \in Locked => \A a \in Brokers \ {b} : pc[a] \notin Locked
    BY DEF HandOK
  <2>3. {"unseen", "accepted", "burned", "reserved"} \subseteq Locked
    BY DEF Locked
  <2>4. CASE BurnId(b) \/ BurnRaises(b)
    <3>1. /\ cur[b] \in Rids /\ ~Burned(cur[b]) /\ seen' = [seen EXCEPT ![cur[b]] = now[b]]
          /\ now[b] # 0 /\ UNCHANGED <<run, cur>> /\ pc[b] \in Locked
          /\ pc'[b] \notin {"unseen", "accepted", "reserved"}
      BY <2>4 DEF BurnId, BurnRaises, Leave, HandOK, BurnOK, Locked, TypeOK, batchVars,
                  handVars
    <3>2. \A r \in Rids : Burned(r) => Burned(r)'
      BY <3>1 DEF Burned, TypeOK
    <3>3. Burned(cur[b])'
      BY <3>1 DEF Burned, TypeOK
    <3>. QED
      BY <2>1, <2>2, <2>3, <3>1, <3>2, <3>3 DEF BurnOK, OneRunPerRequest
  <2>5. ASSUME NEW x \in BrokerRuns, Launch(b, x) PROVE BurnOK' /\ OneRunPerRequest'
    <3>1. /\ cur[b] \in Rids /\ Burned(cur[b]) /\ pc[b] \in Locked
          /\ \A y \in BrokerRuns : run[y].pc # "free" => run[y].rid # cur[b]
          /\ UNCHANGED <<seen, cur>> /\ pc'[b] = "waiting"
      BY <2>5 DEF Launch, HandOK, BurnOK, Locked, TypeOK, storeVars
    <3>2. /\ run'[x].rid = cur[b]
          /\ \A y \in BrokerRuns \ {x} : run'[y] = run[y]
      BY <2>5, <1>0 DEF Launch, StartedRun, FreeRun
    <3>. QED
      BY <2>1, <2>2, <2>3, <3>1, <3>2 DEF BurnOK, OneRunPerRequest, Burned
  <2>6. CASE ~BurnId(b) /\ ~BurnRaises(b) /\ ~ \E x \in BrokerRuns : Launch(b, x)
    <3>1. UNCHANGED <<seen, run>>
      BY <1>6, <2>6, BrokerFrame
    <3>2. pc'[b] \in {"unseen", "accepted"} => ~Burned(cur[b]) /\ cur'[b] = cur[b]
      BY <1>6, WayIn DEF NotSeen, Accept, BurnOK, handVars
    <3>3. pc'[b] \in {"burned", "reserved"} => pc[b] = "burned" /\ cur'[b] = cur[b]
      BY <1>6, <2>6, WayIn DEF Reserve, handVars
    <3>. QED
      BY <2>1, <3>1, <3>2, <3>3 DEF BurnOK, OneRunPerRequest, Burned
  <2>. QED
    BY <2>4, <2>5, <2>6
<1>. QED
  BY <1>2, <1>3, <1>4, <1>5, <1>6 DEF Next

\* A broker's step never changes which approval is in place, nor takes a
\* reservation away.
LEMMA ApprovalKeeps ==
    ASSUME TypeOK, NEW b \in Brokers, BrokerStep(b) \/ Crash(b), NEW c \in Cids,
           approval'[c] # None
    PROVE  /\ approval[c] # None
           /\ approval'[c].ticket = approval[c].ticket
           /\ approval[c].for # None => approval'[c].for = approval[c].for
<1>1. approval \in [Cids -> Approval \cup {None}]
  BY DEF TypeOK
<1>2. CASE Reserve(b) \/ ReserveRaises(b)
  BY <1>1, <1>2 DEF Reserve, ReserveRaises, Reservable, Approval
<1>3. CASE RecordOutcome(b)
  BY <1>1, <1>3 DEF RecordOutcome, Approval
<1>. QED
  BY <1>2, <1>3, BrokerFrame

\* What a broker's step does to a run: nothing, or it starts a fresh one.
LEMMA BrokerRunStep ==
    ASSUME TypeOK, NEW b \in Brokers, BrokerStep(b) \/ Crash(b), NEW x \in Runs
    PROVE  run'[x] = run[x] \/ (run'[x].ticket = 0 /\ ~run'[x].held)
<1>1. ASSUME NEW y \in BrokerRuns, Launch(b, y)
      PROVE  run'[x] = run[x] \/ (run'[x].ticket = 0 /\ ~run'[x].held)
  BY <1>1 DEF Launch, StartedRun, FreeRun, TypeOK
<1>. QED
  BY <1>1, BrokerFrame

\* The numbers of the approvals stay apart.
LEMMA TicketStep ==
    ASSUME TypeOK, ProgressOK, TicketOK, [Next]_vars
    PROVE  TicketOK'
<1>0. /\ run \in [Runs -> RunRecord] /\ approval \in [Cids -> Approval \cup {None}]
      /\ tickets \in Nat /\ MaxTickets \in Nat
  BY RailAssumption DEF TypeOK
<1>1. CASE UNCHANGED vars
  BY <1>1 DEF TicketOK, vars, storeVars
<1>2. CASE Gateway \/ NewDay
  BY <1>2 DEF Gateway, Submit, Malformed, Withdraw, NewDay, TicketOK, storeVars
<1>3. ASSUME NEW c \in Cids, NEW v \in Versions, WriteSnapshot(c, v) PROVE TicketOK'
  BY <1>3 DEF WriteSnapshot, TicketOK
<1>4. CASE WriteApproval
  <2>1. approving.cid \in Cids
    BY <1>4 DEF WriteApproval, TypeOK
  <2>2. /\ approval'[approving.cid].ticket = tickets + 1
        /\ \A c \in Cids : c # approving.cid => approval'[c] = approval[c]
        /\ tickets' = tickets + 1 /\ approving' = None /\ UNCHANGED run
    BY <1>0, <1>4, <2>1 DEF WriteApproval, FreshApproval
  <2>3. /\ \A c \in Cids : approval[c] # None => approval[c].ticket \in Nat
        /\ \A x \in Runs : run[x].ticket \in Nat
    BY <1>0 DEF Approval, RunRecord
  <2>. QED
    BY <1>0, <2>1, <2>2, <2>3 DEF TicketOK
<1>5. ASSUME NEW x \in HandRuns, NEW c \in Cids, NEW r \in Rids \cup {None},
             StartByHand(x, c, r)
      PROVE  TicketOK'
  BY <1>0, <1>5 DEF StartByHand, StartedRun, FreeRun, TicketOK, Runs, storeVars
<1>6. ASSUME NEW x \in Runs, RunStep(x) PROVE TicketOK'
  <2>1. run'[x].ticket <= tickets
    <3>1. CASE VerifyApproval(x)
      <4>1. run[x].cid \in Cids /\ run'[x].ticket = approval[run[x].cid].ticket
        BY <1>0, <3>1 DEF VerifyApproval, ProgressOK, RunRecord
      <4>. QED
        BY <3>1, <4>1 DEF VerifyApproval, Accepts, TicketOK
    <3>. QED
      BY <1>6, <3>1, RunKeeps DEF TicketOK
  <2>. QED
    BY <1>6, <2>1, RunKeeps DEF TicketOK
<1>7. ASSUME NEW b \in Brokers, BrokerStep(b) \/ Crash(b) PROVE TicketOK'
  <2>1. UNCHANGED <<tickets, approving>>
    BY <1>7, BrokerFrame
  <2>2. \A x \in Runs : run'[x].ticket <= tickets
    BY <1>0, <1>7, BrokerRunStep DEF TicketOK
  <2>3. \A c \in Cids : approval'[c] # None =>
            approval[c] # None /\ approval'[c].ticket = approval[c].ticket
    BY <1>7, ApprovalKeeps
  <2>. QED
    BY <2>1, <2>2, <2>3 DEF TicketOK
<1>. QED
  BY <1>1, <1>2, <1>3, <1>4, <1>5, <1>6, <1>7 DEF Next, Operator

\* A reservation is spent under the id it names and keeps naming that id.
LEMMA HeldStep ==
    ASSUME TypeOK, ProgressOK, TicketOK, HeldOK, ReservedRunsShareRequest, [Next]_vars
    PROVE  HeldOK' /\ ReservedRunsShareRequest'
<1>0. /\ run \in [Runs -> RunRecord] /\ approval \in [Cids -> Approval \cup {None}]
      /\ tickets \in Nat
  BY DEF TypeOK
<1>1. CASE UNCHANGED <<run, approval>>
  BY <1>1 DEF HeldOK, ReservedRunsShareRequest
<1>2. CASE UNCHANGED vars
  BY <1>2, <1>1 DEF vars, storeVars
<1>3. CASE Gateway \/ NewDay
  BY <1>3, <1>1 DEF Gateway, Submit, Malformed, Withdraw, NewDay, storeVars
<1>4. ASSUME NEW c \in Cids, NEW v \in Versions, WriteSnapshot(c, v)
      PROVE  HeldOK' /\ ReservedRunsShareRequest'
  BY <1>4, <1>1 DEF WriteSnapshot
<1>5. CASE WriteApproval
  <2>1. /\ approving.cid \in Cids
        /\ approval'[approving.cid].ticket = tickets + 1
        /\ \A c \in Cids : c # approving.cid => approval'[c] = approval[c]
        /\ UNCHANGED run
    BY <1>0, <1>5 DEF WriteApproval, FreshApproval, TypeOK
  <2>2. \A x \in Runs : run[x].ticket # tickets + 1
    BY <1>0 DEF TicketOK, RunRecord
  <2>. QED
    BY <2>1, <2>2 DEF HeldOK, ReservedRunsShareRequest
<1>6. ASSUME NEW x \in HandRuns, NEW c \in Cids, NEW r \in Rids \cup {None},
             StartByHand(x, c, r)
      PROVE  HeldOK' /\ ReservedRunsShareRequest'
  <2>1. /\ ~run'[x].held /\ UNCHANGED approval
        /\ \A y \in Runs \ {x} : run'[y] = run[y]
    BY <1>0, <1>6 DEF StartByHand, StartedRun, FreeRun, Runs, storeVars
  <2>. QED
    BY <2>1 DEF HeldOK, ReservedRunsShareRequest
<1>7. ASSUME NEW x \in Runs, RunStep(x) PROVE HeldOK' /\ ReservedRunsShareRequest'
  <2>1. CASE ~VerifyApproval(x)
    <3>1. \A y \in Runs : /\ run'[y].ticket = run[y].ticket
                          /\ run'[y].held = run[y].held
                          /\ run'[y].rid = run[y].rid
      BY <1>7, <2>1, RunKeeps
    <3>. QED
      BY <1>7, <3>1, RunKeeps DEF HeldOK, ReservedRunsShareRequest
  <2>2. CASE VerifyApproval(x)
    <3>. DEFINE c == run[x].cid
    <3>1. c \in Cids
      BY <2>2 DEF VerifyApproval, ProgressOK
    <3>2. /\ approval[c] # None /\ approval[c].ticket # 0
          /\ approval[c].for # None => run[x].rid # None /\ approval[c].for = run[x].rid
      BY <1>0, <2>2, <3>1 DEF VerifyApproval, Accepts, Approval
    <3>3. /\ run'[x].ticket = approval[c].ticket /\ run'[x].rid = run[x].rid
          /\ run'[x].held <=> approval[c].for # None
          /\ \A y \in Runs \ {x} : run'[y] = run[y]
          /\ UNCHANGED approval
      BY <1>0, <2>2 DEF VerifyApproval, RunRecord, storeVars
    <3>4. HeldOK'
      BY <3>1, <3>2, <3>3 DEF HeldOK, TicketOK
    <3>5. ReservedRunsShareRequest'
      BY <3>1, <3>2, <3>3 DEF HeldOK, ReservedRunsShareRequest
    <3>. QED
      BY <3>4, <3>5
  <2>. QED
    BY <2>1, <2>2
<1>8. ASSUME NEW b \in Brokers, BrokerStep(b) \/ Crash(b)
      PROVE  HeldOK' /\ ReservedRunsShareRequest'
  BY <1>8, BrokerRunStep, ApprovalKeeps DEF HeldOK, ReservedRunsShareRequest
<1>. QED
  BY <1>2, <1>3, <1>4, <1>5, <1>6, <1>7, <1>8 DEF Next, Operator

\* What is accepted on one day stays within the quota.
LEMMA QuotaStep ==
    ASSUME TypeOK, HandOK, BurnOK, QuotaOK, DailyQuotaHolds, [Next]_vars
    PROVE  QuotaOK' /\ DailyQuotaHolds'
<1>1. CASE UNCHANGED <<seen, pc, now>>
  BY <1>1 DEF QuotaOK, DailyQuotaHolds, AcceptedOn
<1>2. CASE UNCHANGED vars
  BY <1>2, <1>1 DEF vars, storeVars, brokerVars, batchVars
<1>3. CASE Gateway \/ Operator \/ NewDay \/ \E x \in Runs : RunStep(x)
  BY <1>3, <1>1, OutsideFrame
<1>4. ASSUME NEW b \in Brokers, BrokerStep(b) \/ Crash(b)
      PROVE  QuotaOK' /\ DailyQuotaHolds'
  <2>1. \A a \in Brokers \ {b} : pc'[a] = pc[a] /\ now'[a] = now[a]
    BY <1>4, LockStep
  <2>2. CASE BurnId(b) \/ BurnRaises(b)
    <3>0. PICK d0 \in 1 .. MaxDay : d0 = now[b]
      BY DEF TypeOK
    <3>1. /\ pc[b] = "accepted" /\ pc'[b] # "accepted" /\ d0 \in 1 .. MaxDay
          /\ cur[b] \in Rids /\ seen[cur[b]] = 0
          /\ seen' = [seen EXCEPT ![cur[b]] = d0] /\ UNCHANGED now
      BY <2>2, <3>0 DEF BurnId, BurnRaises, Leave, HandOK, BurnOK, Burned, Locked,
                       TypeOK, batchVars
    <3>2. AcceptedOn(d0)' = AcceptedOn(d0) \cup {cur[b]}
      BY <3>1 DEF AcceptedOn, TypeOK
    <3>3. \A d \in 1 .. MaxDay : d # d0 => AcceptedOn(d)' = AcceptedOn(d)
      BY <3>1 DEF AcceptedOn, TypeOK
    <3>4. IsFiniteSet(AcceptedOn(d0)) /\ cur[b] \notin AcceptedOn(d0)
      BY <3>1, FS_Subset, RailAssumption DEF AcceptedOn
    <3>5. Cardinality(AcceptedOn(d0)') = Cardinality(AcceptedOn(d0)) + 1
      BY <3>2, <3>4, FS_AddElement
    <3>6. Cardinality(AcceptedOn(d0)') <= DailyQuota
      BY <3>0, <3>1, <3>4, <3>5, FS_CardinalityType, RailAssumption DEF QuotaOK
    <3>7. DailyQuotaHolds'
      <4>1. SUFFICES ASSUME NEW d \in 1 .. MaxDay
                     PROVE  Cardinality(AcceptedOn(d)') <= DailyQuota
        BY DEF DailyQuotaHolds
      <4>2. CASE d = d0
        BY <4>2, <3>6
      <4>3. CASE d # d0
        BY <4>1, <4>3, <3>3 DEF DailyQuotaHolds
      <4>. QED
        BY <4>2, <4>3
    <3>8. \A a \in Brokers : pc'[a] # "accepted"
      BY <2>1, <3>1 DEF HandOK, Locked
    <3>. QED
      BY <3>7, <3>8 DEF QuotaOK
  <2>3. CASE ~BurnId(b) /\ ~BurnRaises(b)
    <3>1. UNCHANGED seen
      BY <1>4, <2>3, BrokerFrame
    <3>2. pc'[b] = "accepted" => now'[b] = now[b]
                                 /\ Cardinality(AcceptedOn(now[b])) < DailyQuota
      BY <1>4, WayIn DEF Accept, WithinQuota, batchVars
    <3>. QED
      BY <2>1, <3>1, <3>2 DEF QuotaOK, DailyQuotaHolds, AcceptedOn
  <2>. QED
    BY <2>2, <2>3
<1>. QED
  BY <1>2, <1>3, <1>4 DEF Next

-----------------------------------------------------------------------------
(***************************************************************************)
(* The invariant and the theorems.                                         *)
(***************************************************************************)
\* The rail starts with nothing burned, approved, reserved or running.
LEMMA InvInit == Init => RailInv
<1>. SUFFICES ASSUME Init PROVE RailInv
  OBVIOUS
<1>1. FreeRun \in RunRecord
  BY RailAssumption DEF FreeRun, RunRecord, RunStates
<1>2. TypeOK
  BY <1>1, RailAssumption DEF Init, TypeOK, NothingParsed, BrokerStates
<1>3. HandOK /\ ProgressOK /\ BurnOK /\ TicketOK /\ HeldOK /\ QuotaOK
  BY DEF Init, FreeRun, HandOK, ProgressOK, BurnOK, TicketOK, HeldOK, QuotaOK, Locked, Runs
<1>4. OneRunPerRequest /\ ReservedRunsShareRequest
  BY DEF Init, FreeRun, OneRunPerRequest, ReservedRunsShareRequest, Runs
<1>5. DailyQuotaHolds
  <2>1. \A d \in 1 .. MaxDay : AcceptedOn(d) = {}
    BY DEF Init, AcceptedOn
  <2>. QED
    BY <2>1, FS_EmptySet, RailAssumption DEF DailyQuotaHolds
<1>. QED
  BY <1>2, <1>3, <1>4, <1>5 DEF RailInv

\* Every step of the gateway, the operator, a run, a broker, the calendar and
\* every death of a broker preserves the invariant.
LEMMA InvStep == RailInv /\ [Next]_vars => RailInv'
<1>. SUFFICES ASSUME RailInv, [Next]_vars PROVE RailInv'
  OBVIOUS
<1>1. TypeOK'
  BY TypeStep DEF RailInv
<1>2. HandOK'
  BY HandStep DEF RailInv
<1>3. ProgressOK'
  BY ProgressStep DEF RailInv
<1>4. BurnOK' /\ OneRunPerRequest'
  BY <1>2, BurnStep DEF RailInv
<1>5. TicketOK'
  BY TicketStep DEF RailInv
<1>6. HeldOK' /\ ReservedRunsShareRequest'
  BY HeldStep DEF RailInv
<1>7. QuotaOK' /\ DailyQuotaHolds'
  BY QuotaStep DEF RailInv
<1>. QED
  BY <1>1, <1>2, <1>3, <1>4, <1>5, <1>6, <1>7 DEF RailInv

\* RailInv holds in every state of the rail.
THEOREM InvariantHolds == Spec => []RailInv
BY InvInit, InvStep, PTL DEF Spec

\* Every store, every record and every drain keeps its shape.
THEOREM TypeCorrect == Spec => []TypeOK
<1>1. RailInv => TypeOK
  BY DEF RailInv
<1>. QED
  BY <1>1, InvariantHolds, PTL

\* However many brokers, crashes, replays and re-approvals there are, a request
\* id gets at most one executor from the brokers (_process burns the id first).
THEOREM RunsOnce == Spec => []OneRunPerRequest
<1>1. RailInv => OneRunPerRequest
  BY DEF RailInv
<1>. QED
  BY <1>1, InvariantHolds, PTL

\* All runs that one reservation lets through verify_approval, the operator's
\* retries included, carry the request id it was made for.
THEOREM ReservationBindsRequest == Spec => []ReservedRunsShareRequest
<1>1. RailInv => ReservedRunsShareRequest
  BY DEF RailInv
<1>. QED
  BY <1>1, InvariantHolds, PTL

\* Hence a reservation lets at most one broker run through: two of them would
\* carry the same id.
THEOREM ReservationLetsOneThrough == Spec => []ReservationSpentOnce
<1>1. RailInv => ReservationSpentOnce
  <2>. SUFFICES ASSUME RailInv, NEW x \in BrokerRuns, NEW y \in BrokerRuns,
                       run[x].held, run[y].held, run[x].ticket = run[y].ticket
                PROVE  x = y
    BY DEF ReservationSpentOnce
  <2>1. run[x].rid = run[y].rid
    BY DEF RailInv, ReservedRunsShareRequest, Runs
  <2>2. run[x].pc # "free" /\ run[y].pc # "free"
    BY DEF RailInv, ProgressOK, Runs
  <2>. QED
    BY <2>1, <2>2 DEF RailInv, OneRunPerRequest
<1>. QED
  BY <1>1, InvariantHolds, PTL

\* accepted_requests_per_client_day bounds what is accepted on any day, over
\* drains that race each other or span midnight.
THEOREM QuotaIsKept == Spec => []DailyQuotaHolds
<1>1. RailInv => DailyQuotaHolds
  BY DEF RailInv
<1>. QED
  BY <1>1, InvariantHolds, PTL

-----------------------------------------------------------------------------
(***************************************************************************)
(* What a step can do to the runs, the seen-set and the results.           *)
(***************************************************************************)
\* A run never loses what it is or what it did, and one that is over does nothing
\* more.
LEMMA RunGoesOn ==
    ASSUME TypeOK, ProgressOK, NEW x \in Runs, RunStep(x)
    PROVE  /\ run[x].pc \notin {"free", "done"}
           /\ ~(KnownChange(x)' <=> KnownChange(x)) => KnownChange(x)'
           /\ KnownChange(x) => KnownChange(x)'
           /\ UNCHANGED results
<1>1. run \in [Runs -> RunRecord]
  BY DEF TypeOK
<1>. USE <1>1 DEF RunRecord, spoolVars, KnownChange, ProgressOK
<1>2. CASE RefuseUsage(x) \/ LoadSnapshot(x) \/ VerifyApproval(x) \/ RefusePreflight(x) \/ Die(x)
  BY <1>2 DEF RefuseUsage, LoadSnapshot, VerifyApproval, RefusePreflight, Exit, Die
<1>3. CASE Land(x)
  BY <1>3 DEF Land
<1>4. CASE MutatorFails(x) \/ InvokeRaises(x)
  BY <1>4 DEF MutatorFails, InvokeRaises
<1>5. CASE AppendLog(x)
  BY <1>5 DEF AppendLog
<1>6. CASE AppendLogFails(x)
  BY <1>6 DEF AppendLogFails
<1>. QED
  BY <1>2, <1>3, <1>4, <1>5, <1>6 DEF RunStep

\* What is outside the brokers writes no result, starts no run of theirs and burns no id.
LEMMA OutsideKeeps ==
    ASSUME TypeOK, Gateway \/ Operator \/ NewDay
    PROVE  UNCHANGED <<results, seen>> /\ \A x \in BrokerRuns : run'[x] = run[x]
<1>. USE DEF spoolVars, storeVars
<1>1. CASE Gateway \/ NewDay
  BY <1>1 DEF Gateway, Submit, Malformed, Withdraw, NewDay
<1>2. CASE Operator
  BY <1>2, RailAssumption DEF Operator, WriteSnapshot, WriteApproval, StartByHand, TypeOK, Runs
<1>. QED
  BY <1>1, <1>2

\* Of the brokers' steps three write a result, of the id in hand.
LEMMA AnswerFrame ==
    ASSUME NEW b \in Brokers, BrokerStep(b) \/ Crash(b),
           ~PublishOutcome(b), ~AnswerRefusal(b), ~WriteRejection(b)
    PROVE  UNCHANGED results
<1>. USE DEF vars, spoolVars
<1>1. CASE DrainStep(b)
  BY <1>1 DEF DrainStep, Scan, IdleDrain, CountPending, EndDrain, Parse, TakeRejected,
              TakeRequest
<1>2. CASE ProcessStep(b)
  BY <1>2 DEF ProcessStep, RefuseReplay, NotSeen, RefuseQuota, Accept, ProcessRaises,
              BurnId, BurnRaises, AnswerRaises, CheckResult, RejectionRaises, Discard
<1>3. CASE ExecuteStep(b)
  BY <1>3 DEF ExecuteStep, Reserve, ReserveRaises, LaunchRaises, CollectExit, Timeout,
              ShellKilled, Classify, RecordOutcome, RecordOutcomeFails, Launch
<1>4. CASE Crash(b)
  BY <1>4 DEF Crash
<1>. QED
  BY <1>1, <1>2, <1>3, <1>4 DEF BrokerStep

\* What a broker is about to say or waits for is its own.
LEMMA OthersKept ==
    ASSUME TypeOK, NEW b \in Brokers, BrokerStep(b) \/ Crash(b), NEW a \in Brokers \ {b}
    PROVE  child'[a] = child[a] /\ verdict'[a] = verdict[a]
<1>. USE DEF TypeOK, vars, brokerVars, handVars
<1>1. CASE DrainStep(b)
  BY <1>1 DEF DrainStep, Scan, IdleDrain, CountPending, EndDrain, Parse, TakeRejected,
              TakeRequest, Rest, DropHand
<1>2. CASE ProcessStep(b)
  BY <1>2 DEF ProcessStep, RefuseReplay, NotSeen, RefuseQuota, Accept, ProcessRaises,
              BurnId, BurnRaises, AnswerRefusal, AnswerRaises, CheckResult,
              WriteRejection, RejectionRaises, Discard, Rest, DropHand, Leave, Decide
<1>3. CASE ExecuteStep(b)
  BY <1>3 DEF ExecuteStep, Reserve, ReserveRaises, LaunchRaises, CollectExit, Timeout,
              ShellKilled, Classify, RecordOutcome, RecordOutcomeFails, PublishOutcome, Launch,
              Leave, Decide
<1>4. CASE Crash(b)
  BY <1>4 DEF Crash, Rest, DropHand
<1>. QED
  BY <1>1, <1>2, <1>3, <1>4 DEF BrokerStep

\* A burned id stays burned; a run of the brokers' stays one of its request's, keeps
\* what it did, and is over for good; and only Launch starts one.
LEMMA RunsGrow ==
    ASSUME RailInv, [Next]_vars
    PROVE  /\ \A r \in Rids : Burned(r) => Burned(r)'
           /\ \A x \in BrokerRuns :
                 /\ run[x].pc # "free" =>
                       /\ run'[x].pc # "free" /\ run'[x].rid = run[x].rid
                       /\ KnownChange(x) => KnownChange(x)'
                 /\ run[x].pc = "done" => run'[x] = run[x]
                 /\ run[x].pc = "free" /\ run'[x].pc # "free" =>
                       \E b \in Brokers : Launch(b, x) /\ run'[x].rid = cur[b]
<1>. DEFINE Grown(x) == /\ run[x].pc # "free" =>
                              /\ run'[x].pc # "free" /\ run'[x].rid = run[x].rid
                              /\ KnownChange(x) => KnownChange(x)'
                        /\ run[x].pc = "done" => run'[x] = run[x]
                        /\ run[x].pc = "free" /\ run'[x].pc # "free" =>
                              \E b \in Brokers : Launch(b, x) /\ run'[x].rid = cur[b]
<1>. USE DEF RailInv
<1>0. BrokerRuns \subseteq Runs /\ run \in [Runs -> RunRecord]
  BY DEF Runs, TypeOK
<1>1. ASSUME \A x \in BrokerRuns : run'[x] = run[x]
      PROVE  \A x \in BrokerRuns : Grown(x)
  BY <1>1 DEF KnownChange
<1>2. CASE UNCHANGED vars
  BY <1>1, <1>2 DEF vars, storeVars, Burned
<1>3. CASE Gateway \/ Operator \/ NewDay
  BY <1>1, <1>3, OutsideKeeps DEF Burned
<1>4. ASSUME NEW x \in Runs, RunStep(x)
      PROVE  UNCHANGED seen /\ \A y \in BrokerRuns : Grown(y)
  <2>1. \A y \in BrokerRuns \ {x} : run'[y] = run[y]
    BY <1>0, <1>4, RunKeeps
  <2>2. /\ run[x].pc \notin {"free", "done"} /\ run'[x].pc # "free" /\ run'[x].rid = run[x].rid
        /\ KnownChange(x) => KnownChange(x)'
    BY <1>4, RunKeeps, RunGoesOn
  <2>. QED
    BY <1>4, <2>1, <2>2, RunKeeps DEF KnownChange
<1>5. ASSUME NEW b \in Brokers, BrokerStep(b) \/ Crash(b)
      PROVE  /\ \A r \in Rids : Burned(r) => Burned(r)'
             /\ \A x \in BrokerRuns : Grown(x)
  <2>1. ASSUME NEW y \in BrokerRuns, Launch(b, y)
        PROVE  UNCHANGED seen /\ \A x \in BrokerRuns : Grown(x)
    <3>1. /\ run[y].pc = "free" /\ run'[y].rid = cur[b] /\ UNCHANGED seen
          /\ \A x \in BrokerRuns \ {y} : run'[x] = run[x]
      BY <1>0, <2>1 DEF Launch, StartedRun, FreeRun, storeVars
    <3>. QED
      BY <2>1, <3>1 DEF KnownChange
  <2>2. CASE BurnId(b) \/ BurnRaises(b)
    <3>1. seen' = [seen EXCEPT ![cur[b]] = now[b]] /\ now[b] # 0 /\ UNCHANGED run
      BY <2>2 DEF BurnId, BurnRaises, TypeOK
    <3>. QED
      BY <1>1, <3>1 DEF Burned, TypeOK
  <2>. QED
    BY <1>1, <1>5, <2>1, <2>2, BrokerFrame DEF Burned
<1>6. \A x \in BrokerRuns : Grown(x)
  BY <1>2, <1>1, <1>3, <1>4, <1>5, OutsideKeeps DEF Next, vars
<1>7. \A r \in Rids : Burned(r) => Burned(r)'
  BY <1>2, <1>3, <1>4, <1>5, OutsideKeeps DEF Next, vars, Burned, storeVars
<1>. QED
  BY <1>6, <1>7

\* What bears an answer out goes on doing so, unless a run is started for an id that
\* was told it has none.
LEMMA BearsKept ==
    ASSUME RailInv, [Next]_vars, NEW r \in Rids, NEW class, Bears(r, class),
           class = "refused_approval" =>
               ~ \E b \in Brokers, x \in BrokerRuns : Launch(b, x) /\ cur[b] = r
    PROVE  Bears(r, class)'
<1>1. \A x \in RunsFor(r) : x \in RunsFor(r)'
  BY RunsGrow DEF RunsFor
<1>2. class = "refused_approval" => Burned(r)' /\ RunsFor(r)' = {}
  <2>1. ASSUME NEW x \in RunsFor(r)', class = "refused_approval" PROVE FALSE
    <3>1. x \in BrokerRuns /\ run'[x].pc # "free" /\ run'[x].rid = r /\ x \notin RunsFor(r)
      BY <2>1 DEF RunsFor, Bears
    <3>2. run[x].pc = "free"
      BY <3>1, RunsGrow DEF RunsFor
    <3>. QED
      BY <2>1, <3>1, <3>2, RunsGrow
  <2>. QED
    BY <2>1, RunsGrow DEF Bears
<1>3. class \in Denials => \E x \in RunsFor(r)' : run'[x].pc = "done" /\ ~KnownChange(x)'
  <2>1. ASSUME NEW x \in RunsFor(r), run[x].pc = "done", ~KnownChange(x)
        PROVE  run'[x].pc = "done" /\ ~KnownChange(x)'
    BY <2>1, RunsGrow DEF RunsFor, KnownChange
  <2>. QED
    BY <1>1, <2>1 DEF Bears
<1>4. class = "accepted_applied" => \E x \in RunsFor(r)' : KnownChange(x)'
  BY <1>1, RunsGrow DEF Bears, RunsFor
<1>5. class \in MayHaveModified => RunsFor(r)' # {}
  BY <1>1 DEF Bears
<1>. QED
  BY <1>2, <1>3, <1>4, <1>5 DEF Bears

-----------------------------------------------------------------------------
(***************************************************************************)
(* The parts of the invariant.                                             *)
(***************************************************************************)
\* How a broker comes to wait, to speak, or to reject.
LEMMA WayToAnswer ==
    ASSUME TypeOK, NEW b \in Brokers, BrokerStep(b) \/ Crash(b)
    PROVE  /\ pc'[b] = "waiting"   => \E x \in BrokerRuns : Launch(b, x)
           /\ pc'[b] = "finish"    => CollectExit(b) \/ Timeout(b) \/ ShellKilled(b)
           /\ pc'[b] = "publish"   => RecordOutcome(b) \/ RecordOutcomeFails(b)
           /\ pc'[b] = "answer"    => RefuseReplay(b) \/ RefuseQuota(b) \/ ReserveRaises(b)
           /\ pc'[b] = "rejecting" => CheckResult(b)
<1>. USE DEF TypeOK, vars, brokerVars
<1>1. CASE DrainStep(b)
  BY <1>1 DEF DrainStep, Scan, IdleDrain, CountPending, EndDrain, Parse, TakeRejected,
              TakeRequest, Rest
<1>2. CASE ProcessStep(b)
  BY <1>2 DEF ProcessStep, RefuseReplay, NotSeen, RefuseQuota, Accept, BurnId, ProcessRaises,
              BurnRaises, AnswerRefusal, AnswerRaises, CheckResult, WriteRejection,
              RejectionRaises, Discard, Rest, Leave, Decide
<1>3. CASE ExecuteStep(b)
  BY <1>3 DEF ExecuteStep, Reserve, LaunchRaises, PublishOutcome, Leave, Launch, CollectExit,
              Timeout, ShellKilled, Classify, RecordOutcome, RecordOutcomeFails, ReserveRaises,
              Decide
<1>4. CASE Crash(b)
  BY <1>4 DEF Crash, Rest
<1>. QED
  BY <1>1, <1>2, <1>3, <1>4 DEF BrokerStep

\* A run exits with 1 or 2 only before its first live call, with 0 only after its last.
LEMMA ExitStep ==
    ASSUME RailInv, ExitOK, [Next]_vars
    PROVE  ExitOK'
<1>. USE DEF RailInv
<1>0. run \in [Runs -> RunRecord] /\ Actions \in Nat \ {0} /\ BrokerRuns \subseteq Runs
  BY RailAssumption DEF TypeOK, Runs
<1>1. CASE UNCHANGED run
  BY <1>1 DEF ExitOK, KnownChange
<1>2. ASSUME NEW x \in Runs, RunStep(x) PROVE ExitOK'
  <2>. USE <1>0 DEF ExitOK, RunRecord, KnownChange
  <2>1. CASE RefuseUsage(x)
    BY <2>1 DEF RefuseUsage, ProgressOK
  <2>2. CASE LoadSnapshot(x) \/ VerifyApproval(x)
    BY <2>2 DEF LoadSnapshot, VerifyApproval
  <2>3. CASE RefusePreflight(x)
    BY <2>3 DEF RefusePreflight, Exit
  <2>4. CASE Land(x) \/ Die(x)
    BY <2>4 DEF Land, Die
  <2>5. CASE MutatorFails(x) \/ InvokeRaises(x)
    BY <2>5 DEF MutatorFails, InvokeRaises
  <2>6. CASE AppendLog(x)
    BY <2>6 DEF AppendLog, ProgressOK
  <2>7. CASE AppendLogFails(x)
    BY <2>7 DEF AppendLogFails
  <2>. QED
    BY <1>2, <2>1, <2>2, <2>3, <2>4, <2>5, <2>6, <2>7 DEF RunStep
<1>3. ASSUME NEW x \in Runs, NEW r, NEW c, run' = [run EXCEPT ![x] = StartedRun(r, c)]
      PROVE  ExitOK'
  BY <1>0, <1>3 DEF ExitOK, StartedRun, FreeRun, KnownChange
<1>4. CASE Gateway \/ Operator \/ NewDay
  <2>1. ASSUME NEW x \in HandRuns, NEW c \in Cids, NEW r \in Rids \cup {None},
               StartByHand(x, c, r)
        PROVE  ExitOK'
    BY <2>1, <1>3 DEF StartByHand, Runs
  <2>2. CASE ~ \E x \in HandRuns, c \in Cids, r \in Rids \cup {None} : StartByHand(x, c, r)
    <3>1. UNCHANGED run
      BY <1>4, <2>2 DEF Gateway, Submit, Malformed, Withdraw, Operator, WriteSnapshot,
                        WriteApproval, NewDay
    <3>. QED
      BY <3>1, <1>1
  <2>. QED
    BY <2>1, <2>2
<1>5. ASSUME NEW b \in Brokers, BrokerStep(b) \/ Crash(b) PROVE ExitOK'
  <2>1. ASSUME NEW x \in BrokerRuns, Launch(b, x) PROVE ExitOK'
    BY <2>1, <1>0, <1>3 DEF Launch
  <2>. QED
    BY <1>5, <2>1, <1>1, BrokerFrame
<1>. QED
  BY <1>1, <1>2, <1>4, <1>5 DEF Next, vars

\* A broker waits for the run it started.
LEMMA ChildStep ==
    ASSUME RailInv, ChildOK, [Next]_vars
    PROVE  ChildOK'
<1>. USE DEF RailInv
<1>. SUFFICES ASSUME NEW a \in Brokers, pc'[a] = "waiting"
              PROVE  /\ child'[a] \in BrokerRuns
                     /\ run'[child'[a]].pc # "free" /\ run'[child'[a]].rid = cur'[a]
  BY DEF ChildOK
<1>1. ASSUME pc'[a] = pc[a], child'[a] = child[a], cur'[a] = cur[a]
      PROVE  /\ child'[a] \in BrokerRuns
             /\ run'[child'[a]].pc # "free" /\ run'[child'[a]].rid = cur'[a]
  BY <1>1, RunsGrow DEF ChildOK
<1>2. CASE UNCHANGED vars
  BY <1>1, <1>2 DEF vars, brokerVars, handVars
<1>3. CASE Gateway \/ Operator \/ NewDay \/ \E x \in Runs : RunStep(x)
  BY <1>1, <1>3, OutsideFrame
<1>4. ASSUME NEW b \in Brokers, BrokerStep(b) \/ Crash(b), b # a
      PROVE  pc'[a] = pc[a] /\ child'[a] = child[a] /\ cur'[a] = cur[a]
  BY <1>4, OthersKept, LockStep
<1>5. ASSUME NEW x \in BrokerRuns, Launch(a, x)
      PROVE  /\ child'[a] \in BrokerRuns
             /\ run'[child'[a]].pc # "free" /\ run'[child'[a]].rid = cur'[a]
  BY <1>5 DEF Launch, StartedRun, FreeRun, TypeOK, Runs
<1>. QED
  BY <1>1, <1>2, <1>3, <1>4, <1>5, WayToAnswer DEF Next

\* Whose run is over is answered by what it did; whose is not, by no refusal.
LEMMA VerdictIsBorne ==
    ASSUME RailInv, ExitOK, ChildOK, VerdictOK, NEW b \in Brokers, BrokerStep(b) \/ Crash(b),
           NEW class, verdict'[b] = class, pc'[b] \in {"finish", "publish", "answer"}
    PROVE  /\ pc'[b] = "answer" => class \in Refusals
           /\ pc'[b] # "answer" => class \in Denials \cup MayHaveModified
           /\ cur'[b] = cur[b] /\ cur[b] \in Rids /\ Bears(cur[b], class)
<1>. USE DEF RailInv, TypeOK
<1>1. CASE pc[b] = "waiting" /\ pc'[b] = "finish"
  <2>1. /\ child[b] \in BrokerRuns /\ child[b] \in Runs /\ run[child[b]].pc # "free"
        /\ run[child[b]].rid = cur[b] /\ cur[b] \in Rids
    BY <1>1 DEF ChildOK, HandOK, Locked, Runs
  <2>2. child[b] \in RunsFor(cur[b])
    BY <2>1 DEF RunsFor
  <2>3. cur'[b] = cur[b]
    BY <1>1, WayToAnswer DEF CollectExit, Timeout, ShellKilled, Classify
  <2>4. CASE CollectExit(b)
    <3>1. /\ run[child[b]].pc = "done" /\ class = ClassOf(run[child[b]].exit)
          /\ run[child[b]].exit \in 0 .. 4
      BY <2>1, <2>4 DEF CollectExit, Classify, RunRecord
    <3>2. /\ run[child[b]].exit \in {1, 2} => ~KnownChange(child[b])
          /\ run[child[b]].exit = 0 => KnownChange(child[b])
      BY <2>1, <3>1 DEF ExitOK
    <3>3. /\ class \in Denials \cup MayHaveModified
          /\ class \in Denials => run[child[b]].exit \in {1, 2}
          /\ class = "accepted_applied" => run[child[b]].exit = 0
      BY <3>1 DEF ClassOf, Denials, MayHaveModified
    <3>. QED
      BY <1>1, <2>1, <2>2, <2>3, <3>1, <3>2, <3>3 DEF Bears, Denials, MayHaveModified
  <2>5. CASE Timeout(b) \/ ShellKilled(b)
    <3>1. class \in {"failed_after_mutation", "failed_unknown_exit"}
      BY <2>5 DEF Timeout, ShellKilled, Classify, ClassOf
    <3>. QED
      BY <1>1, <2>1, <2>2, <2>3, <3>1 DEF Bears, Denials, MayHaveModified
  <2>. QED
    BY <1>1, <2>4, <2>5, WayToAnswer
<1>2. CASE pc'[b] = "publish"
  BY <1>2, WayToAnswer DEF RecordOutcome, RecordOutcomeFails, handVars, VerdictOK, HandOK, Locked
<1>3. CASE pc'[b] = "answer"
  <2>1. pc[b] \in Locked /\ cur[b] \in Rids /\ cur'[b] = cur[b]
    BY <1>3, WayToAnswer DEF RefuseReplay, RefuseQuota, ReserveRaises, Locked, HandOK
  <2>2. CASE RefuseReplay(b) \/ RefuseQuota(b)
    <3>1. class \in {"refused_replay", "refused_quota"}
      BY <1>3, <2>2 DEF RefuseReplay, RefuseQuota, Decide, Leave
    <3>. QED
      BY <1>3, <2>1, <3>1 DEF Bears, Refusals, Denials, MayHaveModified
  <2>3. CASE ReserveRaises(b)
    <3>1. class = "refused_approval" /\ pc[b] = "burned"
      BY <2>3 DEF ReserveRaises, Decide
    <3>2. Burned(cur[b]) /\ RunsFor(cur[b]) = {}
      BY <3>1 DEF BurnOK, RunsFor
    <3>. QED
      BY <1>3, <2>1, <3>1, <3>2 DEF Bears, Refusals, Denials, MayHaveModified
  <2>. QED
    BY <1>3, <2>2, <2>3, WayToAnswer
<1>. QED
  BY <1>1, <1>2, <1>3, WayToAnswer DEF CollectExit, Timeout, ShellKilled

\* Only a broker inside the lock publishes an outcome or a refusal of its own; the
\* handler's answer is no report.
LEMMA WhoWrites ==
    ASSUME RailInv, NEW b \in Brokers, BrokerStep(b) \/ Crash(b), results' # results
    PROVE  /\ \/ pc[b] \in {"publish", "answer"} /\ lock = b /\ pc'[b] = "discard"
                 /\ results' = [results EXCEPT ![cur[b]] = verdict[b]]
              \/ pc[b] = "rejecting" /\ pc'[b] = "discard"
                 /\ results' = [results EXCEPT ![cur[b]] = "refused_request"]
           /\ UNCHANGED <<run, seen, cur>>
<1>. USE DEF RailInv
<1>1. CASE PublishOutcome(b)
  BY <1>1 DEF PublishOutcome, SetResult, Leave, storeVars, handVars, HandOK, Locked, TypeOK
<1>2. CASE AnswerRefusal(b)
  BY <1>2 DEF AnswerRefusal, SetResult, Leave, storeVars, handVars, HandOK, Locked, TypeOK
<1>3. CASE WriteRejection(b)
  BY <1>3 DEF WriteRejection, SetResult, storeVars, handVars, TypeOK
<1>. QED
  BY <1>1, <1>2, <1>3, AnswerFrame

\* While a broker is inside the lock and not about to launch, nobody launches.
LEMMA NoLaunchBeside ==
    ASSUME RailInv, NEW a \in Brokers, pc[a] \in Locked, pc[a] # "reserved"
    PROVE  ~ \E b \in Brokers, x \in BrokerRuns : Launch(b, x)
BY DEF RailInv, HandOK, Launch, Locked

\* What a broker is about to write stays so.
LEMMA VerdictStaysSound ==
    ASSUME RailInv, ExitOK, ChildOK, VerdictOK, [Next]_vars, NEW a \in Brokers,
           pc'[a] \in {"finish", "publish", "answer"}
    PROVE  /\ pc'[a] = "answer" => verdict'[a] \in Refusals
           /\ pc'[a] # "answer" => verdict'[a] \in Denials \cup MayHaveModified
           /\ Bears(cur[a], verdict[a])'
<1>. DEFINE Sound(q, class) ==
              /\ pc'[a] = "answer" => class \in Refusals
              /\ pc'[a] # "answer" => class \in Denials \cup MayHaveModified
              /\ q \in Rids /\ Bears(q, class)
<1>1. ASSUME UNCHANGED <<pc[a], cur[a], verdict[a]>>
      PROVE  Sound(cur'[a], verdict'[a]) /\ pc[a] \in Locked /\ pc[a] # "reserved"
  BY <1>1 DEF VerdictOK, RailInv, HandOK, Locked
<1>2. Sound(cur'[a], verdict'[a]) /\ pc[a] \in Locked /\ pc[a] # "reserved"
  <2>1. CASE UNCHANGED vars
    BY <1>1, <2>1 DEF vars, brokerVars, handVars
  <2>2. CASE Gateway \/ Operator \/ NewDay \/ \E x \in Runs : RunStep(x)
    BY <1>1, <2>2, OutsideFrame
  <2>3. ASSUME NEW b \in Brokers, BrokerStep(b) \/ Crash(b), b # a
        PROVE  UNCHANGED <<pc[a], cur[a], verdict[a]>>
    BY <2>3, OthersKept, LockStep DEF RailInv
  <2>4. CASE BrokerStep(a) \/ Crash(a)
    <3>1. Sound(cur'[a], verdict'[a])
      BY <2>4, VerdictIsBorne
    <3>2. pc[a] \in {"waiting", "finish", "locked", "unseen", "burned"}
      BY <2>4, WayToAnswer DEF RailInv, CollectExit, Timeout, ShellKilled, RecordOutcome,
         RecordOutcomeFails, RefuseReplay, RefuseQuota, ReserveRaises
    <3>. QED
      BY <3>1, <3>2 DEF Locked
  <2>. QED
    BY <1>1, <2>1, <2>2, <2>3, <2>4 DEF Next
<1>3. PICK q, class : q = cur'[a] /\ class = verdict'[a]
  OBVIOUS
<1>4. Bears(q, class)'
  BY <1>2, <1>3, BearsKept, NoLaunchBeside
<1>5. Bears(cur[a], verdict[a])'
  BY <1>3, <1>4 DEF Bears
<1>. QED
  BY <1>2, <1>5

\* Inside the lock, past the replay check, there is no report to write over.
LEMMA NoReportStep ==
    ASSUME RailInv, VerdictOK, ResultsOK, [Next]_vars, NEW a \in Brokers,
           pc'[a] \in Locked \ {"locked"}
    PROVE  results'[cur'[a]] \notin MayHaveModified
<1>. USE DEF RailInv
<1>1. CASE UNCHANGED vars
  BY <1>1 DEF vars, brokerVars, handVars, spoolVars, VerdictOK
<1>2. CASE Gateway \/ Operator \/ NewDay
  BY <1>2, OutsideFrame, OutsideKeeps DEF VerdictOK
<1>3. ASSUME NEW x \in Runs, RunStep(x) PROVE results'[cur'[a]] \notin MayHaveModified
  BY <1>3, OutsideFrame, RunGoesOn DEF VerdictOK
<1>4. ASSUME NEW b \in Brokers, BrokerStep(b) \/ Crash(b), b # a
      PROVE  results'[cur'[a]] \notin MayHaveModified
  <2>1. pc'[a] = pc[a] /\ cur'[a] = cur[a] /\ lock = a /\ cur[a] \in Rids
        /\ results[cur[a]] \notin MayHaveModified
    BY <1>4, LockStep DEF HandOK, VerdictOK
  <2>2. CASE results' = results
    BY <2>1, <2>2
  <2>3. CASE results' = [results EXCEPT ![cur[b]] = "refused_request"]
    BY <2>1, <2>3 DEF TypeOK, MayHaveModified
  <2>. QED
    BY <1>4, <2>1, <2>2, <2>3, WhoWrites
<1>5. CASE BrokerStep(a) \/ Crash(a)
  <2>1. results' = results
    BY <1>5, WhoWrites DEF Locked
  <2>2. pc[a] \in Locked /\ cur'[a] = cur[a] /\ cur[a] \in Rids
    BY <1>5, LockStep DEF TakeRequest, HandOK, TypeOK
  <2>3. CASE pc[a] # "locked"
    BY <2>1, <2>2, <2>3 DEF VerdictOK
  <2>4. CASE pc[a] = "locked"
    <3>1. NotSeen(a) \/ RefuseReplay(a)
      BY <1>5, <2>4 DEF BrokerStep, DrainStep, ProcessStep, ExecuteStep, Crash, Scan, IdleDrain,
         CountPending, EndDrain, Parse, TakeRejected, TakeRequest, RefuseQuota, Accept,
         ProcessRaises, BurnId, BurnRaises, AnswerRefusal, AnswerRaises, CheckResult,
         WriteRejection, RejectionRaises, Discard, Reserve, ReserveRaises, LaunchRaises,
         CollectExit, Timeout, ShellKilled, RecordOutcome, RecordOutcomeFails, PublishOutcome,
         Launch, Rest, Leave, TypeOK, Locked
    <3>2. CASE NotSeen(a)
      BY <2>1, <2>2, <3>2 DEF NotSeen, ResultsOK, Bears, RunsFor, BurnOK
    <3>3. CASE RefuseReplay(a)
      BY <2>1, <2>2, <3>3, NoneAssumption DEF RefuseReplay, Leave, Locked, TypeOK, Classes
    <3>. QED
      BY <3>1, <3>2, <3>3
  <2>. QED
    BY <2>3, <2>4
<1>. QED
  BY <1>1, <1>2, <1>3, <1>4, <1>5 DEF Next

\* Together.
LEMMA VerdictStep ==
    ASSUME RailInv, ExitOK, ChildOK, VerdictOK, ResultsOK, [Next]_vars
    PROVE  VerdictOK'
BY VerdictStaysSound, NoReportStep DEF VerdictOK

\* A result that a step leaves alone stays so, and no broker starts on its way to
\* making it wrong.
LEMMA ResultKept ==
    ASSUME RailInv, ResultsOK, [Next]_vars, NEW r \in Rids, results'[r] = results[r]
    PROVE  /\ Bears(r, results[r])'
           /\ results'[r] = "refused_approval" =>
                 \A a \in Brokers : pc'[a] \in {"burned", "reserved"} => cur'[a] # r
<1>1. results[r] = "refused_approval" =>
        ~ \E b \in Brokers, x \in BrokerRuns : Launch(b, x) /\ cur[b] = r
  BY DEF ResultsOK, Launch
<1>2. PICK class : class = results[r]
  OBVIOUS
<1>3. Bears(r, class)'
  BY <1>1, <1>2, BearsKept DEF ResultsOK
<1>4. Bears(r, results[r])'
  BY <1>2, <1>3 DEF Bears
<1>5. ASSUME results[r] = "refused_approval", NEW a \in Brokers, pc'[a] \in {"burned", "reserved"}
      PROVE  cur'[a] # r
  <2>. USE DEF RailInv
  <2>1. CASE UNCHANGED <<pc[a], cur[a]>>
    BY <1>5, <2>1 DEF ResultsOK
  <2>2. CASE UNCHANGED vars
    BY <2>1, <2>2 DEF vars, brokerVars, handVars
  <2>3. CASE Gateway \/ Operator \/ NewDay \/ \E x \in Runs : RunStep(x)
    BY <2>1, <2>3, OutsideFrame
  <2>4. ASSUME NEW b \in Brokers, BrokerStep(b) \/ Crash(b), b # a
        PROVE  UNCHANGED <<pc[a], cur[a]>>
    BY <2>4, LockStep
  <2>5. CASE BrokerStep(a) \/ Crash(a)
    <3>1. BurnId(a) \/ Reserve(a)
      BY <1>5, <2>5, WayIn
    <3>2. CASE BurnId(a)
      BY <1>5, <3>2 DEF BurnId, handVars, BurnOK, ResultsOK, Bears
    <3>3. CASE Reserve(a)
      BY <1>5, <3>3 DEF Reserve, handVars, ResultsOK
    <3>. QED
      BY <3>1, <3>2, <3>3
  <2>. QED
    BY <2>1, <2>2, <2>3, <2>4, <2>5 DEF Next
<1>. QED
  BY <1>4, <1>5

\* What is written to results/ is so.
LEMMA ResultsStep ==
    ASSUME RailInv, VerdictOK, ResultsOK, [Next]_vars
    PROVE  ResultsOK'
<1>. SUFFICES ASSUME NEW r \in Rids
              PROVE  /\ Bears(r, results[r])'
                     /\ results'[r] = "refused_approval" =>
                           \A a \in Brokers : pc'[a] \in {"burned", "reserved"} => cur'[a] # r
  BY DEF ResultsOK
<1>1. CASE results'[r] = results[r]
  BY <1>1, ResultKept
<1>2. CASE results'[r] # results[r]
  <2>. USE DEF RailInv
  <2>1. PICK b \in Brokers : BrokerStep(b) \/ Crash(b)
    BY <1>2, OutsideKeeps, RunGoesOn DEF Next, vars, spoolVars
  <2>2. /\ cur[b] = r /\ pc'[b] = "discard" /\ UNCHANGED <<run, seen, cur>>
        /\ \/ pc[b] \in {"publish", "answer"} /\ lock = b /\ results'[r] = verdict[b]
           \/ results'[r] = "refused_request"
    BY <1>2, <2>1, WhoWrites DEF TypeOK
  <2>3. PICK class : class = results'[r]
    OBVIOUS
  <2>4. Bears(r, class)
    BY <2>2, <2>3 DEF VerdictOK, Bears, Denials, MayHaveModified
  <2>5. Bears(r, class)'
    BY <2>2, <2>4 DEF Bears, RunsFor, Burned, KnownChange
  <2>6. Bears(r, results[r])'
    BY <2>3, <2>5 DEF Bears
  <2>7. ASSUME results'[r] = "refused_approval", NEW a \in Brokers,
               pc'[a] \in {"burned", "reserved"}
        PROVE  cur'[a] # r
    <3>1. a # b /\ lock = b
      BY <2>2, <2>7
    <3>2. pc'[a] = pc[a]
      BY <2>1, <3>1, LockStep
    <3>. QED
      BY <2>7, <3>1, <3>2 DEF HandOK, Locked
  <2>. QED
    BY <2>6, <2>7
<1>. QED
  BY <1>1, <1>2

\* With one broker nothing comes between the handler's look and its write.
LEMMA RejectingStep ==
    ASSUME RailInv, RejectingOK, \A a, b \in Brokers : a = b, [Next]_vars
    PROVE  RejectingOK'
<1>. USE DEF RailInv
<1>. SUFFICES ASSUME NEW a \in Brokers, pc'[a] = "rejecting"
              PROVE  results'[cur'[a]] \notin MayHaveModified
  BY DEF RejectingOK
<1>1. CASE UNCHANGED vars
  BY <1>1 DEF vars, brokerVars, handVars, spoolVars, RejectingOK
<1>2. CASE Gateway \/ Operator \/ NewDay
  BY <1>2, OutsideFrame, OutsideKeeps DEF RejectingOK
<1>3. ASSUME NEW x \in Runs, RunStep(x) PROVE results'[cur'[a]] \notin MayHaveModified
  BY <1>3, OutsideFrame, RunGoesOn DEF RejectingOK
<1>4. CASE BrokerStep(a) \/ Crash(a)
  BY <1>4, WayToAnswer, NoneAssumption DEF CheckResult, handVars, spoolVars, Classes, TypeOK
<1>. QED
  BY <1>1, <1>2, <1>3, <1>4 DEF Next

-----------------------------------------------------------------------------
(***************************************************************************)
(* The invariant, and what it says of the answers.                         *)
(***************************************************************************)
\* In the beginning nothing was answered.
LEMMA TruthInit == Init => TruthInv /\ RejectingOK
<1>. SUFFICES ASSUME Init PROVE TruthInv /\ RejectingOK
  OBVIOUS
<1>1. RailInv
  BY InvInit
<1>2. ExitOK /\ ChildOK /\ RejectingOK
  BY DEF Init, FreeRun, ExitOK, ChildOK, RejectingOK
<1>3. VerdictOK
  BY DEF Init, VerdictOK, Locked
<1>4. ResultsOK
  <2>1. None \notin Denials \cup MayHaveModified /\ None # "refused_approval"
        /\ None # "accepted_applied"
    BY NoneAssumption DEF Classes, Refusals, MayHaveModified
  <2>. QED
    BY <2>1 DEF Init, ResultsOK, Bears
<1>. QED
  BY <1>1, <1>2, <1>3, <1>4 DEF TruthInv

\* Every step keeps it.
LEMMA TruthStep == TruthInv /\ [Next]_vars => TruthInv'
BY InvStep, ExitStep, ChildStep, VerdictStep, ResultsStep DEF TruthInv

\* The invariant holds in every reachable state, with any number of brokers.
THEOREM TruthHolds == Spec => []TruthInv
<1>1. Init => TruthInv
  BY TruthInit
<1>. QED
  BY <1>1, TruthStep, PTL DEF Spec

\* No change of the account ever belongs to a request that was told its approval
\* could not be reserved, or that its run refused (bin/hermes-broker.py, _execute).
THEOREM BurnedRefusalAlways == Spec => []BurnedRefusalIsTrue
<1>1. TruthInv => BurnedRefusalIsTrue
  <2>. SUFFICES ASSUME TruthInv, NEW r \in Rids,
                       results[r] \in {"refused_approval", "refused_usage", "refused_preflight"},
                       NEW y \in RunsFor(r)
                PROVE  ~KnownChange(y)
    BY DEF BurnedRefusalIsTrue, Untouched
  <2>1. results[r] \in Denials
    BY DEF TruthInv, ResultsOK, Bears, Denials
  <2>2. PICK x \in RunsFor(r) : ~KnownChange(x)
    BY <2>1 DEF TruthInv, ResultsOK, Bears
  <2>3. x = y
    BY DEF TruthInv, RailInv, OneRunPerRequest, RunsFor
  <2>. QED
    BY <2>2, <2>3
<1>. QED
  BY <1>1, TruthHolds, PTL

-----------------------------------------------------------------------------
(***************************************************************************)
(* The refinement: what the stage of an id is, and what keeps it.          *)
(***************************************************************************)
\* Whether the account changed for the id.
Touched(r) == \E x \in RunsFor(r) : KnownChange(x)

\* The stage goes by the seen-set, the runs and what they did.
LEMMA StageIs ==
    ASSUME NEW r \in Rids
    PROVE  /\ Touched(r) => Stage(r) = "touched"
           /\ RunsFor(r) # {} /\ ~Touched(r) => Stage(r) = "launched"
           /\ RunsFor(r) = {} /\ Burned(r) => Stage(r) = "burned"
           /\ RunsFor(r) = {} /\ ~Burned(r) => Stage(r) = "fresh"
<1>1. Touched(r) <=> RunsFor(r) # {} /\ ~Untouched(r)
  BY DEF Touched, Untouched
<1>2. RunsFor(r) = {} => Untouched(r)
  BY DEF Untouched
<1>. QED
  BY <1>1, <1>2 DEF Stage

\* It is kept where these are.
LEMMA StageKept ==
    ASSUME NEW r \in Rids, Burned(r)' <=> Burned(r), RunsFor(r)' = RunsFor(r),
           \A x \in RunsFor(r) : (KnownChange(x)' <=> KnownChange(x))
    PROVE  Stage(r)' = Stage(r)
<1>1. Untouched(r)' <=> Untouched(r)
  BY DEF Untouched
<1>. QED
  BY <1>1 DEF Stage

\* A step that writes no seen-set and moves no run of the brokers'.
LEMMA AllStagesKept ==
    ASSUME seen' = seen, \A x \in BrokerRuns : run'[x] = run[x]
    PROVE  \A r \in Rids : Stage(r)' = Stage(r)
<1>1. ASSUME NEW r \in Rids
      PROVE  /\ Burned(r)' <=> Burned(r)
             /\ RunsFor(r)' = RunsFor(r)
             /\ \A x \in RunsFor(r) : (KnownChange(x)' <=> KnownChange(x))
  BY DEF Burned, RunsFor, KnownChange
<1>. QED
  BY <1>1, StageKept

\* A step that keeps stages and answers stutters.
LEMMA StutterMaps ==
    ASSUME \A r \in Rids : Stage(r)' = Stage(r), results' = results
    PROVE  UNCHANGED Promise!promiseVars
BY DEF Promise!promiseVars

\* A step of one id from stage to stage.
LEMMA StageMoves ==
    ASSUME NEW r \in Rids, results' = results, \A q \in Rids \ {r} : Stage(q)' = Stage(q),
           \/ Stage(r) = "fresh" /\ Stage(r)' = "burned"
           \/ /\ Stage(r) = "burned" /\ Stage(r)' = "launched"
              /\ results[r] # "refused_approval"
           \/ /\ Stage(r) = "launched" /\ Stage(r)' = "touched"
              /\ results[r] \notin Denials
    PROVE  Promise!PromiseNext
<1>1. CASE Stage(r)' = "burned"
  BY <1>1 DEF Promise!PromiseNext, Promise!Burn
<1>2. CASE Stage(r)' = "launched"
  BY <1>2 DEF Promise!PromiseNext, Promise!Launch
<1>3. CASE Stage(r)' = "touched"
  BY <1>3 DEF Promise!PromiseNext, Promise!Touch
<1>. QED
  BY <1>1, <1>2, <1>3

\* An answer that is borne out and written over no report.
LEMMA AnswerMaps ==
    ASSUME TruthInv, NEW r \in Rids, NEW class \in Classes,
           results' = [results EXCEPT ![r] = class], results[r] \notin MayHaveModified,
           Bears(r, class), \A q \in Rids : Stage(q)' = Stage(q)
    PROVE  Promise!PromiseNext
<1>1. class = "refused_approval" => Stage(r) = "burned"
  BY StageIs DEF Bears
<1>2. class \in Denials => Stage(r) = "launched"
  <2>1. ASSUME class \in Denials PROVE RunsFor(r) # {} /\ ~Touched(r)
    BY <2>1 DEF Bears, Touched, TruthInv, RailInv, OneRunPerRequest, RunsFor
  <2>. QED
    BY <2>1, StageIs
<1>3. class \in MayHaveModified => Stage(r) \in {"launched", "touched"}
  BY StageIs DEF Bears
<1>4. class = "accepted_applied" => Stage(r) = "touched"
  BY StageIs DEF Bears, Touched
<1>5. Promise!Answer(r, class)
  BY <1>1, <1>2, <1>3, <1>4 DEF Promise!Answer
<1>. QED
  BY <1>5 DEF Promise!PromiseNext, Classes

-----------------------------------------------------------------------------
(***************************************************************************)
(* The refinement: the steps.                                              *)
(***************************************************************************)
\* A run that changes the account for its id does so while that is not denied.
LEMMA RunStepMaps ==
    ASSUME TruthInv, NEW x \in Runs, RunStep(x)
    PROVE  [Promise!PromiseNext]_Promise!promiseVars
<1>. USE DEF TruthInv, RailInv
<1>1. /\ run[x].pc \notin {"free", "done"} /\ UNCHANGED <<results, seen>>
      /\ ~(KnownChange(x)' <=> KnownChange(x)) => KnownChange(x)'
      /\ \A y \in Runs : /\ y # x => run'[y] = run[y]
                         /\ run'[y].pc = "free" <=> run[y].pc = "free"
                         /\ run'[y].rid = run[y].rid
  BY RunGoesOn, RunKeeps
<1>2. BrokerRuns \subseteq Runs
  BY DEF Runs
<1>3. \A r \in Rids : /\ RunsFor(r)' = RunsFor(r)
                      /\ Burned(r)' <=> Burned(r)
  BY <1>1, <1>2 DEF RunsFor, Burned
<1>4. CASE x \notin BrokerRuns \/ (KnownChange(x)' <=> KnownChange(x))
  <2>1. \A y \in BrokerRuns : (KnownChange(y)' <=> KnownChange(y))
    BY <1>1, <1>2, <1>4 DEF KnownChange
  <2>2. \A r \in Rids : Stage(r)' = Stage(r)
    BY <1>3, <2>1, StageKept DEF RunsFor
  <2>. QED
    BY <1>1, <2>2, StutterMaps
<1>5. CASE x \in BrokerRuns /\ ~(KnownChange(x)' <=> KnownChange(x))
  <2>1. PICK r \in Rids : r = run[x].rid
    BY <1>1, <1>5 DEF BurnOK
  <2>2. x \in RunsFor(r) /\ x \in RunsFor(r)' /\ KnownChange(x)'
    BY <1>1, <1>3, <1>5, <2>1 DEF RunsFor
  <2>3. Touched(r)'
    BY <2>2 DEF Touched
  <2>4. Stage(r)' = "touched"
    <3>1. RunsFor(r)' # {} /\ ~Untouched(r)'
      BY <2>2 DEF Untouched
    <3>. QED
      BY <3>1 DEF Stage
  <2>5. \A q \in Rids \ {r} : Stage(q)' = Stage(q)
    <3>1. ASSUME NEW q \in Rids \ {r}, NEW y \in RunsFor(q)
          PROVE  KnownChange(y)' <=> KnownChange(y)
      BY <1>1, <1>2, <2>1, <3>1 DEF RunsFor, KnownChange
    <3>. QED
      BY <1>3, <3>1, StageKept
  <2>6. results[r] \notin Denials
    <3>1. ASSUME results[r] \in Denials PROVE FALSE
      <4>1. PICK y \in RunsFor(r) : run[y].pc = "done"
        BY <3>1 DEF ResultsOK, Bears
      <4>2. y = x
        BY <2>2, <4>1 DEF RunsFor, OneRunPerRequest
      <4>. QED
        BY <1>1, <4>1, <4>2
    <3>. QED
      BY <3>1
  <2>7. CASE Touched(r)
    <3>1. \A q \in Rids : Stage(q)' = Stage(q)
      BY <2>4, <2>5, <2>7, StageIs
    <3>. QED
      BY <1>1, <3>1, StutterMaps
  <2>8. CASE ~Touched(r)
    <3>1. Stage(r) = "launched"
      BY <2>2, <2>8, StageIs
    <3>. QED
      BY <1>1, <2>4, <2>5, <2>6, <3>1, StageMoves
  <2>. QED
    BY <2>7, <2>8
<1>. QED
  BY <1>4, <1>5

\* An id is burned once.
LEMMA BurnMaps ==
    ASSUME TruthInv, NEW b \in Brokers, BurnId(b) \/ BurnRaises(b)
    PROVE  Promise!PromiseNext
<1>. USE DEF TruthInv, RailInv
<1>1. /\ pc[b] = "accepted" /\ cur[b] \in Rids /\ now[b] # 0
      /\ seen' = [seen EXCEPT ![cur[b]] = now[b]] /\ UNCHANGED <<run, results>>
  BY DEF BurnId, BurnRaises, HandOK, Locked, TypeOK, spoolVars
<1>2. PICK r \in Rids : r = cur[b]
  BY <1>1
<1>3. ~Burned(r) /\ RunsFor(r) = {}
  BY <1>1, <1>2 DEF BurnOK, RunsFor
<1>4. Burned(r)' /\ \A q \in Rids \ {r} : Burned(q)' <=> Burned(q)
  BY <1>1, <1>2 DEF Burned, TypeOK
<1>5. \A q \in Rids : RunsFor(q)' = RunsFor(q)
  BY <1>1 DEF RunsFor
<1>6. Stage(r) = "fresh"
  BY <1>3, StageIs
<1>7. Stage(r)' = "burned"
  <2>1. Untouched(r)'
    BY <1>3, <1>5 DEF Untouched
  <2>. QED
    BY <1>3, <1>4, <1>5, <2>1 DEF Stage
<1>8. \A q \in Rids \ {r} : Stage(q)' = Stage(q)
  <2>1. \A x \in BrokerRuns : KnownChange(x)' <=> KnownChange(x)
    BY <1>1 DEF KnownChange
  <2>. QED
    BY <1>4, <1>5, <2>1, StageKept DEF RunsFor
<1>. QED
  BY <1>1, <1>6, <1>7, <1>8, StageMoves

\* A run is started for a burned id that was not told otherwise.
LEMMA LaunchMaps ==
    ASSUME TruthInv, NEW b \in Brokers, NEW x \in BrokerRuns, Launch(b, x)
    PROVE  Promise!PromiseNext
<1>. USE DEF TruthInv, RailInv
<1>1. /\ pc[b] = "reserved" /\ cur[b] \in Rids /\ run[x].pc = "free"
      /\ run'[x] = StartedRun(cur[b], CurCid(b)) /\ UNCHANGED <<seen, results>>
      /\ \A y \in BrokerRuns \ {x} : run'[y] = run[y]
  BY DEF Launch, HandOK, Locked, TypeOK, spoolVars, storeVars, Runs
<1>2. PICK r \in Rids : r = cur[b]
  BY <1>1
<1>3. run'[x].pc # "free" /\ run'[x].rid = r /\ ~KnownChange(x)'
  BY <1>1, <1>2 DEF StartedRun, FreeRun, KnownChange
<1>4. Burned(r) /\ RunsFor(r) = {} /\ results[r] # "refused_approval"
  BY <1>1, <1>2 DEF BurnOK, RunsFor, ResultsOK
<1>5. RunsFor(r)' = {x}
  BY <1>1, <1>3, <1>4 DEF RunsFor
<1>6. Stage(r) = "burned"
  BY <1>4, StageIs
<1>7. Stage(r)' = "launched"
  <2>1. Untouched(r)'
    BY <1>3, <1>5 DEF Untouched
  <2>. QED
    BY <1>5, <2>1 DEF Stage
<1>8. \A q \in Rids \ {r} : Stage(q)' = Stage(q)
  <2>1. ASSUME NEW q \in Rids \ {r}
        PROVE  /\ RunsFor(q)' = RunsFor(q) /\ (Burned(q)' <=> Burned(q))
               /\ \A y \in RunsFor(q) : (KnownChange(y)' <=> KnownChange(y))
    BY <1>1, <1>3 DEF RunsFor, Burned, KnownChange
  <2>. QED
    BY <2>1, StageKept
<1>. QED
  BY <1>1, <1>4, <1>6, <1>7, <1>8, StageMoves

\* What a broker writes is an answer the promise allows.
LEMMA WriteMaps ==
    ASSUME TruthInv, RejectingOK, NEW b \in Brokers, BrokerStep(b) \/ Crash(b),
           results' # results
    PROVE  Promise!PromiseNext
<1>. USE DEF TruthInv, RailInv
<1>1. UNCHANGED <<run, seen>> /\ \A q \in Rids : Stage(q)' = Stage(q)
  BY WhoWrites, AllStagesKept
<1>2. CASE /\ pc[b] \in {"publish", "answer"}
           /\ results' = [results EXCEPT ![cur[b]] = verdict[b]]
  <2>1. PICK r, class : r = cur[b] /\ class = verdict[b]
    OBVIOUS
  <2>2. /\ r \in Rids /\ class \in Classes /\ Bears(r, class)
        /\ results[r] \notin MayHaveModified
    BY <1>2, <2>1 DEF VerdictOK, HandOK, Locked, Classes
  <2>. QED
    BY <1>1, <1>2, <2>1, <2>2, AnswerMaps
<1>3. CASE /\ pc[b] = "rejecting"
           /\ results' = [results EXCEPT ![cur[b]] = "refused_request"]
  <2>1. cur[b] \in Rids
    BY <1>3 DEF TypeOK
  <2>2. PICK r \in Rids : r = cur[b]
    BY <2>1
  <2>3. /\ "refused_request" \in Classes /\ Bears(r, "refused_request")
        /\ results[r] \notin MayHaveModified
    BY <1>3, <2>2 DEF RejectingOK, Bears, Classes, Refusals, Denials, MayHaveModified
  <2>. QED
    BY <1>1, <1>3, <2>2, <2>3, AnswerMaps
<1>. QED
  BY <1>2, <1>3, WhoWrites

\* Every step of the rail is a step of the promise, or none of its business.
LEMMA StepMaps ==
    ASSUME TruthInv, RejectingOK, [Next]_vars
    PROVE  [Promise!PromiseNext]_Promise!promiseVars
<1>1. CASE UNCHANGED vars
  BY <1>1, AllStagesKept, StutterMaps DEF vars, spoolVars, storeVars
<1>2. CASE Gateway \/ Operator \/ NewDay
  BY <1>2, OutsideKeeps, AllStagesKept, StutterMaps DEF TruthInv, RailInv
<1>3. ASSUME NEW b \in Brokers, BrokerStep(b) \/ Crash(b)
      PROVE  [Promise!PromiseNext]_Promise!promiseVars
  <2>1. CASE BurnId(b) \/ BurnRaises(b) \/ \E x \in BrokerRuns : Launch(b, x)
    BY <2>1, BurnMaps, LaunchMaps
  <2>2. CASE results' # results
    BY <1>3, <2>2, WriteMaps
  <2>3. CASE /\ ~BurnId(b) /\ ~BurnRaises(b) /\ ~ \E x \in BrokerRuns : Launch(b, x)
             /\ results' = results
    <3>1. UNCHANGED <<seen, run>>
      BY <1>3, <2>3, BrokerFrame
    <3>. QED
      BY <2>3, <3>1, AllStagesKept, StutterMaps
  <2>. QED
    BY <2>1, <2>2, <2>3
<1>. QED
  BY <1>1, <1>2, <1>3, RunStepMaps DEF Next

\* In the beginning every id is fresh and unanswered.
LEMMA InitMaps == Init => Promise!PromiseInit
<1>. SUFFICES ASSUME Init PROVE Promise!PromiseInit
  OBVIOUS
<1>1. \A r \in Rids : RunsFor(r) = {} /\ ~Burned(r)
  BY DEF Init, FreeRun, RunsFor, Burned, Runs
<1>2. \A r \in Rids : Stage(r) = "fresh"
  BY <1>1, StageIs
<1>. QED
  BY <1>2 DEF Init, Promise!PromiseInit

\* With one broker, as its unit starts it, the rail keeps its promise, over any number
\* of crashes, failing system calls, approvals and a gateway that writes what it likes:
\* an id is burned and executed once, and an answer is given only where the stage of
\* the id bears it out and never over a report (bin/hermes-broker.py, drain).
THEOREM PromiseKept == (\A a, b \in Brokers : a = b) => (Spec => KeepsPromise)
<1>. SUFFICES ASSUME \A a, b \in Brokers : a = b PROVE Spec => KeepsPromise
  OBVIOUS
<1>1. Init => TruthInv /\ RejectingOK
  BY TruthInit
<1>2. (TruthInv /\ RejectingOK) /\ [Next]_vars => (TruthInv /\ RejectingOK)'
  BY TruthStep, RejectingStep DEF TruthInv
<1>3. (TruthInv /\ RejectingOK) /\ [Next]_vars => [Promise!PromiseNext]_Promise!promiseVars
  BY StepMaps
<1>. QED
  BY <1>1, <1>2, <1>3, InitMaps, PTL DEF Spec, KeepsPromise, Promise!PromiseSpec

-----------------------------------------------------------------------------
(***************************************************************************)
(* With one broker, no failing system call and a gateway that goes through *)
(* hermes-syscall.py, the answers of MutationRail are final until the      *)
(* broker dies, for every value of the other constants.                    *)
(***************************************************************************)

\* One broker, as its unit starts it; nothing fails; ids are fresh.
OneBroker(b) == Brokers = {b} /\ ~Faults /\ ~BypassClient

\* The invariant for broker b.
SettledAt(b) == Straight(b) /\ \A r \in Rids : Settled(b, r)

-----------------------------------------------------------------------------
(***************************************************************************)
(* What is outside the broker.                                             *)
(***************************************************************************)
\* The gateway only files a request that is new.
LEMMA GatewaySettled ==
    ASSUME NEW b, OneBroker(b), RailInv, SettledAt(b), Gateway
    PROVE  SettledAt(b)'
<1>1. PICK r \in Rids, c \in Cids : Submit(r, c)
  BY DEF OneBroker, Gateway, Malformed, Withdraw
<1>2. /\ r \notin filed /\ requests[r] = None /\ results[r] = None
      /\ filed' = filed \cup {r}
      /\ \A q \in Rids : requests'[q] = IF q = r THEN c ELSE requests[q]
  BY <1>1 DEF OneBroker, Submit, SettledAt, Settled, RailInv, TypeOK
<1>3. UNCHANGED <<results, seen, names, parsed, rejected, pc, cur, verdict>>
  BY <1>1 DEF Submit, storeVars, brokerVars, batchVars, handVars
<1>4. Straight(b)'
  BY <1>3 DEF SettledAt, Straight, Burned
<1>5. ASSUME NEW q \in Rids
      PROVE  Settled(b, q)'
  <2>1. Settled(b, q)
    BY DEF SettledAt
  <2>2. CASE q = r
    BY <1>2, <1>3, <2>1, <2>2 DEF Settled, AtWorkOn, Burned
  <2>3. CASE q # r
    BY <1>2, <1>3, <2>1, <2>3 DEF Settled, AtWorkOn, Burned
  <2>. QED
    BY <2>2, <2>3
<1>. QED
  BY <1>4, <1>5 DEF SettledAt

\* Steps that touch none of it.
LEMMA CalmSettled ==
    ASSUME NEW b, SettledAt(b),
           UNCHANGED <<requests, filed, results, seen, names, parsed, rejected, pc, cur, verdict>>
    PROVE  SettledAt(b)'
BY DEF SettledAt, Straight, Settled, AtWorkOn, Burned

\* The operator, the calendar and the runs do not.
LEMMA ElsewhereIsCalm ==
    ASSUME Operator \/ NewDay \/ (\E x \in Runs : RunStep(x)) \/ UNCHANGED vars
    PROVE  UNCHANGED <<requests, filed, results, seen, names, parsed, rejected, pc, cur, verdict>>
<1>. USE DEF vars, spoolVars, storeVars, brokerVars, batchVars, handVars
<1>1. CASE Operator
  BY <1>1 DEF Operator, WriteSnapshot, WriteApproval, StartByHand
<1>2. CASE NewDay \/ UNCHANGED vars
  BY <1>2 DEF NewDay
<1>3. ASSUME NEW x \in Runs, RunStep(x)
      PROVE  UNCHANGED <<spoolVars, storeVars, brokerVars>>
  BY <1>3 DEF RunStep, RefuseUsage, LoadSnapshot, VerifyApproval, RefusePreflight, Land,
              InvokeRaises, MutatorFails, AppendLog, AppendLogFails, Die
<1>. QED
  BY <1>1, <1>2, <1>3

-----------------------------------------------------------------------------
(***************************************************************************)
(* The drain.                                                              *)
(***************************************************************************)
\* A broker with a request in hand has it from the spool, and it has no answer yet.
LEMMA InHandUnanswered ==
    ASSUME NEW b, OneBroker(b), RailInv, SettledAt(b), pc[b] \in Locked
    PROVE  /\ cur[b] \in Rids /\ requests[cur[b]] # None /\ results[cur[b]] = None
           /\ names[b] = {}
<1>1. cur[b] \in Rids /\ parsed[b][cur[b]] \in Cids
  BY DEF OneBroker, RailInv, HandOK
<1>2. Settled(b, cur[b]) /\ Straight(b) /\ parsed[b][cur[b]] # None
  BY <1>1, RailAssumption DEF SettledAt
<1>. QED
  BY <1>1, <1>2 DEF Settled, Straight, Locked

\* Scanning, parsing, taking and resting: what is taken up is in the spool.
LEMMA DrainSettled ==
    ASSUME NEW b, OneBroker(b), RailInv, SettledAt(b), DrainStep(b)
    PROVE  SettledAt(b)'
<1>0. /\ b \in Brokers /\ pc \in [Brokers -> BrokerStates]
      /\ names \in [Brokers -> SUBSET Rids] /\ rejected \in [Brokers -> SUBSET Rids]
      /\ parsed \in [Brokers -> [Rids -> Cids \cup {None}]]
      /\ cur \in [Brokers -> Rids \cup {None}]
      /\ verdict \in [Brokers -> Classes \cup {None}]
  BY DEF OneBroker, RailInv, TypeOK
<1>. USE DEF spoolVars, storeVars, handVars
<1>1. CASE Scan(b)
  <2>1. /\ names'[b] = Present /\ pc'[b] = "parse" /\ pc[b] = "idle"
        /\ UNCHANGED <<requests, filed, results, seen, parsed, rejected, cur, verdict>>
    BY <1>0, <1>1 DEF Scan
  <2>. QED
    BY <2>1 DEF SettledAt, Straight, Settled, AtWorkOn, Burned, Present
<1>2. CASE IdleDrain(b)
  BY <1>2, ElsewhereIsCalm, CalmSettled DEF IdleDrain
<1>3. CASE CountPending(b)
  <2>1. /\ names[b] = {} /\ pc'[b] = "loop" /\ pc[b] = "parse"
        /\ UNCHANGED <<requests, filed, results, seen, names, parsed, rejected, cur, verdict>>
    BY <1>0, <1>3 DEF CountPending
  <2>. QED
    BY <2>1 DEF SettledAt, Straight, Settled, AtWorkOn, Burned
<1>4. CASE EndDrain(b)
  <2>1. /\ names'[b] = {} /\ pc'[b] = "idle" /\ pc[b] = "loop" /\ rejected'[b] = {}
        /\ \A r \in Rids : parsed'[b][r] = None
        /\ UNCHANGED <<requests, filed, results, seen>>
    BY <1>0, <1>4 DEF EndDrain, Rest, DropHand, NothingParsed
  <2>. QED
    BY <2>1 DEF SettledAt, Straight, Settled, AtWorkOn, Burned
<1>5. ASSUME NEW r \in Rids, Parse(b, r)
      PROVE  SettledAt(b)'
  <2>1. requests[r] \in Cids
    BY <1>5 DEF Parse, SettledAt, Settled
  <2>2. /\ names'[b] = names[b] \ {r} /\ pc[b] = "parse"
        /\ \A q \in Rids : parsed'[b][q] = IF q = r THEN requests[r] ELSE parsed[b][q]
        /\ UNCHANGED <<requests, filed, results, seen, pc, rejected, cur, verdict>>
    BY <1>0, <1>5, <2>1 DEF Parse
  <2>3. requests[r] # None
    BY <2>1, RailAssumption
  <2>. QED
    BY <2>2, <2>3 DEF SettledAt, Straight, Settled, AtWorkOn, Burned
<1>6. ASSUME NEW r \in Rids, TakeRejected(b, r)
      PROVE  FALSE
  BY <1>6 DEF TakeRejected, SettledAt, Straight
<1>7. ASSUME NEW r \in Rids, TakeRequest(b, r)
      PROVE  SettledAt(b)'
  <2>1. /\ pc'[b] = "locked" /\ pc[b] = "loop" /\ cur'[b] = r
        /\ UNCHANGED <<requests, filed, results, seen, names, parsed, rejected, verdict>>
    BY <1>0, <1>7 DEF TakeRequest, batchVars
  <2>. QED
    BY <2>1 DEF SettledAt, Straight, Settled, AtWorkOn, Burned
<1>. QED
  BY <1>1, <1>2, <1>3, <1>4, <1>5, <1>6, <1>7 DEF DrainStep

-----------------------------------------------------------------------------
(***************************************************************************)
(* A request in hand.                                                      *)
(***************************************************************************)
\* A step of the work on an id that neither answers nor burns.
LEMMA WorkSettled ==
    ASSUME NEW b, OneBroker(b), SettledAt(b),
           UNCHANGED <<requests, filed, results, seen, names, parsed, rejected, cur>>,
           pc[b] \in Locked, results[cur[b]] = None, names[b] = {},
           \/ pc'[b] \in {"unseen", "accepted"} /\ ~Burned(cur[b])
           \/ /\ pc[b] \in {"burned", "reserved", "waiting", "finish", "publish"}
              /\ pc'[b] \in {"reserved", "waiting"}
           \/ /\ pc[b] \in {"burned", "reserved", "waiting", "finish", "publish"}
              /\ pc'[b] \in {"finish", "publish"} /\ verdict'[b] # "failed_unknown_exit"
           \/ pc'[b] = "answer" /\ verdict'[b] = "refused_approval" /\ pc[b] = "burned"
           \/ pc'[b] = "answer" /\ verdict'[b] = "refused_quota" /\ ~Burned(cur[b])
    PROVE  SettledAt(b)'
<1>1. Straight(b)'
  BY DEF SettledAt, Straight, Burned
<1>2. ASSUME NEW r \in Rids
      PROVE  Settled(b, r)'
  <2>1. Settled(b, r) /\ (requests[r] # None /\ results[r] # None => cur[b] # r)
    BY DEF SettledAt, Settled, Locked
  <2>2. cur[b] = r /\ Burned(r) => AtWorkOn(b, r)'
    BY DEF AtWorkOn
  <2>. QED
    BY <2>1, <2>2 DEF Settled, AtWorkOn, Burned, Locked
<1>. QED
  BY <1>1, <1>2 DEF SettledAt

\* The steps of _process before anything is written.
LEMMA ProcessSettled ==
    ASSUME NEW b, OneBroker(b), RailInv, SettledAt(b),
           NotSeen(b) \/ RefuseQuota(b) \/ Accept(b)
    PROVE  SettledAt(b)'
<1>0. /\ b \in Brokers /\ pc \in [Brokers -> BrokerStates]
      /\ verdict \in [Brokers -> Classes \cup {None}]
  BY DEF OneBroker, RailInv, TypeOK
<1>1. pc[b] \in Locked
  BY DEF NotSeen, RefuseQuota, Accept, Locked
<1>2. results[cur[b]] = None /\ names[b] = {}
  BY <1>1, InHandUnanswered
<1>3. ~Burned(cur[b])
  BY <1>0 DEF NotSeen, RefuseQuota, Accept, RailInv, BurnOK
<1>4. UNCHANGED <<requests, filed, results, seen, names, parsed, rejected, cur>>
  BY DEF NotSeen, RefuseQuota, Accept, spoolVars, storeVars, batchVars, handVars
<1>5. \/ pc'[b] \in {"unseen", "accepted"}
      \/ pc'[b] = "answer" /\ verdict'[b] = "refused_quota"
  BY <1>0 DEF NotSeen, RefuseQuota, Accept, Decide
<1>. QED
  BY <1>1, <1>2, <1>3, <1>4, <1>5, WorkSettled

\* A replay is never met: a burned id has its answer, or is the one in hand.
LEMMA NoReplay ==
    ASSUME NEW b, OneBroker(b), RailInv, SettledAt(b)
    PROVE  ~RefuseReplay(b)
<1>. SUFFICES ASSUME RefuseReplay(b)
              PROVE  FALSE
  OBVIOUS
<1>1. pc[b] = "locked" /\ Burned(cur[b])
  BY DEF RefuseReplay
<1>2. cur[b] \in Rids /\ results[cur[b]] = None
  BY <1>1, InHandUnanswered DEF Locked
<1>. QED
  BY <1>1, <1>2 DEF SettledAt, Settled, AtWorkOn

\* The id is burned, and the broker is at work on it.
LEMMA BurnSettled ==
    ASSUME NEW b, OneBroker(b), RailInv, SettledAt(b), BurnId(b)
    PROVE  SettledAt(b)'
<1>0. /\ b \in Brokers /\ pc \in [Brokers -> BrokerStates]
      /\ seen \in [Rids -> 0 .. MaxDay]
  BY DEF OneBroker, RailInv, TypeOK
<1>1. cur[b] \in Rids /\ results[cur[b]] = None /\ names[b] = {} /\ pc[b] = "accepted"
  BY InHandUnanswered DEF BurnId, Locked
<1>2. /\ UNCHANGED <<requests, filed, results, names, parsed, rejected, cur, verdict>>
      /\ pc'[b] = "burned"
      /\ \A r \in Rids : r # cur[b] => seen'[r] = seen[r]
  BY <1>0 DEF BurnId, spoolVars, batchVars, handVars
<1>3. Straight(b)'
  BY <1>1, <1>2 DEF SettledAt, Straight
<1>4. ASSUME NEW r \in Rids
      PROVE  Settled(b, r)'
  <2>1. Settled(b, r)
    BY DEF SettledAt
  <2>2. CASE r = cur[b]
    <3>1. results[r] # "refused_quota"
      BY <1>1, <2>2, NoneAssumption DEF Classes, Refusals
    <3>. QED
      BY <1>1, <1>2, <2>1, <2>2, <3>1 DEF Settled, AtWorkOn, Burned
  <2>3. CASE r # cur[b]
    BY <1>1, <1>2, <2>1, <2>3 DEF Settled, AtWorkOn, Burned
  <2>. QED
    BY <2>2, <2>3
<1>. QED
  BY <1>3, <1>4 DEF SettledAt

\* The steps of _execute up to the last write.
LEMMA ExecuteSettled ==
    ASSUME NEW b, OneBroker(b), TruthInv, SettledAt(b), ExecuteStep(b), ~PublishOutcome(b)
    PROVE  SettledAt(b)'
<1>0. /\ b \in Brokers /\ pc \in [Brokers -> BrokerStates]
      /\ verdict \in [Brokers -> Classes \cup {None}]
  BY DEF OneBroker, TruthInv, RailInv, TypeOK
<1>1. ~LaunchRaises(b) /\ ~ShellKilled(b) /\ ~RecordOutcomeFails(b)
  BY DEF OneBroker, LaunchRaises, ShellKilled, RecordOutcomeFails
<1>2. pc[b] \in {"burned", "reserved", "waiting", "finish"}
  BY <1>1 DEF ExecuteStep, Reserve, ReserveRaises, CollectExit, Timeout, RecordOutcome, Launch
<1>3. results[cur[b]] = None /\ names[b] = {}
  BY <1>2, InHandUnanswered DEF Locked, TruthInv
<1>4. UNCHANGED <<requests, filed, results, seen, names, parsed, rejected, cur>>
  BY <1>1 DEF ExecuteStep, Reserve, ReserveRaises, CollectExit, Timeout, Classify,
              RecordOutcome, Launch, spoolVars, storeVars, batchVars, handVars
<1>5. CASE Reserve(b) \/ \E x \in BrokerRuns : Launch(b, x)
  <2>1. pc'[b] \in {"reserved", "waiting"}
    BY <1>0, <1>5 DEF Reserve, Launch
  <2>. QED
    BY <1>2, <1>3, <1>4, <2>1, WorkSettled DEF Locked
<1>6. CASE ReserveRaises(b)
  <2>1. pc[b] = "burned" /\ pc'[b] = "answer" /\ verdict'[b] = "refused_approval"
    BY <1>0, <1>6 DEF ReserveRaises, Decide
  <2>. QED
    BY <1>3, <1>4, <2>1, WorkSettled DEF Locked
<1>7. CASE CollectExit(b) \/ Timeout(b)
  <2>1. PICK e : /\ e \in 0 .. 4 \/ e = 3
                 /\ pc' = [pc EXCEPT ![b] = "finish"]
                 /\ verdict' = [verdict EXCEPT ![b] = ClassOf(e)]
    <3>1. CASE Timeout(b)
      BY <3>1 DEF Timeout, Classify
    <3>2. CASE CollectExit(b)
      <4>1. run[child[b]].exit \in 0 .. 4
        <5>1. child[b] \in Runs
          BY <1>0, <3>2 DEF CollectExit, TruthInv, ChildOK, Runs
        <5>. QED
          BY <5>1 DEF TruthInv, RailInv, TypeOK, RunRecord
      <4>. QED
        BY <3>2, <4>1 DEF CollectExit, Classify
    <3>. QED
      BY <1>7, <3>1, <3>2
  <2>2. e \in {0, 1, 2, 3, 4}
    BY <2>1
  <2>3. ClassOf(e) # "failed_unknown_exit"
    BY <2>2 DEF ClassOf
  <2>. QED
    BY <1>0, <1>2, <1>3, <1>4, <2>1, <2>3, WorkSettled DEF Locked
<1>8. CASE RecordOutcome(b)
  <2>1. pc[b] = "finish" /\ pc'[b] = "publish" /\ verdict' = verdict
    BY <1>0, <1>8 DEF RecordOutcome, handVars
  <2>2. verdict[b] # "failed_unknown_exit"
    BY <2>1 DEF SettledAt, Straight
  <2>. QED
    BY <1>3, <1>4, <2>1, <2>2, WorkSettled DEF Locked
<1>. QED
  BY <1>1, <1>5, <1>6, <1>7, <1>8 DEF ExecuteStep

-----------------------------------------------------------------------------
(***************************************************************************)
(* The answer, and what is done with the entry.                            *)
(***************************************************************************)
\* What is written is not one of the answers a single broker never gives.
LEMMA WriteSettled ==
    ASSUME NEW b, OneBroker(b), TruthInv, SettledAt(b), PublishOutcome(b) \/ AnswerRefusal(b)
    PROVE  SettledAt(b)'
<1>0. /\ b \in Brokers /\ pc \in [Brokers -> BrokerStates]
      /\ results \in [Rids -> Classes \cup {None}]
  BY DEF OneBroker, TruthInv, RailInv, TypeOK
<1>1. pc[b] \in {"publish", "answer"}
  BY DEF PublishOutcome, AnswerRefusal
<1>2. cur[b] \in Rids /\ requests[cur[b]] # None /\ results[cur[b]] = None /\ names[b] = {}
  BY <1>1, InHandUnanswered DEF Locked, TruthInv
<1>3. PICK v : v = verdict[b]
  OBVIOUS
<1>4. /\ UNCHANGED <<requests, filed, seen, names, parsed, rejected, cur, verdict>>
      /\ pc'[b] = "discard"
      /\ \A r \in Rids : results'[r] = IF r = cur[b] THEN v ELSE results[r]
  BY <1>0, <1>3 DEF OneBroker, PublishOutcome, AnswerRefusal, SetResult, Leave,
                    storeVars, batchVars, handVars
<1>5. /\ v \notin {"refused_request", "refused_replay", "failed_unknown_exit", None}
      /\ v = "refused_quota" => ~Burned(cur[b])
  <2>1. CASE pc[b] = "publish"
    <3>1. v \in Denials \cup MayHaveModified /\ v # "failed_unknown_exit"
      BY <1>0, <1>3, <2>1 DEF TruthInv, VerdictOK, SettledAt, Straight
    <3>. QED
      BY <3>1, NoneAssumption DEF Denials, MayHaveModified, Classes, Refusals
  <2>2. CASE pc[b] = "answer"
    <3>1. v \in {"refused_quota", "refused_approval"} /\ (v = "refused_quota" => ~Burned(cur[b]))
      BY <1>3, <2>2 DEF SettledAt, Straight
    <3>. QED
      BY <3>1, NoneAssumption DEF Classes, Refusals
  <2>. QED
    BY <1>1, <2>1, <2>2
<1>6. Straight(b)'
  BY <1>2, <1>4 DEF SettledAt, Straight
<1>7. ASSUME NEW r \in Rids
      PROVE  Settled(b, r)'
  <2>1. Settled(b, r)
    BY DEF SettledAt
  <2>2. CASE r = cur[b]
    BY <1>1, <1>2, <1>4, <1>5, <2>1, <2>2 DEF Settled, Burned
  <2>3. CASE r # cur[b]
    BY <1>1, <1>2, <1>4, <2>1, <2>3 DEF Settled, AtWorkOn, Burned
  <2>. QED
    BY <2>2, <2>3
<1>. QED
  BY <1>6, <1>7 DEF SettledAt

\* The entry leaves the spool.
LEMMA DiscardSettled ==
    ASSUME NEW b, OneBroker(b), RailInv, SettledAt(b), Discard(b)
    PROVE  SettledAt(b)'
<1>0. /\ b \in Brokers /\ pc \in [Brokers -> BrokerStates]
      /\ requests \in [Rids -> Cids \cup {BadFile, None}]
      /\ rejected \in [Brokers -> SUBSET Rids]
      /\ parsed \in [Brokers -> [Rids -> Cids \cup {None}]]
  BY DEF OneBroker, RailInv, TypeOK
<1>1. /\ UNCHANGED <<filed, results, seen, names>>
      /\ pc[b] = "discard" /\ pc'[b] = "loop"
      /\ rejected'[b] = rejected[b] \ {cur[b]}
      /\ \A r \in Rids : /\ requests'[r] = IF r = cur[b] THEN None ELSE requests[r]
                         /\ parsed'[b][r] = IF r = cur[b] THEN None ELSE parsed[b][r]
  BY <1>0 DEF OneBroker, Discard, storeVars
<1>2. Straight(b)'
  BY <1>1 DEF SettledAt, Straight
<1>3. ASSUME NEW r \in Rids
      PROVE  Settled(b, r)'
  <2>1. Settled(b, r) /\ names[b] = {}
    BY <1>1 DEF SettledAt, Straight
  <2>. QED
    BY <1>1, <2>1 DEF Settled, AtWorkOn, Burned
<1>. QED
  BY <1>2, <1>3 DEF SettledAt

-----------------------------------------------------------------------------
(***************************************************************************)
(* Every step.                                                             *)
(***************************************************************************)
\* Only a death is counted.
LEMMA CrashesKept ==
    ASSUME NEW b, Brokers = {b}, [Next]_vars, ~Crash(b)
    PROVE  crashes' = crashes
<1>. USE DEF vars, brokerVars
<1>1. CASE Gateway \/ Operator \/ NewDay \/ UNCHANGED vars
  BY <1>1 DEF Gateway, Submit, Malformed, Withdraw, Operator, WriteSnapshot,
              WriteApproval, StartByHand, NewDay
<1>2. ASSUME NEW x \in Runs, RunStep(x)
      PROVE  UNCHANGED brokerVars
  BY <1>2 DEF RunStep, RefuseUsage, LoadSnapshot, VerifyApproval, RefusePreflight, Land,
              InvokeRaises, MutatorFails, AppendLog, AppendLogFails, Die
<1>3. CASE DrainStep(b)
  BY <1>3 DEF DrainStep, Scan, IdleDrain, CountPending, EndDrain, Parse, TakeRejected,
              TakeRequest
<1>4. CASE ProcessStep(b)
  BY <1>4 DEF ProcessStep, RefuseReplay, NotSeen, RefuseQuota, Accept, ProcessRaises,
              BurnId, BurnRaises, AnswerRefusal, AnswerRaises, CheckResult,
              WriteRejection, RejectionRaises, Discard
<1>5. CASE ExecuteStep(b)
  BY <1>5 DEF ExecuteStep, Reserve, ReserveRaises, LaunchRaises, CollectExit, Timeout,
              ShellKilled, Classify, RecordOutcome, RecordOutcomeFails, PublishOutcome, Launch
<1>. QED
  BY <1>1, <1>2, <1>3, <1>4, <1>5 DEF Next, BrokerStep

\* Until the broker dies.
LEMMA SettledStep ==
    ASSUME NEW b, OneBroker(b), TruthInv, SettledOK, [Next]_vars
    PROVE  SettledOK'
<1>. USE DEF TruthInv
<1>0. /\ SettledOK <=> (crashes = 0 => SettledAt(b))
      /\ SettledOK' <=> (crashes' = 0 => SettledAt(b)')
  BY DEF OneBroker, SettledOK, SettledAt
<1>1. CASE Crash(b)
  <2>1. crashes' = crashes + 1 /\ crashes \in Nat
    BY <1>1, RailAssumption DEF Crash, RailInv, TypeOK
  <2>. QED
    BY <1>0, <2>1
<1>2. CASE ~Crash(b)
  <2>1. crashes' = crashes
    BY <1>2, CrashesKept DEF OneBroker
  <2>. SUFFICES ASSUME SettledAt(b)
                PROVE  SettledAt(b)'
    BY <1>0, <2>1
  <2>2. CASE Gateway
    BY <2>2, GatewaySettled
  <2>3. CASE Operator \/ NewDay \/ (\E x \in Runs : RunStep(x)) \/ UNCHANGED vars
    BY <2>3, ElsewhereIsCalm, CalmSettled
  <2>4. CASE BrokerStep(b)
    <3>1. CASE DrainStep(b)
      BY <3>1, DrainSettled
    <3>2. CASE ExecuteStep(b)
      BY <3>2, ExecuteSettled, WriteSettled
    <3>3. CASE ProcessStep(b)
      <4>1. /\ ~ProcessRaises(b) /\ ~BurnRaises(b) /\ ~AnswerRaises(b) /\ ~RejectionRaises(b)
            /\ ~CheckResult(b) /\ ~WriteRejection(b) /\ ~RefuseReplay(b)
        BY NoReplay DEF OneBroker, ProcessRaises, BurnRaises, AnswerRaises, RejectionRaises,
                        CheckResult, WriteRejection, SettledAt, Straight
      <4>. QED
        BY <3>3, <4>1, ProcessSettled, BurnSettled, WriteSettled, DiscardSettled
           DEF ProcessStep
    <3>. QED
      BY <2>4, <3>1, <3>2, <3>3 DEF BrokerStep
  <2>. QED
    BY <1>2, <2>2, <2>3, <2>4 DEF OneBroker, Next
<1>. QED
  BY <1>1, <1>2

\* Nothing is filed, burned or answered at first.
LEMMA SettledInit ==
    ASSUME Init
    PROVE  SettledOK
<1>1. /\ \A b \in Brokers : /\ pc[b] = "idle" /\ rejected[b] = {} /\ names[b] = {}
                            /\ \A r \in Rids : parsed[b][r] = None
      /\ \A r \in Rids : requests[r] = None /\ results[r] = None /\ ~Burned(r)
  BY DEF Init, NothingParsed, Burned
<1>2. None \notin {"refused_request", "refused_replay", "failed_unknown_exit"}
  BY NoneAssumption DEF Classes, Refusals, MayHaveModified
<1>. QED
  BY <1>1, <1>2 DEF SettledOK, Straight, Settled

\* It holds in every reachable state.
LEMMA SettledAlways ==
    ASSUME NEW b, OneBroker(b)
    PROVE  Spec => [](TruthInv /\ SettledOK)
<1>1. Init => SettledOK
  BY SettledInit
<1>2. TruthInv /\ SettledOK /\ [Next]_vars => SettledOK'
  BY SettledStep
<1>3. Spec => []TruthInv
  BY TruthHolds
<1>. QED
  BY <1>1, <1>2, <1>3, PTL DEF Spec

\* With one broker, no failing call and the client's fresh ids: until the broker
\* dies, what `hermes-syscall result` calls a refusal did not touch the account
\* (bin/hermes-broker.py, _process and _execute; bin/hermes-syscall.py, result).
THEOREM RefusalsAreTrue ==
    ASSUME NEW b, Brokers = {b}, ~Faults, ~BypassClient
    PROVE  Spec => []RefusedMeansUntouched
<1>1. OneBroker(b)
  BY DEF OneBroker
<1>2. TruthInv /\ SettledOK => RefusedMeansUntouched
  <2>. SUFFICES ASSUME TruthInv, SettledAt(b), NEW r \in Rids, FetchExit(results[r]) = 2
                PROVE  Untouched(r)
    BY DEF RefusedMeansUntouched, SettledOK, SettledAt
  <2>1. results[r] \in Classes \cup {None} /\ Settled(b, r) /\ Bears(r, results[r])
    BY DEF TruthInv, ResultsOK, RailInv, TypeOK, SettledAt
  <2>2. results[r] \in {"refused_quota", "refused_approval"} \cup Denials
    BY <2>1 DEF FetchExit, Settled, Classes, Refusals, Denials, MayHaveModified
  <2>3. CASE results[r] = "refused_quota"
    <3>1. ~Burned(r)
      BY <2>1, <2>3 DEF Settled
    <3>2. RunsFor(r) = {}
      BY <3>1 DEF TruthInv, RailInv, BurnOK, RunsFor
    <3>. QED
      BY <3>2 DEF Untouched
  <2>4. CASE results[r] = "refused_approval"
    BY <2>1, <2>4 DEF Bears, Untouched
  <2>5. CASE results[r] \in Denials
    <3>1. PICK x \in RunsFor(r) : ~KnownChange(x)
      BY <2>1, <2>5 DEF Bears
    <3>2. \A y \in RunsFor(r) : y = x
      BY <3>1 DEF TruthInv, RailInv, OneRunPerRequest, RunsFor
    <3>. QED
      BY <3>1, <3>2 DEF Untouched
  <2>. QED
    BY <2>2, <2>3, <2>4, <2>5
<1>3. Spec => [](TruthInv /\ SettledOK)
  BY <1>1, SettledAlways
<1>. QED
  BY <1>2, <1>3, PTL

\* With one broker, no failing call and the client's fresh ids: until the broker
\* dies, an answer never changes (bin/hermes-broker.py, _has_result, _write_result).
THEOREM AnswersAreFinal ==
    ASSUME NEW b, Brokers = {b}, ~Faults, ~BypassClient
    PROVE  Spec => AnswerIsFinal
<1>. DEFINE Kept == crashes = 0 => \A r \in Rids : results[r] # None => results'[r] = results[r]
<1>1. OneBroker(b)
  BY DEF OneBroker
<1>2. TruthInv /\ SettledOK /\ [Next]_vars => Kept
  <2>. SUFFICES ASSUME TruthInv, SettledAt(b), [Next]_vars, results' # results,
                       NEW r \in Rids, results[r] # None
                PROVE  results'[r] = results[r]
    BY <1>1 DEF OneBroker, SettledOK, SettledAt
  <2>1. BrokerStep(b) \/ Crash(b)
    <3>1. ~Gateway
      BY DEF Gateway, Submit, Malformed, Withdraw
    <3>2. ~(Operator \/ NewDay \/ (\E x \in Runs : RunStep(x)) \/ UNCHANGED vars)
      BY ElsewhereIsCalm
    <3>. QED
      BY <1>1, <3>1, <3>2 DEF OneBroker, Next
  <2>2. PublishOutcome(b) \/ AnswerRefusal(b) \/ WriteRejection(b)
    BY <1>1, <2>1, AnswerFrame DEF OneBroker
  <2>3. ~WriteRejection(b)
    BY DEF WriteRejection, SettledAt, Straight
  <2>4. pc[b] \in Locked
    BY <2>2, <2>3 DEF PublishOutcome, AnswerRefusal, Locked
  <2>5. cur[b] \in Rids /\ results[cur[b]] = None
    BY <1>1, <2>4, InHandUnanswered DEF TruthInv
  <2>6. PICK v : results' = [results EXCEPT ![cur[b]] = v] \/ results' = results
    BY <2>2, <2>3 DEF PublishOutcome, AnswerRefusal, SetResult
  <2>. QED
    BY <2>5, <2>6 DEF TruthInv, RailInv, TypeOK
<1>3. Spec => [](TruthInv /\ SettledOK)
  BY <1>1, SettledAlways
<1>4. TruthInv /\ SettledOK /\ [Next]_vars => [Kept]_vars
  BY <1>2
<1>. QED
  BY <1>3, <1>4, PTL DEF Spec, AnswerIsFinal
=============================================================================
