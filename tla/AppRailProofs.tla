--------------------------- MODULE AppRailProofs ---------------------------
(***************************************************************************)
(* Proofs about AppRail, for every value of its constants.                 *)
(***************************************************************************)
EXTENDS AppRailInvariant, FiniteSetTheorems, TLAPS

-----------------------------------------------------------------------------
(***************************************************************************)
(* What a line of the ledger does to what LedgerIndex keeps of it.         *)
(***************************************************************************)
\* A reservation makes an id known and open, and adds its hold.
LEMMA AppliedReserved ==
    ASSUME NEW l \in Ledgers, NEW r \in Rids, NEW c \in Clients, NEW d \in 1 .. MaxDay,
           l.open \subseteq l.seen
    PROVE  /\ Apply(l, "reserved", r, c, d) \in Ledgers
           /\ Apply(l, "reserved", r, c, d).open \subseteq Apply(l, "reserved", r, c, d).seen
           /\ Apply(l, "reserved", r, c, d).seen = l.seen \cup {r}
           /\ Apply(l, "reserved", r, c, d).open = l.open \cup {r}
           /\ Apply(l, "reserved", r, c, d).held
                = l.held \cup {[rid |-> r, day |-> d, client |-> c]}
<1>1. Apply(l, "reserved", r, c, d) = [l EXCEPT !.seen = @ \cup {r}, !.open = @ \cup {r},
             !.held = @ \cup {[rid |-> r, day |-> d, client |-> c]}]
  BY DEF Apply
<1>2. [rid |-> r, day |-> d, client |-> c] \in Hold
  BY DEF Hold
<1>. HIDE DEF Hold
<1>. QED
  BY <1>1, <1>2, ZenonT(20) DEF Ledgers

\* A release closes an id and gives its holds back.
LEMMA AppliedReleased ==
    ASSUME NEW l \in Ledgers, NEW r \in Rids, NEW c, NEW d \in 1 .. MaxDay
    PROVE  /\ Apply(l, "released", r, c, d) \in Ledgers
           /\ Apply(l, "released", r, c, d).seen = l.seen \cup {r}
           /\ Apply(l, "released", r, c, d).open = l.open \ {r}
           /\ Apply(l, "released", r, c, d).held = {h \in l.held : h.rid # r}
<1>. DEFINE kept == {h \in l.held : h.rid # r}
<1>1. Apply(l, "released", r, c, d)
        = [seen |-> l.seen \cup {r}, open |-> l.open \ {r}, held |-> kept,
           refused |-> l.refused]
  BY DEF Apply, Ledgers
<1>2. kept \subseteq Hold
  BY DEF Ledgers
<1>. HIDE DEF kept
<1>3. /\ Apply(l, "released", r, c, d) \in Ledgers
      /\ Apply(l, "released", r, c, d).seen = l.seen \cup {r}
      /\ Apply(l, "released", r, c, d).open = l.open \ {r}
      /\ Apply(l, "released", r, c, d).held = kept
  BY <1>1, <1>2 DEF Ledgers
<1>. QED
  BY <1>3 DEF kept

\* A result closes an id and keeps its hold.
LEMMA AppliedResulted ==
    ASSUME NEW l \in Ledgers, NEW r \in Rids, NEW c, NEW d \in 1 .. MaxDay
    PROVE  /\ Apply(l, "resulted", r, c, d) \in Ledgers
           /\ Apply(l, "resulted", r, c, d).seen = l.seen \cup {r}
           /\ Apply(l, "resulted", r, c, d).open = l.open \ {r}
           /\ Apply(l, "resulted", r, c, d).held = l.held
<1>1. Apply(l, "resulted", r, c, d)
        = [seen |-> l.seen \cup {r}, open |-> l.open \ {r}, held |-> l.held,
           refused |-> l.refused]
  BY DEF Apply, Ledgers
<1>. QED
  BY <1>1 DEF Ledgers

\* A refusal makes an id known.
LEMMA AppliedRefused ==
    ASSUME NEW l \in Ledgers, NEW r \in Rids, NEW c, NEW d \in 1 .. MaxDay
    PROVE  /\ Apply(l, "refused", r, c, d) \in Ledgers
           /\ Apply(l, "refused", r, c, d).seen = l.seen \cup {r}
           /\ Apply(l, "refused", r, c, d).open = l.open
           /\ Apply(l, "refused", r, c, d).held = l.held
<1>. DEFINE counts == [l.refused EXCEPT ![d] = @ + 1]
<1>1. Apply(l, "refused", r, c, d)
        = [seen |-> l.seen \cup {r}, open |-> l.open, held |-> l.held,
           refused |-> counts]
  BY DEF Apply, Ledgers
<1>2. l.refused \in [1 .. MaxDay -> Nat]
  BY DEF Ledgers
<1>3. counts \in [1 .. MaxDay -> Nat]
  <2>1. ASSUME NEW f \in [1 .. MaxDay -> Nat]
        PROVE  [f EXCEPT ![d] = f[d] + 1] \in [1 .. MaxDay -> Nat]
    <3>1. f[d] + 1 \in Nat
      OBVIOUS
    <3>. QED
      BY <3>1
  <2>. QED
    BY <1>2, <2>1
<1>. HIDE DEF counts
<1>. QED
  BY <1>1, <1>3 DEF Ledgers

\* What any line but a reservation does.
LEMMA AppliedClosing ==
    ASSUME NEW l \in Ledgers, NEW r \in Rids, NEW c, NEW d \in 1 .. MaxDay,
           NEW e \in {"released", "resulted", "refused"}, l.open \subseteq l.seen
    PROVE  /\ Apply(l, e, r, c, d) \in Ledgers
           /\ Apply(l, e, r, c, d).seen = l.seen \cup {r}
           /\ Apply(l, e, r, c, d).open \in {l.open, l.open \ {r}}
           /\ Apply(l, e, r, c, d).open \subseteq Apply(l, e, r, c, d).seen
           /\ Apply(l, e, r, c, d).held \in {l.held, {h \in l.held : h.rid # r}}
<1>1. CASE e = "released"
  BY <1>1, AppliedReleased
<1>2. CASE e = "resulted"
  BY <1>2, AppliedResulted
<1>3. CASE e = "refused"
  BY <1>3, AppliedRefused
<1>. QED
  BY <1>1, <1>2, <1>3

\* The empty ledger.
LEMMA EmptyIsLedger == EmptyLedger \in Ledgers
BY DEF EmptyLedger, Ledgers

-----------------------------------------------------------------------------
(***************************************************************************)
(* Where the broker goes next.                                             *)
(***************************************************************************)
\* When an id has been dealt with.
LEMMA HowFinished ==
    ASSUME task \in Tasks, Finished
    PROVE  \/ task = "recover" /\ Return("recover")
           \/ /\ task \in {"refuse", "admit"} /\ pc' = "unlink"
              /\ UNCHANGED <<cur, task, who, verdict, looked>>
           \/ /\ task = "collect" /\ pc' = "undone"
              /\ UNCHANGED <<cur, task, who, verdict, looked>>
BY DEF Finished, After, Tasks

\* When something raised.
LEMMA HowRaised ==
    ASSUME task \in Tasks, Raise(OnError)
    PROVE  \/ task = "recover" /\ Return("recover")
           \/ task = "refuse" /\ Return("drain")
           \/ /\ task = "admit" /\ pc' = "unlink"
              /\ UNCHANGED <<cur, task, who, verdict, looked>>
           \/ task = "collect" /\ Return("collect")
BY DEF Raise, OnError, Tasks

\* Every step keeps the types.
LEMMA TypeStep ==
    ASSUME TypeOK, HandOK, RunnerOK, IndexOK, Next
    PROVE  TypeOK'
<1>. USE DEF TypeOK, BrokerStates, RunnerStates, spoolVars, trayVars, handVars, brokerVars,
   runnerVars
<1>1. ASSUME NEW r \in Rids, NEW content \in Clients \cup {BadFile, None}, Submit(r, content)
      PROVE  TypeOK'
  BY <1>1 DEF Submit
<1>2. CASE NewDay
  BY <1>2, AppAssumption DEF NewDay
<1>3. CASE Wake
  BY <1>3 DEF Wake, Return, Ledgers
<1>4. ASSUME NEW r \in Rids, TakeOpen(r) PROVE TypeOK'
  BY <1>4 DEF TakeOpen, Tasks
<1>5. CASE Look
  BY <1>5 DEF Look, Return, Answers, Failures
<1>6. CASE ListRequests
  BY <1>6 DEF ListRequests, Return
<1>7. ASSUME NEW r \in Rids, DropUnread(r) PROVE TypeOK'
  BY <1>7 DEF DropUnread, Take
<1>8. ASSUME NEW r \in Rids, DropDuplicate(r) PROVE TypeOK'
  BY <1>8 DEF DropDuplicate, Take
<1>9. ASSUME NEW r \in Rids, KeepOrphan(r) PROVE TypeOK'
  BY <1>9 DEF KeepOrphan, Take, Answers, Capped, Tasks
<1>10. ASSUME NEW r \in Rids, Admit(r) PROVE TypeOK'
  BY <1>10 DEF Admit, Take, Tasks
<1>11. ASSUME NEW r \in Rids, NEW reason \in Refusals, Refuse(r, reason) PROVE TypeOK'
  BY <1>11 DEF Refuse, Take, Answers, Capped, Tasks
<1>12. CASE Reserve
  <2>1. cur \in Rids /\ today \in 1 .. MaxDay /\ ledger \in Ledgers /\ idx \in Ledgers
    BY <1>12 DEF Reserve, HandOK, Between
  <2>2. who \in Clients
    BY <1>12 DEF Reserve, HandOK
  <2>3. /\ ledger' = Apply(ledger, "reserved", cur, who, today)
        /\ idx' = Apply(idx, "reserved", cur, who, today)
    BY <1>12 DEF Reserve, Append
  <2>4. /\ ledger' \in Ledgers /\ ledger'.open \subseteq ledger'.seen
        /\ idx' \in Ledgers /\ idx'.open \subseteq idx'.seen
    BY <2>1, <2>2, <2>3, AppliedReserved
  <2>. QED
    BY <1>12, <2>1, <2>4 DEF Reserve
<1>13. CASE ReserveRaises
  <2>1. cur \in Rids /\ today \in 1 .. MaxDay /\ ledger \in Ledgers /\ idx \in Ledgers
    BY <1>13 DEF ReserveRaises, HandOK, Between
  <2>2. who \in Clients
    BY <1>13 DEF ReserveRaises, HandOK
  <2>3. ledger' \in {ledger, Apply(ledger, "reserved", cur, who, today)} /\ idx' = idx
    BY <1>13 DEF ReserveRaises, AppendRaises
  <2>4. /\ ledger' \in Ledgers /\ ledger'.open \subseteq ledger'.seen
        /\ idx' \in Ledgers /\ idx'.open \subseteq idx'.seen
    <3>1. /\ Apply(ledger, "reserved", cur, who, today) \in Ledgers
          /\ Apply(ledger, "reserved", cur, who, today).open
               \subseteq Apply(ledger, "reserved", cur, who, today).seen
      BY <2>1, <2>2, AppliedReserved
    <3>. QED
      BY <2>1, <2>3, <3>1
  <2>. QED
    BY <1>13, <2>1, <2>4 DEF ReserveRaises, Return
<1>14. CASE WriteJob
  BY <1>14 DEF WriteJob, HandOK, Between
<1>15. CASE WriteJobRaises
  BY <1>15 DEF WriteJobRaises, Answers, Failures
<1>16. CASE Unlink
  BY <1>16 DEF Unlink, Return
<1>17. CASE WriteResult
  BY <1>17 DEF WriteResult
<1>18. CASE WriteResultRaises
  BY <1>18, HowRaised DEF WriteResultRaises, Return, HandOK, Between
<1>19. CASE Record
  <2>1. cur \in Rids /\ today \in 1 .. MaxDay /\ ledger \in Ledgers /\ idx \in Ledgers
    BY <1>19 DEF Record, HandOK, Between
  <2>2. Event \in {"released", "resulted", "refused"}
    BY DEF Event
  <2>3. /\ ledger' = Apply(ledger, Event, cur, who, today)
        /\ idx' = Apply(idx, Event, cur, who, today)
    BY <1>19 DEF Record, Append
  <2>4. /\ ledger' \in Ledgers /\ ledger'.open \subseteq ledger'.seen
        /\ idx' \in Ledgers /\ idx'.open \subseteq idx'.seen
    BY <2>1, <2>2, <2>3, AppliedClosing
  <2>. QED
    BY <1>19, <2>1, <2>4, HowFinished DEF Record, Return, HandOK
<1>20. CASE RecordRaises
  <2>1. cur \in Rids /\ today \in 1 .. MaxDay /\ ledger \in Ledgers /\ idx \in Ledgers
    BY <1>20 DEF RecordRaises, HandOK, Between
  <2>2. Event \in {"released", "resulted", "refused"}
    BY DEF Event
  <2>3. ledger' \in {ledger, Apply(ledger, Event, cur, who, today)} /\ idx' = idx
    BY <1>20 DEF RecordRaises, AppendRaises
  <2>4. /\ ledger' \in Ledgers /\ ledger'.open \subseteq ledger'.seen
        /\ idx' \in Ledgers /\ idx'.open \subseteq idx'.seen
    BY <2>1, <2>2, <2>3, AppliedClosing
  <2>. QED
    BY <1>20, <2>1, <2>4, HowRaised DEF RecordRaises, Return, HandOK
<1>21. CASE Close
  <2>1. cur \in Rids /\ today \in 1 .. MaxDay /\ ledger \in Ledgers /\ idx \in Ledgers
    BY <1>21 DEF Close, HandOK, Between
  <2>2. Event \in {"released", "resulted", "refused"}
    BY DEF Event
  <2>3. /\ ledger' = Apply(ledger, "resulted", cur, who, today)
        /\ idx' = Apply(idx, "resulted", cur, who, today)
    BY <1>21 DEF Close, Append
  <2>4. /\ ledger' \in Ledgers /\ ledger'.open \subseteq ledger'.seen
        /\ idx' \in Ledgers /\ idx'.open \subseteq idx'.seen
    BY <2>1, <2>2, <2>3, AppliedClosing
  <2>. QED
    BY <1>21, <2>1, <2>4, HowFinished DEF Close, Return, HandOK, Tasks
<1>22. CASE CloseRaises
  <2>1. cur \in Rids /\ today \in 1 .. MaxDay /\ ledger \in Ledgers /\ idx \in Ledgers
    BY <1>22 DEF CloseRaises, HandOK, Between
  <2>2. Event \in {"released", "resulted", "refused"}
    BY DEF Event
  <2>3. ledger' \in {ledger, Apply(ledger, "resulted", cur, who, today)} /\ idx' = idx
    BY <1>22 DEF CloseRaises, AppendRaises
  <2>4. /\ ledger' \in Ledgers /\ ledger'.open \subseteq ledger'.seen
        /\ idx' \in Ledgers /\ idx'.open \subseteq idx'.seen
    BY <2>1, <2>2, <2>3, AppliedClosing
  <2>. QED
    BY <1>22, <2>1, <2>4, HowRaised DEF CloseRaises, Return, HandOK, Tasks
<1>23. CASE ListDone
  BY <1>23 DEF ListDone, Return
<1>24. CASE RemoveDone
  BY <1>24 DEF RemoveDone, Return
<1>25. CASE EndPass
  BY <1>25, AppAssumption DEF EndPass, Return
<1>26. ASSUME NEW r \in Rids, Collect(r) PROVE TypeOK'
  BY <1>26 DEF Collect, IndexOK, MapDone, Answers, Failures, DoneKinds, Tasks
<1>27. ASSUME NEW r \in Rids, ExpireResult(r) PROVE TypeOK'
  BY <1>27 DEF ExpireResult
<1>28. CASE Die
  BY <1>28, AppAssumption DEF Die, Return
<1>29. CASE StartRunner
  BY <1>29 DEF StartRunner
<1>30. ASSUME NEW r \in Rids, ReportLeftover(r) PROVE TypeOK'
  BY <1>30 DEF ReportLeftover, DoneKinds
<1>31. CASE ClearLeftover
  BY <1>31 DEF ClearLeftover
<1>32. CASE BeginQueue
  BY <1>32 DEF BeginQueue
<1>33. ASSUME NEW r \in Rids, TakeJob(r) PROVE TypeOK'
  BY <1>33 DEF TakeJob
<1>34. CASE Begin
  BY <1>34 DEF Begin, RunnerOK
<1>35. CASE CannotBegin
  BY <1>35 DEF CannotBegin, DoneKinds
<1>36. CASE Finish
  BY <1>36 DEF Finish, DoneKinds
<1>37. CASE Report
  BY <1>37 DEF Report
<1>38. CASE ClearJob
  BY <1>38 DEF ClearJob
<1>39. CASE StopRunner
  BY <1>39 DEF StopRunner
<1>40. CASE Kill
  BY <1>40, AppAssumption DEF Kill
<1>. QED
  BY <1>1, <1>2, <1>3, <1>4, <1>5, <1>6, <1>7, <1>8, <1>9, <1>10, <1>11, <1>12, <1>13, <1>14,
     <1>15, <1>16, <1>17, <1>18, <1>19, <1>20, <1>21, <1>22, <1>23, <1>24, <1>25, <1>26, <1>27,
     <1>28, <1>29, <1>30, <1>31, <1>32, <1>33, <1>34, <1>35, <1>36, <1>37, <1>38, <1>39, <1>40
     DEF Next, Gateway, BrokerStep, RecoverStep, DrainStep, AnswerStep, CollectStep, RunnerStep

\* The runner changes nothing but the trays and its own state.
LEMMA RunnerFrame ==
    ASSUME RunnerStep \/ Kill
    PROVE  UNCHANGED <<spoolVars, ledger, today, brokerVars>>
BY DEF RunnerStep, Kill, StartRunner, ReportLeftover, ClearLeftover, BeginQueue, TakeJob,
   Begin, CannotBegin, Finish, Report, ClearJob, StopRunner

\* With nothing in hand, HandOK is about the state and the listing alone.
LEMMA EmptyHand ==
    ASSUME NEW dest \in Between, Return(dest), todo' \subseteq Rids,
           dest = "sleep" => todo' = {}
    PROVE  HandOK'
BY NoneAssumption DEF HandOK, Return, Between

\* The gateway changes requests/ alone.
LEMMA GatewayFrame ==
    ASSUME Gateway
    PROVE  UNCHANGED <<results, trayVars, ledger, today, brokerVars, runnerVars>>
BY DEF Gateway, Submit

\* Every step keeps the shape of what the broker has in hand.
LEMMA HandStep ==
    ASSUME TypeOK, HandOK, IndexOK, Next
    PROVE  HandOK'
<1>. USE DEF TypeOK, HandOK, Between, spoolVars, trayVars, handVars, brokerVars, runnerVars
<1>1. CASE Wake
  BY <1>1, EmptyHand DEF Wake, Ledgers
<1>2. ASSUME NEW r \in Rids, TakeOpen(r) PROVE HandOK'
  BY <1>2 DEF TakeOpen, Tasks
<1>3. CASE Look
  BY <1>3, EmptyHand DEF Look, Tasks, Answers, Failures
<1>4. CASE ListRequests
  BY <1>4, EmptyHand DEF ListRequests
<1>5. ASSUME NEW r \in Rids, DropUnread(r) PROVE HandOK'
  BY <1>5 DEF DropUnread, Take
<1>6. ASSUME NEW r \in Rids, DropDuplicate(r) PROVE HandOK'
  BY <1>6 DEF DropDuplicate, Take
<1>7. ASSUME NEW r \in Rids, KeepOrphan(r) PROVE HandOK'
  BY <1>7 DEF KeepOrphan, Take, Capped, Tasks
<1>8. ASSUME NEW r \in Rids, Admit(r) PROVE HandOK'
  BY <1>8 DEF Admit, Take, Tasks
<1>9. ASSUME NEW r \in Rids, NEW reason \in Refusals, Refuse(r, reason) PROVE HandOK'
  BY <1>9 DEF Refuse, Take, Capped, Tasks, Answers
<1>10. CASE Reserve
  BY <1>10 DEF Reserve
<1>11. CASE ReserveRaises
  BY <1>11, EmptyHand DEF ReserveRaises
<1>12. CASE WriteJob
  BY <1>12 DEF WriteJob
<1>13. CASE WriteJobRaises
  BY <1>13 DEF WriteJobRaises, Tasks, Answers, Failures
<1>14. CASE Unlink
  BY <1>14, EmptyHand DEF Unlink
<1>15. CASE WriteResult
  BY <1>15 DEF WriteResult
<1>16. CASE WriteResultRaises
  BY <1>16, HowRaised, EmptyHand DEF WriteResultRaises
<1>17. CASE Record
  BY <1>17, HowFinished, EmptyHand DEF Record, Event, Tasks
<1>18. CASE RecordRaises
  BY <1>18, HowRaised, EmptyHand DEF RecordRaises
<1>19. CASE Close
  BY <1>19, HowFinished, EmptyHand DEF Close, Tasks
<1>20. CASE CloseRaises
  BY <1>20, HowRaised, EmptyHand DEF CloseRaises, Tasks
<1>21. CASE ListDone
  BY <1>21, EmptyHand DEF ListDone
<1>22. CASE RemoveDone
  BY <1>22, EmptyHand DEF RemoveDone
<1>23. CASE EndPass
  BY <1>23, EmptyHand DEF EndPass
<1>24. ASSUME NEW r \in Rids, Collect(r) PROVE HandOK'
  BY <1>24 DEF Collect, IndexOK, MapDone, Answers, Failures, DoneKinds, Tasks
<1>25. ASSUME NEW r \in Rids, ExpireResult(r) PROVE HandOK'
  BY <1>25 DEF ExpireResult
<1>26. CASE Die
  BY <1>26, EmptyHand DEF Die
<1>27. CASE Gateway \/ NewDay
  BY <1>27, GatewayFrame DEF NewDay
<1>28. CASE RunnerStep \/ Kill
  BY <1>28, RunnerFrame
<1>. QED
  BY <1>1, <1>2, <1>3, <1>4, <1>5, <1>6, <1>7, <1>8, <1>9, <1>10, <1>11, <1>12, <1>13, <1>14,
     <1>15, <1>16, <1>17, <1>18, <1>19, <1>20, <1>21, <1>22, <1>23, <1>24, <1>25, <1>26, <1>27,
     <1>28 DEF Next, BrokerStep, RecoverStep, DrainStep, AnswerStep, CollectStep

\* What the runner has put in done/ stays until the broker removes it.
LEMMA DoneStays ==
    ASSUME TypeOK, RunnerOK, RunnerStep \/ Kill
    PROVE  \A r \in Rids : done[r] # None => done'[r] = done[r]
<1>. USE DEF TypeOK, trayVars, runnerVars
<1>1. ASSUME NEW q \in Rids, ReportLeftover(q)
      PROVE  \A r \in Rids : done[r] # None => done'[r] = done[r]
  BY <1>1 DEF ReportLeftover
<1>2. CASE Report
  BY <1>2 DEF Report, RunnerOK
<1>3. CASE RunnerStep /\ ~Report /\ ~\E q \in Rids : ReportLeftover(q)
  BY <1>3 DEF RunnerStep, StartRunner, ClearLeftover, BeginQueue, TakeJob, Begin, CannotBegin,
     Finish, ClearJob, StopRunner
<1>4. CASE Kill
  BY <1>4 DEF Kill
<1>. QED
  BY <1>1, <1>2, <1>3, <1>4

\* A line about the id in hand changes nothing for the ids still to be taken up.
LEMMA OthersKept ==
    ASSUME TypeOK, HandOK, IndexOK, pc \notin Between, todo' = todo,
           NEW e \in {"released", "resulted", "refused"},
           ledger' \in {ledger, Apply(ledger, e, cur, who, today)},
           idx' \in {idx, Apply(idx, e, cur, who, today)}
    PROVE  /\ \A r \in todo' : /\ r \in idx'.seen <=> r \in ledger'.seen
                               /\ r \in idx'.open <=> r \in ledger'.open
           /\ todo \subseteq ledger.open => todo' \subseteq ledger'.open
<1>1. cur \in Rids /\ cur \notin todo /\ today \in 1 .. MaxDay
      /\ ledger \in Ledgers /\ idx \in Ledgers
  BY DEF HandOK, TypeOK
<1>2. \A r \in todo : /\ r \in idx.seen <=> r \in ledger.seen
                      /\ r \in idx.open <=> r \in ledger.open
  BY DEF IndexOK
<1>3. /\ ledger'.seen \in {ledger.seen, ledger.seen \cup {cur}}
      /\ ledger'.open \in {ledger.open, ledger.open \ {cur}}
  BY <1>1, AppliedClosing DEF TypeOK
<1>4. /\ idx'.seen \in {idx.seen, idx.seen \cup {cur}}
      /\ idx'.open \in {idx.open, idx.open \ {cur}}
  BY <1>1, AppliedClosing DEF TypeOK
<1>. QED
  BY <1>1, <1>2, <1>3, <1>4

\* Likewise a reservation.
LEMMA OthersKeptReserving ==
    ASSUME TypeOK, HandOK, IndexOK, pc = "reserve", todo' = todo,
           ledger' \in {ledger, Apply(ledger, "reserved", cur, who, today)},
           idx' \in {idx, Apply(idx, "reserved", cur, who, today)}
    PROVE  \A r \in todo' : /\ r \in idx'.seen <=> r \in ledger'.seen
                            /\ r \in idx'.open <=> r \in ledger'.open
<1>1. cur \in Rids /\ cur \notin todo /\ today \in 1 .. MaxDay /\ who \in Clients
      /\ ledger \in Ledgers /\ idx \in Ledgers
  BY DEF HandOK, TypeOK, Between
<1>2. \A r \in todo : /\ r \in idx.seen <=> r \in ledger.seen
                      /\ r \in idx.open <=> r \in ledger.open
  BY DEF IndexOK
<1>3. \/ ledger'.seen = ledger.seen /\ ledger'.open = ledger.open
      \/ ledger'.seen = ledger.seen \cup {cur} /\ ledger'.open = ledger.open \cup {cur}
  BY <1>1, AppliedReserved DEF TypeOK
<1>4. \/ idx'.seen = idx.seen /\ idx'.open = idx.open
      \/ idx'.seen = idx.seen \cup {cur} /\ idx'.open = idx.open \cup {cur}
  BY <1>1, AppliedReserved DEF TypeOK
<1>. QED
  BY <1>1, <1>2, <1>3, <1>4

\* Every step keeps the index true of what is still to be taken up.
LEMMA IndexStep ==
    ASSUME TypeOK, HandOK, IndexOK, RunnerOK, Next
    PROVE  IndexOK'
<1>. USE DEF TypeOK, IndexOK, Answering, spoolVars, trayVars, handVars, brokerVars, runnerVars
<1>1. CASE Wake
  BY <1>1 DEF Wake, Return, Ledgers
<1>2. ASSUME NEW r \in Rids, TakeOpen(r) PROVE IndexOK'
  BY <1>2 DEF TakeOpen
<1>3. CASE Look
  BY <1>3 DEF Look, Return, HandOK
<1>4. CASE ListRequests
  BY <1>4 DEF ListRequests, Return
<1>5. ASSUME NEW r \in Rids, DropUnread(r) PROVE IndexOK'
  BY <1>5 DEF DropUnread, Take, Capped
<1>6. ASSUME NEW r \in Rids, DropDuplicate(r) PROVE IndexOK'
  BY <1>6 DEF DropDuplicate, Take, Capped
<1>7. ASSUME NEW r \in Rids, KeepOrphan(r) PROVE IndexOK'
  BY <1>7 DEF KeepOrphan, Take, Capped
<1>8. ASSUME NEW r \in Rids, Admit(r) PROVE IndexOK'
  BY <1>8 DEF Admit, Take, Capped
<1>9. ASSUME NEW r \in Rids, NEW reason \in Refusals, Refuse(r, reason) PROVE IndexOK'
  BY <1>9 DEF Refuse, Take, Capped
<1>10. CASE Reserve
  BY <1>10, OthersKeptReserving DEF Reserve, Append
<1>11. CASE ReserveRaises
  BY <1>11, OthersKeptReserving DEF ReserveRaises, AppendRaises, Return
<1>12. CASE WriteJob
  BY <1>12 DEF WriteJob
<1>13. CASE WriteJobRaises
  BY <1>13 DEF WriteJobRaises, HandOK
<1>14. CASE Unlink
  BY <1>14 DEF Unlink, Return
<1>15. CASE WriteResult
  BY <1>15 DEF WriteResult
<1>16. CASE WriteResultRaises
  BY <1>16, HowRaised DEF WriteResultRaises, Return, HandOK, Tasks
<1>17. CASE Record
  <2>1. pc \notin Between /\ task \in Tasks /\ todo' = todo /\ UNCHANGED done
    BY <1>17 DEF Record, HandOK, Between, Tasks
  <2>2. Event \in {"released", "resulted", "refused"}
    BY DEF Event
  <2>3. /\ ledger' \in {ledger, Apply(ledger, Event, cur, who, today)}
        /\ idx' \in {idx, Apply(idx, Event, cur, who, today)}
    BY <1>17 DEF Record, Append
  <2>4. /\ \A r \in todo' : /\ r \in idx'.seen <=> r \in ledger'.seen
                            /\ r \in idx'.open <=> r \in ledger'.open
        /\ todo \subseteq ledger.open => todo' \subseteq ledger'.open
    BY <2>1, <2>2, <2>3, OthersKept
  <2>5. /\ task = "recover" => pc' = "recover"
        /\ task \in {"refuse", "admit"} => pc' \in {"unlink", "drain"}
        /\ task = "collect" => pc' \in {"undone", "close", "collect"}
    BY <1>17, <2>1, HowFinished DEF Record, Return, HandOK, Event
  <2>6. /\ task = "recover" => todo \subseteq ledger.open
        /\ task = "collect" => \A r \in todo : done[r] # None
    BY <1>17 DEF Record, HandOK, Event
  <2>7. (pc \in {"recover", "look"} \/ Answering("recover"))' => todo' \subseteq ledger'.open
    BY <2>1, <2>4, <2>5, <2>6 DEF Tasks
  <2>8. (pc \in {"collect", "close", "undone"} \/ Answering("collect"))' =>
            \A r \in todo' : done'[r] # None
    BY <2>1, <2>5, <2>6 DEF Tasks
  <2>. QED
    BY <2>4, <2>7, <2>8
<1>18. CASE RecordRaises
  <2>1. pc \notin Between /\ task \in Tasks /\ todo' = todo /\ UNCHANGED done
    BY <1>18 DEF RecordRaises, HandOK, Between, Tasks
  <2>2. Event \in {"released", "resulted", "refused"}
    BY DEF Event
  <2>3. /\ ledger' \in {ledger, Apply(ledger, Event, cur, who, today)}
        /\ idx' \in {idx, Apply(idx, Event, cur, who, today)}
    BY <1>18 DEF RecordRaises, AppendRaises
  <2>4. /\ \A r \in todo' : /\ r \in idx'.seen <=> r \in ledger'.seen
                            /\ r \in idx'.open <=> r \in ledger'.open
        /\ todo \subseteq ledger.open => todo' \subseteq ledger'.open
    BY <2>1, <2>2, <2>3, OthersKept
  <2>5. /\ task = "recover" => pc' = "recover"
        /\ task \in {"refuse", "admit"} => pc' \in {"unlink", "drain"}
        /\ task = "collect" => pc' \in {"undone", "close", "collect"}
    BY <1>18, <2>1, HowRaised DEF RecordRaises, Return, HandOK
  <2>6. /\ task = "recover" => todo \subseteq ledger.open
        /\ task = "collect" => \A r \in todo : done[r] # None
    BY <1>18 DEF RecordRaises, HandOK
  <2>7. (pc \in {"recover", "look"} \/ Answering("recover"))' => todo' \subseteq ledger'.open
    BY <2>1, <2>4, <2>5, <2>6 DEF Tasks
  <2>8. (pc \in {"collect", "close", "undone"} \/ Answering("collect"))' =>
            \A r \in todo' : done'[r] # None
    BY <2>1, <2>5, <2>6 DEF Tasks
  <2>. QED
    BY <2>4, <2>7, <2>8
<1>19. CASE Close
  <2>1. pc \notin Between /\ task \in Tasks /\ todo' = todo /\ UNCHANGED done
    BY <1>19 DEF Close, HandOK, Between, Tasks
  <2>2. "resulted" \in {"released", "resulted", "refused"}
    BY DEF Event
  <2>3. /\ ledger' \in {ledger, Apply(ledger, "resulted", cur, who, today)}
        /\ idx' \in {idx, Apply(idx, "resulted", cur, who, today)}
    BY <1>19 DEF Close, Append
  <2>4. /\ \A r \in todo' : /\ r \in idx'.seen <=> r \in ledger'.seen
                            /\ r \in idx'.open <=> r \in ledger'.open
        /\ todo \subseteq ledger.open => todo' \subseteq ledger'.open
    BY <2>1, <2>2, <2>3, OthersKept
  <2>5. /\ task = "recover" => pc' = "recover"
        /\ task \in {"refuse", "admit"} => pc' \in {"unlink", "drain"}
        /\ task = "collect" => pc' \in {"undone", "close", "collect"}
    BY <1>19, <2>1, HowFinished DEF Close, Return, HandOK
  <2>6. /\ task = "recover" => todo \subseteq ledger.open
        /\ task = "collect" => \A r \in todo : done[r] # None
    BY <1>19 DEF Close, HandOK
  <2>7. (pc \in {"recover", "look"} \/ Answering("recover"))' => todo' \subseteq ledger'.open
    BY <2>1, <2>4, <2>5, <2>6 DEF Tasks
  <2>8. (pc \in {"collect", "close", "undone"} \/ Answering("collect"))' =>
            \A r \in todo' : done'[r] # None
    BY <2>1, <2>5, <2>6 DEF Tasks
  <2>. QED
    BY <2>4, <2>7, <2>8
<1>20. CASE CloseRaises
  <2>1. pc \notin Between /\ task \in Tasks /\ todo' = todo /\ UNCHANGED done
    BY <1>20 DEF CloseRaises, HandOK, Between, Tasks
  <2>2. "resulted" \in {"released", "resulted", "refused"}
    BY DEF Event
  <2>3. /\ ledger' \in {ledger, Apply(ledger, "resulted", cur, who, today)}
        /\ idx' \in {idx, Apply(idx, "resulted", cur, who, today)}
    BY <1>20 DEF CloseRaises, AppendRaises
  <2>4. /\ \A r \in todo' : /\ r \in idx'.seen <=> r \in ledger'.seen
                            /\ r \in idx'.open <=> r \in ledger'.open
        /\ todo \subseteq ledger.open => todo' \subseteq ledger'.open
    BY <2>1, <2>2, <2>3, OthersKept
  <2>5. /\ task = "recover" => pc' = "recover"
        /\ task \in {"refuse", "admit"} => pc' \in {"unlink", "drain"}
        /\ task = "collect" => pc' \in {"undone", "close", "collect"}
    BY <1>20, <2>1, HowRaised DEF CloseRaises, Return, HandOK
  <2>6. /\ task = "recover" => todo \subseteq ledger.open
        /\ task = "collect" => \A r \in todo : done[r] # None
    BY <1>20 DEF CloseRaises, HandOK
  <2>7. (pc \in {"recover", "look"} \/ Answering("recover"))' => todo' \subseteq ledger'.open
    BY <2>1, <2>4, <2>5, <2>6 DEF Tasks
  <2>8. (pc \in {"collect", "close", "undone"} \/ Answering("collect"))' =>
            \A r \in todo' : done'[r] # None
    BY <2>1, <2>5, <2>6 DEF Tasks
  <2>. QED
    BY <2>4, <2>7, <2>8
<1>21. CASE ListDone
  BY <1>21 DEF ListDone, Return
<1>22. CASE RemoveDone
  BY <1>22 DEF RemoveDone, Return, HandOK, Between
<1>23. CASE EndPass
  BY <1>23 DEF EndPass, Return
<1>24. ASSUME NEW r \in Rids, Collect(r) PROVE IndexOK'
  BY <1>24 DEF Collect
<1>25. ASSUME NEW r \in Rids, ExpireResult(r) PROVE IndexOK'
  BY <1>25 DEF ExpireResult
<1>26. CASE Die
  BY <1>26 DEF Die, Return
<1>27. CASE Gateway \/ NewDay
  BY <1>27, GatewayFrame DEF NewDay
<1>28. CASE RunnerStep \/ Kill
  <2>1. UNCHANGED <<brokerVars, ledger>>
    BY <1>28, RunnerFrame
  <2>2. \A r \in Rids : done[r] # None => done'[r] # None
    BY <1>28, DoneStays
  <2>. QED
    BY <2>1, <2>2
<1>. QED
  BY <1>1, <1>2, <1>3, <1>4, <1>5, <1>6, <1>7, <1>8, <1>9, <1>10, <1>11, <1>12, <1>13, <1>14,
     <1>15, <1>16, <1>17, <1>18, <1>19, <1>20, <1>21, <1>22, <1>23, <1>24, <1>25, <1>26, <1>27,
     <1>28 DEF Next, BrokerStep, RecoverStep, DrainStep, AnswerStep, CollectStep

-----------------------------------------------------------------------------
(***************************************************************************)
(* The steps, by what they do to the trays, the results and the ledger.    *)
(***************************************************************************)
\* Steps that leave all three alone.
Quiet ==
    \/ Gateway \/ NewDay \/ RecoverStep \/ ListRequests \/ WriteJobRaises \/ Unlink
    \/ WriteResultRaises \/ ListDone \/ EndPass \/ Die
    \/ \E r \in Rids :
          \/ DropUnread(r) \/ DropDuplicate(r) \/ KeepOrphan(r) \/ Admit(r) \/ Collect(r)
          \/ \E reason \in Refusals : Refuse(r, reason)

\* Steps that may add a line to the ledger: of a reservation, or of an answer.
Reserves == Reserve \/ ReserveRaises
Settles == Record \/ RecordRaises \/ Close \/ CloseRaises

\* Steps of the runner.
Runs == RunnerStep \/ Kill

\* Every step is one of these or one of four more.
LEMMA StepKinds ==
    ASSUME Next
    PROVE  \/ Quiet \/ Reserves \/ Settles \/ Runs \/ WriteJob \/ WriteResult \/ RemoveDone
           \/ \E r \in Rids : ExpireResult(r)
BY DEF Next, BrokerStep, RecoverStep, DrainStep, AnswerStep, CollectStep, Quiet, Reserves,
   Settles, Runs

\* A quiet step changes none of the three, nor the runner.
LEMMA QuietFrame ==
    ASSUME Quiet
    PROVE  UNCHANGED <<results, trayVars, ledger, runnerVars>>
BY DEF Quiet, Gateway, Submit, NewDay, RecoverStep, Wake, Look, TakeOpen, ListRequests,
   WriteJobRaises, Unlink, WriteResultRaises, ListDone, EndPass, Die, DropUnread,
   DropDuplicate, KeepOrphan, Admit, Collect, Refuse, Take, spoolVars

\* A reservation changes the ledger by one open id and its hold.
LEMMA ReservesFrame ==
    ASSUME TypeOK, HandOK, Reserves
    PROVE  /\ pc = "reserve" /\ cur \in Rids /\ who \in Clients
           /\ UNCHANGED <<results, trayVars, runnerVars, today>>
           /\ \/ ledger' = ledger
              \/ /\ ledger'.seen = ledger.seen \cup {cur}
                 /\ ledger'.open = ledger.open \cup {cur}
                 /\ ledger'.held
                      = ledger.held \cup {[rid |-> cur, day |-> today, client |-> who]}
<1>1. pc = "reserve" /\ UNCHANGED <<results, trayVars, runnerVars, today>>
      /\ ledger' \in {ledger, Apply(ledger, "reserved", cur, who, today)}
  BY DEF Reserves, Reserve, ReserveRaises, Append, AppendRaises, spoolVars
<1>2. cur \in Rids /\ who \in Clients /\ today \in 1 .. MaxDay
      /\ ledger \in Ledgers /\ ledger.open \subseteq ledger.seen
  BY <1>1 DEF HandOK, Between, TypeOK
<1>. QED
  BY <1>1, <1>2, AppliedReserved

\* Any other line is about the id in hand: it may close it, and give its hold
\* back if it was a release.
LEMMA SettlesFrame ==
    ASSUME TypeOK, HandOK, Settles
    PROVE  /\ pc \in {"record", "close"} /\ cur \in Rids
           /\ UNCHANGED <<results, trayVars, runnerVars, today>>
           /\ \/ ledger' = ledger
              \/ /\ ledger'.seen = ledger.seen \cup {cur}
                 /\ ledger'.open \in {ledger.open, ledger.open \ {cur}}
                 /\ \/ ledger'.held = ledger.held
                    \/ /\ ledger'.held = {h \in ledger.held : h.rid # cur}
                       /\ ledger'.open = ledger.open \ {cur}
                       /\ pc = "record" /\ task = "collect" /\ verdict = "busy"
<1>. DEFINE event == IF pc = "close" THEN "resulted" ELSE Event
<1>1. pc \in {"record", "close"} /\ UNCHANGED <<results, trayVars, runnerVars, today>>
      /\ ledger' \in {ledger, Apply(ledger, event, cur, who, today)}
  BY DEF Settles, Record, RecordRaises, Close, CloseRaises, Append, AppendRaises, spoolVars
<1>2. cur \in Rids /\ today \in 1 .. MaxDay
      /\ ledger \in Ledgers /\ ledger.open \subseteq ledger.seen
  BY <1>1 DEF HandOK, Between, TypeOK
<1>3. /\ event \in {"released", "resulted", "refused"}
      /\ event = "released" => pc = "record" /\ task = "collect" /\ verdict = "busy"
  BY <1>1 DEF Event
<1>. HIDE DEF event
<1>4. CASE ledger' = ledger
  BY <1>1, <1>2, <1>4
<1>5. CASE ledger' = Apply(ledger, event, cur, who, today)
  <2>1. CASE event = "released"
    BY <1>1, <1>2, <1>3, <1>5, <2>1, AppliedReleased
  <2>2. CASE event = "resulted"
    BY <1>1, <1>2, <1>5, <2>2, AppliedResulted
  <2>3. CASE event = "refused"
    BY <1>1, <1>2, <1>5, <2>3, AppliedRefused
  <2>. QED
    BY <1>3, <2>1, <2>2, <2>3
<1>. QED
  BY <1>1, <1>4, <1>5

\* What is answered by the id in hand is not in the queue, and the runner does
\* not have it, unless to put its report away.
LEMMA CurIsIdle ==
    ASSUME TypeOK, HandOK, TrayOK, RunnerOK, CurOK,
           pc \in {"answer", "record"} \/ pc = "reserve"
    PROVE  /\ cur \in Rids /\ cur \notin jobs
           /\ rcur = cur => rpc \notin {"taken", "working", "busy", "finished"}
<1>1. cur \in Rids
  BY DEF HandOK, Between, TypeOK
<1>2. CASE cur \notin ledger.seen
  BY <1>1, <1>2 DEF TrayOK, RunnerOK, TypeOK
<1>3. CASE NoTray(cur)
  BY <1>1, <1>3, NoneAssumption DEF NoTray, RunnerOK
<1>4. CASE done[cur] # None
  BY <1>1, <1>4 DEF TrayOK, RunnerOK
<1>5. cur \notin ledger.seen \/ NoTray(cur) \/ done[cur] # None
  BY DEF CurOK, HandOK, Tasks, Answering
<1>. QED
  BY <1>1, <1>2, <1>3, <1>4, <1>5

\* Every step keeps what the trays say of an id.
LEMMA TrayStep ==
    ASSUME TypeOK, HandOK, TrayOK, RunnerOK, CurOK, Next
    PROVE  TrayOK'
<1>. USE DEF TypeOK, TrayOK, trayVars, spoolVars, runnerVars
<1>1. CASE Quiet
  BY <1>1, QuietFrame DEF Says
<1>2. CASE Reserves
  BY <1>2, ReservesFrame DEF Says, CurOK
<1>3. CASE Settles
  BY <1>3, SettlesFrame, CurIsIdle DEF Says, CurOK
<1>4. CASE WriteJob
  BY <1>4 DEF WriteJob, CurOK, NoTray, Says, HandOK, Between
<1>5. CASE WriteResult
  BY <1>5, CurIsIdle DEF WriteResult, Says
<1>6. CASE RemoveDone
  BY <1>6 DEF RemoveDone, Says
<1>7. ASSUME NEW r \in Rids, ExpireResult(r) PROVE TrayOK'
  BY <1>7 DEF ExpireResult, Says
<1>8. CASE Runs
  <2>1. CASE StartRunner
    BY <2>1 DEF StartRunner, Says, RunnerOK
  <2>2. ASSUME NEW r \in Rids, ReportLeftover(r) PROVE TrayOK'
    BY <2>2 DEF ReportLeftover, Says, RunnerOK
  <2>3. CASE ClearLeftover
    BY <2>3 DEF ClearLeftover, Says, RunnerOK
  <2>4. CASE BeginQueue
    BY <2>4 DEF BeginQueue, Says, RunnerOK
  <2>5. ASSUME NEW r \in Rids, TakeJob(r) PROVE TrayOK'
    BY <2>5 DEF TakeJob, Says, RunnerOK
  <2>6. CASE Begin
    BY <2>6 DEF Begin, Says, RunnerOK
  <2>7. CASE CannotBegin
    BY <2>7 DEF CannotBegin, Says, RunnerOK
  <2>8. CASE Finish
    BY <2>8 DEF Finish, Says, RunnerOK
  <2>9. CASE Report
    BY <2>9 DEF Report, Says, RunnerOK
  <2>10. CASE ClearJob
    BY <2>10 DEF ClearJob, Says, RunnerOK
  <2>11. CASE StopRunner
    BY <2>11 DEF StopRunner, Says, RunnerOK
  <2>12. CASE Kill
    BY <2>12 DEF Kill, Says, RunnerOK
  <2>. QED
    BY <1>8, <2>1, <2>2, <2>3, <2>4, <2>5, <2>6, <2>7, <2>8, <2>9, <2>10, <2>11, <2>12 DEF
       Runs, RunnerStep
<1>. QED
  BY <1>1, <1>2, <1>3, <1>4, <1>5, <1>6, <1>7, <1>8, StepKinds

\* Every step keeps what the runner has in hand in its tray and unanswered.
LEMMA RunnerStateStep ==
    ASSUME TypeOK, HandOK, TrayOK, RunnerOK, CurOK, Next
    PROVE  RunnerOK'
<1>. USE DEF TypeOK, RunnerOK, RunnerStates, trayVars, spoolVars, runnerVars
<1>1. CASE Quiet
  BY <1>1, QuietFrame DEF Says
<1>2. CASE Reserves
  BY <1>2, ReservesFrame DEF Says
<1>3. CASE Settles
  BY <1>3, SettlesFrame, CurIsIdle DEF Says, CurOK
<1>4. CASE WriteJob
  BY <1>4 DEF WriteJob, CurOK, Says, HandOK, Between
<1>5. CASE WriteResult
  BY <1>5, CurIsIdle DEF WriteResult, Says
<1>6. CASE RemoveDone
  BY <1>6 DEF RemoveDone, Says
<1>7. ASSUME NEW r \in Rids, ExpireResult(r) PROVE RunnerOK'
  BY <1>7 DEF ExpireResult, Says
<1>8. CASE Runs
  <2>1. CASE StartRunner
    BY <2>1, NoneAssumption DEF StartRunner, Says, TrayOK, DoneKinds
  <2>2. ASSUME NEW r \in Rids, ReportLeftover(r) PROVE RunnerOK'
    BY <2>2, NoneAssumption DEF ReportLeftover, Says, TrayOK, DoneKinds
  <2>3. CASE ClearLeftover
    BY <2>3, NoneAssumption DEF ClearLeftover, Says, TrayOK, DoneKinds
  <2>4. CASE BeginQueue
    BY <2>4, NoneAssumption DEF BeginQueue, Says, TrayOK, DoneKinds
  <2>5. ASSUME NEW r \in Rids, TakeJob(r) PROVE RunnerOK'
    BY <2>5, NoneAssumption DEF TakeJob, Says, TrayOK, DoneKinds
  <2>6. CASE Begin
    BY <2>6, NoneAssumption DEF Begin, Says, TrayOK, DoneKinds
  <2>7. CASE CannotBegin
    BY <2>7, NoneAssumption DEF CannotBegin, Says, TrayOK, DoneKinds
  <2>8. CASE Finish
    BY <2>8, NoneAssumption DEF Finish, Says, TrayOK, DoneKinds
  <2>9. CASE Report
    BY <2>9, NoneAssumption DEF Report, Says, TrayOK, DoneKinds
  <2>10. CASE ClearJob
    BY <2>10, NoneAssumption DEF ClearJob, Says, TrayOK, DoneKinds
  <2>11. CASE StopRunner
    BY <2>11, NoneAssumption DEF StopRunner, Says, TrayOK, DoneKinds
  <2>12. CASE Kill
    BY <2>12, NoneAssumption DEF Kill, Says, TrayOK, DoneKinds
  <2>. QED
    BY <1>8, <2>1, <2>2, <2>3, <2>4, <2>5, <2>6, <2>7, <2>8, <2>9, <2>10, <2>11, <2>12 DEF
       Runs, RunnerStep
<1>. QED
  BY <1>1, <1>2, <1>3, <1>4, <1>5, <1>6, <1>7, <1>8, StepKinds

\* Every step keeps the answer to an open id what its done file says.
LEMMA ResultStep ==
    ASSUME TypeOK, HandOK, TrayOK, RunnerOK, ResultOK, CurOK, Next
    PROVE  ResultOK'
<1>. USE DEF TypeOK, ResultOK, NoTray, trayVars, spoolVars, runnerVars
<1>1. CASE Quiet
  BY <1>1, QuietFrame
<1>2. CASE Reserves
  BY <1>2, ReservesFrame DEF CurOK
<1>3. CASE Settles
  BY <1>3, SettlesFrame
<1>4. CASE WriteJob
  BY <1>4 DEF WriteJob, CurOK, HandOK, Between
<1>5. CASE WriteResult
  <2>1. /\ pc = "answer" /\ cur \in Rids /\ task \in Tasks /\ verdict \in Answers
        /\ results' = [results EXCEPT ![cur] = verdict]
        /\ UNCHANGED <<ledger, trayVars, runnerVars>>
    BY <1>5 DEF WriteResult, HandOK, Between, brokerVars
  <2>2. CASE task = "refuse"
    BY <2>1, <2>2 DEF CurOK, Answering, Ledgers
  <2>3. CASE task = "admit"
    BY <2>1, <2>3 DEF CurOK, Ledgers
  <2>4. CASE task = "recover"
    BY <2>1, <2>4 DEF CurOK, Answering, Ledgers
  <2>5. CASE task = "collect"
    BY <2>1, <2>5 DEF CurOK, Answering, Ledgers
  <2>. QED
    BY <2>1, <2>2, <2>3, <2>4, <2>5 DEF Tasks
<1>6. CASE RemoveDone
  BY <1>6 DEF RemoveDone, CurOK, Ledgers
<1>7. ASSUME NEW r \in Rids, ExpireResult(r) PROVE ResultOK'
  BY <1>7 DEF ExpireResult
<1>8. CASE Runs
  <2>1. CASE StartRunner
    BY <2>1, NoneAssumption DEF StartRunner, TrayOK, RunnerOK, DoneKinds
  <2>2. ASSUME NEW r \in Rids, ReportLeftover(r) PROVE ResultOK'
    BY <2>2, NoneAssumption DEF ReportLeftover, TrayOK, RunnerOK, DoneKinds
  <2>3. CASE ClearLeftover
    BY <2>3, NoneAssumption DEF ClearLeftover, TrayOK, RunnerOK, DoneKinds
  <2>4. CASE BeginQueue
    BY <2>4, NoneAssumption DEF BeginQueue, TrayOK, RunnerOK, DoneKinds
  <2>5. ASSUME NEW r \in Rids, TakeJob(r) PROVE ResultOK'
    BY <2>5, NoneAssumption DEF TakeJob, TrayOK, RunnerOK, DoneKinds
  <2>6. CASE Begin
    BY <2>6, NoneAssumption DEF Begin, TrayOK, RunnerOK, DoneKinds
  <2>7. CASE CannotBegin
    BY <2>7, NoneAssumption DEF CannotBegin, TrayOK, RunnerOK, DoneKinds
  <2>8. CASE Finish
    BY <2>8, NoneAssumption DEF Finish, TrayOK, RunnerOK, DoneKinds
  <2>9. CASE Report
    BY <2>9, NoneAssumption DEF Report, TrayOK, RunnerOK, DoneKinds
  <2>10. CASE ClearJob
    BY <2>10, NoneAssumption DEF ClearJob, TrayOK, RunnerOK, DoneKinds
  <2>11. CASE StopRunner
    BY <2>11, NoneAssumption DEF StopRunner, TrayOK, RunnerOK, DoneKinds
  <2>12. CASE Kill
    BY <2>12, NoneAssumption DEF Kill, TrayOK, RunnerOK, DoneKinds
  <2>. QED
    BY <1>8, <2>1, <2>2, <2>3, <2>4, <2>5, <2>6, <2>7, <2>8, <2>9, <2>10, <2>11, <2>12 DEF
       Runs, RunnerStep
<1>. QED
  BY <1>1, <1>2, <1>3, <1>4, <1>5, <1>6, <1>7, <1>8, StepKinds

\* Every step keeps what is closed answered.
LEMMA ClosedStep ==
    ASSUME TypeOK, HandOK, CurOK, ClosedIsAnswered, Next
    PROVE  ClosedIsAnswered'
<1>. USE DEF TypeOK, ClosedIsAnswered, trayVars, spoolVars
<1>1. CASE Quiet
  BY <1>1, QuietFrame
<1>2. CASE Reserves
  BY <1>2, ReservesFrame
<1>3. CASE Settles
  <2>1. results[cur] \in Answers \/ pc = "close"
    BY <1>3, SettlesFrame DEF CurOK, HandOK
  <2>2. pc = "close" => cur \in ledger.seen \ ledger.open
    BY DEF CurOK
  <2>. QED
    BY <1>3, <2>1, <2>2, SettlesFrame, NoneAssumption
<1>4. CASE Runs
  BY <1>4, RunnerFrame DEF Runs
<1>5. CASE WriteJob \/ RemoveDone
  BY <1>5 DEF WriteJob, RemoveDone
<1>6. CASE WriteResult
  BY <1>6, NoneAssumption DEF WriteResult, HandOK, Between
<1>7. ASSUME NEW r \in Rids, ExpireResult(r) PROVE ClosedIsAnswered'
  BY <1>7 DEF ExpireResult
<1>. QED
  BY <1>1, <1>2, <1>3, <1>4, <1>5, <1>6, <1>7, StepKinds

\* An id that has left the queue does not come back to it, one that is in no tray
\* stays so and is not started.
LEMMA RunsKeep ==
    ASSUME TypeOK, TrayOK, RunnerOK, Runs, NEW q \in Rids
    PROVE  /\ q \notin jobs => q \notin jobs'
           /\ q \notin jobs /\ q \notin running => q \notin running'
           /\ NoTray(q) => NoTray(q)' /\ starts'[q] = starts[q]
<1>. DEFINE Kept == /\ q \notin jobs => q \notin jobs'
                    /\ q \notin jobs /\ q \notin running => q \notin running'
                    /\ NoTray(q) => NoTray(q)' /\ starts'[q] = starts[q]
<1>. USE DEF TypeOK, NoTray, trayVars, spoolVars, runnerVars
<1>1. CASE StartRunner
  BY <1>1 DEF StartRunner, RunnerOK
<1>2. ASSUME NEW r \in Rids, ReportLeftover(r) PROVE Kept
  BY <1>2 DEF ReportLeftover, RunnerOK
<1>3. CASE ClearLeftover
  BY <1>3 DEF ClearLeftover, RunnerOK
<1>4. CASE BeginQueue
  BY <1>4 DEF BeginQueue, RunnerOK
<1>5. ASSUME NEW r \in Rids, TakeJob(r) PROVE Kept
  BY <1>5 DEF TakeJob, RunnerOK
<1>6. CASE Begin
  BY <1>6 DEF Begin, RunnerOK
<1>7. CASE CannotBegin
  BY <1>7 DEF CannotBegin, RunnerOK
<1>8. CASE Finish
  BY <1>8 DEF Finish, RunnerOK
<1>9. CASE Report
  BY <1>9 DEF Report, RunnerOK
<1>10. CASE ClearJob
  BY <1>10 DEF ClearJob, RunnerOK
<1>11. CASE StopRunner
  BY <1>11 DEF StopRunner, RunnerOK
<1>12. CASE Kill
  BY <1>12 DEF Kill, RunnerOK
<1>. QED
  BY <1>1, <1>2, <1>3, <1>4, <1>5, <1>6, <1>7, <1>8, <1>9, <1>10, <1>11, <1>12 DEF Runs,
     RunnerStep

\* With nothing in hand there is nothing to say of it.
LEMMA NothingInHand ==
    ASSUME pc' \in Between
    PROVE  CurOK'
BY DEF CurOK, Between, Answering

\* Every step keeps what is known of the id in hand.
LEMMA CurStep ==
    ASSUME TypeOK, HandOK, IndexOK, TrayOK, RunnerOK, CurOK, Next
    PROVE  CurOK'
<1>. USE DEF TypeOK, CurOK, Answering, spoolVars, trayVars, handVars, brokerVars, runnerVars
<1>1. CASE Wake
  BY <1>1, NothingInHand DEF Wake, Return, Between
<1>2. ASSUME NEW r \in Rids, TakeOpen(r) PROVE CurOK'
  BY <1>2 DEF TakeOpen, IndexOK, HandOK
<1>3. CASE Look
  <2>1. /\ pc = "look" /\ task = "recover" /\ cur \in Rids /\ cur \in ledger.open
        /\ looked > 0 => cur \notin jobs
        /\ looked > 1 => cur \notin running
        /\ UNCHANGED <<ledger, trayVars, results, starts>>
    BY <1>3 DEF Look, HandOK, Between
  <2>2. CASE pc' = "recover"
    BY <2>2, NothingInHand DEF Between
  <2>3. CASE /\ cur \notin InTray(LookOrder[looked + 1]) /\ looked < 2
             /\ looked' = looked + 1
             /\ UNCHANGED <<pc, cur, task, verdict>>
    <3>1. \/ looked = 0 /\ looked' = 1 /\ cur \notin jobs
          \/ looked = 1 /\ looked' = 2 /\ cur \notin running
      BY <2>3 DEF LookOrder, InTray
    <3>. QED
      BY <2>1, <2>3, <3>1
  <2>4. CASE /\ cur \notin InTray(LookOrder[looked + 1]) /\ looked = 2
             /\ pc' = "answer" /\ verdict' = "interrupted"
             /\ UNCHANGED <<cur, task>>
    <3>1. NoTray(cur)
      BY <2>1, <2>4 DEF LookOrder, InTray, NoTray
    <3>. QED
      BY <2>1, <2>4, <3>1 DEF NoTray
  <2>. QED
    BY <1>3, <2>1, <2>2, <2>3, <2>4 DEF Look, Return
<1>4. CASE ListRequests
  BY <1>4, NothingInHand DEF ListRequests, Return, Between
<1>5. ASSUME NEW r \in Rids, DropUnread(r) PROVE CurOK'
  BY <1>5 DEF DropUnread, Take
<1>6. ASSUME NEW r \in Rids, DropDuplicate(r) PROVE CurOK'
  BY <1>6 DEF DropDuplicate, Take
<1>7. ASSUME NEW r \in Rids, KeepOrphan(r) PROVE CurOK'
  BY <1>7 DEF KeepOrphan, Take, IndexOK
<1>8. ASSUME NEW r \in Rids, Admit(r) PROVE CurOK'
  BY <1>8 DEF Admit, Take, IndexOK
<1>9. ASSUME NEW r \in Rids, NEW reason \in Refusals, Refuse(r, reason) PROVE CurOK'
  BY <1>9 DEF Refuse, Take, IndexOK
<1>10. CASE Reserve
  <2>1. /\ pc = "reserve" /\ cur \in Rids /\ who \in Clients /\ today \in 1 .. MaxDay
        /\ ledger \in Ledgers /\ ledger.open \subseteq ledger.seen
        /\ cur \notin ledger.seen /\ results[cur] = None
    BY <1>10 DEF Reserve, HandOK, Between
  <2>2. ledger'.open = ledger.open \cup {cur}
    BY <1>10, <2>1, AppliedReserved DEF Reserve, Append
  <2>3. NoTray(cur) /\ starts[cur] = 0
    BY <2>1 DEF TrayOK, NoTray
  <2>. QED
    BY <1>10, <2>1, <2>2, <2>3 DEF Reserve, NoTray
<1>11. CASE ReserveRaises
  BY <1>11, NothingInHand DEF ReserveRaises, Return, Between
<1>12. CASE WriteJob
  BY <1>12 DEF WriteJob
<1>13. CASE WriteJobRaises
  BY <1>13 DEF WriteJobRaises, HandOK, NoTray
<1>14. CASE Unlink
  BY <1>14, NothingInHand DEF Unlink, Return, Between
<1>15. CASE WriteResult
  <2>1. /\ pc = "answer" /\ pc' = "record" /\ cur \in Rids /\ task \in Tasks
        /\ results'[cur] = verdict
        /\ UNCHANGED <<ledger, trayVars, starts, cur, task, verdict>>
    BY <1>15 DEF WriteResult, HandOK, Between, brokerVars
  <2>. QED
    BY <2>1 DEF Tasks, NoTray
<1>16. CASE WriteResultRaises
  BY <1>16, HowRaised DEF WriteResultRaises, Return, HandOK
<1>17. CASE Record
  <2>1. /\ pc = "record" /\ cur \in Rids /\ task \in Tasks /\ today \in 1 .. MaxDay
        /\ ledger \in Ledgers /\ ledger.open \subseteq ledger.seen
        /\ ledger' = Apply(ledger, Event, cur, who, today)
        /\ UNCHANGED <<results, trayVars>>
    BY <1>17 DEF Record, Append, HandOK, Between
  <2>2. CASE Event = "released"
    <3>1. pc' = "close" /\ UNCHANGED <<cur, task, verdict>>
      BY <1>17, <2>2 DEF Record
    <3>2. cur \in ledger'.seen \ ledger'.open
      BY <2>1, <2>2, AppliedReleased
    <3>. QED
      BY <2>1, <3>1, <3>2
  <2>3. CASE Event # "released" /\ task = "collect"
    <3>1. pc' = "undone" /\ UNCHANGED <<cur, task, verdict>>
      BY <1>17, <2>1, <2>3, HowFinished DEF Record
    <3>2. Event = "resulted"
      BY <2>3 DEF Event
    <3>3. cur \notin ledger'.open
      BY <2>1, <3>2, AppliedResulted
    <3>. QED
      BY <3>1, <3>3
  <2>4. CASE Event # "released" /\ task # "collect"
    <3>1. pc' \in {"recover", "unlink"}
      BY <1>17, <2>1, <2>4, HowFinished DEF Record, Return
    <3>. QED
      BY <3>1
  <2>. QED
    BY <2>2, <2>3, <2>4
<1>18. CASE RecordRaises
  BY <1>18, HowRaised DEF RecordRaises, Return, HandOK
<1>19. CASE Close
  <2>1. /\ pc = "close" /\ task = "collect" /\ cur \in Rids /\ today \in 1 .. MaxDay
        /\ ledger \in Ledgers /\ ledger.open \subseteq ledger.seen
        /\ ledger' = Apply(ledger, "resulted", cur, who, today)
    BY <1>19 DEF Close, Append, HandOK, Between
  <2>2. pc' = "undone" /\ cur' = cur
    BY <1>19, <2>1, HowFinished DEF Close, Tasks
  <2>3. cur \notin ledger'.open
    BY <2>1, AppliedResulted
  <2>. QED
    BY <2>2, <2>3
<1>20. CASE CloseRaises
  BY <1>20, HowRaised DEF CloseRaises, Return, HandOK, Tasks
<1>21. CASE ListDone
  BY <1>21, NothingInHand DEF ListDone, Return, Between
<1>22. CASE RemoveDone
  BY <1>22, NothingInHand DEF RemoveDone, Return, Between
<1>23. CASE EndPass
  BY <1>23, NothingInHand DEF EndPass, Return, Between
<1>24. ASSUME NEW r \in Rids, Collect(r) PROVE CurOK'
  BY <1>24 DEF Collect, IndexOK, NoTray
<1>25. ASSUME NEW r \in Rids, ExpireResult(r) PROVE CurOK'
  BY <1>25 DEF ExpireResult
<1>26. CASE Die
  BY <1>26, NothingInHand DEF Die, Return, Between
<1>27. CASE Gateway \/ NewDay
  BY <1>27, GatewayFrame DEF NewDay, NoTray
<1>28. CASE RunnerStep \/ Kill
  <2>1. UNCHANGED <<brokerVars, ledger, results>>
    BY <1>28, RunnerFrame
  <2>2. CASE cur = None
    BY <2>1, <2>2 DEF HandOK, Between
  <2>3. CASE cur \in Rids
    <3>. PICK q \in Rids : q = cur
      BY <2>3
    <3>1. /\ q \notin jobs => q \notin jobs'
          /\ q \notin jobs /\ q \notin running => q \notin running'
          /\ NoTray(q) => NoTray(q)' /\ starts'[q] = starts[q]
      BY <1>28, RunsKeep DEF Runs
    <3>2. done[q] # None => done'[q] = done[q]
      BY <1>28, DoneStays
    <3>3. UNCHANGED <<pc, task, cur, verdict, looked, ledger, results>> /\ q = cur
      BY <2>1
    <3>4. /\ cur' = q /\ cur = q /\ pc' = pc /\ task' = task /\ verdict' = verdict
          /\ looked' = looked /\ ledger' = ledger /\ results' = results
      BY <3>3
    <3>5. NoTray(q) => NoTray(cur)' /\ starts'[cur'] = starts[q]
      BY <3>1, <3>4
    <3>6. looked \in 0 .. 2
      OBVIOUS
    <3>. HIDE DEF TypeOK
    <3>. QED
      BY <3>1, <3>2, <3>4, <3>5, <3>6
  <2>. QED
    BY <2>2, <2>3
<1>. QED
  BY <1>1, <1>2, <1>3, <1>4, <1>5, <1>6, <1>7, <1>8, <1>9, <1>10, <1>11, <1>12, <1>13, <1>14,
     <1>15, <1>16, <1>17, <1>18, <1>19, <1>20, <1>21, <1>22, <1>23, <1>24, <1>25, <1>26, <1>27,
     <1>28 DEF Next, BrokerStep, RecoverStep, DrainStep, AnswerStep, CollectStep

-----------------------------------------------------------------------------
(***************************************************************************)
(* The holds and the quotas.                                               *)
(***************************************************************************)
\* The holds on a bill are finitely many.
LEMMA BillsAreFinite ==
    ASSUME BillOK
    PROVE  \A d : /\ IsFiniteSet(Bill(d)) /\ Cardinality(Bill(d)) \in Nat
                  /\ \A c : /\ IsFiniteSet(ClientBill(d, c))
                            /\ Cardinality(ClientBill(d, c)) \in Nat
<1>. TAKE d
<1>1. IsFiniteSet(ledger.held)
  BY DEF BillOK
<1>2. Bill(d) \subseteq ledger.held
  BY DEF Bill
<1>3. IsFiniteSet(Bill(d))
  BY <1>1, <1>2, FS_Subset
<1>4. \A c : ClientBill(d, c) \subseteq Bill(d)
  BY DEF ClientBill
<1>. QED
  BY <1>3, <1>4, FS_Subset, FS_CardinalityType

\* A step that adds no hold and puts nothing behind one keeps the bills.
LEMMA BillKept ==
    ASSUME TypeOK, BillOK, today' \in Nat, today <= today',
           ledger'.held \subseteq ledger.held, idx'.held \subseteq idx.held \cup ledger.held,
           \A h \in ledger'.held : h.rid \in Backed' => h.rid \in Backed,
           \A h \in ledger'.held : h \in idx.held => h \in idx'.held,
           ledger.seen \subseteq ledger'.seen,
           \A r \in ledger'.open \cup worked' : \E h \in ledger'.held : h.rid = r,
           pc' = "reserve" => ~OverQuota(idx', today', who')
    PROVE  BillOK'
<1>1. \A l \in {ledger', idx'} : IsFiniteSet(l.held) /\ \A h \in l.held : h.day <= today'
  <2>1. IsFiniteSet(ledger.held) /\ IsFiniteSet(idx.held)
    BY DEF BillOK
  <2>2. IsFiniteSet(idx.held \cup ledger.held)
    BY <2>1, FS_Union
  <2>3. IsFiniteSet(ledger'.held) /\ IsFiniteSet(idx'.held)
    BY <2>1, <2>2, FS_Subset
  <2>4. \A h \in idx.held \cup ledger.held : h.day \in Nat /\ h.day <= today
    BY DEF BillOK, TypeOK, Ledgers, Hold
  <2>5. today \in Nat
    BY DEF TypeOK
  <2>6. \A h \in idx.held \cup ledger.held : h.day <= today'
    BY <2>4, <2>5
  <2>. QED
    BY <2>3, <2>6
<1>2. \A h \in ledger'.held : h.rid \in ledger'.seen /\ (h.rid \in Backed' => h \in idx'.held)
  BY DEF BillOK
<1>3. ASSUME NEW d \in 1 .. MaxDay
      PROVE  /\ Cardinality(Bill(d)') <= PerBoxDay
             /\ \A c \in Clients : Cardinality(ClientBill(d, c)') <= PerClientDay
  <2>1. Bill(d)' \subseteq Bill(d)
    BY DEF Bill
  <2>2. /\ IsFiniteSet(Bill(d)) /\ Cardinality(Bill(d)) \in Nat
        /\ \A c : /\ IsFiniteSet(ClientBill(d, c))
                  /\ Cardinality(ClientBill(d, c)) \in Nat
    BY BillsAreFinite
  <2>3. Cardinality(Bill(d)') <= Cardinality(Bill(d)) /\ Cardinality(Bill(d)') \in Nat
    BY <2>1, <2>2, FS_Subset, FS_CardinalityType
  <2>4. ASSUME NEW c \in Clients
        PROVE  /\ Cardinality(ClientBill(d, c)')
                    <= Cardinality(ClientBill(d, c))
               /\ Cardinality(ClientBill(d, c)') \in Nat
    <3>1. ClientBill(d, c)' \subseteq ClientBill(d, c)
      BY <2>1 DEF ClientBill
    <3>. QED
      BY <2>2, <3>1, FS_Subset, FS_CardinalityType
  <2>5. /\ Cardinality(Bill(d)) <= PerBoxDay /\ PerBoxDay \in Nat /\ PerClientDay \in Nat
        /\ \A c \in Clients : Cardinality(ClientBill(d, c)) <= PerClientDay
    BY AppAssumption DEF BillOK
  <2>6. Cardinality(Bill(d)') <= PerBoxDay
    BY <2>2, <2>3, <2>5
  <2>7. ASSUME NEW c \in Clients
        PROVE  Cardinality(ClientBill(d, c)') <= PerClientDay
    BY <2>2, <2>4, <2>5
  <2>. QED
    BY <2>6, <2>7
<1>. QED
  BY <1>1, <1>2, <1>3 DEF BillOK

\* On a day nothing is held on yet, a quota that had room has room.
LEMMA NewDayHasRoom ==
    ASSUME TypeOK, BillOK, who \in Clients, ~OverQuota(idx, today, who)
    PROVE  ~OverQuota(idx, today + 1, who)
<1>1. \A h \in idx.held : h.day \in Nat /\ h.day <= today
  BY DEF BillOK, TypeOK, Ledgers, Hold
<1>2. today \in Nat
  BY DEF TypeOK
<1>3. /\ {h \in idx.held : h.day = today + 1 /\ h.client = who} = {}
      /\ {h \in idx.held : h.day = today + 1} = {}
  BY <1>1, <1>2
<1>4. CountClient(idx, today + 1, who) = 0 /\ CountBox(idx, today + 1) = 0
  BY <1>3, FS_EmptySet DEF CountClient, CountBox
<1>5. IsFiniteSet(idx.held)
  BY DEF BillOK
<1>6. /\ {h \in idx.held : h.day = today /\ h.client = who} \subseteq idx.held
      /\ {h \in idx.held : h.day = today} \subseteq idx.held
  OBVIOUS
<1>7. CountClient(idx, today, who) \in Nat /\ CountBox(idx, today) \in Nat
  BY <1>5, <1>6, FS_Subset, FS_CardinalityType DEF CountClient, CountBox
<1>8. PerClientDay \in Nat /\ PerBoxDay \in Nat
  BY AppAssumption
<1>. QED
  BY <1>4, <1>7, <1>8 DEF OverQuota

\* What a quiet step does to the index, the calendar and the admission in hand.
LEMMA QuietHolds ==
    ASSUME TypeOK, HandOK, BillOK, Quiet
    PROVE  /\ idx' \in {idx, ledger} /\ today' \in {today, today + 1}
           /\ pc' = "job" => pc = "job" /\ cur' = cur
           /\ pc' = "reserve" => ~OverQuota(idx', today', who')
<1>1. CASE NewDay
  <2>1. today' = today + 1 /\ UNCHANGED <<idx, pc, cur, who>>
    BY <1>1 DEF NewDay, brokerVars, handVars
  <2>2. pc = "reserve" => who \in Clients /\ ~OverQuota(idx, today, who)
    BY DEF BillOK, HandOK
  <2>. QED
    BY <2>1, <2>2, NewDayHasRoom
<1>2. ASSUME NEW r \in Rids, Admit(r)
      PROVE  /\ UNCHANGED <<idx, today>> /\ pc' = "reserve"
             /\ ~OverQuota(idx', today', who')
  BY <1>2 DEF Admit, Take
<1>3. CASE Gateway
  BY <1>3, GatewayFrame DEF brokerVars, handVars, BillOK
<1>4. CASE RecoverStep \/ ListRequests \/ WriteJobRaises \/ Unlink \/ ListDone \/ EndPass \/ Die
  BY <1>4 DEF RecoverStep, Wake, Look, TakeOpen, ListRequests, WriteJobRaises, Unlink, ListDone,
     EndPass, Die, Return
<1>5. CASE WriteResultRaises
  BY <1>5, HowRaised DEF WriteResultRaises, HandOK, Return
<1>6. ASSUME NEW r \in Rids,
             \/ DropUnread(r) \/ DropDuplicate(r) \/ KeepOrphan(r) \/ Collect(r)
             \/ \E reason \in Refusals : Refuse(r, reason)
      PROVE  UNCHANGED <<idx, today>> /\ pc' \notin {"job", "reserve"}
  BY <1>6 DEF DropUnread, DropDuplicate, KeepOrphan, Collect, Refuse, Take
<1>. QED
  BY <1>1, <1>2, <1>3, <1>4, <1>5, <1>6 DEF Quiet

\* A line about an answer takes from the index no hold it leaves in the ledger.
LEMMA SettlesHolds ==
    ASSUME TypeOK, HandOK, Settles
    PROVE  /\ idx'.held \subseteq idx.held
           /\ \A h \in ledger'.held : h \in idx.held => h \in idx'.held
           /\ pc' \notin {"job", "reserve"}
<1>. DEFINE event == IF pc = "close" THEN "resulted" ELSE Event
<1>1. /\ pc \in {"record", "close"}
      /\ \/ idx' = idx
         \/ /\ ledger' = Apply(ledger, event, cur, who, today)
            /\ idx' = Apply(idx, event, cur, who, today)
  BY DEF Settles, Record, RecordRaises, Close, CloseRaises, Append, AppendRaises
<1>2. cur \in Rids /\ today \in 1 .. MaxDay /\ ledger \in Ledgers /\ idx \in Ledgers
  BY <1>1 DEF HandOK, Between, TypeOK
<1>3. event \in {"released", "resulted", "refused"}
  BY DEF Event
<1>4. pc' \notin {"job", "reserve"}
  <2>1. task \in Tasks
    BY <1>1 DEF HandOK, Tasks
  <2>. QED
    BY <2>1, HowFinished, HowRaised DEF Settles, Record, RecordRaises, Close, CloseRaises, Return
<1>. HIDE DEF event
<1>5. CASE idx' = idx
  BY <1>4, <1>5
<1>6. CASE /\ ledger' = Apply(ledger, event, cur, who, today)
           /\ idx' = Apply(idx, event, cur, who, today)
  <2>1. CASE event = "released"
    BY <1>2, <1>4, <1>6, <2>1, AppliedReleased
  <2>2. CASE event = "resulted"
    BY <1>2, <1>4, <1>6, <2>2, AppliedResulted
  <2>3. CASE event = "refused"
    BY <1>2, <1>4, <1>6, <2>3, AppliedRefused
  <2>. QED
    BY <1>3, <2>1, <2>2, <2>3
<1>. QED
  BY <1>1, <1>5, <1>6

\* A set that is part of another one with one more element has at most one more.
LEMMA OneMore ==
    ASSUME NEW A, NEW B, NEW x, NEW n \in Nat, IsFiniteSet(A), B \subseteq A \cup {x},
           ~(Cardinality(A) >= n)
    PROVE  Cardinality(B) <= n
<1>1. /\ IsFiniteSet(A \cup {x}) /\ Cardinality(A) \in Nat
      /\ Cardinality(A \cup {x}) \in {Cardinality(A), Cardinality(A) + 1}
  BY FS_AddElement, FS_CardinalityType
<1>2. Cardinality(B) <= Cardinality(A \cup {x}) /\ Cardinality(B) \in Nat
  BY <1>1, FS_Subset, FS_CardinalityType
<1>. QED
  BY <1>1, <1>2

\* A reservation that was recorded keeps the bills: its hold is one that the
\* quotas had room for.
LEMMA BillReserved ==
    ASSUME TypeOK, HandOK, TrayOK, CurOK, BillOK, Reserve
    PROVE  BillOK'
<1>. DEFINE new == [rid |-> cur, day |-> today, client |-> who]
<1>1. /\ cur \in Rids /\ who \in Clients /\ today \in 1 .. MaxDay
      /\ ledger \in Ledgers /\ ledger.open \subseteq ledger.seen
      /\ idx \in Ledgers /\ idx.open \subseteq idx.seen
      /\ cur \notin ledger.seen /\ ~OverQuota(idx, today, who)
  BY DEF Reserve, HandOK, Between, TypeOK, CurOK, BillOK
<1>2. /\ ledger'.held = ledger.held \cup {new} /\ idx'.held = idx.held \cup {new}
      /\ ledger'.seen = ledger.seen \cup {cur} /\ ledger'.open = ledger.open \cup {cur}
  BY <1>1, AppliedReserved DEF Reserve, Append
<1>3. /\ pc = "reserve" /\ pc' = "job"
      /\ UNCHANGED <<jobs, running, worked, cur, who, today>>
  BY DEF Reserve, trayVars, handVars, runnerVars
<1>4. Backed' = Backed \cup {cur}
  BY <1>3 DEF Backed
<1>5. new.rid = cur /\ new.day = today /\ new.client = who
  OBVIOUS
<1>. HIDE DEF new
<1>6. IsFiniteSet(ledger.held) /\ IsFiniteSet(idx.held)
  BY DEF BillOK
<1>7. /\ \A h \in ledger.held : h.rid \in ledger.seen /\ h.day <= today
      /\ \A h \in idx.held : h.day <= today
      /\ \A h \in ledger.held : h.rid \in Backed' => h.rid \in Backed /\ h \in idx.held
  BY <1>1, <1>4 DEF BillOK
<1>8. \A l \in {ledger', idx'} : IsFiniteSet(l.held) /\ \A h \in l.held : h.day <= today'
  <2>1. IsFiniteSet(ledger'.held) /\ IsFiniteSet(idx'.held)
    BY <1>2, <1>6, FS_AddElement
  <2>2. \A h \in ledger'.held \cup idx'.held : h.day <= today'
    BY <1>1, <1>2, <1>3, <1>5, <1>7
  <2>. QED
    BY <2>1, <2>2
<1>9. \A h \in ledger'.held : h.rid \in ledger'.seen /\ (h.rid \in Backed' => h \in idx'.held)
  BY <1>2, <1>5, <1>7
<1>10. \A r \in ledger'.open \cup worked' : \E h \in ledger'.held : h.rid = r
  BY <1>2, <1>3, <1>5 DEF BillOK
<1>11. ASSUME NEW d \in 1 .. MaxDay
       PROVE  /\ Cardinality(Bill(d)') <= PerBoxDay
              /\ \A c \in Clients : Cardinality(ClientBill(d, c)') <= PerClientDay
  <2>1. /\ PerBoxDay \in Nat /\ PerClientDay \in Nat
        /\ Cardinality(Bill(d)) <= PerBoxDay
        /\ \A c \in Clients : Cardinality(ClientBill(d, c)) <= PerClientDay
        /\ Cardinality(Bill(d)) \in Nat /\ IsFiniteSet(Bill(d))
        /\ \A c : Cardinality(ClientBill(d, c)) \in Nat /\ IsFiniteSet(ClientBill(d, c))
    BY AppAssumption, BillsAreFinite DEF BillOK
  <2>2. \A h \in Bill(d)' : h = new \/ (h \in Bill(d) /\ h \in idx.held)
    BY <1>2, <1>7 DEF Bill
  <2>3. CASE d # today
    <3>1. Bill(d)' \subseteq Bill(d)
      BY <1>5, <2>2, <2>3 DEF Bill
    <3>2. \A c : ClientBill(d, c)' \subseteq ClientBill(d, c)
      BY <3>1 DEF ClientBill
    <3>3. Cardinality(Bill(d)') <= Cardinality(Bill(d)) /\ Cardinality(Bill(d)') \in Nat
      BY <2>1, <3>1, FS_Subset, FS_CardinalityType
    <3>4. \A c : /\ Cardinality(ClientBill(d, c)') <= Cardinality(ClientBill(d, c))
                 /\ Cardinality(ClientBill(d, c)') \in Nat
      BY <2>1, <3>2, FS_Subset, FS_CardinalityType
    <3>. QED
      BY <2>1, <3>3, <3>4
  <2>4. CASE d = today
    <3>. DEFINE held == {h \in idx.held : h.day = today}
                heldFor == {h \in idx.held : h.day = today /\ h.client = who}
    <3>1. IsFiniteSet(held) /\ IsFiniteSet(heldFor)
      <4>1. held \subseteq idx.held /\ heldFor \subseteq idx.held
        OBVIOUS
      <4>. QED
        BY <1>6, <4>1, FS_Subset
    <3>2. ~(Cardinality(held) >= PerBoxDay) /\ ~(Cardinality(heldFor) >= PerClientDay)
      BY <1>1 DEF OverQuota, CountBox, CountClient
    <3>3. Bill(d)' \subseteq held \cup {new}
      BY <2>2, <2>4 DEF Bill
    <3>4. ClientBill(d, who)' \subseteq heldFor \cup {new}
      BY <2>2, <2>4, <1>3 DEF Bill, ClientBill
    <3>. HIDE DEF held, heldFor
    <3>5. Cardinality(Bill(d)') <= PerBoxDay
      BY <2>1, <3>1, <3>2, <3>3, OneMore
    <3>6. Cardinality(ClientBill(d, who)') <= PerClientDay
      BY <2>1, <3>1, <3>2, <3>4, OneMore
    <3>7. ASSUME NEW c \in Clients, c # who
          PROVE  Cardinality(ClientBill(d, c)') <= PerClientDay
      <4>1. ClientBill(d, c)' \subseteq ClientBill(d, c)
        BY <1>5, <2>2, <3>7 DEF ClientBill
      <4>2. /\ Cardinality(ClientBill(d, c)') <= Cardinality(ClientBill(d, c))
            /\ Cardinality(ClientBill(d, c)') \in Nat
        BY <2>1, <4>1, FS_Subset, FS_CardinalityType
      <4>. QED
        BY <2>1, <4>2
    <3>. QED
      BY <3>5, <3>6, <3>7, <1>3
  <2>. QED
    BY <2>3, <2>4
<1>. QED
  BY <1>3, <1>8, <1>9, <1>10, <1>11 DEF BillOK

\* A reservation whose broker does not know that it was recorded keeps them, too:
\* no work will come of it.
LEMMA BillReserveRaised ==
    ASSUME TypeOK, HandOK, TrayOK, CurOK, BillOK, ReserveRaises
    PROVE  BillOK'
<1>. DEFINE new == [rid |-> cur, day |-> today, client |-> who]
<1>1. /\ cur \in Rids /\ who \in Clients /\ today \in 1 .. MaxDay
      /\ ledger \in Ledgers /\ ledger.open \subseteq ledger.seen /\ cur \notin ledger.seen
  BY DEF ReserveRaises, HandOK, Between, TypeOK, CurOK
<1>2. \/ ledger' = ledger
      \/ /\ ledger'.held = ledger.held \cup {new}
         /\ ledger'.seen = ledger.seen \cup {cur} /\ ledger'.open = ledger.open \cup {cur}
  BY <1>1, AppliedReserved DEF ReserveRaises, AppendRaises
<1>3. /\ pc = "reserve" /\ pc' = "drain"
      /\ UNCHANGED <<jobs, running, worked, today, idx>>
  BY DEF ReserveRaises, AppendRaises, Return, trayVars, runnerVars
<1>4. Backed' = Backed /\ cur \notin Backed
  BY <1>1, <1>3 DEF Backed, TrayOK, TypeOK
<1>5. new.rid = cur /\ new.day = today
  OBVIOUS
<1>. HIDE DEF new
<1>6. CASE ledger' = ledger
  BY <1>3, <1>4, <1>6 DEF BillOK, Bill, ClientBill
<1>7. CASE /\ ledger'.held = ledger.held \cup {new}
           /\ ledger'.seen = ledger.seen \cup {cur} /\ ledger'.open = ledger.open \cup {cur}
  <2>1. \A d : Bill(d)' = Bill(d)
    BY <1>4, <1>5, <1>7 DEF Bill
  <2>2. \A d, c : ClientBill(d, c)' = ClientBill(d, c)
    BY <2>1 DEF ClientBill
  <2>3. \A l \in {ledger', idx'} : IsFiniteSet(l.held) /\ \A h \in l.held : h.day <= today'
    <3>1. IsFiniteSet(ledger.held) /\ IsFiniteSet(idx.held)
      BY DEF BillOK
    <3>2. IsFiniteSet(ledger'.held)
      <4>1. IsFiniteSet(ledger.held \cup {new})
        BY <3>1, FS_AddElement
      <4>. QED
        BY <1>7, <4>1
    <3>3. \A h \in ledger'.held \cup idx'.held : h.day <= today'
      BY <1>1, <1>3, <1>5, <1>7 DEF BillOK
    <3>. QED
      BY <1>3, <3>1, <3>2, <3>3
  <2>4. \A h \in ledger'.held : h.rid \in ledger'.seen /\ (h.rid \in Backed' => h \in idx'.held)
    BY <1>3, <1>4, <1>5, <1>7 DEF BillOK
  <2>5. \A r \in ledger'.open \cup worked' : \E h \in ledger'.held : h.rid = r
    BY <1>3, <1>5, <1>7 DEF BillOK
  <2>. QED
    BY <1>3, <2>1, <2>2, <2>3, <2>4, <2>5 DEF BillOK
<1>. QED
  BY <1>2, <1>6, <1>7

\* The runner works on what was in the queue, and that was open.
LEMMA RunsBacked ==
    ASSUME TypeOK, TrayOK, RunnerOK, Runs
    PROVE  /\ jobs' \cup running' \cup worked' \subseteq jobs \cup running \cup worked
           /\ worked' \subseteq worked \cup ledger.open
           /\ UNCHANGED <<ledger, today, idx, pc, cur, who>>
<1>. USE DEF trayVars, spoolVars, runnerVars, brokerVars, handVars
<1>1. CASE StartRunner \/ ClearLeftover \/ BeginQueue
  BY <1>1 DEF StartRunner, ClearLeftover, BeginQueue
<1>2. CASE Begin
  BY <1>2 DEF Begin, RunnerOK
<1>3. CASE CannotBegin \/ Finish \/ Report
  BY <1>3 DEF CannotBegin, Finish, Report
<1>4. CASE ClearJob \/ StopRunner \/ Kill
  BY <1>4 DEF ClearJob, StopRunner, Kill
<1>5. ASSUME NEW r \in Rids, ReportLeftover(r) \/ TakeJob(r)
      PROVE  /\ jobs' \cup running' \cup worked' \subseteq jobs \cup running \cup worked
             /\ UNCHANGED <<worked, ledger, today, idx, pc, cur, who>>
  BY <1>5 DEF ReportLeftover, TakeJob
<1>. QED
  BY <1>1, <1>2, <1>3, <1>4, <1>5 DEF Runs, RunnerStep

\* Every step keeps the bills.
LEMMA BillStep ==
    ASSUME TypeOK, HandOK, TrayOK, RunnerOK, CurOK, BillOK, Next
    PROVE  BillOK'
<1>1. today \in Nat
  BY DEF TypeOK
<1>2. /\ \A r \in ledger.open \cup worked : \E h \in ledger.held : h.rid = r
      /\ pc = "reserve" => ~OverQuota(idx, today, who)
  BY DEF BillOK
<1>3. CASE Quiet
  <2>1. /\ UNCHANGED <<ledger, jobs, running, worked>>
        /\ idx' \in {idx, ledger} /\ today' \in {today, today + 1}
        /\ pc' = "job" => pc = "job" /\ cur' = cur
        /\ pc' = "reserve" => ~OverQuota(idx', today', who')
    BY <1>3, QuietFrame, QuietHolds DEF trayVars, runnerVars
  <2>2. Backed' \subseteq Backed
    BY <2>1 DEF Backed
  <2>3. /\ today' \in Nat /\ today <= today'
        /\ idx'.held \subseteq idx.held \cup ledger.held
        /\ \A h \in ledger'.held : h \in idx.held => h \in idx'.held
    BY <1>1, <2>1
  <2>. QED
    BY <1>2, <2>1, <2>2, <2>3, BillKept
<1>4. CASE Reserves
  BY <1>4, BillReserved, BillReserveRaised DEF Reserves
<1>5. CASE Settles
  <2>1. /\ UNCHANGED <<jobs, running, worked, today>> /\ cur \in Rids
        /\ idx'.held \subseteq idx.held
        /\ \A h \in ledger'.held : h \in idx.held => h \in idx'.held
        /\ pc' \notin {"job", "reserve"}
    BY <1>5, SettlesFrame, SettlesHolds DEF trayVars, runnerVars
  <2>2. Backed' \subseteq Backed
    BY <2>1 DEF Backed
  <2>3. /\ ledger'.held \subseteq ledger.held /\ ledger.seen \subseteq ledger'.seen
        /\ \A r \in ledger'.open \cup worked' : \E h \in ledger'.held : h.rid = r
    <3>1. CASE ledger' = ledger
      BY <1>2, <2>1, <3>1
    <3>2. CASE /\ ledger'.seen = ledger.seen \cup {cur} /\ ledger'.held = ledger.held
               /\ ledger'.open \subseteq ledger.open
      BY <1>2, <2>1, <3>2
    <3>3. CASE /\ ledger'.seen = ledger.seen \cup {cur}
               /\ ledger'.held = {h \in ledger.held : h.rid # cur}
               /\ ledger'.open = ledger.open \ {cur}
               /\ pc = "record" /\ task = "collect" /\ verdict = "busy"
      <4>1. cur \notin worked
        <5>1. done[cur] # None /\ MapDone(done[cur]) = "busy"
          BY <3>3 DEF CurOK, Answering
        <5>2. done[cur] = "busy"
          BY <5>1 DEF MapDone
        <5>. QED
          BY <2>1, <5>1, <5>2 DEF TrayOK, Says
      <4>. QED
        BY <1>2, <2>1, <3>3, <4>1
    <3>. QED
      BY <1>5, <3>1, <3>2, <3>3, SettlesFrame
  <2>. QED
    BY <1>1, <2>1, <2>2, <2>3, BillKept
<1>6. CASE WriteJob
  <2>1. /\ UNCHANGED <<running, worked, ledger, idx, today, cur>>
        /\ jobs' = jobs \cup {cur} /\ pc = "job" /\ pc' = "unlink"
    BY <1>6 DEF WriteJob, trayVars, runnerVars, handVars
  <2>2. Backed' \subseteq Backed
    BY <2>1 DEF Backed
  <2>. QED
    BY <1>1, <1>2, <2>1, <2>2, BillKept
<1>7. CASE WriteResult \/ RemoveDone \/ \E r \in Rids : ExpireResult(r)
  <2>1. /\ UNCHANGED <<jobs, running, worked, ledger, idx, today>>
        /\ pc' \notin {"job", "reserve"}
    BY <1>7 DEF WriteResult, RemoveDone, ExpireResult, Return, trayVars, runnerVars, brokerVars
  <2>2. Backed' \subseteq Backed
    BY <2>1 DEF Backed
  <2>. QED
    BY <1>1, <1>2, <2>1, <2>2, BillKept
<1>8. CASE Runs
  <2>1. /\ jobs' \cup running' \cup worked' \subseteq jobs \cup running \cup worked
        /\ worked' \subseteq worked \cup ledger.open
        /\ UNCHANGED <<ledger, today, idx, pc, cur, who>>
    BY <1>8, RunsBacked
  <2>2. Backed' \subseteq Backed
    BY <2>1 DEF Backed
  <2>3. \A r \in ledger'.open \cup worked' : \E h \in ledger'.held : h.rid = r
    BY <1>2, <2>1
  <2>4. pc' = "reserve" => ~OverQuota(idx', today', who')
    BY <1>2, <2>1
  <2>. QED
    BY <1>1, <2>1, <2>2, <2>3, <2>4, BillKept
<1>. QED
  BY <1>3, <1>4, <1>5, <1>6, <1>7, <1>8, StepKinds

-----------------------------------------------------------------------------
(***************************************************************************)
(* The invariant.                                                          *)
(***************************************************************************)
\* An empty spool, empty trays and an empty ledger are a good beginning.
LEMMA InitEstablishes == Init => AppInv
<1>. SUFFICES ASSUME Init PROVE AppInv
  OBVIOUS
<1>. USE DEF Init
<1>1. TypeOK
  BY AppAssumption, EmptyIsLedger DEF TypeOK, EmptyLedger, BrokerStates, RunnerStates
<1>2. HandOK /\ IndexOK /\ RunnerOK /\ CurOK
  BY DEF HandOK, Between, IndexOK, RunnerOK, CurOK, Answering
<1>3. TrayOK /\ ResultOK /\ ClosedIsAnswered
  BY DEF TrayOK, Says, ResultOK, ClosedIsAnswered, EmptyLedger
<1>4. BillOK
  <2>1. ledger.held = {} /\ idx.held = {} /\ ledger.open = {}
    BY DEF EmptyLedger
  <2>2. \A d : Bill(d) = {}
    BY <2>1 DEF Bill
  <2>3. \A d, c : ClientBill(d, c) = {}
    BY <2>2 DEF ClientBill
  <2>. QED
    BY <2>1, <2>2, <2>3, FS_EmptySet, AppAssumption DEF BillOK
<1>. QED
  BY <1>1, <1>2, <1>3, <1>4 DEF AppInv

\* Every step, and every stutter, keeps all its parts.
LEMMA NextKeeps == AppInv /\ [Next]_vars => AppInv'
<1>. SUFFICES ASSUME AppInv, [Next]_vars PROVE AppInv'
  OBVIOUS
<1>1. CASE Next
  BY <1>1, TypeStep, HandStep, IndexStep, TrayStep, RunnerStateStep, ResultStep, CurStep, BillStep,
     ClosedStep DEF AppInv
<1>2. CASE UNCHANGED vars
  <2>. USE <1>2 DEF vars, spoolVars, trayVars, brokerVars, handVars, runnerVars, AppInv
  <2>1. TypeOK' /\ HandOK' /\ IndexOK' /\ RunnerOK' /\ CurOK'
    BY DEF TypeOK, HandOK, IndexOK, RunnerOK, CurOK, Answering, Says, NoTray
  <2>2. TrayOK' /\ ResultOK' /\ ClosedIsAnswered'
    BY DEF TrayOK, Says, ResultOK, NoTray, ClosedIsAnswered
  <2>3. BillOK'
    BY DEF BillOK, Bill, ClientBill, Backed
  <2>. QED
    BY <2>1, <2>2, <2>3
<1>. QED
  BY <1>1, <1>2

\* The invariant holds in every reachable state.
THEOREM AppInvAlways == Spec => []AppInv
BY InitEstablishes, NextKeeps, PTL DEF Spec

\* No command of an id is started twice, over any number of deaths of broker and
\* runner and whatever is replayed (bin/hermes-app-runner.py, run_all).
THEOREM OneStartAlways == Spec => []AtMostOneStart
<1>1. AppInv => AtMostOneStart
  BY DEF AppInv, TrayOK, AtMostOneStart
<1>. QED
  BY <1>1, AppInvAlways, PTL

\* An id that has its answer has no job left, and the runner is not about to
\* start it nor inside its command (bin/hermes-app-broker.py, recover).
THEOREM AnsweredIsOverAlways == Spec => []AnsweredIsOver
<1>1. AppInv => AnsweredIsOver
  <2>. SUFFICES ASSUME AppInv, NEW r \in Rids, results[r] # None
                PROVE  r \notin jobs /\ (rcur = r => rpc \in {"clear", "reported"})
    BY DEF AnsweredIsOver
  <2>1. r # None
    BY NoneAssumption
  <2>. QED
    BY <2>1 DEF AppInv, TypeOK, RunnerStates, TrayOK, RunnerOK
<1>. QED
  BY <1>1, AppInvAlways, PTL

\* Work is on the bill of the day it was admitted on, the bills are within the
\* quotas, and what the ledger closed has been answered.
THEOREM LedgerInvAlways == Spec => []LedgerInv
<1>1. AppInv => LedgerInv
  <2>. SUFFICES ASSUME AppInv PROVE LedgerInv
    OBVIOUS
  <2>. DEFINE charged == {h \in ledger.held : h.rid \in worked}
  <2>1. BillOK /\ TypeOK
    BY DEF AppInv
  <2>2. \A r \in worked : \E h \in charged : h.rid = r
    BY <2>1 DEF BillOK
  <2>3. ASSUME NEW d \in 1 .. MaxDay
        PROVE  /\ Cardinality({h \in charged : h.day = d}) <= PerBoxDay
               /\ \A c \in Clients :
                     Cardinality({h \in charged : h.day = d /\ h.client = c}) <= PerClientDay
    <3>. DEFINE ofDay == {h \in charged : h.day = d}
                ofClient(c) == {h \in charged : h.day = d /\ h.client = c}
    <3>1. ofDay \subseteq Bill(d) /\ \A c : ofClient(c) \subseteq ClientBill(d, c)
      BY DEF Bill, ClientBill, Backed
    <3>2. /\ Cardinality(Bill(d)) <= PerBoxDay /\ PerBoxDay \in Nat /\ PerClientDay \in Nat
          /\ \A c \in Clients : Cardinality(ClientBill(d, c)) <= PerClientDay
      BY <2>1, AppAssumption DEF BillOK
    <3>3. /\ IsFiniteSet(Bill(d)) /\ Cardinality(Bill(d)) \in Nat
          /\ \A c : /\ IsFiniteSet(ClientBill(d, c))
                    /\ Cardinality(ClientBill(d, c)) \in Nat
      BY <2>1, BillsAreFinite
    <3>. HIDE DEF ofDay, ofClient
    <3>4. Cardinality(ofDay) <= Cardinality(Bill(d)) /\ Cardinality(ofDay) \in Nat
      BY <3>1, <3>3, FS_Subset, FS_CardinalityType
    <3>5. ASSUME NEW c \in Clients
          PROVE  Cardinality(ofClient(c)) <= PerClientDay
      <4>1. /\ Cardinality(ofClient(c)) <= Cardinality(ClientBill(d, c))
            /\ Cardinality(ofClient(c)) \in Nat
        BY <3>1, <3>3, FS_Subset, FS_CardinalityType
      <4>. QED
        BY <3>2, <3>3, <4>1
    <3>6. Cardinality(ofDay) <= PerBoxDay
      BY <3>2, <3>3, <3>4
    <3>. QED
      BY <3>5, <3>6 DEF ofDay, ofClient
  <2>4. WorkIsCharged
    BY <2>2, <2>3 DEF WorkIsCharged
  <2>. QED
    BY <2>4 DEF AppInv, LedgerInv
<1>. QED
  BY <1>1, AppInvAlways, PTL

-----------------------------------------------------------------------------
(***************************************************************************)
(* The chat-trigger rail implements JobPromise, while its results last, for *)
(* every value of its constants: the proof that KeepsPromise holds.        *)
(***************************************************************************)

\* A hold on the ledger is what tells a booked id from a new one.
Booked(r) == \E h \in ledger.held : h.rid = r

-----------------------------------------------------------------------------
(***************************************************************************)
(* What the stage of an id is, and what keeps it.                          *)
(***************************************************************************)
\* An id that was started worked or was turned away; one that was not is booked
\* or new.
LEMMA StageIs ==
    ASSUME TypeOK, TrayOK, NEW r \in Rids
    PROVE  /\ r \in worked => starts[r] = 1 /\ Stage(r) = "worked"
           /\ starts[r] = 1 /\ r \notin worked => Stage(r) = "turned away"
           /\ starts[r] = 0 /\ Booked(r) => Stage(r) = "booked"
           /\ starts[r] = 0 /\ ~Booked(r) => Stage(r) = "new"
           /\ starts[r] \in {0, 1}
<1>1. starts[r] \in Nat /\ starts[r] <= 1 /\ (r \in worked => starts[r] = 1)
  BY DEF TypeOK, TrayOK
<1>2. starts[r] \in {0, 1}
  BY <1>1
<1>. QED
  BY <1>1, <1>2 DEF Stage, Booked

\* The stage is a matter of starts, of work and of holds.
LEMMA StageKept ==
    ASSUME NEW r \in Rids, starts'[r] = starts[r], r \in worked' <=> r \in worked,
           starts[r] = 0 => (Booked(r)' <=> Booked(r))
    PROVE  Stage(r)' = Stage(r)
BY DEF Stage, Booked

\* A step that keeps stages and answers stutters.
LEMMA StutterMaps ==
    ASSUME \A r \in Rids : Stage(r)' = Stage(r), results' = results
    PROVE  UNCHANGED Promise!promiseVars
BY DEF Promise!promiseVars

\* A step of one unanswered id from stage to stage.
LEMMA ProgressMaps ==
    ASSUME NEW r \in Rids, results[r] = None, results' = results,
           <<Stage(r), Stage(r)'>> \in Promise!Moves,
           \A q \in Rids \ {r} : Stage(q)' = Stage(q)
    PROVE  Promise!PromiseNext
BY DEF Promise!PromiseNext, Promise!Progress

\* An answer that is true.
LEMMA AnswerMaps ==
    ASSUME TypeOK, NEW r \in Rids, NEW a, a # None, results' = [results EXCEPT ![r] = a],
           \/ results[r] = None
           \/ results[r] = "internal" /\ a = "interrupted" /\ Stage(r) = "booked",
           Promise!Truth(r, a), \A q \in Rids : Stage(q)' = Stage(q)
    PROVE  Promise!PromiseNext
<1>1. results'[r] = a
  BY DEF TypeOK
<1>. QED
  BY <1>1 DEF Promise!PromiseNext, Promise!Answer

-----------------------------------------------------------------------------
(***************************************************************************)
(* The steps.                                                              *)
(***************************************************************************)
\* Every open id has a hold.
LEMMA OpenIsBooked ==
    ASSUME BillOK, NEW r \in ledger.open
    PROVE  Booked(r)
BY DEF BillOK, Booked

\* An id the ledger does not know is new.
LEMMA UnseenIsNew ==
    ASSUME TypeOK, TrayOK, BillOK, NEW r \in Rids, r \notin ledger.seen
    PROVE  starts[r] = 0 /\ ~Booked(r) /\ Stage(r) = "new"
<1>1. ~Booked(r)
  BY DEF Booked, BillOK
<1>2. starts[r] = 0
  BY DEF TrayOK
<1>. QED
  BY <1>1, <1>2, StageIs

\* A reservation books a new id.
LEMMA ReservesMaps ==
    ASSUME AppInv, Reserves
    PROVE  [Promise!PromiseNext]_Promise!promiseVars
<1>. USE DEF AppInv
<1>1. /\ pc = "reserve" /\ cur \in Rids /\ results' = results
      /\ UNCHANGED <<starts, worked>>
  BY ReservesFrame DEF runnerVars
<1>2. cur \notin ledger.seen /\ results[cur] = None
  BY <1>1 DEF CurOK
<1>3. CASE ledger' = ledger
  <2>1. \A r \in Rids : Stage(r)' = Stage(r)
    BY <1>1, <1>3, StageKept DEF Booked
  <2>. QED
    BY <1>1, <2>1, StutterMaps
<1>4. CASE ledger'.held = ledger.held \cup {[rid |-> cur, day |-> today, client |-> who]}
  <2>. DEFINE new == [rid |-> cur, day |-> today, client |-> who]
  <2>1. PICK q \in Rids : q = cur
    BY <1>1
  <2>2. new.rid = q /\ ledger'.held = ledger.held \cup {new}
    BY <1>4, <2>1
  <2>. HIDE DEF new
  <2>3. \A r \in Rids \ {q} : Booked(r)' <=> Booked(r)
    BY <2>2 DEF Booked
  <2>4. \A r \in Rids \ {q} : Stage(r)' = Stage(r)
    BY <1>1, <2>3, StageKept
  <2>5. Booked(q)'
    BY <2>2 DEF Booked
  <2>6. Stage(q) = "new" /\ starts[q] = 0 /\ q \notin worked
    BY <1>2, <2>1, UnseenIsNew, StageIs
  <2>7. Stage(q)' = "booked"
    <3>1. starts'[q] = 0
      BY <1>1, <2>6
    <3>. QED
      BY <2>5, <3>1 DEF Stage, Booked
  <2>8. <<Stage(q), Stage(q)'>> \in Promise!Moves
    BY <2>6, <2>7 DEF Promise!Moves
  <2>. QED
    BY <1>1, <1>2, <2>1, <2>4, <2>8, ProgressMaps
<1>. QED
  BY <1>3, <1>4, ReservesFrame

\* A command that begins is that of a booked and unanswered id; it works, or it
\* is turned away.
LEMMA BeginMaps ==
    ASSUME AppInv, Begin
    PROVE  Promise!PromiseNext
<1>. USE DEF AppInv
<1>1. PICK q \in Rids : q = rcur
  BY DEF Begin, RunnerOK, TypeOK
<1>2. /\ q \in ledger.open /\ results[q] = None /\ starts[q] = 0
      /\ results' = results /\ ledger' = ledger
      /\ starts' = [starts EXCEPT ![q] = 1] /\ worked' \in {worked, worked \cup {q}}
  BY <1>1 DEF Begin, RunnerOK, TypeOK, spoolVars
<1>3. starts'[q] = 1 /\ \A r \in Rids \ {q} : starts'[r] = starts[r]
  BY <1>2 DEF TypeOK
<1>4. Stage(q) = "booked"
  BY <1>2, OpenIsBooked, StageIs
<1>5. Stage(q)' \in {"worked", "turned away"}
  BY <1>3 DEF Stage
<1>6. \A r \in Rids \ {q} : Stage(r)' = Stage(r)
  BY <1>2, <1>3, StageKept DEF Booked
<1>7. <<Stage(q), Stage(q)'>> \in Promise!Moves
  BY <1>4, <1>5 DEF Promise!Moves
<1>. QED
  BY <1>2, <1>6, <1>7, ProgressMaps

\* A line about an answer keeps stages: the holds it may give back are those of a
\* command that was turned away.
LEMMA SettlesMaps ==
    ASSUME AppInv, Settles
    PROVE  UNCHANGED Promise!promiseVars
<1>. USE DEF AppInv
<1>1. UNCHANGED <<results, starts, worked>> /\ cur \in Rids
  BY SettlesFrame DEF runnerVars
<1>2. \/ ledger'.held = ledger.held
      \/ ledger'.held = {h \in ledger.held : h.rid # cur} /\ starts[cur] = 1
  <2>1. CASE pc = "record" /\ task = "collect" /\ verdict = "busy"
    <3>1. done[cur] # None /\ MapDone(done[cur]) = "busy"
      BY <2>1 DEF CurOK, Answering
    <3>2. starts[cur] = 1
      BY <1>1, <3>1 DEF MapDone, TrayOK, Says
    <3>. QED
      BY <3>2, SettlesFrame
  <2>. QED
    BY <2>1, SettlesFrame
<1>3. \A r \in Rids : starts[r] = 0 => (Booked(r)' <=> Booked(r))
  BY <1>2 DEF Booked
<1>4. \A r \in Rids : Stage(r)' = Stage(r)
  BY <1>1, <1>3, StageKept
<1>. QED
  BY <1>1, <1>4, StutterMaps

\* What is written to results/ is the first answer, the same again, or the one
\* that recovery gives to an id whose job could not be written; and it is true.
LEMMA WriteResultMaps ==
    ASSUME AppInv, WriteResult
    PROVE  [Promise!PromiseNext]_Promise!promiseVars
<1>. USE DEF AppInv
<1>1. /\ pc = "answer" /\ cur \in Rids /\ task \in Tasks /\ verdict \in Answers
      /\ UNCHANGED <<starts, worked, ledger>>
  BY DEF WriteResult, HandOK, Between, TypeOK, runnerVars
<1>2. PICK q \in Rids : q = cur
  BY <1>1
<1>3. PICK a \in Answers : a = verdict
  BY <1>1
<1>4. results' = [results EXCEPT ![q] = a] /\ a # None
  BY <1>2, <1>3, NoneAssumption DEF WriteResult
<1>5. \A r \in Rids : Stage(r)' = Stage(r)
  BY <1>1, StageKept DEF Booked
<1>6. CASE results[q] = a
  <2>1. results' = results
    BY <1>4, <1>6 DEF TypeOK
  <2>. QED
    BY <1>5, <2>1, StutterMaps
<1>7. q \in ledger.open => Stage(q) # "new"
  BY OpenIsBooked, StageIs
<1>8. CASE task = "refuse"
  <2>1. results[q] = None /\ a \in Refusals /\ q \notin ledger.seen
    BY <1>1, <1>2, <1>3, <1>8 DEF CurOK, Answering
  <2>2. Stage(q) = "new"
    BY <2>1, UnseenIsNew
  <2>3. Promise!Truth(q, a)
    BY <2>1, <2>2 DEF Promise!Truth, Refusals
  <2>. QED
    BY <1>4, <1>5, <2>1, <2>3, AnswerMaps
<1>9. CASE task = "admit"
  <2>1. results[q] = None /\ a = "internal" /\ q \in ledger.open
    BY <1>1, <1>2, <1>3, <1>9 DEF CurOK
  <2>2. Promise!Truth(q, a)
    BY <1>7, <2>1 DEF Promise!Truth, Refusals
  <2>. QED
    BY <1>4, <1>5, <2>1, <2>2, AnswerMaps
<1>10. CASE task = "recover" /\ results[q] # a
  <2>1. a = "interrupted" /\ q \in ledger.open /\ NoTray(q)
    BY <1>1, <1>2, <1>3, <1>10 DEF CurOK, Answering
  <2>2. Promise!Truth(q, a)
    BY <1>7, <2>1 DEF Promise!Truth, Refusals
  <2>3. results[q] # None => results[q] = "internal" /\ starts[q] = 0
    BY <1>10, <2>1 DEF ResultOK, NoTray
  <2>4. starts[q] = 0 => Stage(q) = "booked"
    BY <2>1, OpenIsBooked, StageIs
  <2>. QED
    BY <1>4, <1>5, <2>1, <2>2, <2>3, <2>4, AnswerMaps
<1>11. CASE task = "collect" /\ results[q] # a
  <2>1. q \in ledger.open /\ done[q] \in DoneKinds /\ a = MapDone(done[q])
    BY <1>1, <1>2, <1>3, <1>11 DEF CurOK, Answering, TypeOK
  <2>2. done[q] # None
    BY <2>1, NoneAssumption
  <2>3. results[q] = None
    BY <1>11, <2>1, <2>2 DEF ResultOK, NoTray
  <2>4. Says(q, done[q]) /\ starts[q] \in {0, 1}
    BY <2>2, StageIs DEF TrayOK
  <2>5. /\ done[q] = "ok" => Stage(q) = "worked"
        /\ done[q] = "busy" => Stage(q) = "turned away"
        /\ done[q] = "timeout" => Stage(q) \in {"turned away", "worked"}
    BY <2>4, StageIs DEF Says
  <2>6. Promise!Truth(q, a)
    BY <1>7, <2>1, <2>5 DEF Promise!Truth, Refusals, MapDone, DoneKinds
  <2>. QED
    BY <1>4, <1>5, <2>3, <2>6, AnswerMaps
<1>. QED
  BY <1>1, <1>6, <1>8, <1>9, <1>10, <1>11 DEF Tasks

\* Whatever else the runner does is no stage.
LEMMA OtherRunsMap ==
    ASSUME AppInv, Runs, ~Begin
    PROVE  UNCHANGED Promise!promiseVars
<1>1. UNCHANGED <<results, starts, worked, ledger>>
  BY DEF Runs, RunnerStep, StartRunner, ReportLeftover, ClearLeftover, BeginQueue, TakeJob,
     CannotBegin, Finish, Report, ClearJob, StopRunner, Kill, spoolVars
<1>. QED
  BY <1>1, StageKept, StutterMaps DEF Booked

-----------------------------------------------------------------------------
(***************************************************************************)
(* The refinement.                                                         *)
(***************************************************************************)
\* In the beginning every id is new and unanswered.
LEMMA InitMaps == Init => Promise!PromiseInit
<1>. SUFFICES ASSUME Init PROVE Promise!PromiseInit
  OBVIOUS
<1>1. \A r \in Rids : Stage(r) = "new"
  BY DEF Init, EmptyLedger, Stage
<1>. QED
  BY <1>1 DEF Init, Promise!PromiseInit

\* Every step of the rail is a step of the promise, or none of its business.
LEMMA StepMaps ==
    ASSUME ~Expiry, AppInv, [Next]_vars
    PROVE  [Promise!PromiseNext]_Promise!promiseVars
<1>1. CASE UNCHANGED <<results, starts, worked, ledger>>
  BY <1>1, StageKept, StutterMaps DEF Booked
<1>2. CASE Quiet
  BY <1>1, <1>2, QuietFrame DEF runnerVars
<1>3. CASE WriteJob \/ RemoveDone
  BY <1>1, <1>3 DEF WriteJob, RemoveDone, spoolVars, runnerVars
<1>4. CASE \E r \in Rids : ExpireResult(r)
  BY <1>4 DEF ExpireResult
<1>5. CASE UNCHANGED vars
  BY <1>1, <1>5 DEF vars, spoolVars, runnerVars
<1>. QED
  BY <1>2, <1>3, <1>4, <1>5, StepKinds, ReservesMaps, BeginMaps, SettlesMaps, WriteResultMaps,
     OtherRunsMap

\* While results last, the rail keeps its promise: an id is booked once, started
\* at most once and only while it is unanswered, and its one answer is true of
\* what became of it (bin/hermes-app-broker.py and bin/hermes-app-runner.py).
THEOREM PromiseKept == ~Expiry => (Spec => KeepsPromise)
<1>. SUFFICES ASSUME ~Expiry PROVE Spec => KeepsPromise
  OBVIOUS
<1>1. AppInv /\ [Next]_vars => [Promise!PromiseNext]_Promise!promiseVars
  BY StepMaps
<1>. QED
  BY InitMaps, <1>1, AppInvAlways, PTL DEF Spec, KeepsPromise, Promise!PromiseSpec
=============================================================================
